SPECIFICATION Spec
CONSTANTS
  Dispatchers = {"d1", "d2"}
  Names = {"x"}
  Callbacks = {1, 2, 3}
  Messages = {"m1", "m2"}
  ObjectName <- MCObjectName
  OneWay = {"m2"}
CHECK_DEADLOCK FALSE
PROPERTIES DispatchedToLiving
