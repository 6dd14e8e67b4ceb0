SPECIFICATION Spec
CONSTANTS
  Dispatchers = {"dispatcher"}
  Workers = {"worker"}
  Users = {}
  Consumers = {"consumer"}
  Closer = "closer"
  Nobody = "nobody"
  MaxLength = 2
  MaxMessages = 4
  MaxEvents = 2
CHECK_DEADLOCK FALSE
PROPERTIES MessagesDelivered
