SPECIFICATION HistorySpec
CONSTANTS
  f1 = f1
  r1 = r1
  r2 = r2
  elsewhere = elsewhere
  First_End = First_End
  Second_End = Second_End
  Trains = {f1, r1, r2}
  FB = {f1}
  Origins = {First_End, Second_End, elsewhere}
  MaxSpeed <- MCMaxSpeed
  Segment_Max_Speed = 2
  Max = 1
INVARIANTS GateExclusion OneWay NoCatchUp BoundedBypass
PROPERTIES ImplementsTrack EveryTrainPasses
CHECK_DEADLOCK FALSE
