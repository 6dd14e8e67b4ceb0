SPECIFICATION MCSpec
CONSTANTS
  c1 = c1  c2 = c2  d1 = d1  d2 = d2  s1 = s1  s2 = s2  s3 = s3
  None = None
  Callers = {c1, c2}
  Dispatchers = {d1, d2}
  Sends = {s1, s2, s3}
  Settings <- AgentSettings
  High = 2
  Low = 1
  HighIn = 2
  LowIn = 1
VIEW View
CHECK_DEADLOCK FALSE
INVARIANTS CountsRight CompletedOnce
PROPERTIES EveryMessageAnswered SubscribersKept PublishEnds QueueDrains
           SendersAreAdmitted RequestsAreDispatched AgentStopEnds
