SPECIFICATION MCSpec
CONSTANTS
  u1 = u1  u2 = u2  t1 = t1  t2 = t2  c1 = c1  c2 = c2  m1 = m1  m2 = m2
  None = None
  FramePayload = 2
  HeadSize = 1
  Users = {u1, u2}
  Targets = {t1}
  Channels = {c1, c2}
  Messages = {m1, m2}
  Header <- MCHeader
  Body <- MCBody
  Priority <- MCPriority
  ClosePriorities = {0, 2}
  Settings <- MCSettings
  InitialBlock = 1
  MaxPins = 3
CHECK_DEADLOCK FALSE
VIEW View
SYMMETRY Symmetry
INVARIANTS ReferencesCounted ToldWhatWasSent DeliveredWhole TableRight ShownRight
           RoundTrip OwnedOnce AllFreeOnList DispatchedRight
PROPERTIES NothingLost FailuresContained LocksKeep ReferencesStay
