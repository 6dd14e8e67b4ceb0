SPECIFICATION FairSpec
CONSTANTS
  n1 = n1
  n2 = n2
  r1 = r1
  r2 = r2
  r3 = r3
  w1 = w1
  w2 = w2
  Nodes = {n1, n2}
  Requests = {r1, r2}
  Asker <- MCAsker
  Workers = {w1}
  None = None
  StaleReads = FALSE
  MaxPresses = 1
  MayCrash = FALSE
CHECK_DEADLOCK FALSE
PROPERTIES
  Terminates
