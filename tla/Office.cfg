SPECIFICATION MCSpec
CONSTANTS
  n1 = n1
  n2 = n2
  r1 = r1
  r2 = r2
  r3 = r3
  w1 = w1
  w2 = w2
  Nodes = {n1, n2}
  Requests = {r1, r2}
  Asker <- MCAsker
  Workers = {w1, w2}
  None = None
  StaleReads = TRUE
  MaxPresses = 2
  MayCrash = TRUE
  A = A
  C = C
  D = D
  G = G
  shuttle = shuttle
  through = through
  Routes <- MCRoutes
  Legs <- MCLegs
  Runs <- MCRuns
  Sits = 1
  Refill = 1
  Offers <- MCOffers
  MaxDue <- MCMaxDue
  MaxLate = 2
VIEW View
CHECK_DEADLOCK FALSE
INVARIANTS ShutdownInOrder TablesAgree
PROPERTIES BookedAhead TerminatesUndisturbed
