SPECIFICATION MCSpec
CONSTANTS
  A = A
  B = B
  C = C
  fb = fb
  reg = reg
  Trains = {fb, reg}
  FB = {fb}
  Platforms = {A, B, C}
  Route <- MCRoute
  Entries <- MCEntries
  Home <- MCHome
  Offers <- MCOffers
  Travelers = {v1, v2}
  v1 = v1
  v2 = v2
  MaxDue = 5
  f1 = f1
  r1 = r1
  r2 = r2
  s1 = s1
  s2 = s2
VIEW View
CHECK_DEADLOCK FALSE
INVARIANTS TravelersAccounted OneExecutor PlatformsPaired
PROPERTIES TravelersServed PlatformInOrder EveryTrainStands EveryTrainRuns EveryTaskEnds
