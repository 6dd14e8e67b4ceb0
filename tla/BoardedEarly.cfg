SPECIFICATION Spec
CONSTANTS
  A = A
  B = B
  C = C
  fb = fb
  reg = reg
  Trains = {fb, reg}
  FB = {fb}
  Platforms = {A, B, C}
  Route <- MCRoute
  Entries <- MCEntries
  Home <- MCHome
  Offers <- MCOffers
  Travelers = {v1, v2}
  v1 = v1
  v2 = v2
  MaxDue = 5
PROPERTIES
  BoardsBookedRun
