SPECIFICATION Spec
CONSTANTS
  j1 = j1
  j2 = j2
  j3 = j3
  Jobs = {j1, j2, j3}
  Tokens <- MCTokens
  Caches = {10, 20}
  MaxWait = 150
INVARIANTS
  EachJobWaitsOnce
  NeverAboveItsBand
PROPERTIES
  HandsOutTheBest
SYMMETRY AnyOrder
