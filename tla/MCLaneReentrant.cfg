SPECIFICATION Spec
CONSTANTS
  main = main
  s1 = s1
  r1 = r1
  r2 = r2
  r3 = r3
  p1 = p1
  NoJob = NoJob
  Lanes = {main, s1}
  Jobs = {r1, r2, r3, p1}
  Lane <- MCLane
  Inner <- MCInner
  Configurable = {main}
  Clearable = {s1}
  MaxCap = 2
  MaxResets = 1
INVARIANTS
  NoIdleCapacity
