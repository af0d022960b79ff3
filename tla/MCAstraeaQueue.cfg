SPECIFICATION Spec
CONSTANTS
  main = main
  s1 = s1
  a1 = a1
  a2 = a2
  m1 = m1
  m2 = m2
  p1 = p1
  p2 = p2
  NoJob = NoJob
  NoLane = NoLane
  Lanes = {main, s1}
  Lane <- MCLane
  Inner <- MCInner
  Clearable = {s1}
  MaxCap = 2
  Jobs = {a1, a2, m1, p1, p2}
  Configurable = {main}
  MaxResets = 1
INVARIANTS
  LockIsOneJob
  PumpsToTheEnd
  SlotsAreBusyTasks
PROPERTIES
  ImplementsContract
