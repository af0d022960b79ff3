SPECIFICATION FairSpec
CONSTANTS
  main = main
  s1 = s1
  a1 = a1
  a2 = a2
  m1 = m1
  m2 = m2
  p1 = p1
  NoJob = NoJob
  Lanes = {main, s1}
  Jobs = {a1, a2, m1, m2, p1}
  Lane <- MCLane
  Inner <- MCInner
  Configurable = {main}
  Clearable = {s1}
  MaxCap = 2
  MaxResets = 1
INVARIANTS
  NoIdleCapacity
  OneRunPerSession
  SlotsAreBusyTasks
PROPERTIES
  StartsOnlyFromQueue
  ImplementsContract
  AcceptedWorkSettles
