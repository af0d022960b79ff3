SPECIFICATION FairSpec
CONSTANTS
  g = g
  c = c
  t1 = t1
  t2 = t2
  u1 = u1
  Processes = {g, c}
  Tasks = {t1, t2, u1}
  Process <- MCProcess
  NoTask = NoTask
  NoFile = NoFile
  Reentrant = TRUE
  StartTimes = TRUE
  MaxCleans = 1
INVARIANTS
  SingleWriter
  RobbedOnlyAfterTrouble
  NoForgottenFile
PROPERTY DeadLocksAreReclaimed
CHECK_DEADLOCK FALSE
