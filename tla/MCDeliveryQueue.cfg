SPECIFICATION Spec
CONSTANTS
  r1 = r1
  r2 = r2
  Messages = {1, 2}
  BestEffort = {2}
  Reported = {2}
  Recoveries = {r1, r2}
  NoMessage = NoMessage
  MaxRetries = 2
  MaxStarts = 3
SYMMETRY Symmetry
CHECK_DEADLOCK FALSE
INVARIANTS
  NothingLost
  SettledForGood
  RetriesBounded
PROPERTY NoReplayAfterAck
