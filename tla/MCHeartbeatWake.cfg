SPECIFICATION FairSpec
CONSTANTS
  s1 = s1
  b1 = b1
  b2 = b2
  Sessions = {s1}
  Urgencies = {3}
  Batches = {b1, b2}
  MaxStarts = 2
  MaxRequests = 1
  MaxRefusals = 2
CHECK_DEADLOCK FALSE
INVARIANTS
  PendingIsWatched
  NoWakeForgotten
  HeartbeatsKeepFiring
PROPERTY WakesAreAnswered
