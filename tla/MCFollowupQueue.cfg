SPECIFICATION FFairSpec
CONSTANTS
  d1 = d1
  d2 = d2
  d3 = d3
  d4 = d4
  q1 = q1
  q2 = q2
  Deliveries = {d1, d2, d3, d4}
  Queues = {q1, q2}
  NoQueue = NoQueue
  MessageId <- MCMessageId
  Route <- MCRoute
  Settings <- MCSettings
  Unroutable = {}
  DefaultCap = 2
  MaxFailures = 1
  MaxClears = 1
CHECK_DEADLOCK FALSE
INVARIANTS
  FTypeOK
  NoStrandedFollowup
  AcceptedOnce
PROPERTIES
  WithinCap
  QueueDrains
