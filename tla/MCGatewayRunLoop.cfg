SPECIFICATION FairRSpec
CONSTANTS
  Tasks = {t1, t2, t3}
  ExternalAllowed = TRUE
  MaxAsks = 3
INVARIANTS
  NoLockLeftBehind
  TurnsFinishFirst
  OwedIsArmed
PROPERTIES
  RequestsEnd
  RestartHappens
CHECK_DEADLOCK FALSE
