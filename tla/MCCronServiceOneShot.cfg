SPECIFICATION Spec
CONSTANTS
  r1 = r1
  o1 = o1
  NoJob = NoJob
  NotLoaded = NotLoaded
  Recurring <- MCRecurring
  OneShots <- MCOneShots
  InitialJobs <- MCInitialJobs
  OneShotAt = 0
  MaxAttempts = 1
  MaxStarts = 2
  MaxTime = 1
  MaxOps = 0
INVARIANT InterruptedNotReplayed
CHECK_DEADLOCK FALSE
