SPECIFICATION FairSpec
CONSTANTS
  r1 = r1
  r2 = r2
  Runs <- OneRun
  MaxSmartRetries = 2
  MaxLaunches = 3
  MaxCrashes = 2
  MaxExpiries = 1
  Marked = FALSE
INVARIANTS TypeOK StopBoundsWork NeverAheadOfStep
PROPERTIES RepeatOnlyAfterMisread StopTerminates
CHECK_DEADLOCK TRUE
