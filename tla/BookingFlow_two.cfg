SPECIFICATION Spec
CONSTANTS
  r1 = r1
  r2 = r2
  Runs <- TwoRuns
  MaxSmartRetries = 0
  MaxLaunches = 2
  MaxCrashes = 1
  MaxExpiries = 0
  Marked = TRUE
SYMMETRY Symmetry
INVARIANT CheckpointHonest
CHECK_DEADLOCK TRUE
