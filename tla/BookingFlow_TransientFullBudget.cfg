SPECIFICATION Spec
CONSTANTS
  r1 = r1
  r2 = r2
  Runs <- OneRun
  MaxSmartRetries = 2
  MaxLaunches = 1
  MaxCrashes = 0
  MaxExpiries = 0
  Marked = FALSE
INVARIANT TransientFullBudget
CHECK_DEADLOCK TRUE
