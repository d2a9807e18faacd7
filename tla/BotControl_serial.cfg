SPECIFICATION Spec
CONSTANTS
  s1 = s1
  s2 = s2
  s3 = s3
  r1 = r1
  r2 = r2
  h1 = h1
  h2 = h2
  Runs <- TwoRuns
  Students <- ThreeStudents
  Handlers <- OneHandler
  MaxConcurrent = 2
  RequeueMax = 1
  Retryable = {}
  Scheduling = FALSE
  Impatient = FALSE
  DbMayFail = FALSE
INVARIANTS TypeOK RequeueBudget BoardSettled
PROPERTIES BookerSpec
CHECK_DEADLOCK TRUE
