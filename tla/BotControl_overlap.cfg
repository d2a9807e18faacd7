SPECIFICATION FairSpec
CONSTANTS
  s1 = s1
  s2 = s2
  s3 = s3
  r1 = r1
  r2 = r2
  h1 = h1
  h2 = h2
  Runs <- TwoRuns
  Students <- TwoStudents
  Handlers <- OneHandler
  MaxConcurrent = 1
  RequeueMax = 0
  Retryable <- JustS1
  Scheduling = TRUE
  Impatient = TRUE
  DbMayFail = TRUE
INVARIANTS PermitsConserved
PROPERTIES StopEndsRuns
CHECK_DEADLOCK TRUE
