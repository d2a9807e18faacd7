SPECIFICATION Spec
CONSTANTS
  Focus = {"breaker"}
  Monitors = {m1, m2}
  Timeout = 5
  Interval = 2
  Clients = {c1, c2}
  Priorities = {0, 1}
  MaxId = 3
  Schedulers = {s1, s2, s3}
  MaxUpdate = 3
  Viewers = {v1, v2}
  MaxEntry = 3
  Callers = {r1, r2}
  Levels = {A1}
  Refreshers = {b1, b2}
  Names = {n1, n2}
  MaxRows = 2
  TTL = 2
  Latency = 1
  Proxies = {p1, p2}
  Flows = {f1, f2}
  Students = {a, b}
  Uploads = {a, b}
  Connections = {x}
  Cards = {g1, g2}
  k1 = k1
  k2 = k2
  Keys <- TwoKeys
  Unlevelled <- WithoutLevel
  Files <- OneInFile
  MaxKey = 3
  MaxSize = 2
  Early = 7
  BurstBefore = 1
  BurstAfter = 6
  Near = 1
  CheckEvery = 3
  StartMax = 2
  ApiMax = 1
  PageMax = 2
  RestMax = 4
  BurstRest = 1
  BackoffMax = 2
  Addresses = {h1}
  RateLimit = 2
  RateWindow = 2
  LockoutThreshold = 2
  Threshold <- BreakerThreshold
  Cooldown <- BreakerCooldown
  MaxFailures = 6
  Lockout = 1
  SessionLife = 1
  MaxToken = 2
  LastMoment = 2
PROPERTIES OneProbe
CHECK_DEADLOCK TRUE
