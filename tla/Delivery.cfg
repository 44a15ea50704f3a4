SPECIFICATION Spec
CONSTANTS
  Events <- MCEvents
  HandlerCount <- MCHandlerCount
  Dispatches = {d1, d2}
  MaxAttempts = 3
  MaxStarts = 4
  NoEvent = NoEvent
  Calls = {c1, c2, c3}
  FailureThreshold = 3
  SuccessThreshold = 2
  MaxFailures = 6
  MaxForced = 2
  Letters <- MCLetters
  EventId <- MCEventId
  Workers <- MCWorkers
  Routes <- MCRoutes
  Registered <- MCRegistered
  Publishers = {p1, p2}
  MaxPublished = 2
  Keys = {k1}
  Writes = {w1, w2}
  MaxWritten = 3
  NoLetter = NoLetter
  NoKey = NoKey
  Uploads = {u1, u2}
  Infected = {u2}
  Jobs = {j1, j2}
  MaxDelivered = 3
  NoUpload = NoUpload
  Resources = {r1, r2}
  Versions = {v1, v2, v3}
  Hashes = {h1}
  Collections = {s1}
  Visits = {q1, q2}
  QuarantineAt = 3
  CollectionLimit = 2
  MaxBegun = 5
  Nothing = Nothing
INVARIANTS NothingLost OneWritePerKey VersionsCountUp ReportsQuarantine ShelvesInOrder
PROPERTIES ClosesAfterStreak Recovers UploadsSettle
CHECK_DEADLOCK FALSE
