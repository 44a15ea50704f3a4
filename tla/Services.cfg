SPECIFICATION ServicesSpec
CONSTANTS
  Production = prod
  Environments = {prod, staging}
  Requests = {q1, q2}
  StoredStages = {"PRODUCTION"}
  MaxRetries = 2
  MaxVersion = 3
  None = None
  Posts = {p1}
  Students = {s1, s2}
  Pseudonyms = {n1, n2, n3}
  Drafts = {d1}
  Writers = {w1, w2}
  Keep <- MCKeep
  BackupJobs = {j1, j2}
  ByHand <- MCByHand
  MaxBackups = 3
  Segments = {x1, x2}
  Fingerprints <- MCFingerprints
  Shape <- MCShape
  DedupeTicks = 1
  WindowTicks = 2
  Incidents = {i1, i2}
  MaxTicks = 3
  MaxCaptures = 5
  Companies = {c1, c2, c3}
  Slugs = {slug}
  Experiences = {e1, e2}
  Questions = {k1}
  Submissions = {m1, m2}
  MaxItemReports = 3
  NoCompany = NoCompany
  NoSlug = NoSlug
  Profiles = {a}
  Deciders = {g1, g2}
  MaxNow = 1
  MaxRevision = 3
  Notices = {n4, n5}
  EventTypes = {"like"}
  Keys = {key}
  NoKey = NoKey
  NoNotice = NoNotice
  Publishers = {b1, b2}
  Readers = {r1}
  MaxPublished = 2
  Modules = {A, B, C}
SYMMETRY MCSymmetry
CONSTRAINT MCBounds
INVARIANTS OneNamePerCommenter NewestRestores OnlyOutlived LostOnlyTorn OneOpenIncident CompanyIsFound ThirdReportFlags BootsInOrder
PROPERTIES RemovedStaysOff OnlyStateWritesLower ProductionFollowsTable BurstOpensIncident NoDecisionLost UnreadAggregates
CHECK_DEADLOCK FALSE
