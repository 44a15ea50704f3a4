SPECIFICATION Spec
CONSTANTS
  ReviewIds = {r1, r2}
  Authors = {a1, a2}
  Ratings = {1, 5}
  Requests = {q1}
  MaxJobs = 2
  MaxRetries = 2
  Decisions = {"APPROVED", "REJECTED"}
  None = None
CONSTRAINT MCBounds
SYMMETRY MCSymmetry
INVARIANTS UnscannedIsPending OneReviewPerAuthor StatsCurrent
PROPERTIES DeletedStaysDeleted
CHECK_DEADLOCK FALSE
