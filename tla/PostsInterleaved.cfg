SPECIFICATION Spec
CONSTANTS
  None = None
  Posts = {p1, p2}
  Cases = {k1, k2}
  Requests = {q1, q2, q3}
  MaxReports = 4
SYMMETRY MCSymmetry
INVARIANTS ReportedIsHandled QuarantineHasCase
CHECK_DEADLOCK FALSE
