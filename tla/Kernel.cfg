SPECIFICATION Spec
CONSTANTS
  Users = {u1, u2}
  Names = {n1}
  Emails = {e1}
  Passwords = {p1, p2, p3}
  Sessions = {s1, s2}
  Requests = {q1, q2}
  LockAfter = 2
  HistoryLimit = 2
  MaxOtps = 2
  None = None
SYMMETRY MCSymmetry
INVARIANTS OneLivePerLogin
PROPERTIES DeadLoginStaysDead
CHECK_DEADLOCK FALSE
