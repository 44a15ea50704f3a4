SPECIFICATION Spec
CONSTANTS
  None = None
  men = {m1}
  women = {w1, w2}
  Students <- MCStudents
  GenderOf <- MCGenderOf
  MaxChats = 2
  Ttl = 1
  MaxClock = 1
  Requests = {q1, q2}
  Serial = FALSE
SYMMETRY MCSymmetry
INVARIANTS QueuedOnce NobodyOverlooked
CHECK_DEADLOCK FALSE
