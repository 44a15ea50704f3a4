SPECIFICATION Spec
CONSTANTS
  None = None
  men = {m1, m2}
  women = {w1, w2}
  Students <- MCStudents
  GenderOf <- MCGenderOf
  MaxChats = 2
  Ttl = 1
  MaxClock = 1
  Requests = {q1}
  Serial = TRUE
SYMMETRY MCSymmetry
PROPERTIES RefinesMatchmaker
CHECK_DEADLOCK FALSE
