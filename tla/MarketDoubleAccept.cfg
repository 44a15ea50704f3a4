SPECIFICATION Spec
CONSTANTS
  seller = seller
  None = None
  Listings = {l1}
  Users = {seller, buyer, other}
  Buyers = {buyer, other}
  Reporters = {}
  Offers = {o1, o2}
  Reservations = {r1, r2}
  Requests = {q1, q2}
  SellerOf <- MCSellerOf
  Serial = FALSE
INVARIANTS
  OneActiveReservation
CHECK_DEADLOCK FALSE
