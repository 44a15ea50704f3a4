SPECIFICATION WSpec
CONSTANTS
  seller = seller
  None = None
  Listings = {l1}
  Users = {seller, buyer, other}
  Buyers = {buyer}
  Reporters = {buyer}
  Offers = {o1}
  Reservations = {r1, r2}
  Requests = {q1, q2}
  SellerOf <- MCSellerOf
  Serial = FALSE
  Jobs = {j1}
  Failing = TRUE
SYMMETRY WorkSymmetry
INVARIANTS OfferDrivenReservation LockNamesReservation
CHECK_DEADLOCK FALSE
