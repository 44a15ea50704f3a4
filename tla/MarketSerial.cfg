SPECIFICATION FairSpec
CONSTANTS
  seller = seller
  None = None
  Listings = {l1}
  Users = {seller, buyer, other}
  Buyers = {buyer, other}
  Reporters = {seller, buyer, other}
  Offers = {o1, o2, o3}
  Reservations = {r1, r2}
  Requests = {q1}
  SellerOf <- MCSellerOf
  Serial = TRUE
INVARIANTS OneActiveReservation
PROPERTIES RefinesSale CountedReportsQuarantine
CHECK_DEADLOCK FALSE
