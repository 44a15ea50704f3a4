SPECIFICATION WFairSpec
CONSTANTS
  seller = seller
  None = None
  Listings = {l1}
  Users = {seller, buyer, other}
  Buyers = {buyer}
  Reporters = {seller, buyer, other}
  Offers = {o1, o2}
  Reservations = {r1, r2}
  Requests = {q1}
  SellerOf <- MCSellerOf
  Serial = TRUE
  Jobs = {j1}
  Failing = FALSE
PROPERTIES CompletedIsFinal ExpiredIsReleased
CHECK_DEADLOCK FALSE
