--------------------------------- MODULE Sale ---------------------------------
(***************************************************************************)
(* What the marketplace promises about an item on sale, without the calls  *)
(* that bring it about: the item is promised to at most one reservation,   *)
(* and sold at most once, to the reservation it is promised to.            *)
(***************************************************************************)
CONSTANTS Listings, Reservations, None

VARIABLES holder,    \* holder[l]: the reservation l is promised to, or None
          sold       \* the reservations whose item has been handed over

Init == holder = [l \in Listings |-> None] /\ sold = {}

Reserve(l, r) ==
  /\ holder[l] = None
  /\ \A k \in Listings : holder[k] # r
  /\ holder' = [holder EXCEPT ![l] = r]
  /\ UNCHANGED sold

Sell(l) ==
  /\ holder[l] # None
  /\ holder[l] \notin sold
  /\ sold' = sold \cup {holder[l]}
  /\ UNCHANGED holder

Next == \E l \in Listings : Sell(l) \/ \E r \in Reservations : Reserve(l, r)

Spec == Init /\ [][Next]_<<holder, sold>>
=============================================================================
