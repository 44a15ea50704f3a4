------------------------- MODULE MCMarketplaceWorkers -------------------------
(* Instances of MarketplaceWorkers for TLC: one seller, interchangeable     *)
(* buyers, offers, reservations, calls and jobs.                            *)
EXTENDS MarketplaceWorkers, TLC

CONSTANTS seller

MCSellerOf == [l \in Listings |-> seller]

IdSymmetry   == Permutations(Offers) \cup Permutations(Reservations)
WorkSymmetry == IdSymmetry \cup Permutations(Requests) \cup Permutations(Jobs)
=============================================================================
