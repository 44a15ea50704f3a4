---------------------------- MODULE MCMarketplace ----------------------------
(* Instances of Marketplace for TLC: one seller, interchangeable buyers,    *)
(* offers, reservations and calls.                                          *)
EXTENDS Marketplace, TLC

CONSTANTS seller

MCSellerOf == [l \in Listings |-> seller]

IdSymmetry   == Permutations(Offers) \cup Permutations(Reservations)
=============================================================================
