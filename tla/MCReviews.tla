------------------------------ MODULE MCReviews ------------------------------
(* Reviews with two authors; which of the reviews and authors is which     *)
(* makes no difference.                                                    *)
EXTENDS Reviews, TLC

MCSymmetry == Permutations(ReviewIds) \cup Permutations(Authors)

MCBounds ==
  overlap =>
    /\ \A r \in ReviewIds : review[r].rating \in {None, 1}
    /\ \A j \in Jobs : job[j].kind \in {"stats", "listed", "computed"} => job[j].attempt = 1
    /\ Cardinality({r \in ReviewIds : Handler("scan", r) \in dead \cup unheard}) <= 1
=============================================================================
