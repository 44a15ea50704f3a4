---------------------------- MODULE MCConfessions ----------------------------
(* Instances of Confessions for TLC: interchangeable posts, cases and calls. *)
EXTENDS Confessions, TLC

MCSymmetry == Permutations(Posts) \cup Permutations(Cases) \cup Permutations(Requests)
=============================================================================
