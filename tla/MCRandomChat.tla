---------------------------- MODULE MCRandomChat ----------------------------
(* Instances of RandomChat for TLC: a few students of each gender.          *)
EXTENDS RandomChat

CONSTANTS men, women

MCStudents  == men \cup women
MCGenderOf  == [u \in MCStudents |-> IF u \in men THEN "MALE" ELSE "FEMALE"]
MCSymmetry  == Permutations(men) \cup Permutations(women) \cup Permutations(Requests)
=============================================================================
