-------------------------- MODULE MCIdentityKernel --------------------------
(* IdentityKernel on a small college: model values, interchangeable.       *)
EXTENDS IdentityKernel, TLC

MCSymmetry ==
  Permutations(Users) \cup Permutations(Names) \cup Permutations(Emails)
    \cup Permutations(Passwords) \cup Permutations(Sessions) \cup Permutations(Requests)
=============================================================================
