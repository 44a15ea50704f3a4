---------------------------- MODULE ListingStates ----------------------------
(***************************************************************************)
(* The life cycle of a marketplace listing: the statuses an entity can     *)
(* carry and the transition table of assertValidStateTransition            *)
(* (modules/marketplace/src/domain/invariants.ts).                         *)
(*                                                                         *)
(* "NONE" is a key the repository's Map does not hold.  "DELETED" stands   *)
(* for the pair status = 'DELETED', deletedAt set: moderateListing writes  *)
(* both at once and nothing else writes either.                            *)
(***************************************************************************)

LiveStatuses == {"DRAFT", "PUBLISHED", "RESERVED", "SOLD", "ARCHIVED",
                 "QUARANTINED", "EXPIRED"}
Statuses == LiveStatuses \cup {"NONE", "DELETED"}

(* allowedTransitions; a status without an entry allows nothing. *)
Allowed(s) ==
  CASE s = "DRAFT"     -> {"PUBLISHED", "DELETED"}
    [] s = "PUBLISHED" -> {"RESERVED", "ARCHIVED", "QUARANTINED", "EXPIRED", "DELETED"}
    [] s = "RESERVED"  -> {"PUBLISHED", "SOLD", "DELETED"}
    [] s \in {"ARCHIVED", "QUARANTINED", "EXPIRED"} -> {"PUBLISHED", "DELETED"}
    [] OTHER           -> {}

(* assertValidStateTransition(s, t) does not throw. *)
CanMove(s, t) == t \in Allowed(s)
=============================================================================
