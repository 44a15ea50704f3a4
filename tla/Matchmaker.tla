------------------------------ MODULE Matchmaker ------------------------------
(***************************************************************************)
(* What random chat promises a student, without queues, conversations or   *)
(* calls: nobody waits while a suitable peer waits, a student talks to at  *)
(* most one peer, the peer talks back, and one of them ends it for both.   *)
(***************************************************************************)
CONSTANTS Students, GenderOf, None

VARIABLES waiting,    \* the students in the waiting room
          partner     \* partner[u]: who u talks to, or None

Init == waiting = {} /\ partner = [u \in Students |-> None]

Idle(u) == u \notin waiting /\ partner[u] = None

Suitable(u) == {v \in waiting : GenderOf[v] # GenderOf[u]}

Wait(u) ==
  /\ Idle(u) /\ Suitable(u) = {}
  /\ waiting' = waiting \cup {u}
  /\ UNCHANGED partner

Match(u, v) ==
  /\ Idle(u) /\ v \in Suitable(u)
  /\ waiting' = waiting \ {v}
  /\ partner' = [partner EXCEPT ![u] = v, ![v] = u]

Cancel(u) ==
  /\ u \in waiting
  /\ waiting' = waiting \ {u}
  /\ UNCHANGED partner

End(u) ==
  /\ partner[u] # None
  /\ partner' = [partner EXCEPT ![u] = None, ![partner[u]] = None]
  /\ UNCHANGED waiting

Next == \E u \in Students : \/ Wait(u) \/ Cancel(u) \/ End(u)
                            \/ \E v \in Students : Match(u, v)

Spec == Init /\ [][Next]_<<waiting, partner>>
=============================================================================
