------------------------------ MODULE Connections ------------------------------
(***************************************************************************)
(* Intents and connection requests of Campus Connect                       *)
(* (modules/connect/src/use-cases/connect.use-cases.ts): rows with a       *)
(* version.  A call that changes one reads it, and an await later writes   *)
(* what it read with a new status, if the row then has the version the     *)
(* caller names, which may be any positive number.  Intents, requests and  *)
(* connections are named after the millisecond they are created in.        *)
(***************************************************************************)
EXTENDS Naturals, FiniteSets

CONSTANTS
  Profiles,
  Deciders,     \* calls that can be in flight at once
  MaxNow,       \* bound: the clock
  MaxRevision   \* bound: the version of a row

ASSUME ConnectionsAssumption == MaxNow \in Nat /\ MaxRevision \in Nat

VARIABLES
  now,
  row,          \* row[id]: an intent or a request
  connection,   \* connection[t]: the two profiles connected at t, or {}
  deciding,
  clashed       \* the rows that replaced another of their millisecond

connectionVars == <<now, row, connection, deciding, clashed>>

Moments == 0..MaxNow
Rows == {"intent", "request"} \X Moments   \* the id: the moment of the creation
NoRow == [between |-> {}, status |-> "NONE", revision |-> 0]
NotDeciding == [at |-> "idle", id |-> <<"intent", 0>>, copy |-> NoRow, status |-> "NONE", expected |-> 0]

ConnectionsInit ==
  /\ now = 0
  /\ row = [id \in Rows |-> NoRow]
  /\ connection = [t \in Moments |-> {}]
  /\ deciding = [q \in Deciders |-> NotDeciding]
  /\ clashed = {}

MillisecondPasses ==
  /\ now < MaxNow
  /\ now' = now + 1
  /\ UNCHANGED <<row, connection, deciding, clashed>>

-----------------------------------------------------------------------------
(* save: what was stored in the same millisecond is replaced. *)
StoreNew(id, profiles, status) ==
  /\ row' = [row EXCEPT ![id] = [between |-> profiles, status |-> status, revision |-> 1]]
  /\ clashed' = IF row[id] = NoRow THEN clashed ELSE clashed \cup {id}
  /\ UNCHANGED <<now, connection, deciding>>

CreateIntent(owner) == StoreNew(<<"intent", now>>, {owner}, "ACTIVE")

SendConnectionRequest(sender, receiver) ==
  StoreNew(<<"request", now>>, {sender, receiver}, "PENDING")

(* updateIntent keeps the status. *)
Outcomes(id) ==
  IF id[1] = "intent" THEN {row[id].status, "PAUSED", "FULFILLED", "ARCHIVED"}
  ELSE {"ACCEPTED", "REJECTED"}

(* acceptConnection, rejectConnection, pauseIntent, fulfillIntent,         *)
(* archiveIntent and updateIntent read the row; the caller names any       *)
(* version, also one the row does not have yet.  No status is refused.     *)
FindRow(q, id, status, expected) ==
  /\ deciding[q] = NotDeciding
  /\ row[id] # NoRow
  /\ status \in Outcomes(id) /\ expected < MaxRevision
  /\ deciding' = [deciding EXCEPT ![q] =
       [at |-> "update", id |-> id, copy |-> row[id], status |-> status, expected |-> expected]]
  /\ UNCHANGED <<now, row, connection, clashed>>

(* Mutant: the version that was read is the one that is compared. *)
UpdateComparingCopy(q) ==
  /\ deciding[q].at = "update"
  /\ deciding[q].copy.revision = deciding[q].expected
  /\ row' = [row EXCEPT ![deciding[q].id] =
       [deciding[q].copy EXCEPT !.status = deciding[q].status,
                                !.revision = deciding[q].expected + 1]]
  /\ deciding' = [deciding EXCEPT ![q] =
       IF deciding[q].status = "ACCEPTED" THEN [@ EXCEPT !.at = "connect"] ELSE NotDeciding]
  /\ UNCHANGED <<now, connection, clashed>>

UpdateRow(q) ==
  /\ deciding[q].at = "update"
  /\ row[deciding[q].id].revision = deciding[q].expected
  /\ row' = [row EXCEPT ![deciding[q].id] =
       [deciding[q].copy EXCEPT !.status = deciding[q].status,
                                !.revision = deciding[q].expected + 1]]
  /\ deciding' = [deciding EXCEPT ![q] =
       IF deciding[q].status = "ACCEPTED" THEN [@ EXCEPT !.at = "connect"] ELSE NotDeciding]
  /\ UNCHANGED <<now, connection, clashed>>

(* OptimisticLockingError *)
Conflict(q) ==
  /\ deciding[q].at = "update"
  /\ row[deciding[q].id].revision # deciding[q].expected
  /\ deciding' = [deciding EXCEPT ![q] = NotDeciding]
  /\ UNCHANGED <<now, row, connection, clashed>>

(* An accepted request connects its profiles; a connection of the same     *)
(* millisecond is replaced.                                                *)
SaveConnection(q) ==
  /\ deciding[q].at = "connect"
  /\ connection' = [connection EXCEPT ![now] = deciding[q].copy.between]
  /\ deciding' = [deciding EXCEPT ![q] = NotDeciding]
  /\ UNCHANGED <<now, row, clashed>>

ConnectionsNext ==
  \/ MillisecondPasses
  \/ \E owner \in Profiles : CreateIntent(owner)
  \/ \E sender, receiver \in Profiles : SendConnectionRequest(sender, receiver)
  \/ \E q \in Deciders :
       \/ \E id \in Rows, expected \in 1..MaxRevision : \E status \in Outcomes(id) :
            FindRow(q, id, status, expected)
       \/ UpdateRow(q) \/ Conflict(q) \/ SaveConnection(q)

ConnectionsSpec == ConnectionsInit /\ [][ConnectionsNext]_connectionVars

-----------------------------------------------------------------------------
(* Decisions on a row are taken one after another however calls cross: one *)
(* that is written started from the very row it replaces, so that none is  *)
(* lost, as long as its caller named no version newer than the one it read *)
(* and the row replaced no other of its millisecond.  A caller that names  *)
(* a version still to come overwrites the decision that brings it.         *)
NoDecisionLost ==
  [][\A q \in Deciders :
       /\ deciding[q].at = "update" /\ deciding'[q] # deciding[q]
       /\ row'[deciding[q].id] # row[deciding[q].id] /\ deciding[q].id \notin clashed
       /\ deciding[q].expected <= deciding[q].copy.revision
       => deciding[q].copy = row[deciding[q].id]]_connectionVars
=============================================================================
