------------------------------ MODULE Confessions ------------------------------
(***************************************************************************)
(* Reports and moderation of campus confessions: createConfession,         *)
(* reportConfession and recordModerationDecision                           *)
(* (modules/confessions/src/use-cases/confession.use-cases.ts) over        *)
(* repositories/in-memory-confession.repository.ts.                        *)
(*                                                                         *)
(* That repository hands out its own objects, not copies: after an await   *)
(* a call sees, and writes, the confession as it is by then.  Only that    *)
(* the confession was found is remembered.  A call in flight is a request  *)
(* q with req[q].pc naming what it does when it resumes.  Events change    *)
(* nothing modelled here, and who reports changes nothing in the code.     *)
(***************************************************************************)
EXTENDS Naturals

CONSTANTS
  Posts, Cases,
  Requests,      \* calls that can be in flight at once
  MaxReports,    \* bound: no report starts on a post with that many
  None

ASSUME ConfessionsAssumption ==
  /\ MaxReports \in Nat
  /\ None \notin Posts \cup Cases

QuarantineAt == 3     \* the literal of reportConfession

VARIABLES
  status,       \* status of each post; "NONE": not stored
  reportsCount, \* reportsCount of each post
  case,         \* case[k]: the moderation cases
  req           \* the calls in flight

vars == <<status, reportsCount, case, req>>

PostStatuses == {"NONE", "PENDING_APPROVAL", "PUBLISHED", "QUARANTINED", "DELETED"}
CaseRec  == [status : {"NONE", "QUARANTINED", "CLOSED"}, post : Posts \cup {None}]
Actions  == {"APPROVE", "RESTORE", "HIDE", "DELETE", "ESCALATE"}
Points   == {"idle", "count", "quarantine", "saveCase", "record", "update", "set"}
Request  == [pc : Points, post : Posts \cup {None},
             k : Cases \cup {None}, action : Actions \cup {None}]

TypeOK ==
  /\ status \in [Posts -> PostStatuses]
  /\ reportsCount \in [Posts -> Nat]
  /\ case \in [Cases -> CaseRec]
  /\ req \in [Requests -> Request]

-----------------------------------------------------------------------------
(* assertValidStateTransition: of the statuses that occur. *)
Allowed(s) ==
  CASE s = "PENDING_APPROVAL" -> {"PUBLISHED", "QUARANTINED", "DELETED"}
    [] s = "PUBLISHED"        -> {"QUARANTINED", "DELETED"}
    [] s = "QUARANTINED"      -> {"PUBLISHED", "DELETED"}
    [] OTHER                  -> {}

Call(point, p, k, action) == [pc |-> point, post |-> p, k |-> k, action |-> action]
Idle    == Call("idle", None, None, None)
AllIdle == \A q \in Requests : req[q] = Idle

Free(q)          == req[q] = Idle
At(q, point)     == req[q].pc = point
Return(q)        == req' = [req EXCEPT ![q] = Idle]
Goto(q, locals)  == req' = [req EXCEPT ![q] = locals]
Resume(q, point) == req' = [req EXCEPT ![q].pc = point]

Init ==
  /\ status = [p \in Posts |-> "NONE"]
  /\ reportsCount = [p \in Posts |-> 0]
  /\ case = [k \in Cases |-> [status |-> "NONE", post |-> None]]
  /\ req = [q \in Requests |-> Idle]

(* findById hides deleted posts. *)
Found(p) == status[p] \notin {"NONE", "DELETED"}

-----------------------------------------------------------------------------
(* createConfession: the post is stored as PENDING_APPROVAL; the           *)
(* pseudonym of its author is a matter of ThreadIdentity.                  *)
CreateConfession(p) ==
  /\ status[p] = "NONE"
  /\ status' = [status EXCEPT ![p] = "PENDING_APPROVAL"]
  /\ UNCHANGED <<reportsCount, case, req>>

-----------------------------------------------------------------------------
(* reportConfession up to the await on findById. *)
ReportConfession(q, p) ==
  /\ Free(q)
  /\ Found(p)
  /\ reportsCount[p] < MaxReports
  /\ Goto(q, Call("count", p, None, None))
  /\ UNCHANGED <<status, reportsCount, case>>

(* Mutant: quarantine only past the threshold. *)
CountPastThreshold(q) ==
  LET p == req[q].post IN
  /\ At(q, "count")
  /\ reportsCount' = [reportsCount EXCEPT ![p] = @ + 1]
  /\ IF reportsCount[p] + 1 > QuarantineAt /\ "QUARANTINED" \in Allowed(status[p])
       THEN Resume(q, "quarantine")
       ELSE Return(q)
  /\ UNCHANGED <<status, case>>

(* The report is counted.  From the third on the post is to be             *)
(* quarantined; the call throws, the report counted, if it cannot be.      *)
CountReport(q) ==
  LET p == req[q].post IN
  /\ At(q, "count")
  /\ reportsCount' = [reportsCount EXCEPT ![p] = @ + 1]
  /\ IF reportsCount[p] + 1 >= QuarantineAt /\ "QUARANTINED" \in Allowed(status[p])
       THEN Resume(q, "quarantine")
       ELSE Return(q)
  /\ UNCHANGED <<status, case>>

(* updateStatus has found the post; its write comes an await later. *)
QuarantinePost(q) ==
  /\ At(q, "quarantine")
  /\ status' = [status EXCEPT ![req[q].post] = "QUARANTINED"]
  /\ Resume(q, "saveCase")
  /\ UNCHANGED <<reportsCount, case>>

(* Mutant: the case is not stored. *)
SkipCase(q, k) ==
  /\ At(q, "saveCase")
  /\ Return(q)
  /\ UNCHANGED <<status, reportsCount, case>>

SaveCase(q, k) ==
  /\ At(q, "saveCase")
  /\ case[k].status = "NONE"
  /\ case' = [case EXCEPT ![k] = [status |-> "QUARANTINED", post |-> req[q].post]]
  /\ Return(q)
  /\ UNCHANGED <<status, reportsCount>>

-----------------------------------------------------------------------------
(* recordModerationDecision reads the case, whatever its status. *)
RecordModerationDecision(q, k, action) ==
  /\ Free(q)
  /\ case[k].status # "NONE"
  /\ Goto(q, Call("record", case[k].post, k, action))
  /\ UNCHANGED <<status, reportsCount, case>>

(* recordAction closes the case. *)
RecordAction(q) ==
  /\ At(q, "record")
  /\ case' = [case EXCEPT ![req[q].k].status = "CLOSED"]
  /\ Resume(q, "update")
  /\ UNCHANGED <<status, reportsCount>>

Decision(action) == CASE action \in {"APPROVE", "RESTORE"} -> "PUBLISHED"
                      [] action = "HIDE"                   -> "QUARANTINED"
                      [] action = "DELETE"                 -> "DELETED"

(* ESCALATE changes no status; updateStatus changes only a post it finds.  *)
UpdateStatus(q) ==
  /\ At(q, "update")
  /\ IF req[q].action # "ESCALATE" /\ Found(req[q].post) THEN Resume(q, "set") ELSE Return(q)
  /\ UNCHANGED <<status, reportsCount, case>>

SetStatus(q) ==
  /\ At(q, "set")
  /\ status' = [status EXCEPT ![req[q].post] = Decision(req[q].action)]
  /\ Return(q)
  /\ UNCHANGED <<reportsCount, case>>

-----------------------------------------------------------------------------
Begin(q) ==
  \/ \E p \in Posts : ReportConfession(q, p)
  \/ \E k \in Cases, action \in Actions : RecordModerationDecision(q, k, action)

Proceed(q) ==
  \/ CountReport(q) \/ QuarantinePost(q) \/ (\E k \in Cases : SaveCase(q, k))
  \/ RecordAction(q) \/ UpdateStatus(q) \/ SetStatus(q)

Next == \/ \E p \in Posts : CreateConfession(p)
        \/ \E q \in Requests : Begin(q) \/ Proceed(q)

Spec == Init /\ [][Next]_vars

-----------------------------------------------------------------------------
(* However calls interleave.                                               *)

(* A post with QuarantineAt reports is not left waiting for approval, in   *)
(* whatever order reports are counted and statuses written.                *)
ReportedIsHandled ==
  AllIdle => \A p \in Posts :
    status[p] = "PENDING_APPROVAL" => reportsCount[p] < QuarantineAt

(* Nothing but a moderator's decision publishes a post, and there is       *)
(* nothing to decide before it has been reported into quarantine: what is  *)
(* PUBLISHED has a closed case and QuarantineAt reports.                   *)
PublishedWasQuarantined ==
  \A p \in Posts : status[p] = "PUBLISHED" =>
    /\ reportsCount[p] >= QuarantineAt
    /\ \E k \in Cases : case[k] = [status |-> "CLOSED", post |-> p]

(* A quarantined post has a moderation case: the post is quarantined       *)
(* before the case is saved, and no call ends between the two.             *)
QuarantineHasCase ==
  AllIdle => \A p \in Posts : status[p] = "QUARANTINED" =>
               \E k \in Cases : case[k].status # "NONE" /\ case[k].post = p

=============================================================================
