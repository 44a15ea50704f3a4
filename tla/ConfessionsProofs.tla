--------------------------- MODULE ConfessionsProofs ---------------------------
(***************************************************************************)
(* Proofs about Confessions, for every set of posts, cases and calls, with *)
(* calls that interleave in any way.                                       *)
(***************************************************************************)
EXTENDS Confessions, TLAPS

-----------------------------------------------------------------------------
(* The inductive invariant.  A call between two awaits carries a promise   *)
(* the store does not show: a report that reached the threshold will       *)
(* quarantine its post, and one that did will store the case.              *)

CaseOf(k, p) == case[k].status # "NONE" /\ case[k].post = p

LocalsOK(q) ==
  /\ req[q].pc = "idle" => req[q] = Idle
  /\ req[q].pc # "idle" => req[q].post \in Posts /\ status[req[q].post] # "NONE"
  /\ req[q].pc \in {"quarantine", "saveCase"} => reportsCount[req[q].post] >= QuarantineAt
  /\ req[q].pc \in {"record", "update", "set"} =>
       /\ req[q].k \in Cases /\ CaseOf(req[q].k, req[q].post)
       /\ req[q].action \in Actions
  /\ req[q].pc \in {"update", "set"} => case[req[q].k].status = "CLOSED"
  /\ req[q].pc = "set" => req[q].action # "ESCALATE"

CasesOK == \A k \in Cases : case[k].status # "NONE" =>
  /\ case[k].post \in Posts
  /\ status[case[k].post] # "NONE"
  /\ reportsCount[case[k].post] >= QuarantineAt

NewHasNoReports == \A p \in Posts : status[p] = "NONE" => reportsCount[p] = 0

Pending(p) ==
  status[p] = "PENDING_APPROVAL" /\ reportsCount[p] >= QuarantineAt =>
    \E q \in Requests : req[q].pc = "quarantine" /\ req[q].post = p

Isolated(p) ==
  status[p] = "QUARANTINED" =>
    \/ \E k \in Cases : CaseOf(k, p)
    \/ \E q \in Requests : req[q].pc = "saveCase" /\ req[q].post = p

IInv ==
  /\ TypeOK
  /\ \A q \in Requests : LocalsOK(q)
  /\ CasesOK
  /\ NewHasNoReports
  /\ \A p \in Posts : Pending(p) /\ Isolated(p)
  /\ PublishedWasQuarantined

-----------------------------------------------------------------------------
LEMMA InitIInv == Init => IInv
<1> SUFFICES ASSUME Init PROVE IInv
  OBVIOUS
<1> USE ConfessionsAssumption DEF Init, Idle, Call
<1>1. TypeOK
  BY DEF TypeOK, PostStatuses, CaseRec, Request, Points
<1>2. \A q \in Requests : LocalsOK(q)
  BY DEF LocalsOK
<1>3. CasesOK /\ NewHasNoReports /\ PublishedWasQuarantined
  BY DEF CasesOK, NewHasNoReports, PublishedWasQuarantined
<1>4. \A p \in Posts : Pending(p) /\ Isolated(p)
  BY DEF Pending, Isolated
<1>5. QED
  BY <1>1, <1>2, <1>3, <1>4 DEF IInv

-----------------------------------------------------------------------------
(* What other calls hold survives a step of q that takes back nothing: it  *)
(* leaves no post or case unstored, reopens no case, lowers no count.      *)
Keeps ==
  /\ \A p \in Posts : status[p] # "NONE" => status'[p] # "NONE"
  /\ \A p \in Posts : reportsCount[p] >= QuarantineAt => reportsCount'[p] >= QuarantineAt
  /\ \A k \in Cases : case[k].status # "NONE" =>
       case'[k].status # "NONE" /\ case'[k].post = case[k].post
  /\ \A k \in Cases : case[k].status = "CLOSED" => case'[k].status = "CLOSED"

LEMMA OtherLocals ==
  ASSUME IInv, NEW q \in Requests, NEW rec \in Request, req' = [req EXCEPT ![q] = rec],
         Keeps, LocalsOK(q)'
  PROVE  \A p \in Requests : LocalsOK(p)'
<1> SUFFICES ASSUME NEW p \in Requests, p # q PROVE LocalsOK(p)'
  OBVIOUS
<1>1. req'[p] = req[p]
  BY DEF IInv, TypeOK
<1>2. LocalsOK(p)
  BY DEF IInv
<1>3. QED
  BY <1>1, <1>2 DEF LocalsOK, Keeps, CaseOf

LEMMA CreateStep ==
  ASSUME IInv, NEW p \in Posts, CreateConfession(p)
  PROVE  IInv'
<1> USE ConfessionsAssumption
<1>1. TypeOK'
  BY DEF IInv, TypeOK, CreateConfession, PostStatuses
<1>2. \A r \in Requests : LocalsOK(r)'
  BY DEF IInv, TypeOK, CreateConfession, LocalsOK, CaseOf
<1>3. \A s \in Posts : Pending(s)' /\ Isolated(s)'
  <2> SUFFICES ASSUME NEW s \in Posts PROVE Pending(s)' /\ Isolated(s)'
    OBVIOUS
  <2>1. reportsCount'[p] = 0
    BY DEF IInv, NewHasNoReports, CreateConfession
  <2>2. QED
    BY <2>1 DEF IInv, TypeOK, Pending, Isolated, CreateConfession, CaseOf, QuarantineAt
<1>4. CasesOK' /\ NewHasNoReports' /\ PublishedWasQuarantined'
  BY DEF IInv, TypeOK, CasesOK, NewHasNoReports, PublishedWasQuarantined, CreateConfession
<1>5. QED
  BY <1>1, <1>2, <1>3, <1>4 DEF IInv

LEMMA ReportSteps ==
  ASSUME IInv, NEW q \in Requests,
         \/ \E p \in Posts : ReportConfession(q, p)
         \/ CountReport(q) \/ QuarantinePost(q)
         \/ \E k \in Cases : SaveCase(q, k)
  PROVE  IInv'
<1> USE ConfessionsAssumption
<1>0. Idle \in Request
  BY DEF Idle, Call, Request, Points
<1>1. ASSUME NEW p \in Posts, ReportConfession(q, p) PROVE IInv'
  <2> DEFINE rec == Call("count", p, None, None)
  <2>1. rec \in Request
    BY DEF Call, Request, Points
  <2>2. TypeOK'
    BY <1>1, <2>1 DEF IInv, TypeOK, ReportConfession, Goto
  <2>3. \A r \in Requests : LocalsOK(r)'
    <3>1. LocalsOK(q)' /\ Keeps
      BY <1>1 DEF IInv, TypeOK, ReportConfession, Found, Goto, LocalsOK, Keeps, Call
    <3>2. QED
      BY <1>1, <2>1, <3>1, OtherLocals DEF ReportConfession, Goto
  <2>4. \A s \in Posts : Pending(s)' /\ Isolated(s)'
    <3> SUFFICES ASSUME NEW s \in Posts PROVE Pending(s)' /\ Isolated(s)'
      OBVIOUS
    <3>1. \A r \in Requests : req[r].pc \in {"quarantine", "saveCase"} => req'[r] = req[r]
      BY <1>1 DEF IInv, TypeOK, ReportConfession, Free, Idle, Call, Goto
    <3>2. QED
      BY <1>1, <3>1 DEF IInv, Pending, Isolated, ReportConfession, CaseOf
  <2>5. CasesOK' /\ NewHasNoReports' /\ PublishedWasQuarantined'
    BY <1>1 DEF IInv, CasesOK, NewHasNoReports, PublishedWasQuarantined, ReportConfession
  <2>6. QED
    BY <2>2, <2>3, <2>4, <2>5 DEF IInv
<1>2. CASE CountReport(q)
  <2> DEFINE p == req[q].post
  <2>1. p \in Posts /\ status[p] # "NONE"
    BY <1>2 DEF IInv, LocalsOK, CountReport, At
  <2>2. /\ reportsCount' = [reportsCount EXCEPT ![p] = @ + 1]
        /\ reportsCount[p] \in Nat
        /\ UNCHANGED <<status, case>>
    BY <1>2, <2>1 DEF IInv, TypeOK, CountReport
  <2>3. PICK rec \in Request :
          /\ req' = [req EXCEPT ![q] = rec]
          /\ \/ rec = Idle
             \/ /\ rec = [req[q] EXCEPT !.pc = "quarantine"]
                /\ reportsCount'[p] >= QuarantineAt
          /\ status[p] = "PENDING_APPROVAL" /\ reportsCount'[p] >= QuarantineAt
               => rec.pc = "quarantine" /\ rec.post = p
    <3>1. CASE Return(q)
      <4>1. ~(status[p] = "PENDING_APPROVAL" /\ reportsCount'[p] >= QuarantineAt)
        BY <1>2, <2>1, <2>2, <3>1 DEF IInv, TypeOK, LocalsOK, CountReport, At, Return, Resume, Idle, Call, Allowed, QuarantineAt, Request
      <4>2. QED
        BY <1>0, <3>1, <4>1 DEF Return
    <3>2. CASE Resume(q, "quarantine") /\ reportsCount[p] + 1 >= QuarantineAt
      <4> DEFINE rec == [req[q] EXCEPT !.pc = "quarantine"]
      <4>1. rec \in Request /\ rec.pc = "quarantine" /\ rec.post = p
        BY DEF IInv, TypeOK, Request, Points
      <4>2. reportsCount'[p] >= QuarantineAt
        BY <2>1, <2>2, <3>2 DEF IInv, TypeOK
      <4>3. req' = [req EXCEPT ![q] = rec]
        BY <3>2 DEF Resume
      <4>4. QED
        BY <4>1, <4>2, <4>3
    <3>3. QED
      BY <1>2, <3>1, <3>2 DEF CountReport
  <2>4. TypeOK'
    <3>1. reportsCount' \in [Posts -> Nat]
      BY <2>1, <2>2 DEF IInv, TypeOK
    <3>2. req' \in [Requests -> Request]
      BY <2>3 DEF IInv, TypeOK
    <3>3. QED
      BY <2>2, <3>1, <3>2 DEF IInv, TypeOK
  <2>5. \A r \in Requests : LocalsOK(r)'
    <3>1. Keeps
      BY <2>1, <2>2 DEF IInv, TypeOK, Keeps, QuarantineAt
    <3>2. req'[q] = rec /\ req[q] \in Request
      BY <2>3 DEF IInv, TypeOK
    <3>3. LocalsOK(q)'
      <4>1. CASE rec = Idle
        BY <3>2, <4>1 DEF LocalsOK, Idle, Call
      <4>2. CASE rec = [req[q] EXCEPT !.pc = "quarantine"] /\ reportsCount'[p] >= QuarantineAt
        <5>1. rec.pc = "quarantine" /\ rec.post = p
          BY <3>2, <4>2 DEF Request
        <5>2. QED
          BY <2>1, <2>2, <3>2, <4>2, <5>1 DEF LocalsOK
      <4>3. QED
        BY <2>3, <4>1, <4>2
    <3>4. QED
      BY <2>3, <3>1, <3>3, OtherLocals
  <2>6. \A s \in Posts : Pending(s)' /\ Isolated(s)'
    <3> SUFFICES ASSUME NEW s \in Posts PROVE Pending(s)' /\ Isolated(s)'
      OBVIOUS
    <3>1. \A r \in Requests : req[r].pc \in {"quarantine", "saveCase"} => req'[r] = req[r]
      BY <1>2, <2>3 DEF IInv, TypeOK, CountReport, At
    <3>2. Pending(s) /\ Isolated(s)
      BY DEF IInv
    <3>3. Isolated(s)'
      BY <2>2, <3>1, <3>2 DEF Isolated, CaseOf
    <3>4. CASE s # p
      BY <2>1, <2>2, <3>1, <3>2, <3>3, <3>4 DEF IInv, TypeOK, Pending
    <3>5. CASE s = p
      <4>1. req'[q] = rec
        BY <2>3 DEF IInv, TypeOK
      <4>2. Pending(s)'
        BY <2>2, <2>3, <3>5, <4>1 DEF Pending
      <4>3. QED
        BY <3>3, <4>2
    <3>6. QED
      BY <3>4, <3>5
  <2>7. CasesOK' /\ NewHasNoReports' /\ PublishedWasQuarantined'
    BY <2>1, <2>2 DEF IInv, TypeOK, CasesOK, NewHasNoReports, PublishedWasQuarantined, QuarantineAt
  <2>8. QED
    BY <2>4, <2>5, <2>6, <2>7 DEF IInv
<1>3. CASE QuarantinePost(q)
  <2> DEFINE p == req[q].post
             rec == [req[q] EXCEPT !.pc = "saveCase"]
  <2>1. p \in Posts /\ status[p] # "NONE"
        /\ reportsCount[p] >= QuarantineAt
    BY <1>3 DEF IInv, LocalsOK, QuarantinePost, At
  <2>2. rec \in Request /\ rec.pc = "saveCase" /\ rec.post = p
    BY DEF IInv, TypeOK, Request, Points
  <2>3. req' = [req EXCEPT ![q] = rec] /\ req'[q] = rec
    BY <1>3 DEF IInv, TypeOK, QuarantinePost, Resume
  <2>4. TypeOK'
    BY <1>3, <2>1, <2>2, <2>3 DEF IInv, TypeOK, QuarantinePost, PostStatuses
  <2>5. \A r \in Requests : LocalsOK(r)'
    <3>1. LocalsOK(q)' /\ Keeps
      BY <1>3, <2>1, <2>2, <2>3 DEF IInv, TypeOK, QuarantinePost, LocalsOK, Keeps
    <3>2. QED
      BY <2>2, <2>3, <3>1, OtherLocals
  <2>6. \A s \in Posts : Pending(s)' /\ Isolated(s)'
    <3> SUFFICES ASSUME NEW s \in Posts PROVE Pending(s)' /\ Isolated(s)'
      OBVIOUS
    <3>1. \A r \in Requests : r # q => req'[r] = req[r]
      BY <2>3 DEF IInv, TypeOK
    <3>2. Pending(s) /\ Isolated(s)
      BY DEF IInv
    <3>3. CASE s = p
      BY <1>3, <2>1, <2>2, <2>3, <3>3 DEF IInv, TypeOK, Pending, Isolated, QuarantinePost
    <3>4. CASE s # p
      BY <1>3, <2>1, <2>3, <3>1, <3>2, <3>4 DEF IInv, TypeOK, Pending, Isolated, QuarantinePost, At, CaseOf
    <3>5. QED
      BY <3>3, <3>4
  <2>7. CasesOK' /\ NewHasNoReports' /\ PublishedWasQuarantined'
    BY <1>3, <2>1 DEF IInv, TypeOK, CasesOK, NewHasNoReports, PublishedWasQuarantined, QuarantinePost
  <2>8. QED
    BY <2>4, <2>5, <2>6, <2>7 DEF IInv
<1>4. ASSUME NEW k \in Cases, SaveCase(q, k) PROVE IInv'
  <2> DEFINE p == req[q].post
  <2>1. p \in Posts /\ status[p] # "NONE"
        /\ reportsCount[p] >= QuarantineAt
    BY <1>4 DEF IInv, LocalsOK, SaveCase, At
  <2>2. /\ case'[k] = [status |-> "QUARANTINED", post |-> p]
        /\ \A j \in Cases : j # k => case'[j] = case[j]
        /\ UNCHANGED <<status, reportsCount>>
        /\ case[k].status = "NONE"
    BY <1>4 DEF IInv, TypeOK, SaveCase
  <2>3. req' = [req EXCEPT ![q] = Idle] /\ req'[q] = Idle
    BY <1>4 DEF IInv, TypeOK, SaveCase, Return
  <2>4. TypeOK'
    <3>1. case' \in [Cases -> CaseRec]
      BY <1>4, <2>1 DEF IInv, TypeOK, SaveCase, CaseRec
    <3>2. QED
      BY <1>0, <2>2, <2>3, <3>1 DEF IInv, TypeOK
  <2>5. \A r \in Requests : LocalsOK(r)'
    <3>1. LocalsOK(q)' /\ Keeps
      BY <2>2, <2>3 DEF LocalsOK, Keeps, Idle, Call
    <3>2. QED
      BY <1>0, <2>3, <3>1, OtherLocals
  <2>6. \A s \in Posts : Pending(s)' /\ Isolated(s)'
    <3> SUFFICES ASSUME NEW s \in Posts PROVE Pending(s)' /\ Isolated(s)'
      OBVIOUS
    <3>1. \A r \in Requests : r # q => req'[r] = req[r]
      BY <2>3 DEF IInv, TypeOK
    <3>2. Pending(s) /\ Isolated(s) /\ req[q].pc = "saveCase"
      BY <1>4 DEF IInv, SaveCase, At
    <3>3. Pending(s)'
      BY <2>2, <3>1, <3>2 DEF Pending
    <3>4. Isolated(s)'
      BY <2>2, <3>1, <3>2 DEF Isolated, CaseOf
    <3>5. QED
      BY <3>3, <3>4
  <2>7. CasesOK' /\ NewHasNoReports' /\ PublishedWasQuarantined'
    BY <2>1, <2>2 DEF IInv, CasesOK, NewHasNoReports, PublishedWasQuarantined
  <2>8. QED
    BY <2>4, <2>5, <2>6, <2>7 DEF IInv
<1>5. QED
  BY <1>1, <1>2, <1>3, <1>4

-----------------------------------------------------------------------------
LEMMA DecisionSteps ==
  ASSUME IInv, NEW q \in Requests,
         \/ \E k \in Cases, action \in Actions : RecordModerationDecision(q, k, action)
         \/ RecordAction(q) \/ UpdateStatus(q) \/ SetStatus(q)
  PROVE  IInv'
<1> USE ConfessionsAssumption
<1>0. Idle \in Request
  BY DEF Idle, Call, Request, Points
<1>1. ASSUME NEW k \in Cases, NEW action \in Actions,
             RecordModerationDecision(q, k, action)
      PROVE  IInv'
  <2> DEFINE rec == Call("record", case[k].post, k, action)
  <2>1. case[k].status # "NONE" /\ case[k].post \in Posts /\ status[case[k].post] # "NONE"
    BY <1>1 DEF IInv, CasesOK, RecordModerationDecision
  <2>2. rec \in Request
    BY <2>1 DEF Call, Request, Points
  <2>3. req' = [req EXCEPT ![q] = rec] /\ req'[q] = rec
    BY <1>1 DEF IInv, TypeOK, RecordModerationDecision, Goto
  <2>4. UNCHANGED <<status, reportsCount, case>>
    BY <1>1 DEF RecordModerationDecision
  <2>5. TypeOK'
    BY <2>2, <2>3, <2>4 DEF IInv, TypeOK
  <2>6. \A r \in Requests : LocalsOK(r)'
    <3>1. LocalsOK(q)' /\ Keeps
      BY <2>1, <2>3, <2>4 DEF LocalsOK, Keeps, Call, CaseOf
    <3>2. QED
      BY <2>2, <2>3, <3>1, OtherLocals
  <2>7. \A s \in Posts : Pending(s)' /\ Isolated(s)'
    <3>1. \A r \in Requests : req[r].pc \in {"quarantine", "saveCase"} => req'[r] = req[r]
      BY <1>1, <2>3 DEF IInv, TypeOK, RecordModerationDecision, Free, Idle, Call
    <3>2. QED
      BY <2>4, <3>1 DEF IInv, Pending, Isolated, CaseOf
  <2>8. CasesOK' /\ NewHasNoReports' /\ PublishedWasQuarantined'
    BY <2>4 DEF IInv, CasesOK, NewHasNoReports, PublishedWasQuarantined
  <2>9. QED
    BY <2>5, <2>6, <2>7, <2>8 DEF IInv
<1>2. CASE RecordAction(q)
  <2> DEFINE k == req[q].k
             rec == [req[q] EXCEPT !.pc = "update"]
  <2>1. k \in Cases /\ CaseOf(k, req[q].post) /\ req[q].action \in Actions
        /\ req[q].post \in Posts /\ status[req[q].post] # "NONE"
    BY <1>2 DEF IInv, LocalsOK, RecordAction, At
  <2>2. rec \in Request /\ rec.pc = "update" /\ rec.post = req[q].post
        /\ rec.k = k /\ rec.action = req[q].action
    BY DEF IInv, TypeOK, Request, Points
  <2>3. req' = [req EXCEPT ![q] = rec] /\ req'[q] = rec
    BY <1>2 DEF IInv, TypeOK, RecordAction, Resume
  <2>4. /\ case'[k].status = "CLOSED" /\ case'[k].post = req[q].post
        /\ case' = [case EXCEPT ![k].status = "CLOSED"]
        /\ \A j \in Cases : j # k => case'[j] = case[j]
        /\ UNCHANGED <<status, reportsCount>>
    BY <1>2, <2>1 DEF IInv, TypeOK, CaseRec, CaseOf, RecordAction
  <2>5. TypeOK'
    <3>1. case' \in [Cases -> CaseRec]
      BY <2>1, <2>4 DEF IInv, TypeOK, CaseRec
    <3>2. QED
      BY <2>2, <2>3, <2>4, <3>1 DEF IInv, TypeOK
  <2>6. \A r \in Requests : LocalsOK(r)'
    <3>1. LocalsOK(q)' /\ Keeps
      BY <2>1, <2>2, <2>3, <2>4 DEF LocalsOK, Keeps, CaseOf
    <3>2. QED
      BY <2>2, <2>3, <3>1, OtherLocals
  <2>7. \A j \in Cases : case'[j].post = case[j].post
                        /\ (case'[j].status = "NONE" <=> case[j].status = "NONE")
    BY <2>1, <2>4 DEF CaseOf
  <2>8. \A s \in Posts : Pending(s)' /\ Isolated(s)'
    <3>1. \A r \in Requests : req[r].pc \in {"quarantine", "saveCase"} => req'[r] = req[r]
      BY <1>2, <2>3 DEF IInv, TypeOK, RecordAction, At
    <3>2. QED
      BY <2>4, <2>7, <3>1 DEF IInv, Pending, Isolated, CaseOf
  <2>9. PublishedWasQuarantined'
    <3> SUFFICES ASSUME NEW s \in Posts, status[s] = "PUBLISHED"
                 PROVE  \E j \in Cases : case'[j] = [status |-> "CLOSED", post |-> s]
      BY <2>4 DEF IInv, PublishedWasQuarantined
    <3>1. PICK j \in Cases : case[j] = [status |-> "CLOSED", post |-> s]
      BY DEF IInv, PublishedWasQuarantined
    <3>2. case'[j] = [status |-> "CLOSED", post |-> s]
      BY <2>1, <2>4, <3>1 DEF IInv, TypeOK
    <3>3. QED
      BY <3>2
  <2>10. CasesOK' /\ NewHasNoReports'
    BY <2>4, <2>7 DEF IInv, CasesOK, NewHasNoReports
  <2>11. QED
    BY <2>5, <2>6, <2>8, <2>9, <2>10 DEF IInv
<1>3. CASE UpdateStatus(q)
  <2>1. UNCHANGED <<status, reportsCount, case>> /\ req[q].pc = "update"
    BY <1>3 DEF UpdateStatus, At
  <2>2. PICK rec \in Request :
          /\ req' = [req EXCEPT ![q] = rec]
          /\ \/ rec = Idle
             \/ /\ rec.pc = "set" /\ rec.post = req[q].post /\ rec.k = req[q].k
                /\ rec.action = req[q].action /\ rec.action # "ESCALATE"
    <3>1. CASE Return(q)
      BY <1>0, <3>1 DEF Return
    <3>2. CASE Resume(q, "set") /\ req[q].action # "ESCALATE"
      <4> DEFINE rec == [req[q] EXCEPT !.pc = "set"]
      <4>1. rec \in Request /\ rec.pc = "set" /\ rec.post = req[q].post
            /\ rec.k = req[q].k /\ rec.action = req[q].action
        BY DEF IInv, TypeOK, Request, Points
      <4>2. req' = [req EXCEPT ![q] = rec]
        BY <3>2 DEF Resume
      <4>3. QED
        BY <3>2, <4>1, <4>2
    <3>3. QED
      BY <1>3, <3>1, <3>2 DEF UpdateStatus
  <2>3. req'[q] = rec /\ \A r \in Requests : r # q => req'[r] = req[r]
    BY <2>2 DEF IInv, TypeOK
  <2>4. TypeOK'
    BY <2>1, <2>2 DEF IInv, TypeOK
  <2>5. \A r \in Requests : LocalsOK(r)'
    <3>1. LocalsOK(q)' /\ Keeps
      <4>1. Keeps
        BY <2>1 DEF Keeps
      <4>2. CASE rec = Idle
        BY <2>3, <4>1, <4>2 DEF LocalsOK, Idle, Call
      <4>3. CASE rec # Idle
        BY <2>1, <2>2, <2>3, <4>1, <4>3 DEF IInv, LocalsOK, CaseOf
      <4>4. QED
        BY <4>2, <4>3
    <3>2. QED
      BY <2>2, <3>1, OtherLocals
  <2>6. \A s \in Posts : Pending(s)' /\ Isolated(s)'
    BY <2>1, <2>3 DEF IInv, Pending, Isolated, CaseOf
  <2>7. CasesOK' /\ NewHasNoReports' /\ PublishedWasQuarantined'
    BY <2>1 DEF IInv, CasesOK, NewHasNoReports, PublishedWasQuarantined
  <2>8. QED
    BY <2>4, <2>5, <2>6, <2>7 DEF IInv
<1>4. CASE SetStatus(q)
  <2> DEFINE p == req[q].post
             k == req[q].k
             new == Decision(req[q].action)
  <2>1. /\ k \in Cases /\ CaseOf(k, p) /\ case[k].status = "CLOSED"
        /\ p \in Posts /\ status[p] # "NONE"
        /\ req[q].action \in Actions /\ req[q].action # "ESCALATE"
        /\ req[q].pc = "set"
    BY <1>4 DEF IInv, LocalsOK, SetStatus, At
  <2>2. new \in {"PUBLISHED", "QUARANTINED", "DELETED"}
    BY <2>1 DEF Decision, Actions
  <2>3. req' = [req EXCEPT ![q] = Idle] /\ req'[q] = Idle
        /\ \A r \in Requests : r # q => req'[r] = req[r]
    BY <1>4 DEF IInv, TypeOK, SetStatus, Return
  <2>4. /\ status' = [status EXCEPT ![p] = new]
        /\ status'[p] = new
        /\ \A s \in Posts : s # p => status'[s] = status[s]
        /\ UNCHANGED <<reportsCount, case>>
    BY <1>4, <2>1 DEF IInv, TypeOK, SetStatus
  <2>5. TypeOK'
    <3>1. status' \in [Posts -> PostStatuses]
      BY <2>2, <2>4 DEF IInv, TypeOK, PostStatuses
    <3>2. QED
      BY <1>0, <2>3, <2>4, <3>1 DEF IInv, TypeOK
  <2>6. \A r \in Requests : LocalsOK(r)'
    <3>1. LocalsOK(q)' /\ Keeps
      BY <2>2, <2>3, <2>4 DEF LocalsOK, Keeps, Idle, Call
    <3>2. QED
      BY <1>0, <2>3, <3>1, OtherLocals
  <2>7. \A s \in Posts : Pending(s)' /\ Isolated(s)'
    <3> SUFFICES ASSUME NEW s \in Posts PROVE Pending(s)' /\ Isolated(s)'
      OBVIOUS
    <3>1. CASE s = p
      BY <2>1, <2>2, <2>4, <3>1 DEF Pending, Isolated, CaseOf
    <3>2. CASE s # p
      BY <2>1, <2>3, <2>4, <3>2 DEF IInv, Pending, Isolated, CaseOf
    <3>3. QED
      BY <3>1, <3>2
  <2>8. CasesOK' /\ NewHasNoReports'
    BY <2>1, <2>2, <2>4 DEF IInv, CasesOK, NewHasNoReports
  <2>9. PublishedWasQuarantined'
    <3>1. reportsCount[p] >= QuarantineAt
      BY <2>1 DEF IInv, CasesOK, CaseOf
    <3>2. case[k] = [status |-> "CLOSED", post |-> p]
      BY <2>1 DEF IInv, TypeOK, CaseRec, CaseOf
    <3>3. QED
      BY <2>1, <2>4, <3>1, <3>2 DEF IInv, PublishedWasQuarantined
  <2>10. QED
    BY <2>5, <2>6, <2>7, <2>8, <2>9 DEF IInv
<1>5. QED
  BY <1>1, <1>2, <1>3, <1>4

-----------------------------------------------------------------------------
LEMMA StepIInv == IInv /\ [Next]_vars => IInv'
<1> SUFFICES ASSUME IInv, [Next]_vars PROVE IInv'
  OBVIOUS
<1>1. CASE UNCHANGED vars
  BY <1>1 DEF vars, IInv, TypeOK, LocalsOK, CaseOf, CasesOK, NewHasNoReports,
              Pending, Isolated, PublishedWasQuarantined
<1>2. ASSUME NEW q \in Requests, Begin(q) \/ Proceed(q) PROVE IInv'
  BY <1>2, ReportSteps, DecisionSteps DEF Begin, Proceed
<1>3. QED
  BY <1>1, <1>2, CreateStep DEF Next

THEOREM Invariance == Spec => []IInv
  BY InitIInv, StepIInv, PTL DEF Spec

(* Every call keeps posts, cases and calls in flight well formed.          *)
THEOREM TypeCorrectness == Spec => []TypeOK
<1>1. IInv => TypeOK
  BY DEF IInv
<1>2. QED
  BY <1>1, Invariance, PTL

(* Only a decided moderation case publishes a post, and only a post with   *)
(* QuarantineAt reports has one, however the calls interleave.             *)
THEOREM OnlyModeratorsPublish == Spec => []PublishedWasQuarantined
<1>1. IInv => PublishedWasQuarantined
  BY DEF IInv
<1>2. QED
  BY <1>1, Invariance, PTL

(* When no call is in flight, no post with QuarantineAt reports waits for  *)
(* approval: the call that counted up to there was going to quarantine it. *)
THEOREM ReportsAreHandled == Spec => []ReportedIsHandled
<1>1. IInv => ReportedIsHandled
  <2> SUFFICES ASSUME IInv, AllIdle, NEW p \in Posts, status[p] = "PENDING_APPROVAL",
                      ~(reportsCount[p] < QuarantineAt)
               PROVE  FALSE
    BY DEF ReportedIsHandled
  <2>1. reportsCount[p] >= QuarantineAt
    BY DEF IInv, TypeOK, QuarantineAt
  <2>2. QED
    BY <2>1 DEF IInv, Pending, AllIdle, Idle, Call
<1>2. QED
  BY <1>1, Invariance, PTL

(* When no call is in flight, every quarantined post has a moderation      *)
(* case, although the quarantine is written first.                         *)
THEOREM QuarantinesHaveCases == Spec => []QuarantineHasCase
<1>1. IInv => QuarantineHasCase
  BY DEF IInv, Isolated, CaseOf, QuarantineHasCase, AllIdle, Idle, Call
<1>2. QED
  BY <1>1, Invariance, PTL
=============================================================================
