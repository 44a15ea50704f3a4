--------------------------- MODULE ConfessionEvents ---------------------------
(***************************************************************************)
(* Once-only machinery of the confessions module: EventRouter.publish with *)
(* its DlqManager (workers/event-router.ts, workers/dlq-manager.ts), and   *)
(* the idempotency hooks of its write routes (middleware/idempotency.ts).  *)
(* publish awaits the workers of an event one after another; the hooks     *)
(* await the store before the write and after it.                          *)
(***************************************************************************)
EXTENDS Naturals, Sequences, FiniteSets, FiniteSetsExt

CONSTANTS
  Letters,        \* events
  EventId,        \* EventId[e]: the millisecond e was made in, which events may share
  Workers,        \* names of workers
  Routes,         \* Routes[e]: the workers EventRegistry names for e, in order
  Registered,     \* the workers that have a handler
  Publishers,     \* calls of publish that can be in flight at once
  MaxPublished,   \* bound: calls of publish
  Keys,           \* idempotency keys of one college
  Writes,         \* write requests that can be in flight at once
  MaxWritten,     \* bound: writes executed
  NoLetter, NoKey

ASSUME ConfessionEventsAssumption ==
  /\ Routes \in [Letters -> Seq(Workers)] /\ Registered \subseteq Workers
  /\ MaxPublished \in Nat /\ MaxWritten \in Nat
  /\ NoLetter \notin Letters /\ NoKey \notin Keys

VARIABLES
  processedIds,  \* <<id, w>>: worker w has processed an event of that id
  deadLetters,   \* <<e, w>>: worker w has failed on event e
  publishing,    \* the event of each call of publish, and which worker of it it awaits
  published,     \* history: events published, with multiplicity
  succeeded,     \* history: how often worker w succeeded on event e
  store,         \* store[k]: "none", or what the response cached for k says
  write,         \* the write requests in flight: key and step
  executed,      \* history: writes executed for k since its entry last expired
  crossing       \* whether calls of this behaviour overlap

letterVars == <<processedIds, deadLetters, publishing, published, succeeded>>
writeVars  == <<store, write, executed>>
confessionVars == <<letterVars, writeVars, crossing>>

NoCall    == [event |-> NoLetter, at |-> 0]
NoWrite   == [key |-> NoKey, pc |-> "idle", response |-> "none"]
Responses == {"done", "error"}

ConfessionTypeOK ==
  /\ processedIds \subseteq {EventId[e] : e \in Letters} \X Workers
  /\ deadLetters \subseteq Letters \X Workers
  /\ \A p \in Publishers : publishing[p] = NoCall
       \/ publishing[p] \in UNION {[event : {e}, at : DOMAIN Routes[e]] : e \in Letters}
  /\ published \in [Letters -> 0..MaxPublished]
  /\ succeeded \in [Letters -> [Workers -> 0..MaxPublished]]
  /\ store \in [Keys -> Responses \cup {"none"}]
  /\ write \in [Writes -> [key : Keys, pc : {"handle", "check", "set"},
                           response : Responses \cup {"none"}] \cup {NoWrite}]
  /\ executed \in [Keys -> 0..MaxWritten]
  /\ crossing \in BOOLEAN

ConfessionInit ==
  /\ processedIds = {} /\ deadLetters = {}
  /\ publishing = [p \in Publishers |-> NoCall]
  /\ published = [e \in Letters |-> 0]
  /\ succeeded = [e \in Letters |-> [w \in Workers |-> 0]]
  /\ store = [k \in Keys |-> "none"]
  /\ write = [q \in Writes |-> NoWrite]
  /\ executed = [k \in Keys |-> 0]
  /\ crossing \in BOOLEAN

-----------------------------------------------------------------------------

(* The workers that the loop of publish calls, from a place of the route   *)
(* on: a worker without a handler is passed over, and so is one that has   *)
(* processed an event of that id.                                          *)
ToCall(e, from, known) ==
  {i \in from..Len(Routes[e]) : /\ Routes[e][i] \in Registered
                                /\ <<EventId[e], Routes[e][i]>> \notin known}

LoopFrom(p, e, from, known) ==
  LET left == ToCall(e, from, known) IN
  publishing' = [publishing EXCEPT ![p] =
    IF left = {} THEN NoCall ELSE [event |-> e, at |-> Min(left)]]

(* The worker whose answer a call of publish awaits. *)
Awaited(p) == Routes[publishing[p].event][publishing[p].at]

Publish(p, e) ==
  /\ publishing[p] = NoCall
  /\ crossing \/ \A o \in Publishers : publishing[o] = NoCall
  /\ published[e] < MaxPublished
  /\ published' = [published EXCEPT ![e] = @ + 1]
  /\ LoopFrom(p, e, 1, processedIds)
  /\ UNCHANGED <<processedIds, deadLetters, succeeded, writeVars, crossing>>

WorkerSucceeds(p) ==
  LET e == publishing[p].event
      w == Awaited(p)
      known == processedIds \cup {<<EventId[e], w>>}
  IN
  /\ publishing[p] # NoCall
  /\ processedIds' = known
  /\ succeeded' = [succeeded EXCEPT ![e][w] = @ + 1]
  /\ LoopFrom(p, e, publishing[p].at + 1, known)
  /\ UNCHANGED <<deadLetters, published, writeVars, crossing>>

(* The events that share the id of an event. *)
Twins(e) == {f \in Letters : EventId[f] = EventId[e]}

(* recordFailure: one dead letter for an id and a worker, kept for good;   *)
(* it keeps the event that failed first.                                   *)
WorkerFails(p) ==
  LET e == publishing[p].event
      w == Awaited(p)
      existing == {f \in Twins(e) : <<f, w>> \in deadLetters}
  IN
  /\ publishing[p] # NoCall
  /\ deadLetters' = IF existing = {} THEN deadLetters \cup {<<e, w>>} ELSE deadLetters
  /\ LoopFrom(p, e, publishing[p].at + 1, processedIds)
  /\ UNCHANGED <<processedIds, published, succeeded, writeVars, crossing>>

-----------------------------------------------------------------------------
Goto(q, key, pc, response) ==
  write' = [write EXCEPT ![q] = [key |-> key, pc |-> pc, response |-> response]]

(* onRequest: a cached response is sent again, whatever its status was.    *)
OnRequest(q, k) ==
  /\ write[q] = NoWrite
  /\ crossing \/ \A o \in Writes : write[o] = NoWrite
  /\ Goto(q, k, IF store[k] = "none" THEN "handle" ELSE "check", store[k])
  /\ UNCHANGED <<letterVars, store, executed, crossing>>

(* The route handles the request: it writes, or it answers an error.       *)
Handle(q, outcome) ==
  LET k == write[q].key IN
  /\ write[q].pc = "handle"
  /\ executed[k] < MaxWritten
  /\ executed' = [executed EXCEPT ![k] = IF outcome = "done" THEN @ + 1 ELSE @]
  /\ Goto(q, k, "check", outcome)
  /\ UNCHANGED <<letterVars, store, crossing>>

(* Mutant: only what is cached is cached. *)
ToCacheKnown(k) == store[k] # "none"
ToCache(k) == store[k] = "none"

(* onSend: a response is cached when the store has none for its key. *)
OnSend(q) ==
  LET k == write[q].key IN
  /\ write[q].pc = "check"
  /\ IF ToCache(k) THEN Goto(q, k, "set", write[q].response)
                   ELSE write' = [write EXCEPT ![q] = NoWrite]
  /\ UNCHANGED <<letterVars, store, executed, crossing>>

SetCached(q) ==
  /\ write[q].pc = "set"
  /\ store' = [store EXCEPT ![write[q].key] = write[q].response]
  /\ write' = [write EXCEPT ![q] = NoWrite]
  /\ UNCHANGED <<letterVars, executed, crossing>>

(* An entry is evicted when its time to live has passed. *)
Expire(k) ==
  /\ store[k] # "none"
  /\ store' = [store EXCEPT ![k] = "none"]
  /\ executed' = [executed EXCEPT ![k] = 0]
  /\ UNCHANGED <<letterVars, write, crossing>>

-----------------------------------------------------------------------------
WorkerAnswers(p) == WorkerSucceeds(p) \/ WorkerFails(p)

PublishStep == \E p \in Publishers : WorkerAnswers(p) \/ \E e \in Letters : Publish(p, e)

WriteStep ==
  \/ \E q \in Writes : \/ \E k \in Keys : OnRequest(q, k)
                       \/ \E outcome \in Responses : Handle(q, outcome)
                       \/ OnSend(q) \/ SetCached(q)
  \/ \E k \in Keys : Expire(k)

ConfessionNext == PublishStep \/ WriteStep
ConfessionSpec == ConfessionInit /\ [][ConfessionNext]_confessionVars

-----------------------------------------------------------------------------
(* However publications overlap and workers fail, an event that was        *)
(* published and is in flight no more has been handled by each worker of   *)
(* its route that has a handler: the worker has succeeded on it, or it is  *)
(* a dead letter of that worker, or one of the two is so of another event  *)
(* of the same millisecond, which the router cannot tell from it.          *)
InFlight(e) == \E p \in Publishers : publishing[p].event = e
Handled(e, w) == \E f \in Twins(e) : succeeded[f][w] > 0 \/ <<f, w>> \in deadLetters
ProcessedOrDead ==
  \A e \in Letters : published[e] > 0 /\ ~InFlight(e) =>
    \A i \in DOMAIN Routes[e] : Routes[e][i] \in Registered => Handled(e, Routes[e][i])

(* When publications do not overlap, a worker succeeds once at most for    *)
(* one id, however often its events are published ("should ignore          *)
(* duplicate event delivery", test/production-resilience.test.ts:252):     *)
(* once on an event, and on one only of the events of a millisecond.       *)
OncePerWorker ==
  ~crossing => \A e \in Letters, w \in Workers :
    /\ succeeded[e][w] <= 1
    /\ succeeded[e][w] = 1 => \A f \in Twins(e) \ {e} : succeeded[f][w] = 0

(* When requests do not overlap, a key executes at most one write until    *)
(* its entry expires.                                                      *)
OneWritePerKey == ~crossing => \A k \in Keys : executed[k] <= 1
=============================================================================
