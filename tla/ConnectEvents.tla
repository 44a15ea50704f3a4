----------------------------- MODULE ConnectEvents -----------------------------
(***************************************************************************)
(* The event router of Campus Connect (events/event-router.ts) with its    *)
(* dead letter queue (events/dlq-manager.ts) and the replay of dead        *)
(* letters (resilience/event-replayer.ts).  A dispatch awaits the handlers *)
(* of its event one after another, trying each up to MaxAttempts times;    *)
(* what follows an answer, up to the next await, is one step.              *)
(***************************************************************************)
EXTENDS Naturals, FiniteSets

CONSTANTS
  Events,
  HandlerCount,  \* HandlerCount[e]: handlers subscribed to the type of e
  Dispatches,    \* dispatches that can be in flight at once
  MaxAttempts,   \* 3 in dispatch
  MaxStarts,     \* bound: dispatches and replays
  NoEvent

ASSUME ConnectEventsAssumption ==
  /\ HandlerCount \in [Events -> Nat]
  /\ MaxAttempts \in Nat \ {0} /\ MaxStarts \in Nat
  /\ NoEvent \notin Events

VARIABLES
  processed,  \* processedEventIds
  dlq,        \* the events with a dead letter
  run,        \* run[d]: event, handler it awaits, attempts of it that failed
  overlap,    \* whether dispatches of this behaviour overlap
  starts,     \* dispatches and replays so far
  done,       \* history: how often handler h of event e succeeded
  missed,     \* history: <<e, h>>: h was given up on e and has not succeeded since
  again       \* history: events whose record was deleted for another round

eventVars == <<processed, dlq, run, overlap, starts, done, missed, again>>

HandlersOf(e) == 1..HandlerCount[e]
NoRun == [event |-> NoEvent, handler |-> 0, failed |-> 0]

EventsTypeOK ==
  /\ processed \subseteq Events /\ dlq \subseteq Events /\ again \subseteq Events
  /\ overlap \in BOOLEAN /\ starts \in 0..MaxStarts
  /\ run \in [Dispatches -> [event : Events \cup {NoEvent}, handler : Nat,
                             failed : 0..(MaxAttempts - 1)]]
  /\ \A d \in Dispatches : run[d] # NoRun =>
       run[d].event \in Events /\ run[d].handler \in HandlersOf(run[d].event)
  /\ missed \subseteq Events \X Nat
  /\ \A p \in missed : p[2] \in HandlersOf(p[1])
  /\ \A e \in Events : done[e] \in [HandlersOf(e) -> Nat]

EventsInit ==
  /\ processed = {} /\ dlq = {}
  /\ run = [d \in Dispatches |-> NoRun]
  /\ overlap \in BOOLEAN
  /\ starts = 0
  /\ done = [e \in Events |-> [h \in HandlersOf(e) |-> 0]]
  /\ missed = {} /\ again = {}

MayStart(d) ==
  /\ run[d] = NoRun
  /\ overlap \/ \A c \in Dispatches : run[c] = NoRun
  /\ starts < MaxStarts

(* dispatch of e, when the processed events are known: an event no one    *)
(* subscribed to is processed at once, a processed one is skipped.         *)
Begin(d, e, known) ==
  IF e \in known THEN processed' = known /\ UNCHANGED run
  ELSE IF HandlersOf(e) = {} THEN processed' = known \cup {e} /\ UNCHANGED run
  ELSE /\ processed' = known
       /\ run' = [run EXCEPT ![d] = [event |-> e, handler |-> 1, failed |-> 0]]

Dispatch(d, e) ==
  /\ MayStart(d)
  /\ Begin(d, e, processed)
  /\ starts' = starts + 1
  /\ UNCHANGED <<dlq, overlap, done, missed, again>>

(* Mutant: the dead letter is removed, but the event stays processed. *)
ReplayProcessed(d, e) ==
  /\ MayStart(d)
  /\ e \in dlq
  /\ dlq' = dlq \ {e}
  /\ Begin(d, e, processed)
  /\ starts' = starts + 1
  /\ again' = again \cup {e}
  /\ UNCHANGED <<overlap, done, missed>>

(* replayEvent, which replayFromDLQ calls: the dead letter and the record  *)
(* of the event are deleted and the event is dispatched again.             *)
ReplayEvent(d, e) ==
  /\ MayStart(d)
  /\ e \in dlq
  /\ dlq' = dlq \ {e}
  /\ Begin(d, e, processed \ {e})
  /\ starts' = starts + 1
  /\ again' = again \cup {e}
  /\ UNCHANGED <<overlap, done, missed>>

(* The handler after the one awaited; after the last the event is recorded.*)
Advance(d) ==
  LET e == run[d].event
      h == run[d].handler
  IN IF h < HandlerCount[e]
       THEN run' = [run EXCEPT ![d] = [event |-> e, handler |-> h + 1, failed |-> 0]]
            /\ UNCHANGED processed
       ELSE run' = [run EXCEPT ![d] = NoRun] /\ processed' = processed \cup {e}

HandlerSucceeds(d) ==
  LET e == run[d].event
      h == run[d].handler
  IN
  /\ run[d] # NoRun
  /\ Advance(d)
  /\ done' = [done EXCEPT ![e][h] = @ + 1]
  /\ missed' = missed \ {<<e, h>>}
  /\ UNCHANGED <<dlq, overlap, starts, again>>

HandlerFails(d) ==
  LET e == run[d].event
      h == run[d].handler
  IN
  /\ run[d] # NoRun
  /\ IF run[d].failed + 1 < MaxAttempts
       THEN /\ run' = [run EXCEPT ![d].failed = @ + 1]
            /\ UNCHANGED <<processed, dlq, missed>>
       ELSE /\ Advance(d)
            /\ dlq' = dlq \cup {e}
            /\ missed' = missed \cup {<<e, h>>}
  /\ UNCHANGED <<overlap, starts, done, again>>

ClearProcessedEvents ==
  /\ processed # {}
  /\ processed' = {}
  /\ again' = again \cup processed
  /\ UNCHANGED <<dlq, run, overlap, starts, done, missed>>

HandlerAnswers(d) == HandlerSucceeds(d) \/ HandlerFails(d)

EventsNext ==
  \/ \E d \in Dispatches :
       HandlerAnswers(d) \/ \E e \in Events : Dispatch(d, e) \/ ReplayEvent(d, e)
  \/ ClearProcessedEvents

EventsSpec == EventsInit /\ [][EventsNext]_eventVars

-----------------------------------------------------------------------------
(* However dispatches and replays overlap, nothing is lost: a handler that *)
(* was given up on and has not succeeded since has a dead letter for its   *)
(* event, or a dispatch in flight that is still to try it.                 *)
Outstanding(e, h) == \E d \in Dispatches : run[d].event = e /\ run[d].handler <= h
NothingLost == \A p \in missed : p[1] \in dlq \/ Outstanding(p[1], p[2])

(* When dispatches do not overlap, every handler succeeds at most once on  *)
(* an event that was neither replayed nor forgotten ("duplicate event      *)
(* protection", event-router.ts:3).                                        *)
OncePerEvent ==
  ~overlap => \A e \in Events \ again : \A h \in HandlersOf(e) : done[e][h] <= 1
=============================================================================
