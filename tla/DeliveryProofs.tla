---------------------------- MODULE DeliveryProofs ----------------------------
(***************************************************************************)
(* Proofs about the parts of MCDelivery: the event router and the circuit  *)
(* breaker of Campus Connect, the event router and the idempotency hooks   *)
(* of the confessions, the upload pipeline of the marketplace; for any     *)
(* numbers of events, handlers, attempts, calls, publishers and jobs.      *)
(***************************************************************************)
EXTENDS ConnectEvents, CircuitBreaker, ConfessionEvents, UploadPipeline,
        WellFoundedInduction, TLAPS

-----------------------------------------------------------------------------
(* The event router of Campus Connect. *)

RunTypes == [event : Events \cup {NoEvent}, handler : Nat, failed : 0..(MaxAttempts - 1)]

(* The part of the type invariant on which NothingLost rests. *)
RunsOK ==
  /\ dlq \subseteq Events
  /\ run \in [Dispatches -> RunTypes]
  /\ \A d \in Dispatches : run[d] # NoRun =>
       run[d].event \in Events /\ run[d].handler \in HandlersOf(run[d].event)
  /\ missed \subseteq Events \X Nat
  /\ \A p \in missed : p[2] \in HandlersOf(p[1])

EventsInv == RunsOK /\ NothingLost

LEMMA EventsInitially == EventsInit => EventsInv
<1> SUFFICES ASSUME EventsInit PROVE EventsInv
    OBVIOUS
<1>1. NoRun \in RunTypes
      BY ConnectEventsAssumption DEF ConnectEventsAssumption, NoRun, RunTypes
<1>2. RunsOK
      BY <1>1 DEF EventsInit, RunsOK
<1>3. NothingLost
      BY DEF EventsInit, NothingLost
<1> QED BY <1>2, <1>3 DEF EventsInv

(* What begins, ends or advances leaves other dispatches as they are; a    *)
(* dispatch that begins is an outstanding one of each handler of its event.*)
LEMMA BeginRuns ==
  ASSUME EventsInv, NEW d \in Dispatches, NEW e \in Events, NEW known,
         run[d] = NoRun, Begin(d, e, known)
  PROVE  /\ run' \in [Dispatches -> RunTypes]
         /\ \A c \in Dispatches : run'[c] # NoRun =>
              run'[c].event \in Events /\ run'[c].handler \in HandlersOf(run'[c].event)
         /\ \A c \in Dispatches : run[c].event \in Events => run'[c] = run[c]
         /\ e \notin known =>
              \A h \in HandlersOf(e) : run'[d].event = e /\ run'[d].handler <= h
<1> DEFINE begun == [event |-> e, handler |-> 1, failed |-> 0]
<1>1. NoRun.event \notin Events
      BY ConnectEventsAssumption DEF ConnectEventsAssumption, NoRun
<1>2. begun \in RunTypes
      BY ConnectEventsAssumption DEF ConnectEventsAssumption, RunTypes
<1>3. HandlerCount[e] \in Nat
      BY ConnectEventsAssumption DEF ConnectEventsAssumption
<1>4. CASE run' = run /\ (e \in known \/ HandlersOf(e) = {})
      BY <1>4 DEF EventsInv, RunsOK
<1>5. CASE run' = [run EXCEPT ![d] = begun] /\ HandlersOf(e) # {}
  <2>1. 1 \in HandlersOf(e)
        BY <1>3, <1>5 DEF HandlersOf
  <2>2. run'[d] = begun /\ \A c \in Dispatches : c # d => run'[c] = run[c]
        BY <1>5 DEF EventsInv, RunsOK
  <2>3. run' \in [Dispatches -> RunTypes]
        BY <1>2, <1>5 DEF EventsInv, RunsOK
  <2>4. \A h \in HandlersOf(e) : 1 <= h
        BY <1>3 DEF HandlersOf
  <2> HIDE DEF begun
  <2>5. begun.event = e /\ begun.handler = 1
        BY DEF begun
  <2>6. \A c \in Dispatches : run[c].event \in Events => run'[c] = run[c]
        BY <1>1, <2>2
  <2>7. \A c \in Dispatches : run'[c] # NoRun =>
              run'[c].event \in Events /\ run'[c].handler \in HandlersOf(run'[c].event)
        BY <2>1, <2>2, <2>5 DEF EventsInv, RunsOK
  <2> QED BY <2>2, <2>3, <2>4, <2>5, <2>6, <2>7
<1> QED BY <1>4, <1>5 DEF Begin

(* A dispatch that advances has tried its handler, and no later one.       *)
LEMMA AdvanceRuns ==
  ASSUME EventsInv, NEW d \in Dispatches, run[d] # NoRun, Advance(d)
  PROVE  /\ run' \in [Dispatches -> RunTypes]
         /\ \A c \in Dispatches : run'[c] # NoRun =>
              run'[c].event \in Events /\ run'[c].handler \in HandlersOf(run'[c].event)
         /\ \A c \in Dispatches : c # d => run'[c] = run[c]
         /\ \A h \in HandlersOf(run[d].event) : run[d].handler < h =>
              run'[d].event = run[d].event /\ run'[d].handler <= h
<1> DEFINE e == run[d].event
           h == run[d].handler
           next == [event |-> e, handler |-> h + 1, failed |-> 0]
<1>1. e \in Events /\ h \in HandlersOf(e)
      BY DEF EventsInv, RunsOK
<1>2. HandlerCount[e] \in Nat
      BY <1>1, ConnectEventsAssumption DEF ConnectEventsAssumption
<1>3. h \in Nat /\ 1 <= h /\ h <= HandlerCount[e]
      BY <1>1, <1>2 DEF HandlersOf
<1>4. next \in RunTypes /\ NoRun \in RunTypes
      BY <1>1, <1>3, ConnectEventsAssumption DEF ConnectEventsAssumption, RunTypes, NoRun
<1>5. next.event = e /\ next.handler = h + 1
      OBVIOUS
<1>6. CASE h < HandlerCount[e] /\ run' = [run EXCEPT ![d] = next]
  <2> HIDE DEF next
  <2>1. run'[d] = next /\ \A c \in Dispatches : c # d => run'[c] = run[c]
        BY <1>6 DEF EventsInv, RunsOK
  <2>2. h + 1 \in HandlersOf(e)
        BY <1>2, <1>3, <1>6 DEF HandlersOf
  <2>3. run' \in [Dispatches -> RunTypes]
        BY <1>4, <1>6 DEF EventsInv, RunsOK
  <2>4. \A g \in HandlersOf(e) : h < g => h + 1 <= g
        BY <1>2, <1>3 DEF HandlersOf
  <2>5. \A c \in Dispatches : run'[c] # NoRun =>
              run'[c].event \in Events /\ run'[c].handler \in HandlersOf(run'[c].event)
        BY <1>1, <1>5, <2>1, <2>2 DEF EventsInv, RunsOK
  <2> QED BY <1>5, <2>1, <2>3, <2>4, <2>5
<1>7. CASE ~(h < HandlerCount[e]) /\ run' = [run EXCEPT ![d] = NoRun]
  <2>1. run'[d] = NoRun /\ \A c \in Dispatches : c # d => run'[c] = run[c]
        BY <1>7 DEF EventsInv, RunsOK
  <2>2. \A g \in HandlersOf(e) : ~(h < g)
        BY <1>2, <1>3, <1>7 DEF HandlersOf
  <2>3. run' \in [Dispatches -> RunTypes]
        BY <1>4, <1>7 DEF EventsInv, RunsOK
  <2> QED BY <2>1, <2>2, <2>3 DEF EventsInv, RunsOK
<1> QED BY <1>6, <1>7 DEF Advance

LEMMA EventsStep == EventsInv /\ [EventsNext]_eventVars => EventsInv'
<1> SUFFICES ASSUME EventsInv, [EventsNext]_eventVars PROVE EventsInv'
    OBVIOUS
<1>1. ASSUME NEW d \in Dispatches, NEW e \in Events, Dispatch(d, e) PROVE EventsInv'
  <2>1. run[d] = NoRun /\ Begin(d, e, processed) /\ UNCHANGED <<dlq, missed>>
        BY <1>1 DEF Dispatch, MayStart
  <2>2. RunsOK'
        BY <2>1, BeginRuns DEF EventsInv, RunsOK
  <2>3. \A c \in Dispatches : run[c].event \in Events => run'[c] = run[c]
        BY <2>1, BeginRuns
  <2>4. NothingLost'
        BY <2>1, <2>3 DEF EventsInv, RunsOK, NothingLost, Outstanding
  <2> QED BY <2>2, <2>4 DEF EventsInv
<1>2. ASSUME NEW d \in Dispatches, NEW e \in Events, ReplayEvent(d, e) PROVE EventsInv'
  <2>1. run[d] = NoRun /\ Begin(d, e, processed \ {e}) /\ dlq' = dlq \ {e} /\ missed' = missed
        BY <1>2 DEF ReplayEvent, MayStart
  <2>2. RunsOK'
        BY <2>1, BeginRuns DEF EventsInv, RunsOK
  <2>3. \A c \in Dispatches : run[c].event \in Events => run'[c] = run[c]
        BY <2>1, BeginRuns
  <2>4. \A h \in HandlersOf(e) : run'[d].event = e /\ run'[d].handler <= h
        BY <2>1, BeginRuns
  <2>5. ASSUME NEW p \in missed PROVE p[1] \in dlq' \/ Outstanding(p[1], p[2])'
    <3>1. CASE p[1] = e
          BY <2>4, <3>1 DEF EventsInv, RunsOK, Outstanding
    <3>2. CASE p[1] # e
          BY <2>1, <2>3, <3>2 DEF EventsInv, RunsOK, NothingLost, Outstanding
    <3> QED BY <3>1, <3>2
  <2>6. NothingLost'
        BY <2>1, <2>5 DEF NothingLost
  <2> QED BY <2>2, <2>6 DEF EventsInv
<1>3. ASSUME NEW d \in Dispatches, HandlerSucceeds(d) PROVE EventsInv'
  <2> DEFINE e == run[d].event
             h == run[d].handler
  <2>1. run[d] # NoRun /\ Advance(d) /\ missed' = missed \ {<<e, h>>} /\ dlq' = dlq
        BY <1>3 DEF HandlerSucceeds
  <2>2. RunsOK'
        BY <2>1, AdvanceRuns DEF EventsInv, RunsOK
  <2>3. ASSUME NEW p \in missed' PROVE p[1] \in dlq' \/ Outstanding(p[1], p[2])'
    <3>1. p \in missed /\ p # <<e, h>> /\ p = <<p[1], p[2]>> /\ p[2] \in HandlersOf(p[1])
          BY <2>1 DEF EventsInv, RunsOK
    <3>2. p[1] \in Events /\ p[2] \in Nat
          BY <3>1 DEF EventsInv, RunsOK
    <3>3. CASE p[1] \in dlq
          BY <2>1, <3>3
    <3>4. CASE \E c \in Dispatches : c # d /\ run[c].event = p[1] /\ run[c].handler <= p[2]
          BY <2>1, <3>4, AdvanceRuns DEF Outstanding
    <3>5. CASE e = p[1] /\ h <= p[2]
      <4>1. h < p[2] /\ p[2] \in HandlersOf(e)
            BY <3>1, <3>2, <3>5, <2>1 DEF EventsInv, RunsOK, RunTypes
      <4> QED BY <2>1, <3>5, <4>1, AdvanceRuns DEF Outstanding
    <3> QED BY <3>1, <3>3, <3>4, <3>5 DEF EventsInv, NothingLost, Outstanding
  <2>4. NothingLost'
        BY <2>3 DEF NothingLost
  <2> QED BY <2>2, <2>4 DEF EventsInv
<1>4. ASSUME NEW d \in Dispatches, HandlerFails(d), run[d].failed + 1 < MaxAttempts
      PROVE  EventsInv'
  <2>1. /\ run[d] # NoRun /\ run' = [run EXCEPT ![d].failed = @ + 1]
        /\ UNCHANGED <<dlq, missed>>
        BY <1>4 DEF HandlerFails
  <2>2. [run[d] EXCEPT !.failed = @ + 1] \in RunTypes
        BY <1>4, ConnectEventsAssumption
        DEF ConnectEventsAssumption, EventsInv, RunsOK, RunTypes
  <2>3. run' \in [Dispatches -> RunTypes]
        BY <2>1, <2>2 DEF EventsInv, RunsOK
  <2>4. \A c \in Dispatches : run'[c].event = run[c].event /\ run'[c].handler = run[c].handler
        BY <2>1 DEF EventsInv, RunsOK, RunTypes
  <2>5. \A c \in Dispatches : run'[c] # NoRun => run[c] # NoRun
        BY <2>1 DEF EventsInv, RunsOK
  <2>6. RunsOK'
        BY <2>1, <2>3, <2>4, <2>5 DEF EventsInv, RunsOK
  <2>7. NothingLost'
        BY <2>1, <2>4 DEF EventsInv, NothingLost, Outstanding
  <2> QED BY <2>6, <2>7 DEF EventsInv
<1>5. ASSUME NEW d \in Dispatches, HandlerFails(d), ~(run[d].failed + 1 < MaxAttempts)
      PROVE  EventsInv'
  <2> DEFINE e == run[d].event
             h == run[d].handler
  <2>1. /\ run[d] # NoRun /\ Advance(d)
        /\ dlq' = dlq \cup {e} /\ missed' = missed \cup {<<e, h>>}
        BY <1>5 DEF HandlerFails
  <2>2. e \in Events /\ h \in Nat /\ h \in HandlersOf(e)
        BY <2>1 DEF EventsInv, RunsOK, RunTypes
  <2>3. RunsOK'
        BY <2>1, <2>2, AdvanceRuns DEF EventsInv, RunsOK
  <2>4. ASSUME NEW p \in missed' PROVE p[1] \in dlq' \/ Outstanding(p[1], p[2])'
    <3>1. CASE p[1] = e
          BY <2>1, <3>1
    <3>2. CASE p[1] # e
      <4>1. p \in missed
            BY <2>1, <3>2
      <4>2. p[1] \in dlq \/ \E c \in Dispatches : c # d /\ run[c].event = p[1]
                                                  /\ run[c].handler <= p[2]
            BY <3>2, <4>1 DEF EventsInv, NothingLost, Outstanding
      <4> QED BY <2>1, <4>2, AdvanceRuns DEF Outstanding
    <3> QED BY <3>1, <3>2
  <2>5. NothingLost'
        BY <2>4 DEF NothingLost
  <2> QED BY <2>3, <2>5 DEF EventsInv
<1>6. CASE ClearProcessedEvents
      BY <1>6 DEF ClearProcessedEvents, EventsInv, RunsOK, NothingLost, Outstanding
<1>7. CASE UNCHANGED eventVars
      BY <1>7 DEF eventVars, EventsInv, RunsOK, NothingLost, Outstanding
<1> QED BY <1>1, <1>2, <1>3, <1>4, <1>5, <1>6, <1>7 DEF EventsNext, HandlerAnswers

(* However dispatches and replays overlap and handlers fail, what was      *)
(* given up on has a dead letter or is still to be tried.                  *)
THEOREM EventsNothingLost == EventsSpec => []NothingLost
<1>1. EventsInv => NothingLost BY DEF EventsInv
<1> QED BY <1>1, EventsInitially, EventsStep, PTL DEF EventsSpec

LEMMA EventsInvariance == EventsSpec => []EventsInv
BY EventsInitially, EventsStep, PTL DEF EventsSpec

(* The type invariant. *)
THEOREM EventsTypeCorrect == EventsSpec => []EventsTypeOK
<1>1. EventsInit => EventsTypeOK
  <2> SUFFICES ASSUME EventsInit PROVE EventsTypeOK
      OBVIOUS
  <2>1. EventsInv
        BY EventsInitially
  <2>2. starts \in 0..MaxStarts
        BY ConnectEventsAssumption DEF ConnectEventsAssumption, EventsInit
  <2>3. \A e \in Events : done[e] \in [HandlersOf(e) -> Nat]
        BY DEF EventsInit
  <2> QED BY <2>1, <2>2, <2>3 DEF EventsInit, EventsTypeOK, EventsInv, RunsOK, RunTypes
<1>2. EventsTypeOK /\ EventsInv /\ EventsInv' /\ [EventsNext]_eventVars => EventsTypeOK'
  <2> SUFFICES ASSUME EventsTypeOK, EventsInv, EventsInv', [EventsNext]_eventVars
               PROVE  EventsTypeOK'
      OBVIOUS
  <2> DEFINE DoneOK == \A e \in Events : done[e] \in [HandlersOf(e) -> Nat]
             Rest == processed \subseteq Events /\ again \subseteq Events
                     /\ overlap \in BOOLEAN /\ starts \in 0..MaxStarts
  <2>1. Rest /\ DoneOK
        BY DEF EventsTypeOK
  <2>2. ASSUME NEW d \in Dispatches, NEW e \in Events, NEW known, known \subseteq Events,
               Begin(d, e, known)
        PROVE  processed' \subseteq Events
        BY <2>2 DEF Begin
  <2>3. ASSUME NEW d \in Dispatches, run[d] # NoRun, Advance(d)
        PROVE  processed' \subseteq Events
        BY <2>1, <2>3 DEF Advance, EventsInv, RunsOK
  <2>4. starts < MaxStarts => starts + 1 \in 0..MaxStarts
        BY <2>1, ConnectEventsAssumption DEF ConnectEventsAssumption
  <2>5. Rest'
    <3>1. ASSUME NEW d \in Dispatches, NEW e \in Events, Dispatch(d, e) PROVE Rest'
          BY <2>1, <2>2, <2>4, <3>1 DEF Dispatch, MayStart
    <3>2. ASSUME NEW d \in Dispatches, NEW e \in Events, ReplayEvent(d, e) PROVE Rest'
      <4>1. /\ Begin(d, e, processed \ {e}) /\ starts < MaxStarts /\ starts' = starts + 1
            /\ again' = again \cup {e} /\ overlap' = overlap
            BY <3>2 DEF ReplayEvent, MayStart
      <4>2. processed' \subseteq Events
            BY <2>1, <2>2, <4>1
      <4> QED BY <2>1, <2>4, <4>1, <4>2
    <3>3. ASSUME NEW d \in Dispatches, HandlerSucceeds(d) PROVE Rest'
          BY <2>1, <2>3, <3>3 DEF HandlerSucceeds
    <3>4. ASSUME NEW d \in Dispatches, HandlerFails(d) PROVE Rest'
          BY <2>1, <2>3, <3>4 DEF HandlerFails
    <3>5. CASE ClearProcessedEvents
          BY <2>1, <3>5 DEF ClearProcessedEvents
    <3>6. CASE UNCHANGED eventVars
          BY <2>1, <3>6 DEF eventVars
    <3> QED BY <3>1, <3>2, <3>3, <3>4, <3>5, <3>6 DEF EventsNext, HandlerAnswers
  <2>6. DoneOK'
    <3>1. ASSUME NEW d \in Dispatches, HandlerSucceeds(d) PROVE DoneOK'
      <4> DEFINE e == run[d].event
                 h == run[d].handler
      <4>1. e \in Events /\ h \in HandlersOf(e) /\ done' = [done EXCEPT ![e][h] = @ + 1]
            BY <3>1 DEF HandlerSucceeds, EventsInv, RunsOK
      <4>2. SUFFICES ASSUME NEW f \in Events PROVE done'[f] \in [HandlersOf(f) -> Nat]
            BY DEF HandlersOf
      <4>3. done[f] \in [HandlersOf(f) -> Nat]
            BY <2>1
      <4>4. CASE f # e
            BY <4>1, <4>3, <4>4
      <4>5. CASE f = e
        <5>1. f \in DOMAIN done => done'[f] = [done[f] EXCEPT ![h] = @ + 1]
              BY <4>1, <4>5
        <5>2. f \notin DOMAIN done => done'[f] = done[f]
              BY <4>1, <4>5
        <5> QED BY <4>1, <4>3, <4>5, <5>1, <5>2
      <4> QED BY <4>4, <4>5
    <3>2. (\A d \in Dispatches : ~HandlerSucceeds(d)) => done' = done
          BY DEF EventsNext, HandlerAnswers, Dispatch, ReplayEvent, HandlerFails,
                 ClearProcessedEvents, eventVars
    <3> QED BY <2>1, <3>1, <3>2 DEF HandlersOf
  <2> QED BY <2>5, <2>6 DEF EventsTypeOK, EventsInv, RunsOK, RunTypes, HandlersOf
<1> QED BY <1>1, <1>2, EventsInvariance, PTL DEF EventsSpec

-----------------------------------------------------------------------------
(* Without overlap one dispatch is in flight at most, of an event that is  *)
(* not processed yet; a handler that has succeeded on an event nobody      *)
(* asked for again is behind the dispatch, or the event is processed.      *)
Behind(e, h) == e \in processed \/ \E d \in Dispatches : run[d].event = e /\ h < run[d].handler

OnceInv ==
  ~overlap =>
    /\ \A c, d \in Dispatches : run[c] # NoRun /\ run[d] # NoRun => c = d
    /\ \A d \in Dispatches : run[d] # NoRun => run[d].event \notin processed
    /\ \A e \in Events \ again : \A h \in HandlersOf(e) :
         done[e][h] = 0 \/ (done[e][h] = 1 /\ Behind(e, h))

LEMMA OnceStep ==
  EventsTypeOK /\ EventsInv /\ OnceInv /\ [EventsNext]_eventVars => OnceInv'
<1> SUFFICES ASSUME EventsTypeOK, EventsInv, OnceInv, [EventsNext]_eventVars, ~overlap'
             PROVE  /\ (\A c, d \in Dispatches : run[c] # NoRun /\ run[d] # NoRun => c = d)'
                    /\ (\A d \in Dispatches : run[d] # NoRun => run[d].event \notin processed)'
                    /\ (\A e \in Events \ again : \A h \in HandlersOf(e) :
                          done[e][h] = 0 \/ (done[e][h] = 1 /\ Behind(e, h)))'
    BY DEF OnceInv
<1>0. ~overlap
      BY DEF EventsNext, HandlerAnswers, Dispatch, ReplayEvent, HandlerSucceeds, HandlerFails,
             ClearProcessedEvents, eventVars
<1> DEFINE Alone == \A c, d \in Dispatches : run[c] # NoRun /\ run[d] # NoRun => c = d
           Fresh == \A d \in Dispatches : run[d] # NoRun => run[d].event \notin processed
           Once  == \A e \in Events \ again : \A h \in HandlersOf(e) :
                      done[e][h] = 0 \/ (done[e][h] = 1 /\ Behind(e, h))
<1>i. Alone /\ Fresh /\ Once
      BY <1>0 DEF OnceInv
<1>n. NoRun.event \notin Events
      BY ConnectEventsAssumption DEF ConnectEventsAssumption, NoRun
(* A dispatch that begins when none is in flight. *)
<1>b. ASSUME NEW d \in Dispatches, NEW e \in Events, NEW known,
             \A c \in Dispatches : run[c] = NoRun, Begin(d, e, known), processed \ {e} \subseteq known
      PROVE  Alone' /\ Fresh' /\ processed \ {e} \subseteq processed'
             /\ (e \in known => e \in processed')
  <2> DEFINE begun == [event |-> e, handler |-> 1, failed |-> 0]
  <2>1. CASE run' = run /\ known \subseteq processed'
        BY <1>b, <2>1
  <2>2. CASE run' = [run EXCEPT ![d] = begun] /\ processed' = known /\ e \notin known
    <3>1. run'[d] = begun /\ \A c \in Dispatches : c # d => run'[c] = run[c]
          BY <2>2 DEF EventsInv, RunsOK
    <3>2. begun.event = e
          OBVIOUS
    <3> HIDE DEF begun
    <3> QED BY <1>b, <2>2, <3>1, <3>2
  <2> QED BY <1>b, <2>1, <2>2 DEF Begin
<1>1. ASSUME NEW d \in Dispatches, NEW e \in Events, Dispatch(d, e)
      PROVE  Alone' /\ Fresh' /\ Once'
  <2>1. /\ \A c \in Dispatches : run[c] = NoRun
        /\ Begin(d, e, processed) /\ UNCHANGED <<done, again>>
        BY <1>0, <1>1 DEF Dispatch, MayStart
  <2>2. Alone' /\ Fresh' /\ processed \subseteq processed'
        BY <1>b, <2>1
  <2>3. \A f \in Events : \A h : Behind(f, h) => f \in processed'
        BY <1>n, <2>1, <2>2 DEF Behind
  <2>4. Once'
        BY <1>i, <2>1, <2>3 DEF Behind, HandlersOf
  <2> QED BY <2>2, <2>4
<1>2. ASSUME NEW d \in Dispatches, NEW e \in Events, ReplayEvent(d, e)
      PROVE  Alone' /\ Fresh' /\ Once'
  <2>1. /\ \A c \in Dispatches : run[c] = NoRun
        /\ Begin(d, e, processed \ {e}) /\ done' = done /\ again' = again \cup {e}
        BY <1>0, <1>2 DEF ReplayEvent, MayStart
  <2>2. Alone' /\ Fresh' /\ processed \ {e} \subseteq processed'
        BY <1>b, <2>1
  <2>3. \A f \in Events \ {e} : \A h : Behind(f, h) => f \in processed'
        BY <1>n, <2>1, <2>2 DEF Behind
  <2>4. Once'
        BY <1>i, <2>1, <2>3 DEF Behind, HandlersOf
  <2> QED BY <2>2, <2>4
(* The one dispatch in flight goes on, past its handler. *)
<1>a. ASSUME NEW d \in Dispatches, run[d] # NoRun, Advance(d),
             NEW e \in Events, NEW h \in Nat, run[d].event = e, run[d].handler = h
      PROVE  /\ Alone' /\ Fresh'
             /\ \A f \in Events, g \in Nat : Behind(f, g) => Behind(f, g)'
             /\ Behind(e, h)'
  <2> DEFINE next == [event |-> e, handler |-> h + 1, failed |-> 0]
  <2>1. e \in Events /\ h \in Nat /\ e \notin processed
        BY <1>a, <1>i
  <2>2. \A c \in Dispatches : c # d => run[c] = NoRun
        BY <1>a, <1>i
  <2>3. next.event = e /\ next.handler = h + 1
        OBVIOUS
  <2>4. CASE run' = [run EXCEPT ![d] = next] /\ processed' = processed
    <3> HIDE DEF next
    <3>1. run'[d] = next /\ \A c \in Dispatches : c # d => run'[c] = NoRun
          BY <2>2, <2>4 DEF EventsInv, RunsOK
    <3>2. Alone' /\ Fresh'
          BY <2>1, <2>3, <2>4, <3>1
    <3>3. ASSUME NEW f \in Events, NEW g \in Nat, Behind(f, g) PROVE Behind(f, g)'
      <4>1. CASE f \in processed
            BY <2>4, <4>1 DEF Behind
      <4>2. CASE f = e /\ g < h
            BY <2>1, <2>3, <3>1, <4>2 DEF Behind
      <4> QED BY <1>a, <1>n, <2>2, <3>3, <4>1, <4>2 DEF Behind
    <3>4. Behind(e, h)'
          BY <2>1, <2>3, <3>1 DEF Behind
    <3> QED BY <3>2, <3>3, <3>4
  <2>5. CASE run' = [run EXCEPT ![d] = NoRun] /\ processed' = processed \cup {e}
    <3>1. \A c \in Dispatches : run'[c] = NoRun
          BY <2>2, <2>5 DEF EventsInv, RunsOK
    <3>2. \A f \in Events, g \in Nat : Behind(f, g) => f \in processed'
          BY <1>a, <1>n, <2>2, <2>5 DEF Behind
    <3>3. \A f \in Events, g \in Nat : f \in processed' => Behind(f, g)'
          BY DEF Behind
    <3>4. e \in processed' /\ Alone' /\ Fresh'
          BY <2>5, <3>1
    <3> QED BY <2>1, <3>2, <3>3, <3>4
  <2> QED BY <1>a, <2>4, <2>5 DEF Advance
<1>3. ASSUME NEW d \in Dispatches, HandlerSucceeds(d) PROVE Alone' /\ Fresh' /\ Once'
  <2> DEFINE e == run[d].event
             h == run[d].handler
  <2>1. /\ run[d] # NoRun /\ Advance(d) /\ again' = again
        /\ done' = [done EXCEPT ![e][h] = @ + 1]
        BY <1>3 DEF HandlerSucceeds
  <2>2. e \in Events /\ h \in HandlersOf(e) /\ e \notin processed /\ h \in Nat
        BY <1>i, <2>1 DEF EventsInv, RunsOK, RunTypes
  <2>a. \A f \in Events, g \in Nat : Behind(f, g) => Behind(f, g)'
        BY <1>a, <2>1, <2>2
  <2>b. Alone' /\ Fresh'
        BY <1>a, <2>1, <2>2
  <2>c. ASSUME NEW f \in Events, NEW g \in Nat, f = e, g = h PROVE Behind(f, g)'
        BY <1>a, <2>1, <2>c
  <2>3. ~Behind(e, h)
    <3>1. \A c \in Dispatches : run[c].event = e => c = d
          BY <1>i, <1>n, <2>1, <2>2
    <3> QED BY <2>2, <3>1 DEF Behind
  <2>4. \A f \in Events : done[f] \in [HandlersOf(f) -> Nat]
        BY DEF EventsTypeOK
  <2>5. ASSUME NEW f \in Events \ again', NEW g \in HandlersOf(f)
        PROVE  done'[f][g] = 0 \/ (done'[f][g] = 1 /\ Behind(f, g)')
    <3>1. done[f][g] = 0 \/ (done[f][g] = 1 /\ Behind(f, g))
          BY <1>i, <2>1
    <3>2. g \in Nat
          BY ConnectEventsAssumption DEF ConnectEventsAssumption, HandlersOf
    <3>3. CASE f # e \/ g # h
      <4>1. done'[f][g] = done[f][g]
        <5>1. CASE f # e
              BY <2>1, <5>1
        <5>2. CASE f = e /\ g # h
          <6>1. done[e] \in [HandlersOf(e) -> Nat]
                BY <2>2, <2>4
          <6>2. CASE e \in DOMAIN done
            <7>1. done'[e] = [done[e] EXCEPT ![h] = @ + 1]
                  BY <2>1, <6>2
            <7> QED BY <5>2, <6>1, <7>1
          <6>3. CASE e \notin DOMAIN done
                BY <2>1, <5>2, <6>3
          <6> QED BY <6>2, <6>3
        <5> QED BY <3>3, <5>1, <5>2
      <4> QED BY <2>a, <3>1, <3>2, <4>1
    <3>4. CASE f = e /\ g = h
      <4>1. done[e][h] = 0
            BY <2>3, <3>1, <3>4
      <4>2. done'[e][h] = 0 \/ done'[e][h] = 1
        <5>1. CASE e \in DOMAIN done
          <6>1. done'[e] = [done[e] EXCEPT ![h] = @ + 1]
                BY <2>1, <5>1
          <6>2. done[e] \in [HandlersOf(e) -> Nat]
                BY <2>2, <2>4
          <6> QED BY <2>2, <4>1, <6>1, <6>2
        <5>2. CASE e \notin DOMAIN done
              BY <2>1, <4>1, <5>2
        <5> QED BY <5>1, <5>2
      <4> QED BY <2>c, <3>2, <3>4, <4>2
    <3> QED BY <3>3, <3>4
  <2> QED BY <2>b, <2>5 DEF HandlersOf
<1>4. ASSUME NEW d \in Dispatches, HandlerFails(d) PROVE Alone' /\ Fresh' /\ Once'
  <2>1. run[d] # NoRun /\ UNCHANGED <<done, again>>
        BY <1>4 DEF HandlerFails
  <2>2. CASE Advance(d)
    <3>1. Alone' /\ Fresh' /\ \A f \in Events, g \in Nat : Behind(f, g) => Behind(f, g)'
      <4>1. run[d].event \in Events /\ run[d].handler \in Nat
            BY <2>1 DEF EventsInv, RunsOK, RunTypes
      <4> QED BY <1>a, <2>1, <2>2, <4>1
    <3>2. \A f \in Events : \A g \in HandlersOf(f) : g \in Nat
          BY ConnectEventsAssumption DEF ConnectEventsAssumption, HandlersOf
    <3>3. Once'
          BY <1>i, <2>1, <3>1, <3>2 DEF HandlersOf
    <3> QED BY <3>1, <3>3
  <2>3. CASE run' = [run EXCEPT ![d].failed = @ + 1] /\ processed' = processed
    <3>1. /\ \A c \in Dispatches : run'[c].event = run[c].event
                                  /\ run'[c].handler = run[c].handler
          /\ \A c \in Dispatches : run'[c] # NoRun => run[c] # NoRun
          BY <2>1, <2>3 DEF EventsInv, RunsOK, RunTypes
    <3>2. Alone' /\ Fresh'
          BY <1>i, <2>3, <3>1
    <3>3. \A f, g : Behind(f, g) => Behind(f, g)'
          BY <2>3, <3>1 DEF Behind
    <3>4. Once'
          BY <1>i, <2>1, <3>3 DEF HandlersOf
    <3> QED BY <3>2, <3>4
  <2> QED BY <1>4, <2>2, <2>3 DEF HandlerFails
<1>5. CASE ClearProcessedEvents
  <2>1. processed' = {} /\ again' = again \cup processed /\ UNCHANGED <<run, done>>
        BY <1>5 DEF ClearProcessedEvents
  <2>2. \A f \in Events \ again' : \A h : Behind(f, h) => Behind(f, h)'
        BY <2>1 DEF Behind
  <2>3. Once'
        BY <1>i, <2>1, <2>2 DEF HandlersOf
  <2> QED BY <1>i, <2>1, <2>3
<1>6. CASE UNCHANGED eventVars
      BY <1>i, <1>6 DEF eventVars, Behind, HandlersOf
<1>7. Alone' /\ Fresh' /\ Once'
      BY <1>1, <1>2, <1>3, <1>4, <1>5, <1>6 DEF EventsNext, HandlerAnswers
<1> QED BY <1>7

(* Without overlap, whatever handlers answer, an event that was neither    *)
(* replayed nor forgotten runs every handler to success at most once.      *)
THEOREM EventsOnce == EventsSpec => []OncePerEvent
<1>1. EventsInit => OnceInv
  <2> SUFFICES ASSUME EventsInit PROVE OnceInv
      OBVIOUS
  <2>1. \A d \in Dispatches : run[d] = NoRun
        BY DEF EventsInit
  <2>2. \A e \in Events : \A h \in HandlersOf(e) : done[e][h] = 0
        BY DEF EventsInit
  <2>3. \A e \in Events \ again : \A h \in HandlersOf(e) :
          done[e][h] = 0 \/ (done[e][h] = 1 /\ Behind(e, h))
        BY <2>2
  <2>4. \A c, d \in Dispatches : run[c] # NoRun /\ run[d] # NoRun => c = d
        BY <2>1, Zenon
  <2>5. \A d \in Dispatches : run[d] # NoRun => run[d].event \notin processed
        BY <2>1, Zenon
  <2> QED BY <2>3, <2>4, <2>5, Zenon DEF OnceInv
<1>2. OnceInv => OncePerEvent
  <2> SUFFICES ASSUME OnceInv, ~overlap, NEW e \in Events \ again, NEW h \in HandlersOf(e)
               PROVE  done[e][h] <= 1
      BY DEF OncePerEvent
  <2>1. done[e][h] = 0 \/ done[e][h] = 1
        BY DEF OnceInv
  <2> QED BY <2>1
<1> QED BY <1>1, <1>2, OnceStep, EventsTypeCorrect, EventsInvariance, PTL DEF EventsSpec

-----------------------------------------------------------------------------
(* The circuit breaker. *)

(* The successes of a trial are among those the streak counts. *)
TrialInStreak == breaker.state = "HALF_OPEN" => breaker.successCount <= streak

BreakerInv == BreakerTypeOK /\ ClosedTolerates /\ TrialInStreak

LEMMA BreakerInitially == BreakerInit => BreakerInv
<1>1. BreakerInit => BreakerTypeOK
      BY CircuitBreakerAssumption DEF CircuitBreakerAssumption, BreakerInit, BreakerTypeOK, NewBreaker, States
<1>2. BreakerInit => ClosedTolerates
      BY CircuitBreakerAssumption DEF CircuitBreakerAssumption, BreakerInit, ClosedTolerates, NewBreaker
<1>3. BreakerInit => TrialInStreak
      BY DEF BreakerInit, TrialInStreak, NewBreaker
<1> QED BY <1>1, <1>2, <1>3 DEF BreakerInv

(* The breaker that getState answers from satisfies the invariant again. *)
LEMMA CheckedBreaker ==
  ASSUME BreakerInv
  PROVE  /\ Checked \in [state : States, failureCount : 0..MaxFailures,
                         successCount : 0..(SuccessThreshold - 1)]
         /\ Checked.state = "CLOSED" => Checked.failureCount < FailureThreshold
         /\ Checked.state = "HALF_OPEN" => Checked.successCount <= streak
<1>1. CASE clock = "elapsed"
  <2>1. 0 \in 0..(SuccessThreshold - 1)
        BY CircuitBreakerAssumption DEF CircuitBreakerAssumption
  <2>2. Checked = [breaker EXCEPT !.state = "HALF_OPEN", !.successCount = 0]
        BY <1>1 DEF Checked
  <2>3. Checked.successCount = 0 /\ Checked.state = "HALF_OPEN"
        BY <2>2 DEF BreakerInv, BreakerTypeOK
  <2>4. Checked \in [state : States, failureCount : 0..MaxFailures,
                     successCount : 0..(SuccessThreshold - 1)]
        BY <2>1, <2>2 DEF BreakerInv, BreakerTypeOK, States
  <2>5. streak >= 0
        BY CircuitBreakerAssumption DEF CircuitBreakerAssumption, BreakerInv, BreakerTypeOK
  <2> QED BY <2>3, <2>4, <2>5
<1>2. CASE clock # "elapsed"
      BY <1>2 DEF Checked, BreakerInv, BreakerTypeOK, ClosedTolerates, TrialInStreak
<1> QED BY <1>1, <1>2

LEMMA BreakerStep == BreakerInv /\ [BreakerNext]_breakerVars => BreakerInv'
<1> SUFFICES ASSUME BreakerInv, [BreakerNext]_breakerVars PROVE BreakerInv'
    OBVIOUS
<1> USE CircuitBreakerAssumption DEF CircuitBreakerAssumption
<1>1. CASE RecoveryTimeoutPasses
      BY <1>1 DEF RecoveryTimeoutPasses, BreakerInv, BreakerTypeOK, ClosedTolerates, TrialInStreak
<1>2. CASE GetState
      BY <1>2, CheckedBreaker
      DEF GetState, BreakerInv, BreakerTypeOK, ClosedTolerates, TrialInStreak
<1>3. CASE Reset
      BY <1>3 DEF Reset, AfterReset, NewBreaker, States,
                  BreakerInv, BreakerTypeOK, ClosedTolerates, TrialInStreak
<1>4. CASE ForceOpen
      BY <1>4 DEF ForceOpen, Opened, States,
                  BreakerInv, BreakerTypeOK, ClosedTolerates, TrialInStreak
<1>5. ASSUME NEW c \in Calls, Execute(c) PROVE BreakerInv'
      BY <1>5, CheckedBreaker
      DEF Execute, BreakerInv, BreakerTypeOK, ClosedTolerates, TrialInStreak
<1>6. ASSUME NEW c \in Calls, Succeed(c) PROVE BreakerInv'
  <2>1. CASE breaker.state = "HALF_OPEN" /\ Enough(breaker.successCount + 1)
        BY <1>6, <2>1 DEF Succeed, Closed, AfterReset, NewBreaker, Longer, Enough, States,
                          BreakerInv, BreakerTypeOK, ClosedTolerates, TrialInStreak
  <2>2. CASE breaker.state = "HALF_OPEN" /\ ~Enough(breaker.successCount + 1)
        BY <1>6, <2>2 DEF Succeed, Longer, Enough, States,
                          BreakerInv, BreakerTypeOK, ClosedTolerates, TrialInStreak
  <2>3. CASE breaker.state = "CLOSED"
        BY <1>6, <2>3 DEF Succeed, Longer, States,
                          BreakerInv, BreakerTypeOK, ClosedTolerates, TrialInStreak
  <2>4. CASE breaker.state = "OPEN"
        BY <1>6, <2>4 DEF Succeed, Longer, States,
                          BreakerInv, BreakerTypeOK, ClosedTolerates, TrialInStreak
  <2> QED BY <2>1, <2>2, <2>3, <2>4 DEF BreakerInv, BreakerTypeOK, States
<1>7. ASSUME NEW c \in Calls, Fail(c) PROVE BreakerInv'
  <2> DEFINE counted == [breaker EXCEPT !.failureCount = @ + 1]
  <2>1. counted.failureCount \in 0..MaxFailures
        BY <1>7 DEF Fail, BreakerInv, BreakerTypeOK
  <2>2. CASE breaker' = counted /\ breaker.state # "HALF_OPEN"
               /\ (breaker.state = "CLOSED" => counted.failureCount < FailureThreshold)
        BY <1>7, <2>1, <2>2 DEF Fail, States,
                  BreakerInv, BreakerTypeOK, ClosedTolerates, TrialInStreak
  <2>3. CASE breaker' = Opened(counted)
    <3>1. counted \in [state : States, failureCount : 0..MaxFailures,
                       successCount : 0..(SuccessThreshold - 1)]
          BY <2>1 DEF BreakerInv, BreakerTypeOK
    <3>2. /\ breaker' \in [state : States, failureCount : 0..MaxFailures,
                            successCount : 0..(SuccessThreshold - 1)]
          /\ breaker'.state = "OPEN"
          BY <2>3, <3>1 DEF Opened, States
    <3> QED BY <1>7, <3>2 DEF Fail, BreakerInv, BreakerTypeOK, ClosedTolerates, TrialInStreak
  <2> QED BY <1>7, <2>1, <2>2, <2>3 DEF Fail, BreakerInv, BreakerTypeOK
<1>8. CASE UNCHANGED breakerVars
      BY <1>8 DEF breakerVars, BreakerInv, BreakerTypeOK, ClosedTolerates, TrialInStreak
<1> QED BY <1>1, <1>2, <1>3, <1>4, <1>5, <1>6, <1>7, <1>8 DEF BreakerNext, Settle

LEMMA BreakerInvariance == BreakerSpec => []BreakerInv
BY BreakerInitially, BreakerStep, PTL DEF BreakerSpec

(* The type invariant, whatever the thresholds. *)
THEOREM BreakerTypeCorrect == BreakerSpec => []BreakerTypeOK
<1>1. BreakerInv => BreakerTypeOK BY DEF BreakerInv
<1> QED BY <1>1, BreakerInvariance, PTL

(* However calls overlap and whenever their answers come, a breaker that   *)
(* is closed tolerates another failure.                                    *)
THEOREM BreakerTolerates == BreakerSpec => []ClosedTolerates
<1>1. BreakerInv => ClosedTolerates BY DEF BreakerInv
<1> QED BY <1>1, BreakerInvariance, PTL

(* A breaker closes by itself only after SuccessThreshold successes in a   *)
(* row since it was last open.                                             *)
THEOREM BreakerClosesAfterStreak == BreakerSpec => ClosesAfterStreak
<1> DEFINE Step == breaker.state = "HALF_OPEN" /\ breaker'.state = "CLOSED" /\ forced' = forced
                     => streak' = SuccessThreshold
<1>1. BreakerInv /\ [BreakerNext]_breakerVars => [Step]_breakerVars
  <2> SUFFICES ASSUME BreakerInv, BreakerNext,
                      breaker.state = "HALF_OPEN", breaker'.state = "CLOSED", forced' = forced
               PROVE  streak' = SuccessThreshold
      OBVIOUS
  <2> USE CircuitBreakerAssumption DEF CircuitBreakerAssumption
  <2>1. PICK c \in Calls : Succeed(c)
    <3>1. ~RecoveryTimeoutPasses BY DEF RecoveryTimeoutPasses
    <3>2. ~GetState BY DEF GetState, Checked, BreakerInv, BreakerTypeOK
    <3>3. ~Reset BY DEF Reset, BreakerInv, BreakerTypeOK
    <3>4. ~ForceOpen BY DEF ForceOpen, BreakerInv, BreakerTypeOK
    <3>5. ASSUME NEW c \in Calls, Execute(c) PROVE FALSE
          BY <3>5 DEF Execute, Checked, BreakerInv, BreakerTypeOK
    <3>6. ASSUME NEW c \in Calls, Fail(c) PROVE FALSE
          BY <3>6 DEF Fail, Opened, BreakerInv, BreakerTypeOK
    <3> QED BY <3>1, <3>2, <3>3, <3>4, <3>5, <3>6 DEF BreakerNext, Settle
  <2>2. Enough(breaker.successCount + 1)
        BY <2>1 DEF Succeed, BreakerInv, BreakerTypeOK
  <2> QED BY <2>1, <2>2 DEF Succeed, Longer, Enough, BreakerInv, BreakerTypeOK, TrialInStreak
<1> QED BY <1>1, BreakerInvariance, PTL DEF BreakerSpec, ClosesAfterStreak

-----------------------------------------------------------------------------
(* The event router and the idempotency hooks of the confessions. *)

(* A nonempty set of natural numbers has a least element. *)
LEMMA LeastOfNat ==
  ASSUME NEW S, S \subseteq Nat, S # {}
  PROVE  Min(S) \in S /\ \A y \in S : Min(S) <= y
<1>1. PICK x \in S : \A y \in S : <<y, x>> \notin OpToRel(<, Nat)
      BY WFMin, NatLessThanWellFounded, Zenon
<1>2. \A y \in S : ~(y < x)
      BY <1>1, Zenon DEF OpToRel
<1>3. \A y \in S : x <= y
      BY <1>2
<1> QED BY <1>3 DEF Min

(* The places of the route of an event, and those of workers with a        *)
(* handler.                                                                *)
Places(e)   == 1..Len(Routes[e])
Attended(e) == {i \in Places(e) : Routes[e][i] \in Registered}

CallTypes == {c \in [event : Letters, at : Nat] : c.at \in Places(c.event)} \cup {NoCall}

(* A call of publish has been through with the workers before the one it   *)
(* awaits, and for an id recorded as processed a worker has succeeded.     *)
PublishInv ==
  /\ publishing \in [Publishers -> CallTypes]
  /\ succeeded \in [Letters -> [Workers -> Nat]]
  /\ \A p \in Publishers : publishing[p] # NoCall =>
       \A i \in Attended(publishing[p].event) : i < publishing[p].at =>
         Handled(publishing[p].event, Routes[publishing[p].event][i])
  /\ \A e \in Letters, w \in Workers : <<EventId[e], w>> \in processedIds => Handled(e, w)
  /\ ProcessedOrDead

(* The routes name workers, at their places.                               *)
LEMMA RouteOfWorkers ==
  ASSUME NEW e \in Letters
  PROVE  /\ Len(Routes[e]) \in Nat /\ DOMAIN Routes[e] = Places(e)
         /\ \A i \in Places(e) : i \in Nat /\ 1 <= i /\ Routes[e][i] \in Workers
<1>1. Routes[e] \in Seq(Workers)
      BY ConfessionEventsAssumption DEF ConfessionEventsAssumption
<1> QED BY <1>1 DEF Places

(* A call that awaits a worker awaits one on the route of its event.       *)
LEMMA CallAwaits ==
  ASSUME PublishInv, NEW p \in Publishers, publishing[p] # NoCall
  PROVE  /\ publishing[p].event \in Letters
         /\ publishing[p].at \in Places(publishing[p].event)
         /\ Awaited(p) \in Workers
<1>1. PICK e \in Letters : publishing[p].event = e /\ publishing[p].at \in Places(e)
      BY DEF PublishInv, CallTypes
<1> QED BY <1>1, RouteOfWorkers DEF Awaited

LEMMA PublishInitially == ConfessionInit => PublishInv
<1> SUFFICES ASSUME ConfessionInit PROVE PublishInv
    OBVIOUS
<1>1. \A e \in Letters : ~(published[e] > 0)
      BY DEF ConfessionInit
<1>2. succeeded \in [Letters -> [Workers -> Nat]]
      BY DEF ConfessionInit
<1> QED BY <1>1, <1>2 DEF ConfessionInit, PublishInv, CallTypes, ProcessedOrDead

(* Where the loop of publish stands when it has gone on from a worker.     *)
LEMMA LoopGoesOn ==
  ASSUME PublishInv, NEW p \in Publishers, NEW e \in Letters, NEW from \in Nat,
         1 <= from, NEW known, LoopFrom(p, e, from, known)
  PROVE  /\ publishing' \in [Publishers -> CallTypes]
         /\ \A o \in Publishers : o # p => publishing'[o] = publishing[o]
         /\ \/ /\ publishing'[p] # NoCall /\ publishing'[p].event = e
               /\ \A i \in Attended(e) : from <= i /\ i < publishing'[p].at =>
                    <<EventId[e], Routes[e][i]>> \in known
            \/ /\ publishing'[p] = NoCall
               /\ \A i \in Attended(e) : from <= i => <<EventId[e], Routes[e][i]>> \in known
<1> DEFINE left == ToCall(e, from, known)
<1>1. Len(Routes[e]) \in Nat
      BY RouteOfWorkers
<1>2. left \subseteq Nat /\ left \subseteq Places(e)
      BY <1>1 DEF ToCall, Places
<1>3. \A i \in Attended(e) : from <= i /\ i \notin left => <<EventId[e], Routes[e][i]>> \in known
      BY <1>1 DEF ToCall, Attended, Places
<1>4. NoCall \in CallTypes
      BY DEF CallTypes
<1>5. NoLetter \notin Letters
      BY ConfessionEventsAssumption DEF ConfessionEventsAssumption
<1>6. CASE left = {}
  <2>1. publishing' = [publishing EXCEPT ![p] = NoCall]
        BY <1>6 DEF LoopFrom
  <2> QED BY <1>3, <1>4, <1>6, <2>1 DEF PublishInv
<1>7. CASE left # {}
  <2> DEFINE call == [event |-> e, at |-> Min(left)]
  <2>1. publishing' = [publishing EXCEPT ![p] = call]
        BY <1>7 DEF LoopFrom
  <2>2. Min(left) \in left /\ \A y \in left : Min(left) <= y
        BY <1>2, <1>7, LeastOfNat
  <2>3. call \in CallTypes
        BY <1>2, <2>2 DEF CallTypes
  <2>4. call # NoCall /\ call.event = e /\ call.at = Min(left)
        BY <1>5 DEF NoCall
  <2> HIDE DEF call
  <2>5. publishing'[p] = call /\ \A o \in Publishers : o # p => publishing'[o] = publishing[o]
        BY <2>1 DEF PublishInv
  <2>6. publishing' \in [Publishers -> CallTypes]
        BY <2>1, <2>3 DEF PublishInv
  <2>7. ASSUME NEW i \in Attended(e), from <= i, i < Min(left)
        PROVE  <<EventId[e], Routes[e][i]>> \in known
    <3>1. i \in Nat /\ Min(left) \in Nat
          BY <1>1, <1>2, <2>2 DEF Attended, Places
    <3>2. i \notin left
          BY <2>2, <2>7, <3>1
    <3> QED BY <1>3, <2>7, <3>2
  <2> QED BY <2>4, <2>5, <2>6, <2>7
<1> QED BY <1>6, <1>7

(* A step of one call of publish, which adds to what is handled the worker *)
(* it awaited and goes on from the next, or begins with the first.         *)
LEMMA LoopPreserves ==
  ASSUME PublishInv, NEW p \in Publishers, NEW e \in Letters, NEW from \in Nat, 1 <= from,
         NEW known, LoopFrom(p, e, from, known),
         publishing[p] = NoCall \/ publishing[p].event = e,
         \A f \in Letters, w \in Workers : Handled(f, w) => Handled(f, w)',
         \A w \in Workers : <<EventId[e], w>> \in known => Handled(e, w)',
         \A i \in Attended(e) : i < from => Handled(e, Routes[e][i])',
         \A f \in Letters : f # e => published'[f] = published[f],
         (succeeded \in [Letters -> [Workers -> Nat]])',
         (\A f \in Letters, w \in Workers : <<EventId[f], w>> \in processedIds => Handled(f, w))'
  PROVE  PublishInv'
<1>0. NoCall.event \notin Letters
      BY ConfessionEventsAssumption DEF ConfessionEventsAssumption, NoCall
<1>w. \A f \in Letters : \A i \in Attended(f) : i \in Nat /\ Routes[f][i] \in Workers
      BY RouteOfWorkers DEF Attended
<1>1. /\ publishing' \in [Publishers -> CallTypes]
      /\ \A o \in Publishers : o # p => publishing'[o] = publishing[o]
      /\ \/ /\ publishing'[p] # NoCall /\ publishing'[p].event = e
            /\ \A i \in Attended(e) : from <= i /\ i < publishing'[p].at =>
                 <<EventId[e], Routes[e][i]>> \in known
         \/ /\ publishing'[p] = NoCall
            /\ \A i \in Attended(e) : from <= i => <<EventId[e], Routes[e][i]>> \in known
      BY LoopGoesOn
<1>2. \A i \in Attended(e) : i < from \/ from <= i
      BY <1>w
<1>3. ASSUME NEW o \in Publishers, publishing'[o] # NoCall, NEW f \in Letters,
             f = publishing'[o].event, NEW i \in Attended(f), i < publishing'[o].at
      PROVE  Handled(f, Routes[f][i])'
  <2>1. CASE o = p
        BY <1>1, <1>2, <1>3, <1>w, <2>1
  <2>2. CASE o # p
    <3>1. publishing[o] = publishing'[o]
          BY <1>1, <2>2
    <3>2. Handled(f, Routes[f][i])
          BY <1>3, <3>1 DEF PublishInv
    <3> QED BY <1>w, <3>2
  <2> QED BY <2>1, <2>2
<1>4. ASSUME NEW f \in Letters, published'[f] > 0, ~InFlight(f)', NEW i \in Attended(f)
      PROVE  Handled(f, Routes[f][i])'
  <2>1. CASE f = e
    <3>1. publishing'[p] = NoCall
          BY <1>1, <1>4, <2>1 DEF InFlight
    <3> QED BY <1>1, <1>2, <1>4, <1>w, <2>1, <3>1
  <2>2. CASE f # e
    <3>1. ~InFlight(f)
          BY <1>0, <1>1, <1>4, <2>2 DEF InFlight
    <3>2. i \in DOMAIN Routes[f] /\ Routes[f][i] \in Registered
          BY RouteOfWorkers DEF Attended
    <3>3. Handled(f, Routes[f][i])
          BY <1>4, <2>2, <3>1, <3>2 DEF PublishInv, ProcessedOrDead
    <3> QED BY <1>w, <3>3
  <2> QED BY <2>1, <2>2
<1>5. \A o \in Publishers : publishing'[o] # NoCall => publishing'[o].event \in Letters
      BY <1>1 DEF CallTypes
<1>6. (\A o \in Publishers : publishing[o] # NoCall =>
         \A i \in Attended(publishing[o].event) : i < publishing[o].at =>
           Handled(publishing[o].event, Routes[publishing[o].event][i]))'
      BY <1>3, <1>5 DEF Handled, Twins, Attended, Places
<1>7. ProcessedOrDead'
  <2>1. \A f \in Letters : \A i \in DOMAIN Routes[f] :
          Routes[f][i] \in Registered => i \in Attended(f)
        BY RouteOfWorkers DEF Attended
  <2> QED BY <1>4, <2>1 DEF ProcessedOrDead
<1> QED BY <1>1, <1>6, <1>7 DEF PublishInv

(* A worker that answers adds to what is handled: it succeeded on the      *)
(* event, or a dead letter tells of its failure.                           *)
LEMMA AnswerHandles ==
  ASSUME PublishInv, NEW p \in Publishers, NEW e \in Letters, NEW i \in Places(e),
         publishing[p] # NoCall, publishing[p].event = e, publishing[p].at = i,
         NEW w \in Workers, w = Routes[e][i], WorkerAnswers(p)
  PROVE  /\ succeeded' \in [Letters -> [Workers -> Nat]]
         /\ \A f \in Letters, v \in Workers : Handled(f, v) => Handled(f, v)'
         /\ Handled(e, w)'
         /\ \A f \in Letters, v \in Workers : <<EventId[f], v>> \in processedIds' => Handled(f, v)'
         /\ \E known : LoopFrom(p, e, i + 1, known) /\ known \subseteq processedIds'
         /\ published' = published
<1>0. Awaited(p) = w
      BY DEF Awaited
<1>t. succeeded \in [Letters -> [Workers -> Nat]]
      BY DEF PublishInv
<1>k. \A f \in Letters, v \in Workers : <<EventId[f], v>> \in processedIds => Handled(f, v)
      BY DEF PublishInv
<1>1. CASE WorkerSucceeds(p)
  <2>1. /\ processedIds' = processedIds \cup {<<EventId[e], w>>}
        /\ succeeded' = [succeeded EXCEPT ![e][w] = @ + 1]
        /\ LoopFrom(p, e, i + 1, processedIds \cup {<<EventId[e], w>>})
        /\ deadLetters' = deadLetters /\ published' = published
        BY <1>0, <1>1 DEF WorkerSucceeds
  <2>2. succeeded' \in [Letters -> [Workers -> Nat]] /\ succeeded'[e][w] > 0
        BY <1>t, <2>1
  <2>3. \A f \in Letters, v \in Workers : succeeded[f][v] > 0 => succeeded'[f][v] > 0
        BY <1>t, <2>1
  <2>4. \A f \in Letters, v \in Workers : Handled(f, v) => Handled(f, v)'
        BY <2>1, <2>3 DEF Handled, Twins
  <2>5. \A f \in Letters : EventId[f] = EventId[e] => Handled(f, w)'
        BY <2>2 DEF Handled, Twins
  <2>6. \A f \in Letters, v \in Workers : <<EventId[f], v>> \in processedIds' => Handled(f, v)'
        BY <1>k, <2>1, <2>4, <2>5
  <2> QED BY <2>1, <2>2, <2>4, <2>5, <2>6
<1>2. CASE WorkerFails(p)
  <2> DEFINE existing == {f \in Twins(e) : <<f, w>> \in deadLetters}
  <2>1. /\ deadLetters' = IF existing = {} THEN deadLetters \cup {<<e, w>>} ELSE deadLetters
        /\ LoopFrom(p, e, i + 1, processedIds)
        /\ processedIds' = processedIds /\ succeeded' = succeeded /\ published' = published
        BY <1>0, <1>2 DEF WorkerFails
  <2>2. deadLetters \subseteq deadLetters'
        BY <2>1
  <2>3. \A f \in Letters, v \in Workers : Handled(f, v) => Handled(f, v)'
        BY <2>1, <2>2 DEF Handled, Twins
  <2>4. Handled(e, w)'
    <3>1. CASE existing = {}
          BY <2>1, <3>1 DEF Handled, Twins
    <3>2. CASE existing # {}
          BY <2>2, <3>2 DEF Handled, Twins
    <3> QED BY <3>1, <3>2
  <2>5. \A f \in Letters, v \in Workers : <<EventId[f], v>> \in processedIds' => Handled(f, v)'
        BY <1>k, <2>1, <2>3
  <2> QED BY <1>t, <2>1, <2>3, <2>4, <2>5
<1> QED BY <1>1, <1>2 DEF WorkerAnswers

LEMMA PublishStepOK == PublishInv /\ [ConfessionNext]_confessionVars => PublishInv'
<1> SUFFICES ASSUME PublishInv, [ConfessionNext]_confessionVars PROVE PublishInv'
    OBVIOUS
<1>1. ASSUME NEW p \in Publishers, NEW e \in Letters, Publish(p, e) PROVE PublishInv'
  <2>1. /\ publishing[p] = NoCall /\ LoopFrom(p, e, 1, processedIds)
        /\ published' = [published EXCEPT ![e] = @ + 1]
        /\ UNCHANGED <<processedIds, deadLetters, succeeded>>
        BY <1>1 DEF Publish
  <2>2. \A f \in Letters, w \in Workers : Handled(f, w) => Handled(f, w)'
        BY <2>1 DEF Handled, Twins
  <2>3. \A f \in Letters, w \in Workers : <<EventId[f], w>> \in processedIds => Handled(f, w)'
        BY <2>2 DEF PublishInv
  <2>4. \A i \in Attended(e) : ~(i < 1)
        BY RouteOfWorkers DEF Attended
  <2>5. \A f \in Letters : f # e => published'[f] = published[f]
        BY <2>1
  <2>6. (succeeded \in [Letters -> [Workers -> Nat]])'
        BY <2>1 DEF PublishInv
  <2>7. (\A f \in Letters, w \in Workers : <<EventId[f], w>> \in processedIds => Handled(f, w))'
        BY <2>1, <2>3
  <2> QED BY <2>1, <2>2, <2>3, <2>4, <2>5, <2>6, <2>7, LoopPreserves
<1>2. ASSUME NEW p \in Publishers, WorkerAnswers(p) PROVE PublishInv'
  <2>1. publishing[p] # NoCall
        BY <1>2 DEF WorkerAnswers, WorkerSucceeds, WorkerFails
  <2>e. PICK e \in Letters : publishing[p].event = e /\ publishing[p].at \in Places(e)
        BY <2>1, CallAwaits
  <2>2. PICK i \in Places(e) : publishing[p].at = i
        BY <2>e
  <2>3. PICK w \in Workers : w = Routes[e][i]
        BY RouteOfWorkers
  <2>4. i \in Nat /\ 1 <= i /\ i + 1 \in Nat /\ 1 <= i + 1
        BY RouteOfWorkers
  <2>5. /\ succeeded' \in [Letters -> [Workers -> Nat]]
        /\ \A f \in Letters, v \in Workers : Handled(f, v) => Handled(f, v)'
        /\ Handled(e, w)'
        /\ \A f \in Letters, v \in Workers : <<EventId[f], v>> \in processedIds' => Handled(f, v)'
        /\ \E known : LoopFrom(p, e, i + 1, known) /\ known \subseteq processedIds'
        /\ published' = published
        BY <1>2, <2>1, <2>e, <2>2, <2>3, AnswerHandles
  <2>6. PICK known : LoopFrom(p, e, i + 1, known) /\ known \subseteq processedIds'
        BY <2>5
  <2>7. \A v \in Workers : <<EventId[e], v>> \in known => Handled(e, v)'
        BY <2>5, <2>6
  <2>8. ASSUME NEW j \in Attended(e), j < i + 1 PROVE Handled(e, Routes[e][j])'
    <3>1. j \in Nat /\ Routes[e][j] \in Workers
          BY RouteOfWorkers DEF Attended
    <3>2. CASE j < i
      <4>1. Handled(e, Routes[e][j])
            BY <2>1, <2>e, <2>2, <3>2 DEF PublishInv
      <4> QED BY <2>5, <3>1, <4>1
    <3>3. CASE j = i
          BY <2>3, <2>5, <3>3
    <3> QED BY <2>4, <2>8, <3>1, <3>2, <3>3
  <2>9. /\ (succeeded \in [Letters -> [Workers -> Nat]])'
        /\ (\A f \in Letters, v \in Workers : <<EventId[f], v>> \in processedIds => Handled(f, v))'
        BY <2>5
  <2> QED BY <2>e, <2>2, <2>4, <2>5, <2>6, <2>7, <2>8, <2>9, LoopPreserves
<1>3. CASE UNCHANGED letterVars
      BY <1>3 DEF letterVars, PublishInv, ProcessedOrDead, InFlight, Handled
<1>4. WriteStep => UNCHANGED letterVars
      BY DEF WriteStep, OnRequest, Handle, OnSend, SetCached, Expire
<1> QED BY <1>1, <1>2, <1>3, <1>4 DEF ConfessionNext, PublishStep, confessionVars

(* However publications overlap and workers fail, an event that has been   *)
(* published and is in flight no more has been handled by every worker of  *)
(* its route that has a handler: with success, or as a dead letter, its    *)
(* own or that of an event with the same id.                               *)
THEOREM ConfessionProcessedOrDead == ConfessionSpec => []ProcessedOrDead
<1>1. PublishInv => ProcessedOrDead BY DEF PublishInv
<1> QED BY <1>1, PublishInitially, PublishStepOK, PTL DEF ConfessionSpec

-----------------------------------------------------------------------------
(* Without overlap one call of publish is in flight at most, it awaits a   *)
(* worker that has not processed its id, and what a worker did is recorded,*)
(* for one of the events of an id.                                         *)
OnceWorkerInv ==
  /\ PublishInv
  /\ ~crossing =>
       /\ \A p, o \in Publishers : publishing[p] # NoCall /\ publishing[o] # NoCall => p = o
       /\ \A p \in Publishers : publishing[p] # NoCall =>
            <<EventId[publishing[p].event], Awaited(p)>> \notin processedIds
       /\ \A e \in Letters, w \in Workers :
            succeeded[e][w] = 0 \/ (succeeded[e][w] = 1 /\ <<EventId[e], w>> \in processedIds)
       /\ \A e, f \in Letters, w \in Workers :
            EventId[e] = EventId[f] /\ succeeded[e][w] > 0 /\ succeeded[f][w] > 0 => e = f

LEMMA OnceWorkerInitially == ConfessionInit => OnceWorkerInv
<1> SUFFICES ASSUME ConfessionInit PROVE OnceWorkerInv
    OBVIOUS
<1>1. PublishInv
      BY PublishInitially
<1>2. \A p \in Publishers : publishing[p] = NoCall
      BY DEF ConfessionInit
<1>3. \A e \in Letters, w \in Workers : succeeded[e][w] = 0
      BY DEF ConfessionInit
<1> QED BY <1>1, <1>2, <1>3 DEF OnceWorkerInv

(* The worker at which the loop stops has not processed the id.            *)
LEMMA LoopStopsAtUnknown ==
  ASSUME PublishInv, NEW p \in Publishers, NEW e \in Letters, NEW from \in Nat,
         1 <= from, NEW known, LoopFrom(p, e, from, known), publishing'[p] # NoCall
  PROVE  <<EventId[publishing'[p].event], Awaited(p)'>> \notin known
<1> DEFINE left == ToCall(e, from, known)
<1>1. left \subseteq Nat
      BY RouteOfWorkers DEF ToCall
<1>2. left # {}
  <2>1. ASSUME left = {} PROVE FALSE
    <3>1. publishing' = [publishing EXCEPT ![p] = NoCall]
          BY <2>1 DEF LoopFrom
    <3> QED BY <3>1 DEF PublishInv
  <2> QED BY <2>1
<1>3. Min(left) \in left
      BY <1>1, <1>2, LeastOfNat
<1>4. <<EventId[e], Routes[e][Min(left)]>> \notin known
      BY <1>3 DEF ToCall
<1> DEFINE call == [event |-> e, at |-> Min(left)]
<1>5. publishing' = [publishing EXCEPT ![p] = call]
      BY <1>2 DEF LoopFrom
<1>6. call.event = e /\ call.at = Min(left)
      OBVIOUS
<1> HIDE DEF call
<1>7. publishing'[p] = call
      BY <1>5 DEF PublishInv
<1> QED BY <1>4, <1>6, <1>7 DEF Awaited

LEMMA OnceWorkerStep ==
  OnceWorkerInv /\ [ConfessionNext]_confessionVars => OnceWorkerInv'
<1> SUFFICES ASSUME OnceWorkerInv, [ConfessionNext]_confessionVars PROVE OnceWorkerInv'
    OBVIOUS
<1> DEFINE Alone == \A p, o \in Publishers : publishing[p] # NoCall /\ publishing[o] # NoCall => p = o
           Fresh == \A p \in Publishers : publishing[p] # NoCall =>
                      <<EventId[publishing[p].event], Awaited(p)>> \notin processedIds
           Once  == \A e \in Letters, w \in Workers :
                      succeeded[e][w] = 0 \/ (succeeded[e][w] = 1 /\ <<EventId[e], w>> \in processedIds)
           Single == \A e, f \in Letters, w \in Workers :
                       EventId[e] = EventId[f] /\ succeeded[e][w] > 0 /\ succeeded[f][w] > 0 => e = f
<1>i. PublishInv /\ (~crossing => Alone /\ Fresh /\ Once /\ Single)
      BY DEF OnceWorkerInv
<1>p. PublishInv'
      BY <1>i, PublishStepOK
<1>t. succeeded \in [Letters -> [Workers -> Nat]]
      BY <1>i DEF PublishInv
<1> SUFFICES ~crossing' => Alone' /\ Fresh' /\ Once' /\ Single'
    BY <1>p DEF OnceWorkerInv
(* One call moves on when no other is in flight. *)
<1>a. ASSUME NEW p \in Publishers, NEW e \in Letters, NEW from \in Nat, 1 <= from,
             NEW known, LoopFrom(p, e, from, known), processedIds' \subseteq known,
             \A o \in Publishers : o # p => publishing[o] = NoCall
      PROVE  Alone' /\ Fresh'
  <2>1. \A o \in Publishers : o # p => publishing'[o] = NoCall
        BY <1>a, <1>i, LoopGoesOn
  <2>2. publishing'[p] # NoCall =>
          <<EventId[publishing'[p].event], Awaited(p)'>> \notin known
        BY <1>a, <1>i, LoopStopsAtUnknown
  <2>3. \A o \in Publishers : publishing'[o] # NoCall => o = p
        BY <2>1
  <2>4. Alone'
        BY <2>3
  <2>5. Fresh'
        BY <1>a, <2>2, <2>3
  <2> QED BY <2>4, <2>5
<1>1. ASSUME NEW p \in Publishers, NEW e \in Letters, Publish(p, e)
      PROVE  ~crossing' => Alone' /\ Fresh' /\ Once' /\ Single'
  <2>1. /\ LoopFrom(p, e, 1, processedIds)
        /\ crossing \/ \A o \in Publishers : publishing[o] = NoCall
        /\ UNCHANGED <<processedIds, succeeded, crossing>>
        BY <1>1 DEF Publish
  <2>2. ~crossing => Alone' /\ Fresh'
        BY <1>a, <2>1
  <2> QED BY <1>i, <2>1, <2>2
<1>2. ASSUME NEW p \in Publishers, publishing[p] # NoCall, NEW e \in Letters,
             NEW i \in Places(e), NEW w \in Workers,
             publishing[p].event = e, publishing[p].at = i, w = Awaited(p), WorkerAnswers(p)
      PROVE  ~crossing' => Alone' /\ Fresh' /\ Once' /\ Single'
  <2>0. i + 1 \in Nat /\ 1 <= i + 1
        BY RouteOfWorkers
  <2>1. ~crossing => \A o \in Publishers : o # p => publishing[o] = NoCall
        BY <1>i, <1>2
  <2>2. CASE WorkerSucceeds(p)
    <3>1. /\ processedIds' = processedIds \cup {<<EventId[e], w>>}
          /\ succeeded' = [succeeded EXCEPT ![e][w] = @ + 1]
          /\ LoopFrom(p, e, i + 1, processedIds \cup {<<EventId[e], w>>})
          /\ crossing' = crossing
          BY <1>2, <2>2 DEF WorkerSucceeds
    <3>2. ~crossing => Alone' /\ Fresh'
          BY <1>a, <2>0, <2>1, <3>1
    <3>3. succeeded'[e][w] = succeeded[e][w] + 1
          BY <1>t, <3>1
    <3>4. \A f \in Letters, v \in Workers : f # e \/ v # w => succeeded'[f][v] = succeeded[f][v]
          BY <1>t, <3>1
    <3>5. ~crossing => <<EventId[e], w>> \notin processedIds
          BY <1>i, <1>2
    <3>6. ~crossing => \A f \in Letters : EventId[f] = EventId[e] => succeeded[f][w] = 0
          BY <1>i, <3>5
    <3>7. ASSUME ~crossing, NEW f \in Letters, NEW v \in Workers
          PROVE  succeeded'[f][v] = 0
                 \/ (succeeded'[f][v] = 1 /\ <<EventId[f], v>> \in processedIds')
      <4>1. CASE f = e /\ v = w
            BY <3>1, <3>3, <3>6, <3>7, <4>1
      <4>2. CASE f # e \/ v # w
        <5>1. succeeded'[f][v] = succeeded[f][v]
              BY <3>4, <4>2
        <5>2. succeeded[f][v] = 0 \/ (succeeded[f][v] = 1 /\ <<EventId[f], v>> \in processedIds)
              BY <1>i, <3>7
        <5> QED BY <3>1, <5>1, <5>2
      <4> QED BY <4>1, <4>2
    <3>8. ASSUME ~crossing, NEW f \in Letters, NEW g \in Letters, NEW v \in Workers,
                 EventId[f] = EventId[g], succeeded'[f][v] > 0, succeeded'[g][v] > 0
          PROVE  f = g
      <4>1. CASE v = w /\ EventId[f] = EventId[e]
        <5>1. f # e => succeeded'[f][v] = 0
              BY <3>4, <3>6, <3>8, <4>1
        <5>2. g # e => succeeded'[g][v] = 0
              BY <3>4, <3>6, <3>8, <4>1
        <5> QED BY <3>8, <5>1, <5>2
      <4>2. CASE v # w \/ EventId[f] # EventId[e]
        <5>1. succeeded'[f][v] = succeeded[f][v] /\ succeeded'[g][v] = succeeded[g][v]
              BY <3>4, <3>8, <4>2
        <5> QED BY <1>i, <3>8, <5>1
      <4> QED BY <4>1, <4>2
    <3> QED BY <3>1, <3>2, <3>7, <3>8
  <2>3. CASE WorkerFails(p)
    <3>1. LoopFrom(p, e, i + 1, processedIds) /\ UNCHANGED <<processedIds, succeeded, crossing>>
          BY <1>2, <2>3 DEF WorkerFails
    <3>2. ~crossing => Alone' /\ Fresh'
          BY <1>a, <2>0, <2>1, <3>1
    <3> QED BY <1>i, <3>1, <3>2
  <2> QED BY <1>2, <2>2, <2>3 DEF WorkerAnswers
<1>3. ASSUME NEW p \in Publishers, WorkerAnswers(p)
      PROVE  ~crossing' => Alone' /\ Fresh' /\ Once' /\ Single'
  <2>1. publishing[p] # NoCall
        BY <1>3 DEF WorkerAnswers, WorkerSucceeds, WorkerFails
  <2>2. /\ publishing[p].event \in Letters /\ publishing[p].at \in Places(publishing[p].event)
        /\ Awaited(p) \in Workers
        BY <1>i, <2>1, CallAwaits
  <2> QED BY <1>2, <1>3, <2>1, <2>2
<1>4. CASE UNCHANGED <<letterVars, crossing>>
      BY <1>4, <1>i DEF letterVars, Awaited
<1>5. WriteStep => UNCHANGED <<letterVars, crossing>>
      BY DEF WriteStep, OnRequest, Handle, OnSend, SetCached, Expire
<1> QED BY <1>1, <1>3, <1>4, <1>5 DEF ConfessionNext, PublishStep, confessionVars

(* When calls of publish do not overlap, a worker succeeds once at most    *)
(* for an id, however often its events are published and workers fail.     *)
THEOREM ConfessionOncePerWorker == ConfessionSpec => []OncePerWorker
<1>1. OnceWorkerInv => OncePerWorker
  <2> SUFFICES ASSUME OnceWorkerInv, ~crossing, NEW e \in Letters, NEW w \in Workers
               PROVE  /\ succeeded[e][w] <= 1
                      /\ succeeded[e][w] = 1 => \A f \in Twins(e) \ {e} : succeeded[f][w] = 0
      BY DEF OncePerWorker
  <2>1. \A f \in Letters : succeeded[f][w] = 0 \/ succeeded[f][w] = 1
        BY DEF OnceWorkerInv
  <2>2. \A f \in Letters : EventId[e] = EventId[f] /\ succeeded[e][w] > 0 /\ succeeded[f][w] > 0
          => e = f
        BY DEF OnceWorkerInv
  <2> QED BY <2>1, <2>2 DEF Twins
<1> QED BY <1>1, OnceWorkerInitially, OnceWorkerStep, PTL DEF ConfessionSpec

-----------------------------------------------------------------------------
(* Without overlap one request is in flight at most; while it is handled   *)
(* its key is not cached, and a write that was executed is in the store or *)
(* on its way there.                                                       *)
WriteTypes == [key : Keys, pc : {"handle", "check", "set"},
               response : Responses \cup {"none"}] \cup {NoWrite}

Caching(k) == store[k] # "none" \/ \E q \in Writes : write[q].key = k
                                                    /\ write[q].pc \in {"check", "set"}

OneWriteInv ==
  /\ store \in [Keys -> Responses \cup {"none"}]
  /\ write \in [Writes -> WriteTypes]
  /\ executed \in [Keys -> Nat]
  /\ \A q \in Writes : write[q].pc \in {"check", "set"} => write[q].response \in Responses
  /\ ~crossing =>
       /\ \A q, o \in Writes : write[q] # NoWrite /\ write[o] # NoWrite => q = o
       /\ \A q \in Writes : write[q].pc = "handle" => store[write[q].key] = "none"
       /\ \A k \in Keys : executed[k] = 0 \/ (executed[k] = 1 /\ Caching(k))

LEMMA OneWriteInitially == ConfessionInit => OneWriteInv
<1> SUFFICES ASSUME ConfessionInit PROVE OneWriteInv
    OBVIOUS
<1>1. \A q \in Writes : write[q] = NoWrite /\ write[q].pc = "idle"
      BY DEF ConfessionInit, NoWrite
<1>2. /\ store \in [Keys -> Responses \cup {"none"}]
      /\ write \in [Writes -> WriteTypes]
      /\ executed \in [Keys -> Nat]
      BY DEF ConfessionInit, WriteTypes
<1>3. \A k \in Keys : executed[k] = 0
      BY DEF ConfessionInit
<1> QED BY <1>1, <1>2, <1>3, Zenon DEF OneWriteInv

LEMMA OneWriteStep == OneWriteInv /\ [ConfessionNext]_confessionVars => OneWriteInv'
<1> SUFFICES ASSUME OneWriteInv, [ConfessionNext]_confessionVars PROVE OneWriteInv'
    OBVIOUS
<1> DEFINE Typed ==
             /\ store \in [Keys -> Responses \cup {"none"}]
             /\ write \in [Writes -> WriteTypes]
             /\ executed \in [Keys -> Nat]
             /\ \A q \in Writes : write[q].pc \in {"check", "set"} => write[q].response \in Responses
           Single == \A q, o \in Writes : write[q] # NoWrite /\ write[o] # NoWrite => q = o
           Missed == \A q \in Writes : write[q].pc = "handle" => store[write[q].key] = "none"
           Once   == \A k \in Keys : executed[k] = 0 \/ (executed[k] = 1 /\ Caching(k))
<1>t. Typed /\ (~crossing => Single /\ Missed /\ Once)
      BY DEF OneWriteInv
<1>k. NoWrite.key \notin Keys /\ NoWrite.pc = "idle"
      BY ConfessionEventsAssumption DEF ConfessionEventsAssumption, NoWrite
<1>1. ASSUME NEW q \in Writes, NEW k \in Keys, OnRequest(q, k) PROVE OneWriteInv'
  <2> DEFINE new == [key |-> k, pc |-> IF store[k] = "none" THEN "handle" ELSE "check",
                     response |-> store[k]]
  <2>1. /\ write[q] = NoWrite /\ write' = [write EXCEPT ![q] = new]
        /\ crossing \/ \A o \in Writes : write[o] = NoWrite
        /\ UNCHANGED <<store, executed, crossing>>
        BY <1>1 DEF OnRequest, Goto
  <2>2. /\ new \in WriteTypes /\ new.key = k
        /\ new.pc = "handle" => store[k] = "none"
        /\ new.pc # "handle" => new.response \in Responses
        /\ new.pc \in {"handle", "check"}
        BY <1>t DEF WriteTypes
  <2> HIDE DEF new
  <2>3. write'[q] = new /\ \A o \in Writes : o # q => write'[o] = write[o]
        BY <1>t, <2>1
  <2>4. write' \in [Writes -> WriteTypes]
        BY <1>t, <2>1, <2>2
  <2>5. Typed'
        BY <1>t, <2>1, <2>2, <2>3, <2>4
  <2>6. ASSUME ~crossing PROVE Single' /\ Missed' /\ Once'
    <3>1. \A o \in Writes : o # q => write'[o] = NoWrite
          BY <2>1, <2>3, <2>6
    <3>2. Single'
          BY <3>1
    <3>3. Missed'
          BY <1>k, <2>1, <2>2, <2>3, <3>1
    <3>4. \A l \in Keys : Caching(l) => Caching(l)'
          BY <1>k, <2>1, <2>3, <2>6 DEF Caching
    <3>5. Once'
          BY <1>t, <2>1, <2>6, <3>4
    <3> QED BY <3>2, <3>3, <3>5
  <2> QED BY <2>1, <2>5, <2>6 DEF OneWriteInv
<1>2. ASSUME NEW q \in Writes, NEW outcome \in Responses, Handle(q, outcome) PROVE OneWriteInv'
  <2> DEFINE new == [key |-> write[q].key, pc |-> "check", response |-> outcome]
  <2>0. PICK k : k = write[q].key
        OBVIOUS
  <2>1. /\ write[q].pc = "handle" /\ write' = [write EXCEPT ![q] = new]
        /\ executed' = [executed EXCEPT ![k] = IF outcome = "done" THEN @ + 1 ELSE @]
        /\ UNCHANGED <<store, crossing>>
        BY <1>2, <2>0 DEF Handle, Goto
  <2>2. k \in Keys
        BY <1>k, <1>t, <2>0, <2>1 DEF WriteTypes
  <2>3. new \in WriteTypes /\ new.pc = "check" /\ new.response \in Responses /\ new.key = k
        BY <2>0, <2>2 DEF WriteTypes
  <2> HIDE DEF new
  <2>4. write'[q] = new /\ \A o \in Writes : o # q => write'[o] = write[o]
        BY <1>t, <2>1
  <2>5. write' \in [Writes -> WriteTypes]
        BY <1>t, <2>1, <2>3
  <2>6. executed' \in [Keys -> Nat]
        BY <1>t, <2>1, <2>2
  <2>7. Typed'
        BY <1>t, <2>1, <2>3, <2>4, <2>5, <2>6
  <2>8. ASSUME ~crossing PROVE Single' /\ Missed' /\ Once'
    <3>1. \A o \in Writes : o # q => write[o] = NoWrite /\ write'[o] = NoWrite
          BY <1>k, <1>t, <2>1, <2>4, <2>8
    <3>2. Single'
          BY <3>1
    <3>3. Missed'
          BY <1>k, <2>3, <2>4, <3>1
    <3>4. store[k] = "none" /\ ~Caching(k)
          BY <1>k, <1>t, <2>0, <2>1, <2>2, <2>8, <3>1 DEF Caching
    <3>5. executed[k] = 0
          BY <1>t, <2>2, <2>8, <3>4
    <3>6. Caching(k)'
          BY <2>3, <2>4 DEF Caching
    <3>7. executed'[k] = 0 \/ executed'[k] = 1
          BY <1>t, <2>1, <2>2, <3>5
    <3>8. \A l \in Keys : l # k => executed'[l] = executed[l] /\ (Caching(l) => Caching(l)')
          BY <1>k, <1>t, <2>0, <2>1, <2>4, <3>1 DEF Caching
    <3>9. Once'
          BY <1>t, <2>8, <3>6, <3>7, <3>8
    <3> QED BY <3>2, <3>3, <3>9
  <2> QED BY <2>1, <2>7, <2>8 DEF OneWriteInv
<1>3. ASSUME NEW q \in Writes, OnSend(q) \/ SetCached(q) PROVE OneWriteInv'
  <2>0. PICK k : k = write[q].key
        OBVIOUS
  <2>1. write[q].pc \in {"check", "set"} /\ UNCHANGED <<executed, crossing>>
        BY <1>3 DEF OnSend, SetCached
  <2>2. k \in Keys /\ write[q].response \in Responses
        BY <1>k, <1>t, <2>0, <2>1 DEF WriteTypes
  <2>3. PICK new \in WriteTypes :
             /\ write' = [write EXCEPT ![q] = new]
             /\ \/ /\ new.key = k /\ new.pc = "set" /\ new.response \in Responses
                   /\ store' = store
                \/ /\ new = NoWrite /\ store' = store /\ store[k] # "none"
                \/ /\ new = NoWrite
                   /\ store' = [store EXCEPT ![k] = write[q].response]
    <3>1. CASE SetCached(q)
          BY <2>0, <3>1 DEF SetCached, WriteTypes
    <3>2. CASE OnSend(q) /\ ToCache(k)
      <4> DEFINE next == [key |-> k, pc |-> "set", response |-> write[q].response]
      <4>1. write' = [write EXCEPT ![q] = next] /\ store' = store
            BY <2>0, <3>2 DEF OnSend, Goto
      <4>2. next \in WriteTypes /\ next.key = k /\ next.pc = "set" /\ next.response \in Responses
            BY <2>2 DEF WriteTypes
      <4> QED BY <4>1, <4>2
    <3>3. CASE OnSend(q) /\ ~ToCache(k)
          BY <2>0, <3>3 DEF OnSend, ToCache, WriteTypes
    <3> QED BY <1>3, <3>1, <3>2, <3>3
  <2>4. write'[q] = new /\ \A o \in Writes : o # q => write'[o] = write[o]
        BY <1>t, <2>3
  <2>5. write' \in [Writes -> WriteTypes]
        BY <1>t, <2>3
  <2>6. store' \in [Keys -> Responses \cup {"none"}]
        BY <1>t, <2>2, <2>3
  <2>7. Typed'
        BY <1>k, <1>t, <2>1, <2>3, <2>4, <2>5, <2>6
  <2>8. ASSUME ~crossing PROVE Single' /\ Missed' /\ Once'
    <3>1. \A o \in Writes : o # q => write[o] = NoWrite /\ write'[o] = NoWrite
          BY <1>k, <1>t, <2>1, <2>4, <2>8
    <3>2. Single'
          BY <3>1
    <3>3. Missed'
          BY <1>k, <2>3, <2>4, <3>1
    <3>4. store[k] # "none" => store'[k] # "none"
          BY <1>t, <2>2, <2>3 DEF Responses
    <3>5. Caching(k)'
      <4>1. CASE store'[k] # "none"
            BY <4>1 DEF Caching
      <4>2. CASE new.key = k /\ new.pc = "set"
            BY <2>4, <4>2 DEF Caching
      <4>3. store' = [store EXCEPT ![k] = write[q].response] => store'[k] # "none"
            BY <1>t, <2>2 DEF Responses
      <4> QED BY <2>3, <4>1, <4>2, <4>3
    <3>6. \A l \in Keys : l # k => (Caching(l) => Caching(l)')
          BY <1>k, <1>t, <2>0, <2>3, <2>4, <3>1 DEF Caching
    <3>7. Once'
          BY <1>t, <2>1, <2>8, <3>5, <3>6
    <3> QED BY <3>2, <3>3, <3>7
  <2> QED BY <2>1, <2>7, <2>8 DEF OneWriteInv
<1>4. ASSUME NEW k \in Keys, Expire(k) PROVE OneWriteInv'
  <2>1. /\ store' = [store EXCEPT ![k] = "none"] /\ executed' = [executed EXCEPT ![k] = 0]
        /\ UNCHANGED <<write, crossing>>
        BY <1>4 DEF Expire
  <2>2. Typed'
        BY <1>t, <2>1
  <2>3. ASSUME ~crossing PROVE Single' /\ Missed' /\ Once'
    <3>1. Single'
          BY <1>t, <2>1, <2>3
    <3>2. ASSUME NEW q \in Writes, write[q].pc = "handle" PROVE store'[write[q].key] = "none"
          BY <1>t, <1>k, <2>1, <2>3, <3>2 DEF WriteTypes
    <3>3. \A l \in Keys : l # k => executed'[l] = executed[l] /\ (Caching(l) => Caching(l)')
          BY <1>t, <2>1 DEF Caching
    <3>4. executed'[k] = 0
          BY <1>t, <2>1
    <3>5. Once'
          BY <1>t, <2>3, <3>3, <3>4
    <3> QED BY <2>1, <3>1, <3>2, <3>5
  <2> QED BY <2>1, <2>2, <2>3 DEF OneWriteInv
<1>5. CASE UNCHANGED <<writeVars, crossing>>
      BY <1>5 DEF writeVars, OneWriteInv, Caching
<1>6. PublishStep => UNCHANGED <<writeVars, crossing>>
      BY DEF PublishStep, Publish, WorkerAnswers, WorkerSucceeds, WorkerFails
<1> QED BY <1>1, <1>2, <1>3, <1>4, <1>5, <1>6 DEF ConfessionNext, WriteStep, confessionVars

(* Without overlap a key executes one write at most until its entry        *)
(* expires, whatever the writes answer.                                    *)
THEOREM ConfessionOneWritePerKey == ConfessionSpec => []OneWritePerKey
<1>1. OneWriteInv => OneWritePerKey
  <2> SUFFICES ASSUME OneWriteInv, ~crossing, NEW k \in Keys PROVE executed[k] <= 1
      BY DEF OneWritePerKey
  <2>1. executed[k] = 0 \/ executed[k] = 1
        BY DEF OneWriteInv
  <2> QED BY <2>1
<1> QED BY <1>1, OneWriteInitially, OneWriteStep, PTL DEF ConfessionSpec

-----------------------------------------------------------------------------
(* The upload pipeline. *)

FollowUp == {"image", "metadata"}
Scanned(u) == u \in Uploads \ Infected /\ announced["scan"][u] = 1

(* What a job in flight, an event that waits and an announcement go with. *)
JobOK(j) ==
  /\ job[j].task \in Tasks =>
       /\ <<job[j].task, job[j].upload>> \in marked
       /\ announced[job[j].task][job[j].upload] = 0
  /\ job[j].task \in FollowUp => Scanned(job[j].upload)

AnnouncedOK(t, u) ==
  /\ announced[t][u] = 0 \/ (announced[t][u] = 1 /\ <<t, u>> \in marked)
  /\ t \in FollowUp /\ (announced[t][u] = 1 \/ <<t, u>> \in queued) => Scanned(u)

JobTypes == [task : Tasks \cup {"count"}, upload : Uploads, views : Nat] \cup {NoJob}

AnnounceInv ==
  /\ job \in [Jobs -> JobTypes]
  /\ announced \in [Tasks -> [Uploads -> Nat]]
  /\ views \in [Uploads -> Nat]
  /\ \A j \in Jobs : JobOK(j)
  /\ \A i, j \in Jobs : job[i].task \in Tasks /\ job[i].task = job[j].task
                          /\ job[i].upload = job[j].upload => i = j
  /\ \A t \in Tasks, u \in Uploads : AnnouncedOK(t, u)

LEMMA NoJobTask == NoJob.task \notin Tasks \cup {"count"} /\ NoJob.task \notin FollowUp
BY DEF NoJob, Tasks, FollowUp

LEMMA AnnounceInitially == PipelineInit => AnnounceInv
<1> SUFFICES ASSUME PipelineInit PROVE AnnounceInv
    OBVIOUS
<1>1. \A j \in Jobs : job[j] = NoJob
      BY DEF PipelineInit
<1>2. /\ job \in [Jobs -> JobTypes] /\ announced \in [Tasks -> [Uploads -> Nat]]
      /\ views \in [Uploads -> Nat]
      BY DEF PipelineInit, JobTypes
<1>3. \A t \in Tasks, u \in Uploads : announced[t][u] = 0 /\ <<t, u>> \notin queued
      BY DEF PipelineInit
<1>4. ASSUME NEW t \in Tasks, NEW u \in Uploads PROVE AnnouncedOK(t, u)
  <2>1. announced[t][u] = 0 /\ announced[t][u] # 1 /\ <<t, u>> \notin queued
        BY <1>3
  <2> QED BY <2>1 DEF AnnouncedOK
<1> QED BY <1>1, <1>2, <1>4, NoJobTask DEF AnnounceInv, JobOK

LEMMA AnnounceStep == AnnounceInv /\ [PipelineNext]_pipelineVars => AnnounceInv'
<1> SUFFICES ASSUME AnnounceInv, [PipelineNext]_pipelineVars PROVE AnnounceInv'
    OBVIOUS
<1>f. FollowUp \subseteq Tasks /\ "scan" \in Tasks /\ "scan" \notin FollowUp
      BY DEF FollowUp, Tasks
<1>1. ASSUME NEW t \in {"scan", "index"}, NEW u \in Uploads, Deliver(t, u) PROVE AnnounceInv'
  <2>1. queued' = queued \cup {<<t, u>>} /\ UNCHANGED <<marked, job, announced, views>>
        BY <1>1 DEF Deliver
  <2>2. t \notin FollowUp
        BY DEF FollowUp
  <2>3. \A s \in Tasks, v \in Uploads : AnnouncedOK(s, v)'
        BY <2>1, <2>2 DEF AnnounceInv, AnnouncedOK, Scanned
  <2>4. \A j \in Jobs : JobOK(j)'
        BY <2>1 DEF AnnounceInv, JobOK, Scanned
  <2> QED BY <2>1, <2>3, <2>4 DEF AnnounceInv
<1>2. ASSUME NEW j \in Jobs, NEW t \in Tasks, NEW u \in Uploads, Start(j, t, u) PROVE AnnounceInv'
  <2> DEFINE new == [task |-> t, upload |-> u, views |-> 0]
  <2>1. /\ job[j] = NoJob /\ <<t, u>> \in queued /\ queued' = queued \ {<<t, u>>}
        /\ marked' = marked \cup {<<t, u>>} /\ UNCHANGED <<announced, views>>
        BY <1>2 DEF Start
  <2>2. \A s \in Tasks, v \in Uploads : AnnouncedOK(s, v)'
        BY <2>1 DEF AnnounceInv, AnnouncedOK, Scanned
  <2>3. CASE <<t, u>> \in marked /\ job' = job
    <3>1. \A i \in Jobs : JobOK(i)'
          BY <2>1, <2>3 DEF AnnounceInv, JobOK, Scanned
    <3> QED BY <2>1, <2>2, <2>3, <3>1 DEF AnnounceInv
  <2>4. CASE <<t, u>> \notin marked /\ job' = [job EXCEPT ![j] = new]
    <3>1. new \in JobTypes /\ new.task = t /\ new.upload = u
          BY DEF JobTypes
    <3> HIDE DEF new
    <3>2. job'[j] = new /\ \A i \in Jobs : i # j => job'[i] = job[i]
          BY <2>4 DEF AnnounceInv
    <3>3. job' \in [Jobs -> JobTypes]
          BY <2>4, <3>1 DEF AnnounceInv
    <3>4. announced[t][u] = 0 /\ (t \in FollowUp => Scanned(u))
          BY <2>1, <2>4 DEF AnnounceInv, AnnouncedOK
    <3>5. JobOK(j)'
          BY <2>1, <3>1, <3>2, <3>4 DEF JobOK, Scanned
    <3>6. \A i \in Jobs : i # j => JobOK(i)'
          BY <2>1, <3>2 DEF AnnounceInv, JobOK, Scanned
    <3>7. \A i \in Jobs : i # j => ~(job'[i].task = t /\ job'[i].upload = u)
          BY <2>4, <3>2 DEF AnnounceInv, JobOK
    <3>8. \A h, i \in Jobs : job'[h].task \in Tasks /\ job'[h].task = job'[i].task
                               /\ job'[h].upload = job'[i].upload => h = i
          BY <3>1, <3>2, <3>7 DEF AnnounceInv
    <3> QED BY <2>1, <2>2, <3>3, <3>5, <3>6, <3>8 DEF AnnounceInv
  <2> QED BY <1>2, <2>3, <2>4 DEF Start
(* A job of any kind that ends or is replaced by one that announces nothing.*)
<1>3. ASSUME NEW j \in Jobs, NEW new \in JobTypes, new.task \notin Tasks,
             job' = [job EXCEPT ![j] = new], views' \in [Uploads -> Nat],
             UNCHANGED <<marked, queued, announced>>
      PROVE  AnnounceInv'
  <2>1. job'[j] = new /\ \A i \in Jobs : i # j => job'[i] = job[i]
        BY <1>3 DEF AnnounceInv
  <2>2. job' \in [Jobs -> JobTypes]
        BY <1>3 DEF AnnounceInv
  <2>3. \A i \in Jobs : JobOK(i)'
        BY <1>3, <1>f, <2>1 DEF AnnounceInv, JobOK, Scanned
  <2>4. \A t \in Tasks, u \in Uploads : AnnouncedOK(t, u)'
        BY <1>3 DEF AnnounceInv, AnnouncedOK, Scanned
  <2>5. \A h, i \in Jobs : job'[h].task \in Tasks /\ job'[h].task = job'[i].task
                             /\ job'[h].upload = job'[i].upload => h = i
        BY <1>3, <2>1 DEF AnnounceInv
  <2> QED BY <1>3, <2>2, <2>3, <2>4, <2>5 DEF AnnounceInv
<1>4. ASSUME NEW j \in Jobs, Announce(j), NEW t \in Tasks, NEW u \in Uploads,
             t = job[j].task, u = job[j].upload
      PROVE  AnnounceInv'
  <2>1. /\ announced' = [announced EXCEPT ![t][u] = @ + 1] /\ marked' = marked
        /\ queued' = queued \cup FollowUps(t, u) /\ job' = [job EXCEPT ![j] = NoJob]
        /\ views' = views
        BY <1>4 DEF Announce
  <2>2. job'[j] = NoJob /\ \A i \in Jobs : i # j => job'[i] = job[i]
        BY <2>1 DEF AnnounceInv
  <2>3. /\ job' \in [Jobs -> JobTypes] /\ views' \in [Uploads -> Nat]
        /\ announced' \in [Tasks -> [Uploads -> Nat]]
        BY <2>1 DEF AnnounceInv, JobTypes
  <2>4. announced[t][u] = 0 /\ <<t, u>> \in marked /\ (t \in FollowUp => Scanned(u))
        BY <1>4 DEF AnnounceInv, JobOK
  <2>5. /\ announced'[t][u] = 1
        /\ \A s \in Tasks, v \in Uploads : s # t \/ v # u => announced'[s][v] = announced[s][v]
        BY <2>1, <2>4 DEF AnnounceInv
  <2>6. \A v \in Uploads : Scanned(v) => Scanned(v)'
        BY <1>f, <2>4, <2>5 DEF Scanned
  <2>7. \A v \in Uploads, s \in FollowUp : <<s, v>> \in queued' => <<s, v>> \in queued \/ Scanned(v)'
        BY <2>1, <2>5 DEF FollowUps, FollowUp, Scanned
  <2>8. ASSUME NEW s \in Tasks, NEW v \in Uploads PROVE AnnouncedOK(s, v)'
    <3>1. AnnouncedOK(s, v)
          BY DEF AnnounceInv
    <3>2. CASE s = t /\ v = u
          BY <2>1, <2>4, <2>5, <2>6, <3>2 DEF AnnouncedOK
    <3>3. CASE s # t \/ v # u
          BY <2>1, <2>5, <2>6, <2>7, <3>1, <3>3 DEF AnnouncedOK
    <3> QED BY <3>2, <3>3
  <2>9. ASSUME NEW i \in Jobs PROVE JobOK(i)'
    <3>1. CASE i = j
          BY <1>f, <2>2, <3>1, NoJobTask DEF JobOK
    <3>2. CASE i # j
      <4>1. job'[i] = job[i] /\ JobOK(i) /\ job[i] \in JobTypes
            BY <2>2, <3>2 DEF AnnounceInv
      <4>2. job[i].task \in Tasks => job[i].upload \in Uploads
            BY <4>1, NoJobTask DEF JobTypes
      <4>3. job[i].task \in Tasks => ~(job[i].task = t /\ job[i].upload = u)
            BY <1>4, <3>2 DEF AnnounceInv
      <4> QED BY <1>f, <2>1, <2>5, <2>6, <4>1, <4>2, <4>3 DEF JobOK
    <3> QED BY <3>1, <3>2
  <2>10. \A h, i \in Jobs : job'[h].task \in Tasks /\ job'[h].task = job'[i].task
                              /\ job'[h].upload = job'[i].upload => h = i
         BY <2>2, NoJobTask DEF AnnounceInv
  <2> QED BY <2>3, <2>8, <2>9, <2>10 DEF AnnounceInv
<1>5. ASSUME NEW j \in Jobs, Announce(j) PROVE AnnounceInv'
  <2>1. job[j].task \in Tasks /\ job[j].upload \in Uploads
        BY <1>5, NoJobTask DEF Announce, AnnounceInv, JobTypes
  <2> QED BY <1>4, <1>5, <2>1
<1>6. NoJob \in JobTypes
      BY DEF JobTypes
<1>7. ASSUME NEW j \in Jobs, PublishFails(j) PROVE AnnounceInv'
      BY <1>3, <1>6, <1>7, NoJobTask DEF PublishFails, AnnounceInv
<1>8. ASSUME NEW j \in Jobs, SaveStatistics(j) PROVE AnnounceInv'
  <2>1. job[j].views + 1 \in Nat /\ job[j].upload \in Uploads /\ views \in [Uploads -> Nat]
        BY <1>8, NoJobTask DEF AnnounceInv, JobTypes, SaveStatistics
  <2>2. /\ views' = [views EXCEPT ![job[j].upload] = job[j].views + 1]
        /\ job' = [job EXCEPT ![j] = NoJob] /\ UNCHANGED <<marked, queued, announced>>
        BY <1>8 DEF SaveStatistics
  <2>3. views' \in [Uploads -> Nat]
        BY <2>1, <2>2
  <2> QED BY <1>3, <1>6, <2>2, <2>3, NoJobTask
<1>9. CASE UNCHANGED pipelineVars
      BY <1>9 DEF pipelineVars, AnnounceInv, JobOK, AnnouncedOK, Scanned
<1>10. ASSUME NEW j \in Jobs, NEW u \in Uploads, ReadStatistics(j, u)
       PROVE  AnnounceInv'
  <2> DEFINE new == [task |-> "count", upload |-> u, views |-> views[u]]
  <2>0. views[u] \in Nat /\ "count" \notin Tasks
        BY DEF AnnounceInv, Tasks
  <2>1. new \in JobTypes /\ new.task \notin Tasks
        BY <2>0 DEF JobTypes
  <2>2. job' = [job EXCEPT ![j] = new] /\ UNCHANGED <<marked, queued, announced, views>>
        BY <1>10 DEF ReadStatistics
  <2> HIDE DEF new
  <2> QED BY <1>3, <2>1, <2>2 DEF AnnounceInv
<1> QED BY <1>1, <1>2, <1>5, <1>7, <1>8, <1>9, <1>10 DEF PipelineNext

(* However deliveries and jobs overlap and the publisher fails, nothing is  *)
(* announced twice, nor images or metadata of an infected upload.          *)
THEOREM UploadsAnnouncedOnce == PipelineSpec => []AnnouncedOnce
<1>1. AnnounceInv => AnnouncedOnce
  <2> SUFFICES ASSUME AnnounceInv, NEW t \in Tasks, NEW u \in Uploads
               PROVE  /\ announced[t][u] <= 1
                      /\ t \in FollowUp /\ announced[t][u] = 1 =>
                           announced["scan"][u] = 1 /\ u \notin Infected
      BY DEF AnnouncedOnce, FollowUp
  <2>1. AnnouncedOK(t, u) /\ announced[t][u] \in Nat
        BY DEF AnnounceInv
  <2> QED BY <2>1 DEF AnnouncedOK, Scanned
<1> QED BY <1>1, AnnounceInitially, AnnounceStep, PTL DEF PipelineSpec

-----------------------------------------------------------------------------
(* What holds when statistics jobs run one by one. *)
Counting(j) == job[j].task = "count"
Serial ==
  /\ views = viewed
  /\ \A i, j \in Jobs : Counting(i) /\ Counting(j) => i = j
  /\ \A j \in Jobs : Counting(j) => job[j].views = views[job[j].upload]

CountInv == AnnounceInv /\ (alone => Serial)

LEMMA CountInitially == PipelineInit => CountInv
<1> SUFFICES ASSUME PipelineInit PROVE Serial
    BY AnnounceInitially DEF CountInv
<1>1. \A j \in Jobs : ~Counting(j)
      BY NoJobTask DEF PipelineInit, Counting
<1>2. views = viewed
      BY DEF PipelineInit
<1> QED BY <1>1, <1>2 DEF Serial

LEMMA NothingCounted ==
  ASSUME AnnounceInv, Serial, UNCHANGED <<views, viewed>>,
         \A i \in Jobs : Counting(i)' => Counting(i) /\ job'[i] = job[i]
  PROVE  Serial'
BY DEF Serial

LEMMA SerialStep == AnnounceInv /\ Serial /\ alone /\ [PipelineNext]_pipelineVars => Serial'
<1> SUFFICES ASSUME AnnounceInv, Serial, alone, [PipelineNext]_pipelineVars PROVE Serial'
    OBVIOUS
<1>f. "count" \notin Tasks
      BY DEF Tasks
<1>1. ASSUME NEW t \in {"scan", "index"}, NEW u \in Uploads, Deliver(t, u) PROVE Serial'
  <2>1. UNCHANGED <<job, views, viewed>>
        BY <1>1 DEF Deliver
  <2> QED BY <2>1 DEF Serial, Counting
<1>2. ASSUME NEW j \in Jobs, NEW new, new.task # "count", job' = [job EXCEPT ![j] = new],
             UNCHANGED <<views, viewed>>
      PROVE  Serial'
  <2>1. job'[j] = new /\ \A i \in Jobs : i # j => job'[i] = job[i]
        BY <1>2 DEF AnnounceInv
  <2>2. \A i \in Jobs : Counting(i)' => Counting(i) /\ job'[i] = job[i]
        BY <1>2, <2>1 DEF Counting
  <2> QED BY <1>2, <2>2, NothingCounted
<1>3. ASSUME NEW j \in Jobs, NEW t \in Tasks, NEW u \in Uploads, Start(j, t, u) PROVE Serial'
  <2> DEFINE new == [task |-> t, upload |-> u, views |-> 0]
  <2>1. UNCHANGED <<views, viewed>> /\ (job' = job \/ job' = [job EXCEPT ![j] = new])
        BY <1>3 DEF Start
  <2>2. new.task # "count"
        BY <1>f
  <2> HIDE DEF new
  <2>3. CASE job' = job
        BY <2>1, <2>3 DEF Serial, Counting
  <2> QED BY <1>2, <2>1, <2>2, <2>3
<1>4. ASSUME NEW j \in Jobs, Announce(j) \/ PublishFails(j) PROVE Serial'
  <2>1. UNCHANGED <<views, viewed>> /\ job' = [job EXCEPT ![j] = NoJob]
        BY <1>4 DEF Announce, PublishFails
  <2> QED BY <1>2, <2>1, NoJobTask
<1>5. ASSUME NEW j \in Jobs, NEW u \in Uploads, ReadStatistics(j, u) PROVE Serial'
  <2> DEFINE new == [task |-> "count", upload |-> u, views |-> views[u]]
  <2>1. UNCHANGED <<views, viewed>> /\ job' = [job EXCEPT ![j] = new]
        BY <1>5 DEF ReadStatistics
  <2>2. \A i \in Jobs : ~Counting(i)
        BY <1>5 DEF ReadStatistics, Counting
  <2>3. new.upload = u /\ new.views = views[u]
        OBVIOUS
  <2> HIDE DEF new
  <2>4. job'[j] = new /\ \A i \in Jobs : i # j => job'[i] = job[i]
        BY <2>1 DEF AnnounceInv
  <2>5. \A i \in Jobs : Counting(i)' => i = j
        BY <2>2, <2>4 DEF Counting
  <2> QED BY <2>1, <2>3, <2>4, <2>5 DEF Serial
<1>6. ASSUME NEW j \in Jobs, SaveStatistics(j) PROVE Serial'
  <2>1. Counting(j)
        BY <1>6 DEF SaveStatistics, Counting
  <2>2. PICK u \in Uploads : u = job[j].upload
        BY <2>1, NoJobTask DEF AnnounceInv, JobTypes, Counting
  <2>3. job[j].views = views[u] /\ views = viewed
        BY <2>1, <2>2 DEF Serial
  <2>4. views' = [views EXCEPT ![u] = views[u] + 1] /\ viewed' = [viewed EXCEPT ![u] = viewed[u] + 1]
        BY <1>6, <2>2, <2>3 DEF SaveStatistics
  <2>5. job' = [job EXCEPT ![j] = NoJob]
        BY <1>6 DEF SaveStatistics
  <2>6. job'[j] = NoJob /\ \A i \in Jobs : i # j => job'[i] = job[i]
        BY <2>5 DEF AnnounceInv
  <2>7. \A i \in Jobs : ~Counting(i)'
        BY <2>1, <2>6, NoJobTask DEF Serial, Counting
  <2> QED BY <2>3, <2>4, <2>7 DEF Serial
<1>7. CASE UNCHANGED pipelineVars
      BY <1>7 DEF pipelineVars, Serial, Counting
<1> QED BY <1>1, <1>3, <1>4, <1>5, <1>6, <1>7 DEF PipelineNext

LEMMA AloneStays == [PipelineNext]_pipelineVars => alone' = alone
BY Zenon DEF PipelineNext, pipelineVars, Deliver, Start, Announce, PublishFails,
             SaveStatistics, ReadStatistics

LEMMA CountStep == CountInv /\ [PipelineNext]_pipelineVars => CountInv'
BY AnnounceStep, SerialStep, AloneStays, Zenon DEF CountInv

(* When the statistics jobs run one after the other, no view is lost. *)
THEOREM UploadsViewsCounted == PipelineSpec => []ViewsCounted
<1>1. CountInv => ViewsCounted
      BY Zenon DEF CountInv, ViewsCounted, Serial
<1> QED BY <1>1, CountInitially, CountStep, PTL DEF PipelineSpec
-----------------------------------------------------------------------------
(* Where a task whose key is recorded has got to, if no publisher fails: a  *)
(* job has it in flight, or it was announced and what follows from it is    *)
(* queued or recorded in turn.                                              *)
BeingDone(t, u) == \E j \in Jobs : job[j].task = t /\ job[j].upload = u

Followed(t, u) ==
  announced[t][u] = 1 /\ \A f \in FollowUps(t, u) : f \in queued \cup marked

Carried(t, u) == <<t, u>> \in marked => BeingDone(t, u) \/ Followed(t, u)

CarriedInv == AnnounceInv /\ (~faulty => \A t \in Tasks, u \in Uploads : Carried(t, u))

LEMMA CarriedInitially == PipelineInit => CarriedInv
BY AnnounceInitially DEF PipelineInit, CarriedInv, Carried

(* A step that ends no job of an upload and forgets no event. *)
LEMMA StaysCarried ==
  ASSUME NEW t \in Tasks, NEW u \in Uploads, Carried(t, u),
         <<t, u>> \in marked' => <<t, u>> \in marked,
         queued \cup marked \subseteq queued' \cup marked',
         announced[t][u] = 1 => announced'[t][u] = 1,
         BeingDone(t, u) => BeingDone(t, u)'
  PROVE  Carried(t, u)'
BY DEF Carried, Followed

LEMMA CarriedStep ==
  AnnounceInv /\ (\A t \in Tasks, u \in Uploads : Carried(t, u)) /\ ~faulty
    /\ [PipelineNext]_pipelineVars => \A t \in Tasks, u \in Uploads : Carried(t, u)'
<1> SUFFICES ASSUME AnnounceInv, \A t \in Tasks, u \in Uploads : Carried(t, u), ~faulty,
                    [PipelineNext]_pipelineVars, NEW s \in Tasks, NEW v \in Uploads
             PROVE  Carried(s, v)'
    OBVIOUS
<1>1. ASSUME NEW t \in {"scan", "index"}, NEW u \in Uploads, Deliver(t, u) PROVE Carried(s, v)'
  <2>1. UNCHANGED <<marked, job, announced>> /\ queued \subseteq queued'
        BY <1>1 DEF Deliver
  <2> QED BY <2>1, StaysCarried DEF BeingDone
<1>2. ASSUME NEW j \in Jobs, NEW t \in Tasks, NEW u \in Uploads, Start(j, t, u)
      PROVE  Carried(s, v)'
  <2> DEFINE new == [task |-> t, upload |-> u, views |-> 0]
  <2>1. /\ job[j] = NoJob /\ announced' = announced
        /\ marked' = marked \cup {<<t, u>>} /\ queued' = queued \ {<<t, u>>}
        /\ job' = IF <<t, u>> \in marked THEN job ELSE [job EXCEPT ![j] = new]
        BY <1>2 DEF Start
  <2>2. new.task = t /\ new.upload = u
        OBVIOUS
  <2> HIDE DEF new
  <2>3. CASE <<s, v>> \in marked
    <3>1. BeingDone(s, v) => BeingDone(s, v)'
          BY <2>1, NoJobTask DEF BeingDone, AnnounceInv
    <3> QED BY <2>1, <2>3, <3>1, StaysCarried
  <2>4. CASE <<s, v>> \notin marked /\ s = t /\ v = u
    <3>1. job'[j] = new
          BY <2>1, <2>4 DEF AnnounceInv
    <3> QED BY <2>2, <2>4, <3>1 DEF Carried, BeingDone
  <2> QED BY <2>1, <2>3, <2>4 DEF Carried
<1>3. ASSUME NEW j \in Jobs, Announce(j) PROVE Carried(s, v)'
  <2> DEFINE t == job[j].task
             u == job[j].upload
  <2>1. /\ announced' = [announced EXCEPT ![t][u] = @ + 1] /\ marked' = marked
        /\ queued' = queued \cup FollowUps(t, u) /\ job' = [job EXCEPT ![j] = NoJob]
        /\ t \in Tasks
        BY <1>3 DEF Announce
  <2>2. t \in Tasks /\ u \in Uploads /\ announced[t][u] = 0
        BY <2>1, NoJobTask DEF AnnounceInv, JobTypes, JobOK
  <2> HIDE DEF t, u
  <2>3. CASE s = t /\ v = u
    <3>1. announced'[s][v] = 1
          BY <2>1, <2>2, <2>3 DEF AnnounceInv
    <3> QED BY <2>1, <2>3, <3>1 DEF Carried, Followed, FollowUps
  <2>4. CASE ~(s = t /\ v = u)
    <3>1. announced'[s][v] = announced[s][v]
          BY <2>1, <2>2, <2>4 DEF AnnounceInv
    <3>2. BeingDone(s, v) => BeingDone(s, v)'
          BY <2>1, <2>4 DEF BeingDone, AnnounceInv, t, u
    <3> QED BY <2>1, <3>1, <3>2, StaysCarried
  <2> QED BY <2>3, <2>4
<1>4. ASSUME NEW j \in Jobs, NEW new, job[j].task \notin Tasks,
             job' = [job EXCEPT ![j] = new], UNCHANGED <<marked, announced, queued>>
      PROVE  Carried(s, v)'
  <2>1. BeingDone(s, v) => BeingDone(s, v)'
        BY <1>4 DEF BeingDone, AnnounceInv
  <2> QED BY <1>4, <2>1, StaysCarried
<1>5. ASSUME NEW j \in Jobs, NEW u \in Uploads, ReadStatistics(j, u) PROVE Carried(s, v)'
      BY <1>4, <1>5, NoJobTask DEF ReadStatistics
<1>6. ASSUME NEW j \in Jobs, SaveStatistics(j) PROVE Carried(s, v)'
      BY <1>4, <1>6 DEF SaveStatistics, Tasks
<1>7. ASSUME NEW j \in Jobs, PublishFails(j) PROVE Carried(s, v)'
      BY <1>7 DEF PublishFails
<1>8. CASE UNCHANGED pipelineVars
      BY <1>8, StaysCarried DEF pipelineVars, BeingDone
<1> QED BY <1>1, <1>2, <1>3, <1>5, <1>6, <1>7, <1>8 DEF PipelineNext

LEMMA FaultyStays == [PipelineNext]_pipelineVars => faulty' = faulty
BY Zenon DEF PipelineNext, pipelineVars, Deliver, Start, Announce, PublishFails,
             SaveStatistics, ReadStatistics

(* As long as no publisher fails, no upload is left half processed: a scan  *)
(* that was started is announced, and its follow-ups too, or still to come. *)
THEOREM UploadsNotLeftBehind == PipelineSpec => []NothingLeftBehind
<1>1. CarriedInv => NothingLeftBehind
  <2> SUFFICES ASSUME CarriedInv, ~faulty, queued = {}, \A j \in Jobs : job[j].task \notin Tasks,
                      NEW u \in Uploads, <<"scan", u>> \in marked
               PROVE  /\ announced["scan"][u] = 1
                      /\ u \notin Infected =>
                           announced["image"][u] = 1 /\ announced["metadata"][u] = 1
      BY DEF NothingLeftBehind
  <2>1. \A t \in Tasks : <<t, u>> \in marked => Followed(t, u)
        BY DEF CarriedInv, Carried, BeingDone
  <2> QED BY <2>1 DEF Followed, FollowUps, Tasks
<1>2. CarriedInv /\ [PipelineNext]_pipelineVars => CarriedInv'
      BY AnnounceStep, CarriedStep, FaultyStays, Zenon DEF CarriedInv
<1> QED BY <1>1, <1>2, CarriedInitially, PTL DEF PipelineSpec
=============================================================================
