----------------------------- MODULE CircuitBreaker -----------------------------
(***************************************************************************)
(* One circuit breaker of Campus Connect (resilience/circuit-breaker.ts).  *)
(* execute looks at the state, awaits the action and reports its outcome   *)
(* to the state of then, which other calls may have changed.  Time is      *)
(* whether recoveryTimeoutMs has passed since the state last changed; it   *)
(* is only asked for while OPEN.  A fallback changes no breaker.           *)
(***************************************************************************)
EXTENDS Naturals, FiniteSets

CONSTANTS
  Calls,             \* calls of execute that can be in flight at once
  FailureThreshold,  \* failures that open a closed breaker: 3
  SuccessThreshold,  \* successes that close a half-open one: 2
  MaxFailures,       \* bound: failures counted since the last reset
  MaxForced          \* bound: calls of forceOpen and reset

ASSUME CircuitBreakerAssumption ==
  /\ FailureThreshold \in Nat \ {0} /\ SuccessThreshold \in Nat \ {0}
  /\ MaxFailures \in Nat /\ MaxFailures >= FailureThreshold /\ MaxForced \in Nat

VARIABLES
  breaker,  \* state, failureCount, successCount
  clock,    \* whether the breaker is OPEN for its recovery timeout: "elapsed"
  awaited,  \* the calls whose action is running
  forced,   \* calls of forceOpen and reset so far
  streak    \* history: successes reported since the last failure or opening

breakerVars == <<breaker, clock, awaited, forced, streak>>

States == {"CLOSED", "OPEN", "HALF_OPEN"}

BreakerTypeOK ==
  /\ breaker \in [state : States, failureCount : 0..MaxFailures,
                  successCount : 0..(SuccessThreshold - 1)]
  /\ clock \in {"running", "elapsed"} /\ (clock = "elapsed" => breaker.state = "OPEN")
  /\ awaited \subseteq Calls
  /\ forced \in 0..MaxForced
  /\ streak \in 0..SuccessThreshold

NewBreaker == [state |-> "CLOSED", failureCount |-> 0, successCount |-> 0]

BreakerInit ==
  /\ breaker = NewBreaker
  /\ clock = "running"
  /\ awaited = {}
  /\ forced = 0
  /\ streak = 0

RecoveryTimeoutPasses ==
  /\ breaker.state = "OPEN"
  /\ clock' = "elapsed"
  /\ UNCHANGED <<breaker, awaited, forced, streak>>

(* Mutants: the successes of an earlier trial are kept; a breaker that is  *)
(* asked for its state does not look at the time.                          *)
TrialKeepingSuccesses ==
  IF clock = "elapsed" THEN [breaker EXCEPT !.state = "HALF_OPEN"] ELSE breaker

TrialNever == breaker

(* checkStateTransition: the breaker getState answers from. *)
Checked ==
  IF clock = "elapsed" THEN [breaker EXCEPT !.state = "HALF_OPEN", !.successCount = 0] ELSE breaker

GetState ==
  /\ clock = "elapsed"
  /\ breaker' = Checked
  /\ clock' = "running"
  /\ UNCHANGED <<awaited, forced, streak>>

(* execute up to the await: an open breaker rejects or falls back. *)
Execute(c) ==
  /\ c \notin awaited
  /\ Checked.state # "OPEN"
  /\ breaker' = Checked
  /\ clock' = "running"
  /\ awaited' = awaited \cup {c}
  /\ UNCHANGED <<forced, streak>>

(* reset, on request or when a trial has succeeded, and the transition to  *)
(* OPEN; both restart the clock.                                           *)
AfterReset == NewBreaker
Opened(b)  == [b EXCEPT !.state = "OPEN"]

Closed(b) == AfterReset

Enough(successes) == successes >= SuccessThreshold

Longer == IF streak < SuccessThreshold THEN streak + 1 ELSE streak

(* onSuccess *)
Succeed(c) ==
  LET successes == breaker.successCount + 1 IN
  /\ c \in awaited
  /\ awaited' = awaited \ {c}
  /\ breaker' = CASE breaker.state = "HALF_OPEN" /\ Enough(successes) ->
                       Closed(breaker)
                  [] breaker.state = "HALF_OPEN" /\ ~Enough(successes) ->
                       [breaker EXCEPT !.successCount = successes]
                  [] breaker.state = "CLOSED" -> [breaker EXCEPT !.failureCount = 0]
                  [] breaker.state = "OPEN"   -> breaker
  /\ streak' = IF breaker.state = "OPEN" THEN 0 ELSE Longer
  /\ UNCHANGED <<clock, forced>>

(* onFailure counts in every state; late failures of an open breaker too. *)
Fail(c) ==
  LET counted == [breaker EXCEPT !.failureCount = @ + 1] IN
  /\ c \in awaited
  /\ breaker.failureCount < MaxFailures
  /\ awaited' = awaited \ {c}
  /\ breaker' = IF \/ breaker.state = "HALF_OPEN"
                   \/ breaker.state = "CLOSED" /\ counted.failureCount >= FailureThreshold
                  THEN Opened(counted) ELSE counted
  /\ streak' = 0
  /\ UNCHANGED <<clock, forced>>

Reset ==
  /\ forced < MaxForced
  /\ breaker' = AfterReset
  /\ clock' = "running"
  /\ forced' = forced + 1
  /\ UNCHANGED <<awaited, streak>>

ForceOpen ==
  /\ forced < MaxForced
  /\ breaker' = Opened(breaker)
  /\ clock' = "running"
  /\ streak' = 0
  /\ forced' = forced + 1
  /\ UNCHANGED awaited

Settle(c) == Succeed(c) \/ Fail(c)

BreakerNext ==
  \/ RecoveryTimeoutPasses \/ GetState \/ Reset \/ ForceOpen
  \/ \E c \in Calls : Execute(c) \/ Settle(c)

BreakerSpec == BreakerInit /\ [][BreakerNext]_breakerVars

-----------------------------------------------------------------------------
(* However calls overlap, a closed breaker still tolerates a failure: no   *)
(* failures of an earlier outage or of late calls count against it.        *)
ClosedTolerates ==
  breaker.state = "CLOSED" => breaker.failureCount < FailureThreshold

(* A breaker closes by itself only after SuccessThreshold successes since  *)
(* it was last open, with no failure between them ("Consecutive successes  *)
(* in HALF_OPEN to close circuit", circuit-breaker.ts:13).                 *)
ClosesAfterStreak ==
  [][breaker.state = "HALF_OPEN" /\ breaker'.state = "CLOSED" /\ forced' = forced
       => streak' = SuccessThreshold]_breakerVars

(* An outage that ends is recovered from: once calls fail no more, the     *)
(* breaker stays closed from some moment on.                               *)
Recovers == <>[][~\E c \in Calls : Fail(c)]_breakerVars => <>[](breaker.state = "CLOSED")
=============================================================================
