------------------------------ MODULE MCDelivery ------------------------------
(* Components that share no state, so that a behaviour is one of one of     *)
(* them: the event router and the circuit breaker of Campus Connect, the    *)
(* event router and idempotency hooks of the confessions, the upload        *)
(* pipeline of the marketplace, and the academic resource hub.  Handlers,   *)
(* actions, workers and publishers answer, calls and health checks of a     *)
(* breaker keep coming, and time passes.                                    *)
EXTENDS ConnectEvents, CircuitBreaker, ConfessionEvents, UploadPipeline, ResourceHub, TLC

VARIABLE part
vars == <<part, eventVars, breakerVars, confessionVars, pipelineVars, hubVars>>

MCHandlerCount == "offer" :> 2 @@ "alert" :> 1 @@ "ping" :> 0
MCEvents == DOMAIN MCHandlerCount

(* A confession published and a vote of the same millisecond; the indexer  *)
(* of the first has no handler.                                            *)
MCLetters == {"published", "vote"}
MCEventId == [e \in MCLetters |-> "evt-1"]
MCWorkers == {"search", "ranking", "statistics"}
MCRoutes  == "published" :> <<"search", "ranking">> @@ "vote" :> <<"statistics", "ranking">>
MCRegistered == {"ranking", "statistics"}

Router(A) ==
  part = "router" /\ A /\ UNCHANGED <<part, breakerVars, confessionVars, pipelineVars, hubVars>>
Breaker(A) ==
  part = "breaker" /\ A /\ UNCHANGED <<part, eventVars, confessionVars, pipelineVars, hubVars>>
Confession(A) ==
  part = "confessions" /\ A /\ UNCHANGED <<part, eventVars, breakerVars, pipelineVars, hubVars>>
Pipeline(A) ==
  part = "uploads" /\ A /\ UNCHANGED <<part, eventVars, breakerVars, confessionVars, hubVars>>
Hub(A) ==
  part = "hub" /\ A /\ UNCHANGED <<part, eventVars, breakerVars, confessionVars, pipelineVars>>

Init == /\ EventsInit /\ BreakerInit /\ ConfessionInit /\ PipelineInit /\ HubInit
        /\ part \in {"router", "breaker", "confessions", "uploads", "hub"}
        /\ (overlap => part = "router") /\ (crossing => part = "confessions")
        /\ (faulty \/ alone => part = "uploads") /\ (crowded => part = "hub")

Next == \/ Router(EventsNext) \/ Breaker(BreakerNext)
        \/ Confession(ConfessionNext) \/ Pipeline(PipelineNext)
        \/ Hub(HubNext)

Fairness ==
  /\ \A d \in Dispatches : WF_vars(Router(HandlerAnswers(d)))
  /\ WF_vars(Breaker(RecoveryTimeoutPasses))
  /\ WF_vars(Breaker(GetState \/ \E c \in Calls : Execute(c)))
  /\ \A c \in Calls : WF_vars(Breaker(Settle(c)))
  /\ \A j \in Jobs : WF_vars(Pipeline(Announce(j) \/ SaveStatistics(j)))
  /\ \A t \in Tasks, u \in Uploads : WF_vars(Pipeline(\E j \in Jobs : Start(j, t, u)))

Spec == Init /\ [][Next]_vars /\ Fairness
=============================================================================
