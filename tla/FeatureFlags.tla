----------------------------- MODULE FeatureFlags -----------------------------
(***************************************************************************)
(* One flag of the platform feature flags                                  *)
(* (packages/platform-feature-flags/src): its record in every environment, *)
(* the use cases that write it, the cache evaluation reads, and the policy *)
(* chain.  A use case awaits the repository between reading and writing;   *)
(* that is one step each here.  Records come out of the repository as      *)
(* copies.  What only publishes an event changes no flag and is left out.  *)
(***************************************************************************)
EXTENDS Naturals, FiniteSets, FiniteSetsExt

CONSTANTS
  Environments, Production,
  Requests,     \* calls that can be in flight at once
  StoredStages, \* stages of the records the service starts on
  MaxRetries,   \* saveWithOptimisticRetry tries so often: 3
  MaxVersion    \* bound: the version a record can reach

VARIABLES
  flag,     \* flag[e]: the record of the flag in environment e
  cache,    \* state and stage of production that evaluation has
  overlap,  \* whether calls of this behaviour overlap
  req       \* the calls in flight

vars == <<flag, cache, overlap, req>>

Transitions ==
  [DRAFT |-> {"DEVELOPMENT", "REMOVED"},
   DEVELOPMENT |-> {"BETA", "INTERNAL", "REMOVED"},
   BETA |-> {"INTERNAL", "PRODUCTION", "REMOVED"},
   INTERNAL |-> {"PRODUCTION", "REMOVED"},
   PRODUCTION |-> {"DEPRECATED", "REMOVED"},
   DEPRECATED |-> {"SCHEDULED_REMOVAL", "PRODUCTION", "REMOVED"},
   SCHEDULED_REMOVAL |-> {"REMOVED"},
   REMOVED |-> {}]
Stages == DOMAIN Transitions

ASSUME FeatureFlagsAssumption ==
  /\ Production \in Environments /\ StoredStages \subseteq Stages
  /\ MaxRetries \in Nat \ {0} /\ MaxVersion \in Nat \ {0}

NoFlag  == [state |-> FALSE, stage |-> "NONE", version |-> 0]
Record  == [state : BOOLEAN, stage : Stages \cup {"NONE"}, version : 0..MaxVersion]
Cached  == [state : BOOLEAN, stage : Stages \cup {"NONE"}]
Request == [pc : {"idle", "create", "update", "write", "lifecycle", "read", "save", "load"},
            env : Environments, copy : Record, stage : Stages \cup {"NONE"},
            state : BOOLEAN, attempt : 0..MaxRetries]
Idle    == [pc |-> "idle", env |-> Production, copy |-> NoFlag, stage |-> "NONE",
            state |-> FALSE, attempt |-> 0]

TypeOK ==
  /\ flag \in [Environments -> Record]
  /\ cache \in Cached
  /\ overlap \in BOOLEAN
  /\ req \in [Requests -> Request]
  /\ \A e \in Environments : flag[e].version = 0 => flag[e] = NoFlag

(* The service starts on what is stored, with an empty cache. *)
Init ==
  /\ flag \in [Environments ->
       {NoFlag} \cup {[state |-> FALSE, stage |-> s, version |-> 1] : s \in StoredStages}]
  /\ cache = [state |-> FALSE, stage |-> "NONE"]
  /\ overlap \in BOOLEAN
  /\ req = [q \in Requests |-> Idle]

Exists(e)    == flag[e].version > 0
CanGrow(f)   == f.version < MaxVersion
At(q, point) == req[q].pc = point
Starts(q)    == At(q, "idle") /\ (overlap \/ \A p \in Requests : At(p, "idle"))
Goto(q, locals) == req' = [req EXCEPT ![q] = locals]
Return(q) == Goto(q, Idle)

-----------------------------------------------------------------------------
(* createFeature: the key must not be among those of the environment; the  *)
(* save is refused unless the record there is new or at the same version.  *)
CreateFeature(q, e, b) ==
  /\ Starts(q)
  /\ ~Exists(e)
  /\ Goto(q, [Idle EXCEPT !.pc = "create", !.env = e, !.state = b])
  /\ UNCHANGED <<flag, cache, overlap>>

(* Mutant: save does not look at the version. *)
AcceptableAlways(e, record) == TRUE

(* save: the new version is the stored one or the next. *)
Acceptable(e, record) ==
  Exists(e) => record.version \in {flag[e].version, flag[e].version + 1}

SaveNew(q) ==
  LET e == req[q].env
      record == [state |-> req[q].state, stage |-> "DRAFT", version |-> 1]
  IN
  /\ At(q, "create")
  /\ flag' = IF Acceptable(e, record) THEN [flag EXCEPT ![e] = record] ELSE flag
  /\ Return(q)
  /\ UNCHANGED <<cache, overlap>>

-----------------------------------------------------------------------------
(* enableFeature and disableFeature: the flag exists; updateState copies   *)
(* the record and, without looking at its version, writes the copy back.   *)
SetState(q, e, b) ==
  /\ Starts(q)
  /\ Exists(e)
  /\ Goto(q, [Idle EXCEPT !.pc = "update", !.env = e, !.state = b])
  /\ UNCHANGED <<flag, cache, overlap>>

UpdateState(q) ==
  /\ At(q, "update")
  /\ Goto(q, [req[q] EXCEPT !.pc = "write", !.copy = flag[req[q].env]])
  /\ UNCHANGED <<flag, cache, overlap>>

WriteState(q) ==
  LET copy == req[q].copy IN
  /\ At(q, "write")
  /\ CanGrow(copy)
  /\ flag' = [flag EXCEPT ![req[q].env] =
       [copy EXCEPT !.state = req[q].state, !.version = @ + 1]]
  /\ Return(q)
  /\ UNCHANGED <<cache, overlap>>

-----------------------------------------------------------------------------

(* updateLifecycle moves the flag in every environment that has it. *)
UpdateLifecycle(stage) ==
  /\ \A e \in Environments : CanGrow(flag[e])
  /\ flag' = [e \in Environments |->
       IF Exists(e) THEN [flag[e] EXCEPT !.stage = stage, !.version = @ + 1] ELSE flag[e]]

(* Mutant: restore takes whatever is not in production. *)
MoveUnchecked(q, stage) ==
  /\ Starts(q)
  /\ Exists(Production)
  /\ flag[Production].stage # stage
  /\ Goto(q, [Idle EXCEPT !.pc = "lifecycle", !.stage = stage])
  /\ UNCHANGED <<flag, cache, overlap>>

(* archiveFeature (DEPRECATED) and restoreFeature (PRODUCTION): the stage  *)
(* in production, as it was read, must allow the transition.               *)
MoveFeature(q, stage) ==
  /\ Starts(q)
  /\ Exists(Production)
  /\ stage \in Transitions[flag[Production].stage]
  /\ Goto(q, [Idle EXCEPT !.pc = "lifecycle", !.stage = stage])
  /\ UNCHANGED <<flag, cache, overlap>>

StoreStage(q) ==
  /\ At(q, "lifecycle")
  /\ UpdateLifecycle(req[q].stage)
  /\ Return(q)
  /\ UNCHANGED <<cache, overlap>>

(* deleteFeature asks for no transition. *)
DeleteFeature ==
  /\ overlap \/ \A q \in Requests : At(q, "idle")
  /\ \E e \in Environments : Exists(e)
  /\ UpdateLifecycle("REMOVED")
  /\ UNCHANGED <<cache, overlap, req>>

-----------------------------------------------------------------------------
(* saveWithOptimisticRetry, with a mutation that sets the default state:   *)
(* the record is copied, ...                                               *)
MutateFeature(q, e, b) ==
  /\ Starts(q)
  /\ Exists(e)
  /\ Goto(q, [Idle EXCEPT !.pc = "save", !.env = e, !.state = b, !.copy = flag[e]])
  /\ UNCHANGED <<flag, cache, overlap>>

(* ... saved with the next version, and when that is not acceptable ...    *)
SaveMutated(q) ==
  LET e == req[q].env
      record == [req[q].copy EXCEPT !.state = req[q].state, !.version = @ + 1]
  IN
  /\ At(q, "save")
  /\ CanGrow(req[q].copy)
  /\ IF Acceptable(e, record)
       THEN flag' = [flag EXCEPT ![e] = record] /\ Return(q)
       ELSE /\ UNCHANGED flag
            /\ IF req[q].attempt + 1 < MaxRetries
                 THEN Goto(q, [req[q] EXCEPT !.pc = "read", !.attempt = @ + 1])
                 ELSE Return(q)
  /\ UNCHANGED <<cache, overlap>>

(* ... read again after a while. *)
ReadAgain(q) ==
  /\ At(q, "read")
  /\ Goto(q, [req[q] EXCEPT !.pc = "save", !.copy = flag[req[q].env]])
  /\ UNCHANGED <<flag, cache, overlap>>

-----------------------------------------------------------------------------
(* The cache is loaded with records that were listed before. *)
ListFlags(q) ==
  /\ Starts(q)
  /\ Exists(Production)
  /\ Goto(q, [Idle EXCEPT !.pc = "load", !.state = flag[Production].state,
                     !.stage = flag[Production].stage])
  /\ UNCHANGED <<flag, cache, overlap>>

RebuildL1Cache(q) ==
  /\ At(q, "load")
  /\ cache' = [state |-> req[q].state, stage |-> req[q].stage]
  /\ Return(q)
  /\ UNCHANGED <<flag, overlap>>

-----------------------------------------------------------------------------
Call(q) ==
  \/ \E e \in Environments, b \in BOOLEAN :
       CreateFeature(q, e, b) \/ SetState(q, e, b) \/ MutateFeature(q, e, b)
  \/ \E stage \in {"DEPRECATED", "PRODUCTION"} : MoveFeature(q, stage)
  \/ ListFlags(q)

Proceed(q) ==
  \/ SaveNew(q) \/ UpdateState(q) \/ WriteState(q) \/ StoreStage(q)
  \/ SaveMutated(q) \/ ReadAgain(q) \/ RebuildL1Cache(q)

Next ==
  \/ \E q \in Requests : Call(q) \/ Proceed(q)
  \/ DeleteFeature

Spec == Init /\ [][Next]_vars

-----------------------------------------------------------------------------
(* Evaluation: the first policy that matches decides, and the default      *)
(* state when none does.  The context c of the caller is spread over the   *)
(* cached record: a stage or a default state that it brings replaces the   *)
(* cached one.  Versions of clients are compared as strings; clientOld is  *)
(* the outcome.  A policy answers "pass", "on" or "off".                   *)
StageIn(record, c)   == IF c.stage = "kept" THEN record.stage ELSE c.stage
DefaultIn(record, c) == IF c.default = "kept" THEN record.state ELSE c.default = "on"

OffWhen(condition) == IF condition THEN "off" ELSE "pass"
OffStages == {"REMOVED", "DRAFT"}

(* A rollout of 0 % does not match, nor one below 100 % when the context   *)
(* names no user: the default state decides.                               *)
NoBucket == 100
RolloutPolicy(percentage, bucket) ==
  IF percentage >= 100 THEN "on"
  ELSE IF percentage = 0 \/ bucket = NoBucket THEN "pass"
  ELSE IF bucket < percentage THEN "on" ELSE "off"

(* Mutant: the lifecycle is looked at after the overrides. *)
ChainLifecycleLate(record, c, percentage, bucket) ==
  <<OffWhen(c.kill), OffWhen(c.maintenance), OffWhen(c.unmet),
    OffWhen(c.clientOld), OffWhen(c.disabled), c.pack, c.template,
    c.user, c.role, c.college, OffWhen(StageIn(record, c) \in OffStages),
    RolloutPolicy(percentage, bucket)>>

Chain(record, c, percentage, bucket) ==
  <<OffWhen(c.kill), OffWhen(c.maintenance), OffWhen(c.unmet),
    OffWhen(StageIn(record, c) \in OffStages), OffWhen(c.clientOld), OffWhen(c.disabled),
    c.pack, c.template, c.user, c.role, c.college,
    RolloutPolicy(percentage, bucket)>>

EvaluateFeature(record, c, percentage, bucket) ==
  LET chain == Chain(record, c, percentage, bucket)
      matched == {i \in DOMAIN chain : chain[i] # "pass"}
  IN IF matched = {} THEN DefaultIn(record, c) ELSE chain[Min(matched)] = "on"

-----------------------------------------------------------------------------
(* However calls overlap, the optimistic save never takes a version back:  *)
(* when one goes down it was updateState writing a copy that had aged.     *)
OnlyStateWritesLower ==
  [][\A e \in Environments : flag'[e].version < flag[e].version =>
       \E q \in Requests : At(q, "write") /\ req[q].env = e /\ req'[q] = Idle]_vars

(* When calls do not overlap, the stage in production follows the table of *)
(* transitions, whichever use cases move it (deleteFeature and updateState *)
(* do not look at the table).                                              *)
ProductionFollowsTable ==
  [][~overlap /\ Exists(Production) =>
       flag'[Production].stage \in {flag[Production].stage}
                                     \cup Transitions[flag[Production].stage]]_vars

(* Contexts that grant the flag, by packs, templates or overrides, with or *)
(* without a stage and a default state of their own, and that nothing but  *)
(* the lifecycle turns off.                                                *)
Answers == {"pass", "on"}
Granted ==
  {c \in [kill : {FALSE}, maintenance : {FALSE}, unmet : {FALSE}, clientOld : {FALSE},
          disabled : {FALSE}, pack : Answers, template : Answers, user : Answers,
          role : Answers, college : Answers,
          stage : {"kept"} \cup Stages, default : {"kept", "on"}] :
     "on" \in {c.pack, c.template, c.user, c.role, c.college}}
Percentages == {0, 50, 100}

(* When calls do not overlap, a flag once cached as removed stays off      *)
(* however often the cache is loaded again, and no pack, template,         *)
(* override, default state or rollout turns it on: of the contexts that    *)
(* grant it, those and only those that carry a stage of their own get it.  *)
RemovedStaysOff ==
  [][~overlap /\ cache.stage = "REMOVED" =>
       \A c \in Granted, percentage \in Percentages :
         EvaluateFeature(cache', c, percentage, 0) <=> c.stage \notin {"kept"} \cup OffStages]_vars
=============================================================================
