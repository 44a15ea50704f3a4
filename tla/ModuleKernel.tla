----------------------------- MODULE ModuleKernel -----------------------------
(***************************************************************************)
(* How the API process boots its modules (packages/core,                   *)
(* DynamicModuleRegistry): they are registered, put in the order of their  *)
(* dependencies by a depth-first search, and initialised one by one in a   *)
(* sandbox that catches what a module throws.                              *)
(***************************************************************************)
EXTENDS Naturals, FiniteSets, Sequences

CONSTANT Modules

VARIABLES
  needs,      \* needs[m]: manifest.dependencies of module m
  registered,
  phase,      \* where booting is
  path,       \* the calls of visit that have not returned, the innermost last
  visited,
  ordered,    \* the result of getOrderedModules
  status      \* status[m]: getModuleStatus

kernelVars == <<needs, registered, phase, path, visited, ordered, status>>

ModuleKernelInit ==
  /\ needs \in [Modules -> SUBSET Modules]
  /\ registered = {} /\ visited = {}
  /\ phase = "registering"
  /\ path = <<>> /\ ordered = <<>>
  /\ status = [m \in Modules |-> "UNREGISTERED"]

Elements(s) == {s[i] : i \in DOMAIN s}
Visiting == Elements(path)
Top == path[Len(path)]

-----------------------------------------------------------------------------
Register(m) ==
  /\ phase = "registering"
  /\ m \notin registered
  /\ registered' = registered \cup {m}
  /\ status' = [status EXCEPT ![m] = "REGISTERED"]
  /\ UNCHANGED <<needs, phase, path, visited, ordered>>

(* validateDependencies: whatever is needed has to be registered. *)
ValidateDependencies ==
  /\ phase = "registering"
  /\ phase' = IF \A m \in registered : needs[m] \subseteq registered THEN "sorting" ELSE "refused"
  /\ UNCHANGED <<needs, registered, path, visited, ordered, status>>

(* The next module visit is called with: one of the registry, or one the   *)
(* innermost call needs and has not called it with.                        *)
Candidates ==
  IF path = <<>> THEN registered \ visited ELSE needs[Top] \ visited

(* Mutant: a module counts as visited before what it needs was. *)
VisitMarking(m) ==
  /\ phase = "sorting" /\ m \in Candidates
  /\ path' = Append(path, m) /\ visited' = visited \cup {m}
  /\ UNCHANGED <<needs, registered, phase, ordered, status>>

(* visit: a module that is being visited needs itself. *)
Visit(m) ==
  /\ phase = "sorting" /\ m \in Candidates
  /\ IF m \in Visiting THEN phase' = "refused" /\ UNCHANGED path
                       ELSE path' = Append(path, m) /\ UNCHANGED phase
  /\ UNCHANGED <<needs, registered, visited, ordered, status>>

(* ... and it returns when all it needs was visited. *)
Visited ==
  /\ phase = "sorting" /\ path # <<>> /\ Candidates = {}
  /\ ordered' = Append(ordered, Top)
  /\ visited' = visited \cup {Top}
  /\ path' = SubSeq(path, 1, Len(path) - 1)
  /\ UNCHANGED <<needs, registered, phase, status>>

Sorted ==
  /\ phase = "sorting" /\ path = <<>> /\ Candidates = {}
  /\ phase' = "initializing"
  /\ UNCHANGED <<needs, registered, path, visited, ordered, status>>

-----------------------------------------------------------------------------
(* initializeAll, also when a module before has failed. *)
Initialize(i) ==
  /\ phase = "initializing"
  /\ \A j \in 1..i - 1 : status[ordered[j]] \in {"ACTIVE", "FAILED"}
  /\ status[ordered[i]] = "REGISTERED"
  /\ status' = [status EXCEPT ![ordered[i]] = "INITIALIZING"]
  /\ UNCHANGED <<needs, registered, phase, path, visited, ordered>>

Initialized(i, outcome) ==
  /\ status[ordered[i]] = "INITIALIZING"
  /\ status' = [status EXCEPT ![ordered[i]] = outcome]
  /\ UNCHANGED <<needs, registered, phase, path, visited, ordered>>

(* stopAll, on the modules that have something to stop. *)
StopAll(stopping) ==
  /\ phase = "initializing"
  /\ \A m \in registered : status[m] \in {"ACTIVE", "FAILED"}
  /\ phase' = "stopped"
  /\ status' = [m \in Modules |-> IF m \in stopping THEN "STOPPED" ELSE status[m]]
  /\ UNCHANGED <<needs, registered, path, visited, ordered>>

ModuleKernelNext ==
  \/ \E m \in Modules : Register(m) \/ Visit(m)
  \/ ValidateDependencies \/ Visited \/ Sorted
  \/ \E i \in DOMAIN ordered :
       Initialize(i) \/ \E outcome \in {"ACTIVE", "FAILED"} : Initialized(i, outcome)
  \/ \E stopping \in SUBSET registered : StopAll(stopping)

ModuleKernelSpec == ModuleKernelInit /\ [][ModuleKernelNext]_kernelVars

-----------------------------------------------------------------------------
(* Reference: nothing is missing, and of any modules one needs no other. *)
Bootable ==
  /\ \A m \in registered : needs[m] \subseteq registered
  /\ \A some \in (SUBSET registered) \ {{}} : \E m \in some : needs[m] \cap some = {}

(* Whatever modules need, however the search goes: booting is refused only *)
(* when a dependency is missing or circular, and otherwise a module is     *)
(* initialised when all that it needs have been.                           *)
BootsInOrder ==
  /\ phase = "refused" => ~Bootable
  /\ phase \in {"initializing", "stopped"} => Bootable /\ Elements(ordered) = registered
  /\ \A m \in registered : status[m] \in {"INITIALIZING", "ACTIVE", "FAILED"} =>
       \A n \in needs[m] : status[n] \notin {"REGISTERED", "INITIALIZING"}
=============================================================================
