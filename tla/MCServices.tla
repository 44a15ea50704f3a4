------------------------------ MODULE MCServices ------------------------------
(* Components that share no state, so that a behaviour is one of one of     *)
(* them: platform feature flags, pseudonyms in the threads of confessions,  *)
(* backups, WAL archiving, error tracking, placement guidance, intents and  *)
(* connection requests, notifications, and the modules of the API process.  *)
EXTENDS FeatureFlags, ThreadIdentity, Backup, WalArchive, ErrorTracking, Placement,
        Connections, Notifications, ModuleKernel, TLC

VARIABLE part
servicesVars == <<part, vars, identityVars, backupVars, walVars, errorVars, placementVars,
                  connectionVars, noticeVars, kernelVars>>

MCKeep      == [k \in Kinds |-> 1]
MCByHand    == {<<Make("full")>>, Cleanup}
MCShape     == "crash" :> [class |-> "Database", source |-> "worker", severity |-> 3]
            @@ "stuck" :> [class |-> "Queue", source |-> "queue", severity |-> 2]
MCFingerprints == DOMAIN MCShape
MCSymmetry  == Permutations(Requests)

Flags(A) ==
  part = "flags" /\ A
  /\ UNCHANGED <<part, identityVars, backupVars, walVars, errorVars, placementVars,
                 connectionVars, noticeVars, kernelVars>>
Pseudonym(A) ==
  part = "pseudonyms" /\ A
  /\ UNCHANGED <<part, vars, backupVars, walVars, errorVars, placementVars,
                 connectionVars, noticeVars, kernelVars>>
Backups(A) ==
  part = "backups" /\ A
  /\ UNCHANGED <<part, vars, identityVars, walVars, errorVars, placementVars,
                 connectionVars, noticeVars, kernelVars>>
Wal(A) ==
  part = "wal" /\ A
  /\ UNCHANGED <<part, vars, identityVars, backupVars, errorVars, placementVars,
                 connectionVars, noticeVars, kernelVars>>
Errors(A) ==
  part = "errors" /\ A
  /\ UNCHANGED <<part, vars, identityVars, backupVars, walVars, placementVars,
                 connectionVars, noticeVars, kernelVars>>
Guidance(A) ==
  part = "guidance" /\ A
  /\ UNCHANGED <<part, vars, identityVars, backupVars, walVars, errorVars,
                 connectionVars, noticeVars, kernelVars>>
Network(A) ==
  part = "network" /\ A
  /\ UNCHANGED <<part, vars, identityVars, backupVars, walVars, errorVars,
                 placementVars, noticeVars, kernelVars>>
Notified(A) ==
  part = "notices" /\ A
  /\ UNCHANGED <<part, vars, identityVars, backupVars, walVars, errorVars,
                 placementVars, connectionVars, kernelVars>>
Boot(A) ==
  part = "boot" /\ A
  /\ UNCHANGED <<part, vars, identityVars, backupVars, walVars, errorVars,
                 placementVars, connectionVars, noticeVars>>

ServicesInit ==
  /\ Init /\ IdentityInit /\ BackupInit /\ WalInit /\ ErrorsInit /\ PlacementInit
  /\ ConnectionsInit /\ NotificationsInit /\ ModuleKernelInit
  /\ part \in {"flags", "pseudonyms", "backups", "wal", "errors", "guidance",
              "network", "notices", "boot"}
  /\ (overlap => part = "flags") /\ (nightly => part = "backups") /\ (rush => part = "guidance")
  /\ part # "flags" => \A e \in Environments : flag[e] = NoFlag
  /\ part # "boot" => \A m \in Modules : needs[m] = {}

ServicesNext ==
  \/ Flags(Next) \/ Pseudonym(IdentityNext) \/ Backups(BackupNext)
  \/ Wal(WalNext) \/ Errors(ErrorsNext) \/ Guidance(PlacementNext)
  \/ Network(ConnectionsNext) \/ Notified(NotificationsNext) \/ Boot(ModuleKernelNext)

(* Bound: while calls overlap, the flag is only stored in production. *)
MCOneEnvironment == overlap => \A e \in Environments \ {Production} : flag[e] = NoFlag
(* Bound: one intent or request is stored at a time; rows do not refer to each other. *)
MCOneRow == Cardinality({id \in Rows : row[id] # NoRow}) <= 1
MCBounds == MCOneEnvironment /\ MCOneRow

ServicesSpec == ServicesInit /\ [][ServicesNext]_servicesVars
=============================================================================
