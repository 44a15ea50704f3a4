-------------------------------- MODULE Backup --------------------------------
(***************************************************************************)
(* The backup CLI (packages/backup).  Its commands make snapshots of       *)
(* PostgreSQL, of Redis and of the media in one object store, and delete   *)
(* those that younger ones have outlived.  A snapshot is its data and,     *)
(* stored after it, its manifest; a command may fail or its process may    *)
(* die at every step, and what it had stored by then stays.                *)
(*                                                                         *)
(* A backup id is a time stamp; ids of a kind are numbered here.           *)
(***************************************************************************)
EXTENDS Naturals, FiniteSets, Sequences

CONSTANTS
  Keep,        \* Keep[k]: the snapshots of kind k that retention keeps
  BackupJobs,  \* bound: commands that can be at work at once
  ByHand,      \* the commands operators run
  MaxBackups   \* bound: the ids of a kind

Kinds == {"full", "base", "redis", "mirror"}

VARIABLES
  store,    \* store[k]: the objects of kind k, each <<id, "data" or "manifest">>
  written,  \* written[k]: every object of kind k there has been
  issued,   \* issued[k]: the last id drawn
  backup,   \* backup[j]: the command at work
  nightly   \* whether nobody but the CronJob runs commands

backupVars == <<store, written, issued, backup, nightly>>

Make(k)  == [op |-> "make", kind |-> k]
Clean(k) == [op |-> "clean", kind |-> k]

(* The commands, as the tasks they do in turn.  run-all makes no base      *)
(* snapshot; a failed task ends the command.                               *)
RunAll   == <<Make("full"), Make("redis"), Make("mirror"),
              Clean("full"), Clean("base"), Clean("redis"), Clean("mirror")>>
Cleanup  == <<Clean("full"), Clean("base"), Clean("redis"), Clean("mirror")>>
Commands == {RunAll, Cleanup} \cup {<<Make(k)>> : k \in Kinds}

ASSUME BackupAssumption ==
  /\ Keep \in [Kinds -> Nat \ {0}]
  /\ MaxBackups \in Nat
  /\ ByHand \subseteq Commands

Objects == Nat \X {"data", "manifest"}
(* step is 0 when no command is at work; doomed is what cleaning deletes.  *)
BackupJob == [command : Commands, step : 0..7, at : {"ready", "data", "manifest", "delete"},
              id : Nat, doomed : SUBSET Objects]
AtTask(c, i) == [command |-> c, step |-> i, at |-> "ready", id |-> 0, doomed |-> {}]
NoBackup  == AtTask(RunAll, 0)

BackupTypeOK ==
  /\ store \in [Kinds -> SUBSET Objects]
  /\ written \in [Kinds -> SUBSET Objects]
  /\ issued \in [Kinds -> Nat]
  /\ backup \in [BackupJobs -> BackupJob]
  /\ nightly \in BOOLEAN

BackupInit ==
  /\ store = [k \in Kinds |-> {}]
  /\ written = [k \in Kinds |-> {}]
  /\ issued = [k \in Kinds |-> 0]
  /\ backup = [j \in BackupJobs |-> NoBackup]
  /\ nightly \in BOOLEAN

Working(j)  == backup[j].step > 0
Task(j)     == backup[j].command[backup[j].step]
Doing(j, op, point) == Working(j) /\ Task(j).op = op /\ backup[j].at = point
Turn(j, point, id, doomed) ==
  backup' = [backup EXCEPT ![j] = [command |-> @.command, step |-> @.step, at |-> point,
                                   id |-> id, doomed |-> doomed]]
Continue(j, point)  == Turn(j, point, backup[j].id, backup[j].doomed)

(* The next task of the command, if there is one. *)
NextTask(j) ==
  backup' = [backup EXCEPT ![j] =
    IF backup[j].step = Len(backup[j].command) THEN NoBackup
    ELSE AtTask(backup[j].command, backup[j].step + 1)]

Put(k, object) ==
  /\ store' = [store EXCEPT ![k] = @ \cup {object}]
  /\ written' = [written EXCEPT ![k] = @ \cup {object}]

-----------------------------------------------------------------------------
(* The CronJob starts no run-all while one is at work. *)
StartBackup(j, command) ==
  /\ ~Working(j)
  /\ IF nightly THEN command = RunAll /\ \A i \in BackupJobs : ~Working(i)
                ELSE command \in ByHand
  /\ backup' = [backup EXCEPT ![j] = AtTask(command, 1)]
  /\ UNCHANGED <<store, written, issued, nightly>>

(* A command fails, or its process dies. *)
AbortBackup(j) ==
  /\ Working(j)
  /\ backup' = [backup EXCEPT ![j] = NoBackup]
  /\ UNCHANGED <<store, written, issued, nightly>>

(* A snapshot is named when it is begun ... *)
BeginSnapshot(j) ==
  /\ Doing(j, "make", "ready")
  /\ issued[Task(j).kind] < MaxBackups
  /\ issued' = [issued EXCEPT ![Task(j).kind] = @ + 1]
  /\ Turn(j, "data", issued[Task(j).kind] + 1, {})
  /\ UNCHANGED <<store, written, nightly>>

(* ... and stored when the dump is there ... *)
PutData(j) ==
  /\ Doing(j, "make", "data")
  /\ Put(Task(j).kind, <<backup[j].id, "data">>)
  /\ Continue(j, "manifest")
  /\ UNCHANGED <<issued, nightly>>

(* Mutant: the manifest is stored in any case, as that of a mirror is. *)
SkipAnyData(j) ==
  /\ Doing(j, "make", "data")
  /\ Continue(j, "manifest")
  /\ UNCHANGED <<store, written, issued, nightly>>

(* (the mirror only counts the objects it cannot copy) *)
SkipData(j) ==
  /\ Doing(j, "make", "data")
  /\ Task(j).kind = "mirror"
  /\ Continue(j, "manifest")
  /\ UNCHANGED <<store, written, issued, nightly>>

(* ... followed by the manifest that lists it.  run-all then verifies what *)
(* it made, which changes nothing but may fail.                            *)
PutManifest(j) ==
  /\ Doing(j, "make", "manifest")
  /\ Put(Task(j).kind, <<backup[j].id, "manifest">>)
  /\ NextTask(j)
  /\ UNCHANGED <<issued, nightly>>

-----------------------------------------------------------------------------
Younger(objects, id) == {o[1] : o \in {p \in objects : p[1] > id}}

(* Mutant: one snapshot too few is kept. *)
OutlivedByOne(k) == {o \in store[k] : Cardinality(Younger(store[k], o[1])) >= Keep[k] - 1}

(* applyIdRetention: the objects of all but the Keep youngest ids, whether *)
(* the snapshots of those are complete or not ...                          *)
Outlived(k) == {o \in store[k] : Cardinality(Younger(store[k], o[1])) >= Keep[k]}

ListBackups(j) ==
  /\ Doing(j, "clean", "ready")
  /\ Turn(j, "delete", 0, Outlived(Task(j).kind))
  /\ UNCHANGED <<store, written, issued, nightly>>

(* ... are deleted one by one. *)
DeleteObject(j, object) ==
  /\ Doing(j, "clean", "delete")
  /\ object \in backup[j].doomed
  /\ store' = [store EXCEPT ![Task(j).kind] = @ \ {object}]
  /\ Turn(j, "delete", 0, backup[j].doomed \ {object})
  /\ UNCHANGED <<written, issued, nightly>>

EndCleaning(j) ==
  /\ Doing(j, "clean", "delete")
  /\ backup[j].doomed = {}
  /\ NextTask(j)
  /\ UNCHANGED <<store, written, issued, nightly>>

BackupNext == \E j \in BackupJobs :
  \/ \E command \in Commands : StartBackup(j, command)
  \/ AbortBackup(j)
  \/ BeginSnapshot(j) \/ PutData(j) \/ SkipData(j) \/ PutManifest(j)
  \/ ListBackups(j) \/ EndCleaning(j)
  \/ \E object \in backup[j].doomed : DeleteObject(j, object)

BackupSpec == BackupInit /\ [][BackupNext]_backupVars

-----------------------------------------------------------------------------
(* listSnapshots: what there is a manifest of. *)
Listed(k) == {id \in {o[1] : o \in store[k]} : <<id, "manifest">> \in store[k]}

(* restoreLogicalSnapshot and downloadSnapshot fetch what it names. *)
Restores(k, id) == id \in Listed(k) /\ <<id, "data">> \in store[k]

(* With no command but the nightly one, wherever its runs fail: as soon as *)
(* one snapshot of a database was completed, the youngest that `list`      *)
(* shows, which `restore-postgres` takes, can be restored.                 *)
NewestRestores ==
  nightly => \A k \in {"full", "redis"} :
    (\E o \in written[k] : o[2] = "manifest") =>
      \E id \in Listed(k) : Restores(k, id) /\ \A other \in Listed(k) : other <= id

(* Whatever commands operators run meanwhile: an object of a snapshot is   *)
(* only missing when as many younger ones as are to be kept were begun to  *)
(* be stored.                                                              *)
OnlyOutlived ==
  \A k \in Kinds : \A o \in written[k] \ store[k] :
    Cardinality(Younger(written[k], o[1])) >= Keep[k]
=============================================================================
