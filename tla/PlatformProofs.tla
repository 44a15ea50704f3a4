----------------------------- MODULE PlatformProofs -----------------------------
(***************************************************************************)
(* What the services of the platform keep for every value of their         *)
(* constants: backups and the WAL archive, the boot of the API process,    *)
(* error tracking and feature flags.  They share no state; each has an     *)
(* inductive invariant of its own.                                         *)
(***************************************************************************)
EXTENDS Backup, WalArchive, ModuleKernel, ErrorTracking, FeatureFlags,
        FiniteSetTheorems, WellFoundedInduction, TLAPS

(* A set of numbers that is not empty has a least one. *)
LEMMA Least ==
  ASSUME NEW S \in SUBSET Nat, S # {}
  PROVE  Min(S) \in S /\ \A n \in S : Min(S) <= n
<1> DEFINE Below == {ss \in Nat \X Nat : ss[1] < ss[2]}
<1>1. Below = OpToRel(<, Nat) BY Zenon DEF OpToRel
<1>2. IsWellFoundedOn(Below, Nat) BY Zenon, <1>1, NatLessThanWellFounded
<1>3. \A m, n \in Nat : m < n => <<m, n>> \in Below OBVIOUS
<1> HIDE DEF Below
<1>4. \E m \in S : \A n \in S : <<n, m>> \notin Below BY <1>2, WFMin
<1>5. \E m \in S : \A n \in S : m <= n
  <2>1. PICK m \in S : \A n \in S : <<n, m>> \notin Below BY <1>4
  <2>2. \A n \in S : ~(n < m) /\ n \in Nat /\ m \in Nat BY <1>3, <2>1
  <2> QED BY <2>2
<1> QED BY <1>5 DEF Min

-----------------------------------------------------------------------------
(* The forwarder.  What is read of a segment that PostgreSQL may not       *)
(* forget yet is torn.                                                     *)
WalInv ==
  /\ WalTypeOK
  /\ copying \cap acked = {}
  /\ \A s \in Segments :
       /\ staged[s] = "whole" => s \in acked
       /\ upload[s] = "partial" => s \in torn
       /\ upload[s] = "whole" => s \in acked
       /\ upload[s] = "stored" => s \in torn \/ (s \in acked /\ archived[s] = "whole")
       /\ s \in copying /\ staged[s] = "none" => s \in torn
  /\ LostOnlyTorn

LEMMA WalInitially == WalInit => WalInv
BY DEF WalInit, WalInv, WalTypeOK, Contents, LostOnlyTorn

LEMMA WalStep == WalInv /\ [WalNext]_walVars => WalInv'
<1> SUFFICES ASSUME WalInv, [WalNext]_walVars PROVE WalInv'
    OBVIOUS
<1> USE DEF WalInv, WalTypeOK, Contents, LostOnlyTorn, Kept
<1>1. ASSUME NEW s \in Segments, BeginCopy(s) PROVE WalInv'
      BY <1>1 DEF BeginCopy
<1>2. ASSUME NEW s \in Segments, EndCopy(s) PROVE WalInv'
      BY <1>2 DEF EndCopy
<1>3. ASSUME NEW s \in Segments, FailCopy(s) PROVE WalInv'
      BY <1>3 DEF FailCopy
<1>4. ASSUME NEW s \in Segments, ReadSegment(s) PROVE WalInv'
      BY <1>4 DEF ReadSegment
<1>5. ASSUME NEW s \in Segments, StoreSegment(s) PROVE WalInv'
      BY <1>5 DEF StoreSegment
<1>6. ASSUME NEW s \in Segments, RemoveSegment(s) PROVE WalInv'
      BY <1>6 DEF RemoveSegment
<1>7. ASSUME NEW s \in Segments, FailUpload(s) PROVE WalInv'
      BY <1>7 DEF FailUpload
<1>8. CASE RestartForwarder
      BY <1>8 DEF RestartForwarder
<1>9. CASE ReplacePod
      BY <1>9 DEF ReplacePod
<1>10. CASE UNCHANGED walVars
      BY <1>10 DEF walVars
<1> QED BY <1>1, <1>2, <1>3, <1>4, <1>5, <1>6, <1>7, <1>8, <1>9, <1>10 DEF WalNext

LEMMA WalInvariance == WalSpec => []WalInv
<1> QED BY WalInitially, WalStep, PTL DEF WalSpec

(* The types of the WAL archive, for any segments. *)
THEOREM WalTypeCorrect == WalSpec => []WalTypeOK
<1>1. WalInv => WalTypeOK
      BY DEF WalInv
<1> QED BY <1>1, WalInvariance, PTL

(* A segment PostgreSQL may forget is lost only when its upload was begun  *)
(* before its copy had ended, or when the pod was replaced while it was    *)
(* staged, however copies and uploads fail, are repeated and restarted.    *)
THEOREM WalLosesOnlyTorn == WalSpec => []LostOnlyTorn
<1>1. WalInv => LostOnlyTorn
      BY DEF WalInv
<1> QED BY <1>1, WalInvariance, PTL

-----------------------------------------------------------------------------
(* The commands and their tasks. *)

LEMMA TaskTypes ==
  ASSUME NEW c \in Commands, NEW i \in 1..Len(c)
  PROVE  c[i].kind \in Kinds /\ c[i].op \in {"make", "clean"}
<1>1. CASE c = RunAll
      BY <1>1 DEF RunAll, Make, Clean, Kinds
<1>2. CASE c = Cleanup
      BY <1>2 DEF Cleanup, Clean, Kinds
<1>3. ASSUME NEW k \in Kinds, c = <<Make(k)>>
      PROVE  c[i].kind \in Kinds /\ c[i].op \in {"make", "clean"}
      BY <1>3 DEF Make
<1> QED BY <1>1, <1>2, <1>3 DEF Commands

LEMMA CommandLength == \A c \in Commands : Len(c) \in 1..7
<1>1. Len(RunAll) = 7 /\ Len(Cleanup) = 4
      BY DEF RunAll, Cleanup
<1>2. \A k \in Kinds : Len(<<Make(k)>>) = 1
      OBVIOUS
<1> QED BY <1>1, <1>2 DEF Commands

LEMMA RunAllTasks ==
  \A i \in 1..7 :
    /\ RunAll[i].op = "make" <=> i \in 1..3
    /\ RunAll[i].op = "make" /\ RunAll[i].kind = "full" <=> i = 1
    /\ RunAll[i].op = "make" /\ RunAll[i].kind = "redis" <=> i = 2
BY DEF RunAll, Make, Clean

-----------------------------------------------------------------------------
(* Younger snapshots only become more. *)
LEMMA YoungerGrows ==
  ASSUME NEW A, NEW B, A \subseteq B, B \subseteq Objects,
         NEW last \in Nat, \A o \in B : o[1] <= last,
         NEW id \in Nat, NEW n \in Nat, Cardinality(Younger(A, id)) >= n
  PROVE  Cardinality(Younger(B, id)) >= n
<1>1. Younger(A, id) \subseteq Younger(B, id)
      BY DEF Younger
<1>2. Younger(B, id) \subseteq Nat /\ \A x \in Younger(B, id) : x <= last
      BY DEF Younger, Objects
<1>3. IsFiniteSet(Younger(B, id))
      BY <1>2, FS_BoundedSetOfNaturals
<1>4. IsFiniteSet(Younger(A, id)) /\ Cardinality(Younger(A, id)) <= Cardinality(Younger(B, id))
      BY <1>1, <1>3, FS_Subset
<1>5. Cardinality(Younger(A, id)) \in Nat /\ Cardinality(Younger(B, id)) \in Nat
      BY <1>3, <1>4, FS_CardinalityType
<1> QED BY <1>4, <1>5

-----------------------------------------------------------------------------
(* What is stored has an id that was drawn; what a command is to delete,   *)
(* and what is missing, has been outlived.                                 *)
Outdated(k, o) == Cardinality(Younger(written[k], o[1])) >= Keep[k]

CleaningInv ==
  /\ BackupTypeOK
  /\ \A j \in BackupJobs : backup[j].step <= Len(backup[j].command)
  /\ \A k \in Kinds : store[k] \subseteq written[k]
  /\ \A k \in Kinds : \A o \in written[k] : o[1] <= issued[k]
  /\ \A j \in BackupJobs : Working(j) => backup[j].id <= issued[Task(j).kind]
  /\ \A j \in BackupJobs : Working(j) => \A o \in backup[j].doomed : Outdated(Task(j).kind, o)
  /\ OnlyOutlived

LEMMA CleaningInitially == BackupInit => CleaningInv
<1> SUFFICES ASSUME BackupInit PROVE CleaningInv
    OBVIOUS
<1>1. RunAll \in Commands /\ Len(RunAll) = 7
      BY DEF Commands, RunAll
<1>2. NoBackup \in BackupJob /\ NoBackup.step = 0 /\ NoBackup.command = RunAll
      BY <1>1 DEF NoBackup, AtTask, BackupJob
<1>3. \A j \in BackupJobs : backup[j] = NoBackup
      BY DEF BackupInit
<1>4. BackupTypeOK
      BY <1>2 DEF BackupInit, BackupTypeOK
<1> QED BY <1>1, <1>2, <1>3, <1>4 DEF BackupInit, CleaningInv, Working, OnlyOutlived

(* What is outlived stays so. *)
LEMMA OutdatedStays ==
  ASSUME CleaningInv, NEW k \in Kinds, NEW o \in Objects, Outdated(k, o),
         written[k] \subseteq written'[k], written'[k] \subseteq Objects,
         issued'[k] \in Nat, \A p \in written'[k] : p[1] <= issued'[k]
  PROVE  Outdated(k, o)'
<1>1. Keep[k] \in Nat
      BY BackupAssumption DEF BackupAssumption
<1>2. o[1] \in Nat
      BY DEF Objects
<1>3. Cardinality(Younger(written[k], o[1])) >= Keep[k]
      BY DEF Outdated
<1>4. Cardinality(Younger(written'[k], o[1])) >= Keep[k]
      BY <1>1, <1>2, <1>3, YoungerGrows
<1> QED BY <1>4 DEF Outdated, Younger

(* The step of one command, whatever it stores or deletes. *)
LEMMA CommandStep ==
  ASSUME CleaningInv, NEW j \in BackupJobs, NEW new \in BackupJob,
         backup' = [backup EXCEPT ![j] = new], new.step <= Len(new.command),
         nightly' = nightly,
         store' \in [Kinds -> SUBSET Objects], written' \in [Kinds -> SUBSET Objects],
         issued' \in [Kinds -> Nat],
         \A k \in Kinds : /\ store'[k] \subseteq written'[k]
                          /\ written[k] \subseteq written'[k]
                          /\ issued[k] <= issued'[k]
                          /\ \A o \in written'[k] : o[1] <= issued'[k]
                          /\ \A o \in written'[k] \ store'[k] : Outdated(k, o),
         new.step > 0 => /\ new.id <= issued'[new.command[new.step].kind]
                         /\ \A o \in new.doomed : Outdated(new.command[new.step].kind, o)
  PROVE  CleaningInv'
<1>1. backup'[j] = new /\ \A i \in BackupJobs : i # j => backup'[i] = backup[i]
      BY DEF CleaningInv, BackupTypeOK
<1>2. backup' \in [BackupJobs -> BackupJob]
      BY DEF CleaningInv, BackupTypeOK
<1>3. BackupTypeOK'
      BY <1>2 DEF CleaningInv, BackupTypeOK
<1>4. \A k \in Kinds, o \in Objects : Outdated(k, o) => Outdated(k, o)'
      BY OutdatedStays
<1>5. \A i \in BackupJobs : backup'[i].step <= Len(backup'[i].command)
      BY <1>1 DEF CleaningInv
<1>6. ASSUME NEW i \in BackupJobs, backup'[i].step > 0, NEW k \in Kinds,
             k = backup'[i].command[backup'[i].step].kind
      PROVE  backup'[i].id <= issued'[k] /\ \A o \in backup'[i].doomed : Outdated(k, o)'
  <2>1. backup'[i].doomed \subseteq Objects /\ backup'[i].id \in Nat
        BY <1>2 DEF BackupJob
  <2>2. backup'[i].id <= issued'[k] /\ \A o \in backup'[i].doomed : Outdated(k, o)
    <3>1. CASE i = j
          BY <1>1, <1>6, <3>1
    <3>2. CASE i # j
      <4>1. backup'[i] = backup[i] /\ Working(i) /\ k = Task(i).kind
            BY <1>1, <1>6, <3>2 DEF Working, Task
      <4>2. backup'[i].id <= issued[k] /\ \A o \in backup'[i].doomed : Outdated(k, o)
            BY <4>1 DEF CleaningInv
      <4>3. issued[k] \in Nat /\ issued'[k] \in Nat /\ issued[k] <= issued'[k]
            BY DEF CleaningInv, BackupTypeOK
      <4> QED BY <2>1, <4>2, <4>3
    <3> QED BY <3>1, <3>2
  <2> QED BY <1>4, <2>1, <2>2
<1>7. OnlyOutlived'
  <2>1. \A k \in Kinds : \A o \in written'[k] \ store'[k] : o \in Objects /\ Outdated(k, o)'
        BY <1>4
  <2> QED BY <2>1 DEF OnlyOutlived, Outdated
<1>8. \A k \in Kinds : store'[k] \subseteq written'[k] /\ \A o \in written'[k] : o[1] <= issued'[k]
      OBVIOUS
<1>9. (\A i \in BackupJobs : Working(i) =>
         backup[i].id <= issued[Task(i).kind]
         /\ \A o \in backup[i].doomed : Outdated(Task(i).kind, o))'
  <2> SUFFICES ASSUME NEW i \in BackupJobs, backup'[i].step > 0
               PROVE  (backup[i].id <= issued[Task(i).kind]
                       /\ \A o \in backup[i].doomed : Outdated(Task(i).kind, o))'
      BY DEF Working
  <2>1. backup'[i].command \in Commands /\ backup'[i].step \in 1..Len(backup'[i].command)
        BY <1>2, <1>5, CommandLength DEF BackupJob
  <2>2. PICK k \in Kinds : k = backup'[i].command[backup'[i].step].kind
        BY <2>1, TaskTypes
  <2>3. backup'[i].id <= issued'[k] /\ \A o \in backup'[i].doomed : Outdated(k, o)'
        BY <1>6, <2>2
  <2> QED BY <2>2, <2>3 DEF Task, Outdated
<1> QED BY <1>3, <1>5, <1>7, <1>8, <1>9 DEF CleaningInv

(* A command at work, and the task it does. *)
LEMMA AtWork ==
  ASSUME CleaningInv, NEW j \in BackupJobs, Working(j)
  PROVE  /\ backup[j] \in BackupJob
         /\ backup[j].command \in Commands /\ backup[j].step \in 1..Len(backup[j].command)
         /\ Task(j) = backup[j].command[backup[j].step]
         /\ Task(j).kind \in Kinds
         /\ backup[j].id \in Nat /\ backup[j].id <= issued[Task(j).kind]
         /\ backup[j].doomed \subseteq Objects
         /\ \A o \in backup[j].doomed : Outdated(Task(j).kind, o)
<1>1. backup[j] \in BackupJob /\ backup[j].step <= Len(backup[j].command) /\ backup[j].step > 0
      BY DEF CleaningInv, BackupTypeOK, Working
<1>2. backup[j].command \in Commands /\ backup[j].step \in 0..7
      /\ backup[j].id \in Nat /\ backup[j].doomed \subseteq Objects
      BY <1>1 DEF BackupJob
<1>3. backup[j].step \in 1..Len(backup[j].command)
      BY <1>1, <1>2, CommandLength
<1>4. Task(j) = backup[j].command[backup[j].step] /\ Task(j).kind \in Kinds
      BY <1>2, <1>3, TaskTypes DEF Task
<1> QED BY <1>1, <1>2, <1>3, <1>4 DEF CleaningInv

(* What may be missing and what is stored, when neither changes. *)
LEMMA StoresAsBefore ==
  ASSUME CleaningInv
  PROVE  /\ store \in [Kinds -> SUBSET Objects] /\ written \in [Kinds -> SUBSET Objects]
         /\ issued \in [Kinds -> Nat]
         /\ \A k \in Kinds : /\ store[k] \subseteq written[k]
                             /\ \A o \in written[k] : o[1] <= issued[k]
                             /\ \A o \in written[k] \ store[k] : Outdated(k, o)
BY DEF CleaningInv, BackupTypeOK, OnlyOutlived, Outdated

(* A step that stores and deletes nothing. *)
LEMMA QuietStep ==
  ASSUME CleaningInv, NEW j \in BackupJobs, NEW new \in BackupJob,
         backup' = [backup EXCEPT ![j] = new], new.step <= Len(new.command),
         UNCHANGED <<store, written, issued, nightly>>,
         new.step > 0 => /\ new.id <= issued[new.command[new.step].kind]
                         /\ \A o \in new.doomed : Outdated(new.command[new.step].kind, o)
  PROVE  CleaningInv'
<1>1. \A k \in Kinds : issued[k] <= issued'[k]
      BY StoresAsBefore
<1> QED BY <1>1, StoresAsBefore, CommandStep

(* No command is at work, or one begins with its next task. *)
LEMMA IdleBackup ==
  NoBackup \in BackupJob /\ ~(NoBackup.step > 0) /\ NoBackup.step <= Len(NoBackup.command)
<1>1. RunAll \in Commands /\ Len(RunAll) = 7
      BY DEF Commands, RunAll
<1> QED BY <1>1 DEF NoBackup, AtTask, BackupJob

LEMMA FreshTask ==
  ASSUME CleaningInv, NEW c \in Commands, NEW i \in Nat, 1 <= i, i <= Len(c)
  PROVE  /\ AtTask(c, i) \in BackupJob
         /\ AtTask(c, i).step <= Len(AtTask(c, i).command)
         /\ AtTask(c, i).id <= issued[AtTask(c, i).command[AtTask(c, i).step].kind]
         /\ AtTask(c, i).doomed = {}
<1>1. PICK n \in 1..7 : n = Len(c)
      BY CommandLength
<1>2. i \in 1..Len(c) /\ i \in 0..7
      BY <1>1
<1>3. c[i].kind \in Kinds
      BY <1>2, TaskTypes
<1>4. issued[c[i].kind] \in Nat
      BY <1>3, StoresAsBefore
<1> QED BY <1>2, <1>4 DEF AtTask, BackupJob

LEMMA NextTaskStep ==
  ASSUME CleaningInv, NEW j \in BackupJobs, Working(j), NextTask(j), nightly' = nightly,
         store' \in [Kinds -> SUBSET Objects], written' \in [Kinds -> SUBSET Objects],
         issued' = issued,
         \A k \in Kinds : /\ store'[k] \subseteq written'[k]
                          /\ written[k] \subseteq written'[k]
                          /\ \A o \in written'[k] : o[1] <= issued[k]
                          /\ \A o \in written'[k] \ store'[k] : Outdated(k, o)
  PROVE  CleaningInv'
<1>1. /\ backup[j].command \in Commands /\ backup[j].step \in 1..Len(backup[j].command)
      /\ issued \in [Kinds -> Nat]
      BY AtWork, StoresAsBefore
<1>2. \A k \in Kinds : issued[k] <= issued'[k]
      BY <1>1
<1>3. CASE backup[j].step = Len(backup[j].command)
  <2>1. backup' = [backup EXCEPT ![j] = NoBackup]
        BY <1>3 DEF NextTask
  <2>3. \A k \in Kinds : \A o \in written'[k] : o[1] <= issued'[k]
        OBVIOUS
  <2> QED BY <1>1, <1>2, <2>1, <2>3, IdleBackup, CommandStep
<1>4. CASE backup[j].step # Len(backup[j].command)
  <2>1. PICK new : new = AtTask(backup[j].command, backup[j].step + 1)
        OBVIOUS
  <2>2. backup' = [backup EXCEPT ![j] = new]
        BY <1>4, <2>1 DEF NextTask
  <2>3. backup[j].step + 1 \in Nat /\ 1 <= backup[j].step + 1
        /\ backup[j].step + 1 <= Len(backup[j].command)
        BY <1>1, <1>4, CommandLength
  <2>4. /\ new \in BackupJob /\ new.step <= Len(new.command)
        /\ new.id <= issued[new.command[new.step].kind] /\ new.doomed = {}
        BY <1>1, <2>1, <2>3, FreshTask
  <2> QED BY <1>1, <1>2, <2>2, <2>4, CommandStep
<1> QED BY <1>3, <1>4

(* A step within a task. *)
Turned(j, new, point, id, doomed) ==
  /\ backup' = [backup EXCEPT ![j] = new]
  /\ new.at = point /\ new.id = id /\ new.doomed = doomed
  /\ new.step = backup[j].step /\ new.command = backup[j].command
  /\ new.step <= Len(new.command) /\ new.command[new.step] = Task(j)

LEMMA TurnedStep ==
  ASSUME CleaningInv, NEW j \in BackupJobs, Working(j),
         NEW point \in {"ready", "data", "manifest", "delete"},
         NEW id \in Nat, NEW doomed \in SUBSET Objects, Turn(j, point, id, doomed)
  PROVE  \E new \in BackupJob : Turned(j, new, point, id, doomed)
<1>1. PICK new : new = [command |-> backup[j].command, step |-> backup[j].step, at |-> point,
                        id |-> id, doomed |-> doomed]
      OBVIOUS
<1>2. backup' = [backup EXCEPT ![j] = new]
      BY <1>1 DEF Turn
<1>3. /\ backup[j].command \in Commands /\ backup[j].step \in 0..7
      /\ backup[j].step <= Len(backup[j].command)
      BY DEF CleaningInv, BackupTypeOK, BackupJob
<1>4. new \in BackupJob
      BY <1>1, <1>3 DEF BackupJob
<1> QED BY <1>1, <1>2, <1>3, <1>4 DEF Turned, Task

(* A step that stores an object under the id of the command. *)
LEMMA PutStores ==
  ASSUME CleaningInv, NEW k \in Kinds, NEW id \in Nat, id <= issued[k],
         NEW part \in {"data", "manifest"}, Put(k, <<id, part>>)
  PROVE  /\ store' \in [Kinds -> SUBSET Objects] /\ written' \in [Kinds -> SUBSET Objects]
         /\ \A l \in Kinds : /\ store'[l] \subseteq written'[l]
                             /\ written[l] \subseteq written'[l]
                             /\ \A o \in written'[l] : o[1] <= issued[l]
                             /\ \A o \in written'[l] \ store'[l] : Outdated(l, o)
<1>1. PICK o : o = <<id, part>>
      OBVIOUS
<1>2. o \in Objects /\ o[1] <= issued[k]
      BY <1>1 DEF Objects
<1>3. /\ store' = [store EXCEPT ![k] = @ \cup {o}]
      /\ written' = [written EXCEPT ![k] = @ \cup {o}]
      BY <1>1 DEF Put
<1> QED BY <1>2, <1>3, StoresAsBefore

-----------------------------------------------------------------------------
LEMMA CleaningStep == CleaningInv /\ [BackupNext]_backupVars => CleaningInv'
<1> SUFFICES ASSUME CleaningInv, [BackupNext]_backupVars PROVE CleaningInv'
    OBVIOUS
<1>1. ASSUME NEW j \in BackupJobs, NEW command \in Commands, StartBackup(j, command)
      PROVE  CleaningInv'
  <2>1. PICK new : new = AtTask(command, 1)
        OBVIOUS
  <2>2. backup' = [backup EXCEPT ![j] = new] /\ UNCHANGED <<store, written, issued, nightly>>
        BY <1>1, <2>1 DEF StartBackup
  <2>3. PICK n \in 1..7 : n = Len(command)
        BY CommandLength
  <2>4. /\ new \in BackupJob /\ new.step <= Len(new.command)
        /\ new.id <= issued[new.command[new.step].kind] /\ new.doomed = {}
        BY <2>1, <2>3, FreshTask
  <2> QED BY <2>2, <2>4, QuietStep
<1>2. ASSUME NEW j \in BackupJobs, AbortBackup(j) PROVE CleaningInv'
  <2>1. backup' = [backup EXCEPT ![j] = NoBackup] /\ UNCHANGED <<store, written, issued, nightly>>
        BY <1>2 DEF AbortBackup
  <2> QED BY <2>1, IdleBackup, QuietStep
<1>3. ASSUME NEW j \in BackupJobs, BeginSnapshot(j) PROVE CleaningInv'
  <2>1. PICK k : k = Task(j).kind
        OBVIOUS
  <2>2. /\ Working(j) /\ issued' = [issued EXCEPT ![k] = @ + 1]
        /\ Turn(j, "data", issued[k] + 1, {})
        /\ UNCHANGED <<store, written, nightly>>
        BY <1>3, <2>1 DEF BeginSnapshot, Doing
  <2>3. k \in Kinds /\ issued[k] \in Nat
        BY <2>1, <2>2, AtWork, StoresAsBefore
  <2>4. PICK new \in BackupJob : Turned(j, new, "data", issued[k] + 1, {})
        BY <2>2, <2>3, TurnedStep
  <2>5. issued' \in [Kinds -> Nat] /\ \A l \in Kinds : issued[l] <= issued'[l]
        BY <2>2, <2>3, StoresAsBefore
  <2>6. issued[k] + 1 <= issued'[k]
        BY <2>2, <2>3, StoresAsBefore
  <2>7. \A l \in Kinds : \A o \in written[l] : o[1] <= issued'[l]
    <3> SUFFICES ASSUME NEW l \in Kinds, NEW o \in written[l] PROVE o[1] <= issued'[l]
        OBVIOUS
    <3>1. o \in Objects /\ o[1] <= issued[l]
          BY StoresAsBefore
    <3>2. o[1] \in Nat
          BY <3>1 DEF Objects
    <3> QED BY <2>5, <3>1, <3>2, StoresAsBefore
  <2> QED BY <2>1, <2>2, <2>4, <2>5, <2>6, <2>7, StoresAsBefore, CommandStep DEF Turned
<1>4. ASSUME NEW j \in BackupJobs, PutData(j) PROVE CleaningInv'
  <2>1. PICK k, id : k = Task(j).kind /\ id = backup[j].id
        OBVIOUS
  <2>2. /\ Working(j) /\ Put(k, <<id, "data">>) /\ Turn(j, "manifest", id, backup[j].doomed)
        /\ UNCHANGED <<issued, nightly>>
        BY <1>4, <2>1 DEF PutData, Doing, Continue
  <2>3. /\ k \in Kinds /\ id \in Nat /\ id <= issued[k] /\ backup[j].doomed \in SUBSET Objects
        /\ \A o \in backup[j].doomed : Outdated(k, o)
        BY <2>1, <2>2, AtWork
  <2>4. PICK new \in BackupJob : Turned(j, new, "manifest", id, backup[j].doomed)
        BY <2>2, <2>3, TurnedStep
  <2>5. /\ store' \in [Kinds -> SUBSET Objects] /\ written' \in [Kinds -> SUBSET Objects]
        /\ \A l \in Kinds : /\ store'[l] \subseteq written'[l]
                            /\ written[l] \subseteq written'[l]
                            /\ \A o \in written'[l] : o[1] <= issued[l]
                            /\ \A o \in written'[l] \ store'[l] : Outdated(l, o)
        BY <2>2, <2>3, PutStores
  <2>6. \A l \in Kinds : issued[l] <= issued'[l]
        BY <2>2, StoresAsBefore
  <2>7. \A l \in Kinds : \A o \in written'[l] : o[1] <= issued'[l]
        BY <2>2, <2>5
  <2> QED BY <2>1, <2>2, <2>3, <2>4, <2>5, <2>6, <2>7, StoresAsBefore, CommandStep DEF Turned
<1>5. ASSUME NEW j \in BackupJobs, SkipData(j) PROVE CleaningInv'
  <2>1. /\ Working(j) /\ Turn(j, "manifest", backup[j].id, backup[j].doomed)
        /\ UNCHANGED <<store, written, issued, nightly>>
        BY <1>5 DEF SkipData, Doing, Continue
  <2>2. PICK new \in BackupJob : Turned(j, new, "manifest", backup[j].id, backup[j].doomed)
        BY <2>1, AtWork, TurnedStep
  <2> QED BY <2>1, <2>2, AtWork, QuietStep DEF Turned
<1>6. ASSUME NEW j \in BackupJobs, PutManifest(j) PROVE CleaningInv'
  <2>1. PICK k, id : k = Task(j).kind /\ id = backup[j].id
        OBVIOUS
  <2>2. /\ Working(j) /\ Put(k, <<id, "manifest">>) /\ NextTask(j) /\ UNCHANGED <<issued, nightly>>
        BY <1>6, <2>1 DEF PutManifest, Doing
  <2>3. k \in Kinds /\ id \in Nat /\ id <= issued[k]
        BY <2>1, <2>2, AtWork
  <2>4. /\ store' \in [Kinds -> SUBSET Objects] /\ written' \in [Kinds -> SUBSET Objects]
        /\ \A l \in Kinds : /\ store'[l] \subseteq written'[l]
                            /\ written[l] \subseteq written'[l]
                            /\ \A o \in written'[l] : o[1] <= issued[l]
                            /\ \A o \in written'[l] \ store'[l] : Outdated(l, o)
        BY <2>2, <2>3, PutStores
  <2> QED BY <2>2, <2>4, NextTaskStep
<1>7. ASSUME NEW j \in BackupJobs, ListBackups(j) PROVE CleaningInv'
  <2>1. PICK k : k = Task(j).kind
        OBVIOUS
  <2>2. /\ Working(j) /\ Turn(j, "delete", 0, Outlived(k))
        /\ UNCHANGED <<store, written, issued, nightly>>
        BY <1>7, <2>1 DEF ListBackups, Doing
  <2>3. k \in Kinds
        BY <2>1, <2>2, AtWork
  <2>4. ASSUME NEW o \in Outlived(k) PROVE o \in Objects /\ Outdated(k, o)
    <3>1. o \in Objects /\ o[1] \in Nat /\ Cardinality(Younger(store[k], o[1])) >= Keep[k]
          BY <2>3, <2>4, StoresAsBefore DEF Outlived, Objects
    <3>2. Keep[k] \in Nat
          BY <2>3, BackupAssumption DEF BackupAssumption
    <3>3. Cardinality(Younger(written[k], o[1])) >= Keep[k]
          BY <2>3, <3>1, <3>2, StoresAsBefore, YoungerGrows
    <3> QED BY <3>1, <3>3 DEF Outdated
  <2>5. Outlived(k) \in SUBSET Objects
        BY <2>4
  <2>6. PICK new \in BackupJob : Turned(j, new, "delete", 0, Outlived(k))
        BY <2>2, <2>5, TurnedStep
  <2>7. 0 <= issued[k]
        BY <2>3, StoresAsBefore
  <2> QED BY <2>1, <2>2, <2>4, <2>6, <2>7, QuietStep DEF Turned
<1>8. ASSUME NEW j \in BackupJobs, NEW object \in backup[j].doomed, DeleteObject(j, object)
      PROVE  CleaningInv'
  <2>1. PICK k : k = Task(j).kind
        OBVIOUS
  <2>2. /\ Working(j) /\ Turn(j, "delete", 0, backup[j].doomed \ {object})
        /\ store' = [store EXCEPT ![k] = @ \ {object}]
        /\ UNCHANGED <<written, issued, nightly>>
        BY <1>8, <2>1 DEF DeleteObject, Doing
  <2>3. /\ k \in Kinds /\ backup[j].doomed \in SUBSET Objects
        /\ \A o \in backup[j].doomed : Outdated(k, o)
        BY <2>1, <2>2, AtWork
  <2>4. PICK new \in BackupJob : Turned(j, new, "delete", 0, backup[j].doomed \ {object})
        BY <2>2, <2>3, TurnedStep
  <2>5. store' \in [Kinds -> SUBSET Objects]
        BY <2>2, <2>3, StoresAsBefore
  <2>6. \A l \in Kinds : /\ store'[l] \subseteq written'[l]
                         /\ issued[l] <= issued'[l]
                         /\ \A o \in written'[l] \ store'[l] : Outdated(l, o)
        BY <1>8, <2>2, <2>3, StoresAsBefore
  <2>7. 0 <= issued'[k]
        BY <2>2, <2>3, StoresAsBefore
  <2> QED BY <2>1, <2>2, <2>3, <2>4, <2>5, <2>6, <2>7, StoresAsBefore, CommandStep DEF Turned
<1>9. ASSUME NEW j \in BackupJobs, EndCleaning(j) PROVE CleaningInv'
  <2>1. Working(j) /\ NextTask(j) /\ UNCHANGED <<store, written, issued, nightly>>
        BY <1>9 DEF EndCleaning, Doing
  <2> QED BY <2>1, StoresAsBefore, NextTaskStep
<1>10. CASE UNCHANGED backupVars
      BY <1>10 DEF backupVars, CleaningInv, BackupTypeOK, Working, Task, Outdated, OnlyOutlived
<1> QED BY <1>1, <1>2, <1>3, <1>4, <1>5, <1>6, <1>7, <1>8, <1>9, <1>10 DEF BackupNext

LEMMA CleaningInvariance == BackupSpec => []CleaningInv
<1> QED BY CleaningInitially, CleaningStep, PTL DEF BackupSpec

(* The types of the backup CLI, for any numbers of commands and backups.   *)
THEOREM BackupTypeCorrect == BackupSpec => []BackupTypeOK
<1>1. CleaningInv => BackupTypeOK
      BY DEF CleaningInv
<1> QED BY <1>1, CleaningInvariance, PTL

(* Whatever commands run at once, fail and die: an object of a snapshot is *)
(* only missing when as many younger ones as retention keeps were begun to *)
(* be stored.                                                              *)
THEOREM BackupOnlyOutlived == BackupSpec => []OnlyOutlived
<1>1. CleaningInv => OnlyOutlived
      BY DEF CleaningInv
<1> QED BY <1>1, CleaningInvariance, PTL

-----------------------------------------------------------------------------
(* The nightly command, alone: while it cleans, the snapshot each database *)
(* was last given is whole, and before, nothing is deleted.                *)
Databases == {"full", "redis"}
Past(k, step) == IF k = "full" THEN step > 1 ELSE step > 2
Whole(k) == <<issued[k], "data">> \in store[k] /\ <<issued[k], "manifest">> \in store[k]

NewestOf(S, W) ==
  (\E o \in W : o[2] = "manifest") =>
    \E id : /\ <<id, "manifest">> \in S /\ <<id, "data">> \in S
            /\ \A other : <<other, "manifest">> \in S => other <= id
Newest(k) == NewestOf(store[k], written[k])

InOrder(b) ==
  b.step > 0 =>
    /\ b.command = RunAll
    /\ \A k \in Databases : Past(k, b.step) => Whole(k)
    /\ RunAll[b.step].op = "make" /\ b.at \in {"data", "manifest"} =>
         b.id = issued[RunAll[b.step].kind]
    /\ RunAll[b.step].op = "make" /\ b.at = "manifest" /\ RunAll[b.step].kind \in Databases =>
         <<b.id, "data">> \in store[RunAll[b.step].kind]

NightInv ==
  nightly =>
    /\ \A i, j \in BackupJobs : Working(i) /\ Working(j) => i = j
    /\ \A j \in BackupJobs : InOrder(backup[j])
    /\ \A k \in Databases : Newest(k)

LEMMA ListedManifests ==
  \A k \in Kinds : \A id : id \in Listed(k) <=> <<id, "manifest">> \in store[k]
<1> SUFFICES ASSUME NEW k \in Kinds, NEW id, <<id, "manifest">> \in store[k] PROVE id \in Listed(k)
    BY DEF Listed
<1>1. <<id, "manifest">>[1] = id
      OBVIOUS
<1> QED BY <1>1 DEF Listed

(* The youngest snapshot, if whole, is the one that restores. *)
LEMMA WholeIsNewest ==
  ASSUME NEW S, NEW W, NEW last \in Nat, \A o \in S : o[1] <= last,
         <<last, "data">> \in S, <<last, "manifest">> \in S
  PROVE  NewestOf(S, W)
<1>1. ASSUME NEW other, <<other, "manifest">> \in S PROVE other <= last
  <2>1. <<other, "manifest">>[1] = other
        OBVIOUS
  <2> QED BY <1>1, <2>1
<1> QED BY <1>1 DEF NewestOf

(* What is outlived is none of the youngest snapshot. *)
LEMMA OutdatedIsOlder ==
  ASSUME CleaningInv, NEW k \in Kinds, NEW o \in Objects, Outdated(k, o)
  PROVE  o[1] < issued[k]
<1>1. Keep[k] \in Nat \ {0} /\ o[1] \in Nat /\ issued[k] \in Nat
      BY StoresAsBefore, BackupAssumption DEF BackupAssumption, Objects
<1>2. Younger(written[k], o[1]) # {}
  <2>1. ASSUME Younger(written[k], o[1]) = {} PROVE FALSE
    <3>1. Cardinality(Younger(written[k], o[1])) = 0
          BY <2>1, FS_EmptySet
    <3> QED BY <1>1, <3>1 DEF Outdated
  <2> QED BY <2>1
<1>3. PICK p \in written[k] : p[1] > o[1]
      BY <1>2 DEF Younger
<1>4. p[1] \in Nat /\ p[1] <= issued[k]
      BY StoresAsBefore DEF Objects
<1> QED BY <1>1, <1>3, <1>4

(* A step of the one command at work. *)
LEMMA NightlyStep ==
  ASSUME CleaningInv, NightInv, nightly, NEW j \in BackupJobs, NEW new,
         backup' = [backup EXCEPT ![j] = new],
         \A i \in BackupJobs : i # j => ~Working(i),
         InOrder(new)', \A k \in Databases : Newest(k)'
  PROVE  NightInv'
<1>1. backup'[j] = new /\ \A i \in BackupJobs : i # j => backup'[i] = backup[i]
      BY DEF CleaningInv, BackupTypeOK
<1>2. \A i \in BackupJobs : i # j => ~Working(i)'
      BY <1>1 DEF Working
<1>3. ASSUME NEW i \in BackupJobs, NEW b, b = backup'[i] PROVE InOrder(b)'
  <2>1. CASE i = j
    <3>1. b = new
          BY <1>1, <1>3, <2>1
    <3> QED BY <3>1
  <2>2. CASE i # j
    <3>1. ~(b.step > 0)
          BY <1>2, <1>3, <2>2 DEF Working
    <3> QED BY <3>1 DEF InOrder
  <2> QED BY <2>1, <2>2
<1>4. (\A i \in BackupJobs : InOrder(backup[i]))'
  <2> SUFFICES ASSUME NEW i \in BackupJobs PROVE InOrder(backup[i])'
      OBVIOUS
  <2>1. PICK b : b = backup'[i]
        OBVIOUS
  <2>2. InOrder(b)'
        BY <1>3, <2>1
  <2> QED BY <2>1, <2>2 DEF InOrder
<1>5. (\A k \in Databases : Newest(k))'
      BY DEF Newest
<1> QED BY <1>2, <1>4, <1>5 DEF NightInv

LEMMA NightlyInitially == BackupInit => NightInv
<1> SUFFICES ASSUME BackupInit PROVE NightInv
    OBVIOUS
<1>1. \A j \in BackupJobs : ~(backup[j].step > 0)
      BY IdleBackup DEF BackupInit
<1>2. \A k \in Databases : written[k] = {}
      BY DEF BackupInit, Databases, Kinds
<1> QED BY <1>1, <1>2 DEF NightInv, Working, InOrder, Newest, NewestOf

(* run-all, alone and at work. *)
LEMMA NightlyAtWork ==
  ASSUME CleaningInv, NightInv, nightly, NEW j \in BackupJobs, Working(j)
  PROVE  /\ InOrder(backup[j]) /\ backup[j].command = RunAll
         /\ Task(j) = RunAll[backup[j].step] /\ backup[j].step \in 1..7
         /\ \A i \in BackupJobs : i # j => ~Working(i)
         /\ \A k \in Databases : Newest(k)
<1>1. InOrder(backup[j]) /\ \A i \in BackupJobs : i # j => ~Working(i)
      BY DEF NightInv
<1>2. backup[j].command = RunAll /\ Task(j) = RunAll[backup[j].step]
      BY <1>1 DEF InOrder, Working, Task
<1>3. backup[j].step \in 1..Len(backup[j].command) /\ backup[j].command \in Commands
      BY AtWork
<1>4. Len(backup[j].command) \in 1..7
      BY <1>3, CommandLength
<1> QED BY <1>1, <1>2, <1>3, <1>4 DEF NightInv

(* Data without a manifest changes nothing. *)
LEMMA NewestStays ==
  ASSUME NEW S, NEW W, NEW T, NEW V, NewestOf(S, W), S \subseteq T,
         \A o \in T \ S : o[2] = "data", \A o \in V \ W : o[2] = "data"
  PROVE  NewestOf(T, V)
<1>1. ASSUME NEW id PROVE <<id, "manifest">> \in T <=> <<id, "manifest">> \in S
  <2>1. <<id, "manifest">>[2] # "data"
        OBVIOUS
  <2> QED BY <2>1
<1>2. (\E o \in V : o[2] = "manifest") => \E o \in W : o[2] = "manifest"
      OBVIOUS
<1> QED BY <1>1, <1>2 DEF NewestOf

LEMMA NightlyInvStep == CleaningInv /\ NightInv /\ [BackupNext]_backupVars => NightInv'
<1> SUFFICES ASSUME CleaningInv, NightInv, [BackupNext]_backupVars, nightly' PROVE NightInv'
    BY DEF NightInv
<1>0. nightly
      BY DEF BackupNext, backupVars, StartBackup, AbortBackup, BeginSnapshot, PutData, SkipData,
             PutManifest, ListBackups, DeleteObject, EndCleaning
<1>n. \A k \in Databases : Newest(k) /\ k \in Kinds
      BY <1>0 DEF NightInv, Databases, Kinds
<1>1. ASSUME NEW j \in BackupJobs, NEW command \in Commands, StartBackup(j, command)
      PROVE  NightInv'
  <2>1. PICK new : new = AtTask(RunAll, 1)
        OBVIOUS
  <2>2. /\ backup' = [backup EXCEPT ![j] = new] /\ UNCHANGED <<store, written, issued, nightly>>
        /\ \A i \in BackupJobs : ~Working(i)
        BY <1>0, <1>1, <2>1 DEF StartBackup
  <2>3. new.step = 1 /\ new.command = RunAll /\ new.at = "ready"
        BY <2>1 DEF AtTask
  <2>4. InOrder(new)'
        BY <2>3 DEF InOrder, Past
  <2>5. \A k \in Databases : Newest(k)'
        BY <1>n, <2>2 DEF Newest
  <2> QED BY <1>0, <2>2, <2>4, <2>5, NightlyStep
<1>2. ASSUME NEW j \in BackupJobs, AbortBackup(j) PROVE NightInv'
  <2>1. PICK new : new = NoBackup
        OBVIOUS
  <2>2. /\ backup' = [backup EXCEPT ![j] = new] /\ UNCHANGED <<store, written, issued, nightly>>
        /\ Working(j)
        BY <1>2, <2>1 DEF AbortBackup
  <2>3. InOrder(new)'
        BY <2>1, IdleBackup DEF InOrder
  <2>4. \A k \in Databases : Newest(k)'
        BY <1>n, <2>2 DEF Newest
  <2> QED BY <1>0, <2>2, <2>3, <2>4, NightlyAtWork, NightlyStep
<1>3. ASSUME NEW j \in BackupJobs, BeginSnapshot(j) PROVE NightInv'
  <2>1. PICK k : k = Task(j).kind
        OBVIOUS
  <2>2. /\ Working(j) /\ issued' = [issued EXCEPT ![k] = @ + 1] /\ Task(j).op = "make"
        /\ Turn(j, "data", issued[k] + 1, {})
        /\ UNCHANGED <<store, written, nightly>>
        BY <1>3, <2>1 DEF BeginSnapshot, Doing
  <2>3. k \in Kinds /\ issued[k] \in Nat /\ issued[k] + 1 \in Nat
        BY <2>1, <2>2, AtWork, StoresAsBefore
  <2>4. PICK new \in BackupJob : Turned(j, new, "data", issued[k] + 1, {})
        BY <2>2, <2>3, TurnedStep
  <2>5. /\ InOrder(backup[j]) /\ new.command = RunAll /\ Task(j) = RunAll[new.step]
        /\ new.step = backup[j].step /\ new.step \in 1..7 /\ new.at = "data"
        /\ new.id = issued[k] + 1
        BY <1>0, <2>2, <2>4, NightlyAtWork DEF Turned
  <2>6. issued'[k] = issued[k] + 1 /\ \A l \in Kinds : l # k => issued'[l] = issued[l]
        BY <2>2, <2>3, StoresAsBefore
  <2>7. \A l \in Databases : Past(l, new.step) => l # k
        BY <2>1, <2>2, <2>5, RunAllTasks DEF Databases, Past
  <2>8. \A l \in Databases : Past(l, new.step) => Whole(l)'
        BY <1>n, <2>2, <2>5, <2>6, <2>7 DEF InOrder, Whole
  <2>9. InOrder(new)'
        BY <2>1, <2>5, <2>6, <2>8 DEF InOrder
  <2>10. \A l \in Databases : Newest(l)'
        BY <1>n, <2>2 DEF Newest
  <2> QED BY <1>0, <2>2, <2>4, <2>9, <2>10, NightlyAtWork, NightlyStep DEF Turned
<1>4. ASSUME NEW j \in BackupJobs, PutData(j) PROVE NightInv'
  <2>1. PICK k, id, o : k = Task(j).kind /\ id = backup[j].id /\ o = <<id, "data">>
        OBVIOUS
  <2>2. /\ Working(j) /\ Task(j).op = "make" /\ backup[j].at = "data"
        /\ Put(k, o) /\ Turn(j, "manifest", id, backup[j].doomed)
        /\ UNCHANGED <<issued, nightly>>
        BY <1>4, <2>1 DEF PutData, Doing, Continue
  <2>3. k \in Kinds /\ id \in Nat /\ backup[j].doomed \in SUBSET Objects /\ o[2] = "data"
        BY <2>1, <2>2, AtWork
  <2>4. PICK new \in BackupJob : Turned(j, new, "manifest", id, backup[j].doomed)
        BY <2>2, <2>3, TurnedStep
  <2>5. /\ InOrder(backup[j]) /\ new.command = RunAll /\ Task(j) = RunAll[new.step]
        /\ new.step = backup[j].step /\ new.step > 0 /\ new.at = "manifest" /\ new.id = id
        BY <1>0, <2>2, <2>4, NightlyAtWork DEF Turned
  <2>6. /\ store' = [store EXCEPT ![k] = @ \cup {o}]
        /\ written' = [written EXCEPT ![k] = @ \cup {o}]
        BY <2>2 DEF Put
  <2>7. \A l \in Kinds : /\ store[l] \subseteq store'[l]
                         /\ \A p \in store'[l] \ store[l] : p[2] = "data"
                         /\ \A p \in written'[l] \ written[l] : p[2] = "data"
        BY <2>3, <2>6, StoresAsBefore
  <2>8. o \in store'[k]
        BY <2>3, <2>6, StoresAsBefore
  <2>9. \A l \in Databases : Past(l, new.step) => Whole(l)'
        BY <1>n, <2>2, <2>5, <2>7 DEF InOrder, Whole
  <2>10. InOrder(new)'
        BY <2>1, <2>2, <2>5, <2>8, <2>9 DEF InOrder
  <2>11. ASSUME NEW l \in Databases PROVE Newest(l)'
    <3>1. NewestOf(store[l], written[l]) /\ l \in Kinds
          BY <1>n DEF Newest
    <3>2. NewestOf(store'[l], written'[l])
          BY <2>7, <3>1, NewestStays
    <3> QED BY <3>2 DEF Newest
  <2> QED BY <1>0, <2>2, <2>4, <2>10, <2>11, NightlyAtWork, NightlyStep DEF Turned
<1>5. ASSUME NEW j \in BackupJobs, SkipData(j) PROVE NightInv'
  <2>1. /\ Working(j) /\ Turn(j, "manifest", backup[j].id, backup[j].doomed)
        /\ Task(j).op = "make" /\ Task(j).kind = "mirror" /\ backup[j].at = "data"
        /\ UNCHANGED <<store, written, issued, nightly>>
        BY <1>5 DEF SkipData, Doing, Continue
  <2>2. PICK new \in BackupJob : Turned(j, new, "manifest", backup[j].id, backup[j].doomed)
        BY <2>1, AtWork, TurnedStep
  <2>3. /\ InOrder(backup[j]) /\ new.command = RunAll /\ Task(j) = RunAll[new.step]
        /\ new.step = backup[j].step /\ new.step > 0 /\ new.at = "manifest"
        /\ new.id = backup[j].id
        BY <1>0, <2>1, <2>2, NightlyAtWork DEF Turned
  <2>4. Task(j).kind \notin Databases
        BY <2>1 DEF Databases
  <2>5. InOrder(new)'
        BY <2>1, <2>3, <2>4 DEF InOrder, Whole
  <2>6. \A l \in Databases : Newest(l)'
        BY <1>n, <2>1 DEF Newest
  <2> QED BY <1>0, <2>1, <2>2, <2>5, <2>6, NightlyAtWork, NightlyStep DEF Turned
<1>6. ASSUME NEW j \in BackupJobs, PutManifest(j) PROVE NightInv'
  <2>1. PICK k, id, o : k = Task(j).kind /\ id = backup[j].id /\ o = <<id, "manifest">>
        OBVIOUS
  <2>2. /\ Working(j) /\ Task(j).op = "make" /\ backup[j].at = "manifest"
        /\ Put(k, o) /\ NextTask(j) /\ UNCHANGED <<issued, nightly>>
        BY <1>6, <2>1 DEF PutManifest, Doing
  <2>3. k \in Kinds /\ id \in Nat
        BY <2>1, <2>2, AtWork
  <2>4. /\ InOrder(backup[j]) /\ backup[j].command = RunAll /\ Task(j) = RunAll[backup[j].step]
        /\ backup[j].step \in 1..7
        BY <1>0, <2>2, NightlyAtWork
  <2>5. id = issued[k] /\ (k \in Databases => <<id, "data">> \in store[k])
        BY <2>1, <2>2, <2>4 DEF InOrder
  <2>6. /\ store' = [store EXCEPT ![k] = @ \cup {o}]
        /\ written' = [written EXCEPT ![k] = @ \cup {o}]
        BY <2>2 DEF Put
  <2>7. \A l \in Kinds : /\ store[l] \subseteq store'[l]
                         /\ l # k => store'[l] = store[l] /\ written'[l] = written[l]
        BY <2>3, <2>6, StoresAsBefore
  <2>8. o \in store'[k] /\ store'[k] = store[k] \cup {o}
        BY <2>3, <2>6, StoresAsBefore
  <2>9. k \in Databases => Whole(k)'
        BY <2>1, <2>2, <2>5, <2>7, <2>8, <2>3 DEF Whole
  <2>10. \A l \in Databases : Past(l, backup[j].step + 1) => Whole(l)'
    <3> SUFFICES ASSUME NEW l \in Databases, Past(l, backup[j].step + 1), l # k
                 PROVE  Whole(l)'
        BY <2>9
    <3>1. Past(l, backup[j].step)
          BY <2>1, <2>2, <2>4, RunAllTasks DEF Past, Databases
    <3>2. Whole(l)
          BY <2>4, <3>1 DEF InOrder
    <3> QED BY <1>n, <2>2, <2>7, <3>2 DEF Whole
  <2>11. ASSUME NEW l \in Databases PROVE Newest(l)'
    <3>1. CASE l = k
      <4>1. \A p \in store'[k] : p[1] <= issued[k]
        <5>1. o[1] = id /\ id <= issued[k]
              BY <2>1, <2>3, <2>5
        <5>2. \A p \in store[k] : p[1] <= issued[k]
              BY <2>3, StoresAsBefore
        <5> QED BY <2>8, <5>1, <5>2
      <4>2. <<issued[k], "data">> \in store'[k] /\ <<issued[k], "manifest">> \in store'[k]
            BY <2>1, <2>5, <2>8, <3>1
      <4>3. issued[k] \in Nat
            BY <2>3, StoresAsBefore
      <4>4. NewestOf(store'[k], written'[k])
            BY <4>1, <4>2, <4>3, WholeIsNewest
      <4> QED BY <3>1, <4>4 DEF Newest
    <3>2. CASE l # k
          BY <1>n, <2>7, <3>2 DEF Newest
    <3> QED BY <3>1, <3>2
  <2>12. PICK new : /\ backup' = [backup EXCEPT ![j] = new]
                    /\ new = NoBackup \/ new = AtTask(RunAll, backup[j].step + 1)
        BY <2>2, <2>4 DEF NextTask
  <2>13. InOrder(new)'
    <3>1. CASE new = NoBackup
          BY <3>1, IdleBackup DEF InOrder
    <3>2. CASE new = AtTask(RunAll, backup[j].step + 1)
      <4>1. new.step = backup[j].step + 1 /\ new.command = RunAll /\ new.at = "ready"
            BY <3>2 DEF AtTask
      <4> QED BY <2>10, <4>1 DEF InOrder
    <3> QED BY <2>12, <3>1, <3>2
  <2> QED BY <1>0, <2>2, <2>11, <2>12, <2>13, NightlyAtWork, NightlyStep
<1>7. ASSUME NEW j \in BackupJobs, ListBackups(j) PROVE NightInv'
  <2>1. PICK k, doomed : k = Task(j).kind /\ doomed = Outlived(k)
        OBVIOUS
  <2>2. /\ Working(j) /\ Turn(j, "delete", 0, doomed) /\ Task(j).op = "clean"
        /\ UNCHANGED <<store, written, issued, nightly>>
        BY <1>7, <2>1 DEF ListBackups, Doing
  <2>3. doomed \in SUBSET Objects
        BY <2>1, <2>2, AtWork, StoresAsBefore DEF Outlived
  <2>4. PICK new \in BackupJob : Turned(j, new, "delete", 0, doomed)
        BY <2>2, <2>3, TurnedStep
  <2>5. /\ InOrder(backup[j]) /\ new.command = RunAll /\ Task(j) = RunAll[new.step]
        /\ new.step = backup[j].step /\ new.step > 0
        BY <1>0, <2>2, <2>4, NightlyAtWork DEF Turned
  <2>6. InOrder(new)'
        BY <2>2, <2>5 DEF InOrder, Whole
  <2>7. \A l \in Databases : Newest(l)'
        BY <1>n, <2>2 DEF Newest
  <2> QED BY <1>0, <2>2, <2>4, <2>6, <2>7, NightlyAtWork, NightlyStep DEF Turned
<1>8. ASSUME NEW j \in BackupJobs, NEW object \in backup[j].doomed, DeleteObject(j, object)
      PROVE  NightInv'
  <2>1. PICK k, doomed : k = Task(j).kind /\ doomed = backup[j].doomed \ {object}
        OBVIOUS
  <2>2. /\ Working(j) /\ Turn(j, "delete", 0, doomed) /\ Task(j).op = "clean"
        /\ store' = [store EXCEPT ![k] = @ \ {object}]
        /\ UNCHANGED <<written, issued, nightly>>
        BY <1>8, <2>1 DEF DeleteObject, Doing
  <2>3. /\ k \in Kinds /\ doomed \in SUBSET Objects
        /\ object \in Objects /\ Outdated(k, object)
        BY <1>8, <2>1, <2>2, AtWork
  <2>4. PICK new \in BackupJob : Turned(j, new, "delete", 0, doomed)
        BY <2>2, <2>3, TurnedStep
  <2>5. /\ InOrder(backup[j]) /\ new.command = RunAll /\ Task(j) = RunAll[new.step]
        /\ new.step = backup[j].step /\ new.step \in 1..7
        BY <1>0, <2>2, <2>4, NightlyAtWork DEF Turned
  <2>6. \A l \in Databases : Past(l, new.step) /\ Whole(l)
        BY <2>2, <2>5, RunAllTasks DEF InOrder, Past, Databases
  <2>7. \A n : \A part : object[1] < issued[k] /\ object = <<n, part>> => n # issued[k]
    <3> SUFFICES ASSUME NEW n, NEW part, object[1] < issued[k], object = <<n, part>>
                 PROVE  n # issued[k]
        OBVIOUS
    <3>1. object[1] = n
          OBVIOUS
    <3> QED BY <2>3, <3>1, StoresAsBefore
  <2>8. object[1] < issued[k]
        BY <2>3, OutdatedIsOlder
  <2>9. \A l \in Kinds : store'[l] = IF l = k THEN store[l] \ {object} ELSE store[l]
        BY <2>2, <2>3, StoresAsBefore
  <2>10. \A l \in Databases : Whole(l)'
        BY <1>n, <2>2, <2>6, <2>7, <2>8, <2>9 DEF Whole
  <2>11. InOrder(new)'
        BY <2>2, <2>5, <2>10 DEF InOrder
  <2>12. ASSUME NEW l \in Databases PROVE Newest(l)'
    <3>1. l \in Kinds /\ issued[l] \in Nat /\ \A p \in store'[l] : p[1] <= issued[l]
          BY <1>n, <2>9, StoresAsBefore
    <3>2. <<issued[l], "data">> \in store'[l] /\ <<issued[l], "manifest">> \in store'[l]
          BY <2>2, <2>10 DEF Whole
    <3>3. NewestOf(store'[l], written'[l])
          BY <3>1, <3>2, WholeIsNewest
    <3> QED BY <3>3 DEF Newest
  <2> QED BY <1>0, <2>2, <2>4, <2>11, <2>12, NightlyAtWork, NightlyStep DEF Turned
<1>9. ASSUME NEW j \in BackupJobs, EndCleaning(j) PROVE NightInv'
  <2>1. /\ Working(j) /\ Task(j).op = "clean" /\ NextTask(j)
        /\ UNCHANGED <<store, written, issued, nightly>>
        BY <1>9 DEF EndCleaning, Doing
  <2>2. /\ InOrder(backup[j]) /\ backup[j].command = RunAll /\ Task(j) = RunAll[backup[j].step]
        /\ backup[j].step \in 1..7
        BY <1>0, <2>1, NightlyAtWork
  <2>3. \A l \in Databases : Whole(l)
        BY <2>1, <2>2, RunAllTasks DEF InOrder, Past, Databases
  <2>4. PICK new : /\ backup' = [backup EXCEPT ![j] = new]
                   /\ new = NoBackup \/ new = AtTask(RunAll, backup[j].step + 1)
        BY <2>1, <2>2 DEF NextTask
  <2>5. InOrder(new)'
    <3>1. CASE new = NoBackup
          BY <3>1, IdleBackup DEF InOrder
    <3>2. CASE new = AtTask(RunAll, backup[j].step + 1)
      <4>1. new.command = RunAll /\ new.at = "ready"
            BY <3>2 DEF AtTask
      <4> QED BY <2>1, <2>3, <4>1 DEF InOrder, Whole
    <3> QED BY <2>4, <3>1, <3>2
  <2>6. \A l \in Databases : Newest(l)'
        BY <1>n, <2>1 DEF Newest
  <2> QED BY <1>0, <2>1, <2>4, <2>5, <2>6, NightlyAtWork, NightlyStep
<1>10. CASE UNCHANGED backupVars
      BY <1>10 DEF backupVars, NightInv, Working, InOrder, Newest, Whole
<1> QED BY <1>1, <1>2, <1>3, <1>4, <1>5, <1>6, <1>7, <1>8, <1>9, <1>10 DEF BackupNext

(* With no command but the nightly one, wherever its runs fail: once a     *)
(* snapshot of a database was completed, the youngest that is listed can   *)
(* be restored, however few retention keeps.                               *)
THEOREM BackupNewestRestores == BackupSpec => []NewestRestores
<1>1. NightInv => NewestRestores
  <2> SUFFICES ASSUME NightInv, nightly, NEW k \in {"full", "redis"},
                      \E o \in written[k] : o[2] = "manifest"
               PROVE  \E id \in Listed(k) : Restores(k, id) /\ \A other \in Listed(k) : other <= id
      BY DEF NewestRestores
  <2>1. k \in Kinds /\ NewestOf(store[k], written[k])
        BY DEF NightInv, Databases, Newest, Kinds
  <2> QED BY <2>1, ListedManifests DEF NewestOf, Restores
<1> QED BY <1>1, NightlyInitially, NightlyInvStep, CleaningInvariance, PTL DEF BackupSpec

-----------------------------------------------------------------------------
(* The modules of the API process.  The search goes down a path of modules *)
(* that each need the next; and what stands in the order stands after all  *)
(* it needs.                                                               *)
Booted == {"ACTIVE", "FAILED"}

BootTypeOK ==
  /\ needs \in [Modules -> SUBSET Modules]
  /\ registered \in SUBSET Modules
  /\ phase \in {"registering", "sorting", "refused", "initializing", "stopped"}
  /\ path \in Seq(registered) /\ ordered \in Seq(registered)
  /\ status \in [Modules -> {"UNREGISTERED", "REGISTERED", "INITIALIZING", "STOPPED"} \cup Booted]

PathDescends == \A i \in 1..Len(path) : i > 1 => path[i] \in needs[path[i - 1]]
OrderOK ==
  /\ visited = Elements(ordered)
  /\ \A i \in 1..Len(ordered) : \A n \in needs[ordered[i]] : \E j \in 1..(i - 1) : ordered[j] = n
NothingMissing == \A m \in registered : needs[m] \subseteq registered

BootPhase ==
  /\ phase = "registering" => path = <<>> /\ ordered = <<>>
  /\ phase \in {"registering", "sorting", "refused"} =>
       \A m \in Modules : status[m] \in {"UNREGISTERED", "REGISTERED"}
  /\ phase \in {"sorting", "initializing", "stopped"} => NothingMissing

BootInv == BootTypeOK /\ PathDescends /\ OrderOK /\ BootPhase /\ BootsInOrder

(* The modules on a path that comes back to itself all need another of     *)
(* them.                                                                   *)
LEMMA CircleIsUnbootable ==
  ASSUME BootTypeOK, PathDescends, NEW m \in Elements(path), m \in needs[Top]
  PROVE  ~Bootable
<1>0. path \in Seq(registered) /\ Len(path) \in Nat BY DEF BootTypeOK
<1>1. PICK k \in 1..Len(path) : path[k] = m BY <1>0 DEF Elements
<1> DEFINE circle == {path[i] : i \in k..Len(path)}
<1>2. circle \in SUBSET registered /\ m \in circle BY <1>0, <1>1
<1>3. ASSUME NEW n \in circle PROVE needs[n] \cap circle # {}
  <2>1. PICK i \in k..Len(path) : n = path[i] OBVIOUS
  <2>2. CASE i = Len(path) BY <1>2, <2>1, <2>2 DEF Top
  <2>3. CASE i # Len(path)
    <3>1. i + 1 \in k..Len(path) /\ i + 1 \in 1..Len(path) /\ i + 1 > 1 /\ (i + 1) - 1 = i
          BY <1>0, <2>3
    <3>2. path[i + 1] \in needs[n] BY <2>1, <3>1 DEF PathDescends
    <3> QED BY <3>1, <3>2
  <2> QED BY <2>2, <2>3
<1> HIDE DEF circle
<1> QED BY <1>2, <1>3 DEF Bootable

(* An order in which all stand after what they need: of any modules, the   *)
(* first needs no other.                                                   *)
LEMMA OrderIsBootable ==
  ASSUME BootTypeOK, OrderOK, NothingMissing, Elements(ordered) = registered
  PROVE  Bootable
<1>0. ordered \in Seq(registered) /\ Len(ordered) \in Nat BY DEF BootTypeOK
<1> SUFFICES ASSUME NEW some \in SUBSET registered, some # {}
             PROVE  \E m \in some : needs[m] \cap some = {}
    BY DEF Bootable, NothingMissing
<1> DEFINE I == {i \in 1..Len(ordered) : ordered[i] \in some}
<1>1. I \in SUBSET Nat /\ I # {} BY <1>0 DEF Elements
<1> HIDE DEF I
<1>2. PICK i \in I : \A j \in I : i <= j BY <1>1, Least
<1>3. i \in 1..Len(ordered) /\ ordered[i] \in some BY <1>2 DEF I
<1>4. ASSUME NEW n \in needs[ordered[i]], n \in some PROVE FALSE
  <2>1. PICK j \in 1..(i - 1) : ordered[j] = n BY <1>3 DEF OrderOK
  <2>2. j \in 1..Len(ordered) /\ j < i BY <1>0, <1>3, <2>1
  <2> QED BY <1>2, <1>3, <1>4, <2>1, <2>2 DEF I
<1> QED BY <1>3, <1>4

LEMMA BootInitially == ModuleKernelInit => BootInv
BY DEF ModuleKernelInit, BootInv, BootTypeOK, PathDescends, OrderOK, BootPhase, BootsInOrder,
       Elements, Booted

LEMMA RegisterKeeps == ASSUME BootInv, NEW m \in Modules, Register(m) PROVE BootInv'
<1> USE DEF BootInv
<1>1. path = <<>> /\ ordered = <<>> BY DEF Register, BootPhase
<1>2. BootTypeOK' BY <1>1 DEF Register, BootTypeOK
<1>3. PathDescends' /\ OrderOK' BY <1>1 DEF Register, PathDescends, OrderOK
<1>4. \A n \in Modules : status'[n] \in {"UNREGISTERED", "REGISTERED"}
      BY DEF Register, BootPhase, BootTypeOK
<1>5. BootPhase' BY <1>1, <1>4 DEF Register, BootPhase
<1>6. BootsInOrder' BY <1>2, <1>4 DEF Register, BootsInOrder, BootTypeOK
<1> QED BY <1>2, <1>3, <1>5, <1>6

LEMMA SearchKeeps ==
  ASSUME BootInv, \/ ValidateDependencies \/ Visited \/ Sorted \/ \E m \in Modules : Visit(m)
  PROVE  BootInv'
<1> USE DEF BootInv
<1>0. /\ path \in Seq(registered) /\ Len(path) \in Nat
      /\ ordered \in Seq(registered) /\ Len(ordered) \in Nat
      BY DEF BootTypeOK
<1>s. \A n \in Modules : status'[n] = status[n] /\ status[n] \in {"UNREGISTERED", "REGISTERED"}
      BY DEF ValidateDependencies, Visited, Sorted, Visit, BootPhase
<1>1. CASE ValidateDependencies
  <2>1. BootTypeOK' BY <1>1 DEF ValidateDependencies, BootTypeOK
  <2>2. PathDescends' /\ OrderOK' BY <1>1 DEF ValidateDependencies, PathDescends, OrderOK, Elements
  <2>3. BootPhase' BY <1>1, <1>s DEF ValidateDependencies, BootPhase, NothingMissing
  <2>4. BootsInOrder' BY <1>1, <1>s, <2>1 DEF ValidateDependencies, BootsInOrder, Bootable, BootTypeOK
  <2> QED BY <2>1, <2>2, <2>3, <2>4
<1>2. CASE Sorted
  <2>1. BootTypeOK' BY <1>2 DEF Sorted, BootTypeOK
  <2>2. PathDescends' /\ OrderOK' BY <1>2 DEF Sorted, PathDescends, OrderOK, Elements
  <2>3. BootPhase' BY <1>2, <1>s DEF Sorted, BootPhase, NothingMissing
  <2>4. Elements(ordered) = registered BY <1>0, <1>2 DEF Sorted, Candidates, OrderOK, Elements
  <2>5. Bootable BY <1>2, <2>4, OrderIsBootable DEF BootPhase, Sorted
  <2>6. BootsInOrder' BY <1>2, <1>s, <2>1, <2>4, <2>5 DEF Sorted, BootsInOrder, Bootable, BootTypeOK, Elements
  <2> QED BY <2>1, <2>2, <2>3, <2>6
<1>3. ASSUME NEW m \in Modules, Visit(m) PROVE BootInv'
  <2>1. m \in registered BY <1>0, <1>3 DEF Visit, Candidates, BootPhase, NothingMissing, Top
  <2>2. CASE m \in Visiting
    <3>1. UNCHANGED <<needs, registered, path, visited, ordered, status>> /\ phase' = "refused"
          BY <1>3, <2>2 DEF Visit
    <3>2. m \in needs[Top] BY <1>0, <1>3, <2>2 DEF Visit, Candidates, Visiting, Elements
    <3>3. ~Bootable BY <2>2, <3>2, CircleIsUnbootable DEF Visiting
    <3>4. BootTypeOK' /\ PathDescends' /\ OrderOK'
          BY <3>1 DEF BootTypeOK, PathDescends, OrderOK, Elements
    <3>5. BootPhase' BY <3>1, <1>s DEF BootPhase
    <3>6. BootsInOrder' BY <3>1, <3>3, <1>s, <3>4 DEF BootsInOrder, Bootable, BootTypeOK
    <3> QED BY <3>4, <3>5, <3>6
  <2>3. CASE m \notin Visiting
    <3>1. UNCHANGED <<needs, registered, phase, visited, ordered, status>>
          /\ phase = "sorting" /\ path' = Append(path, m)
          BY <1>3, <2>3 DEF Visit
    <3>2. BootTypeOK' /\ OrderOK' BY <1>0, <2>1, <3>1 DEF BootTypeOK, OrderOK, Elements
    <3>3. /\ Len(path') = Len(path) + 1 /\ path'[Len(path) + 1] = m
          /\ \A i \in 1..Len(path) : path'[i] = path[i]
          BY <1>0, <2>1, <3>1
    <3>4. path # <<>> => m \in needs[path[Len(path)]] BY <1>3 DEF Visit, Candidates, Top
    <3>5. PathDescends'
      <4> SUFFICES ASSUME NEW i \in 1..(Len(path) + 1), i > 1
                   PROVE  path'[i] \in needs[path'[i - 1]]
          BY <3>1, <3>3 DEF PathDescends
      <4>1. i - 1 \in 1..Len(path) BY <1>0
      <4>2. CASE i = Len(path) + 1 BY <1>0, <3>3, <3>4, <4>1, <4>2
      <4>3. CASE i # Len(path) + 1
        <5>1. i \in 1..Len(path) BY <1>0, <4>3
        <5> QED BY <3>3, <4>1, <5>1 DEF PathDescends
      <4> QED BY <4>2, <4>3
    <3>6. BootPhase' BY <3>1, <1>s DEF BootPhase, NothingMissing
    <3>7. BootsInOrder' BY <3>1, <1>s, <3>2 DEF BootsInOrder, BootTypeOK
    <3> QED BY <3>2, <3>5, <3>6, <3>7
  <2> QED BY <2>2, <2>3
<1>4. CASE Visited
  <2>1. /\ UNCHANGED <<needs, registered, phase, status>> /\ phase = "sorting"
        /\ path # <<>> /\ needs[Top] \subseteq visited
        /\ ordered' = Append(ordered, Top) /\ visited' = visited \cup {Top}
        /\ path' = SubSeq(path, 1, Len(path) - 1)
        BY <1>4 DEF Visited, Candidates
  <2>2. Len(path) > 0 /\ Top \in registered BY <1>0, <2>1 DEF Top
  <2>3. /\ path' \in Seq(registered) /\ Len(path') = Len(path) - 1
        /\ \A i \in 1..(Len(path) - 1) : path'[i] = path[i]
    <3> DEFINE n == Len(path) - 1
    <3>1. n \in 0..Len(path) /\ n \in Nat BY <1>0, <2>2
    <3>2. \A i \in 1..n : i \in 1..Len(path) /\ path[i] \in registered BY <1>0, <3>1
    <3>3. path' = [i \in 1..n |-> path[i]] BY <1>0, <2>1, <3>1
    <3> HIDE DEF n
    <3> QED BY <3>1, <3>2, <3>3 DEF n
  <2>4. /\ ordered' \in Seq(registered) /\ Len(ordered') = Len(ordered) + 1
        /\ \A i \in 1..Len(ordered) : ordered'[i] = ordered[i]
        /\ ordered'[Len(ordered) + 1] = Top
        BY <1>0, <2>1, <2>2
  <2>5. BootTypeOK' BY <2>1, <2>3, <2>4 DEF BootTypeOK
  <2>6. PathDescends'
    <3> SUFFICES ASSUME NEW i \in 1..(Len(path) - 1), i > 1
                 PROVE  path'[i] \in needs[path'[i - 1]]
        BY <2>1, <2>3 DEF PathDescends
    <3>1. i \in 1..Len(path) /\ i - 1 \in 1..(Len(path) - 1) BY <1>0
    <3> QED BY <2>3, <3>1 DEF PathDescends
  <2>7. OrderOK'
    <3>1. visited' = Elements(ordered)'
      <4>1. \A i \in 1..(Len(ordered) + 1) : i \in 1..Len(ordered) \/ i = Len(ordered) + 1
            BY <1>0
      <4>2. \A i \in 1..Len(ordered) : i \in 1..(Len(ordered) + 1)
            BY <1>0
      <4>3. Len(ordered) + 1 \in 1..(Len(ordered) + 1) BY <1>0
      <4>4. Elements(ordered)' = {ordered'[i] : i \in 1..(Len(ordered) + 1)}
            BY <2>4 DEF Elements
      <4>5. visited = {ordered[i] : i \in 1..Len(ordered)} BY <1>0 DEF OrderOK, Elements
      <4> QED BY <2>1, <2>4, <4>1, <4>2, <4>3, <4>4, <4>5
    <3>2. ASSUME NEW i \in 1..(Len(ordered) + 1), NEW n \in needs[ordered'[i]]
          PROVE  \E j \in 1..(i - 1) : ordered'[j] = n
      <4>1. CASE i \in 1..Len(ordered)
        <5>1. PICK j \in 1..(i - 1) : ordered[j] = n BY <2>4, <3>2, <4>1 DEF OrderOK
        <5>2. j \in 1..Len(ordered) BY <1>0, <4>1
        <5> QED BY <2>4, <5>1, <5>2
      <4>2. CASE i = Len(ordered) + 1
        <5>1. n \in visited BY <2>1, <2>4, <3>2, <4>2
        <5>2. PICK j \in 1..Len(ordered) : ordered[j] = n BY <1>0, <5>1 DEF OrderOK, Elements
        <5>3. j \in 1..(i - 1) BY <1>0, <4>2
        <5> QED BY <2>4, <5>2, <5>3
      <4> QED BY <1>0, <4>1, <4>2
    <3> QED BY <2>1, <2>4, <3>1, <3>2 DEF OrderOK
  <2>8. BootPhase' BY <2>1, <1>s DEF BootPhase, NothingMissing
  <2>9. BootsInOrder' BY <2>1, <1>s, <2>5 DEF BootsInOrder, BootTypeOK
  <2> QED BY <2>5, <2>6, <2>7, <2>8, <2>9
<1> QED BY <1>1, <1>2, <1>3, <1>4

(* A step of booting that only changes statuses. *)
LEMMA StatusKeeps ==
  ASSUME BootInv, UNCHANGED <<needs, registered, path, visited, ordered>>,
         phase \in {"initializing", "stopped"}, phase' \in {"initializing", "stopped"},
         BootTypeOK',
         \A m \in registered : status'[m] \in {"INITIALIZING"} \cup Booted =>
           \A n \in needs[m] : status'[n] \notin {"REGISTERED", "INITIALIZING"}
  PROVE  BootInv'
<1> USE DEF BootInv
<1>1. PathDescends' /\ OrderOK' BY DEF PathDescends, OrderOK, Elements
<1>2. BootPhase' BY DEF BootPhase, NothingMissing
<1>3. BootsInOrder' BY DEF BootsInOrder, Bootable, Elements, Booted
<1> QED BY <1>1, <1>2, <1>3

LEMMA InitializeKeeps ==
  ASSUME BootInv, NEW i \in DOMAIN ordered, Initialize(i) PROVE BootInv'
<1> USE DEF BootInv
<1>0. i \in 1..Len(ordered) /\ ordered[i] \in registered /\ ordered[i] \in Modules
      BY DEF BootTypeOK
<1>1. \A n \in Modules : status'[n] = IF n = ordered[i] THEN "INITIALIZING" ELSE status[n]
      BY <1>0 DEF Initialize, BootTypeOK
<1>2. BootTypeOK' BY <1>0 DEF Initialize, BootTypeOK
<1>3. ASSUME NEW m \in registered, status'[m] \in {"INITIALIZING"} \cup Booted, NEW n \in needs[m]
      PROVE  status'[n] \notin {"REGISTERED", "INITIALIZING"}
  <2>0. m \in Modules /\ n \in Modules BY DEF BootTypeOK
  <2>1. CASE m = ordered[i]
    <3>1. PICK j \in 1..(i - 1) : ordered[j] = n BY <1>0, <1>3, <2>1 DEF OrderOK
    <3>2. status[n] \in {"ACTIVE", "FAILED"} BY <3>1 DEF Initialize
    <3>3. n # ordered[i] BY <3>2 DEF Initialize
    <3> QED BY <1>1, <2>0, <3>2, <3>3
  <2>2. CASE m # ordered[i]
    <3>1. status[n] \notin {"REGISTERED", "INITIALIZING"}
          BY <1>1, <1>3, <2>0, <2>2 DEF BootsInOrder, Booted
    <3>2. n # ordered[i] BY <3>1 DEF Initialize
    <3> QED BY <1>1, <2>0, <3>1, <3>2
  <2> QED BY <2>1, <2>2
<1> QED BY <1>2, <1>3, StatusKeeps DEF Initialize

LEMMA InitializedKeeps ==
  ASSUME BootInv, NEW i \in DOMAIN ordered, NEW outcome \in Booted, Initialized(i, outcome)
  PROVE  BootInv'
<1> USE DEF BootInv
<1>0. i \in 1..Len(ordered) /\ ordered[i] \in registered /\ ordered[i] \in Modules
      BY DEF BootTypeOK
<1>1. \A n \in Modules : status'[n] = IF n = ordered[i] THEN outcome ELSE status[n]
      BY <1>0 DEF Initialized, BootTypeOK
<1>2. BootTypeOK' BY <1>0 DEF Initialized, BootTypeOK
<1>3. ASSUME NEW m \in registered, status'[m] \in {"INITIALIZING"} \cup Booted, NEW n \in needs[m]
      PROVE  status'[n] \notin {"REGISTERED", "INITIALIZING"}
  <2>0. m \in Modules /\ n \in Modules BY DEF BootTypeOK
  <2>1. status[m] \in {"INITIALIZING"} \cup Booted BY <1>1, <1>3, <2>0 DEF Initialized
  <2>2. status[n] \notin {"REGISTERED", "INITIALIZING"} BY <2>1 DEF BootsInOrder, Booted
  <2> QED BY <1>1, <2>0, <2>2 DEF Booted
<1>4. phase \in {"initializing", "stopped"} BY <1>0 DEF Initialized, BootPhase, BootTypeOK
<1> QED BY <1>2, <1>3, <1>4, StatusKeeps DEF Initialized

LEMMA StopKeeps ==
  ASSUME BootInv, NEW stopping \in SUBSET registered, StopAll(stopping) PROVE BootInv'
<1> USE DEF BootInv
<1>1. BootTypeOK' BY DEF StopAll, BootTypeOK
<1>2. ASSUME NEW m \in registered, status'[m] \in {"INITIALIZING"} \cup Booted, NEW n \in needs[m]
      PROVE  status'[n] \notin {"REGISTERED", "INITIALIZING"}
  <2>0. m \in Modules /\ n \in Modules BY DEF BootTypeOK
  <2>1. status'[m] = status[m] BY <1>2, <2>0 DEF StopAll, Booted
  <2>2. status[n] \notin {"REGISTERED", "INITIALIZING"} BY <1>2, <2>1 DEF BootsInOrder, Booted
  <2> QED BY <2>0, <2>2 DEF StopAll
<1> QED BY <1>1, <1>2, StatusKeeps DEF StopAll

LEMMA BootStep == BootInv /\ [ModuleKernelNext]_kernelVars => BootInv'
<1> SUFFICES ASSUME BootInv, [ModuleKernelNext]_kernelVars PROVE BootInv' OBVIOUS
<1>1. CASE UNCHANGED kernelVars
  <2> USE <1>1 DEF kernelVars
  <2>1. BootTypeOK' BY DEF BootInv, BootTypeOK
  <2>2. PathDescends' BY DEF BootInv, PathDescends
  <2>3. OrderOK' BY DEF BootInv, OrderOK, Elements
  <2>4. BootPhase' BY DEF BootInv, BootPhase, NothingMissing
  <2>5. BootsInOrder' BY DEF BootInv, BootsInOrder, Bootable, Elements
  <2> QED BY <2>1, <2>2, <2>3, <2>4, <2>5 DEF BootInv
<1>2. CASE ModuleKernelNext
      BY <1>2, RegisterKeeps, SearchKeeps, InitializeKeeps, InitializedKeeps, StopKeeps
      DEF ModuleKernelNext, Booted
<1> QED BY <1>1, <1>2

(* Whatever modules need and however the search goes, booting is refused   *)
(* only for a missing or circular dependency, and a module is initialised  *)
(* after all that it needs: getOrderedModules, initializeAll.              *)
THEOREM ModulesBootInOrder == ModuleKernelSpec => []BootsInOrder
<1>1. BootInv => BootsInOrder BY DEF BootInv
<1> QED BY <1>1, BootInitially, BootStep, PTL DEF ModuleKernelSpec

-----------------------------------------------------------------------------
(* Error tracking.  An aggregated error has its last occurrence, and       *)
(* between one it does not have and the last there is a pause longer than  *)
(* the window of deduplication.                                            *)
AggregateRec == [count: Nat, last: Nat, recent: SUBSET (Nat \X Nat)]
IncidentRec == [of: Fingerprints \cup {"none"}, rule: Nat, status: Lifecycle \cup {"NONE"},
                count: Nat, reopened: BOOLEAN]

ErrorsTypeOK ==
  /\ time \in Nat
  /\ aggregate \in [Fingerprints -> AggregateRec]
  /\ captured \in [Fingerprints -> SUBSET (Nat \X Nat)]
  /\ incident \in [Incidents -> IncidentRec]

Pause(f, p) == p[1] + DedupeTicks < aggregate[f].last /\ ~Follows(f, p)

OccurrencesKept(f) ==
  /\ IsFiniteSet(captured[f])
  /\ aggregate[f].recent \subseteq captured[f]
  /\ aggregate[f].last <= time
  /\ aggregate[f].count = 0 => captured[f] = {}
  /\ captured[f] # {} => \E o \in captured[f] : o[1] = aggregate[f].last
  /\ \A o \in captured[f] :
       /\ o[1] <= aggregate[f].last
       /\ o[2] <= Cardinality(captured[f])
       /\ o \notin aggregate[f].recent => \E p \in captured[f] : p[1] >= o[1] /\ Pause(f, p)

ErrorsInv ==
  /\ ErrorsTypeOK
  /\ \A f \in Fingerprints : OccurrencesKept(f)
  /\ OneOpenIncident

LEMMA RulesTypeOK ==
  /\ DOMAIN Rules \in SUBSET Nat
  /\ \A r \in DOMAIN Rules : Rules[r].times \in Nat /\ Rules[r].least \in Nat
BY DEF Rules, Rule

LEMMA SeverityRises ==
  ASSUME NEW f \in Fingerprints, NEW count \in Nat
  PROVE  Severity(f, count) \in Nat /\ Severity(f, count) >= Shape[f].severity
<1> DEFINE more == IF count >= 10 THEN 2 ELSE IF count >= 5 THEN 1 ELSE 0
<1>1. Shape[f].severity \in 0..4 /\ more \in 0..2
      BY ErrorTrackingAssumption DEF ErrorTrackingAssumption, Severities
<1>2. {4, Shape[f].severity + more} \in SUBSET Nat BY <1>1
<1>3. Severity(f, count) \in {4, Shape[f].severity + more} BY <1>2, Least DEF Severity
<1> HIDE DEF more
<1> QED BY <1>1, <1>3

(* The newest occurrence is a new one. *)
LEMMA OccurrenceIsNew ==
  ASSUME ErrorsInv, NEW f \in Fingerprints
  PROVE  /\ Cardinality(captured[f]) \in Nat
         /\ Occurrence(f) \in Nat \X Nat /\ Occurrence(f) \notin captured[f]
         /\ Occurrence(f)[1] = time /\ Occurrence(f)[2] = Cardinality(captured[f]) + 1
<1>1. /\ IsFiniteSet(captured[f]) /\ time \in Nat /\ captured[f] \subseteq Nat \X Nat
      /\ \A o \in captured[f] : o[2] <= Cardinality(captured[f])
      BY DEF ErrorsInv, OccurrencesKept, ErrorsTypeOK
<1>2. Cardinality(captured[f]) \in Nat BY <1>1, FS_CardinalityType
<1> QED BY <1>1, <1>2 DEF Occurrence

(* What a capture does not aggregate to lies before a pause. *)
LEMMA PauseBefore ==
  ASSUME ErrorsInv, NEW f \in Fingerprints, NEW o \in captured[f],
         o \notin (IF Known(f) THEN aggregate[f] ELSE NoAggregate).recent
  PROVE  \E p \in captured[f] : p[1] >= o[1] /\ p[1] + DedupeTicks < time /\ ~Follows(f, p)
<1> USE ErrorTrackingAssumption DEF ErrorTrackingAssumption
<1>0. /\ time \in Nat /\ aggregate[f] \in AggregateRec /\ captured[f] \in SUBSET (Nat \X Nat)
      /\ OccurrencesKept(f)
      BY DEF ErrorsInv, ErrorsTypeOK
<1>1. /\ aggregate[f].last \in Nat /\ aggregate[f].last <= time /\ aggregate[f].count \in Nat
      /\ \A p \in captured[f] : p[1] \in Nat /\ p[1] <= aggregate[f].last
      BY <1>0 DEF AggregateRec, OccurrencesKept
<1>2. CASE Known(f)
  <2>1. PICK p \in captured[f] : p[1] >= o[1] /\ Pause(f, p) BY <1>0, <1>2 DEF OccurrencesKept
  <2> QED BY <1>0, <1>1, <2>1 DEF Pause
<1>3. CASE ~Known(f)
  <2>1. aggregate[f].count # 0 BY <1>0 DEF OccurrencesKept
  <2>2. aggregate[f].last + DedupeTicks < time BY <1>0, <1>1, <1>3, <2>1 DEF Known
  <2>3. PICK p \in captured[f] : p[1] = aggregate[f].last BY <1>0 DEF OccurrencesKept
  <2>4. ~Follows(f, p) BY <1>1, <2>3 DEF Follows
  <2> QED BY <1>1, <2>2, <2>3, <2>4
<1> QED BY <1>2, <1>3

LEMMA CaptureCounts ==
  ASSUME ErrorsInv, NEW f \in Fingerprints, Capture(f)
  PROVE  /\ aggregate' \in [Fingerprints -> AggregateRec]
         /\ captured' \in [Fingerprints -> SUBSET (Nat \X Nat)]
         /\ Aggregated(f) \in AggregateRec
         /\ \A g \in Fingerprints : OccurrencesKept(g)'
<1> USE ErrorTrackingAssumption DEF ErrorTrackingAssumption
<1> DEFINE old == IF Known(f) THEN aggregate[f] ELSE NoAggregate
           new == Occurrence(f)
           all == captured[f]
<1>0. /\ time \in Nat /\ aggregate[f] \in AggregateRec /\ all \in SUBSET (Nat \X Nat)
      /\ OccurrencesKept(f)
      BY DEF ErrorsInv, ErrorsTypeOK
<1>1. /\ Cardinality(all) \in Nat /\ new \in Nat \X Nat /\ new \notin all
      /\ new[1] = time /\ new[2] = Cardinality(all) + 1
      BY OccurrenceIsNew
<1>2. IsFiniteSet(all \cup {new}) /\ Cardinality(all \cup {new}) = Cardinality(all) + 1
      BY <1>0, <1>1, FS_AddElement DEF OccurrencesKept
<1>3. old \in AggregateRec /\ old.count \in Nat /\ old.recent \subseteq all
      BY <1>0 DEF NoAggregate, AggregateRec, OccurrencesKept
<1>4. ASSUME NEW o \in all, o \notin old.recent
      PROVE  \E p \in all : p[1] >= o[1] /\ p[1] + DedupeTicks < time /\ ~Follows(f, p)
      BY <1>4, PauseBefore
<1>5. Aggregated(f) = [count |-> old.count + 1, last |-> time, recent |-> old.recent \cup {new}]
      BY DEF Aggregated
<1>6. aggregate' = [aggregate EXCEPT ![f] = Aggregated(f)] /\ time' = time
      /\ captured' = [captured EXCEPT ![f] = all \cup {new}]
      BY DEF Capture
<1>7. \A o \in all : o[1] \in Nat /\ o[2] \in Nat /\ o[1] <= time /\ o[2] <= Cardinality(all)
      BY <1>0 DEF OccurrencesKept, AggregateRec
<1> HIDE DEF old, new, all
<1>8. Aggregated(f) \in AggregateRec
      BY <1>0, <1>1, <1>3, <1>5 DEF AggregateRec
<1>9. /\ \A g \in Fingerprints : aggregate'[g] = IF g = f THEN Aggregated(f) ELSE aggregate[g]
      /\ \A g \in Fingerprints : captured'[g] = IF g = f THEN all \cup {new} ELSE captured[g]
      BY <1>6 DEF ErrorsInv, ErrorsTypeOK
<1>10. ASSUME NEW g \in Fingerprints PROVE OccurrencesKept(g)'
  <2>1. CASE g = f
    <3>1. /\ aggregate'[f].last = time /\ aggregate'[f].recent = old.recent \cup {new}
          /\ aggregate'[f].count # 0 /\ captured'[f] = all \cup {new}
          BY <1>3, <1>5, <1>9
    <3>2. ASSUME NEW o \in all \cup {new}
          PROVE  /\ o[1] <= time /\ o[2] <= Cardinality(all) + 1
                 /\ o \notin old.recent \cup {new} =>
                      \E p \in all \cup {new} : p[1] >= o[1] /\ Pause(f, p)'
      <4>1. o[1] <= time /\ o[2] <= Cardinality(all) + 1 BY <1>0, <1>1, <1>7
      <4>2. ASSUME o \notin old.recent \cup {new}
            PROVE  \E p \in all \cup {new} : p[1] >= o[1] /\ Pause(f, p)'
        <5>1. PICK p \in all : p[1] >= o[1] /\ p[1] + DedupeTicks < time /\ ~Follows(f, p)
              BY <1>4, <4>2
        <5>2. p[1] \in Nat BY <1>7
        <5>3. \A q \in all : ~(p[1] < q[1] /\ q[1] <= p[1] + DedupeTicks)
              BY <5>1 DEF Follows, all
        <5>4. ~Follows(f, p)' BY <1>0, <1>1, <3>1, <5>1, <5>2, <5>3 DEF Follows
        <5> QED BY <3>1, <5>1, <5>4 DEF Pause
      <4> QED BY <4>1, <4>2
    <3>3. /\ IsFiniteSet(captured'[f]) /\ aggregate'[f].recent \subseteq captured'[f]
          /\ aggregate'[f].last <= time'
          /\ Cardinality(captured'[f]) = Cardinality(all) + 1
      <4>1. IsFiniteSet(captured'[f]) /\ Cardinality(captured'[f]) = Cardinality(all) + 1
            BY Zenon, <1>2, <3>1
      <4>2. aggregate'[f].recent \subseteq captured'[f] BY <1>3, <3>1
      <4>3. aggregate'[f].last <= time' BY <1>0, <1>6, <3>1
      <4> QED BY <4>1, <4>2, <4>3
    <3>4. \A o \in captured'[f] :
            /\ o[1] <= aggregate'[f].last /\ o[2] <= Cardinality(captured'[f])
            /\ o \notin aggregate'[f].recent =>
                 \E p \in captured'[f] : p[1] >= o[1] /\ Pause(f, p)'
          BY <3>1, <3>2, <3>3
    <3>5. \E o \in captured'[f] : o[1] = aggregate'[f].last BY <1>1, <3>1
    <3> QED BY <2>1, <3>1, <3>3, <3>4, <3>5 DEF OccurrencesKept
  <2>2. CASE g # f BY <1>6, <1>9, <2>2 DEF ErrorsInv, OccurrencesKept, Pause, Follows
  <2> QED BY <2>1, <2>2
<1> QED BY <1>0, <1>1, <1>6, <1>8, <1>10 DEF ErrorsInv, ErrorsTypeOK, all

(* The occurrences within the window of the rules that no pause separates  *)
(* from now are in the aggregated error.                                   *)
LEMMA WindowIsKept ==
  ASSUME ErrorsInv, NEW f \in Fingerprints
  PROVE  InWindow(Aggregated(f).recent) >= InWindow(Linked(f)) + 1
         /\ InWindow(Linked(f)) \in Nat /\ InWindow(Aggregated(f).recent) \in Nat
<1> USE ErrorTrackingAssumption DEF ErrorTrackingAssumption
<1> DEFINE old == IF Known(f) THEN aggregate[f] ELSE NoAggregate
           new == Occurrence(f)
           all == Linked(f)
           Within(S) == {o \in S : time - o[1] <= WindowTicks}
<1>0. /\ time \in Nat /\ aggregate[f] \in AggregateRec /\ captured[f] \in SUBSET (Nat \X Nat)
      /\ OccurrencesKept(f) /\ all \subseteq captured[f]
      BY DEF ErrorsInv, ErrorsTypeOK, Linked
<1>1. /\ new \in Nat \X Nat /\ new \notin all /\ new[1] = time
      BY <1>0, OccurrenceIsNew
<1>2. old.recent \subseteq captured[f] /\ Aggregated(f).recent = old.recent \cup {new}
      BY <1>0 DEF NoAggregate, OccurrencesKept, Aggregated
<1>3. ASSUME NEW o \in all PROVE o \in old.recent
  <2>1. SUFFICES ASSUME o \notin old.recent PROVE FALSE OBVIOUS
  <2>2. PICK p \in captured[f] : p[1] >= o[1] /\ p[1] + DedupeTicks < time /\ ~Follows(f, p)
        BY <1>0, <2>1, PauseBefore
  <2> QED BY <2>2 DEF Linked
<1>4. IsFiniteSet(captured[f]) /\ IsFiniteSet(all) /\ IsFiniteSet(Within(all))
      BY <1>0, FS_Subset DEF OccurrencesKept
<1>5. new \notin Within(all) BY <1>1
<1>6. /\ IsFiniteSet(Within(all) \cup {new})
      /\ Cardinality(Within(all) \cup {new}) = Cardinality(Within(all)) + 1
      BY <1>4, <1>5, FS_AddElement
<1>7. Within(all) \cup {new} \subseteq Within(old.recent \cup {new})
      BY <1>0, <1>1, <1>3
<1>r. IsFiniteSet(old.recent) BY <1>2, <1>4, FS_Subset
<1>8. IsFiniteSet(old.recent \cup {new}) BY <1>r, FS_AddElement
<1>9. IsFiniteSet(Within(old.recent \cup {new})) BY <1>8, FS_Subset
<1>10. Cardinality(Within(all) \cup {new}) <= Cardinality(Within(old.recent \cup {new}))
      BY <1>7, <1>9, FS_Subset
<1>11. Cardinality(Within(all)) \in Nat /\ Cardinality(Within(old.recent \cup {new})) \in Nat
      BY <1>4, <1>9, FS_CardinalityType
<1> QED BY <1>2, <1>6, <1>10, <1>11 DEF InWindow

(* recordIncident refreshes the open incident of the rule, or opens one    *)
(* when there is none.                                                     *)
LEMMA RecordOpens ==
  ASSUME ErrorsInv, NEW f \in Fingerprints, NEW r \in Nat, NEW count \in Nat,
         RecordIncident(f, r, count)
  PROVE  /\ incident' \in [Incidents -> IncidentRec] /\ OneOpenIncident'
         /\ \E i \in Incidents : IsOpen(i)' /\ incident'[i].of = f
<1>0. incident \in [Incidents -> IncidentRec] /\ OneOpenIncident
      BY DEF ErrorsInv, ErrorsTypeOK
<1>1. ASSUME NEW i \in OpenOf(f, r), incident' = [incident EXCEPT ![i].count = count]
      PROVE  /\ incident' \in [Incidents -> IncidentRec] /\ OneOpenIncident'
             /\ \E j \in Incidents : IsOpen(j)' /\ incident'[j].of = f
  <2>1. i \in Incidents /\ IsOpen(i) /\ incident[i].of = f BY DEF OpenOf
  <2>2. PICK d : d = [incident[i] EXCEPT !.count = count] OBVIOUS
  <2>3. incident' = [incident EXCEPT ![i] = d] BY <1>0, <1>1, <2>2
  <2>4. /\ d \in IncidentRec /\ d.of = incident[i].of /\ d.rule = incident[i].rule
        /\ d.status = incident[i].status /\ d.reopened = incident[i].reopened
        BY <1>0, <2>1, <2>2 DEF IncidentRec
  <2>5. \A j \in Incidents : incident'[j] = IF j = i THEN d ELSE incident[j] BY <1>0, <2>3
  <2>6. OneOpenIncident' BY <1>0, <2>4, <2>5 DEF OneOpenIncident, IsOpen
  <2>7. IsOpen(i)' /\ incident'[i].of = f BY <2>1, <2>4, <2>5 DEF IsOpen
  <2> QED BY <1>0, <2>1, <2>3, <2>4, <2>6, <2>7
<1>2. ASSUME OpenOf(f, r) = {}, NEW i \in Incidents, incident[i] = NoIncident,
             incident' = [incident EXCEPT ![i] =
               [of |-> f, rule |-> r, status |-> "OPEN", count |-> count, reopened |-> FALSE]]
      PROVE  /\ incident' \in [Incidents -> IncidentRec] /\ OneOpenIncident'
             /\ \E j \in Incidents : IsOpen(j)' /\ incident'[j].of = f
  <2>1. PICK d : d = [of |-> f, rule |-> r, status |-> "OPEN", count |-> count, reopened |-> FALSE]
        OBVIOUS
  <2>2. d \in IncidentRec /\ d.of = f /\ d.rule = r /\ d.status = "OPEN"
        BY <2>1 DEF IncidentRec, Lifecycle
  <2>3. \A j \in Incidents : incident'[j] = IF j = i THEN d ELSE incident[j] BY <1>0, <1>2, <2>1
  <2>4. \A j \in Incidents : IsOpen(j) => ~(incident[j].of = f /\ incident[j].rule = r)
        BY <1>2 DEF OpenOf
  <2>5. OneOpenIncident' BY <1>0, <2>2, <2>3, <2>4 DEF OneOpenIncident, IsOpen
  <2>6. IsOpen(i)' /\ incident'[i].of = f BY <2>2, <2>3 DEF IsOpen
  <2> QED BY <1>0, <1>2, <2>1, <2>2, <2>5, <2>6
<1> QED BY <1>1, <1>2 DEF RecordIncident

LEMMA CaptureKeeps ==
  ASSUME ErrorsInv, NEW f \in Fingerprints, Capture(f)
  PROVE  /\ ErrorsInv'
         /\ Matching(f, Aggregated(f)) # {} =>
              \E i \in Incidents : IsOpen(i)' /\ incident'[i].of = f
<1>1. /\ aggregate' \in [Fingerprints -> AggregateRec]
      /\ captured' \in [Fingerprints -> SUBSET (Nat \X Nat)]
      /\ Aggregated(f).count \in Nat
      /\ \A g \in Fingerprints : OccurrencesKept(g)'
      BY CaptureCounts DEF AggregateRec
<1>2. CASE Matching(f, Aggregated(f)) = {}
  <2>1. UNCHANGED <<incident, time>> BY <1>2 DEF Capture
  <2> QED BY <1>1, <1>2, <2>1 DEF ErrorsInv, ErrorsTypeOK, OneOpenIncident, IsOpen
<1>3. CASE Matching(f, Aggregated(f)) # {}
  <2>1. Matching(f, Aggregated(f)) \in SUBSET Nat BY RulesTypeOK DEF Matching
  <2>2. Min(Matching(f, Aggregated(f))) \in Nat BY <1>3, <2>1, Least
  <2>3. RecordIncident(f, Min(Matching(f, Aggregated(f))), Aggregated(f).count) /\ time' = time
        BY <1>3 DEF Capture
  <2>4. /\ incident' \in [Incidents -> IncidentRec] /\ OneOpenIncident'
        /\ \E i \in Incidents : IsOpen(i)' /\ incident'[i].of = f
        BY <1>1, <2>2, <2>3, RecordOpens
  <2> QED BY <1>1, <2>3, <2>4 DEF ErrorsInv, ErrorsTypeOK
<1> QED BY <1>2, <1>3

LEMMA StatusUpdateKeeps ==
  ASSUME ErrorsInv, NEW i \in Incidents, NEW to \in Lifecycle, UpdateIncidentStatus(i, to)
  PROVE  ErrorsInv'
<1>0. incident \in [Incidents -> IncidentRec] /\ OneOpenIncident
      BY DEF ErrorsInv, ErrorsTypeOK
<1>1. PICK again \in BOOLEAN : again = (incident[i].reopened \/
        (~IsOpen(i) /\ to \notin {"RESOLVED", "CLOSED"}))
      OBVIOUS
<1>2. PICK d : d = [incident[i] EXCEPT !.status = to, !.reopened = again] OBVIOUS
<1>3. incident' = [incident EXCEPT ![i] = d] BY <1>0, <1>1, <1>2 DEF UpdateIncidentStatus, IncidentRec
<1>4. /\ d \in IncidentRec /\ d.of = incident[i].of /\ d.rule = incident[i].rule
      /\ d.status = to /\ d.reopened = again
      BY <1>0, <1>2 DEF IncidentRec
<1>5. \A j \in Incidents : incident'[j] = IF j = i THEN d ELSE incident[j] BY <1>0, <1>3
<1>6. \A j \in Incidents :
        /\ incident'[j].of = incident[j].of /\ incident'[j].rule = incident[j].rule
        /\ IsOpen(j)' /\ ~incident'[j].reopened => IsOpen(j) /\ ~incident[j].reopened
        /\ IsOpen(j)' => IsOpen(j) \/ incident'[j].reopened
      BY <1>1, <1>4, <1>5 DEF IsOpen, Lifecycle
<1>7. OneOpenIncident' BY <1>0, <1>6 DEF OneOpenIncident
<1>8. incident' \in [Incidents -> IncidentRec] BY <1>0, <1>3, <1>4
<1> QED BY <1>7, <1>8 DEF UpdateIncidentStatus, ErrorsInv, ErrorsTypeOK, OccurrencesKept,
        Pause, Follows

LEMMA ErrorsStep == ErrorsInv /\ [ErrorsNext]_errorVars => ErrorsInv'
<1> SUFFICES ASSUME ErrorsInv, [ErrorsNext]_errorVars PROVE ErrorsInv' OBVIOUS
<1>1. CASE UNCHANGED errorVars
      BY <1>1 DEF errorVars, ErrorsInv, ErrorsTypeOK, OccurrencesKept, Pause, Follows,
             OneOpenIncident, IsOpen
<1>2. CASE PassTime
  <2>1. time' \in Nat /\ time <= time' /\ UNCHANGED <<aggregate, captured, incident>>
        BY <1>2 DEF PassTime, ErrorsInv, ErrorsTypeOK
  <2>2. ASSUME NEW f \in Fingerprints PROVE OccurrencesKept(f)'
    <3>1. aggregate[f].last \in Nat /\ time \in Nat BY DEF ErrorsInv, ErrorsTypeOK, AggregateRec
    <3> QED BY <2>1, <3>1 DEF ErrorsInv, OccurrencesKept, Pause, Follows
  <2> QED BY <2>1, <2>2 DEF ErrorsInv, ErrorsTypeOK, OneOpenIncident, IsOpen
<1> QED BY <1>1, <1>2, CaptureKeeps, StatusUpdateKeeps DEF ErrorsNext

LEMMA ErrorsInitially == ErrorsInit => ErrorsInv
<1> SUFFICES ASSUME ErrorsInit PROVE ErrorsInv OBVIOUS
<1>1. NoAggregate \in AggregateRec /\ NoIncident \in IncidentRec
      BY DEF NoAggregate, AggregateRec, NoIncident, IncidentRec
<1>2. IsFiniteSet({}) BY FS_EmptySet
<1> QED BY <1>1, <1>2 DEF ErrorsInit, ErrorsInv, ErrorsTypeOK, OccurrencesKept, OneOpenIncident,
        IsOpen, NoAggregate, NoIncident

LEMMA ErrorsInvariance == ErrorsSpec => []ErrorsInv
BY ErrorsInitially, ErrorsStep, PTL DEF ErrorsSpec

(* A fingerprint has one open incident of a rule unless operators reopen   *)
(* one: recordIncident finds it whatever its status was set to.            *)
THEOREM IncidentsAreOpenedOnce == ErrorsSpec => []OneOpenIncident
<1>1. ErrorsInv => OneOpenIncident BY DEF ErrorsInv
<1> QED BY <1>1, ErrorsInvariance, PTL

(* The capture that makes the errors of a fingerprint enough for a rule    *)
(* leaves an incident of theirs open: those of the window no pause         *)
(* separates from it are all in the aggregated error.                      *)
THEOREM BurstsOpenIncidents == ErrorsSpec => BurstOpensIncident
<1> DEFINE Enough(f, r) == Applies(Rules[r], f, Shape[f].severity)
                           /\ InWindow(Linked(f)) + 1 >= Rules[r].times
           A == \A f \in Fingerprints : captured'[f] # captured[f] =>
                  \A r \in DOMAIN Rules : Enough(f, r) =>
                    \E i \in Incidents : IsOpen(i)' /\ incident'[i].of = f
<1>1. ErrorsInv /\ [ErrorsNext]_errorVars => [A]_errorVars
  <2> SUFFICES ASSUME ErrorsInv, ErrorsNext, NEW f \in Fingerprints, captured'[f] # captured[f],
                      NEW r \in DOMAIN Rules, Enough(f, r)
               PROVE  \E i \in Incidents : IsOpen(i)' /\ incident'[i].of = f
      OBVIOUS
  <2>1. PICK g \in Fingerprints : Capture(g)
        BY DEF ErrorsNext, UpdateIncidentStatus, PassTime
  <2>2. g = f BY <2>1 DEF Capture, ErrorsInv, ErrorsTypeOK
  <2>3. Aggregated(f).count \in Nat BY <2>1, <2>2, CaptureCounts DEF AggregateRec
  <2>4. /\ Severity(f, Aggregated(f).count) \in Nat
        /\ Severity(f, Aggregated(f).count) >= Shape[f].severity
        BY <2>3, SeverityRises
  <2>5. Shape[f].severity \in 0..4 BY ErrorTrackingAssumption DEF ErrorTrackingAssumption, Severities
  <2>6. Rules[r].times \in Nat /\ Rules[r].least \in Nat BY RulesTypeOK
  <2>7. Applies(Rules[r], f, Severity(f, Aggregated(f).count))
        BY <2>4, <2>5, <2>6 DEF Applies
  <2>8. InWindow(Aggregated(f).recent) >= Rules[r].times BY <2>6, WindowIsKept
  <2>9. r \in Matching(f, Aggregated(f)) BY <2>7, <2>8 DEF Matching
  <2> QED BY <2>1, <2>2, <2>9, CaptureKeeps
<1> QED BY <1>1, ErrorsInvariance, PTL DEF ErrorsSpec, BurstOpensIncident

-----------------------------------------------------------------------------
(* Feature flags.  A call that writes read a flag that exists; while calls *)
(* do not overlap, it is the only one and what it read is what is stored.  *)
StoreOK ==
  /\ flag \in [Environments -> Record]
  /\ \A e \in Environments : /\ flag[e].version = 0 => flag[e] = NoFlag
                             /\ Exists(e) => flag[e].stage \in Stages
CacheOK ==
  /\ cache \in Cached
  /\ ~overlap /\ cache.stage = "REMOVED" => flag[Production].stage = "REMOVED" /\ Exists(Production)
FlagCallOK(r) ==
  /\ r.pc \in {"update", "read", "write", "save"} => Exists(r.env)
  /\ r.pc \in {"write", "save"} => r.copy.version > 0 /\ r.copy.stage \in Stages
  /\ r.pc = "lifecycle" => r.stage \in {"DEPRECATED", "PRODUCTION"}
  /\ r.pc = "load" => r.stage \in Stages
  /\ ~overlap =>
       /\ r.pc = "create" => ~Exists(r.env)
       /\ r.pc \in {"write", "save"} => r.copy = flag[r.env]
       /\ r.pc = "lifecycle" => r.stage \in Transitions[flag[Production].stage]
       /\ r.pc = "load" => r.stage = flag[Production].stage /\ Exists(Production)
FlagInv ==
  /\ StoreOK /\ CacheOK /\ overlap \in BOOLEAN
  /\ req \in [Requests -> Request]
  /\ \A q \in Requests : FlagCallOK(req[q])
  /\ ~overlap => \A p, q \in Requests : ~At(p, "idle") /\ ~At(q, "idle") => p = q

-----------------------------------------------------------------------------
LEMMA TransitionTable ==
  /\ Stages = {"DRAFT", "DEVELOPMENT", "BETA", "INTERNAL", "PRODUCTION", "DEPRECATED",
               "SCHEDULED_REMOVAL", "REMOVED"}
  /\ \A s \in Stages : s = "REMOVED" \/ "REMOVED" \in Transitions[s]
  /\ Transitions["REMOVED"] = {}
<1>1. Stages = {"DRAFT", "DEVELOPMENT", "BETA", "INTERNAL", "PRODUCTION", "DEPRECATED",
                "SCHEDULED_REMOVAL", "REMOVED"}
      BY DEF Stages, Transitions
<1>2. \A s \in Stages : s = "REMOVED" \/ "REMOVED" \in Transitions[s] BY <1>1 DEF Transitions
<1>3. Transitions["REMOVED"] = {} BY DEF Transitions
<1> QED BY <1>1, <1>2, <1>3

(* A step of call q, after which it carries l. *)
LEMMA CallGoesOn ==
  ASSUME FlagInv, NEW q \in Requests, NEW l \in Request, Goto(q, l), overlap' = overlap,
         StoreOK', CacheOK', FlagCallOK(l)',
         \A e \in Environments : Exists(e) => Exists(e)',
         ~overlap => \A p \in Requests : p # q => At(p, "idle")
  PROVE  FlagInv'
<1>1. \A p \in Requests : req'[p] = IF p = q THEN l ELSE req[p] BY DEF FlagInv, Goto
<1>2. req' \in [Requests -> Request] BY DEF FlagInv, Goto
<1>3. ASSUME NEW p \in Requests PROVE FlagCallOK(req[p])'
  <2>1. CASE p = q
    <3>1. req'[p] = l BY <1>1, <2>1
    <3> QED BY <3>1 DEF FlagCallOK
  <2>2. CASE p # q
    <3>1. PICK r : r = req[p] OBVIOUS
    <3>2. req'[p] = r /\ FlagCallOK(r) /\ r.env \in Environments /\ (~overlap => r.pc = "idle")
          BY <1>1, <2>2, <3>1 DEF FlagInv, Request, At
    <3>3. Exists(r.env) => Exists(r.env)' BY <3>2
    <3> QED BY <3>2, <3>3 DEF FlagCallOK
  <2> QED BY <2>1, <2>2
<1>4. ~overlap => \A p \in Requests : p # q => At(p, "idle")' BY <1>1 DEF At
<1> QED BY <1>2, <1>3, <1>4 DEF FlagInv

LEMMA IdleCall == Idle \in Request /\ Idle.pc = "idle" /\ Idle.env = Production
BY FeatureFlagsAssumption DEF FeatureFlagsAssumption, Idle, Request, NoFlag, Record

(* A call that has started and reads, or ends, and stores nothing. *)
LEMMA CallReads ==
  ASSUME FlagInv, NEW q \in Requests, NEW l \in Request, Goto(q, l), UNCHANGED <<flag, overlap>>,
         CacheOK', FlagCallOK(l), Starts(q) \/ ~At(q, "idle")
  PROVE  FlagInv'
<1>1. StoreOK' BY DEF FlagInv, StoreOK, Exists
<1>2. FlagCallOK(l)' BY DEF FlagCallOK, Exists
<1>3. ~overlap => \A p \in Requests : p # q => At(p, "idle") BY DEF FlagInv, Starts
<1> QED BY <1>1, <1>2, <1>3, CallGoesOn DEF Exists

LEMMA StartKeeps == ASSUME FlagInv, NEW q \in Requests, Call(q) PROVE FlagInv'
<1> USE FeatureFlagsAssumption DEF FeatureFlagsAssumption
<1>c. UNCHANGED <<flag, cache, overlap>> /\ CacheOK'
      BY DEF Call, CreateFeature, SetState, MutateFeature, MoveFeature, ListFlags, FlagInv, CacheOK, Exists
<1>f. \A e \in Environments : flag[e] \in Record /\ (Exists(e) => flag[e].stage \in Stages)
      BY DEF FlagInv, StoreOK
<1>n. NoFlag \in Record BY DEF NoFlag, Record
<1>1. ASSUME NEW e \in Environments, NEW b \in BOOLEAN, CreateFeature(q, e, b) PROVE FlagInv'
  <2>1. PICK l : l = [Idle EXCEPT !.pc = "create", !.env = e, !.state = b] OBVIOUS
  <2>a. l = [pc |-> "create", env |-> e, copy |-> NoFlag, stage |-> "NONE",
               state |-> b, attempt |-> 0]
        BY <2>1 DEF Idle
  <2>2. l \in Request /\ l.pc = "create" /\ l.env = e
        BY <1>n, <2>a DEF Request
  <2> QED BY <1>1, <1>c, <2>1, <2>2, CallReads DEF CreateFeature, FlagCallOK
<1>2. ASSUME NEW e \in Environments, NEW b \in BOOLEAN, SetState(q, e, b) PROVE FlagInv'
  <2>1. PICK l : l = [Idle EXCEPT !.pc = "update", !.env = e, !.state = b] OBVIOUS
  <2>a. l = [pc |-> "update", env |-> e, copy |-> NoFlag, stage |-> "NONE",
               state |-> b, attempt |-> 0]
        BY <2>1 DEF Idle
  <2>2. l \in Request /\ l.pc = "update" /\ l.env = e
        BY <1>n, <2>a DEF Request
  <2> QED BY <1>2, <1>c, <2>1, <2>2, CallReads DEF SetState, FlagCallOK
<1>3. ASSUME NEW e \in Environments, NEW b \in BOOLEAN, MutateFeature(q, e, b) PROVE FlagInv'
  <2>1. PICK l : l = [Idle EXCEPT !.pc = "save", !.env = e, !.state = b, !.copy = flag[e]] OBVIOUS
  <2>a. l = [pc |-> "save", env |-> e, copy |-> flag[e], stage |-> "NONE",
               state |-> b, attempt |-> 0]
        BY <2>1 DEF Idle
  <2>2. l \in Request /\ l.pc = "save" /\ l.env = e /\ l.copy = flag[e]
        BY <1>f, <2>a DEF Request
  <2> QED BY <1>3, <1>c, <1>f, <2>1, <2>2, CallReads DEF MutateFeature, FlagCallOK, Exists
<1>4. ASSUME NEW stage \in {"DEPRECATED", "PRODUCTION"}, MoveFeature(q, stage) PROVE FlagInv'
  <2>1. PICK l : l = [Idle EXCEPT !.pc = "lifecycle", !.stage = stage] OBVIOUS
  <2>a. l = [pc |-> "lifecycle", env |-> Production, copy |-> NoFlag, stage |-> stage,
               state |-> FALSE, attempt |-> 0]
        BY <2>1 DEF Idle
  <2>2. l \in Request /\ l.pc = "lifecycle" /\ l.stage = stage
        BY <1>n, TransitionTable, <2>a DEF Request
  <2> QED BY <1>4, <1>c, <2>1, <2>2, CallReads DEF MoveFeature, FlagCallOK
<1>5. CASE ListFlags(q)
  <2>1. PICK l : l = [Idle EXCEPT !.pc = "load", !.state = flag[Production].state,
                                  !.stage = flag[Production].stage]
        OBVIOUS
  <2>2. flag[Production].state \in BOOLEAN /\ flag[Production].stage \in Stages
        BY <1>5, <1>f DEF ListFlags, Record
  <2>a. l = [pc |-> "load", env |-> Production, copy |-> NoFlag, stage |-> flag[Production].stage,
               state |-> flag[Production].state, attempt |-> 0]
        BY <2>1 DEF Idle
  <2>3. l \in Request /\ l.pc = "load" /\ l.stage = flag[Production].stage
        BY <1>n, <2>2, <2>a DEF Request
  <2> QED BY <1>5, <1>c, <2>1, <2>2, <2>3, CallReads DEF ListFlags, FlagCallOK
<1> QED BY <1>1, <1>2, <1>3, <1>4, <1>5 DEF Call

(* A record is stored, and call q returns. *)
LEMMA RecordStored ==
  ASSUME FlagInv, NEW q \in Requests, ~At(q, "idle"), NEW e \in Environments, NEW r \in Record,
         r.version > 0, r.stage \in Stages,
         ~overlap => ~Exists(e) \/ r.stage = flag[e].stage,
         flag' = [flag EXCEPT ![e] = r], UNCHANGED <<cache, overlap>>, Return(q)
  PROVE  FlagInv'
<1> USE FeatureFlagsAssumption DEF FeatureFlagsAssumption
<1>1. \A d \in Environments : flag'[d] = IF d = e THEN r ELSE flag[d] BY DEF FlagInv, StoreOK
<1>2. flag' \in [Environments -> Record] BY DEF FlagInv, StoreOK
<1>3. StoreOK' BY <1>1, <1>2 DEF FlagInv, StoreOK, Exists
<1>4. \A d \in Environments : Exists(d) => Exists(d)' BY <1>1 DEF Exists
<1>5. CacheOK' BY <1>1, <1>4 DEF FlagInv, CacheOK
<1>6. FlagCallOK(Idle)' BY IdleCall DEF FlagCallOK
<1>7. ~overlap => \A p \in Requests : p # q => At(p, "idle") BY DEF FlagInv
<1> QED BY <1>3, <1>4, <1>5, <1>6, <1>7, IdleCall, CallGoesOn DEF Return

(* updateLifecycle sets a stage in every environment that has the flag. *)
LEMMA LifecycleStored ==
  ASSUME FlagInv, NEW stage \in Stages, UpdateLifecycle(stage), UNCHANGED <<cache, overlap>>,
         ~overlap => stage = "REMOVED" \/ stage \in Transitions[flag[Production].stage]
  PROVE  /\ StoreOK' /\ CacheOK'
         /\ \A e \in Environments : Exists(e) => Exists(e)' /\ flag'[e].version > flag[e].version
                                                 /\ flag'[e].stage = stage
         /\ \A e \in Environments : ~Exists(e) => flag'[e] = flag[e]
<1> USE FeatureFlagsAssumption DEF FeatureFlagsAssumption
<1>1. \A e \in Environments :
        /\ flag[e] \in Record /\ flag[e].version \in 0..MaxVersion /\ flag[e].version < MaxVersion
        /\ (flag[e].version = 0 => flag[e] = NoFlag)
      BY DEF FlagInv, StoreOK, Record, UpdateLifecycle, CanGrow
<1>2. \A e \in Environments :
        flag'[e] = IF Exists(e) THEN [flag[e] EXCEPT !.stage = stage, !.version = @ + 1] ELSE flag[e]
      BY DEF UpdateLifecycle
<1>3. ASSUME NEW e \in Environments, Exists(e)
      PROVE  flag'[e] \in Record /\ flag'[e].version = flag[e].version + 1 /\ flag'[e].stage = stage
  <2>1. PICK r : r = flag[e] OBVIOUS
  <2>2. flag'[e] = [state |-> r.state, stage |-> stage, version |-> r.version + 1]
        BY <1>1, <1>2, <1>3, <2>1 DEF Record
  <2>3. r.state \in BOOLEAN /\ r.version + 1 \in 0..MaxVersion BY <1>1, <2>1 DEF Record
  <2> QED BY <2>1, <2>2, <2>3 DEF Record
<1>4. \A e \in Environments : ~Exists(e) => flag'[e] = flag[e] BY <1>2
<1>5. flag' \in [Environments -> Record]
  <2>1. \A e \in Environments : flag'[e] \in Record BY <1>1, <1>3, <1>4
  <2>2. flag' = [e \in Environments |->
           IF Exists(e) THEN [flag[e] EXCEPT !.stage = stage, !.version = @ + 1] ELSE flag[e]]
        BY DEF UpdateLifecycle
  <2> QED BY <1>2, <2>1, <2>2
<1>6. \A e \in Environments : Exists(e) => Exists(e)' /\ flag'[e].version > flag[e].version
      BY <1>1, <1>3 DEF Exists
<1>7. \A e \in Environments : Exists(e)' => Exists(e) BY <1>4 DEF Exists
<1>8. StoreOK'
  <2>1. ASSUME NEW e \in Environments
        PROVE  /\ flag'[e].version = 0 => flag'[e] = NoFlag
               /\ Exists(e)' => flag'[e].stage \in Stages
    <3>1. CASE Exists(e) BY <1>1, <1>3, <3>1
    <3>2. CASE ~Exists(e) BY <1>1, <1>4, <1>7, <3>2
    <3> QED BY <3>1, <3>2
  <2> QED BY <1>5, <2>1 DEF StoreOK
<1>9. CacheOK'
  <2>1. ~overlap /\ flag[Production].stage = "REMOVED" => stage = "REMOVED" BY TransitionTable
  <2> QED BY <1>3, <1>6, <2>1 DEF FlagInv, CacheOK
<1> QED BY <1>3, <1>4, <1>6, <1>8, <1>9

LEMMA ProceedKeeps == ASSUME FlagInv, NEW q \in Requests, Proceed(q) PROVE FlagInv'
<1> USE FeatureFlagsAssumption DEF FeatureFlagsAssumption
<1>0. PICK r : r = req[q] OBVIOUS
<1>1. /\ r \in Request /\ FlagCallOK(r) /\ StoreOK /\ CacheOK
      /\ r.env \in Environments /\ r.copy \in Record /\ r.state \in BOOLEAN
      /\ r.stage \in Stages \cup {"NONE"} /\ r.attempt \in 0..MaxRetries
      BY <1>0 DEF FlagInv, Request
<1>2. ~At(q, "idle")
      BY DEF Proceed, SaveNew, UpdateState, WriteState, StoreStage, SaveMutated, ReadAgain,
             RebuildL1Cache, At
<1>3. UNCHANGED <<flag, cache, overlap>> => CacheOK' BY <1>1 DEF CacheOK, Exists
<1>4. FlagCallOK(Idle) BY IdleCall DEF FlagCallOK
<1>5. CASE SaveNew(q)
  <2>1. PICK d : d = [state |-> r.state, stage |-> "DRAFT", version |-> 1] OBVIOUS
  <2>2. d \in Record /\ d.version > 0 /\ d.stage \in Stages
        BY <1>1, <2>1, TransitionTable DEF Record
  <2>3. UNCHANGED <<cache, overlap>> /\ Return(q) /\ r.pc = "create" BY <1>0, <1>5 DEF SaveNew, At
  <2>4. CASE flag' = [flag EXCEPT ![r.env] = d]
    <3>1. ~overlap => ~Exists(r.env) BY <1>1, <2>3 DEF FlagCallOK
    <3> QED BY <1>1, <1>2, <2>2, <2>3, <2>4, <3>1, RecordStored
  <2>5. CASE flag' = flag BY <1>2, <1>3, <1>4, <2>3, <2>5, IdleCall, CallReads DEF Return
  <2> QED BY <1>0, <1>5, <2>1, <2>4, <2>5 DEF SaveNew
<1>6. CASE UpdateState(q)
  <2>1. PICK l : l = [r EXCEPT !.pc = "write", !.copy = flag[r.env]] OBVIOUS
  <2>2. r.pc = "update" /\ Exists(r.env) BY <1>0, <1>1, <1>6 DEF UpdateState, At, FlagCallOK
  <2>3. flag[r.env] \in Record /\ flag[r.env].stage \in Stages
        BY <1>1, <2>2 DEF StoreOK
  <2>4. l \in Request /\ l.pc = "write" /\ l.env = r.env /\ l.copy = flag[r.env]
        BY <1>1, <2>1, <2>3 DEF Request
  <2>5. FlagCallOK(l) BY <2>2, <2>3, <2>4 DEF FlagCallOK, Exists
  <2> QED BY <1>0, <1>2, <1>3, <1>6, <2>1, <2>4, <2>5, CallReads DEF UpdateState
<1>7. CASE WriteState(q)
  <2>1. PICK d : d = [r.copy EXCEPT !.state = r.state, !.version = r.copy.version + 1] OBVIOUS
  <2>2. /\ r.pc = "write" /\ CanGrow(r.copy) /\ UNCHANGED <<cache, overlap>> /\ Return(q)
        /\ flag' = [flag EXCEPT ![r.env] = d]
        BY <1>0, <1>1, <1>7, <2>1 DEF WriteState, At, Record
  <2>a. d = [state |-> r.state, stage |-> r.copy.stage, version |-> r.copy.version + 1]
        BY <1>1, <2>1 DEF Record
  <2>b. r.copy.version + 1 \in 1..MaxVersion /\ r.copy.stage \in Stages \cup {"NONE"}
        BY <1>1, <2>2 DEF Record, CanGrow
  <2>3. d \in Record /\ d.version > 0 /\ d.stage = r.copy.stage
        BY <1>1, <2>a, <2>b DEF Record
  <2>4. r.copy.stage \in Stages /\ (~overlap => r.copy = flag[r.env])
        BY <1>1, <2>2 DEF FlagCallOK
  <2> QED BY <1>1, <1>2, <2>2, <2>3, <2>4, RecordStored
<1>8. CASE StoreStage(q)
  <2>1. r.pc = "lifecycle" /\ UpdateLifecycle(r.stage) /\ Return(q) /\ UNCHANGED <<cache, overlap>>
        BY <1>0, <1>8 DEF StoreStage, At
  <2>2. r.stage \in Stages /\ (~overlap => r.stage \in Transitions[flag[Production].stage])
        BY <1>1, <2>1, TransitionTable DEF FlagCallOK
  <2>3. StoreOK' /\ CacheOK' /\ \A e \in Environments : Exists(e) => Exists(e)'
        BY <2>1, <2>2, LifecycleStored
  <2>4. FlagCallOK(Idle)' BY IdleCall DEF FlagCallOK
  <2>5. ~overlap => \A p \in Requests : p # q => At(p, "idle") BY <1>2 DEF FlagInv
  <2> QED BY <2>1, <2>3, <2>4, <2>5, IdleCall, CallGoesOn DEF Return
<1>9. CASE SaveMutated(q)
  <2>1. PICK d : d = [r.copy EXCEPT !.state = r.state, !.version = r.copy.version + 1] OBVIOUS
  <2>2. r.pc = "save" /\ CanGrow(r.copy) /\ UNCHANGED <<cache, overlap>>
        BY <1>0, <1>9 DEF SaveMutated, At
  <2>a. d = [state |-> r.state, stage |-> r.copy.stage, version |-> r.copy.version + 1]
        BY <1>1, <2>1 DEF Record
  <2>b. r.copy.version + 1 \in 1..MaxVersion /\ r.copy.stage \in Stages \cup {"NONE"}
        BY <1>1, <2>2 DEF Record, CanGrow
  <2>3. d \in Record /\ d.version > 0 /\ d.stage = r.copy.stage
        BY <1>1, <2>a, <2>b DEF Record
  <2>4. r.copy.stage \in Stages /\ (~overlap => r.copy = flag[r.env]) /\ Exists(r.env)
        BY <1>1, <2>2 DEF FlagCallOK
  <2>5. CASE flag' = [flag EXCEPT ![r.env] = d] /\ Return(q)
        BY <1>1, <1>2, <2>2, <2>3, <2>4, <2>5, RecordStored
  <2>6. CASE UNCHANGED flag /\ Return(q)
        BY <1>2, <1>3, <1>4, <2>2, <2>6, IdleCall, CallReads DEF Return
  <2>7. ASSUME UNCHANGED flag, r.attempt + 1 < MaxRetries,
               Goto(q, [r EXCEPT !.pc = "read", !.attempt = r.attempt + 1])
        PROVE  FlagInv'
    <3>1. PICK l : l = [r EXCEPT !.pc = "read", !.attempt = r.attempt + 1] OBVIOUS
    <3>2. l = [pc |-> "read", env |-> r.env, copy |-> r.copy, stage |-> r.stage,
               state |-> r.state, attempt |-> r.attempt + 1]
          BY <1>1, <3>1 DEF Request
    <3>3. r.attempt + 1 \in 0..MaxRetries BY <1>1, <2>7
    <3>4. l \in Request /\ l.pc = "read" /\ l.env = r.env BY <1>1, <3>2, <3>3 DEF Request
    <3> QED BY <1>2, <1>3, <2>2, <2>4, <2>7, <3>1, <3>4, CallReads DEF FlagCallOK
  <2> QED BY <1>0, <1>1, <1>9, <2>1, <2>5, <2>6, <2>7 DEF SaveMutated, Record, Request
<1>10. CASE ReadAgain(q)
  <2>1. PICK l : l = [r EXCEPT !.pc = "save", !.copy = flag[r.env]] OBVIOUS
  <2>2. r.pc = "read" /\ Exists(r.env) BY <1>0, <1>1, <1>10 DEF ReadAgain, At, FlagCallOK
  <2>3. flag[r.env] \in Record /\ flag[r.env].stage \in Stages BY <1>1, <2>2 DEF StoreOK
  <2>4. l \in Request /\ l.pc = "save" /\ l.env = r.env /\ l.copy = flag[r.env]
        BY <1>1, <2>1, <2>3 DEF Request
  <2>5. FlagCallOK(l) BY <2>2, <2>3, <2>4 DEF FlagCallOK, Exists
  <2> QED BY <1>0, <1>2, <1>3, <1>10, <2>1, <2>4, <2>5, CallReads DEF ReadAgain
<1>11. CASE RebuildL1Cache(q)
  <2>1. PICK c : c = [state |-> r.state, stage |-> r.stage] OBVIOUS
  <2>2. r.pc = "load" /\ cache' = c /\ Return(q) /\ UNCHANGED <<flag, overlap>>
        BY <1>0, <1>11, <2>1 DEF RebuildL1Cache, At
  <2>3. c \in Cached /\ c.stage = r.stage BY <1>1, <2>1 DEF Cached
  <2>4. CacheOK' BY <1>1, <2>2, <2>3 DEF CacheOK, FlagCallOK, Exists
  <2> QED BY <1>2, <1>4, <2>2, <2>4, IdleCall, CallReads DEF Return
<1> QED BY <1>5, <1>6, <1>7, <1>8, <1>9, <1>10, <1>11 DEF Proceed

LEMMA DeleteKeeps == ASSUME FlagInv, DeleteFeature PROVE FlagInv'
<1>1. UpdateLifecycle("REMOVED") /\ UNCHANGED <<cache, overlap, req>>
      /\ (overlap \/ \A q \in Requests : At(q, "idle"))
      BY DEF DeleteFeature
<1>2. StoreOK' /\ CacheOK' /\ \A e \in Environments : Exists(e) => Exists(e)'
      BY <1>1, TransitionTable, LifecycleStored
<1>3. ASSUME NEW q \in Requests PROVE FlagCallOK(req[q])'
  <2>1. PICK r : r = req[q] OBVIOUS
  <2>2. FlagCallOK(r) /\ r.env \in Environments /\ (~overlap => r.pc = "idle")
        BY <1>1, <2>1 DEF FlagInv, Request, At
  <2>3. FlagCallOK(r)' BY <1>1, <1>2, <2>1, <2>2 DEF FlagCallOK
  <2> QED BY <1>1, <2>1, <2>3 DEF FlagCallOK
<1> QED BY <1>1, <1>2, <1>3 DEF FlagInv, At

LEMMA FlagInitially == Init => FlagInv
<1> SUFFICES ASSUME Init PROVE FlagInv OBVIOUS
<1> USE FeatureFlagsAssumption DEF FeatureFlagsAssumption
<1>1. NoFlag \in Record /\ NoFlag.version = 0 BY DEF NoFlag, Record
<1>2. \A s \in StoredStages : LET r == [state |-> FALSE, stage |-> s, version |-> 1] IN
        r \in Record /\ r.version = 1 /\ r.stage \in Stages
      BY DEF Record
<1>3. \A e \in Environments :
        flag[e] = NoFlag \/ \E s \in StoredStages : flag[e] = [state |-> FALSE, stage |-> s, version |-> 1]
      BY DEF Init
<1>4. flag \in [Environments -> Record] BY <1>1, <1>2 DEF Init
<1>5. StoreOK BY <1>1, <1>2, <1>3, <1>4 DEF StoreOK, Exists
<1>6. CacheOK BY DEF Init, CacheOK, Cached
<1>7. FlagCallOK(Idle) BY IdleCall DEF FlagCallOK
<1> QED BY <1>5, <1>6, <1>7, IdleCall DEF Init, FlagInv, At

LEMMA FlagStep == FlagInv /\ [Next]_vars => FlagInv'
<1> SUFFICES ASSUME FlagInv, [Next]_vars PROVE FlagInv' OBVIOUS
<1>1. CASE UNCHANGED vars
      BY <1>1 DEF vars, FlagInv, StoreOK, CacheOK, FlagCallOK, Exists, At
<1> QED BY <1>1, StartKeeps, ProceedKeeps, DeleteKeeps DEF Next

LEMMA FlagInvariance == Spec => []FlagInv
BY FlagInitially, FlagStep, PTL DEF Spec

-----------------------------------------------------------------------------
(* What a step may do to the record of an environment. *)
LEMMA RecordsMove ==
  ASSUME FlagInv, Next, NEW e \in Environments, flag'[e] # flag[e]
  PROVE  /\ flag'[e].version < flag[e].version =>
              \E q \in Requests : At(q, "write") /\ req[q].env = e /\ req'[q] = Idle
         /\ ~overlap /\ e = Production /\ Exists(e) =>
              flag'[e].stage \in {flag[e].stage} \cup Transitions[flag[e].stage]
<1> USE FeatureFlagsAssumption DEF FeatureFlagsAssumption
<1>0. /\ flag \in [Environments -> Record] /\ flag[e].version \in Nat
      /\ Exists(e) => flag[e].stage \in Stages
      /\ req \in [Requests -> Request]
      BY DEF FlagInv, StoreOK, Record
<1>1. ASSUME NEW stage \in Stages, UpdateLifecycle(stage), UNCHANGED <<cache, overlap>>,
             ~overlap => stage = "REMOVED" \/ stage \in Transitions[flag[Production].stage]
      PROVE  /\ ~(flag'[e].version < flag[e].version)
             /\ ~overlap /\ e = Production /\ Exists(e) =>
                  flag'[e].stage \in {flag[e].stage} \cup Transitions[flag[e].stage]
  <2>1. Exists(e) BY <1>1, LifecycleStored
  <2>2. flag'[e].version > flag[e].version /\ flag'[e].stage = stage /\ StoreOK'
        BY <1>1, <2>1, LifecycleStored
  <2>3. flag'[e].version \in Nat BY <2>2 DEF StoreOK, Record
  <2> QED BY <1>0, <1>1, <2>1, <2>2, <2>3, TransitionTable
<1>2. CASE DeleteFeature BY <1>1, <1>2, TransitionTable DEF DeleteFeature
<1>3. ASSUME NEW q \in Requests, Call(q) \/ Proceed(q), ~DeleteFeature
      PROVE  /\ flag'[e].version < flag[e].version =>
                  At(q, "write") /\ req[q].env = e /\ req'[q] = Idle
             /\ ~overlap /\ e = Production /\ Exists(e) =>
                  flag'[e].stage \in {flag[e].stage} \cup Transitions[flag[e].stage]
  <2>0. PICK r : r = req[q] OBVIOUS
  <2>1. /\ FlagCallOK(r) /\ r.env \in Environments /\ r.copy \in Record
        /\ r.copy.version \in Nat /\ r.stage \in Stages \cup {"NONE"}
        BY <2>0 DEF FlagInv, Request, Record
  <2>2. SaveNew(q) \/ WriteState(q) \/ StoreStage(q) \/ SaveMutated(q)
        BY <1>3 DEF Call, Proceed, CreateFeature, SetState, MutateFeature, MoveFeature, ListFlags,
                    UpdateState, ReadAgain, RebuildL1Cache
  <2>3. CASE SaveNew(q)
    <3>1. r.pc = "create" /\ r.env = e /\ flag'[e].version = 1
          /\ (Exists(e) => 1 \in {flag[e].version, flag[e].version + 1})
          BY <1>0, <2>0, <2>3 DEF SaveNew, At, Acceptable
    <3> QED BY <1>0, <2>1, <3>1 DEF FlagCallOK, Exists
  <2>4. CASE WriteState(q)
    <3>1. r.pc = "write" /\ r.env = e /\ flag'[e].stage = r.copy.stage /\ Return(q)
          BY <1>0, <2>0, <2>1, <2>4 DEF WriteState, At, Record
    <3>2. ~overlap => r.copy = flag[e] BY <2>1, <3>1 DEF FlagCallOK
    <3> QED BY <1>0, <2>0, <3>1, <3>2 DEF At, Return, Goto
  <2>5. CASE StoreStage(q)
    <3>1. r.pc = "lifecycle" /\ UpdateLifecycle(r.stage) /\ UNCHANGED <<cache, overlap>>
          BY <2>0, <2>5 DEF StoreStage, At
    <3>2. r.stage \in Stages /\ (~overlap => r.stage \in Transitions[flag[Production].stage])
          BY <2>1, <3>1, TransitionTable DEF FlagCallOK
    <3> QED BY <1>1, <3>1, <3>2
  <2>6. CASE SaveMutated(q)
    <3>a. PICK d : d = [r.copy EXCEPT !.state = r.state, !.version = r.copy.version + 1] OBVIOUS
    <3>b. d.stage = r.copy.stage BY <2>1, <3>a DEF Record
    <3>c. /\ r.pc = "save"
          /\ flag' # flag => flag' = [flag EXCEPT ![r.env] = d] /\ Acceptable(r.env, d)
          BY <2>0, <2>1, <2>6, <3>a DEF SaveMutated, At, Record
    <3>1. /\ r.pc = "save" /\ r.env = e /\ flag'[e].stage = r.copy.stage
          /\ Exists(e) => flag'[e].version \in {flag[e].version, flag[e].version + 1}
          BY <1>0, <2>1, <3>b, <3>c DEF Acceptable
    <3>2. ~overlap => r.copy = flag[e] BY <2>1, <3>1 DEF FlagCallOK
    <3>3. Exists(e) BY <2>1, <3>1 DEF FlagCallOK
    <3> QED BY <1>0, <3>1, <3>2, <3>3
  <2> QED BY <2>2, <2>3, <2>4, <2>5, <2>6
<1> QED BY <1>2, <1>3 DEF Next

(* What flags, the cache and calls in flight can be, whatever overlaps.    *)
THEOREM FlagsTypeCorrect == Spec => []TypeOK
<1>1. FlagInv => TypeOK BY DEF FlagInv, StoreOK, CacheOK, TypeOK
<1> QED BY <1>1, FlagInvariance, PTL

(* However calls overlap, the optimistic save takes no version back: only  *)
(* updateState, writing an aged copy, does.                                *)
THEOREM OnlyStateWritesAge == Spec => OnlyStateWritesLower
<1> DEFINE A == \A e \in Environments : flag'[e].version < flag[e].version =>
                  \E q \in Requests : At(q, "write") /\ req[q].env = e /\ req'[q] = Idle
<1>1. FlagInv /\ [Next]_vars => [A]_vars
  <2> SUFFICES ASSUME FlagInv, Next, NEW e \in Environments, flag'[e].version < flag[e].version
               PROVE  \E q \in Requests : At(q, "write") /\ req[q].env = e /\ req'[q] = Idle
      OBVIOUS
  <2>1. flag[e].version \in Nat BY DEF FlagInv, StoreOK, Record
  <2>2. flag'[e] # flag[e] BY <2>1
  <2> QED BY <2>2, RecordsMove
<1> QED BY <1>1, FlagInvariance, PTL DEF Spec, OnlyStateWritesLower

(* While calls do not overlap, the stage in production moves along the     *)
(* table of transitions, whichever use case moves it.                      *)
THEOREM ProductionIsLegal == Spec => ProductionFollowsTable
<1> DEFINE A == ~overlap /\ Exists(Production) =>
                  flag'[Production].stage \in {flag[Production].stage}
                                                \cup Transitions[flag[Production].stage]
<1>1. FlagInv /\ [Next]_vars => [A]_vars
  <2>1. ASSUME FlagInv, Next, ~overlap, Exists(Production)
        PROVE  flag'[Production].stage \in {flag[Production].stage}
                                             \cup Transitions[flag[Production].stage]
        BY <2>1, RecordsMove, FeatureFlagsAssumption DEF FeatureFlagsAssumption
  <2> QED BY <2>1
<1> QED BY <1>1, FlagInvariance, PTL DEF Spec, ProductionFollowsTable

(* The policy of the lifecycle stands before all that grant, and they      *)
(* before the rollout and the default state.                               *)
LEMMA RemovedIsOff ==
  ASSUME NEW record, record.stage = "REMOVED", NEW c \in Granted, NEW percentage, NEW bucket
  PROVE  EvaluateFeature(record, c, percentage, bucket) <=> c.stage \notin {"kept"} \cup OffStages
<1> DEFINE chain == Chain(record, c, percentage, bucket)
           matched == {i \in DOMAIN chain : chain[i] # "pass"}
<1>2. /\ c.kill = FALSE /\ c.maintenance = FALSE /\ c.unmet = FALSE
      /\ c.clientOld = FALSE /\ c.disabled = FALSE
      /\ c.pack \in Answers /\ c.template \in Answers /\ c.user \in Answers
      /\ c.role \in Answers /\ c.college \in Answers
      /\ "on" \in {c.pack, c.template, c.user, c.role, c.college}
      BY DEF Granted
<1>3. /\ DOMAIN chain = 1..12
      /\ chain[1] = "pass" /\ chain[2] = "pass" /\ chain[3] = "pass"
      /\ chain[4] = IF StageIn(record, c) \in OffStages THEN "off" ELSE "pass"
      /\ chain[5] = "pass" /\ chain[6] = "pass"
      /\ chain[7] = c.pack /\ chain[8] = c.template /\ chain[9] = c.user
      /\ chain[10] = c.role /\ chain[11] = c.college
      BY <1>2 DEF Chain, OffWhen
<1>4. EvaluateFeature(record, c, percentage, bucket) <=>
        IF matched = {} THEN DefaultIn(record, c) ELSE chain[Min(matched)] = "on"
      BY DEF EvaluateFeature
<1>5. StageIn(record, c) \in OffStages <=> c.stage \in {"kept"} \cup OffStages
      BY DEF StageIn, OffStages
<1> HIDE DEF chain
<1>6. matched \in SUBSET Nat BY <1>3
<1>7. CASE c.stage \in {"kept"} \cup OffStages
  <2>1. chain[4] = "off" /\ 4 \in matched BY <1>3, <1>5, <1>7
  <2>2. Min(matched) \in matched /\ Min(matched) <= 4 BY <1>6, <2>1, Least
  <2>3. Min(matched) = 4 BY <1>3, <2>2
  <2> QED BY <1>4, <1>7, <2>1, <2>3
<1>8. CASE c.stage \notin {"kept"} \cup OffStages
  <2>1. chain[4] = "pass" BY <1>3, <1>5, <1>8
  <2>2. PICK i \in 7..11 : chain[i] = "on" BY <1>2, <1>3
  <2>3. i \in matched BY <1>3, <2>2
  <2>4. Min(matched) \in matched /\ Min(matched) <= i BY <1>6, <2>3, Least
  <2>5. Min(matched) \in 7..11 BY <1>3, <2>1, <2>4
  <2>6. chain[Min(matched)] \in {"pass", "on"} BY <1>2, <1>3, <2>5 DEF Answers
  <2> QED BY <1>4, <1>8, <2>3, <2>4, <2>6
<1> QED BY <1>7, <1>8

(* While calls do not overlap, a flag that was cached as removed is off    *)
(* for every grant, default state and rollout, however often the cache is  *)
(* rebuilt, but for contexts that carry a lifecycle stage of their own.    *)
THEOREM RemovedFlagsStayOff == Spec => RemovedStaysOff
<1> DEFINE A == ~overlap /\ cache.stage = "REMOVED" =>
                  \A c \in Granted, percentage \in Percentages :
                    EvaluateFeature(cache', c, percentage, 0) <=>
                      c.stage \notin {"kept"} \cup OffStages
<1>1. FlagInv /\ [Next]_vars => [A]_vars
  <2> SUFFICES ASSUME FlagInv, Next, ~overlap, cache.stage = "REMOVED" PROVE A OBVIOUS
  <2>1. flag[Production].stage = "REMOVED" BY DEF FlagInv, CacheOK
  <2>2. UNCHANGED cache \/ \E q \in Requests : RebuildL1Cache(q)
        BY DEF Next, Call, Proceed, DeleteFeature, CreateFeature, SetState, MutateFeature, MoveFeature,
               ListFlags, SaveNew, UpdateState, WriteState, StoreStage, SaveMutated, ReadAgain
  <2>3. cache'.stage = "REMOVED"
        BY <2>1, <2>2 DEF RebuildL1Cache, At, FlagInv, FlagCallOK
  <2> QED BY <2>3, RemovedIsOff
<1> QED BY <1>1, FlagInvariance, PTL DEF Spec, RemovedStaysOff
=============================================================================
