------------------------------ MODULE WalArchive ------------------------------
(***************************************************************************)
(* Continuous WAL archiving: the archive_command of PostgreSQL copies a    *)
(* segment into a directory it shares with the forwarder (packages/backup, *)
(* cli.ts, runWalForward), which uploads what it finds there and removes   *)
(* it.  The watcher tells the forwarder of a file when it is created, so   *)
(* that the upload may begin before the copy has ended.                    *)
(***************************************************************************)
EXTENDS Naturals, FiniteSets

CONSTANT Segments

VARIABLES
  copying,   \* the segments the archive_command is copying
  staged,    \* staged[s]: what the directory holds of s
  acked,     \* the segments PostgreSQL may forget: the archive_command succeeded
  upload,    \* upload[s]: what uploadFile has read of s, or that it is stored
  archived,  \* archived[s]: what the object store holds of s
  torn,      \* the segments that were ever read incomplete
  dropped    \* the segments that were staged when the pod was replaced

walVars == <<copying, staged, acked, upload, archived, torn, dropped>>

Contents == {"none", "partial", "whole"}

WalTypeOK ==
  /\ copying \subseteq Segments /\ acked \subseteq Segments
  /\ torn \subseteq Segments /\ dropped \subseteq Segments
  /\ staged \in [Segments -> Contents]
  /\ upload \in [Segments -> Contents \cup {"stored"}]
  /\ archived \in [Segments -> Contents]

WalInit ==
  /\ copying = {} /\ acked = {} /\ torn = {} /\ dropped = {}
  /\ staged = [s \in Segments |-> "none"]
  /\ upload = [s \in Segments |-> "none"]
  /\ archived = [s \in Segments |-> "none"]

-----------------------------------------------------------------------------
(* archive_command `cp %p /wal-archive/%f`, tried until it succeeds.  It    *)
(* creates the file or truncates it ...                                     *)
BeginCopy(s) ==
  /\ s \notin acked /\ s \notin copying
  /\ copying' = copying \cup {s}
  /\ staged' = [staged EXCEPT ![s] = "partial"]
  /\ UNCHANGED <<acked, upload, archived, torn, dropped>>

(* ... and writes on, also when the file is removed under its hands. *)
EndCopy(s) ==
  /\ s \in copying
  /\ copying' = copying \ {s}
  /\ staged' = [staged EXCEPT ![s] = IF @ = "none" THEN "none" ELSE "whole"]
  /\ acked' = acked \cup {s}
  /\ UNCHANGED <<upload, archived, torn, dropped>>

FailCopy(s) ==
  /\ s \in copying
  /\ copying' = copying \ {s}
  /\ UNCHANGED <<staged, acked, upload, archived, torn, dropped>>

-----------------------------------------------------------------------------
(* uploadFile, started by the watcher or by the scan every 15 seconds, once *)
(* at a time for a file: archiveWal reads what is there (an upload during   *)
(* which the file grows fails) ...                                          *)
ReadSegment(s) ==
  /\ upload[s] = "none" /\ staged[s] # "none"
  /\ upload' = [upload EXCEPT ![s] = staged[s]]
  /\ torn' = IF staged[s] = "partial" THEN torn \cup {s} ELSE torn
  /\ UNCHANGED <<copying, staged, acked, archived, dropped>>

(* ... and stores it under the name of the segment; *)
StoreSegment(s) ==
  /\ upload[s] \in {"partial", "whole"}
  /\ archived' = [archived EXCEPT ![s] = upload[s]]
  /\ upload' = [upload EXCEPT ![s] = "stored"]
  /\ UNCHANGED <<copying, staged, acked, torn, dropped>>

(* then the file is removed, whatever it holds by now. *)
RemoveSegment(s) ==
  /\ upload[s] = "stored"
  /\ staged' = [staged EXCEPT ![s] = "none"]
  /\ upload' = [upload EXCEPT ![s] = "none"]
  /\ UNCHANGED <<copying, acked, archived, torn, dropped>>

(* Mutant: the file is removed when the upload fails, too. *)
FailRemoving(s) ==
  /\ upload[s] \in {"partial", "whole"}
  /\ staged' = [staged EXCEPT ![s] = "none"]
  /\ upload' = [upload EXCEPT ![s] = "none"]
  /\ UNCHANGED <<copying, acked, archived, torn, dropped>>

(* A failed upload leaves the file for the next scan. *)
FailUpload(s) ==
  /\ upload[s] \in {"partial", "whole"}
  /\ upload' = [upload EXCEPT ![s] = "none"]
  /\ UNCHANGED <<copying, staged, acked, archived, torn, dropped>>

(* The container of the forwarder is restarted: the directory stays. *)
RestartForwarder ==
  /\ upload' = [s \in Segments |-> "none"]
  /\ UNCHANGED <<copying, staged, acked, archived, torn, dropped>>

(* The pod is replaced, and its emptyDir with it. *)
ReplacePod ==
  /\ copying' = {}
  /\ dropped' = dropped \cup {s \in Segments : staged[s] # "none"}
  /\ staged' = [s \in Segments |-> "none"]
  /\ upload' = [s \in Segments |-> "none"]
  /\ UNCHANGED <<acked, archived, torn>>

WalNext ==
  \/ \E s \in Segments :
       \/ BeginCopy(s) \/ EndCopy(s) \/ FailCopy(s)
       \/ ReadSegment(s) \/ StoreSegment(s) \/ RemoveSegment(s) \/ FailUpload(s)
  \/ RestartForwarder
  \/ ReplacePod

WalSpec == WalInit /\ [][WalNext]_walVars

-----------------------------------------------------------------------------
Kept(s) == staged[s] = "whole" \/ archived[s] = "whole"

(* A segment PostgreSQL may forget is kept whole, in the directory until   *)
(* it is in the store, unless the pod was replaced while it was staged     *)
(* (infra/helm/collegehub/templates/postgres.yaml, the volume wal-archive: *)
(* segments are removed after a successful upload, a restart may lose one  *)
(* that is not uploaded).  Violated: the upload of a segment that is being *)
(* copied stores a part of it and removes the rest.                        *)
SegmentsSurvive == \A s \in acked : Kept(s) \/ s \in dropped

(* That, and the replaced pod, are the only ways to lose a segment,        *)
(* however copies and uploads fail, are repeated and restarted.            *)
LostOnlyTorn == \A s \in acked : Kept(s) \/ s \in dropped \/ s \in torn
=============================================================================
