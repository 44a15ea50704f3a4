---------------------------- MODULE UploadPipeline ----------------------------
(***************************************************************************)
(* The marketplace workers that announce what they have done: virus scan,  *)
(* image optimization, metadata extraction and search indexing             *)
(* (marketplace/src/workers), the statistics worker, and the routes of     *)
(* event-router.ts that start them.  A job records its idempotency key and *)
(* then awaits the publisher, which may fail.  The router starts every job *)
(* as attempt 1 of several, so a job that fails leaves no dead letter.     *)
(***************************************************************************)
EXTENDS Naturals, FiniteSets

CONSTANTS
  Uploads,       \* uploads; each belongs to a listing of its own
  Infected,      \* those in which the scan finds a virus
  Jobs,          \* jobs that can be in flight at once
  MaxDelivered,  \* bound: events delivered to the router from outside
  NoUpload

ASSUME UploadPipelineAssumption ==
  Infected \subseteq Uploads /\ MaxDelivered \in Nat /\ NoUpload \notin Uploads

VARIABLES
  marked,      \* processedJobIds: <<task, u>>
  job,         \* the jobs in flight
  announced,   \* history: how often the publisher took the event of a task
  queued,      \* <<task, u>>: the router has an event that starts the task
  delivered,   \* UploadCompleted, ListingPublished, ListingViewed so far
  views,       \* totalViews of the statistics of each listing
  viewed,      \* history: statistics jobs that saved
  faulty,      \* whether the publisher may fail in this behaviour
  alone        \* whether statistics jobs of this behaviour run one by one

pipelineVars == <<marked, job, announced, queued, delivered, views, viewed, faulty, alone>>

Tasks == {"scan", "image", "metadata", "index"}
NoJob == [task |-> "none", upload |-> NoUpload, views |-> 0]

PipelineTypeOK ==
  /\ marked \subseteq Tasks \X Uploads /\ queued \subseteq Tasks \X Uploads
  /\ job \in [Jobs -> [task : Tasks \cup {"count"}, upload : Uploads,
                       views : 0..MaxDelivered] \cup {NoJob}]
  /\ announced \in [Tasks -> [Uploads -> Nat]]
  /\ delivered \in 0..MaxDelivered
  /\ views \in [Uploads -> 0..MaxDelivered] /\ viewed \in [Uploads -> 0..MaxDelivered]
  /\ faulty \in BOOLEAN /\ alone \in BOOLEAN
  /\ \A j \in Jobs : job[j].task \in Tasks => <<job[j].task, job[j].upload>> \in marked

PipelineInit ==
  /\ marked = {} /\ queued = {}
  /\ job = [j \in Jobs |-> NoJob]
  /\ announced = [t \in Tasks |-> [u \in Uploads |-> 0]]
  /\ delivered = 0
  /\ views = [u \in Uploads |-> 0] /\ viewed = [u \in Uploads |-> 0]
  /\ faulty \in BOOLEAN /\ alone \in BOOLEAN

-----------------------------------------------------------------------------
(* UploadCompleted and ListingPublished reach the router, also twice. *)
Deliver(t, u) ==
  /\ delivered < MaxDelivered
  /\ delivered' = delivered + 1
  /\ queued' = queued \cup {<<t, u>>}
  /\ UNCHANGED <<marked, job, announced, views, viewed, faulty, alone>>

(* A job whose key is recorded returns; another records it and publishes.  *)
Start(j, t, u) ==
  /\ job[j] = NoJob
  /\ <<t, u>> \in queued
  /\ queued' = queued \ {<<t, u>>}
  /\ marked' = marked \cup {<<t, u>>}
  /\ job' = IF <<t, u>> \in marked THEN job
            ELSE [job EXCEPT ![j] = [task |-> t, upload |-> u, views |-> 0]]
  /\ UNCHANGED <<announced, delivered, views, viewed, faulty, alone>>

(* Mutant: the fan-out leaves metadata out. *)
FollowUpsImages(t, u) == IF t = "scan" /\ u \notin Infected THEN {<<"image", u>>} ELSE {}

(* VirusScanCompleted starts image optimization and metadata extraction;   *)
(* VirusScanFailed and the other announcements start nothing.              *)
FollowUps(t, u) ==
  IF t = "scan" /\ u \notin Infected THEN {<<"image", u>>, <<"metadata", u>>} ELSE {}

Announce(j) ==
  LET t == job[j].task
      u == job[j].upload
  IN
  /\ t \in Tasks
  /\ announced' = [announced EXCEPT ![t][u] = @ + 1]
  /\ queued' = queued \cup FollowUps(t, u)
  /\ job' = [job EXCEPT ![j] = NoJob]
  /\ UNCHANGED <<marked, delivered, views, viewed, faulty, alone>>

(* The publisher throws: the key stays recorded.  A statistics job has     *)
(* saved before it publishes and is not affected.                          *)
PublishFails(j) ==
  /\ faulty
  /\ job[j].task \in Tasks
  /\ job' = [job EXCEPT ![j] = NoJob]
  /\ UNCHANGED <<marked, announced, queued, delivered, views, viewed, faulty, alone>>

-----------------------------------------------------------------------------
(* The statistics worker on ListingViewed: it reads, adds one and saves.   *)
ReadStatistics(j, u) ==
  /\ job[j] = NoJob
  /\ delivered < MaxDelivered
  /\ alone => \A i \in Jobs : job[i].task # "count"
  /\ delivered' = delivered + 1
  /\ job' = [job EXCEPT ![j] = [task |-> "count", upload |-> u, views |-> views[u]]]
  /\ UNCHANGED <<marked, announced, queued, views, viewed, faulty, alone>>

SaveStatistics(j) ==
  LET u == job[j].upload IN
  /\ job[j].task = "count"
  /\ views' = [views EXCEPT ![u] = job[j].views + 1]
  /\ viewed' = [viewed EXCEPT ![u] = @ + 1]
  /\ job' = [job EXCEPT ![j] = NoJob]
  /\ UNCHANGED <<marked, announced, queued, delivered, faulty, alone>>

-----------------------------------------------------------------------------
PipelineNext ==
  \/ \E u \in Uploads : Deliver("scan", u) \/ Deliver("index", u)
  \/ \E j \in Jobs :
       \/ \E t \in Tasks, u \in Uploads : Start(j, t, u)
       \/ Announce(j) \/ PublishFails(j) \/ SaveStatistics(j)
       \/ \E u \in Uploads : ReadStatistics(j, u)

PipelineSpec == PipelineInit /\ [][PipelineNext]_pipelineVars

-----------------------------------------------------------------------------
(* However deliveries repeat and jobs overlap, and whether or not the      *)
(* publisher fails, no task is announced twice for an upload, and images   *)
(* and metadata only of uploads that were scanned and found clean.         *)
AnnouncedOnce ==
  \A t \in Tasks, u \in Uploads :
    /\ announced[t][u] <= 1
    /\ t \in {"image", "metadata"} /\ announced[t][u] = 1 =>
         announced["scan"][u] = 1 /\ u \notin Infected

(* When statistics jobs run one by one, no view is lost. *)
ViewsCounted == alone => views = viewed

(* With a publisher that does not fail nothing is left behind: when no      *)
(* event waits and no job is in flight, each upload whose scan was started *)
(* has it announced, and a clean one its images and metadata too.          *)
NothingLeftBehind ==
  ~faulty /\ queued = {} /\ (\A j \in Jobs : job[j].task \notin Tasks) =>
    \A u \in Uploads : <<"scan", u>> \in marked =>
      /\ announced["scan"][u] = 1
      /\ u \notin Infected => announced["image"][u] = 1 /\ announced["metadata"][u] = 1

(* With a publisher that does not fail every upload delivered is scanned,  *)
(* and a clean one has its images and metadata announced in the end.       *)
UploadsSettle ==
  \A u \in Uploads : <<"scan", u>> \in queued /\ ~faulty ~>
    /\ announced["scan"][u] = 1
    /\ u \notin Infected => announced["image"][u] = 1 /\ announced["metadata"][u] = 1
=============================================================================
