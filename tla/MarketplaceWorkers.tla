-------------------------- MODULE MarketplaceWorkers --------------------------
(***************************************************************************)
(* The marketplace calls together with the two background workers that     *)
(* write to the same repositories: ReservationExpiryWorker and             *)
(* ModerationWorker (modules/marketplace/src/workers), as event-router.ts  *)
(* starts them for ReservationCreated and ListingReported.                 *)
(*                                                                         *)
(* A job may run at any time once what it names is stored, and again: the  *)
(* router starts it on the event without looking at expiresAt, and a       *)
(* failed job is retried by whoever queued it.                             *)
(***************************************************************************)
EXTENDS Marketplace

CONSTANTS Jobs,      \* jobs that can run at once
          Failing    \* TRUE: a repository call of a job may reject

ASSUME WorkersAssumption == Failing \in BOOLEAN

VARIABLES job,         \* job[j]: the worker call j makes next and its locals
          processed    \* DLQManager.processedJobIds: res-exp keys

wvars == <<listing, offer, reservation, reports, sold, req, job, processed>>

JobPoints == {"idle", "saveExpired", "findReserved", "saveReleased",
              "findReported", "saveQuarantined"}

Job(point, l, r, cur) == [pc |-> point, l |-> l, r |-> r, cur |-> cur]
NoJob == Job("idle", None, None, None)

WTypeOK ==
  /\ TypeOK
  /\ job \in [Jobs -> [pc : JobPoints, l : Listings \cup {None},
                       r : Reservations \cup {None}, cur : Reservations \cup {None}]]
  /\ processed \subseteq Reservations

NoJobs == \A j \in Jobs : job[j] = NoJob

JobFree(j) == job[j] = NoJob /\ (Serial => NoJobs /\ AllIdle)
JobAt(j, point)     == job[j].pc = point
JobGoto(j, locals)  == job' = [job EXCEPT ![j] = locals]
JobResume(j, point) == job' = [job EXCEPT ![j].pc = point]

WInit == Init /\ job = [j \in Jobs |-> NoJob] /\ processed = {}

-----------------------------------------------------------------------------
(* ReservationExpiryWorker.process: the reservation is read, saved as      *)
(* EXPIRED if it was ACTIVE, then the listing is read and, if RESERVED,    *)
(* put back on sale.  A job for a processed or no longer ACTIVE            *)
(* reservation changes nothing.                                            *)

(* Mutant: the status of the reservation is not looked at. *)
ExpireAny(j, r) ==
  /\ JobFree(j)
  /\ r \notin processed
  /\ reservation[r].status # "NONE"
  /\ JobGoto(j, Job("saveExpired", reservation[r].l, r, None))
  /\ UNCHANGED <<vars, processed>>

ExpiryStart(j, r) ==
  /\ JobFree(j)
  /\ r \notin processed
  /\ reservation[r].status = "ACTIVE"
  /\ JobGoto(j, Job("saveExpired", reservation[r].l, r, None))
  /\ UNCHANGED <<vars, processed>>

ExpirySaveReservation(j) ==
  /\ JobAt(j, "saveExpired")
  /\ reservation' = [reservation EXCEPT ![job[j].r].status = "EXPIRED"]
  /\ JobResume(j, "findReserved")
  /\ UNCHANGED <<listing, offer, reports, sold, req, processed>>

(* Mutant: a listing that is not PUBLISHED any more is left as it is. *)
ReleaseOnlyPublished(j) ==
  /\ JobAt(j, "findReserved")
  /\ IF listing[job[j].l].status = "PUBLISHED"
       THEN JobResume(j, "saveReleased") /\ UNCHANGED processed
       ELSE JobGoto(j, NoJob) /\ processed' = processed \cup {job[j].r}
  /\ UNCHANGED vars

ExpiryFindListing(j) ==
  /\ JobAt(j, "findReserved")
  /\ IF listing[job[j].l].status = "RESERVED"
       THEN JobResume(j, "saveReleased") /\ UNCHANGED processed
       ELSE JobGoto(j, NoJob) /\ processed' = processed \cup {job[j].r}
  /\ UNCHANGED vars

(* Mutant: the listing goes back on sale with its pointer dropped only. *)
ReleaseKeepsStatus(j) ==
  /\ JobAt(j, "saveReleased")
  /\ listing' = [listing EXCEPT ![job[j].l] = [status |-> "RESERVED", cur |-> None]]
  /\ processed' = processed \cup {job[j].r}
  /\ JobGoto(j, NoJob)
  /\ UNCHANGED <<offer, reservation, reports, sold, req>>

ExpirySaveListing(j) ==
  /\ JobAt(j, "saveReleased")
  /\ listing' = [listing EXCEPT ![job[j].l] = [status |-> "PUBLISHED", cur |-> None]]
  /\ processed' = processed \cup {job[j].r}
  /\ JobGoto(j, NoJob)
  /\ UNCHANGED <<offer, reservation, reports, sold, req>>

-----------------------------------------------------------------------------
(* ModerationWorker.process: count the reports, read the listing, and      *)
(* quarantine it if it is PUBLISHED.                                       *)
ModerationStart(j, l) ==
  /\ JobFree(j)
  /\ Cardinality(reports[l]) >= QuarantineAt
  /\ JobGoto(j, Job("findReported", l, None, None))
  /\ UNCHANGED <<vars, processed>>

ModerationFindListing(j) ==
  /\ JobAt(j, "findReported")
  /\ IF listing[job[j].l].status = "PUBLISHED"
       THEN JobGoto(j, Job("saveQuarantined", job[j].l, None, listing[job[j].l].cur))
       ELSE JobGoto(j, NoJob)
  /\ UNCHANGED <<vars, processed>>

ModerationSaveListing(j) ==
  /\ JobAt(j, "saveQuarantined")
  /\ listing' = [listing EXCEPT ![job[j].l] = [status |-> "QUARANTINED", cur |-> job[j].cur]]
  /\ JobGoto(j, NoJob)
  /\ UNCHANGED <<offer, reservation, reports, sold, req, processed>>

-----------------------------------------------------------------------------
(* The repository call the job waits for rejects: process rethrows and     *)
(* marks nothing, so the job may be run again.                             *)
JobFails(j) ==
  /\ Failing
  /\ job[j] # NoJob
  /\ JobGoto(j, NoJob)
  /\ UNCHANGED <<vars, processed>>

StartJob(j) == \/ \E r \in Reservations : ExpiryStart(j, r)
               \/ \E l \in Listings : ModerationStart(j, l)

ProceedJob(j) ==
  \/ ExpirySaveReservation(j) \/ ExpiryFindListing(j) \/ ExpirySaveListing(j)
  \/ ModerationFindListing(j) \/ ModerationSaveListing(j)

ApiStep(q) == /\ (Begin(q) /\ (Serial => NoJobs)) \/ Proceed(q)
              /\ UNCHANGED <<job, processed>>

WNext == \/ \E q \in Requests : ApiStep(q)
         \/ \E j \in Jobs : StartJob(j) \/ ProceedJob(j) \/ JobFails(j)

WSpec == WInit /\ [][WNext]_wvars

(* Suspended calls and jobs are resumed, and a job that can run again is   *)
(* run again in the end.                                                   *)
WFairSpec ==
  /\ WSpec
  /\ \A q \in Requests : WF_wvars(ApiStep(q) /\ Proceed(q))
  /\ \A j \in Jobs : WF_wvars(ProceedJob(j))
  /\ \A r \in Reservations : SF_wvars(\E j \in Jobs : ExpiryStart(j, r))

-----------------------------------------------------------------------------
(* When neither calls nor jobs overlap.                                    *)

(* A completed reservation stays completed: the expiry worker, which       *)
(* overwrites the whole reservation, touches only ACTIVE ones.             *)
CompletedIsFinal ==
  [][\A r \in Reservations :
       reservation[r].status = "COMPLETED" => reservation'[r].status = "COMPLETED"]_wvars

(* An item is sold once: expiry puts it on sale again for another buyer,   *)
(* and the former one may still complete, but not both.                    *)
SoldOnce ==
  \A r1, r2 \in sold : reservation[r1].l = reservation[r2].l => r1 = r2

(* If no job fails, none leaves a listing behind that is held for a        *)
(* reservation which has expired.                                          *)
ExpiredHoldsNothing ==
  ~Failing /\ AllIdle /\ NoJobs =>
    \A l \in Listings :
      listing[l].status = "RESERVED" => reservation[listing[l].cur].status # "EXPIRED"

(* Every reservation that is expired lets go of its listing.               *)
ExpiredIsReleased ==
  \A r \in Reservations :
    reservation[r].status = "EXPIRED" ~>
      ~(\E l \in Listings : listing[l].status = "RESERVED" /\ listing[l].cur = r)
=============================================================================
