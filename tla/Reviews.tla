-------------------------------- MODULE Reviews --------------------------------
(***************************************************************************)
(* The reviews of one professor and course (modules/rate-my-professor):    *)
(* the review use cases, and the workers their events start, which scan a  *)
(* new review and recalculate the statistics.  The repository of reviews   *)
(* hands out its own objects.  The one of statistics that the API wires    *)
(* keeps nothing and answers constants: the statistics here are those the  *)
(* worker announced last, with StatisticsUpdated.                          *)
(*                                                                         *)
(* A published event starts its handler, which is a job from then on.      *)
(* Submitting a review is several steps, between which calls and handlers  *)
(* can come; editing and deleting one are a step each, as nothing is read  *)
(* between their save and their event, which is as if the handler the      *)
(* event starts were slow.  The bus may refuse an event (the one the API   *)
(* wires does not); the call that published it then fails.                 *)
(***************************************************************************)
EXTENDS Naturals, FiniteSets

CONSTANTS
  ReviewIds, Authors, Ratings,
  Requests,    \* submissions that can be in flight at once
  MaxJobs,     \* bound: handlers that can be at work at once
  MaxRetries,  \* attempts of executeWithRetry: 3
  Decisions,   \* statuses moderators set: APPROVED, HIDDEN, REJECTED
  None

ASSUME ReviewsAssumption ==
  /\ MaxRetries \in Nat \ {0} /\ MaxJobs \in Nat \ {0}
  /\ Decisions \subseteq {"APPROVED", "HIDDEN", "REJECTED"}
  /\ None \notin ReviewIds \cup Authors \cup Ratings

VARIABLES
  review,   \* review[r]; author None: not written
  stats,    \* stats[r]: the rating of r that the last StatisticsUpdated counts, or None
  job,      \* the handlers at work
  dead,     \* the handlers that ended in the dead letters
  unheard,  \* history: the handlers that events the bus refused did not start
  overlap,  \* whether calls and handlers of this behaviour overlap
  req       \* the submissions in flight: what they await, and for whom or what

vars == <<review, stats, job, dead, unheard, overlap, req>>

(* by is who decided on the status last: that is not stored. *)
Jobs    == 1..MaxJobs
Review  == [author : Authors \cup {None}, rating : Ratings \cup {None}, risky : BOOLEAN,
            status : {"NONE", "APPROVED", "PENDING_MODERATION", "HIDDEN", "REJECTED"},
            by : {"author", "scan", "moderator", "nobody"}]
Figures == [ReviewIds -> Ratings \cup {None}]
Job     == [kind : {"free", "scan", "stats", "listed", "computed"},
            review : ReviewIds \cup {None}, attempt : 1..MaxRetries,
            list : SUBSET ReviewIds, figures : Figures]

NoFigures == [r \in ReviewIds |-> None]
NoReview == [author |-> None, rating |-> None, risky |-> FALSE, status |-> "NONE",
             by |-> "nobody"]
Free     == [kind |-> "free", review |-> None, attempt |-> 1, list |-> {},
             figures |-> NoFigures]
Handler(kind, r) == [Free EXCEPT !.kind = kind, !.review = r]
AllHandlers == {Handler("stats", None)} \cup {Handler("scan", r) : r \in ReviewIds}

(* A submission awaits the look for an earlier review, and then the save,  *)
(* ReviewCreated and ReviewPublished of its own.                           *)
Idle       == [awaits |-> "nothing", author |-> None, review |-> None]
Submission == {Idle} \cup [awaits : {"save"}, author : Authors, review : {None}]
                     \cup [awaits : {"created", "published"}, author : {None}, review : ReviewIds]

TypeOK ==
  /\ review \in [ReviewIds -> Review]
  /\ stats \in Figures
  /\ job \in [Jobs -> Job]
  /\ dead \subseteq AllHandlers
  /\ unheard \subseteq AllHandlers
  /\ overlap \in BOOLEAN
  /\ req \in [Requests -> Submission]

Init ==
  /\ review = [r \in ReviewIds |-> NoReview]
  /\ stats = NoFigures
  /\ job = [j \in Jobs |-> Free]
  /\ dead = {} /\ unheard = {}
  /\ overlap \in BOOLEAN
  /\ req = [q \in Requests |-> Idle]

Written(r) == review[r].author # None
Approved   == {r \in ReviewIds : review[r].status = "APPROVED"}
Quiet      == (\A j \in Jobs : job[j] = Free) /\ (\A q \in Requests : req[q] = Idle)
Starts     == overlap \/ Quiet

(* Publishing an event starts its handler, in a free slot. *)
Start(handler) ==
  LET slot == CHOOSE j \in Jobs : job[j] = Free IN
  /\ \E j \in Jobs : job[j] = Free
  /\ job' = [job EXCEPT ![slot] = handler]

-----------------------------------------------------------------------------

Await(q, awaits, a, r) ==
  req' = [req EXCEPT ![q] = [awaits |-> awaits, author |-> a, review |-> r]]

(* Mutant: nobody asks for an earlier review. *)
SubmitAgain(q, a) ==
  /\ Starts
  /\ req[q] = Idle
  /\ Await(q, "save", a, None)
  /\ UNCHANGED <<review, stats, job, dead, unheard, overlap>>

(* submitReview: an author who has a review, whatever became of it, is     *)
(* refused ...                                                             *)
SubmitReview(q, a) ==
  /\ Starts
  /\ req[q] = Idle
  /\ \A r \in ReviewIds : review[r].author # a
  /\ Await(q, "save", a, None)
  /\ UNCHANGED <<review, stats, job, dead, unheard, overlap>>

(* ... the review is saved, approved, before it is scanned ...             *)
SaveReview(q, r, rating, risky) ==
  /\ req[q].awaits = "save"
  /\ ~Written(r)
  /\ review' = [review EXCEPT ![r] =
       [author |-> req[q].author, rating |-> rating, risky |-> risky,
        status |-> "APPROVED", by |-> "author"]]
  /\ Await(q, "created", None, r)
  /\ UNCHANGED <<stats, job, dead, unheard, overlap>>

(* ... ReviewCreated starts the scan ...                                   *)
PublishCreated(q) ==
  /\ req[q].awaits = "created"
  /\ Start(Handler("scan", req[q].review))
  /\ Await(q, "published", None, req[q].review)
  /\ UNCHANGED <<review, stats, dead, unheard, overlap>>

(* ... and ReviewPublished the statistics.                                 *)
PublishPublished(q) ==
  /\ req[q].awaits = "published"
  /\ Start(Handler("stats", None))
  /\ req' = [req EXCEPT ![q] = Idle]
  /\ UNCHANGED <<review, stats, dead, unheard, overlap>>

(* The bus refuses one of the two: the submission fails, and leaves the    *)
(* review it saved.                                                        *)
RefuseSubmission(q) ==
  /\ req[q].awaits \in {"created", "published"}
  /\ unheard' = unheard \cup {Handler("stats", None)} \cup
       (IF req[q].awaits = "created" THEN {Handler("scan", req[q].review)} ELSE {})
  /\ req' = [req EXCEPT ![q] = Idle]
  /\ UNCHANGED <<review, stats, job, dead, overlap>>

-----------------------------------------------------------------------------
(* ReviewUpdated and ReviewDeleted start the statistics, or are refused.   *)
PublishChange ==
  \/ Start(Handler("stats", None)) /\ UNCHANGED unheard
  \/ unheard' = unheard \cup {Handler("stats", None)} /\ UNCHANGED job

(* Mutant: an edited review is published. *)
EditApproving(r, rating, risky) ==
  /\ Starts
  /\ Written(r)
  /\ review' = [review EXCEPT ![r].rating = rating, ![r].risky = risky, ![r].status = "APPROVED"]
  /\ PublishChange
  /\ UNCHANGED <<stats, dead, overlap, req>>

(* editReview within the edit window: the text is not scanned again. *)
EditReview(r, rating, risky) ==
  /\ Starts
  /\ Written(r)
  /\ review' = [review EXCEPT ![r].rating = rating, ![r].risky = risky]
  /\ PublishChange
  /\ UNCHANGED <<stats, dead, overlap, req>>

(* Mutant: no event is published. *)
DeleteSilently(r) ==
  /\ Starts
  /\ Written(r)
  /\ review' = [review EXCEPT ![r].status = "REJECTED", ![r].by = "author"]
  /\ UNCHANGED <<stats, job, dead, unheard, overlap, req>>

(* deleteReview within the edit window rejects the review. *)
DeleteReview(r) ==
  /\ Starts
  /\ Written(r)
  /\ review' = [review EXCEPT ![r].status = "REJECTED", ![r].by = "author"]
  /\ PublishChange
  /\ UNCHANGED <<stats, dead, overlap, req>>

(* moderateReview, whatever the status was; no worker hears of it. *)
ModerateReview(r, status) ==
  /\ Starts
  /\ Written(r)
  /\ review' = [review EXCEPT ![r].status = status, ![r].by = "moderator"]
  /\ UNCHANGED <<stats, job, dead, unheard, overlap, req>>

-----------------------------------------------------------------------------
(* A handler that ends leaves its slot. *)
Done(j) == [job EXCEPT ![j] = Free]

(* What a handler is before it begins. *)
Begun(j) == Handler(IF job[j].kind = "scan" THEN "scan" ELSE "stats", job[j].review)

(* Mutant: the last failure is dropped. *)
RetryUnrecorded(j) ==
  /\ job' = IF job[j].attempt < MaxRetries
              THEN [job EXCEPT ![j] = [Begun(j) EXCEPT !.attempt = job[j].attempt + 1]]
              ELSE Done(j)
  /\ UNCHANGED dead

(* executeWithRetry: after a failed attempt the handler starts over, and   *)
(* the last failure goes to the dead letters.                              *)
Retry(j) ==
  IF job[j].attempt < MaxRetries
    THEN /\ job' = [job EXCEPT ![j] = [Begun(j) EXCEPT !.attempt = job[j].attempt + 1]]
         /\ UNCHANGED dead
    ELSE /\ job' = Done(j)
         /\ dead' = dead \cup {Begun(j)}

(* The repository refuses what a handler asks first. *)
FailAttempt(j) ==
  /\ job[j] # Free
  /\ Retry(j)
  /\ UNCHANGED <<review, stats, unheard, overlap, req>>

(* evaluateReviewRisk approves or holds back the review as it is now, and  *)
(* publishes the one it approves (again), whose handler takes the slot; a  *)
(* save or an event that is refused comes too late for the status.         *)
ScanReview(j) ==
  LET r == job[j].review IN
  /\ job[j].kind = "scan"
  /\ review' = [review EXCEPT
       ![r].status = IF review[r].risky THEN "PENDING_MODERATION" ELSE "APPROVED",
       ![r].by = "scan"]
  /\ \/ /\ job' = [job EXCEPT ![j] = IF review[r].risky THEN Free ELSE Handler("stats", None)]
        /\ UNCHANGED dead
     \/ Retry(j)
  /\ UNCHANGED <<stats, unheard, overlap, req>>

(* recalculateForProfessor lists the approved reviews ... *)
ListReviews(j) ==
  /\ job[j].kind = "stats"
  /\ job' = [job EXCEPT ![j].kind = "listed", ![j].list = Approved]
  /\ UNCHANGED <<review, stats, dead, unheard, overlap, req>>

(* ... counts those that still are, with the rating they have now ...      *)
ComputeStats(j) ==
  /\ job[j].kind = "listed"
  /\ job' = [job EXCEPT ![j] = [Begun(j) EXCEPT
       !.kind = "computed", !.attempt = job[j].attempt,
       !.figures = [r \in ReviewIds |->
         IF r \in job[j].list \cap Approved THEN review[r].rating ELSE None]]]
  /\ UNCHANGED <<review, stats, dead, unheard, overlap, req>>

(* ... and announces the figures it has saved; the handler may still fail, *)
(* when it looks up the professor for the index.                           *)
AnnounceStats(j) ==
  /\ job[j].kind = "computed"
  /\ stats' = job[j].figures
  /\ (job' = Done(j) /\ UNCHANGED dead) \/ Retry(j)
  /\ UNCHANGED <<review, unheard, overlap, req>>

-----------------------------------------------------------------------------
Call ==
  \/ \E q \in Requests :
       \/ \E a \in Authors : SubmitReview(q, a)
       \/ PublishCreated(q) \/ PublishPublished(q) \/ RefuseSubmission(q)
  \/ \E r \in ReviewIds :
       \/ \E rating \in Ratings, risky \in BOOLEAN :
            \/ \E q \in Requests : SaveReview(q, r, rating, risky)
            \/ EditReview(r, rating, risky)
       \/ DeleteReview(r)
       \/ \E status \in Decisions : ModerateReview(r, status)

Work(j) == ScanReview(j) \/ ListReviews(j) \/ ComputeStats(j) \/ AnnounceStats(j)
           \/ FailAttempt(j)

Next == Call \/ \E j \in Jobs : Work(j)

Spec == Init /\ [][Next]_vars

-----------------------------------------------------------------------------
(* However calls and handlers overlap and fail.                            *)

(* No review is forgotten by the scan: as long as nobody but the author    *)
(* decided on it, its submission is about to publish ReviewCreated, its    *)
(* scan is at work or in the dead letters, or the bus refused the event,   *)
(* and only then does an approved review stay that nobody will look at.    *)
UnscannedIsPending ==
  \A r \in ReviewIds : review[r].status = "APPROVED" /\ review[r].by = "author" =>
    \/ \E q \in Requests : req[q].awaits = "created" /\ req[q].review = r
    \/ \E j \in Jobs : job[j].kind = "scan" /\ job[j].review = r
    \/ Handler("scan", r) \in dead \cup unheard

-----------------------------------------------------------------------------
(* When calls and handlers do not overlap with other calls.                *)

(* A student has one review of the professor (the rule of the term,        *)
(* docs/domain/RATE_MY_PROFESSOR_DOMAIN.md, 2.1).                          *)
OneReviewPerAuthor ==
  ~overlap => \A r, s \in ReviewIds :
    Written(r) /\ review[r].author = review[s].author => r = s

(* What the author deleted is only brought back by a moderator.            *)
DeletedStaysDeleted ==
  [][~overlap => \A r \in ReviewIds :
       review[r].status = "REJECTED" /\ review'[r].status = "APPROVED" =>
         review'[r].by = "moderator"]_vars

(* At rest the statistics announced last count every review the scan       *)
(* approved, with its rating, and none its author deleted: a submission    *)
(* and its scan that recalculate at once leave them current.  No dead      *)
(* letters and no event refused; moderators publish nothing the statistics *)
(* hear, and of a review the scan held back they may count.                *)
StatsCurrent ==
  ~overlap /\ Quiet /\ dead \cup unheard = {} => \A r \in ReviewIds :
    /\ review[r].status = "APPROVED" /\ review[r].by = "scan" => stats[r] = review[r].rating
    /\ review[r].status = "REJECTED" /\ review[r].by = "author" => stats[r] = None
=============================================================================
