----------------------------- MODULE AcademicProofs -----------------------------
(***************************************************************************)
(* Proofs about the academic modules, for any numbers of what they store   *)
(* and of the calls that overlap: the reviews of professors (Reviews) and  *)
(* the resource hub (ResourceHub).                                         *)
(***************************************************************************)
EXTENDS Reviews, ResourceHub, FiniteSetTheorems, TLAPS

-----------------------------------------------------------------------------
(* The reviews.  Shape and UnscannedIsPending hold however calls and       *)
(* handlers overlap; the rest of SerialOK is what holds when calls wait    *)
(* for the handlers of the call before: the scan of a review finds it      *)
(* approved, or as it left it itself before a retry; a list names every    *)
(* approved review and figures count them; and unless a scan or the        *)
(* statistics are still at work, what was announced is current.            *)

JobOK(d) ==
  /\ d \in Job
  /\ d.kind = "free" => d = Free
  /\ d.kind = "scan" => d.review \in ReviewIds
  /\ d.kind \in {"stats", "listed", "computed"} => d.review = None
Shape ==
  /\ TypeOK
  /\ \A j \in Jobs : JobOK(job[j]) /\ (job[j].kind = "scan" => Written(job[j].review))
  /\ \A r \in ReviewIds : ~Written(r) => review[r] = NoReview
  /\ \A q \in Requests : req[q].awaits \in {"created", "published"} => Written(req[q].review)

LoneSubmission ==
  \A q \in Requests : req[q] # Idle =>
    /\ \A p \in Requests : req[p] # Idle => p = q
    /\ req[q].awaits \in {"save", "created"} => \A j \in Jobs : job[j] = Free
    /\ req[q].awaits = "save" => \A r \in ReviewIds : review[r].author # req[q].author
    /\ req[q].awaits = "created" => review[req[q].review].status = "APPROVED"
ScanFit(r) == \/ review[r].status = "APPROVED"
              \/ review[r].status = "PENDING_MODERATION" /\ review[r].risky
ScansOK == \A j \in Jobs : job[j].kind = "scan" =>
  /\ ScanFit(job[j].review)
  /\ \A k \in Jobs : job[k].kind = "scan" /\ job[k].review = job[j].review => k = j
ListsOK == \A j \in Jobs : job[j].kind = "listed" => Approved \subseteq job[j].list

Counted(f, r) ==
  /\ review[r].status = "APPROVED" => f[r] = review[r].rating
  /\ review[r].status = "REJECTED" /\ review[r].by = "author" => f[r] = None
FiguresOK == \A j \in Jobs : job[j].kind = "computed" =>
  \A r \in ReviewIds : Counted(job[j].figures, r)

Current(r) ==
  /\ review[r].status = "APPROVED" /\ review[r].by = "scan" => stats[r] = review[r].rating
  /\ review[r].status = "REJECTED" /\ review[r].by = "author" => stats[r] = None
ScanAtWork(r) == \E j \in Jobs : job[j].kind = "scan" /\ job[j].review = r
Counting == \E j \in Jobs : job[j].kind \in {"stats", "listed", "computed"}
StatsOK == dead \cup unheard = {} =>
  Counting \/ \A r \in ReviewIds : Current(r) \/ ScanAtWork(r)

SerialOK ==
  /\ ~overlap => LoneSubmission /\ ScansOK /\ ListsOK /\ FiguresOK /\ StatsOK
  /\ OneReviewPerAuthor
ReviewsInv == Shape /\ UnscannedIsPending /\ SerialOK

-----------------------------------------------------------------------------
(* Handlers and their slots. *)
LEMMA HandlerIs ==
  \A kind \in {"scan", "stats"}, r \in ReviewIds \cup {None} :
    Handler(kind, r) = [kind |-> kind, review |-> r, attempt |-> 1, list |-> {},
                        figures |-> NoFigures]
<1> TAKE kind \in {"scan", "stats"}, r \in ReviewIds \cup {None}
<1>1. PICK f : f = Free OBVIOUS
<1>2. f = [kind |-> "free", review |-> None, attempt |-> 1, list |-> {}, figures |-> NoFigures]
      BY <1>1 DEF Free
<1>3. PICK g : g = [f EXCEPT !.kind = kind] OBVIOUS
<1>4. g = [kind |-> kind, review |-> None, attempt |-> 1, list |-> {}, figures |-> NoFigures]
      BY <1>2, <1>3
<1>5. [g EXCEPT !.review = r]
        = [kind |-> kind, review |-> r, attempt |-> 1, list |-> {}, figures |-> NoFigures]
      BY <1>4
<1>6. [f EXCEPT !.kind = kind, !.review = r] = [g EXCEPT !.review = r] BY <1>3
<1> QED BY <1>1, <1>5, <1>6 DEF Handler

LEMMA HandlersOK ==
  /\ JobOK(Free) /\ Free.kind = "free" /\ Free.review = None
  /\ JobOK(Handler("stats", None)) /\ Handler("stats", None).kind = "stats"
  /\ \A r \in ReviewIds : /\ JobOK(Handler("scan", r)) /\ Handler("scan", r).kind = "scan"
                          /\ Handler("scan", r).review = r
<1> USE ReviewsAssumption DEF ReviewsAssumption
<1>1. NoFigures \in Figures BY DEF NoFigures, Figures
<1>2. Free \in Job BY <1>1 DEF Free, Job
<1>3. \A kind \in {"scan", "stats"}, r \in ReviewIds \cup {None} :
        [kind |-> kind, review |-> r, attempt |-> 1, list |-> {}, figures |-> NoFigures] \in Job
      BY <1>1 DEF Job
<1>4. JobOK(Free) /\ Free.kind = "free" /\ Free.review = None BY <1>2 DEF Free, JobOK
<1> QED BY <1>3, <1>4, HandlerIs DEF JobOK

LEMMA SlotTaken ==
  ASSUME NEW handler, Start(handler)
  PROVE  \E k \in Jobs : job[k] = Free /\ job' = [job EXCEPT ![k] = handler]
<1> DEFINE slot == CHOOSE j \in Jobs : job[j] = Free
<1>1. (\E j \in Jobs : job[j] = Free) /\ job' = [job EXCEPT ![slot] = handler] BY DEF Start
<1>2. slot \in Jobs /\ job[slot] = Free BY <1>1
<1> QED BY <1>1, <1>2

(* What is known of the state before a step. *)
LEMMA Known ==
  ASSUME ReviewsInv
  PROVE  /\ Shape /\ UnscannedIsPending /\ SerialOK
         /\ review \in [ReviewIds -> Review] /\ job \in [Jobs -> Job]
         /\ \A j \in Jobs : JobOK(job[j])
         /\ stats \in Figures /\ dead \subseteq AllHandlers /\ unheard \subseteq AllHandlers
         /\ overlap \in BOOLEAN /\ req \in [Requests -> Submission]
BY DEF ReviewsInv, Shape, TypeOK

LEMMA Submissions ==
  /\ Idle \in Submission /\ Idle.awaits = "nothing"
  /\ \A s \in Submission :
       /\ s.awaits \in {"nothing", "save", "created", "published"}
       /\ s.awaits = "nothing" <=> s = Idle
       /\ s.awaits = "save" => s.author \in Authors
       /\ s.awaits \in {"created", "published"} => s.review \in ReviewIds
BY DEF Submission, Idle

-----------------------------------------------------------------------------
(* A slot that is taken by a handler. *)
Taken(k, handler) ==
  /\ JobOK(handler) /\ job' = [job EXCEPT ![k] = handler]
  /\ handler.kind = "scan" => review'[handler.review].author # None
  /\ review' \in [ReviewIds -> Review]
  /\ \A s \in ReviewIds : Written(s) => review'[s].author # None
  /\ \A s \in ReviewIds : review'[s].author = None => review'[s] = NoReview
  /\ stats' \in Figures /\ dead' \subseteq AllHandlers /\ unheard' \subseteq AllHandlers
  /\ overlap' = overlap /\ req' \in [Requests -> Submission]
  /\ \A q \in Requests :
       req'[q].awaits \in {"created", "published"} => review'[req'[q].review].author # None

LEMMA TakenShape ==
  ASSUME ReviewsInv, NEW k \in Jobs, NEW handler, Taken(k, handler)
  PROVE  /\ Shape'
         /\ \A j \in Jobs : job'[j] = IF j = k THEN handler ELSE job[j]
<1> USE DEF Taken
<1>1. \A j \in Jobs : job'[j] = IF j = k THEN handler ELSE job[j] BY Known
<1>2. job' \in [Jobs -> Job] BY Known DEF JobOK
<1>3. TypeOK' BY <1>2, Known DEF TypeOK
<1>4. ASSUME NEW j \in Jobs PROVE (JobOK(job[j]) /\ (job[j].kind = "scan" => Written(job[j].review)))'
  <2>1. PICK n : n = job'[j] OBVIOUS
  <2>2. JobOK(n) BY <1>1, <2>1, Known
  <2>3. n.kind = "scan" => (j = k /\ n = handler)
                           \/ (n = job[j] /\ n.review \in ReviewIds /\ review[n.review].author # None)
        BY <1>1, <2>1, <2>2, Known DEF Shape, Written, JobOK
  <2>4. n.kind = "scan" => review'[n.review].author # None
        BY <2>3 DEF Written
  <2> QED BY <2>1, <2>2, <2>4 DEF JobOK, Written
<1> QED BY <1>1, <1>3, <1>4 DEF Shape, Written

-----------------------------------------------------------------------------
(* Calls on a written review: EditReview, DeleteReview, ModerateReview.    *)
(* What they leave of the statuses, and whether the statistics hear of it. *)
ReviewChanged(r, d, publishes) ==
  /\ Starts /\ Written(r)
  /\ d \in Review /\ d.author = review[r].author
  /\ d.status = "APPROVED" /\ d.by = "author" =>
       review[r].status = "APPROVED" /\ review[r].by = "author"
  /\ d.status = "APPROVED" => review[r].status = "APPROVED" \/ d.by = "moderator"
  /\ ~publishes => d.by = "moderator"
  /\ review' = [review EXCEPT ![r] = d]
  /\ IF publishes THEN PublishChange ELSE UNCHANGED <<job, unheard>>
  /\ UNCHANGED <<stats, dead, overlap, req>>

LEMMA ChangeKeeps ==
  ASSUME ReviewsInv, NEW r \in ReviewIds, NEW d, NEW publishes \in BOOLEAN,
         ReviewChanged(r, d, publishes)
  PROVE  ReviewsInv'
<1> USE ReviewsAssumption DEF ReviewsAssumption
<1>0. Shape /\ UnscannedIsPending /\ SerialOK /\ review \in [ReviewIds -> Review] BY Known
<1>1. \A s \in ReviewIds : review'[s] = IF s = r THEN d ELSE review[s]
      BY <1>0 DEF ReviewChanged
<1>2. review' \in [ReviewIds -> Review] BY <1>0 DEF ReviewChanged
<1>3. /\ job' \in [Jobs -> Job]
      /\ \A j \in Jobs : job'[j] = job[j] \/ (job[j] = Free /\ job'[j] = Handler("stats", None))
      /\ unheard \subseteq unheard' /\ unheard' \subseteq AllHandlers
      /\ publishes => unheard' # {} \/ \E k \in Jobs : job'[k] = Handler("stats", None)
  <2>1. CASE publishes /\ Start(Handler("stats", None)) /\ UNCHANGED unheard
    <3>1. PICK k \in Jobs : job[k] = Free /\ job' = [job EXCEPT ![k] = Handler("stats", None)]
          BY <2>1, SlotTaken
    <3>2. Handler("stats", None) \in Job BY HandlersOK DEF JobOK
    <3> QED BY <2>1, <3>1, <3>2, Known
  <2>2. CASE unheard' = unheard \cup {Handler("stats", None)} /\ UNCHANGED job
        BY <2>2, Known DEF AllHandlers
  <2>3. CASE UNCHANGED <<job, unheard>> /\ ~publishes BY <2>3, Known
  <2> QED BY <2>1, <2>2, <2>3 DEF ReviewChanged, PublishChange
<1>4. Shape'
  <2>1. TypeOK' BY <1>0, <1>2, <1>3 DEF ReviewChanged, Shape, TypeOK
  <2>2. \A s \in ReviewIds : Written(s)' <=> Written(s)
        BY <1>1 DEF ReviewChanged, Written
  <2>3. ASSUME NEW j \in Jobs PROVE (JobOK(job[j]) /\ (job[j].kind = "scan" => Written(job[j].review)))'
    <3>1. PICK n : n = job'[j] OBVIOUS
    <3>2. JobOK(n) BY <1>0, <1>3, <3>1, HandlersOK DEF Shape
    <3>3. n.kind = "scan" => n = job[j] BY <1>3, <3>1, HandlersOK
    <3>4. n.kind = "scan" => n.review \in ReviewIds /\ Written(n.review)
          BY <1>0, <3>2, <3>3 DEF Shape, JobOK
    <3>5. n.kind = "scan" => review'[n.review].author # None
          BY <2>2, <3>4 DEF Written
    <3> QED BY <3>1, <3>2, <3>5 DEF JobOK, Written
  <2>4. \A s \in ReviewIds : ~Written(s)' => review'[s] = NoReview
        BY <1>0, <1>1 DEF ReviewChanged, Shape, Written
  <2>5. \A q \in Requests : (req[q].awaits \in {"created", "published"} => Written(req[q].review))'
    <3>1. UNCHANGED req BY DEF ReviewChanged
    <3>2. \A q \in Requests : req[q].awaits \in {"created", "published"} =>
            req[q].review \in ReviewIds /\ Written(req[q].review)
          BY <1>0, Known, Submissions DEF Shape
    <3> QED BY <2>2, <3>1, <3>2 DEF Written
  <2> QED BY <2>1, <2>3, <2>4, <2>5 DEF Shape
<1>5. UnscannedIsPending'
  <2> SUFFICES ASSUME NEW s \in ReviewIds, review'[s].status = "APPROVED", review'[s].by = "author"
               PROVE  \/ \E q \in Requests : req'[q].awaits = "created" /\ req'[q].review = s
                      \/ \E j \in Jobs : job'[j].kind = "scan" /\ job'[j].review = s
                      \/ Handler("scan", s) \in dead' \cup unheard'
      BY DEF UnscannedIsPending
  <2>1. review[s].status = "APPROVED" /\ review[s].by = "author"
        BY <1>1 DEF ReviewChanged
  <2>2. CASE Handler("scan", s) \in dead \cup unheard BY <1>3, <2>2 DEF ReviewChanged
  <2>3. CASE \E j \in Jobs : job[j].kind = "scan" /\ job[j].review = s
    <3>1. PICK j \in Jobs : job[j].kind = "scan" /\ job[j].review = s BY <2>3
    <3>2. job'[j] = job[j] BY <1>3, <3>1, HandlersOK
    <3> QED BY <3>1, <3>2
  <2>4. CASE \E q \in Requests : req[q].awaits = "created" /\ req[q].review = s
        BY <2>4 DEF ReviewChanged
  <2> QED BY <1>0, <2>1, <2>2, <2>3, <2>4 DEF UnscannedIsPending
<1>6. ASSUME ~overlap PROVE (LoneSubmission /\ ScansOK /\ ListsOK /\ FiguresOK /\ StatsOK)'
  <2>1. (\A j \in Jobs : job[j] = Free) /\ \A q \in Requests : req'[q] = Idle
        BY <1>6 DEF ReviewChanged, Starts, Quiet
  <2>2. \A j \in Jobs : job'[j].kind \notin {"scan", "listed", "computed"}
        BY <1>3, <2>1, HandlersOK
  <2>3. StatsOK'
    <3>1. CASE publishes BY <1>3, <3>1, HandlersOK DEF StatsOK, Counting
    <3>2. CASE ~publishes
      <4>1. ~Counting /\ \A s \in ReviewIds : ~ScanAtWork(s)
            BY <2>1, HandlersOK DEF Counting, ScanAtWork
      <4>2. dead \cup unheard = {} => \A s \in ReviewIds : Current(s)
            BY <1>0, <1>6, <4>1 DEF SerialOK, StatsOK
      <4>3. \A s \in ReviewIds : Current(s) => Current(s)'
            BY <1>1, <3>2 DEF ReviewChanged, Current
      <4> QED BY <1>3, <4>2, <4>3 DEF ReviewChanged, StatsOK
    <3> QED BY <3>1, <3>2
  <2> QED BY <2>1, <2>2, <2>3 DEF LoneSubmission, ScansOK, ListsOK, FiguresOK
<1>7. OneReviewPerAuthor'
      BY <1>0, <1>1 DEF ReviewChanged, SerialOK, OneReviewPerAuthor, Written
<1>8. overlap' = overlap BY DEF ReviewChanged
<1> QED BY <1>4, <1>5, <1>6, <1>7, <1>8 DEF ReviewsInv, SerialOK

LEMMA CallsChange ==
  ASSUME ReviewsInv, NEW r \in ReviewIds,
         \/ \E rating \in Ratings, risky \in BOOLEAN : EditReview(r, rating, risky)
         \/ DeleteReview(r)
         \/ \E status \in Decisions : ModerateReview(r, status)
  PROVE  \E d : \E publishes \in BOOLEAN : ReviewChanged(r, d, publishes)
<1> USE ReviewsAssumption DEF ReviewsAssumption
<1>0. review \in [ReviewIds -> Review] BY DEF ReviewsInv, Shape, TypeOK
<1>1. PICK v : v = review[r] OBVIOUS
<1>2. /\ v \in Review /\ v.author \in Authors \cup {None} /\ v.rating \in Ratings \cup {None}
      /\ v.risky \in BOOLEAN
      /\ v.status \in {"NONE", "APPROVED", "PENDING_MODERATION", "HIDDEN", "REJECTED"}
      /\ v.by \in {"author", "scan", "moderator", "nobody"}
      /\ v = [author |-> v.author, rating |-> v.rating, risky |-> v.risky,
              status |-> v.status, by |-> v.by]
      BY <1>0, <1>1 DEF Review
<1>3. ASSUME NEW rating \in Ratings, NEW risky \in BOOLEAN, EditReview(r, rating, risky)
      PROVE  \E d : ReviewChanged(r, d, TRUE)
  <2>1. PICK d : d = [v EXCEPT !.rating = rating, !.risky = risky] OBVIOUS
  <2>2. d = [author |-> v.author, rating |-> rating, risky |-> risky, status |-> v.status, by |-> v.by]
        BY <1>2, <2>1
  <2>3. d \in Review /\ d.author = v.author /\ d.status = v.status /\ d.by = v.by
        BY <1>2, <2>2 DEF Review
  <2>4. review' = [review EXCEPT ![r] = d] BY <1>0, <1>1, <1>3, <2>1 DEF EditReview
  <2> QED BY <1>1, <1>3, <2>3, <2>4 DEF EditReview, ReviewChanged
<1>4. ASSUME DeleteReview(r) PROVE \E d : ReviewChanged(r, d, TRUE)
  <2>1. PICK d : d = [v EXCEPT !.status = "REJECTED", !.by = "author"] OBVIOUS
  <2>2. d = [author |-> v.author, rating |-> v.rating, risky |-> v.risky,
             status |-> "REJECTED", by |-> "author"]
        BY <1>2, <2>1
  <2>3. d \in Review /\ d.author = v.author /\ d.status = "REJECTED"
        BY <1>2, <2>2 DEF Review
  <2>4. review' = [review EXCEPT ![r] = d] BY <1>0, <1>1, <1>4, <2>1 DEF DeleteReview
  <2> QED BY <1>1, <1>4, <2>3, <2>4 DEF DeleteReview, ReviewChanged
<1>5. ASSUME NEW status \in Decisions, ModerateReview(r, status)
      PROVE  \E d : ReviewChanged(r, d, FALSE)
  <2>1. PICK d : d = [v EXCEPT !.status = status, !.by = "moderator"] OBVIOUS
  <2>2. d = [author |-> v.author, rating |-> v.rating, risky |-> v.risky,
             status |-> status, by |-> "moderator"]
        BY <1>2, <2>1
  <2>3. d \in Review /\ d.author = v.author /\ d.by = "moderator"
        BY <1>2, <2>2 DEF Review
  <2>4. review' = [review EXCEPT ![r] = d] BY <1>0, <1>1, <1>5, <2>1 DEF ModerateReview
  <2> QED BY <1>1, <1>5, <2>3, <2>4 DEF ModerateReview, ReviewChanged
<1> QED BY <1>3, <1>4, <1>5

-----------------------------------------------------------------------------
(* The steps of a submission. *)
LEMMA SubmitKeeps ==
  ASSUME ReviewsInv, NEW q \in Requests, NEW a \in Authors, SubmitReview(q, a)
  PROVE  ReviewsInv'
<1>0. Shape /\ UnscannedIsPending /\ SerialOK /\ req \in [Requests -> Submission] BY Known
<1>1. PICK n : n = [awaits |-> "save", author |-> a, review |-> None] OBVIOUS
<1>2. n \in Submission /\ n.awaits = "save" /\ n.author = a BY <1>1 DEF Submission
<1>3. req[q] = Idle /\ req' = [req EXCEPT ![q] = n] BY <1>1 DEF SubmitReview, Await
<1>4. \A p \in Requests : req'[p] = IF p = q THEN n ELSE req[p] BY <1>0, <1>3
<1>5. UNCHANGED <<review, stats, job, dead, unheard, overlap>> BY DEF SubmitReview
<1>6. Shape'
  <2>1. TypeOK' BY <1>0, <1>2, <1>3, <1>5 DEF Shape, TypeOK
  <2>2. \A p \in Requests : (req[p].awaits \in {"created", "published"} => Written(req[p].review))'
        BY <1>0, <1>2, <1>4, <1>5 DEF Shape, Written
  <2> QED BY <1>0, <1>5, <2>1, <2>2 DEF Shape, JobOK, Written
<1>7. UnscannedIsPending'
      BY <1>0, <1>3, <1>4, <1>5, Submissions DEF UnscannedIsPending
<1>8. ASSUME ~overlap PROVE LoneSubmission'
  <2>1. /\ \A j \in Jobs : job'[j] = Free
        /\ \A p \in Requests : req'[p] # Idle => p = q
        /\ \A r \in ReviewIds : review'[r].author # a
        BY <1>4, <1>5, <1>8 DEF SubmitReview, Starts, Quiet
  <2> QED BY <1>2, <1>4, <2>1 DEF LoneSubmission
<1>9. SerialOK'
      BY <1>0, <1>5, <1>8 DEF SerialOK, ScansOK, ScanFit, ListsOK, FiguresOK, Counted, StatsOK,
         Counting, Current, ScanAtWork, Approved, OneReviewPerAuthor, Written
<1> QED BY <1>6, <1>7, <1>9 DEF ReviewsInv

LEMMA SaveKeeps ==
  ASSUME ReviewsInv, NEW r \in ReviewIds, NEW rating \in Ratings, NEW risky \in BOOLEAN,
         NEW q \in Requests, SaveReview(q, r, rating, risky)
  PROVE  ReviewsInv'
<1> USE ReviewsAssumption DEF ReviewsAssumption
<1>0. /\ Shape /\ UnscannedIsPending /\ SerialOK
      /\ review \in [ReviewIds -> Review] /\ req \in [Requests -> Submission]
      BY Known
<1>1. PICK n : n = [awaits |-> "created", author |-> None, review |-> r] OBVIOUS
<1>2. n \in Submission /\ n.awaits = "created" /\ n.review = r /\ n # Idle
      BY <1>1, Submissions DEF Submission
<1>3. req[q].awaits = "save" /\ req[q] # Idle /\ req[q].author \in Authors
      BY <1>0, Submissions DEF SaveReview
<1>4. req' = [req EXCEPT ![q] = n] BY <1>1 DEF SaveReview, Await
<1>5. \A p \in Requests : req'[p] = IF p = q THEN n ELSE req[p] BY <1>0, <1>4
<1>6. UNCHANGED <<stats, job, dead, unheard, overlap>> BY DEF SaveReview
<1>7. PICK d : d = [author |-> req[q].author, rating |-> rating, risky |-> risky,
                    status |-> "APPROVED", by |-> "author"]
      OBVIOUS
<1>8. d \in Review /\ d.author = req[q].author /\ d.status = "APPROVED" /\ d.by = "author"
      BY <1>3, <1>7 DEF Review
<1>9. review' = [review EXCEPT ![r] = d] /\ ~Written(r) BY <1>7 DEF SaveReview
<1>10. \A s \in ReviewIds : review'[s] = IF s = r THEN d ELSE review[s] BY <1>0, <1>9
<1>11. \A s \in ReviewIds : (Written(s)' <=> s = r \/ Written(s))
       BY <1>3, <1>8, <1>9, <1>10 DEF Written
<1>12. Shape'
  <2>1. TypeOK' BY <1>0, <1>2, <1>4, <1>6, <1>8, <1>9 DEF Shape, TypeOK
  <2>2. \A p \in Requests : (req[p].awaits \in {"created", "published"} => Written(req[p].review))'
    <3>1. \A p \in Requests : req'[p].awaits \in {"created", "published"} =>
            req'[p].review \in ReviewIds /\ (req'[p].review = r \/ Written(req'[p].review))
          BY <1>0, <1>2, <1>5, Submissions DEF Shape
    <3> QED BY <1>11, <3>1 DEF Written
  <2>3. \A j \in Jobs : (JobOK(job[j]) /\ (job[j].kind = "scan" => Written(job[j].review)))'
    <3>1. \A j \in Jobs : job[j].kind = "scan" => job[j].review \in ReviewIds /\ Written(job[j].review)
          BY <1>0 DEF Shape, JobOK
    <3> QED BY <1>0, <1>6, <1>11, <3>1 DEF Shape, JobOK, Written
  <2>4. \A s \in ReviewIds : ~Written(s)' => review'[s] = NoReview
        BY <1>0, <1>10, <1>11 DEF Shape, Written
  <2> QED BY <2>1, <2>2, <2>3, <2>4 DEF Shape
<1>13. UnscannedIsPending'
  <2> SUFFICES ASSUME NEW s \in ReviewIds, review'[s].status = "APPROVED", review'[s].by = "author"
               PROVE  \/ \E p \in Requests : req'[p].awaits = "created" /\ req'[p].review = s
                      \/ \E j \in Jobs : job'[j].kind = "scan" /\ job'[j].review = s
                      \/ Handler("scan", s) \in dead' \cup unheard'
      BY DEF UnscannedIsPending
  <2>1. CASE s = r BY <1>2, <1>5, <2>1
  <2>2. CASE s # r
    <3>1. review[s].status = "APPROVED" /\ review[s].by = "author" BY <1>10, <2>2
    <3>2. \A p \in Requests : req[p].awaits = "created" => req'[p] = req[p] BY <1>3, <1>5
    <3> QED BY <1>0, <1>6, <3>1, <3>2 DEF UnscannedIsPending
  <2> QED BY <2>1, <2>2
<1>14. ASSUME ~overlap
       PROVE  (LoneSubmission /\ ScansOK /\ ListsOK /\ FiguresOK /\ StatsOK)'
  <2>1. /\ \A j \in Jobs : job'[j] = Free
        /\ \A p \in Requests : req[p] # Idle => p = q
        BY <1>0, <1>3, <1>6, <1>14 DEF SerialOK, LoneSubmission
  <2>2. \A p \in Requests : req'[p] # Idle => p = q BY <1>5, <2>1
  <2>3. LoneSubmission' BY <1>2, <1>5, <1>8, <1>10, <2>1, <2>2 DEF LoneSubmission
  <2>4. \A j \in Jobs : job[j].kind = "free" /\ job'[j].kind = "free" BY <1>6, <2>1, HandlersOK
  <2>5. dead \cup unheard = {} => \A s \in ReviewIds : Current(s)
        BY <1>0, <1>14, <2>4 DEF SerialOK, StatsOK, Counting, ScanAtWork
  <2>6. \A s \in ReviewIds : Current(s) => Current(s)'
        BY <1>6, <1>8, <1>10 DEF Current
  <2>7. StatsOK' BY <1>6, <2>5, <2>6 DEF StatsOK
  <2> QED BY <2>3, <2>4, <2>7 DEF ScansOK, ListsOK, FiguresOK
<1>15. OneReviewPerAuthor'
  <2> SUFFICES ASSUME ~overlap, NEW s \in ReviewIds, NEW t \in ReviewIds, Written(s)',
                      review'[s].author = review'[t].author
               PROVE  s = t
      BY <1>6 DEF OneReviewPerAuthor
  <2>1. \A u \in ReviewIds : review[u].author # req[q].author
        BY <1>0, <1>3 DEF SerialOK, LoneSubmission
  <2> QED BY <1>0, <1>8, <1>10, <2>1 DEF SerialOK, OneReviewPerAuthor, Written
<1> QED BY <1>6, <1>12, <1>13, <1>14, <1>15 DEF ReviewsInv, SerialOK

(* The two events, heard. *)
LEMMA PublishKeeps ==
  ASSUME ReviewsInv, NEW q \in Requests, PublishCreated(q) \/ PublishPublished(q)
  PROVE  ReviewsInv'
<1> USE ReviewsAssumption DEF ReviewsAssumption
<1> DEFINE r == req[q].review
           created == req[q].awaits = "created"
<1>0. /\ Shape /\ UnscannedIsPending /\ SerialOK
      /\ review \in [ReviewIds -> Review] /\ req \in [Requests -> Submission]
      BY Known
<1>1. /\ r \in ReviewIds /\ Written(r) /\ req[q] # Idle
      /\ req[q].awaits \in {"created", "published"}
      BY <1>0, Submissions DEF PublishCreated, PublishPublished, Shape
<1>2. PICK h : h = IF created THEN Handler("scan", r) ELSE Handler("stats", None) OBVIOUS
<1>3. /\ JobOK(h) /\ h.kind = IF created THEN "scan" ELSE "stats"
      /\ created => h.review = r
      BY <1>1, <1>2, HandlersOK
<1>4. Start(h) BY <1>1, <1>2 DEF PublishCreated, PublishPublished
<1>5. PICK k \in Jobs : job[k] = Free /\ job' = [job EXCEPT ![k] = h] BY <1>4, SlotTaken
<1>6. PICK n : n = IF created THEN [awaits |-> "published", author |-> None, review |-> r] ELSE Idle
      OBVIOUS
<1>7. /\ n \in Submission /\ n.awaits = (IF created THEN "published" ELSE "nothing")
      /\ created => n.review = r
      BY <1>1, <1>6, Submissions DEF Submission
<1>8. req' = [req EXCEPT ![q] = n] BY <1>1, <1>6 DEF PublishCreated, PublishPublished, Await
<1>9. \A p \in Requests : req'[p] = IF p = q THEN n ELSE req[p] BY <1>0, <1>8
<1>10. UNCHANGED <<review, stats, dead, unheard, overlap>> BY DEF PublishCreated, PublishPublished
<1>11. Shape' /\ \A j \in Jobs : job'[j] = IF j = k THEN h ELSE job[j]
  <2>1. (\A p \in Requests : req[p].awaits \in {"created", "published"} => Written(req[p].review))'
        BY <1>0, <1>1, <1>7, <1>9, <1>10 DEF Shape, Written
  <2>2. req' \in [Requests -> Submission] BY <1>0, <1>7, <1>8
  <2>3. h.kind = "scan" => Written(h.review)' BY <1>1, <1>3, <1>10 DEF Written
  <2>4. \A s \in ReviewIds : (Written(s) <=> Written(s)') /\ (~Written(s) => review'[s] = NoReview)
        BY <1>0, <1>10 DEF Written, Shape
  <2>5. review' \in [ReviewIds -> Review] /\ stats' \in Figures
        /\ dead' \subseteq AllHandlers /\ unheard' \subseteq AllHandlers
        BY <1>10, Known
  <2>6. Taken(k, h) BY <1>3, <1>5, <1>10, <2>1, <2>2, <2>3, <2>4, <2>5 DEF Taken, Written
  <2> QED BY <2>6, TakenShape
<1>12. \A j \in Jobs : job[j].kind = "scan" => job'[j] = job[j] BY <1>5, <1>11, HandlersOK
<1>13. UnscannedIsPending'
  <2> SUFFICES ASSUME NEW s \in ReviewIds, review[s].status = "APPROVED", review[s].by = "author"
               PROVE  \/ \E p \in Requests : req'[p].awaits = "created" /\ req'[p].review = s
                      \/ \E j \in Jobs : job'[j].kind = "scan" /\ job'[j].review = s
                      \/ Handler("scan", s) \in dead \cup unheard
      BY <1>10 DEF UnscannedIsPending
  <2>1. CASE created /\ r = s BY <1>3, <1>5, <1>11, <2>1
  <2>2. CASE ~(created /\ r = s)
    <3>1. \A p \in Requests : req[p].awaits = "created" /\ req[p].review = s => req'[p] = req[p]
          BY <1>9, <2>2
    <3> QED BY <1>0, <1>12, <3>1 DEF UnscannedIsPending
  <2> QED BY <2>1, <2>2
<1>14. ASSUME ~overlap
       PROVE  (LoneSubmission /\ ScansOK /\ ListsOK /\ FiguresOK /\ StatsOK)'
  <2>0. LoneSubmission /\ ScansOK /\ ListsOK /\ FiguresOK /\ StatsOK BY <1>0, <1>14 DEF SerialOK
  <2>1. \A p \in Requests : req[p] # Idle => p = q BY <1>1, <2>0 DEF LoneSubmission
  <2>2. created => (\A j \in Jobs : job[j] = Free) /\ review[r].status = "APPROVED"
        BY <1>1, <2>0 DEF LoneSubmission
  <2>3. LoneSubmission'
    <3>1. \A p \in Requests : req'[p] # Idle => p = q BY <1>9, <2>1
    <3> QED BY <1>7, <1>9, <3>1 DEF LoneSubmission
  <2>4. \A j \in Jobs : job'[j].kind \in {"listed", "computed"} => job'[j] = job[j]
        BY <1>3, <1>11
  <2>5. ListsOK' /\ FiguresOK'
        BY <1>10, <2>0, <2>4 DEF ListsOK, FiguresOK, Counted, Approved
  <2>6. ScansOK'
    <3>1. CASE created
      <4>1. \A j \in Jobs : job'[j].kind = "scan" => j = k BY <1>11, <2>2, <3>1, HandlersOK
      <4> QED BY <1>3, <1>5, <1>10, <1>11, <2>2, <3>1, <4>1 DEF ScansOK, ScanFit
    <3>2. CASE ~created
      <4>1. \A j \in Jobs : job'[j].kind = "scan" => job'[j] = job[j] BY <1>3, <1>11, <3>2
      <4> QED BY <1>10, <2>0, <4>1 DEF ScansOK, ScanFit
    <3> QED BY <3>1, <3>2
  <2>7. StatsOK'
    <3>1. CASE created
      <4>1. ~Counting /\ \A s \in ReviewIds : ~ScanAtWork(s)
            BY <2>2, <3>1, HandlersOK DEF Counting, ScanAtWork
      <4> QED BY <1>10, <2>0, <4>1 DEF StatsOK, Current
    <3>2. CASE ~created BY <1>3, <1>5, <1>11, <3>2 DEF StatsOK, Counting
    <3> QED BY <3>1, <3>2
  <2> QED BY <2>3, <2>5, <2>6, <2>7
<1>15. OneReviewPerAuthor' BY <1>0, <1>10 DEF SerialOK, OneReviewPerAuthor, Written
<1> QED BY <1>10, <1>11, <1>13, <1>14, <1>15 DEF ReviewsInv, SerialOK

(* One of them, refused. *)
LEMMA RefuseKeeps ==
  ASSUME ReviewsInv, NEW q \in Requests, RefuseSubmission(q)
  PROVE  ReviewsInv'
<1>0. /\ Shape /\ UnscannedIsPending /\ SerialOK
      /\ req \in [Requests -> Submission] /\ unheard \subseteq AllHandlers
      BY Known
<1>1. req[q].awaits \in {"created", "published"} /\ req[q].review \in ReviewIds /\ req[q] # Idle
      BY <1>0, Submissions DEF RefuseSubmission
<1>2. \A p \in Requests : req'[p] = IF p = q THEN Idle ELSE req[p]
      BY <1>0 DEF RefuseSubmission
<1>3. UNCHANGED <<review, stats, job, dead, overlap>> BY DEF RefuseSubmission
<1>4. /\ unheard \subseteq unheard' /\ unheard' \subseteq AllHandlers /\ unheard' # {}
      /\ req[q].awaits = "created" => Handler("scan", req[q].review) \in unheard'
      BY <1>0, <1>1 DEF RefuseSubmission, AllHandlers
<1>5. Shape'
  <2>1. req' \in [Requests -> Submission] BY <1>0, Submissions DEF RefuseSubmission
  <2>2. TypeOK' BY <1>0, <1>3, <1>4, <2>1 DEF Shape, TypeOK
  <2>3. \A p \in Requests : (req[p].awaits \in {"created", "published"} => Written(req[p].review))'
        BY <1>0, <1>2, <1>3, Submissions DEF Shape, Written
  <2> QED BY <1>0, <1>3, <2>2, <2>3 DEF Shape, JobOK, Written
<1>6. UnscannedIsPending'
  <2> SUFFICES ASSUME NEW s \in ReviewIds, review[s].status = "APPROVED", review[s].by = "author"
               PROVE  \/ \E p \in Requests : req'[p].awaits = "created" /\ req'[p].review = s
                      \/ \E j \in Jobs : job[j].kind = "scan" /\ job[j].review = s
                      \/ Handler("scan", s) \in dead \cup unheard'
      BY <1>3 DEF UnscannedIsPending
  <2> QED BY <1>0, <1>2, <1>4 DEF UnscannedIsPending
<1>7. ~overlap => LoneSubmission'
  <2>1. ~overlap => \A p \in Requests : req'[p] = Idle
        BY <1>0, <1>1, <1>2 DEF SerialOK, LoneSubmission
  <2> QED BY <2>1 DEF LoneSubmission
<1>8. StatsOK' BY <1>4 DEF StatsOK
<1>9. SerialOK'
      BY <1>0, <1>3, <1>7, <1>8 DEF SerialOK, ScansOK, ScanFit, ListsOK, FiguresOK, Counted,
         Approved, OneReviewPerAuthor, Written
<1> QED BY <1>5, <1>6, <1>9 DEF ReviewsInv

-----------------------------------------------------------------------------
(* The steps of a handler: its slot is e from then on.  Only a scan        *)
(* changes a review, and it ends having changed it, or in the dead letters.*)
Scanned(j) ==
  LET r == job[j].review IN
  /\ job[j].kind = "scan"
  /\ review' = [review EXCEPT
       ![r].status = IF review[r].risky THEN "PENDING_MODERATION" ELSE "APPROVED",
       ![r].by = "scan"]
Worked(j, e) ==
  /\ job[j] # Free /\ job' = [job EXCEPT ![j] = e] /\ JobOK(e)
  /\ e.kind = "scan" => job[j].kind = "scan" /\ e.review = job[j].review
  /\ UNCHANGED <<unheard, overlap, req>>
  /\ stats' \in Figures /\ dead \subseteq dead' /\ dead' \subseteq AllHandlers
  /\ UNCHANGED review \/ Scanned(j)
  /\ job[j].kind = "scan" => \/ e.kind = "scan" \/ Scanned(j)
                             \/ Handler("scan", job[j].review) \in dead'

LEMMA ScannedIs ==
  ASSUME ReviewsInv, NEW j \in Jobs, Scanned(j)
  PROVE  LET r == job[j].review IN
         /\ r \in ReviewIds /\ Written(r) /\ review' \in [ReviewIds -> Review]
         /\ \A s \in ReviewIds \ {r} : review'[s] = review[s]
         /\ review'[r].author = review[r].author /\ review'[r].rating = review[r].rating
         /\ review'[r].risky = review[r].risky /\ review'[r].by = "scan"
         /\ review'[r].status = IF review[r].risky THEN "PENDING_MODERATION" ELSE "APPROVED"
<1> DEFINE r == job[j].review
<1>1. /\ r \in ReviewIds /\ Written(r) /\ review \in [ReviewIds -> Review]
      BY Known DEF Scanned, Shape, JobOK
<1>2. PICK v : v = review[r] OBVIOUS
<1>3. PICK status : status = IF v.risky THEN "PENDING_MODERATION" ELSE "APPROVED" OBVIOUS
<1>4. PICK d : d = [v EXCEPT !.status = status, !.by = "scan"] OBVIOUS
<1>5. v \in Review BY <1>1, <1>2
<1>6. /\ d \in Review /\ d.author = v.author /\ d.rating = v.rating /\ d.risky = v.risky
      /\ d.status = status /\ d.by = "scan"
      BY <1>3, <1>4, <1>5 DEF Review
<1>7. review' = [review EXCEPT ![r] = d] BY <1>1, <1>2, <1>3, <1>4 DEF Scanned
<1> QED BY <1>1, <1>2, <1>3, <1>6, <1>7

LEMMA WorkKeeps ==
  ASSUME ReviewsInv, NEW j \in Jobs, NEW e, Worked(j, e),
         e.kind = "listed" => Approved' \subseteq e.list,
         ~overlap /\ e.kind = "computed" => \A s \in ReviewIds : Counted(e.figures, s)',
         ~overlap /\ dead' \cup unheard' = {} =>
           \/ e.kind \in {"stats", "listed", "computed"}
           \/ /\ job[j].kind = "scan" /\ stats' = stats
              /\ e.kind = "scan" \/ review'[job[j].review].status = "PENDING_MODERATION"
           \/ \A s \in ReviewIds : Current(s)'
  PROVE  ReviewsInv'
<1>r. PICK r : r = job[j].review OBVIOUS
<1>0. /\ Shape /\ UnscannedIsPending /\ SerialOK
      /\ review \in [ReviewIds -> Review] /\ req \in [Requests -> Submission]
      BY Known
<1>1. /\ review' \in [ReviewIds -> Review]
      /\ \A s \in ReviewIds : /\ review'[s].author = review[s].author
                              /\ review'[s].rating = review[s].rating
                              /\ review'[s].risky = review[s].risky
                              /\ review'[s] = review[s] \/ (s = r /\ Scanned(j))
  <2>1. CASE UNCHANGED review BY <1>0, <2>1
  <2>2. CASE Scanned(j) BY <1>r, <1>0, <2>2, ScannedIs
  <2> QED BY <2>1, <2>2 DEF Worked
<1>2. \A s \in ReviewIds : review'[s] # review[s] =>
        /\ s = r /\ review'[s].by = "scan" /\ job[j].kind = "scan"
        /\ review'[s].status = IF review[s].risky THEN "PENDING_MODERATION" ELSE "APPROVED"
      BY <1>r, <1>1, ScannedIs DEF Scanned
<1>3. \A s \in ReviewIds : (Written(s) <=> Written(s)')
      BY <1>1 DEF Written
<1>4. \A s \in ReviewIds : ~Written(s)' => review'[s] = NoReview
  <2>1. \A s \in ReviewIds : ~Written(s) => review'[s] = review[s]
    <3>1. Scanned(j) => Written(r) BY <1>r, ScannedIs
    <3> QED BY <1>1, <3>1
  <2> QED BY <1>0, <1>3, <2>1 DEF Shape
<1>5. Shape' /\ \A i \in Jobs : job'[i] = IF i = j THEN e ELSE job[i]
  <2>1. e.kind = "scan" => Written(e.review)'
    <3>1. job[j].kind = "scan" => Written(r) /\ r \in ReviewIds BY <1>r, <1>0 DEF Shape, JobOK
    <3> QED BY <1>r, <1>3, <3>1 DEF Worked, Written
  <2>2. (\A p \in Requests : req[p].awaits \in {"created", "published"} => Written(req[p].review))'
    <3>1. \A p \in Requests : req[p].awaits \in {"created", "published"} =>
            req[p].review \in ReviewIds /\ Written(req[p].review)
          BY <1>0, Submissions DEF Shape
    <3> QED BY <1>3, <3>1 DEF Written, Worked
  <2>3. /\ stats' \in Figures /\ dead' \subseteq AllHandlers /\ unheard' \subseteq AllHandlers
        /\ overlap' = overlap /\ req' \in [Requests -> Submission]
        /\ job' = [job EXCEPT ![j] = e] /\ JobOK(e)
        BY <1>0, Known DEF Worked
  <2>4. Taken(j, e) BY <1>1, <1>3, <1>4, <2>1, <2>2, <2>3 DEF Taken, Written
  <2> QED BY <2>4, TakenShape
<1>6. UnscannedIsPending'
  <2> SUFFICES ASSUME NEW s \in ReviewIds, review'[s].status = "APPROVED", review'[s].by = "author"
               PROVE  \/ \E p \in Requests : req'[p].awaits = "created" /\ req'[p].review = s
                      \/ \E i \in Jobs : job'[i].kind = "scan" /\ job'[i].review = s
                      \/ Handler("scan", s) \in dead' \cup unheard'
      BY DEF UnscannedIsPending
  <2>1. review[s].status = "APPROVED" /\ review[s].by = "author" BY <1>2
  <2>2. CASE \E p \in Requests : req[p].awaits = "created" /\ req[p].review = s
        BY <2>2 DEF Worked
  <2>3. CASE Handler("scan", s) \in dead \cup unheard BY <2>3 DEF Worked
  <2>4. ASSUME NEW i \in Jobs, job[i].kind = "scan", job[i].review = s
        PROVE  \/ \E k \in Jobs : job'[k].kind = "scan" /\ job'[k].review = s
               \/ Handler("scan", s) \in dead'
    <3>1. CASE i # j \/ e.kind = "scan" BY <1>5, <2>4, <3>1 DEF Worked
    <3>2. CASE i = j /\ Scanned(j) BY <2>4, <3>2, ScannedIs
    <3> QED BY <2>4, <3>1, <3>2 DEF Worked
  <2> QED BY <1>0, <2>1, <2>2, <2>3, <2>4 DEF UnscannedIsPending
<1>7. ASSUME ~overlap
      PROVE  (LoneSubmission /\ ScansOK /\ ListsOK /\ FiguresOK /\ StatsOK)'
  <2>0. LoneSubmission /\ ScansOK /\ ListsOK /\ FiguresOK /\ StatsOK BY <1>0, <1>7 DEF SerialOK
  <2>1. LoneSubmission'
    <3>1. \A q \in Requests : req[q] # Idle => /\ req[q].awaits \notin {"save", "created"}
                                               /\ \A p \in Requests : req[p] # Idle => p = q
          BY <2>0 DEF LoneSubmission, Worked
    <3> QED BY <3>1 DEF LoneSubmission, Worked
  <2>2. \A s \in ReviewIds : ScanFit(s) => ScanFit(s)' BY <1>1, <1>2 DEF ScanFit
  <2>3. ScansOK'
    <3>1. \A i \in Jobs : job'[i].kind = "scan" =>
            /\ job[i].kind = "scan" /\ job'[i].review = job[i].review /\ job[i].review \in ReviewIds
          BY <1>0, <1>5 DEF Worked, Shape, JobOK
    <3>2. \A i \in Jobs : job'[i].kind = "scan" => ScanFit(job[i].review)'
          BY <2>0, <2>2, <3>1 DEF ScansOK
    <3> QED BY <2>0, <3>1, <3>2 DEF ScansOK, ScanFit
  <2>4. \A s \in ReviewIds : review'[s].status = "APPROVED" => review[s].status = "APPROVED"
    <3>1. job[j].kind = "scan" => ScanFit(r) BY <1>r, <2>0 DEF ScansOK
    <3> QED BY <1>2, <3>1 DEF ScanFit
  <2>5. Approved' \subseteq Approved BY <2>4 DEF Approved
  <2>6. ListsOK' BY <1>5, <2>0, <2>5 DEF ListsOK
  <2>7. \A f \in Figures, s \in ReviewIds : Counted(f, s) => Counted(f, s)'
        BY <1>1, <1>2, <2>4 DEF Counted
  <2>8. FiguresOK'
    <3> SUFFICES ASSUME NEW i \in Jobs, job'[i].kind = "computed", NEW s \in ReviewIds
                 PROVE  (Counted(job[i].figures, s))'
        BY DEF FiguresOK
    <3>1. CASE i = j BY <1>5, <1>7, <3>1 DEF Counted
    <3>2. CASE i # j
      <4>1. job'[i] = job[i] /\ job[i].figures \in Figures BY <1>0, <1>5, <3>2 DEF Shape, JobOK, Job
      <4>2. Counted(job[i].figures, s) BY <2>0, <4>1 DEF FiguresOK
      <4> QED BY <2>7, <4>1, <4>2 DEF Counted
    <3> QED BY <3>1, <3>2
  <2>9. StatsOK'
    <3> SUFFICES ASSUME dead' \cup unheard' = {}
                 PROVE  Counting' \/ \A s \in ReviewIds : Current(s)' \/ ScanAtWork(s)'
        BY DEF StatsOK
    <3>1. CASE e.kind \in {"stats", "listed", "computed"} BY <1>5, <3>1 DEF Counting
    <3>2. CASE \A s \in ReviewIds : Current(s)' BY <3>2
    <3>3. CASE /\ job[j].kind = "scan" /\ stats' = stats
               /\ e.kind = "scan" \/ review'[job[j].review].status = "PENDING_MODERATION"
      <4>1. Counting \/ \A s \in ReviewIds : Current(s) \/ ScanAtWork(s)
            BY <2>0 DEF StatsOK, Worked
      <4>2. Counting => Counting' BY <1>5, <3>3 DEF Counting
      <4>3. \A s \in ReviewIds : s # r /\ ScanAtWork(s) => ScanAtWork(s)'
            BY <1>r, <1>5 DEF ScanAtWork
      <4>4. \A s \in ReviewIds : s # r /\ Current(s) => Current(s)'
            BY <1>2, <3>3 DEF Current
      <4>5. ScanAtWork(r)' \/ Current(r)'
        <5>1. CASE e.kind = "scan" BY <1>r, <1>5, <5>1 DEF ScanAtWork, Worked
        <5>2. CASE review'[r].status = "PENDING_MODERATION" BY <5>2 DEF Current
        <5> QED BY <1>r, <3>3, <5>1, <5>2
      <4> QED BY <4>1, <4>2, <4>3, <4>4, <4>5
    <3> QED BY <1>7, <3>1, <3>2, <3>3
  <2> QED BY <2>1, <2>3, <2>6, <2>8, <2>9
<1>8. OneReviewPerAuthor'
      BY <1>0, <1>1, <1>3 DEF Worked, SerialOK, OneReviewPerAuthor, Written
<1> QED BY <1>5, <1>6, <1>7, <1>8 DEF Worked, ReviewsInv, SerialOK

(* A failed attempt is followed by another, or by the dead letters. *)
Retried(j, e) ==
  /\ JobOK(e) /\ job' = [job EXCEPT ![j] = e]
  /\ dead \subseteq dead' /\ dead' \subseteq AllHandlers
  /\ e.kind \in {"free", "scan", "stats"}
  /\ e.kind = "scan" => job[j].kind = "scan" /\ e.review = job[j].review
  /\ dead' = {} => e.kind = IF job[j].kind = "scan" THEN "scan" ELSE "stats"
  /\ job[j].kind = "scan" => e.kind = "scan" \/ Handler("scan", job[j].review) \in dead'

LEMMA RetryIs ==
  ASSUME ReviewsInv, NEW j \in Jobs, job[j] # Free, Retry(j)
  PROVE  \E e : Retried(j, e)
<1> USE ReviewsAssumption DEF ReviewsAssumption
<1>1. JobOK(job[j]) /\ dead \subseteq AllHandlers /\ job[j].kind # "free" BY Known DEF JobOK
<1>2. PICK b : b = Begun(j) OBVIOUS
<1>3. PICK kind \in {"scan", "stats"}, r \in ReviewIds \cup {None} :
        /\ b = Handler(kind, r)
        /\ job[j].kind = "scan" => kind = "scan" /\ r = job[j].review /\ r \in ReviewIds
        /\ job[j].kind # "scan" => kind = "stats" /\ r = None
      BY <1>1, <1>2 DEF Begun, JobOK, Job
<1>4. b \in AllHandlers BY <1>3 DEF AllHandlers
<1>5. CASE job[j].attempt < MaxRetries
  <2>1. PICK m : m = job[j].attempt + 1 OBVIOUS
  <2>2. m \in 1..MaxRetries BY <1>1, <1>5, <2>1 DEF JobOK, Job
  <2>3. PICK e : e = [b EXCEPT !.attempt = m] OBVIOUS
  <2>4. e = [kind |-> kind, review |-> r, attempt |-> m, list |-> {}, figures |-> NoFigures]
    <3>1. b = [kind |-> kind, review |-> r, attempt |-> 1, list |-> {}, figures |-> NoFigures]
          BY <1>3, HandlerIs
    <3> QED BY <2>3, <3>1
  <2>5. e \in Job /\ e.kind = kind /\ e.review = r
    <3>1. NoFigures \in Figures BY DEF NoFigures, Figures
    <3> QED BY <2>2, <2>4, <3>1 DEF Job
  <2>6. JobOK(e) BY <1>1, <1>3, <2>5 DEF JobOK
  <2>7. job' = [job EXCEPT ![j] = e] /\ dead' = dead BY <1>2, <1>5, <2>1, <2>3 DEF Retry
  <2> QED BY <1>1, <1>3, <2>5, <2>6, <2>7 DEF Retried
<1>6. CASE ~(job[j].attempt < MaxRetries)
  <2>1. job' = [job EXCEPT ![j] = Free] /\ dead' = dead \cup {b}
        BY <1>2, <1>6 DEF Retry, Done
  <2>2. dead' # {} /\ dead \subseteq dead' /\ dead' \subseteq AllHandlers
        BY <1>1, <1>4, <2>1
  <2>3. job[j].kind = "scan" => Handler("scan", job[j].review) \in dead' BY <1>3, <2>1
  <2> QED BY <2>1, <2>2, <2>3, HandlersOK DEF Retried
<1> QED BY <1>5, <1>6

LEMMA FailKeeps ==
  ASSUME ReviewsInv, NEW j \in Jobs, FailAttempt(j)
  PROVE  ReviewsInv'
<1>1. job[j] # Free /\ Retry(j) BY DEF FailAttempt
<1>2. PICK e : Retried(j, e) BY <1>1, RetryIs
<1>3. Worked(j, e) BY <1>1, <1>2, Known DEF FailAttempt, Worked, Retried
<1>4. e.kind \notin {"listed", "computed"} BY <1>2 DEF Retried
<1>5. stats' = stats BY DEF FailAttempt
<1> QED BY <1>2, <1>3, <1>4, <1>5, WorkKeeps DEF Retried

LEMMA ScanKeeps ==
  ASSUME ReviewsInv, NEW j \in Jobs, ScanReview(j)
  PROVE  ReviewsInv'
<1>1. Scanned(j) /\ job[j] # Free /\ job[j].kind = "scan" /\ stats' = stats
      BY HandlersOK DEF ScanReview, Scanned
<1>2. CASE Retry(j)
  <2>1. PICK e : Retried(j, e) BY <1>1, <1>2, RetryIs
  <2>2. Worked(j, e) BY <1>1, <2>1, Known DEF ScanReview, Worked, Retried
  <2>3. e.kind \notin {"listed", "computed"} BY <2>1 DEF Retried
  <2> QED BY <1>1, <2>1, <2>2, <2>3, WorkKeeps DEF Retried
<1>3. CASE /\ job' = [job EXCEPT ![j] = IF review[job[j].review].risky THEN Free
                                        ELSE Handler("stats", None)]
           /\ dead' = dead
  <2>1. PICK e : e = IF review[job[j].review].risky THEN Free ELSE Handler("stats", None) OBVIOUS
  <2>2. /\ JobOK(e) /\ e.kind \notin {"scan", "listed", "computed"}
        /\ e.kind = "stats" \/ review'[job[j].review].status = "PENDING_MODERATION"
        BY <1>1, <2>1, HandlersOK, ScannedIs
  <2>3. Worked(j, e) BY <1>1, <1>3, <2>1, <2>2, Known DEF ScanReview, Worked
  <2> QED BY <1>1, <2>2, <2>3, WorkKeeps
<1> QED BY <1>2, <1>3 DEF ScanReview

LEMMA ListKeeps ==
  ASSUME ReviewsInv, NEW j \in Jobs, ListReviews(j)
  PROVE  ReviewsInv'
<1>1. PICK d : d = job[j] OBVIOUS
<1>2. JobOK(d) /\ d.kind = "stats" BY <1>1, Known DEF ListReviews
<1>3. PICK e : e = [d EXCEPT !.kind = "listed", !.list = Approved] OBVIOUS
<1>4. Approved \subseteq ReviewIds BY DEF Approved
<1>5. JobOK(e) /\ e.kind = "listed" /\ e.list = Approved
      BY <1>2, <1>3, <1>4 DEF JobOK, Job
<1>6. Worked(j, e)
      BY <1>1, <1>2, <1>3, <1>5, Known, HandlersOK DEF ListReviews, Worked
<1>7. Approved' = Approved BY DEF ListReviews, Approved
<1> QED BY <1>5, <1>6, <1>7, WorkKeeps

LEMMA ComputeKeeps ==
  ASSUME ReviewsInv, NEW j \in Jobs, ComputeStats(j)
  PROVE  ReviewsInv'
<1> USE ReviewsAssumption DEF ReviewsAssumption
<1>1. JobOK(job[j]) /\ job[j].kind = "listed" /\ job[j].review = None
      BY Known DEF ComputeStats, JobOK
<1>2. PICK f : f = [r \in ReviewIds |-> IF r \in job[j].list \cap Approved
                                         THEN review[r].rating ELSE None]
      OBVIOUS
<1>3. f \in Figures BY <1>2, Known DEF Figures, Review
<1>4. PICK b : b = Begun(j) OBVIOUS
<1>5. b = [kind |-> "stats", review |-> None, attempt |-> 1, list |-> {}, figures |-> NoFigures]
      BY <1>1, <1>4, HandlerIs DEF Begun
<1>6. PICK e : e = [b EXCEPT !.kind = "computed", !.attempt = job[j].attempt, !.figures = f] OBVIOUS
<1>7. /\ e = [kind |-> "computed", review |-> None, attempt |-> job[j].attempt, list |-> {},
              figures |-> f]
      BY <1>5, <1>6
<1>8. JobOK(e) /\ e.kind = "computed" /\ e.figures = f
      BY <1>1, <1>3, <1>7 DEF JobOK, Job
<1>9. job' = [job EXCEPT ![j] = e] BY <1>2, <1>4, <1>6 DEF ComputeStats
<1>10. UNCHANGED <<review, stats, dead, unheard, overlap, req>> BY DEF ComputeStats
<1>11. Worked(j, e) BY <1>1, <1>8, <1>9, <1>10, Known, HandlersOK DEF Worked
<1>12. ~overlap => \A s \in ReviewIds : Counted(f, s)'
  <2>1. ~overlap => Approved \subseteq job[j].list
        BY <1>1, Known DEF SerialOK, ListsOK
  <2>2. \A s \in ReviewIds : s \in Approved <=> review[s].status = "APPROVED" BY DEF Approved
  <2> QED BY <1>2, <1>10, <2>1, <2>2 DEF Counted
<1> QED BY <1>8, <1>11, <1>12, WorkKeeps

LEMMA AnnounceKeeps ==
  ASSUME ReviewsInv, NEW j \in Jobs, AnnounceStats(j)
  PROVE  ReviewsInv'
<1>1. /\ JobOK(job[j]) /\ job[j].kind = "computed" /\ job[j] # Free
      /\ job[j].figures \in Figures
      BY Known, HandlersOK DEF AnnounceStats, JobOK, Job
<1>2. CASE Retry(j)
  <2>1. PICK e : Retried(j, e) BY <1>1, <1>2, RetryIs
  <2>2. e.kind \in {"stats", "free"} /\ (dead' = {} => e.kind = "stats") BY <1>1, <2>1 DEF Retried
  <2>3. Worked(j, e) BY <1>1, <2>1, <2>2, Known DEF AnnounceStats, Worked, Retried
  <2> QED BY <2>2, <2>3, WorkKeeps
<1>3. CASE job' = Done(j) /\ UNCHANGED dead
  <2>1. Worked(j, Free) BY <1>1, <1>3, Known, HandlersOK DEF AnnounceStats, Worked, Done
  <2>2. ~overlap => \A s \in ReviewIds : Current(s)'
    <3>1. ~overlap => \A s \in ReviewIds : Counted(job[j].figures, s)
          BY <1>1, Known DEF SerialOK, FiguresOK
    <3> QED BY <3>1 DEF AnnounceStats, Counted, Current
  <2> QED BY <2>1, <2>2, HandlersOK, WorkKeeps
<1> QED BY <1>2, <1>3 DEF AnnounceStats

-----------------------------------------------------------------------------
LEMMA InitOK == Init => ReviewsInv
<1> USE ReviewsAssumption DEF ReviewsAssumption
<1> SUFFICES ASSUME Init PROVE ReviewsInv OBVIOUS
<1>1. /\ \A r \in ReviewIds : review[r] = NoReview
      /\ \A j \in Jobs : job[j] = Free
      /\ \A q \in Requests : req[q] = Idle
      BY DEF Init
<1>2. NoReview \in Review /\ NoReview.author = None /\ NoReview.status = "NONE"
      BY DEF NoReview, Review
<1>3. Free \in Job /\ Free.kind = "free" BY HandlersOK DEF JobOK
<1>4. TypeOK
  <2>1. NoFigures \in Figures BY DEF NoFigures, Figures
  <2> QED BY <1>2, <1>3, <2>1, Submissions DEF Init, TypeOK
<1>5. Shape
  <2>1. \A j \in Jobs : JobOK(job[j]) /\ job[j].kind = "free" BY <1>1, HandlersOK
  <2>2. \A q \in Requests : req[q].awaits = "nothing" BY <1>1, Submissions
  <2> QED BY <1>1, <1>4, <2>1, <2>2 DEF Shape
<1>6. UnscannedIsPending BY <1>1, <1>2 DEF UnscannedIsPending
<1>7. SerialOK
  <2>1. \A j \in Jobs : job[j].kind = "free" BY <1>3 DEF Init
  <2>2. LoneSubmission BY DEF Init, LoneSubmission
  <2>3. ScansOK /\ ListsOK /\ FiguresOK BY <2>1 DEF ScansOK, ListsOK, FiguresOK
  <2>4. StatsOK BY <1>1, <1>2 DEF StatsOK, Current
  <2>5. OneReviewPerAuthor BY <1>1, <1>2 DEF OneReviewPerAuthor, Written
  <2> QED BY <2>2, <2>3, <2>4, <2>5 DEF SerialOK
<1> QED BY <1>5, <1>6, <1>7 DEF ReviewsInv

LEMMA StepOK == ReviewsInv /\ [Next]_vars => ReviewsInv'
<1> SUFFICES ASSUME ReviewsInv, [Next]_vars PROVE ReviewsInv' OBVIOUS
<1>1. CASE \E q \in Requests, a \in Authors : SubmitReview(q, a) BY <1>1, SubmitKeeps
<1>2. CASE \E r \in ReviewIds, rating \in Ratings, risky \in BOOLEAN, q \in Requests :
             SaveReview(q, r, rating, risky)
      BY <1>2, SaveKeeps
<1>3. CASE \E r \in ReviewIds :
             \/ \E rating \in Ratings, risky \in BOOLEAN : EditReview(r, rating, risky)
             \/ DeleteReview(r)
             \/ \E status \in Decisions : ModerateReview(r, status)
  <2>1. PICK r \in ReviewIds :
             \/ \E rating \in Ratings, risky \in BOOLEAN : EditReview(r, rating, risky)
             \/ DeleteReview(r)
             \/ \E status \in Decisions : ModerateReview(r, status)
        BY <1>3
  <2>2. PICK d : \E publishes \in BOOLEAN : ReviewChanged(r, d, publishes) BY <2>1, CallsChange
  <2> QED BY <2>2, ChangeKeeps
<1>4. CASE \E q \in Requests : PublishCreated(q) \/ PublishPublished(q)
      BY <1>4, PublishKeeps
<1>5. CASE \E q \in Requests : RefuseSubmission(q) BY <1>5, RefuseKeeps
<1>6. CASE \E j \in Jobs : Work(j)
      BY <1>6, ScanKeeps, ListKeeps, ComputeKeeps, AnnounceKeeps, FailKeeps DEF Work
<1>7. CASE UNCHANGED vars
  <2>1. UNCHANGED <<review, stats, job, dead, unheard, overlap, req>> BY <1>7 DEF vars
  <2>2. Shape' BY <2>1 DEF ReviewsInv, Shape, TypeOK, JobOK, Written
  <2>3. UnscannedIsPending' BY <2>1 DEF ReviewsInv, UnscannedIsPending
  <2>4. SerialOK'
        BY <2>1 DEF ReviewsInv, SerialOK, LoneSubmission, ScansOK, ScanFit, ListsOK, FiguresOK,
                    Counted, StatsOK, Counting, Current, ScanAtWork, Approved,
                    OneReviewPerAuthor, Written
  <2> QED BY <2>2, <2>3, <2>4 DEF ReviewsInv
<1> QED BY <1>1, <1>2, <1>3, <1>4, <1>5, <1>6, <1>7 DEF Next, Call

LEMMA ReviewsInvariant == Spec => []ReviewsInv
BY InitOK, StepOK, PTL DEF Spec

-----------------------------------------------------------------------------
(* Reviews, statistics, handlers, dead letters and submissions stay well   *)
(* formed, however many there are.                                         *)
THEOREM ReviewsTypeCorrect == Spec => []TypeOK
<1>1. ReviewsInv => TypeOK BY DEF ReviewsInv, Shape
<1> QED BY <1>1, ReviewsInvariant, PTL

(* A review the author alone decided on is on its way to the scan, has it  *)
(* at work, or has it among the dead letters or the events the bus         *)
(* refused, however calls, handlers, failures and retries overlap.         *)
THEOREM NoScanIsLost == Spec => []UnscannedIsPending
<1>1. ReviewsInv => UnscannedIsPending BY DEF ReviewsInv
<1> QED BY <1>1, ReviewsInvariant, PTL

(* Submissions that wait for each other never give an author a second      *)
(* review of the professor.                                                *)
THEOREM AuthorsHaveOneReview == Spec => []OneReviewPerAuthor
<1>1. ReviewsInv => OneReviewPerAuthor BY DEF ReviewsInv, SerialOK
<1> QED BY <1>1, ReviewsInvariant, PTL

(* Whichever of the handlers of a call comes last, with all their retries, *)
(* the statistics last announced count what the scan approved and nothing  *)
(* its author deleted, unless a handler or an event was lost.              *)
THEOREM StatisticsAreCurrent == Spec => []StatsCurrent
<1>1. ReviewsInv => StatsCurrent
  <2> SUFFICES ASSUME ReviewsInv, ~overlap, Quiet, dead \cup unheard = {}
               PROVE  \A r \in ReviewIds : Current(r)
      BY DEF StatsCurrent, Current
  <2>1. ~Counting /\ \A r \in ReviewIds : ~ScanAtWork(r)
        BY HandlersOK DEF Quiet, Counting, ScanAtWork
  <2> QED BY <2>1 DEF ReviewsInv, SerialOK, StatsOK
<1> QED BY <1>1, ReviewsInvariant, PTL

(* Nothing the handlers still do brings a deleted review back.             *)
THEOREM DeletedReviewsStayDeleted == Spec => DeletedStaysDeleted
<1>1. ASSUME ReviewsInv, [Next]_vars, ~overlap, NEW r \in ReviewIds,
             review[r].status = "REJECTED", review'[r].status = "APPROVED"
      PROVE  review'[r].by = "moderator"
  <2>0. Shape /\ review \in [ReviewIds -> Review] BY <1>1 DEF ReviewsInv, Shape, TypeOK
  <2>1. review[r].author # None BY <1>1, <2>0 DEF Shape, Written, NoReview
  <2>2. ASSUME NEW s \in ReviewIds, NEW d, NEW publishes \in BOOLEAN, ReviewChanged(s, d, publishes)
        PROVE  review'[r].by = "moderator"
    <3>1. review' = [review EXCEPT ![s] = d] BY <2>2 DEF ReviewChanged
    <3>2. r = s /\ review'[r] = d BY <1>1, <2>0, <3>1
    <3> QED BY <1>1, <2>2, <3>2 DEF ReviewChanged
  <2>3. CASE \E s \in ReviewIds :
             \/ \E rating \in Ratings, risky \in BOOLEAN : EditReview(s, rating, risky)
             \/ DeleteReview(s)
             \/ \E status \in Decisions : ModerateReview(s, status)
        BY <1>1, <2>2, <2>3, CallsChange
  <2>4. CASE \E s \in ReviewIds, rating \in Ratings, risky \in BOOLEAN, q \in Requests :
               SaveReview(q, s, rating, risky)
    <3>1. PICK s \in ReviewIds : ~Written(s) /\ \E d : review' = [review EXCEPT ![s] = d]
          BY <2>4 DEF SaveReview
    <3> QED BY <1>1, <2>0, <2>1, <3>1 DEF Written
  <2>5. CASE \E j \in Jobs : ScanReview(j)
    <3>1. PICK j \in Jobs : ScanReview(j) BY <2>5
    <3>2. ScanFit(job[j].review) /\ job[j].review \in ReviewIds
          BY <1>1, <3>1 DEF ReviewsInv, Shape, SerialOK, ScansOK, JobOK, ScanReview
    <3>3. \A s \in ReviewIds \ {job[j].review} : review'[s] = review[s]
          BY <2>0, <3>1 DEF ScanReview
    <3> QED BY <1>1, <3>2, <3>3 DEF ScanFit
  <2>6. CASE UNCHANGED review BY <1>1, <2>6
  <2> QED BY <1>1, <2>3, <2>4, <2>5, <2>6
          DEF Next, Call, Work, SubmitReview, PublishCreated, PublishPublished, RefuseSubmission,
              ListReviews, ComputeStats, AnnounceStats, FailAttempt, vars
<1>2. ReviewsInv /\ [Next]_vars =>
        [~overlap => \A r \in ReviewIds :
          review[r].status = "REJECTED" /\ review'[r].status = "APPROVED" =>
            review'[r].by = "moderator"]_vars
      BY <1>1
<1> QED BY <1>2, ReviewsInvariant, PTL DEF Spec, DeletedStaysDeleted

-----------------------------------------------------------------------------
(* The resource hub.  Behind its three properties: a call in flight that   *)
(* numbers a version or a position took a number that leaves no gap; a     *)
(* count of reports that reached the threshold, stored or in the row of a  *)
(* call, has the quarantine behind it or about to be saved; a call on its  *)
(* way to a collection counts against the limit.  And when calls do not    *)
(* overlap, the copy a call holds is what is stored.                       *)

HubEntity  == [status : {"APPROVED", "QUARANTINED", "REJECTED"},
               current : Versions \cup {Nothing}]
HubVersion == [of : Resources \cup {Nothing}, number : Nat, hash : Hashes \cup {Nothing}]
HubCounts  == [reports : Nat, uses : Nat]
VisitTypes ==
  {NoVisit}
  \cup [pc : {"save"}, r : Resources, copy : HubEntity, person : BOOLEAN]
  \cup [pc : {"first"}, hash : Hashes]
  \cup [pc : {"file"}, r : Resources, v : Versions, hash : Hashes]
  \cup [pc : {"resource"}, r : Resources, v : Versions]
  \cup [pc : {"stats"}, r : Resources]
  \cup [pc : {"publish", "rollback"}, r : Resources, v : Versions, copy : HubEntity]
  \cup [pc : {"version"}, r : Resources, number : Nat]
  \cup [pc : {"report"}, r : Resources, copy : HubEntity]
  \cup [pc : {"counted"}, r : Resources, copy : HubEntity, row : HubCounts]
  \cup [pc : {"use"}, r : Resources, row : HubCounts]
  \cup [pc : {"shelve"}, c : Collections, position : Nat]

HubTypes ==
  /\ resource \in [Resources -> HubEntity \cup {NoResource}]
  /\ version \in [Versions -> HubVersion]
  /\ counts \in [Resources -> HubCounts]
  /\ shelf \in [Collections -> Seq(Nat)]
  /\ visit \in [Visits -> VisitTypes]
  /\ crowded \in BOOLEAN

(* Calls that do not overlap: one at a time. *)
LoneVisit ==
  ~crowded => \A p, q \in Visits : visit[p] # NoVisit /\ visit[q] # NoVisit => p = q

Numbered == \A r \in Resources : \E k \in Nat : NumbersOf(r) = 1..k
NumbersFit ==
  \A q \in Visits : visit[q].pc = "version" =>
    /\ visit[q].number \in Nat \ {0}
    /\ visit[q].number = 1 \/ (visit[q].number - 1) \in NumbersOf(visit[q].r)
NumbersDiffer ==
  ~crowded =>
    /\ \A r \in Resources : \A v, w \in VersionsOf(r) : version[v].number = version[w].number => v = w
    /\ \A q \in Visits : visit[q].pc = "version" => visit[q].number \notin NumbersOf(visit[q].r)
VersionsInv == Numbered /\ NumbersFit /\ NumbersDiffer

(* What is catalogued has a version, and what is not was never counted.    *)
OnCatalogued == {"save", "publish", "rollback", "version", "report", "counted", "use"}
Stocked ==
  /\ \A r \in Resources : Catalogued(r) => VersionsOf(r) # {}
  /\ \A r \in Resources : ~Catalogued(r) => counts[r] = NoCounts
  /\ \A q \in Visits : visit[q].pc \in {"file", "resource"} => VersionsOf(visit[q].r) # {}
  /\ \A q \in Visits : visit[q].pc \in OnCatalogued => Catalogued(visit[q].r)

HubBase == HubTypes /\ LoneVisit /\ VersionsInv /\ Stocked

(* The quarantine of r is about to be saved. *)
Quarantining(q, r) ==
  visit[q].pc = "save" /\ visit[q].r = r /\ visit[q].copy.status = "QUARANTINED"
Handled(r) == r \in quarantined \/ \E q \in Visits : Quarantining(q, r)
Settled(r) == \/ r \in decided \/ resource[r].status = "QUARANTINED"
              \/ \E q \in Visits : Quarantining(q, r)

AllHandled ==
  /\ \A r \in Resources : counts[r].reports >= QuarantineAt => Handled(r)
  /\ \A q \in Visits : visit[q].pc \in {"counted", "use"} =>
       (visit[q].row.reports >= QuarantineAt => Handled(visit[q].r))

(* What a call that is alone read is still stored. *)
FreshVisit(q) ==
  /\ visit[q].pc \in {"publish", "rollback", "report", "counted"} =>
       visit[q].copy = resource[visit[q].r]
  /\ visit[q].pc \in {"counted", "use"} => visit[q].row = counts[visit[q].r]
  /\ visit[q].pc = "save" =>
       visit[q].person \/ visit[q].copy.status \in {"QUARANTINED", resource[visit[q].r].status}
  /\ visit[q].pc \in {"file", "resource"} => ~Catalogued(visit[q].r)
AllSettled ==
  ~crowded =>
    /\ \A q \in Visits : FreshVisit(q)
    /\ \A r \in Resources : counts[r].reports >= QuarantineAt => Settled(r)
ReportsInv == AllHandled /\ AllSettled

(* Calls on their way to a collection count against its limit. *)
Shelving(c)   == {q \in Visits : visit[q].pc = "shelve" /\ visit[q].c = c}
ShelvingRoom  == IF crowded THEN Cardinality(Visits) ELSE 1
PositionsFit  ==
  /\ \A c \in Collections : \A i \in 1..Len(shelf[c]) :
       shelf[c][i] <= i /\ (crowded \/ shelf[c][i] = i)
  /\ \A q \in Visits : visit[q].pc = "shelve" =>
       /\ visit[q].position <= Len(shelf[visit[q].c]) + 1
       /\ crowded \/ visit[q].position = Len(shelf[visit[q].c]) + 1
ShelvesFit ==
  \A c \in Collections :
    Len(shelf[c]) + Cardinality(Shelving(c)) <= CollectionLimit - 1 + ShelvingRoom
ShelvesInv == PositionsFit /\ ShelvesFit

HubInv == HubBase /\ ReportsInv /\ ShelvesInv

-----------------------------------------------------------------------------
LEMMA VisitFields ==
  ASSUME NEW d \in VisitTypes
  PROVE  /\ d.pc \in {"none", "save", "first", "file", "resource", "stats", "publish", "rollback",
                      "version", "report", "counted", "use", "shelve"}
         /\ d.pc = "none" <=> d = NoVisit
         /\ d.pc \notin {"none", "first", "shelve"} => d.r \in Resources
         /\ d.pc \in {"save", "publish", "rollback", "report", "counted"} => d.copy \in HubEntity
         /\ d.pc = "save" => d.person \in BOOLEAN
         /\ d.pc \in {"first", "file"} => d.hash \in Hashes
         /\ d.pc \in {"file", "resource", "publish", "rollback"} => d.v \in Versions
         /\ d.pc = "version" => d.number \in Nat
         /\ d.pc \in {"counted", "use"} => d.row \in HubCounts
         /\ d.pc = "shelve" => d.c \in Collections /\ d.position \in Nat
BY DEF VisitTypes, NoVisit

LEMMA LatestIs ==
  ASSUME NEW r, NEW k \in Nat, NumbersOf(r) = 1..k
  PROVE  LatestNumber(r) = k
<1> DEFINE S == NumbersOf(r) \cup {0}
<1>1. S = 0..k BY SMT
<1>2. k \in S /\ \A n \in S : k >= n BY <1>1
<1>3. \A m \in S : (\A n \in S : m >= n) => m = k BY <1>1
<1> HIDE DEF S
<1>4. Max(S) = k BY <1>2, <1>3 DEF Max
<1> QED BY <1>4 DEF LatestNumber, S

(* A call begins: what it knows then. *)
Entering(d) ==
  \/ \E h \in Hashes : d = [pc |-> "first", hash |-> h]
  \/ \E r \in Resources : Catalogued(r) /\
       \/ \E copy \in HubEntity, person \in BOOLEAN :
            d = Saving(r, copy, person) /\ (person \/ copy.status = resource[r].status)
       \/ d = [pc |-> "version", r |-> r, number |-> LatestNumber(r) + 1]
       \/ d = [pc |-> "report", r |-> r, copy |-> resource[r]]
       \/ d = [pc |-> "use", r |-> r, row |-> counts[r]]
       \/ \E v \in Versions, use \in {"publish", "rollback"} :
            d = [pc |-> use, r |-> r, v |-> v, copy |-> resource[r]]
  \/ \E c \in Collections :
       /\ Len(shelf[c]) < CollectionLimit
       /\ d = [pc |-> "shelve", c |-> c, position |-> Len(shelf[c]) + 1]

LEMMA EnteringVisit ==
  ASSUME HubTypes, Numbered, NEW q \in Visits, HubBegin(q)
  PROVE  /\ visit[q] = NoVisit /\ (crowded \/ NobodyVisits)
         /\ UNCHANGED <<resource, version, counts, shelf, crowded, decided, quarantined>>
         /\ \E d \in VisitTypes : Entering(d) /\ visit' = [visit EXCEPT ![q] = d]
<1> USE ResourceHubAssumption DEF ResourceHubAssumption
<1> DEFINE Goal == \E d \in VisitTypes : Entering(d) /\ visit' = [visit EXCEPT ![q] = d]
<1>1. \A r \in Resources : Catalogued(r) => resource[r] \in HubEntity
      BY DEF HubTypes, Catalogued
<1>2. ASSUME NEW h \in Hashes, CreateResource(q, h) PROVE Goal
  <2>1. [pc |-> "first", hash |-> h] \in VisitTypes BY DEF VisitTypes
  <2> QED BY <1>2, <2>1 DEF CreateResource, Stay, Entering
<1>3. ASSUME NEW r \in Resources, Catalogued(r), NEW copy \in HubEntity, NEW person \in BOOLEAN,
             person \/ copy.status = resource[r].status, Overwrite(q, r, copy, person)
      PROVE  Goal
  <2>1. Saving(r, copy, person) \in VisitTypes BY DEF VisitTypes, Saving
  <2> QED BY <1>3, <2>1 DEF Overwrite, Stay, Entering
<1>4. ASSUME NEW r \in Resources, PublishResource(q, r) PROVE Goal
  <2>1. Catalogued(r) BY <1>4 DEF PublishResource, Overwrite
  <2>2. PICK e \in HubEntity : e = resource[r] BY <1>1, <2>1
  <2>3. [e EXCEPT !.status = "APPROVED"] \in HubEntity BY DEF HubEntity
  <2> QED BY <1>3, <1>4, <2>1, <2>2, <2>3 DEF PublishResource
<1>5. ASSUME NEW r \in Resources, NEW status \in {"APPROVED", "QUARANTINED", "REJECTED"},
             ModerateResource(q, r, status)
      PROVE  Goal
  <2>1. Catalogued(r) BY <1>5 DEF ModerateResource, Overwrite
  <2>2. PICK e \in HubEntity : e = resource[r] BY <1>1, <2>1
  <2>3. [e EXCEPT !.status = status] \in HubEntity BY DEF HubEntity
  <2> QED BY <1>3, <1>5, <2>1, <2>2, <2>3 DEF ModerateResource
<1>6. ASSUME NEW r \in Resources, NEW v \in Versions, ReplaceResource(q, r, v) PROVE Goal
  <2>1. Catalogued(r) BY <1>6 DEF ReplaceResource, Overwrite
  <2>2. PICK e \in HubEntity : e = resource[r] BY <1>1, <2>1
  <2>3. [e EXCEPT !.current = v] \in HubEntity /\ [e EXCEPT !.current = v].status = e.status
        BY DEF HubEntity
  <2> QED BY <1>3, <1>6, <2>1, <2>2, <2>3 DEF ReplaceResource
<1>7. ASSUME NEW r \in Resources, NEW v \in Versions, NEW use \in {"publish", "rollback"},
             ChooseVersion(q, r, v, use)
      PROVE  Goal
  <2>1. Catalogued(r) /\ resource[r] \in HubEntity BY <1>1, <1>7 DEF ChooseVersion
  <2>2. [pc |-> use, r |-> r, v |-> v, copy |-> resource[r]] \in VisitTypes BY <2>1 DEF VisitTypes
  <2> QED BY <1>7, <2>1, <2>2 DEF ChooseVersion, Stay, Entering
<1>8. ASSUME NEW r \in Resources, CreateVersion(q, r) PROVE Goal
  <2>1. LatestNumber(r) \in Nat BY LatestIs DEF Numbered
  <2>2. [pc |-> "version", r |-> r, number |-> LatestNumber(r) + 1] \in VisitTypes
        BY <2>1 DEF VisitTypes
  <2> QED BY <1>8, <2>2 DEF CreateVersion, Stay, Entering
<1>9. ASSUME NEW r \in Resources, ReportResource(q, r) PROVE Goal
  <2>1. Catalogued(r) /\ resource[r] \in HubEntity BY <1>1, <1>9 DEF ReportResource
  <2>2. [pc |-> "report", r |-> r, copy |-> resource[r]] \in VisitTypes BY <2>1 DEF VisitTypes
  <2> QED BY <1>9, <2>1, <2>2 DEF ReportResource, Stay, Entering
<1>10. ASSUME NEW r \in Resources, RecordUse(q, r) PROVE Goal
  <2>1. [pc |-> "use", r |-> r, row |-> counts[r]] \in VisitTypes BY DEF HubTypes, VisitTypes
  <2> QED BY <1>10, <2>1 DEF RecordUse, Stay, Entering
<1>11. ASSUME NEW c \in Collections, AddToCollection(q, c) PROVE Goal
  <2>1. Len(shelf[c]) \in Nat BY DEF HubTypes
  <2>2. [pc |-> "shelve", c |-> c, position |-> Len(shelf[c]) + 1] \in VisitTypes
        BY <2>1 DEF VisitTypes
  <2> QED BY <1>11, <2>2 DEF AddToCollection, Stay, Entering
<1>12. Goal
  BY <1>2, <1>4, <1>5, <1>6, <1>7, <1>8, <1>9, <1>10, <1>11 DEF HubBegin
<1>13. /\ visit[q] = NoVisit /\ (crowded \/ NobodyVisits)
       /\ UNCHANGED <<resource, version, counts, shelf, crowded, decided, quarantined>>
  BY DEF HubBegin, CreateResource, PublishResource, ModerateResource, ReplaceResource, Overwrite,
         ChooseVersion, CreateVersion, ReportResource, RecordUse, AddToCollection, Enters
<1> QED BY <1>12, <1>13

-----------------------------------------------------------------------------
(* Versions that are saved. *)
SavesVersion(v, x, n) ==
  /\ version[v] = NoVersion
  /\ \E e \in HubVersion : e.of = x /\ e.number = n /\ version' = [version EXCEPT ![v] = e]

LEMMA VersionSaved ==
  ASSUME version \in [Versions -> HubVersion],
         NEW v \in Versions, NEW x \in Resources, NEW n \in Nat, SavesVersion(v, x, n)
  PROVE  /\ version' \in [Versions -> HubVersion]
         /\ version'[v].number = n /\ \A w \in Versions \ {v} : version'[w] = version[w]
         /\ VersionsOf(x)' = VersionsOf(x) \cup {v} /\ v \notin VersionsOf(x)
         /\ NumbersOf(x)' = NumbersOf(x) \cup {n}
         /\ \A r \in Resources \ {x} : VersionsOf(r)' = VersionsOf(r) /\ NumbersOf(r)' = NumbersOf(r)
<1> USE ResourceHubAssumption DEF ResourceHubAssumption
<1>1. PICK e \in HubVersion : e.of = x /\ e.number = n /\ version' = [version EXCEPT ![v] = e]
      BY DEF SavesVersion
<1>2. e.of = x /\ e.number = n BY <1>1
<1>3. \A w \in Versions : version'[w] = IF w = v THEN e ELSE version[w] BY <1>1
<1>4. version' \in [Versions -> HubVersion] BY <1>1
<1>5. version[v].of = Nothing BY DEF SavesVersion, NoVersion
<1>6. VersionsOf(x)' = VersionsOf(x) \cup {v} /\ v \notin VersionsOf(x)
      BY <1>2, <1>3, <1>5 DEF VersionsOf
<1>7. \A r \in Resources \ {x} : VersionsOf(r)' = VersionsOf(r)
      BY <1>2, <1>3, <1>5 DEF VersionsOf
<1>8. NumbersOf(x)' = NumbersOf(x) \cup {n}
  <2>1. NumbersOf(x)' = {version'[w].number : w \in VersionsOf(x) \cup {v}} BY <1>6 DEF NumbersOf
  <2>2. \A w \in VersionsOf(x) : version'[w] = version[w] BY <1>3, <1>6 DEF VersionsOf
  <2>3. version'[v].number = n BY <1>2, <1>3
  <2>4. \A m \in NumbersOf(x)' : m \in NumbersOf(x) \cup {n}
        BY <2>1, <2>2, <2>3 DEF NumbersOf
  <2>5. \A m \in NumbersOf(x) \cup {n} : m \in NumbersOf(x)'
        BY <2>1, <2>2, <2>3 DEF NumbersOf
  <2> QED BY <2>4, <2>5
<1>9. ASSUME NEW r \in Resources \ {x} PROVE NumbersOf(r)' = NumbersOf(r)
  <2>1. NumbersOf(r)' = {version'[w].number : w \in VersionsOf(r)} BY <1>7 DEF NumbersOf
  <2>2. \A w \in VersionsOf(r) : w \in Versions /\ w # v BY <1>5 DEF VersionsOf
  <2> QED BY <1>3, <2>1, <2>2 DEF NumbersOf
<1> QED BY <1>2, <1>3, <1>4, <1>6, <1>7, <1>8, <1>9

LEMMA FileSaved ==
  ASSUME version \in [Versions -> HubVersion], NEW v \in Versions, NEW h \in Hashes,
         version' = [version EXCEPT ![v].hash = h]
  PROVE  /\ version' \in [Versions -> HubVersion]
         /\ \A w \in Versions : version'[w].number = version[w].number
         /\ \A r \in Resources : VersionsOf(r)' = VersionsOf(r) /\ NumbersOf(r)' = NumbersOf(r)
<1>1. PICK old : old = version[v] OBVIOUS
<1>2. old \in HubVersion BY <1>1
<1>3. PICK e : e = [old EXCEPT !.hash = h] OBVIOUS
<1>4. e \in HubVersion /\ e.of = old.of /\ e.number = old.number BY <1>2, <1>3 DEF HubVersion
<1>5. version' = [version EXCEPT ![v] = e] BY <1>1, <1>3
<1>6. version' \in [Versions -> HubVersion] BY <1>4, <1>5
<1>7. \A w \in Versions : version'[w].number = version[w].number /\ version'[w].of = version[w].of
      BY <1>1, <1>4, <1>5
<1>8. \A r \in Resources : VersionsOf(r)' = VersionsOf(r) BY <1>7 DEF VersionsOf
<1>9. ASSUME NEW r \in Resources PROVE NumbersOf(r)' = NumbersOf(r)
  <2>1. \A w \in VersionsOf(r) : w \in Versions BY DEF VersionsOf
  <2> QED BY <1>7, <1>8, <2>1 DEF NumbersOf
<1> QED BY <1>6, <1>7, <1>8, <1>9

LEMMA FreshVersion ==
  ASSUME NEW v \in Versions, v = Fresh({w \in Versions : version[w] = NoVersion})
  PROVE  version[v] = NoVersion
BY ResourceHubAssumption DEF ResourceHubAssumption, Fresh

LEMMA FreshResource ==
  ASSUME NEW r \in Resources, r = Fresh({s \in Resources : VersionsOf(s) = {}})
  PROVE  VersionsOf(r) = {}
BY ResourceHubAssumption DEF ResourceHubAssumption, Fresh

-----------------------------------------------------------------------------
LEMMA Alone ==
  ASSUME HubTypes, LoneVisit, NEW q \in Visits, NEW d, Stay(q, d), crowded' = crowded,
         visit[q] # NoVisit \/ crowded \/ NobodyVisits
  PROVE  /\ \A p \in Visits : visit'[p] = IF p = q THEN d ELSE visit[p]
         /\ ~crowded => \A p \in Visits \ {q} : visit[p] = NoVisit
         /\ LoneVisit'
<1>1. \A p \in Visits : visit'[p] = IF p = q THEN d ELSE visit[p] BY DEF HubTypes, Stay
<1>2. ~crowded => \A p \in Visits \ {q} : visit[p] = NoVisit BY DEF LoneVisit, NobodyVisits
<1> QED BY <1>1, <1>2 DEF LoneVisit

(* A step that saves no version. *)
LEMMA VersionsKept ==
  ASSUME HubBase, NEW q \in Visits, NEW d, Stay(q, d), crowded' = crowded,
         visit[q] # NoVisit \/ crowded \/ NobodyVisits, d.pc # "version",
         \A w \in Versions : version'[w].number = version[w].number,
         \A r \in Resources : VersionsOf(r)' = VersionsOf(r) /\ NumbersOf(r)' = NumbersOf(r)
  PROVE  VersionsInv'
<1>1. \A p \in Visits : visit'[p] = IF p = q THEN d ELSE visit[p] BY Alone DEF HubBase
<1>2. \A p \in Visits : visit'[p].pc = "version" => visit'[p] = visit[p] BY <1>1
<1>3. \A p \in Visits : visit[p].pc = "version" => visit[p].r \in Resources
      BY VisitFields DEF HubBase, HubTypes
<1>4. Numbered' BY DEF HubBase, VersionsInv, Numbered
<1>5. NumbersFit' BY <1>2, <1>3 DEF HubBase, VersionsInv, NumbersFit
<1>6. NumbersDiffer'
  <2> SUFFICES ASSUME ~crowded PROVE NumbersDiffer' BY DEF NumbersDiffer
  <2>1. \A r \in Resources : \A v, w \in VersionsOf(r) :
          v \in Versions /\ w \in Versions /\ (version[v].number = version[w].number => v = w)
        BY DEF HubBase, VersionsInv, NumbersDiffer, VersionsOf
  <2>2. \A r \in Resources : \A v, w \in VersionsOf(r)' :
          version'[v].number = version'[w].number => v = w
        BY <2>1
  <2>3. \A p \in Visits : visit'[p].pc = "version" => visit'[p].number \notin NumbersOf(visit[p].r)'
    <3> SUFFICES ASSUME NEW p \in Visits, visit'[p].pc = "version"
                 PROVE  visit'[p].number \notin NumbersOf(visit[p].r)'
        OBVIOUS
    <3>1. PICK r \in Resources : r = visit[p].r BY <1>2, <1>3
    <3>2. visit[p].number \notin NumbersOf(r) BY <1>2, <3>1 DEF HubBase, VersionsInv, NumbersDiffer
    <3> QED BY <1>2, <3>1, <3>2
  <2> QED BY <1>2, <2>2, <2>3 DEF NumbersDiffer
<1> QED BY <1>4, <1>5, <1>6 DEF VersionsInv

(* A version joins the others of its resource: a gap never opens.          *)
LEMMA VersionsGrow ==
  ASSUME HubBase, NEW q \in Visits, NEW d, Stay(q, d), crowded' = crowded,
         visit[q] # NoVisit, d.pc # "version",
         NEW v \in Versions, NEW x \in Resources, NEW n \in Nat, SavesVersion(v, x, n), n # 0,
         n = 1 \/ (n - 1) \in NumbersOf(x), ~crowded => n \notin NumbersOf(x)
  PROVE  VersionsInv'
<1>1. \A p \in Visits : visit'[p] = IF p = q THEN d ELSE visit[p] BY Alone DEF HubBase
<1>2. /\ version'[v].number = n /\ \A w \in Versions \ {v} : version'[w] = version[w]
      /\ VersionsOf(x)' = VersionsOf(x) \cup {v} /\ v \notin VersionsOf(x)
      /\ NumbersOf(x)' = NumbersOf(x) \cup {n}
      /\ \A r \in Resources \ {x} : VersionsOf(r)' = VersionsOf(r) /\ NumbersOf(r)' = NumbersOf(r)
  <2>1. version \in [Versions -> HubVersion] BY DEF HubBase, HubTypes
  <2> QED BY <2>1, VersionSaved
<1>3. Numbered'
  <2>1. PICK k \in Nat : NumbersOf(x) = 1..k BY DEF HubBase, VersionsInv, Numbered
  <2>2. n \in 1..(k + 1) BY <2>1
  <2>3. NumbersOf(x) \cup {n} = 1..k \/ NumbersOf(x) \cup {n} = 1..(k + 1) BY <2>1, <2>2
  <2>4. \E m \in Nat : NumbersOf(x)' = 1..m BY <1>2, <2>3
  <2>5. \A r \in Resources \ {x} : \E m \in Nat : NumbersOf(r)' = 1..m
        BY <1>2 DEF HubBase, VersionsInv, Numbered
  <2> QED BY <2>4, <2>5 DEF Numbered
<1>4. NumbersFit'
  <2> SUFFICES ASSUME NEW p \in Visits, visit'[p].pc = "version"
               PROVE  /\ visit'[p].number \in Nat \ {0}
                      /\ visit'[p].number = 1 \/ (visit'[p].number - 1) \in NumbersOf(visit[p].r)'
      BY <1>1 DEF NumbersFit
  <2>1. visit'[p] = visit[p] BY <1>1
  <2>2. PICK r \in Resources : r = visit[p].r BY <2>1, VisitFields DEF HubBase, HubTypes
  <2>3. visit[p].number \in Nat \ {0} /\ (visit[p].number = 1 \/ (visit[p].number - 1) \in NumbersOf(r))
        BY <2>1, <2>2 DEF HubBase, VersionsInv, NumbersFit
  <2>4. NumbersOf(r) \subseteq NumbersOf(r)' BY <1>2
  <2> QED BY <2>1, <2>2, <2>3, <2>4
<1>5. ASSUME ~crowded
      PROVE  /\ \A r \in Resources : \A u, w \in VersionsOf(r)' :
                  version'[u].number = version'[w].number => u = w
             /\ \A p \in Visits : visit'[p].pc # "version"
  <2>1. \A r \in Resources : \A u, w \in VersionsOf(r) :
          u \in Versions /\ w \in Versions /\ (version[u].number = version[w].number => u = w)
        BY <1>5 DEF HubBase, VersionsInv, NumbersDiffer, VersionsOf
  <2>2. \A r \in Resources \ {x} : \A u \in VersionsOf(r) : u # v
        BY ResourceHubAssumption
        DEF ResourceHubAssumption, SavesVersion, VersionsOf, NoVersion
  <2>3. \A r \in Resources \ {x} : \A u, w \in VersionsOf(r)' :
          version'[u].number = version'[w].number => u = w
        BY <1>2, <2>1, <2>2
  <2>4. \A u \in VersionsOf(x) : version'[u] = version[u] /\ version[u].number # n
        BY <1>2, <1>5, <2>1 DEF NumbersOf
  <2>5. \A u, w \in VersionsOf(x)' : version'[u].number = version'[w].number => u = w
        BY <1>2, <2>1, <2>4
  <2>6. \A p \in Visits \ {q} : visit[p] = NoVisit BY <1>5, Alone DEF HubBase
  <2>7. \A p \in Visits : visit'[p].pc # "version" BY <1>1, <2>6 DEF NoVisit
  <2> QED BY <2>3, <2>5, <2>7
<1>6. NumbersDiffer' BY <1>5 DEF NumbersDiffer
<1> QED BY <1>3, <1>4, <1>6 DEF VersionsInv

LEMMA VersionsBegun ==
  ASSUME HubBase, NEW q \in Visits, NEW d \in VisitTypes, Entering(d), Stay(q, d),
         visit[q] = NoVisit, crowded \/ NobodyVisits,
         UNCHANGED <<version, crowded>>
  PROVE  VersionsInv'
<1>1. /\ \A w \in Versions : version'[w].number = version[w].number
      /\ \A r \in Resources : VersionsOf(r)' = VersionsOf(r) /\ NumbersOf(r)' = NumbersOf(r)
      BY DEF VersionsOf, NumbersOf
<1>2. CASE d.pc # "version" BY <1>1, <1>2, VersionsKept
<1>3. CASE d.pc = "version"
  <2>1. PICK r \in Resources : d = [pc |-> "version", r |-> r, number |-> LatestNumber(r) + 1]
        BY <1>3 DEF Entering, Saving
  <2>2. PICK k \in Nat : NumbersOf(r) = 1..k BY DEF HubBase, VersionsInv, Numbered
  <2>3. d.r = r /\ d.number = k + 1 BY <2>1, <2>2, LatestIs
  <2>4. \A p \in Visits : visit'[p] = IF p = q THEN d ELSE visit[p] BY Alone DEF HubBase
  <2>5. ~crowded => \A p \in Visits \ {q} : visit[p] = NoVisit BY Alone DEF HubBase
  <2>6. Numbered' BY <1>1 DEF HubBase, VersionsInv, Numbered
  <2>7. \A p \in Visits : visit[p].pc = "version" => visit[p].r \in Resources
        BY VisitFields DEF HubBase, HubTypes
  <2>8. NumbersFit'
    <3>1. d.number \in Nat \ {0} /\ (d.number = 1 \/ (d.number - 1) \in NumbersOf(r)')
          BY <1>1, <2>2, <2>3
    <3>2. ASSUME NEW p \in Visits \ {q}, visit[p].pc = "version"
          PROVE  /\ visit'[p].number \in Nat \ {0}
                 /\ visit'[p].number = 1 \/ (visit'[p].number - 1) \in NumbersOf(visit[p].r)'
      <4>1. PICK t \in Resources : t = visit[p].r BY <2>7, <3>2
      <4>2. /\ visit[p].number \in Nat \ {0}
            /\ visit[p].number = 1 \/ (visit[p].number - 1) \in NumbersOf(t)'
            BY <1>1, <3>2, <4>1 DEF HubBase, VersionsInv, NumbersFit
      <4> QED BY <2>4, <4>1, <4>2
    <3> QED BY <2>3, <2>4, <3>1, <3>2 DEF NumbersFit
  <2>9. NumbersDiffer'
    <3> SUFFICES ASSUME ~crowded PROVE NumbersDiffer' BY DEF NumbersDiffer
    <3>1. \A s \in Resources : \A v, w \in VersionsOf(s)' :
            version'[v].number = version'[w].number => v = w
          BY DEF HubBase, VersionsInv, NumbersDiffer, VersionsOf
    <3>2. d.number \notin NumbersOf(r)' BY <1>1, <2>2, <2>3
    <3>3. \A p \in Visits : visit'[p].pc = "version" => p = q
          BY <2>4, <2>5 DEF NoVisit
    <3> QED BY <2>3, <2>4, <3>1, <3>2, <3>3 DEF NumbersDiffer, NumbersOf, VersionsOf
  <2> QED BY <2>6, <2>8, <2>9 DEF VersionsInv
<1> QED BY <1>2, <1>3

-----------------------------------------------------------------------------
(* What every step leaves of the base: what is catalogued stays so, and    *)
(* versions never leave their resource.                                    *)
LEMMA BaseKept ==
  ASSUME HubBase, NEW q \in Visits, NEW d \in VisitTypes, Stay(q, d), crowded' = crowded,
         visit[q] # NoVisit \/ crowded \/ NobodyVisits, VersionsInv',
         resource' \in [Resources -> HubEntity \cup {NoResource}],
         version' \in [Versions -> HubVersion], counts' \in [Resources -> HubCounts],
         shelf' \in [Collections -> Seq(Nat)],
         \A r \in Resources :
           /\ Catalogued(r) => Catalogued(r)'
           /\ VersionsOf(r) \subseteq VersionsOf(r)'
           /\ Catalogued(r)' => Catalogued(r) \/ VersionsOf(r)' # {}
           /\ ~Catalogued(r)' => counts'[r] = NoCounts,
         d.pc \in {"file", "resource"} => VersionsOf(d.r)' # {},
         d.pc \in OnCatalogued => Catalogued(d.r)'
  PROVE  HubBase'
<1>1. \A p \in Visits : visit'[p] = IF p = q THEN d ELSE visit[p] BY Alone DEF HubBase
<1>2. LoneVisit' BY Alone DEF HubBase
<1>3. HubTypes' BY DEF HubBase, HubTypes, Stay
<1>4. \A p \in Visits : visit[p].pc \in OnCatalogued \cup {"file", "resource"} => visit[p].r \in Resources
      BY VisitFields DEF HubBase, HubTypes, OnCatalogued
<1>5. Stocked'
  <2>1. \A r \in Resources : Catalogued(r)' => VersionsOf(r)' # {}
        BY DEF HubBase, Stocked
  <2>2. ASSUME NEW p \in Visits, p # q, NEW r \in Resources, r = visit[p].r
        PROVE  /\ visit[p].pc \in {"file", "resource"} => VersionsOf(r)' # {}
               /\ visit[p].pc \in OnCatalogued => Catalogued(r)'
        BY <2>2 DEF HubBase, Stocked
  <2>3. \A p \in Visits : visit'[p].pc \in {"file", "resource"} => VersionsOf(visit[p].r)' # {}
        BY <1>1, <1>4, <2>2
  <2>4. \A p \in Visits : visit'[p].pc \in OnCatalogued => Catalogued(visit[p].r)'
        BY <1>1, <1>4, <2>2
  <2> QED BY <2>1, <2>3, <2>4 DEF Stocked
<1> QED BY <1>2, <1>3, <1>5 DEF HubBase

LEMMA BaseBegun ==
  ASSUME HubBase, NEW q \in Visits, NEW d \in VisitTypes, Entering(d), Stay(q, d),
         visit[q] = NoVisit, crowded \/ NobodyVisits,
         UNCHANGED <<resource, version, counts, shelf, crowded>>
  PROVE  HubBase'
<1>1. VersionsInv' BY VersionsBegun
<1>2. \A r \in Resources : (Catalogued(r) <=> Catalogued(r)') /\ VersionsOf(r)' = VersionsOf(r)
      BY DEF Catalogued, VersionsOf
<1>3. /\ d.pc \notin {"file", "resource"}
      /\ d.pc \in OnCatalogued => d.r \in Resources /\ Catalogued(d.r)
      BY DEF Entering, Saving, OnCatalogued
<1>4. d.pc \in OnCatalogued => Catalogued(d.r)' BY <1>2, <1>3
<1> QED BY <1>1, <1>2, <1>3, <1>4, BaseKept DEF HubBase, HubTypes, Stocked

LEMMA BaseProceeds ==
  ASSUME HubBase, NEW q \in Visits, HubProceed(q)
  PROVE  HubBase' /\ visit[q] # NoVisit /\ crowded' = crowded
                  /\ \E d \in VisitTypes : Stay(q, d)
<1> USE ResourceHubAssumption DEF ResourceHubAssumption
<1> DEFINE Goal == HubBase' /\ visit[q] # NoVisit /\ crowded' = crowded
                            /\ \E d \in VisitTypes : Stay(q, d)
<1>0. /\ HubTypes /\ Stocked /\ visit[q] \in VisitTypes
      /\ NoVisit \in VisitTypes /\ NoVisit.pc = "none"
      BY DEF HubBase, HubTypes, VisitTypes, NoVisit
<1>1. ASSUME visit[q].pc # "none", crowded' = crowded, UNCHANGED version,
             NEW d \in VisitTypes, Stay(q, d), d.pc # "version",
             resource' \in [Resources -> HubEntity \cup {NoResource}],
             counts' \in [Resources -> HubCounts], shelf' \in [Collections -> Seq(Nat)],
             \A r \in Resources :
               /\ Catalogued(r) => Catalogued(r)'
               /\ Catalogued(r)' => Catalogued(r) \/ VersionsOf(r) # {}
               /\ ~Catalogued(r)' => counts'[r] = NoCounts,
             d.pc \notin {"file", "resource"},
             d.pc \in OnCatalogued => Catalogued(d.r)'
      PROVE  Goal
  <2>1. visit[q] # NoVisit BY <1>0, <1>1
  <2>2. \A r \in Resources : VersionsOf(r)' = VersionsOf(r) /\ NumbersOf(r)' = NumbersOf(r)
        BY <1>1 DEF VersionsOf, NumbersOf
  <2>3. VersionsInv' BY <1>1, <2>1, <2>2, VersionsKept
  <2>4. version' \in [Versions -> HubVersion] BY <1>0, <1>1 DEF HubTypes
  <2> QED BY <1>1, <2>1, <2>2, <2>3, <2>4, BaseKept
<1>2. ASSUME visit[q].pc # "none", UNCHANGED <<resource, version, counts, crowded>>,
             NEW d \in VisitTypes, Stay(q, d), d.pc # "version",
             shelf' \in [Collections -> Seq(Nat)],
             d.pc \notin {"file", "resource"},
             d.pc \in OnCatalogued => d.r \in Resources /\ Catalogued(d.r)
      PROVE  Goal
  <2>1. \A r \in Resources : Catalogued(r)' <=> Catalogued(r) BY <1>2 DEF Catalogued
  <2> QED BY <1>0, <1>1, <1>2, <2>1 DEF HubTypes, Stocked
<1>3. ASSUME visit[q].pc # "none", UNCHANGED <<resource, version, crowded, shelf>>,
             NEW d \in VisitTypes, Stay(q, d), d.pc # "version",
             NEW r \in Resources, NEW row \in HubCounts, counts' = [counts EXCEPT ![r] = row],
             Catalogued(r) \/ row = NoCounts,
             d.pc \notin {"file", "resource"},
             d.pc \in OnCatalogued => d.r = r /\ Catalogued(r)
      PROVE  Goal
  <2>1. \A s \in Resources : Catalogued(s)' <=> Catalogued(s) BY <1>3 DEF Catalogued
  <2>2. counts' \in [Resources -> HubCounts] BY <1>0, <1>3 DEF HubTypes
  <2>3. \A s \in Resources : ~Catalogued(s) => counts'[s] = NoCounts
        BY <1>0, <1>3 DEF HubTypes, Stocked
  <2>4. d.pc \in OnCatalogued => Catalogued(d.r)' BY <1>3, <2>1
  <2> QED BY <1>0, <1>1, <1>3, <2>1, <2>2, <2>3, <2>4 DEF HubTypes
<1>4. ASSUME NEW v \in Versions, SaveVersion(q, v) PROVE Goal
  <2>1. PICK x \in Resources, n \in Nat : x = visit[q].r /\ n = visit[q].number
        BY <1>0, <1>4, VisitFields DEF SaveVersion
  <2>2. n # 0 /\ (n = 1 \/ (n - 1) \in NumbersOf(x)) /\ (~crowded => n \notin NumbersOf(x))
        BY <1>4, <2>1 DEF SaveVersion, HubBase, VersionsInv, NumbersFit, NumbersDiffer
  <2>3. /\ Stay(q, NoVisit) /\ visit[q] # NoVisit
        /\ SavesVersion(v, x, n)
        /\ UNCHANGED <<resource, counts, shelf, crowded>>
    <3>1. PICK e : e = [of |-> x, number |-> n, hash |-> Nothing] OBVIOUS
    <3>2. e \in HubVersion /\ e.of = x /\ e.number = n BY <3>1 DEF HubVersion
    <3> QED BY <1>0, <1>4, <2>1, <3>1, <3>2, FreshVersion DEF SaveVersion, SavesVersion, Leave
  <2>4. VersionsInv' BY <1>0, <2>2, <2>3, VersionsGrow
  <2>5. /\ version' \in [Versions -> HubVersion]
        /\ \A r \in Resources : VersionsOf(r) \subseteq VersionsOf(r)'
        BY <1>0, <2>3, VersionSaved DEF HubTypes
  <2>6. \A r \in Resources : Catalogued(r)' <=> Catalogued(r) BY <2>3 DEF Catalogued
  <2> QED BY <1>0, <2>3, <2>4, <2>5, <2>6, BaseKept DEF HubTypes, Stocked, OnCatalogued
<1>5. ASSUME NEW v \in Versions, NEW r \in Resources, SaveFirstVersion(q, r, v) PROVE Goal
  <2>1. VersionsOf(r) = {} /\ version[v] = NoVersion
        BY <1>5, FreshVersion, FreshResource DEF SaveFirstVersion
  <2>2. PICK h \in Hashes : h = visit[q].hash BY <1>0, <1>5, VisitFields DEF SaveFirstVersion
  <2>3. PICK d : d = [pc |-> "file", r |-> r, v |-> v, hash |-> h] OBVIOUS
  <2>4. d \in VisitTypes /\ d.pc = "file" /\ d.r = r BY <2>3 DEF VisitTypes
  <2>5. /\ Stay(q, d) /\ visit[q] # NoVisit
        /\ SavesVersion(v, r, 1)
        /\ UNCHANGED <<resource, counts, shelf, crowded>>
    <3>1. PICK e : e = [of |-> r, number |-> 1, hash |-> Nothing] OBVIOUS
    <3>2. e \in HubVersion /\ e.of = r /\ e.number = 1 BY <3>1 DEF HubVersion
    <3> QED BY <1>0, <1>5, <2>2, <2>3, <2>1, <3>1, <3>2 DEF SaveFirstVersion, SavesVersion
  <2>6. NumbersOf(r) = {} BY <2>1 DEF NumbersOf
  <2>7. VersionsInv' BY <2>1, <2>4, <2>5, <2>6, VersionsGrow
  <2>8. /\ version' \in [Versions -> HubVersion] /\ VersionsOf(r)' # {}
        /\ \A s \in Resources : VersionsOf(s) \subseteq VersionsOf(s)'
        BY <1>0, <2>1, <2>5, VersionSaved DEF HubTypes
  <2>9. \A s \in Resources : Catalogued(s)' <=> Catalogued(s) BY <2>5 DEF Catalogued
  <2>10. VersionsOf(d.r)' # {} BY <2>4, <2>8
  <2> QED BY <1>0, <2>4, <2>5, <2>7, <2>8, <2>9, <2>10, BaseKept DEF HubTypes, Stocked, OnCatalogued
<1>6. CASE SaveFile(q)
  <2>1. PICK v \in Versions, h \in Hashes, r \in Resources :
          v = visit[q].v /\ h = visit[q].hash /\ r = visit[q].r
        BY <1>0, <1>6, VisitFields DEF SaveFile
  <2>2. PICK d : d = [pc |-> "resource", r |-> r, v |-> v] OBVIOUS
  <2>3. d \in VisitTypes /\ d.pc = "resource" /\ d.r = r BY <2>2 DEF VisitTypes
  <2>4. /\ Stay(q, d) /\ visit[q] # NoVisit /\ VersionsOf(r) # {}
        /\ version' = [version EXCEPT ![v].hash = h]
        /\ UNCHANGED <<resource, counts, shelf, crowded>>
        BY <1>0, <1>6, <2>1, <2>2 DEF SaveFile, Stocked
  <2>5. /\ version' \in [Versions -> HubVersion]
        /\ \A w \in Versions : version'[w].number = version[w].number
        /\ \A s \in Resources : VersionsOf(s)' = VersionsOf(s) /\ NumbersOf(s)' = NumbersOf(s)
        BY <1>0, <2>4, FileSaved DEF HubTypes
  <2>6. VersionsInv' BY <2>3, <2>4, <2>5, VersionsKept
  <2>7. \A s \in Resources : Catalogued(s)' <=> Catalogued(s) BY <2>4 DEF Catalogued
  <2>8. VersionsOf(d.r)' # {} BY <2>3, <2>4, <2>5
  <2> QED BY <1>0, <2>3, <2>4, <2>5, <2>6, <2>7, <2>8, BaseKept DEF HubTypes, Stocked, OnCatalogued
<1>7. CASE SaveNewResource(q)
  <2>1. PICK v \in Versions, r \in Resources : v = visit[q].v /\ r = visit[q].r
        BY <1>0, <1>7, VisitFields DEF SaveNewResource
  <2>2. PICK e : e = [status |-> "APPROVED", current |-> v] OBVIOUS
  <2>3. e \in HubEntity /\ e # NoResource BY <2>2 DEF HubEntity, NoResource
  <2>4. PICK d : d = [pc |-> "stats", r |-> r] OBVIOUS
  <2>5. d \in VisitTypes /\ d.pc = "stats" BY <2>4 DEF VisitTypes
  <2>6. /\ Stay(q, d) /\ visit[q].pc # "none" /\ VersionsOf(r) # {}
        /\ resource' = [resource EXCEPT ![r] = e]
        /\ UNCHANGED <<version, counts, shelf, crowded>>
        BY <1>0, <1>7, <2>1, <2>2, <2>4 DEF SaveNewResource, Stocked
  <2>7. resource' \in [Resources -> HubEntity \cup {NoResource}]
        /\ \A s \in Resources : Catalogued(s)' <=> (Catalogued(s) \/ s = r)
        BY <1>0, <2>3, <2>6 DEF HubTypes, Catalogued
  <2> QED BY <1>0, <1>1, <2>5, <2>6, <2>7 DEF HubTypes, Stocked, OnCatalogued
<1>8. CASE SaveResource(q)
  <2>1. PICK e \in HubEntity, r \in Resources : e = visit[q].copy /\ r = visit[q].r
        BY <1>0, <1>8, VisitFields DEF SaveResource
  <2>2. e # NoResource BY DEF HubEntity, NoResource
  <2>3. /\ Stay(q, NoVisit) /\ visit[q].pc # "none" /\ Catalogued(r)
        /\ resource' = [resource EXCEPT ![r] = e]
        /\ UNCHANGED <<version, counts, shelf, crowded>>
        BY <1>0, <1>8, <2>1 DEF SaveResource, Leave, Stocked, OnCatalogued
  <2>4. resource' \in [Resources -> HubEntity \cup {NoResource}]
        /\ \A s \in Resources : Catalogued(s)' <=> Catalogued(s)
        BY <1>0, <2>2, <2>3 DEF HubTypes, Catalogued
  <2> QED BY <1>0, <1>1, <2>3, <2>4 DEF HubTypes, Stocked, OnCatalogued
<1>9. CASE SaveInitialStats(q)
  <2>1. PICK r \in Resources : r = visit[q].r BY <1>0, <1>9, VisitFields DEF SaveInitialStats
  <2>2. NoCounts \in HubCounts BY DEF NoCounts, HubCounts
  <2> QED BY <1>0, <1>3, <1>9, <2>1, <2>2 DEF SaveInitialStats, Leave, OnCatalogued
<1>10. CASE FindVersion(q)
  <2>1. PICK e \in HubEntity, r \in Resources, v \in Versions :
          e = visit[q].copy /\ r = visit[q].r /\ v = visit[q].v
        BY <1>0, <1>10, VisitFields DEF FindVersion
  <2>2. PICK d : d = Saving(r, [e EXCEPT !.current = v], FALSE) OBVIOUS
  <2>3. [e EXCEPT !.current = v] \in HubEntity BY DEF HubEntity
  <2>4. d \in VisitTypes /\ d.pc = "save" /\ d.r = r BY <2>2, <2>3 DEF VisitTypes, Saving
  <2>5. Catalogued(r) /\ visit[q].pc # "none" BY <1>0, <1>10, <2>1 DEF FindVersion, Stocked, OnCatalogued
  <2>6. CASE Stay(q, d)
        BY <1>0, <1>2, <1>10, <2>4, <2>5, <2>6 DEF FindVersion, HubTypes, OnCatalogued
  <2>7. CASE Stay(q, NoVisit)
        BY <1>0, <1>2, <1>10, <2>5, <2>7 DEF FindVersion, HubTypes, OnCatalogued
  <2> QED BY <1>10, <2>1, <2>2, <2>6, <2>7 DEF FindVersion, Leave
<1>11. CASE FindCounts(q)
  <2>1. PICK e \in HubEntity, r \in Resources : e = visit[q].copy /\ r = visit[q].r
        BY <1>0, <1>11, VisitFields DEF FindCounts
  <2>2. PICK d : d = [pc |-> "counted", r |-> r, copy |-> e, row |-> counts[r]] OBVIOUS
  <2>3. counts[r] \in HubCounts BY <1>0 DEF HubTypes
  <2>4. d \in VisitTypes /\ d.pc = "counted" /\ d.r = r BY <2>2, <2>3 DEF VisitTypes
  <2>5. Catalogued(r) /\ visit[q].pc # "none" /\ Stay(q, d)
        BY <1>0, <1>11, <2>1, <2>2 DEF FindCounts, Stocked, OnCatalogued
  <2> QED BY <1>0, <1>2, <1>11, <2>4, <2>5 DEF FindCounts, HubTypes, OnCatalogued
<1>12. CASE SaveReport(q)
  <2>1. PICK e \in HubEntity, r \in Resources, row \in HubCounts :
          e = visit[q].copy /\ r = visit[q].r /\ row = visit[q].row
        BY <1>0, <1>12, VisitFields DEF SaveReport
  <2>2. PICK new : new = [row EXCEPT !.reports = row.reports + 1] OBVIOUS
  <2>3. new \in HubCounts BY <2>2 DEF HubCounts
  <2>4. PICK d : d = Saving(r, [e EXCEPT !.status = "QUARANTINED"], FALSE) OBVIOUS
  <2>5. [e EXCEPT !.status = "QUARANTINED"] \in HubEntity BY DEF HubEntity
  <2>6. d \in VisitTypes /\ d.pc = "save" /\ d.r = r BY <2>4, <2>5 DEF VisitTypes, Saving
  <2>7. /\ Catalogued(r) /\ visit[q].pc # "none"
        /\ counts' = [counts EXCEPT ![r] = new] /\ UNCHANGED <<resource, version, shelf, crowded>>
        /\ Stay(q, d) \/ Stay(q, NoVisit)
        BY <1>0, <1>12, <2>1, <2>2, <2>4 DEF SaveReport, Leave, Stocked, OnCatalogued
  <2> QED BY <1>0, <1>3, <2>3, <2>6, <2>7 DEF OnCatalogued
<1>13. CASE SaveUse(q)
  <2>1. PICK r \in Resources, row \in HubCounts : r = visit[q].r /\ row = visit[q].row
        BY <1>0, <1>13, VisitFields DEF SaveUse
  <2>2. PICK new : new = [row EXCEPT !.uses = row.uses + 1] OBVIOUS
  <2>3. new \in HubCounts BY <2>2 DEF HubCounts
  <2>4. /\ Catalogued(r) /\ visit[q].pc # "none" /\ Stay(q, NoVisit)
        /\ counts' = [counts EXCEPT ![r] = new] /\ UNCHANGED <<resource, version, shelf, crowded>>
        BY <1>0, <1>13, <2>1, <2>2 DEF SaveUse, Leave, Stocked, OnCatalogued
  <2> QED BY <1>0, <1>3, <2>3, <2>4 DEF OnCatalogued
<1>14. CASE Shelve(q)
  <2>1. PICK c \in Collections, n \in Nat : c = visit[q].c /\ n = visit[q].position
        BY <1>0, <1>14, VisitFields DEF Shelve
  <2>2. /\ visit[q].pc # "none" /\ Stay(q, NoVisit) /\ shelf' = [shelf EXCEPT ![c] = Append(shelf[c], n)]
        /\ UNCHANGED <<resource, version, counts, crowded>>
        BY <1>14, <2>1 DEF Shelve, Leave
  <2>3. Append(shelf[c], n) \in Seq(Nat) BY <1>0 DEF HubTypes
  <2>4. shelf' \in [Collections -> Seq(Nat)] BY <1>0, <2>2, <2>3 DEF HubTypes
  <2> QED BY <1>0, <1>2, <2>2, <2>4 DEF OnCatalogued
<1> QED BY <1>4, <1>5, <1>6, <1>7, <1>8, <1>9, <1>10, <1>11, <1>12, <1>13, <1>14 DEF HubProceed

-----------------------------------------------------------------------------
(* Collections. *)
LEMMA RoomToShelve ==
  ASSUME HubTypes, NEW S \in SUBSET Visits, ~crowded => \A p, q \in S : p = q
  PROVE  /\ IsFiniteSet(S) /\ Cardinality(S) \in Nat
         /\ ShelvingRoom \in Nat /\ Cardinality(S) <= ShelvingRoom
<1> USE ResourceHubAssumption DEF ResourceHubAssumption
<1>1. IsFiniteSet(Visits) /\ Cardinality(Visits) \in Nat BY FS_CardinalityType
<1>2. IsFiniteSet(S) /\ Cardinality(S) \in Nat /\ Cardinality(S) <= Cardinality(Visits)
      BY <1>1, FS_Subset, FS_CardinalityType
<1>3. CASE crowded BY <1>1, <1>2, <1>3 DEF ShelvingRoom
<1>4. CASE ~crowded
  <2>1. CASE S = {} BY <1>2, <1>4, <2>1, FS_EmptySet DEF ShelvingRoom
  <2>2. CASE S # {}
    <3>1. \E p : S = {p} BY <1>4, <2>2
    <3>2. Cardinality(S) = 1 BY <1>2, <3>1, FS_Singleton
    <3> QED BY <1>2, <1>4, <3>2 DEF ShelvingRoom
  <2> QED BY <2>1, <2>2
<1> QED BY <1>3, <1>4 DEF HubTypes

LEMMA ShelvesKept ==
  ASSUME HubBase, ShelvesInv, NEW q \in Visits, NEW d, Stay(q, d), crowded' = crowded,
         visit[q] # NoVisit \/ crowded \/ NobodyVisits,
         shelf' = shelf, visit[q].pc # "shelve", d.pc # "shelve"
  PROVE  ShelvesInv'
<1>1. \A p \in Visits : visit'[p] = IF p = q THEN d ELSE visit[p] BY Alone DEF HubBase
<1>2. \A p \in Visits : visit'[p].pc = "shelve" => visit'[p] = visit[p] BY <1>1
<1>3. \A p \in Visits : visit[p].pc = "shelve" => visit'[p] = visit[p] BY <1>1
<1>4. \A c \in Collections : Shelving(c)' = Shelving(c) BY <1>2, <1>3 DEF Shelving
<1>5. ShelvingRoom' = ShelvingRoom BY DEF ShelvingRoom
<1>6. PositionsFit' BY <1>2 DEF ShelvesInv, PositionsFit
<1>7. ShelvesFit' BY <1>4, <1>5 DEF ShelvesInv, ShelvesFit
<1> QED BY <1>6, <1>7 DEF ShelvesInv

LEMMA ShelvesBegun ==
  ASSUME HubBase, ShelvesInv, NEW q \in Visits, NEW d \in VisitTypes, Entering(d), Stay(q, d),
         visit[q] = NoVisit, crowded \/ NobodyVisits, UNCHANGED <<shelf, crowded>>
  PROVE  ShelvesInv'
<1> USE ResourceHubAssumption DEF ResourceHubAssumption
<1>1. \A p \in Visits : visit'[p] = IF p = q THEN d ELSE visit[p] BY Alone DEF HubBase
<1>2. CASE d.pc # "shelve" BY <1>2, ShelvesKept DEF NoVisit
<1>3. CASE d.pc = "shelve"
  <2>1. PICK c \in Collections : /\ Len(shelf[c]) < CollectionLimit
                                 /\ d = [pc |-> "shelve", c |-> c, position |-> Len(shelf[c]) + 1]
        BY <1>3 DEF Entering, Saving
  <2>2. d.c = c /\ d.position = Len(shelf[c]) + 1 /\ Len(shelf[c]) \in Nat
        BY <2>1 DEF HubBase, HubTypes
  <2>3. PositionsFit'
    <3>1. ASSUME NEW p \in Visits, visit'[p].pc = "shelve"
          PROVE  /\ visit'[p].position <= Len(shelf[visit'[p].c]) + 1
                 /\ crowded \/ visit'[p].position = Len(shelf[visit'[p].c]) + 1
      <4>1. CASE p = q BY <1>1, <2>2, <4>1
      <4>2. CASE p # q BY <1>1, <3>1, <4>2 DEF ShelvesInv, PositionsFit
      <4> QED BY <4>1, <4>2
    <3> QED BY <3>1 DEF ShelvesInv, PositionsFit
  <2>4. ShelvingRoom' = ShelvingRoom BY DEF ShelvingRoom
  <2>5. PICK S \in SUBSET Visits : S = Shelving(c)' BY DEF Shelving
  <2>6. ~crowded => \A p \in Visits \ {q} : visit'[p].pc = "none"
        BY <1>1, Alone DEF HubBase, NoVisit
  <2>7. ~crowded => \A p, r \in S : p = r BY <2>5, <2>6 DEF Shelving
  <2>8. Cardinality(S) \in Nat /\ ShelvingRoom \in Nat /\ Cardinality(S) <= ShelvingRoom
        BY <2>7, RoomToShelve DEF HubBase
  <2>9. Len(shelf[c]) + Cardinality(S) <= CollectionLimit - 1 + ShelvingRoom
        BY <2>1, <2>2, <2>8
  <2>10. \A b \in Collections \ {c} : Shelving(b)' = Shelving(b)
        BY <1>1, <2>2 DEF Shelving, NoVisit
  <2>11. ASSUME NEW b \in Collections
         PROVE  Len(shelf[b]) + Cardinality(Shelving(b)') <= CollectionLimit - 1 + ShelvingRoom
    <3>1. CASE b = c BY <2>5, <2>9, <3>1
    <3>2. CASE b # c BY <2>10, <3>2 DEF ShelvesInv, ShelvesFit
    <3> QED BY <3>1, <3>2
  <2>12. ShelvesFit' BY <2>4, <2>11 DEF ShelvesFit
  <2> QED BY <2>3, <2>12 DEF ShelvesInv
<1> QED BY <1>2, <1>3

LEMMA ShelvesFill ==
  ASSUME HubBase, ShelvesInv, NEW q \in Visits, Shelve(q)
  PROVE  ShelvesInv'
<1> USE ResourceHubAssumption DEF ResourceHubAssumption
<1>0. visit[q] \in VisitTypes /\ visit[q].pc = "shelve" /\ visit[q] # NoVisit
      BY DEF Shelve, HubBase, HubTypes, NoVisit
<1>1. PICK c \in Collections, n \in Nat : c = visit[q].c /\ n = visit[q].position
      BY <1>0, VisitFields
<1>2. /\ Stay(q, NoVisit) /\ crowded' = crowded /\ shelf' = [shelf EXCEPT ![c] = Append(shelf[c], n)]
      BY <1>1 DEF Shelve, Leave
<1>3. \A p \in Visits : visit'[p] = IF p = q THEN NoVisit ELSE visit[p]
      BY <1>0, <1>2, Alone DEF HubBase
<1>4. ~crowded => \A p \in Visits \ {q} : visit[p] = NoVisit
      BY <1>0, <1>2, Alone DEF HubBase
<1>5. PICK old \in Seq(Nat) : old = shelf[c] BY DEF HubBase, HubTypes
<1>6. PICK new : new = Append(old, n) OBVIOUS
<1>7. /\ Len(new) = Len(old) + 1 /\ Len(old) \in Nat
      /\ \A i \in 1..Len(new) : new[i] = IF i = Len(new) THEN n ELSE old[i]
      BY <1>6
<1>8. /\ shelf'[c] = new /\ \A b \in Collections \ {c} : shelf'[b] = shelf[b]
      BY <1>2, <1>5, <1>6 DEF HubBase, HubTypes
<1>9. n <= Len(old) + 1 /\ (crowded \/ n = Len(old) + 1)
      BY <1>0, <1>1, <1>5 DEF ShelvesInv, PositionsFit
<1>10. PositionsFit'
  <2>1. \A i \in 1..Len(old) : old[i] <= i /\ (crowded \/ old[i] = i)
        BY <1>5 DEF ShelvesInv, PositionsFit
  <2>2. ASSUME NEW i \in 1..Len(new) PROVE new[i] <= i /\ (crowded \/ new[i] = i)
    <3>1. CASE i = Len(new) BY <1>7, <1>9, <3>1
    <3>2. CASE i # Len(new)
      <4>1. i \in 1..Len(old) /\ new[i] = old[i] BY <1>7, <3>2
      <4> QED BY <2>1, <4>1
    <3> QED BY <3>1, <3>2
  <2>3. \A b \in Collections : \A i \in 1..Len(shelf'[b]) :
          shelf'[b][i] <= i /\ (crowded \/ shelf'[b][i] = i)
        BY <1>8, <2>2 DEF ShelvesInv, PositionsFit
  <2>4. ASSUME NEW p \in Visits, visit'[p].pc = "shelve"
        PROVE  /\ visit'[p].position <= Len(shelf'[visit'[p].c]) + 1
               /\ crowded
    <3>1. p # q /\ visit'[p] = visit[p] BY <1>3, <2>4 DEF NoVisit
    <3>2. crowded BY <1>4, <2>4, <3>1 DEF NoVisit
    <3>3. PICK b \in Collections, m \in Nat : b = visit[p].c /\ m = visit[p].position
          BY <2>4, <3>1, VisitFields DEF HubBase, HubTypes
    <3>4. m <= Len(shelf[b]) + 1 BY <2>4, <3>1, <3>3 DEF ShelvesInv, PositionsFit
    <3>5. m <= Len(shelf'[b]) + 1 BY <1>5, <1>7, <1>8, <3>4
    <3> QED BY <3>1, <3>2, <3>3, <3>5
  <2> QED BY <1>2, <2>3, <2>4 DEF PositionsFit
<1>11. ShelvesFit'
  <2>1. ShelvingRoom' = ShelvingRoom BY <1>2 DEF ShelvingRoom
  <2>2. Shelving(c)' = Shelving(c) \ {q} /\ q \in Shelving(c)
        BY <1>0, <1>1, <1>3 DEF Shelving, NoVisit
  <2>3. \A b \in Collections \ {c} : Shelving(b)' = Shelving(b)
        BY <1>0, <1>1, <1>3 DEF Shelving, NoVisit
  <2>4. PICK S \in SUBSET Visits : S = Shelving(c) BY DEF Shelving
  <2>5. ~crowded => \A p, r \in S : p = r BY <2>4 DEF HubBase, LoneVisit, Shelving, NoVisit
  <2>6. IsFiniteSet(S) /\ Cardinality(S) \in Nat /\ ShelvingRoom \in Nat
        BY <2>5, RoomToShelve DEF HubBase
  <2>7. Cardinality(S \ {q}) = Cardinality(S) - 1 BY <2>2, <2>4, <2>6, FS_RemoveElement
  <2>8. Len(old) + Cardinality(S) <= CollectionLimit - 1 + ShelvingRoom
        BY <1>5, <2>4 DEF ShelvesInv, ShelvesFit
  <2>9. Len(new) + Cardinality(S \ {q}) <= CollectionLimit - 1 + ShelvingRoom
        BY <1>7, <2>6, <2>7, <2>8
  <2>10. ASSUME NEW b \in Collections
         PROVE  Len(shelf'[b]) + Cardinality(Shelving(b)') <= CollectionLimit - 1 + ShelvingRoom
    <3>1. CASE b = c BY <1>8, <2>2, <2>4, <2>9, <3>1
    <3>2. CASE b # c BY <1>8, <2>3, <3>2 DEF ShelvesInv, ShelvesFit
    <3> QED BY <3>1, <3>2
  <2> QED BY <2>1, <2>10 DEF ShelvesFit
<1> QED BY <1>10, <1>11 DEF ShelvesInv

LEMMA ShelvesProceed ==
  ASSUME HubBase, ShelvesInv, NEW q \in Visits, HubProceed(q)
  PROVE  ShelvesInv'
<1>1. CASE Shelve(q) BY <1>1, ShelvesFill
<1>2. ASSUME NEW d, Stay(q, d), d.pc # "shelve", visit[q].pc \notin {"shelve", "none"},
             shelf' = shelf
      PROVE  ShelvesInv'
      BY <1>2, ShelvesKept, BaseProceeds
<1>3. CASE ~Shelve(q)
  <2>1. visit[q].pc \notin {"shelve", "none"} /\ shelf' = shelf
        BY <1>3 DEF HubProceed, SaveVersion, SaveFirstVersion, SaveFile, SaveNewResource,
                    SaveInitialStats, SaveResource, FindVersion, FindCounts, SaveReport, SaveUse
  <2>2. \E d : Stay(q, d) /\ d.pc # "shelve"
    <3>1. CASE SaveInitialStats(q) \/ SaveResource(q) \/ SaveUse(q) \/ \E v \in Versions : SaveVersion(q, v)
      <4>1. Stay(q, NoVisit) BY <3>1 DEF SaveVersion, SaveInitialStats, SaveResource, SaveUse, Leave
      <4>2. NoVisit.pc # "shelve" BY DEF NoVisit
      <4> QED BY <4>1, <4>2
    <3>2. CASE \E v \in Versions, r \in Resources : SaveFirstVersion(q, r, v)
          BY <3>2 DEF SaveFirstVersion
    <3>3. CASE SaveFile(q) BY <3>3 DEF SaveFile
    <3>4. CASE SaveNewResource(q) BY <3>4 DEF SaveNewResource
    <3>5. CASE FindVersion(q) BY <3>5 DEF FindVersion, Leave, NoVisit, Saving
    <3>6. CASE FindCounts(q) BY <3>6 DEF FindCounts
    <3>7. CASE SaveReport(q) BY <3>7 DEF SaveReport, Leave, NoVisit, Saving
    <3> QED BY <1>3, <3>1, <3>2, <3>3, <3>4, <3>5, <3>6, <3>7 DEF HubProceed
  <2> QED BY <1>2, <2>1, <2>2
<1> QED BY <1>1, <1>3

-----------------------------------------------------------------------------
(* Reports. *)
Quarantines(d, r) == d.pc = "save" /\ d.r = r /\ d.copy.status = "QUARANTINED"

LEMMA ReportsKept ==
  ASSUME HubBase, ReportsInv, NEW q \in Visits, NEW d, Stay(q, d), crowded' = crowded,
         visit[q] # NoVisit \/ crowded \/ NobodyVisits,
         quarantined \subseteq quarantined',
         \A r \in Resources : Quarantining(q, r) => r \in quarantined',
         \A r \in Resources :
           counts'[r].reports >= QuarantineAt => Handled(r) \/ Quarantines(d, r),
         d.pc \in {"counted", "use"} =>
           d.r \in Resources /\ (d.row.reports >= QuarantineAt => Handled(d.r)),
         ~crowded => /\ FreshVisit(q)'
                     /\ \A r \in Resources : counts'[r].reports >= QuarantineAt =>
                          \/ r \in decided' \/ resource'[r].status = "QUARANTINED"
                          \/ Quarantines(d, r)
  PROVE  ReportsInv'
<1>1. \A p \in Visits : visit'[p] = IF p = q THEN d ELSE visit[p] BY Alone DEF HubBase
<1>2. ~crowded => \A p \in Visits \ {q} : visit[p] = NoVisit BY Alone DEF HubBase
<1>3. \A r \in Resources : Handled(r) => Handled(r)'
      BY <1>1 DEF Handled, Quarantining
<1>4. \A r \in Resources : Quarantines(d, r) => Handled(r)' /\ Settled(r)'
      BY <1>1 DEF Handled, Settled, Quarantining, Quarantines
<1>5. AllHandled'
  <2>1. \A r \in Resources : counts'[r].reports >= QuarantineAt => Handled(r)'
        BY <1>3, <1>4
  <2>2. ASSUME NEW p \in Visits, visit'[p].pc \in {"counted", "use"},
               visit'[p].row.reports >= QuarantineAt
        PROVE  Handled(visit[p].r)'
    <3>1. PICK r \in Resources : r = visit'[p].r
          BY <1>1, <2>2, VisitFields DEF HubBase, HubTypes
    <3>2. Handled(r) BY <1>1, <2>2, <3>1 DEF ReportsInv, AllHandled
    <3> QED BY <1>3, <3>1, <3>2
  <2> QED BY <2>1, <2>2 DEF AllHandled
<1>6. AllSettled'
  <2> SUFFICES ASSUME ~crowded
               PROVE  /\ \A p \in Visits : FreshVisit(p)'
                      /\ \A r \in Resources : counts'[r].reports >= QuarantineAt => Settled(r)'
      BY DEF AllSettled
  <2>1. ASSUME NEW p \in Visits PROVE FreshVisit(p)'
    <3>1. CASE p = q BY <3>1
    <3>2. CASE p # q
      <4>1. visit'[p].pc = "none" BY <1>1, <1>2, <3>2 DEF NoVisit
      <4> QED BY <4>1 DEF FreshVisit
    <3> QED BY <3>1, <3>2
  <2>2. \A r \in Resources : counts'[r].reports >= QuarantineAt => Settled(r)'
        BY <1>4 DEF Settled
  <2> QED BY <2>1, <2>2
<1> QED BY <1>5, <1>6 DEF ReportsInv

(* A step that saves neither a resource nor counters. *)
LEMMA ReportsUntouched ==
  ASSUME HubBase, ReportsInv, NEW q \in Visits, NEW d, Stay(q, d),
         visit[q] # NoVisit \/ crowded \/ NobodyVisits, visit[q].pc # "save",
         UNCHANGED <<resource, counts, decided, quarantined, crowded>>,
         d.pc \in {"counted", "use"} =>
           d.r \in Resources /\ (d.row.reports >= QuarantineAt => Handled(d.r)),
         ~crowded => FreshVisit(q)'
  PROVE  ReportsInv'
<1>1. \A r \in Resources : ~Quarantining(q, r) BY DEF Quarantining
<1>2. \A r \in Resources : counts'[r].reports >= QuarantineAt => Handled(r)
      BY DEF ReportsInv, AllHandled
<1>3. ASSUME ~crowded, NEW r \in Resources, counts'[r].reports >= QuarantineAt
      PROVE  r \in decided' \/ resource'[r].status = "QUARANTINED"
  <2>1. \A p \in Visits \ {q} : visit[p] = NoVisit BY <1>3, Alone DEF HubBase
  <2>2. Settled(r) BY <1>3 DEF ReportsInv, AllSettled
  <2> QED BY <1>1, <2>1, <2>2 DEF Settled, Quarantining, NoVisit
<1> QED BY <1>1, <1>2, <1>3, ReportsKept

LEMMA ReportsBegun ==
  ASSUME HubBase, ReportsInv, NEW q \in Visits, NEW d \in VisitTypes, Entering(d), Stay(q, d),
         visit[q] = NoVisit, crowded \/ NobodyVisits,
         UNCHANGED <<resource, counts, decided, quarantined, crowded>>
  PROVE  ReportsInv'
<1>1. d.pc \in {"counted", "use"} =>
        d.r \in Resources /\ (d.row.reports >= QuarantineAt => Handled(d.r))
      BY DEF Entering, Saving, ReportsInv, AllHandled
<1>2. visit'[q] = d BY Alone DEF HubBase
<1>3. FreshVisit(q)'
  <2>1. /\ d.pc \in {"publish", "rollback", "report", "counted"} => d.copy = resource[d.r]
        /\ d.pc \in {"counted", "use"} => d.row = counts[d.r]
        /\ d.pc = "save" => d.person \/ d.copy.status \in {"QUARANTINED", resource[d.r].status}
        /\ d.pc \notin {"file", "resource"}
        BY DEF Entering, Saving
  <2> QED BY <1>2, <2>1 DEF FreshVisit
<1>4. visit[q].pc # "save" BY DEF NoVisit
<1> QED BY <1>1, <1>3, <1>4, ReportsUntouched

(* The steps of a call under way. *)
LEMMA ReportsProceed ==
  ASSUME HubBase, ReportsInv, NEW q \in Visits, HubProceed(q)
  PROVE  ReportsInv'
<1> USE ResourceHubAssumption DEF ResourceHubAssumption
<1>0. /\ HubTypes /\ Stocked /\ visit[q] \in VisitTypes /\ visit[q] # NoVisit
      /\ NoVisit.pc = "none" /\ crowded' = crowded
      BY BaseProceeds DEF HubBase, HubTypes, NoVisit
<1>1. \A d : Stay(q, d) => visit'[q] = d BY <1>0 DEF HubTypes, Stay
<1>2. Stay(q, NoVisit) => FreshVisit(q)' BY <1>0, <1>1 DEF FreshVisit
<1>3. \A r \in Resources : counts[r].reports >= QuarantineAt => Handled(r)
      BY DEF ReportsInv, AllHandled
<1>4. ASSUME ~crowded
      PROVE  /\ FreshVisit(q)
             /\ \A r \in Resources : counts[r].reports >= QuarantineAt =>
                  r \in decided \/ resource[r].status = "QUARANTINED" \/ Quarantining(q, r)
  <2>1. \A p \in Visits \ {q} : visit[p] = NoVisit BY <1>0, <1>4 DEF HubBase, LoneVisit
  <2>2. \A r \in Resources : counts[r].reports >= QuarantineAt => Settled(r)
        BY <1>4 DEF ReportsInv, AllSettled
  <2> QED BY <1>0, <1>4, <2>1, <2>2 DEF ReportsInv, AllSettled, Settled, Quarantining
<1>5. ASSUME visit[q].pc # "save",
             UNCHANGED <<resource, counts, decided, quarantined>>, Stay(q, NoVisit)
      PROVE  ReportsInv'
      BY <1>0, <1>2, <1>5, ReportsUntouched
<1>6. CASE (\E v \in Versions : SaveVersion(q, v)) \/ Shelve(q)
      BY <1>5, <1>6 DEF SaveVersion, Shelve, Leave
<1>7. ASSUME NEW v \in Versions, NEW r \in Resources, SaveFirstVersion(q, r, v) PROVE ReportsInv'
  <2>1. PICK d : d = [pc |-> "file", r |-> r, v |-> v, hash |-> visit[q].hash] OBVIOUS
  <2>2. Stay(q, d) /\ d.pc = "file" /\ d.r = r BY <1>7, <2>1 DEF SaveFirstVersion
  <2>3. ~Catalogued(r) BY <1>0, <1>7, FreshResource DEF SaveFirstVersion, Stocked
  <2>4. ~Catalogued(r)' BY <1>7, <2>3 DEF SaveFirstVersion, Catalogued
  <2>5. FreshVisit(q)' BY <1>1, <2>2, <2>4 DEF FreshVisit
  <2> QED BY <1>0, <1>7, <2>2, <2>5, ReportsUntouched DEF SaveFirstVersion
<1>8. CASE SaveFile(q)
  <2>1. PICK r \in Resources : r = visit[q].r BY <1>0, <1>8, VisitFields DEF SaveFile
  <2>2. PICK d : d = [pc |-> "resource", r |-> r, v |-> visit[q].v] OBVIOUS
  <2>3. Stay(q, d) /\ d.pc = "resource" /\ d.r = r BY <1>8, <2>1, <2>2 DEF SaveFile
  <2>4. ~crowded => ~Catalogued(r) BY <1>4, <1>8, <2>1 DEF SaveFile, FreshVisit
  <2>5. ~crowded => ~Catalogued(r)' BY <1>8, <2>4 DEF SaveFile, Catalogued
  <2>6. ~crowded => FreshVisit(q)' BY <1>1, <2>3, <2>5 DEF FreshVisit
  <2> QED BY <1>0, <1>8, <2>3, <2>6, ReportsUntouched DEF SaveFile
<1>9. CASE FindVersion(q)
  <2>1. PICK e \in HubEntity, r \in Resources : e = visit[q].copy /\ r = visit[q].r
        BY <1>0, <1>9, VisitFields DEF FindVersion
  <2>2. PICK f : f = [e EXCEPT !.current = visit[q].v] OBVIOUS
  <2>3. f.status = e.status BY <2>2 DEF HubEntity
  <2>4. PICK d : d = Saving(r, f, FALSE) OBVIOUS
  <2>5. d.pc = "save" /\ d.r = r /\ d.copy = f BY <2>4 DEF Saving
  <2>6. UNCHANGED <<resource, counts, decided, quarantined>> /\ visit[q].pc # "save"
        BY <1>9 DEF FindVersion
  <2>7. ~crowded => e = resource[r] BY <1>4, <1>9, <2>1 DEF FindVersion, FreshVisit
  <2>8. Stay(q, d) => (~crowded => FreshVisit(q)')
        BY <1>1, <2>3, <2>5, <2>6, <2>7 DEF FreshVisit
  <2>9. Stay(q, d) \/ Stay(q, NoVisit) BY <1>9, <2>1, <2>2, <2>4 DEF FindVersion, Leave
  <2>10. CASE Stay(q, d) BY <1>0, <2>5, <2>6, <2>8, <2>10, ReportsUntouched
  <2>11. CASE Stay(q, NoVisit) BY <1>5, <2>6, <2>11
  <2> QED BY <2>9, <2>10, <2>11
<1>10. CASE FindCounts(q)
  <2>1. PICK e \in HubEntity, r \in Resources : e = visit[q].copy /\ r = visit[q].r
        BY <1>0, <1>10, VisitFields DEF FindCounts
  <2>2. PICK d : d = [pc |-> "counted", r |-> r, copy |-> e, row |-> counts[r]] OBVIOUS
  <2>3. Stay(q, d) /\ d.pc = "counted" /\ d.r = r /\ d.copy = e /\ d.row = counts[r]
        BY <1>10, <2>1, <2>2 DEF FindCounts
  <2>4. UNCHANGED <<resource, counts, decided, quarantined>> /\ visit[q].pc # "save"
        BY <1>10 DEF FindCounts
  <2>5. ~crowded => e = resource[r] BY <1>4, <1>10, <2>1 DEF FindCounts, FreshVisit
  <2>6. ~crowded => FreshVisit(q)' BY <1>1, <2>3, <2>4, <2>5 DEF FreshVisit
  <2> QED BY <1>0, <1>3, <2>3, <2>4, <2>6, ReportsUntouched
<1>11. CASE SaveNewResource(q)
  <2>1. PICK r \in Resources : r = visit[q].r BY <1>0, <1>11, VisitFields DEF SaveNewResource
  <2>2. PICK d : d = [pc |-> "stats", r |-> r] OBVIOUS
  <2>3. Stay(q, d) /\ d.pc = "stats" BY <1>11, <2>1, <2>2 DEF SaveNewResource
  <2>4. /\ visit[q].pc = "resource" /\ UNCHANGED <<counts, decided, quarantined>>
        /\ \A s \in Resources \ {r} : resource'[s] = resource[s]
        BY <1>0, <1>11, <2>1 DEF SaveNewResource, HubTypes
  <2>5. \A s \in Resources : ~Quarantining(q, s) BY <2>4 DEF Quarantining
  <2>6. FreshVisit(q)' BY <1>1, <2>3 DEF FreshVisit
  <2>7. ~crowded => counts[r].reports = 0
        BY <1>0, <1>4, <2>1, <2>4 DEF FreshVisit, Stocked, NoCounts
  <2>8. ~crowded => \A s \in Resources : counts[s].reports >= QuarantineAt =>
          s \in decided \/ resource'[s].status = "QUARANTINED"
        BY <1>4, <2>4, <2>5, <2>7
  <2> QED BY <1>0, <1>3, <2>3, <2>4, <2>5, <2>6, <2>8, ReportsKept
<1>12. CASE SaveResource(q)
  <2>1. PICK e \in HubEntity, r \in Resources : e = visit[q].copy /\ r = visit[q].r
        BY <1>0, <1>12, VisitFields DEF SaveResource
  <2>2. /\ visit[q].pc = "save" /\ Stay(q, NoVisit) /\ counts' = counts
        /\ quarantined \subseteq quarantined' /\ (e.status = "QUARANTINED" => r \in quarantined')
        /\ decided \subseteq decided' /\ (visit[q].person => r \in decided')
        /\ resource'[r] = e /\ \A s \in Resources \ {r} : resource'[s] = resource[s]
        BY <1>0, <1>12, <2>1 DEF SaveResource, Leave, HubTypes
  <2>3. \A s \in Resources : Quarantining(q, s) => s = r /\ e.status = "QUARANTINED"
        BY <2>1 DEF Quarantining
  <2>4. ~crowded => visit[q].person \/ e.status \in {"QUARANTINED", resource[r].status}
        BY <1>4, <2>1, <2>2 DEF FreshVisit
  <2>5. ~crowded => \A s \in Resources : counts[s].reports >= QuarantineAt =>
          s \in decided' \/ resource'[s].status = "QUARANTINED"
        BY <1>4, <2>2, <2>3, <2>4
  <2> QED BY <1>0, <1>2, <1>3, <2>2, <2>3, <2>5, ReportsKept
<1>13. CASE SaveInitialStats(q)
  <2>1. PICK r \in Resources : r = visit[q].r BY <1>0, <1>13, VisitFields DEF SaveInitialStats
  <2>2. /\ visit[q].pc # "save" /\ Stay(q, NoVisit) /\ UNCHANGED <<resource, decided, quarantined>>
        /\ counts'[r].reports = 0 /\ \A s \in Resources \ {r} : counts'[s] = counts[s]
        BY <1>0, <1>13, <2>1 DEF SaveInitialStats, Leave, HubTypes, NoCounts
  <2>3. \A s \in Resources : ~Quarantining(q, s) BY <2>2 DEF Quarantining
  <2>4. \A s \in Resources : counts'[s].reports >= QuarantineAt =>
          Handled(s) /\ (~crowded => s \in decided \/ resource[s].status = "QUARANTINED")
        BY <1>3, <1>4, <2>2, <2>3
  <2> QED BY <1>0, <1>2, <2>2, <2>3, <2>4, ReportsKept
<1>14. CASE SaveReport(q)
  <2>1. PICK e \in HubEntity, r \in Resources, row \in HubCounts :
          e = visit[q].copy /\ r = visit[q].r /\ row = visit[q].row
        BY <1>0, <1>14, VisitFields DEF SaveReport
  <2>2. PICK new : new = [row EXCEPT !.reports = row.reports + 1] OBVIOUS
  <2>3. new.reports = row.reports + 1 /\ row.reports \in Nat BY <2>2 DEF HubCounts
  <2>4. PICK f : f = [e EXCEPT !.status = "QUARANTINED"] OBVIOUS
  <2>5. f.status = "QUARANTINED" BY <2>4 DEF HubEntity
  <2>6. PICK d : d = Saving(r, f, FALSE) OBVIOUS
  <2>7. d.pc = "save" /\ d.r = r /\ d.copy = f BY <2>6 DEF Saving
  <2>8. /\ visit[q].pc = "counted" /\ UNCHANGED <<resource, quarantined>>
        /\ counts'[r] = new /\ \A s \in Resources \ {r} : counts'[s] = counts[s]
        /\ decided' = decided \ {r}
        /\ IF new.reports >= QuarantineAt THEN Stay(q, d) ELSE Stay(q, NoVisit)
        BY <1>0, <1>14, <2>1, <2>2, <2>3, <2>4, <2>6 DEF SaveReport, Leave, HubTypes
  <2>9. \A s \in Resources : ~Quarantining(q, s) BY <2>8 DEF Quarantining
  <2>10. \A s \in Resources \ {r} : counts'[s].reports >= QuarantineAt =>
           Handled(s) /\ (~crowded => s \in decided' \/ resource'[s].status = "QUARANTINED")
         BY <1>3, <1>4, <2>8, <2>9
  <2>11. CASE new.reports >= QuarantineAt
    <3>1. Quarantines(d, r) BY <2>5, <2>7 DEF Quarantines
    <3>2. FreshVisit(q)' BY <1>1, <2>5, <2>7, <2>8, <2>11 DEF FreshVisit
    <3> QED BY <1>0, <2>7, <2>8, <2>9, <2>10, <2>11, <3>1, <3>2, ReportsKept
  <2>12. CASE ~(new.reports >= QuarantineAt)
    <3>1. \A s \in Resources : counts'[s].reports >= QuarantineAt =>
            Handled(s) /\ (~crowded => s \in decided' \/ resource'[s].status = "QUARANTINED")
          BY <2>8, <2>10, <2>12
    <3> QED BY <1>0, <1>2, <2>8, <2>9, <2>12, <3>1, ReportsKept
  <2> QED BY <2>11, <2>12
<1>15. CASE SaveUse(q)
  <2>1. PICK r \in Resources, row \in HubCounts : r = visit[q].r /\ row = visit[q].row
        BY <1>0, <1>15, VisitFields DEF SaveUse
  <2>2. PICK new : new = [row EXCEPT !.uses = row.uses + 1] OBVIOUS
  <2>3. new.reports = row.reports BY <2>2 DEF HubCounts
  <2>4. /\ visit[q].pc = "use" /\ Stay(q, NoVisit) /\ UNCHANGED <<resource, decided, quarantined>>
        /\ counts'[r] = new /\ \A s \in Resources \ {r} : counts'[s] = counts[s]
        BY <1>0, <1>15, <2>1, <2>2 DEF SaveUse, Leave, HubTypes
  <2>5. \A s \in Resources : ~Quarantining(q, s) BY <2>4 DEF Quarantining
  <2>6. row.reports >= QuarantineAt => Handled(r)
        BY <2>1, <2>4 DEF ReportsInv, AllHandled
  <2>7. ~crowded => row = counts[r] BY <1>4, <2>1, <2>4 DEF FreshVisit
  <2>8. \A s \in Resources : counts'[s].reports >= QuarantineAt =>
          Handled(s) /\ (~crowded => s \in decided \/ resource[s].status = "QUARANTINED")
        BY <1>3, <1>4, <2>3, <2>4, <2>5, <2>6, <2>7
  <2> QED BY <1>0, <1>2, <2>4, <2>5, <2>8, ReportsKept
<1> QED BY <1>6, <1>7, <1>8, <1>9, <1>10, <1>11, <1>12, <1>13, <1>14, <1>15 DEF HubProceed

-----------------------------------------------------------------------------
LEMMA HubInitially == HubInit => HubInv
<1> USE ResourceHubAssumption DEF ResourceHubAssumption
<1> SUFFICES ASSUME HubInit PROVE HubInv OBVIOUS
<1>1. /\ \A q \in Visits : visit[q] = NoVisit /\ visit[q].pc = "none"
      /\ \A r \in Resources : ~Catalogued(r) /\ counts[r] = NoCounts /\ counts[r].reports = 0
      /\ \A c \in Collections : shelf[c] = <<>>
      BY DEF HubInit, NoVisit, Catalogued, NoCounts
<1>2. HubTypes
  <2>1. NoVersion \in HubVersion BY DEF NoVersion, HubVersion
  <2>2. NoCounts \in HubCounts BY DEF NoCounts, HubCounts
  <2>3. NoVisit \in VisitTypes BY DEF VisitTypes
  <2> QED BY <2>1, <2>2, <2>3 DEF HubInit, HubTypes
<1>3. \A r \in Resources : VersionsOf(r) = {} /\ NumbersOf(r) = {}
      BY DEF HubInit, VersionsOf, NumbersOf, NoVersion
<1>4. VersionsInv
  <2>1. Numbered
    <3>1. 1..0 = {} OBVIOUS
    <3> QED BY <1>3, <3>1 DEF Numbered
  <2>2. NumbersFit BY <1>1 DEF NumbersFit
  <2>3. NumbersDiffer BY <1>1, <1>3 DEF NumbersDiffer
  <2> QED BY <2>1, <2>2, <2>3 DEF VersionsInv
<1>5. Stocked BY <1>1 DEF Stocked, OnCatalogued
<1>6. LoneVisit BY <1>1 DEF LoneVisit
<1>7. ReportsInv BY <1>1 DEF ReportsInv, AllHandled, AllSettled, FreshVisit
<1>8. ShelvesInv
  <2>1. PositionsFit BY <1>1 DEF PositionsFit
  <2>2. \A c \in Collections : Shelving(c) = {} BY <1>1 DEF Shelving
  <2>3. 0 <= ShelvingRoom /\ ShelvingRoom \in Nat
    <3>1. Cardinality(Visits) \in Nat BY FS_CardinalityType
    <3> QED BY <3>1 DEF ShelvingRoom
  <2>4. 0 <= CollectionLimit - 1 + ShelvingRoom BY <2>3
  <2>5. Len(<<>>) = 0 /\ Cardinality({}) = 0 BY FS_EmptySet
  <2>6. \A c \in Collections : Len(shelf[c]) = 0 /\ Cardinality(Shelving(c)) = 0
        BY <1>1, <2>2, <2>5
  <2>7. \A c \in Collections : Len(shelf[c]) + Cardinality(Shelving(c)) = 0 BY <2>6
  <2>8. ShelvesFit BY <2>4, <2>7 DEF ShelvesFit
  <2> QED BY <2>1, <2>8 DEF ShelvesInv
<1> QED BY <1>2, <1>4, <1>5, <1>6, <1>7, <1>8 DEF HubInv, HubBase

LEMMA HubSteps == HubInv /\ [HubNext]_hubVars => HubInv'
<1> SUFFICES ASSUME HubInv, [HubNext]_hubVars PROVE HubInv' OBVIOUS
<1>0. HubBase /\ ReportsInv /\ ShelvesInv BY DEF HubInv
<1>1. ASSUME NEW q \in Visits, HubBegin(q) PROVE HubInv'
  <2>1. /\ visit[q] = NoVisit /\ (crowded \/ NobodyVisits)
        /\ UNCHANGED <<resource, version, counts, shelf, crowded, decided, quarantined>>
        /\ \E d \in VisitTypes : Entering(d) /\ Stay(q, d)
        BY <1>0, <1>1, EnteringVisit DEF HubBase, VersionsInv, Stay
  <2> QED BY <1>0, <2>1, BaseBegun, ReportsBegun, ShelvesBegun DEF HubInv
<1>2. ASSUME NEW q \in Visits, HubProceed(q) PROVE HubInv'
      BY <1>0, <1>2, BaseProceeds, ReportsProceed, ShelvesProceed DEF HubInv
<1>3. CASE UNCHANGED hubVars
  <2>1. UNCHANGED <<resource, version, counts, shelf, visit, crowded, decided, quarantined>>
        BY <1>3 DEF hubVars
  <2>2. HubBase'
    <3>1. HubTypes' /\ LoneVisit' BY <1>0, <2>1 DEF HubBase, HubTypes, LoneVisit
    <3>2. Numbered' BY <1>0, <2>1 DEF HubBase, VersionsInv, Numbered, NumbersOf, VersionsOf
    <3>3. NumbersFit' BY <1>0, <2>1 DEF HubBase, VersionsInv, NumbersFit, NumbersOf, VersionsOf
    <3>4. NumbersDiffer' BY <1>0, <2>1 DEF HubBase, VersionsInv, NumbersDiffer, NumbersOf, VersionsOf
    <3>5. Stocked' BY <1>0, <2>1 DEF HubBase, Stocked, VersionsOf, Catalogued
    <3> QED BY <3>1, <3>2, <3>3, <3>4, <3>5 DEF HubBase, VersionsInv
  <2>3. ReportsInv'
        BY <1>0, <2>1 DEF ReportsInv, AllHandled, AllSettled, Handled, Settled, Quarantining,
           FreshVisit, Catalogued
  <2>4. ShelvesInv'
        BY <1>0, <2>1 DEF ShelvesInv, PositionsFit, ShelvesFit, Shelving, ShelvingRoom
  <2> QED BY <2>2, <2>3, <2>4 DEF HubInv
<1> QED BY <1>1, <1>2, <1>3 DEF HubNext

LEMMA HubInvariant == HubSpec => []HubInv
BY HubInitially, HubSteps, PTL DEF HubSpec

-----------------------------------------------------------------------------
(* Versions of a resource are numbered without a gap however calls         *)
(* overlap, and one by one when they do not.                               *)
THEOREM VersionsAreNumbered == HubSpec => []VersionsCountUp
<1>1. HubInv => VersionsCountUp
  <2> SUFFICES ASSUME HubInv, NEW r \in Resources
               PROVE  /\ NumbersOf(r) = 1..Cardinality(NumbersOf(r))
                      /\ crowded \/ \A v, w \in VersionsOf(r) :
                           version[v].number = version[w].number => v = w
      BY DEF VersionsCountUp
  <2>1. PICK k \in Nat : NumbersOf(r) = 1..k BY DEF HubInv, HubBase, VersionsInv, Numbered
  <2>2. Cardinality(1..k) = k BY FS_Interval
  <2> QED BY <2>1, <2>2 DEF HubInv, HubBase, VersionsInv, NumbersDiffer
<1> QED BY <1>1, HubInvariant, PTL

(* Three counted reports have quarantined their resource once the calls in *)
(* flight end, whatever overwrites overlapped them; and it is quarantined  *)
(* until somebody decides when calls do not overlap.                       *)
THEOREM ReportedResourcesAreQuarantined == HubSpec => []ReportsQuarantine
<1>1. HubInv => ReportsQuarantine
  <2> SUFFICES ASSUME HubInv, NobodyVisits, NEW r \in Resources, counts[r].reports >= QuarantineAt
               PROVE  /\ r \in quarantined
                      /\ crowded \/ r \in decided \/ resource[r].status = "QUARANTINED"
      BY DEF ReportsQuarantine
  <2>1. \A q \in Visits : ~Quarantining(q, r) BY DEF NobodyVisits, Quarantining, NoVisit
  <2>2. Handled(r) /\ (~crowded => Settled(r))
        BY DEF HubInv, ReportsInv, AllHandled, AllSettled
  <2> QED BY <2>1, <2>2 DEF Handled, Settled
<1> QED BY <1>1, HubInvariant, PTL

(* The positions in a collection count up to its limit, which calls that   *)
(* overlap exceed by less than one each.                                   *)
THEOREM CollectionsStayInOrder == HubSpec => []ShelvesInOrder
<1>1. HubInv => ShelvesInOrder
  <2> USE ResourceHubAssumption DEF ResourceHubAssumption
  <2> SUFFICES ASSUME HubInv, NEW c \in Collections
               PROVE  /\ \A i \in DOMAIN shelf[c] : shelf[c][i] <= i /\ (crowded \/ shelf[c][i] = i)
                      /\ Len(shelf[c]) < CollectionLimit + (IF crowded THEN Cardinality(Visits) ELSE 1)
      BY DEF ShelvesInOrder
  <2>1. shelf[c] \in Seq(Nat) /\ HubTypes BY DEF HubInv, HubBase, HubTypes
  <2>2. DOMAIN shelf[c] = 1..Len(shelf[c]) /\ Len(shelf[c]) \in Nat BY <2>1
  <2>3. PICK S \in SUBSET Visits : S = Shelving(c) BY DEF Shelving
  <2>4. ~crowded => \A p, q \in S : p = q
        BY <2>3 DEF HubInv, HubBase, LoneVisit, Shelving, NoVisit
  <2>5. Cardinality(S) \in Nat /\ ShelvingRoom \in Nat BY <2>1, <2>4, RoomToShelve
  <2>6. Len(shelf[c]) + Cardinality(S) <= CollectionLimit - 1 + ShelvingRoom
        BY <2>3 DEF HubInv, ShelvesInv, ShelvesFit
  <2>7. Len(shelf[c]) < CollectionLimit + ShelvingRoom BY <2>2, <2>5, <2>6
  <2> QED BY <2>2, <2>7 DEF HubInv, ShelvesInv, PositionsFit, ShelvingRoom
<1> QED BY <1>1, HubInvariant, PTL
=============================================================================
