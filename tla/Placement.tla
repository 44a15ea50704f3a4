------------------------------ MODULE Placement ------------------------------
(***************************************************************************)
(* Placement guidance (modules/placement-guidance): experiences students   *)
(* submit with the company they are about, the questions of the bank, and  *)
(* their reports and moderation.  Every use case is one step but           *)
(* submitExperience, which looks for the company, creates it and stores    *)
(* the experience with an await in between.                                *)
(***************************************************************************)
EXTENDS Naturals, FiniteSets, FiniteSetsExt

CONSTANTS
  Companies, Slugs, Experiences, Questions,
  Submissions,      \* calls of submitExperience that can be in flight at once
  MaxItemReports,   \* bound: reports counted on all experiences and questions
  NoCompany, NoSlug

ASSUME PlacementAssumption ==
  /\ NoCompany \notin Companies /\ NoSlug \notin Slugs
  /\ Experiences \cap Questions = {}
  /\ IsFiniteSet(Companies) /\ IsFiniteSet(Submissions)

FlagAt == 3   \* the literal of incrementReportCount

VARIABLES
  company,     \* company[c]: its slug, or NoSlug
  slugIndex,   \* slugIndex[s]: the company findCompanyBySlug finds
  item,        \* item[i]: an experience or a question
  sinceApproval, \* sinceApproval[i]: the reports since i was last approved
  submission,  \* the calls in flight
  rush         \* whether calls of submitExperience overlap in this behaviour

placementVars == <<company, slugIndex, item, sinceApproval, submission, rush>>

Items  == Experiences \cup Questions
NoItem == [company |-> NoCompany, status |-> "NONE", reports |-> 0]
NoSubmission == [at |-> "idle", slug |-> NoSlug, company |-> NoCompany]

PlacementInit ==
  /\ company = [c \in Companies |-> NoSlug]
  /\ slugIndex = [s \in Slugs |-> NoCompany]
  /\ item = [i \in Items |-> NoItem]
  /\ sinceApproval = [i \in Items |-> 0]
  /\ submission = [p \in Submissions |-> NoSubmission]
  /\ rush \in BOOLEAN

Stored(i) == item[i].status \notin {"NONE", "DELETED"}
CanReport == MapThenSumSet(LAMBDA i : item[i].reports, Items) < MaxItemReports
Approved(i) == IF i \in Experiences THEN "APPROVED" ELSE "ACTIVE"

-----------------------------------------------------------------------------
(* submitExperience looks the company up by its slug, ... *)
SubmitExperience(p, s) ==
  /\ submission[p].at = "idle"
  /\ rush \/ \A other \in Submissions : submission[other].at = "idle"
  /\ submission' = [submission EXCEPT ![p] =
       [at |-> IF slugIndex[s] = NoCompany THEN "company" ELSE "experience",
        slug |-> s, company |-> slugIndex[s]]]
  /\ UNCHANGED <<company, slugIndex, item, sinceApproval, rush>>

(* Mutant: the new company is not put under its slug. *)
CreateUnindexed(p, c) ==
  /\ submission[p].at = "company"
  /\ company[c] = NoSlug
  /\ company' = [company EXCEPT ![c] = submission[p].slug]
  /\ submission' = [submission EXCEPT ![p].at = "experience", ![p].company = c]
  /\ UNCHANGED <<slugIndex, item, sinceApproval, rush>>

(* ... creates it when there was none ... *)
CreateCompany(p, c) ==
  /\ submission[p].at = "company"
  /\ company[c] = NoSlug
  /\ company' = [company EXCEPT ![c] = submission[p].slug]
  /\ slugIndex' = [slugIndex EXCEPT ![submission[p].slug] = c]
  /\ submission' = [submission EXCEPT ![p].at = "experience", ![p].company = c]
  /\ UNCHANGED <<item, sinceApproval, rush>>

(* ... and stores the experience, approved. *)
CreateExperience(p, e) ==
  /\ submission[p].at = "experience"
  /\ item[e] = NoItem
  /\ item' = [item EXCEPT ![e] =
       [company |-> submission[p].company, status |-> "APPROVED", reports |-> 0]]
  /\ submission' = [submission EXCEPT ![p] = NoSubmission]
  /\ UNCHANGED <<company, slugIndex, sinceApproval, rush>>

CreateQuestion(q) ==
  /\ item[q] = NoItem
  /\ item' = [item EXCEPT ![q].status = "ACTIVE"]
  /\ UNCHANGED <<company, slugIndex, sinceApproval, submission, rush>>

-----------------------------------------------------------------------------
(* Mutant: the report after the third flags. *)
ReportedLate(i) ==
  [item[i] EXCEPT !.reports = @ + 1,
                  !.status = IF item[i].reports >= FlagAt THEN "FLAGGED" ELSE @]

(* incrementReportCount and incrementQuestionReportCount *)
Reported(i) ==
  [item[i] EXCEPT !.reports = @ + 1,
                  !.status = IF item[i].reports + 1 >= FlagAt THEN "FLAGGED" ELSE @]

ReportItem(i) ==
  /\ Stored(i)
  /\ CanReport
  /\ item' = [item EXCEPT ![i] = Reported(i)]
  /\ sinceApproval' = [sinceApproval EXCEPT ![i] = @ + 1]
  /\ UNCHANGED <<company, slugIndex, submission, rush>>

(* moderateExperience and moderateQuestion; the item stays stored. *)
DeleteItem(i) ==
  /\ Stored(i)
  /\ item' = [item EXCEPT ![i].status = "DELETED"]
  /\ UNCHANGED <<company, slugIndex, sinceApproval, submission, rush>>

(* Only the reports of a question start again from nothing. *)
ApproveItem(i) ==
  /\ Stored(i)
  /\ item' = [item EXCEPT ![i].status = Approved(i),
                          ![i].reports = IF i \in Questions THEN 0 ELSE @]
  /\ sinceApproval' = [sinceApproval EXCEPT ![i] = 0]
  /\ UNCHANGED <<company, slugIndex, submission, rush>>

(* To flag a question counts one report of it. *)
FlagItem(i) ==
  /\ Stored(i)
  /\ CanReport
  /\ item' = [item EXCEPT ![i] =
       IF i \in Questions THEN Reported(i) ELSE [@ EXCEPT !.status = "FLAGGED"]]
  /\ UNCHANGED <<company, slugIndex, sinceApproval, submission, rush>>

PlacementNext ==
  \/ \E p \in Submissions :
       \/ \E s \in Slugs : SubmitExperience(p, s)
       \/ \E c \in Companies : CreateCompany(p, c)
       \/ \E e \in Experiences : CreateExperience(p, e)
  \/ \E q \in Questions : CreateQuestion(q)
  \/ \E i \in Items : ReportItem(i) \/ DeleteItem(i) \/ ApproveItem(i) \/ FlagItem(i)

PlacementSpec == PlacementInit /\ [][PlacementNext]_placementVars

-----------------------------------------------------------------------------
(* An experience belongs to a stored company, and the slug of that company *)
(* finds a company of its own: the very company of the experience while    *)
(* submissions do not overlap, because no other has the slug.  Calls of    *)
(* submitExperience that overlap store the company more than once, but     *)
(* never more often than there are calls in flight at one moment.          *)
Finds(s) == slugIndex[s] \in Companies /\ company[slugIndex[s]] = s
Namesakes(s) == {c \in Companies : company[c] = s}
CompanyIsFound ==
  /\ \A e \in Experiences : item[e] # NoItem => Finds(company[item[e].company])
  /\ \A s \in Slugs :
       Cardinality(Namesakes(s)) <= IF rush THEN Cardinality(Submissions) ELSE 1

(* Three reports since an experience or question was last approved bring   *)
(* it to the moderation queue, whatever was decided about it before.       *)
ThirdReportFlags ==
  \A i \in Items : Stored(i) /\ sinceApproval[i] >= FlagAt => item[i].status = "FLAGGED"
=============================================================================
