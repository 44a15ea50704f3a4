----------------------------- MODULE Marketplace -----------------------------
(***************************************************************************)
(* Listings, offers, reservations and reports of the campus marketplace    *)
(* (modules/marketplace/src/use-cases/marketplace.use-cases.ts over the    *)
(* repositories of repositories/in-memory-marketplace.repo.ts).            *)
(*                                                                         *)
(* A use case is an async function: between two of its awaits it runs      *)
(* alone, at each await other calls may run.  A call in flight is a        *)
(* request q; req[q].pc names the repository call it makes next, and the   *)
(* other fields are its local variables.  findById returns a copy and      *)
(* save overwrites the whole entity, so a listing a call has read lives    *)
(* in req[q].copy until the call saves it.                                 *)
(*                                                                         *)
(* A call that throws before it changed anything leaves no trace, so only  *)
(* the guards that let it go on appear.  Publishing an event and writing   *)
(* the audit log change nothing modelled here, except that `sold' keeps    *)
(* the reservations for which ListingSold was published.                   *)
(***************************************************************************)
EXTENDS ListingStates, Naturals, FiniteSets

CONSTANTS
  Listings, Users, Offers, Reservations,   \* identifiers
  Buyers, Reporters,                       \* the users who make offers, who report
  Requests,        \* calls that can be in flight at once
  SellerOf,        \* the user who creates each listing
  Serial,          \* TRUE: calls never overlap; FALSE: they interleave at awaits
  None             \* null / undefined

ASSUME MarketplaceAssumption ==
  /\ SellerOf \in [Listings -> Users]
  /\ Buyers \subseteq Users /\ Reporters \subseteq Users
  /\ Serial \in BOOLEAN
  /\ None \notin Listings \cup Users \cup Offers \cup Reservations

QuarantineAt == 3    \* the literal of reportListing and of ModerationWorker

VARIABLES
  listing,       \* listing[l].status, listing[l].cur (currentReservationId)
  offer,         \* offer[o].status, .l (listingId), .buyer
  reservation,   \* reservation[r].status, .l, .o (offerId)
  reports,       \* reports[l]: the users whose report of l is stored
  sold,          \* reservations named by a published ListingSold event
  req            \* the calls in flight

vars == <<listing, offer, reservation, reports, sold, req>>

-----------------------------------------------------------------------------
(* Types. *)

ListingRec     == [status : Statuses, cur : Reservations \cup {None}]
OfferRec       == [status : {"NONE", "CREATED", "ACCEPTED"},
                   l : Listings \cup {None}, buyer : Users \cup {None}]
ReservationRec == [status : {"NONE", "ACTIVE", "COMPLETED", "EXPIRED"},
                   l : Listings \cup {None}, o : Offers \cup {None}]
Points  == {"idle", "saveListing",
            "findActiveOffer", "saveOffer",
            "saveAccepted", "saveReservation",
            "saveCompleted", "findReserved",
            "findReport", "saveReport", "countReports"}
Request == [pc : Points, l : Listings \cup {None}, copy : ListingRec,
            o : Offers \cup {None}, r : Reservations \cup {None},
            u : Users \cup {None}]

TypeOK ==
  /\ listing \in [Listings -> ListingRec]
  /\ offer \in [Offers -> OfferRec]
  /\ reservation \in [Reservations -> ReservationRec]
  /\ reports \in [Listings -> SUBSET Users]
  /\ sold \subseteq Reservations
  /\ req \in [Requests -> Request]

-----------------------------------------------------------------------------
(* State helpers. *)

NoListing == [status |-> "NONE", cur |-> None]

(* A call suspended before the repository call named by point, with its    *)
(* listing, the copy it read, its offer, reservation and user.             *)
Call(point, l, copy, o, r, u) ==
  [pc |-> point, l |-> l, copy |-> copy, o |-> o, r |-> r, u |-> u]
Idle == Call("idle", None, NoListing, None, None, None)

(* A call about to save listing l with status s and reservation pointer c. *)
Saving(l, s, c, r, u) ==
  Call("saveListing", l, [status |-> s, cur |-> c], None, r, u)

(* listingRepo.findById returns an entity: stored and without deletedAt. *)
Found(l) == listing[l].status \notin {"NONE", "DELETED"}

(* A call starts: q is free, and nothing else runs when calls are serial. *)
Free(q) == /\ req[q] = Idle
           /\ Serial => \A p \in Requests : req[p] = Idle

At(q, point)     == req[q].pc = point
Return(q)        == req' = [req EXCEPT ![q] = Idle]
Goto(q, locals)  == req' = [req EXCEPT ![q] = locals]
Resume(q, point) == req' = [req EXCEPT ![q].pc = point]

Init ==
  /\ listing = [l \in Listings |-> NoListing]
  /\ offer = [o \in Offers |-> [status |-> "NONE", l |-> None, buyer |-> None]]
  /\ reservation = [r \in Reservations |-> [status |-> "NONE", l |-> None, o |-> None]]
  /\ reports = [l \in Listings |-> {}]
  /\ sold = {}
  /\ req = [q \in Requests |-> Idle]

-----------------------------------------------------------------------------
(* listingRepo.save(copy), the last write of publishListing, acceptOffer,  *)
(* reportListing, moderateListing and completeReservation; the events      *)
(* that follow it are published as part of the step.                       *)
SaveListing(q) ==
  /\ At(q, "saveListing")
  /\ listing' = [listing EXCEPT ![req[q].l] = req[q].copy]
  /\ sold' = IF req[q].copy.status = "SOLD" THEN sold \cup {req[q].r} ELSE sold
  /\ Return(q)
  /\ UNCHANGED <<offer, reservation, reports>>

-----------------------------------------------------------------------------
(* 1. createListingDraft: one save of a new entity. *)
CreateListingDraft(q, l) ==
  /\ Free(q)
  /\ listing[l].status = "NONE"
  /\ listing' = [listing EXCEPT ![l] = [status |-> "DRAFT", cur |-> None]]
  /\ UNCHANGED <<offer, reservation, reports, sold, req>>

(* Mutant: publishing also drops the reservation pointer. *)
PublishClearsPointer(q, l) ==
  /\ Free(q)
  /\ Found(l)
  /\ CanMove(listing[l].status, "PUBLISHED")
  /\ Goto(q, Saving(l, "PUBLISHED", None, None, SellerOf[l]))
  /\ UNCHANGED <<listing, offer, reservation, reports, sold>>

(* 2. publishListing, called by the seller. *)
PublishListing(q, l) ==
  /\ Free(q)
  /\ Found(l)
  /\ CanMove(listing[l].status, "PUBLISHED")
  /\ Goto(q, Saving(l, "PUBLISHED", listing[l].cur, None, SellerOf[l]))
  /\ UNCHANGED <<listing, offer, reservation, reports, sold>>

-----------------------------------------------------------------------------
(* 3. submitOffer: the listing is read and must be PUBLISHED, then the     *)
(* buyer's pending offers are looked up, then the new offer is saved.      *)
SubmitOffer(q, l, u) ==
  /\ Free(q)
  /\ listing[l].status = "PUBLISHED"
  /\ u # SellerOf[l]
  /\ Goto(q, Call("findActiveOffer", l, NoListing, None, None, u))
  /\ UNCHANGED <<listing, offer, reservation, reports, sold>>

(* offerRepo.findActiveByBuyerAndListing finds one; the code also looks    *)
(* for COUNTERED, which nothing writes.                                    *)
HasPendingOffer(l, u) ==
  \E o \in Offers : offer[o] = [status |-> "CREATED", l |-> l, buyer |-> u]

SubmitOfferCheck(q) ==
  /\ At(q, "findActiveOffer")
  /\ IF HasPendingOffer(req[q].l, req[q].u)
       THEN Return(q)
       ELSE Resume(q, "saveOffer")
  /\ UNCHANGED <<listing, offer, reservation, reports, sold>>

SubmitOfferSave(q, o) ==
  /\ At(q, "saveOffer")
  /\ offer[o].status = "NONE"
  /\ offer' = [offer EXCEPT ![o] = [status |-> "CREATED", l |-> req[q].l,
                                    buyer |-> req[q].u]]
  /\ Return(q)
  /\ UNCHANGED <<listing, reservation, reports, sold>>

-----------------------------------------------------------------------------
(* Mutants: no look at currentReservationId; the offer's save is skipped.  *)
AcceptReserved(q, o) ==
  LET l == offer[o].l IN
  /\ Free(q)
  /\ offer[o].status # "NONE"
  /\ listing[l].status = "PUBLISHED"
  /\ Goto(q, Call("saveAccepted", l, NoListing, o, None, None))
  /\ UNCHANGED <<listing, offer, reservation, reports, sold>>

AcceptKeepsOffer(q, o) ==
  LET l == offer[o].l IN
  /\ Free(q)
  /\ offer[o].status # "NONE"
  /\ listing[l].status = "PUBLISHED"
  /\ listing[l].cur = None
  /\ Goto(q, Call("saveReservation", l, NoListing, o, None, None))
  /\ UNCHANGED <<listing, offer, reservation, reports, sold>>

(* 4. acceptOffer.  The offer is read first, whatever its status; its      *)
(* other fields never change, so that read shares a step with the read of  *)
(* the listing.  Then three saves: the offer, the reservation, the listing.*)
(* The copy of the listing has the status and pointer tested here, and     *)
(* both are overwritten before it is saved.                                *)
AcceptOffer(q, o) ==
  LET l == offer[o].l IN
  /\ Free(q)
  /\ offer[o].status # "NONE"
  /\ listing[l].status = "PUBLISHED"
  /\ listing[l].cur = None                       \* assertSingleActiveReservation
  /\ Goto(q, Call("saveAccepted", l, NoListing, o, None, None))
  /\ UNCHANGED <<listing, offer, reservation, reports, sold>>

AcceptSaveOffer(q) ==
  /\ At(q, "saveAccepted")
  /\ offer' = [offer EXCEPT ![req[q].o].status = "ACCEPTED"]
  /\ Resume(q, "saveReservation")
  /\ UNCHANGED <<listing, reservation, reports, sold>>

AcceptSaveReservation(q, r) ==
  /\ At(q, "saveReservation")
  /\ reservation[r].status = "NONE"
  /\ reservation' = [reservation EXCEPT ![r] =
                       [status |-> "ACTIVE", l |-> req[q].l, o |-> req[q].o]]
  /\ Goto(q, Saving(req[q].l, "RESERVED", r, r, None))
  /\ UNCHANGED <<listing, offer, reports, sold>>

-----------------------------------------------------------------------------
(* 8. reportListing.  The listing is read before the awaits on the report  *)
(* repository, and that copy is what the circuit breaker tests and saves.  *)
ReportListing(q, l, u) ==
  /\ Free(q)
  /\ Found(l)
  /\ Goto(q, Call("findReport", l, listing[l], None, None, u))
  /\ UNCHANGED <<listing, offer, reservation, reports, sold>>

ReportCheck(q) ==
  /\ At(q, "findReport")
  /\ IF req[q].u \in reports[req[q].l] THEN Return(q) ELSE Resume(q, "saveReport")
  /\ UNCHANGED <<listing, offer, reservation, reports, sold>>

ReportSave(q) ==
  /\ At(q, "saveReport")
  /\ reports' = [reports EXCEPT ![req[q].l] = @ \cup {req[q].u}]
  /\ Resume(q, "countReports")
  /\ UNCHANGED <<listing, offer, reservation, sold>>

(* Mutant: quarantine only past the threshold. *)
CountPastThreshold(q) ==
  /\ At(q, "countReports")
  /\ IF /\ Cardinality(reports[req[q].l]) > QuarantineAt
        /\ req[q].copy.status = "PUBLISHED"
       THEN Goto(q, Saving(req[q].l, "QUARANTINED", req[q].copy.cur, None, req[q].u))
       ELSE Return(q)
  /\ UNCHANGED <<listing, offer, reservation, reports, sold>>

ReportCount(q) ==
  /\ At(q, "countReports")
  /\ IF /\ Cardinality(reports[req[q].l]) >= QuarantineAt
        /\ req[q].copy.status = "PUBLISHED"
       THEN Goto(q, Saving(req[q].l, "QUARANTINED", req[q].copy.cur, None, req[q].u))
       ELSE Return(q)
  /\ UNCHANGED <<listing, offer, reservation, reports, sold>>

-----------------------------------------------------------------------------
(* 9. moderateListing.  HIDE of a quarantined listing saves it unchanged.  *)
Actions == {"RESTORE", "HIDE", "DELETE"}
Decision(action) == CASE action = "RESTORE" -> "PUBLISHED"
                      [] action = "HIDE"    -> "QUARANTINED"
                      [] action = "DELETE"  -> "DELETED"

ModerateListing(q, l, action) ==
  /\ Free(q)
  /\ Found(l)
  /\ \/ CanMove(listing[l].status, Decision(action))
     \/ action = "HIDE" /\ listing[l].status = "QUARANTINED"
  /\ Goto(q, Saving(l, Decision(action), listing[l].cur, None, None))
  /\ UNCHANGED <<listing, offer, reservation, reports, sold>>

-----------------------------------------------------------------------------
(* 10. completeReservation.  The reservation is saved as COMPLETED before  *)
(* the listing is read; a listing that is gone or cannot become SOLD makes *)
(* the call throw after that save.                                         *)
CompleteReservation(q, r) ==
  /\ Free(q)
  /\ reservation[r].status # "NONE"
  /\ Goto(q, Call("saveCompleted", reservation[r].l, NoListing, None, r, None))
  /\ UNCHANGED <<listing, offer, reservation, reports, sold>>

CompleteSaveReservation(q) ==
  /\ At(q, "saveCompleted")
  /\ reservation' = [reservation EXCEPT ![req[q].r].status = "COMPLETED"]
  /\ Resume(q, "findReserved")
  /\ UNCHANGED <<listing, offer, reports, sold>>

CompleteReadListing(q) ==
  LET l == req[q].l IN
  /\ At(q, "findReserved")
  /\ IF Found(l) /\ CanMove(listing[l].status, "SOLD")
       THEN Goto(q, Saving(l, "SOLD", listing[l].cur, req[q].r, None))
       ELSE Return(q)
  /\ UNCHANGED <<listing, offer, reservation, reports, sold>>

-----------------------------------------------------------------------------
(* A call begins: everything up to its first await. *)
Begin(q) ==
  \/ \E l \in Listings : CreateListingDraft(q, l) \/ PublishListing(q, l)
  \/ \E l \in Listings, u \in Buyers : SubmitOffer(q, l, u)
  \/ \E l \in Listings, u \in Reporters : ReportListing(q, l, u)
  \/ \E o \in Offers : AcceptOffer(q, o)
  \/ \E r \in Reservations : CompleteReservation(q, r)
  \/ \E l \in Listings, action \in Actions : ModerateListing(q, l, action)

(* A call in flight resumes after the await it was suspended at. *)
Proceed(q) ==
  \/ SaveListing(q)
  \/ SubmitOfferCheck(q)
  \/ \E o \in Offers : SubmitOfferSave(q, o)
  \/ AcceptSaveOffer(q)
  \/ \E r \in Reservations : AcceptSaveReservation(q, r)
  \/ ReportCheck(q) \/ ReportSave(q) \/ ReportCount(q)
  \/ CompleteSaveReservation(q) \/ CompleteReadListing(q)

Next == \E q \in Requests : Begin(q) \/ Proceed(q)

Spec == Init /\ [][Next]_vars

(* The event loop always resumes a suspended call; nobody has to call. *)
FairSpec == Spec /\ \A q \in Requests : WF_vars(Proceed(q))

-----------------------------------------------------------------------------
(* What holds however calls interleave.                                    *)

(* A reservation stems from an accepted offer on the same listing.         *)
(* acceptOffer saves the offer before the reservation, and no handler      *)
(* takes an offer back from ACCEPTED.                                      *)
OfferDrivenReservation ==
  \A r \in Reservations : reservation[r].status # "NONE" =>
    LET o == reservation[r].o IN
    /\ o \in Offers
    /\ offer[o].status = "ACCEPTED"
    /\ offer[o].l = reservation[r].l

(* A RESERVED listing names a stored reservation of its own, although      *)
(* status and currentReservationId travel in copies that calls hold across *)
(* awaits and write back whole.                                            *)
LockNamesReservation ==
  \A l \in Listings : listing[l].status = "RESERVED" =>
    /\ listing[l].cur \in Reservations
    /\ reservation[listing[l].cur].status # "NONE"
    /\ reservation[listing[l].cur].l = l

(* Only a completed reservation of the listing makes it SOLD:              *)
(* completeReservation saves the reservation before it marks the listing.  *)
SoldWasCompleted ==
  \A l \in Listings : listing[l].status = "SOLD" =>
    \E r \in Reservations : reservation[r].status = "COMPLETED" /\ reservation[r].l = l

-----------------------------------------------------------------------------
(* What holds when calls do not overlap (Serial), and fails when they do.  *)

AllIdle == \A q \in Requests : req[q] = Idle

(* At most one ACTIVE reservation per listing (the single active           *)
(* reservation rule), through publishing and moderation of a reserved      *)
(* listing and through every failed completion.                            *)
OneActiveReservation ==
  \A r1, r2 \in Reservations :
    /\ reservation[r1].status = "ACTIVE"
    /\ reservation[r2].status = "ACTIVE"
    /\ reservation[r1].l = reservation[r2].l
    => r1 = r2

(* At most one pending offer per buyer and listing (submitOffer's check).  *)
OnePendingOffer ==
  \A o1, o2 \in Offers :
    offer[o1].status = "CREATED" /\ offer[o1] = offer[o2] => o1 = o2

(* Every stored change of a listing's status is a move of the transition   *)
(* table: what was checked against a copy still holds when it is saved.    *)
LegalTransitions ==
  [][\A l \in Listings :
       \/ listing[l].status = "NONE"
       \/ listing'[l].status = listing[l].status
       \/ CanMove(listing[l].status, listing'[l].status)]_vars

(* A third report leaves a published listing off sale: a counted report    *)
(* of a listing with QuarantineAt reporters leads to its quarantine.       *)
CountedReportsQuarantine ==
  \A l \in Listings :
    (/\ listing[l].status = "PUBLISHED"
     /\ Cardinality(reports[l]) >= QuarantineAt
     /\ \E q \in Requests : At(q, "countReports") /\ req[q].l = l)
    ~> listing[l].status = "QUARANTINED"

(* The abstract sale: a listing is promised to one reservation, and sold   *)
(* once, to the one it was promised to.                                    *)
Promise == INSTANCE Sale WITH holder <- [l \in Listings |-> listing[l].cur]
RefinesSale == Promise!Spec

=============================================================================
