-------------------------- MODULE MarketplaceProofs --------------------------
(***************************************************************************)
(* Proofs about Marketplace, for every set of listings, users, offers,     *)
(* reservations and calls: first what holds however calls interleave, then *)
(* what calls that do not overlap add to it, one active reservation per    *)
(* listing, legal transitions, and the abstract sale; and what is left of  *)
(* both when the background workers of MarketplaceWorkers join in.         *)
(***************************************************************************)
EXTENDS MarketplaceWorkers, TLAPS

-----------------------------------------------------------------------------
(* The inductive invariant behind the safety properties: what a call holds *)
(* in its locals is as true of the store as what is stored.                *)

Stored(r, l) == r \in Reservations /\ reservation[r].status # "NONE"
                                   /\ reservation[r].l = l

(* A listing entity c of l, in the store or in a call's copy. *)
Sound(l, c) ==
  /\ c.cur # None => Stored(c.cur, l)
  /\ c.status = "RESERVED" => c.cur # None

LocalsOK(q) ==
  /\ req[q].pc # "idle" => req[q].l \in Listings
  /\ req[q].pc = "idle" => req[q] = Idle
  /\ req[q].pc = "saveAccepted" =>
       req[q].o \in Offers /\ offer[req[q].o].status # "NONE" /\ offer[req[q].o].l = req[q].l
  /\ req[q].pc = "saveReservation" =>
       req[q].o \in Offers /\ offer[req[q].o].status = "ACCEPTED" /\ offer[req[q].o].l = req[q].l
  /\ req[q].pc \in {"saveCompleted", "findReserved"} => Stored(req[q].r, req[q].l)
  /\ req[q].pc = "saveListing" /\ req[q].copy.status = "SOLD" => Stored(req[q].r, req[q].l)
  /\ req[q].pc \in {"saveListing", "findReport", "saveReport", "countReports"} =>
       Sound(req[q].l, req[q].copy)
  /\ req[q].pc \in {"findReport", "saveReport", "findActiveOffer", "saveOffer"} =>
       req[q].u \in Users

IInv ==
  /\ TypeOK
  /\ \A o \in Offers : offer[o].status # "NONE" => offer[o].l \in Listings
  /\ \A r \in Reservations : reservation[r].status # "NONE" => reservation[r].l \in Listings
  /\ OfferDrivenReservation
  /\ \A l \in Listings : Sound(l, listing[l])
  /\ \A q \in Requests : LocalsOK(q)

-----------------------------------------------------------------------------
LEMMA InitIInv == Init => IInv
<1> SUFFICES ASSUME Init PROVE IInv
  OBVIOUS
<1> USE MarketplaceAssumption DEF Init, Idle, Call, NoListing
<1>1. TypeOK
  BY DEF TypeOK, ListingRec, OfferRec, ReservationRec, Request, Points, Statuses, LiveStatuses
<1>2. OfferDrivenReservation
  BY DEF OfferDrivenReservation
<1>3. \A l \in Listings : Sound(l, listing[l])
  BY DEF Sound
<1>4. \A q \in Requests : LocalsOK(q)
  BY DEF LocalsOK
<1>5. QED
  BY <1>1, <1>2, <1>3, <1>4 DEF IInv

(* A step that only moves one call's locals to rec keeps the invariant if  *)
(* rec is sound.                                                           *)
LEMMA LocalStep ==
  ASSUME IInv, NEW q \in Requests, NEW rec \in Request,
         req' = [req EXCEPT ![q] = rec],
         UNCHANGED <<listing, offer, reservation, reports, sold>>,
         LocalsOK(q)'
  PROVE  IInv'
<1>1. TypeOK'
  BY DEF IInv, TypeOK
<1>2. /\ OfferDrivenReservation'
      /\ \A l \in Listings : Sound(l, listing[l])'
      /\ (\A o \in Offers : offer[o].status # "NONE" => offer[o].l \in Listings)'
      /\ (\A r \in Reservations : reservation[r].status # "NONE" => reservation[r].l \in Listings)'
  BY DEF IInv, OfferDrivenReservation, Sound, Stored
<1>3. ASSUME NEW p \in Requests PROVE LocalsOK(p)'
  <2>1. CASE p = q
    BY <2>1
  <2>2. CASE p # q
    <3>1. req'[p] = req[p]
      BY <2>2 DEF IInv, TypeOK
    <3>2. LocalsOK(p)
      BY DEF IInv
    <3>3. QED
      BY <3>1, <3>2 DEF LocalsOK, Sound, Stored
  <2>3. QED
    BY <2>1, <2>2
<1>4. QED
  BY <1>1, <1>2, <1>3 DEF IInv

-----------------------------------------------------------------------------
(* Resume only moves the program point. *)
LEMMA ResumeIsGoto ==
  ASSUME TypeOK, NEW q \in Requests, NEW to \in Points, Resume(q, to)
  PROVE  LET rec == Call(to, req[q].l, req[q].copy, req[q].o, req[q].r, req[q].u)
         IN  rec \in Request /\ Goto(q, rec)
<1> DEFINE rec == Call(to, req[q].l, req[q].copy, req[q].o, req[q].r, req[q].u)
<1>1. req[q] \in Request
  BY DEF TypeOK
<1>2. rec \in Request
  BY <1>1 DEF Request, Call
<1>3. rec = [req[q] EXCEPT !.pc = to]
  BY <1>1 DEF Request, Call
<1>4. Goto(q, rec)
  BY <1>3 DEF Resume, Goto
<1>5. QED
  BY <1>2, <1>4

(* The steps that only read: each moves one call's locals.                 *)
LEMMA ReadSteps ==
  ASSUME IInv, NEW q \in Requests,
         \/ \E l \in Listings : PublishListing(q, l)
         \/ \E l \in Listings, action \in Actions : ModerateListing(q, l, action)
         \/ \E l \in Listings, u \in Buyers : SubmitOffer(q, l, u)
         \/ \E l \in Listings, u \in Reporters : ReportListing(q, l, u)
         \/ \E o \in Offers : AcceptOffer(q, o)
         \/ \E r \in Reservations : CompleteReservation(q, r)
         \/ SubmitOfferCheck(q) \/ ReportCheck(q) \/ ReportCount(q)
         \/ CompleteReadListing(q)
  PROVE  IInv'
<1> USE MarketplaceAssumption
<1> DEFINE Same == UNCHANGED <<listing, offer, reservation, reports, sold>>
<1>0. /\ TypeOK /\ LocalsOK(q) /\ req[q] \in Request
      /\ \A l \in Listings : listing[l] \in ListingRec /\ Sound(l, listing[l])
      /\ NoListing \in ListingRec
  BY DEF IInv, TypeOK, NoListing, ListingRec, Statuses, LiveStatuses
<1>1. ASSUME NEW rec \in Request, Goto(q, rec), Same, req'[q] = rec => LocalsOK(q)'
      PROVE  IInv'
  <2>1. req'[q] = rec
    BY <1>0, <1>1 DEF TypeOK, Goto
  <2>2. QED
    BY <1>1, <2>1, LocalStep DEF Goto
<1>2. ASSUME Return(q), Same PROVE IInv'
  <2>1. Idle \in Request
    BY <1>0 DEF Idle, Call, Request, Points
  <2>2. req'[q] = Idle => LocalsOK(q)'
    BY DEF LocalsOK, Idle, Call
  <2>3. QED
    BY <1>1, <1>2, <2>1, <2>2 DEF Return, Goto
<1>3. ASSUME NEW l \in Listings, NEW s \in Statuses, NEW c \in Reservations \cup {None},
             NEW r \in Reservations \cup {None}, NEW u \in Users \cup {None},
             Sound(l, [status |-> s, cur |-> c]),
             s = "SOLD" => Stored(r, l),
             Goto(q, Saving(l, s, c, r, u)), Same
      PROVE  IInv'
  <2>1. Saving(l, s, c, r, u) \in Request
    BY DEF Saving, Call, Request, Points, ListingRec
  <2>2. req'[q] = Saving(l, s, c, r, u) => LocalsOK(q)'
    BY <1>3 DEF LocalsOK, Saving, Call, Sound, Stored
  <2>3. QED
    BY <1>1, <1>3, <2>1, <2>2
<1>4. CASE \E l \in Listings : PublishListing(q, l)
  <2>1. PICK l \in Listings : PublishListing(q, l)
    BY <1>4
  <2>2. Sound(l, [status |-> "PUBLISHED", cur |-> listing[l].cur])
    BY <1>0 DEF Sound
  <2>3. QED
    BY <1>0, <1>3, <2>1, <2>2 DEF PublishListing, Statuses, LiveStatuses, ListingRec
<1>5. CASE \E l \in Listings, action \in Actions : ModerateListing(q, l, action)
  <2>1. PICK l \in Listings, action \in Actions : ModerateListing(q, l, action)
    BY <1>5
  <2>2. Decision(action) \in Statuses \ {"SOLD", "RESERVED"}
    BY DEF Actions, Decision, Statuses, LiveStatuses
  <2>3. Sound(l, [status |-> Decision(action), cur |-> listing[l].cur])
    BY <1>0, <2>2 DEF Sound
  <2>4. listing[l].cur \in Reservations \cup {None}
    BY <1>0 DEF ListingRec
  <2>5. QED
    BY <1>3, <2>1, <2>2, <2>3, <2>4 DEF ModerateListing
<1>6. CASE \E l \in Listings, u \in Buyers : SubmitOffer(q, l, u)
  <2>1. PICK l \in Listings, u \in Buyers : SubmitOffer(q, l, u)
    BY <1>6
  <2> DEFINE rec == Call("findActiveOffer", l, NoListing, None, None, u)
  <2>2. rec \in Request
    BY <1>0 DEF Request, Points, Call
  <2>3. req'[q] = rec => LocalsOK(q)'
    BY DEF LocalsOK, Call
  <2>4. QED
    BY <1>1, <2>1, <2>2, <2>3 DEF SubmitOffer
<1>7. CASE \E l \in Listings, u \in Reporters : ReportListing(q, l, u)
  <2>1. PICK l \in Listings, u \in Reporters : ReportListing(q, l, u)
    BY <1>7
  <2> DEFINE rec == Call("findReport", l, listing[l], None, None, u)
  <2>2. rec \in Request
    BY <1>0 DEF Request, Points, Call
  <2>3. req'[q] = rec => LocalsOK(q)'
    BY <1>0, <2>1 DEF LocalsOK, Call, Sound, Stored, ReportListing
  <2>4. QED
    BY <1>1, <2>1, <2>2, <2>3 DEF ReportListing
<1>8. CASE \E o \in Offers : AcceptOffer(q, o)
  <2>1. PICK o \in Offers : AcceptOffer(q, o)
    BY <1>8
  <2> DEFINE rec == Call("saveAccepted", offer[o].l, NoListing, o, None, None)
  <2>2. offer[o].l \in Listings /\ offer[o].status # "NONE"
    BY <2>1 DEF IInv, AcceptOffer
  <2>3. rec \in Request
    BY <1>0, <2>2 DEF Request, Points, Call
  <2>4. req'[q] = rec => LocalsOK(q)'
    BY <2>1, <2>2 DEF LocalsOK, Call, AcceptOffer
  <2>5. QED
    BY <1>1, <2>1, <2>3, <2>4 DEF AcceptOffer
<1>9. CASE \E r \in Reservations : CompleteReservation(q, r)
  <2>1. PICK r \in Reservations : CompleteReservation(q, r)
    BY <1>9
  <2> DEFINE rec == Call("saveCompleted", reservation[r].l, NoListing, None, r, None)
  <2>2. Stored(r, reservation[r].l) /\ reservation[r].l \in Listings
    BY <2>1 DEF IInv, CompleteReservation, Stored
  <2>3. rec \in Request
    BY <1>0, <2>2 DEF Request, Points, Call
  <2>4. req'[q] = rec => LocalsOK(q)'
    BY <2>1, <2>2 DEF LocalsOK, Call, Stored, CompleteReservation
  <2>5. QED
    BY <1>1, <2>1, <2>3, <2>4 DEF CompleteReservation
<1>10. ASSUME NEW from \in Points, NEW to \in Points, At(q, from), Resume(q, to), Same,
              \/ from = "findActiveOffer" /\ to = "saveOffer"
              \/ from = "findReport" /\ to = "saveReport"
       PROVE  IInv'
  <2> DEFINE rec == Call(to, req[q].l, req[q].copy, req[q].o, req[q].r, req[q].u)
  <2>1. rec \in Request /\ Goto(q, rec)
    BY <1>0, <1>10, ResumeIsGoto
  <2>2. req'[q] = rec => LocalsOK(q)'
    BY <1>0, <1>10 DEF LocalsOK, Call, At, Sound, Stored
  <2>3. QED
    BY <1>1, <1>10, <2>1, <2>2
<1>11. CASE SubmitOfferCheck(q)
  BY <1>2, <1>10, <1>11 DEF SubmitOfferCheck, Points
<1>12. CASE ReportCheck(q)
  BY <1>2, <1>10, <1>12 DEF ReportCheck, Points
<1>13. CASE ReportCount(q)
  <2> DEFINE l == req[q].l
             c == req[q].copy.cur
  <2>1. CASE Return(q)
    BY <1>2, <1>13, <2>1 DEF ReportCount
  <2>2. CASE Goto(q, Saving(l, "QUARANTINED", c, None, req[q].u))
    <3>1. l \in Listings /\ Sound(l, [status |-> "QUARANTINED", cur |-> c])
      BY <1>0, <1>13 DEF ReportCount, At, LocalsOK, Sound
    <3>2. c \in Reservations \cup {None} /\ req[q].u \in Users \cup {None}
      BY <1>0 DEF Request, ListingRec
    <3>3. QED
      BY <1>3, <1>13, <2>2, <3>1, <3>2 DEF ReportCount, Statuses, LiveStatuses
  <2>3. QED
    BY <1>13, <2>1, <2>2 DEF ReportCount
<1>14. CASE CompleteReadListing(q)
  <2> DEFINE l == req[q].l
             c == listing[l].cur
  <2>1. CASE Return(q)
    BY <1>2, <1>14, <2>1 DEF CompleteReadListing
  <2>2. CASE ~Return(q)
    <3>1. l \in Listings /\ Stored(req[q].r, l)
      BY <1>0, <1>14 DEF CompleteReadListing, At, LocalsOK
    <3>2. /\ Goto(q, Saving(l, "SOLD", c, req[q].r, None))
      BY <1>14, <2>2 DEF CompleteReadListing
    <3>3. Sound(l, [status |-> "SOLD", cur |-> c])
      BY <1>0, <3>1 DEF Sound, Stored
    <3>4. c \in Reservations \cup {None} /\ req[q].r \in Reservations
      BY <1>0, <3>1 DEF ListingRec, Stored
    <3>5. QED
      BY <1>3, <1>14, <3>1, <3>2, <3>3, <3>4 DEF CompleteReadListing, Statuses, LiveStatuses
  <2>3. QED
    BY <2>1, <2>2
<1>15. QED
  BY <1>4, <1>5, <1>6, <1>7, <1>8, <1>9, <1>11, <1>12, <1>13, <1>14

-----------------------------------------------------------------------------
(* The store only grows: an offer once made keeps its listing and never    *)
(* leaves ACCEPTED, a reservation once made keeps its offer and listing.   *)
Grows ==
  /\ \A o \in Offers : offer[o].status # "NONE" =>
       /\ offer'[o].status # "NONE"
       /\ offer'[o].l = offer[o].l
       /\ offer[o].status = "ACCEPTED" => offer'[o].status = "ACCEPTED"
  /\ \A r \in Reservations : reservation[r].status # "NONE" =>
       /\ reservation'[r].status # "NONE"
       /\ reservation'[r].l = reservation[r].l
       /\ reservation'[r].o = reservation[r].o

LEMMA SoundGrows ==
  ASSUME Grows, NEW l, NEW c, Sound(l, c)
  PROVE  /\ c.cur # None => c.cur \in Reservations /\ reservation'[c.cur].status # "NONE"
                                                  /\ reservation'[c.cur].l = l
         /\ c.status = "RESERVED" => c.cur # None
  BY DEF Grows, Sound, Stored

LEMMA LocalsGrow ==
  ASSUME Grows, NEW p \in Requests, LocalsOK(p), req'[p] = req[p]
  PROVE  LocalsOK(p)'
<1>1. req[p].pc \in {"saveListing", "findReport", "saveReport", "countReports"}
        => Sound(req[p].l, req[p].copy)'
  BY SoundGrows DEF LocalsOK, Sound, Stored
<1>2. QED
  BY <1>1 DEF LocalsOK, Grows, Stored

(* A step that lets the store grow keeps the invariant, provided the parts *)
(* it touched are sound.                                                   *)
LEMMA GrowAround ==
  ASSUME IInv, Grows, TypeOK', OfferDrivenReservation',
         \A o \in Offers : offer'[o].status # "NONE" => offer'[o].l \in Listings,
         \A r \in Reservations : reservation'[r].status # "NONE" => reservation'[r].l \in Listings,
         \A l \in Listings : listing'[l] = listing[l] \/ Sound(l, listing[l])',
         \A p \in Requests : req'[p] = req[p] \/ LocalsOK(p)'
  PROVE  IInv'
<1>1. \A p \in Requests : LocalsOK(p)'
  BY LocalsGrow DEF IInv
<1>2. \A l \in Listings : Sound(l, listing[l])'
  <2>1. TAKE l \in Listings
  <2>2. CASE listing'[l] = listing[l]
    <3>1. Sound(l, listing[l])
      BY DEF IInv
    <3>2. QED
      BY <2>2, <3>1, SoundGrows DEF Sound, Stored
  <2>3. QED
    BY <2>2
<1>3. QED
  BY <1>1, <1>2 DEF IInv

(* The same for a step of the call q that leaves it with the locals rec.   *)
LEMMA GrowStep ==
  ASSUME IInv, NEW q \in Requests, NEW rec \in Request, Goto(q, rec), Grows,
         (TypeOK /\ req[q] \in Request /\ req'[q] = rec) => LocalsOK(q)' /\ (TypeOK')
                                                             /\ OfferDrivenReservation',
         \A o \in Offers : offer'[o].status # "NONE" => offer'[o].l \in Listings,
         \A r \in Reservations : reservation'[r].status # "NONE" => reservation'[r].l \in Listings,
         \A l \in Listings : listing'[l] = listing[l] \/ Sound(l, listing[l])'
  PROVE  IInv'
<1>1. TypeOK /\ req[q] \in Request /\ req'[q] = rec
  BY DEF IInv, TypeOK, Goto
<1>2. \A p \in Requests : p = q \/ req'[p] = req[p]
  BY DEF IInv, TypeOK, Goto
<1>3. QED
  BY <1>1, <1>2, GrowAround

-----------------------------------------------------------------------------
(* The steps that write to a repository. *)
LEMMA WriteSteps ==
  ASSUME IInv, NEW q \in Requests,
         \/ SaveListing(q)
         \/ \E l \in Listings : CreateListingDraft(q, l)
         \/ \E o \in Offers : SubmitOfferSave(q, o)
         \/ AcceptSaveOffer(q)
         \/ \E r \in Reservations : AcceptSaveReservation(q, r)
         \/ ReportSave(q)
         \/ CompleteSaveReservation(q)
  PROVE  IInv'
<1> USE MarketplaceAssumption
<1>0. /\ TypeOK /\ LocalsOK(q) /\ req[q] \in Request
      /\ OfferDrivenReservation
      /\ \A o \in Offers : offer[o].status # "NONE" => offer[o].l \in Listings
      /\ \A r \in Reservations : reservation[r].status # "NONE" => reservation[r].l \in Listings
      /\ \A l \in Listings : listing[l] \in ListingRec
  BY DEF IInv, TypeOK
<1>a. Idle \in Request /\ Idle.pc = "idle"
  BY DEF Idle, Call, NoListing, Request, Points, ListingRec, Statuses, LiveStatuses
<1>b. req'[q] = Idle => LocalsOK(q)'
  BY DEF LocalsOK, Idle, Call
<1>1. CASE SaveListing(q)
  <2>1. /\ req[q].l \in Listings /\ Sound(req[q].l, req[q].copy) /\ req[q].copy \in ListingRec
        /\ req[q].copy.status = "SOLD" => req[q].r \in Reservations
    BY <1>0, <1>1 DEF SaveListing, At, LocalsOK, Request, Stored
  <2>2. /\ offer' = offer /\ reservation' = reservation /\ reports' = reports
        /\ listing' = [listing EXCEPT ![req[q].l] = req[q].copy]
    BY <1>1 DEF SaveListing
  <2>3. Goto(q, Idle)
    BY <1>1 DEF SaveListing, Return, Goto
  <2>4. Grows
    BY <2>2 DEF Grows
  <2>5. TypeOK'
    BY <1>0, <1>1, <1>a, <2>1, <2>2, <2>3 DEF SaveListing, TypeOK, Goto
  <2>6. OfferDrivenReservation'
    BY <1>0, <2>2 DEF OfferDrivenReservation
  <2>7. ASSUME NEW l \in Listings PROVE listing'[l] = listing[l] \/ Sound(l, listing[l])'
    BY <1>0, <2>1, <2>2 DEF TypeOK, Sound, Stored
  <2>8. QED
    BY <1>0, <1>a, <1>b, <2>2, <2>3, <2>4, <2>5, <2>6, <2>7, GrowStep
<1>2. CASE \E l \in Listings : CreateListingDraft(q, l)
  <2>1. PICK l \in Listings : CreateListingDraft(q, l)
    BY <1>2
  <2>2. /\ offer' = offer /\ reservation' = reservation /\ reports' = reports /\ sold' = sold
        /\ listing' = [listing EXCEPT ![l] = [status |-> "DRAFT", cur |-> None]]
        /\ req' = req
    BY <2>1 DEF CreateListingDraft
  <2>3. Goto(q, req[q])
    BY <1>0, <2>2 DEF Goto, TypeOK
  <2>4. Grows
    BY <2>2 DEF Grows
  <2>5. TypeOK'
    BY <1>0, <2>2 DEF TypeOK, ListingRec, Statuses, LiveStatuses
  <2>6. OfferDrivenReservation'
    BY <1>0, <2>2 DEF OfferDrivenReservation
  <2>7. ASSUME NEW k \in Listings PROVE listing'[k] = listing[k] \/ Sound(k, listing[k])'
    BY <1>0, <2>2 DEF TypeOK, Sound, Stored
  <2>8. LocalsOK(q)'
    BY <1>0, <2>2, <2>4, LocalsGrow
  <2>9. QED
    BY <1>0, <2>2, <2>3, <2>4, <2>5, <2>6, <2>7, <2>8, GrowStep
<1>3. CASE \E o \in Offers : SubmitOfferSave(q, o)
  <2>1. PICK o \in Offers : SubmitOfferSave(q, o)
    BY <1>3
  <2>2. req[q].l \in Listings /\ req[q].u \in Users
    BY <1>0, <2>1 DEF SubmitOfferSave, At, LocalsOK
  <2>3. /\ listing' = listing /\ reservation' = reservation /\ reports' = reports /\ sold' = sold
        /\ offer[o].status = "NONE"
        /\ offer' = [offer EXCEPT ![o] = [status |-> "CREATED", l |-> req[q].l,
                                          buyer |-> req[q].u]]
        /\ Goto(q, Idle)
    BY <2>1 DEF SubmitOfferSave, Return, Goto
  <2>4. Grows
    BY <1>0, <2>3 DEF Grows, TypeOK
  <2>5. TypeOK'
    BY <1>0, <1>a, <2>2, <2>3 DEF TypeOK, OfferRec, Goto
  <2>6. OfferDrivenReservation'
    BY <1>0, <2>3, <2>4 DEF OfferDrivenReservation, Grows
  <2>7. \A x \in Offers : offer'[x].status # "NONE" => offer'[x].l \in Listings
    BY <1>0, <2>2, <2>3 DEF TypeOK
  <2>8. QED
    BY <1>0, <1>a, <1>b, <2>3, <2>4, <2>5, <2>6, <2>7, GrowStep
<1>4. CASE AcceptSaveOffer(q)
  <2> DEFINE o   == req[q].o
             rec == Call("saveReservation", req[q].l, req[q].copy, o, req[q].r, req[q].u)
  <2>1. o \in Offers /\ offer[o].status # "NONE" /\ offer[o].l = req[q].l /\ req[q].l \in Listings
    BY <1>0, <1>4 DEF AcceptSaveOffer, At, LocalsOK
  <2>2. /\ listing' = listing /\ reservation' = reservation /\ reports' = reports /\ sold' = sold
        /\ offer' = [offer EXCEPT ![o].status = "ACCEPTED"]
        /\ Resume(q, "saveReservation")
    BY <1>4 DEF AcceptSaveOffer
  <2>3. rec \in Request /\ Goto(q, rec)
    BY <1>0, <2>2, ResumeIsGoto DEF Points
  <2>4. \A x \in Offers : /\ offer[x].status # "NONE" => offer'[x].status # "NONE"
                          /\ offer'[x].l = offer[x].l
                          /\ offer'[x].status \in {offer[x].status, "ACCEPTED"}
    BY <1>0, <2>1, <2>2 DEF TypeOK, OfferRec
  <2>5. Grows
    BY <2>2, <2>4 DEF Grows
  <2>6. TypeOK'
    BY <1>0, <2>1, <2>2, <2>3 DEF TypeOK, OfferRec, Goto
  <2>7. OfferDrivenReservation'
    BY <1>0, <2>2, <2>5 DEF OfferDrivenReservation, Grows
  <2>8. \A x \in Offers : offer'[x].status # "NONE" => offer'[x].l \in Listings
    BY <1>0, <2>1, <2>2 DEF TypeOK, OfferRec
  <2>9. offer'[o].status = "ACCEPTED" /\ offer'[o].l = req[q].l
    BY <1>0, <2>1, <2>2 DEF TypeOK, OfferRec
  <2>10. req'[q] = rec => LocalsOK(q)'
    BY <2>1, <2>9 DEF LocalsOK, Call
  <2>11. QED
    BY <1>0, <2>2, <2>3, <2>5, <2>6, <2>7, <2>8, <2>10, GrowStep
<1>5. CASE \E r \in Reservations : AcceptSaveReservation(q, r)
  <2>1. PICK r \in Reservations : AcceptSaveReservation(q, r)
    BY <1>5
  <2> DEFINE l   == req[q].l
             o   == req[q].o
             rec == Saving(l, "RESERVED", r, r, None)
  <2>2. o \in Offers /\ offer[o].status = "ACCEPTED" /\ offer[o].l = l /\ l \in Listings
    BY <1>0, <2>1 DEF AcceptSaveReservation, At, LocalsOK
  <2>3. /\ listing' = listing /\ offer' = offer /\ reports' = reports /\ sold' = sold
        /\ reservation[r].status = "NONE"
        /\ reservation' = [reservation EXCEPT ![r] = [status |-> "ACTIVE", l |-> l, o |-> o]]
        /\ Goto(q, rec)
    BY <2>1 DEF AcceptSaveReservation
  <2>4. rec \in Request
    BY <2>2 DEF Saving, Call, Request, Points, ListingRec, Statuses, LiveStatuses
  <2>5. Grows
    BY <1>0, <2>3 DEF Grows, TypeOK
  <2>6. TypeOK'
    BY <1>0, <2>2, <2>3, <2>4 DEF TypeOK, ReservationRec, Goto
  <2>7. OfferDrivenReservation'
    BY <1>0, <2>2, <2>3 DEF OfferDrivenReservation, TypeOK
  <2>8. \A x \in Reservations : reservation'[x].status # "NONE" => reservation'[x].l \in Listings
    BY <1>0, <2>2, <2>3 DEF TypeOK
  <2>9. reservation'[r].status = "ACTIVE" /\ reservation'[r].l = l
    BY <1>0, <2>3 DEF TypeOK
  <2>10. req'[q] = rec => LocalsOK(q)'
    BY <2>2, <2>9 DEF LocalsOK, Saving, Call, Sound, Stored
  <2>11. QED
    BY <1>0, <2>3, <2>4, <2>5, <2>6, <2>7, <2>8, <2>10, GrowStep
<1>6. CASE ReportSave(q)
  <2> DEFINE rec == Call("countReports", req[q].l, req[q].copy, req[q].o, req[q].r, req[q].u)
  <2>1. req[q].l \in Listings /\ req[q].u \in Users /\ Sound(req[q].l, req[q].copy)
    BY <1>0, <1>6 DEF ReportSave, At, LocalsOK
  <2>2. /\ listing' = listing /\ offer' = offer /\ reservation' = reservation /\ sold' = sold
        /\ reports' = [reports EXCEPT ![req[q].l] = @ \cup {req[q].u}]
        /\ Resume(q, "countReports")
    BY <1>6 DEF ReportSave
  <2>3. rec \in Request /\ Goto(q, rec)
    BY <1>0, <2>2, ResumeIsGoto DEF Points
  <2>4. Grows
    BY <2>2 DEF Grows
  <2>5. TypeOK'
    BY <1>0, <2>1, <2>2, <2>3 DEF TypeOK, Goto
  <2>6. OfferDrivenReservation'
    BY <1>0, <2>2 DEF OfferDrivenReservation
  <2>7. req'[q] = rec => LocalsOK(q)'
    BY <2>1, <2>2 DEF LocalsOK, Call, Sound, Stored
  <2>8. QED
    BY <1>0, <2>2, <2>3, <2>4, <2>5, <2>6, <2>7, GrowStep
<1>7. CASE CompleteSaveReservation(q)
  <2> DEFINE r   == req[q].r
             rec == Call("findReserved", req[q].l, req[q].copy, req[q].o, r, req[q].u)
  <2>1. r \in Reservations /\ reservation[r].status # "NONE" /\ reservation[r].l = req[q].l
        /\ req[q].l \in Listings
    BY <1>0, <1>7 DEF CompleteSaveReservation, At, LocalsOK, Stored
  <2>2. /\ listing' = listing /\ offer' = offer /\ reports' = reports /\ sold' = sold
        /\ reservation' = [reservation EXCEPT ![r].status = "COMPLETED"]
        /\ Resume(q, "findReserved")
    BY <1>7 DEF CompleteSaveReservation
  <2>3. rec \in Request /\ Goto(q, rec)
    BY <1>0, <2>2, ResumeIsGoto DEF Points
  <2>4. \A x \in Reservations :
          /\ reservation'[x].l = reservation[x].l /\ reservation'[x].o = reservation[x].o
          /\ reservation'[x].status # "NONE" <=> reservation[x].status # "NONE"
          /\ reservation'[x].status \in {reservation[x].status, "COMPLETED"}
    BY <1>0, <2>1, <2>2 DEF TypeOK, ReservationRec
  <2>5. Grows
    BY <2>2, <2>4 DEF Grows
  <2>6. TypeOK'
    BY <1>0, <2>1, <2>2, <2>3 DEF TypeOK, ReservationRec, Goto
  <2>7. OfferDrivenReservation'
    BY <1>0, <2>2, <2>4 DEF OfferDrivenReservation
  <2>8. \A x \in Reservations : reservation'[x].status # "NONE" => reservation'[x].l \in Listings
    BY <1>0, <2>4
  <2>9. reservation'[r].status # "NONE" /\ reservation'[r].l = req[q].l
    BY <1>0, <2>1, <2>2 DEF TypeOK, ReservationRec
  <2>10. req'[q] = rec => LocalsOK(q)'
    BY <2>1, <2>9 DEF LocalsOK, Call, Stored
  <2>11. QED
    BY <1>0, <2>2, <2>3, <2>5, <2>6, <2>7, <2>8, <2>10, GrowStep
<1>8. QED
  BY <1>1, <1>2, <1>3, <1>4, <1>5, <1>6, <1>7

-----------------------------------------------------------------------------
LEMMA NextIInv == IInv /\ [Next]_vars => IInv'
<1> SUFFICES ASSUME IInv, [Next]_vars PROVE IInv'
  OBVIOUS
<1>1. ASSUME NEW q \in Requests, Begin(q) \/ Proceed(q) PROVE IInv'
  BY <1>1, ReadSteps, WriteSteps DEF Begin, Proceed
<1>2. CASE UNCHANGED vars
  BY <1>2 DEF vars, IInv, TypeOK, OfferDrivenReservation, Sound, Stored, LocalsOK
<1>3. QED
  BY <1>1, <1>2 DEF Next

THEOREM Invariance == Spec => []IInv
<1>1. QED
  BY InitIInv, NextIInv, PTL DEF Spec

(* Every store and every call stays of its type, for any number of calls   *)
(* interleaving at their awaits.                                           *)
THEOREM TypeCorrectness == Spec => []TypeOK
<1>1. IInv => TypeOK
  BY DEF IInv
<1>2. QED
  BY <1>1, Invariance, PTL

(* No interleaving produces a reservation without an accepted offer on its *)
(* listing.                                                                *)
THEOREM ReservationsAreOfferDriven == Spec => []OfferDrivenReservation
<1>1. IInv => OfferDrivenReservation
  BY DEF IInv
<1>2. QED
  BY <1>1, Invariance, PTL

(* A RESERVED listing always names a reservation of its own.               *)
THEOREM LocksNameReservations == Spec => []LockNamesReservation
<1>1. IInv => LockNamesReservation
  BY DEF IInv, LockNamesReservation, Sound, Stored
<1>2. QED
  BY <1>1, Invariance, PTL

-----------------------------------------------------------------------------
(* A call takes no stored reservation out of the store, or out of          *)
(* COMPLETED.                                                              *)
LEMMA ReservationsStay ==
  ASSUME TypeOK, NEW q \in Requests, Begin(q) \/ Proceed(q), LocalsOK(q),
         NEW r \in Reservations, reservation[r].status # "NONE"
  PROVE  /\ reservation'[r].status \in {reservation[r].status, "COMPLETED"}
         /\ reservation'[r].l = reservation[r].l
<1>1. CASE \E x \in Reservations : AcceptSaveReservation(q, x)
  BY <1>1 DEF AcceptSaveReservation, TypeOK
<1>2. CASE CompleteSaveReservation(q)
  BY <1>2 DEF CompleteSaveReservation, TypeOK, ReservationRec
<1>3. CASE UNCHANGED reservation
  BY <1>3
<1>4. QED
  BY <1>1, <1>2, <1>3 DEF Begin, Proceed, SaveListing, CreateListingDraft, PublishListing,
     ModerateListing, SubmitOffer, ReportListing, AcceptOffer, CompleteReservation,
     SubmitOfferCheck, ReportCheck, ReportCount, CompleteReadListing, SubmitOfferSave,
     AcceptSaveOffer, ReportSave

(* Listings that are SOLD, in the store or in a copy, and the calls about  *)
(* to sell one, have a completed reservation.                              *)
HasCompleted(l) ==
  \E r \in Reservations : reservation[r].status = "COMPLETED" /\ reservation[r].l = l

SaleBacked(q) ==
  /\ req[q].pc = "findReserved" => reservation[req[q].r].status = "COMPLETED"
  /\ /\ req[q].pc \in {"saveListing", "findReport", "saveReport", "countReports"}
     /\ req[q].copy.status = "SOLD"
     => HasCompleted(req[q].l)

SaleInv ==
  /\ IInv
  /\ SoldWasCompleted
  /\ \A q \in Requests : SaleBacked(q)

LEMMA InitSaleInv == Init => SaleInv
<1> SUFFICES ASSUME Init PROVE SaleInv
  OBVIOUS
<1>1. SoldWasCompleted /\ \A q \in Requests : SaleBacked(q)
  BY DEF Init, SoldWasCompleted, SaleBacked, NoListing, Idle, Call
<1>2. QED
  BY <1>1, InitIInv DEF SaleInv

(* The step of a call leaves the others where they are.                    *)
LEMMA OthersWait ==
  ASSUME TypeOK, NEW q \in Requests, Begin(q) \/ Proceed(q), NEW p \in Requests, p # q
  PROVE  req'[p] = req[p]
  BY DEF Begin, Proceed, SaveListing, CreateListingDraft, PublishListing,
     ModerateListing, SubmitOffer, ReportListing, AcceptOffer, CompleteReservation,
     SubmitOfferCheck, ReportCheck, ReportCount, CompleteReadListing, SubmitOfferSave,
     AcceptSaveOffer, AcceptSaveReservation, ReportSave, CompleteSaveReservation,
     Goto, Return, Resume, TypeOK

LEMMA NextSaleInv == SaleInv /\ [Next]_vars => SaleInv'
<1> SUFFICES ASSUME SaleInv, [Next]_vars PROVE SaleInv'
  OBVIOUS
<1>0. IInv' /\ TypeOK
  BY NextIInv DEF SaleInv, IInv
<1>1. CASE UNCHANGED vars
  BY <1>0, <1>1 DEF vars, SaleInv, SoldWasCompleted, SaleBacked, HasCompleted
<1>2. ASSUME NEW q \in Requests, Begin(q) \/ Proceed(q) PROVE SaleInv'
  <2>1. /\ LocalsOK(q) /\ SaleBacked(q) /\ req[q] \in Request
        /\ \A l \in Listings : listing[l].status = "SOLD" => HasCompleted(l)
    BY <1>0 DEF SaleInv, IInv, TypeOK, SoldWasCompleted, HasCompleted
  <2>2. \A r \in Reservations : reservation[r].status = "COMPLETED" =>
          reservation'[r].status = "COMPLETED" /\ reservation'[r].l = reservation[r].l
    BY <1>0, <1>2, <2>1, ReservationsStay
  <2>3. \A l : HasCompleted(l) => HasCompleted(l)'
    BY <2>2 DEF HasCompleted
  <2>4. ASSUME NEW p \in Requests, p # q PROVE SaleBacked(p)'
    <3>1. req'[p] = req[p]
      BY <1>0, <1>2, <2>4, OthersWait
    <3>2. SaleBacked(p) /\ LocalsOK(p)
      BY DEF SaleInv, IInv
    <3>3. QED
      BY <2>2, <2>3, <3>1, <3>2 DEF SaleBacked, LocalsOK, Stored
  <2>5. /\ SaleBacked(q)'
        /\ \A l \in Listings : listing'[l].status = "SOLD" =>
             listing[l].status = "SOLD" \/ HasCompleted(l)
    <3> DEFINE Kept == \A l \in Listings : listing'[l].status = "SOLD" =>
                         listing[l].status = "SOLD" \/ HasCompleted(l)
    <3>1. ASSUME req'[q].pc \notin {"findReserved", "saveListing", "findReport",
                                   "saveReport", "countReports"}
          PROVE  SaleBacked(q)'
      BY <3>1 DEF SaleBacked
    <3>2. ASSUME NEW l, NEW st, NEW cur, NEW r, NEW u, st = "SOLD" => HasCompleted(l),
                 Goto(q, Saving(l, st, cur, r, u))
          PROVE  SaleBacked(q)'
      <4>1. req'[q] = Saving(l, st, cur, r, u)
        BY <1>0, <3>2 DEF Goto, TypeOK
      <4>2. req'[q].pc = "saveListing" /\ req'[q].copy.status = st /\ req'[q].l = l
        BY <4>1 DEF Saving, Call
      <4>3. QED
        BY <2>3, <3>2, <4>2 DEF SaleBacked
    <3>3. ASSUME Return(q) PROVE SaleBacked(q)'
      BY <1>0, <3>1, <3>3 DEF Return, Idle, Call, TypeOK
    <3>4. CASE SaveListing(q)
      <4>1. SaleBacked(q)'
        BY <3>3, <3>4 DEF SaveListing
      <4>2. Kept
        BY <1>0, <2>1, <3>4 DEF SaveListing, At, SaleBacked, TypeOK
      <4>3. QED
        BY <4>1, <4>2
    <3>5. CASE \E l \in Listings : CreateListingDraft(q, l)
      BY <1>0, <2>1, <3>1, <3>5 DEF CreateListingDraft, Free, Idle, Call, TypeOK
    <3>6. CASE UNCHANGED listing /\ ~SaveListing(q)
      <4> SUFFICES SaleBacked(q)'
        BY <3>6
      <4>1. CASE \E l \in Listings : PublishListing(q, l)
        BY <3>2, <4>1 DEF PublishListing
      <4>2. CASE \E l \in Listings, action \in Actions : ModerateListing(q, l, action)
        BY <3>2, <4>2 DEF ModerateListing, Decision, Actions
      <4>3. CASE \E l \in Listings, u \in Buyers : SubmitOffer(q, l, u)
        BY <1>0, <3>1, <4>3 DEF SubmitOffer, Goto, Call, TypeOK
      <4>4. CASE \E l \in Listings, u \in Reporters : ReportListing(q, l, u)
        <5>1. PICK l \in Listings, u \in Reporters : ReportListing(q, l, u)
          BY <4>4
        <5>2. req'[q] = Call("findReport", l, listing[l], None, None, u)
          BY <1>0, <5>1 DEF ReportListing, Goto, TypeOK
        <5>3. QED
          BY <2>1, <2>3, <5>2 DEF SaleBacked, Call
      <4>5. CASE \E o \in Offers : AcceptOffer(q, o)
        BY <1>0, <3>1, <4>5 DEF AcceptOffer, Goto, Call, TypeOK
      <4>6. CASE \E r \in Reservations : CompleteReservation(q, r)
        BY <1>0, <3>1, <4>6 DEF CompleteReservation, Goto, Call, TypeOK
      <4>7. CASE SubmitOfferCheck(q) \/ ReportCheck(q) \/ ReportSave(q)
        <5>1. CASE Return(q)
          BY <3>3, <5>1
        <5>2. CASE Resume(q, "saveOffer")
          BY <1>0, <2>1, <3>1, <5>2 DEF Resume, TypeOK, Request
        <5>3. CASE /\ req[q].pc \in {"findReport", "saveReport"}
                   /\ \E to \in {"saveReport", "countReports"} : Resume(q, to)
          <6>1. /\ req'[q].pc \in {"saveReport", "countReports"}
                /\ req'[q].l = req[q].l /\ req'[q].copy = req[q].copy
            BY <1>0, <2>1, <5>3 DEF Resume, TypeOK, Request
          <6>2. QED
            BY <2>1, <2>3, <5>3, <6>1 DEF SaleBacked
        <5>4. QED
          BY <4>7, <5>1, <5>2, <5>3 DEF SubmitOfferCheck, ReportCheck, ReportSave, At
      <4>8. CASE ReportCount(q)
        BY <3>2, <3>3, <4>8 DEF ReportCount
      <4>9. CASE \E o \in Offers : SubmitOfferSave(q, o)
        BY <3>3, <4>9 DEF SubmitOfferSave
      <4>10. CASE AcceptSaveOffer(q)
        BY <1>0, <2>1, <3>1, <4>10 DEF AcceptSaveOffer, Resume, TypeOK, Request
      <4>11. CASE \E r \in Reservations : AcceptSaveReservation(q, r)
        BY <3>2, <4>11 DEF AcceptSaveReservation
      <4>12. CASE CompleteSaveReservation(q)
        <5>1. req'[q].pc = "findReserved" /\ req'[q].r = req[q].r /\ req[q].r \in Reservations
          BY <1>0, <2>1, <4>12 DEF CompleteSaveReservation, Resume, At, LocalsOK, Stored,
             TypeOK, Request
        <5>2. reservation'[req[q].r].status = "COMPLETED"
          BY <1>0, <4>12, <5>1 DEF CompleteSaveReservation, TypeOK, ReservationRec
        <5>3. QED
          BY <5>1, <5>2 DEF SaleBacked
      <4>13. CASE CompleteReadListing(q)
        <5>1. HasCompleted(req[q].l)
          BY <2>1, <4>13 DEF CompleteReadListing, At, SaleBacked, LocalsOK, Stored, HasCompleted
        <5>2. QED
          BY <3>2, <3>3, <4>13, <5>1 DEF CompleteReadListing
      <4>14. QED
        BY <1>2, <3>5, <3>6, <4>1, <4>2, <4>3, <4>4, <4>5, <4>6, <4>7, <4>8, <4>9, <4>10,
           <4>11, <4>12, <4>13 DEF Begin, Proceed
    <3>7. UNCHANGED listing \/ SaveListing(q) \/ \E l \in Listings : CreateListingDraft(q, l)
      BY <1>2 DEF Begin, Proceed, PublishListing, ModerateListing, SubmitOffer, ReportListing,
         AcceptOffer, CompleteReservation, SubmitOfferCheck, ReportCheck, ReportCount,
         CompleteReadListing, SubmitOfferSave, AcceptSaveOffer, AcceptSaveReservation,
         ReportSave, CompleteSaveReservation
    <3>8. QED
      BY <3>4, <3>5, <3>6, <3>7
  <2>6. SoldWasCompleted'
    BY <2>1, <2>3, <2>5 DEF SoldWasCompleted, HasCompleted
  <2>7. QED
    BY <1>0, <2>4, <2>5, <2>6 DEF SaleInv
<1>3. QED
  BY <1>1, <1>2 DEF Next

(* A SOLD listing always has a COMPLETED reservation.                      *)
THEOREM SalesWereCompleted == Spec => []SoldWasCompleted
<1>1. SaleInv => SoldWasCompleted
  BY DEF SaleInv
<1>2. QED
  BY <1>1, InitSaleInv, NextSaleInv, PTL DEF Spec

-----------------------------------------------------------------------------
(* When calls are serial, the copy a call holds is still what is stored,   *)
(* so what the call checked is still true when it saves.                   *)
(*                                                                         *)
(* kept are the statuses in which a reservation has its listing: all of    *)
(* them as long as no worker expires one, ACTIVE alone when they do, as    *)
(* completeReservation completes an expired reservation too.               *)
Made == {"ACTIVE", "COMPLETED", "EXPIRED"}
Kinds == {{"ACTIVE"}, Made}

Reporting == {"findReport", "saveReport", "countReports"}

(* What q is about to save follows from what is stored now. *)
FreshSave(q, kept) ==
  LET old == listing[req[q].l]
      new == req[q].copy
  IN  \/ /\ new.cur = old.cur
         /\ new.status # "RESERVED"
         /\ CanMove(old.status, new.status) \/ new.status = old.status
         /\ new.status = "SOLD" => /\ old.status = "RESERVED"
                                   /\ kept = Made => req[q].r = old.cur
      \/ /\ new = [status |-> "RESERVED", cur |-> req[q].r]
         /\ old = [status |-> "PUBLISHED", cur |-> None]
         /\ req[q].r # None
         /\ req[q].r \notin sold

Fresh(q, kept) ==
  /\ req[q].pc = "saveListing" => FreshSave(q, kept)
  /\ req[q].pc \in Reporting => req[q].copy = listing[req[q].l]
  /\ req[q].pc \in {"saveAccepted", "saveReservation"} =>
       listing[req[q].l] = [status |-> "PUBLISHED", cur |-> None]
  /\ req[q].pc = "saveOffer" => ~HasPendingOffer(req[q].l, req[q].u)

OneCall == \A p, q \in Requests : req[p] # Idle /\ req[q] # Idle => p = q

(* Every reservation is of a stored listing; one that is kept is the one   *)
(* its listing points to, or the one whose call is about to save that      *)
(* pointer.                                                                *)
OfStored ==
  \A r \in Reservations : reservation[r].status # "NONE" =>
    listing[reservation[r].l].status # "NONE"

Promised(kept) ==
  \A r \in Reservations : reservation[r].status \in kept =>
    \/ listing[reservation[r].l].cur = r
    \/ \E q \in Requests : /\ req[q].pc = "saveListing"
                           /\ req[q].l = reservation[r].l
                           /\ req[q].copy.cur = r

SoldIsFinal ==
  \A r \in sold : reservation[r].status # "NONE" /\ listing[reservation[r].l].status = "SOLD"

SInv(kept) ==
  /\ IInv
  /\ OneCall
  /\ \A q \in Requests : Fresh(q, kept)
  /\ OfStored
  /\ Promised(kept)
  /\ SoldIsFinal
  /\ OnePendingOffer

-----------------------------------------------------------------------------
LEMMA KeptIsMade == \A kept \in Kinds : "ACTIVE" \in kept /\ "NONE" \notin kept
BY DEF Kinds, Made

(* Whoever takes a step is alone: every other call is idle before and after.*)
LEMMA StepsAlone ==
  ASSUME Serial, IInv, OneCall, NEW q \in Requests, Begin(q) \/ Proceed(q)
  PROVE  \A p \in Requests : p # q => req[p] = Idle /\ req'[p] = Idle
<1>1. CASE Begin(q)
  <2>1. Free(q)
    BY <1>1 DEF Begin, CreateListingDraft, PublishListing, SubmitOffer, ReportListing,
                AcceptOffer, CompleteReservation, ModerateListing
  <2>2. \A p \in Requests : p # q => req'[p] = req[p]
    BY <1>1, OthersWait DEF IInv
  <2>3. QED
    BY <2>1, <2>2 DEF Free
<1>2. CASE Proceed(q)
  <2>1. req[q].pc # "idle"
    BY <1>2 DEF Proceed, SaveListing, SubmitOfferCheck, SubmitOfferSave, AcceptSaveOffer,
                AcceptSaveReservation, ReportCheck, ReportSave, ReportCount,
                CompleteSaveReservation, CompleteReadListing, At
  <2>2. req[q] # Idle
    BY <2>1 DEF Idle, Call
  <2>3. \A p \in Requests : p # q => req'[p] = req[p]
    BY <1>2, OthersWait DEF IInv
  <2>4. QED
    BY <2>2, <2>3 DEF OneCall
<1>3. QED
  BY <1>1, <1>2

LEMMA InitSInv == \A kept \in Kinds : Init => SInv(kept)
<1> SUFFICES ASSUME NEW kept \in Kinds PROVE Init => SInv(kept)
  OBVIOUS
<1>1. Init => IInv
  BY InitIInv
<1>2. Init => /\ OneCall /\ OfStored /\ Promised(kept) /\ SoldIsFinal /\ OnePendingOffer
              /\ \A q \in Requests : Fresh(q, kept)
  BY KeptIsMade DEF Init, OneCall, OfStored, Promised, SoldIsFinal, OnePendingOffer, Fresh, Reporting, Idle, Call
<1>3. QED
  BY <1>1, <1>2 DEF SInv

(* What is left to show of a step of q once StepsAlone has spoken.         *)
LEMMA SerialStep ==
  ASSUME Serial, NEW kept \in Kinds, SInv(kept), NEW q \in Requests, Begin(q) \/ Proceed(q),
         Fresh(q, kept)', OfStored', Promised(kept)', SoldIsFinal', OnePendingOffer'
  PROVE  SInv(kept)'
<1>1. IInv'
  BY NextIInv DEF SInv, Next
<1>2. \A p \in Requests : p # q => req'[p] = Idle
  BY StepsAlone DEF SInv
<1>3. OneCall'
  BY <1>2 DEF OneCall
<1>4. \A p \in Requests : Fresh(p, kept)'
  BY <1>2 DEF Fresh, Reporting, Idle, Call
<1>5. QED
  BY <1>1, <1>3, <1>4 DEF SInv

(* Unless the one call in flight is about to save a listing, every         *)
(* reservation is the one its listing points to.                           *)
LEMMA Settled ==
  ASSUME Serial, NEW kept \in Kinds, SInv(kept), NEW q \in Requests, Begin(q) \/ Proceed(q),
         req[q].pc # "saveListing"
  PROVE  \A r \in Reservations : reservation[r].status \in kept =>
            listing[reservation[r].l].cur = r
<1>1. \A p \in Requests : req[p].pc # "saveListing"
  BY StepsAlone DEF SInv, Idle, Call
<1>2. QED
  BY <1>1 DEF SInv, Promised

-----------------------------------------------------------------------------
(* Reads: the store does not change, only q's locals become rec.           *)
LEMMA SerialReads ==
  ASSUME Serial, NEW kept \in Kinds, SInv(kept), NEW q \in Requests, Begin(q) \/ Proceed(q),
         UNCHANGED <<listing, offer, reservation, reports, sold>>,
         req[q].pc # "saveListing",
         Fresh(q, kept)'
  PROVE  SInv(kept)'
<1>1. Promised(kept)'
  BY Settled DEF Promised
<1>2. OfStored' /\ SoldIsFinal' /\ OnePendingOffer'
  BY DEF SInv, OfStored, SoldIsFinal, OnePendingOffer
<1>3. QED
  BY <1>1, <1>2, SerialStep

LEMMA FreshIdle ==
  ASSUME NEW q \in Requests, req'[q] = Idle
  PROVE  \A kept \in Kinds : Fresh(q, kept)'
  BY DEF Fresh, Reporting, Idle, Call

LEMMA SerialReadSteps ==
  ASSUME Serial, NEW kept \in Kinds, SInv(kept), NEW q \in Requests,
         \/ \E l \in Listings : PublishListing(q, l)
         \/ \E l \in Listings, action \in Actions : ModerateListing(q, l, action)
         \/ \E l \in Listings, u \in Buyers : SubmitOffer(q, l, u)
         \/ \E l \in Listings, u \in Reporters : ReportListing(q, l, u)
         \/ \E o \in Offers : AcceptOffer(q, o)
         \/ \E r \in Reservations : CompleteReservation(q, r)
         \/ SubmitOfferCheck(q) \/ ReportCheck(q) \/ ReportCount(q)
         \/ CompleteReadListing(q)
  PROVE  SInv(kept)'
<1> USE MarketplaceAssumption
<1>0. /\ req \in [Requests -> Request] /\ req[q] \in Request
      /\ LocalsOK(q) /\ Fresh(q, kept)
      /\ \A l \in Listings : listing[l] \in ListingRec
  BY DEF SInv, IInv, TypeOK
<1>1. Begin(q) \/ Proceed(q)
  BY DEF Begin, Proceed
<1>a. UNCHANGED <<listing, offer, reservation, reports, sold>>
  BY DEF PublishListing, ModerateListing, SubmitOffer, ReportListing, AcceptOffer,
         CompleteReservation, SubmitOfferCheck, ReportCheck, ReportCount,
         CompleteReadListing
<1>b. \/ req[q] = Idle
      \/ req[q].pc \in {"findActiveOffer", "findReport", "countReports", "findReserved"}
  BY Zenon DEF PublishListing, ModerateListing, SubmitOffer, ReportListing, AcceptOffer,
         CompleteReservation, SubmitOfferCheck, ReportCheck, ReportCount,
         CompleteReadListing, Free, At
<1>2. /\ UNCHANGED <<listing, offer, reservation, reports, sold>>
      /\ req[q].pc # "saveListing"
  BY <1>a, <1>b DEF Idle, Call
<1>3. Fresh(q, kept)' => SInv(kept)'
  BY <1>1, <1>2, SerialReads
<1>4. ASSUME Return(q) PROVE Fresh(q, kept)'
  BY <1>0, <1>4, FreshIdle DEF Return
<1>5. ASSUME NEW l \in Listings, NEW s, NEW r, NEW u,
             Goto(q, Saving(l, s, listing[l].cur, r, u)),
             s # "RESERVED",
             CanMove(listing[l].status, s) \/ s = listing[l].status,
             s = "SOLD" => listing[l].status = "RESERVED" /\ (kept = Made => r = listing[l].cur)
      PROVE  Fresh(q, kept)'
  <2>1. req'[q] = Saving(l, s, listing[l].cur, r, u)
    BY <1>0, <1>5 DEF Goto
  <2>2. QED
    BY <1>2, <1>5, <2>1 DEF Fresh, FreshSave, Saving, Call, Reporting
<1>6. CASE \E l \in Listings : PublishListing(q, l)
  <2>1. PICK l \in Listings : PublishListing(q, l)
    BY <1>6
  <2>2. QED
    BY <1>3, <1>5, <2>1 DEF PublishListing
<1>7. CASE \E l \in Listings, action \in Actions : ModerateListing(q, l, action)
  <2>1. PICK l \in Listings, action \in Actions : ModerateListing(q, l, action)
    BY <1>7
  <2>2. Decision(action) \notin {"RESERVED", "SOLD"}
    BY DEF Actions, Decision
  <2>3. CanMove(listing[l].status, Decision(action)) \/ Decision(action) = listing[l].status
    BY <2>1 DEF ModerateListing, Decision
  <2>4. QED
    BY <1>3, <1>5, <2>1, <2>2, <2>3 DEF ModerateListing
<1>8. CASE \E l \in Listings, u \in Buyers : SubmitOffer(q, l, u)
  <2>1. PICK l \in Listings, u \in Buyers : SubmitOffer(q, l, u)
    BY <1>8
  <2>2. req'[q].pc = "findActiveOffer"
    BY <1>0, <2>1 DEF SubmitOffer, Goto, Call
  <2>3. QED
    BY <1>3, <2>2 DEF Fresh, Reporting
<1>9. CASE \E l \in Listings, u \in Reporters : ReportListing(q, l, u)
  <2>1. PICK l \in Listings, u \in Reporters : ReportListing(q, l, u)
    BY <1>9
  <2>2. req'[q] = Call("findReport", l, listing[l], None, None, u)
    BY <1>0, <2>1 DEF ReportListing, Goto
  <2>3. QED
    BY <1>2, <1>3, <2>2 DEF Fresh, Reporting, Call
<1>10. CASE \E o \in Offers : AcceptOffer(q, o)
  <2>1. PICK o \in Offers : AcceptOffer(q, o)
    BY <1>10
  <2> DEFINE l == offer[o].l
  <2>2. req'[q] = Call("saveAccepted", l, NoListing, o, None, None)
    BY <1>0, <2>1 DEF AcceptOffer, Goto
  <2>3. listing[l] = [status |-> "PUBLISHED", cur |-> None]
    <3>1. l \in Listings
      BY <2>1 DEF SInv, IInv, AcceptOffer
    <3>2. QED
      BY <1>0, <2>1, <3>1 DEF AcceptOffer, ListingRec
  <2>4. QED
    BY <1>2, <1>3, <2>2, <2>3 DEF Fresh, Reporting, Call
<1>11. CASE \E r \in Reservations : CompleteReservation(q, r)
  <2>1. PICK r \in Reservations : CompleteReservation(q, r)
    BY <1>11
  <2>2. req'[q].pc = "saveCompleted"
    BY <1>0, <2>1 DEF CompleteReservation, Goto, Call
  <2>3. QED
    BY <1>3, <2>2 DEF Fresh, Reporting
<1>12. CASE SubmitOfferCheck(q)
  <2>1. CASE HasPendingOffer(req[q].l, req[q].u)
    BY <1>3, <1>4, <1>12, <2>1 DEF SubmitOfferCheck
  <2>2. CASE ~HasPendingOffer(req[q].l, req[q].u)
    <3>1. req'[q].pc = "saveOffer" /\ req'[q].l = req[q].l /\ req'[q].u = req[q].u
      BY <1>0, <1>12, <2>2 DEF SubmitOfferCheck, Resume, Request
    <3>2. ~HasPendingOffer(req[q].l, req[q].u)'
      BY <1>2, <2>2, <3>1 DEF HasPendingOffer
    <3>3. QED
      BY <1>3, <3>1, <3>2 DEF Fresh, Reporting
  <2>3. QED
    BY <2>1, <2>2
<1>13. CASE ReportCheck(q)
  <2>1. CASE Return(q)
    BY <1>3, <1>4, <2>1
  <2>2. CASE Resume(q, "saveReport")
    <3>1. req'[q].pc = "saveReport" /\ req'[q].l = req[q].l /\ req'[q].copy = req[q].copy
      BY <1>0, <2>2 DEF Resume, Request
    <3>2. QED
      BY <1>0, <1>2, <1>3, <1>13, <3>1 DEF Fresh, Reporting, ReportCheck, At
  <2>3. QED
    BY <1>13, <2>1, <2>2 DEF ReportCheck
<1>14. CASE ReportCount(q)
  <2>1. CASE Return(q)
    BY <1>3, <1>4, <2>1
  <2>2. CASE ~Return(q)
    <3> DEFINE l == req[q].l
    <3>1. l \in Listings /\ req[q].copy = listing[l]
      BY <1>0, <1>14 DEF ReportCount, At, LocalsOK, Fresh, Reporting
    <3>2. /\ req[q].copy.status = "PUBLISHED"
          /\ Goto(q, Saving(l, "QUARANTINED", req[q].copy.cur, None, req[q].u))
      BY <1>14, <2>2 DEF ReportCount
    <3>3. CanMove(listing[l].status, "QUARANTINED")
      BY <3>1, <3>2 DEF CanMove, Allowed
    <3>4. QED
      BY <1>3, <1>5, <3>1, <3>2, <3>3
  <2>3. QED
    BY <2>1, <2>2
<1>15. CASE CompleteReadListing(q)
  <2>1. CASE Return(q)
    BY <1>3, <1>4, <2>1
  <2>2. CASE ~Return(q)
    <3> DEFINE l == req[q].l
    <3>1. Stored(req[q].r, l) /\ l \in Listings
      BY <1>0, <1>15 DEF CompleteReadListing, At, LocalsOK
    <3>2. kept = Made => listing[l].cur = req[q].r
      <4>1. reservation[req[q].r].status \in Made /\ reservation[req[q].r].l = l
        BY <3>1 DEF Stored, SInv, IInv, TypeOK, ReservationRec, Made
      <4>2. QED
        BY <1>1, <1>2, <3>1, <4>1, Settled DEF Stored
    <3>3. /\ CanMove(listing[l].status, "SOLD")
          /\ Goto(q, Saving(l, "SOLD", listing[l].cur, req[q].r, None))
      BY <1>15, <2>2 DEF CompleteReadListing
    <3>4. listing[l].status = "RESERVED"
      BY <3>3 DEF CanMove, Allowed
    <3>5. QED
      BY <1>3, <1>5, <3>1, <3>2, <3>3, <3>4
  <2>3. QED
    BY <2>1, <2>2
<1>16. QED
  BY <1>6, <1>7, <1>8, <1>9, <1>10, <1>11, <1>12, <1>13, <1>14, <1>15

-----------------------------------------------------------------------------
(* Writes. *)
LEMMA SerialWriteSteps ==
  ASSUME Serial, NEW kept \in Kinds, SInv(kept), NEW q \in Requests,
         \/ SaveListing(q)
         \/ \E l \in Listings : CreateListingDraft(q, l)
         \/ \E o \in Offers : SubmitOfferSave(q, o)
         \/ AcceptSaveOffer(q)
         \/ \E r \in Reservations : AcceptSaveReservation(q, r)
         \/ ReportSave(q)
         \/ CompleteSaveReservation(q)
  PROVE  SInv(kept)'
<1> USE MarketplaceAssumption
<1>0. /\ TypeOK /\ req \in [Requests -> Request] /\ req[q] \in Request
      /\ LocalsOK(q) /\ Fresh(q, kept)
      /\ OfStored /\ Promised(kept) /\ SoldIsFinal /\ OnePendingOffer
      /\ \A l \in Listings : listing[l] \in ListingRec /\ Sound(l, listing[l])
      /\ \A r \in Reservations : reservation[r].status # "NONE" => reservation[r].l \in Listings
  BY DEF SInv, IInv, TypeOK
<1>1. Begin(q) \/ Proceed(q)
  BY DEF Begin, Proceed
<1>2. CASE SaveListing(q)
  <2> DEFINE l   == req[q].l
             new == req[q].copy
             r0  == req[q].r
  <2>1. /\ req[q].pc = "saveListing" /\ l \in Listings /\ FreshSave(q, kept)
        /\ Sound(l, new)
    BY <1>0, <1>2 DEF SaveListing, At, LocalsOK, Fresh
  <2>2. /\ listing' = [listing EXCEPT ![l] = new]
        /\ sold' = IF new.status = "SOLD" THEN sold \cup {r0} ELSE sold
        /\ offer' = offer /\ reservation' = reservation
        /\ req'[q] = Idle
    BY <1>0, <1>2 DEF SaveListing, Return, TypeOK
  <2>3. \A k \in Listings : listing'[k] = IF k = l THEN new ELSE listing[k]
    BY <1>0, <2>2 DEF TypeOK
  <2>4. Fresh(q, kept)'
    BY <2>2, FreshIdle
  <2>5. Promised(kept)'
    <3>1. SUFFICES ASSUME NEW r \in Reservations, reservation[r].status \in kept
                   PROVE  listing'[reservation[r].l].cur = r
      BY <2>2 DEF Promised
    <3>a. reservation[r].status # "NONE"
      BY <3>1, KeptIsMade
    <3>2. \A p \in Requests : p # q => req[p].pc # "saveListing"
      BY <1>1, StepsAlone DEF SInv, Idle, Call
    <3>3. CASE reservation[r].l = l
      <4>1. listing[l].cur = r \/ new.cur = r
        BY <1>0, <3>1, <3>2, <3>3 DEF Promised
      <4>2. new.cur = listing[l].cur \/ listing[l].cur = None
        BY <2>1 DEF FreshSave
      <4>3. new.cur = r
        BY <4>1, <4>2
      <4>4. QED
        BY <2>1, <2>3, <3>3, <4>3
    <3>4. CASE reservation[r].l # l
      BY <1>0, <2>3, <3>1, <3>a, <3>2, <3>4 DEF Promised
    <3>5. QED
      BY <3>3, <3>4
  <2>6. SoldIsFinal'
    <3>1. SUFFICES ASSUME NEW r \in sold'
                   PROVE  /\ reservation[r].status # "NONE"
                          /\ listing'[reservation[r].l].status = "SOLD"
      BY <2>2 DEF SoldIsFinal
    <3>2. CASE r \in sold
      <4>1. r \in Reservations /\ reservation[r].status # "NONE"
            /\ reservation[r].l \in Listings /\ listing[reservation[r].l].status = "SOLD"
        BY <1>0, <3>2 DEF SoldIsFinal, TypeOK
      <4>2. listing[l].status = "SOLD" => new.status = "SOLD"
        BY <2>1 DEF FreshSave, CanMove, Allowed
      <4>3. QED
        BY <2>3, <4>1, <4>2
    <3>3. CASE r \notin sold
      <4>1. new.status = "SOLD" /\ r = r0
        BY <2>2, <3>1, <3>3
      <4>2. Stored(r0, l)
        BY <1>0, <2>1, <4>1 DEF LocalsOK
      <4>3. QED
        BY <2>1, <2>3, <4>1, <4>2 DEF Stored
    <3>4. QED
      BY <3>2, <3>3
  <2>7. OnePendingOffer'
    BY <1>0, <2>2 DEF OnePendingOffer
  <2>8. new.status = "NONE" => listing[l].status = "NONE"
    BY <2>1 DEF FreshSave, CanMove, Allowed
  <2>9. OfStored'
    BY <1>0, <2>2, <2>3, <2>8 DEF OfStored
  <2>10. QED
    BY <1>1, <2>4, <2>5, <2>6, <2>7, <2>9, SerialStep
<1>3. req[q].pc # "saveListing" => \A r \in Reservations :
        reservation[r].status \in kept => listing[reservation[r].l].cur = r
  BY <1>1, Settled
<1>4. CASE \E l \in Listings : CreateListingDraft(q, l)
  <2>1. PICK l \in Listings : CreateListingDraft(q, l)
    BY <1>4
  <2>2. /\ listing[l].status = "NONE"
        /\ listing' = [listing EXCEPT ![l] = [status |-> "DRAFT", cur |-> None]]
        /\ UNCHANGED <<offer, reservation, sold, req>>
        /\ req[q] = Idle
    BY <2>1 DEF CreateListingDraft, Free
  <2>3. Fresh(q, kept)'
    BY <2>2, FreshIdle
  <2>4. \A r \in Reservations :
          /\ reservation[r].status # "NONE" => reservation[r].l # l
          /\ reservation[r].status \in kept => listing[reservation[r].l].cur = r
    BY <1>0, <1>3, <2>2 DEF OfStored, Idle, Call
  <2>5. \A k \in Listings : k # l => listing'[k] = listing[k]
    BY <1>0, <2>2 DEF TypeOK
  <2>6. OfStored' /\ Promised(kept)'
    BY <1>0, <2>2, <2>4, <2>5, KeptIsMade DEF OfStored, Promised
  <2>7. SoldIsFinal' /\ OnePendingOffer'
    BY <1>0, <2>2, <2>4, <2>5 DEF SoldIsFinal, OnePendingOffer, TypeOK
  <2>8. QED
    BY <1>1, <2>3, <2>6, <2>7, SerialStep
(* The other writes leave the listings alone.                              *)
<1>5. ASSUME listing' = listing, reservation' = reservation, sold' = sold,
             req[q].pc # "saveListing", Fresh(q, kept)', OnePendingOffer'
      PROVE  SInv(kept)'
  BY <1>0, <1>1, <1>3, <1>5, SerialStep DEF OfStored, Promised, SoldIsFinal
<1>6. CASE \E o \in Offers : SubmitOfferSave(q, o)
  <2>1. PICK o \in Offers : SubmitOfferSave(q, o)
    BY <1>6
  <2> DEFINE new == [status |-> "CREATED", l |-> req[q].l, buyer |-> req[q].u]
  <2>2. /\ req[q].pc = "saveOffer"
        /\ listing' = listing /\ reservation' = reservation /\ sold' = sold
        /\ offer' = [offer EXCEPT ![o] = new]
        /\ req'[q] = Idle
    BY <1>0, <2>1 DEF SubmitOfferSave, At, Return
  <2>3. \A x \in Offers : offer'[x] = IF x = o THEN new ELSE offer[x]
    BY <1>0, <2>2 DEF TypeOK
  <2>4. \A x \in Offers : offer[x] # new
    BY <1>0, <2>2 DEF Fresh, HasPendingOffer
  <2>5. OnePendingOffer'
    BY <1>0, <2>3, <2>4 DEF OnePendingOffer
  <2>6. QED
    BY <1>5, <2>2, <2>5, FreshIdle
<1>7. CASE AcceptSaveOffer(q)
  <2>1. /\ req[q].pc = "saveAccepted"
        /\ listing' = listing /\ reservation' = reservation /\ sold' = sold
        /\ offer' = [offer EXCEPT ![req[q].o].status = "ACCEPTED"]
        /\ req'[q].pc = "saveReservation" /\ req'[q].l = req[q].l
    BY <1>0, <1>7 DEF AcceptSaveOffer, At, Resume, Request
  <2>2. \A x \in Offers : offer'[x].status = "CREATED" => offer'[x] = offer[x]
    BY <1>0, <2>1 DEF TypeOK, OfferRec
  <2>3. OnePendingOffer'
    BY <1>0, <2>2 DEF OnePendingOffer
  <2>4. Fresh(q, kept)'
    BY <1>0, <2>1 DEF Fresh, Reporting
  <2>5. QED
    BY <1>5, <2>1, <2>3, <2>4
<1>8. CASE ReportSave(q)
  <2>1. /\ req[q].pc = "saveReport"
        /\ UNCHANGED <<listing, offer, reservation, sold>>
        /\ req'[q].pc = "countReports" /\ req'[q].l = req[q].l /\ req'[q].copy = req[q].copy
    BY <1>0, <1>8 DEF ReportSave, At, Resume, Request
  <2>2. OnePendingOffer' /\ Fresh(q, kept)'
    BY <1>0, <2>1 DEF OnePendingOffer, Fresh, Reporting
  <2>3. QED
    BY <1>5, <2>1, <2>2
<1>9. CASE CompleteSaveReservation(q)
  <2>1. /\ req[q].pc = "saveCompleted"
        /\ Stored(req[q].r, req[q].l)
        /\ UNCHANGED <<listing, offer, sold>>
        /\ reservation' = [reservation EXCEPT ![req[q].r].status = "COMPLETED"]
        /\ req'[q].pc = "findReserved"
    BY <1>0, <1>9 DEF CompleteSaveReservation, At, Resume, Request, LocalsOK
  <2>2. \A x \in Reservations : /\ reservation'[x].l = reservation[x].l
                                /\ reservation'[x].status # "NONE" <=> reservation[x].status # "NONE"
                                /\ reservation'[x].status \in kept => reservation[x].status \in kept
    BY <1>0, <2>1 DEF TypeOK, ReservationRec, Stored, Kinds, Made
  <2>3. OfStored' /\ Promised(kept)'
    BY <1>0, <1>3, <2>1, <2>2 DEF OfStored, Promised
  <2>4. SoldIsFinal' /\ OnePendingOffer' /\ Fresh(q, kept)'
    BY <1>0, <2>1, <2>2 DEF SoldIsFinal, OnePendingOffer, Fresh, Reporting, TypeOK
  <2>5. QED
    BY <1>1, <2>3, <2>4, SerialStep
<1>10. CASE \E r \in Reservations : AcceptSaveReservation(q, r)
  <2>1. PICK r \in Reservations : AcceptSaveReservation(q, r)
    BY <1>10
  <2> DEFINE l == req[q].l
  <2>2. /\ req[q].pc = "saveReservation" /\ l \in Listings
        /\ UNCHANGED <<listing, offer, sold>>
        /\ reservation[r].status = "NONE"
        /\ reservation' = [reservation EXCEPT ![r] = [status |-> "ACTIVE", l |-> l, o |-> req[q].o]]
        /\ req'[q] = Saving(l, "RESERVED", r, r, None)
    BY <1>0, <2>1 DEF AcceptSaveReservation, At, Goto, LocalsOK
  <2>3. listing[l] = [status |-> "PUBLISHED", cur |-> None]
    BY <1>0, <2>2 DEF Fresh
  <2>4. \A x \in Reservations :
           reservation'[x] = IF x = r THEN [status |-> "ACTIVE", l |-> l, o |-> req[q].o]
                                      ELSE reservation[x]
    BY <1>0, <2>2 DEF TypeOK
  <2>5. r \notin sold
    BY <1>0, <2>2 DEF SoldIsFinal
  <2>6. Fresh(q, kept)'
    BY <2>2, <2>3, <2>5 DEF Fresh, FreshSave, Saving, Call, Reporting
  <2>7. /\ req'[q].pc = "saveListing" /\ req'[q].l = l /\ req'[q].copy.cur = r
    BY <2>2 DEF Saving, Call
  <2>8. OfStored' /\ Promised(kept)'
    BY <1>0, <1>3, <2>2, <2>3, <2>4, <2>7, KeptIsMade DEF OfStored, Promised
  <2>9. SoldIsFinal' /\ OnePendingOffer'
    BY <1>0, <2>2, <2>4, <2>5 DEF SoldIsFinal, OnePendingOffer, TypeOK
  <2>10. QED
    BY <1>1, <2>6, <2>8, <2>9, SerialStep
<1>11. QED
  BY <1>2, <1>4, <1>6, <1>7, <1>8, <1>9, <1>10

-----------------------------------------------------------------------------
LEMMA NextSInv ==
  ASSUME Serial, NEW kept \in Kinds, SInv(kept), [Next]_vars
  PROVE  SInv(kept)'
<1>1. ASSUME NEW q \in Requests, Begin(q) \/ Proceed(q) PROVE SInv(kept)'
  BY <1>1, SerialReadSteps, SerialWriteSteps DEF Begin, Proceed
<1>2. CASE UNCHANGED vars
  <2>1. IInv'
    BY <1>2, NextIInv DEF SInv
  <2>2. QED
    BY <1>2, <2>1 DEF vars, SInv, OneCall, Fresh, FreshSave, HasPendingOffer, OfStored,
                      Promised, SoldIsFinal, OnePendingOffer
<1>3. QED
  BY <1>1, <1>2 DEF Next

(* While calls do not overlap, the inductive invariant holds.              *)
THEOREM SerialInvariance == ASSUME Serial PROVE Spec => []SInv(Made)
<1>0. Made \in Kinds
  BY DEF Kinds
<1>1. Init => SInv(Made)
  BY <1>0, InitSInv
<1>2. SInv(Made) /\ [Next]_vars => SInv(Made)'
  BY <1>0, NextSInv
<1>3. QED
  BY <1>1, <1>2, PTL DEF Spec

LEMMA OneIsActive == \A kept \in Kinds : SInv(kept) => OneActiveReservation
<1>1. SUFFICES ASSUME NEW kept \in Kinds, SInv(kept), NEW r1 \in Reservations, NEW r2 \in Reservations,
                      reservation[r1].status = "ACTIVE", reservation[r2].status = "ACTIVE",
                      reservation[r1].l = reservation[r2].l
               PROVE  r1 = r2
  BY DEF OneActiveReservation
<1> DEFINE l == reservation[r1].l
           SavedBy(r, q) == /\ req[q].pc = "saveListing"
                            /\ req[q].l = l
                            /\ req[q].copy.cur = r
<1>2. /\ listing[l].cur = r1 \/ \E q \in Requests : SavedBy(r1, q)
      /\ listing[l].cur = r2 \/ \E q \in Requests : SavedBy(r2, q)
  BY <1>1, KeptIsMade DEF SInv, Promised
<1>3. ASSUME NEW q \in Requests, NEW r \in Reservations, SavedBy(r, q)
      PROVE  listing[l].cur \in {r, None}
  <2>1. FreshSave(q, kept)
    BY <1>1, <1>3 DEF SInv, Fresh
  <2>2. QED
    BY <1>3, <2>1 DEF FreshSave
<1>4. ASSUME NEW p \in Requests, NEW q \in Requests, SavedBy(r1, p), SavedBy(r2, q)
      PROVE  r1 = r2
  BY <1>1, <1>4 DEF SInv, OneCall, Idle, Call
<1>5. QED
  BY <1>2, <1>3, <1>4, MarketplaceAssumption

(* A listing never has two ACTIVE reservations.                            *)
THEOREM SingleActiveReservation == ASSUME Serial PROVE Spec => []OneActiveReservation
<1>1. SInv(Made) => OneActiveReservation
  BY OneIsActive DEF Kinds
<1>2. QED
  BY <1>1, SerialInvariance, PTL

(* A buyer never has two pending offers on a listing.                      *)
THEOREM SinglePendingOffer == ASSUME Serial PROVE Spec => []OnePendingOffer
<1>1. SInv(Made) => OnePendingOffer
  BY DEF SInv
<1>2. QED
  BY <1>1, SerialInvariance, PTL

-----------------------------------------------------------------------------
(* What a step does to the listings: one call's save, or a new draft.      *)
LEMMA ListingSteps ==
  ASSUME NEW q \in Requests, Begin(q) \/ Proceed(q)
  PROVE  \/ SaveListing(q)
         \/ \E l \in Listings : CreateListingDraft(q, l)
         \/ UNCHANGED <<listing, sold>>
  BY DEF Begin, Proceed, PublishListing, ModerateListing, SubmitOffer, ReportListing,
         AcceptOffer, CompleteReservation, SubmitOfferCheck, ReportCheck, ReportCount,
         CompleteReadListing, SubmitOfferSave, AcceptSaveOffer, AcceptSaveReservation,
         ReportSave, CompleteSaveReservation

(* What a save finds and writes.                                           *)
LEMMA SaveFacts ==
  ASSUME NEW kept \in Kinds, SInv(kept), NEW q \in Requests, SaveListing(q)
  PROVE  LET l == req[q].l IN
         /\ l \in Listings /\ FreshSave(q, kept) /\ Sound(l, req[q].copy)
         /\ \A k \in Listings : listing'[k] = IF k = l THEN req[q].copy ELSE listing[k]
         /\ sold' = IF req[q].copy.status = "SOLD" THEN sold \cup {req[q].r} ELSE sold
  BY DEF SInv, IInv, TypeOK, LocalsOK, Fresh, SaveListing, At

(* A change of a listing's status that the transition table allows.        *)
Legal(l) ==
  \/ listing[l].status = "NONE"
  \/ listing'[l].status = listing[l].status
  \/ CanMove(listing[l].status, listing'[l].status)

LEMMA CallsMoveLegally ==
  ASSUME NEW kept \in Kinds, SInv(kept), NEW q \in Requests, Begin(q) \/ Proceed(q),
         NEW l \in Listings
  PROVE  Legal(l)
<1>1. CASE SaveListing(q)
  <2>1. /\ FreshSave(q, kept)
        /\ \A k \in Listings : listing'[k] = IF k = req[q].l THEN req[q].copy ELSE listing[k]
    BY <1>1, SaveFacts
  <2>2. CanMove("PUBLISHED", "RESERVED")
    BY DEF CanMove, Allowed
  <2>3. QED
    BY <2>1, <2>2 DEF FreshSave, Legal
<1>2. CASE \E k \in Listings : CreateListingDraft(q, k)
  BY <1>2 DEF CreateListingDraft, SInv, IInv, TypeOK, Legal
<1>3. CASE UNCHANGED <<listing, sold>>
  BY <1>3 DEF Legal
<1>4. QED
  BY <1>1, <1>2, <1>3, ListingSteps

(* Every stored change of a listing's status is in the transition table.   *)
THEOREM TransitionsAreLegal == ASSUME Serial PROVE Spec => LegalTransitions
<1>1. SInv(Made) /\ [Next]_vars => [\A l \in Listings : Legal(l)]_vars
  BY CallsMoveLegally DEF Next, Kinds
<1>2. QED
  BY <1>1, SerialInvariance, PTL DEF Spec, LegalTransitions, Legal

(* The handlers implement the abstract sale.                               *)
THEOREM Refinement == ASSUME Serial PROVE Spec => RefinesSale
<1> DEFINE holder == [l \in Listings |-> listing[l].cur]
<1>1. Init => Promise!Init
  BY DEF Init, Promise!Init, NoListing
<1>2. SInv(Made) /\ [Next]_vars => [Promise!Next]_<<holder, sold>>
  <2>1. SUFFICES ASSUME SInv(Made), NEW q \in Requests, Begin(q) \/ Proceed(q)
                 PROVE  Promise!Next \/ UNCHANGED <<holder, sold>>
    BY DEF Next, vars
  <2>2. CASE SaveListing(q)
    <3> DEFINE l == req[q].l
               old == listing[l]
               new == req[q].copy
    <3>1. /\ l \in Listings /\ FreshSave(q, Made) /\ Sound(l, new) /\ Sound(l, old)
          /\ \A k \in Listings : listing'[k] = IF k = l THEN new ELSE listing[k]
          /\ sold' = IF new.status = "SOLD" THEN sold \cup {req[q].r} ELSE sold
      BY <2>1, <2>2, SaveFacts DEF SInv, IInv, Kinds
    <3>2. CASE new.status = "SOLD"
      <4>1. new.cur = old.cur /\ old.status = "RESERVED" /\ req[q].r = old.cur
        BY <3>1, <3>2 DEF FreshSave
      <4>2. old.cur # None /\ Stored(old.cur, l)
        BY <3>1, <4>1 DEF Sound
      <4>3. old.cur \notin sold
        BY <2>1, <4>1, <4>2 DEF SInv, SoldIsFinal, Stored
      <4>4. sold' = sold \cup {old.cur} /\ holder' = holder
        BY <3>1, <3>2, <4>1
      <4>5. Promise!Sell(l)
        BY <3>1, <4>2, <4>3, <4>4 DEF Promise!Sell
      <4>6. QED
        BY <3>1, <4>5 DEF Promise!Next
    <3>3. CASE new.status # "SOLD" /\ new.cur = old.cur
      BY <3>1, <3>3
    <3>4. CASE new.status # "SOLD" /\ new.cur # old.cur
      <4> DEFINE r == req[q].r
      <4>1. new.cur = r /\ r # None /\ old.cur = None
        BY <3>1, <3>4 DEF FreshSave
      <4>2. Stored(r, l)
        BY <3>1, <4>1 DEF Sound
      <4>3. \A k \in Listings : listing[k].cur # r
        <5>1. \A k \in Listings : listing[k].cur = r => reservation[r].l = k
          BY <2>1, <4>1 DEF SInv, IInv, Sound, Stored
        <5>2. QED
          BY <4>1, <4>2, <5>1 DEF Stored
      <4>4. holder' = [holder EXCEPT ![l] = r] /\ sold' = sold
        BY <3>1, <3>4, <4>1
      <4>5. PICK k \in Listings, t \in Reservations : k = l /\ t = r
        BY <3>1, <4>2 DEF Stored
      <4>6. Promise!Reserve(k, t)
        BY <3>1, <4>1, <4>3, <4>4, <4>5 DEF Promise!Reserve
      <4>7. QED
        BY <4>6 DEF Promise!Next
    <3>5. QED
      BY <3>2, <3>3, <3>4
  <2>3. CASE \E l \in Listings : CreateListingDraft(q, l)
    <3>1. PICK l \in Listings : CreateListingDraft(q, l)
      BY <2>3
    <3>2. listing[l].cur = None
      BY <2>1, <3>1 DEF CreateListingDraft, SInv, IInv, Sound, Stored, OfStored
    <3>3. \A k \in Listings : listing'[k].cur = listing[k].cur
      BY <2>1, <3>1, <3>2 DEF CreateListingDraft, SInv, IInv, TypeOK
    <3>4. QED
      BY <3>1, <3>3 DEF CreateListingDraft
  <2>4. CASE UNCHANGED <<listing, sold>>
    BY <2>4
  <2>5. QED
    BY <2>1, <2>2, <2>3, <2>4, ListingSteps
<1>3. QED
  BY <1>1, <1>2, SerialInvariance, PTL DEF Spec, RefinesSale, Promise!Spec

-----------------------------------------------------------------------------
(* The calls and the workers together.  What a job works on is stored; the *)
(* invariant of the calls survives the jobs, since they take nothing out   *)
(* of the store and save listings with a pointer that is sound or gone.    *)
JobRec == [pc : JobPoints, l : Listings \cup {None},
           r : Reservations \cup {None}, cur : Reservations \cup {None}]

JobOK(j) ==
  /\ job[j].pc \in {"saveExpired", "findReserved", "saveReleased"} =>
       job[j].l \in Listings /\ Stored(job[j].r, job[j].l)
  /\ job[j].pc \in {"findReported", "saveQuarantined"} => job[j].l \in Listings
  /\ job[j].pc = "saveQuarantined" =>
       Sound(job[j].l, [status |-> "QUARANTINED", cur |-> job[j].cur])

WInv ==
  /\ IInv
  /\ job \in [Jobs -> JobRec]
  /\ processed \subseteq Reservations
  /\ \A j \in Jobs : JobOK(j)

LEMMA InitWInv == WInit => WInv
<1> SUFFICES ASSUME WInit PROVE WInv
  OBVIOUS
<1>1. IInv
  BY InitIInv DEF WInit
<1>2. job \in [Jobs -> JobRec] /\ processed \subseteq Reservations
  BY DEF WInit, NoJob, Job, JobRec, JobPoints
<1>3. \A j \in Jobs : JobOK(j)
  BY DEF WInit, JobOK, NoJob, Job
<1>4. QED
  BY <1>1, <1>2, <1>3 DEF WInv

(* What was sound for a job stays so while the store grows.                *)
LEMMA JobGrows ==
  ASSUME NEW j \in Jobs, JobOK(j), job'[j] = job[j],
         \A r \in Reservations : reservation[r].status # "NONE" =>
           reservation'[r].status # "NONE" /\ reservation'[r].l = reservation[r].l
  PROVE  JobOK(j)'
  BY DEF JobOK, Sound, Stored

LEMMA CallKeepsWInv ==
  ASSUME WInv, NEW q \in Requests, ApiStep(q)
  PROVE  WInv'
<1>1. Begin(q) \/ Proceed(q)
  BY DEF ApiStep
<1>2. IInv'
  BY <1>1, NextIInv DEF WInv, Next
<1>3. job' = job /\ processed' = processed
  BY DEF ApiStep
<1>4. TypeOK /\ LocalsOK(q)
  BY DEF WInv, IInv
<1>5. \A r \in Reservations : reservation[r].status # "NONE" =>
        reservation'[r].status # "NONE" /\ reservation'[r].l = reservation[r].l
  BY <1>1, <1>4, ReservationsStay
<1>6. \A j \in Jobs : JobOK(j)'
  BY <1>3, <1>5, JobGrows DEF WInv
<1>7. QED
  BY <1>2, <1>3, <1>6 DEF WInv

(* A step of job j that lets the store grow and leaves the job with the    *)
(* locals rec.                                                             *)
LEMMA JobStep ==
  ASSUME WInv, NEW j \in Jobs, NEW rec \in JobRec, JobGoto(j, rec),
         Grows, TypeOK', OfferDrivenReservation',
         UNCHANGED <<offer, req>>, processed' \subseteq Reservations,
         \A r \in Reservations : reservation'[r].status # "NONE" => reservation'[r].l \in Listings,
         \A l \in Listings : listing'[l] = listing[l] \/ Sound(l, listing[l])',
         job'[j] = rec => JobOK(j)'
  PROVE  WInv'
<1>1. IInv'
  BY GrowAround DEF WInv, IInv
<1>2. job' \in [Jobs -> JobRec] /\ job'[j] = rec
  BY DEF WInv, JobGoto
<1>3. \A r \in Reservations : reservation[r].status # "NONE" =>
        reservation'[r].status # "NONE" /\ reservation'[r].l = reservation[r].l
  BY DEF Grows
<1>4. ASSUME NEW i \in Jobs, i # j PROVE JobOK(i)'
  <2>1. job'[i] = job[i] /\ JobOK(i)
    BY <1>4 DEF WInv, JobGoto
  <2>2. QED
    BY <1>3, <2>1, JobGrows
<1>5. QED
  BY <1>1, <1>2, <1>4 DEF WInv

(* The step of a job that writes no repository.                            *)
LEMMA JobReads ==
  ASSUME WInv, NEW j \in Jobs, NEW rec \in JobRec, JobGoto(j, rec),
         UNCHANGED vars, processed' \subseteq Reservations,
         job'[j] = rec => JobOK(j)'
  PROVE  WInv'
<1>1. Grows /\ TypeOK' /\ OfferDrivenReservation'
  BY DEF vars, Grows, WInv, IInv, TypeOK, OfferDrivenReservation
<1>2. \A r \in Reservations : reservation'[r].status # "NONE" => reservation'[r].l \in Listings
  BY DEF vars, WInv, IInv
<1>3. QED
  BY <1>1, <1>2, JobStep DEF vars

(* The step of a job that saves a listing.                                 *)
LEMMA JobSavesListing ==
  ASSUME WInv, NEW j \in Jobs, NEW l \in Listings, NEW c \in ListingRec, Sound(l, c),
         listing' = [listing EXCEPT ![l] = c],
         UNCHANGED <<offer, reservation, reports, sold, req>>,
         JobGoto(j, NoJob), processed' \subseteq Reservations
  PROVE  WInv'
<1>1. TypeOK'
  BY DEF WInv, IInv, TypeOK
<1>2. Grows /\ OfferDrivenReservation'
  BY DEF Grows, WInv, IInv, OfferDrivenReservation
<1>3. NoJob \in JobRec /\ (job'[j] = NoJob => JobOK(j)')
  BY DEF NoJob, Job, JobRec, JobPoints, JobOK
<1>4. \A k \in Listings : listing'[k] = listing[k] \/ Sound(k, listing[k])'
  BY DEF WInv, IInv, TypeOK, Sound, Stored
<1>5. \A r \in Reservations : reservation'[r].status # "NONE" => reservation'[r].l \in Listings
  BY DEF WInv, IInv
<1>6. QED
  BY <1>1, <1>2, <1>3, <1>4, <1>5, JobStep

LEMMA ResumeIsJobGoto ==
  ASSUME job \in [Jobs -> JobRec], NEW j \in Jobs, NEW to \in JobPoints, JobResume(j, to)
  PROVE  /\ Job(to, job[j].l, job[j].r, job[j].cur) \in JobRec
         /\ JobGoto(j, Job(to, job[j].l, job[j].r, job[j].cur))
<1> DEFINE rec == Job(to, job[j].l, job[j].r, job[j].cur)
<1>1. job[j] \in JobRec
  OBVIOUS
<1>2. rec \in JobRec /\ rec = [job[j] EXCEPT !.pc = to]
  BY <1>1 DEF Job, JobRec
<1>3. JobGoto(j, rec)
  BY <1>2 DEF JobResume, JobGoto
<1>4. QED
  BY <1>2, <1>3

LEMMA JobKeepsWInv ==
  ASSUME WInv, NEW j \in Jobs, StartJob(j) \/ ProceedJob(j) \/ JobFails(j)
  PROVE  WInv'
<1> USE MarketplaceAssumption
<1>0. /\ TypeOK /\ IInv /\ JobOK(j) /\ job \in [Jobs -> JobRec] /\ job[j] \in JobRec
      /\ processed \subseteq Reservations
      /\ \A l \in Listings : listing[l] \in ListingRec /\ Sound(l, listing[l])
  BY DEF WInv, IInv, TypeOK
<1>1. NoJob \in JobRec /\ (job'[j] = NoJob => JobOK(j)')
  BY DEF NoJob, Job, JobRec, JobPoints, JobOK
<1>2. CASE \E r \in Reservations : ExpiryStart(j, r)
  <2>1. PICK r \in Reservations : ExpiryStart(j, r)
    BY <1>2
  <2> DEFINE rec == Job("saveExpired", reservation[r].l, r, None)
  <2>2. Stored(r, reservation[r].l) /\ reservation[r].l \in Listings
    BY <1>0, <2>1 DEF ExpiryStart, Stored, IInv
  <2>3. rec \in JobRec
    BY <2>2 DEF Job, JobRec, JobPoints
  <2>4. job'[j] = rec => JobOK(j)'
    BY <2>1, <2>2 DEF JobOK, Job, ExpiryStart, vars, Stored
  <2>5. QED
    BY <1>0, <2>1, <2>3, <2>4, JobReads DEF ExpiryStart
<1>3. CASE \E l \in Listings : ModerationStart(j, l)
  <2>1. PICK l \in Listings : ModerationStart(j, l)
    BY <1>3
  <2>2. Job("findReported", l, None, None) \in JobRec
    BY DEF Job, JobRec, JobPoints
  <2>3. job'[j] = Job("findReported", l, None, None) => JobOK(j)'
    BY DEF JobOK, Job
  <2>4. QED
    BY <1>0, <2>1, <2>2, <2>3, JobReads DEF ModerationStart
<1>4. CASE ExpirySaveReservation(j)
  <2> DEFINE r   == job[j].r
             rec == Job("findReserved", job[j].l, r, job[j].cur)
  <2>1. job[j].l \in Listings /\ r \in Reservations /\ reservation[r].status # "NONE"
        /\ reservation[r].l = job[j].l
    BY <1>0, <1>4 DEF ExpirySaveReservation, JobAt, JobOK, Stored
  <2>2. /\ reservation' = [reservation EXCEPT ![r].status = "EXPIRED"]
        /\ JobResume(j, "findReserved")
        /\ UNCHANGED <<listing, offer, reports, sold, req, processed>>
    BY <1>4 DEF ExpirySaveReservation
  <2>3. rec \in JobRec /\ JobGoto(j, rec)
    BY <1>0, <2>2, ResumeIsJobGoto DEF JobPoints
  <2>4. \A x \in Reservations :
          /\ reservation'[x].l = reservation[x].l /\ reservation'[x].o = reservation[x].o
          /\ reservation'[x].status # "NONE" <=> reservation[x].status # "NONE"
    BY <1>0, <2>1, <2>2 DEF TypeOK, ReservationRec
  <2>5. Grows
    BY <2>2, <2>4 DEF Grows
  <2>6. TypeOK'
    BY <1>0, <2>1, <2>2 DEF TypeOK, ReservationRec
  <2>7. OfferDrivenReservation'
    BY <1>0, <2>2, <2>4 DEF IInv, OfferDrivenReservation
  <2>8. \A x \in Reservations : reservation'[x].status # "NONE" => reservation'[x].l \in Listings
    BY <1>0, <2>4 DEF IInv
  <2>9. job'[j] = rec => JobOK(j)'
    BY <2>1, <2>4 DEF JobOK, Job, Stored
  <2>10. QED
    BY <1>0, <2>2, <2>3, <2>5, <2>6, <2>7, <2>8, <2>9, JobStep
<1>5. CASE ExpiryFindListing(j)
  <2>1. job[j].l \in Listings /\ Stored(job[j].r, job[j].l)
    BY <1>0, <1>5 DEF ExpiryFindListing, JobAt, JobOK
  <2>2. CASE JobGoto(j, NoJob) /\ processed' = processed \cup {job[j].r}
    BY <1>0, <1>1, <1>5, <2>1, <2>2, JobReads DEF ExpiryFindListing, Stored
  <2>3. CASE JobResume(j, "saveReleased") /\ UNCHANGED processed
    <3> DEFINE rec == Job("saveReleased", job[j].l, job[j].r, job[j].cur)
    <3>1. rec \in JobRec /\ JobGoto(j, rec)
      BY <1>0, <2>3, ResumeIsJobGoto DEF JobPoints
    <3>2. job'[j] = rec => JobOK(j)'
      BY <1>5, <2>1 DEF JobOK, Job, Stored, ExpiryFindListing, vars
    <3>3. QED
      BY <1>0, <1>5, <2>3, <3>1, <3>2, JobReads DEF ExpiryFindListing
  <2>4. QED
    BY <1>5, <2>2, <2>3 DEF ExpiryFindListing
<1>6. CASE ExpirySaveListing(j)
  <2>1. job[j].l \in Listings /\ Stored(job[j].r, job[j].l)
    BY <1>0, <1>6 DEF ExpirySaveListing, JobAt, JobOK
  <2> DEFINE c == [status |-> "PUBLISHED", cur |-> None]
  <2>2. c \in ListingRec /\ Sound(job[j].l, c)
    BY DEF ListingRec, Statuses, LiveStatuses, Sound
  <2>3. QED
    BY <1>0, <1>6, <2>1, <2>2, JobSavesListing DEF ExpirySaveListing, Stored
<1>7. CASE ModerationFindListing(j)
  <2> DEFINE l   == job[j].l
             rec == Job("saveQuarantined", l, None, listing[l].cur)
  <2>1. l \in Listings
    BY <1>0, <1>7 DEF ModerationFindListing, JobAt, JobOK
  <2>2. CASE JobGoto(j, NoJob)
    BY <1>0, <1>1, <1>7, <2>2, JobReads DEF ModerationFindListing
  <2>3. CASE JobGoto(j, rec)
    <3>1. rec \in JobRec
      BY <1>0, <2>1 DEF Job, JobRec, JobPoints, ListingRec
    <3>2. Sound(l, [status |-> "QUARANTINED", cur |-> listing[l].cur])
      BY <1>0, <2>1 DEF Sound
    <3>3. job'[j] = rec => JobOK(j)'
      BY <1>7, <2>1, <3>2 DEF JobOK, Job, Sound, Stored, ModerationFindListing, vars
    <3>4. QED
      BY <1>0, <1>7, <2>3, <3>1, <3>3, JobReads DEF ModerationFindListing
  <2>4. QED
    BY <1>7, <2>2, <2>3 DEF ModerationFindListing
<1>8. CASE ModerationSaveListing(j)
  <2> DEFINE c == [status |-> "QUARANTINED", cur |-> job[j].cur]
  <2>1. job[j].l \in Listings /\ Sound(job[j].l, c)
    BY <1>0, <1>8 DEF ModerationSaveListing, JobAt, JobOK
  <2>2. c \in ListingRec
    BY <1>0 DEF ListingRec, Statuses, LiveStatuses, JobRec
  <2>3. QED
    BY <1>0, <1>8, <2>1, <2>2, JobSavesListing DEF ModerationSaveListing
<1>9. CASE JobFails(j)
  BY <1>0, <1>1, <1>9, JobReads DEF JobFails
<1>10. QED
  BY <1>2, <1>3, <1>4, <1>5, <1>6, <1>7, <1>8, <1>9 DEF StartJob, ProceedJob

LEMMA NextWInv == WInv /\ [WNext]_wvars => WInv'
<1> SUFFICES ASSUME WInv, [WNext]_wvars PROVE WInv'
  OBVIOUS
<1>1. CASE UNCHANGED wvars
  <2>1. IInv'
    BY <1>1, NextIInv DEF WInv, wvars, vars
  <2>2. QED
    BY <1>1, <2>1 DEF WInv, wvars, JobOK, Sound, Stored
<1>2. QED
  BY <1>1, CallKeepsWInv, JobKeepsWInv DEF WNext

THEOREM WorkersInvariance == WSpec => []WInv
<1>1. QED
  BY InitWInv, NextWInv, PTL DEF WSpec

(* Calls, jobs and what they hold stay of their types, whatever overlaps   *)
(* and whichever jobs fail.                                                *)
THEOREM WorkersTypeCorrect == WSpec => []WTypeOK
<1>1. WInv => WTypeOK
  BY DEF WInv, IInv, WTypeOK, JobRec
<1>2. QED
  BY <1>1, WorkersInvariance, PTL

(* The workers, which expire reservations and save listings of their own,  *)
(* tear no reservation from its accepted offer.                            *)
THEOREM WorkersKeepReservationsOfferDriven == WSpec => []OfferDrivenReservation
<1>1. WInv => OfferDrivenReservation
  BY DEF WInv, IInv
<1>2. QED
  BY <1>1, WorkersInvariance, PTL

(* Nor do they leave a RESERVED listing without a reservation of its own,  *)
(* although they put listings back on sale under calls that hold copies.   *)
THEOREM WorkersKeepLocks == WSpec => []LockNamesReservation
<1>1. WInv => LockNamesReservation
  BY DEF WInv, IInv, LockNamesReservation, Sound, Stored
<1>2. QED
  BY <1>1, WorkersInvariance, PTL

-----------------------------------------------------------------------------
(* Calls and jobs one after another: a job that is about to save its       *)
(* reservation as EXPIRED has nobody beside it, so the reservation is as   *)
(* ACTIVE as when the job read it.                                         *)
JobAlone(j) ==
  /\ job[j] # NoJob => AllIdle /\ \A i \in Jobs : i # j => job[i] = NoJob
  /\ job[j].pc = "saveExpired" => reservation[job[j].r].status = "ACTIVE"

LonelyInv == WInv /\ \A j \in Jobs : JobAlone(j)

LEMMA InitLonelyInv == WInit => LonelyInv
<1>1. WInit => \A j \in Jobs : JobAlone(j)
  BY DEF WInit, JobAlone, NoJob, Job
<1>2. QED
  BY <1>1, InitWInv DEF LonelyInv

(* Whoever calls, no job is at work.                                       *)
LEMMA CallsAlone ==
  ASSUME Serial, LonelyInv, NEW q \in Requests, ApiStep(q)
  PROVE  NoJobs
<1>1. CASE Serial => NoJobs
  BY <1>1
<1>2. CASE Proceed(q)
  <2>1. req[q] # Idle
    BY <1>2 DEF Proceed, SaveListing, SubmitOfferCheck, SubmitOfferSave, AcceptSaveOffer,
       AcceptSaveReservation, ReportCheck, ReportSave, ReportCount,
       CompleteSaveReservation, CompleteReadListing, At, Idle, Call
  <2>2. QED
    BY <2>1 DEF LonelyInv, JobAlone, AllIdle, NoJobs
<1>3. QED
  BY <1>1, <1>2 DEF ApiStep

(* Beside a job that takes a step nothing else is at work.                 *)
LEMMA JobsAlone ==
  ASSUME Serial, LonelyInv, NEW j \in Jobs, StartJob(j) \/ ProceedJob(j) \/ JobFails(j)
  PROVE  AllIdle /\ \A i \in Jobs : i # j => job[i] = NoJob
<1>1. CASE StartJob(j)
  BY <1>1 DEF StartJob, ExpiryStart, ModerationStart, JobFree, NoJobs
<1>2. CASE ProceedJob(j) \/ JobFails(j)
  <2>1. job[j] # NoJob
    BY <1>2 DEF ProceedJob, JobFails, ExpirySaveReservation, ExpiryFindListing,
       ExpirySaveListing, ModerationFindListing, ModerationSaveListing, JobAt, NoJob, Job
  <2>2. QED
    BY <2>1 DEF LonelyInv, JobAlone
<1>3. QED
  BY <1>1, <1>2

LEMMA NextLonelyInv == Serial /\ LonelyInv /\ [WNext]_wvars => LonelyInv'
<1> SUFFICES ASSUME Serial, LonelyInv, [WNext]_wvars PROVE LonelyInv'
  OBVIOUS
<1>1. WInv' /\ WInv
  BY NextWInv DEF LonelyInv
<1>2. ASSUME NEW q \in Requests, ApiStep(q) PROVE LonelyInv'
  <2>1. NoJobs /\ job' = job
    BY <1>2, CallsAlone DEF ApiStep
  <2>2. QED
    BY <1>1, <2>1 DEF LonelyInv, JobAlone, NoJobs, NoJob, Job
<1>3. ASSUME NEW j \in Jobs, StartJob(j) \/ ProceedJob(j) \/ JobFails(j) PROVE LonelyInv'
  <2>1. AllIdle /\ \A i \in Jobs : i # j => job[i] = NoJob
    BY <1>3, JobsAlone
  <2>2. req' = req /\ \A i \in Jobs : i # j => job'[i] = job[i]
    BY <1>1, <1>3 DEF WInv, StartJob, ProceedJob, JobFails, ExpiryStart, ModerationStart,
       ExpirySaveReservation, ExpiryFindListing, ExpirySaveListing, ModerationFindListing,
       ModerationSaveListing, JobGoto, JobResume, vars
  <2>3. job'[j].pc = "saveExpired" => reservation'[job'[j].r].status = "ACTIVE"
    BY <1>1, <1>3 DEF WInv, StartJob, ProceedJob, JobFails, ExpiryStart, ModerationStart,
       ExpirySaveReservation, ExpiryFindListing, ExpirySaveListing, ModerationFindListing,
       ModerationSaveListing, JobGoto, JobResume, JobRec, Job, NoJob, vars
  <2>4. QED
    BY <1>1, <2>1, <2>2, <2>3 DEF LonelyInv, JobAlone, AllIdle, NoJob, Job
<1>4. CASE UNCHANGED wvars
  BY <1>1, <1>4 DEF wvars, LonelyInv, JobAlone, AllIdle
<1>5. QED
  BY <1>2, <1>3, <1>4 DEF WNext

(* What is COMPLETED stays so: neither a call nor a job takes it back.     *)
THEOREM CompletedStaysCompleted == ASSUME Serial PROVE WSpec => CompletedIsFinal
<1> DEFINE Kept == \A r \in Reservations :
                     reservation[r].status = "COMPLETED" => reservation'[r].status = "COMPLETED"
<1>1. LonelyInv /\ [WNext]_wvars => [Kept]_wvars
  <2>1. SUFFICES ASSUME LonelyInv, WNext PROVE Kept
    OBVIOUS
  <2>2. ASSUME NEW q \in Requests, ApiStep(q) PROVE Kept
    <3>1. TypeOK /\ LocalsOK(q)
      BY <2>1 DEF LonelyInv, WInv, IInv
    <3>2. QED
      BY <2>2, <3>1, ReservationsStay DEF ApiStep
  <2>3. ASSUME NEW j \in Jobs, ExpirySaveReservation(j) PROVE Kept
    <3>1. reservation[job[j].r].status = "ACTIVE"
      BY <2>1, <2>3 DEF LonelyInv, JobAlone, ExpirySaveReservation, JobAt
    <3>2. QED
      BY <2>1, <2>3, <3>1 DEF ExpirySaveReservation, LonelyInv, WInv, IInv, TypeOK
  <2>4. ASSUME UNCHANGED reservation PROVE Kept
    BY <2>4
  <2>5. QED
    BY <2>1, <2>2, <2>3, <2>4 DEF WNext, StartJob, ProceedJob, JobFails, ExpiryStart,
       ModerationStart, ExpiryFindListing, ExpirySaveListing, ModerationFindListing,
       ModerationSaveListing, vars
<1>2. LonelyInv /\ [WNext]_wvars => LonelyInv'
  BY NextLonelyInv
<1>3. QED
  BY <1>1, <1>2, InitLonelyInv, PTL DEF WSpec, CompletedIsFinal
-----------------------------------------------------------------------------
(* What calls that do not overlap are sure of survives the workers, which  *)
(* do not overlap them either: what a job is about to save follows from    *)
(* what is stored now.  A listing is let go only when its reservation is   *)
(* not ACTIVE any more, and is quarantined only while it is on sale.       *)
JobFresh(j) ==
  /\ job[j].pc \in {"findReserved", "saveReleased"} =>
       reservation[job[j].r].status # "ACTIVE" /\ listing[job[j].l].cur = job[j].r
  /\ job[j].pc = "saveReleased" => listing[job[j].l].status = "RESERVED"
  /\ job[j].pc = "saveQuarantined" =>
       listing[job[j].l] = [status |-> "PUBLISHED", cur |-> job[j].cur]

SerialJobsInv ==
  /\ LonelyInv
  /\ SInv({"ACTIVE"})
  /\ SaleInv
  /\ \A j \in Jobs : JobFresh(j)

LEMMA InitSerialJobsInv == WInit => SerialJobsInv
<1>1. WInit => SInv({"ACTIVE"}) /\ SaleInv
  BY InitSInv, InitSaleInv DEF WInit, Kinds
<1>2. WInit => \A j \in Jobs : JobFresh(j)
  BY DEF WInit, JobFresh, NoJob, Job
<1>3. QED
  BY <1>1, <1>2, InitLonelyInv DEF SerialJobsInv

(* What a job of its own does to the store while every call is idle.       *)
LEMMA JobsKeepOrder ==
  ASSUME Serial, SerialJobsInv, NEW j \in Jobs,
         StartJob(j) \/ ProceedJob(j) \/ JobFails(j)
  PROVE  /\ SInv({"ACTIVE"})' /\ SaleInv'
         /\ JobFresh(j)'
         /\ \A l \in Listings : Legal(l)
<1> USE MarketplaceAssumption
<1>0. /\ AllIdle /\ TypeOK /\ IInv /\ JobOK(j) /\ JobFresh(j) /\ job \in [Jobs -> JobRec]
      /\ OfStored /\ SoldIsFinal /\ OnePendingOffer /\ SoldWasCompleted
      /\ \A r \in Reservations : reservation[r].status = "ACTIVE" =>
           listing[reservation[r].l].cur = r
  <2>1. AllIdle
    BY JobsAlone DEF SerialJobsInv
  <2>2. \A q \in Requests : req[q].pc # "saveListing"
    BY <2>1 DEF AllIdle, Idle, Call
  <2>3. Promised({"ACTIVE"})
    BY DEF SerialJobsInv, SInv
  <2>4. \A r \in Reservations : reservation[r].status = "ACTIVE" =>
          listing[reservation[r].l].cur = r
    BY <2>2, <2>3 DEF Promised
  <2>5. QED
    BY <2>1, <2>4 DEF SerialJobsInv, SInv, SaleInv, LonelyInv, WInv, IInv
<1>1. {"ACTIVE"} \in Kinds
  BY DEF Kinds
<1>2. IInv'
  BY JobKeepsWInv DEF SerialJobsInv, LonelyInv, WInv
<1>3. \A rec : JobGoto(j, rec) => job'[j] = rec
  BY <1>0 DEF JobGoto
<1>4. \A to \in JobPoints : JobResume(j, to) =>
        job'[j].pc = to /\ job'[j].l = job[j].l /\ job'[j].r = job[j].r
  BY <1>0 DEF JobResume, JobRec
(* Once the step is known to leave each of these alone the rest follows.   *)
<1>5. ASSUME req' = req, OfStored', Promised({"ACTIVE"})', SoldIsFinal', OnePendingOffer',
             SoldWasCompleted'
      PROVE  SInv({"ACTIVE"})' /\ SaleInv'
  <2>1. \A q \in Requests : req'[q] = Idle
    BY <1>0, <1>5 DEF AllIdle
  <2>2. OneCall' /\ \A q \in Requests : SaleBacked(q)'
    BY <2>1 DEF OneCall, SaleBacked, Idle, Call
  <2>3. \A q \in Requests : Fresh(q, {"ACTIVE"})'
    BY <1>1, <2>1, FreshIdle
  <2>4. QED
    BY <1>2, <1>5, <2>2, <2>3 DEF SInv, SaleInv
<1>6. CASE UNCHANGED vars
  <2>1. SInv({"ACTIVE"})' /\ SaleInv'
    BY <1>1, <1>6, NextSInv, NextSaleInv DEF SerialJobsInv
  <2>2. \A l \in Listings : Legal(l)
    BY <1>6 DEF vars, Legal
  <2>3. JobFresh(j)'
    <3>1. CASE StartJob(j) \/ JobFails(j)
      <4>1. job'[j].pc \in {"saveExpired", "findReported", "idle"}
        <5>1. CASE \E r \in Reservations : ExpiryStart(j, r)
          BY <1>3, <5>1 DEF ExpiryStart, Job
        <5>2. CASE \E l \in Listings : ModerationStart(j, l)
          BY <1>3, <5>2 DEF ModerationStart, Job
        <5>3. CASE JobFails(j)
          BY <1>3, <5>3 DEF JobFails, NoJob, Job
        <5>4. QED
          BY <3>1, <5>1, <5>2, <5>3 DEF StartJob
      <4>2. QED
        BY <4>1 DEF JobFresh
    <3>2. CASE ExpiryFindListing(j)
      BY <1>0, <1>3, <1>4, <1>6, <3>2 DEF ExpiryFindListing, JobAt, JobFresh, vars, NoJob, Job,
         JobPoints
    <3>3. CASE ModerationFindListing(j)
      <4>1. CASE job'[j] = NoJob
        BY <4>1 DEF JobFresh, NoJob, Job
      <4>2. CASE job'[j] # NoJob
        <5>1. /\ job[j].l \in Listings /\ listing[job[j].l].status = "PUBLISHED"
              /\ job'[j] = Job("saveQuarantined", job[j].l, None, listing[job[j].l].cur)
          BY <1>0, <1>3, <3>3, <4>2 DEF ModerationFindListing, JobAt, JobOK
        <5>2. QED
          BY <1>0, <1>6, <5>1 DEF JobFresh, Job, vars, TypeOK, ListingRec
      <4>3. QED
        BY <4>1, <4>2
    <3>4. CASE ExpirySaveReservation(j)
      <4>1. /\ job[j].r \in Reservations /\ reservation[job[j].r].status = "ACTIVE"
            /\ reservation' = [reservation EXCEPT ![job[j].r].status = "EXPIRED"]
        BY <1>0, <3>4 DEF ExpirySaveReservation, JobAt, JobOK, Stored, SerialJobsInv, LonelyInv, JobAlone
      <4>2. QED
        BY <1>0, <1>6, <4>1 DEF vars, TypeOK, ReservationRec
    <3>5. CASE ExpirySaveListing(j) \/ ModerationSaveListing(j)
      BY <1>3, <3>5 DEF ExpirySaveListing, ModerationSaveListing, JobFresh, NoJob, Job
    <3>6. QED
      BY <3>1, <3>2, <3>3, <3>4, <3>5 DEF ProceedJob
  <2>4. QED
    BY <2>1, <2>2, <2>3
<1>7. CASE ExpirySaveReservation(j)
  <2> DEFINE r == job[j].r
  <2>1. /\ r \in Reservations /\ reservation[r].status = "ACTIVE" /\ reservation[r].l = job[j].l
        /\ listing[job[j].l].cur = r
    BY <1>0, <1>7 DEF ExpirySaveReservation, JobAt, JobOK, Stored, SerialJobsInv, LonelyInv, JobAlone
  <2>2. /\ reservation' = [reservation EXCEPT ![r].status = "EXPIRED"]
        /\ UNCHANGED <<listing, offer, reports, sold, req>>
        /\ job'[j].pc = "findReserved" /\ job'[j].l = job[j].l /\ job'[j].r = r
    BY <1>4, <1>7 DEF ExpirySaveReservation, JobPoints
  <2>3. \A x \in Reservations :
          /\ reservation'[x].l = reservation[x].l
          /\ reservation'[x].status = IF x = r THEN "EXPIRED" ELSE reservation[x].status
    BY <1>0, <2>1, <2>2 DEF TypeOK, ReservationRec
  <2>4. OfStored' /\ Promised({"ACTIVE"})' /\ SoldIsFinal' /\ OnePendingOffer'
    BY <1>0, <2>1, <2>2, <2>3 DEF OfStored, Promised, SoldIsFinal, OnePendingOffer, TypeOK
  <2>5. SoldWasCompleted'
    BY <1>0, <2>1, <2>2, <2>3 DEF SoldWasCompleted
  <2>6. JobFresh(j)'
    BY <2>1, <2>2, <2>3 DEF JobFresh
  <2>7. \A l \in Listings : Legal(l)
    BY <2>2 DEF Legal
  <2>8. QED
    BY <1>5, <2>2, <2>4, <2>5, <2>6, <2>7
(* The two saves of a listing: what is stored goes back on sale without a  *)
(* reservation, or is quarantined with the one it has.                     *)
<1> DEFINE Saves(l, s, c) ==
             /\ listing' = [listing EXCEPT ![l] = [status |-> s, cur |-> c]]
             /\ UNCHANGED <<offer, reservation, sold, req>> /\ job'[j] = NoJob
             /\ listing[l].status \in {"RESERVED", "PUBLISHED"}
             /\ CanMove(listing[l].status, s) /\ s \notin {"NONE", "SOLD"}
             /\ \A r \in Reservations :
                  reservation[r].status = "ACTIVE" /\ reservation[r].l = l => c = r
<1>8. ASSUME NEW l \in Listings, NEW s, NEW c, Saves(l, s, c)
      PROVE  SInv({"ACTIVE"})' /\ SaleInv' /\ JobFresh(j)' /\ \A k \in Listings : Legal(k)
  <2>1. \A k \in Listings :
          listing'[k] = IF k = l THEN [status |-> s, cur |-> c] ELSE listing[k]
    BY <1>0, <1>8 DEF TypeOK
  <2>2. \A r \in Reservations : reservation[r].status # "NONE" => reservation[r].l \in Listings
    BY <1>0 DEF IInv
  <2>3. OfStored' /\ Promised({"ACTIVE"})'
    BY <1>0, <1>8, <2>1, <2>2 DEF OfStored, Promised
  <2>4. SoldIsFinal' /\ OnePendingOffer' /\ SoldWasCompleted'
    BY <1>0, <1>8, <2>1, <2>2 DEF SoldIsFinal, OnePendingOffer, SoldWasCompleted, TypeOK
  <2>5. \A k \in Listings : Legal(k)
    BY <1>8, <2>1 DEF Legal
  <2>6. JobFresh(j)'
    BY <1>8 DEF JobFresh, NoJob, Job
  <2>7. QED
    BY <1>5, <1>8, <2>3, <2>4, <2>5, <2>6
<1>9. CASE ExpirySaveListing(j)
  <2> DEFINE l == job[j].l
  <2>1. /\ l \in Listings /\ listing[l].status = "RESERVED" /\ listing[l].cur = job[j].r
        /\ reservation[job[j].r].status # "ACTIVE"
    BY <1>0, <1>9 DEF ExpirySaveListing, JobAt, JobOK, JobFresh
  <2>2. /\ listing' = [listing EXCEPT ![l] = [status |-> "PUBLISHED", cur |-> None]]
        /\ UNCHANGED <<offer, reservation, sold, req>> /\ job'[j] = NoJob
    BY <1>3, <1>9 DEF ExpirySaveListing
  <2>3. Saves(l, "PUBLISHED", None)
    BY <1>0, <2>1, <2>2 DEF CanMove, Allowed
  <2> HIDE DEF l, Saves
  <2>4. QED
    BY <1>8, <2>1, <2>3
<1>10. CASE ModerationSaveListing(j)
  <2> DEFINE l == job[j].l
             c == job[j].cur
  <2>1. l \in Listings /\ listing[l] = [status |-> "PUBLISHED", cur |-> c]
    BY <1>0, <1>10 DEF ModerationSaveListing, JobAt, JobOK, JobFresh
  <2>2. /\ listing' = [listing EXCEPT ![l] = [status |-> "QUARANTINED", cur |-> c]]
        /\ UNCHANGED <<offer, reservation, sold, req>> /\ job'[j] = NoJob
    BY <1>3, <1>10 DEF ModerationSaveListing
  <2>3. Saves(l, "QUARANTINED", c)
    BY <1>0, <2>1, <2>2 DEF CanMove, Allowed
  <2> HIDE DEF l, c, Saves
  <2>4. QED
    BY <1>8, <2>1, <2>3
<1>11. QED
  BY <1>6, <1>7, <1>9, <1>10 DEF StartJob, ProceedJob, JobFails, ExpiryStart, ModerationStart,
     ExpiryFindListing, ModerationFindListing

LEMMA NextSerialJobsInv == Serial /\ SerialJobsInv /\ [WNext]_wvars => SerialJobsInv'
<1> SUFFICES ASSUME Serial, SerialJobsInv, [WNext]_wvars PROVE SerialJobsInv'
  OBVIOUS
<1>0. LonelyInv /\ LonelyInv' /\ job \in [Jobs -> JobRec] /\ {"ACTIVE"} \in Kinds
  BY NextLonelyInv DEF SerialJobsInv, LonelyInv, WInv, Kinds
<1>1. ASSUME NEW q \in Requests, ApiStep(q) PROVE SerialJobsInv'
  <2>1. [Next]_vars /\ NoJobs /\ job' = job
    BY <1>0, <1>1, CallsAlone DEF ApiStep, Next
  <2>2. SInv({"ACTIVE"})' /\ SaleInv'
    BY <1>0, <2>1, NextSInv, NextSaleInv DEF SerialJobsInv
  <2>3. \A j \in Jobs : JobFresh(j)'
    BY <2>1 DEF NoJobs, JobFresh, NoJob, Job
  <2>4. QED
    BY <1>0, <2>2, <2>3 DEF SerialJobsInv
<1>2. ASSUME NEW j \in Jobs, StartJob(j) \/ ProceedJob(j) \/ JobFails(j) PROVE SerialJobsInv'
  <2>1. SInv({"ACTIVE"})' /\ SaleInv' /\ JobFresh(j)'
    BY <1>2, JobsKeepOrder
  <2>2. \A i \in Jobs : i # j => job[i] = NoJob
    BY <1>0, <1>2, JobsAlone
  <2>3. \A i \in Jobs : i # j => job'[i] = job[i]
    BY <1>0, <1>2 DEF StartJob, ProceedJob, JobFails, ExpiryStart, ModerationStart,
       ExpirySaveReservation, ExpiryFindListing, ExpirySaveListing, ModerationFindListing,
       ModerationSaveListing, JobGoto, JobResume
  <2>4. \A i \in Jobs : i # j => JobFresh(i)'
    BY <2>2, <2>3 DEF JobFresh, NoJob, Job
  <2>5. QED
    BY <1>0, <2>1, <2>4 DEF SerialJobsInv
<1>3. CASE UNCHANGED wvars
  <2>1. UNCHANGED vars /\ job' = job
    BY <1>3 DEF wvars, vars
  <2>2. SInv({"ACTIVE"})' /\ SaleInv'
    BY <1>0, <2>1, NextSInv, NextSaleInv DEF SerialJobsInv
  <2>3. \A j \in Jobs : JobFresh(j)'
    BY <2>1 DEF SerialJobsInv, JobFresh, vars
  <2>4. QED
    BY <1>0, <2>2, <2>3 DEF SerialJobsInv
<1>4. QED
  BY <1>1, <1>2, <1>3 DEF WNext

LEMMA SerialJobsInvariance == ASSUME Serial PROVE WSpec => []SerialJobsInv
<1>1. SerialJobsInv /\ [WNext]_wvars => SerialJobsInv'
  BY NextSerialJobsInv
<1>2. QED
  BY <1>1, InitSerialJobsInv, PTL DEF WSpec

(* With the workers at work too, a listing never has two ACTIVE            *)
(* reservations: one is put back on sale only once its reservation expired.*)
THEOREM WorkersKeepOneReservation == ASSUME Serial PROVE WSpec => []OneActiveReservation
<1>1. SerialJobsInv => OneActiveReservation
  BY OneIsActive DEF SerialJobsInv, Kinds
<1>2. QED
  BY <1>1, SerialJobsInvariance, PTL

(* A SOLD listing keeps a completed reservation: the expiry worker, beside *)
(* which no call runs, takes none back.                                    *)
THEOREM WorkersKeepSales == ASSUME Serial PROVE WSpec => []SoldWasCompleted
<1>1. SerialJobsInv => SoldWasCompleted
  BY DEF SerialJobsInv, SaleInv
<1>2. QED
  BY <1>1, SerialJobsInvariance, PTL

(* An item is sold once, although an expired reservation can be completed  *)
(* while the item is reserved for another: SOLD listings are not sold again.*)
THEOREM WorkersSellOnce == ASSUME Serial PROVE WSpec => []SoldOnce
<1>1. SoldOnce /\ SerialJobsInv /\ [WNext]_wvars => SoldOnce'
  <2>1. SUFFICES ASSUME SoldOnce, SerialJobsInv, WNext PROVE SoldOnce'
    BY DEF wvars, SoldOnce
  <2>2. /\ {"ACTIVE"} \in Kinds /\ SInv({"ACTIVE"}) /\ IInv /\ TypeOK /\ WInv
        /\ \A r \in sold : /\ r \in Reservations /\ reservation[r].status # "NONE"
                          /\ listing[reservation[r].l].status = "SOLD"
    BY <2>1 DEF SerialJobsInv, SInv, SoldIsFinal, IInv, TypeOK, LonelyInv, Kinds
  <2>3. ASSUME NEW q \in Requests, ApiStep(q) PROVE SoldOnce'
    <3>1. \A r \in sold : reservation'[r].l = reservation[r].l
      BY <2>2, <2>3, ReservationsStay DEF ApiStep, IInv
    <3>2. CASE sold' = sold
      BY <2>1, <3>1, <3>2 DEF SoldOnce
    <3>3. CASE SaveListing(q) /\ req[q].copy.status = "SOLD"
      <4>1. FreshSave(q, {"ACTIVE"}) /\ sold' = sold \cup {req[q].r} /\ reservation' = reservation
        BY <2>2, <3>3, SaveFacts DEF SaveListing
      <4>2. listing[req[q].l].status = "RESERVED"
        BY <3>3, <4>1 DEF FreshSave
      <4>3. reservation[req[q].r].l = req[q].l
        BY <2>2, <3>3 DEF IInv, LocalsOK, SaveListing, At, Stored
      <4>4. \A r \in sold : reservation[r].l # reservation[req[q].r].l
        BY <2>2, <4>2, <4>3
      <4>5. QED
        BY <2>1, <4>1, <4>4 DEF SoldOnce
    <3>4. QED
      BY <2>3, <3>2, <3>3, ListingSteps DEF ApiStep, SaveListing, CreateListingDraft
  <2>4. ASSUME NEW j \in Jobs, StartJob(j) \/ ProceedJob(j) \/ JobFails(j) PROVE SoldOnce'
    <3>1. sold' = sold /\ \A r \in Reservations : reservation'[r].l = reservation[r].l
      BY <2>2, <2>4 DEF TypeOK, ReservationRec, StartJob, ProceedJob, JobFails, ExpiryStart,
         ModerationStart, ExpirySaveReservation, ExpiryFindListing, ExpirySaveListing,
         ModerationFindListing, ModerationSaveListing, vars
    <3>2. QED
      BY <2>1, <2>2, <3>1 DEF SoldOnce
  <2>5. QED
    BY <2>1, <2>3, <2>4 DEF WNext
<1>2. WInit => SoldOnce
  BY DEF WInit, Init, SoldOnce
<1>3. QED
  BY <1>1, <1>2, SerialJobsInvariance, PTL DEF WSpec

(* Calls and workers move listings along the transition table only.        *)
THEOREM WorkersMoveLegally == ASSUME Serial PROVE WSpec => LegalTransitions
<1>1. SerialJobsInv /\ [WNext]_wvars => [\A l \in Listings : Legal(l)]_vars
  <2>1. SUFFICES ASSUME SerialJobsInv, WNext, NEW l \in Listings PROVE Legal(l) \/ UNCHANGED vars
    BY DEF wvars, vars
  <2>2. ASSUME NEW q \in Requests, ApiStep(q) PROVE Legal(l)
    BY <2>1, <2>2, CallsMoveLegally DEF ApiStep, SerialJobsInv, Kinds
  <2>3. ASSUME NEW j \in Jobs, StartJob(j) \/ ProceedJob(j) \/ JobFails(j) PROVE Legal(l)
    BY <2>1, <2>3, JobsKeepOrder
  <2>4. QED
    BY <2>1, <2>2, <2>3 DEF WNext
<1>2. QED
  BY <1>1, SerialJobsInvariance, PTL DEF WSpec, LegalTransitions, Legal

-----------------------------------------------------------------------------
(* Why no listing stays behind, held for a reservation that has expired:   *)
(* a job that expires the reservation and has not failed is still about to *)
(* put the listing back on sale, and no call is about to save a listing as *)
(* RESERVED for a reservation that has expired meanwhile.                  *)
ForExpired(c) == c.status = "RESERVED" /\ reservation[c.cur].status = "EXPIRED"

Releasing(j, l) == job[j].pc \in {"findReserved", "saveReleased"} /\ job[j].l = l

SavesExpired(q) == req[q].pc = "saveListing" /\ ForExpired(req[q].copy)

ExpiryInv ==
  /\ LonelyInv
  /\ \A q \in Requests : ~SavesExpired(q)
  /\ \A l \in Listings : ForExpired(listing[l]) => \E j \in Jobs : Releasing(j, l)

LEMMA InitExpiryInv == WInit => ExpiryInv
<1>1. WInit => \A q \in Requests : ~SavesExpired(q)
  BY DEF WInit, Init, SavesExpired, Idle, Call
<1>2. WInit => \A l \in Listings : ~ForExpired(listing[l])
  BY DEF WInit, Init, ForExpired, NoListing
<1>3. QED
  BY <1>1, <1>2, InitLonelyInv DEF ExpiryInv

(* The copy of a RESERVED listing that a call is about to save is the one  *)
(* it had, or that of the reservation it has just made.                    *)
LEMMA SavesReserved ==
  ASSUME TypeOK, NEW q \in Requests, Begin(q) \/ Proceed(q),
         req'[q].pc = "saveListing", req'[q].copy.status = "RESERVED"
  PROVE  \/ req'[q] = req[q]
         \/ \E r \in Reservations : AcceptSaveReservation(q, r)
<1>1. \A rec : Goto(q, rec) => req'[q] = rec
  BY DEF Goto, TypeOK
<1>2. ~Return(q)
  BY DEF Return, TypeOK, Idle, Call
<1>3. \A to \in Points : Resume(q, to) => req'[q].pc = to
  BY DEF Resume, TypeOK, Request
<1>4. \A l, s, c, r, u : Goto(q, Saving(l, s, c, r, u)) => s = "RESERVED"
  BY <1>1 DEF Saving, Call
<1>5. \A action \in Actions : Decision(action) # "RESERVED"
  BY DEF Actions, Decision
<1>6. CASE Begin(q)
  <2>1. CASE \E l \in Listings : CreateListingDraft(q, l)
    BY <2>1 DEF CreateListingDraft
  <2>2. CASE \E l \in Listings : PublishListing(q, l)
    BY <1>4, <2>2 DEF PublishListing
  <2>3. CASE \E l \in Listings, action \in Actions : ModerateListing(q, l, action)
    BY <1>4, <1>5, <2>3 DEF ModerateListing
  <2>4. CASE \E l \in Listings, u \in Buyers : SubmitOffer(q, l, u)
    BY <1>1, <2>4 DEF SubmitOffer, Call
  <2>5. CASE \E l \in Listings, u \in Reporters : ReportListing(q, l, u)
    BY <1>1, <2>5 DEF ReportListing, Call
  <2>6. CASE \E o \in Offers : AcceptOffer(q, o)
    BY <1>1, <2>6 DEF AcceptOffer, Call
  <2>7. CASE \E r \in Reservations : CompleteReservation(q, r)
    BY <1>1, <2>7 DEF CompleteReservation, Call
  <2>8. QED
    BY <1>6, <2>1, <2>2, <2>3, <2>4, <2>5, <2>6, <2>7 DEF Begin
<1>7. CASE Proceed(q)
  <2>1. ~SaveListing(q) /\ ~(\E o \in Offers : SubmitOfferSave(q, o))
    BY <1>2 DEF SaveListing, SubmitOfferSave
  <2>2. ~SubmitOfferCheck(q) /\ ~ReportCheck(q) /\ ~ReportSave(q) /\ ~AcceptSaveOffer(q)
        /\ ~CompleteSaveReservation(q)
    BY <1>2, <1>3 DEF SubmitOfferCheck, ReportCheck, ReportSave, AcceptSaveOffer,
       CompleteSaveReservation, Points
  <2>3. ~ReportCount(q) /\ ~CompleteReadListing(q)
    BY <1>2, <1>4 DEF ReportCount, CompleteReadListing
  <2>4. QED
    BY <1>7, <2>1, <2>2, <2>3 DEF Proceed
<1>8. QED
  BY <1>6, <1>7

(* A call that meets no listing held for an expired reservation leaves none.*)
LEMMA CallsHoldNoExpired ==
  ASSUME IInv, NEW q \in Requests, Begin(q) \/ Proceed(q),
         \A l \in Listings : ~ForExpired(listing[l]),
         \A p \in Requests : ~SavesExpired(p)
  PROVE  /\ \A l \in Listings : ~ForExpired(listing[l])'
         /\ \A p \in Requests : ~SavesExpired(p)'
<1>0. TypeOK /\ \A p \in Requests : LocalsOK(p)
  BY DEF IInv
<1>1. ASSUME NEW l \in Listings, NEW c, Sound(l, c), ~ForExpired(c) PROVE ~ForExpired(c)'
  <2>1. CASE c.status # "RESERVED"
    BY <2>1 DEF ForExpired
  <2>2. CASE c.status = "RESERVED"
    <3>1. c.cur \in Reservations /\ reservation[c.cur].status # "NONE"
          /\ reservation[c.cur].status # "EXPIRED"
      BY <1>1, <2>2 DEF Sound, Stored, ForExpired
    <3>2. reservation'[c.cur].status # "EXPIRED"
      BY <1>0, <3>1, ReservationsStay
    <3>3. QED
      BY <3>2 DEF ForExpired
  <2>3. QED
    BY <2>1, <2>2
<1>2. ASSUME NEW p \in Requests, req[p].pc = "saveListing"
      PROVE  ~ForExpired(req[p].copy)' \/ req'[p] # req[p]
  <2>1. req[p].l \in Listings /\ Sound(req[p].l, req[p].copy) /\ ~ForExpired(req[p].copy)
    BY <1>0, <1>2 DEF LocalsOK, SavesExpired
  <2>2. CASE req'[p] = req[p]
    <3>1. reservation[req[p].copy.cur].status # "EXPIRED" \/ req[p].copy.status # "RESERVED"
      BY <2>1 DEF ForExpired
    <3>2. req[p].copy.status = "RESERVED" =>
            req[p].copy.cur \in Reservations /\ reservation[req[p].copy.cur].status # "NONE"
      BY <2>1 DEF Sound, Stored
    <3>3. req[p].copy.status = "RESERVED" => reservation'[req[p].copy.cur].status # "EXPIRED"
      BY <1>0, <3>1, <3>2, ReservationsStay
    <3>4. QED
      BY <2>2, <3>3 DEF ForExpired
  <2>3. QED
    BY <2>2
<1>3. ASSUME NEW p \in Requests PROVE ~SavesExpired(p)'
  <2>1. CASE req'[p] = req[p]
    BY <1>2, <2>1 DEF SavesExpired
  <2>2. CASE p = q /\ \E r \in Reservations : AcceptSaveReservation(q, r)
    <3>1. PICK r \in Reservations : AcceptSaveReservation(q, r)
      BY <2>2
    <3>2. req'[q].copy.cur = r /\ reservation'[r].status = "ACTIVE"
      BY <1>0, <3>1 DEF AcceptSaveReservation, Goto, Saving, Call, TypeOK
    <3>3. QED
      BY <2>2, <3>2 DEF SavesExpired, ForExpired
  <2>3. CASE p # q
    BY <1>0, <2>1, <2>3, OthersWait
  <2>4. QED
    BY <1>0, <2>1, <2>2, <2>3, SavesReserved DEF SavesExpired, ForExpired
<1>4. ASSUME NEW l \in Listings PROVE ~ForExpired(listing[l])'
  <2>1. Sound(l, listing[l]) /\ ~ForExpired(listing[l])
    BY DEF IInv
  <2>2. listing[l].status = "RESERVED" => reservation'[listing[l].cur].status # "EXPIRED"
    <3>1. listing[l].status = "RESERVED" =>
            /\ listing[l].cur \in Reservations /\ reservation[listing[l].cur].status # "NONE"
            /\ reservation[listing[l].cur].status # "EXPIRED"
      BY <2>1 DEF Sound, Stored, ForExpired
    <3>2. QED
      BY <1>0, <3>1, ReservationsStay
  <2>3. CASE listing'[l] = listing[l]
    BY <2>2, <2>3 DEF ForExpired
  <2>4. CASE SaveListing(q) /\ l = req[q].l
    <3>1. listing'[l] = req[q].copy /\ reservation' = reservation /\ req[q].pc = "saveListing"
      BY <1>0, <2>4 DEF SaveListing, At, TypeOK
    <3>2. ~ForExpired(req[q].copy)
      BY <3>1 DEF SavesExpired
    <3>3. QED
      BY <3>1, <3>2 DEF ForExpired
  <2>5. CASE \E k \in Listings : CreateListingDraft(q, k)
    <3>1. listing'[l] = listing[l] \/ listing'[l].status = "DRAFT"
      BY <1>0, <2>5 DEF CreateListingDraft, TypeOK
    <3>2. QED
      BY <2>3, <3>1 DEF ForExpired
  <2>6. SaveListing(q) /\ l # req[q].l => listing'[l] = listing[l]
    BY <1>0 DEF SaveListing, TypeOK
  <2>7. QED
    BY <2>3, <2>4, <2>5, <2>6, ListingSteps
<1>5. QED
  BY <1>3, <1>4

LEMMA NextExpiryInv == Serial /\ ~Failing /\ ExpiryInv /\ [WNext]_wvars => ExpiryInv'
<1> SUFFICES ASSUME Serial, ~Failing, ExpiryInv, [WNext]_wvars PROVE ExpiryInv'
  OBVIOUS
<1>0. LonelyInv /\ LonelyInv' /\ WInv /\ IInv /\ TypeOK
  BY NextLonelyInv DEF ExpiryInv, LonelyInv, WInv, IInv
<1>1. ASSUME NEW q \in Requests, ApiStep(q) PROVE ExpiryInv'
  <2>1. NoJobs
    BY <1>0, <1>1, CallsAlone
  <2>2. \A l \in Listings : ~ForExpired(listing[l])
    BY <2>1 DEF ExpiryInv, NoJobs, Releasing, NoJob, Job
  <2>3. QED
    BY <1>0, <1>1, <2>2, CallsHoldNoExpired DEF ApiStep, ExpiryInv
<1>2. ASSUME NEW j \in Jobs, StartJob(j) \/ ProceedJob(j) \/ JobFails(j) PROVE ExpiryInv'
  <2>1. AllIdle /\ \A i \in Jobs : i # j => job[i] = NoJob
    BY <1>0, <1>2, JobsAlone
  <2>2. req' = req
    BY <1>2 DEF StartJob, ProceedJob, JobFails, ExpiryStart, ModerationStart,
       ExpirySaveReservation, ExpiryFindListing, ExpirySaveListing, ModerationFindListing,
       ModerationSaveListing, vars
  <2>3. \A q \in Requests : ~SavesExpired(q)'
    BY <2>1, <2>2 DEF AllIdle, SavesExpired, Idle, Call
  <2>4. \A l \in Listings : ForExpired(listing[l]) => Releasing(j, l)
    BY <2>1 DEF ExpiryInv, Releasing, NoJob, Job
  <2>5. \A rec : JobGoto(j, rec) => job'[j] = rec
    BY <1>0 DEF JobGoto, WInv
  <2>6. \A to \in JobPoints : JobResume(j, to) => job'[j].pc = to /\ job'[j].l = job[j].l
    BY <1>0 DEF JobResume, WInv, JobRec
  <2>7. ASSUME NEW l \in Listings, ForExpired(listing[l])' PROVE Releasing(j, l)'
    <3>1. CASE StartJob(j)
      <4>1. ~Releasing(j, l) /\ UNCHANGED vars
        <5>1. job[j] = NoJob /\ UNCHANGED vars
          BY <3>1 DEF StartJob, ExpiryStart, ModerationStart, JobFree
        <5>2. QED
          BY <5>1 DEF Releasing, NoJob, Job
      <4>2. QED
        BY <2>4, <2>7, <4>1 DEF vars, ForExpired
    <3>2. CASE ExpirySaveReservation(j)
      <4>1. ~Releasing(j, l) /\ JobOK(j) /\ job[j].pc = "saveExpired"
        BY <1>0, <3>2 DEF ExpirySaveReservation, JobAt, Releasing, WInv
      <4>2. /\ listing' = listing /\ job'[j].pc = "findReserved" /\ job'[j].l = job[j].l
            /\ reservation' = [reservation EXCEPT ![job[j].r].status = "EXPIRED"]
        BY <2>6, <3>2 DEF ExpirySaveReservation, JobPoints
      <4>3. ~ForExpired(listing[l]) /\ listing[l].status = "RESERVED"
        BY <2>4, <2>7, <4>1, <4>2 DEF ForExpired
      <4>4. listing[l].cur \in Reservations /\ reservation[listing[l].cur].l = l
        BY <1>0, <4>3 DEF IInv, Sound, Stored
      <4>5. listing[l].cur = job[j].r
        BY <1>0, <2>7, <4>2, <4>3, <4>4 DEF ForExpired, TypeOK
      <4>6. QED
        BY <4>1, <4>2, <4>4, <4>5 DEF JobOK, Stored, Releasing
    <3>3. CASE ExpiryFindListing(j)
      <4>1. ForExpired(listing[l]) /\ listing[l].status = "RESERVED" /\ Releasing(j, l)
        BY <2>4, <2>7, <3>3 DEF ExpiryFindListing, vars, ForExpired
      <4>2. QED
        BY <2>6, <3>3, <4>1 DEF ExpiryFindListing, Releasing, JobPoints
    <3>4. CASE ExpirySaveListing(j)
      <4>1. /\ listing' = [listing EXCEPT ![job[j].l] = [status |-> "PUBLISHED", cur |-> None]]
            /\ reservation' = reservation
        BY <3>4 DEF ExpirySaveListing
      <4>2. l # job[j].l /\ ForExpired(listing[l])
        BY <1>0, <2>7, <4>1 DEF ForExpired, TypeOK
      <4>3. QED
        BY <2>4, <4>2 DEF Releasing
    <3>5. CASE ModerationFindListing(j) \/ ModerationSaveListing(j)
      <4>1. ~Releasing(j, l) /\ ~ForExpired(listing[l])
        BY <2>4, <3>5 DEF ModerationFindListing, ModerationSaveListing, JobAt, Releasing
      <4>2. reservation' = reservation
        BY <3>5 DEF ModerationFindListing, ModerationSaveListing, vars
      <4>3. listing'[l] = listing[l] \/ listing'[l].status = "QUARANTINED"
        BY <1>0, <3>5 DEF ModerationFindListing, ModerationSaveListing, vars, TypeOK
      <4>4. QED
        BY <2>7, <4>1, <4>2, <4>3 DEF ForExpired
    <3>6. QED
      BY <1>2, <3>1, <3>2, <3>3, <3>4, <3>5 DEF ProceedJob, JobFails
  <2>8. QED
    BY <1>0, <2>3, <2>7 DEF ExpiryInv
<1>3. CASE UNCHANGED wvars
  BY <1>0, <1>3 DEF wvars, ExpiryInv, SavesExpired, ForExpired, Releasing
<1>4. QED
  BY <1>1, <1>2, <1>3 DEF WNext

(* Once everything is idle no listing is held for an expired reservation,  *)
(* if jobs do not fail between their two saves.                            *)
THEOREM ExpiryLeavesNothingHeld ==
  ASSUME Serial, ~Failing PROVE WSpec => []ExpiredHoldsNothing
<1>1. ExpiryInv => ExpiredHoldsNothing
  BY DEF ExpiryInv, ExpiredHoldsNothing, ForExpired, NoJobs, Releasing, NoJob, Job
<1>2. ExpiryInv /\ [WNext]_wvars => ExpiryInv'
  BY NextExpiryInv
<1>3. QED
  BY <1>1, <1>2, InitExpiryInv, PTL DEF WSpec
=============================================================================
