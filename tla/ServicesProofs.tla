----------------------------- MODULE ServicesProofs -----------------------------
(***************************************************************************)
(* What services for students keep for every value of their constants:     *)
(* the pseudonyms of threads, placement guidance, intents and connection   *)
(* requests, and notifications.  They share no state; each has an          *)
(* inductive invariant of its own.                                         *)
(***************************************************************************)
EXTENDS ThreadIdentity, Placement, Connections, Notifications, FiniteSetTheorems, TLAPS

(* Pseudonyms.  A comment, stored or about to be, shows the pseudonym that *)
(* is stored for its author in the thread; and a stored pseudonym stays.   *)
CallOK(r) ==
  /\ r \in Writing
  /\ r.pc # "idle" => r.u \in Students
  /\ r.pc \in {"thread", "saveComment"} => r.p \in Posts
  /\ r.pc = "saveComment" => r.name \in Pseudonyms /\ identities[r.p][r.u] = r.name

IdentityInv ==
  /\ IdentityTypeOK
  /\ \A q \in Writers : CallOK(writing[q])
  /\ \A d \in comments : identities[d.post][d.by] = d.name

-----------------------------------------------------------------------------
(* No pseudonym is replaced by another. *)
LEMMA NamesStay ==
  ASSUME identities \in [Threads -> [Students -> Pseudonyms \cup {None}]],
         NEW t \in Threads, NEW u \in Students, NEW name \in Pseudonyms,
         FindOrCreate(t, u, name)
  PROVE  /\ identities' \in [Threads -> [Students -> Pseudonyms \cup {None}]]
         /\ identities'[t][u] = name
         /\ \A s \in Threads, v \in Students :
              identities[s][v] \in Pseudonyms => identities'[s][v] = identities[s][v]
<1> DEFINE names == [identities[t] EXCEPT ![u] = name]
<1>1. identities' = [identities EXCEPT ![t] = names] BY DEF FindOrCreate
<1>2. /\ names \in [Students -> Pseudonyms \cup {None}]
      /\ \A v \in Students : names[v] = IF v = u THEN name ELSE identities[t][v]
      OBVIOUS
<1> HIDE DEF names
<1>3. \A s \in Threads : identities'[s] = IF s = t THEN names ELSE identities[s]
      BY <1>1
<1>4. identities[t][u] \in {None, name} BY DEF FindOrCreate
<1>5. ASSUME NEW s \in Threads, NEW v \in Students, identities[s][v] \in Pseudonyms
      PROVE  identities'[s][v] = identities[s][v]
      BY <1>2, <1>3, <1>4, <1>5, ThreadIdentityAssumption DEF ThreadIdentityAssumption
<1>6. identities' \in [Threads -> [Students -> Pseudonyms \cup {None}]] BY <1>1, <1>2
<1> QED BY <1>2, <1>3, <1>5, <1>6

(* A step of q to r that replaces no pseudonym keeps the invariant. *)
LEMMA Kept ==
  ASSUME IdentityInv, NEW q \in Writers, NEW r, writing' = [writing EXCEPT ![q] = r],
         identities' \in [Threads -> [Students -> Pseudonyms \cup {None}]],
         \A s \in Threads, v \in Students :
           identities[s][v] \in Pseudonyms => identities'[s][v] = identities[s][v],
         post' \in [Posts -> PostRec],
         CallOK(r)',
         comments' \subseteq CommentRec,
         \A d \in comments' : d \in comments \/ identities'[d.post][d.by] = d.name
  PROVE  IdentityInv'
<1>1. \A p \in Writers : writing'[p] = IF p = q THEN r ELSE writing[p] BY DEF IdentityInv, IdentityTypeOK
<1>2. writing' \in [Writers -> Writing] BY DEF IdentityInv, IdentityTypeOK, CallOK
<1>3. ASSUME NEW p \in Writers PROVE CallOK(writing[p])'
  <2>1. CASE p = q
    <3>1. writing'[p] = r BY <1>1, <2>1
    <3> QED BY <3>1 DEF CallOK
  <2>2. CASE p # q
    <3>1. PICK s : s = writing[p] OBVIOUS
    <3>2. writing'[p] = s /\ CallOK(s) BY <1>1, <2>2, <3>1 DEF IdentityInv
    <3> QED BY <3>2 DEF CallOK, Threads
  <2> QED BY <2>1, <2>2
<1>4. \A d \in comments : identities'[d.post][d.by] = d.name
      BY DEF IdentityInv, IdentityTypeOK, CommentRec, Threads
<1> QED BY <1>2, <1>3, <1>4 DEF IdentityInv, IdentityTypeOK

LEMMA IdentityStep == IdentityInv /\ [IdentityNext]_identityVars => IdentityInv'
<1> SUFFICES ASSUME IdentityInv, [IdentityNext]_identityVars PROVE IdentityInv' OBVIOUS
<1> USE ThreadIdentityAssumption DEF ThreadIdentityAssumption
<1>0. IdentityTypeOK BY DEF IdentityInv
<1>i. CallOK(NotWriting)' BY DEF CallOK, NotWriting, Awaiting, Writing
<1>1. CASE UNCHANGED identityVars
      BY <1>1 DEF identityVars, IdentityInv, IdentityTypeOK, CallOK
<1>2. ASSUME NEW q \in Writers, NEW u \in Students, CreateConfession(q, u) PROVE IdentityInv'
  <2>1. UNCHANGED <<post, comments>> BY <1>2 DEF CreateConfession
  <2>2. ASSUME NEW d \in Drafts, NEW name \in Pseudonyms, FindOrCreate(d, u, name),
               writing' = [writing EXCEPT ![q] = Awaiting("savePost", u, None, name, TRUE)]
        PROVE  IdentityInv'
    <3>1. PICK r : r = Awaiting("savePost", u, None, name, TRUE) OBVIOUS
    <3>2. CallOK(r)' BY <3>1 DEF CallOK, Awaiting, Writing
    <3>3. d \in Threads BY DEF Threads
    <3>4. /\ identities' \in [Threads -> [Students -> Pseudonyms \cup {None}]]
          /\ \A s \in Threads, v \in Students :
               identities[s][v] \in Pseudonyms => identities'[s][v] = identities[s][v]
          BY <1>0, <2>2, <3>3, NamesStay DEF IdentityTypeOK
    <3> QED BY <1>0, <2>1, <2>2, <3>1, <3>2, <3>4, Kept DEF IdentityTypeOK
  <2>3. CASE /\ writing' = [writing EXCEPT ![q] = Awaiting("savePost", u, None, None, FALSE)]
             /\ UNCHANGED identities
    <3>1. PICK r : r = Awaiting("savePost", u, None, None, FALSE) OBVIOUS
    <3>2. CallOK(r)' BY <3>1 DEF CallOK, Awaiting, Writing
    <3> QED BY <1>0, <2>1, <2>3, <3>1, <3>2, Kept DEF IdentityTypeOK
  <2> QED BY <1>2, <2>2, <2>3 DEF CreateConfession
<1>3. ASSUME NEW q \in Writers, NEW p \in Posts, SavePost(q, p) PROVE IdentityInv'
  <2>1. PICK r : r = [by |-> writing[q].u, name |-> writing[q].name, isAnonymous |-> writing[q].isAnonymous]
        OBVIOUS
  <2>2. writing[q] \in Writing BY <1>0 DEF IdentityTypeOK
  <2>3. r \in PostRec BY <2>1, <2>2 DEF Writing, PostRec
  <2>4. post' = [post EXCEPT ![p] = r] /\ UNCHANGED <<identities, comments>>
        /\ writing' = [writing EXCEPT ![q] = NotWriting]
        BY <1>3, <2>1 DEF SavePost
  <2> QED BY <1>0, <1>i, <2>3, <2>4, Kept DEF IdentityTypeOK
<1>4. ASSUME NEW q \in Writers, NEW u \in Students, NEW p \in Posts, AddComment(q, u, p)
      PROVE  IdentityInv'
  <2>1. PICK r : r = Awaiting("thread", u, p, None, FALSE) OBVIOUS
  <2>2. CallOK(r)' BY <2>1 DEF CallOK, Awaiting, Writing
  <2> QED BY <1>0, <1>4, <2>1, <2>2, Kept DEF AddComment, IdentityTypeOK
<1>5. ASSUME NEW q \in Writers, NEW name \in Pseudonyms, NameCommenter(q, name)
      PROVE  IdentityInv'
  <2>1. PICK s : s = writing[q] OBVIOUS
  <2>2. s \in Writing /\ s.u \in Students /\ s.p \in Posts
        BY <1>0, <1>5, <2>1 DEF NameCommenter, IdentityInv, CallOK, IdentityTypeOK
  <2>3. PICK r : r = [s EXCEPT !.pc = "saveComment", !.name = name] OBVIOUS
  <2>4. r \in Writing /\ r.pc = "saveComment" /\ r.name = name /\ r.u = s.u /\ r.p = s.p
        BY <2>2, <2>3 DEF Writing
  <2>5. writing' = [writing EXCEPT ![q] = r] BY <1>0, <1>5, <2>1, <2>3 DEF NameCommenter, IdentityTypeOK
  <2>6. FindOrCreate(s.p, s.u, name) /\ s.p \in Threads
        BY <1>5, <2>1, <2>2 DEF NameCommenter, Threads
  <2>7. /\ identities' \in [Threads -> [Students -> Pseudonyms \cup {None}]]
        /\ identities'[s.p][s.u] = name
        /\ \A t \in Threads, v \in Students :
             identities[t][v] \in Pseudonyms => identities'[t][v] = identities[t][v]
        BY <1>0, <2>2, <2>6, NamesStay DEF IdentityTypeOK
  <2>8. CallOK(r)' BY <2>2, <2>4, <2>7 DEF CallOK
  <2> QED BY <1>0, <1>5, <2>5, <2>7, <2>8, Kept DEF NameCommenter, IdentityTypeOK
<1>6. ASSUME NEW q \in Writers, SaveComment(q) PROVE IdentityInv'
  <2>1. PICK s : s = writing[q] OBVIOUS
  <2>2. s.u \in Students /\ s.p \in Posts /\ s.name \in Pseudonyms
        /\ identities[s.p][s.u] = s.name
        BY <1>6, <2>1 DEF SaveComment, IdentityInv, CallOK
  <2>3. PICK d : d = [by |-> s.u, post |-> s.p, name |-> s.name] OBVIOUS
  <2>4. d \in CommentRec /\ identities[d.post][d.by] = d.name
        BY <2>2, <2>3 DEF CommentRec
  <2>5. comments' = comments \cup {d} /\ UNCHANGED <<identities, post>>
        /\ writing' = [writing EXCEPT ![q] = NotWriting]
        BY <1>6, <2>1, <2>3 DEF SaveComment
  <2> QED BY <1>0, <1>i, <2>4, <2>5, Kept DEF IdentityTypeOK
<1> QED BY <1>1, <1>2, <1>3, <1>4, <1>5, <1>6 DEF IdentityNext

LEMMA IdentityInitially == IdentityInit => IdentityInv
<1> SUFFICES ASSUME IdentityInit PROVE IdentityInv OBVIOUS
<1>1. NoPost \in PostRec BY DEF NoPost, PostRec
<1>2. CallOK(NotWriting) BY DEF CallOK, NotWriting, Awaiting, Writing
<1> QED BY <1>1, <1>2 DEF IdentityInit, IdentityInv, IdentityTypeOK, CallOK

LEMMA IdentityInvariance == IdentitySpec => []IdentityInv
BY IdentityInitially, IdentityStep, PTL DEF IdentitySpec

(* Identities, posts, comments and calls stay well formed.                 *)
THEOREM IdentityTypeCorrect == IdentitySpec => []IdentityTypeOK
<1>1. IdentityInv => IdentityTypeOK BY DEF IdentityInv
<1> QED BY <1>1, IdentityInvariance, PTL

(* However addComment calls interleave, all comments of a student in one   *)
(* thread show one name: findOrCreatePseudonym stores a name before its    *)
(* first await and never replaces it.                                      *)
THEOREM CommentersHaveOneName == IdentitySpec => []OneNamePerCommenter
<1>1. IdentityInv => OneNamePerCommenter BY DEF IdentityInv, OneNamePerCommenter
<1> QED BY <1>1, IdentityInvariance, PTL

-----------------------------------------------------------------------------
(* Placement guidance.  A slug finds a company that has it, and the        *)
(* company of an experience is stored; while submissions do not overlap no *)
(* other company has the slug, and otherwise the companies of a slug and   *)
(* the calls about to store one more are no more than the calls.           *)
ItemRec == [company: Companies \cup {NoCompany},
            status: {"NONE", "APPROVED", "ACTIVE", "FLAGGED", "DELETED"}, reports: Nat]
SubmissionRec == [at: {"idle", "company", "experience"}, slug: Slugs \cup {NoSlug},
                  company: Companies \cup {NoCompany}]

PlacementTypeOK ==
  /\ company \in [Companies -> Slugs \cup {NoSlug}]
  /\ slugIndex \in [Slugs -> Companies \cup {NoCompany}]
  /\ item \in [Items -> ItemRec]
  /\ sinceApproval \in [Items -> Nat]
  /\ submission \in [Submissions -> SubmissionRec]
  /\ rush \in BOOLEAN

StoredCompany(c) == c \in Companies /\ company[c] # NoSlug

SlugsFind ==
  /\ \A s \in Slugs : slugIndex[s] # NoCompany => company[slugIndex[s]] = s
  /\ \A c \in Companies : company[c] # NoSlug => slugIndex[company[c]] # NoCompany
  /\ ~rush => \A c \in Companies : company[c] # NoSlug => slugIndex[company[c]] = c
SubmissionsOK ==
  /\ ~rush => \A p, q \in Submissions : submission[p].at # "idle" /\ submission[q].at # "idle" => p = q
  /\ \A p \in Submissions :
       /\ submission[p].at = "company" =>
            submission[p].slug \in Slugs /\ (~rush => slugIndex[submission[p].slug] = NoCompany)
       /\ submission[p].at = "experience" => StoredCompany(submission[p].company)
ExperiencesOK == \A e \in Experiences : item[e] # NoItem => StoredCompany(item[e].company)
ReportsOK ==
  \A i \in Items :
    /\ item[i].reports >= sinceApproval[i]
    /\ item[i].status = "NONE" => sinceApproval[i] = 0

Creating(s) == {p \in Submissions : submission[p].at = "company" /\ submission[p].slug = s}
NamesakesOK ==
  \A s \in Slugs :
    Cardinality(Namesakes(s)) + Cardinality(Creating(s)) <= Cardinality(Submissions)

CompanyInv == SlugsFind /\ SubmissionsOK /\ ExperiencesOK /\ NamesakesOK
PlacementInv == PlacementTypeOK /\ CompanyInv /\ ReportsOK /\ ThirdReportFlags

(* The two sets the bound adds up are finite, and fewer calls count less. *)
LEMMA NoMoreThanSubmissions ==
  /\ Cardinality(Submissions) \in Nat
  /\ \A s : /\ IsFiniteSet(Namesakes(s)) /\ Cardinality(Namesakes(s)) \in Nat
           /\ IsFiniteSet(Creating(s)) /\ Cardinality(Creating(s)) \in Nat
           /\ Cardinality(Creating(s)) <= Cardinality(Submissions)
<1> USE PlacementAssumption DEF PlacementAssumption
<1>1. \A s : Namesakes(s) \in SUBSET Companies /\ Creating(s) \in SUBSET Submissions
      BY DEF Namesakes, Creating
<1> QED BY <1>1, FS_Subset, FS_CardinalityType

(* A step that stores no company and starts no creation keeps the bound. *)
LEMMA NamesakesKept ==
  ASSUME NamesakesOK, UNCHANGED company,
         \A q \in Submissions : submission'[q].at # "company" \/ submission'[q] = submission[q]
  PROVE  NamesakesOK'
<1> SUFFICES ASSUME NEW s \in Slugs
             PROVE  Cardinality(Namesakes(s))' + Cardinality(Creating(s))' <= Cardinality(Submissions)
    BY DEF NamesakesOK
<1>1. Namesakes(s)' = Namesakes(s) BY DEF Namesakes
<1>2. Creating(s)' \in SUBSET Creating(s) BY DEF Creating
<1>3. Cardinality(Creating(s))' <= Cardinality(Creating(s)) /\ Cardinality(Creating(s))' \in Nat
      BY <1>2, NoMoreThanSubmissions, FS_Subset, FS_CardinalityType
<1> QED BY <1>1, <1>3, NoMoreThanSubmissions DEF NamesakesOK

LEMMA PlacementInitially == PlacementInit => PlacementInv
<1> SUFFICES ASSUME PlacementInit PROVE PlacementInv OBVIOUS
<1>1. NoItem \in ItemRec /\ NoSubmission \in SubmissionRec
      BY DEF NoItem, ItemRec, NoSubmission, SubmissionRec
<1>2. PlacementTypeOK BY <1>1 DEF PlacementInit, PlacementTypeOK
<1>3. SlugsFind /\ SubmissionsOK /\ ExperiencesOK
      BY DEF PlacementInit, SlugsFind, SubmissionsOK, ExperiencesOK, NoSubmission, Items
<1>5. NamesakesOK
  <2>1. \A s \in Slugs : Namesakes(s) = {} /\ Creating(s) = {}
        BY PlacementAssumption
        DEF PlacementAssumption, PlacementInit, Namesakes, Creating, NoSubmission
  <2> QED BY <2>1, FS_EmptySet, NoMoreThanSubmissions DEF NamesakesOK
<1>4. ReportsOK /\ ThirdReportFlags
      BY DEF PlacementInit, ReportsOK, ThirdReportFlags, Stored, NoItem
<1> QED BY <1>2, <1>3, <1>4, <1>5 DEF PlacementInv, CompanyInv

LEMMA SubmitKeeps ==
  ASSUME PlacementInv, NEW p \in Submissions, NEW s \in Slugs, SubmitExperience(p, s)
  PROVE  PlacementInv'
<1> USE PlacementAssumption DEF PlacementAssumption, PlacementInv
<1> DEFINE r == [at |-> IF slugIndex[s] = NoCompany THEN "company" ELSE "experience",
                 slug |-> s, company |-> slugIndex[s]]
<1>1. r \in SubmissionRec BY DEF PlacementTypeOK, SubmissionRec
<1>2. /\ r.slug = s /\ r.company = slugIndex[s]
      /\ r.at = "company" => slugIndex[s] = NoCompany
      /\ r.at = "experience" => slugIndex[s] # NoCompany
      OBVIOUS
<1>3. submission' = [submission EXCEPT ![p] = r] BY DEF SubmitExperience
<1> HIDE DEF r
<1>4. \A q \in Submissions : submission'[q] = IF q = p THEN r ELSE submission[q]
      BY <1>3 DEF PlacementTypeOK
<1>5. PlacementTypeOK' BY <1>1, <1>3 DEF SubmitExperience, PlacementTypeOK
<1>6. SlugsFind' /\ ExperiencesOK'
      BY DEF SubmitExperience, CompanyInv, SlugsFind, ExperiencesOK, StoredCompany
<1>7. SubmissionsOK'
  <2>1. ~rush => \A q \in Submissions : submission[q].at = "idle" BY DEF SubmitExperience
  <2>2. slugIndex[s] # NoCompany => StoredCompany(slugIndex[s])
        BY DEF PlacementTypeOK, CompanyInv, SlugsFind, StoredCompany
  <2> QED BY <1>2, <1>4, <2>1, <2>2 DEF SubmitExperience, CompanyInv, SubmissionsOK, StoredCompany
<1>8. ReportsOK' /\ ThirdReportFlags' BY DEF SubmitExperience, ReportsOK, ThirdReportFlags, Stored
<1>9. NamesakesOK'
  <2>1. CASE slugIndex[s] # NoCompany
    <3>1. \A q \in Submissions : submission'[q].at # "company" \/ submission'[q] = submission[q]
          BY <1>2, <1>4, <2>1
    <3> QED BY <3>1, NamesakesKept DEF SubmitExperience, CompanyInv
  <2>2. ASSUME slugIndex[s] = NoCompany, NEW t \in Slugs
        PROVE  Cardinality(Namesakes(t))' + Cardinality(Creating(t))' <= Cardinality(Submissions)
    <3>1. Namesakes(t)' = Namesakes(t) BY DEF Namesakes, SubmitExperience
    <3>2. CASE t = s
      <4>1. Namesakes(t)' = {} BY <2>2, <3>1, <3>2 DEF Namesakes, CompanyInv, SlugsFind
      <4>2. Creating(t)' \in SUBSET Submissions BY DEF Creating
      <4>3. Cardinality(Creating(t))' <= Cardinality(Submissions) /\ Cardinality(Creating(t))' \in Nat
            BY <4>2, FS_Subset, FS_CardinalityType
      <4> QED BY <4>1, <4>3, FS_EmptySet, NoMoreThanSubmissions
    <3>3. CASE t # s
      <4>1. Creating(t)' \in SUBSET Creating(t) BY <1>2, <1>4, <3>3 DEF Creating
      <4>2. Cardinality(Creating(t))' <= Cardinality(Creating(t)) /\ Cardinality(Creating(t))' \in Nat
            BY <4>1, NoMoreThanSubmissions, FS_Subset, FS_CardinalityType
      <4> QED BY <3>1, <4>2, NoMoreThanSubmissions DEF CompanyInv, NamesakesOK
    <3> QED BY <3>2, <3>3
  <2> QED BY <2>1, <2>2 DEF NamesakesOK
<1> QED BY <1>5, <1>6, <1>7, <1>8, <1>9 DEF CompanyInv

LEMMA CreateCompanyKeeps ==
  ASSUME PlacementInv, NEW p \in Submissions, NEW c \in Companies, CreateCompany(p, c)
  PROVE  PlacementInv'
<1> USE PlacementAssumption DEF PlacementAssumption, PlacementInv
<1>1. PICK s : s = submission[p].slug OBVIOUS
<1>2. s \in Slugs /\ (~rush => slugIndex[s] = NoCompany)
      BY <1>1 DEF CreateCompany, CompanyInv, SubmissionsOK
<1>3. PICK r : r = [submission[p] EXCEPT !.at = "experience", !.company = c] OBVIOUS
<1>4. r \in SubmissionRec /\ r.at = "experience" /\ r.company = c
      BY <1>3 DEF PlacementTypeOK, SubmissionRec
<1>5. submission' = [submission EXCEPT ![p] = r]
      BY <1>3 DEF CreateCompany, PlacementTypeOK
<1>6. \A q \in Submissions : submission'[q] = IF q = p THEN r ELSE submission[q]
      BY <1>5 DEF PlacementTypeOK
<1>7. /\ \A d \in Companies : company'[d] = IF d = c THEN s ELSE company[d]
      /\ \A t \in Slugs : slugIndex'[t] = IF t = s THEN c ELSE slugIndex[t]
      BY <1>1, <1>2 DEF CreateCompany, PlacementTypeOK
<1>8. PlacementTypeOK' BY <1>1, <1>2, <1>4, <1>5 DEF CreateCompany, PlacementTypeOK
<1>9. \A d : StoredCompany(d) => StoredCompany(d)' BY <1>2, <1>7 DEF StoredCompany
<1>10. StoredCompany(c)' BY <1>2, <1>7 DEF StoredCompany
<1>11. ASSUME NEW t \in Slugs, slugIndex'[t] # NoCompany PROVE company'[slugIndex'[t]] = t
  <2>1. CASE t = s BY <1>7, <2>1
  <2>2. CASE t # s
    <3>1. slugIndex'[t] = slugIndex[t] /\ slugIndex[t] \in Companies /\ company[slugIndex[t]] = t
          BY <1>7, <1>11, <2>2 DEF PlacementTypeOK, CompanyInv, SlugsFind
    <3>2. slugIndex[t] # c BY <3>1 DEF CreateCompany
    <3> QED BY <1>7, <3>1, <3>2
  <2> QED BY <2>1, <2>2
<1>12. ASSUME ~rush, NEW d \in Companies, company'[d] # NoSlug PROVE slugIndex'[company'[d]] = d
  <2>1. CASE d = c BY <1>2, <1>7, <2>1
  <2>2. CASE d # c
    <3>1. company'[d] = company[d] /\ company[d] \in Slugs /\ slugIndex[company[d]] = d
          BY <1>7, <1>12, <2>2 DEF PlacementTypeOK, CompanyInv, SlugsFind
    <3>2. company[d] # s BY <1>2, <1>12, <3>1
    <3> QED BY <1>7, <3>1, <3>2
  <2> QED BY <2>1, <2>2
<1>i. ASSUME NEW d \in Companies, company'[d] # NoSlug PROVE slugIndex'[company'[d]] # NoCompany
  <2>1. CASE d = c BY <1>2, <1>7, <2>1
  <2>2. CASE d # c
    <3>1. company'[d] = company[d] /\ company[d] \in Slugs /\ slugIndex[company[d]] # NoCompany
          BY <1>7, <1>i, <2>2 DEF PlacementTypeOK, CompanyInv, SlugsFind
    <3> QED BY <1>7, <3>1
  <2> QED BY <2>1, <2>2
<1>13. SlugsFind' BY <1>11, <1>12, <1>i DEF CreateCompany, SlugsFind
<1>14. SubmissionsOK'
  <2>1. ~rush => \A q \in Submissions : q # p => submission[q].at = "idle"
        BY DEF CreateCompany, CompanyInv, SubmissionsOK
  <2>2. rush' = rush BY DEF CreateCompany
  <2>3. ASSUME NEW q \in Submissions, submission'[q].at = "experience"
        PROVE  StoredCompany(submission[q].company)'
    <3>1. CASE q = p BY <1>4, <1>6, <1>10, <3>1
    <3>2. CASE q # p
      <4>1. PICK d : d = submission[q].company OBVIOUS
      <4>2. StoredCompany(d) BY <1>6, <2>3, <3>2, <4>1 DEF CompanyInv, SubmissionsOK
      <4>3. submission'[q].company = d BY <1>6, <3>2, <4>1
      <4> QED BY <1>9, <4>2, <4>3
    <3> QED BY <3>1, <3>2
  <2>4. \A q \in Submissions : submission'[q].at = "company" => q # p /\ submission'[q] = submission[q]
        BY <1>4, <1>6
  <2>5. ~rush => \A q \in Submissions : submission'[q].at # "idle" => q = p BY <1>6, <2>1
  <2>6. ASSUME NEW q \in Submissions, submission'[q].at = "company"
        PROVE  submission'[q].slug \in Slugs /\ (~rush => slugIndex'[submission'[q].slug] = NoCompany)
        BY <2>1, <2>4, <2>6 DEF CompanyInv, SubmissionsOK
  <2> QED BY <2>2, <2>3, <2>5, <2>6 DEF SubmissionsOK
<1>15. ExperiencesOK' BY <1>9 DEF CreateCompany, CompanyInv, ExperiencesOK
<1>16. ReportsOK' /\ ThirdReportFlags' BY DEF CreateCompany, ReportsOK, ThirdReportFlags, Stored
<1>17. ASSUME NEW t \in Slugs
       PROVE  Cardinality(Namesakes(t))' + Cardinality(Creating(t))' <= Cardinality(Submissions)
  <2>1. CASE t # s
    <3>1. \A d \in Companies : company'[d] = t <=> company[d] = t
          BY <1>7, <2>1 DEF CreateCompany
    <3>2. \A q \in Submissions :
            submission'[q].at = "company" /\ submission'[q].slug = t
              <=> submission[q].at = "company" /\ submission[q].slug = t
          BY <1>1, <1>4, <1>6, <2>1
    <3>3. Namesakes(t)' = Namesakes(t) BY <3>1 DEF Namesakes
    <3>4. Creating(t)' = Creating(t) BY <3>2 DEF Creating
    <3> QED BY <3>3, <3>4 DEF CompanyInv, NamesakesOK
  <2>2. CASE t = s
    <3>1. Namesakes(t)' = Namesakes(t) \cup {c} /\ c \notin Namesakes(t)
          BY <1>2, <1>7, <2>2 DEF Namesakes, CreateCompany
    <3>2. Creating(t)' = Creating(t) \ {p} /\ p \in Creating(t)
          BY <1>1, <1>4, <1>6, <2>2 DEF Creating, CreateCompany
    <3>3. PICK N, C : N = Namesakes(t) /\ C = Creating(t) OBVIOUS
    <3>4. IsFiniteSet(N) /\ IsFiniteSet(C) BY <3>3, NoMoreThanSubmissions
    <3>5. Cardinality(N \cup {c}) = Cardinality(N) + 1 BY <3>1, <3>3, <3>4, FS_AddElement
    <3>6. Cardinality(C \ {p}) = Cardinality(C) - 1 BY <3>2, <3>3, <3>4, FS_RemoveElement
    <3>7. /\ Cardinality(Namesakes(t))' = Cardinality(Namesakes(t)) + 1
          /\ Cardinality(Creating(t))' = Cardinality(Creating(t)) - 1
          BY <3>1, <3>2, <3>3, <3>5, <3>6
    <3> QED BY <3>7, NoMoreThanSubmissions DEF CompanyInv, NamesakesOK
  <2> QED BY <2>1, <2>2
<1>18. NamesakesOK' BY <1>17 DEF NamesakesOK
<1> QED BY <1>8, <1>13, <1>14, <1>15, <1>16, <1>18 DEF CompanyInv

(* A step that writes one item. *)
LEMMA ItemWritten ==
  ASSUME PlacementInv, NEW i \in Items, NEW new \in ItemRec, NEW n \in Nat,
         UNCHANGED <<company, slugIndex, rush>>,
         item' = [item EXCEPT ![i] = new], sinceApproval' = [sinceApproval EXCEPT ![i] = n],
         i \in Experiences => StoredCompany(new.company),
         new.status # "NONE", new.reports >= n,
         n >= FlagAt => new.status \in {"FLAGGED", "DELETED"},
         submission' \in [Submissions -> SubmissionRec],
         \A q \in Submissions : submission'[q].at = "idle" \/ submission'[q] = submission[q]
  PROVE  PlacementInv'
<1> USE DEF PlacementInv
<1>1. /\ \A j \in Items : item'[j] = IF j = i THEN new ELSE item[j]
      /\ \A j \in Items : sinceApproval'[j] = IF j = i THEN n ELSE sinceApproval[j]
      BY DEF PlacementTypeOK
<1>2. PlacementTypeOK' BY DEF PlacementTypeOK
<1>3. SlugsFind' BY DEF CompanyInv, SlugsFind
<1>4. SubmissionsOK' BY DEF CompanyInv, SubmissionsOK, StoredCompany
<1>5. ExperiencesOK' BY <1>1 DEF CompanyInv, ExperiencesOK, StoredCompany, Items
<1>6. ReportsOK' BY <1>1 DEF ReportsOK
<1>7. ThirdReportFlags' BY <1>1 DEF ThirdReportFlags, Stored
<1>8. NamesakesOK' BY NamesakesKept DEF CompanyInv
<1> QED BY <1>2, <1>3, <1>4, <1>5, <1>6, <1>7, <1>8 DEF CompanyInv

LEMMA PlacementStep == PlacementInv /\ [PlacementNext]_placementVars => PlacementInv'
<1> SUFFICES ASSUME PlacementInv, [PlacementNext]_placementVars PROVE PlacementInv' OBVIOUS
<1> USE PlacementAssumption DEF PlacementAssumption
<1>k. \A i \in Items : /\ item[i] \in ItemRec /\ sinceApproval[i] \in Nat
                       /\ sinceApproval = [sinceApproval EXCEPT ![i] = sinceApproval[i]]
      BY DEF PlacementInv, PlacementTypeOK
<1>t. PlacementTypeOK BY DEF PlacementInv
<1>0. ~(0 >= FlagAt) BY DEF FlagAt
<1>n. \A i \in Items : item[i] = NoItem => sinceApproval[i] = 0 BY DEF PlacementInv, ReportsOK, NoItem
<1>s. \A q \in Submissions : submission[q] \in SubmissionRec BY <1>t DEF PlacementTypeOK
<1>i. submission \in [Submissions -> SubmissionRec] BY <1>t DEF PlacementTypeOK
<1>c. \A e \in Experiences : Stored(e) => StoredCompany(item[e].company)
      BY DEF PlacementInv, CompanyInv, ExperiencesOK, Stored, NoItem
<1>1. CASE UNCHANGED placementVars
  <2> USE <1>1 DEF placementVars, PlacementInv
  <2>1. PlacementTypeOK' BY DEF PlacementTypeOK
  <2>4. NamesakesOK' BY NamesakesKept DEF CompanyInv
  <2>2. CompanyInv' BY <2>4 DEF CompanyInv, SlugsFind, SubmissionsOK, ExperiencesOK, StoredCompany
  <2>3. ReportsOK' /\ ThirdReportFlags' BY DEF ReportsOK, ThirdReportFlags, Stored
  <2> QED BY <2>1, <2>2, <2>3
<1>2. ASSUME NEW p \in Submissions, NEW e \in Experiences, CreateExperience(p, e)
      PROVE  PlacementInv'
  <2>0. e \in Items BY DEF Items
  <2>1. PICK new : new = [company |-> submission[p].company, status |-> "APPROVED", reports |-> 0]
        OBVIOUS
  <2>2. new \in ItemRec /\ new.company = submission[p].company /\ new.status = "APPROVED"
        /\ new.reports = 0
        BY <1>s, <2>1 DEF SubmissionRec, ItemRec
  <2>3. StoredCompany(new.company) BY <1>2, <2>2 DEF CreateExperience, PlacementInv, CompanyInv, SubmissionsOK
  <2>4. sinceApproval[e] = 0 BY <1>2, <1>n, <2>0 DEF CreateExperience
  <2>5. submission' = [submission EXCEPT ![p] = NoSubmission] BY <1>2 DEF CreateExperience
  <2>6. NoSubmission \in SubmissionRec /\ NoSubmission.at = "idle" BY DEF NoSubmission, SubmissionRec
  <2>7. /\ submission' \in [Submissions -> SubmissionRec]
        /\ \A q \in Submissions : submission'[q].at = "idle" \/ submission'[q] = submission[q]
        BY <1>i, <2>5, <2>6
  <2>8. item' = [item EXCEPT ![e] = new] /\ sinceApproval' = [sinceApproval EXCEPT ![e] = 0]
        /\ UNCHANGED <<company, slugIndex, rush>>
        BY <1>2, <1>k, <2>0, <2>1, <2>4 DEF CreateExperience
  <2>9. new.reports >= 0 /\ new.status # "NONE" /\ 0 \in Nat BY <2>2
  <2> QED BY <1>0, <2>0, <2>2, <2>3, <2>7, <2>8, <2>9, ItemWritten
<1>3. ASSUME NEW q \in Questions, CreateQuestion(q) PROVE PlacementInv'
  <2>0. q \in Items /\ q \notin Experiences BY DEF Items
  <2>1. PICK new : new = [item[q] EXCEPT !.status = "ACTIVE"] OBVIOUS
  <2>2. new \in ItemRec /\ new.status = "ACTIVE" /\ new.reports \in Nat BY <1>k, <2>0, <2>1 DEF ItemRec
  <2>3. sinceApproval[q] = 0 BY <1>3, <1>n, <2>0 DEF CreateQuestion
  <2>4. item' = [item EXCEPT ![q] = new] /\ sinceApproval' = [sinceApproval EXCEPT ![q] = 0]
        /\ UNCHANGED <<company, slugIndex, rush, submission>>
        BY <1>3, <1>k, <1>t, <2>0, <2>1, <2>3 DEF CreateQuestion, PlacementTypeOK
  <2>5. new.reports >= 0 /\ new.status # "NONE" /\ 0 \in Nat BY <2>2
  <2>6. \A p \in Submissions : submission'[p].at = "idle" \/ submission'[p] = submission[p] BY <2>4
  <2>7. submission' \in [Submissions -> SubmissionRec] BY <1>i, <2>4
  <2> QED BY <1>0, <2>0, <2>2, <2>4, <2>5, <2>6, <2>7, ItemWritten
<1>4. ASSUME NEW i \in Items, ReportItem(i) \/ DeleteItem(i) \/ ApproveItem(i) \/ FlagItem(i)
      PROVE  PlacementInv'
  <2>0. Stored(i) /\ UNCHANGED <<company, slugIndex, rush, submission>>
        BY <1>4 DEF ReportItem, DeleteItem, ApproveItem, FlagItem
  <2>1. /\ item[i] \in ItemRec /\ sinceApproval[i] \in Nat
        /\ item[i].reports >= sinceApproval[i] /\ item[i].status # "NONE"
        /\ sinceApproval[i] >= FlagAt => item[i].status = "FLAGGED"
        BY <1>k, <2>0 DEF PlacementInv, ReportsOK, ThirdReportFlags, Stored
  <2>2. i \in Experiences => StoredCompany(item[i].company) BY <1>c, <2>0
  <2>3. ASSUME NEW new \in ItemRec, NEW n \in Nat, new.company = item[i].company,
               new.status # "NONE", new.reports >= n,
               n >= FlagAt => new.status \in {"FLAGGED", "DELETED"},
               item' = [item EXCEPT ![i] = new], sinceApproval' = [sinceApproval EXCEPT ![i] = n]
        PROVE  PlacementInv'
        BY <1>i, <2>0, <2>2, <2>3, ItemWritten
  <2>r. /\ Reported(i) \in ItemRec /\ Reported(i).company = item[i].company
        /\ Reported(i).reports = item[i].reports + 1
        /\ Reported(i).status = IF item[i].reports + 1 >= FlagAt THEN "FLAGGED" ELSE item[i].status
    <3>1. PICK new : new = item[i] OBVIOUS
    <3>2. Reported(i) = [new EXCEPT !.reports = new.reports + 1,
                                    !.status = IF new.reports + 1 >= FlagAt THEN "FLAGGED" ELSE new.status]
          BY <2>1, <3>1 DEF Reported, ItemRec
    <3>3. PICK to : to = IF new.reports + 1 >= FlagAt THEN "FLAGGED" ELSE new.status OBVIOUS
    <3>4. to \in {"NONE", "APPROVED", "ACTIVE", "FLAGGED", "DELETED"} /\ new.reports \in Nat
          /\ new.company \in Companies \cup {NoCompany}
          BY <2>1, <3>1, <3>3 DEF ItemRec
    <3>5. Reported(i) = [company |-> new.company, status |-> to, reports |-> new.reports + 1]
          BY <2>1, <3>1, <3>2, <3>3 DEF ItemRec
    <3> QED BY <3>1, <3>3, <3>4, <3>5 DEF ItemRec
  <2>4. CASE ReportItem(i)
    <3>1. item' = [item EXCEPT ![i] = Reported(i)]
          /\ sinceApproval' = [sinceApproval EXCEPT ![i] = sinceApproval[i] + 1]
          BY <1>t, <2>4 DEF ReportItem, PlacementTypeOK
    <3>2. sinceApproval[i] + 1 >= FlagAt => item[i].reports + 1 >= FlagAt
          BY <2>1 DEF ItemRec, FlagAt
    <3>3. Reported(i).reports >= sinceApproval[i] + 1 /\ sinceApproval[i] + 1 \in Nat
          /\ Reported(i).status # "NONE"
          BY <2>1, <2>r DEF ItemRec
    <3> QED BY <2>1, <2>3, <2>r, <3>1, <3>2, <3>3
  <2>5. CASE DeleteItem(i)
    <3>1. PICK new : new = [item[i] EXCEPT !.status = "DELETED"] OBVIOUS
    <3>2. new \in ItemRec /\ new.company = item[i].company /\ new.status = "DELETED"
          /\ new.reports = item[i].reports
          BY <2>1, <3>1 DEF ItemRec
    <3>3. item' = [item EXCEPT ![i] = new]
          /\ sinceApproval' = [sinceApproval EXCEPT ![i] = sinceApproval[i]]
          BY <1>k, <1>t, <2>5, <3>1 DEF DeleteItem, PlacementTypeOK
    <3> QED BY <2>1, <2>3, <3>2, <3>3
  <2>6. CASE ApproveItem(i)
    <3>1. PICK new : new = [item[i] EXCEPT !.status = Approved(i),
                                           !.reports = IF i \in Questions THEN 0 ELSE @] OBVIOUS
    <3>2. new \in ItemRec /\ new.company = item[i].company /\ new.status \in {"APPROVED", "ACTIVE"}
          BY <2>1, <3>1 DEF ItemRec, Approved
    <3>3. item' = [item EXCEPT ![i] = new] /\ sinceApproval' = [sinceApproval EXCEPT ![i] = 0]
          BY <1>t, <2>6, <3>1 DEF ApproveItem, PlacementTypeOK
    <3>4. new.reports >= 0 BY <3>2 DEF ItemRec
    <3> QED BY <1>0, <2>3, <3>2, <3>3, <3>4
  <2>7. CASE FlagItem(i)
    <3>1. sinceApproval' = [sinceApproval EXCEPT ![i] = sinceApproval[i]]
          BY <1>k, <2>7 DEF FlagItem
    <3>2. CASE i \in Questions
      <4>1. item' = [item EXCEPT ![i] = Reported(i)] BY <2>7, <3>2 DEF FlagItem
      <4>2. Reported(i).status # "NONE" /\ (sinceApproval[i] >= FlagAt => Reported(i).status = "FLAGGED")
            BY <2>1, <2>r
      <4>3. Reported(i).reports >= sinceApproval[i] BY <2>1, <2>r DEF ItemRec
      <4> QED BY <2>1, <2>3, <2>r, <3>1, <4>1, <4>2, <4>3
    <3>3. CASE i \notin Questions
      <4>1. PICK new : new = [item[i] EXCEPT !.status = "FLAGGED"] OBVIOUS
      <4>2. new \in ItemRec /\ new.company = item[i].company /\ new.status = "FLAGGED"
            /\ new.reports = item[i].reports
            BY <2>1, <4>1 DEF ItemRec
      <4>3. item' = [item EXCEPT ![i] = new] BY <1>t, <2>7, <3>3, <4>1 DEF FlagItem, PlacementTypeOK
      <4> QED BY <2>1, <2>3, <3>1, <4>2, <4>3
    <3> QED BY <3>2, <3>3
  <2> QED BY <1>4, <2>4, <2>5, <2>6, <2>7
<1> QED BY <1>1, <1>2, <1>3, <1>4, SubmitKeeps, CreateCompanyKeeps DEF PlacementNext

(* The company of a stored experience is stored and its slug finds a       *)
(* company; a slug has no more companies than calls of submitExperience    *)
(* can be in flight, and one when they do not overlap.                     *)
THEOREM CompaniesAreFound == PlacementSpec => []CompanyIsFound
<1>1. ASSUME PlacementInv PROVE CompanyIsFound
  <2> USE <1>1 DEF PlacementInv, CompanyInv
  <2>1. \A e \in Experiences : item[e] # NoItem => Finds(company[item[e].company])
        BY DEF PlacementTypeOK, SlugsFind, ExperiencesOK, StoredCompany, Finds
  <2>2. ASSUME NEW s \in Slugs
        PROVE  Cardinality(Namesakes(s)) <= IF rush THEN Cardinality(Submissions) ELSE 1
    <3>1. CASE rush BY <3>1, NoMoreThanSubmissions DEF NamesakesOK
    <3>2. CASE ~rush
      <4>1. Namesakes(s) \in SUBSET {slugIndex[s]}
            BY <3>2, PlacementAssumption DEF PlacementAssumption, SlugsFind, Namesakes
      <4>2. IsFiniteSet({slugIndex[s]}) /\ Cardinality({slugIndex[s]}) = 1 BY FS_Singleton
      <4>3. Cardinality(Namesakes(s)) <= Cardinality({slugIndex[s]}) BY <4>1, <4>2, FS_Subset
      <4> QED BY <3>2, <4>2, <4>3
    <3> QED BY <3>1, <3>2
  <2> QED BY <2>1, <2>2 DEF CompanyIsFound
<1> QED BY <1>1, PlacementInitially, PlacementStep, PTL DEF PlacementSpec

(* The third report since an item was last approved brings it to the       *)
(* moderation queue (incrementReportCount, moderateExperience).            *)
THEOREM ThirdReportsFlag == PlacementSpec => []ThirdReportFlags
<1>1. PlacementInv => ThirdReportFlags BY DEF PlacementInv
<1> QED BY <1>1, PlacementInitially, PlacementStep, PTL DEF PlacementSpec

-----------------------------------------------------------------------------
(* Intents and connection requests.  A call that is about to write a row   *)
(* read one of its versions, and when that is the version the row still    *)
(* has, what it read is the row.                                           *)
RowRec == [between: SUBSET Profiles, revision: Nat,
           status: {"NONE", "PENDING", "ACCEPTED", "REJECTED",
                    "ACTIVE", "PAUSED", "FULFILLED", "ARCHIVED"}]
DecidingRec == [at: {"idle", "update", "connect"}, id: Rows, copy: RowRec, expected: Nat,
                status: {"NONE", "PENDING", "ACCEPTED", "REJECTED",
                         "ACTIVE", "PAUSED", "FULFILLED", "ARCHIVED"}]

ConnectionsTypeOK ==
  /\ now \in Moments
  /\ row \in [Rows -> RowRec]
  /\ deciding \in [Deciders -> DecidingRec]

CopyIsVersion(r) ==
  r.at = "update" /\ r.id \notin clashed =>
    /\ row[r.id] # NoRow
    /\ r.copy.revision <= row[r.id].revision
    /\ r.copy.revision = row[r.id].revision => r.copy = row[r.id]

ConnectionsInv ==
  ConnectionsTypeOK /\ \A q \in Deciders : CopyIsVersion(deciding[q])

LEMMA ConnectionsInitially == ConnectionsInit => ConnectionsInv
<1> USE ConnectionsAssumption DEF ConnectionsAssumption
<1>1. NoRow \in RowRec BY DEF NoRow, RowRec
<1>2. 0 \in Moments /\ <<"intent", 0>> \in Rows BY DEF Moments, Rows
<1>3. NotDeciding \in DecidingRec /\ NotDeciding.at = "idle"
      BY <1>1, <1>2 DEF NotDeciding, DecidingRec
<1> QED BY <1>1, <1>2, <1>3 DEF ConnectionsInit, ConnectionsInv, ConnectionsTypeOK, CopyIsVersion

(* A step after which a call is done, or only connects. *)
LEMMA DecidingEnds ==
  ASSUME ConnectionsInv, NEW q \in Deciders, NEW r \in DecidingRec, r.at # "update",
         deciding' = [deciding EXCEPT ![q] = r],
         now' \in Moments, row' = row, clashed \subseteq clashed'
  PROVE  ConnectionsInv'
<1>1. \A p \in Deciders : deciding'[p] = IF p = q THEN r ELSE deciding[p]
      BY DEF ConnectionsInv, ConnectionsTypeOK
<1>2. ConnectionsTypeOK' BY DEF ConnectionsInv, ConnectionsTypeOK
<1>3. ASSUME NEW p \in Deciders PROVE CopyIsVersion(deciding[p])'
      BY <1>1 DEF ConnectionsInv, ConnectionsTypeOK, DecidingRec, CopyIsVersion
<1> QED BY <1>2, <1>3 DEF ConnectionsInv

(* A new row: no call that read what was stored there before counts. *)
LEMMA RowCreated ==
  ASSUME ConnectionsInv, NEW id \in Rows, NEW r \in RowRec,
         row' = [row EXCEPT ![id] = r], UNCHANGED <<now, deciding>>,
         clashed \subseteq clashed', row[id] = NoRow \/ id \in clashed'
  PROVE  ConnectionsInv'
<1>1. \A i \in Rows : row'[i] = IF i = id THEN r ELSE row[i]
      BY DEF ConnectionsInv, ConnectionsTypeOK
<1>2. ConnectionsTypeOK' BY DEF ConnectionsInv, ConnectionsTypeOK
<1>3. ASSUME NEW p \in Deciders PROVE CopyIsVersion(deciding[p])'
  <2>1. deciding[p].id \in Rows /\ CopyIsVersion(deciding[p])
        BY DEF ConnectionsInv, ConnectionsTypeOK, DecidingRec
  <2> QED BY <1>1, <2>1 DEF CopyIsVersion
<1> QED BY <1>2, <1>3 DEF ConnectionsInv

(* A row is written from the copy of it, when the id is not used twice. *)
LEMMA WritesItsCopy ==
  ASSUME ConnectionsInv, NEW q \in Deciders, UpdateRow(q), deciding[q].id \notin clashed,
         deciding[q].expected <= deciding[q].copy.revision
  PROVE  deciding[q].copy = row[deciding[q].id]
<1>1. deciding[q] \in DecidingRec /\ CopyIsVersion(deciding[q]) /\ row[deciding[q].id] \in RowRec
      BY DEF ConnectionsInv, ConnectionsTypeOK, DecidingRec
<1>2. deciding[q].copy.revision \in Nat /\ row[deciding[q].id].revision \in Nat
      BY <1>1 DEF DecidingRec, RowRec
<1> QED BY <1>1, <1>2 DEF UpdateRow, CopyIsVersion

LEMMA UpdateKeeps ==
  ASSUME ConnectionsInv, NEW q \in Deciders, UpdateRow(q)
  PROVE  ConnectionsInv'
<1>1. PICK d : d = deciding[q] OBVIOUS
<1>2. /\ d \in DecidingRec /\ d.id \in Rows /\ d.copy \in RowRec
      /\ d.expected \in Nat /\ d.copy.revision \in Nat
      BY <1>1 DEF ConnectionsInv, ConnectionsTypeOK, DecidingRec, RowRec
<1>3. PICK r : r = [d.copy EXCEPT !.status = d.status, !.revision = d.expected + 1] OBVIOUS
<1>4. PICK e : e = IF d.status = "ACCEPTED" THEN [d EXCEPT !.at = "connect"] ELSE NotDeciding
      OBVIOUS
<1>5. r \in RowRec /\ r.revision = d.expected + 1 /\ r # NoRow
  <2>1. d.copy.between \in SUBSET Profiles
        /\ d.status \in {"NONE", "PENDING", "ACCEPTED", "REJECTED",
                         "ACTIVE", "PAUSED", "FULFILLED", "ARCHIVED"}
        BY <1>2 DEF RowRec, DecidingRec
  <2>2. r = [between |-> d.copy.between, status |-> d.status, revision |-> d.expected + 1]
        BY <1>2, <1>3 DEF RowRec
  <2>3. r \in RowRec /\ r.revision = d.expected + 1 BY <1>2, <2>1, <2>2 DEF RowRec
  <2> QED BY <1>2, <2>3 DEF NoRow
<1>6. NotDeciding \in DecidingRec /\ NotDeciding.at = "idle"
      BY ConnectionsAssumption
      DEF ConnectionsAssumption, NotDeciding, DecidingRec, NoRow, RowRec, Rows, Moments
<1>7. e \in DecidingRec /\ e.at # "update"
      BY <1>2, <1>4, <1>6 DEF DecidingRec
<1>8. /\ row' = [row EXCEPT ![d.id] = r] /\ deciding' = [deciding EXCEPT ![q] = e]
      /\ UNCHANGED <<now, clashed>> /\ row[d.id].revision = d.expected
      BY <1>1, <1>3, <1>4 DEF UpdateRow, ConnectionsInv, ConnectionsTypeOK
<1>9. /\ \A i \in Rows : row'[i] = IF i = d.id THEN r ELSE row[i]
      /\ \A p \in Deciders : deciding'[p] = IF p = q THEN e ELSE deciding[p]
      BY <1>8 DEF ConnectionsInv, ConnectionsTypeOK
<1>10. ConnectionsTypeOK' BY <1>5, <1>7, <1>8 DEF ConnectionsInv, ConnectionsTypeOK
<1>11. ASSUME NEW p \in Deciders PROVE CopyIsVersion(deciding[p])'
  <2>1. CASE p = q BY <1>7, <1>9, <2>1 DEF CopyIsVersion
  <2>2. CASE p # q
    <3>1. PICK o : o = deciding[p] OBVIOUS
    <3>2. deciding'[p] = o /\ o.id \in Rows /\ CopyIsVersion(o) /\ o \in DecidingRec
          BY <1>9, <2>2, <3>1 DEF ConnectionsInv, ConnectionsTypeOK, DecidingRec
    <3>3. o.copy.revision \in Nat BY <3>2 DEF DecidingRec, RowRec
    <3>4. CASE o.id = d.id
      <4>1. o.at = "update" /\ o.id \notin clashed =>
              o.copy.revision <= d.expected
            BY <1>8, <3>2, <3>4 DEF CopyIsVersion
      <4>2. row'[o.id] = r BY <1>9, <3>2, <3>4
      <4>3. o.at = "update" /\ o.id \notin clashed =>
              /\ row'[o.id] # NoRow
              /\ o.copy.revision <= row'[o.id].revision /\ o.copy.revision # row'[o.id].revision
            BY <1>2, <1>5, <3>3, <4>1, <4>2
      <4> QED BY <1>8, <3>2, <4>3 DEF CopyIsVersion
    <3>5. CASE o.id # d.id
      <4>1. row'[o.id] = row[o.id] BY <1>9, <3>2, <3>5
      <4> QED BY <1>8, <3>2, <4>1 DEF CopyIsVersion
    <3> QED BY <3>4, <3>5
  <2> QED BY <2>1, <2>2
<1> QED BY <1>10, <1>11 DEF ConnectionsInv

LEMMA FindRowKeeps ==
  ASSUME ConnectionsInv, NEW q \in Deciders, NEW id \in Rows, NEW expected \in 1..MaxRevision,
         NEW status \in Outcomes(id), FindRow(q, id, status, expected)
  PROVE  ConnectionsInv'
<1>1. PICK r : r = [at |-> "update", id |-> id, copy |-> row[id], status |-> status,
                    expected |-> expected]
      OBVIOUS
<1>2. row[id] \in RowRec /\ row[id].revision \in Nat
      BY DEF ConnectionsInv, ConnectionsTypeOK, RowRec
<1>3. r \in DecidingRec
  <2>1. status \in {"NONE", "ACCEPTED", "REJECTED", "ACTIVE", "PAUSED", "FULFILLED", "ARCHIVED", "PENDING"}
        BY <1>2 DEF Outcomes, RowRec
  <2> QED BY <1>1, <1>2, <2>1, ConnectionsAssumption DEF ConnectionsAssumption, DecidingRec
<1>4. deciding' = [deciding EXCEPT ![q] = r] /\ UNCHANGED <<now, row, clashed>>
      BY <1>1 DEF FindRow
<1>5. \A p \in Deciders : deciding'[p] = IF p = q THEN r ELSE deciding[p]
      BY <1>4 DEF ConnectionsInv, ConnectionsTypeOK
<1>6. ConnectionsTypeOK' BY <1>3, <1>4 DEF ConnectionsInv, ConnectionsTypeOK
<1>7. row[id] # NoRow BY DEF FindRow
<1>8. ASSUME NEW p \in Deciders PROVE CopyIsVersion(deciding[p])'
  <2>1. CASE p = q
    <3>1. r.id = id /\ r.copy = row[id] BY <1>1
    <3> QED BY <1>2, <1>4, <1>5, <1>7, <2>1, <3>1 DEF CopyIsVersion
  <2>2. CASE p # q BY <1>4, <1>5, <2>2 DEF ConnectionsInv, CopyIsVersion
  <2> QED BY <2>1, <2>2
<1> QED BY <1>6, <1>8 DEF ConnectionsInv

LEMMA ConnectionsStep == ConnectionsInv /\ [ConnectionsNext]_connectionVars => ConnectionsInv'
<1> SUFFICES ASSUME ConnectionsInv, [ConnectionsNext]_connectionVars PROVE ConnectionsInv' OBVIOUS
<1> USE ConnectionsAssumption DEF ConnectionsAssumption
<1>0. now \in Moments BY DEF ConnectionsInv, ConnectionsTypeOK
<1>d. NotDeciding \in DecidingRec /\ NotDeciding.at # "update"
      BY DEF NotDeciding, DecidingRec, NoRow, RowRec, Rows, Moments
<1>1. CASE UNCHANGED connectionVars
      BY <1>1 DEF connectionVars, ConnectionsInv, ConnectionsTypeOK, CopyIsVersion
<1>2. CASE MillisecondPasses
  <2>1. now' \in Moments /\ UNCHANGED <<row, deciding, clashed>> BY <1>0, <1>2 DEF MillisecondPasses, Moments
  <2> QED BY <2>1 DEF ConnectionsInv, ConnectionsTypeOK, CopyIsVersion
<1>s. ASSUME NEW id \in Rows, NEW profiles \in SUBSET Profiles, NEW status \in {"ACTIVE", "PENDING"},
             StoreNew(id, profiles, status)
      PROVE  ConnectionsInv'
  <2>1. [between |-> profiles, status |-> status, revision |-> 1] \in RowRec BY DEF RowRec
  <2>2. clashed \subseteq clashed' /\ (row[id] = NoRow \/ id \in clashed') BY <1>s DEF StoreNew
  <2> QED BY <1>s, <2>1, <2>2, RowCreated DEF StoreNew
<1>3. ASSUME NEW owner \in Profiles, CreateIntent(owner) PROVE ConnectionsInv'
  <2>1. <<"intent", now>> \in Rows BY <1>0 DEF Rows
  <2> QED BY <1>3, <1>s, <2>1 DEF CreateIntent
<1>4. ASSUME NEW sender \in Profiles, NEW receiver \in Profiles,
             SendConnectionRequest(sender, receiver)
      PROVE  ConnectionsInv'
  <2>1. <<"request", now>> \in Rows BY <1>0 DEF Rows
  <2> QED BY <1>4, <1>s, <2>1 DEF SendConnectionRequest
<1>5. ASSUME NEW q \in Deciders, Conflict(q) PROVE ConnectionsInv'
      BY <1>0, <1>5, <1>d, DecidingEnds DEF Conflict
<1>6. ASSUME NEW q \in Deciders, SaveConnection(q) PROVE ConnectionsInv'
  <2>1. clashed \subseteq clashed' BY <1>6 DEF SaveConnection
  <2> QED BY <1>0, <1>6, <1>d, <2>1, DecidingEnds DEF SaveConnection
<1> QED BY <1>1, <1>2, <1>3, <1>4, <1>5, <1>6, UpdateKeeps, FindRowKeeps DEF ConnectionsNext

(* A decision that is written started from the row it replaces, unless its *)
(* caller named a version newer than the one it read or two rows had one   *)
(* id: the version check of update after its await.                        *)
THEOREM DecisionsAreKept == ConnectionsSpec => NoDecisionLost
<1> DEFINE A == \A q \in Deciders :
                  /\ deciding[q].at = "update" /\ deciding'[q] # deciding[q]
                  /\ row'[deciding[q].id] # row[deciding[q].id] /\ deciding[q].id \notin clashed
                  /\ deciding[q].expected <= deciding[q].copy.revision
                  => deciding[q].copy = row[deciding[q].id]
<1>1. ConnectionsInv /\ [ConnectionsNext]_connectionVars => [A]_connectionVars
  <2> SUFFICES ASSUME ConnectionsInv, ConnectionsNext, NEW q \in Deciders,
                      deciding'[q] # deciding[q], row'[deciding[q].id] # row[deciding[q].id],
                      deciding[q].id \notin clashed,
                      deciding[q].expected <= deciding[q].copy.revision
               PROVE  deciding[q].copy = row[deciding[q].id]
      OBVIOUS
  <2>1. PICK p \in Deciders : UpdateRow(p)
        BY DEF ConnectionsNext, MillisecondPasses, CreateIntent, SendConnectionRequest, StoreNew,
               FindRow, Conflict, SaveConnection
  <2>2. p = q BY <2>1 DEF UpdateRow, ConnectionsInv, ConnectionsTypeOK
  <2> QED BY <2>1, <2>2, WritesItsCopy
<1> QED BY <1>1, ConnectionsInitially, ConnectionsStep, PTL DEF ConnectionsSpec, NoDecisionLost

-----------------------------------------------------------------------------
(* The notifications of a recipient.  No two unread notices have one key,  *)
(* and nothing makes one unread again.                                     *)
NoticeRec == [status: {"none", "unread", "read", "deleted"}, key: Keys \cup {NoKey}, count: Nat]
PublishingRec == [at: {"idle", "rules", "create", "enqueue", "answer"},
                  type: EventTypes \cup {"none"}, key: Keys \cup {NoKey}, urgent: BOOLEAN,
                  notice: Notices \cup {NoNotice}]
ReadingRec == [notice: Notices, to: {"read", "deleted"}]

NotificationsTypeOK ==
  /\ notice \in [Notices -> NoticeRec]
  /\ publishing \in [Publishers -> PublishingRec]
  /\ reading \in [Readers -> ReadingRec \cup {NotReading}]

OneUnreadPerKey ==
  \A n, o \in Notices :
    n # o /\ notice[n].key = notice[o].key /\ notice[n].status = "unread" /\ notice[o].status = "unread"
      => notice[n].key = NoKey

NotificationsInv == NotificationsTypeOK /\ OneUnreadPerKey

(* What a step may do to the notices. *)
CountsOnlyUnread == \A n \in Notices : notice'[n].count > notice[n].count => notice'[n].status = "unread"
NoticesOK == notice' \in [Notices -> NoticeRec] /\ OneUnreadPerKey' /\ CountsOnlyUnread

LEMMA NoticesKept == NotificationsInv /\ UNCHANGED notice => NoticesOK
<1> SUFFICES ASSUME NotificationsInv, UNCHANGED notice PROVE NoticesOK OBVIOUS
<1>1. \A n \in Notices : notice[n].count \in Nat
      BY DEF NotificationsInv, NotificationsTypeOK, NoticeRec
<1> QED BY <1>1 DEF NoticesOK, NotificationsInv, NotificationsTypeOK, OneUnreadPerKey, CountsOnlyUnread

(* createNotification adds to the unread notice of the key, or there is    *)
(* none yet.                                                               *)
LEMMA CreateKeeps ==
  ASSUME NotificationsInv, NEW key \in Keys \cup {NoKey}, NEW n \in Notices, Create(key, n)
  PROVE  NoticesOK
<1>0. \A m \in Notices : notice[m] \in NoticeRec /\ notice[m].count \in Nat
      BY DEF NotificationsInv, NotificationsTypeOK, NoticeRec
<1>1. CASE SameUnread(key) # {}
  <2>1. PICK r : r = [notice[n] EXCEPT !.count = notice[n].count + 1] OBVIOUS
  <2>2. notice' = [notice EXCEPT ![n] = r]
        BY <1>1, <2>1 DEF Create, NotificationsInv, NotificationsTypeOK
  <2>3. notice[n].status = "unread" BY <1>1 DEF Create, SameUnread
  <2>4. r \in NoticeRec /\ r.status = notice[n].status /\ r.key = notice[n].key
        BY <1>0, <2>1 DEF NoticeRec
  <2>5. \A m \in Notices : notice'[m] = IF m = n THEN r ELSE notice[m]
        BY <2>2 DEF NotificationsInv, NotificationsTypeOK
  <2>6. CountsOnlyUnread BY <1>0, <2>3, <2>4, <2>5 DEF CountsOnlyUnread
  <2>7. OneUnreadPerKey' BY <2>4, <2>5 DEF NotificationsInv, OneUnreadPerKey
  <2> QED BY <2>2, <2>4, <2>6, <2>7 DEF NoticesOK, NotificationsInv, NotificationsTypeOK
<1>2. CASE SameUnread(key) = {}
  <2>1. PICK r : r = [status |-> "unread", key |-> key, count |-> 1] OBVIOUS
  <2>2. notice' = [notice EXCEPT ![n] = r]
        BY <1>2, <2>1 DEF Create, NotificationsInv, NotificationsTypeOK
  <2>3. r \in NoticeRec /\ r.status = "unread" /\ r.key = key BY <2>1 DEF NoticeRec
  <2>4. \A m \in Notices : notice'[m] = IF m = n THEN r ELSE notice[m]
        BY <2>2 DEF NotificationsInv, NotificationsTypeOK
  <2>5. \A m \in Notices : notice[m].status = "unread" /\ notice[m].key = key => key = NoKey
        BY <1>2 DEF SameUnread, Shown
  <2>6. OneUnreadPerKey' BY <2>3, <2>4, <2>5 DEF NotificationsInv, OneUnreadPerKey
  <2>7. CountsOnlyUnread BY <1>0, <2>3, <2>4 DEF CountsOnlyUnread
  <2> QED BY <2>2, <2>3, <2>6, <2>7 DEF NoticesOK, NotificationsInv, NotificationsTypeOK
<1> QED BY <1>1, <1>2

(* Notices that keep key and count, and are unread only if they were. *)
LEMMA MarkingKeeps ==
  ASSUME NotificationsInv, notice' \in [Notices -> NoticeRec],
         \A n \in Notices : /\ notice'[n].key = notice[n].key /\ notice'[n].count = notice[n].count
                            /\ notice'[n].status = "unread" => notice[n].status = "unread"
  PROVE  NoticesOK
<1>1. \A n \in Notices : notice[n].count \in Nat
      BY DEF NotificationsInv, NotificationsTypeOK, NoticeRec
<1> QED BY <1>1 DEF NoticesOK, NotificationsInv, OneUnreadPerKey, CountsOnlyUnread

LEMMA NotificationsStep ==
  NotificationsInv /\ NotificationsNext => NotificationsInv' /\ CountsOnlyUnread
<1> SUFFICES ASSUME NotificationsInv, NotificationsNext PROVE NotificationsInv' /\ CountsOnlyUnread
    OBVIOUS
<1>t. /\ notice \in [Notices -> NoticeRec]
      /\ publishing \in [Publishers -> PublishingRec]
      /\ reading \in [Readers -> ReadingRec \cup {NotReading}]
      BY DEF NotificationsInv, NotificationsTypeOK
<1>p. NotPublishing \in PublishingRec BY DEF NotPublishing, PublishingRec
<1>s. ASSUME NoticesOK,
             publishing' \in [Publishers -> PublishingRec],
             reading' \in [Readers -> ReadingRec \cup {NotReading}]
      PROVE  NotificationsInv' /\ CountsOnlyUnread
      BY <1>s DEF NoticesOK, NotificationsInv, NotificationsTypeOK
<1>k. UNCHANGED notice => NoticesOK BY NoticesKept
<1>g. ASSUME NEW p \in Publishers, NEW point \in {"create", "enqueue", "answer"}, Goes(p, point)
      PROVE  publishing' \in [Publishers -> PublishingRec]
  <2>1. [publishing[p] EXCEPT !.at = point] \in PublishingRec BY <1>t DEF PublishingRec
  <2> QED BY <1>t, <1>g, <2>1 DEF Goes
<1>1. ASSUME NEW p \in Publishers, NEW type \in EventTypes, NEW key \in Keys \cup {NoKey},
             NEW urgent \in BOOLEAN, PublishNotification(p, type, key, urgent)
      PROVE  NotificationsInv' /\ CountsOnlyUnread
  <2>1. PICK at \in {"answer", "rules"} :
          publishing' = [publishing EXCEPT ![p] =
            [at |-> at, type |-> type, key |-> key, urgent |-> urgent, notice |-> NoNotice]]
        BY <1>1 DEF PublishNotification
  <2>2. [at |-> at, type |-> type, key |-> key, urgent |-> urgent, notice |-> NoNotice] \in PublishingRec
        BY DEF PublishingRec
  <2> QED BY <1>1, <1>k, <1>s, <1>t, <2>1, <2>2 DEF PublishNotification
<1>2. ASSUME NEW p \in Publishers, CheckRules(p) \/ EnqueueDelivery(p)
      PROVE  NotificationsInv' /\ CountsOnlyUnread
  <2>1. PICK point \in {"create", "enqueue", "answer"} : Goes(p, point)
        BY <1>2 DEF CheckRules, EnqueueDelivery
  <2> QED BY <1>2, <1>g, <1>k, <1>s, <1>t, <2>1 DEF CheckRules, EnqueueDelivery
<1>3. ASSUME NEW p \in Publishers, Answer(p) PROVE NotificationsInv' /\ CountsOnlyUnread
      BY <1>3, <1>k, <1>p, <1>s, <1>t DEF Answer
<1>4. ASSUME NEW p \in Publishers, NEW n \in Notices, CreateNotification(p, n) \/ AnswerWithNew(p, n)
      PROVE  NotificationsInv' /\ CountsOnlyUnread
  <2>1. publishing[p] \in PublishingRec /\ publishing[p].key \in Keys \cup {NoKey}
        BY <1>t DEF PublishingRec
  <2>2. NoticesOK BY <1>4, <2>1, CreateKeeps DEF CreateNotification, AnswerWithNew
  <2>3. PICK r : r = [publishing[p] EXCEPT !.at = "enqueue", !.notice = n] OBVIOUS
  <2>4. r \in PublishingRec BY <2>1, <2>3 DEF PublishingRec
  <2>5. publishing' \in [Publishers -> PublishingRec]
        BY <1>4, <1>p, <1>t, <2>3, <2>4 DEF CreateNotification, AnswerWithNew
  <2> QED BY <1>4, <1>s, <1>t, <2>2, <2>5 DEF CreateNotification, AnswerWithNew
<1>5. ASSUME NEW r \in Readers, NEW n \in Notices, NEW to \in {"read", "deleted"},
             FindNotification(r, n, to)
      PROVE  NotificationsInv' /\ CountsOnlyUnread
  <2>1. [notice |-> n, to |-> to] \in ReadingRec BY DEF ReadingRec
  <2> QED BY <1>5, <1>k, <1>s, <1>t, <2>1 DEF FindNotification
<1>6. ASSUME NEW r \in Readers, Mark(r) PROVE NotificationsInv' /\ CountsOnlyUnread
  <2>1. PICK n \in Notices : n = reading[r].notice BY <1>6, <1>t DEF Mark, ReadingRec
  <2>2. reading[r].to \in {"read", "deleted"} BY <1>6, <1>t DEF Mark, ReadingRec
  <2>3. PICK to \in {"read", "deleted"} :
          to = IF notice[n].status = "deleted" THEN "deleted" ELSE reading[r].to
        BY <2>2
  <2>4. PICK d : d = [notice[n] EXCEPT !.status = to] OBVIOUS
  <2>5. /\ d \in NoticeRec /\ d.status = to
        /\ d.key = notice[n].key /\ d.count = notice[n].count
        BY <1>t, <2>4 DEF NoticeRec
  <2>6. notice' = [notice EXCEPT ![n] = d] BY <1>6, <1>t, <2>1, <2>3, <2>4 DEF Mark
  <2>7. \A m \in Notices : notice'[m] = IF m = n THEN d ELSE notice[m] BY <1>t, <2>6
  <2>8. NoticesOK BY <1>t, <2>5, <2>6, <2>7, MarkingKeeps
  <2> QED BY <1>6, <1>s, <1>t, <2>8 DEF Mark
<1>7. CASE MarkAllAsRead
  <2>1. \A n \in Notices : [notice[n] EXCEPT !.status = "read"] \in NoticeRec
                           /\ [notice[n] EXCEPT !.status = "read"].key = notice[n].key
                           /\ [notice[n] EXCEPT !.status = "read"].count = notice[n].count
                           /\ [notice[n] EXCEPT !.status = "read"].status = "read"
        BY <1>t DEF NoticeRec
  <2>2. \A n \in Notices : notice'[n] = IF notice[n].status = "unread"
                                        THEN [notice[n] EXCEPT !.status = "read"] ELSE notice[n]
        BY <1>7 DEF MarkAllAsRead
  <2>3. notice' \in [Notices -> NoticeRec] BY <1>7, <1>t, <2>1 DEF MarkAllAsRead
  <2>4. NoticesOK BY <2>1, <2>2, <2>3, MarkingKeeps
  <2> QED BY <1>7, <1>s, <1>t, <2>4 DEF MarkAllAsRead
<1>8. ASSUME NEW muted \in BOOLEAN, NEW only \in SUBSET EventTypes, UpsertPreferences(muted, only)
      PROVE  NotificationsInv' /\ CountsOnlyUnread
      BY <1>8, <1>k, <1>s, <1>t DEF UpsertPreferences
<1>9. ASSUME NEW types \in SUBSET EventTypes, UpsertUserRules(types)
      PROVE  NotificationsInv' /\ CountsOnlyUnread
      BY <1>9, <1>k, <1>s, <1>t DEF UpsertUserRules
<1> QED BY <1>1, <1>2, <1>3, <1>4, <1>5, <1>6, <1>7, <1>8, <1>9 DEF NotificationsNext

LEMMA NotificationsInitially == NotificationsInit => NotificationsInv
BY DEF NotificationsInit, NotificationsInv, NotificationsTypeOK, OneUnreadPerKey, NoSuchNotice,
       NotPublishing, NoticeRec, PublishingRec

(* Unread notices of one key are aggregated, and nothing is added to a     *)
(* notice that was read or deleted: createNotification finds and writes    *)
(* the notice without an await, whatever the recipient does meanwhile.     *)
THEOREM UnreadIsAggregated == NotificationsSpec => UnreadAggregates
<1> DEFINE A == /\ \A n, o \in Shown' :
                     n # o /\ notice'[n].key = notice'[o].key
                     /\ notice'[n].status = "unread" /\ notice'[o].status = "unread"
                     => notice'[n].key = NoKey
                /\ \A n \in Notices : notice'[n].count > notice[n].count => notice'[n].status = "unread"
<1>1. NotificationsInv /\ [NotificationsNext]_noticeVars => NotificationsInv'
  <2>1. CASE UNCHANGED noticeVars
        BY <2>1 DEF noticeVars, NotificationsInv, NotificationsTypeOK, OneUnreadPerKey
  <2> QED BY <2>1, NotificationsStep
<1>2. NotificationsInv /\ [NotificationsNext]_noticeVars => [A]_noticeVars
  <2> SUFFICES ASSUME NotificationsInv, NotificationsNext PROVE A OBVIOUS
  <2>1. OneUnreadPerKey' /\ CountsOnlyUnread BY NotificationsStep DEF NotificationsInv
  <2> QED BY <2>1 DEF OneUnreadPerKey, CountsOnlyUnread, Shown
<1> QED BY <1>1, <1>2, NotificationsInitially, PTL DEF NotificationsSpec, UnreadAggregates
=============================================================================
