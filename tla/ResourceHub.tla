------------------------------ MODULE ResourceHub ------------------------------
(***************************************************************************)
(* The academic resource hub (modules/academic-resource-hub): resources,   *)
(* their versions and files, the counters of a resource, and collections.  *)
(* The repositories hand out copies, and a save overwrites the whole       *)
(* entity.  A step is the code from one await to the next; an await whose  *)
(* read nothing can change (that a resource is stored, which it stays) is  *)
(* joined to the one before it.                                            *)
(***************************************************************************)
EXTENDS Naturals, Sequences, FiniteSets, FiniteSetsExt

CONSTANTS
  Resources, Versions, Hashes, Collections,
  Visits,           \* calls that can be in flight at once
  QuarantineAt,     \* reports that quarantine a resource: 3
  CollectionLimit,  \* resources in a collection: 50
  MaxBegun,         \* bound: calls of a behaviour
  Nothing

ASSUME ResourceHubAssumption ==
  /\ QuarantineAt \in Nat \ {0} /\ CollectionLimit \in Nat \ {0}
  /\ MaxBegun \in Nat
  /\ IsFiniteSet(Versions) /\ IsFiniteSet(Visits)
  /\ Nothing \notin Resources \cup Versions \cup Hashes

VARIABLES
  resource,     \* resource[r]: its status and current version
  version,      \* version[v]: whose it is, its number, the hash of its file
  counts,       \* counts[r]: its statistics, zero as long as there is no row
  shelf,        \* shelf[c]: the positions given in collection c, in turn
  visit,        \* the calls in flight
  begun,        \* calls so far
  crowded,      \* whether calls of this behaviour overlap
  decided,      \* history: a person set the status since the last report
  quarantined   \* history: stored as QUARANTINED at some time

hubVars == <<resource, version, counts, shelf, visit, begun, crowded, decided, quarantined>>

NoResource == [status |-> "NONE", current |-> Nothing]
NoVersion  == [of |-> Nothing, number |-> 0, hash |-> Nothing]
NoCounts   == [reports |-> 0, uses |-> 0]
NoVisit    == [pc |-> "none"]

HubInit ==
  /\ resource = [r \in Resources |-> NoResource]
  /\ version = [v \in Versions |-> NoVersion]
  /\ counts = [r \in Resources |-> NoCounts]
  /\ shelf = [c \in Collections |-> <<>>]
  /\ visit = [q \in Visits |-> NoVisit]
  /\ begun = 0
  /\ crowded \in BOOLEAN
  /\ decided = {} /\ quarantined = {}

Catalogued(r) == resource[r] # NoResource
VersionsOf(r) == {v \in Versions : version[v].of = r}
NumbersOf(r)  == {version[v].number : v \in VersionsOf(r)}
NobodyVisits  == \A q \in Visits : visit[q] = NoVisit

(* A call starts. *)
Enters(q) == /\ visit[q] = NoVisit
             /\ crowded \/ NobodyVisits
             /\ begun < MaxBegun
             /\ begun' = begun + 1
Stay(q, locals) == visit' = [visit EXCEPT ![q] = locals]
Leave(q)        == Stay(q, NoVisit)

(* A new id: which of the unused ones makes no difference. *)
Fresh(unused) == IF unused = {} THEN Nothing ELSE CHOOSE id \in unused : TRUE

(* What save is about to overwrite resource r with; person: by decision.   *)
Saving(r, copy, person) == [pc |-> "save", r |-> r, copy |-> copy, person |-> person]

SaveResource(q) ==
  LET r == visit[q].r IN
  /\ visit[q].pc = "save"
  /\ resource' = [resource EXCEPT ![r] = visit[q].copy]
  /\ decided' = IF visit[q].person THEN decided \cup {r} ELSE decided
  /\ quarantined' = IF visit[q].copy.status = "QUARANTINED"
                      THEN quarantined \cup {r} ELSE quarantined
  /\ Leave(q)
  /\ UNCHANGED <<version, counts, shelf, begun, crowded>>

-----------------------------------------------------------------------------
(* CreateAcademicResource: a file whose hash is known is refused; then the *)
(* first version, its file, the resource and its counters are saved.       *)
CreateResource(q, h) ==
  /\ Enters(q)
  /\ \A v \in Versions : version[v].hash # h
  /\ Stay(q, [pc |-> "first", hash |-> h])
  /\ UNCHANGED <<resource, version, counts, shelf, crowded, decided, quarantined>>

SaveFirstVersion(q, r, v) ==
  /\ visit[q].pc = "first"
  /\ r = Fresh({s \in Resources : VersionsOf(s) = {}})
  /\ v = Fresh({w \in Versions : version[w] = NoVersion})
  /\ version' = [version EXCEPT ![v] = [of |-> r, number |-> 1, hash |-> Nothing]]
  /\ Stay(q, [pc |-> "file", r |-> r, v |-> v, hash |-> visit[q].hash])
  /\ UNCHANGED <<resource, counts, shelf, begun, crowded, decided, quarantined>>

SaveFile(q) ==
  LET call == visit[q] IN
  /\ call.pc = "file"
  /\ version' = [version EXCEPT ![call.v].hash = call.hash]
  /\ Stay(q, [pc |-> "resource", r |-> call.r, v |-> call.v])
  /\ UNCHANGED <<resource, counts, shelf, begun, crowded, decided, quarantined>>

SaveNewResource(q) ==
  LET call == visit[q] IN
  /\ call.pc = "resource"
  /\ resource' = [resource EXCEPT ![call.r] = [status |-> "APPROVED", current |-> call.v]]
  /\ Stay(q, [pc |-> "stats", r |-> call.r])
  /\ UNCHANGED <<version, counts, shelf, begun, crowded, decided, quarantined>>

(* Reports and downloads of a resource saved a moment ago are forgotten.   *)
SaveInitialStats(q) ==
  /\ visit[q].pc = "stats"
  /\ counts' = [counts EXCEPT ![visit[q].r] = NoCounts]
  /\ Leave(q)
  /\ UNCHANGED <<resource, version, shelf, begun, crowded, decided, quarantined>>

-----------------------------------------------------------------------------
(* A use case that reads a resource and changes its copy.                  *)
Overwrite(q, r, copy, person) ==
  /\ Enters(q)
  /\ Catalogued(r)
  /\ Stay(q, Saving(r, copy, person))
  /\ UNCHANGED <<resource, version, counts, shelf, crowded, decided, quarantined>>

(* PublishAcademicResource asks for a current version, not for a status.   *)
PublishResource(q, r) ==
  /\ resource[r].current # Nothing
  /\ Overwrite(q, r, [resource[r] EXCEPT !.status = "APPROVED"], TRUE)

(* ModerateResource, and ArchiveAcademicResource (REJECTED). *)
ModerateResource(q, r, status) ==
  Overwrite(q, r, [resource[r] EXCEPT !.status = status], TRUE)

(* ReplaceAcademicResource looks at no version. *)
ReplaceResource(q, r, v) ==
  Overwrite(q, r, [resource[r] EXCEPT !.current = v], FALSE)

(* PublishVersion and RollbackVersion read the resource, ... *)
ChooseVersion(q, r, v, use) ==
  /\ Enters(q)
  /\ Catalogued(r)
  /\ Stay(q, [pc |-> use, r |-> r, v |-> v, copy |-> resource[r]])
  /\ UNCHANGED <<resource, version, counts, shelf, crowded, decided, quarantined>>

(* ... then the version: any stored one is published, one of the resource  *)
(* is rolled back to.                                                      *)
FindVersion(q) ==
  LET call == visit[q] IN
  /\ call.pc \in {"publish", "rollback"}
  /\ IF /\ version[call.v] # NoVersion
        /\ call.pc = "rollback" => version[call.v].of = call.r
       THEN Stay(q, Saving(call.r, [call.copy EXCEPT !.current = call.v], FALSE))
       ELSE Leave(q)
  /\ UNCHANGED <<resource, version, counts, shelf, begun, crowded, decided, quarantined>>

-----------------------------------------------------------------------------
LatestNumber(r) == Max(NumbersOf(r) \cup {0})

(* Mutant: the version gets the latest number. *)
CreateSameVersion(q, r) ==
  /\ Enters(q)
  /\ Catalogued(r)
  /\ Stay(q, [pc |-> "version", r |-> r, number |-> LatestNumber(r)])
  /\ UNCHANGED <<resource, version, counts, shelf, crowded, decided, quarantined>>

(* CreateResourceVersion numbers the version after the latest ... *)
CreateVersion(q, r) ==
  /\ Enters(q)
  /\ Catalogued(r)
  /\ Stay(q, [pc |-> "version", r |-> r, number |-> LatestNumber(r) + 1])
  /\ UNCHANGED <<resource, version, counts, shelf, crowded, decided, quarantined>>

(* ... and saves it, without a file. *)
SaveVersion(q, v) ==
  /\ visit[q].pc = "version"
  /\ v = Fresh({w \in Versions : version[w] = NoVersion})
  /\ version' = [version EXCEPT ![v] =
       [of |-> visit[q].r, number |-> visit[q].number, hash |-> Nothing]]
  /\ Leave(q)
  /\ UNCHANGED <<resource, counts, shelf, begun, crowded, decided, quarantined>>

-----------------------------------------------------------------------------
(* ReportResource reads the resource, ... *)
ReportResource(q, r) ==
  /\ Enters(q)
  /\ Catalogued(r)
  /\ Stay(q, [pc |-> "report", r |-> r, copy |-> resource[r]])
  /\ UNCHANGED <<resource, version, counts, shelf, crowded, decided, quarantined>>

(* ... its counters, ... *)
FindCounts(q) ==
  LET call == visit[q] IN
  /\ call.pc = "report"
  /\ Stay(q, [pc |-> "counted", r |-> call.r, copy |-> call.copy, row |-> counts[call.r]])
  /\ UNCHANGED <<resource, version, counts, shelf, begun, crowded, decided, quarantined>>

(* Mutant: the fourth report quarantines. *)
SaveReportLate(q) ==
  LET call    == visit[q]
      reports == call.row.reports + 1
  IN
  /\ call.pc = "counted"
  /\ counts' = [counts EXCEPT ![call.r] = [call.row EXCEPT !.reports = reports]]
  /\ decided' = decided \ {call.r}
  /\ IF reports > QuarantineAt
       THEN Stay(q, Saving(call.r, [call.copy EXCEPT !.status = "QUARANTINED"], FALSE))
       ELSE Leave(q)
  /\ UNCHANGED <<resource, version, shelf, begun, crowded, quarantined>>

(* ... and saves both, the resource from the third report on. *)
SaveReport(q) ==
  LET call    == visit[q]
      reports == call.row.reports + 1
  IN
  /\ call.pc = "counted"
  /\ counts' = [counts EXCEPT ![call.r] = [call.row EXCEPT !.reports = reports]]
  /\ decided' = decided \ {call.r}
  /\ IF reports >= QuarantineAt
       THEN Stay(q, Saving(call.r, [call.copy EXCEPT !.status = "QUARANTINED"], FALSE))
       ELSE Leave(q)
  /\ UNCHANGED <<resource, version, shelf, begun, crowded, quarantined>>

(* RecordDownload and RecordView read the row, count in it and save it     *)
(* whole.  They do not look for the resource, but its id is random: only   *)
(* that of a stored resource is known.                                     *)
RecordUse(q, r) ==
  /\ Enters(q)
  /\ Catalogued(r)
  /\ Stay(q, [pc |-> "use", r |-> r, row |-> counts[r]])
  /\ UNCHANGED <<resource, version, counts, shelf, crowded, decided, quarantined>>

SaveUse(q) ==
  LET call == visit[q] IN
  /\ call.pc = "use"
  /\ counts' = [counts EXCEPT ![call.r] = [call.row EXCEPT !.uses = @ + 1]]
  /\ Leave(q)
  /\ UNCHANGED <<resource, version, shelf, begun, crowded, decided, quarantined>>

-----------------------------------------------------------------------------
(* Mutant: off by one. *)
AddBeyondLimit(q, c) ==
  /\ Enters(q)
  /\ Len(shelf[c]) <= CollectionLimit
  /\ Stay(q, [pc |-> "shelve", c |-> c, position |-> Len(shelf[c]) + 1])
  /\ UNCHANGED <<resource, version, counts, shelf, crowded, decided, quarantined>>

(* AddResourceToCollection counts what is there, up to the limit, ... *)
AddToCollection(q, c) ==
  /\ Enters(q)
  /\ Len(shelf[c]) < CollectionLimit
  /\ Stay(q, [pc |-> "shelve", c |-> c, position |-> Len(shelf[c]) + 1])
  /\ UNCHANGED <<resource, version, counts, shelf, crowded, decided, quarantined>>

(* ... and adds the resource behind it. *)
Shelve(q) ==
  LET call == visit[q] IN
  /\ call.pc = "shelve"
  /\ shelf' = [shelf EXCEPT ![call.c] = Append(@, call.position)]
  /\ Leave(q)
  /\ UNCHANGED <<resource, version, counts, begun, crowded, decided, quarantined>>

-----------------------------------------------------------------------------
HubBegin(q) ==
  \/ \E h \in Hashes : CreateResource(q, h)
  \/ \E r \in Resources :
       \/ PublishResource(q, r) \/ CreateVersion(q, r)
       \/ ReportResource(q, r) \/ RecordUse(q, r)
       \/ \E status \in {"APPROVED", "QUARANTINED", "REJECTED"} : ModerateResource(q, r, status)
       \/ \E v \in Versions :
            \/ ReplaceResource(q, r, v)
            \/ \E use \in {"publish", "rollback"} : ChooseVersion(q, r, v, use)
  \/ \E c \in Collections : AddToCollection(q, c)

HubProceed(q) ==
  \/ \E v \in Versions :
       SaveVersion(q, v) \/ \E r \in Resources : SaveFirstVersion(q, r, v)
  \/ SaveFile(q) \/ SaveNewResource(q) \/ SaveInitialStats(q)
  \/ SaveResource(q) \/ FindVersion(q)
  \/ FindCounts(q) \/ SaveReport(q) \/ SaveUse(q) \/ Shelve(q)

HubNext == \E q \in Visits : HubBegin(q) \/ HubProceed(q)

HubSpec == HubInit /\ [][HubNext]_hubVars

-----------------------------------------------------------------------------
(* The versions of a resource are numbered without a gap however calls     *)
(* overlap, and one by one when they do not                                *)
(* (docs/domain/ACADEMIC_RESOURCE_HUB_DOMAIN.md, 2.2).                     *)
VersionsCountUp ==
  \A r \in Resources :
    /\ NumbersOf(r) = 1..Cardinality(NumbersOf(r))
    /\ crowded \/ \A v, w \in VersionsOf(r) : version[v].number = version[w].number => v = w

(* When no call is in flight: three counted reports have quarantined their *)
(* resource, however calls overlapped; and it still is, unless somebody    *)
(* decided since or a stale copy was saved over it by a call that          *)
(* overlapped (the same document, 3.6).                                    *)
ReportsQuarantine ==
  NobodyVisits => \A r \in Resources : counts[r].reports >= QuarantineAt =>
    /\ r \in quarantined
    /\ crowded \/ r \in decided \/ resource[r].status = "QUARANTINED"

(* The positions in a collection count up from one and end at its limit.   *)
(* Calls that overlap may share a position and exceed the limit by one     *)
(* each (the same document, 2.4).                                          *)
ShelvesInOrder ==
  \A c \in Collections :
    /\ \A i \in DOMAIN shelf[c] : shelf[c][i] <= i /\ (crowded \/ shelf[c][i] = i)
    /\ Len(shelf[c]) < CollectionLimit + (IF crowded THEN Cardinality(Visits) ELSE 1)
=============================================================================
