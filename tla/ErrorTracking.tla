---------------------------- MODULE ErrorTracking ----------------------------
(***************************************************************************)
(* The error tracker of a process (modules/error-tracking): captured errors *)
(* of one fingerprint are aggregated, and a rule opens an incident when    *)
(* there are enough of them within its window.  Every call runs to its end *)
(* before the next; what is hard is what time and operators do in between. *)
(***************************************************************************)
EXTENDS Naturals, FiniteSets, FiniteSetsExt

CONSTANTS
  Fingerprints,
  Shape,        \* Shape[f]: class, source and severity of the errors of f
  DedupeTicks,  \* dedupeWindowMs
  WindowTicks,  \* windowSeconds, the same of every rule
  Incidents,
  MaxTicks,     \* bound: the clock
  MaxCaptures   \* bound: errors captured

Severities == 0..4   \* INFO, LOW, MEDIUM, HIGH, CRITICAL
Lifecycle  == {"OPEN", "ACKNOWLEDGED", "INVESTIGATING", "RESOLVED", "CLOSED"}

(* INCIDENT_RULES; the first that matches opens the incident. *)
Rule(name, class, source, least, times) ==
  [name |-> name, class |-> class, source |-> source, least |-> least, times |-> times]
Rules ==
  <<Rule("database-outage", "Database", "any", 4, 1),
    Rule("redis-outage", "any", "redis", 4, 1),
    Rule("worker-crash-loop", "any", "worker", 3, 3),
    Rule("queue-backlog", "any", "queue", 2, 5),
    Rule("api-error-spike", "any", "http", 3, 5),
    Rule("memory-exhaustion", "Infrastructure", "any", 4, 1)>>

ASSUME ErrorTrackingAssumption ==
  /\ WindowTicks \in Nat /\ DedupeTicks \in Nat \ {0}
  /\ \A f \in Fingerprints : Shape[f].severity \in Severities

VARIABLES
  time,
  aggregate,  \* aggregate[f]: the latest aggregated error of f
  captured,   \* captured[f]: every occurrence of f, its moment and running number
  incident

errorVars == <<time, aggregate, captured, incident>>

NoAggregate == [count |-> 0, last |-> 0, recent |-> {}]
NoIncident  == [of |-> "none", rule |-> 0, status |-> "NONE", count |-> 0, reopened |-> FALSE]

ErrorsInit ==
  /\ time = 0
  /\ aggregate = [f \in Fingerprints |-> NoAggregate]
  /\ captured = [f \in Fingerprints |-> {}]
  /\ incident = [i \in Incidents |-> NoIncident]

-----------------------------------------------------------------------------
(* SeverityEngine.evaluate: the severity rises with the occurrences. *)
Severity(f, count) ==
  Min({4, Shape[f].severity + (IF count >= 10 THEN 2 ELSE IF count >= 5 THEN 1 ELSE 0)})

InWindow(occurrences) == Cardinality({o \in occurrences : time - o[1] <= WindowTicks})

(* Mutant: the aggregate ends a window after it began. *)
FirstSeenIsKnown(f) ==
  /\ aggregate[f].count > 0
  /\ Min({o[1] : o \in aggregate[f].recent}) + DedupeTicks >= time

(* findAggregate: an error seen a window ago at most is aggregated to. *)
Known(f) == aggregate[f].count > 0 /\ aggregate[f].last + DedupeTicks >= time

Occurrence(f) == <<time, Cardinality(captured[f]) + 1>>

(* aggregate or createNew; 100 recent occurrences are kept, which the      *)
(* thresholds of the rules are far below.                                  *)
Aggregated(f) ==
  LET old == IF Known(f) THEN aggregate[f] ELSE NoAggregate IN
  [count |-> old.count + 1, last |-> time, recent |-> old.recent \cup {Occurrence(f)}]

Applies(rule, f, severity) ==
  /\ rule.class \in {"any", Shape[f].class}
  /\ rule.source \in {"any", Shape[f].source}
  /\ severity >= rule.least

(* IncidentEngine.evaluate: the rules an aggregated error matches. *)
Matching(f, error) ==
  {r \in DOMAIN Rules :
     /\ Applies(Rules[r], f, Severity(f, error.count))
     /\ InWindow(error.recent) >= Rules[r].times}

IsOpen(i) == incident[i].status \in {"OPEN", "ACKNOWLEDGED", "INVESTIGATING"}

(* Mutant: an acknowledged incident is not found. *)
OpenOnly(f, r) ==
  {i \in Incidents : incident[i].status = "OPEN" /\ incident[i].of = f /\ incident[i].rule = r}

(* findOpenIncident *)
OpenOf(f, r) == {i \in Incidents : IsOpen(i) /\ incident[i].of = f /\ incident[i].rule = r}

(* recordIncident: an open incident of the rule is refreshed, or one is    *)
(* opened.                                                                 *)
RecordIncident(f, r, count) ==
  IF OpenOf(f, r) # {}
  THEN \E i \in OpenOf(f, r) : incident' = [incident EXCEPT ![i].count = count]
  ELSE \E i \in Incidents :
         /\ incident[i] = NoIncident
         /\ incident' = [incident EXCEPT ![i] =
              [of |-> f, rule |-> r, status |-> "OPEN", count |-> count, reopened |-> FALSE]]

(* capture *)
Capture(f) ==
  LET error == Aggregated(f) IN
  /\ MapThenSumSet(LAMBDA g : Cardinality(captured[g]), Fingerprints) < MaxCaptures
  /\ aggregate' = [aggregate EXCEPT ![f] = error]
  /\ captured' = [captured EXCEPT ![f] = @ \cup {Occurrence(f)}]
  /\ IF Matching(f, error) = {} THEN UNCHANGED incident
     ELSE RecordIncident(f, Min(Matching(f, error)), error.count)
  /\ UNCHANGED time

(* updateIncidentStatus: operators may set any status at any time. *)
UpdateIncidentStatus(i, status) ==
  /\ incident[i] # NoIncident
  /\ incident' = [incident EXCEPT
       ![i].status = status,
       ![i].reopened = @ \/ (~IsOpen(i) /\ status \notin {"RESOLVED", "CLOSED"})]
  /\ UNCHANGED <<time, aggregate, captured>>

PassTime ==
  /\ time < MaxTicks
  /\ time' = time + 1
  /\ UNCHANGED <<aggregate, captured, incident>>

ErrorsNext ==
  \/ \E f \in Fingerprints : Capture(f)
  \/ \E i \in Incidents, status \in Lifecycle : UpdateIncidentStatus(i, status)
  \/ PassTime

ErrorsSpec == ErrorsInit /\ [][ErrorsNext]_errorVars

-----------------------------------------------------------------------------
(* A fingerprint has one open incident of a rule, whatever operators do    *)
(* with it, as long as they do not reopen an older one.                    *)
OneOpenIncident ==
  \A i, j \in Incidents :
    /\ i # j /\ IsOpen(i) /\ IsOpen(j)
    /\ incident[i].of = incident[j].of /\ incident[i].rule = incident[j].rule
    => incident[i].reopened \/ incident[j].reopened

(* The occurrences of f no pause longer than the window of deduplication   *)
(* separates from now: those all before a pause are of an older aggregated *)
(* error, which the rules do not look at.                                  *)
Follows(f, p) == \E q \in captured[f] : p[1] < q[1] /\ q[1] <= p[1] + DedupeTicks
Linked(f) ==
  {o \in captured[f] :
     \A p \in captured[f] : p[1] >= o[1] /\ p[1] + DedupeTicks < time => Follows(f, p)}

(* A burst is never missed: the capture that makes the errors of a         *)
(* fingerprint without such a pause enough for a rule, counting all of its *)
(* window, leaves an incident of theirs open, whatever operators did to    *)
(* the incidents of the same burst.  With a window of deduplication at     *)
(* least as long as that of the rules, that is all errors in the latter.   *)
BurstOpensIncident ==
  [][\A f \in Fingerprints : captured'[f] # captured[f] =>
       \A r \in DOMAIN Rules :
         Applies(Rules[r], f, Shape[f].severity) /\ InWindow(Linked(f)) + 1 >= Rules[r].times =>
           \E i \in Incidents : IsOpen(i)' /\ incident'[i].of = f]_errorVars
=============================================================================
