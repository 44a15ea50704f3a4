----------------------------- MODULE Notifications -----------------------------
(***************************************************************************)
(* The notifications of one recipient (modules/notifications): publishing, *)
(* which asks preferences and rules and awaits each answer, aggregation by *)
(* key, the delivery queue, and what the recipient does meanwhile.  The    *)
(* repository hands out its own objects.                                   *)
(***************************************************************************)
EXTENDS Naturals, FiniteSets

CONSTANTS
  Notices,
  EventTypes,
  Keys,        \* deduplication keys
  NoKey, NoNotice,
  Publishers,  \* calls of publishNotification that can be in flight at once
  Readers,     \* calls of markAsRead and deleteNotification, likewise
  MaxPublished \* bound: events published

VARIABLES
  notice,      \* notice[n]
  queued,      \* queued[n]: how often delivery of n was enqueued
  preference,  \* of the channel IN_APP
  mutedTypes,  \* of the rules of the recipient
  publishing,
  reading,
  published    \* how many events were published

noticeVars == <<notice, queued, preference, mutedTypes, publishing, reading, published>>

NoSuchNotice == [status |-> "none", key |-> NoKey, count |-> 0]
NotPublishing == [at |-> "idle", type |-> "none", key |-> NoKey, urgent |-> FALSE, notice |-> NoNotice]
NotReading == [notice |-> NoNotice, to |-> "none"]

NotificationsInit ==
  /\ notice = [n \in Notices |-> NoSuchNotice]
  /\ queued = [n \in Notices |-> 0]
  /\ preference = [muted |-> FALSE, only |-> {}]
  /\ mutedTypes = {}
  /\ publishing = [p \in Publishers |-> NotPublishing]
  /\ reading = [r \in Readers |-> NotReading]
  /\ published = 0

Shown == {n \in Notices : notice[n].status \in {"unread", "read"}}
Goes(p, point) == publishing' = [publishing EXCEPT ![p].at = point]

-----------------------------------------------------------------------------
(* GenericEventPublisher.publish: an urgent event passes all checks; a     *)
(* preference for some types, when there is one, excludes the others.      *)
PublishNotification(p, type, key, urgent) ==
  /\ publishing[p].at = "idle"
  /\ published < MaxPublished
  /\ published' = published + 1
  /\ publishing' = [publishing EXCEPT ![p] =
       [at |-> IF ~urgent /\ (preference.muted \/ (preference.only # {} /\ type \notin preference.only))
               THEN "answer" ELSE "rules",
        type |-> type, key |-> key, urgent |-> urgent, notice |-> NoNotice]]
  /\ UNCHANGED <<notice, queued, preference, mutedTypes, reading>>

CheckRules(p) ==
  /\ publishing[p].at = "rules"
  /\ Goes(p, IF ~publishing[p].urgent /\ publishing[p].type \in mutedTypes
             THEN "answer" ELSE "create")
  /\ UNCHANGED <<notice, queued, preference, mutedTypes, reading, published>>

(* Mutant: a notice that was read is found, too. *)
SameAlsoRead(key) == {n \in Shown : key # NoKey /\ notice[n].key = key}

SameUnread(key) == {n \in Shown : key # NoKey /\ notice[n].key = key /\ notice[n].status = "unread"}

(* createNotification: n is the unread notice of the same key, or new. *)
Create(key, n) ==
  /\ n \in IF SameUnread(key) # {} THEN SameUnread(key)
           ELSE {free \in Notices : notice[free].status = "none"}
  /\ notice' = [notice EXCEPT ![n] =
       IF SameUnread(key) # {} THEN [@ EXCEPT !.count = notice[n].count + 1]
       ELSE [status |-> "unread", key |-> key, count |-> 1]]

CreateNotification(p, n) ==
  /\ publishing[p].at = "create"
  /\ Create(publishing[p].key, n)
  /\ publishing' = [publishing EXCEPT ![p].at = "enqueue", ![p].notice = n]
  /\ UNCHANGED <<queued, preference, mutedTypes, reading, published>>

EnqueueDelivery(p) ==
  /\ publishing[p].at = "enqueue"
  /\ queued' = [queued EXCEPT ![publishing[p].notice] = @ + 1]
  /\ Goes(p, "answer")
  /\ UNCHANGED <<notice, preference, mutedTypes, reading, published>>

(* publishNotification answers with the latest notice of the recipient. *)
Answer(p) ==
  /\ publishing[p].at = "answer" /\ Shown # {}
  /\ publishing' = [publishing EXCEPT ![p] = NotPublishing]
  /\ UNCHANGED <<notice, queued, preference, mutedTypes, reading, published>>

(* ... or, when there is none, with one it creates. *)
AnswerWithNew(p, n) ==
  /\ publishing[p].at = "answer" /\ Shown = {}
  /\ Create(publishing[p].key, n)
  /\ publishing' = [publishing EXCEPT ![p] = NotPublishing]
  /\ UNCHANGED <<queued, preference, mutedTypes, reading, published>>

-----------------------------------------------------------------------------
(* markAsRead and softDeleteNotification find the notice, ... *)
FindNotification(r, n, to) ==
  /\ reading[r] = NotReading /\ n \in Shown
  /\ reading' = [reading EXCEPT ![r] = [notice |-> n, to |-> to]]
  /\ UNCHANGED <<notice, queued, preference, mutedTypes, publishing, published>>

(* ... and write it, where a deleted one stays deleted. *)
Mark(r) ==
  /\ reading[r] # NotReading
  /\ notice' = [notice EXCEPT ![reading[r].notice].status =
       IF @ = "deleted" THEN "deleted" ELSE reading[r].to]
  /\ reading' = [reading EXCEPT ![r] = NotReading]
  /\ UNCHANGED <<queued, preference, mutedTypes, publishing, published>>

MarkAllAsRead ==
  /\ notice' = [n \in Notices |->
       IF notice[n].status = "unread" THEN [notice[n] EXCEPT !.status = "read"] ELSE notice[n]]
  /\ UNCHANGED <<queued, preference, mutedTypes, publishing, reading, published>>

UpsertPreferences(muted, only) ==
  /\ preference' = [muted |-> muted, only |-> only]
  /\ UNCHANGED <<notice, queued, mutedTypes, publishing, reading, published>>

UpsertUserRules(types) ==
  /\ mutedTypes' = types
  /\ UNCHANGED <<notice, queued, preference, publishing, reading, published>>

NotificationsNext ==
  \/ \E p \in Publishers :
       \/ \E type \in EventTypes, key \in Keys \cup {NoKey}, urgent \in BOOLEAN :
            PublishNotification(p, type, key, urgent)
       \/ CheckRules(p) \/ EnqueueDelivery(p) \/ Answer(p)
       \/ \E n \in Notices : CreateNotification(p, n) \/ AnswerWithNew(p, n)
  \/ \E r \in Readers :
       \/ \E n \in Notices, to \in {"read", "deleted"} : FindNotification(r, n, to)
       \/ Mark(r)
  \/ MarkAllAsRead
  \/ \E muted \in BOOLEAN, only \in SUBSET EventTypes : UpsertPreferences(muted, only)
  \/ \E types \in SUBSET EventTypes : UpsertUserRules(types)

NotificationsSpec == NotificationsInit /\ [][NotificationsNext]_noticeVars

-----------------------------------------------------------------------------
(* However events are published and read, dropped or answered with a new   *)
(* notice: no two unread notices have one key, and no occurrence of an     *)
(* event is added to a notice that was read or deleted.                    *)
UnreadAggregates ==
  [][/\ \A n, o \in Shown' : n # o /\ notice'[n].key = notice'[o].key
                              /\ notice'[n].status = "unread" /\ notice'[o].status = "unread"
                            => notice'[n].key = NoKey
     /\ \A n \in Notices : notice'[n].count > notice[n].count => notice'[n].status = "unread"]_noticeVars
=============================================================================
