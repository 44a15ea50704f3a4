------------------------------ MODULE RandomChat ------------------------------
(***************************************************************************)
(* Random chat of Campus Connect: joinRandomChat, getRandomChatStatus,     *)
(* leaveRandomChat and sendMessage (modules/connect/src/use-cases/         *)
(* connect.use-cases.ts) over randomQueue and the in-memory conversation   *)
(* repository, for the students of one college.                            *)
(*                                                                         *)
(* Each use case reads a conversation, awaits, and goes on with what it    *)
(* read; what follows the await, up to the next one, is one step.  The     *)
(* in-memory repository writes before save or update returns its promise,  *)
(* so a write belongs to the step that calls it.                           *)
(***************************************************************************)
EXTENDS SequencesExt

CONSTANTS
  Students, GenderOf,
  MaxChats,     \* conversations that can be created
  Ttl,          \* randomChatTtlMs, in ticks of clock
  MaxClock,     \* bound of clock
  Requests,     \* calls that can be in flight at once
  Serial,       \* TRUE: calls never overlap; FALSE: they interleave at awaits
  None

Genders == {"MALE", "FEMALE"}
Chats   == 1..MaxChats      \* in the order of their creation

ASSUME RandomChatAssumption ==
  /\ GenderOf \in [Students -> Genders]
  /\ MaxChats \in Nat /\ Ttl \in Nat /\ MaxClock \in Nat
  /\ Serial \in BOOLEAN
  /\ None \notin Students \cup Chats

VARIABLES
  queue,      \* randomQueue, the waiting room
  chat,       \* the conversations of type RANDOM
  spoken,     \* spoken[c]: the students with a message stored in c
  clock,      \* Date.now(), in ticks
  req         \* the calls in flight

vars == <<queue, chat, spoken, clock, req>>

ChatRec == [status : {"NONE", "OPEN", "CLOSED"}, parts : SUBSET Students,
            at : 0..MaxClock, version : 0..2,
            reason : {None, "LEFT", "TIMEOUT"}, by : Students \cup {None}]
NoChat  == [status |-> "NONE", parts |-> {}, at |-> 0, version |-> 0,
            reason |-> None, by |-> None]

Points  == {"idle", "joinActive", "joinQueue", "expire", "close", "send"}
Request == [pc : Points, u : Students \cup {None}, c : Chats \cup {None},
            copy : ChatRec]

TypeOK ==
  /\ queue \in Seq(Students)
  /\ chat \in [Chats -> ChatRec]
  /\ spoken \in [Chats -> SUBSET Students]
  /\ clock \in 0..MaxClock
  /\ req \in [Requests -> Request]

-----------------------------------------------------------------------------
Never(u)   == FALSE                                           \* mutant
Waiting(u) == Contains(queue, u)

(* A call of u that resumes at point with its copy of conversation c.      *)
Call(point, u, c, copy) == [pc |-> point, u |-> u, c |-> c, copy |-> copy]
Idle == Call("idle", None, None, NoChat)

Free(q) == /\ req[q] = Idle
           /\ Serial => \A p \in Requests : req[p] = Idle

At(q, point)    == req[q].pc = point
Return(q)       == req' = [req EXCEPT ![q] = Idle]
Goto(q, locals) == req' = [req EXCEPT ![q] = locals]

(* findActiveRandomByParticipant: the first conversation of u, in the      *)
(* order of the Map, that is not closed.  Expiry is not looked at.         *)
OpenChats(u) == {c \in Chats : chat[c].status = "OPEN" /\ u \in chat[c].parts}
Active(u)    == IF OpenChats(u) = {} THEN None ELSE Min(OpenChats(u))

(* findLatestRandomByParticipant: the last one created; of those created   *)
(* in the same millisecond, the first.                                     *)
ChatsOf(u) == {c \in Chats : chat[c].status # "NONE" /\ u \in chat[c].parts}
Latest(u)  == IF ChatsOf(u) = {} THEN None
              ELSE CHOOSE c \in ChatsOf(u) : \A d \in ChatsOf(u) :
                     \/ chat[d].at < chat[c].at
                     \/ chat[d].at = chat[c].at /\ c <= d

Expired(copy) == clock >= copy.at + Ttl

Closed(copy, reason, by) ==
  [status |-> "CLOSED", parts |-> copy.parts, at |-> copy.at, version |-> copy.version + 1,
   reason |-> reason, by |-> by]

(* conversationRepo.update(copy, copy.version): throws, and changes        *)
(* nothing, if the stored version is another one.                          *)
Update(c, copy, reason, by) ==
  chat' = IF chat[c].version = copy.version
            THEN [chat EXCEPT ![c] = Closed(copy, reason, by)]
            ELSE chat

Init ==
  /\ queue = <<>>
  /\ chat = [c \in Chats |-> NoChat]
  /\ spoken = [c \in Chats |-> {}]
  /\ clock = 0
  /\ req = [q \in Requests |-> Idle]

-----------------------------------------------------------------------------
(* getRandomChatStatus up to its await on findLatestRandomByParticipant;   *)
(* only the copy of an open conversation leads to a change.                *)
ReadStatus(q, u) ==
  /\ IF Waiting(u) \/ Latest(u) = None \/ chat[Latest(u)].status = "CLOSED"
       THEN Return(q)
       ELSE Goto(q, Call("expire", u, Latest(u), chat[Latest(u)]))
  /\ UNCHANGED <<queue, chat, spoken, clock>>

Status(q, u) == Free(q) /\ ReadStatus(q, u)

(* The rest of it: an expired conversation is closed. *)
CloseExpired(q) ==
  /\ At(q, "expire")
  /\ IF Expired(req[q].copy)
       THEN Update(req[q].c, req[q].copy, "TIMEOUT", None)
       ELSE UNCHANGED chat
  /\ Return(q)
  /\ UNCHANGED <<queue, spoken, clock>>

-----------------------------------------------------------------------------
(* joinRandomChat reads the active conversation; one that exists leads to  *)
(* getRandomChatStatus, none to the waiting room.                          *)
JoinStart(q, u) ==
  /\ Free(q)
  /\ Goto(q, Call(IF Active(u) # None THEN "joinActive" ELSE "joinQueue", u, None, NoChat))
  /\ UNCHANGED <<queue, chat, spoken, clock>>

JoinActive(q) == At(q, "joinActive") /\ ReadStatus(q, req[q].u)

(* The first waiting student of the opposite gender, 0 if there is none.   *)
NoPeer(u)  == 0                                               \* mutant
AnyPeer(u) == IF queue = <<>> THEN 0 ELSE 1                   \* mutant
Opposite(u) == LET Fits(v) == GenderOf[v] # GenderOf[u]
               IN  SelectInSeq(queue, Fits)

TakePeer(i) == RemoveAt(queue, i)

NewChat(u, v) == [status |-> "OPEN", parts |-> {u, v}, at |-> clock, version |-> 1,
                  reason |-> None, by |-> None]

(* After the await: already waiting, nobody suitable (wait), or a match    *)
(* with the first suitable student (matchRandomChat), all in one step.     *)
JoinQueue(q) ==
  LET u == req[q].u
      i == Opposite(u)
  IN
  /\ At(q, "joinQueue")
  /\ \/ Waiting(u) /\ UNCHANGED <<queue, chat>>
     \/ ~Waiting(u) /\ i = 0 /\ queue' = Append(queue, u) /\ UNCHANGED chat
     \/ /\ ~Waiting(u) /\ i # 0
        /\ \E c \in Chats :
             /\ \A d \in Chats : chat[d].status = "NONE" <=> d >= c
             /\ chat' = [chat EXCEPT ![c] = NewChat(u, queue[i])]
        /\ queue' = TakePeer(i)
  /\ Return(q)
  /\ UNCHANGED <<spoken, clock>>

-----------------------------------------------------------------------------
(* leaveRandomChat: out of the waiting room at once, or close what         *)
(* findActiveRandomByParticipant found.                                    *)
LeaveQueue(q, u) ==
  /\ Free(q)
  /\ Waiting(u)
  /\ queue' = RemoveFirst(queue, u)
  /\ UNCHANGED <<chat, spoken, clock, req>>

LeaveStart(q, u) ==
  /\ Free(q)
  /\ ~Waiting(u)
  /\ Active(u) # None
  /\ Goto(q, Call("close", u, Active(u), chat[Active(u)]))
  /\ UNCHANGED <<queue, chat, spoken, clock>>

LeaveClose(q) ==
  /\ At(q, "close")
  /\ Update(req[q].c, req[q].copy, "LEFT", req[q].u)
  /\ Return(q)
  /\ UNCHANGED <<queue, spoken, clock>>

-----------------------------------------------------------------------------

(* sendMessage by a participant; what the conversation was when it was     *)
(* read decides.                                                           *)
SendStart(q, u, c) ==
  /\ Free(q)
  /\ chat[c].status = "OPEN" /\ u \in chat[c].parts
  /\ Goto(q, Call("send", u, c, chat[c]))
  /\ UNCHANGED <<queue, chat, spoken, clock>>

SendMessage(q) ==
  LET c == req[q].c IN
  /\ At(q, "send")
  /\ IF Expired(req[q].copy)
       THEN Update(c, req[q].copy, "TIMEOUT", None) /\ UNCHANGED spoken
       ELSE spoken' = [spoken EXCEPT ![c] = @ \cup {req[q].u}] /\ UNCHANGED chat
  /\ Return(q)
  /\ UNCHANGED <<queue, clock>>

-----------------------------------------------------------------------------
Tick == clock < MaxClock /\ clock' = clock + 1 /\ UNCHANGED <<queue, chat, spoken, req>>

Begin(q) == \E u \in Students :
  \/ Status(q, u) \/ JoinStart(q, u) \/ LeaveQueue(q, u) \/ LeaveStart(q, u)
  \/ \E c \in Chats : SendStart(q, u, c)

Proceed(q) == CloseExpired(q) \/ JoinActive(q) \/ JoinQueue(q) \/ LeaveClose(q)
              \/ SendMessage(q)

Next == Tick \/ \E q \in Requests : Begin(q) \/ Proceed(q)

Spec == Init /\ [][Next]_vars

-----------------------------------------------------------------------------
(* However calls interleave.                                               *)

(* Nobody is in the waiting room twice, although the search for an active  *)
(* conversation lies between the call and the push.                        *)
QueuedOnce == \A i, j \in 1..Len(queue) : queue[i] = queue[j] => i = j

(* Nobody waits while a student of the opposite gender waits.              *)
NobodyOverlooked == \A i, j \in 1..Len(queue) : GenderOf[queue[i]] = GenderOf[queue[j]]

(* A conversation has two participants, of opposite genders.               *)
MixedPairs ==
  \A c \in Chats : chat[c].status # "NONE" =>
    \E u, v \in Students : chat[c].parts = {u, v} /\ GenderOf[u] # GenderOf[v]

(* A closed conversation never changes again, nor does who closed it: of   *)
(* two leaves, or a leave and a timeout, only the first counts.            *)
ClosedIsFinal ==
  [][\A c \in Chats : chat[c].status = "CLOSED" => chat'[c] = chat[c]]_vars

-----------------------------------------------------------------------------
(* When calls do not overlap (Serial); false when they do.                 *)

(* A student is in one open conversation at most, and not waiting then.    *)
OneActiveChat ==
  \A u \in Students : /\ \A c, d \in OpenChats(u) : c = d
                      /\ OpenChats(u) # {} => ~Waiting(u)

(* Sending to a closed conversation fails (test/random-chat.test.ts).      *)
NoLateMessage ==
  [][\A c \in Chats : spoken'[c] # spoken[c] => chat[c].status = "OPEN"]_vars

(* The abstract matchmaker. *)
PartnerOf(u) == IF OpenChats(u) = {} THEN None
                ELSE CHOOSE v \in chat[Active(u)].parts : v # u
Match == INSTANCE Matchmaker WITH waiting <- Range(queue),
                                  partner <- [u \in Students |-> PartnerOf(u)]
RefinesMatchmaker == Match!Spec
=============================================================================
