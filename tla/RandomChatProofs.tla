--------------------------- MODULE RandomChatProofs ---------------------------
(***************************************************************************)
(* What random chat keeps for any number of students, conversations and    *)
(* calls.  ChatInv holds however calls interleave: a copy a call holds is  *)
(* what is stored, or else the conversation is closed by now.  LoneInv     *)
(* adds what holds when calls do not overlap.                              *)
(***************************************************************************)
EXTENDS RandomChat, SequenceTheorems, WellFoundedInduction, TLAPS

Holding == {"expire", "close", "send"}

(* What a call carries agrees with what is stored. *)
CallOK(r) ==
  /\ r \in Request
  /\ r.pc = "idle" => r = Idle
  /\ r.pc # "idle" => r.u \in Students
  /\ r.pc \in Holding =>
       /\ r.c \in Chats
       /\ r.copy.status = "OPEN" /\ r.copy.version = 1
       /\ chat[r.c].status # "NONE"
       /\ chat[r.c].status = "OPEN" => r.copy = chat[r.c]

ChatOK(c) ==
  /\ chat[c].status = "NONE" => chat[c] = NoChat
  /\ chat[c].status = "OPEN" => chat[c].version = 1
  /\ chat[c].status = "CLOSED" => chat[c].version = 2

StoreOK == /\ chat \in [Chats -> ChatRec]
           /\ \A c \in Chats : ChatOK(c)
           /\ MixedPairs
CallsOK == /\ req \in [Requests -> Request]
           /\ \A q \in Requests : CallOK(req[q])
RoomOK  == /\ queue \in Seq(Students)
           /\ QueuedOnce
           /\ NobodyOverlooked
RestOK  == spoken \in [Chats -> SUBSET Students] /\ clock \in 0..MaxClock

ChatInv == StoreOK /\ CallsOK /\ RoomOK /\ RestOK

-----------------------------------------------------------------------------
LEMMA Least ==
  ASSUME NEW S \in SUBSET Nat, S # {}
  PROVE  Min(S) \in S /\ \A n \in S : Min(S) <= n
<1> DEFINE Below == {ss \in Nat \X Nat : ss[1] < ss[2]}
<1>1. Below = OpToRel(<, Nat) BY Zenon DEF OpToRel
<1>2. IsWellFoundedOn(Below, Nat) BY Zenon, <1>1, NatLessThanWellFounded
<1>3. \A m, n \in Nat : m < n => <<m, n>> \in Below OBVIOUS
<1> HIDE DEF Below
<1>4. \E m \in S : \A n \in S : <<n, m>> \notin Below BY <1>2, WFMin
<1>5. \E m \in S : \A n \in S : m <= n
  <2>1. PICK m \in S : \A n \in S : <<n, m>> \notin Below BY <1>4
  <2>2. \A n \in S : ~(n < m) /\ n \in Nat /\ m \in Nat BY <1>3, <2>1
  <2> QED BY <2>2
<1> QED BY <1>5 DEF Min

LEMMA Removed ==
  ASSUME NEW S, NEW s \in Seq(S), NEW i \in 1..Len(s)
  PROVE  /\ RemoveAt(s, i) \in Seq(S)
         /\ Len(RemoveAt(s, i)) = Len(s) - 1
         /\ \A j \in 1..(Len(s) - 1) : RemoveAt(s, i)[j] = IF j < i THEN s[j] ELSE s[j + 1]
<1> DEFINE a == SubSeq(s, 1, i - 1)
           b == SubSeq(s, i + 1, Len(s))
<1>0. Len(s) \in Nat /\ \A j \in 1..Len(s) : s[j] \in S OBVIOUS
<1>1. a \in Seq(S) /\ Len(a) = i - 1 /\ \A j \in 1..(i - 1) : a[j] = s[j]
      BY <1>0, SubSeqProperties
<1>2. b \in Seq(S) /\ Len(b) = Len(s) - i /\ \A j \in 1..(Len(s) - i) : b[j] = s[i + j]
      BY <1>0, SubSeqProperties
<1> HIDE DEF a, b
<1>s. /\ a \o b \in Seq(S) /\ Len(a \o b) = Len(a) + Len(b)
      /\ \A j \in 1..(Len(a) + Len(b)) :
           (a \o b)[j] = IF j <= Len(a) THEN a[j] ELSE b[j - Len(a)]
      BY <1>1, <1>2, ConcatProperties
<1>3. /\ a \o b \in Seq(S) /\ Len(a \o b) = Len(s) - 1
      /\ \A j \in 1..(Len(s) - 1) : (a \o b)[j] = IF j < i THEN a[j] ELSE b[j - (i - 1)]
      BY <1>0, <1>1, <1>2, <1>s
<1>4. ASSUME NEW j \in 1..(Len(s) - 1)
      PROVE  (a \o b)[j] = IF j < i THEN s[j] ELSE s[j + 1]
  <2>1. CASE j < i BY <1>0, <1>1, <1>3, <2>1
  <2>2. CASE ~(j < i)
    <3>1. PICK k \in 1..(Len(s) - i) : k = j - (i - 1) BY <1>0, <2>2
    <3>2. b[k] = s[i + k] /\ i + k = j + 1 BY <1>0, <1>2, <3>1
    <3> QED BY <1>0, <1>3, <2>2, <3>1, <3>2
  <2> QED BY <2>1, <2>2
<1> QED BY <1>3, <1>4 DEF RemoveAt, a, b

(* The waiting room without its i-th student. *)
LEMMA RoomShrinks ==
  ASSUME RoomOK, NEW i \in 1..Len(queue), queue' = RemoveAt(queue, i)
  PROVE  /\ RoomOK'
         /\ \A u : Waiting(u)' <=> Waiting(u) /\ u # queue[i]
<1>0. queue \in Seq(Students) /\ Len(queue) \in Nat BY DEF RoomOK
<1>1. /\ queue' \in Seq(Students) /\ Len(queue') = Len(queue) - 1
      /\ \A j \in 1..(Len(queue) - 1) :
           queue'[j] = IF j < i THEN queue[j] ELSE queue[j + 1]
      BY <1>0, Removed
<1> DEFINE old(j) == IF j < i THEN j ELSE j + 1
<1>2. \A j \in 1..(Len(queue) - 1) :
        old(j) \in 1..Len(queue) /\ old(j) # i /\ queue'[j] = queue[old(j)]
      BY <1>0, <1>1
<1>3. \A j, k \in 1..(Len(queue) - 1) : old(j) = old(k) => j = k
      BY <1>0
<1>4. \A k \in 1..Len(queue) : k # i => \E j \in 1..(Len(queue) - 1) : old(j) = k
  <2> SUFFICES ASSUME NEW k \in 1..Len(queue), k # i
               PROVE  \E j \in 1..(Len(queue) - 1) : old(j) = k
      OBVIOUS
  <2>1. CASE k < i
    <3>1. k \in 1..(Len(queue) - 1) /\ old(k) = k BY <1>0, <2>1
    <3> QED BY <3>1
  <2>2. CASE k > i
    <3>1. k - 1 \in 1..(Len(queue) - 1) /\ old(k - 1) = k BY <1>0, <2>2
    <3> QED BY <3>1
  <2> QED BY <1>0, <2>1, <2>2
<1> HIDE DEF old
<1>5. QueuedOnce' BY <1>1, <1>2, <1>3 DEF RoomOK, QueuedOnce
<1>6. NobodyOverlooked' BY <1>1, <1>2 DEF RoomOK, NobodyOverlooked
<1>7. ASSUME NEW u PROVE Waiting(u)' <=> Waiting(u) /\ u # queue[i]
  <2>1. Waiting(u)' <=> \E j \in 1..(Len(queue) - 1) : queue'[j] = u
        BY <1>1 DEF Waiting, Contains
  <2>2. Waiting(u) <=> \E k \in 1..Len(queue) : queue[k] = u
        BY DEF Waiting, Contains
  <2>3. Waiting(u)' => Waiting(u) /\ u # queue[i]
        BY <1>2, <2>1, <2>2 DEF RoomOK, QueuedOnce
  <2>4. Waiting(u) /\ u # queue[i] => Waiting(u)'
        BY <1>2, <1>4, <2>1, <2>2
  <2> QED BY <2>3, <2>4
<1> QED BY <1>1, <1>5, <1>6, <1>7 DEF RoomOK

(* The waiting room with one more student, who nobody there suits. *)
LEMMA RoomGrows ==
  ASSUME RoomOK, NEW u \in Students, ~Waiting(u), queue' = Append(queue, u),
         \A i \in 1..Len(queue) : GenderOf[queue[i]] = GenderOf[u]
  PROVE  /\ RoomOK'
         /\ \A v : Waiting(v)' <=> Waiting(v) \/ v = u
<1>0. queue \in Seq(Students) /\ Len(queue) \in Nat BY DEF RoomOK
<1>1. /\ queue' \in Seq(Students) /\ Len(queue') = Len(queue) + 1
      /\ \A j \in 1..Len(queue) : queue'[j] = queue[j]
      /\ queue'[Len(queue) + 1] = u
      BY <1>0
<1>2. \A j \in 1..Len(queue) : queue[j] # u BY DEF Waiting, Contains
<1>3. \A j \in 1..(Len(queue) + 1) : j \in 1..Len(queue) \/ j = Len(queue) + 1
      BY <1>0
<1>4. QueuedOnce' BY <1>1, <1>2, <1>3 DEF RoomOK, QueuedOnce
<1>5. NobodyOverlooked' BY <1>1, <1>3 DEF RoomOK, NobodyOverlooked
<1>6. ASSUME NEW v PROVE Waiting(v)' <=> Waiting(v) \/ v = u
  <2>1. Waiting(v)' <=> \E j \in 1..(Len(queue) + 1) : queue'[j] = v
        BY <1>1 DEF Waiting, Contains
  <2>2. Len(queue) + 1 \in 1..(Len(queue) + 1)
        /\ \A j \in 1..Len(queue) : j \in 1..(Len(queue) + 1) BY <1>0
  <2> QED BY <1>1, <1>3, <2>1, <2>2 DEF Waiting, Contains
<1> QED BY <1>1, <1>4, <1>5, <1>6 DEF RoomOK

(* What the searches find. *)
LEMMA OppositeFound ==
  ASSUME RoomOK, NEW u
  PROVE  \/ Opposite(u) = 0 /\ \A i \in 1..Len(queue) : GenderOf[queue[i]] = GenderOf[u]
         \/ /\ Opposite(u) \in 1..Len(queue)
            /\ GenderOf[queue[Opposite(u)]] # GenderOf[u]
<1> DEFINE I == {i \in 1..Len(queue) : GenderOf[queue[i]] # GenderOf[u]}
<1>1. Opposite(u) = IF I # {} THEN Min(I) ELSE 0 BY DEF Opposite, SelectInSeq
<1>2. Len(queue) \in Nat BY DEF RoomOK
<1>3. I \in SUBSET Nat BY <1>2
<1>4. CASE I = {} BY <1>1, <1>4
<1>5. CASE I # {}
  <2> HIDE DEF I
  <2>1. Min(I) \in I BY <1>3, <1>5, Least
  <2> QED BY <1>1, <1>5, <2>1 DEF I
<1> QED BY <1>4, <1>5

LEMMA FirstRemoved ==
  ASSUME RoomOK, NEW u, Waiting(u)
  PROVE  \E i \in 1..Len(queue) : queue[i] = u /\ RemoveFirst(queue, u) = RemoveAt(queue, i)
<1> DEFINE I == {i \in 1..Len(queue) : queue[i] = u}
<1>1. RemoveFirst(queue, u) = RemoveAt(queue, IF I # {} THEN Min(I) ELSE 0)
      BY Zenon DEF RemoveFirst, SelectInSeq, Waiting, Contains
<1>2. I # {} BY DEF Waiting, Contains
<1>3. Len(queue) \in Nat BY DEF RoomOK
<1>4. I \in SUBSET Nat BY <1>3
<1> HIDE DEF I
<1>5. Min(I) \in I BY <1>2, <1>4, Least
<1> QED BY <1>1, <1>2, <1>5 DEF I

LEMMA ActiveFound ==
  ASSUME NEW u
  PROVE  IF OpenChats(u) = {} THEN Active(u) = None ELSE Active(u) \in OpenChats(u)
<1>1. OpenChats(u) \in SUBSET Nat
      BY RandomChatAssumption DEF RandomChatAssumption, OpenChats, Chats
<1> QED BY <1>1, Least DEF Active

LEMMA LatestFound ==
  ASSUME StoreOK, NEW u
  PROVE  IF ChatsOf(u) = {} THEN Latest(u) = None ELSE Latest(u) \in ChatsOf(u)
<1> USE RandomChatAssumption DEF RandomChatAssumption
<1> DEFINE Ages == {MaxClock - chat[c].at : c \in ChatsOf(u)}
           Newest == {c \in ChatsOf(u) : MaxClock - chat[c].at = Min(Ages)}
<1>0. \A c \in ChatsOf(u) : c \in Nat /\ chat[c].at \in 0..MaxClock
      BY DEF StoreOK, ChatsOf, Chats, ChatRec
<1>1. CASE ChatsOf(u) = {} BY <1>1 DEF Latest
<1>2. CASE ChatsOf(u) # {}
  <2>1. Ages \in SUBSET Nat /\ Ages # {} BY <1>0, <1>2
  <2> HIDE DEF Ages
  <2>2. Min(Ages) \in Ages /\ \A n \in Ages : Min(Ages) <= n BY <2>1, Least
  <2>3. Newest # {} BY <2>2 DEF Ages
  <2>4. Newest \in SUBSET Nat BY <1>0
  <2> HIDE DEF Newest
  <2>5. Min(Newest) \in Newest /\ \A n \in Newest : Min(Newest) <= n BY <2>3, <2>4, Least
  <2>6. PICK c \in ChatsOf(u) : c = Min(Newest) BY <2>5 DEF Newest
  <2>7. ASSUME NEW d \in ChatsOf(u)
        PROVE  chat[d].at < chat[c].at \/ (chat[d].at = chat[c].at /\ c <= d)
    <3>1. MaxClock - chat[c].at = Min(Ages) BY <2>5, <2>6 DEF Newest
    <3>2. Min(Ages) <= MaxClock - chat[d].at BY <2>2 DEF Ages
    <3>3. chat[d].at < chat[c].at \/ chat[d].at = chat[c].at BY <1>0, <3>1, <3>2
    <3>4. chat[d].at = chat[c].at => c <= d
      <4> HAVE chat[d].at = chat[c].at
      <4>1. d \in Newest BY <3>1 DEF Newest
      <4> QED BY <2>5, <2>6, <4>1
    <3> QED BY <3>3, <3>4
  <2> QED BY <1>2, <2>7 DEF Latest
<1> QED BY <1>1, <1>2

-----------------------------------------------------------------------------
(* What a step can do to the conversations and to the waiting room. *)
Closes(c) ==
  /\ chat[c].status = "OPEN"
  /\ \E reason \in {"LEFT", "TIMEOUT"}, by \in Students \cup {None} :
       chat' = [chat EXCEPT ![c] = Closed(chat[c], reason, by)]

Creates(c, u, v) ==
  /\ chat[c] = NoChat
  /\ GenderOf[u] # GenderOf[v]
  /\ chat' = [chat EXCEPT ![c] = NewChat(u, v)]

ChatStep == \/ UNCHANGED chat
            \/ \E c \in Chats : Closes(c)
            \/ \E c \in Chats, u, v \in Students : Creates(c, u, v)

(* Update closes the conversation, unless it is closed already. *)
LEMMA UpdateCloses ==
  ASSUME StoreOK, NEW q \in Requests, CallOK(req[q]), req[q].pc \in Holding,
         NEW reason \in {"LEFT", "TIMEOUT"}, NEW by \in Students \cup {None},
         Update(req[q].c, req[q].copy, reason, by)
  PROVE  /\ ChatStep
         /\ UNCHANGED chat \/ Closes(req[q].c)
<1> DEFINE c == req[q].c
<1>1. /\ c \in Chats /\ req[q].copy.version = 1
      /\ chat[c].status = "OPEN" => req[q].copy = chat[c]
      /\ chat[c] \in ChatRec /\ ChatOK(c) /\ chat[c].status # "NONE"
      BY DEF CallOK, StoreOK
<1>2. chat[c].status \in {"OPEN", "CLOSED"} BY <1>1 DEF ChatRec
<1>3. CASE chat[c].status = "CLOSED"
  <2>1. chat[c].version # req[q].copy.version BY <1>1, <1>3 DEF ChatOK
  <2> QED BY <2>1 DEF Update, ChatStep
<1>4. CASE chat[c].status = "OPEN"
  <2>1. chat' = [chat EXCEPT ![c] = Closed(chat[c], reason, by)]
        BY <1>1, <1>4 DEF Update
  <2> QED BY <1>1, <1>4, <2>1 DEF Closes, ChatStep
<1> QED BY <1>2, <1>3, <1>4

(* The conversations stay in order, and the copies in flight with them. *)
LEMMA StoreStep ==
  ASSUME StoreOK, ChatStep, clock \in 0..MaxClock
  PROVE  /\ StoreOK'
         /\ \A r : CallOK(r) => CallOK(r)'
<1> USE RandomChatAssumption DEF RandomChatAssumption
<1>0. /\ chat \in [Chats -> ChatRec]
      /\ \A c \in Chats : ChatOK(c)
      BY DEF StoreOK
<1>1. CASE UNCHANGED chat
      BY <1>1 DEF StoreOK, ChatOK, MixedPairs, CallOK
<1>2. ASSUME NEW c \in Chats, Closes(c)
      PROVE  StoreOK' /\ \A r : CallOK(r) => CallOK(r)'
  <2>1. PICK reason \in {"LEFT", "TIMEOUT"}, by \in Students \cup {None} :
          chat' = [chat EXCEPT ![c] = Closed(chat[c], reason, by)]
        BY <1>2 DEF Closes
  <2>2. chat[c].status = "OPEN" /\ chat[c].version = 1 /\ chat[c] \in ChatRec
        BY <1>0, <1>2 DEF Closes, ChatOK
  <2>3. PICK new : new = Closed(chat[c], reason, by) OBVIOUS
  <2>4. /\ new \in ChatRec
        /\ new.status = "CLOSED" /\ new.version = 2 /\ new.parts = chat[c].parts
        BY <2>2, <2>3 DEF Closed, ChatRec
  <2>5. \A d \in Chats : chat'[d] = IF d = c THEN new ELSE chat[d] BY <1>0, <2>1, <2>3
  <2>6. chat' \in [Chats -> ChatRec] BY <1>0, <2>1, <2>3, <2>4
  <2>7. \A d \in Chats : ChatOK(d)' BY <1>0, <2>4, <2>5 DEF ChatOK
  <2>8. MixedPairs'
    <3>1. \A d \in Chats : chat'[d].parts = chat[d].parts
                           /\ (chat'[d].status # "NONE" => chat[d].status # "NONE")
          BY <2>2, <2>4, <2>5
    <3> QED BY <3>1 DEF StoreOK, MixedPairs
  <2>9. \A r : CallOK(r) => CallOK(r)' BY <2>4, <2>5 DEF CallOK
  <2> QED BY <2>6, <2>7, <2>8, <2>9 DEF StoreOK
<1>3. ASSUME NEW c \in Chats, NEW u \in Students, NEW v \in Students, Creates(c, u, v)
      PROVE  StoreOK' /\ \A r : CallOK(r) => CallOK(r)'
  <2>1. PICK new : new = NewChat(u, v) OBVIOUS
  <2>2. /\ new \in ChatRec
        /\ new.status = "OPEN" /\ new.version = 1 /\ new.parts = {u, v}
        BY <2>1 DEF NewChat, ChatRec
  <2>3. chat[c].status = "NONE" /\ chat' = [chat EXCEPT ![c] = new]
        BY <1>3, <2>1 DEF Creates, NoChat
  <2>4. \A d \in Chats : chat'[d] = IF d = c THEN new ELSE chat[d] BY <1>0, <2>3
  <2>5. chat' \in [Chats -> ChatRec] BY <1>0, <2>2, <2>3
  <2>6. \A d \in Chats : ChatOK(d)' BY <1>0, <2>2, <2>4 DEF ChatOK
  <2>7. MixedPairs'
    <3> SUFFICES ASSUME NEW d \in Chats, chat'[d].status # "NONE"
                 PROVE  \E w, x \in Students : chat'[d].parts = {w, x} /\ GenderOf[w] # GenderOf[x]
        BY DEF MixedPairs
    <3>1. CASE d = c BY <1>3, <2>2, <2>4, <3>1 DEF Creates
    <3>2. CASE d # c BY <2>4, <3>2 DEF StoreOK, MixedPairs
    <3> QED BY <3>1, <3>2
  <2>8. \A r : CallOK(r) => CallOK(r)' BY <2>3, <2>4 DEF CallOK
  <2> QED BY <2>5, <2>6, <2>7, <2>8 DEF StoreOK
<1> QED BY <1>1, <1>2, <1>3 DEF ChatStep

-----------------------------------------------------------------------------
(* One call moves to r, which agrees with what is stored then. *)
LEMMA CallMoves ==
  ASSUME CallsOK, NEW q \in Requests, NEW r, req' = [req EXCEPT ![q] = r],
         CallOK(r)', \A s : CallOK(s) => CallOK(s)'
  PROVE  CallsOK'
<1>1. \A p \in Requests : req'[p] = IF p = q THEN r ELSE req[p] BY DEF CallsOK
<1>2. r \in Request BY DEF CallOK
<1>3. req' \in [Requests -> Request] BY <1>2 DEF CallsOK
<1>4. ASSUME NEW p \in Requests PROVE CallOK(req[p])'
  <2>1. CASE p = q
    <3>1. req'[p] = r BY <1>1, <2>1
    <3> QED BY <3>1 DEF CallOK
  <2>2. CASE p # q
    <3>1. PICK s : s = req[p] OBVIOUS
    <3>2. req'[p] = s /\ CallOK(s) BY <1>1, <2>2, <3>1 DEF CallsOK
    <3>3. CallOK(s)' BY <3>2
    <3> QED BY <3>2, <3>3 DEF CallOK
  <2> QED BY <2>1, <2>2
<1> QED BY <1>3, <1>4 DEF CallsOK

LEMMA IdleOK == CallOK(Idle)
<1>1. NoChat \in ChatRec BY RandomChatAssumption DEF RandomChatAssumption, NoChat, ChatRec
<1> QED BY <1>1 DEF CallOK, Idle, Call, Request, Points, Holding

(* The calls that hold no copy, and those that hold a fresh one. *)
LEMMA PlainOK ==
  ASSUME NEW u \in Students, NEW point \in {"joinActive", "joinQueue"}
  PROVE  CallOK(Call(point, u, None, NoChat))
<1>1. NoChat \in ChatRec BY RandomChatAssumption DEF RandomChatAssumption, NoChat, ChatRec
<1> QED BY <1>1 DEF CallOK, Call, Request, Points, Holding

LEMMA CopyOK ==
  ASSUME StoreOK, NEW u \in Students, NEW c \in Chats, NEW point \in Holding,
         chat[c].status = "OPEN"
  PROVE  CallOK(Call(point, u, c, chat[c]))
<1>1. chat[c] \in ChatRec /\ chat[c].version = 1 BY DEF StoreOK, ChatOK
<1> QED BY <1>1 DEF CallOK, Call, Request, Points, Holding

RoomStep == \/ UNCHANGED queue
            \/ \E i \in 1..Len(queue) : queue' = RemoveAt(queue, i)
            \/ \E u \in Students :
                 /\ ~Waiting(u)
                 /\ \A i \in 1..Len(queue) : GenderOf[queue[i]] = GenderOf[u]
                 /\ queue' = Append(queue, u)

LEMMA RoomStepKeeps == ASSUME RoomOK, RoomStep PROVE RoomOK'
<1>1. CASE UNCHANGED queue BY <1>1 DEF RoomOK, QueuedOnce, NobodyOverlooked
<1>2. CASE \E i \in 1..Len(queue) : queue' = RemoveAt(queue, i) BY <1>2, RoomShrinks
<1>3. CASE \E u \in Students :
             /\ ~Waiting(u)
             /\ \A i \in 1..Len(queue) : GenderOf[queue[i]] = GenderOf[u]
             /\ queue' = Append(queue, u)
      BY <1>3, RoomGrows
<1> QED BY <1>1, <1>2, <1>3 DEF RoomStep

(* getRandomChatStatus takes a copy of the latest conversation. *)
LEMMA StatusReads ==
  ASSUME ChatInv, NEW q \in Requests, NEW u \in Students, ReadStatus(q, u)
  PROVE  \E r : /\ req' = [req EXCEPT ![q] = r]
                /\ CallOK(r)
                /\ \/ r = Idle
                   \/ /\ Latest(u) \in OpenChats(u)
                      /\ r = Call("expire", u, Latest(u), chat[Latest(u)])
<1>1. CASE req' = [req EXCEPT ![q] = Idle] BY <1>1, IdleOK
<1>2. CASE /\ Latest(u) # None /\ chat[Latest(u)].status # "CLOSED"
           /\ req' = [req EXCEPT ![q] = Call("expire", u, Latest(u), chat[Latest(u)])]
  <2>1. Latest(u) \in ChatsOf(u) BY <1>2, LatestFound DEF ChatInv
  <2>2. PICK c \in Chats : c = Latest(u) BY <2>1 DEF ChatsOf
  <2>3. chat[c].status = "OPEN" /\ c \in OpenChats(u)
        BY <1>2, <2>1, <2>2 DEF ChatsOf, OpenChats, ChatInv, StoreOK, ChatRec
  <2>4. CallOK(Call("expire", u, c, chat[c]))
        BY <2>3, CopyOK DEF ChatInv, Holding
  <2> QED BY <1>2, <2>2, <2>3, <2>4
<1> QED BY <1>1, <1>2 DEF ReadStatus, Return, Goto

LEMMA BeginStep ==
  ASSUME ChatInv, NEW q \in Requests, Begin(q)
  PROVE  /\ UNCHANGED chat /\ RoomStep
         /\ \E r : req' = [req EXCEPT ![q] = r] /\ CallOK(r)
<1> USE DEF ChatInv
<1>0. PICK u \in Students : \/ Status(q, u) \/ JoinStart(q, u) \/ LeaveQueue(q, u)
                            \/ LeaveStart(q, u) \/ \E c \in Chats : SendStart(q, u, c)
      BY DEF Begin
<1>1. CASE Status(q, u)
      BY <1>1, StatusReads DEF Status, ReadStatus, RoomStep
<1>2. CASE JoinStart(q, u)
      BY <1>2, PlainOK DEF JoinStart, Goto, RoomStep
<1>3. CASE LeaveQueue(q, u)
  <2>1. RoomStep BY <1>3, FirstRemoved DEF LeaveQueue, RoomStep
  <2>2. req' = [req EXCEPT ![q] = req[q]] /\ CallOK(req[q])
        BY <1>3 DEF LeaveQueue, CallsOK
  <2> QED BY <1>3, <2>1, <2>2 DEF LeaveQueue
<1>4. CASE LeaveStart(q, u)
  <2>1. PICK c \in Chats : c = Active(u) /\ chat[c].status = "OPEN"
        BY <1>4, ActiveFound DEF LeaveStart, OpenChats
  <2>2. CallOK(Call("close", u, c, chat[c])) BY <2>1, CopyOK DEF Holding
  <2> QED BY <1>4, <2>1, <2>2 DEF LeaveStart, Goto, RoomStep
<1>5. ASSUME NEW c \in Chats, SendStart(q, u, c)
      PROVE  /\ UNCHANGED chat /\ RoomStep
             /\ \E r : req' = [req EXCEPT ![q] = r] /\ CallOK(r)
  <2>1. CallOK(Call("send", u, c, chat[c])) BY <1>5, CopyOK DEF SendStart, Holding
  <2> QED BY <1>5, <2>1 DEF SendStart, Goto, RoomStep
<1> QED BY <1>0, <1>1, <1>2, <1>3, <1>4, <1>5

(* A match: the first suitable student leaves the waiting room, and a new  *)
(* conversation of both is stored.                                         *)
Matches(c, u, i) ==
  /\ i \in 1..Len(queue) /\ ~Waiting(u)
  /\ Creates(c, u, queue[i])
  /\ queue' = RemoveAt(queue, i)

Waits(u) ==
  /\ ~Waiting(u)
  /\ \A i \in 1..Len(queue) : GenderOf[queue[i]] = GenderOf[u]
  /\ queue' = Append(queue, u)

LEMMA JoinQueueStep ==
  ASSUME ChatInv, NEW q \in Requests, JoinQueue(q)
  PROVE  /\ req[q].u \in Students
         /\ req' = [req EXCEPT ![q] = Idle]
         /\ \/ UNCHANGED <<queue, chat>>
            \/ Waits(req[q].u) /\ UNCHANGED chat
            \/ \E c \in Chats, i \in 1..Len(queue) : Matches(c, req[q].u, i)
<1>1. PICK u \in Students : u = req[q].u
      BY DEF JoinQueue, At, ChatInv, CallsOK, CallOK
<1>2. PICK i : i = Opposite(u) OBVIOUS
<1>3. \/ i = 0 /\ \A j \in 1..Len(queue) : GenderOf[queue[j]] = GenderOf[u]
      \/ i \in 1..Len(queue) /\ GenderOf[queue[i]] # GenderOf[u]
      BY <1>2, OppositeFound DEF ChatInv
<1>4. req' = [req EXCEPT ![q] = Idle] BY DEF JoinQueue, Return
<1>5. \/ UNCHANGED <<queue, chat>>
      \/ ~Waiting(u) /\ i = 0 /\ queue' = Append(queue, u) /\ UNCHANGED chat
      \/ /\ ~Waiting(u) /\ i # 0
         /\ \E c \in Chats :
              /\ \A d \in Chats : chat[d].status = "NONE" <=> d >= c
              /\ chat' = [chat EXCEPT ![c] = NewChat(u, queue[i])]
         /\ queue' = RemoveAt(queue, i)
      BY <1>1, <1>2 DEF JoinQueue, TakePeer
<1>6. CASE ~Waiting(u) /\ i = 0 /\ queue' = Append(queue, u) /\ UNCHANGED chat
  <2>1. \A j \in 1..Len(queue) : GenderOf[queue[j]] = GenderOf[u] BY <1>3, <1>6
  <2> QED BY <1>1, <1>4, <1>6, <2>1 DEF Waits
<1>7. CASE /\ ~Waiting(u) /\ i # 0
           /\ \E c \in Chats :
                /\ \A d \in Chats : chat[d].status = "NONE" <=> d >= c
                /\ chat' = [chat EXCEPT ![c] = NewChat(u, queue[i])]
           /\ queue' = RemoveAt(queue, i)
  <2>1. i \in 1..Len(queue) /\ GenderOf[queue[i]] # GenderOf[u] BY <1>3, <1>7
  <2>2. PICK c \in Chats : /\ \A d \in Chats : chat[d].status = "NONE" <=> d >= c
                           /\ chat' = [chat EXCEPT ![c] = NewChat(u, queue[i])]
        BY <1>7
  <2>3. c >= c BY DEF Chats
  <2>4. chat[c] = NoChat BY <2>2, <2>3 DEF ChatInv, StoreOK, ChatOK
  <2> QED BY <1>1, <1>4, <1>7, <2>1, <2>2, <2>4 DEF Matches, Creates
<1> QED BY <1>1, <1>4, <1>5, <1>6, <1>7

LEMMA ProceedStep ==
  ASSUME ChatInv, NEW q \in Requests, Proceed(q)
  PROVE  /\ ChatStep /\ RoomStep
         /\ \E r : req' = [req EXCEPT ![q] = r] /\ CallOK(r)
<1> USE DEF ChatInv
<1>0. CallOK(req[q]) BY DEF CallsOK
<1>1. CASE CloseExpired(q)
  <2>1. ChatStep
        BY <1>0, <1>1, UpdateCloses DEF CloseExpired, At, Holding, ChatStep
  <2> QED BY <1>1, <2>1, IdleOK DEF CloseExpired, Return, RoomStep
<1>2. CASE JoinActive(q)
  <2>1. req[q].u \in Students BY <1>0, <1>2 DEF JoinActive, At, CallOK
  <2> QED BY <1>2, <2>1, StatusReads DEF JoinActive, ReadStatus, ChatStep, RoomStep
<1>3. CASE JoinQueue(q)
  <2>1. PICK u \in Students :
          /\ u = req[q].u
          /\ \/ UNCHANGED <<queue, chat>>
             \/ Waits(u) /\ UNCHANGED chat
             \/ \E c \in Chats, i \in 1..Len(queue) : Matches(c, u, i)
        BY <1>3, JoinQueueStep
  <2>2. ASSUME NEW c \in Chats, NEW i \in 1..Len(queue), Matches(c, u, i)
        PROVE  ChatStep /\ RoomStep
    <3>1. queue[i] \in Students BY DEF RoomOK
    <3> QED BY <2>2, <3>1 DEF Matches, ChatStep, RoomStep
  <2>3. ChatStep /\ RoomStep BY <2>1, <2>2 DEF Waits, ChatStep, RoomStep
  <2> QED BY <1>3, <2>3, JoinQueueStep, IdleOK
<1>4. CASE LeaveClose(q)
  <2>1. req[q].u \in Students BY <1>0, <1>4 DEF LeaveClose, At, CallOK
  <2>2. ChatStep
        BY <1>0, <1>4, <2>1, UpdateCloses DEF LeaveClose, At, Holding
  <2> QED BY <1>4, <2>2, IdleOK DEF LeaveClose, Return, RoomStep
<1>5. CASE SendMessage(q)
  <2>1. ChatStep
        BY <1>0, <1>5, UpdateCloses DEF SendMessage, At, Holding, ChatStep
  <2> QED BY <1>5, <2>1, IdleOK DEF SendMessage, Return, RoomStep
<1> QED BY <1>1, <1>2, <1>3, <1>4, <1>5 DEF Proceed

LEMMA RestStep == ASSUME ChatInv, [Next]_vars PROVE RestOK'
<1> USE RandomChatAssumption DEF RandomChatAssumption, RestOK, ChatInv
<1>1. CASE UNCHANGED vars BY <1>1 DEF vars
<1>2. CASE Tick BY <1>2 DEF Tick
<1>3. ASSUME NEW q \in Requests, Begin(q) PROVE RestOK'
      BY <1>3 DEF Begin, Status, ReadStatus, JoinStart, LeaveQueue, LeaveStart, SendStart
<1>4. ASSUME NEW q \in Requests, CloseExpired(q) \/ JoinActive(q) \/ JoinQueue(q) \/ LeaveClose(q)
      PROVE  RestOK'
      BY <1>4 DEF CloseExpired, JoinActive, ReadStatus, JoinQueue, LeaveClose
<1>5. ASSUME NEW q \in Requests, SendMessage(q) PROVE RestOK'
  <2>1. req[q].u \in Students
        BY <1>5 DEF SendMessage, At, CallsOK, CallOK
  <2> QED BY <1>5, <2>1 DEF SendMessage
<1> QED BY <1>1, <1>2, <1>3, <1>4, <1>5 DEF Next, Proceed

LEMMA ChatInvStep == ASSUME ChatInv, [Next]_vars PROVE ChatInv' /\ ChatStep /\ RoomStep
<1>1. ASSUME ChatStep, RoomStep,
             \/ UNCHANGED req
             \/ \E q \in Requests : \E r : req' = [req EXCEPT ![q] = r] /\ CallOK(r)
      PROVE  ChatInv'
  <2>1. StoreOK' /\ \A s : CallOK(s) => CallOK(s)' BY <1>1, StoreStep DEF ChatInv, RestOK
  <2>2. RoomOK' BY <1>1, RoomStepKeeps DEF ChatInv
  <2>3. CASE UNCHANGED req
    <3>1. req' \in [Requests -> Request] BY <2>3 DEF ChatInv, CallsOK
    <3>2. ASSUME NEW p \in Requests PROVE CallOK(req[p])'
      <4>1. PICK s : s = req[p] OBVIOUS
      <4>2. CallOK(s) /\ req'[p] = s BY <2>3, <4>1 DEF ChatInv, CallsOK
      <4>3. CallOK(s)' BY <2>1, <4>2
      <4> QED BY <4>2, <4>3 DEF CallOK
    <3>3. CallsOK' BY <3>1, <3>2 DEF CallsOK
    <3> QED BY <2>1, <2>2, <3>3, RestStep DEF ChatInv
  <2>4. ASSUME NEW q \in Requests, NEW r, req' = [req EXCEPT ![q] = r], CallOK(r)
        PROVE  ChatInv'
    <3>1. CallsOK' BY <2>1, <2>4, CallMoves DEF ChatInv
    <3> QED BY <2>1, <2>2, <3>1, RestStep DEF ChatInv
  <2> QED BY <1>1, <2>3, <2>4
<1>2. ChatStep /\ RoomStep /\ (\/ UNCHANGED req
                               \/ \E q \in Requests : \E r :
                                    req' = [req EXCEPT ![q] = r] /\ CallOK(r))
  <2>1. CASE UNCHANGED vars \/ Tick BY <2>1 DEF vars, Tick, ChatStep, RoomStep
  <2>2. ASSUME NEW q \in Requests, Begin(q)
        PROVE  ChatStep /\ RoomStep /\ \E r : req' = [req EXCEPT ![q] = r] /\ CallOK(r)
        BY <2>2, BeginStep DEF ChatStep
  <2>3. ASSUME NEW q \in Requests, Proceed(q)
        PROVE  ChatStep /\ RoomStep /\ \E r : req' = [req EXCEPT ![q] = r] /\ CallOK(r)
        BY <2>3, ProceedStep
  <2> QED BY <2>1, <2>2, <2>3 DEF Next
<1> QED BY <1>1, <1>2

LEMMA ChatInitially == Init => ChatInv
<1> SUFFICES ASSUME Init PROVE ChatInv OBVIOUS
<1> USE RandomChatAssumption DEF RandomChatAssumption, Init
<1>1. NoChat \in ChatRec BY DEF NoChat, ChatRec
<1>2. StoreOK BY <1>1 DEF StoreOK, ChatOK, MixedPairs, NoChat
<1>3. CallsOK
  <2>1. Idle \in Request BY IdleOK DEF CallOK
  <2> QED BY <2>1, IdleOK DEF CallsOK
<1>4. queue \in Seq(Students) /\ Len(queue) = 0 OBVIOUS
<1>5. RoomOK BY <1>4 DEF RoomOK, QueuedOnce, NobodyOverlooked
<1> QED BY <1>2, <1>3, <1>5 DEF ChatInv, RestOK

LEMMA ChatInvariance == Spec => []ChatInv
<1>1. ChatInv /\ [Next]_vars => ChatInv' BY ChatInvStep
<1> QED BY <1>1, ChatInitially, PTL DEF Spec

(* The waiting room, the conversations and the calls stay well formed.     *)
THEOREM ChatTypeCorrect == Spec => []TypeOK
<1>1. ChatInv => TypeOK BY DEF ChatInv, StoreOK, RoomOK, RestOK, CallsOK, TypeOK
<1> QED BY <1>1, ChatInvariance, PTL

(* However calls interleave, nobody is in the waiting room twice.          *)
THEOREM StudentsQueueOnce == Spec => []QueuedOnce
<1>1. ChatInv => QueuedOnce BY DEF ChatInv, RoomOK
<1> QED BY <1>1, ChatInvariance, PTL

(* However calls interleave, nobody waits beside a suitable student.       *)
THEOREM NobodyIsOverlooked == Spec => []NobodyOverlooked
<1>1. ChatInv => NobodyOverlooked BY DEF ChatInv, RoomOK
<1> QED BY <1>1, ChatInvariance, PTL

(* A conversation has two participants of opposite genders.                *)
THEOREM PairsAreMixed == Spec => []MixedPairs
<1>1. ChatInv => MixedPairs BY DEF ChatInv, StoreOK
<1> QED BY <1>1, ChatInvariance, PTL

(* However calls interleave, of two that close a conversation the second   *)
(* changes nothing: its copy has an older version.                         *)
THEOREM ClosedStaysClosed == Spec => ClosedIsFinal
<1>1. ChatInv /\ [Next]_vars
        => [\A c \in Chats : chat[c].status = "CLOSED" => chat'[c] = chat[c]]_vars
  <2> SUFFICES ASSUME ChatInv, [Next]_vars, NEW c \in Chats, chat[c].status = "CLOSED"
               PROVE  chat'[c] = chat[c]
      OBVIOUS
  <2>1. ChatStep /\ chat \in [Chats -> ChatRec] BY ChatInvStep DEF ChatInv, StoreOK
  <2> QED BY <2>1 DEF ChatStep, Closes, Creates, NoChat
<1> QED BY <1>1, ChatInvariance, PTL DEF Spec, ClosedIsFinal

-----------------------------------------------------------------------------
(* When calls do not overlap, what a call has read is still so. *)
LoneCall == \A p, q \in Requests : req[p] # Idle /\ req[q] # Idle => p = q

Fresh(r) ==
  /\ r.pc \in Holding => chat[r.c].status = "OPEN"
  /\ r.pc = "joinQueue" => OpenChats(r.u) = {}

LoneInv == LoneCall /\ (\A q \in Requests : Fresh(req[q])) /\ OneActiveChat

(* What a step does then to the waiting room and the conversations. *)
Leaves(i) == queue' = RemoveAt(queue, i) /\ UNCHANGED chat

LoneStep ==
  \/ UNCHANGED <<queue, chat>>
  \/ \E i \in 1..Len(queue) : Leaves(i)
  \/ \E u \in Students : Waits(u) /\ OpenChats(u) = {} /\ UNCHANGED chat
  \/ \E c \in Chats : Closes(c) /\ UNCHANGED queue
  \/ \E c \in Chats, u \in Students, i \in 1..Len(queue) : Matches(c, u, i) /\ OpenChats(u) = {}

LEMMA LoneBegin ==
  ASSUME ChatInv, NEW q \in Requests, Begin(q)
  PROVE  /\ LoneStep /\ UNCHANGED <<chat, spoken>>
         /\ Free(q)
         /\ \E r : req' = [req EXCEPT ![q] = r] /\ Fresh(r)
<1> USE DEF ChatInv
<1>0. PICK u \in Students : \/ Status(q, u) \/ JoinStart(q, u) \/ LeaveQueue(q, u)
                            \/ LeaveStart(q, u) \/ \E c \in Chats : SendStart(q, u, c)
      BY DEF Begin
<1>i. Fresh(Idle) BY DEF Fresh, Idle, Call, Holding
<1>1. CASE Status(q, u)
  <2>1. PICK r : /\ req' = [req EXCEPT ![q] = r]
                 /\ \/ r = Idle
                    \/ /\ Latest(u) \in OpenChats(u)
                       /\ r = Call("expire", u, Latest(u), chat[Latest(u)])
        BY <1>1, StatusReads DEF Status
  <2>2. Fresh(r) BY <1>i, <2>1 DEF Fresh, Call, OpenChats
  <2> QED BY <1>1, <2>1, <2>2 DEF Status, ReadStatus, LoneStep
<1>2. CASE JoinStart(q, u)
  <2>1. PICK r : r = Call(IF Active(u) # None THEN "joinActive" ELSE "joinQueue", u, None, NoChat)
        OBVIOUS
  <2>2. r.u = u /\ r.pc = (IF Active(u) # None THEN "joinActive" ELSE "joinQueue")
        BY <2>1 DEF Call
  <2>3. Active(u) = None => OpenChats(u) = {}
        BY ActiveFound, RandomChatAssumption DEF RandomChatAssumption, OpenChats
  <2>4. Fresh(r) BY <2>2, <2>3 DEF Fresh, Holding
  <2> QED BY <1>2, <2>1, <2>4 DEF JoinStart, Goto, LoneStep
<1>3. CASE LeaveQueue(q, u)
  <2>1. PICK i \in 1..Len(queue) : queue' = RemoveAt(queue, i)
        BY <1>3, FirstRemoved DEF LeaveQueue
  <2>2. req' = [req EXCEPT ![q] = Idle] BY <1>3 DEF LeaveQueue, Free, CallsOK
  <2> QED BY <1>3, <1>i, <2>1, <2>2 DEF LeaveQueue, LoneStep, Leaves
<1>4. CASE LeaveStart(q, u)
  <2>1. Active(u) \in OpenChats(u) BY <1>4, ActiveFound DEF LeaveStart
  <2>2. PICK r : r = Call("close", u, Active(u), chat[Active(u)]) OBVIOUS
  <2>3. Fresh(r) BY <2>1, <2>2 DEF Fresh, Call, OpenChats
  <2> QED BY <1>4, <2>2, <2>3 DEF LeaveStart, Goto, LoneStep
<1>5. ASSUME NEW c \in Chats, SendStart(q, u, c)
      PROVE  /\ LoneStep /\ UNCHANGED <<chat, spoken>>
             /\ Free(q)
             /\ \E r : req' = [req EXCEPT ![q] = r] /\ Fresh(r)
  <2>1. PICK r : r = Call("send", u, c, chat[c]) OBVIOUS
  <2>2. Fresh(r) BY <1>5, <2>1 DEF SendStart, Fresh, Call
  <2> QED BY <1>5, <2>1, <2>2 DEF SendStart, Goto, LoneStep
<1> QED BY <1>0, <1>1, <1>2, <1>3, <1>4, <1>5

LEMMA LoneProceed ==
  ASSUME ChatInv, LoneInv, NEW q \in Requests, Proceed(q)
  PROVE  /\ LoneStep
         /\ req[q] # Idle
         /\ \/ req' = [req EXCEPT ![q] = Idle]
            \/ UNCHANGED chat /\ \E r : req' = [req EXCEPT ![q] = r] /\ Fresh(r)
         /\ \A c \in Chats : spoken'[c] # spoken[c] => chat[c].status = "OPEN"
<1> USE DEF ChatInv
<1>0. CallOK(req[q]) /\ Fresh(req[q]) BY DEF CallsOK, LoneInv
<1>i. req[q] # Idle
      BY DEF Proceed, CloseExpired, JoinActive, JoinQueue, LeaveClose, SendMessage,
             At, Idle, Call
<1>1. CASE CloseExpired(q)
  <2>1. UNCHANGED chat \/ Closes(req[q].c)
        BY <1>0, <1>1, UpdateCloses DEF CloseExpired, At, Holding
  <2>2. req[q].c \in Chats BY <1>0, <1>1 DEF CloseExpired, At, CallOK, Holding
  <2> QED BY <1>1, <1>i, <2>1, <2>2 DEF CloseExpired, Return, LoneStep
<1>2. CASE JoinActive(q)
  <2>1. PICK u \in Students : u = req[q].u BY <1>0, <1>2 DEF JoinActive, At, CallOK
  <2>2. PICK r : /\ req' = [req EXCEPT ![q] = r]
                 /\ \/ r = Idle
                    \/ /\ Latest(u) \in OpenChats(u)
                       /\ r = Call("expire", u, Latest(u), chat[Latest(u)])
        BY <1>2, <2>1, StatusReads DEF JoinActive
  <2>3. r = Idle \/ Fresh(r) BY <2>2 DEF Fresh, Call, OpenChats
  <2>4. UNCHANGED <<queue, chat, spoken>> BY <1>2 DEF JoinActive, ReadStatus
  <2> QED BY <1>i, <2>2, <2>3, <2>4 DEF LoneStep
<1>3. CASE JoinQueue(q)
  <2>1. PICK u \in Students :
          /\ u = req[q].u
          /\ req' = [req EXCEPT ![q] = Idle]
          /\ \/ UNCHANGED <<queue, chat>>
             \/ Waits(u) /\ UNCHANGED chat
             \/ \E c \in Chats, i \in 1..Len(queue) : Matches(c, u, i)
        BY <1>3, JoinQueueStep
  <2>2. OpenChats(u) = {} BY <1>0, <1>3, <2>1 DEF JoinQueue, At, Fresh
  <2>3. UNCHANGED spoken BY <1>3 DEF JoinQueue
  <2> QED BY <1>i, <2>1, <2>2, <2>3 DEF LoneStep
<1>4. CASE LeaveClose(q)
  <2>1. req[q].u \in Students /\ req[q].c \in Chats
        BY <1>0, <1>4 DEF LeaveClose, At, CallOK, Holding
  <2>2. UNCHANGED chat \/ Closes(req[q].c)
        BY <1>0, <1>4, <2>1, UpdateCloses DEF LeaveClose, At, Holding
  <2> QED BY <1>4, <1>i, <2>1, <2>2 DEF LeaveClose, Return, LoneStep
<1>5. CASE SendMessage(q)
  <2>1. UNCHANGED chat \/ Closes(req[q].c)
        BY <1>0, <1>5, UpdateCloses DEF SendMessage, At, Holding
  <2>2. req[q].c \in Chats /\ chat[req[q].c].status = "OPEN"
        BY <1>0, <1>5 DEF SendMessage, At, CallOK, Fresh, Holding
  <2>3. \A c \in Chats : spoken'[c] # spoken[c] => c = req[q].c
        BY <1>5 DEF SendMessage, RestOK
  <2> QED BY <1>5, <1>i, <2>1, <2>2, <2>3 DEF SendMessage, Return, LoneStep
<1> QED BY <1>1, <1>2, <1>3, <1>4, <1>5 DEF Proceed

(* The open conversations of a student after a step that changes them. *)
LEMMA OpenAfterClose ==
  ASSUME StoreOK, NEW c \in Chats, Closes(c)
  PROVE  /\ \A u : OpenChats(u)' = OpenChats(u) \ {c}
         /\ \A d \in Chats : d # c => chat'[d] = chat[d]
<1>1. PICK reason, by : chat' = [chat EXCEPT ![c] = Closed(chat[c], reason, by)]
      BY DEF Closes
<1>2. \A d \in Chats : chat'[d] = IF d = c THEN Closed(chat[c], reason, by) ELSE chat[d]
      BY <1>1 DEF StoreOK
<1>3. Closed(chat[c], reason, by).status = "CLOSED" BY DEF Closed
<1> QED BY <1>2, <1>3 DEF OpenChats

LEMMA OpenAfterMatch ==
  ASSUME StoreOK, NEW c \in Chats, NEW u, NEW v, Creates(c, u, v)
  PROVE  /\ \A w : OpenChats(w)' = IF w \in {u, v} THEN OpenChats(w) \cup {c} ELSE OpenChats(w)
         /\ \A d \in Chats : d # c => chat'[d] = chat[d]
         /\ chat'[c].parts = {u, v} /\ \A w : c \notin OpenChats(w)
<1>1. chat[c] = NoChat /\ \A d \in Chats : chat'[d] = IF d = c THEN NewChat(u, v) ELSE chat[d]
      BY DEF Creates, StoreOK
<1>2. NewChat(u, v).status = "OPEN" /\ NewChat(u, v).parts = {u, v} /\ NoChat.status = "NONE"
      BY DEF NewChat, NoChat
<1> HIDE DEF NewChat, NoChat
<1> QED BY <1>1, <1>2 DEF OpenChats

LEMMA OneActiveStep ==
  ASSUME ChatInv, OneActiveChat, LoneStep
  PROVE  OneActiveChat'
<1> USE DEF ChatInv
<1>1. CASE UNCHANGED <<queue, chat>>
      BY <1>1 DEF OneActiveChat, OpenChats, Waiting
<1>2. ASSUME NEW i \in 1..Len(queue), Leaves(i) PROVE OneActiveChat'
      BY <1>2, RoomShrinks DEF Leaves, OneActiveChat, OpenChats
<1>3. ASSUME NEW u \in Students, Waits(u), OpenChats(u) = {}, UNCHANGED chat
      PROVE  OneActiveChat'
  <2>1. \A v : Waiting(v)' <=> Waiting(v) \/ v = u BY <1>3, RoomGrows DEF Waits
  <2>2. \A v : OpenChats(v)' = OpenChats(v) BY <1>3 DEF OpenChats
  <2> QED BY <1>3, <2>1, <2>2 DEF OneActiveChat
<1>4. ASSUME NEW c \in Chats, Closes(c), UNCHANGED queue PROVE OneActiveChat'
  <2>1. \A u : Waiting(u)' <=> Waiting(u) BY <1>4 DEF Waiting
  <2> QED BY <1>4, <2>1, OpenAfterClose DEF OneActiveChat
<1>5. ASSUME NEW c \in Chats, NEW u \in Students, NEW i \in 1..Len(queue),
             Matches(c, u, i), OpenChats(u) = {}
      PROVE  OneActiveChat'
  <2>1. PICK v \in Students : v = queue[i] BY DEF RoomOK
  <2>2. Waiting(v) BY <2>1 DEF Waiting, Contains
  <2>3. OpenChats(v) = {} BY <2>2 DEF OneActiveChat
  <2>4. \A w : Waiting(w)' <=> Waiting(w) /\ w # v
        BY <1>5, <2>1, RoomShrinks DEF Matches
  <2>5. \A w : OpenChats(w)' = IF w \in {u, v} THEN OpenChats(w) \cup {c} ELSE OpenChats(w)
        BY <1>5, <2>1, OpenAfterMatch DEF Matches
  <2>6. ~Waiting(u) BY <1>5 DEF Matches
  <2> SUFFICES ASSUME NEW w \in Students
               PROVE  /\ \A d, e \in OpenChats(w)' : d = e
                      /\ OpenChats(w)' # {} => ~Waiting(w)'
      BY DEF OneActiveChat
  <2>7. CASE w \in {u, v} BY <1>5, <2>3, <2>4, <2>5, <2>6, <2>7
  <2>8. CASE w \notin {u, v} BY <2>4, <2>5, <2>8 DEF OneActiveChat
  <2> QED BY <2>7, <2>8
<1> QED BY <1>1, <1>2, <1>3, <1>4, <1>5 DEF LoneStep

LEMMA LoneInvStep ==
  ASSUME Serial, ChatInv, LoneInv, [Next]_vars
  PROVE  /\ LoneInv' /\ LoneStep
         /\ \A c \in Chats : spoken'[c] # spoken[c] => chat[c].status = "OPEN"
<1> DEFINE Goal == /\ LoneInv' /\ LoneStep
                   /\ \A c \in Chats : spoken'[c] # spoken[c] => chat[c].status = "OPEN"
<1>0. req \in [Requests -> Request] BY DEF ChatInv, CallsOK
<1>i. Fresh(Idle)' BY DEF Fresh, Idle, Call, Holding
(* Only q is in flight, with what it carries after the step. *)
<1>1. ASSUME NEW q \in Requests, \A p \in Requests : p # q => req[p] = Idle,
             NEW r, req' = [req EXCEPT ![q] = r], Fresh(r)', LoneStep
      PROVE  LoneInv'
  <2>1. \A p \in Requests : req'[p] = IF p = q THEN r ELSE Idle BY <1>0, <1>1
  <2>2. LoneCall' BY <2>1 DEF LoneCall
  <2>3. ASSUME NEW p \in Requests PROVE Fresh(req[p])'
    <3>1. PICK s : s = req'[p] OBVIOUS
    <3>2. Fresh(s)' BY <1>1, <1>i, <2>1, <3>1
    <3> QED BY <3>1, <3>2 DEF Fresh
  <2>4. OneActiveChat' BY <1>1, OneActiveStep DEF LoneInv
  <2> QED BY <2>2, <2>3, <2>4 DEF LoneInv
<1>2. ASSUME NEW r, Fresh(r), UNCHANGED chat PROVE Fresh(r)'
      BY <1>2 DEF Fresh, OpenChats
<1>3. ASSUME NEW q \in Requests, Begin(q) PROVE Goal
  <2>1. PICK r : req' = [req EXCEPT ![q] = r] /\ Fresh(r) BY <1>3, LoneBegin
  <2>2. /\ LoneStep /\ UNCHANGED <<chat, spoken>>
        /\ \A p \in Requests : req[p] = Idle
        BY <1>3, LoneBegin DEF Free
  <2>3. Fresh(r)' BY <1>2, <2>1, <2>2
  <2>4. LoneInv' BY <1>1, <2>1, <2>2, <2>3
  <2> QED BY <2>2, <2>4
<1>4. ASSUME NEW q \in Requests, Proceed(q) PROVE Goal
  <2>1. /\ LoneStep /\ req[q] # Idle
        /\ \A c \in Chats : spoken'[c] # spoken[c] => chat[c].status = "OPEN"
        BY <1>4, LoneProceed
  <2>2. \A p \in Requests : p # q => req[p] = Idle BY <2>1 DEF LoneInv, LoneCall
  <2>3. \E r : req' = [req EXCEPT ![q] = r] /\ Fresh(r)'
        BY <1>2, <1>4, <1>i, LoneProceed
  <2>4. LoneInv' BY <1>1, <2>1, <2>2, <2>3
  <2> QED BY <2>1, <2>4
<1>5. ASSUME UNCHANGED <<queue, chat, spoken, req>> PROVE Goal
  <2>1. LoneCall' BY <1>5 DEF LoneInv, LoneCall
  <2>2. \A q \in Requests : Fresh(req[q])' BY <1>5 DEF LoneInv, Fresh, OpenChats
  <2>3. LoneStep BY <1>5 DEF LoneStep
  <2>4. OneActiveChat' BY <2>3, OneActiveStep DEF LoneInv
  <2> QED BY <1>5, <2>1, <2>2, <2>3, <2>4 DEF LoneInv
<1> HIDE DEF Goal
<1>6. ASSUME UNCHANGED vars \/ Tick PROVE Goal
      BY <1>5, <1>6 DEF vars, Tick
<1>7. Goal BY <1>3, <1>4, <1>6 DEF Next
<1> QED BY <1>7 DEF Goal

LEMMA LoneInitially == Init => LoneInv
BY DEF Init, LoneInv, LoneCall, Fresh, Holding, Idle, Call, OneActiveChat, OpenChats, NoChat

LEMMA LoneInvariance == ASSUME Serial PROVE Spec => []LoneInv
<1>1. ChatInv /\ LoneInv /\ [Next]_vars => LoneInv' BY LoneInvStep
<1> QED BY <1>1, ChatInvariance, LoneInitially, PTL DEF Spec

(* When calls do not overlap a student is in one open conversation at      *)
(* most, and does not wait while in one.                                   *)
THEOREM OneChatAtATime == ASSUME Serial PROVE Spec => []OneActiveChat
<1>1. LoneInv => OneActiveChat BY DEF LoneInv
<1> QED BY <1>1, LoneInvariance, PTL

(* When calls do not overlap no message reaches a closed conversation.     *)
THEOREM NoMessageIsLate == ASSUME Serial PROVE Spec => NoLateMessage
<1>1. ChatInv /\ LoneInv /\ [Next]_vars
        => [\A c \in Chats : spoken'[c] # spoken[c] => chat[c].status = "OPEN"]_vars
      BY LoneInvStep
<1> QED BY <1>1, ChatInvariance, LoneInvariance, PTL DEF Spec, NoLateMessage

-----------------------------------------------------------------------------
(* The matchmaker's view: who waits, and who talks to whom. *)
waiting == Range(queue)
partner == [u \in Students |-> PartnerOf(u)]

LEMMA RangeContains ==
  ASSUME NEW S, NEW s \in Seq(S) PROVE \A u : u \in Range(s) <=> Contains(s, u)
<1>1. DOMAIN s = 1..Len(s) OBVIOUS
<1> QED BY <1>1 DEF Range, Contains

LEMMA WaitingView ==
  ASSUME RoomOK, RoomOK'
  PROVE  \A u : (u \in waiting <=> Waiting(u)) /\ (u \in waiting' <=> Waiting(u)')
BY RangeContains DEF RoomOK, waiting, Waiting

LEMMA PartnerView ==
  ASSUME StoreOK, NEW w \in Students, NEW x \in Students, NEW c \in Chats,
         OpenChats(w) = {c}, chat[c].parts = {w, x}, x # w
  PROVE  PartnerOf(w) = x
<1>1. Active(w) = c BY ActiveFound
<1> QED BY <1>1 DEF PartnerOf

LEMMA NoPartnerView == ASSUME NEW w, OpenChats(w) = {} PROVE PartnerOf(w) = None
BY DEF PartnerOf

(* The view of a student whose open conversations did not change. *)
LEMMA PartnerStays ==
  ASSUME NEW w, OpenChats(w)' = OpenChats(w),
         \A d \in OpenChats(w) : chat'[d] = chat[d]
  PROVE  PartnerOf(w)' = PartnerOf(w)
<1>1. CASE OpenChats(w) = {} BY <1>1 DEF PartnerOf
<1>2. CASE OpenChats(w) # {}
  <2>1. PICK d \in OpenChats(w) : d = Active(w) BY <1>2, ActiveFound
  <2>2. Active(w)' = d BY <2>1 DEF Active
  <2>3. PICK P : P = chat[d].parts OBVIOUS
  <2>4. chat'[d].parts = P BY <2>1, <2>3
  <2>5. PartnerOf(w) = CHOOSE v \in P : v # w BY <1>2, <2>1, <2>3 DEF PartnerOf
  <2>6. PartnerOf(w)' = CHOOSE v \in P : v # w
        BY <1>2, <2>2, <2>4 DEF PartnerOf
  <2> QED BY <2>5, <2>6
<1> QED BY <1>1, <1>2

LEMMA PartnersStay ==
  ASSUME UNCHANGED chat
  PROVE  partner' = partner
<1>1. \A u : OpenChats(u)' = OpenChats(u) BY DEF OpenChats
<1>2. \A u : PartnerOf(u)' = PartnerOf(u) BY <1>1, PartnerStays
<1> QED BY <1>2 DEF partner

LEMMA MatchmakerStep ==
  ASSUME ChatInv, RoomOK', OneActiveChat, LoneStep
  PROVE  Match!Next \/ UNCHANGED <<waiting, partner>>
<1> USE RandomChatAssumption DEF RandomChatAssumption, ChatInv
<1>0. \A u : (u \in waiting <=> Waiting(u)) /\ (u \in waiting' <=> Waiting(u)')
      BY WaitingView
<1>s. \A w \in Students : partner[w] = PartnerOf(w) /\ partner'[w] = PartnerOf(w)'
      BY DEF partner
<1>1. CASE UNCHANGED <<queue, chat>>
      BY <1>1, PartnersStay DEF waiting
<1>2. ASSUME NEW i \in 1..Len(queue), Leaves(i) PROVE Match!Next
  <2>1. PICK u \in Students : u = queue[i] BY DEF RoomOK
  <2>2. \A v : Waiting(v)' <=> Waiting(v) /\ v # u
        BY <1>2, <2>1, RoomShrinks DEF Leaves
  <2>3. waiting' = waiting \ {u} BY <1>0, <2>2
  <2>4. u \in waiting BY <1>0, <2>1 DEF Waiting, Contains
  <2>5. partner' = partner BY <1>2, PartnersStay DEF Leaves
  <2>6. Match!Cancel(u) BY <2>3, <2>4, <2>5 DEF Match!Cancel, waiting, partner
  <2> QED BY <2>6 DEF Match!Next
<1>3. ASSUME NEW u \in Students, Waits(u), OpenChats(u) = {}, UNCHANGED chat
      PROVE  Match!Next
  <2>1. \A v : Waiting(v)' <=> Waiting(v) \/ v = u BY <1>3, RoomGrows DEF Waits
  <2>2. waiting' = waiting \cup {u} BY <1>0, <2>1
  <2>3. partner' = partner BY <1>3, PartnersStay
  <2>4. u \notin waiting /\ partner[u] = None
        BY <1>0, <1>3, <1>s, NoPartnerView DEF Waits
  <2>5. \A v \in waiting : GenderOf[v] = GenderOf[u]
        BY <1>0, <1>3 DEF Waits, Waiting, Contains
  <2>6. Match!Wait(u)
        BY <2>2, <2>3, <2>4, <2>5 DEF Match!Wait, Match!Idle, Match!Suitable, waiting, partner
  <2> QED BY <2>6 DEF Match!Next
<1>4. ASSUME NEW c \in Chats, Closes(c), UNCHANGED queue PROVE Match!Next
  <2>1. PICK u, v \in Students : chat[c].parts = {u, v} /\ GenderOf[u] # GenderOf[v]
        BY <1>4 DEF Closes, StoreOK, MixedPairs
  <2>2. OpenChats(u) = {c} /\ OpenChats(v) = {c}
        BY <1>4, <2>1 DEF Closes, OneActiveChat, OpenChats
  <2>3. PartnerOf(u) = v BY <2>1, <2>2, PartnerView
  <2>4. PartnerOf(u)' = None /\ PartnerOf(v)' = None
    <3>1. OpenChats(u)' = {} /\ OpenChats(v)' = {} BY <1>4, <2>2, OpenAfterClose
    <3> QED BY <3>1 DEF PartnerOf
  <2>5. ASSUME NEW w \in Students, w # u, w # v PROVE PartnerOf(w)' = PartnerOf(w)
    <3>1. c \notin OpenChats(w) BY <2>1, <2>5 DEF OpenChats
    <3>2. OpenChats(w)' = OpenChats(w) BY <1>4, <3>1, OpenAfterClose
    <3>3. \A d \in OpenChats(w) : chat'[d] = chat[d]
          BY <1>4, <3>1, OpenAfterClose DEF OpenChats
    <3> QED BY <3>2, <3>3, PartnerStays
  <2>6. partner' = [partner EXCEPT ![u] = None, ![v] = None]
        BY <2>4, <2>5 DEF partner
  <2>7. partner[u] = v /\ v # None /\ waiting' = waiting
        BY <1>4, <1>s, <2>3 DEF waiting
  <2>8. Match!End(u) BY <2>6, <2>7 DEF Match!End, waiting, partner
  <2> QED BY <2>8 DEF Match!Next
<1>5. ASSUME NEW c \in Chats, NEW u \in Students, NEW i \in 1..Len(queue),
             Matches(c, u, i), OpenChats(u) = {}
      PROVE  Match!Next
  <2>1. PICK v \in Students : v = queue[i] BY DEF RoomOK
  <2>2. Waiting(v) /\ ~Waiting(u) /\ GenderOf[u] # GenderOf[v]
        BY <1>5, <2>1 DEF Matches, Creates, Waiting, Contains
  <2>3. OpenChats(v) = {} BY <2>2 DEF OneActiveChat
  <2>4. waiting' = waiting \ {v}
    <3>1. \A w : Waiting(w)' <=> Waiting(w) /\ w # v
          BY <1>5, <2>1, RoomShrinks DEF Matches
    <3> QED BY <1>0, <3>1
  <2>5. /\ \A w : OpenChats(w)' = IF w \in {u, v} THEN OpenChats(w) \cup {c} ELSE OpenChats(w)
        /\ \A d \in Chats : d # c => chat'[d] = chat[d]
        /\ chat'[c].parts = {u, v} /\ \A w : c \notin OpenChats(w)
        BY <1>5, <2>1, OpenAfterMatch DEF Matches
  <2>6. OpenChats(u)' = {c} /\ OpenChats(v)' = {c} BY <1>5, <2>3, <2>5
  <2>7. PartnerOf(u)' = v /\ PartnerOf(v)' = u
    <3>1. Active(u)' = c /\ Active(v)' = c
          BY <2>6, Least DEF Active, Chats
    <3> QED BY <2>2, <2>5, <2>6, <3>1 DEF PartnerOf
  <2>8. ASSUME NEW w \in Students, w # u, w # v PROVE PartnerOf(w)' = PartnerOf(w)
    <3>1. \A d \in OpenChats(w) : chat'[d] = chat[d] BY <2>5 DEF OpenChats
    <3> QED BY <2>5, <2>8, <3>1, PartnerStays
  <2>9. partner' = [partner EXCEPT ![u] = v, ![v] = u]
        BY <2>2, <2>7, <2>8 DEF partner
  <2>10. u \notin waiting /\ partner[u] = None /\ v \in waiting
         BY <1>0, <1>5, <1>s, <2>2, NoPartnerView
  <2>11. Match!Match(u, v)
         BY <2>2, <2>4, <2>9, <2>10
         DEF Match!Match, Match!Idle, Match!Suitable, waiting, partner
  <2> QED BY <2>11 DEF Match!Next
<1> QED BY <1>1, <1>2, <1>3, <1>4, <1>5 DEF LoneStep

(* When calls do not overlap random chat is the abstract matchmaker.       *)
THEOREM ChatIsMatchmaker == ASSUME Serial PROVE Spec => RefinesMatchmaker
<1>1. Init => Match!Init
  <2> SUFFICES ASSUME Init PROVE Match!Init OBVIOUS
  <2>1. \A u : OpenChats(u) = {} BY DEF Init, OpenChats, NoChat
  <2>2. \A u : PartnerOf(u) = None BY <2>1, NoPartnerView
  <2>3. Range(queue) = {} BY DEF Init, Range
  <2> QED BY <2>2, <2>3 DEF Match!Init
<1>2. ChatInv /\ LoneInv /\ [Next]_vars
        => [Match!Next]_<<Range(queue), [u \in Students |-> PartnerOf(u)]>>
  <2> SUFFICES ASSUME ChatInv, LoneInv, [Next]_vars
               PROVE  Match!Next \/ UNCHANGED <<waiting, partner>>
      BY DEF waiting, partner
  <2>1. LoneStep /\ RoomOK' BY ChatInvStep, LoneInvStep DEF ChatInv
  <2> QED BY <2>1, MatchmakerStep DEF LoneInv
<1> QED BY <1>1, <1>2, ChatInvariance, LoneInvariance, PTL
        DEF Spec, RefinesMatchmaker, Match!Spec
=============================================================================
