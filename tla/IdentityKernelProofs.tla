------------------------- MODULE IdentityKernelProofs -------------------------
(***************************************************************************)
(* What the identity kernel keeps for any number of users, sessions and    *)
(* calls.  AccountInv says what the users and the calls in flight hold,    *)
(* SessionInv what the sessions do; SerialInv adds what a lone call knows  *)
(* of the user it is about to change.                                      *)
(***************************************************************************)
EXTENDS IdentityKernel, FiniteSetTheorems, TLAPS

(* A call that is under way has checked its arguments. *)
CallOK(q) ==
  /\ At(q, "idle") => req[q] = Idle
  /\ At(q, "store") => /\ req[q].name \in Names
                       /\ req[q].email \in Emails
                       /\ req[q].password \in Passwords
  /\ req[q].pc \in {"refuse", "admit", "history", "set"} =>
       req[q].u \in Users /\ Registered(req[q].u)
  /\ req[q].pc \in {"history", "set"} => req[q].password \in Passwords

UserOK(u) ==
  /\ ~Registered(u) => user[u] = NoUser
  /\ Registered(u) => /\ user[u].name \in Names
                      /\ user[u].email \in Emails
                      /\ user[u].history # <<>>
                      /\ user[u].history[Len(user[u].history)] = user[u].password

AccountInv ==
  /\ TypeOK
  /\ \A q \in Requests : CallOK(q)
  /\ \A u \in Users : UserOK(u)

(* A stored session descends from a stored login. *)
SessionOK(s) ==
  session[s] = NoSession \/
    /\ session[s].status # "NONE"
    /\ session[s].user \in Users
    /\ session[s].login \in Sessions
    /\ session[session[s].login].login = session[s].login

SessionInv == (\A s \in Sessions : SessionOK(s)) /\ OneLivePerLogin

-----------------------------------------------------------------------------
LEMMA AccountInitially == Init => AccountInv
<1> SUFFICES ASSUME Init PROVE AccountInv OBVIOUS
<1> USE IdentityKernelAssumption DEF IdentityKernelAssumption
<1>1. NoUser \in UserRec
  <2>1. <<>> \in Seq(Passwords) OBVIOUS
  <2>2. 0 \in 0..LockAfter OBVIOUS
  <2> QED BY <2>1, <2>2 DEF NoUser, UserRec
<1>2. NoSession \in SessionRec BY DEF NoSession, SessionRec
<1>3. Idle \in Request BY DEF Idle, Call, Request
<1>4. TypeOK BY <1>1, <1>2, <1>3 DEF Init, TypeOK, NoUser
<1>5. \A q \in Requests : CallOK(q) BY DEF Init, CallOK, At, Idle, Call
<1>6. \A u \in Users : UserOK(u) BY DEF Init, UserOK, Registered, NoUser
<1> QED BY <1>4, <1>5, <1>6 DEF AccountInv

(* The history after a change of password. *)
LEMMA NewHistory ==
  ASSUME NEW h \in Seq(Passwords), NEW p \in Passwords, Len(h) <= HistoryLimit,
         NEW g, g = IF Len(Append(h, p)) > HistoryLimit THEN Tail(Append(h, p)) ELSE Append(h, p)
  PROVE  /\ g \in Seq(Passwords) /\ Len(g) <= HistoryLimit
         /\ g # <<>> /\ g[Len(g)] = p
         /\ (\A i, j \in DOMAIN h : h[i] = h[j] => i = j) /\ (\A i \in DOMAIN h : h[i] # p)
              => \A i, j \in DOMAIN g : g[i] = g[j] => i = j
<1> USE IdentityKernelAssumption DEF IdentityKernelAssumption
<1> DEFINE a == Append(h, p)
<1>1. a \in Seq(Passwords) /\ Len(a) = Len(h) + 1 /\ a[Len(a)] = p
      /\ \A i \in 1..Len(h) : a[i] = h[i]
      OBVIOUS
<1>2. DOMAIN h = 1..Len(h) /\ DOMAIN a = 1..Len(a) /\ Len(h) \in Nat
      OBVIOUS
<1>3. Tail(a) \in Seq(Passwords) /\ Len(Tail(a)) = Len(h)
      /\ \A i \in 1..Len(h) : Tail(a)[i] = a[i + 1]
      OBVIOUS
<1>8. a # <<>>
  <2>1. Len(a) # 0 /\ Len(<<>>) = 0 BY <1>1, <1>2
  <2> QED BY <2>1
<1>4. g = IF Len(a) > HistoryLimit THEN Tail(a) ELSE a
      OBVIOUS
<1> HIDE DEF a
<1>5. ASSUME \A i, j \in DOMAIN h : h[i] = h[j] => i = j, \A i \in DOMAIN h : h[i] # p
      PROVE  \A i, j \in 1..Len(a) : a[i] = a[j] => i = j
  <2> SUFFICES ASSUME NEW i \in 1..Len(a), NEW j \in 1..Len(a), a[i] = a[j] PROVE i = j
      OBVIOUS
  <2>1. CASE i = Len(a) BY <1>1, <1>2, <1>5, <2>1
  <2>2. CASE j = Len(a) BY <1>1, <1>2, <1>5, <2>2
  <2>3. CASE i # Len(a) /\ j # Len(a) BY <1>1, <1>2, <1>5, <2>3
  <2> QED BY <2>1, <2>2, <2>3
<1>6. CASE Len(a) > HistoryLimit
  <2>1. g \in Seq(Passwords) /\ Len(g) = Len(h) /\ DOMAIN g = 1..Len(h)
        BY <1>3, <1>4, <1>6
  <2>2. \A i \in 1..Len(h) : g[i] = a[i + 1]
        BY <1>3, <1>4, <1>6
  <2>3. Len(h) >= 1 BY <1>1, <1>2, <1>6
  <2>4. g # <<>> /\ g[Len(g)] = p
        BY <1>1, <2>1, <2>2, <2>3
  <2>5. ASSUME \A i, j \in 1..Len(a) : a[i] = a[j] => i = j
        PROVE  \A i, j \in DOMAIN g : g[i] = g[j] => i = j
    <3> SUFFICES ASSUME NEW i \in 1..Len(h), NEW j \in 1..Len(h), g[i] = g[j] PROVE i = j
        BY <2>1
    <3>1. i + 1 \in 1..Len(a) /\ j + 1 \in 1..Len(a) BY <1>1, <1>2
    <3>2. a[i + 1] = a[j + 1] BY <2>2
    <3>3. i + 1 = j + 1 BY <2>5, <3>1, <3>2
    <3> QED BY <1>2, <3>3
  <2> QED BY <1>5, <2>1, <2>4, <2>5
<1>7. CASE ~(Len(a) > HistoryLimit)
  <2>1. g = a BY <1>4, <1>7
  <2>2. g # <<>> BY <1>8, <2>1
  <2> QED BY <1>1, <1>2, <1>5, <1>7, <2>1, <2>2
<1> QED BY <1>6, <1>7

-----------------------------------------------------------------------------
(* A call moves: what it carries is in order. *)
LEMMA CallStep ==
  ASSUME AccountInv, NEW q \in Requests, NEW r \in Request, req' = [req EXCEPT ![q] = r],
         \A u \in Users : Registered(u) => Registered(u)',
         r.pc = "idle" => r = Idle,
         r.pc = "store" => r.name \in Names /\ r.email \in Emails /\ r.password \in Passwords,
         r.pc \in {"refuse", "admit", "history", "set"} => r.u \in Users /\ Registered(r.u)',
         r.pc \in {"history", "set"} => r.password \in Passwords
  PROVE  req' \in [Requests -> Request] /\ \A p \in Requests : CallOK(p)'
<1>1. req \in [Requests -> Request] BY DEF AccountInv, TypeOK
<1>2. \A p \in Requests : req'[p] = IF p = q THEN r ELSE req[p] BY <1>1
<1>3. ASSUME NEW p \in Requests PROVE CallOK(p)'
  <2>1. CASE p = q
    <3>1. req'[p] = r BY <1>2, <2>1
    <3> QED BY <3>1 DEF CallOK, At
  <2>2. CASE p # q
    <3>1. req'[p] = req[p] BY <1>2, <2>2
    <3>2. CallOK(p) BY DEF AccountInv
    <3> QED BY <3>1, <3>2 DEF CallOK, At
  <2> QED BY <2>1, <2>2
<1> QED BY <1>1, <1>3

(* No call moves: whoever is registered stays so. *)
LEMMA CallsStay ==
  ASSUME AccountInv, UNCHANGED req, \A u \in Users : Registered(u) => Registered(u)'
  PROVE  req' \in [Requests -> Request] /\ \A p \in Requests : CallOK(p)'
BY DEF AccountInv, TypeOK, CallOK, At

(* A user is written, whole. *)
LEMMA UserStep ==
  ASSUME AccountInv, NEW u \in Users, NEW r \in UserRec, user' = [user EXCEPT ![u] = r],
         Len(r.history) <= HistoryLimit,
         r.name \in Names, r.email \in Emails,
         r.history # <<>>, r.history[Len(r.history)] = r.password
  PROVE  /\ user' \in [Users -> UserRec]
         /\ \A v \in Users : Len(user'[v].history) <= HistoryLimit
         /\ \A v \in Users : UserOK(v)'
         /\ \A v \in Users : Registered(v) => Registered(v)'
<1> USE IdentityKernelAssumption DEF IdentityKernelAssumption
<1>1. user \in [Users -> UserRec] BY DEF AccountInv, TypeOK
<1>2. \A v \in Users : user'[v] = IF v = u THEN r ELSE user[v] BY <1>1
<1>3. r.name # None OBVIOUS
<1>4. ASSUME NEW v \in Users
      PROVE  Len(user'[v].history) <= HistoryLimit /\ UserOK(v)' /\ (Registered(v) => Registered(v)')
  <2>1. CASE v = u
    <3>1. user'[v] = r BY <1>2, <2>1
    <3> QED BY <1>3, <3>1 DEF UserOK, Registered
  <2>2. CASE v # u
    <3>1. user'[v] = user[v] BY <1>2, <2>2
    <3>2. UserOK(v) /\ Len(user[v].history) <= HistoryLimit BY DEF AccountInv, TypeOK
    <3> QED BY <3>1, <3>2 DEF UserOK, Registered
  <2> QED BY <2>1, <2>2
<1> QED BY <1>1, <1>4

LEMMA UsersStay ==
  ASSUME AccountInv, UNCHANGED user
  PROVE  /\ user' \in [Users -> UserRec]
         /\ \A v \in Users : Len(user'[v].history) <= HistoryLimit
         /\ \A v \in Users : UserOK(v)'
         /\ \A v \in Users : Registered(v) => Registered(v)'
BY DEF AccountInv, TypeOK, UserOK, Registered

(* What the users and the calls do not show of the type invariant. *)
RestOK == /\ otp \in [Emails -> BOOLEAN]
          /\ requested \in [Emails -> Nat]
          /\ session \in [Sessions -> SessionRec]
          /\ overlap \in BOOLEAN

LEMMA RestStep == ASSUME AccountInv, [Next]_vars PROVE RestOK'
<1> USE DEF AccountInv, TypeOK, RestOK
<1>1. CASE UNCHANGED vars BY <1>1 DEF vars
<1>2. ASSUME NEW e \in Emails, RequestEduOtp(e) \/ OtpExpires(e) PROVE RestOK'
  <2>1. otp' \in [Emails -> BOOLEAN]
    <3>1. otp' = [otp EXCEPT ![e] = TRUE] \/ otp' = [otp EXCEPT ![e] = FALSE]
          BY Zenon, <1>2 DEF RequestEduOtp, OtpExpires
    <3> QED BY Zenon, <3>1
  <2>2. requested' \in [Emails -> Nat] /\ UNCHANGED <<session, overlap>>
        BY <1>2 DEF RequestEduOtp, OtpExpires
  <2> QED BY <2>1, <2>2
<1>3. ASSUME NEW q \in Requests, Begin(q) PROVE RestOK'
  <2>1. otp' \in [Emails -> BOOLEAN]
    <3>1. UNCHANGED otp \/ \E e \in Emails : otp' = [otp EXCEPT ![e] = FALSE]
          BY Zenon, <1>3 DEF Begin, VerifyOtpAndRegister, Login, ChangePassword
    <3> QED BY Zenon, <3>1
  <2>2. UNCHANGED <<requested, session, overlap>>
        BY Zenon, <1>3 DEF Begin, VerifyOtpAndRegister, Login, ChangePassword
  <2> QED BY <2>1, <2>2
<1>4. ASSUME NEW q \in Requests, NEW s \in Sessions, Admit(q, s) PROVE RestOK'
  <2>1. req[q].u \in Users BY <1>4 DEF Admit, CallOK, At
  <2>2. [user |-> req[q].u, login |-> s, status |-> "LIVE"] \in SessionRec
        BY <2>1 DEF SessionRec
  <2> QED BY <1>4, <2>2 DEF Admit
<1>5. ASSUME NEW q \in Requests,
             \/ \E u \in Users : StoreUser(q, u)
             \/ Refuse(q) \/ CheckHistory(q) \/ SetPassword(q)
      PROVE  RestOK'
      BY <1>5 DEF StoreUser, Refuse, CheckHistory, SetPassword
<1>6. ASSUME NEW u \in Users, LockEnds(u) PROVE RestOK'
      BY <1>6 DEF LockEnds
<1>7. ASSUME NEW u, RevokeAllSessions(u) PROVE RestOK'
      BY <1>7 DEF RevokeAllSessions, SessionRec
<1>8. ASSUME NEW s \in Sessions, SessionExpires(s) PROVE RestOK'
      BY <1>8 DEF SessionExpires, SessionRec
<1>9. ASSUME NEW s \in Sessions, NEW t \in Sessions, RefreshSession(s, t) PROVE RestOK'
      BY <1>9 DEF RefreshSession, SessionRec
<1> HIDE DEF AccountInv, TypeOK, RestOK
<1> QED BY <1>1, <1>2, <1>3, <1>4, <1>5, <1>6, <1>7, <1>8, <1>9 DEF Next, Proceed, ReuseToken

(* The users, their number of passwords and the calls. *)
UsersOK == /\ user \in [Users -> UserRec]
           /\ \A v \in Users : Len(user[v].history) <= HistoryLimit
           /\ \A v \in Users : UserOK(v)
CallsOK == req \in [Requests -> Request] /\ \A p \in Requests : CallOK(p)

LEMMA AccountStep == AccountInv /\ [Next]_vars => AccountInv'
<1> SUFFICES ASSUME AccountInv, [Next]_vars PROVE UsersOK' /\ CallsOK'
    BY RestStep DEF AccountInv, TypeOK, RestOK, UsersOK, CallsOK
<1> USE DEF UsersOK, CallsOK
<1> USE IdentityKernelAssumption DEF IdentityKernelAssumption
<1>0. /\ user \in [Users -> UserRec] /\ req \in [Requests -> Request]
      /\ \A u \in Users : UserOK(u) /\ Len(user[u].history) <= HistoryLimit
      /\ \A q \in Requests : CallOK(q)
      BY DEF AccountInv, TypeOK
<1>i. Idle \in Request /\ Idle.pc = "idle" BY DEF Idle, Call, Request
<1>1. CASE UNCHANGED <<user, req>>
      BY <1>1, UsersStay, CallsStay
<1>2. ASSUME NEW q \in Requests, NEW e \in Emails, NEW name \in Names, NEW pw \in Passwords,
             VerifyOtpAndRegister(q, e, name, pw)
      PROVE  UsersOK' /\ CallsOK'
  <2> DEFINE r == Call("store", None, name, e, pw)
  <2>1. r \in Request /\ r.pc = "store" /\ r.name = name /\ r.email = e /\ r.password = pw
        BY DEF Call, Request
  <2>2. req' = [req EXCEPT ![q] = r] /\ UNCHANGED user
        BY <1>2 DEF VerifyOtpAndRegister, Goto
  <2> HIDE DEF r
  <2> QED BY <2>1, <2>2, UsersStay, CallStep
<1>3. ASSUME NEW q \in Requests, NEW u \in Users, NEW pw \in Passwords, Login(q, u, pw)
      PROVE  UsersOK' /\ CallsOK'
  <2> DEFINE r == Call(IF pw = user[u].password THEN "admit" ELSE "refuse", u, None, None, None)
  <2>1. r \in Request /\ r.pc \in {"admit", "refuse"} /\ r.u = u
        BY DEF Call, Request
  <2>2. req' = [req EXCEPT ![q] = r] /\ UNCHANGED user /\ Registered(u)
        BY <1>3 DEF Login, Goto
  <2>3. Registered(u)' BY <2>2 DEF Registered
  <2> HIDE DEF r
  <2> QED BY <2>1, <2>2, <2>3, UsersStay, CallStep
<1>4. ASSUME NEW q \in Requests, NEW u \in Users, NEW pw \in Passwords, ChangePassword(q, u, pw)
      PROVE  UsersOK' /\ CallsOK'
  <2> DEFINE r == Call("history", u, None, None, pw)
  <2>1. r \in Request /\ r.pc = "history" /\ r.u = u /\ r.password = pw
        BY DEF Call, Request
  <2>2. req' = [req EXCEPT ![q] = r] /\ UNCHANGED user /\ Registered(u)
        BY <1>4 DEF ChangePassword, Goto
  <2>3. Registered(u)' BY <2>2 DEF Registered
  <2> HIDE DEF r
  <2> QED BY <2>1, <2>2, <2>3, UsersStay, CallStep
<1>5. ASSUME NEW q \in Requests, NEW u \in Users, StoreUser(q, u)
      PROVE  UsersOK' /\ CallsOK'
  <2> DEFINE r == [name |-> req[q].name, email |-> req[q].email, password |-> req[q].password,
                   history |-> <<req[q].password>>, failed |-> 0, locked |-> FALSE]
  <2>1. req[q].name \in Names /\ req[q].email \in Emails /\ req[q].password \in Passwords
        BY <1>0, <1>5 DEF StoreUser, At, CallOK
  <2>2. /\ <<req[q].password>> \in Seq(Passwords) /\ Len(<<req[q].password>>) = 1
        /\ <<req[q].password>>[1] = req[q].password /\ <<req[q].password>> # <<>>
        BY <2>1
  <2>3. 0 \in 0..LockAfter OBVIOUS
  <2>4. r \in UserRec BY <2>1, <2>2, <2>3 DEF UserRec
  <2>5. user' = [user EXCEPT ![u] = r] /\ req' = [req EXCEPT ![q] = Idle]
        BY <1>5 DEF StoreUser, Return, Goto
  <2>6. r.history # <<>> /\ r.history[Len(r.history)] = r.password /\ Len(r.history) <= HistoryLimit
        /\ r.name \in Names /\ r.email \in Emails
        BY <2>1, <2>2
  <2> HIDE DEF r
  <2>7. UsersOK' /\ \A v \in Users : Registered(v) => Registered(v)'
        BY <2>4, <2>5, <2>6, UserStep
  <2> QED BY <1>i, <2>5, <2>7, CallStep
<1>6. ASSUME NEW q \in Requests, Refuse(q) PROVE UsersOK' /\ CallsOK'
  <2> DEFINE u == req[q].u
             failed == IF user[u].failed < LockAfter THEN user[u].failed + 1 ELSE LockAfter
             r == [user[u] EXCEPT !.failed = failed,
                                  !.locked = user[u].locked \/ failed >= LockAfter]
  <2>1. u \in Users /\ Registered(u)
        BY <1>0, <1>6 DEF Refuse, At, CallOK
  <2>2. user[u] \in UserRec /\ UserOK(u) /\ Len(user[u].history) <= HistoryLimit
        BY <1>0, <2>1
  <2>3. failed \in 0..LockAfter
    <3>1. user[u].failed \in 0..LockAfter BY <2>2 DEF UserRec
    <3> QED BY <3>1
  <2>4. user' = [user EXCEPT ![u] = r] /\ req' = [req EXCEPT ![q] = Idle]
        BY <1>6 DEF Refuse, Return, Goto
  <2> HIDE DEF failed, u
  <2>5. r \in UserRec /\ r.history = user[u].history /\ r.password = user[u].password
        /\ r.name = user[u].name /\ r.email = user[u].email
        BY <2>2, <2>3 DEF UserRec
  <2> HIDE DEF r
  <2>6. UsersOK' /\ \A v \in Users : Registered(v) => Registered(v)'
        BY <2>1, <2>2, <2>4, <2>5, UserStep DEF UserOK
  <2> QED BY <1>i, <2>4, <2>6, CallStep
<1>7. ASSUME NEW q \in Requests, NEW s \in Sessions, Admit(q, s) PROVE UsersOK' /\ CallsOK'
  <2> DEFINE u == req[q].u
             r == [user[u] EXCEPT !.failed = 0, !.locked = FALSE]
  <2>1. u \in Users /\ Registered(u)
        BY <1>0, <1>7 DEF Admit, At, CallOK
  <2>2. user[u] \in UserRec /\ UserOK(u) /\ Len(user[u].history) <= HistoryLimit
        BY <1>0, <2>1
  <2>3. 0 \in 0..LockAfter OBVIOUS
  <2>4. user' = [user EXCEPT ![u] = r] /\ req' = [req EXCEPT ![q] = Idle]
        BY <1>7 DEF Admit, Return, Goto
  <2> HIDE DEF u
  <2>5. r \in UserRec /\ r.history = user[u].history /\ r.password = user[u].password
        /\ r.name = user[u].name /\ r.email = user[u].email
        BY <2>2, <2>3 DEF UserRec
  <2> HIDE DEF r
  <2>6. UsersOK' /\ \A v \in Users : Registered(v) => Registered(v)'
        BY <2>1, <2>2, <2>4, <2>5, UserStep DEF UserOK
  <2> QED BY <1>i, <2>4, <2>6, CallStep
<1>8. ASSUME NEW u \in Users, LockEnds(u) PROVE UsersOK' /\ CallsOK'
  <2> DEFINE r == [user[u] EXCEPT !.locked = FALSE]
  <2>1. user[u] \in UserRec /\ UserOK(u) /\ Len(user[u].history) <= HistoryLimit
        BY <1>0
  <2>2. Registered(u) BY <1>8, <2>1 DEF LockEnds, UserOK, NoUser
  <2>3. user' = [user EXCEPT ![u] = r] /\ UNCHANGED req
        BY <1>8 DEF LockEnds
  <2>4. r \in UserRec /\ r.history = user[u].history /\ r.password = user[u].password
        /\ r.name = user[u].name /\ r.email = user[u].email
        BY <2>1 DEF UserRec
  <2> HIDE DEF r
  <2>5. UsersOK' /\ \A v \in Users : Registered(v) => Registered(v)'
        BY <2>1, <2>2, <2>3, <2>4, UserStep DEF UserOK
  <2> QED BY <2>3, <2>5, CallsStay
<1>9. ASSUME NEW q \in Requests, CheckHistory(q) PROVE UsersOK' /\ CallsOK'
  <2>1. CallOK(q) /\ req[q] \in Request /\ At(q, "history")
        BY <1>0, <1>9 DEF CheckHistory
  <2>2. UNCHANGED user BY <1>9 DEF CheckHistory
  <2>3. CASE req' = [req EXCEPT ![q] = Idle]
        BY <1>i, <2>2, <2>3, UsersStay, CallStep
  <2>4. CASE req' = [req EXCEPT ![q] = [req[q] EXCEPT !.pc = "set"]]
    <3>0. PICK r : r = [req[q] EXCEPT !.pc = "set"] OBVIOUS
    <3>1. r \in Request /\ r.pc = "set" /\ r.u = req[q].u /\ r.password = req[q].password
          BY <2>1, <3>0 DEF Request
    <3>2. r.u \in Users /\ Registered(r.u)' /\ r.password \in Passwords
          BY <2>1, <2>2, <3>1 DEF CallOK, At, Registered
    <3>3. req' = [req EXCEPT ![q] = r] BY <2>4, <3>0
    <3> QED BY <2>2, <3>1, <3>2, <3>3, UsersStay, CallStep
  <2> QED BY <1>9, <2>3, <2>4 DEF CheckHistory, Return, Goto
<1>10. ASSUME NEW q \in Requests, SetPassword(q) PROVE UsersOK' /\ CallsOK'
  <2> DEFINE u == req[q].u
             p == req[q].password
             h == user[u].history
             g == IF Len(Append(h, p)) > HistoryLimit THEN Tail(Append(h, p)) ELSE Append(h, p)
             r == [user[u] EXCEPT !.password = p, !.history = g]
  <2>1. u \in Users /\ Registered(u) /\ p \in Passwords
        BY <1>0, <1>10 DEF SetPassword, At, CallOK
  <2>2. user[u] \in UserRec /\ UserOK(u) /\ Len(h) <= HistoryLimit /\ h \in Seq(Passwords)
        BY <1>0, <2>1 DEF UserRec
  <2>3. user' = [user EXCEPT ![u] = r] /\ req' = [req EXCEPT ![q] = Idle]
        BY <1>10 DEF SetPassword, Return, Goto
  <2>4. g \in Seq(Passwords) /\ Len(g) <= HistoryLimit /\ g # <<>> /\ g[Len(g)] = p
    <3> HIDE DEF h, p
    <3> QED BY <2>1, <2>2, NewHistory
  <2> HIDE DEF g, h, u, p
  <2>5. r \in UserRec /\ r.history = g /\ r.password = p
        /\ r.name = user[u].name /\ r.email = user[u].email
        BY <2>1, <2>2, <2>4 DEF UserRec
  <2> HIDE DEF r
  <2>6. UsersOK' /\ \A v \in Users : Registered(v) => Registered(v)'
        BY <2>1, <2>2, <2>3, <2>4, <2>5, UserStep DEF UserOK
  <2> QED BY <1>i, <2>3, <2>6, CallStep
<1>11. ASSUME \/ UNCHANGED vars
              \/ \E e \in Emails : RequestEduOtp(e) \/ OtpExpires(e)
              \/ \E u \in Users : RevokeAllSessions(u)
              \/ \E s \in Sessions : ReuseToken(s) \/ SessionExpires(s)
              \/ \E s, t \in Sessions : RefreshSession(s, t)
       PROVE  UNCHANGED <<user, req>>
       BY <1>11 DEF vars, RequestEduOtp, OtpExpires, RevokeAllSessions, ReuseToken,
                    SessionExpires, RefreshSession
<1> HIDE DEF UsersOK, CallsOK
<1> QED BY <1>1, <1>2, <1>3, <1>4, <1>5, <1>6, <1>7, <1>8, <1>9, <1>10, <1>11
        DEF Next, Begin, Proceed

LEMMA AccountInvariance == Spec => []AccountInv
BY AccountInitially, AccountStep, PTL DEF Spec

(* Users, sessions and calls stay well formed, and no history outgrows its *)
(* limit.                                                                  *)
THEOREM KernelTypeCorrect == Spec => []TypeOK
<1>1. AccountInv => TypeOK BY DEF AccountInv
<1> QED BY <1>1, AccountInvariance, PTL

(* The password a user logs in with is the latest in the history.          *)
THEOREM CurrentPasswordRemembered == Spec => []CurrentIsRemembered
<1>1. AccountInv => CurrentIsRemembered BY DEF AccountInv, UserOK, CurrentIsRemembered
<1> QED BY <1>1, AccountInvariance, PTL

-----------------------------------------------------------------------------
(* How many accounts an address has, has coming, or has a code for. *)
Code(e)    == IF otp[e] THEN 1 ELSE 0
OtpOK(e)   == Cardinality(AccountsOf(e)) + Cardinality(StoringFor(e)) + Code(e) <= requested[e]

LEMMA AccountsAreFinite ==
  ASSUME NEW e
  PROVE  /\ IsFiniteSet(AccountsOf(e)) /\ Cardinality(AccountsOf(e)) \in Nat
         /\ IsFiniteSet(StoringFor(e)) /\ Cardinality(StoringFor(e)) \in Nat
<1> USE IdentityKernelAssumption DEF IdentityKernelAssumption
<1>1. IsFiniteSet(AccountsOf(e)) BY FS_Subset DEF AccountsOf
<1>2. IsFiniteSet(StoringFor(e)) BY FS_Subset DEF StoringFor
<1> QED BY <1>1, <1>2, FS_CardinalityType

LEMMA CodeValue ==
  ASSUME AccountInv, NEW e \in Emails
  PROVE  Code(e) \in 0..1 /\ requested[e] \in Nat
<1>1. Code(e) = 0 \/ Code(e) = 1 BY Zenon DEF Code
<1>2. requested[e] \in Nat BY DEF AccountInv, TypeOK
<1> QED BY <1>1, <1>2

(* No address changes hands and no registration comes or goes. *)
LEMMA OtpKept ==
  ASSUME AccountInv, AccountInv', NEW e \in Emails, OtpOK(e),
         \A u \in Users : user'[u].email = user[u].email,
         \A q \in Requests : At(q, "store")' <=> At(q, "store"),
         \A q \in Requests : At(q, "store") => req'[q].email = req[q].email,
         \/ Code(e)' <= Code(e) /\ requested'[e] = requested[e]
         \/ requested'[e] = requested[e] + 1
  PROVE  OtpOK(e)'
<1>1. AccountsOf(e)' = AccountsOf(e) BY DEF AccountsOf
<1>2. StoringFor(e)' = StoringFor(e) BY DEF StoringFor
<1>3. Code(e) \in 0..1 /\ Code(e)' \in 0..1 /\ requested[e] \in Nat
  <2>1. Code(e)' = 0 \/ Code(e)' = 1 BY Zenon DEF Code
  <2> QED BY CodeValue, <2>1
<1>4. Cardinality(AccountsOf(e)) \in Nat /\ Cardinality(StoringFor(e)) \in Nat
      BY AccountsAreFinite
<1> QED BY <1>1, <1>2, <1>3, <1>4 DEF OtpOK

LEMMA OtpStep == AccountInv /\ AccountInv' /\ OneAccountPerOtp /\ [Next]_vars => OneAccountPerOtp'
<1> SUFFICES ASSUME AccountInv, AccountInv', OneAccountPerOtp, [Next]_vars, NEW e \in Emails
             PROVE  OtpOK(e)'
    BY DEF OneAccountPerOtp, OtpOK, Code
<1> USE IdentityKernelAssumption DEF IdentityKernelAssumption
<1>0. /\ user \in [Users -> UserRec] /\ req \in [Requests -> Request]
      /\ otp \in [Emails -> BOOLEAN] /\ requested \in [Emails -> Nat]
      /\ \A u \in Users : UserOK(u)
      /\ \A q \in Requests : CallOK(q)
      BY DEF AccountInv, TypeOK
<1>o. OtpOK(e) BY DEF OneAccountPerOtp, OtpOK, Code
<1>n. /\ Code(e) \in 0..1 /\ requested[e] \in Nat
      /\ Cardinality(AccountsOf(e)) \in Nat /\ Cardinality(StoringFor(e)) \in Nat
      BY CodeValue, AccountsAreFinite
(* A call at another point than "store" moves to another such point. *)
<1>1. ASSUME NEW q \in Requests, NEW r, ~At(q, "store"), r.pc # "store",
             req' = [req EXCEPT ![q] = r]
      PROVE  /\ \A p \in Requests : At(p, "store")' <=> At(p, "store")
             /\ \A p \in Requests : At(p, "store") => req'[p].email = req[p].email
  <2>1. \A p \in Requests : req'[p] = IF p = q THEN r ELSE req[p] BY <1>0, <1>1
  <2> QED BY <1>1, <2>1 DEF At
<1>2. ASSUME NEW q \in Requests, NEW f \in Emails, NEW name \in Names, NEW pw \in Passwords,
             VerifyOtpAndRegister(q, f, name, pw)
      PROVE  OtpOK(e)'
  <2>1. PICK r : r = Call("store", None, name, f, pw) OBVIOUS
  <2>2. r.pc = "store" /\ r.email = f BY <2>1 DEF Call
  <2>3. /\ req' = [req EXCEPT ![q] = r] /\ req[q] = Idle
        /\ UNCHANGED user /\ UNCHANGED requested
        BY <1>2, <2>1 DEF VerifyOtpAndRegister, Goto, Starts
  <2>4. ~At(q, "store") BY <2>3 DEF At, Idle, Call
  <2>5. \A p \in Requests : req'[p] = IF p = q THEN r ELSE req[p] BY <1>0, <2>3
  <2>6. AccountsOf(e)' = AccountsOf(e) BY <2>3 DEF AccountsOf
  <2>7. CASE f = e
    <3>1. otp[e] /\ otp' = [otp EXCEPT ![e] = FALSE]
          BY Zenon, <1>2, <2>7 DEF VerifyOtpAndRegister
    <3>2. ~otp'[e] BY Zenon, <1>0, <3>1
    <3>3. Code(e) = 1 BY Zenon, <3>1 DEF Code
    <3>4. Code(e)' = 0 BY Zenon, <3>2 DEF Code
    <3>5. StoringFor(e)' = StoringFor(e) \cup {q}
          BY <2>2, <2>4, <2>5, <2>7 DEF StoringFor, At
    <3>6. q \notin StoringFor(e) BY <2>4 DEF StoringFor
    <3>7. Cardinality(StoringFor(e)') = Cardinality(StoringFor(e)) + 1
          BY <3>5, <3>6, AccountsAreFinite, FS_AddElement
    <3> QED BY <1>n, <1>o, <2>3, <2>6, <3>3, <3>4, <3>7 DEF OtpOK
  <2>8. CASE f # e
    <3>1. otp' = [otp EXCEPT ![f] = FALSE] BY Zenon, <1>2 DEF VerifyOtpAndRegister
    <3>2. otp'[e] = otp[e] BY Zenon, <1>0, <2>8, <3>1
    <3>3. Code(e)' = Code(e) BY Zenon, <3>2 DEF Code
    <3>4. StoringFor(e)' = StoringFor(e)
          BY <2>2, <2>4, <2>5, <2>8 DEF StoringFor, At
    <3> QED BY <1>n, <1>o, <2>3, <2>6, <3>3, <3>4 DEF OtpOK
  <2> QED BY <2>7, <2>8
<1>3. ASSUME NEW q \in Requests, NEW u \in Users, StoreUser(q, u) PROVE OtpOK(e)'
  <2>1. At(q, "store") /\ user[u] = NoUser
        BY <1>0, <1>3 DEF StoreUser, UserOK
  <2>2. PICK r : r = [name |-> req[q].name, email |-> req[q].email, password |-> req[q].password,
                      history |-> <<req[q].password>>, failed |-> 0, locked |-> FALSE]
        OBVIOUS
  <2>3. /\ user' = [user EXCEPT ![u] = r] /\ req' = [req EXCEPT ![q] = Idle]
        /\ UNCHANGED <<otp, requested>>
        BY <1>3, <2>2 DEF StoreUser, Return, Goto
  <2>4. r.email = req[q].email BY <2>2
  <2>5. user[u].email # e BY <2>1 DEF NoUser
  <2>6. \A v \in Users : user'[v] = IF v = u THEN r ELSE user[v] BY <1>0, <2>3
  <2>7. \A p \in Requests : req'[p] = IF p = q THEN Idle ELSE req[p] BY <1>0, <2>3
  <2>8. Idle.pc # "store" BY DEF Idle, Call
  <2>9. Code(e)' = Code(e) BY Zenon, <2>3 DEF Code
  <2>10. CASE req[q].email = e
    <3>1. AccountsOf(e)' = AccountsOf(e) \cup {u} /\ u \notin AccountsOf(e)
          BY <2>4, <2>5, <2>6, <2>10 DEF AccountsOf
    <3>2. StoringFor(e)' = StoringFor(e) \ {q} /\ q \in StoringFor(e)
          BY <2>1, <2>7, <2>8, <2>10 DEF StoringFor, At
    <3>3. Cardinality(AccountsOf(e)') = Cardinality(AccountsOf(e)) + 1
          BY <3>1, AccountsAreFinite, FS_AddElement
    <3>4. Cardinality(StoringFor(e)') = Cardinality(StoringFor(e)) - 1
          BY <3>2, AccountsAreFinite, FS_RemoveElement
    <3> QED BY <1>n, <1>o, <2>3, <2>9, <3>3, <3>4 DEF OtpOK
  <2>11. CASE req[q].email # e
    <3>1. AccountsOf(e)' = AccountsOf(e)
          BY <2>4, <2>5, <2>6, <2>11 DEF AccountsOf
    <3>2. StoringFor(e)' = StoringFor(e)
          BY <2>7, <2>8, <2>11 DEF StoringFor, At
    <3> QED BY <1>n, <1>o, <2>3, <2>9, <3>1, <3>2 DEF OtpOK
  <2> QED BY <2>10, <2>11
<1>4. ASSUME NEW q \in Requests, NEW u \in Users, NEW pw \in Passwords,
             Login(q, u, pw) \/ ChangePassword(q, u, pw)
      PROVE  OtpOK(e)'
  <2>1. ~At(q, "store") /\ UNCHANGED <<user, otp, requested>>
        BY <1>4 DEF Login, ChangePassword, Starts, At, Idle, Call
  <2>2. PICK r : r.pc # "store" /\ req' = [req EXCEPT ![q] = r]
        BY <1>4 DEF Login, ChangePassword, Goto, Call
  <2>3. Code(e)' = Code(e) BY Zenon, <2>1 DEF Code
  <2>4. /\ \A p \in Requests : At(p, "store")' <=> At(p, "store")
        /\ \A p \in Requests : At(p, "store") => req'[p].email = req[p].email
        BY <1>1, <2>1, <2>2
  <2> QED BY <1>n, <1>o, <2>1, <2>3, <2>4, OtpKept
(* The address of a user that is written stays. *)
<1>5. ASSUME NEW u \in Users, NEW r, r.email = user[u].email, user' = [user EXCEPT ![u] = r]
      PROVE  \A v \in Users : user'[v].email = user[v].email
      BY <1>0, <1>5
<1>6. ASSUME NEW q \in Requests, Refuse(q) \/ SetPassword(q) \/ \E s \in Sessions : Admit(q, s)
      PROVE  OtpOK(e)'
  <2>1. PICK u \in Users : u = req[q].u
        BY <1>0, <1>6 DEF Refuse, SetPassword, Admit, At, CallOK
  <2>2. user[u] \in UserRec BY <1>0
  <2>3. \E r : r.email = user[u].email /\ user' = [user EXCEPT ![u] = r]
    <3>1. CASE Refuse(q)
      <4>1. PICK failed, locked :
              user' = [user EXCEPT ![u] = [user[u] EXCEPT !.failed = failed, !.locked = locked]]
            BY Zenon, <2>1, <3>1 DEF Refuse
      <4>2. [user[u] EXCEPT !.failed = failed, !.locked = locked].email = user[u].email
            BY <2>2 DEF UserRec
      <4> QED BY <4>1, <4>2
    <3>2. CASE SetPassword(q)
      <4>1. PICK pw, h :
              user' = [user EXCEPT ![u] = [user[u] EXCEPT !.password = pw, !.history = h]]
            BY Zenon, <2>1, <3>2 DEF SetPassword
      <4>2. [user[u] EXCEPT !.password = pw, !.history = h].email = user[u].email
            BY <2>2 DEF UserRec
      <4> QED BY <4>1, <4>2
    <3>3. CASE \E s \in Sessions : Admit(q, s)
      <4>1. user' = [user EXCEPT ![u] = [user[u] EXCEPT !.failed = 0, !.locked = FALSE]]
            BY <2>1, <3>3 DEF Admit
      <4>2. [user[u] EXCEPT !.failed = 0, !.locked = FALSE].email = user[u].email
            BY <2>2 DEF UserRec
      <4> QED BY <4>1, <4>2
    <3> QED BY <1>6, <3>1, <3>2, <3>3
  <2>4. /\ ~At(q, "store") /\ req' = [req EXCEPT ![q] = Idle]
        /\ UNCHANGED <<otp, requested>>
        BY <1>6 DEF Refuse, SetPassword, Admit, At, Return, Goto
  <2>5. Idle.pc # "store" BY DEF Idle, Call
  <2>6. Code(e)' = Code(e) BY Zenon, <2>4 DEF Code
  <2>7. /\ \A p \in Requests : At(p, "store")' <=> At(p, "store")
        /\ \A p \in Requests : At(p, "store") => req'[p].email = req[p].email
        BY <1>1, <2>4, <2>5
  <2>8. \A v \in Users : user'[v].email = user[v].email BY <1>5, <2>3
  <2> QED BY <1>n, <1>o, <2>4, <2>6, <2>7, <2>8, OtpKept
<1>7. ASSUME NEW q \in Requests, CheckHistory(q) PROVE OtpOK(e)'
  <2>1. ~At(q, "store") /\ UNCHANGED <<user, otp, requested>>
        BY <1>7 DEF CheckHistory, At
  <2>2. PICK r : r.pc # "store" /\ req' = [req EXCEPT ![q] = r]
    <3>1. Idle.pc # "store" BY DEF Idle, Call
    <3>2. [req[q] EXCEPT !.pc = "set"].pc # "store" BY <1>0 DEF Request
    <3> QED BY <1>7, <3>1, <3>2 DEF CheckHistory, Return, Goto
  <2>3. Code(e)' = Code(e) BY Zenon, <2>1 DEF Code
  <2>4. /\ \A p \in Requests : At(p, "store")' <=> At(p, "store")
        /\ \A p \in Requests : At(p, "store") => req'[p].email = req[p].email
        BY <1>1, <2>1, <2>2
  <2> QED BY <1>n, <1>o, <2>1, <2>3, <2>4, OtpKept
<1>8. ASSUME NEW u \in Users, LockEnds(u) PROVE OtpOK(e)'
  <2>1. user[u] \in UserRec BY <1>0
  <2>2. \E r : r.email = user[u].email /\ user' = [user EXCEPT ![u] = r]
    <3>1. [user[u] EXCEPT !.locked = FALSE].email = user[u].email BY <2>1 DEF UserRec
    <3> QED BY <1>8, <3>1 DEF LockEnds
  <2>3. UNCHANGED <<req, otp, requested>> BY <1>8 DEF LockEnds
  <2>4. Code(e)' = Code(e) BY Zenon, <2>3 DEF Code
  <2> QED BY <1>5, <1>n, <1>o, <2>2, <2>3, <2>4, OtpKept DEF At
<1>9. ASSUME NEW f \in Emails, RequestEduOtp(f) PROVE OtpOK(e)'
  <2>1. UNCHANGED <<user, req>> /\ requested' = [requested EXCEPT ![f] = requested[f] + 1]
        BY <1>9 DEF RequestEduOtp
  <2>2. CASE f = e
    <3>1. requested'[e] = requested[e] + 1 BY <1>0, <2>1, <2>2
    <3> QED BY <1>o, <2>1, <3>1, OtpKept DEF At
  <2>3. CASE f # e
    <3>1. requested'[e] = requested[e] BY <1>0, <2>1, <2>3
    <3>2. otp' = [otp EXCEPT ![f] = TRUE] BY Zenon, <1>9 DEF RequestEduOtp
    <3>3. otp'[e] = otp[e] BY Zenon, <1>0, <2>3, <3>2
    <3>4. Code(e)' = Code(e) BY Zenon, <3>3 DEF Code
    <3> QED BY <1>n, <1>o, <2>1, <3>1, <3>4, OtpKept DEF At
  <2> QED BY <2>2, <2>3
<1>10. ASSUME NEW f \in Emails, OtpExpires(f) PROVE OtpOK(e)'
  <2>1. UNCHANGED <<user, req, requested>> BY <1>10 DEF OtpExpires
  <2>2. otp' = [otp EXCEPT ![f] = FALSE] BY Zenon, <1>10 DEF OtpExpires
  <2>3. otp'[e] => otp[e] BY Zenon, <1>0, <2>2
  <2>4. (Code(e)' = Code(e)) \/ Code(e)' = 0 BY Zenon, <2>3 DEF Code
  <2>5. Code(e)' <= Code(e) BY <1>n, <2>4
  <2> QED BY <1>o, <2>1, <2>5, OtpKept DEF At
<1>11. ASSUME UNCHANGED <<user, req, otp, requested>> PROVE OtpOK(e)'
  <2>1. Code(e)' = Code(e) BY Zenon, <1>11 DEF Code
  <2> QED BY <1>n, <1>o, <1>11, <2>1, OtpKept DEF At
<1>12. ASSUME \/ UNCHANGED vars
              \/ \E u \in Users : RevokeAllSessions(u)
              \/ \E s \in Sessions : ReuseToken(s) \/ SessionExpires(s)
              \/ \E s, t \in Sessions : RefreshSession(s, t)
       PROVE  OtpOK(e)'
  <2>1. UNCHANGED <<user, req, otp, requested>>
        BY <1>12 DEF vars, RevokeAllSessions, ReuseToken, SessionExpires, RefreshSession
  <2> QED BY <1>11, <2>1
<1>13. ASSUME NEW q \in Requests, Begin(q) \/ Proceed(q) PROVE OtpOK(e)'
       BY Zenon, <1>2, <1>3, <1>4, <1>6, <1>7, <1>13 DEF Begin, Proceed
<1> QED BY <1>8, <1>9, <1>10, <1>12, <1>13 DEF Next

(* A code makes at most one account, also when two calls present it while  *)
(* the first of them hashes the password.                                  *)
THEOREM CodesRegisterOnce == Spec => []OneAccountPerOtp
<1>1. Init => OneAccountPerOtp
  <2> SUFFICES ASSUME Init, NEW e \in Emails PROVE OtpOK(e)
      BY DEF OneAccountPerOtp, OtpOK, Code
  <2>1. AccountsOf(e) = {} 
        BY IdentityKernelAssumption DEF IdentityKernelAssumption, Init, AccountsOf, NoUser
  <2>2. StoringFor(e) = {} BY DEF Init, StoringFor, At, Idle, Call
  <2>3. ~otp[e] BY Zenon DEF Init
  <2>4. Code(e) = 0 BY Zenon, <2>3 DEF Code
  <2>5. requested[e] = 0 BY DEF Init
  <2> QED BY <2>1, <2>2, <2>4, <2>5, FS_EmptySet DEF OtpOK
<1> QED BY <1>1, AccountInvariance, OtpStep, PTL DEF Spec

-----------------------------------------------------------------------------
LEMMA SessionInitially == Init => SessionInv
BY DEF Init, SessionInv, SessionOK, OneLivePerLogin, NoSession

(* What a step can do to the sessions. *)
NewLogin(s)      == \E u \in Users : /\ session[s] = NoSession
                                     /\ session' = [session EXCEPT ![s] =
                                          [user |-> u, login |-> s, status |-> "LIVE"]]
Rotated(s, t)    == /\ session[s].status = "LIVE" /\ session[t] = NoSession
                    /\ session' = [session EXCEPT ![s].status = "REVOKED", ![t] = session[s]]
(* Some sessions change their status, and none of them to LIVE. *)
Ended == /\ \A s \in Sessions : session[s] # NoSession =>
              /\ session'[s].user = session[s].user
              /\ session'[s].login = session[s].login
              /\ session'[s].status \in {session[s].status, "EXPIRED", "REVOKED"}
         /\ \A s \in Sessions : session[s] = NoSession => session'[s] = NoSession

LEMMA SessionSteps ==
  ASSUME AccountInv, SessionInv, [Next]_vars
  PROVE  \/ \E s \in Sessions : NewLogin(s)
         \/ \E s, t \in Sessions : Rotated(s, t)
         \/ Ended
<1> USE IdentityKernelAssumption DEF IdentityKernelAssumption
<1>0. session \in [Sessions -> SessionRec] BY DEF AccountInv, TypeOK
<1>1. CASE UNCHANGED session BY <1>1 DEF Ended
<1>2. ASSUME NEW q \in Requests, NEW s \in Sessions, Admit(q, s) PROVE NewLogin(s)
  <2>1. req[q].u \in Users BY <1>2 DEF Admit, AccountInv, CallOK, At
  <2> QED BY <1>2, <2>1 DEF Admit, NewLogin
<1>3. ASSUME NEW u \in Users, RevokeAllSessions(u) PROVE Ended
  <2>1. \A s \in Sessions : session'[s] = IF session[s].user = u
                                           THEN [session[s] EXCEPT !.status = "REVOKED"]
                                           ELSE session[s]
        BY <1>3 DEF RevokeAllSessions
  <2>2. \A s \in Sessions : session[s] \in SessionRec BY <1>0
  <2>3. \A s \in Sessions : session[s] = NoSession => session[s].user # u
        BY DEF NoSession
  <2> QED BY <2>1, <2>2, <2>3 DEF Ended, SessionRec
<1>4. ASSUME NEW s \in Sessions, ReuseToken(s) PROVE Ended
  <2>1. session[s].user \in Users BY <1>4 DEF ReuseToken, SessionInv, SessionOK, NoSession
  <2> QED BY <1>3, <1>4, <2>1 DEF ReuseToken
<1>5. ASSUME NEW s \in Sessions, SessionExpires(s) PROVE Ended
  <2>1. \A t \in Sessions : session'[t] = IF t = s THEN [session[s] EXCEPT !.status = "EXPIRED"]
                                                   ELSE session[t]
        BY <1>0, <1>5 DEF SessionExpires
  <2>2. session[s] # NoSession BY <1>5 DEF SessionExpires, NoSession
  <2>3. session[s] \in SessionRec BY <1>0
  <2> QED BY <2>1, <2>2, <2>3 DEF Ended, SessionRec
<1>6. ASSUME NEW s \in Sessions, NEW t \in Sessions, RefreshSession(s, t) PROVE Rotated(s, t)
      BY <1>6 DEF RefreshSession, Rotated
<1>7. ASSUME \/ UNCHANGED vars
             \/ \E e \in Emails : RequestEduOtp(e) \/ OtpExpires(e)
             \/ \E q \in Requests : Begin(q) \/ Refuse(q) \/ CheckHistory(q) \/ SetPassword(q)
             \/ \E q \in Requests, u \in Users : StoreUser(q, u)
             \/ \E u \in Users : LockEnds(u)
      PROVE  UNCHANGED session
      BY <1>7 DEF vars, RequestEduOtp, OtpExpires, Begin, VerifyOtpAndRegister, Login,
                  ChangePassword, Refuse, CheckHistory, SetPassword, StoreUser, LockEnds
<1> QED BY <1>1, <1>2, <1>3, <1>4, <1>5, <1>6, <1>7 DEF Next, Proceed

LEMMA SessionStep == AccountInv /\ SessionInv /\ [Next]_vars
                     => SessionInv' /\ \A l \in Sessions : session[l].login = l /\ ~HasLive(l)
                                                            => ~HasLive(l)'
<1> SUFFICES ASSUME AccountInv, SessionInv, [Next]_vars
             PROVE  SessionInv' /\ \A l \in Sessions : session[l].login = l /\ ~HasLive(l)
                                                       => ~HasLive(l)'
    OBVIOUS
<1> USE IdentityKernelAssumption DEF IdentityKernelAssumption
<1>0. session \in [Sessions -> SessionRec] BY DEF AccountInv, TypeOK
<1>n. NoSession.status = "NONE" /\ NoSession.login = None BY DEF NoSession
<1>1. ASSUME NEW s \in Sessions, NewLogin(s)
      PROVE  SessionInv' /\ \A l \in Sessions : session[l].login = l /\ ~HasLive(l) => ~HasLive(l)'
  <2>1. PICK u \in Users : session' = [session EXCEPT ![s] =
                                        [user |-> u, login |-> s, status |-> "LIVE"]]
        BY <1>1 DEF NewLogin
  <2>2. \A t \in Sessions : session'[t] = IF t = s THEN [user |-> u, login |-> s, status |-> "LIVE"]
                                                   ELSE session[t]
        BY <1>0, <2>1
  <2>3. session[s] = NoSession BY <1>1 DEF NewLogin
  <2>4. \A t \in Sessions : session[t].login # s
        BY <2>3, <1>n DEF SessionInv, SessionOK
  <2>5. \A t \in Sessions : SessionOK(t)'
    <3> SUFFICES ASSUME NEW t \in Sessions PROVE SessionOK(t)' OBVIOUS
    <3>1. CASE t = s BY <2>2, <3>1 DEF SessionOK
    <3>2. CASE t # s
      <4>1. SessionOK(t) BY DEF SessionInv
      <4>2. session'[t] = session[t] BY <2>2, <3>2
      <4>3. CASE session[t] = NoSession BY <4>2, <4>3 DEF SessionOK, NoSession
      <4>4. CASE session[t] # NoSession
        <5>1. session[t].login \in Sessions /\ session[t].login # s
              BY <2>4, <4>1, <4>4 DEF SessionOK
        <5> QED BY <2>2, <4>1, <4>2, <4>4, <5>1 DEF SessionOK
      <4> QED BY <4>3, <4>4
    <3> QED BY <3>1, <3>2
  <2>6. OneLivePerLogin'
        BY <2>2, <2>4 DEF SessionInv, OneLivePerLogin
  <2>7. ASSUME NEW l \in Sessions, session[l].login = l, ~HasLive(l) PROVE ~HasLive(l)'
    <3>1. l # s BY <1>n, <2>3, <2>7
    <3> QED BY <2>2, <2>7, <3>1 DEF HasLive
  <2> QED BY <2>5, <2>6, <2>7 DEF SessionInv
<1>2. ASSUME NEW s \in Sessions, NEW t \in Sessions, Rotated(s, t)
      PROVE  SessionInv' /\ \A l \in Sessions : session[l].login = l /\ ~HasLive(l) => ~HasLive(l)'
  <2>1. s # t /\ session[s] # NoSession BY <1>2, <1>n DEF Rotated
  <2>2. session[s] \in SessionRec BY <1>0
  <2>3. /\ session'[s] = [session[s] EXCEPT !.status = "REVOKED"]
        /\ session'[t] = session[s]
        /\ \A x \in Sessions \ {s, t} : session'[x] = session[x]
        BY <1>0, <1>2, <2>1 DEF Rotated
  <2>4. /\ session'[s].login = session[s].login /\ session'[s].user = session[s].user
        /\ session'[s].status = "REVOKED"
        BY <2>2, <2>3 DEF SessionRec
  <2>5. \A x \in Sessions : SessionOK(x) BY DEF SessionInv
  <2>6. session[t] = NoSession BY <1>2 DEF Rotated
  <2>7. \A x \in Sessions : session[x].login # t
        BY <1>n, <2>5, <2>6 DEF SessionOK
  <2>8. \A x \in Sessions : x # t => session'[x].login = session[x].login
        BY <2>3, <2>4
  <2>9. \A x \in Sessions : SessionOK(x)'
    <3> SUFFICES ASSUME NEW x \in Sessions PROVE SessionOK(x)' OBVIOUS
    <3>s. /\ session[s].user \in Users /\ session[s].login \in Sessions
          /\ session[session[s].login].login = session[s].login
          /\ session[s].login # t /\ session[s].status # "NONE"
          BY <2>1, <2>5, <2>7 DEF SessionOK
    <3>r. session'[session[s].login].login = session[s].login BY <2>8, <3>s
    <3>1. CASE x = s BY <2>4, <3>1, <3>s, <3>r DEF SessionOK
    <3>2. CASE x = t BY <2>3, <3>2, <3>s, <3>r DEF SessionOK
    <3>3. CASE x # s /\ x # t
      <4>1. session'[x] = session[x] BY <2>3, <3>3
      <4>2. CASE session[x] = NoSession BY <4>1, <4>2 DEF SessionOK, NoSession
      <4>3. CASE session[x] # NoSession
        <5>1. /\ session[x].login \in Sessions /\ session[x].login # t
              /\ session[session[x].login].login = session[x].login
              /\ session[x].user \in Users /\ session[x].status # "NONE"
              BY <2>5, <2>7, <4>3 DEF SessionOK
        <5>2. session'[session[x].login].login = session[x].login BY <2>8, <5>1
        <5> QED BY <4>1, <5>1, <5>2 DEF SessionOK
      <4> QED BY <4>2, <4>3
    <3> QED BY <3>1, <3>2, <3>3
  <2>10. OneLivePerLogin'
    <3> SUFFICES ASSUME NEW x \in Sessions, NEW y \in Sessions,
                        session'[x].status = "LIVE", session'[y].status = "LIVE",
                        session'[x].login = session'[y].login
                 PROVE  x = y
        BY DEF OneLivePerLogin
    <3>1. x # s /\ y # s BY <2>4
    <3>2. session[s].status = "LIVE" BY <1>2 DEF Rotated
    <3>3. CASE x = t /\ y # t
      <4>1. session[y].status = "LIVE" /\ session[y].login = session[s].login
            BY <2>3, <3>1, <3>3
      <4> QED BY <3>1, <3>2, <4>1 DEF SessionInv, OneLivePerLogin
    <3>4. CASE y = t /\ x # t
      <4>1. session[x].status = "LIVE" /\ session[x].login = session[s].login
            BY <2>3, <3>1, <3>4
      <4> QED BY <3>1, <3>2, <4>1 DEF SessionInv, OneLivePerLogin
    <3>5. CASE x # t /\ y # t
          BY <2>3, <3>1, <3>5 DEF SessionInv, OneLivePerLogin
    <3> QED BY <3>3, <3>4, <3>5
  <2>11. ASSUME NEW l \in Sessions, session[l].login = l, ~HasLive(l) PROVE ~HasLive(l)'
    <3>1. session[s].login # l BY <1>2, <2>11 DEF HasLive, Rotated
    <3> QED BY <2>3, <2>4, <2>11, <3>1 DEF HasLive
  <2> QED BY <2>9, <2>10, <2>11 DEF SessionInv
<1>3. CASE Ended
  <2>1. \A x \in Sessions : session'[x].login = session[x].login
        BY <1>3 DEF Ended
  <2>2. \A x \in Sessions : session'[x].status = "LIVE" => session[x].status = "LIVE"
        BY <1>3, <1>n DEF Ended
  <2>3. ASSUME NEW x \in Sessions PROVE SessionOK(x)'
    <3>1. SessionOK(x) BY DEF SessionInv
    <3>2. CASE session[x] = NoSession BY <1>3, <3>2 DEF Ended, SessionOK, NoSession
    <3>3. CASE session[x] # NoSession
          BY <1>3, <2>1, <3>1, <3>3 DEF Ended, SessionOK
    <3> QED BY <3>2, <3>3
  <2> QED BY <2>1, <2>2, <2>3 DEF SessionInv, OneLivePerLogin, HasLive
<1> QED BY <1>1, <1>2, <1>3, SessionSteps

(* A login has one live session at most, for any number of refreshes that  *)
(* come between the steps of other calls.                                  *)
THEOREM OneSessionLive == Spec => []OneLivePerLogin
<1>1. SessionInv => OneLivePerLogin BY DEF SessionInv
<1> QED BY <1>1, AccountInvariance, SessionInitially, SessionStep, PTL DEF Spec

(* A login that has come to its end stays ended.                           *)
THEOREM DeadLoginsStayDead == Spec => DeadLoginStaysDead
<1>1. AccountInv /\ SessionInv /\ [Next]_vars
        => [\A l \in Sessions : session[l].login = l /\ ~HasLive(l) => ~HasLive(l)']_vars
      BY SessionStep
<1> QED BY <1>1, AccountInvariance, SessionInitially, SessionStep, PTL DEF Spec, DeadLoginStaysDead

-----------------------------------------------------------------------------
(* When calls do not overlap: what the one call in flight knows.           *)
LoneCall == \A p, q \in Requests : ~At(p, "idle") /\ ~At(q, "idle") => p = q

Knows(q) ==
  /\ At(q, "store") => ~Taken(req[q].name, req[q].email)
  /\ At(q, "admit") => ~user[req[q].u].locked
  /\ At(q, "set") => req[q].password \notin Remembered(req[q].u)

Serial == LoneCall /\ \A q \in Requests : Knows(q)
Distinct(u) == \A i, j \in DOMAIN user[u].history : user[u].history[i] = user[u].history[j] => i = j
SerialInv == ~overlap => Serial /\ UniqueUsers /\ \A u \in Users : Distinct(u)

LEMMA SerialInitially == Init => SerialInv
BY DEF Init, SerialInv, Serial, LoneCall, Knows, UniqueUsers, Distinct, At, Idle, Call,
       Registered, NoUser

(* Whether calls overlap does not change within a behaviour.               *)
LEMMA OverlapStays == [Next]_vars => UNCHANGED overlap
<1>1. UNCHANGED vars => UNCHANGED overlap BY DEF vars
<1>2. ASSUME NEW q \in Requests, Begin(q) PROVE UNCHANGED overlap
      BY Zenon, <1>2 DEF Begin, VerifyOtpAndRegister, Login, ChangePassword
<1>3. ASSUME NEW q \in Requests, Proceed(q) PROVE UNCHANGED overlap
      BY Zenon, <1>3 DEF Proceed, StoreUser, Admit, Refuse, CheckHistory, SetPassword
<1>4. ASSUME NEW e \in Emails, RequestEduOtp(e) \/ OtpExpires(e) PROVE UNCHANGED overlap
      BY Zenon, <1>4 DEF RequestEduOtp, OtpExpires
<1>5. ASSUME NEW u, LockEnds(u) \/ RevokeAllSessions(u) PROVE UNCHANGED overlap
      BY Zenon, <1>5 DEF LockEnds, RevokeAllSessions
<1>6. ASSUME NEW s, ReuseToken(s) \/ SessionExpires(s) PROVE UNCHANGED overlap
      BY Zenon, <1>5, <1>6 DEF ReuseToken, SessionExpires
<1>7. ASSUME NEW s, NEW t, RefreshSession(s, t) PROVE UNCHANGED overlap
      BY Zenon, <1>7 DEF RefreshSession
<1>8. Next => UNCHANGED overlap BY <1>2, <1>3, <1>4, <1>5, <1>6, <1>7 DEF Next
<1> QED BY <1>1, <1>8

LEMMA SerialStep == AccountInv /\ AccountInv' /\ SerialInv /\ [Next]_vars
  => SerialInv' /\ (~overlap => \A u \in Users :
                      user[u].locked /\ ~user'[u].locked => user'[u].failed = user[u].failed)
<1> SUFFICES ASSUME AccountInv, AccountInv', SerialInv, [Next]_vars, ~overlap
             PROVE  /\ Serial' /\ UniqueUsers' /\ \A u \in Users : Distinct(u)'
                    /\ \A u \in Users : user[u].locked /\ ~user'[u].locked
                                        => user'[u].failed = user[u].failed
  BY OverlapStays DEF SerialInv
<1> DEFINE Locks == \A u \in Users : user[u].locked /\ ~user'[u].locked
                                     => user'[u].failed = user[u].failed
           Goal == Serial' /\ UniqueUsers' /\ (\A u \in Users : Distinct(u)') /\ Locks
<1>0. /\ user \in [Users -> UserRec] /\ req \in [Requests -> Request]
      /\ \A u \in Users : UserOK(u)
      /\ \A q \in Requests : CallOK(q)
      BY DEF AccountInv, TypeOK
<1>s. Serial /\ UniqueUsers /\ \A u \in Users : Distinct(u) BY DEF SerialInv
<1>n. None \notin Names \cup Emails \cup Users BY IdentityKernelAssumption DEF IdentityKernelAssumption
<1>1. ASSUME UNCHANGED <<user, req>> PROVE Goal
  <2>1. Serial'
        BY <1>1, <1>s DEF Serial, LoneCall, Knows, At, Taken, Remembered
  <2> QED BY <1>1, <1>s, <2>1 DEF UniqueUsers, Distinct, Registered
(* A call starts: it is alone. *)
<1>2. ASSUME NEW q \in Requests, Starts(q), UNCHANGED user,
             NEW r, req' = [req EXCEPT ![q] = r],
             r.pc = "store" => ~Taken(r.name, r.email),
             r.pc = "admit" => ~user[r.u].locked,
             r.pc # "set"
      PROVE  Goal
  <2>1. \A p \in Requests : req'[p] = IF p = q THEN r ELSE req[p]
        BY <1>0, <1>2
  <2>2. \A p \in Requests : p # q => At(p, "idle") /\ At(p, "idle")'
    <3>1. \A p \in Requests : req[p] = Idle
          BY <1>2 DEF Starts, SerialInv
    <3> QED BY <2>1, <3>1 DEF At, Idle, Call
  <2>3. LoneCall' BY <2>2 DEF LoneCall
  <2>4. \A p \in Requests : Knows(p)'
    <3> SUFFICES ASSUME NEW p \in Requests PROVE Knows(p)' OBVIOUS
    <3>1. CASE p = q
      <4>1. req'[p] = r BY <2>1, <3>1
      <4> QED BY <1>2, <4>1 DEF Knows, At, Taken, Remembered
    <3>2. CASE p # q BY <2>2, <3>2 DEF Knows, At
    <3> QED BY <3>1, <3>2
  <2> QED BY <1>2, <1>s, <2>3, <2>4 DEF Serial, UniqueUsers, Distinct, Registered
<1>3. ASSUME NEW q \in Requests, NEW e \in Emails, NEW name \in Names, NEW pw \in Passwords,
             VerifyOtpAndRegister(q, e, name, pw)
      PROVE  Goal
  <2> DEFINE r == Call("store", None, name, e, pw)
  <2>1. r.pc = "store" /\ r.name = name /\ r.email = e BY DEF Call
  <2>2. req' = [req EXCEPT ![q] = r] /\ UNCHANGED user /\ Starts(q) /\ ~Taken(name, e)
        BY <1>3 DEF VerifyOtpAndRegister, Goto
  <2> HIDE DEF r, Goal
  <2> QED BY <1>2, <2>1, <2>2
<1>4. ASSUME NEW q \in Requests, NEW u \in Users, NEW pw \in Passwords,
             Login(q, u, pw) \/ ChangePassword(q, u, pw)
      PROVE  Goal
  <2>1. UNCHANGED user /\ Starts(q) BY <1>4 DEF Login, ChangePassword
  <2>2. CASE Login(q, u, pw)
    <3>1. PICK r : r = Call(IF pw = user[u].password THEN "admit" ELSE "refuse", u, None, None, None)
          OBVIOUS
    <3>2. req' = [req EXCEPT ![q] = r] /\ ~user[u].locked BY <2>2, <3>1 DEF Login, Goto
    <3>3. r.pc \in {"admit", "refuse"} /\ r.u = u BY <3>1 DEF Call
    <3> HIDE DEF Goal
    <3> QED BY <1>2, <2>1, <3>2, <3>3
  <2>3. CASE ChangePassword(q, u, pw)
    <3>1. PICK r : r = Call("history", u, None, None, pw) OBVIOUS
    <3>2. req' = [req EXCEPT ![q] = r] BY <2>3, <3>1 DEF ChangePassword, Goto
    <3>3. r.pc = "history" BY <3>1 DEF Call
    <3> HIDE DEF Goal
    <3> QED BY <1>2, <2>1, <3>2, <3>3
  <2> QED BY <1>4, <2>2, <2>3
(* The call returns: nobody is left. *)
<1>5. ASSUME NEW q \in Requests, ~At(q, "idle"), req' = [req EXCEPT ![q] = Idle]
      PROVE  Serial'
  <2>1. \A p \in Requests : req'[p] = IF p = q THEN Idle ELSE req[p]
        BY <1>0, <1>5
  <2>2. \A p \in Requests : At(p, "idle")'
    <3> SUFFICES ASSUME NEW p \in Requests PROVE At(p, "idle")' OBVIOUS
    <3>1. CASE p = q BY <2>1, <3>1 DEF At, Idle, Call
    <3>2. CASE p # q BY <1>5, <1>s, <2>1, <3>2 DEF Serial, LoneCall, At
    <3> QED BY <3>1, <3>2
  <2> QED BY <2>2 DEF Serial, LoneCall, Knows, At
<1>6. ASSUME NEW q \in Requests, NEW u \in Users, StoreUser(q, u) PROVE Goal
  <2> DEFINE r == [name |-> req[q].name, email |-> req[q].email, password |-> req[q].password,
                   history |-> <<req[q].password>>, failed |-> 0, locked |-> FALSE]
  <2>1. At(q, "store") /\ ~Registered(u) /\ user' = [user EXCEPT ![u] = r]
        /\ req' = [req EXCEPT ![q] = Idle]
        BY <1>6 DEF StoreUser, Return, Goto
  <2>2. \A v \in Users : user'[v] = IF v = u THEN r ELSE user[v]
        BY <1>0, <2>1
  <2>3. Serial' BY <1>5, <2>1 DEF At
  <2>4. ~Taken(req[q].name, req[q].email) /\ req[q].name \in Names
        BY <1>0, <1>s, <2>1 DEF Serial, Knows, CallOK
  <2>5. user[u] = NoUser BY <1>0, <2>1 DEF UserOK
  <2>6. \A v \in Users : user[v].name # req[q].name /\ user[v].email # req[q].email
        BY <2>4 DEF Taken
  <2>7. r.name = req[q].name /\ r.email = req[q].email /\ r.history = <<req[q].password>>
        OBVIOUS
  <2>8. \A i, j \in DOMAIN <<req[q].password>> : i = j OBVIOUS
  <2> HIDE DEF r
  <2>9. UniqueUsers'
    <3> SUFFICES ASSUME NEW v \in Users, NEW w \in Users, Registered(v)', v # w
                 PROVE  user'[v].name # user'[w].name /\ user'[v].email # user'[w].email
        BY DEF UniqueUsers
    <3>1. CASE v = u BY <2>2, <2>6, <2>7, <3>1
    <3>2. CASE w = u BY <2>2, <2>6, <2>7, <3>2
    <3>3. CASE v # u /\ w # u BY <1>s, <2>2, <3>3, ~overlap DEF UniqueUsers, Registered
    <3> QED BY <3>1, <3>2, <3>3
  <2>10. \A v \in Users : Distinct(v)'
    <3> SUFFICES ASSUME NEW v \in Users PROVE Distinct(v)' OBVIOUS
    <3>1. CASE v = u BY <2>2, <2>7, <2>8, <3>1 DEF Distinct
    <3>2. CASE v # u BY <1>s, <2>2, <3>2 DEF Distinct
    <3> QED BY <3>1, <3>2
  <2>11. Locks BY <2>2, <2>5 DEF NoUser
  <2> QED BY <2>3, <2>9, <2>10, <2>11
(* Counters and locks of one user are written. *)
<1>7. ASSUME NEW u \in Users, NEW r, user' = [user EXCEPT ![u] = r],
             r.name = user[u].name, r.email = user[u].email, r.history = user[u].history,
             user[u].locked /\ ~r.locked => r.failed = user[u].failed
      PROVE  UniqueUsers' /\ (\A v \in Users : Distinct(v)') /\ Locks
  <2>1. \A v \in Users : user'[v] = IF v = u THEN r ELSE user[v]
        BY <1>0, <1>7
  <2>2. \A v \in Users : /\ user'[v].name = user[v].name /\ user'[v].email = user[v].email
                         /\ user'[v].history = user[v].history
        BY <1>7, <2>1
  <2>3. UniqueUsers' BY <1>s, <2>2, ~overlap DEF UniqueUsers, Registered
  <2>4. \A v \in Users : Distinct(v)' BY <1>s, <2>2 DEF Distinct
  <2>5. Locks BY <1>7, <2>1
  <2> QED BY <2>3, <2>4, <2>5
<1>8. ASSUME NEW q \in Requests, Refuse(q) PROVE Goal
  <2>1. req[q].u \in Users BY <1>0, <1>8 DEF Refuse, At, CallOK
  <2>2. PICK u \in Users : u = req[q].u BY <2>1
  <2>3. user[u] \in UserRec BY <1>0
  <2>r. PICK failed, r : r = [user[u] EXCEPT !.failed = failed,
                                             !.locked = user[u].locked \/ failed >= LockAfter]
                         /\ user' = [user EXCEPT ![u] = r]
        BY Zenon, <1>8, <2>2 DEF Refuse
  <2>4. /\ user' = [user EXCEPT ![u] = r]
        /\ r.name = user[u].name /\ r.email = user[u].email
        /\ r.history = user[u].history /\ (user[u].locked => r.locked)
        BY <2>3, <2>r DEF UserRec
  <2>5. ~At(q, "idle") /\ req' = [req EXCEPT ![q] = Idle]
        BY <1>8 DEF Refuse, At, Return, Goto
  <2> HIDE DEF Locks
  <2> QED BY <1>5, <1>7, <2>4, <2>5
<1>9. ASSUME NEW q \in Requests, NEW s \in Sessions, Admit(q, s) PROVE Goal
  <2>1. req[q].u \in Users /\ ~user[req[q].u].locked
        BY <1>0, <1>9, <1>s DEF Admit, At, CallOK, Serial, Knows
  <2>2. PICK u \in Users : u = req[q].u BY <2>1
  <2>3. user[u] \in UserRec BY <1>0
  <2>r. PICK r : r = [user[u] EXCEPT !.failed = 0, !.locked = FALSE] OBVIOUS
  <2>4. /\ user' = [user EXCEPT ![u] = r]
        /\ r.name = user[u].name /\ r.email = user[u].email
        /\ r.history = user[u].history
        BY <1>9, <2>2, <2>3, <2>r DEF Admit, UserRec
  <2>5. ~At(q, "idle") /\ req' = [req EXCEPT ![q] = Idle]
        BY <1>9 DEF Admit, At, Return, Goto
  <2> HIDE DEF Locks
  <2> QED BY <1>5, <1>7, <2>1, <2>2, <2>4, <2>5
<1>10. ASSUME NEW u \in Users, LockEnds(u) PROVE Goal
  <2>1. user[u] \in UserRec BY <1>0
  <2>r. PICK r : r = [user[u] EXCEPT !.locked = FALSE] OBVIOUS
  <2>2. /\ user' = [user EXCEPT ![u] = r]
        /\ r.name = user[u].name /\ r.email = user[u].email
        /\ r.history = user[u].history /\ r.failed = user[u].failed /\ ~r.locked
        BY <1>10, <2>1, <2>r DEF LockEnds, UserRec
  <2>3. UniqueUsers' /\ (\A v \in Users : Distinct(v)') /\ Locks
    <3> HIDE DEF Locks
    <3> QED BY <1>7, <2>2
  <2>4. UNCHANGED req BY <1>10 DEF LockEnds
  <2>5. Serial'
    <3>1. \A v \in Users : user'[v] = IF v = u THEN r ELSE user[v]
          BY <1>0, <2>2
    <3>2. \A v \in Users : /\ user'[v].name = user[v].name /\ user'[v].email = user[v].email
                           /\ user'[v].history = user[v].history
                           /\ ~user[v].locked => ~user'[v].locked
          BY <2>2, <3>1
    <3>3. LoneCall' BY <1>s, <2>4 DEF Serial, LoneCall, At
    <3>4. ASSUME NEW q \in Requests PROVE Knows(q)'
      <4>1. Knows(q) /\ CallOK(q) BY <1>0, <1>s DEF Serial
      <4>2. req'[q] = req[q] BY <2>4
      <4>3. At(q, "store")' => ~Taken(req[q].name, req[q].email)'
            BY <2>4, <3>2, <4>1 DEF Knows, At, Taken
      <4>4. At(q, "admit")' => ~user'[req'[q].u].locked
            BY <3>2, <4>1, <4>2 DEF Knows, CallOK, At
      <4>5. At(q, "set")' => req'[q].password \notin Remembered(req[q].u)'
            BY <2>4, <3>2, <4>1, <4>2 DEF Knows, CallOK, At, Remembered
      <4> QED BY <2>4, <4>3, <4>4, <4>5 DEF Knows
    <3> QED BY <3>3, <3>4 DEF Serial
  <2> QED BY <2>3, <2>5
<1>11. ASSUME NEW q \in Requests, CheckHistory(q) PROVE Goal
  <2>1. UNCHANGED user /\ ~At(q, "idle") BY <1>11 DEF CheckHistory, At
  <2>2. UniqueUsers' /\ (\A v \in Users : Distinct(v)') /\ Locks
        BY <1>s, <2>1 DEF UniqueUsers, Distinct, Registered
  <2>3. CASE req' = [req EXCEPT ![q] = Idle] BY <1>5, <2>1, <2>2, <2>3
  <2>4. CASE /\ req[q].password \notin Remembered(req[q].u)
             /\ req' = [req EXCEPT ![q] = [req[q] EXCEPT !.pc = "set"]]
    <3>1. PICK r : r = [req[q] EXCEPT !.pc = "set"] OBVIOUS
    <3>2. r.pc = "set" /\ r.u = req[q].u /\ r.password = req[q].password
          BY <1>0, <3>1 DEF Request
    <3>3. \A p \in Requests : req'[p] = IF p = q THEN r ELSE req[p]
          BY <1>0, <2>4, <3>1
    <3>4. \A p \in Requests : p # q => At(p, "idle")
          BY <1>s, <2>1 DEF Serial, LoneCall
    <3>5. \A p \in Requests : p # q => At(p, "idle")'
          BY <3>3, <3>4 DEF At
    <3>6. ASSUME NEW p \in Requests PROVE Knows(p)'
      <4>1. CASE p = q BY <2>1, <2>4, <3>2, <3>3, <4>1 DEF Knows, At, Remembered
      <4>2. CASE p # q BY <3>5, <4>2 DEF Knows, At
      <4> QED BY <4>1, <4>2
    <3> QED BY <2>2, <3>5, <3>6 DEF Serial, LoneCall
  <2> QED BY <1>11, <2>3, <2>4 DEF CheckHistory, Return, Goto
<1>12. ASSUME NEW q \in Requests, SetPassword(q) PROVE Goal
  <2>1. PICK u \in Users : u = req[q].u
        BY <1>0, <1>12 DEF SetPassword, At, CallOK
  <2>2. PICK p \in Passwords : p = req[q].password
        BY <1>0, <1>12 DEF SetPassword, At, CallOK
  <2>3. PICK h : h = user[u].history OBVIOUS
  <2>4. user[u] \in UserRec /\ h \in Seq(Passwords) /\ Len(h) <= HistoryLimit
    <3>1. user[u] \in UserRec /\ Len(user[u].history) <= HistoryLimit
          BY DEF AccountInv, TypeOK
    <3> QED BY <2>3, <3>1 DEF UserRec
  <2>5. PICK g : g = IF Len(Append(h, p)) > HistoryLimit THEN Tail(Append(h, p)) ELSE Append(h, p)
        OBVIOUS
  <2>6. PICK r : r = [user[u] EXCEPT !.password = p, !.history = g] OBVIOUS
  <2>7. user' = [user EXCEPT ![u] = r]
        BY <1>12, <2>1, <2>2, <2>3, <2>5, <2>6 DEF SetPassword
  <2>8. /\ r.name = user[u].name /\ r.email = user[u].email /\ r.history = g
        /\ r.locked = user[u].locked
        BY <2>4, <2>6 DEF UserRec
  <2>9. ~At(q, "idle") /\ req' = [req EXCEPT ![q] = Idle]
        BY <1>12 DEF SetPassword, At, Return, Goto
  <2>10. \A v \in Users : user'[v] = IF v = u THEN r ELSE user[v]
         BY <1>0, <2>7
  <2>11. UniqueUsers'
    <3>1. \A v \in Users : user'[v].name = user[v].name /\ user'[v].email = user[v].email
          BY <2>8, <2>10
    <3> QED BY <1>s, <3>1, ~overlap DEF UniqueUsers, Registered
  <2>12. \A i, j \in DOMAIN g : g[i] = g[j] => i = j
    <3>1. \A i, j \in DOMAIN h : h[i] = h[j] => i = j
          BY <1>s, <2>3 DEF Distinct
    <3>2. \A i \in DOMAIN h : h[i] # p
          BY <1>12, <1>s, <2>1, <2>2, <2>3 DEF SetPassword, Serial, Knows, Remembered
    <3> QED BY <2>4, <2>5, <3>1, <3>2, NewHistory
  <2>13. \A v \in Users : Distinct(v)'
    <3> SUFFICES ASSUME NEW v \in Users PROVE Distinct(v)' OBVIOUS
    <3>1. CASE v = u BY <2>8, <2>10, <2>12, <3>1 DEF Distinct
    <3>2. CASE v # u BY <1>s, <2>10, <3>2 DEF Distinct
    <3> QED BY <3>1, <3>2
  <2>14. Locks BY <2>8, <2>10
  <2> QED BY <1>5, <2>9, <2>11, <2>13, <2>14
<1>13. ASSUME \/ UNCHANGED vars
              \/ \E e \in Emails : RequestEduOtp(e) \/ OtpExpires(e)
              \/ \E u \in Users : RevokeAllSessions(u)
              \/ \E s \in Sessions : ReuseToken(s) \/ SessionExpires(s)
              \/ \E s, t \in Sessions : RefreshSession(s, t)
       PROVE  UNCHANGED <<user, req>>
       BY <1>13 DEF vars, RequestEduOtp, OtpExpires, RevokeAllSessions, ReuseToken,
                    SessionExpires, RefreshSession
<1> HIDE DEF Goal
<1>14. ASSUME NEW q \in Requests, Begin(q) \/ Proceed(q) PROVE Goal
       BY Zenon, <1>3, <1>4, <1>6, <1>8, <1>9, <1>11, <1>12, <1>14 DEF Begin, Proceed
<1>15. ASSUME UNCHANGED vars PROVE Goal
       BY <1>1, <1>13, <1>15
<1>16. ASSUME NEW e \in Emails, RequestEduOtp(e) \/ OtpExpires(e) PROVE Goal
       BY <1>1, <1>13, <1>16
<1>17. ASSUME NEW u \in Users, LockEnds(u) \/ RevokeAllSessions(u) PROVE Goal
       BY <1>1, <1>10, <1>13, <1>17
<1>18. ASSUME NEW s \in Sessions, ReuseToken(s) \/ SessionExpires(s) PROVE Goal
       BY <1>1, <1>13, <1>18
<1>19. ASSUME NEW s \in Sessions, NEW t \in Sessions, RefreshSession(s, t) PROVE Goal
       BY <1>1, <1>13, <1>19
<1>20. ASSUME Next PROVE Goal
       BY <1>14, <1>16, <1>17, <1>18, <1>19, <1>20 DEF Next
<1>21. Goal BY <1>15, <1>20
<1> QED BY <1>21 DEF Goal

LEMMA SerialInvariance == Spec => []SerialInv
BY AccountInvariance, SerialInitially, SerialStep, PTL DEF Spec

(* Without overlap no two users have one name or one address.              *)
THEOREM UsersAreUnique == Spec => []UniqueUsers
<1>1. SerialInv => UniqueUsers BY DEF SerialInv, UniqueUsers
<1> QED BY <1>1, SerialInvariance, PTL

(* Without overlap no password is used again while it is remembered.       *)
THEOREM HistoriesAreDistinct == Spec => []HistoryDistinct
<1>1. SerialInv => HistoryDistinct BY DEF SerialInv, Distinct, HistoryDistinct
<1> QED BY <1>1, SerialInvariance, PTL

(* Without overlap no login opens a locked account.                        *)
THEOREM LocksHold == Spec => LockHolds
<1>1. AccountInv /\ AccountInv' /\ SerialInv /\ [Next]_vars
        => [~overlap => \A u \in Users :
              user[u].locked /\ ~user'[u].locked => user'[u].failed = user[u].failed]_vars
      BY SerialStep
<1> QED BY <1>1, AccountInvariance, SerialInvariance, PTL DEF Spec, LockHolds
=============================================================================
