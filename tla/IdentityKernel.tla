---------------------------- MODULE IdentityKernel ----------------------------
(***************************************************************************)
(* Accounts and sessions of one college: IdentityKernelService             *)
(* (packages/security/src/identity-kernel.service.ts), which keeps its     *)
(* users, one-time codes and sessions in memory and hands out its own      *)
(* objects.  What it awaits is Argon2, which runs on other threads: while  *)
(* a password is hashed or verified the service takes other calls.         *)
(*                                                                         *)
(* A call in flight is a request q, req[q].pc naming what it does when it  *)
(* resumes.  Calls that change nothing (a wrong code, a taken name, a weak *)
(* password, a locked account, an unknown token) are left out.  So is      *)
(* needsRehash: every hash here was made with the current parameters.      *)
(***************************************************************************)
EXTENDS Naturals, Sequences, FiniteSets

CONSTANTS
  Users, Names, Emails, Passwords, Sessions,
  Requests,      \* calls that can be in flight at once
  LockAfter,     \* failed logins that lock an account: 5 in login
  HistoryLimit,  \* passwordHistoryLimit
  MaxOtps,       \* bound: codes requested for an address
  None

ASSUME IdentityKernelAssumption ==
  /\ LockAfter \in Nat \ {0} /\ HistoryLimit \in Nat \ {0} /\ MaxOtps \in Nat
  /\ None \notin Users \cup Names \cup Emails \cup Passwords \cup Sessions
  /\ IsFiniteSet(Users) /\ IsFiniteSet(Requests)

VARIABLES
  otp,        \* otp[e]: a code for e is neither used nor expired
  requested,  \* codes requested for each address
  user,       \* user[u]; name None: not registered
  session,    \* session[s]: owner, the login it descends from, status
  overlap,    \* whether calls of this behaviour overlap
  req         \* the calls in flight

vars == <<otp, requested, user, session, overlap, req>>

(* failed counts up to LockAfter; that is all login compares it with. *)
UserRec    == [name : Names \cup {None}, email : Emails \cup {None},
               password : Passwords \cup {None}, history : Seq(Passwords),
               failed : 0..LockAfter, locked : BOOLEAN]
SessionRec == [user : Users \cup {None}, login : Sessions \cup {None},
               status : {"NONE", "LIVE", "EXPIRED", "REVOKED"}]
Request    == [pc : {"idle", "store", "refuse", "admit", "history", "set"},
               u : Users \cup {None}, name : Names \cup {None},
               email : Emails \cup {None}, password : Passwords \cup {None}]

NoUser    == [name |-> None, email |-> None, password |-> None, history |-> <<>>,
              failed |-> 0, locked |-> FALSE]
NoSession == [user |-> None, login |-> None, status |-> "NONE"]
Call(point, u, name, email, password) ==
  [pc |-> point, u |-> u, name |-> name, email |-> email, password |-> password]
Idle      == Call("idle", None, None, None, None)

TypeOK ==
  /\ otp \in [Emails -> BOOLEAN]
  /\ requested \in [Emails -> Nat]
  /\ user \in [Users -> UserRec]
  /\ \A u \in Users : Len(user[u].history) <= HistoryLimit
  /\ session \in [Sessions -> SessionRec]
  /\ overlap \in BOOLEAN
  /\ req \in [Requests -> Request]

Init ==
  /\ otp = [e \in Emails |-> FALSE]
  /\ requested = [e \in Emails |-> 0]
  /\ user = [u \in Users |-> NoUser]
  /\ session = [s \in Sessions |-> NoSession]
  /\ overlap \in BOOLEAN
  /\ req = [q \in Requests |-> Idle]

Registered(u) == user[u].name # None

(* A call starts, in a behaviour without overlap when no other is going. *)
Starts(q) == req[q] = Idle /\ (overlap \/ \A p \in Requests : req[p] = Idle)
At(q, point)    == req[q].pc = point
Goto(q, locals) == req' = [req EXCEPT ![q] = locals]
Return(q)       == Goto(q, Idle)

-----------------------------------------------------------------------------
(* requestEduOtp replaces the code of the address, used or not. *)
RequestEduOtp(e) ==
  /\ requested[e] < MaxOtps
  /\ otp' = [otp EXCEPT ![e] = TRUE]
  /\ requested' = [requested EXCEPT ![e] = @ + 1]
  /\ UNCHANGED <<user, session, overlap, req>>

OtpExpires(e) ==
  /\ otp' = [otp EXCEPT ![e] = FALSE]
  /\ UNCHANGED <<requested, user, session, overlap, req>>

Taken(name, e) == \E u \in Users : user[u].name = name \/ user[u].email = e

(* verifyOtpAndRegister up to the hashing of the password. *)
VerifyOtpAndRegister(q, e, name, pw) ==
  /\ Starts(q)
  /\ otp[e]
  /\ ~Taken(name, e)
  /\ otp' = [otp EXCEPT ![e] = FALSE]
  /\ Goto(q, Call("store", None, name, e, pw))
  /\ UNCHANGED <<requested, user, session, overlap>>

StoreUser(q, u) ==
  /\ At(q, "store")
  /\ ~Registered(u)
  /\ user' = [user EXCEPT ![u] =
       [name |-> req[q].name, email |-> req[q].email, password |-> req[q].password,
        history |-> <<req[q].password>>, failed |-> 0, locked |-> FALSE]]
  /\ Return(q)
  /\ UNCHANGED <<otp, requested, session, overlap>>

-----------------------------------------------------------------------------

(* login up to the verification of the password, against the hash of now.  *)
Login(q, u, pw) ==
  /\ Starts(q)
  /\ Registered(u)
  /\ ~user[u].locked
  /\ Goto(q, Call(IF pw = user[u].password THEN "admit" ELSE "refuse", u, None, None, None))
  /\ UNCHANGED <<otp, requested, user, session, overlap>>

Refuse(q) ==
  LET u == req[q].u
      failed == IF user[u].failed < LockAfter THEN user[u].failed + 1 ELSE LockAfter
  IN
  /\ At(q, "refuse")
  /\ user' = [user EXCEPT ![u] =
       [@ EXCEPT !.failed = failed, !.locked = user[u].locked \/ failed >= LockAfter]]
  /\ Return(q)
  /\ UNCHANGED <<otp, requested, session, overlap>>

(* The password was right: counter and lock are cleared, a session starts. *)
Admit(q, s) ==
  LET u == req[q].u IN
  /\ At(q, "admit")
  /\ session[s] = NoSession
  /\ user' = [user EXCEPT ![u] = [@ EXCEPT !.failed = 0, !.locked = FALSE]]
  /\ session' = [session EXCEPT ![s] = [user |-> u, login |-> s, status |-> "LIVE"]]
  /\ Return(q)
  /\ UNCHANGED <<otp, requested, overlap>>

(* lockoutUntil passes; the counter stays as it is. *)
LockEnds(u) ==
  /\ user[u].locked
  /\ user' = [user EXCEPT ![u] = [@ EXCEPT !.locked = FALSE]]
  /\ UNCHANGED <<otp, requested, session, overlap, req>>

-----------------------------------------------------------------------------
(* changePassword up to the verification of the old password, which is     *)
(* right; then up to the hashing of the new one, past the history check.   *)
ChangePassword(q, u, pw) ==
  /\ Starts(q)
  /\ Registered(u)
  /\ Goto(q, Call("history", u, None, None, pw))
  /\ UNCHANGED <<otp, requested, user, session, overlap>>

Remembered(u) == {user[u].history[i] : i \in DOMAIN user[u].history}

CheckHistory(q) ==
  /\ At(q, "history")
  /\ IF req[q].password \in Remembered(req[q].u)
       THEN Return(q)
       ELSE Goto(q, [req[q] EXCEPT !.pc = "set"])
  /\ UNCHANGED <<otp, requested, user, session, overlap>>

SetPassword(q) ==
  LET u == req[q].u
      history == Append(user[u].history, req[q].password)
  IN
  /\ At(q, "set")
  /\ user' = [user EXCEPT ![u] =
       [@ EXCEPT !.password = req[q].password,
                 !.history = IF Len(history) > HistoryLimit THEN Tail(history) ELSE history]]
  /\ Return(q)
  /\ UNCHANGED <<otp, requested, session, overlap>>

-----------------------------------------------------------------------------
(* refreshSession runs without an await: a live session is revoked and     *)
(* replaced by a copy with a new token ...                                 *)
(* Mutant: the old session stays live.                                     *)
RefreshKeeping(s, t) ==
  /\ session[s].status = "LIVE"
  /\ session[t] = NoSession
  /\ session' = [session EXCEPT ![t] = session[s]]
  /\ UNCHANGED <<otp, requested, user, overlap, req>>

RefreshSession(s, t) ==
  /\ session[s].status = "LIVE"
  /\ session[t] = NoSession
  /\ session' = [session EXCEPT ![s].status = "REVOKED", ![t] = session[s]]
  /\ UNCHANGED <<otp, requested, user, overlap, req>>

(* ... and a revoked one revokes every session of its user. *)
RevokeAllSessions(u) ==
  /\ session' = [s \in Sessions |-> IF session[s].user = u
                                      THEN [session[s] EXCEPT !.status = "REVOKED"]
                                      ELSE session[s]]
  /\ UNCHANGED <<otp, requested, user, overlap, req>>

(* Mutant: the revoked session itself is renewed. *)
ReuseRenews(s) ==
  /\ session[s].status = "REVOKED"
  /\ session' = [session EXCEPT ![s].status = "LIVE"]
  /\ UNCHANGED <<otp, requested, user, overlap, req>>

ReuseToken(s) ==
  /\ session[s].status = "REVOKED"
  /\ RevokeAllSessions(session[s].user)

SessionExpires(s) ==
  /\ session[s].status = "LIVE"
  /\ session' = [session EXCEPT ![s].status = "EXPIRED"]
  /\ UNCHANGED <<otp, requested, user, overlap, req>>

-----------------------------------------------------------------------------
Begin(q) ==
  \/ \E e \in Emails, name \in Names, pw \in Passwords : VerifyOtpAndRegister(q, e, name, pw)
  \/ \E u \in Users, pw \in Passwords : Login(q, u, pw) \/ ChangePassword(q, u, pw)

Proceed(q) ==
  \/ \E u \in Users : StoreUser(q, u)
  \/ \E s \in Sessions : Admit(q, s)
  \/ Refuse(q) \/ CheckHistory(q) \/ SetPassword(q)

Next ==
  \/ \E e \in Emails : RequestEduOtp(e) \/ OtpExpires(e)
  \/ \E q \in Requests : Begin(q) \/ Proceed(q)
  \/ \E u \in Users : LockEnds(u) \/ RevokeAllSessions(u)
  \/ \E s \in Sessions : ReuseToken(s) \/ SessionExpires(s)
  \/ \E s, t \in Sessions : RefreshSession(s, t)

Spec == Init /\ [][Next]_vars

-----------------------------------------------------------------------------
(* However calls overlap.                                                  *)

(* A code registers at most one account, also when two calls present it    *)
(* while the first is hashing: isUsed is set before the await.             *)
AccountsOf(e) == {u \in Users : user[u].email = e}
StoringFor(e) == {q \in Requests : At(q, "store") /\ req[q].email = e}
OneAccountPerOtp ==
  \A e \in Emails :
    Cardinality(AccountsOf(e)) + Cardinality(StoringFor(e)) + (IF otp[e] THEN 1 ELSE 0)
      <= requested[e]

(* A login has at most one live session, however often it was refreshed.   *)
OneLivePerLogin ==
  \A s, t \in Sessions :
    session[s].status = "LIVE" /\ session[t].status = "LIVE" /\ session[s].login = session[t].login
      => s = t

(* A login whose sessions are all expired or revoked, be it by a revoked   *)
(* token that was presented again, never has a live session again.         *)
HasLive(l) == \E s \in Sessions : session[s].login = l /\ session[s].status = "LIVE"
DeadLoginStaysDead ==
  [][\A l \in Sessions : session[l].login = l /\ ~HasLive(l) => ~HasLive(l)']_vars

(* The current password of a user is the latest one remembered.            *)
CurrentIsRemembered ==
  \A u \in Users : Registered(u) =>
    user[u].history # <<>> /\ user[u].history[Len(user[u].history)] = user[u].password

-----------------------------------------------------------------------------
(* When calls do not overlap.                                              *)

(* Usernames are unique, and one address has one account.                  *)
UniqueUsers ==
  ~overlap => \A u, v \in Users :
    Registered(u) /\ u # v => user[u].name # user[v].name /\ user[u].email # user[v].email

(* A lock is ended by time, not by a login: the counter only moves when    *)
(* an attempt is admitted or refused.                                      *)
LockHolds ==
  [][~overlap => \A u \in Users :
       user[u].locked /\ ~user'[u].locked => user'[u].failed = user[u].failed]_vars

(* The remembered passwords of a user differ: the last HistoryLimit        *)
(* passwords are not used again (docs/AUTHENTICATION_AND_IDENTITY.md, 1.3).*)
HistoryDistinct ==
  ~overlap => \A u \in Users : \A i, j \in DOMAIN user[u].history :
    user[u].history[i] = user[u].history[j] => i = j
=============================================================================
