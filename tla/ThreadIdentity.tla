---------------------------- MODULE ThreadIdentity ----------------------------
(***************************************************************************)
(* Pseudonyms in a confession's thread: createConfession and addComment    *)
(* (modules/confessions/src/use-cases/confession.use-cases.ts),            *)
(* AnonymousIdentityService and the in-memory identity repository.         *)
(*                                                                         *)
(* Posts and comments are modelled as far as identities need: who wrote    *)
(* them and the name they show.  Reply trees are left out.                 *)
(***************************************************************************)
CONSTANTS
  Students, Posts, Pseudonyms,
  Drafts,        \* the keys `draft-${Date.now()}`, one per millisecond
  Writers,       \* calls that can be in flight at once
  None

ASSUME ThreadIdentityAssumption ==
  /\ Drafts \cap Posts = {}
  /\ None \notin Students \cup Posts \cup Pseudonyms

Threads == Posts \cup Drafts

VARIABLES
  identities,   \* the pseudonym of each student in each thread
  post,         \* post[p]: its author .by, .name and isAnonymous
  comments,     \* the comments: author, post and name (those that agree count once)
  writing       \* the calls in flight

identityVars == <<identities, post, comments, writing>>

PostRec    == [by : Students \cup {None}, name : Pseudonyms \cup {None}, isAnonymous : BOOLEAN]
CommentRec == [by : Students, post : Posts, name : Pseudonyms]
NoPost     == [by |-> None, name |-> None, isAnonymous |-> FALSE]

(* A call of u in flight: about to save a post, to name itself in the      *)
(* thread of p, or to save a comment on p.                                 *)
Writing == [pc : {"idle", "savePost", "thread", "saveComment"},
            u : Students \cup {None}, p : Posts \cup {None},
            name : Pseudonyms \cup {None}, isAnonymous : BOOLEAN]
Awaiting(point, u, p, name, isAnonymous) ==
  [pc |-> point, u |-> u, p |-> p, name |-> name, isAnonymous |-> isAnonymous]
NotWriting == Awaiting("idle", None, None, None, FALSE)

IdentityTypeOK ==
  /\ identities \in [Threads -> [Students -> Pseudonyms \cup {None}]]
  /\ post \in [Posts -> PostRec]
  /\ comments \subseteq CommentRec
  /\ writing \in [Writers -> Writing]

IdentityInit ==
  /\ identities = [t \in Threads |-> [u \in Students |-> None]]
  /\ post = [p \in Posts |-> NoPost]
  /\ comments = {}
  /\ writing = [q \in Writers |-> NotWriting]

-----------------------------------------------------------------------------
(* findOrCreatePseudonym returns name for u in thread t: the one stored,   *)
(* or else a random one, which is stored without an await in between.      *)
(* Mutant: a new one for every call.                                       *)
AlwaysCreate(t, u, name) == identities' = [identities EXCEPT ![t][u] = name]

FindOrCreate(t, u, name) ==
  /\ identities[t][u] \in {None, name}
  /\ identities' = [identities EXCEPT ![t][u] = name]

(* createConfession: an anonymous post gets a name in the thread of a      *)
(* draft key; any other shows a label made of its author's id.             *)
CreateConfession(q, u) ==
  /\ writing[q] = NotWriting
  /\ \/ \E d \in Drafts, name \in Pseudonyms :
          /\ FindOrCreate(d, u, name)
          /\ writing' = [writing EXCEPT ![q] = Awaiting("savePost", u, None, name, TRUE)]
     \/ /\ writing' = [writing EXCEPT ![q] = Awaiting("savePost", u, None, None, FALSE)]
        /\ UNCHANGED identities
  /\ UNCHANGED <<post, comments>>

SavePost(q, p) ==
  /\ writing[q].pc = "savePost"
  /\ post[p] = NoPost
  /\ post' = [post EXCEPT ![p] = [by |-> writing[q].u, name |-> writing[q].name,
                                  isAnonymous |-> writing[q].isAnonymous]]
  /\ writing' = [writing EXCEPT ![q] = NotWriting]
  /\ UNCHANGED <<identities, comments>>

-----------------------------------------------------------------------------
(* addComment: the post is found, the student is named in the thread of    *)
(* the post, then the comment is saved.                                    *)
AddComment(q, u, p) ==
  /\ writing[q] = NotWriting
  /\ post[p] # NoPost
  /\ writing' = [writing EXCEPT ![q] = Awaiting("thread", u, p, None, FALSE)]
  /\ UNCHANGED <<identities, post, comments>>

NameCommenter(q, name) ==
  /\ writing[q].pc = "thread"
  /\ FindOrCreate(writing[q].p, writing[q].u, name)
  /\ writing' = [writing EXCEPT ![q].pc = "saveComment", ![q].name = name]
  /\ UNCHANGED <<post, comments>>

SaveComment(q) ==
  /\ writing[q].pc = "saveComment"
  /\ comments' = comments \cup {[by |-> writing[q].u, post |-> writing[q].p, name |-> writing[q].name]}
  /\ writing' = [writing EXCEPT ![q] = NotWriting]
  /\ UNCHANGED <<identities, post>>

IdentityNext == \E q \in Writers :
  \/ \E u \in Students : CreateConfession(q, u)
  \/ \E p \in Posts : SavePost(q, p)
  \/ \E u \in Students, p \in Posts : AddComment(q, u, p)
  \/ \E name \in Pseudonyms : NameCommenter(q, name)
  \/ SaveComment(q)

IdentitySpec == IdentityInit /\ [][IdentityNext]_identityVars

-----------------------------------------------------------------------------
(* All comments of one student in one thread show the same name, also when *)
(* two addComment calls of that student are in flight together             *)
(* (docs/domain/CAMPUS_CONFESSIONS_DOMAIN.md, invariant 1).                *)
OneNamePerCommenter ==
  \A d, e \in comments : d.by = e.by /\ d.post = e.post => d.name = e.name
=============================================================================
