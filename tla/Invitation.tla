----------------------------- MODULE Invitation -----------------------------
(***************************************************************************)
(* Making an invited person the submitter of a Submission.  A preparer who *)
(* submits for somebody without a PASS account stores that person's e-mail *)
(* in the Submission; an event of the submission makes JmsConfiguration    *)
(* mail a link with a token (submission and e-mail); whoever follows it    *)
(* logged in calls /user/whoami with the token (UserServiceController),    *)
(* which reads the Submission, compares, and writes it back.  Meanwhile    *)
(* others edit the Submission through the JSON API.                        *)
(*                                                                         *)
(* Of the object service only AtomicObjects is used: a write takes place   *)
(* if the writer holds the stored version, and fails otherwise.            *)
(***************************************************************************)
EXTENDS Integers

CONSTANTS
  Threads,     \* sessions: a request thread or an open editor
  Users,       \* people with a PASS user
  Backend,     \* principals without one: backend services
  Preparers,   \* users who prepare the submissions
  Emails,      \* e-mail addresses
  Ids,         \* submission ids
  None,        \* no user, e-mail, token, row
  Gone,        \* the content of a deleted row
  MaxVersion   \* bound on the versions of a submission

Principals == Users \cup Backend
Contents == [submitter : Users \cup {None}, email : Emails \cup {None}]
Rows     == [version : Nat, value : Contents \cup {Gone}]
Tokens   == [id : Ids, email : Emails]
Copies   == [id : Ids, version : Nat, value : Contents]

ASSUME InvitationAssumption ==
  /\ Preparers \subseteq Users /\ Users \cap Backend = {}
  /\ None \notin Principals \cup Emails \cup Tokens \cup Rows \cup Copies
  /\ Gone \notin Contents
  /\ MaxVersion \in Nat

VARIABLES
  row,      \* the committed submissions
  stage,    \* the next step of each session
  who,      \* whose session it is
  token,    \* the token that came with the request
  held,     \* the Submission it has read
  mailed,   \* the tokens in the links that were sent out
  reply,    \* the last answer to each session
  invitees  \* history: users an invitation made submitter since the last edit

sessionVars == <<stage, who, token, held, reply>>
vars == <<row, sessionVars, mailed, invitees>>

TypeOK ==
  /\ row \in [Ids -> Rows \cup {None}]
  /\ stage \in [Threads -> {"idle", "get", "update", "edit"}]
  /\ who \in [Threads -> Principals \cup {None}]
  /\ token \in [Threads -> Tokens \cup {None}]
  /\ held \in [Threads -> Copies \cup {None}]
  /\ \A c \in Threads : stage[c] \in {"get", "update"} => who[c] \in Users /\ token[c] # None
  /\ \A c \in Threads : stage[c] \in {"update", "edit"} <=> held[c] # None
  /\ mailed \subseteq Tokens
  /\ reply \in [Threads -> {"none", "ok", "refused", "error"}]
  /\ invitees \in [Ids -> SUBSET Users]

Init ==
  /\ row = [o \in Ids |-> None]
  /\ stage = [c \in Threads |-> "idle"]
  /\ who = [c \in Threads |-> None]
  /\ token = [c \in Threads |-> None]
  /\ held = [c \in Threads |-> None]
  /\ mailed = {}
  /\ reply = [c \in Threads |-> "none"]
  /\ invitees = [o \in Ids |-> {}]

Stored(o) == row[o] # None /\ row[o].value # Gone

(* getObject.                                                              *)
CopyOf(o) == [id |-> o, version |-> row[o].version, value |-> row[o].value]

(* The promise of the object service: a copy can be written back only as   *)
(* long as it has the stored version.                                      *)
Current(copy) == Stored(copy.id) /\ row[copy.id].version = copy.version

Put(copy, v) ==
  row' = [row EXCEPT ![copy.id] = [version |-> copy.version + 1, value |-> v]]

(* PartOfSubmissionCheck, and the backend role.                            *)
PartOf(p, s) == p = s.submitter \/ p \in Preparers
Permitted(p, s) == p \in Backend \/ PartOf(p, s)

Answer(c, r) ==
  /\ stage' = [stage EXCEPT ![c] = "idle"]
  /\ who' = [who EXCEPT ![c] = None]
  /\ token' = [token EXCEPT ![c] = None]
  /\ held' = [held EXCEPT ![c] = None]
  /\ reply' = [reply EXCEPT ![c] = r]

-----------------------------------------------------------------------------
(* The JSON API: create, edit and delete submissions, create events.       *)

Create(p, o, s) ==
  /\ row[o] = None
  /\ row' = [row EXCEPT ![o] = [version |-> 0, value |-> s]]
  /\ UNCHANGED <<sessionVars, mailed, invitees>>

Open(c, p, o) ==
  /\ stage[c] = "idle" /\ Stored(o)
  /\ stage' = [stage EXCEPT ![c] = "edit"]
  /\ who' = [who EXCEPT ![c] = p]
  /\ held' = [held EXCEPT ![c] = CopyOf(o)]
  /\ UNCHANGED <<row, token, mailed, reply, invitees>>

Save(c, s) ==
  LET o == held[c].id IN
  /\ stage[c] = "edit" /\ s # held[c].value /\ held[c].version < MaxVersion
  /\ IF ~Stored(o) \/ ~Permitted(who[c], row[o].value)
     THEN Answer(c, "refused") /\ UNCHANGED <<row, invitees>>
     ELSE IF ~Current(held[c])
     THEN Answer(c, "error") /\ UNCHANGED <<row, invitees>>
     ELSE /\ Put(held[c], s)
          /\ invitees' = [invitees EXCEPT ![o] = {}]
          /\ Answer(c, "ok")
  /\ UNCHANGED mailed

Close(c) ==
  /\ stage[c] = "edit"
  /\ Answer(c, "none")
  /\ UNCHANGED <<row, mailed, invitees>>

Delete(p, o) ==
  /\ Stored(o) /\ Permitted(p, row[o].value)
  /\ row' = [row EXCEPT ![o].value = Gone]
  /\ invitees' = [invitees EXCEPT ![o] = {}]
  /\ UNCHANGED <<sessionVars, mailed>>

(* Mutant: the link is made without looking whether there is an e-mail.    *)
InviteAnyone(p, o) ==
  /\ Stored(o) /\ Permitted(p, row[o].value)
  /\ mailed' = mailed \cup {[id |-> o, email |-> row[o].value.email]}
  /\ UNCHANGED <<row, sessionVars, invitees>>

(* An APPROVAL_REQUESTED_NEWUSER event: getInvitationLink.                 *)
Invite(p, o) ==
  /\ Stored(o) /\ Permitted(p, row[o].value)
  /\ row[o].value.email # None
  /\ mailed' = mailed \cup {[id |-> o, email |-> row[o].value.email]}
  /\ UNCHANGED <<row, sessionVars, invitees>>

-----------------------------------------------------------------------------
(* /user/whoami.                                                           *)

(* Without a user for the principal (500), with a token that cannot be     *)
(* decoded or does not name a submission (400), or without a token.        *)
WhoamiOnly(c) ==
  /\ stage[c] = "idle"
  /\ \E r \in {"error", "refused", "ok"} : Answer(c, r)
  /\ UNCHANGED <<row, mailed, invitees>>

Whoami(c, u, t) ==
  /\ stage[c] = "idle"
  /\ stage' = [stage EXCEPT ![c] = "get"]
  /\ who' = [who EXCEPT ![c] = u]
  /\ token' = [token EXCEPT ![c] = t]
  /\ UNCHANGED <<row, held, mailed, reply, invitees>>

(* Mutants: the present submitter does not matter; a missing submitter is  *)
(* taken for the user.                                                     *)
OutcomeByEmail(s, t, u) ==
  IF t.email = s.email THEN "update"
  ELSE IF s.submitter = None THEN "error"
  ELSE IF s.submitter = u THEN "ok" ELSE "refused"

OutcomeOfNull(s, t, u) ==
  IF t.email = s.email
  THEN IF s.submitter \in {None, u} THEN "update" ELSE "refused"
  ELSE IF s.submitter \in {None, u} THEN "ok" ELSE "refused"

(* enact_user_token, from the e-mail on.  If the e-mail differs and there  *)
(* is no submitter, a null is dereferenced: a 500.                         *)
Outcome(s, t, u) ==
  IF t.email = s.email
  THEN IF s.submitter \in {None, u} THEN "update" ELSE "refused"
  ELSE IF s.submitter = None THEN "error"
  ELSE IF s.submitter = u THEN "ok" ELSE "refused"

GetSubmission(c) ==
  LET o == token[c].id IN
  /\ stage[c] = "get"
  /\ IF ~Stored(o) THEN Answer(c, "error")
     ELSE LET r == Outcome(row[o].value, token[c], who[c]) IN
          IF r = "update"
          THEN /\ stage' = [stage EXCEPT ![c] = "update"]
               /\ held' = [held EXCEPT ![c] = CopyOf(o)]
               /\ UNCHANGED <<who, token, reply>>
          ELSE Answer(c, r)
  /\ UNCHANGED <<row, mailed, invitees>>

(* Mutant: the last writer wins.                                           *)
EnactStale(c) ==
  LET o == held[c].id IN
  /\ stage[c] = "update" /\ held[c].version < MaxVersion
  /\ IF Stored(o)
     THEN /\ Put(held[c], [submitter |-> who[c], email |-> None])
          /\ invitees' = [invitees EXCEPT ![o] = @ \cup {who[c]}]
          /\ Answer(c, "ok")
     ELSE Answer(c, "error") /\ UNCHANGED <<row, invitees>>
  /\ UNCHANGED mailed

(* updateObject: refused (an IOException, 500) if the submission changed.  *)
Enact(c) ==
  LET o == held[c].id IN
  /\ stage[c] = "update" /\ held[c].version < MaxVersion
  /\ IF Current(held[c])
     THEN /\ Put(held[c], [submitter |-> who[c], email |-> None])
          /\ invitees' = [invitees EXCEPT ![o] = @ \cup {who[c]}]
          /\ Answer(c, "ok")
     ELSE Answer(c, "error") /\ UNCHANGED <<row, invitees>>
  /\ UNCHANGED mailed

(* A transaction fails for another reason.                                 *)
Fail(c) ==
  /\ stage[c] \in {"get", "update"}
  /\ Answer(c, "error")
  /\ UNCHANGED <<row, mailed, invitees>>

-----------------------------------------------------------------------------
Edit ==
  \/ \E p \in Principals, o \in Ids :
       \/ \E s \in Contents : Create(p, o, s)
       \/ \E c \in Threads : Open(c, p, o)
       \/ Delete(p, o)
       \/ Invite(p, o)
  \/ \E c \in Threads : Close(c) \/ \E s \in Contents : Save(c, s)

Serve(c) == GetSubmission(c) \/ Enact(c) \/ Fail(c)

Next ==
  \/ Edit
  \/ \E c \in Threads : WhoamiOnly(c) \/ Serve(c)
  \/ \E c \in Threads, u \in Users, t \in mailed : Whoami(c, u, t)

Spec == Init /\ [][Next]_vars

-----------------------------------------------------------------------------
(* Properties.                                                             *)

(* A token is enacted only while the submission still waits for the e-mail *)
(* the token names, and has no other submitter: the comparison is made on  *)
(* what was read, the write meets what is stored.                          *)
Enacts(c) == stage[c] = "update" /\ stage'[c] = "idle" /\ row' # row

EnactsStandingInvitation ==
  [][\A c \in Threads : Enacts(c) =>
       LET s == row[token[c].id].value IN
       s.email = token[c].email /\ s.submitter \in {None, who[c]}]_vars

(* Between two edits of a submission, invitations make at most one user its*)
(* submitter, however many people follow the link, how often, and at once. *)
OneInvitee == \A o \in Ids : \A u, w \in invitees[o] : u = w

(* Whoever follows a link and is answered 200 is the submitter at that     *)
(* moment, by this request or an earlier one.                              *)
AcceptedIsSubmitter ==
  [][\A c \in Threads :
       stage[c] \in {"get", "update"} /\ stage'[c] = "idle" /\ reply'[c] = "ok" =>
         LET o == token[c].id IN
         row'[o] # None /\ row'[o].value # Gone /\ row'[o].value.submitter = who[c]]_vars

(* The submissions behave as the objects ObjectStore implements: nothing   *)
(* is written that the object service would refuse.                        *)
Image ==
  [c \in Threads |-> IF held[c] = None THEN None
                     ELSE [id |-> held[c].id, version |-> held[c].version]]

Objects == INSTANCE AtomicObjects
  WITH Clients <- Threads, Values <- Contents, Null <- None, image <- Image
ImplementsObjects == Objects!Spec
=============================================================================
