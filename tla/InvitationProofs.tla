-------------------------- MODULE InvitationProofs --------------------------
(***************************************************************************)
(* Proofs about Invitation, for every set of sessions, people, addresses   *)
(* and submissions.  The argument: a copy whose version is the stored one  *)
(* has the stored content (HeldInv), so what GetSubmission compared        *)
(* (EnactInv) still holds when Enact is let through; and as Enact leaves no*)
(* e-mail and somebody as the submitter, the next invitee meets either     *)
(* himself or a refusal (InviteeInv).                                      *)
(***************************************************************************)
EXTENDS Invitation, TLAPS

(* A copy is of a version the submission has or had; if it has it still,   *)
(* the content is the same.                                                *)
HeldOK(copy) ==
  /\ row[copy.id] # None
  /\ copy.version <= row[copy.id].version
  /\ Current(copy) => row[copy.id].value = copy.value

HeldInv == \A c \in Threads : held[c] # None => HeldOK(held[c])

EnactOK(c) ==
  /\ held[c].id = token[c].id
  /\ held[c].value.email = token[c].email
  /\ held[c].value.submitter \in {None, who[c]}

EnactInv == \A c \in Threads : stage[c] = "update" => EnactOK(c)

InviteeInv ==
  \A o \in Ids :
    invitees[o] \subseteq (IF Stored(o) THEN {row[o].value.submitter} ELSE {})

IInv == TypeOK /\ HeldInv /\ EnactInv /\ InviteeInv

-----------------------------------------------------------------------------
LEMMA InitIInv == Init => IInv
  BY InvitationAssumption
  DEF Init, IInv, TypeOK, HeldInv, EnactInv, InviteeInv, Stored

(* The fields of what a session or a row holds.                            *)
LEMMA Fields ==
  /\ \A r \in Rows : r.version \in Nat /\ r.value \in Contents \cup {Gone} /\ r # None
  /\ \A s \in Contents : /\ s.submitter \in Users \cup {None}
                         /\ s.email \in Emails \cup {None} /\ s # Gone
  /\ \A t \in Tokens : t.id \in Ids /\ t.email \in Emails /\ t # None
  /\ \A h \in Copies : h.id \in Ids /\ h.version \in Nat /\ h.value \in Contents /\ h # None
  BY InvitationAssumption DEF Rows, Contents, Tokens, Copies

(* getObject returns a copy of a stored submission.                        *)
LEMMA CopyOfRow ==
  ASSUME TypeOK, NEW o \in Ids, Stored(o)
  PROVE  /\ CopyOf(o) \in Copies /\ CopyOf(o) # None
         /\ CopyOf(o).id = o /\ CopyOf(o).version = row[o].version
         /\ CopyOf(o).value = row[o].value
  BY Fields DEF TypeOK, Stored, CopyOf, Copies

(* What a session in progress holds.                                       *)
LEMMA Session ==
  ASSUME TypeOK, NEW c \in Threads
  PROVE  /\ stage[c] \in {"get", "update"} => who[c] \in Users /\ token[c] \in Tokens
         /\ stage[c] \in {"update", "edit"} => held[c] \in Copies /\ held[c] # None
  BY DEF TypeOK

(* A write puts a row of the next version where the copy came from.        *)
LEMMA PutRow ==
  ASSUME TypeOK, NEW copy \in Copies, NEW v \in Contents, Put(copy, v)
  PROVE  /\ row' = [row EXCEPT ![copy.id] = [version |-> copy.version + 1, value |-> v]]
         /\ row'[copy.id] = [version |-> copy.version + 1, value |-> v]
         /\ row' \in [Ids -> Rows \cup {None}]
<1>1. copy.id \in Ids /\ copy.version + 1 \in Nat
  BY Fields
<1>2. [version |-> copy.version + 1, value |-> v] \in Rows
  BY <1>1 DEF Rows
<1> QED
  BY <1>1, <1>2 DEF TypeOK, Put

LEMMA TypeStep == TypeOK /\ [Next]_vars => TypeOK'
<1> SUFFICES ASSUME TypeOK, [Next]_vars PROVE TypeOK'
  OBVIOUS
<1> USE InvitationAssumption DEF TypeOK, Principals, sessionVars
<1>1. ASSUME NEW p \in Principals, NEW o \in Ids, NEW s \in Contents, Create(p, o, s)
      PROVE  TypeOK'
  BY <1>1 DEF Create, Rows
<1>2. ASSUME NEW p \in Principals, NEW o \in Ids, NEW c \in Threads, Open(c, p, o)
      PROVE  TypeOK'
  BY <1>2, CopyOfRow DEF Open
<1>3. ASSUME NEW p \in Principals, NEW o \in Ids, Delete(p, o) PROVE TypeOK'
  BY <1>3 DEF Delete, Stored, Rows
<1>4. ASSUME NEW p \in Principals, NEW o \in Ids, Invite(p, o) PROVE TypeOK'
  BY <1>4, Fields DEF Invite, Stored, Tokens
<1>5. ASSUME NEW c \in Threads, Close(c) PROVE TypeOK'
  BY <1>5 DEF Close, Answer
<1>6. ASSUME NEW c \in Threads, NEW s \in Contents, Save(c, s) PROVE TypeOK'
  <2>1. held[c] \in Copies /\ held[c].id \in Ids
    BY <1>6, Session, Fields DEF Save
  <2>2. row' \in [Ids -> Rows \cup {None}]
    BY <1>6, <2>1, PutRow DEF Save
  <2>3. invitees' \in [Ids -> SUBSET Users]
    BY <1>6, <2>1 DEF Save
  <2> QED
    BY <1>6, <2>2, <2>3 DEF Save, Answer
<1>7. ASSUME NEW c \in Threads, WhoamiOnly(c) PROVE TypeOK'
  BY <1>7 DEF WhoamiOnly, Answer
<1>8. ASSUME NEW c \in Threads, NEW u \in Users, NEW t \in mailed, Whoami(c, u, t)
      PROVE  TypeOK'
  BY <1>8 DEF Whoami
<1>9. ASSUME NEW c \in Threads, GetSubmission(c) PROVE TypeOK'
  <2>1. who[c] \in Users /\ token[c] \in Tokens /\ token[c].id \in Ids
    BY <1>9, Session, Fields DEF GetSubmission
  <2>2. CASE Answer(c, "error") /\ UNCHANGED <<row, mailed, invitees>>
    BY <2>2 DEF Answer
  <2>3. CASE Stored(token[c].id)
    BY <1>9, <2>1, <2>3, CopyOfRow DEF GetSubmission, Answer, Outcome
  <2> QED
    BY <1>9, <2>2, <2>3 DEF GetSubmission
<1>10. ASSUME NEW c \in Threads, Enact(c) PROVE TypeOK'
  <2>1. held[c] \in Copies /\ held[c].id \in Ids /\ who[c] \in Users
    BY <1>10, Session, Fields DEF Enact
  <2>2. [submitter |-> who[c], email |-> None] \in Contents
    BY <2>1 DEF Contents
  <2>3. row' \in [Ids -> Rows \cup {None}]
    BY <1>10, <2>1, <2>2, PutRow DEF Enact
  <2>4. invitees' \in [Ids -> SUBSET Users]
    BY <1>10, <2>1 DEF Enact
  <2> QED
    BY <1>10, <2>3, <2>4 DEF Enact, Answer
<1>11. ASSUME NEW c \in Threads, Fail(c) PROVE TypeOK'
  BY <1>11 DEF Fail, Answer
<1>12. ASSUME UNCHANGED vars PROVE TypeOK'
  BY <1>12 DEF vars
<1> QED
  BY <1>1, <1>2, <1>3, <1>4, <1>5, <1>6, <1>7, <1>8, <1>9, <1>10, <1>11, <1>12
  DEF Next, Edit, Serve

-----------------------------------------------------------------------------
(* The writes of a step, and what they leave of a submission.              *)

(* The writes of saves and enactments.                                     *)
Writes(c, v) == held[c] \in Copies /\ Current(held[c]) /\ Put(held[c], v)

LEMMA StepOfRow ==
  ASSUME TypeOK, [Next]_vars
  PROVE  \/ row' = row
         \/ \E o \in Ids, s \in Contents :
              row[o] = None /\ row' = [row EXCEPT ![o] = [version |-> 0, value |-> s]]
         \/ \E o \in Ids : Stored(o) /\ row' = [row EXCEPT ![o].value = Gone]
         \/ \E c \in Threads, s \in Contents : Writes(c, s)
<1>1. ASSUME NEW c \in Threads, NEW s \in Contents, Save(c, s)
      PROVE  row' = row \/ Writes(c, s)
  BY <1>1, Session DEF Save, Writes
<1>2. ASSUME NEW c \in Threads, Enact(c)
      PROVE  row' = row \/ \E s \in Contents : Writes(c, s)
  <2>1. who[c] \in Users /\ [submitter |-> who[c], email |-> None] \in Contents
    BY <1>2, Session DEF Enact, Contents
  <2> QED
    BY <1>2, <2>1, Session DEF Enact, Writes
<1> QED
  BY <1>1, <1>2
  DEF Next, Edit, Serve, Create, Open, Delete, Invite, Close, WhoamiOnly, Whoami,
      GetSubmission, Fail, vars

(* Versions only grow, and a content is not replaced without a new version.*)
LEMMA RowGrows ==
  ASSUME TypeOK, [Next]_vars, NEW o \in Ids, row[o] # None
  PROVE  /\ row'[o] # None
         /\ row'[o].version >= row[o].version
         /\ Stored(o)' /\ row'[o].version = row[o].version => row'[o] = row[o]
<1>1. row[o] \in Rows /\ row[o].version \in Nat
  BY Fields DEF TypeOK
<1>2. ASSUME NEW p \in Ids, NEW s \in Contents,
             row[p] = None, row' = [row EXCEPT ![p] = [version |-> 0, value |-> s]]
      PROVE  row'[o] = row[o]
  BY <1>2 DEF TypeOK
<1>3. ASSUME NEW p \in Ids, Stored(p), row' = [row EXCEPT ![p].value = Gone]
      PROVE  row'[o] = row[o] \/ row'[o] = [row[o] EXCEPT !.value = Gone]
  BY <1>3 DEF TypeOK
<1>4. [row[o] EXCEPT !.value = Gone] \in Rows
  BY <1>1 DEF Rows
<1>5. ASSUME NEW c \in Threads, NEW s \in Contents, Writes(c, s)
      PROVE  \/ row'[o] = row[o]
             \/ row'[o] \in Rows /\ row'[o].version = row[o].version + 1
  <2>1. /\ held[c].id \in Ids /\ held[c].version \in Nat
        /\ row'[held[c].id] = [version |-> held[c].version + 1, value |-> s]
        /\ row'[held[c].id] \in Rows
    BY <1>5, PutRow, Fields DEF Writes, TypeOK, Rows
  <2>2. CASE o = held[c].id
    BY <1>5, <2>1, <2>2 DEF Writes, Current
  <2>3. CASE o # held[c].id
    <3>1. row' = [row EXCEPT ![held[c].id] = row'[held[c].id]]
      BY <1>5, <2>1 DEF Writes, Put, TypeOK
    <3> QED
      BY <2>3, <3>1 DEF TypeOK
  <2> QED
    BY <2>2, <2>3
<1>6. \/ row'[o] = row[o]
      \/ row'[o] = [row[o] EXCEPT !.value = Gone]
      \/ row'[o] \in Rows /\ row'[o].version = row[o].version + 1
  BY <1>2, <1>3, <1>5, StepOfRow
<1>7. CASE row'[o] = [row[o] EXCEPT !.value = Gone]
  BY <1>1, <1>4, <1>7, Fields DEF Stored, Rows
<1> QED
  BY <1>1, <1>6, <1>7, Fields

(* A session's copy changes only when it is read, or let go of.            *)
LEMMA StepOfHeld ==
  ASSUME TypeOK, [Next]_vars, NEW c \in Threads
  PROVE  \/ held'[c] = held[c]
         \/ held'[c] = None
         \/ \E o \in Ids : Stored(o) /\ held'[c] = CopyOf(o) /\ row' = row
<1>1. ASSUME NEW d \in Threads, GetSubmission(d)
      PROVE  \/ held'[c] = held[c]
             \/ held'[c] = None
             \/ \E o \in Ids : Stored(o) /\ held'[c] = CopyOf(o) /\ row' = row
  <2>1. token[d].id \in Ids
    BY <1>1, Session, Fields DEF GetSubmission
  <2> QED
    BY <1>1, <2>1 DEF GetSubmission, Answer, TypeOK
<1>2. ASSUME NEW d \in Threads, NEW p \in Principals, NEW o \in Ids, Open(d, p, o)
      PROVE  held'[c] = held[c] \/ (Stored(o) /\ held'[c] = CopyOf(o) /\ row' = row)
  BY <1>2 DEF Open, TypeOK
<1>3. ASSUME NEW d \in Threads, NEW r, Answer(d, r)
      PROVE  held'[c] = held[c] \/ held'[c] = None
  BY <1>3 DEF Answer, TypeOK
<1>4. ASSUME NEW d \in Threads, Close(d) \/ WhoamiOnly(d) \/ Enact(d) \/ Fail(d)
      PROVE  held'[c] = held[c] \/ held'[c] = None
  BY <1>3, <1>4 DEF Close, WhoamiOnly, Enact, Fail
<1>5. ASSUME NEW d \in Threads, NEW s \in Contents, Save(d, s)
      PROVE  held'[c] = held[c] \/ held'[c] = None
  BY <1>3, <1>5 DEF Save
<1>6. ASSUME NEW p \in Principals, NEW o \in Ids,
             (\E s \in Contents : Create(p, o, s)) \/ Delete(p, o) \/ Invite(p, o)
      PROVE  held' = held
  BY <1>6 DEF Create, Delete, Invite, sessionVars
<1>7. ASSUME NEW d \in Threads, NEW u \in Users, NEW t \in mailed, Whoami(d, u, t)
      PROVE  held' = held
  BY <1>7 DEF Whoami
<1>8. UNCHANGED vars => held' = held
  BY DEF vars, sessionVars
<1> QED
  BY <1>1, <1>2, <1>4, <1>5, <1>6, <1>7, <1>8 DEF Next, Edit, Serve

LEMMA HeldStep == TypeOK /\ HeldInv /\ [Next]_vars => HeldInv'
<1> SUFFICES ASSUME TypeOK, HeldInv, [Next]_vars, NEW c \in Threads, held'[c] # None
             PROVE  HeldOK(held[c])'
  BY DEF HeldInv
<1>1. ASSUME NEW h \in Copies, held[c] = h, held'[c] = h PROVE HeldOK(h)'
  <2>1. h.id \in Ids /\ h.version \in Nat /\ h # None /\ HeldOK(h)
    BY <1>1, Fields DEF HeldInv
  <2>2. row[h.id] # None /\ row[h.id] \in Rows /\ row[h.id].version \in Nat
    BY <2>1, Fields DEF TypeOK, HeldOK
  <2>3. row'[h.id] # None /\ row'[h.id] \in Rows /\ row'[h.id].version \in Nat
    BY <2>1, <2>2, RowGrows, TypeStep, Fields DEF TypeOK
  <2>4. h.version <= row'[h.id].version
    BY <2>1, <2>2, <2>3, RowGrows DEF HeldOK
  <2>5. ASSUME Current(h)' PROVE row'[h.id].value = h.value
    <3>1. row'[h.id].version = row[h.id].version /\ Stored(h.id)'
      BY <2>1, <2>2, <2>3, <2>5, RowGrows DEF Current, HeldOK
    <3>2. row'[h.id] = row[h.id]
      BY <2>1, <2>2, <3>1, RowGrows
    <3> QED
      BY <2>1, <2>5, <3>2 DEF Current, HeldOK, Stored
  <2> QED
    BY <2>3, <2>4, <2>5 DEF HeldOK
<1>2. ASSUME NEW o \in Ids, Stored(o), held'[c] = CopyOf(o), row' = row
      PROVE  HeldOK(held[c])'
  BY <1>2, CopyOfRow, Fields DEF HeldOK, Current, Stored, TypeOK
<1>3. CASE held'[c] = held[c]
  <2>1. held[c] \in Copies
    BY <1>3 DEF TypeOK
  <2> QED
    BY <1>1, <1>3, <2>1 DEF HeldOK, Current, Stored
<1> QED
  BY <1>2, <1>3, StepOfHeld

(* A session changes only by its own steps.                                *)
Same(c) ==
  /\ stage'[c] = stage[c] /\ who'[c] = who[c] /\ token'[c] = token[c]
  /\ held'[c] = held[c] /\ reply'[c] = reply[c]

EditStep(c) ==
  \/ \E p \in Principals, o \in Ids : Open(c, p, o)
  \/ Close(c)
  \/ \E s \in Contents : Save(c, s)

LEMMA OwnSteps ==
  ASSUME TypeOK, [Next]_vars, NEW c \in Threads
  PROVE  \/ Same(c) \/ EditStep(c) \/ WhoamiOnly(c)
         \/ \E u \in Users, t \in mailed : Whoami(c, u, t)
         \/ Serve(c)
<1> USE DEF TypeOK, Same, sessionVars
<1>1. ASSUME NEW d \in Threads, d # c, EditStep(d) PROVE Same(c)
  BY <1>1 DEF EditStep, Open, Close, Save, Answer
<1>2. ASSUME NEW d \in Threads, d # c, WhoamiOnly(d) PROVE Same(c)
  BY <1>2 DEF WhoamiOnly, Answer
<1>3. ASSUME NEW d \in Threads, d # c, NEW u \in Users, NEW t \in mailed, Whoami(d, u, t)
      PROVE  Same(c)
  BY <1>3 DEF Whoami
<1>4. ASSUME NEW d \in Threads, d # c, Serve(d) PROVE Same(c)
  <2>1. CASE GetSubmission(d)
    BY <1>4, <2>1 DEF GetSubmission, Answer
  <2>2. CASE Enact(d) \/ Fail(d)
    BY <1>4, <2>2 DEF Enact, Fail, Answer
  <2> QED
    BY <1>4, <2>1, <2>2 DEF Serve
<1>5. ASSUME NEW p \in Principals, NEW o \in Ids,
             (\E s \in Contents : Create(p, o, s)) \/ Delete(p, o) \/ Invite(p, o)
      PROVE  Same(c)
  BY <1>5 DEF Create, Delete, Invite
<1>6. ASSUME UNCHANGED vars PROVE Same(c)
  BY <1>6 DEF vars
<1> QED
  BY <1>1, <1>2, <1>3, <1>4, <1>5, <1>6 DEF Next, Edit, EditStep

LEMMA EnactStep == TypeOK /\ EnactInv /\ [Next]_vars => EnactInv'
<1> SUFFICES ASSUME TypeOK, EnactInv, [Next]_vars, NEW c \in Threads, stage'[c] = "update"
             PROVE  EnactOK(c)'
  BY DEF EnactInv
<1>1. CASE GetSubmission(c)
  <2>1. token[c] \in Tokens /\ token[c].id \in Ids /\ token[c].email # None
    BY <1>1, Session, Fields, InvitationAssumption DEF GetSubmission
  <2>2. /\ Stored(token[c].id)
        /\ Outcome(row[token[c].id].value, token[c], who[c]) = "update"
        /\ held'[c] = CopyOf(token[c].id) /\ who' = who /\ token' = token
    BY <1>1 DEF GetSubmission, Answer, TypeOK
  <2>3. /\ token[c].email = row[token[c].id].value.email
        /\ row[token[c].id].value.submitter \in {None, who[c]}
    BY <2>2 DEF Outcome
  <2> QED
    BY <2>1, <2>2, <2>3, CopyOfRow DEF EnactOK
<1>2. CASE ~GetSubmission(c)
  <2>1. stage[c] = "update" /\ held'[c] = held[c] /\ token'[c] = token[c] /\ who'[c] = who[c]
    <3>1. ~EditStep(c) /\ ~WhoamiOnly(c)
      BY DEF EditStep, Open, Close, Save, WhoamiOnly, Answer, TypeOK
    <3>2. ~(\E u \in Users, t \in mailed : Whoami(c, u, t)) /\ ~Enact(c) /\ ~Fail(c)
      BY DEF Whoami, Enact, Fail, Answer, TypeOK
    <3> QED
      BY <1>2, <3>1, <3>2, OwnSteps DEF Serve, Same
  <2> QED
    BY <2>1 DEF EnactInv, EnactOK
<1> QED
  BY <1>1, <1>2

(* What an enactment does, when the write is let through.                  *)
LEMMA Enactment ==
  ASSUME TypeOK, HeldInv, EnactInv, NEW c \in Threads, Enact(c), Current(held[c])
  PROVE  /\ token[c] \in Tokens /\ token[c].id \in Ids /\ who[c] \in Users
         /\ held[c].id = token[c].id
         /\ Stored(token[c].id)
         /\ row[token[c].id].value.email = token[c].email
         /\ row[token[c].id].value.submitter \in {None, who[c]}
         /\ row'[token[c].id].value = [submitter |-> who[c], email |-> None]
         /\ row'[token[c].id] # None
         /\ \A o \in Ids : o # token[c].id => row'[o] = row[o]
         /\ invitees' = [invitees EXCEPT ![token[c].id] = @ \cup {who[c]}]
<1>1. /\ held[c] \in Copies /\ token[c] \in Tokens /\ who[c] \in Users
      /\ held[c].id \in Ids /\ held[c].version \in Nat /\ held[c] # None
  BY Session, Fields DEF Enact
<1>2. EnactOK(c) /\ HeldOK(held[c])
  BY <1>1 DEF Enact, EnactInv, HeldInv
<1>3. [submitter |-> who[c], email |-> None] \in Contents
  BY <1>1 DEF Contents
<1>4. Put(held[c], [submitter |-> who[c], email |-> None])
  BY DEF Enact
<1>5. /\ row'[held[c].id] = [version |-> held[c].version + 1,
                             value |-> [submitter |-> who[c], email |-> None]]
      /\ row' \in [Ids -> Rows \cup {None}]
  BY <1>1, <1>3, <1>4, PutRow
<1>6. row'[held[c].id] # None
  BY <1>1, <1>3, <1>5, Fields DEF Rows
<1>7. \A o \in Ids : o # held[c].id => row'[o] = row[o]
  BY <1>1, <1>4 DEF Put, TypeOK
<1> QED
  BY <1>1, <1>2, <1>5, <1>6, <1>7, Fields DEF Enact, EnactOK, HeldOK, Current

LEMMA InviteeStep ==
  TypeOK /\ HeldInv /\ EnactInv /\ InviteeInv /\ [Next]_vars => InviteeInv'
<1> DEFINE OK(o) == invitees[o] \subseteq (IF Stored(o) THEN {row[o].value.submitter} ELSE {})
<1> SUFFICES ASSUME TypeOK, HeldInv, EnactInv, InviteeInv, [Next]_vars, NEW o \in Ids
             PROVE  OK(o)'
  BY DEF InviteeInv
<1>1. ASSUME row'[o] = row[o], invitees'[o] = invitees[o] PROVE OK(o)'
  BY <1>1 DEF InviteeInv, Stored
<1>2. ASSUME invitees'[o] = {} PROVE OK(o)'
  BY <1>2
<1>3. ASSUME NEW c \in Threads, Enact(c) PROVE OK(o)'
  <2>1. CASE Current(held[c]) /\ o = token[c].id
    <3>1. /\ who[c] \in Users /\ Stored(o)
          /\ row[o].value.submitter \in {None, who[c]}
          /\ row'[o].value = [submitter |-> who[c], email |-> None]
          /\ row'[o] # None
          /\ invitees' = [invitees EXCEPT ![o] = invitees[o] \cup {who[c]}]
      BY <1>3, <2>1, Enactment
    <3>2. invitees[o] \subseteq {None, who[c]}
      BY <3>1 DEF InviteeInv
    <3>3. invitees[o] \subseteq Users /\ None \notin Users
      BY InvitationAssumption DEF TypeOK, Principals
    <3>4. invitees'[o] = invitees[o] \cup {who[c]}
      BY <3>1 DEF TypeOK
    <3>5. [submitter |-> who[c], email |-> None] \in Contents
      BY <3>1 DEF Contents
    <3>6. Stored(o)' /\ row'[o].value.submitter = who[c]
      BY <3>1, <3>5, Fields DEF Stored
    <3> QED
      BY <3>2, <3>3, <3>4, <3>6
  <2>2. CASE ~Current(held[c]) \/ o # token[c].id
    <3>1. row'[o] = row[o] /\ invitees'[o] = invitees[o]
      BY <1>3, <2>2, Enactment DEF Enact, TypeOK
    <3> QED
      BY <1>1, <3>1
  <2> QED
    BY <2>1, <2>2
<1>4. ASSUME NEW c \in Threads, NEW s \in Contents, Save(c, s)
      PROVE  \/ row'[o] = row[o] /\ invitees'[o] = invitees[o]
             \/ invitees'[o] = {}
  BY <1>4, Session, Fields DEF Save, Put, TypeOK
<1>5. ASSUME NEW p \in Principals, NEW q \in Ids, Delete(p, q)
      PROVE  \/ row'[o] = row[o] /\ invitees'[o] = invitees[o]
             \/ invitees'[o] = {}
  BY <1>5 DEF Delete, TypeOK
<1>6. ASSUME NEW p \in Principals, NEW q \in Ids, NEW s \in Contents, Create(p, q, s)
      PROVE  \/ row'[o] = row[o] /\ invitees'[o] = invitees[o]
             \/ invitees'[o] = {}
  BY <1>6 DEF Create, TypeOK, InviteeInv, Stored
<1> QED
  BY <1>1, <1>2, <1>3, <1>4, <1>5, <1>6
  DEF Next, Edit, Serve, Open, Invite, Close, WhoamiOnly, Whoami, GetSubmission, Fail, vars

-----------------------------------------------------------------------------
(* Theorems.                                                               *)

(* The inductive invariant holds in every reachable state.                 *)
THEOREM InductiveInvariant == Spec => []IInv
<1>1. IInv /\ [Next]_vars => IInv'
  BY TypeStep, HeldStep, EnactStep, InviteeStep DEF IInv
<1> QED
  BY InitIInv, <1>1, PTL DEF Spec

(* Every reachable state is well typed; in particular a link is only mailed*)
(* for a submission that waits for an e-mail.                              *)
THEOREM TypeCorrect == Spec => []TypeOK
<1>1. IInv => TypeOK
  BY DEF IInv
<1> QED
  BY InductiveInvariant, <1>1, PTL

(* Invitations make at most one user the submitter between two edits.      *)
THEOREM OnlyOneInvitee == Spec => []OneInvitee
<1>1. IInv => OneInvitee
  BY DEF IInv, InviteeInv, OneInvitee
<1> QED
  BY InductiveInvariant, <1>1, PTL

(* An enactment meets the submission it was decided for.                   *)
THEOREM InvitationsStand == Spec => EnactsStandingInvitation
<1>1. IInv /\ [Next]_vars =>
        \A c \in Threads : Enacts(c) =>
          LET s == row[token[c].id].value IN
          s.email = token[c].email /\ s.submitter \in {None, who[c]}
  <2> SUFFICES ASSUME IInv, [Next]_vars, NEW c \in Threads, Enacts(c)
               PROVE  /\ row[token[c].id].value.email = token[c].email
                      /\ row[token[c].id].value.submitter \in {None, who[c]}
    OBVIOUS
  <2>1. TypeOK /\ HeldInv /\ EnactInv
    BY DEF IInv
  <2>2. ~Same(c) /\ ~EditStep(c) /\ ~WhoamiOnly(c)
        /\ ~(\E u \in Users, t \in mailed : Whoami(c, u, t))
    BY DEF Enacts, Same, EditStep, Open, Close, Save, WhoamiOnly, Whoami
  <2>3. ~GetSubmission(c) /\ ~Fail(c)
    BY DEF Enacts, GetSubmission, Fail
  <2>4. Enact(c) /\ Current(held[c])
    BY <2>1, <2>2, <2>3, OwnSteps DEF Serve, Enact, Enacts
  <2> QED
    BY <2>1, <2>4, Enactment
<1> QED
  BY InductiveInvariant, <1>1, PTL DEF Spec, EnactsStandingInvitation

(* Whoever is answered 200 is the submitter at that moment.                *)
THEOREM AcceptedIsRight == Spec => AcceptedIsSubmitter
<1>1. IInv /\ [Next]_vars =>
        \A c \in Threads :
          stage[c] \in {"get", "update"} /\ stage'[c] = "idle" /\ reply'[c] = "ok" =>
            LET o == token[c].id IN
            row'[o] # None /\ row'[o].value # Gone /\ row'[o].value.submitter = who[c]
  <2> SUFFICES ASSUME IInv, [Next]_vars, NEW c \in Threads,
                      stage[c] \in {"get", "update"}, stage'[c] = "idle", reply'[c] = "ok"
               PROVE  /\ row'[token[c].id] # None
                      /\ row'[token[c].id].value # Gone
                      /\ row'[token[c].id].value.submitter = who[c]
    OBVIOUS
  <2>1. TypeOK /\ HeldInv /\ EnactInv
    BY DEF IInv
  <2>2. ~Same(c) /\ ~EditStep(c) /\ ~WhoamiOnly(c)
        /\ ~(\E u \in Users, t \in mailed : Whoami(c, u, t))
    BY DEF Same, EditStep, Open, Close, Save, WhoamiOnly, Whoami
  <2>3. CASE GetSubmission(c)
    <3>1. /\ Stored(token[c].id) /\ row' = row
          /\ Outcome(row[token[c].id].value, token[c], who[c]) = "ok"
      BY <2>1, <2>3 DEF GetSubmission, Answer, TypeOK
    <3> QED
      BY <3>1 DEF Outcome, Stored
  <2>4. CASE Enact(c)
    <3>1. Current(held[c])
      BY <2>1, <2>4 DEF Enact, Answer, TypeOK
    <3>2. /\ who[c] \in Users /\ row'[token[c].id] # None
          /\ row'[token[c].id].value = [submitter |-> who[c], email |-> None]
      BY <2>1, <2>4, <3>1, Enactment
    <3>3. [submitter |-> who[c], email |-> None] \in Contents
      BY <3>2 DEF Contents
    <3> QED
      BY <3>2, <3>3, Fields
  <2>5. ~Fail(c)
    BY <2>1 DEF Fail, Answer, TypeOK
  <2> QED
    BY <2>1, <2>2, <2>3, <2>4, <2>5, OwnSteps DEF Serve
<1> QED
  BY InductiveInvariant, <1>1, PTL DEF Spec, AcceptedIsSubmitter

(* The images of a session that lets go of its copy, or gets one.          *)
LEMMA ImageStep ==
  ASSUME TypeOK, NEW c \in Threads
  PROVE  /\ held' = held => Image' = Image
         /\ held' = [held EXCEPT ![c] = None] => Image' = [Image EXCEPT ![c] = None]
         /\ \A o \in Ids : Stored(o) /\ held' = [held EXCEPT ![c] = CopyOf(o)] =>
              Image' = [Image EXCEPT ![c] = [id |-> o, version |-> row[o].version]]
<1>1. ASSUME NEW o \in Ids, Stored(o), held' = [held EXCEPT ![c] = CopyOf(o)]
      PROVE  Image' = [Image EXCEPT ![c] = [id |-> o, version |-> row[o].version]]
  <2>1. CopyOf(o) # None /\ CopyOf(o).id = o /\ CopyOf(o).version = row[o].version
    BY <1>1, CopyOfRow
  <2> QED
    BY <1>1, <2>1 DEF Image, TypeOK
<1>2. held' = [held EXCEPT ![c] = None] => Image' = [Image EXCEPT ![c] = None]
  BY DEF Image, TypeOK
<1> QED
  BY <1>1, <1>2 DEF Image

(* Reading, forgetting and replacing a copy are steps of AtomicObjects.    *)
LEMMA ReadsMap ==
  ASSUME TypeOK, NEW c \in Threads, NEW o \in Ids,
         Stored(o), held' = [held EXCEPT ![c] = CopyOf(o)], row' = row
  PROVE  Objects!Learn(c, o)
<1>1. row[o] # None /\ row[o].version \in Nat
  BY Fields DEF TypeOK, Stored
<1>2. Image' = [Image EXCEPT ![c] = [id |-> o, version |-> row[o].version]]
  BY ImageStep
<1>3. row[o].version \in 0 .. row[o].version
  BY <1>1
<1> QED
  BY <1>1, <1>2, <1>3 DEF Objects!Learn

LEMMA AnswersMap ==
  ASSUME TypeOK, NEW c \in Threads, NEW r, Answer(c, r), row' = row
  PROVE  Objects!Forget(c)
  BY ImageStep DEF Answer, Objects!Forget

LEMMA WritesMap ==
  ASSUME TypeOK, NEW c \in Threads, NEW r, NEW s \in Contents, Answer(c, r), Writes(c, s)
  PROVE  \E o \in Ids : Objects!Replace(c, o, s)
<1>1. /\ held[c].id \in Ids /\ held[c] # None
      /\ Stored(held[c].id) /\ row[held[c].id].version = held[c].version
      /\ row' = [row EXCEPT ![held[c].id] = [version |-> held[c].version + 1, value |-> s]]
  BY Fields DEF Writes, Current, Put
<1>2. Image[c] = [id |-> held[c].id, version |-> row[held[c].id].version]
  BY <1>1 DEF Image
<1>3. row' = [row EXCEPT ![held[c].id] = [version |-> @.version + 1, value |-> s]]
  BY <1>1 DEF TypeOK
<1>4. Image' = [Image EXCEPT ![c] = None]
  BY ImageStep DEF Answer
<1>5. Objects!Stored(held[c].id)
  BY <1>1 DEF Stored, Objects!Stored
<1>6. Objects!Replace(c, held[c].id, s)
  BY <1>2, <1>3, <1>4, <1>5 DEF Objects!Replace
<1> QED
  BY <1>1, <1>6

(* The submissions of Invitation behave as AtomicObjects: every step is one*)
(* the object service lets happen.                                         *)
THEOREM Refinement == Spec => ImplementsObjects
<1>1. Init => Objects!Init
  BY DEF Init, Objects!Init, Image
<1>2. TypeOK /\ [Next]_vars => [Objects!Next]_(Objects!absVars)
  <2> SUFFICES ASSUME TypeOK, [Next]_vars
               PROVE  Objects!Next \/ UNCHANGED Objects!absVars
    OBVIOUS
  <2>1. ASSUME NEW p \in Principals, NEW o \in Ids, NEW s \in Contents, Create(p, o, s)
        PROVE  Objects!Insert(o, s)
    BY <2>1 DEF Create, Objects!Insert, sessionVars, Image
  <2>2. ASSUME NEW p \in Principals, NEW o \in Ids, NEW c \in Threads, Open(c, p, o)
        PROVE  Objects!Learn(c, o)
    BY <2>2, ReadsMap DEF Open
  <2>3. ASSUME NEW p \in Principals, NEW o \in Ids, Delete(p, o)
        PROVE  Objects!Remove(o)
    BY <2>3 DEF Delete, Objects!Remove, Objects!Stored, Stored, sessionVars, Image
  <2>4. ASSUME NEW c \in Threads, Close(c) \/ WhoamiOnly(c) \/ Fail(c)
        PROVE  Objects!Forget(c)
    BY <2>4, AnswersMap DEF Close, WhoamiOnly, Fail
  <2>5. ASSUME NEW c \in Threads, NEW s \in Contents, Save(c, s)
        PROVE  Objects!Forget(c) \/ \E o \in Ids : Objects!Replace(c, o, s)
    BY <2>5, AnswersMap, WritesMap, Session DEF Save, Writes
  <2>6. ASSUME NEW c \in Threads, GetSubmission(c)
        PROVE  Objects!Forget(c) \/ \E o \in Ids : Objects!Learn(c, o)
    <3>1. token[c].id \in Ids
      BY <2>6, Session, Fields DEF GetSubmission
    <3> QED
      BY <2>6, <3>1, AnswersMap, ReadsMap DEF GetSubmission
  <2>7. ASSUME NEW c \in Threads, Enact(c)
        PROVE  Objects!Forget(c) \/ \E o \in Ids, s \in Contents : Objects!Replace(c, o, s)
    <3>1. [submitter |-> who[c], email |-> None] \in Contents
      BY <2>7, Session DEF Enact, Contents
    <3> QED
      BY <2>7, <3>1, AnswersMap, WritesMap, Session DEF Enact, Writes
  <2>8. ASSUME \/ \E p \in Principals, o \in Ids : Invite(p, o)
               \/ \E c \in Threads, u \in Users, t \in mailed : Whoami(c, u, t)
               \/ UNCHANGED vars
        PROVE  UNCHANGED Objects!absVars
    BY <2>8 DEF Invite, Whoami, vars, sessionVars, Objects!absVars, Image
  <2> QED
    BY <2>1, <2>2, <2>3, <2>4, <2>5, <2>6, <2>7, <2>8
    DEF Next, Edit, Serve, Objects!Next
<1> QED
  BY TypeCorrect, <1>1, <1>2, PTL DEF Spec, ImplementsObjects, Objects!Spec
=============================================================================
