-------------------------- MODULE ObjectStoreProofs -------------------------
(***************************************************************************)
(* Proofs about ObjectStore, for every set of clients, objects and contents*)
(* and every bound.  The argument: a row's lock serialises the flushed     *)
(* requests (LockInv); a request accepted by the version check replaces    *)
(* the row it loaded (FlushInv), and the version it sent is the one its    *)
(* client holds (AskedInv); so a commit is the abstract Replace.  Versions *)
(* only grow and name a content, so that a consumer that reads an object   *)
(* whenever it is told to never goes back.                                 *)
(***************************************************************************)
EXTENDS ObjectStore, TLAPS

(* A client is idle exactly when it has no request.                        *)
IdleInv == \A c \in Clients : stage[c] = "idle" <=> req[c] = Null

(* A client's object is a version the row has or had.                      *)
CopyInv ==
  \A c \in Clients : copy[c] # Null =>
    /\ row[copy[c].id] # Null
    /\ copy[c].version <= row[copy[c].id].version

(* What a transaction loaded is an earlier state of the row, or its present*)
(* one if the version is still the same.                                   *)
BaseInv ==
  \A c \in Clients : req[c] # Null /\ req[c].kind # "create" =>
    /\ req[c].base # Null
    /\ row[req[c].id] # Null
    /\ req[c].base.version <= row[req[c].id].version
    /\ BaseIsCurrent(req[c]) => row[req[c].id] = req[c].base

ValueInv ==
  \A c \in Clients : req[c] # Null => (req[c].kind = "delete" <=> req[c].value = Gone)

AskedInv ==
  \A c \in Clients :
    req[c] # Null /\ req[c].kind = "update" /\ req[c].asked # NoVersion =>
      /\ copy[c] = [id |-> req[c].id, version |-> req[c].asked]
      /\ req[c].asked <= req[c].base.version

LockInv ==
  /\ \A c \in Clients : stage[c] = "flushed" => holder[req[c].id] = c
  /\ \A o \in Ids : holder[o] # Null =>
       stage[holder[o]] = "flushed" /\ req[holder[o]].id = o

LoadedInv == \A c \in Clients : stage[c] = "loaded" => req[c].kind # "create"

FlushedOK(c) ==
  \/ req[c].kind = "create" /\ row[req[c].id] = Null /\ req[c].next = 0
  \/ /\ req[c].kind = "update" /\ BaseIsCurrent(req[c])
     /\ req[c].next = req[c].base.version + 1
     /\ req[c].asked = req[c].base.version
  \/ /\ req[c].kind = "delete" /\ BaseIsCurrent(req[c])
     /\ req[c].next = req[c].base.version

FlushInv == \A c \in Clients : stage[c] = "flushed" => FlushedOK(c)

CommittedOK(c) ==
  /\ row[req[c].id] # Null
  /\ req[c].next <= row[req[c].id].version
  /\ req[c].kind = "update" /\ ~Wrote(req[c]) => req[c].next < row[req[c].id].version

CommittedInv == \A c \in Clients : stage[c] = "committed" => CommittedOK(c)

IInv ==
  /\ TypeOK
  /\ IdleInv
  /\ CopyInv
  /\ BaseInv
  /\ ValueInv
  /\ AskedInv
  /\ LockInv
  /\ LoadedInv
  /\ FlushInv
  /\ CommittedInv

-----------------------------------------------------------------------------
LEMMA InitIInv == Init => IInv
  BY ConstantsAssumption, NullAssumption
  DEF Init, IInv, TypeOK, IdleInv, CopyInv, BaseInv, ValueInv, AskedInv, LockInv,
      LoadedInv, FlushInv, FlushedOK, CommittedInv, CommittedOK, Stages, Replies, NoVersion

-----------------------------------------------------------------------------
(* One lemma per conjunct of the invariant: a step preserves it.           *)

(* Recording the version to be stored changes nothing else of a request.   *)
LEMMA WithNext ==
  ASSUME NEW r \in Requests, NEW n \in Nat
  PROVE  /\ [r EXCEPT !.next = n] \in Requests
         /\ [r EXCEPT !.next = n] # Null
  BY NullAssumption DEF Requests

(* A loaded request has a row it was loaded from.                          *)
LEMMA LoadedRequest ==
  ASSUME TypeOK, IdleInv, BaseInv, LoadedInv,
         NEW c \in Clients, stage[c] = "loaded"
  PROVE  /\ req[c] \in Requests /\ req[c].id \in Ids
         /\ req[c].base \in Rows /\ req[c].base.version \in Nat
  BY DEF TypeOK, IdleInv, BaseInv, LoadedInv, Requests, Rows

(* A versioned request that the check accepts names the loaded version.    *)
LEMMA AcceptedVersion ==
  ASSUME NEW asked \in Nat \cup {NoVersion}, NEW version \in Nat,
         asked # NoVersion => asked <= version,
         VersionAccepted(asked, version + 1)
  PROVE  asked = version
  BY DEF VersionAccepted, NoVersion

(* If only the version makes the hooks fire, the client sent an older one. *)
LEMMA OlderVersion ==
  ASSUME NEW r, r.asked \in Nat \cup {NoVersion}, r.base.version \in Nat,
         r.asked # NoVersion => r.asked <= r.base.version,
         EventFires(r), r.value = r.base.value
  PROVE  r.asked \in Nat /\ r.asked < r.base.version
  BY DEF EventFires, NoVersion

LEMMA TypeStep == IInv /\ [Next]_vars => TypeOK'
<1> SUFFICES ASSUME TypeOK, IdleInv, BaseInv, LoadedInv, [Next]_vars PROVE TypeOK'
  BY DEF IInv
<1> USE ConstantsAssumption, NullAssumption
    DEF TypeOK, Stages, Replies, NoVersion, clientVars, queueVars
<1>1. ASSUME NEW c \in Clients, NEW o \in Ids, Fetch(c, o) PROVE TypeOK'
  BY <1>1 DEF Fetch, Stored, Copies, Rows
<1>2. ASSUME NEW c \in Clients, NEW o \in Ids, NEW v \in Values, BeginCreate(c, o, v)
      PROVE  TypeOK'
  BY <1>2 DEF BeginCreate, Start, Requests, Kinds
<1>3. ASSUME NEW c \in Clients, NEW o \in Ids, NEW asked \in AskedVersions(c, o),
             NEW v \in Values, BeginUpdate(c, o, asked, v)
      PROVE  TypeOK'
  BY <1>3 DEF BeginUpdate, Start, Answer, Requests, Kinds, AskedVersions, Stored, Copies
<1>4. ASSUME NEW c \in Clients, NEW o \in Ids, BeginDelete(c, o) PROVE TypeOK'
  BY <1>4 DEF BeginDelete, Start, Answer, Requests, Kinds, Stored
<1>5. ASSUME NEW c \in Clients, AnswerUnchanged(c) PROVE TypeOK'
  BY <1>5 DEF AnswerUnchanged, BaseInv, LoadedInv, Answer, Requests, Copies, Rows, IdleInv
<1>6. ASSUME NEW c \in Clients, FlushUpdate(c) PROVE TypeOK'
  <2>1. req[c] \in Requests /\ req[c].base \in Rows
    BY <1>6 DEF FlushUpdate, IdleInv, BaseInv, LoadedInv, Requests
  <2>2. req' \in [Clients -> Requests \cup {Null}]
    <3> DEFINE r == [req[c] EXCEPT !.next = req[c].base.version + 1]
    <3>1. r \in Requests
      BY <2>1 DEF Requests, Rows
    <3>2. req' = [req EXCEPT ![c] = r] \/ req' = [req EXCEPT ![c] = Null]
      BY <1>6 DEF FlushUpdate, Answer
    <3> QED
      BY <3>1, <3>2
  <2>3. /\ stage' = [stage EXCEPT ![c] = "flushed"] \/ stage' = [stage EXCEPT ![c] = "idle"]
        /\ reply' = reply \/ reply' = [reply EXCEPT ![c] = "conflict"]
        /\ holder' = holder \/ holder' = [holder EXCEPT ![req[c].id] = c]
        /\ UNCHANGED <<row, copy, queueVars, faults, unsent>>
    BY <1>6 DEF FlushUpdate, Answer
  <2> QED
    BY <2>2, <2>3
<1>7. ASSUME NEW c \in Clients, CheckUnchanged(c) PROVE TypeOK'
  <2>1. req[c] \in Requests /\ req[c].base \in Rows
    BY <1>7 DEF CheckUnchanged, IdleInv, BaseInv, LoadedInv, Requests
  <2>2. req[c].asked # NoVersion => req[c].asked \in Nat
    BY <2>1 DEF Requests
  <2>3. /\ \/ stage' = [stage EXCEPT ![c] = "idle"] /\ req' = [req EXCEPT ![c] = Null]
           \/ /\ stage' = [stage EXCEPT ![c] = "committed"]
              /\ req' = [req EXCEPT ![c].next = req[c].asked]
              /\ Stored(req[c].id) /\ VersionAccepted(req[c].asked, row[req[c].id].version)
        /\ UNCHANGED reply \/ \E r \in Replies : reply' = [reply EXCEPT ![c] = r]
        /\ UNCHANGED <<row, holder, copy, queueVars, faults, unsent>>
    BY <1>7 DEF CheckUnchanged, Answer
  <2>4. CASE req' = [req EXCEPT ![c] = Null]
    BY <2>3, <2>4
  <2>5. CASE /\ req' = [req EXCEPT ![c].next = req[c].asked]
             /\ Stored(req[c].id) /\ VersionAccepted(req[c].asked, row[req[c].id].version)
    <3>1. req[c].asked \in Nat
      BY <2>1, <2>2, <2>5 DEF Stored, VersionAccepted, Requests, Rows
    <3>2. [req[c] EXCEPT !.next = req[c].asked] \in Requests
      BY <2>1, <3>1 DEF Requests
    <3> QED
      BY <2>3, <2>5, <3>2
  <2> QED
    BY <2>3, <2>4, <2>5
<1>8. ASSUME NEW c \in Clients, FlushDelete(c) PROVE TypeOK'
  <2>1. req[c] \in Requests /\ req[c].base \in Rows
    BY <1>8 DEF FlushDelete, IdleInv, BaseInv, LoadedInv, Requests
  <2>2. req' \in [Clients -> Requests \cup {Null}]
    <3> DEFINE r == [req[c] EXCEPT !.next = req[c].base.version]
    <3>1. r \in Requests
      BY <2>1 DEF Requests, Rows
    <3>2. req' = [req EXCEPT ![c] = r] \/ req' = [req EXCEPT ![c] = Null]
      BY <1>8 DEF FlushDelete, Answer
    <3> QED
      BY <3>1, <3>2
  <2> QED
    BY <1>8, <2>1, <2>2 DEF FlushDelete, Answer, Requests
<1>9. ASSUME NEW c \in Clients, Commit(c) PROVE TypeOK'
  BY <1>9 DEF Commit, Requests, Rows, IdleInv
<1>10. ASSUME NEW c \in Clients, CommitFails(c) PROVE TypeOK'
  BY <1>10 DEF CommitFails, Answer, Requests, IdleInv
<1>11. ASSUME NEW c \in Clients, Respond(c) PROVE TypeOK'
  BY <1>11 DEF Respond, Answer, Requests, Copies, IdleInv
<1>12. ASSUME NEW c \in Clients, SendFails(c) PROVE TypeOK'
  BY <1>12 DEF SendFails, Answer, Requests, Unsent, IdleInv
<1>13. ASSUME Crash PROVE TypeOK'
  BY <1>13 DEF Crash, Unsent, Requests, IdleInv
<1>14. ASSUME NEW o \in Ids, Receive(o) PROVE TypeOK'
  BY <1>14 DEF Receive, Stored, Rows
<1>15. ASSUME UNCHANGED vars PROVE TypeOK'
  BY <1>15 DEF vars
<1> QED
  BY <1>1, <1>2, <1>3, <1>4, <1>5, <1>6, <1>7, <1>8, <1>9, <1>10, <1>11, <1>12,
     <1>13, <1>14, <1>15 DEF Next, Request, Serve

LEMMA IdleStep == IInv /\ [Next]_vars => IdleInv'
<1> SUFFICES ASSUME TypeOK, IdleInv, BaseInv, LoadedInv, [Next]_vars PROVE IdleInv'
  BY DEF IInv
<1> USE ConstantsAssumption, NullAssumption DEF clientVars, queueVars, TypeOK, IdleInv, Stages
<1>1. ASSUME NEW c \in Clients, NEW o \in Ids, Fetch(c, o) PROVE IdleInv'
  BY <1>1 DEF Fetch
<1>2. ASSUME NEW c \in Clients, NEW o \in Ids, NEW v \in Values, BeginCreate(c, o, v) PROVE IdleInv'
  BY <1>2 DEF BeginCreate, Start, Kinds, NoVersion, Requests
<1>3. ASSUME NEW c \in Clients, NEW o \in Ids, NEW asked \in AskedVersions(c, o),
             NEW v \in Values, BeginUpdate(c, o, asked, v) PROVE IdleInv'
  BY <1>3 DEF BeginUpdate, Start, Answer, AskedVersions, Stored, Copies, Rows, Kinds, NoVersion, Requests
<1>4. ASSUME NEW c \in Clients, NEW o \in Ids, BeginDelete(c, o) PROVE IdleInv'
  BY <1>4 DEF BeginDelete, Start, Answer, Kinds, Stored, NoVersion, Requests
<1>5. ASSUME NEW c \in Clients, AnswerUnchanged(c) PROVE IdleInv'
  BY <1>5 DEF AnswerUnchanged, Answer
<1>6. ASSUME NEW c \in Clients, FlushUpdate(c) PROVE IdleInv'
  <2>1. req[c] \in Requests /\ (req[c].base.version + 1) \in Nat
    BY <1>6, LoadedRequest DEF FlushUpdate, Requests, EventFires, Rows
  <2>2. [req[c] EXCEPT !.next = (req[c].base.version + 1)] # Null
    BY <2>1, WithNext
  <2> QED
    BY <1>6, <2>2 DEF FlushUpdate, Answer
<1>7. ASSUME NEW c \in Clients, CheckUnchanged(c) PROVE IdleInv'
  <2>1. req[c] \in Requests /\ req[c].asked \in Nat
    BY <1>7, LoadedRequest DEF CheckUnchanged, Requests, EventFires, Rows
  <2>2. [req[c] EXCEPT !.next = req[c].asked] # Null
    BY <2>1, WithNext
  <2> QED
    BY <1>7, <2>2 DEF CheckUnchanged, Answer
<1>8. ASSUME NEW c \in Clients, FlushDelete(c) PROVE IdleInv'
  <2>1. req[c] \in Requests /\ req[c].base.version \in Nat
    BY <1>8, LoadedRequest DEF FlushDelete, Requests, EventFires, Rows
  <2>2. [req[c] EXCEPT !.next = req[c].base.version] # Null
    BY <2>1, WithNext
  <2> QED
    BY <1>8, <2>2 DEF FlushDelete, Answer
<1>9. ASSUME NEW c \in Clients, Commit(c) PROVE IdleInv'
  BY <1>9 DEF Commit
<1>10. ASSUME NEW c \in Clients, CommitFails(c) PROVE IdleInv'
  BY <1>10 DEF CommitFails, Answer
<1>11. ASSUME NEW c \in Clients, Respond(c) PROVE IdleInv'
  BY <1>11 DEF Respond, Answer
<1>12. ASSUME NEW c \in Clients, SendFails(c) PROVE IdleInv'
  BY <1>12 DEF SendFails, Answer
<1>13. ASSUME Crash PROVE IdleInv'
  BY <1>13 DEF Crash
<1>14. ASSUME NEW o \in Ids, Receive(o) PROVE IdleInv'
  BY <1>14 DEF Receive
<1>15. ASSUME UNCHANGED vars PROVE IdleInv'
  BY <1>15 DEF vars
<1> QED
  BY <1>1, <1>2, <1>3, <1>4, <1>5, <1>6, <1>7, <1>8, <1>9, <1>10, <1>11, <1>12, <1>13, <1>14, <1>15 DEF Next, Request, Serve

LEMMA CopyStep == IInv /\ [Next]_vars => CopyInv'
<1> SUFFICES ASSUME TypeOK, IdleInv, BaseInv, LoadedInv, FlushInv, CommittedInv, CopyInv, [Next]_vars PROVE CopyInv'
  BY DEF IInv
<1> USE ConstantsAssumption, NullAssumption DEF clientVars, queueVars, TypeOK, CopyInv, Stored, Copies, Rows, Requests, IdleInv
<1>1. ASSUME NEW c \in Clients, NEW o \in Ids, Fetch(c, o) PROVE CopyInv'
  BY <1>1 DEF Fetch
<1>2. ASSUME NEW c \in Clients, NEW o \in Ids, NEW v \in Values, BeginCreate(c, o, v) PROVE CopyInv'
  BY <1>2 DEF BeginCreate, Start
<1>3. ASSUME NEW c \in Clients, NEW o \in Ids, NEW asked \in AskedVersions(c, o),
             NEW v \in Values, BeginUpdate(c, o, asked, v) PROVE CopyInv'
  BY <1>3 DEF BeginUpdate, Start, Answer
<1>4. ASSUME NEW c \in Clients, NEW o \in Ids, BeginDelete(c, o) PROVE CopyInv'
  BY <1>4 DEF BeginDelete, Start, Answer
<1>5. ASSUME NEW c \in Clients, AnswerUnchanged(c) PROVE CopyInv'
  BY <1>5 DEF AnswerUnchanged, Answer, BaseInv, LoadedInv
<1>6. ASSUME NEW c \in Clients, FlushUpdate(c) PROVE CopyInv'
  BY <1>6 DEF FlushUpdate, Answer
<1>7. ASSUME NEW c \in Clients, CheckUnchanged(c) PROVE CopyInv'
  BY <1>7 DEF CheckUnchanged, Answer
<1>8. ASSUME NEW c \in Clients, FlushDelete(c) PROVE CopyInv'
  BY <1>8 DEF FlushDelete, Answer
<1>9. ASSUME NEW c \in Clients, Commit(c) PROVE CopyInv'
  BY <1>9 DEF Commit, FlushInv, FlushedOK, BaseIsCurrent
<1>10. ASSUME NEW c \in Clients, CommitFails(c) PROVE CopyInv'
  BY <1>10 DEF CommitFails, Answer
<1>11. ASSUME NEW c \in Clients, Respond(c) PROVE CopyInv'
  BY <1>11 DEF Respond, Answer, CommittedInv, CommittedOK
<1>12. ASSUME NEW c \in Clients, SendFails(c) PROVE CopyInv'
  BY <1>12 DEF SendFails, Answer
<1>13. ASSUME Crash PROVE CopyInv'
  BY <1>13 DEF Crash
<1>14. ASSUME NEW o \in Ids, Receive(o) PROVE CopyInv'
  BY <1>14 DEF Receive
<1>15. ASSUME UNCHANGED vars PROVE CopyInv'
  BY <1>15 DEF vars
<1> QED
  BY <1>1, <1>2, <1>3, <1>4, <1>5, <1>6, <1>7, <1>8, <1>9, <1>10, <1>11, <1>12, <1>13, <1>14, <1>15 DEF Next, Request, Serve

LEMMA ValueStep == IInv /\ [Next]_vars => ValueInv'
<1> SUFFICES ASSUME TypeOK, IdleInv, ValueInv, [Next]_vars PROVE ValueInv'
  BY DEF IInv
<1> USE ConstantsAssumption, NullAssumption DEF clientVars, queueVars, TypeOK, ValueInv, Requests, IdleInv
<1>1. ASSUME NEW c \in Clients, NEW o \in Ids, Fetch(c, o) PROVE ValueInv'
  BY <1>1 DEF Fetch
<1>2. ASSUME NEW c \in Clients, NEW o \in Ids, NEW v \in Values, BeginCreate(c, o, v) PROVE ValueInv'
  BY <1>2 DEF BeginCreate, Start
<1>3. ASSUME NEW c \in Clients, NEW o \in Ids, NEW asked \in AskedVersions(c, o),
             NEW v \in Values, BeginUpdate(c, o, asked, v) PROVE ValueInv'
  BY <1>3 DEF BeginUpdate, Start, Answer
<1>4. ASSUME NEW c \in Clients, NEW o \in Ids, BeginDelete(c, o) PROVE ValueInv'
  BY <1>4 DEF BeginDelete, Start, Answer
<1>5. ASSUME NEW c \in Clients, AnswerUnchanged(c) PROVE ValueInv'
  BY <1>5 DEF AnswerUnchanged, Answer
<1>6. ASSUME NEW c \in Clients, FlushUpdate(c) PROVE ValueInv'
  BY <1>6 DEF FlushUpdate, Answer
<1>7. ASSUME NEW c \in Clients, CheckUnchanged(c) PROVE ValueInv'
  BY <1>7 DEF CheckUnchanged, Answer
<1>8. ASSUME NEW c \in Clients, FlushDelete(c) PROVE ValueInv'
  BY <1>8 DEF FlushDelete, Answer
<1>9. ASSUME NEW c \in Clients, Commit(c) PROVE ValueInv'
  BY <1>9 DEF Commit
<1>10. ASSUME NEW c \in Clients, CommitFails(c) PROVE ValueInv'
  BY <1>10 DEF CommitFails, Answer
<1>11. ASSUME NEW c \in Clients, Respond(c) PROVE ValueInv'
  BY <1>11 DEF Respond, Answer
<1>12. ASSUME NEW c \in Clients, SendFails(c) PROVE ValueInv'
  BY <1>12 DEF SendFails, Answer
<1>13. ASSUME Crash PROVE ValueInv'
  BY <1>13 DEF Crash
<1>14. ASSUME NEW o \in Ids, Receive(o) PROVE ValueInv'
  BY <1>14 DEF Receive
<1>15. ASSUME UNCHANGED vars PROVE ValueInv'
  BY <1>15 DEF vars
<1> QED
  BY <1>1, <1>2, <1>3, <1>4, <1>5, <1>6, <1>7, <1>8, <1>9, <1>10, <1>11, <1>12, <1>13, <1>14, <1>15 DEF Next, Request, Serve

LEMMA LoadedStep == IInv /\ [Next]_vars => LoadedInv'
<1> SUFFICES ASSUME TypeOK, IdleInv, LoadedInv, [Next]_vars PROVE LoadedInv'
  BY DEF IInv
<1> USE ConstantsAssumption, NullAssumption DEF clientVars, queueVars, TypeOK, LoadedInv, Requests, IdleInv
<1>1. ASSUME NEW c \in Clients, NEW o \in Ids, Fetch(c, o) PROVE LoadedInv'
  BY <1>1 DEF Fetch
<1>2. ASSUME NEW c \in Clients, NEW o \in Ids, NEW v \in Values, BeginCreate(c, o, v) PROVE LoadedInv'
  BY <1>2 DEF BeginCreate, Start
<1>3. ASSUME NEW c \in Clients, NEW o \in Ids, NEW asked \in AskedVersions(c, o),
             NEW v \in Values, BeginUpdate(c, o, asked, v) PROVE LoadedInv'
  BY <1>3 DEF BeginUpdate, Start, Answer
<1>4. ASSUME NEW c \in Clients, NEW o \in Ids, BeginDelete(c, o) PROVE LoadedInv'
  BY <1>4 DEF BeginDelete, Start, Answer
<1>5. ASSUME NEW c \in Clients, AnswerUnchanged(c) PROVE LoadedInv'
  BY <1>5 DEF AnswerUnchanged, Answer
<1>6. ASSUME NEW c \in Clients, FlushUpdate(c) PROVE LoadedInv'
  BY <1>6 DEF FlushUpdate, Answer
<1>7. ASSUME NEW c \in Clients, CheckUnchanged(c) PROVE LoadedInv'
  BY <1>7 DEF CheckUnchanged, Answer
<1>8. ASSUME NEW c \in Clients, FlushDelete(c) PROVE LoadedInv'
  BY <1>8 DEF FlushDelete, Answer
<1>9. ASSUME NEW c \in Clients, Commit(c) PROVE LoadedInv'
  BY <1>9 DEF Commit
<1>10. ASSUME NEW c \in Clients, CommitFails(c) PROVE LoadedInv'
  BY <1>10 DEF CommitFails, Answer
<1>11. ASSUME NEW c \in Clients, Respond(c) PROVE LoadedInv'
  BY <1>11 DEF Respond, Answer
<1>12. ASSUME NEW c \in Clients, SendFails(c) PROVE LoadedInv'
  BY <1>12 DEF SendFails, Answer
<1>13. ASSUME Crash PROVE LoadedInv'
  BY <1>13 DEF Crash
<1>14. ASSUME NEW o \in Ids, Receive(o) PROVE LoadedInv'
  BY <1>14 DEF Receive
<1>15. ASSUME UNCHANGED vars PROVE LoadedInv'
  BY <1>15 DEF vars
<1> QED
  BY <1>1, <1>2, <1>3, <1>4, <1>5, <1>6, <1>7, <1>8, <1>9, <1>10, <1>11, <1>12, <1>13, <1>14, <1>15 DEF Next, Request, Serve

(* The version checks change only what their own request is to become.     *)
LEMMA CheckStep ==
  ASSUME TypeOK, IdleInv, BaseInv, NEW c \in Clients,
         FlushUpdate(c) \/ CheckUnchanged(c) \/ FlushDelete(c)
  PROVE  BaseInv'
<1>1. UNCHANGED row /\ stage[c] # "idle"
  BY DEF FlushUpdate, CheckUnchanged, FlushDelete
<1>2. req' = [req EXCEPT ![c] = Null] \/ \E n : req' = [req EXCEPT ![c].next = n]
  BY DEF FlushUpdate, CheckUnchanged, FlushDelete, Answer
<1>3. req \in [Clients -> Requests \cup {Null}] /\ req[c] \in Requests
  BY <1>1 DEF TypeOK, IdleInv
<1>4. ASSUME NEW d \in Clients, req'[d] # Null
      PROVE  /\ req[d] # Null /\ req'[d].kind = req[d].kind
             /\ req'[d].id = req[d].id /\ req'[d].base = req[d].base
  <2>1. req[c] # Null
    BY <1>1 DEF IdleInv
  <2>2. CASE d # c
    BY <1>2, <1>3, <1>4, <2>2
  <2>3. CASE d = c
    <3>1. PICK n : req' = [req EXCEPT ![c].next = n]
      BY <1>2, <1>3, <1>4, <2>3
    <3>2. req'[d] = [req[d] EXCEPT !.next = n]
      BY <1>3, <2>3, <3>1
    <3> QED
      BY <1>3, <2>1, <2>3, <3>2 DEF Requests
  <2> QED
    BY <2>2, <2>3
<1> QED
  BY <1>1, <1>4 DEF BaseInv, BaseIsCurrent, Stored

LEMMA BaseStep == IInv /\ [Next]_vars => BaseInv'
<1> SUFFICES ASSUME TypeOK, IdleInv, BaseInv, ValueInv, LockInv, FlushInv, [Next]_vars PROVE BaseInv'
  BY DEF IInv
<1> USE ConstantsAssumption, NullAssumption DEF clientVars, queueVars, TypeOK, Requests, Rows, Copies, Kinds, NoVersion, IdleInv, BaseInv, BaseIsCurrent, Stored
<1>1. ASSUME NEW c \in Clients, NEW o \in Ids, Fetch(c, o) PROVE BaseInv'
  BY <1>1 DEF Fetch
<1>2. ASSUME NEW c \in Clients, NEW o \in Ids, NEW v \in Values, BeginCreate(c, o, v) PROVE BaseInv'
  BY <1>2 DEF BeginCreate, Start
<1>3. ASSUME NEW c \in Clients, NEW o \in Ids, NEW asked \in AskedVersions(c, o),
             NEW v \in Values, BeginUpdate(c, o, asked, v) PROVE BaseInv'
  BY <1>3 DEF BeginUpdate, Start, Answer
<1>4. ASSUME NEW c \in Clients, NEW o \in Ids, BeginDelete(c, o) PROVE BaseInv'
  BY <1>4 DEF BeginDelete, Start, Answer
<1>5. ASSUME NEW c \in Clients, AnswerUnchanged(c) PROVE BaseInv'
  BY <1>5 DEF AnswerUnchanged, Answer
<1>6. ASSUME NEW c \in Clients, FlushUpdate(c) \/ CheckUnchanged(c) \/ FlushDelete(c) PROVE BaseInv'
  BY ONLY TypeOK, IdleInv, BaseInv, <1>6, CheckStep
<1>7. ASSUME NEW c \in Clients, Commit(c) PROVE BaseInv'
  <2> SUFFICES ASSUME NEW d \in Clients, req[d] # Null, req[d].kind # "create"
               PROVE  /\ req[d].base # Null
                      /\ row'[req[d].id] # Null
                      /\ req[d].base.version <= row'[req[d].id].version
                      /\ BaseIsCurrent(req[d])' => row'[req[d].id] = req[d].base
    BY <1>7 DEF Commit
  <2>1. CASE req[d].id # req[c].id
    BY <1>7, <2>1 DEF Commit
  <2>2. CASE req[d].id = req[c].id
    <3>1. row'[req[d].id] = [version |-> req[c].next, value |-> req[c].value]
      BY <1>7, <2>2 DEF Commit
    <3>2. /\ req[c].next >= row[req[d].id].version
          /\ req[c].next = row[req[d].id].version => req[c].value = Gone
      BY <1>7, <2>2 DEF Commit, FlushInv, FlushedOK, ValueInv
    <3> QED
      BY <1>7, <2>2, <3>1, <3>2 DEF Commit
  <2> QED
    BY <2>1, <2>2
<1>8. ASSUME NEW c \in Clients, CommitFails(c) PROVE BaseInv'
  BY <1>8 DEF CommitFails, Answer
<1>9. ASSUME NEW c \in Clients, Respond(c) PROVE BaseInv'
  BY <1>9 DEF Respond, Answer
<1>10. ASSUME NEW c \in Clients, SendFails(c) PROVE BaseInv'
  BY <1>10 DEF SendFails, Answer
<1>11. ASSUME Crash PROVE BaseInv'
  BY <1>11 DEF Crash
<1>12. ASSUME NEW o \in Ids, Receive(o) PROVE BaseInv'
  BY <1>12 DEF Receive
<1>13. ASSUME UNCHANGED vars PROVE BaseInv'
  BY <1>13 DEF vars
<1> QED
  BY <1>1, <1>2, <1>3, <1>4, <1>5, <1>6, <1>7, <1>8, <1>9, <1>10, <1>11, <1>12, <1>13 DEF Next, Request, Serve

LEMMA AskedStep == IInv /\ [Next]_vars => AskedInv'
<1> SUFFICES ASSUME TypeOK, IdleInv, BaseInv, LoadedInv, CopyInv, AskedInv, [Next]_vars PROVE AskedInv'
  BY DEF IInv
<1> USE ConstantsAssumption, NullAssumption DEF clientVars, queueVars, TypeOK, Requests, Rows, Copies, Kinds, NoVersion, IdleInv, AskedInv
<1>1. ASSUME NEW c \in Clients, NEW o \in Ids, Fetch(c, o) PROVE AskedInv'
  BY <1>1 DEF Fetch
<1>2. ASSUME NEW c \in Clients, NEW o \in Ids, NEW v \in Values, BeginCreate(c, o, v) PROVE AskedInv'
  BY <1>2 DEF BeginCreate, Start
<1>3. ASSUME NEW c \in Clients, NEW o \in Ids, NEW asked \in AskedVersions(c, o),
             NEW v \in Values, BeginUpdate(c, o, asked, v) PROVE AskedInv'
  BY <1>3 DEF BeginUpdate, Start, Answer, AskedVersions, CopyInv, Stored
<1>4. ASSUME NEW c \in Clients, NEW o \in Ids, BeginDelete(c, o) PROVE AskedInv'
  BY <1>4 DEF BeginDelete, Start, Answer
<1>5. ASSUME NEW c \in Clients, AnswerUnchanged(c) PROVE AskedInv'
  BY <1>5 DEF AnswerUnchanged, Answer
<1>6. ASSUME NEW c \in Clients, FlushUpdate(c) PROVE AskedInv'
  BY <1>6 DEF FlushUpdate, Answer
<1>7. ASSUME NEW c \in Clients, CheckUnchanged(c) PROVE AskedInv'
  BY <1>7 DEF CheckUnchanged, Answer
<1>8. ASSUME NEW c \in Clients, FlushDelete(c) PROVE AskedInv'
  <2>1. \/ req' = [req EXCEPT ![c] = Null]
        \/ req' = [req EXCEPT ![c].next = req[c].base.version]
    BY <1>8 DEF FlushDelete, Answer
  <2>2. UNCHANGED copy /\ req[c].kind = "delete"
    BY <1>8 DEF FlushDelete
  <2> SUFFICES ASSUME NEW d \in Clients, req'[d] # Null, req'[d].kind = "update",
                      req'[d].asked # NoVersion
               PROVE  /\ copy[d] = [id |-> req'[d].id, version |-> req'[d].asked]
                      /\ req'[d].asked <= req'[d].base.version
    BY <2>2
  <2>3. d # c
    <3>1. [req[c] EXCEPT !.next = req[c].base.version].kind = "delete"
      BY <1>8, <2>2, LoadedRequest DEF FlushDelete
    <3> QED
      BY <2>1, <3>1
  <2>4. req'[d] = req[d]
    BY <2>1, <2>3
  <2> QED
    BY <2>4
<1>9. ASSUME NEW c \in Clients, Commit(c) PROVE AskedInv'
  BY <1>9 DEF Commit
<1>10. ASSUME NEW c \in Clients, CommitFails(c) PROVE AskedInv'
  BY <1>10 DEF CommitFails, Answer
<1>11. ASSUME NEW c \in Clients, Respond(c) PROVE AskedInv'
  BY <1>11 DEF Respond, Answer
<1>12. ASSUME NEW c \in Clients, SendFails(c) PROVE AskedInv'
  BY <1>12 DEF SendFails, Answer
<1>13. ASSUME Crash PROVE AskedInv'
  BY <1>13 DEF Crash
<1>14. ASSUME NEW o \in Ids, Receive(o) PROVE AskedInv'
  BY <1>14 DEF Receive
<1>15. ASSUME UNCHANGED vars PROVE AskedInv'
  BY <1>15 DEF vars
<1> QED
  BY <1>1, <1>2, <1>3, <1>4, <1>5, <1>6, <1>7, <1>8, <1>9, <1>10, <1>11, <1>12, <1>13, <1>14, <1>15 DEF Next, Request, Serve

LEMMA LockStep == IInv /\ [Next]_vars => LockInv'
<1> SUFFICES ASSUME TypeOK, IdleInv, LockInv, [Next]_vars PROVE LockInv'
  BY DEF IInv
<1> USE ConstantsAssumption, NullAssumption DEF clientVars, queueVars, TypeOK, Requests, Rows, Copies, Kinds, NoVersion, IdleInv, LockInv
<1>1. ASSUME NEW c \in Clients, NEW o \in Ids, Fetch(c, o) PROVE LockInv'
  BY <1>1 DEF Fetch
<1>2. ASSUME NEW c \in Clients, NEW o \in Ids, NEW v \in Values, BeginCreate(c, o, v) PROVE LockInv'
  BY <1>2 DEF BeginCreate, Start
<1>3. ASSUME NEW c \in Clients, NEW o \in Ids, NEW asked \in AskedVersions(c, o),
             NEW v \in Values, BeginUpdate(c, o, asked, v) PROVE LockInv'
  <2>1. /\ stage[c] = "idle" /\ stage'[c] # "flushed" /\ UNCHANGED holder
        /\ \A d \in Clients : d # c => stage'[d] = stage[d] /\ req'[d] = req[d]
    BY <1>3 DEF BeginUpdate, Start, Answer
  <2> QED
    BY <2>1
<1>4. ASSUME NEW c \in Clients, NEW o \in Ids, BeginDelete(c, o) PROVE LockInv'
  BY <1>4 DEF BeginDelete, Start, Answer
<1>5. ASSUME NEW c \in Clients, AnswerUnchanged(c) PROVE LockInv'
  BY <1>5 DEF AnswerUnchanged, Answer
<1>6. ASSUME NEW c \in Clients, FlushUpdate(c) PROVE LockInv'
  BY <1>6 DEF FlushUpdate, Answer
<1>7. ASSUME NEW c \in Clients, CheckUnchanged(c) PROVE LockInv'
  BY <1>7 DEF CheckUnchanged, Answer
<1>8. ASSUME NEW c \in Clients, FlushDelete(c) PROVE LockInv'
  BY <1>8 DEF FlushDelete, Answer
<1>9. ASSUME NEW c \in Clients, Commit(c) PROVE LockInv'
  BY <1>9 DEF Commit
<1>10. ASSUME NEW c \in Clients, CommitFails(c) PROVE LockInv'
  BY <1>10 DEF CommitFails, Answer
<1>11. ASSUME NEW c \in Clients, Respond(c) PROVE LockInv'
  BY <1>11 DEF Respond, Answer
<1>12. ASSUME NEW c \in Clients, SendFails(c) PROVE LockInv'
  BY <1>12 DEF SendFails, Answer
<1>13. ASSUME Crash PROVE LockInv'
  BY <1>13 DEF Crash
<1>14. ASSUME NEW o \in Ids, Receive(o) PROVE LockInv'
  BY <1>14 DEF Receive
<1>15. ASSUME UNCHANGED vars PROVE LockInv'
  BY <1>15 DEF vars
<1> QED
  BY <1>1, <1>2, <1>3, <1>4, <1>5, <1>6, <1>7, <1>8, <1>9, <1>10, <1>11, <1>12, <1>13, <1>14, <1>15 DEF Next, Request, Serve

LEMMA FlushStep == IInv /\ [Next]_vars => FlushInv'
<1> SUFFICES ASSUME TypeOK, IdleInv, BaseInv, LoadedInv, AskedInv, LockInv, FlushInv, [Next]_vars PROVE FlushInv'
  BY DEF IInv
<1> USE ConstantsAssumption, NullAssumption DEF clientVars, queueVars, TypeOK, Requests, Rows, Copies, Kinds, NoVersion, IdleInv, FlushInv, FlushedOK, BaseIsCurrent, Stored
<1>1. ASSUME NEW c \in Clients, NEW o \in Ids, Fetch(c, o) PROVE FlushInv'
  BY <1>1 DEF Fetch
<1>2. ASSUME NEW c \in Clients, NEW o \in Ids, NEW v \in Values, BeginCreate(c, o, v) PROVE FlushInv'
  BY <1>2 DEF BeginCreate, Start
<1>3. ASSUME NEW c \in Clients, NEW o \in Ids, NEW asked \in AskedVersions(c, o),
             NEW v \in Values, BeginUpdate(c, o, asked, v) PROVE FlushInv'
  BY <1>3 DEF BeginUpdate, Start, Answer
<1>4. ASSUME NEW c \in Clients, NEW o \in Ids, BeginDelete(c, o) PROVE FlushInv'
  BY <1>4 DEF BeginDelete, Start, Answer
<1>5. ASSUME NEW c \in Clients, AnswerUnchanged(c) PROVE FlushInv'
  BY <1>5 DEF AnswerUnchanged, Answer
<1>6. ASSUME NEW c \in Clients, FlushUpdate(c) PROVE FlushInv'
  <2> SUFFICES ASSUME NEW d \in Clients, stage'[d] = "flushed"
               PROVE  FlushedOK(d)'
    OBVIOUS
  <2>1. CASE d # c
    BY <1>6, <2>1 DEF FlushUpdate, Answer
  <2>2. CASE d = c
    <3>1. /\ BaseIsCurrent(req[c])
          /\ VersionAccepted(req[c].asked, req[c].base.version + 1)
          /\ req' = [req EXCEPT ![c].next = req[c].base.version + 1]
      BY <1>6, <2>2 DEF FlushUpdate, Answer
    <3>2. req[c].asked = req[c].base.version
      <4>1. /\ req[c] \in Requests /\ req[c] # Null
            /\ req[c].base.version \in Nat /\ req[c].kind = "update"
        BY <1>6, LoadedRequest DEF FlushUpdate
      <4>2. req[c].asked \in Nat \cup {NoVersion}
        BY <4>1
      <4>3. req[c].asked # NoVersion => req[c].asked <= req[c].base.version
        BY <4>1 DEF AskedInv
      <4> QED
        BY <3>1, <4>1, <4>2, <4>3, AcceptedVersion
    <3> QED
      BY <1>6, <2>2, <3>1, <3>2, LoadedRequest DEF FlushUpdate
  <2> QED
    BY <2>1, <2>2
<1>7. ASSUME NEW c \in Clients, CheckUnchanged(c) PROVE FlushInv'
  BY <1>7 DEF CheckUnchanged, Answer
<1>8. ASSUME NEW c \in Clients, FlushDelete(c) PROVE FlushInv'
  <2> SUFFICES ASSUME NEW d \in Clients, stage'[d] = "flushed"
               PROVE  FlushedOK(d)'
    OBVIOUS
  <2>1. CASE d # c
    BY <1>8, <2>1 DEF FlushDelete, Answer
  <2>2. CASE d = c
    <3>1. /\ BaseIsCurrent(req[c]) /\ req[c].kind = "delete" /\ UNCHANGED row
          /\ req' = [req EXCEPT ![c].next = req[c].base.version]
      BY <1>8, <2>2 DEF FlushDelete, Answer
    <3>2. req[c] \in Requests /\ req[c] # Null
      BY <1>8, LoadedRequest DEF FlushDelete
    <3> QED
      BY <2>2, <3>1, <3>2
  <2> QED
    BY <2>1, <2>2
<1>9. ASSUME NEW c \in Clients, Commit(c) PROVE FlushInv'
  BY <1>9 DEF Commit, LockInv
<1>10. ASSUME NEW c \in Clients, CommitFails(c) PROVE FlushInv'
  BY <1>10 DEF CommitFails, Answer
<1>11. ASSUME NEW c \in Clients, Respond(c) PROVE FlushInv'
  BY <1>11 DEF Respond, Answer
<1>12. ASSUME NEW c \in Clients, SendFails(c) PROVE FlushInv'
  BY <1>12 DEF SendFails, Answer
<1>13. ASSUME Crash PROVE FlushInv'
  BY <1>13 DEF Crash
<1>14. ASSUME NEW o \in Ids, Receive(o) PROVE FlushInv'
  BY <1>14 DEF Receive
<1>15. ASSUME UNCHANGED vars PROVE FlushInv'
  BY <1>15 DEF vars
<1> QED
  BY <1>1, <1>2, <1>3, <1>4, <1>5, <1>6, <1>7, <1>8, <1>9, <1>10, <1>11, <1>12, <1>13, <1>14, <1>15 DEF Next, Request, Serve

LEMMA CommittedStep == IInv /\ [Next]_vars => CommittedInv'
<1> SUFFICES ASSUME TypeOK, IdleInv, BaseInv, LoadedInv, AskedInv, FlushInv, LockInv, CommittedInv, [Next]_vars PROVE CommittedInv'
  BY DEF IInv
<1> USE ConstantsAssumption, NullAssumption DEF clientVars, queueVars, TypeOK, Requests, Rows, Copies, Kinds, NoVersion, IdleInv, CommittedInv, CommittedOK, Wrote
<1>1. ASSUME NEW c \in Clients, NEW o \in Ids, Fetch(c, o) PROVE CommittedInv'
  BY <1>1 DEF Fetch
<1>2. ASSUME NEW c \in Clients, NEW o \in Ids, NEW v \in Values, BeginCreate(c, o, v) PROVE CommittedInv'
  BY <1>2 DEF BeginCreate, Start
<1>3. ASSUME NEW c \in Clients, NEW o \in Ids, NEW asked \in AskedVersions(c, o),
             NEW v \in Values, BeginUpdate(c, o, asked, v) PROVE CommittedInv'
  BY <1>3 DEF BeginUpdate, Start, Answer
<1>4. ASSUME NEW c \in Clients, NEW o \in Ids, BeginDelete(c, o) PROVE CommittedInv'
  BY <1>4 DEF BeginDelete, Start, Answer
<1>5. ASSUME NEW c \in Clients, AnswerUnchanged(c) PROVE CommittedInv'
  BY <1>5 DEF AnswerUnchanged, Answer
<1>6. ASSUME NEW c \in Clients, FlushUpdate(c) PROVE CommittedInv'
  BY <1>6 DEF FlushUpdate, Answer
<1>7. ASSUME NEW c \in Clients, CheckUnchanged(c) PROVE CommittedInv'
  <2> SUFFICES ASSUME NEW d \in Clients, stage'[d] = "committed"
               PROVE  CommittedOK(d)'
    OBVIOUS
  <2>1. CASE d # c
    BY <1>7, <2>1 DEF CheckUnchanged, Answer
  <2>2. CASE d = c
    <3>1. /\ Stored(req[c].id) /\ EventFires(req[c])
          /\ req[c].value = req[c].base.value
          /\ req' = [req EXCEPT ![c].next = req[c].asked]
      BY <1>7, <2>2 DEF CheckUnchanged, Answer
    <3>2. req[c].asked \in Nat /\ req[c].asked < req[c].base.version
      <4>1. /\ req[c] \in Requests /\ req[c] # Null
            /\ req[c].base.version \in Nat /\ req[c].kind = "update"
        BY <1>7, LoadedRequest DEF CheckUnchanged
      <4>2. req[c].asked \in Nat \cup {NoVersion}
        BY <4>1
      <4>3. req[c].asked # NoVersion => req[c].asked <= req[c].base.version
        BY <4>1 DEF AskedInv
      <4> QED
        BY <3>1, <4>1, <4>2, <4>3, OlderVersion
    <3>3. req[c].base.version <= row[req[c].id].version
      BY <1>7, LoadedRequest DEF CheckUnchanged, BaseInv
    <3> QED
      BY <1>7, <2>2, <3>1, <3>2, <3>3, LoadedRequest DEF CheckUnchanged, Stored
  <2> QED
    BY <2>1, <2>2
<1>8. ASSUME NEW c \in Clients, FlushDelete(c) PROVE CommittedInv'
  BY <1>8 DEF FlushDelete, Answer
<1>9. ASSUME NEW c \in Clients, Commit(c) PROVE CommittedInv'
  BY <1>9 DEF Commit, FlushInv, FlushedOK, BaseIsCurrent, Stored, LockInv
<1>10. ASSUME NEW c \in Clients, CommitFails(c) PROVE CommittedInv'
  BY <1>10 DEF CommitFails, Answer
<1>11. ASSUME NEW c \in Clients, Respond(c) PROVE CommittedInv'
  BY <1>11 DEF Respond, Answer
<1>12. ASSUME NEW c \in Clients, SendFails(c) PROVE CommittedInv'
  BY <1>12 DEF SendFails, Answer
<1>13. ASSUME Crash PROVE CommittedInv'
  BY <1>13 DEF Crash
<1>14. ASSUME NEW o \in Ids, Receive(o) PROVE CommittedInv'
  BY <1>14 DEF Receive
<1>15. ASSUME UNCHANGED vars PROVE CommittedInv'
  BY <1>15 DEF vars
<1> QED
  BY <1>1, <1>2, <1>3, <1>4, <1>5, <1>6, <1>7, <1>8, <1>9, <1>10, <1>11, <1>12, <1>13, <1>14, <1>15 DEF Next, Request, Serve

-----------------------------------------------------------------------------
(* The theorems.                                                           *)

(* The invariant is inductive: it holds initially and every step of the    *)
(* requests, transactions, failures and messages preserves it.             *)
THEOREM InductiveInvariant == Spec => []IInv
<1>1. IInv /\ [Next]_vars => IInv'
  BY TypeStep, IdleStep, CopyStep, BaseStep, ValueStep, AskedStep, LockStep,
     LoadedStep, FlushStep, CommittedStep DEF IInv
<1> QED
  BY InitIInv, <1>1, PTL DEF Spec

(* Types of the rows, requests and copies the code keeps.                  *)
THEOREM TypeCorrect == Spec => []TypeOK
<1>1. IInv => TypeOK
  BY DEF IInv
<1> QED
  BY InductiveInvariant, <1>1, PTL

(* Only Commit changes a stored row, and it changes no other row.          *)
LEMMA OnlyCommitWrites ==
  ASSUME [Next]_vars, row' # row
  PROVE  \E c \in Clients : Commit(c)
  BY DEF Next, Request, Serve, vars, Fetch, BeginCreate, BeginUpdate, BeginDelete,
     AnswerUnchanged, FlushUpdate, CheckUnchanged, FlushDelete, CommitFails,
     Respond, SendFails, Crash, Receive

(* No lost update: the versions checked by the hooks and by Hibernate make *)
(* every replaced content one its replacer held in memory.                 *)
THEOREM LostUpdateFree == Spec => NoLostUpdate
<1>1. IInv /\ [Next]_vars =>
        \A o \in Ids : row[o] # Null /\ row'[o] # row[o] =>
          Stored(o) /\ \E c \in Clients : Replaces(c, o)
  <2> SUFFICES ASSUME IInv, [Next]_vars, NEW o \in Ids, row[o] # Null, row'[o] # row[o]
               PROVE  Stored(o) /\ \E c \in Clients : Replaces(c, o)
    OBVIOUS
  <2>1. PICK c \in Clients : Commit(c)
    BY OnlyCommitWrites
  <2>2. req[c] \in Requests /\ req[c] # Null
    BY <2>1, NullAssumption DEF IInv, TypeOK, IdleInv, Commit
  <2>3. req[c].id = o /\ row'[o] = [version |-> req[c].next, value |-> req[c].value]
    BY <2>1, <2>2 DEF Commit, IInv, TypeOK, Requests
  <2>4. stage[c] = "flushed" /\ FlushedOK(c)
    BY <2>1 DEF Commit, IInv, FlushInv
  <2>5. CASE req[c].kind = "update"
    <3>1. /\ row[o].version = req[c].base.version /\ Stored(o)
          /\ req[c].next = row[o].version + 1 /\ req[c].asked = row[o].version
      BY <2>3, <2>4, <2>5 DEF FlushedOK, BaseIsCurrent
    <3>2. req[c].asked # NoVersion
      BY <2>2, <2>3, <3>1 DEF IInv, TypeOK, Rows, Stored, NoVersion
    <3>3. copy[c] = [id |-> o, version |-> row[o].version]
      BY <2>2, <2>3, <2>5, <3>1, <3>2 DEF IInv, AskedInv
    <3> QED
      BY <2>3, <2>4, <2>5, <3>1, <3>3 DEF Replaces
  <2>6. CASE req[c].kind = "delete"
    <3>1. BaseIsCurrent(req[c]) /\ req[c].next = req[c].base.version
      BY <2>4, <2>6 DEF FlushedOK
    <3>2. req[c].base = row[o] /\ Stored(o)
      BY <2>2, <2>3, <2>6, <3>1 DEF IInv, BaseInv, BaseIsCurrent
    <3> QED
      BY <2>3, <2>4, <2>6, <3>1, <3>2 DEF Replaces
  <2> QED
    BY <2>3, <2>4, <2>5, <2>6 DEF FlushedOK
<1> QED
  BY InductiveInvariant, <1>1, PTL DEF Spec, NoLostUpdate

(* Requests and transactions implement the atomic objects: only a commit   *)
(* is an abstract write, every other step is a client learning a version   *)
(* or nothing at all.                                                      *)
THEOREM Refinement == Spec => ImplementsAtomicObjects
<1> USE DEF Abstract!Stored, Stored
<1>1. Init => Abstract!Init
  BY DEF Init, Abstract!Init
<1>2. IInv /\ [Next]_vars => [Abstract!Next]_(Abstract!absVars)
  <2> SUFFICES ASSUME IInv, [Next]_vars PROVE [Abstract!Next]_(Abstract!absVars)
    OBVIOUS
  <2> USE DEF Abstract!absVars, clientVars, queueVars
  <2>1. ASSUME NEW c \in Clients, NEW o \in Ids, Fetch(c, o)
        PROVE  Abstract!Learn(c, o) \/ Abstract!Forget(c)
    <3>1. CASE Stored(o)
      <4>1. row[o].version \in 0 .. row[o].version
        BY <3>1 DEF IInv, TypeOK, Rows
      <4> QED
        BY <2>1, <3>1, <4>1 DEF Fetch, Abstract!Learn
    <3>2. CASE ~Stored(o)
      BY <2>1, <3>2 DEF Fetch, Abstract!Forget
    <3> QED
      BY <3>1, <3>2
  <2>2. ASSUME NEW c \in Clients, AnswerUnchanged(c) PROVE \E o \in Ids : Abstract!Learn(c, o)
    <3>1. /\ req[c].id \in Ids /\ row[req[c].id] # Null
          /\ req[c].base.version \in 0 .. row[req[c].id].version
      <4>1. req[c] \in Requests /\ req[c] # Null /\ req[c].base.version \in Nat
        BY <2>2, LoadedRequest, NullAssumption DEF AnswerUnchanged, IInv
      <4> QED
        BY <2>2, <4>1 DEF AnswerUnchanged, IInv, BaseInv, TypeOK, Requests, Rows
    <3> QED
      BY <2>2, <3>1 DEF AnswerUnchanged, Abstract!Learn
  <2>3. ASSUME NEW c \in Clients, Commit(c)
        PROVE  \E o \in Ids : \/ \E v \in Values : \/ Abstract!Insert(o, v)
                                                  \/ Abstract!Replace(c, o, v)
                              \/ Abstract!Remove(o)
    <3>1. req[c] \in Requests /\ req[c] # Null /\ FlushedOK(c)
      BY <2>3, NullAssumption DEF Commit, IInv, TypeOK, IdleInv, FlushInv
    <3>2. UNCHANGED copy /\ req[c].id \in Ids
      BY <2>3, <3>1 DEF Commit, Requests
    <3>3. row' = [row EXCEPT ![req[c].id] = [version |-> req[c].next, value |-> req[c].value]]
      BY <2>3 DEF Commit
    <3>4. req[c].kind # "delete" => req[c].value \in Values
      BY <3>1 DEF IInv, ValueInv, Requests
    <3>5. CASE req[c].kind = "create"
      BY <3>1, <3>2, <3>3, <3>4, <3>5 DEF FlushedOK, Abstract!Insert
    <3>6. CASE req[c].kind = "update"
      <4>1. /\ row[req[c].id].version = req[c].base.version /\ Stored(req[c].id)
            /\ req[c].next = req[c].base.version + 1
            /\ req[c].asked = req[c].base.version
        BY <3>1, <3>6 DEF FlushedOK, BaseIsCurrent
      <4>2. req[c].asked # NoVersion
        BY <3>2, <4>1 DEF IInv, TypeOK, Rows, NoVersion
      <4>3. copy[c] = [id |-> req[c].id, version |-> row[req[c].id].version]
        BY <3>1, <3>6, <4>1, <4>2 DEF IInv, AskedInv
      <4> QED
        BY <3>2, <3>3, <3>4, <3>6, <4>1, <4>3 DEF Abstract!Replace
    <3>7. CASE req[c].kind = "delete"
      <4>1. /\ row[req[c].id].version = req[c].next /\ Stored(req[c].id)
            /\ req[c].value = Gone
        BY <3>1, <3>7 DEF FlushedOK, BaseIsCurrent, IInv, ValueInv
      <4>2. [row[req[c].id] EXCEPT !.value = Gone] = [version |-> req[c].next, value |-> Gone]
        BY <3>2, <4>1 DEF IInv, TypeOK, Rows
      <4> QED
        BY <3>2, <3>3, <4>1, <4>2 DEF Abstract!Remove
    <3> QED
      BY <3>1, <3>5, <3>6, <3>7 DEF FlushedOK
  <2>4. ASSUME NEW c \in Clients, Respond(c)
        PROVE  UNCHANGED Abstract!absVars \/ \E o \in Ids : Abstract!Learn(c, o)
    <3>1. req[c] \in Requests /\ req[c] # Null /\ CommittedOK(c)
      BY <2>4, NullAssumption DEF Respond, IInv, TypeOK, IdleInv, CommittedInv
    <3>2. req[c].id \in Ids /\ req[c].next \in 0 .. row[req[c].id].version
      BY <3>1 DEF Requests, CommittedOK, IInv, TypeOK, Rows
    <3> QED
      BY <2>4, <3>1, <3>2 DEF Respond, CommittedOK, Abstract!Learn
  <2>5. CASE UNCHANGED <<row, copy>>
    BY <2>5
  <2> QED
    BY <2>1, <2>2, <2>3, <2>4, <2>5 DEF Next, Request, Serve, vars, Abstract!Next,
       BeginCreate, BeginUpdate, BeginDelete, FlushUpdate, CheckUnchanged,
       FlushDelete, CommitFails, SendFails, Crash, Receive
<1> QED
  BY InductiveInvariant, <1>1, <1>2, PTL DEF Spec, ImplementsAtomicObjects, Abstract!Spec

(* A step of another client leaves a client's request alone.               *)
LEMMA OwnSteps ==
  ASSUME TypeOK, [Next]_vars, NEW c \in Clients
  PROVE  \/ stage'[c] = stage[c] /\ req'[c] = req[c] /\ reply'[c] = reply[c]
         \/ Request(c) \/ Serve(c) \/ CommitFails(c) \/ SendFails(c) \/ Crash
<1> DEFINE Same == stage'[c] = stage[c] /\ req'[c] = req[c] /\ reply'[c] = reply[c]
<1> USE DEF TypeOK, clientVars
<1>1. ASSUME NEW d \in Clients, d # c, Request(d) PROVE Same
  BY <1>1 DEF Request, BeginCreate, BeginUpdate, BeginDelete, Start, Answer
<1>2. ASSUME NEW d \in Clients, d # c, Serve(d) PROVE Same
  <2>1. CASE AnswerUnchanged(d) \/ FlushUpdate(d) \/ CheckUnchanged(d)
    BY <1>2, <2>1 DEF AnswerUnchanged, FlushUpdate, CheckUnchanged, Answer
  <2>2. CASE FlushDelete(d) \/ Commit(d) \/ Respond(d)
    BY <1>2, <2>2 DEF FlushDelete, Commit, Respond, Answer
  <2> QED
    BY <1>2, <2>1, <2>2 DEF Serve
<1>3. ASSUME NEW d \in Clients, d # c, CommitFails(d) \/ SendFails(d) PROVE Same
  BY <1>3 DEF CommitFails, SendFails, Answer
<1>4. ASSUME NEW d \in Clients, NEW o \in Ids, Fetch(d, o) PROVE Same
  BY <1>4 DEF Fetch
<1>5. ASSUME NEW o \in Ids, Receive(o) PROVE Same
  BY <1>5 DEF Receive
<1>6. ASSUME UNCHANGED vars PROVE Same
  BY <1>6 DEF vars
<1> QED
  BY <1>1, <1>2, <1>3, <1>4, <1>5, <1>6 DEF Next

(* An announced content is not forgotten by any step but a recorded failure *)
(* after the commit: it is being announced, queued, or seen.               *)
THEOREM AnnouncementsAccounted == Spec => []NothingUnannounced
<1>1. Init => NothingUnannounced
  BY DEF Init, NothingUnannounced, Stored
<1>2. IInv /\ NothingUnannounced /\ [Next]_vars => NothingUnannounced'
  <2> SUFFICES ASSUME IInv, NothingUnannounced, [Next]_vars,
                      NEW o \in Ids, Stored(o)', row'[o].value \in Announced
               PROVE  \/ o \in queue'
                      \/ seen'[o] = row'[o].version
                      \/ Announcing(o)'
                      \/ <<o, row'[o].version>> \in unsent'
    BY DEF NothingUnannounced
  <2>1. ASSUME NEW c \in Clients, Commit(c), row'[o] # row[o] PROVE Announcing(o)'
    <3>1. req[c] \in Requests /\ req[c] # Null
      BY <2>1, NullAssumption DEF Commit, IInv, TypeOK, IdleInv
    <3>2. req[c].id = o /\ row'[o] = [version |-> req[c].next, value |-> req[c].value]
      BY <2>1, <3>1 DEF Commit, IInv, TypeOK, Requests
    <3>3. req[c].kind \in {"create", "update"}
      BY <3>1, <3>2, ConstantsAssumption DEF Requests, Kinds, IInv, ValueInv
    <3>4. stage'[c] = "committed" /\ req' = req
      BY <2>1 DEF Commit, IInv, TypeOK
    <3> QED
      BY <3>2, <3>3, <3>4 DEF Announcing, Announces
  <2>2. ASSUME row'[o] = row[o], ~Announcing(o) PROVE
               \/ o \in queue'
               \/ seen'[o] = row'[o].version
               \/ <<o, row'[o].version>> \in unsent'
    <3>1. \/ o \in queue \/ seen[o] = row[o].version
          \/ <<o, row[o].version>> \in unsent
      BY <2>2 DEF NothingUnannounced, Stored
    <3>2. unsent \subseteq unsent'
      BY DEF Next, Request, Serve, vars, Fetch, BeginCreate, BeginUpdate, BeginDelete,
         AnswerUnchanged, FlushUpdate, CheckUnchanged, FlushDelete, Commit,
         CommitFails, Respond, SendFails, Crash, Receive
    <3>3. CASE \E p \in Ids : Receive(p)
      BY <2>2, <3>1, <3>2, <3>3 DEF Receive, Stored, IInv, TypeOK
    <3>4. CASE ~\E p \in Ids : Receive(p)
      <4>1. queue \subseteq queue' /\ seen' = seen
        BY <3>4 DEF Next, Request, Serve, vars, Fetch, BeginCreate, BeginUpdate,
           BeginDelete, AnswerUnchanged, FlushUpdate, CheckUnchanged, FlushDelete,
           Commit, CommitFails, Respond, SendFails, Crash, queueVars
      <4> QED
        BY <2>2, <3>1, <3>2, <4>1
    <3> QED
      BY <3>3, <3>4
  <2>3. ASSUME row'[o] = row[o], NEW c \in Clients,
               stage[c] = "committed", Announces(req[c]),
               req[c].id = o, req[c].next = row[o].version
        PROVE  \/ o \in queue'
               \/ Announcing(o)'
               \/ <<o, row'[o].version>> \in unsent'
    <3>1. CASE stage'[c] = stage[c] /\ req'[c] = req[c]
      BY <2>3, <3>1 DEF Announcing
    <3>2. CASE Respond(c)
      BY <2>3, <3>2 DEF Respond
    <3>3. CASE SendFails(c) \/ Crash
      <4>1. Wrote(req[c])
        <5>1. req[c] \in Requests /\ req[c] # Null /\ CommittedOK(c)
          BY <2>3, NullAssumption DEF IInv, TypeOK, IdleInv, CommittedInv
        <5>2. req[c].kind = "update" => Wrote(req[c])
          BY <2>3, <5>1 DEF CommittedOK, Requests, IInv, TypeOK, Rows
        <5> QED
          BY <2>3, <5>2 DEF Wrote, Announces
      <4>2. Unsent(c) = {<<o, row[o].version>>}
        BY <2>3, <4>1 DEF Unsent
      <4> QED
        BY <2>3, <3>3, <4>2 DEF SendFails, Crash
    <3>4. (stage'[c] = stage[c] /\ req'[c] = req[c]) \/ Respond(c) \/ SendFails(c) \/ Crash
      BY <2>3, OwnSteps DEF IInv, Request, Serve, BeginCreate, BeginUpdate, BeginDelete,
         AnswerUnchanged, FlushUpdate, CheckUnchanged, FlushDelete, Commit, CommitFails
    <3> QED
      BY <3>1, <3>2, <3>3, <3>4
  <2>4. CASE row'[o] # row[o]
    BY <2>1, <2>4, OnlyCommitWrites
  <2>5. CASE row'[o] = row[o]
    BY <2>2, <2>3, <2>5 DEF Announcing
  <2> QED
    BY <2>4, <2>5
<1> QED
  BY InductiveInvariant, <1>1, <1>2, PTL DEF Spec

(* Only the POSTCOMMIT hook queues a message, and by then the row is there.*)
THEOREM MessagesNameObjects == Spec => []NoPhantomMessage
<1>1. Init => NoPhantomMessage
  BY DEF Init, NoPhantomMessage
<1>2. IInv /\ NoPhantomMessage /\ [Next]_vars => NoPhantomMessage'
  <2> SUFFICES ASSUME IInv, NoPhantomMessage, [Next]_vars, NEW o \in queue'
               PROVE  row'[o] # Null
    BY DEF NoPhantomMessage
  <2>1. row[o] # Null
    <3>1. CASE o \in queue
      BY <3>1 DEF NoPhantomMessage
    <3>2. ASSUME o \notin queue, NEW c \in Clients, Respond(c) PROVE row[o] # Null
      <4>1. o = req[c].id /\ CommittedOK(c)
        BY <3>2 DEF Respond, IInv, CommittedInv
      <4> QED
        BY <4>1 DEF CommittedOK
    <3>3. CASE o \notin queue /\ ~\E c \in Clients : Respond(c)
      <4>1. queue' \subseteq queue
        BY <3>3 DEF Next, Request, Serve, vars, Fetch, BeginCreate, BeginUpdate,
           BeginDelete, AnswerUnchanged, FlushUpdate, CheckUnchanged, FlushDelete,
           Commit, CommitFails, SendFails, Crash, Receive, queueVars
      <4> QED
        BY <3>3, <4>1
    <3> QED
      BY <3>1, <3>2, <3>3
  <2>2. o \in Ids
    BY <2>1, TypeStep DEF TypeOK
  <2>3. CASE row'[o] = row[o]
    BY <2>1, <2>3
  <2>4. CASE row'[o] # row[o]
    <3>1. PICK c \in Clients : Commit(c)
      BY <2>4, OnlyCommitWrites
    <3>2. req[c] \in Requests /\ req[c] # Null
      BY <3>1, NullAssumption DEF Commit, IInv, TypeOK, IdleInv
    <3>3. row'[o] \in Rows
      BY <2>4, <3>1, <3>2, <2>2, TypeStep DEF Commit, IInv, TypeOK, Requests, Rows
    <3> QED
      BY <3>3, NullAssumption
  <2> QED
    BY <2>3, <2>4
<1> QED
  BY InductiveInvariant, <1>1, <1>2, PTL DEF Spec

(* A conflict is never spurious: the object moved past the version sent.   *)
THEOREM ConflictsAreReal == Spec => NoSpuriousConflict
<1>1. IInv /\ [Next]_vars =>
        \A c \in Clients :
          stage[c] = "loaded" /\ stage'[c] = "idle" /\ reply'[c] = "conflict" =>
            Moved(req[c].id, IF req[c].kind = "delete" THEN req[c].base.version
                             ELSE req[c].asked)
  <2> SUFFICES ASSUME IInv, [Next]_vars, NEW c \in Clients, stage[c] = "loaded",
                      stage'[c] = "idle", reply'[c] = "conflict"
               PROVE  Moved(req[c].id, IF req[c].kind = "delete"
                                       THEN req[c].base.version ELSE req[c].asked)
    OBVIOUS
  <2>1. FlushUpdate(c) \/ CheckUnchanged(c) \/ FlushDelete(c)
    <3>1. ~Request(c) /\ ~Commit(c) /\ ~CommitFails(c) /\ ~Respond(c) /\ ~SendFails(c)
      BY DEF Request, BeginCreate, BeginUpdate, BeginDelete, Commit, CommitFails,
         Respond, SendFails
    <3>2. ~AnswerUnchanged(c) /\ ~Crash
      BY DEF AnswerUnchanged, Crash, Answer, IInv, TypeOK
    <3> QED
      BY <3>1, <3>2, OwnSteps DEF IInv, Serve
  <2>2. /\ req[c] \in Requests /\ req[c] # Null /\ req[c].base.version \in Nat
        /\ req[c].kind # "create"
    BY LoadedRequest, NullAssumption DEF IInv, LoadedInv
  <2>3. Stored(req[c].id) => /\ row[req[c].id].version \in Nat
                             /\ req[c].base.version <= row[req[c].id].version
    BY <2>2 DEF IInv, TypeOK, Requests, Rows, Stored, BaseInv
  <2>4. req[c].asked \in Nat \cup {-1}
    BY <2>2 DEF Requests, NoVersion
  <2>5. CASE FlushUpdate(c)
    <3>1. req[c].kind = "update"
      BY <2>5 DEF FlushUpdate
    <3>2. req[c].asked # -1 => req[c].asked <= req[c].base.version
      BY <2>2, <3>1 DEF IInv, AskedInv, NoVersion
    <3>3. ~BaseIsCurrent(req[c]) \/ ~VersionAccepted(req[c].asked, req[c].base.version + 1)
      BY <2>5 DEF FlushUpdate, IInv, TypeOK
    <3> QED
      BY <2>2, <2>3, <2>4, <3>1, <3>2, <3>3
      DEF BaseIsCurrent, VersionAccepted, Moved, NoVersion
  <2>6. CASE CheckUnchanged(c)
    <3>1. req[c].kind = "update" /\ Stored(req[c].id)
      BY <2>6 DEF CheckUnchanged, Answer, IInv, TypeOK
    <3>2. ~VersionAccepted(req[c].asked, row[req[c].id].version)
      BY <2>6, <3>1 DEF CheckUnchanged, IInv, TypeOK
    <3> QED
      BY <2>3, <2>4, <3>1, <3>2 DEF VersionAccepted, Moved, NoVersion
  <2>7. CASE FlushDelete(c)
    <3>1. req[c].kind = "delete" /\ ~BaseIsCurrent(req[c])
      BY <2>7 DEF FlushDelete, IInv, TypeOK
    <3> QED
      BY <3>1 DEF BaseIsCurrent, Moved
  <2> QED
    BY <2>1, <2>5, <2>6, <2>7
<1> QED
  BY InductiveInvariant, <1>1, PTL DEF Spec, NoSpuriousConflict

-----------------------------------------------------------------------------
(* Versions.                                                               *)

(* A version of an object names one content: the version never falls, and  *)
(* as long as it stays the same the object does, unless it is deleted.     *)
VersionNamesContent ==
  [][\A o \in Ids : row[o] # Null =>
       /\ row'[o] # Null
       /\ row'[o].version >= row[o].version
       /\ row'[o].version = row[o].version =>
            row'[o] = row[o] \/ row'[o].value = Gone]_vars

LEMMA VersionStep ==
  ASSUME IInv, [Next]_vars, NEW o \in Ids, row[o] # Null
  PROVE  /\ row'[o] # Null
         /\ row'[o].version >= row[o].version
         /\ row'[o].version = row[o].version => row'[o] = row[o] \/ row'[o].value = Gone
<1>0. row[o] \in Rows /\ row[o].version \in Nat
  BY DEF IInv, TypeOK, Rows
<1>1. CASE row'[o] = row[o]
  BY <1>0, <1>1
<1>2. CASE row'[o] # row[o]
  <2>1. PICK c \in Clients : Commit(c)
    BY <1>2, OnlyCommitWrites
  <2>2. req[c] \in Requests /\ req[c] # Null
    BY <2>1, NullAssumption DEF IInv, TypeOK, IdleInv, Commit
  <2>3. req[c].id = o /\ row'[o] = [version |-> req[c].next, value |-> req[c].value]
    BY <1>2, <2>1, <2>2 DEF Commit, IInv, TypeOK, Requests
  <2>4. FlushedOK(c)
    BY <2>1 DEF Commit, IInv, FlushInv
  <2>5. row'[o] # Null
    BY <2>2, <2>3, NullAssumption DEF Rows, Requests
  <2>6. CASE req[c].kind = "update"
    BY <1>0, <2>3, <2>4, <2>5, <2>6 DEF FlushedOK, BaseIsCurrent
  <2>7. CASE req[c].kind = "delete"
    <3>1. req[c].value = Gone
      BY <2>2, <2>7 DEF IInv, ValueInv
    <3> QED
      BY <1>0, <2>3, <2>4, <2>5, <2>7, <3>1 DEF FlushedOK, BaseIsCurrent
  <2> QED
    BY <2>3, <2>4, <2>6, <2>7 DEF FlushedOK
<1> QED
  BY <1>1, <1>2

(* What clients compare when they compare versions is the content: no two  *)
(* commits store different contents under one version.                     *)
THEOREM VersionsNameContents == Spec => VersionNamesContent
<1>1. IInv /\ [Next]_vars =>
        [\A o \in Ids : row[o] # Null =>
           /\ row'[o] # Null
           /\ row'[o].version >= row[o].version
           /\ row'[o].version = row[o].version =>
                row'[o] = row[o] \/ row'[o].value = Gone]_vars
  BY VersionStep
<1> QED
  BY InductiveInvariant, <1>1, PTL DEF Spec, VersionNamesContent

(* The consumer has never seen a version the object does not have yet.     *)
SeenInv ==
  \A o \in Ids : seen[o] # NoVersion => row[o] # Null /\ seen[o] <= row[o].version

ConsumerNeverGoesBack == [][\A o \in Ids : seen'[o] >= seen[o]]_vars

LEMMA SeenStep ==
  ASSUME IInv, SeenInv, [Next]_vars, NEW o \in Ids
  PROVE  /\ seen'[o] >= seen[o]
         /\ seen'[o] # NoVersion => row'[o] # Null /\ seen'[o] <= row'[o].version
<1>0. /\ seen[o] \in Nat \cup {-1}
      /\ row[o] # Null => row[o].version \in Nat
      /\ TypeOK'
  BY TypeStep DEF IInv, TypeOK, Rows, NoVersion
<1>1. CASE \E p \in Ids : Receive(p)
  BY <1>0, <1>1 DEF Receive, SeenInv, Stored, NoVersion, IInv, TypeOK
<1>2. CASE ~\E p \in Ids : Receive(p)
  <2>1. seen' = seen
    BY <1>2 DEF Next, Request, Serve, vars, Fetch, BeginCreate, BeginUpdate, BeginDelete,
       AnswerUnchanged, FlushUpdate, CheckUnchanged, FlushDelete, Commit, CommitFails,
       Respond, SendFails, Crash, queueVars
  <2>2. CASE row[o] = Null
    BY <1>0, <2>1, <2>2 DEF SeenInv
  <2>3. CASE row[o] # Null
    <3>1. row'[o] # Null /\ row'[o].version >= row[o].version
      BY <2>3, VersionStep
    <3>2. row'[o].version \in Nat
      BY <1>0, <3>1 DEF TypeOK, Rows
    <3> QED
      BY <1>0, <2>1, <2>3, <3>1, <3>2 DEF SeenInv, NoVersion
  <2> QED
    BY <2>2, <2>3
<1> QED
  BY <1>1, <1>2

(* Messages that are delivered late, again or in another order than they   *)
(* were sent never take the consumer back to an older version of an object,*)
(* since a message names the object and not the version.                   *)
THEOREM ConsumerMovesForward == Spec => ConsumerNeverGoesBack
<1>1. Init => SeenInv
  BY DEF Init, SeenInv
<1>2. IInv /\ SeenInv /\ [Next]_vars => SeenInv'
  BY SeenStep DEF SeenInv
<1>3. IInv /\ SeenInv /\ [Next]_vars => [\A o \in Ids : seen'[o] >= seen[o]]_vars
  BY SeenStep
<1> QED
  BY InductiveInvariant, <1>1, <1>2, <1>3, PTL DEF Spec, ConsumerNeverGoesBack
=============================================================================
