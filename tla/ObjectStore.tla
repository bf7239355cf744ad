---------------------------- MODULE ObjectStore -----------------------------
(***************************************************************************)
(* The life of a versioned object (Submission or Deposit) in the object    *)
(* service: requests of clients that read, change and write back a whole   *)
(* object (ElidePassClient), the Elide transaction each request runs in    *)
(* (load, PREFLUSH hook and flush, commit, POSTCOMMIT hook), the optimistic*)
(* locking of the hooks and of the @Version column, and the JMS messages   *)
(* that tell the deposit services about a change.                          *)
(*                                                                         *)
(* Announced is the set of contents that the POSTCOMMIT hook announces:    *)
(* those with submitted = TRUE for a Submission, all for a Deposit.        *)
(***************************************************************************)
EXTENDS Integers

CONSTANTS
  Clients,     \* clients, each with one in-memory object and one request
  Ids,         \* identifiers the database can assign
  Values,      \* contents of an object: all attributes and relationships
  Announced,   \* the contents that are announced when committed
  Null,        \* no row yet; no object in memory; nobody
  Gone,        \* the content of a deleted row
  MaxVersion,  \* bound on the versions of a row
  MaxFaults    \* bound on failures: sends, commits, crashes

ASSUME ConstantsAssumption ==
  /\ Announced \subseteq Values
  /\ Gone \notin Values
  /\ Null \notin Clients
  /\ MaxVersion \in Nat
  /\ MaxFaults \in Nat

NoVersion == -1
Rows   == [version : Nat, value : Values \cup {Gone}]
Copies == [id : Ids, version : Nat]
Kinds  == {"create", "update", "delete"}
Stages == {"idle", "loaded", "flushed", "committed"}
Replies == {"none", "ok", "conflict", "missing", "error"}

(* A request and what its transaction knows: the version the client sent   *)
(* (asked), the row when it was loaded (base), the version to be stored.   *)
Requests == [kind : Kinds, id : Ids, value : Values \cup {Gone},
             asked : Nat \cup {NoVersion}, base : Rows \cup {Null}, next : Nat]

ASSUME NullAssumption ==
  Null \notin Rows /\ Null \notin Copies /\ Null \notin Requests

VARIABLES
  row,       \* the committed rows
  holder,    \* the request whose flush holds the lock of a row
  copy,      \* each client's in-memory object
  stage,     \* how far each client's request has come
  req,       \* the request itself
  reply,     \* the last answer each client got
  queue,     \* objects with a message in the JMS queue
  seen,      \* the version of an object the message consumer last read
  faults,    \* failures so far
  unsent     \* history: written versions whose message was never sent

clientVars == <<stage, req, reply>>
queueVars  == <<queue, seen>>
vars == <<row, holder, copy, stage, req, reply, queue, seen, faults, unsent>>

TypeOK ==
  /\ row \in [Ids -> Rows \cup {Null}]
  /\ holder \in [Ids -> Clients \cup {Null}]
  /\ copy \in [Clients -> Copies \cup {Null}]
  /\ stage \in [Clients -> Stages]
  /\ req \in [Clients -> Requests \cup {Null}]
  /\ reply \in [Clients -> Replies]
  /\ queue \subseteq Ids
  /\ seen \in [Ids -> Nat \cup {NoVersion}]
  /\ faults \in Nat
  /\ unsent \subseteq (Ids \X Nat)

Init ==
  /\ row = [o \in Ids |-> Null]
  /\ holder = [o \in Ids |-> Null]
  /\ copy = [c \in Clients |-> Null]
  /\ stage = [c \in Clients |-> "idle"]
  /\ req = [c \in Clients |-> Null]
  /\ reply = [c \in Clients |-> "none"]
  /\ queue = {}
  /\ seen = [o \in Ids |-> NoVersion]
  /\ faults = 0
  /\ unsent = {}

Stored(o) == row[o] # Null /\ row[o].value # Gone

-----------------------------------------------------------------------------
(* The client side: ElidePassClient.                                       *)

Fetch(c, o) ==
  /\ stage[c] = "idle"
  /\ copy' = [copy EXCEPT ![c] =
               IF Stored(o) THEN [id |-> o, version |-> row[o].version] ELSE Null]
  /\ UNCHANGED <<row, holder, clientVars, queueVars, faults, unsent>>

(* updateObject sends the version of the in-memory object; other clients of*)
(* the JSON API may send none.                                             *)
AskedVersions(c, o) ==
  IF copy[c] # Null /\ copy[c].id = o
  THEN {NoVersion, copy[c].version} ELSE {NoVersion}

Answer(c, r) ==
  /\ stage' = [stage EXCEPT ![c] = "idle"]
  /\ req' = [req EXCEPT ![c] = Null]
  /\ reply' = [reply EXCEPT ![c] = r]

Start(c, s, r) ==
  /\ stage' = [stage EXCEPT ![c] = s]
  /\ req' = [req EXCEPT ![c] = r]
  /\ UNCHANGED reply

-----------------------------------------------------------------------------
(* The transaction of a request.                                           *)

(* Mutants: an INSERT that leaves the version column unset; a message that *)
(* is sent at the flush.                                                   *)
CreateUnversioned(c, o, v) ==
  /\ stage[c] = "idle"
  /\ row[o] = Null /\ holder[o] = Null
  /\ holder' = [holder EXCEPT ![o] = c]
  /\ Start(c, "flushed", [kind |-> "create", id |-> o, value |-> v,
                          asked |-> NoVersion, base |-> Null, next |-> NoVersion])
  /\ UNCHANGED <<row, copy, queueVars, faults, unsent>>

CreateSendingAtFlush(c, o, v) ==
  /\ stage[c] = "idle"
  /\ row[o] = Null /\ holder[o] = Null
  /\ holder' = [holder EXCEPT ![o] = c]
  /\ Start(c, "flushed", [kind |-> "create", id |-> o, value |-> v,
                          asked |-> NoVersion, base |-> Null, next |-> 0])
  /\ queue' = queue \cup {o}
  /\ UNCHANGED <<row, copy, seen, faults, unsent>>

(* POST: the id is new, so the INSERT of the flush meets nobody.           *)
BeginCreate(c, o, v) ==
  /\ stage[c] = "idle"
  /\ row[o] = Null /\ holder[o] = Null
  /\ holder' = [holder EXCEPT ![o] = c]
  /\ Start(c, "flushed", [kind |-> "create", id |-> o, value |-> v,
                          asked |-> NoVersion, base |-> Null, next |-> 0])
  /\ UNCHANGED <<row, copy, queueVars, faults, unsent>>

(* PATCH: Elide loads the row and applies the attributes of the request.   *)
BeginUpdate(c, o, asked, v) ==
  /\ stage[c] = "idle"
  /\ Stored(o) => row[o].version < MaxVersion
  /\ IF Stored(o)
     THEN Start(c, "loaded", [kind |-> "update", id |-> o, value |-> v,
                              asked |-> asked, base |-> row[o], next |-> 0])
     ELSE Answer(c, "missing")
  /\ UNCHANGED <<row, holder, copy, queueVars, faults, unsent>>

(* DELETE: no version comes with the request and no hook is bound to it.   *)
BeginDelete(c, o) ==
  /\ stage[c] = "idle"
  /\ IF Stored(o)
     THEN Start(c, "loaded", [kind |-> "delete", id |-> o, value |-> Gone,
                              asked |-> NoVersion, base |-> row[o], next |-> 0])
     ELSE Answer(c, "missing")
  /\ UNCHANGED <<row, holder, copy, queueVars, faults, unsent>>

(* Elide fires UPDATE hooks if an attribute it was sent differs from the   *)
(* one it loaded; the version is one of the attributes.                    *)
EventFires(r) ==
  \/ r.value # r.base.value
  \/ r.asked # NoVersion /\ r.asked # r.base.version

AnswerUnchanged(c) ==
  /\ stage[c] = "loaded" /\ req[c].kind = "update"
  /\ ~EventFires(req[c])
  /\ copy' = [copy EXCEPT ![c] = [id |-> req[c].id, version |-> req[c].base.version]]
  /\ Answer(c, "ok")
  /\ UNCHANGED <<row, holder, queueVars, faults, unsent>>

(* Mutants: a hook that checks nothing; one that compares with the version *)
(* before the update.                                                      *)
VersionNotChecked(asked, repoVersion) == TRUE
VersionNotIncremented(asked, repoVersion) == asked >= repoVersion

(* validateEntityVersions: the hook compares with the version the row will *)
(* have after the update.                                                  *)
VersionAccepted(asked, repoVersion) ==
  (IF asked = NoVersion THEN -1 ELSE asked + 1) >= repoVersion

(* Mutant: an UPDATE or DELETE without the version in its condition.       *)
RowIsThere(r) == Stored(r.id)

(* Hibernate's UPDATE or DELETE names the version that was loaded.         *)
BaseIsCurrent(r) == Stored(r.id) /\ row[r.id].version = r.base.version

(* The PREFLUSH hook: its query makes Hibernate flush the changed entity,  *)
(* which waits for the row's lock, and returns the incremented version.    *)
FlushUpdate(c) ==
  LET r == req[c] IN
  /\ stage[c] = "loaded" /\ r.kind = "update"
  /\ EventFires(r)
  /\ holder[r.id] = Null
  /\ IF BaseIsCurrent(r) /\ VersionAccepted(r.asked, r.base.version + 1)
     THEN /\ stage' = [stage EXCEPT ![c] = "flushed"]
          /\ req' = [req EXCEPT ![c].next = r.base.version + 1]
          /\ holder' = [holder EXCEPT ![r.id] = c]
          /\ UNCHANGED reply
     ELSE Answer(c, "conflict") /\ UNCHANGED holder
  /\ UNCHANGED <<row, copy, queueVars, faults, unsent>>

(* The same hook when only the version differs and Hibernate finds nothing *)
(* to write: the query returns the stored version (none if the row is gone,*)
(* which fails).                                                           *)
CheckUnchanged(c) ==
  LET r == req[c] IN
  /\ stage[c] = "loaded" /\ r.kind = "update"
  /\ EventFires(r) /\ r.value = r.base.value
  /\ IF ~Stored(r.id) THEN Answer(c, "error")
     ELSE IF VersionAccepted(r.asked, row[r.id].version)
     THEN /\ stage' = [stage EXCEPT ![c] = "committed"]
          /\ req' = [req EXCEPT ![c].next = r.asked]
          /\ UNCHANGED reply
     ELSE Answer(c, "conflict")
  /\ UNCHANGED <<row, holder, copy, queueVars, faults, unsent>>

FlushDelete(c) ==
  LET r == req[c] IN
  /\ stage[c] = "loaded" /\ r.kind = "delete"
  /\ holder[r.id] = Null
  /\ IF BaseIsCurrent(r)
     THEN /\ stage' = [stage EXCEPT ![c] = "flushed"]
          /\ req' = [req EXCEPT ![c].next = r.base.version]
          /\ holder' = [holder EXCEPT ![r.id] = c]
          /\ UNCHANGED reply
     ELSE Answer(c, "conflict") /\ UNCHANGED holder
  /\ UNCHANGED <<row, copy, queueVars, faults, unsent>>

(* Mutant: a commit that keeps the lock of the row.                        *)
CommitKeepingLock(c) ==
  LET r == req[c] IN
  /\ stage[c] = "flushed"
  /\ row' = [row EXCEPT ![r.id] = [version |-> r.next, value |-> r.value]]
  /\ stage' = [stage EXCEPT ![c] = "committed"]
  /\ UNCHANGED <<holder, copy, req, reply, queueVars, faults, unsent>>

Commit(c) ==
  LET r == req[c] IN
  /\ stage[c] = "flushed"
  /\ row' = [row EXCEPT ![r.id] = [version |-> r.next, value |-> r.value]]
  /\ holder' = [holder EXCEPT ![r.id] = Null]
  /\ stage' = [stage EXCEPT ![c] = "committed"]
  /\ UNCHANGED <<copy, req, reply, queueVars, faults, unsent>>

CommitFails(c) ==
  /\ stage[c] = "flushed" /\ faults < MaxFaults
  /\ faults' = faults + 1
  /\ holder' = [holder EXCEPT ![req[c].id] = Null]
  /\ Answer(c, "error")
  /\ UNCHANGED <<row, copy, queueVars, unsent>>

-----------------------------------------------------------------------------
(* After the commit: the POSTCOMMIT hook, then the answer to the client,   *)
(* which takes the version over (setVersionIfNeeded).                      *)

(* Mutants: the hook is bound to one of the two operations only.           *)
AnnouncesUpdates(r) == r.kind = "update" /\ r.value \in Announced
AnnouncesCreates(r) == r.kind = "create" /\ r.value \in Announced

Announces(r) == r.kind \in {"create", "update"} /\ r.value \in Announced

Respond(c) ==
  LET r == req[c] IN
  /\ stage[c] = "committed"
  /\ queue' = IF Announces(r) THEN queue \cup {r.id} ELSE queue
  /\ copy' = IF r.kind = "delete" THEN copy
             ELSE [copy EXCEPT ![c] = [id |-> r.id, version |-> r.next]]
  /\ Answer(c, "ok")
  /\ UNCHANGED <<row, holder, seen, faults, unsent>>

(* The request stored a version of its own.                                *)
Wrote(r) ==
  \/ r.kind = "create"
  \/ r.kind = "update" /\ r.next > r.base.version

Unsent(c) ==
  IF stage[c] = "committed" /\ Announces(req[c]) /\ Wrote(req[c])
  THEN {<<req[c].id, req[c].next>>} ELSE {}

(* jms.send throws: the commit stands, the client gets an error.           *)
SendFails(c) ==
  /\ stage[c] = "committed" /\ Announces(req[c]) /\ faults < MaxFaults
  /\ faults' = faults + 1
  /\ unsent' = unsent \cup Unsent(c)
  /\ Answer(c, "error")
  /\ UNCHANGED <<row, holder, copy, queueVars>>

(* The service stops and restarts: open transactions roll back, messages   *)
(* not yet sent are forgotten.                                             *)
Crash ==
  /\ faults < MaxFaults
  /\ faults' = faults + 1
  /\ unsent' = unsent \cup UNION {Unsent(c) : c \in Clients}
  /\ holder' = [o \in Ids |-> Null]
  /\ stage' = [c \in Clients |-> "idle"]
  /\ req' = [c \in Clients |-> Null]
  /\ reply' = [c \in Clients |-> IF stage[c] = "idle" THEN reply[c] ELSE "error"]
  /\ UNCHANGED <<row, copy, queueVars>>

(* The consumer (a deposit service) takes a message and reads the object it*)
(* names; the broker may deliver the message again.                        *)
Receive(o) ==
  /\ o \in queue
  /\ queue' \in {queue, queue \ {o}}
  /\ seen' = IF Stored(o) THEN [seen EXCEPT ![o] = row[o].version] ELSE seen
  /\ UNCHANGED <<row, holder, copy, clientVars, faults, unsent>>

-----------------------------------------------------------------------------
Request(c) ==
  \/ \E o \in Ids, v \in Values : BeginCreate(c, o, v)
  \/ \E o \in Ids : \E asked \in AskedVersions(c, o), v \in Values :
       BeginUpdate(c, o, asked, v)
  \/ \E o \in Ids : BeginDelete(c, o)

(* The steps the server takes on its own once a request has arrived.       *)
Serve(c) ==
  \/ AnswerUnchanged(c)
  \/ FlushUpdate(c)
  \/ CheckUnchanged(c)
  \/ FlushDelete(c)
  \/ Commit(c)
  \/ Respond(c)

Next ==
  \/ \E c \in Clients, o \in Ids : Fetch(c, o)
  \/ \E c \in Clients : Request(c)
  \/ \E c \in Clients : Serve(c)
  \/ \E c \in Clients : CommitFails(c) \/ SendFails(c)
  \/ Crash
  \/ \E o \in Ids : Receive(o)

Spec == Init /\ [][Next]_vars

(* Server threads keep running and the consumer keeps listening; clients   *)
(* need not send anything.                                                 *)
Fairness ==
  /\ \A c \in Clients : WF_vars(Serve(c))
  /\ \A o \in Ids : WF_vars(Receive(o))

FairSpec == Spec /\ Fairness

-----------------------------------------------------------------------------
(* Properties.                                                             *)

(* No lost update: a stored object changes only by a flushed request whose *)
(* client held, when it asked, exactly the version that is replaced; its   *)
(* content becomes what that client sent and the version advances by one.  *)
(* (validateEntityVersions together with the @Version column.)  A delete   *)
(* removes the very row its transaction loaded.                            *)
Replaces(c, o) ==
  /\ stage[c] = "flushed" /\ req[c].id = o
  /\ row'[o].value = req[c].value
  /\ \/ /\ req[c].kind = "update"
        /\ copy[c] = [id |-> o, version |-> row[o].version]
        /\ row'[o].version = row[o].version + 1
     \/ /\ req[c].kind = "delete"
        /\ req[c].base = row[o]
        /\ row'[o].version = row[o].version

NoLostUpdate ==
  [][\A o \in Ids : row[o] # Null /\ row'[o] # row[o] =>
       Stored(o) /\ \E c \in Clients : Replaces(c, o)]_vars

(* A client is refused with a conflict only if the object really moved past*)
(* the version it sent (or sent none): the hook, which runs against the    *)
(* already incremented version, does not refuse an up-to-date client.      *)
Moved(o, version) == ~Stored(o) \/ row[o].version # version

NoSpuriousConflict ==
  [][\A c \in Clients :
       stage[c] = "loaded" /\ stage'[c] = "idle" /\ reply'[c] = "conflict" =>
         Moved(req[c].id, IF req[c].kind = "delete" THEN req[c].base.version
                          ELSE req[c].asked)]_vars

(* Every committed content that has to be announced is known to the        *)
(* consumer, or a message about its object is in the queue, or the request *)
(* that wrote it has not run its POSTCOMMIT hook yet, or a failure between *)
(* commit and send is on record.                                           *)
Announcing(o) ==
  \E c \in Clients :
    /\ stage[c] = "committed" /\ Announces(req[c])
    /\ req[c].id = o /\ req[c].next = row[o].version

NothingUnannounced ==
  \A o \in Ids :
    Stored(o) /\ row[o].value \in Announced =>
      \/ o \in queue
      \/ seen[o] = row[o].version
      \/ Announcing(o)
      \/ <<o, row[o].version>> \in unsent

(* A message never names an object that no transaction has committed: the  *)
(* hooks run POSTCOMMIT, so the consumer always finds what it is told of.  *)
NoPhantomMessage == \A o \in queue : row[o] # Null

(* The consumer gets to see every announced version of an object, or a     *)
(* later one, unless the object is deleted first ("updates to Submission,  *)
(* SubmissionEvent, and Deposit send messages to a JMS broker").           *)
AnnouncementsArrive ==
  \A o \in Ids : \A n \in 0 .. MaxVersion :
    (Stored(o) /\ row[o].value \in Announced /\ row[o].version = n)
      ~> (seen[o] >= n \/ ~Stored(o))

(* The same with failures: unless the send of that very version failed, or *)
(* the service stopped before it; a message that was sent is not lost.     *)
AnnouncementsArriveOrFail ==
  \A o \in Ids : \A n \in 0 .. MaxVersion :
    (Stored(o) /\ row[o].value \in Announced /\ row[o].version = n)
      ~> (seen[o] >= n \/ ~Stored(o) \/ <<o, n>> \in unsent)

(* Every request is answered: conflicts and row locks delay a request, they*)
(* do not block it for good.                                               *)
RequestsAreAnswered == \A c \in Clients : (stage[c] # "idle") ~> (stage[c] = "idle")

(* The requests and transactions implement the atomic objects of           *)
(* AtomicObjects: the client's image is its in-memory copy.                *)
Abstract == INSTANCE AtomicObjects WITH image <- copy
ImplementsAtomicObjects == Abstract!Spec
=============================================================================
