---------------------------- MODULE StreamPager -----------------------------
(***************************************************************************)
(* streamObjects of PassClient: a lazy stream that reads the objects a     *)
(* selector matches page by page, while other clients create, change and   *)
(* delete objects.  A page is read by selectObjects of ElidePassClient in  *)
(* two transactions: the query, then the load of the objects it named.     *)
(* The stream keeps its place as an offset into the matching objects, in   *)
(* the selector it was given, so streams that are opened on one selector   *)
(* continue each other.                                                    *)
(*                                                                         *)
(* Matching objects are ordered by their id.  Ids come from a sequence, but*)
(* a transaction that took a smaller id may commit after one that took a   *)
(* larger one: an object may appear anywhere in the order.                 *)
(***************************************************************************)
EXTENDS Integers, FiniteSets

CONSTANTS
  Streams,     \* streams, each opened once
  Selectors,   \* selectors the streams are opened on
  Ids,         \* identifiers of objects
  Limit,       \* objects on a page
  MaxOffset,   \* bound on the offset a selector is created with
  MaxChanges,  \* bound on the changes of other clients
  MaxFaults    \* bound on queries that fail

ASSUME PagerAssumption ==
  /\ Ids \subseteq Nat /\ IsFiniteSet(Ids)
  /\ Limit \in Nat \ {0}
  /\ MaxOffset \in Nat
  /\ MaxChanges \in Nat
  /\ MaxFaults \in Nat

(* An object that does not exist yet and one that does not match are alike *)
(* to a stream; a deleted one is not, since it cannot be loaded any more.  *)
Rows   == {"match", "other", "gone"}
Stages == {"closed", "query", "load", "open", "ended", "failed", "stopped"}

VARIABLES
  table,      \* whether an object exists and matches the selectors' filter
  offset,     \* the offset of each selector
  using,      \* the selector a stream was opened on
  stage,      \* how far each stream is
  begun,      \* streams whose constructor has returned
  rest,       \* the objects of the current page still to be delivered
  delivered,  \* the objects a stream has delivered
  changes,    \* changes of other clients so far
  faults,     \* failed queries so far
  stayed,     \* history: asked for when the stream was opened, matching ever since
  left,       \* history: stopped matching since the stream was opened
  entered,    \* history: began to match since the stream was opened
  twice,      \* history: delivered more than once
  shared      \* history: another stream moved the selector in the meantime

pageVars == <<offset, stage, begun, rest, delivered, twice, shared>>
moveVars == <<stayed, left, entered>>
vars == <<table, using, pageVars, changes, faults, moveVars>>

TypeOK ==
  /\ table \in [Ids -> Rows]
  /\ offset \in [Selectors -> Nat]
  /\ using \in [Streams -> Selectors]
  /\ stage \in [Streams -> Stages]
  /\ begun \subseteq Streams
  /\ rest \in [Streams -> SUBSET Ids]
  /\ delivered \in [Streams -> SUBSET Ids]
  /\ changes \in Nat
  /\ faults \in Nat
  /\ stayed \in [Streams -> SUBSET Ids]
  /\ left \in [Streams -> SUBSET Ids]
  /\ entered \in [Streams -> SUBSET Ids]
  /\ twice \in [Streams -> SUBSET Ids]
  /\ shared \subseteq Streams

Init ==
  /\ table \in [Ids -> {"match", "other"}]
  /\ offset \in [Selectors -> 0 .. MaxOffset]
  /\ using \in [Streams -> Selectors]
  /\ stage = [s \in Streams |-> "closed"]
  /\ begun = {}
  /\ rest = [s \in Streams |-> {}]
  /\ delivered = [s \in Streams |-> {}]
  /\ changes = 0
  /\ faults = 0
  /\ stayed = [s \in Streams |-> {}]
  /\ left = [s \in Streams |-> {}]
  /\ entered = [s \in Streams |-> {}]
  /\ twice = [s \in Streams |-> {}]
  /\ shared = {}

-----------------------------------------------------------------------------
(* What a query of the database answers.                                   *)

Matching == {o \in Ids : table[o] = "match"}

Rank(o) == Cardinality({p \in Matching : p < o})

Page(first) == {o \in Matching : Rank(o) >= first /\ Rank(o) < first + Limit}

-----------------------------------------------------------------------------
(* The stream.                                                             *)

(* streamObjects: the constructor of the spliterator reads the first page. *)
Open(s) ==
  /\ stage[s] = "closed"
  /\ stage' = [stage EXCEPT ![s] = "query"]
  /\ stayed' = [stayed EXCEPT ![s] = {o \in Matching : Rank(o) >= offset[using[s]]}]
  /\ UNCHANGED <<table, using, offset, begun, rest, delivered, twice, shared,
                 changes, faults, left, entered>>

(* The query of selectObjects.                                             *)
Query(s) ==
  /\ stage[s] = "query"
  /\ stage' = [stage EXCEPT ![s] = "load"]
  /\ rest' = [rest EXCEPT ![s] = Page(offset[using[s]])]
  /\ UNCHANGED <<table, using, offset, begun, delivered, twice, shared,
                 changes, faults, moveVars>>

(* An answer other than 200, or none: the stream ends with an exception.   *)
QueryFails(s) ==
  /\ stage[s] = "query" /\ faults < MaxFaults
  /\ faults' = faults + 1
  /\ stage' = [stage EXCEPT ![s] = "failed"]
  /\ UNCHANGED <<table, using, offset, begun, rest, delivered, twice, shared,
                 changes, moveVars>>

(* tryAdvance returns false on an empty page; the constructor does not look*)
(* at its page.                                                            *)
AfterLoad(s) == IF s \in begun /\ rest[s] = {} THEN "ended" ELSE "open"

(* The second transaction of selectObjects: an object that was deleted in  *)
(* the meantime cannot be loaded; one that was changed is delivered as it  *)
(* is now, matching or not.                                                *)
Load(s) ==
  /\ stage[s] = "load"
  /\ IF \E o \in rest[s] : table[o] = "gone"
     THEN /\ stage' = [stage EXCEPT ![s] = "failed"]
          /\ UNCHANGED begun
     ELSE /\ stage' = [stage EXCEPT ![s] = AfterLoad(s)]
          /\ begun' = begun \cup {s}
  /\ UNCHANGED <<table, using, offset, rest, delivered, twice, shared,
                 changes, faults, moveVars>>

(* tryAdvance while the page has objects left.                             *)
Deliver(s, o) ==
  /\ stage[s] = "open" /\ o \in rest[s]
  /\ \A p \in rest[s] : o <= p
  /\ rest' = [rest EXCEPT ![s] = @ \ {o}]
  /\ delivered' = [delivered EXCEPT ![s] = @ \cup {o}]
  /\ twice' = [twice EXCEPT ![s] = @ \cup ({o} \cap delivered[s])]
  /\ UNCHANGED <<table, using, offset, stage, begun, shared, changes, faults, moveVars>>

(* Mutants: the selector is not moved on, moved one object too far or too  *)
(* little, or moved back.                                                  *)
OffsetForgotten(x) == offset[x]
OffsetTooFar(x) == offset[x] + Limit + 1
OffsetTooShort(x) == offset[x] + Limit - 1
OffsetMovedBack(x) == offset[x] - Limit

NextOffset(x) == offset[x] + Limit

(* The streams that are being read over the selector s reads over.         *)
Sharing(s) ==
  {t \in Streams \ {s} : using[t] = using[s]
                         /\ stage[t] \in {"query", "load", "open"}}

(* tryAdvance at the end of the page: the selector is moved on and queried.*)
Advance(s) ==
  /\ stage[s] = "open" /\ rest[s] = {}
  /\ offset' = [offset EXCEPT ![using[s]] = NextOffset(using[s])]
  /\ stage' = [stage EXCEPT ![s] = "query"]
  /\ shared' = shared \cup Sharing(s)
  /\ UNCHANGED <<table, using, begun, rest, delivered, twice, changes, faults, moveVars>>

(* The consumer has seen enough (findFirst).                               *)
Stop(s) ==
  /\ stage[s] = "open" /\ delivered[s] # {}
  /\ stage' = [stage EXCEPT ![s] = "stopped"]
  /\ UNCHANGED <<table, using, offset, begun, rest, delivered, twice, shared,
                 changes, faults, moveVars>>

Step(s) == Query(s) \/ Load(s) \/ (\E o \in Ids : Deliver(s, o)) \/ Advance(s)

-----------------------------------------------------------------------------
(* Other clients: objects are created, or changed, so that they match or   *)
(* no longer match, and deleted.                                           *)

Becomes(old, new) ==
  \/ old = "match"  /\ new \in {"other", "gone"}
  \/ old = "other"  /\ new \in {"match", "gone"}

Reading(s) == stage[s] \in {"query", "load", "open"}

Change(o, new) ==
  /\ changes < MaxChanges
  /\ Becomes(table[o], new)
  /\ changes' = changes + 1
  /\ table' = [table EXCEPT ![o] = new]
  /\ stayed' = [s \in Streams |->
                 IF Reading(s) /\ table[o] = "match" THEN stayed[s] \ {o} ELSE stayed[s]]
  /\ left' = [s \in Streams |->
               IF Reading(s) /\ table[o] = "match" THEN left[s] \cup {o} ELSE left[s]]
  /\ entered' = [s \in Streams |->
                  IF Reading(s) /\ new = "match" THEN entered[s] \cup {o} ELSE entered[s]]
  /\ UNCHANGED <<using, pageVars, faults>>

Next ==
  \/ \E s \in Streams : Open(s)
  \/ \E s \in Streams : Step(s)
  \/ \E s \in Streams : QueryFails(s) \/ Stop(s)
  \/ \E o \in Ids, new \in Rows : Change(o, new)

Spec == Init /\ [][Next]_vars

(* A terminal operation such as collect pulls until the stream ends.       *)
FairSpec == Spec /\ \A s \in Streams : WF_vars(Step(s))

-----------------------------------------------------------------------------
(* Properties.                                                             *)

(* What a stream promises under concurrent changes: once it has ended, it  *)
(* has delivered every object that matched all the time and was not moved  *)
(* forward by an object before it that stopped matching, provided no other *)
(* stream moved the selector (streamObjects, the offset arithmetic of      *)
(* tryAdvance).                                                            *)
UnmovedIsDelivered ==
  \A s \in Streams : stage[s] = "ended" /\ s \notin shared =>
    \A o \in stayed[s] : (\A p \in left[s] : o < p) => o \in delivered[s]

(* An object is delivered twice only if an object before it began to match *)
(* while the stream was read, and so moved it back across a page.          *)
NothingTwice ==
  \A s \in Streams : \A o \in twice[s] : \E p \in entered[s] : p < o

(* A stream whose consumer keeps pulling comes to an end: pages, changes   *)
(* and the offset of its selector do not keep it going for ever.           *)
StreamEnds == \A s \in Streams : Reading(s) ~> ~Reading(s)
=============================================================================
