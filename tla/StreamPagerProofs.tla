------------------------- MODULE StreamPagerProofs --------------------------
(***************************************************************************)
(* Proofs about StreamPager, for any number of streams, selectors, objects *)
(* and changes, and any page size.  The argument: objects a stream has     *)
(* delivered rank below its offset unless an object has entered before them*)
(* (Behind); objects it still owes rank above it unless one before them has*)
(* left (Ahead); and a page is empty only if no object ranks above its     *)
(* beginning (EmptyPageIsLast).  What a stream delivers had been asked for,*)
(* or was brought in (Invited).                                            *)
(***************************************************************************)
EXTENDS StreamPager, FiniteSetTheorems, WellFoundedInduction, TLAPS

Off(s) == offset[using[s]]

Unentered(s, o) == \A p \in entered[s] : ~(p < o)

Unleft(s, o) == \A p \in left[s] : o < p

Owed(s, o) == o \in stayed[s] /\ Unleft(s, o) /\ o \notin delivered[s]

Paging(s) == stage[s] \in {"load", "open"}

Closed(s) ==
  stage[s] = "closed" =>
    /\ rest[s] = {} /\ delivered[s] = {} /\ twice[s] = {}
    /\ stayed[s] = {} /\ left[s] = {} /\ entered[s] = {}

Behind(s) ==
  /\ stage[s] = "query" =>
       /\ rest[s] = {}
       /\ \A o \in delivered[s] : Unentered(s, o) => Rank(o) < Off(s)
  /\ Paging(s) =>
       /\ \A o \in delivered[s] \cup rest[s] :
            Unentered(s, o) => Rank(o) < Off(s) + Limit
       /\ \A o \in rest[s] : Unentered(s, o) => o \notin delivered[s]

Ahead(s) ==
  s \notin shared => \A o \in Ids : Owed(s, o) =>
    /\ Reading(s) => o \in Matching
    /\ stage[s] = "query" => Rank(o) >= Off(s)
    /\ Paging(s) => o \in rest[s] \/ Rank(o) >= Off(s) + Limit
    /\ stage[s] = "load" => rest[s] # {}
    /\ stage[s] # "ended"

TwiceFits(s) == \A o \in twice[s] : \E p \in entered[s] : p < o

StreamInv(s) == Closed(s) /\ Behind(s) /\ Ahead(s) /\ TwiceFits(s)

IInv == TypeOK /\ \A s \in Streams : StreamInv(s)

-----------------------------------------------------------------------------
(* Ranks.                                                                  *)
LEMMA FiniteIds ==
  ASSUME NEW S, S \subseteq Ids
  PROVE  IsFiniteSet(S) /\ Cardinality(S) \in Nat
BY PagerAssumption, FS_Subset, FS_CardinalityType

LEMMA RankType ==
  ASSUME NEW o
  PROVE  Rank(o) \in Nat
<1>1. {p \in Matching : p < o} \subseteq Ids
  BY DEF Matching
<1> QED
  BY <1>1, FiniteIds DEF Rank

(* A nonempty set of ids has a smallest and a largest one.                 *)
LEMMA SmallestNumber ==
  ASSUME NEW S, S \subseteq Nat, S # {}
  PROVE  \E m \in S : \A k \in S : m <= k
<1>1. PICK m \in S : \A k \in S : ~(<<k, m>> \in OpToRel(<, Nat))
  BY NatLessThanWellFounded, WFMin, Zenon
<1>2. \A k \in S : ~(k < m)
  BY <1>1 DEF OpToRel
<1> QED
  BY <1>2

LEMMA SmallestId ==
  ASSUME NEW S, S \subseteq Ids, S # {}
  PROVE  \E m \in S : \A k \in S : m <= k
<1>1. S \subseteq Nat
  BY PagerAssumption
<1> QED
  BY <1>1, SmallestNumber

LEMMA LargestIdBelow ==
  ASSUME NEW S, S \subseteq Ids, S # {}, NEW m \in Nat, \A p \in S : p < m
  PROVE  \E q \in S : \A k \in S : k <= q
<1> DEFINE T == {m - p : p \in S}
<1>1. S \subseteq Nat
  BY PagerAssumption
<1>2. T \subseteq Nat /\ T # {}
  <2>1. \A p \in S : m - p \in Nat
    BY <1>1
  <2> QED
    BY <2>1
<1>3. PICK d \in T : \A k \in T : d <= k
  <2> HIDE DEF T
  <2> QED
    BY <1>2, SmallestNumber
<1>4. PICK q \in S : d = m - q
  BY <1>3
<1>5. \A k \in S : m - q <= m - k
  BY <1>3, <1>4
<1> QED
  BY <1>1, <1>5

(* The ranks of matching objects have no gaps: if a page is empty, no      *)
(* object ranks at its beginning or above it.                              *)
LEMMA EmptyPageIsLast ==
  ASSUME NEW first \in Nat, Page(first) = {}, NEW o \in Matching
  PROVE  Rank(o) < first
<1> SUFFICES ASSUME ~(Rank(o) < first)
             PROVE  FALSE
  OBVIOUS
<1> USE PagerAssumption
<1> DEFINE S == {q \in Matching : Rank(q) >= first}
<1>1. Matching \subseteq Ids /\ Matching \subseteq Nat
  BY DEF Matching
<1>2. PICK m \in S : \A k \in S : m <= k
  <2>1. Rank(o) >= first
    BY RankType
  <2>2. S \subseteq Ids /\ o \in S
    BY <1>1, <2>1
  <2> HIDE DEF S
  <2> QED
    BY <2>2, SmallestId
<1> DEFINE T == {p \in Matching : p < m}
<1>3. T \subseteq Ids /\ T \subseteq Nat /\ m \in Nat
  BY <1>1
<1>4. Rank(m) = Cardinality(T)
  BY DEF Rank
<1>5. Rank(m) < first + Limit
  <2>1. CASE T = {}
    <3>1. Rank(m) = 0
      BY <1>4, <2>1, FS_EmptySet
    <3> QED
      BY <3>1
  <2>2. CASE T # {}
    <3>1. PICK q \in T : \A k \in T : k <= q
      <4>1. \A p \in T : p < m
        OBVIOUS
      <4> HIDE DEF T
      <4> QED
        BY <1>3, <2>2, <4>1, LargestIdBelow
    <3>2. q \in Matching /\ q < m /\ q \in Nat
      BY <1>3, <3>1
    <3>3. Rank(q) < first
      <4>1. m \in Nat /\ Rank(q) \in Nat
        BY <1>3, RankType
      <4>2. ~(m <= q)
        BY <3>2, <4>1
      <4>3. ~(Rank(q) >= first)
        BY <1>2, <3>2, <4>2
      <4> QED
        BY <4>1, <4>3
    <3> DEFINE U == {p \in Matching : p < q}
    <3>4. T = U \cup {q} /\ q \notin U
      <4>1. \A k \in T : k < q \/ k = q
        BY <1>3, <3>1
      <4>2. \A k \in Matching : k < q => k < m
        BY <1>1, <1>3, <3>2
      <4>3. ~(q < q)
        BY <3>2
      <4> QED
        BY <3>2, <4>1, <4>2, <4>3
    <3>5. IsFiniteSet(U)
      BY <1>1, FiniteIds
    <3>6. Cardinality(T) = Cardinality(U) + 1
      <4> HIDE DEF T, U
      <4> QED
        BY <3>4, <3>5, FS_AddElement
    <3>7. Rank(q) = Cardinality(U)
      BY DEF Rank
    <3>8. Rank(m) = Rank(q) + 1
      BY <1>4, <3>6, <3>7
    <3> QED
      <4> HIDE DEF T, U, S
      <4>1. Rank(q) \in Nat
        BY RankType
      <4> QED
        BY <3>3, <3>8, <4>1
  <2> QED
    BY <2>1, <2>2
<1>6. m \in Page(first)
  BY <1>2, <1>5 DEF Page
<1> QED
  BY <1>6

(* Objects that enter behind o, or leave behind o, do not change its rank  *)
(* in the direction that matters.                                          *)
LEMMA RankFalls ==
  ASSUME NEW o, \A p \in Matching' : p < o => p \in Matching
  PROVE  Rank(o)' <= Rank(o)
<1> DEFINE U == {p \in Matching : p < o}
           V == {p \in Matching' : p < o}
<1>1. V \subseteq U /\ U \subseteq Ids
  BY DEF Matching
<1>2. IsFiniteSet(U) /\ V \in SUBSET U
  BY <1>1, FiniteIds
<1>3. Cardinality(V) <= Cardinality(U)
  <2> HIDE DEF U, V
  <2> QED
    BY <1>2, FS_Subset
<1> QED
  BY <1>3 DEF Rank

LEMMA RankRises ==
  ASSUME NEW o, \A p \in Matching : p < o => p \in Matching'
  PROVE  Rank(o)' >= Rank(o)
<1> DEFINE U == {p \in Matching' : p < o}
           V == {p \in Matching : p < o}
<1>1. V \subseteq U /\ U \subseteq Ids
  BY DEF Matching
<1>2. IsFiniteSet(U) /\ V \in SUBSET U
  BY <1>1, FiniteIds
<1>3. Cardinality(V) <= Cardinality(U) /\ Cardinality(U) \in Nat /\ Cardinality(V) \in Nat
  <2> HIDE DEF U, V
  <2> QED
    BY <1>1, <1>2, FS_Subset, FiniteIds, FS_CardinalityType
<1> QED
  BY <1>3 DEF Rank

LEMMA SameRanks ==
  ASSUME UNCHANGED table
  PROVE  Matching' = Matching /\ \A o : Rank(o)' = Rank(o)
BY DEF Matching, Rank

-----------------------------------------------------------------------------
(* Types.                                                                  *)
LEMMA TypeStep ==
  ASSUME TypeOK, [Next]_vars
  PROVE  TypeOK'
<1> USE PagerAssumption DEF TypeOK
<1>1. ASSUME NEW s \in Streams, Open(s)
      PROVE  TypeOK'
  <2>1. {o \in Matching : Rank(o) >= offset[using[s]]} \subseteq Ids
    BY DEF Matching
  <2> QED
    BY <1>1, <2>1 DEF Open, Stages
<1>2. ASSUME NEW s \in Streams, Query(s)
      PROVE  TypeOK'
  <2>1. Page(offset[using[s]]) \subseteq Ids
    BY DEF Page, Matching
  <2> QED
    BY <1>2, <2>1 DEF Query, Stages, moveVars
<1>3. ASSUME NEW s \in Streams, QueryFails(s)
      PROVE  TypeOK'
  BY <1>3 DEF QueryFails, Stages, moveVars
<1>4. ASSUME NEW s \in Streams, Load(s)
      PROVE  TypeOK'
  BY <1>4 DEF Load, AfterLoad, Stages, moveVars
<1>5. ASSUME NEW s \in Streams, NEW o \in Ids, Deliver(s, o)
      PROVE  TypeOK'
  BY <1>5 DEF Deliver, moveVars
<1>6. ASSUME NEW s \in Streams, Advance(s)
      PROVE  TypeOK'
  <2>1. NextOffset(using[s]) \in Nat
    BY DEF NextOffset
  <2> QED
    BY <1>6, <2>1 DEF Advance, Sharing, Stages, moveVars
<1>7. ASSUME NEW s \in Streams, Stop(s)
      PROVE  TypeOK'
  BY <1>7 DEF Stop, Stages, moveVars
<1>8. ASSUME NEW o \in Ids, NEW new \in Rows, Change(o, new)
      PROVE  TypeOK'
  BY <1>8 DEF Change, pageVars
<1>9. CASE UNCHANGED vars
  BY <1>9 DEF vars, pageVars, moveVars
<1> QED
  BY <1>1, <1>2, <1>3, <1>4, <1>5, <1>6, <1>7, <1>8, <1>9 DEF Next, Step

-----------------------------------------------------------------------------
(* Steps of other streams.                                                 *)

(* Another stream can only move the selector on, and then marks this one.  *)
LEMMA Undisturbed ==
  ASSUME TypeOK, NEW s \in Streams, StreamInv(s),
         UNCHANGED table, offset'[using'[s]] \in Nat,
         stage'[s] = stage[s], rest'[s] = rest[s], delivered'[s] = delivered[s],
         twice'[s] = twice[s], stayed'[s] = stayed[s], left'[s] = left[s],
         entered'[s] = entered[s], s \in shared => s \in shared',
         Off(s)' >= Off(s),
         Off(s)' = Off(s) \/ s \in shared' \/ ~Reading(s)
  PROVE  StreamInv(s)'
<1> USE SameRanks, RankType, PagerAssumption DEF StreamInv
<1>0. Off(s) \in Nat /\ Off(s)' \in Nat
  BY DEF TypeOK, Off
<1>1. Closed(s)'
  BY DEF Closed
<1>2. Behind(s)'
  <2>1. \A o : /\ Rank(o) \in Nat
               /\ Rank(o) < Off(s) => Rank(o) < Off(s)'
               /\ Rank(o) < Off(s) + Limit => Rank(o) < Off(s)' + Limit
    BY <1>0
  <2>2. \A o : Rank(o)' = Rank(o) /\ Unentered(s, o)' = Unentered(s, o)
    BY DEF Unentered
  <2> HIDE DEF Off
  <2> QED
    BY <2>1, <2>2 DEF Behind, Paging
<1>3. Ahead(s)'
  <2>1. \A o : Rank(o)' = Rank(o) /\ Owed(s, o)' = Owed(s, o)
    BY DEF Owed, Unleft
  <2> QED
    BY <2>1 DEF Ahead, Reading, Paging
<1>4. TwiceFits(s)'
  BY DEF TwiceFits
<1> QED
  BY <1>1, <1>2, <1>3, <1>4

LEMMA OtherSteps ==
  ASSUME TypeOK, TypeOK', NEW s \in Streams, NEW t \in Streams \ {s}, StreamInv(t),
         Open(s) \/ Step(s) \/ QueryFails(s) \/ Stop(s)
  PROVE  StreamInv(t)'
<1> USE DEF TypeOK
<1>1. /\ UNCHANGED <<table, using>>
      /\ stage'[t] = stage[t] /\ rest'[t] = rest[t] /\ delivered'[t] = delivered[t]
      /\ twice'[t] = twice[t] /\ stayed'[t] = stayed[t] /\ left'[t] = left[t]
      /\ entered'[t] = entered[t] /\ shared \subseteq shared'
  BY DEF Open, Step, Query, Load, Deliver, Advance, QueryFails, Stop, moveVars
<1>2. CASE Advance(s)
  <2>1. offset' = [offset EXCEPT ![using[s]] = offset[using[s]] + Limit]
    BY <1>2 DEF Advance, NextOffset
  <2>2. Off(t)' >= Off(t)
    BY <1>1, <2>1, PagerAssumption DEF Off
  <2>3. Off(t)' = Off(t) \/ t \in shared' \/ ~Reading(t)
    <3>1. CASE using[t] = using[s]
      BY <1>2, <3>1 DEF Advance, Sharing, Reading
    <3>2. CASE using[t] # using[s]
      BY <1>1, <2>1, <3>2 DEF Off
    <3> QED
      BY <3>1, <3>2
  <2>4. offset'[using'[t]] \in Nat
    OBVIOUS
  <2> QED
    BY <1>1, <2>2, <2>3, <2>4, Undisturbed
<1>3. CASE ~Advance(s)
  <2>1. UNCHANGED offset
    BY <1>3 DEF Open, Step, Query, Load, Deliver, QueryFails, Stop
  <2>2. offset'[using'[t]] \in Nat /\ Off(t)' = Off(t) /\ Off(t)' >= Off(t)
    BY <1>1, <2>1 DEF Off
  <2> QED
    BY <1>1, <2>2, Undisturbed
<1> QED
  BY <1>2, <1>3

-----------------------------------------------------------------------------
(* A stream's own steps.                                                   *)
LEMMA OpenStep ==
  ASSUME TypeOK, NEW s \in Streams, StreamInv(s), Open(s)
  PROVE  StreamInv(s)'
<1> USE DEF StreamInv, TypeOK
<1>1. /\ UNCHANGED <<table, using, offset>> /\ stage'[s] = "query"
      /\ rest'[s] = {} /\ delivered'[s] = {} /\ twice'[s] = {}
      /\ stayed'[s] = {o \in Matching : Rank(o) >= Off(s)}
  BY DEF Open, Closed, Off
<1>2. Matching' = Matching /\ (\A o : Rank(o)' = Rank(o)) /\ Off(s)' = Off(s)
  BY <1>1, SameRanks DEF Off
<1>3. Closed(s)' /\ Behind(s)' /\ TwiceFits(s)'
  BY <1>1 DEF Closed, Behind, TwiceFits, Paging
<1>4. Ahead(s)'
  BY <1>1, <1>2 DEF Ahead, Owed, Paging
<1> QED
  BY <1>3, <1>4

LEMMA QueryStep ==
  ASSUME TypeOK, NEW s \in Streams, StreamInv(s), Query(s)
  PROVE  StreamInv(s)'
<1> USE RankType, PagerAssumption DEF StreamInv
<1>0. Off(s) \in Nat
  BY DEF TypeOK, Off
<1>1. /\ UNCHANGED <<table, using, offset, delivered, twice, stayed, left, entered, shared>>
      /\ stage[s] = "query" /\ stage'[s] = "load"
      /\ rest'[s] = Page(Off(s))
  BY DEF Query, Off, TypeOK, moveVars
<1>2. Matching' = Matching /\ (\A o : Rank(o)' = Rank(o)) /\ Off(s)' = Off(s)
  BY <1>1, SameRanks DEF Off
<1>3. Closed(s)' /\ TwiceFits(s)'
  BY <1>1 DEF Closed, TwiceFits
<1>4. Behind(s)'
  <2>1. \A o \in rest'[s] : Rank(o) >= Off(s) /\ Rank(o) < Off(s) + Limit
    BY <1>1 DEF Page
  <2>2. \A o \in delivered[s] : Unentered(s, o) => Rank(o) < Off(s)
    BY <1>1 DEF Behind
  <2>3. \A o : /\ Rank(o) < Off(s) => Rank(o) < Off(s) + Limit
               /\ ~(Rank(o) < Off(s) /\ Rank(o) >= Off(s))
    BY <1>0
  <2>4. \A o : Unentered(s, o)' = Unentered(s, o)
    BY <1>1 DEF Unentered
  <2> QED
    BY <1>1, <1>2, <2>1, <2>2, <2>3, <2>4 DEF Behind
<1>5. Ahead(s)'
  <2> SUFFICES ASSUME s \notin shared, NEW o \in Ids, Owed(s, o)
               PROVE  /\ o \in Matching'
                      /\ o \in rest'[s] \/ Rank(o) >= Off(s) + Limit
                      /\ rest'[s] # {}
    BY <1>1, <1>2 DEF Ahead, Owed, Unleft
  <2>1. o \in Matching /\ Rank(o) >= Off(s)
    BY <1>1 DEF Ahead, Reading
  <2>2. o \in Page(Off(s)) \/ Rank(o) >= Off(s) + Limit
    BY <1>0, <2>1 DEF Page
  <2>3. Page(Off(s)) # {}
    BY <1>0, <2>1, EmptyPageIsLast
  <2> QED
    BY <1>1, <1>2, <2>1, <2>2, <2>3
<1> QED
  BY <1>3, <1>4, <1>5

LEMMA FinalStep ==
  ASSUME TypeOK, NEW s \in Streams, StreamInv(s), QueryFails(s) \/ Stop(s)
  PROVE  StreamInv(s)'
<1> USE DEF StreamInv, TypeOK
<1>1. /\ UNCHANGED <<table, using, offset, rest, delivered, twice, stayed, left, entered,
                     shared>>
      /\ stage'[s] \in {"failed", "stopped"}
  BY DEF QueryFails, Stop, moveVars
<1> QED
  BY <1>1 DEF Closed, Behind, Ahead, TwiceFits, Paging, Reading

LEMMA LoadStep ==
  ASSUME TypeOK, NEW s \in Streams, StreamInv(s), Load(s)
  PROVE  StreamInv(s)'
<1> USE DEF StreamInv
<1>1. /\ UNCHANGED <<table, using, offset, rest, delivered, twice, stayed, left, entered,
                     shared>>
      /\ stage[s] = "load" /\ stage'[s] \in {"failed", "ended", "open"}
  BY DEF Load, AfterLoad, TypeOK, moveVars
<1>2. stage'[s] = "ended" => rest[s] = {}
  BY DEF Load, AfterLoad, TypeOK
<1>3. Matching' = Matching /\ (\A o : Rank(o)' = Rank(o)) /\ Off(s)' = Off(s)
  BY <1>1, SameRanks DEF Off
<1>4. Closed(s)' /\ TwiceFits(s)'
  BY <1>1 DEF Closed, TwiceFits
<1>5. Behind(s)'
  BY <1>1, <1>3 DEF Behind, Paging, Unentered
<1>6. Ahead(s)'
  <2>1. \A o : Owed(s, o)' = Owed(s, o)
    BY <1>1 DEF Owed, Unleft
  <2> QED
    BY <1>1, <1>2, <1>3, <2>1 DEF Ahead, Paging, Reading
<1> QED
  BY <1>4, <1>5, <1>6

LEMMA DeliverStep ==
  ASSUME TypeOK, NEW s \in Streams, StreamInv(s), NEW o \in Ids, Deliver(s, o)
  PROVE  StreamInv(s)'
<1> USE DEF StreamInv
<1>1. /\ UNCHANGED <<table, using, offset, stage, stayed, left, entered, shared>>
      /\ stage[s] = "open" /\ o \in rest[s]
      /\ rest'[s] = rest[s] \ {o} /\ delivered'[s] = delivered[s] \cup {o}
      /\ twice'[s] = twice[s] \cup ({o} \cap delivered[s])
  BY DEF Deliver, TypeOK, moveVars
<1>2. Matching' = Matching /\ (\A p : Rank(p)' = Rank(p)) /\ Off(s)' = Off(s)
  BY <1>1, SameRanks DEF Off
<1>3. Closed(s)'
  BY <1>1 DEF Closed
<1>4. Behind(s)'
  BY <1>1, <1>2 DEF Behind, Paging, Unentered
<1>5. Ahead(s)'
  <2>1. \A p : Owed(s, p)' => Owed(s, p) /\ p # o
    BY <1>1 DEF Owed, Unleft
  <2> QED
    BY <1>1, <1>2, <2>1 DEF Ahead, Paging, Reading
<1>6. TwiceFits(s)'
  <2>1. o \in delivered[s] => ~Unentered(s, o)
    BY <1>1 DEF Behind, Paging
  <2> QED
    BY <1>1, <2>1 DEF TwiceFits, Unentered
<1> QED
  BY <1>3, <1>4, <1>5, <1>6

LEMMA AdvanceStep ==
  ASSUME TypeOK, NEW s \in Streams, StreamInv(s), Advance(s)
  PROVE  StreamInv(s)'
<1> USE DEF StreamInv
<1>1. /\ UNCHANGED <<table, using, rest, delivered, twice, stayed, left, entered>>
      /\ stage[s] = "open" /\ rest[s] = {} /\ stage'[s] = "query"
      /\ shared \subseteq shared'
      /\ offset' = [offset EXCEPT ![using[s]] = offset[using[s]] + Limit]
  BY DEF Advance, NextOffset, TypeOK, moveVars
<1>2. Matching' = Matching /\ (\A o : Rank(o)' = Rank(o)) /\ Off(s)' = Off(s) + Limit
  BY <1>1, SameRanks DEF Off, TypeOK
<1>3. Closed(s)' /\ TwiceFits(s)'
  BY <1>1 DEF Closed, TwiceFits
<1>4. Behind(s)'
  BY <1>1, <1>2 DEF Behind, Paging, Unentered
<1>5. Ahead(s)'
  <2>1. \A o : Owed(s, o)' = Owed(s, o)
    BY <1>1 DEF Owed, Unleft
  <2> QED
    BY <1>1, <1>2, <2>1 DEF Ahead, Paging, Reading
<1> QED
  BY <1>3, <1>4, <1>5

-----------------------------------------------------------------------------
(* Changes of other clients.                                               *)
LEMMA ChangeStep ==
  ASSUME TypeOK, NEW s \in Streams, StreamInv(s), NEW o \in Ids, NEW new \in Rows,
         Change(o, new)
  PROVE  StreamInv(s)'
<1> USE DEF StreamInv
<1>1. /\ UNCHANGED <<using, offset, stage, rest, delivered, twice, shared>>
      /\ Off(s)' = Off(s)
      /\ table' = [table EXCEPT ![o] = new] /\ Becomes(table[o], new)
  BY DEF Change, pageVars, Off
<1>2. /\ stayed'[s] = IF Reading(s) /\ table[o] = "match" THEN stayed[s] \ {o} ELSE stayed[s]
      /\ left'[s] = IF Reading(s) /\ table[o] = "match" THEN left[s] \cup {o} ELSE left[s]
      /\ entered'[s] = IF Reading(s) /\ new = "match" THEN entered[s] \cup {o} ELSE entered[s]
  BY DEF Change
<1>3. Reading(s)' = Reading(s)
  BY <1>1 DEF Reading
<1>4. CASE ~Reading(s)
  <2>1. stayed'[s] = stayed[s] /\ left'[s] = left[s] /\ entered'[s] = entered[s]
    BY <1>2, <1>4
  <2>2. Closed(s)' /\ TwiceFits(s)'
    BY <1>1, <2>1 DEF Closed, TwiceFits
  <2>3. Behind(s)'
    BY <1>1, <1>4 DEF Behind, Reading, Paging
  <2>4. Ahead(s)'
    <3>1. \A p : Owed(s, p)' = Owed(s, p)
      BY <1>1, <2>1 DEF Owed, Unleft
    <3> QED
      BY <1>1, <1>3, <1>4, <3>1 DEF Ahead, Reading, Paging
  <2> QED
    BY <2>2, <2>3, <2>4
<1>5. CASE Reading(s)
  <2>0. Off(s) \in Nat /\ Limit \in Nat
    BY PagerAssumption DEF TypeOK, Off
  <2>1. /\ new = "match" => Matching' = Matching \cup {o} /\ table[o] # "match"
        /\ new # "match" => Matching' = Matching \ {o}
    BY <1>1 DEF TypeOK, Matching, Becomes
  <2>2. \A p : Unentered(s, p)' => Unentered(s, p) /\ Rank(p)' <= Rank(p)
    <3> SUFFICES ASSUME NEW p, Unentered(s, p)'
                 PROVE  Unentered(s, p) /\ Rank(p)' <= Rank(p)
      OBVIOUS
    <3>1. Unentered(s, p) /\ (new = "match" => ~(o < p))
      BY <1>2, <1>5 DEF Unentered
    <3>2. \A q \in Matching' : q < p => q \in Matching
      BY <2>1, <3>1
    <3> QED
      BY <3>1, <3>2, RankFalls
  <2>3. Closed(s)'
    BY <1>1, <1>5 DEF Closed, Reading
  <2>4. Behind(s)'
    <3>1. \A p : Rank(p) \in Nat /\ Rank(p)' \in Nat
      <4>1. Matching' \subseteq Ids
        BY DEF Matching
      <4>2. \A p : {q \in Matching' : q < p} \subseteq Ids
        BY <4>1
      <4> QED
        BY <4>2, RankType, FiniteIds DEF Rank
    <3>2. \A p : Unentered(s, p)' =>
            /\ Rank(p) < Off(s) => Rank(p)' < Off(s)
            /\ Rank(p) < Off(s) + Limit => Rank(p)' < Off(s) + Limit
      BY <2>0, <2>2, <3>1
    <3> QED
      BY <1>1, <2>2, <3>2 DEF Behind, Paging
  <2>5. Ahead(s)'
    <3> SUFFICES ASSUME s \notin shared, NEW p \in Ids, Owed(s, p)'
                 PROVE  /\ p \in Matching'
                        /\ stage[s] = "query" => Rank(p)' >= Off(s)
                        /\ Paging(s) => p \in rest[s] \/ Rank(p)' >= Off(s) + Limit
                        /\ stage[s] = "load" => rest[s] # {}
                        /\ stage[s] # "ended"
      BY <1>1, <1>3 DEF Ahead, Paging
    <3>1. Owed(s, p) /\ (table[o] = "match" => o # p /\ ~(o < p))
      <4>1. p \in stayed'[s] /\ Unleft(s, p)' /\ p \notin delivered[s]
        BY <1>1 DEF Owed
      <4>2. p \in stayed[s] /\ (table[o] = "match" => o # p)
        BY <1>2, <1>5, <4>1
      <4>3. Unleft(s, p) /\ (table[o] = "match" => p < o)
        BY <1>2, <1>5, <4>1 DEF Unleft
      <4>4. p \in Nat /\ o \in Nat
        BY PagerAssumption
      <4> QED
        BY <4>1, <4>2, <4>3, <4>4 DEF Owed
    <3>2. p \in Matching
      BY <1>5, <3>1 DEF Ahead
    <3>3. p \in Matching' /\ \A q \in Matching : q < p => q \in Matching'
      BY <2>1, <3>1, <3>2 DEF Matching
    <3>4. Rank(p)' >= Rank(p)
      BY <3>3, RankRises
    <3>5. Rank(p) \in Nat /\ Rank(p)' \in Nat
      <4>1. {q \in Matching' : q < p} \subseteq Ids
        BY DEF Matching
      <4> QED
        BY <4>1, RankType, FiniteIds DEF Rank
    <3>6. /\ stage[s] = "query" => Rank(p) >= Off(s)
          /\ Paging(s) => p \in rest[s] \/ Rank(p) >= Off(s) + Limit
          /\ stage[s] = "load" => rest[s] # {}
          /\ stage[s] # "ended"
      BY <3>1 DEF Ahead
    <3> QED
      BY <2>0, <3>3, <3>4, <3>5, <3>6
  <2>6. TwiceFits(s)'
    BY <1>1, <1>2 DEF TwiceFits
  <2> QED
    BY <2>3, <2>4, <2>5, <2>6
<1> QED
  BY <1>4, <1>5

-----------------------------------------------------------------------------
(* The invariant and its consequences.                                     *)
LEMMA InitIInv == Init => IInv
<1> SUFFICES ASSUME Init
             PROVE  IInv
  OBVIOUS
<1>1. TypeOK
  BY PagerAssumption DEF Init, TypeOK, Rows, Stages
<1>2. ASSUME NEW s \in Streams
      PROVE  StreamInv(s)
  BY DEF Init, StreamInv, Closed, Behind, Ahead, TwiceFits, Owed, Paging
<1> QED
  BY <1>1, <1>2 DEF IInv

LEMMA IInvStep == IInv /\ [Next]_vars => IInv'
<1> SUFFICES ASSUME IInv, [Next]_vars
             PROVE  IInv'
  OBVIOUS
<1>1. TypeOK /\ TypeOK' /\ \A s \in Streams : StreamInv(s)
  BY TypeStep DEF IInv
<1>2. ASSUME NEW s \in Streams, Open(s) \/ Step(s) \/ QueryFails(s) \/ Stop(s),
             NEW t \in Streams
      PROVE  StreamInv(t)'
  <2>1. CASE t = s
    BY <1>1, <1>2, <2>1, OpenStep, QueryStep, FinalStep, LoadStep, DeliverStep, AdvanceStep
       DEF Step
  <2>2. CASE t # s
    BY <1>1, <1>2, <2>2, OtherSteps
  <2> QED
    BY <2>1, <2>2
<1>3. ASSUME NEW o \in Ids, NEW new \in Rows, Change(o, new), NEW t \in Streams
      PROVE  StreamInv(t)'
  BY <1>1, <1>3, ChangeStep
<1>4. ASSUME UNCHANGED vars, NEW t \in Streams
      PROVE  StreamInv(t)'
  <2>1. UNCHANGED <<table, offset, using, stage, rest, delivered, twice, shared, stayed,
                    left, entered>>
    BY <1>4 DEF vars, pageVars, moveVars
  <2>2. Off(t)' = Off(t) /\ Off(t) \in Nat
    BY <1>1, <2>1 DEF Off, TypeOK
  <2>3. offset'[using'[t]] \in Nat /\ Off(t)' >= Off(t)
    BY <2>2 DEF Off
  <2> QED
    BY <1>1, <2>1, <2>2, <2>3, Undisturbed
<1>5. \A t \in Streams : StreamInv(t)'
  BY <1>2, <1>3, <1>4 DEF Next
<1> QED
  BY <1>1, <1>5 DEF IInv

LEMMA Invariance == Spec => []IInv
BY InitIInv, IInvStep, PTL DEF Spec

(* The variables of the streams keep their types.                          *)
THEOREM TypeCorrect == Spec => []TypeOK
<1>1. IInv => TypeOK
  BY DEF IInv
<1> QED
  BY Invariance, <1>1, PTL

(* A stream delivers an object twice only after another has entered before *)
(* it, for any page size and number of changes.                            *)
THEOREM DeliversOnce == Spec => []NothingTwice
<1>1. IInv => NothingTwice
  BY DEF IInv, StreamInv, TwiceFits, NothingTwice
<1> QED
  BY Invariance, <1>1, PTL

(* A stream that has ended has delivered every object that matched all the *)
(* time and had no departure before it, for any page size.                 *)
THEOREM DeliversTheUnmoved == Spec => []UnmovedIsDelivered
<1>1. ASSUME IInv, NEW s \in Streams, stage[s] = "ended", s \notin shared,
             NEW o \in stayed[s], \A p \in left[s] : o < p
      PROVE  o \in delivered[s]
  <2>1. o \in Ids /\ Ahead(s)
    BY <1>1 DEF IInv, TypeOK, StreamInv
  <2> QED
    BY <1>1, <2>1 DEF Ahead, Owed, Unleft
<1>2. IInv => UnmovedIsDelivered
  BY <1>1 DEF UnmovedIsDelivered
<1> QED
  BY Invariance, <1>2, PTL

-----------------------------------------------------------------------------
(* What a stream may deliver at all.                                       *)

(* Objects that have been delivered or wait on the page were asked for when*)
(* the stream was opened or have entered since, unless another has entered *)
(* before them; so are those that are still to come.                       *)
Invited(s) ==
  /\ \A o \in delivered[s] \cup rest[s] :
       Unentered(s, o) => o \in stayed[s] \cup left[s] \cup entered[s]
  /\ Reading(s) =>
       \A o \in Matching : Unentered(s, o) /\ Rank(o) >= Off(s) =>
         o \in stayed[s] \cup entered[s]

LEMMA InvitedUndisturbed ==
  ASSUME TypeOK, TypeOK', NEW s \in Streams, Invited(s), UNCHANGED table,
         Off(s)' >= Off(s), stayed'[s] = stayed[s], left'[s] = left[s],
         entered'[s] = entered[s], Reading(s)' => Reading(s),
         delivered'[s] \cup rest'[s] \subseteq delivered[s] \cup rest[s]
  PROVE  Invited(s)'
<1>1. Matching' = Matching /\ (\A o : Rank(o)' = Rank(o)) /\ \A o : Rank(o) \in Nat
  BY SameRanks, RankType
<1>2. Off(s) \in Nat /\ Off(s)' \in Nat
  BY DEF TypeOK, Off
<1>3. \A o : /\ Unentered(s, o)' = Unentered(s, o)
             /\ Rank(o) >= Off(s)' => Rank(o) >= Off(s)
  BY <1>1, <1>2 DEF Unentered
<1> QED
  BY <1>1, <1>3 DEF Invited

LEMMA InvitedOpen ==
  ASSUME TypeOK, NEW s \in Streams, StreamInv(s), Open(s)
  PROVE  Invited(s)'
<1>1. /\ UNCHANGED <<table, using, offset>>
      /\ rest'[s] = {} /\ delivered'[s] = {}
      /\ stayed'[s] = {o \in Matching : Rank(o) >= Off(s)}
  BY DEF Open, Closed, StreamInv, Off, TypeOK
<1>2. Matching' = Matching /\ (\A o : Rank(o)' = Rank(o)) /\ Off(s)' = Off(s)
  BY <1>1, SameRanks DEF Off
<1> QED
  BY <1>1, <1>2 DEF Invited

LEMMA InvitedQuery ==
  ASSUME TypeOK, NEW s \in Streams, Invited(s), Query(s)
  PROVE  Invited(s)'
<1>1. /\ UNCHANGED <<table, using, offset, delivered, stayed, left, entered>>
      /\ stage[s] = "query" /\ rest'[s] = Page(Off(s))
  BY DEF Query, Off, TypeOK, moveVars
<1>2. Matching' = Matching /\ (\A o : Rank(o)' = Rank(o)) /\ Off(s)' = Off(s)
  BY <1>1, SameRanks DEF Off
<1>3. Reading(s) /\ \A o : Unentered(s, o)' = Unentered(s, o)
  BY <1>1 DEF Reading, Unentered
<1>4. \A o \in rest'[s] : o \in Matching /\ Rank(o) >= Off(s)
  BY <1>1 DEF Page
<1> QED
  BY <1>1, <1>2, <1>3, <1>4 DEF Invited

LEMMA InvitedChange ==
  ASSUME TypeOK, NEW s \in Streams, Invited(s), NEW o \in Ids, NEW new \in Rows,
         Change(o, new)
  PROVE  Invited(s)'
<1>1. /\ UNCHANGED <<using, offset, stage, rest, delivered>>
      /\ Off(s)' = Off(s) /\ Reading(s)' = Reading(s)
      /\ table' = [table EXCEPT ![o] = new] /\ Becomes(table[o], new)
      /\ stayed'[s] = IF Reading(s) /\ table[o] = "match" THEN stayed[s] \ {o} ELSE stayed[s]
      /\ left'[s] = IF Reading(s) /\ table[o] = "match" THEN left[s] \cup {o} ELSE left[s]
      /\ entered'[s] = IF Reading(s) /\ new = "match" THEN entered[s] \cup {o} ELSE entered[s]
  BY DEF Change, pageVars, Off, Reading
<1>2. /\ stayed'[s] \cup left'[s] \cup {o} = stayed[s] \cup left[s] \cup {o}
      /\ stayed[s] \cup left[s] \subseteq stayed'[s] \cup left'[s]
      /\ entered[s] \subseteq entered'[s]
      /\ \A p : Unentered(s, p)' => Unentered(s, p)
  BY <1>1 DEF Unentered
<1>3. \A p \in delivered'[s] \cup rest'[s] :
        Unentered(s, p)' => p \in (stayed[s] \cup left[s] \cup entered[s])'
  BY <1>1, <1>2 DEF Invited
<1>4. ASSUME Reading(s), NEW p \in Matching', Unentered(s, p)', Rank(p)' >= Off(s)
      PROVE  p \in stayed'[s] \cup entered'[s]
  <2>0. Off(s) \in Nat
    BY DEF TypeOK, Off
  <2>1. /\ new = "match" => Matching' = Matching \cup {o} /\ table[o] # "match"
        /\ new # "match" => Matching' = Matching \ {o}
    BY <1>1 DEF TypeOK, Matching, Becomes
  <2>2. CASE p = o
    BY <1>1, <1>4, <2>1, <2>2
  <2>3. CASE p # o
    <3>1. p \in Matching /\ Unentered(s, p) /\ (new = "match" => ~(o < p))
      BY <1>1, <1>2, <1>4, <2>1, <2>3 DEF Unentered
    <3>2. Rank(p)' <= Rank(p)
      <4>1. \A q \in Matching' : q < p => q \in Matching
        BY <2>1, <3>1
      <4> QED
        BY <4>1, RankFalls
    <3>3. Rank(p) \in Nat /\ Rank(p)' \in Nat
      <4>1. {q \in Matching' : q < p} \subseteq Ids
        BY DEF Matching
      <4> QED
        BY <4>1, RankType, FiniteIds DEF Rank
    <3>4. Rank(p) >= Off(s)
      BY <1>4, <2>0, <3>2, <3>3
    <3>5. p \in stayed[s] \cup entered[s]
      BY <1>4, <3>1, <3>4 DEF Invited
    <3> QED
      BY <1>1, <2>3, <3>5
  <2> QED
    BY <2>2, <2>3
<1> QED
  BY <1>1, <1>3, <1>4 DEF Invited

LEMMA InvitedInvariant == Spec => [](IInv /\ \A s \in Streams : Invited(s))
<1> DEFINE All == \A s \in Streams : Invited(s)
<1>1. Init => All
  BY DEF Init, Invited, Reading
<1>2. IInv /\ All /\ [Next]_vars => All'
  <2> SUFFICES ASSUME IInv, All, [Next]_vars, NEW t \in Streams
               PROVE  Invited(t)'
    OBVIOUS
  <2>1. TypeOK /\ TypeOK' /\ StreamInv(t) /\ Invited(t)
    BY TypeStep DEF IInv
  <2>2. ASSUME UNCHANGED vars
        PROVE  Invited(t)'
    <3>1. /\ UNCHANGED <<table, offset, using, stage, rest, delivered, stayed, left, entered>>
          /\ Off(t)' = Off(t) /\ Off(t) \in Nat
      BY <2>1, <2>2 DEF vars, pageVars, moveVars, Off, TypeOK
    <3>2. Off(t)' >= Off(t)
      BY <3>1
    <3> QED
      BY <2>1, <3>1, <3>2, InvitedUndisturbed DEF Reading
  <2>3. ASSUME NEW s \in Streams, s # t, Open(s) \/ Step(s) \/ QueryFails(s) \/ Stop(s)
        PROVE  Invited(t)'
    <3>1. /\ UNCHANGED <<table, using>> /\ stage'[t] = stage[t]
          /\ rest'[t] = rest[t] /\ delivered'[t] = delivered[t]
          /\ stayed'[t] = stayed[t] /\ left'[t] = left[t] /\ entered'[t] = entered[t]
          /\ \/ offset' = offset
             \/ offset' = [offset EXCEPT ![using[s]] = offset[using[s]] + Limit]
      BY <2>1, <2>3 DEF TypeOK, Open, Step, Query, Load, Deliver, Advance, NextOffset,
                        QueryFails, Stop, moveVars
    <3>2. Off(t)' >= Off(t)
      BY <2>1, <3>1, PagerAssumption DEF TypeOK, Off
    <3> QED
      BY <2>1, <3>1, <3>2, InvitedUndisturbed DEF Reading
  <2>4. ASSUME Load(t) \/ (\E o \in Ids : Deliver(t, o)) \/ Advance(t) \/ QueryFails(t) \/ Stop(t)
        PROVE  Invited(t)'
    <3>1. /\ UNCHANGED <<table, using>> /\ Reading(t)
          /\ delivered'[t] \cup rest'[t] \subseteq delivered[t] \cup rest[t]
          /\ stayed'[t] = stayed[t] /\ left'[t] = left[t] /\ entered'[t] = entered[t]
          /\ \/ offset' = offset
             \/ offset' = [offset EXCEPT ![using[t]] = offset[using[t]] + Limit]
      BY <2>1, <2>4 DEF TypeOK, Load, Deliver, Advance, NextOffset, QueryFails, Stop,
                        moveVars, Reading
    <3>2. Off(t)' >= Off(t)
      BY <2>1, <3>1, PagerAssumption DEF TypeOK, Off
    <3> QED
      BY <2>1, <3>1, <3>2, InvitedUndisturbed
  <2> QED
    BY <2>1, <2>2, <2>3, <2>4, InvitedOpen, InvitedQuery, InvitedChange DEF Next, Step
<1> HIDE DEF All
<1>3. Spec => [](IInv /\ All)
  BY <1>1, <1>2, InitIInv, IInvStep, PTL DEF Spec
<1> QED
  BY <1>3 DEF All

(* Whatever others do, a stream delivers an object that was not asked for  *)
(* when it was opened only if that object, or one before it, has come in   *)
(* since.                                                                  *)
NothingUninvited ==
  \A s \in Streams : \A o \in delivered[s] :
    o \in stayed[s] \cup left[s] \cup entered[s] \/ \E p \in entered[s] : p < o

(* A stream that ended while no object came, went or changed sides, and    *)
(* that had its selector to itself, has delivered exactly the objects that *)
(* match from its offset on, each of them once.                            *)
QuietIsExact ==
  \A s \in Streams :
    stage[s] = "ended" /\ s \notin shared /\ left[s] = {} /\ entered[s] = {} =>
      delivered[s] = stayed[s] /\ twice[s] = {}

(* A stream never delivers what was not asked for (the selector's filter   *)
(* and offset), except for what others bring in while it is read.          *)
THEOREM DeliversTheInvited == Spec => []NothingUninvited
<1>1. IInv /\ (\A s \in Streams : Invited(s)) => NothingUninvited
  BY DEF Invited, Unentered, NothingUninvited
<1> QED
  BY <1>1, InvitedInvariant, PTL

(* Page by page, an undisturbed stream delivers just what one query for all*)
(* of the objects would have returned, for any page size.                  *)
THEOREM QuietStreamIsExact == Spec => []QuietIsExact
<1>1. ASSUME IInv, \A t \in Streams : Invited(t), NEW s \in Streams, stage[s] = "ended",
             s \notin shared, left[s] = {}, entered[s] = {}
      PROVE  delivered[s] = stayed[s] /\ twice[s] = {}
  <2>1. StreamInv(s) /\ Invited(s) /\ stayed[s] \subseteq Ids
    BY <1>1 DEF IInv, TypeOK
  <2>2. \A o \in delivered[s] : o \in stayed[s]
    BY <1>1, <2>1 DEF Invited, Unentered
  <2>3. \A o \in stayed[s] : o \in delivered[s]
    BY <1>1, <2>1 DEF StreamInv, Ahead, Owed, Unleft
  <2>4. twice[s] = {}
    BY <1>1, <2>1 DEF StreamInv, TwiceFits
  <2> QED
    BY <2>2, <2>3, <2>4
<1>2. IInv /\ (\A s \in Streams : Invited(s)) => QuietIsExact
  BY <1>1 DEF QuietIsExact
<1> QED
  BY <1>2, InvitedInvariant, PTL
=============================================================================
