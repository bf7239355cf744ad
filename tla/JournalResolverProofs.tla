----------------------- MODULE JournalResolverProofs ------------------------
(***************************************************************************)
(* Proofs about JournalResolver: its types for any number of workers, and  *)
(* for one worker, with the journal loader and any failures, that journals *)
(* are resolved to the best match and completely, are never created twice  *)
(* and never lose an ISSN.  The runs JournalDuplicate and JournalLostIssn  *)
(* show that two workers are too many for this.  The argument for the best *)
(* match: a journal has one point for each search that returned it, so the *)
(* points of the bag of hits are the number of searches it matches         *)
(* (RankInv).                                                              *)
(***************************************************************************)
EXTENDS JournalResolver, FiniteSetTheorems, TLAPS

AreFunctions ==
  /\ DOMAIN record = Workers /\ DOMAIN todo = Workers
  /\ DOMAIN created = Workers /\ DOMAIN hits = Workers

Matches(row, r) == row.name = r.name \/ row.issns \cap r.issns # {}

Contains(row, r) == row.name = r.name /\ r.issns \subseteq row.issns

(* What was read is still so, but for what the loader sets.                *)
StillSo(i) ==
  /\ i.id \in Present
  /\ journals[i.id].name = i.row.name
  /\ journals[i.id].issns = i.row.issns
  /\ i.row.loader => journals[i.id].loader

IdleInv(w) == stage[w] \in {"idle", "retrieve"} => hits[w] = EmptyBag /\ ~created[w]

HitsInv(w) == \A i \in BagToSet(hits[w]) : StillSo(i) /\ Matches(i.row, record[w])

TodoInv(w) == stage[w] = "searchIssns" => todo[w] \subseteq record[w].issns

(* What was searched for without success is not there.                     *)
SearchInv(w) ==
  stage[w] = "searchIssns" /\ ~created[w] /\ hits[w] = EmptyBag =>
    \A k \in Present :
      /\ journals[k].name # record[w].name
      /\ journals[k].issns \cap (record[w].issns \ todo[w]) = {}

CreateInv(w) ==
  stage[w] = "create" =>
    ~created[w] /\ \A k \in Present : ~Matches(journals[k], record[w])

(* After a creation all that matches contains the whole record.            *)
CreatedInv(w) ==
  created[w] =>
    /\ stage[w] \in {"searchName", "searchIssns"}
    /\ \A k \in Present : Matches(journals[k], record[w]) => Contains(journals[k], record[w])

WorkerInv(w) ==
  /\ IdleInv(w) /\ HitsInv(w) /\ TodoInv(w)
  /\ SearchInv(w) /\ CreateInv(w) /\ CreatedInv(w)

IInv == TypeOK /\ AreFunctions /\ \A w \in Workers : WorkerInv(w)

-----------------------------------------------------------------------------
(* Bags of images.                                                         *)

LEMMA BagFacts ==
  /\ IsABag(EmptyBag) /\ BagToSet(EmptyBag) = {}
  /\ \A S : IsABag(SetToBag(S)) /\ BagToSet(SetToBag(S)) = S
  /\ \A B : IsABag(B) /\ BagToSet(B) = {} => B = EmptyBag
<1>1. \A S : IsABag(SetToBag(S)) /\ BagToSet(SetToBag(S)) = S
  BY DEF IsABag, BagToSet, SetToBag
<1>2. IsABag(EmptyBag) /\ BagToSet(EmptyBag) = {}
  BY <1>1 DEF EmptyBag
<1>3. ASSUME NEW B, IsABag(B), BagToSet(B) = {}
      PROVE  B = EmptyBag
  BY <1>3 DEF IsABag, BagToSet, EmptyBag, SetToBag
<1> QED
  BY <1>1, <1>2, <1>3

LEMMA BagUnionFacts ==
  ASSUME NEW B, NEW C, IsABag(B), IsABag(C)
  PROVE  /\ IsABag(B (+) C)
         /\ BagToSet(B (+) C) = BagToSet(B) \cup BagToSet(C)
         /\ B (+) C = EmptyBag => B = EmptyBag /\ C = EmptyBag
<1>1. DOMAIN (B (+) C) = DOMAIN B \cup DOMAIN C
  BY DEF (+)
<1>2. ASSUME NEW e \in DOMAIN B \cup DOMAIN C
      PROVE  (B (+) C)[e] \in {n \in Nat : n > 0}
  <2>1. e \in DOMAIN B => B[e] \in Nat /\ B[e] > 0
    BY DEF IsABag
  <2>2. e \in DOMAIN C => C[e] \in Nat /\ C[e] > 0
    BY DEF IsABag
  <2>3. (B (+) C)[e] = (IF e \in DOMAIN B THEN B[e] ELSE 0)
                       + (IF e \in DOMAIN C THEN C[e] ELSE 0)
    BY DEF (+)
  <2> QED
    BY <2>1, <2>2, <2>3
<1>3. B (+) C \in [DOMAIN (B (+) C) -> {n \in Nat : n > 0}]
  BY <1>1, <1>2 DEF (+)
<1>4. BagToSet(B (+) C) = BagToSet(B) \cup BagToSet(C)
  BY <1>1 DEF BagToSet
<1>5. B (+) C = EmptyBag => B = EmptyBag /\ C = EmptyBag
  BY <1>4, BagFacts
<1> QED
  BY <1>3, <1>4, <1>5 DEF IsABag

LEMMA ImagesFacts ==
  ASSUME TypeOK, NEW ids \in SUBSET Present
  PROVE  /\ IsABag(ImagesOf(ids)) /\ BagToSet(ImagesOf(ids)) \subseteq Images
         /\ BagToSet(ImagesOf(ids)) = {[id |-> j, row |-> journals[j]] : j \in ids}
         /\ ImagesOf(ids) = EmptyBag => ids = {}
<1>1. IsABag(ImagesOf(ids))
      /\ BagToSet(ImagesOf(ids)) = {[id |-> j, row |-> journals[j]] : j \in ids}
  BY BagFacts DEF ImagesOf
<1>2. \A j \in ids : j \in Ids /\ journals[j] \in Journals
  BY DEF TypeOK, Present
<1>3. BagToSet(ImagesOf(ids)) \subseteq Images
  BY <1>1, <1>2 DEF Images
<1>4. ASSUME ImagesOf(ids) = EmptyBag
      PROVE  ids = {}
  <2>1. BagToSet(ImagesOf(ids)) = {}
    BY <1>4, BagFacts
  <2> QED
    BY <1>1, <2>1
<1> QED
  BY <1>1, <1>3, <1>4

-----------------------------------------------------------------------------
(* Types.                                                                  *)

LEMMA InitTypes == Init => TypeOK /\ AreFunctions
<1> SUFFICES ASSUME Init
             PROVE  TypeOK /\ AreFunctions
  OBVIOUS
<1>1. journals \in [Ids -> Journals \cup {None}]
  BY JournalAssumption DEF Init
<1>2. ASSUME NEW w \in Workers
      PROVE  /\ record[w] = None /\ todo[w] = {} /\ created[w] = FALSE
             /\ hits[w] = EmptyBag /\ stage[w] = "idle" /\ reply[w] = "none"
  BY DEF Init
<1>3. stage \in [Workers -> Stages] /\ reply \in [Workers -> Ids \cup Statuses]
  BY DEF Init, Stages, Statuses
<1>4. loads \in 0 .. MaxLoads /\ faults \in 0 .. MaxFaults
  BY JournalAssumption DEF Init
<1>5. AreFunctions
  BY DEF Init, AreFunctions
<1> QED
  BY <1>1, <1>2, <1>3, <1>4, <1>5, BagFacts DEF TypeOK

(* What a request may take over from a record stays well typed.            *)
LEMMA CompletedTyped ==
  ASSUME NEW row \in Journals, NEW r \in Records
  PROVE  /\ Completed(row, r) \in Journals
         /\ row.issns \subseteq Completed(row, r).issns
         /\ ~row.loader => Contains(Completed(row, r), r)
         /\ Completed(row, r).loader = row.loader
<1>1. r.name \in Titles /\ r.issns \subseteq Issns
  BY DEF Titles, Issns
<1>2. row.name \in Titles /\ row.issns \subseteq Issns /\ row.loader \in BOOLEAN
  BY DEF Journals
<1>3. CASE row.loader
  BY <1>3 DEF Completed
<1>4. CASE ~row.loader
  <2>1. Completed(row, r) = [name |-> r.name, issns |-> row.issns \cup r.issns, loader |-> row.loader]
    BY <1>4 DEF Completed, Journals
  <2> QED
    BY <1>1, <1>2, <2>1 DEF Journals, Contains
<1> QED
  BY <1>3, <1>4

LEMMA AnswerTypes ==
  ASSUME TypeOK, AreFunctions, NEW w \in Workers, NEW r \in Ids \cup Statuses, Answer(w, r),
         journals' \in [Ids -> Journals \cup {None}],
         loads' \in 0 .. MaxLoads, faults' \in 0 .. MaxFaults
  PROVE  TypeOK' /\ AreFunctions'
<1>1. AreFunctions'
  BY DEF AreFunctions, Answer
<1>2. stage' \in [Workers -> Stages] /\ reply' \in [Workers -> Ids \cup Statuses]
  BY DEF TypeOK, Answer, Stages
<1>3. /\ record'[w] = None /\ todo'[w] = {} /\ created'[w] = FALSE
      /\ hits'[w] = EmptyBag /\ stage'[w] = "idle"
  BY DEF TypeOK, AreFunctions, Answer
<1>4. \A v \in Workers \ {w} :
        /\ record'[v] = record[v] /\ todo'[v] = todo[v] /\ created'[v] = created[v]
        /\ hits'[v] = hits[v] /\ stage'[v] = stage[v]
  BY DEF TypeOK, AreFunctions, Answer
<1>5. \A v \in Workers :
       /\ record'[v] \in Records \cup {None}
       /\ stage'[v] \notin {"idle", "retrieve"} => record'[v] # None
       /\ todo'[v] \subseteq Issns /\ created'[v] \in BOOLEAN
       /\ IsABag(hits'[v]) /\ BagToSet(hits'[v]) \subseteq Images
       /\ stage'[v] = "create" => hits'[v] = EmptyBag /\ record'[v].issns # {}
       /\ stage'[v] = "update" => BagToSet(hits'[v]) # {}
  BY <1>3, <1>4, BagFacts DEF TypeOK
<1> QED
  BY <1>1, <1>2, <1>5 DEF TypeOK

LEMMA TypeStep == TypeOK /\ AreFunctions /\ [Next]_vars => TypeOK' /\ AreFunctions'
<1> SUFFICES ASSUME TypeOK, AreFunctions, [Next]_vars
             PROVE  TypeOK' /\ AreFunctions'
  OBVIOUS
<1>1. CASE UNCHANGED vars
  BY <1>1 DEF TypeOK, AreFunctions, vars, workerVars, bounds
<1>2. ASSUME NEW j \in Ids, JournalLoader(j)
      PROVE  TypeOK' /\ AreFunctions'
  <2>1. journals[j] \in Journals
    BY <1>2 DEF TypeOK, JournalLoader, Present
  <2>2. [journals[j] EXCEPT !.loader = TRUE] \in Journals
    BY <2>1 DEF Journals
  <2>3. journals' \in [Ids -> Journals \cup {None}]
    BY <1>2, <2>2 DEF TypeOK, JournalLoader
  <2>4. loads' \in 0 .. MaxLoads
    BY <1>2, JournalAssumption DEF TypeOK, JournalLoader
  <2> QED
    BY <1>2, <2>3, <2>4 DEF TypeOK, AreFunctions, JournalLoader, workerVars
<1>3. ASSUME NEW w \in Workers, Begin(w) \/ Step(w) \/ Fail(w)
      PROVE  TypeOK' /\ AreFunctions'
  <2>0. loads \in 0 .. MaxLoads /\ faults \in 0 .. MaxFaults
        /\ journals \in [Ids -> Journals \cup {None}]
        /\ DOMAIN stage = Workers
    BY DEF TypeOK
  <2>1. CASE Begin(w)
    <3>1. CASE Answer(w, "400")
      BY <2>0, <2>1, <3>1, AnswerTypes DEF Begin, bounds, Statuses
    <3>2. CASE ~Answer(w, "400")
      BY <2>1, <3>2 DEF Begin, bounds, TypeOK, AreFunctions, Stages, Statuses
    <3> QED
      BY <3>1, <3>2
  <2>2. CASE Retrieve(w)
    <3>1. ASSUME NEW status \in {"404", "422", "500"}, Answer(w, status)
          PROVE  TypeOK' /\ AreFunctions'
      BY <2>0, <2>2, <3>1, AnswerTypes DEF Retrieve, bounds, Statuses
    <3>2. ASSUME NEW r \in Records, record' = [record EXCEPT ![w] = r],
                 stage' = [stage EXCEPT ![w] = "searchName"],
                 UNCHANGED <<todo, created, hits, reply>>
          PROVE  TypeOK' /\ AreFunctions'
      BY <2>0, <2>2, <3>2, JournalAssumption
        DEF Retrieve, bounds, TypeOK, AreFunctions, Stages
    <3> QED
      BY <2>2, <3>1, <3>2 DEF Retrieve
  <2>3. CASE SearchName(w)
    <3> DEFINE named == {j \in Present : journals[j].name = record[w].name}
    <3>1. IsABag(ImagesOf(named)) /\ BagToSet(ImagesOf(named)) \subseteq Images
      BY ImagesFacts
    <3>2. record[w] \in Records
      BY <2>3 DEF TypeOK, SearchName
    <3>3. record[w].issns \subseteq Issns
      BY <3>2 DEF Issns
    <3> QED
      BY <2>0, <2>3, <3>1, <3>2, <3>3 DEF SearchName, bounds, TypeOK, AreFunctions, Stages
  <2>4. ASSUME NEW issn \in Issns, SearchIssn(w, issn)
        PROVE  TypeOK' /\ AreFunctions'
    <3> DEFINE having == {j \in Present : issn \in journals[j].issns}
    <3>1. IsABag(ImagesOf(having)) /\ BagToSet(ImagesOf(having)) \subseteq Images
      BY ImagesFacts
    <3>2. IsABag(hits[w]) /\ BagToSet(hits[w]) \subseteq Images
      BY DEF TypeOK
    <3>3. /\ IsABag(hits[w] (+) ImagesOf(having))
          /\ BagToSet(hits[w] (+) ImagesOf(having)) \subseteq Images
      BY <3>1, <3>2, BagUnionFacts
    <3> QED
      BY <2>0, <2>4, <3>3 DEF SearchIssn, bounds, TypeOK, AreFunctions
  <2>5. CASE Match(w)
    <3>1. PICK i \in Best(hits[w]) : hits' = [hits EXCEPT ![w] = SetToBag({i})]
      BY <2>5 DEF Match
    <3>2. i \in Images
      BY <3>1 DEF Best, TypeOK
    <3>3. IsABag(SetToBag({i})) /\ BagToSet(SetToBag({i})) = {i}
      BY BagFacts
    <3> QED
      BY <2>0, <2>5, <3>1, <3>2, <3>3 DEF Match, Searched, bounds, TypeOK, AreFunctions, Stages
  <2>6. CASE NoMatch(w)
    <3>1. CASE Sufficient(record[w])
      BY <2>0, <2>6, <3>1 DEF NoMatch, Searched, Sufficient, bounds, TypeOK, AreFunctions, Stages
    <3>2. CASE ~Sufficient(record[w])
      BY <2>0, <2>6, <3>2, AnswerTypes DEF NoMatch, bounds, Statuses
    <3> QED
      BY <3>1, <3>2
  <2>7. CASE Create(w)
    <3>1. record[w] \in Records
      BY <2>7 DEF TypeOK, Create
    <3>2. [name |-> record[w].name, issns |-> record[w].issns, loader |-> FALSE] \in Journals
      BY <3>1 DEF Journals, Titles, Issns
    <3>3. journals' \in [Ids -> Journals \cup {None}]
      BY <2>0, <2>7, <3>2 DEF Create
    <3> QED
      BY <2>0, <2>7, <3>3 DEF Create, bounds, TypeOK, AreFunctions, Stages
  <2>8. CASE AnswerCreated(w)
    <3>1. ASSUME NEW i \in Best(hits[w])
          PROVE  i.id \in Ids
      BY DEF Best, TypeOK, Images
    <3> QED
      BY <2>0, <2>8, <3>1, AnswerTypes DEF AnswerCreated, bounds, Statuses
  <2>9. CASE Update(w)
    <3>1. PICK i \in BagToSet(hits[w]) :
            /\ journals' = IF Completed(i.row, record[w]) = i.row THEN journals
                           ELSE [journals EXCEPT ![i.id] = Completed(i.row, record[w])]
            /\ Answer(w, i.id)
      BY <2>9 DEF Update
    <3>2. i.id \in Ids /\ i.row \in Journals
      BY <3>1 DEF TypeOK, Images
    <3>3. record[w] \in Records
      BY <2>9 DEF TypeOK, Update
    <3>4. journals' \in [Ids -> Journals \cup {None}]
      BY <2>0, <3>1, <3>2, <3>3, CompletedTyped
    <3> QED
      BY <2>0, <2>9, <3>1, <3>2, <3>4, AnswerTypes DEF Update, bounds
  <2>10. CASE Fail(w)
    <3>1. faults' \in 0 .. MaxFaults
      BY <2>0, <2>10, JournalAssumption DEF Fail
    <3> QED
      BY <2>0, <2>10, <3>1, AnswerTypes DEF Fail, Statuses
  <2> QED
    BY <1>3, <2>1, <2>2, <2>3, <2>4, <2>5, <2>6, <2>7, <2>8, <2>9, <2>10 DEF Step
<1> QED
  BY <1>1, <1>2, <1>3 DEF Next

LEMMA TypesInvariant == Spec => [](TypeOK /\ AreFunctions)
BY InitTypes, TypeStep, PTL DEF Spec

(* However many requests resolve DOIs at once, the table of journals and   *)
(* what the requests have found keep their types.                          *)
THEOREM TypeCorrect == Spec => []TypeOK
BY TypesInvariant, PTL

-----------------------------------------------------------------------------
(* One worker.                                                             *)

Alone == \A v, w \in Workers : v = w

(* A request that is answered leaves nothing behind.                       *)
LEMMA AnswerInv ==
  ASSUME TypeOK, AreFunctions, NEW w \in Workers, NEW r, Answer(w, r)
  PROVE  WorkerInv(w)'
<1>1. stage'[w] = "idle" /\ hits'[w] = EmptyBag /\ created'[w] = FALSE
  BY DEF TypeOK, AreFunctions, Answer
<1>2. BagToSet(hits'[w]) = {}
  BY <1>1, BagFacts
<1> QED
  BY <1>1, <1>2 DEF WorkerInv, IdleInv, HitsInv, TodoInv, SearchInv, CreateInv, CreatedInv

(* The loader changes nothing that a search or a match depends on.         *)
LEMMA LoaderInv ==
  ASSUME TypeOK, AreFunctions, NEW w \in Workers, WorkerInv(w), NEW j \in Ids, JournalLoader(j)
  PROVE  WorkerInv(w)'
<1>1. journals[j] \in Journals
  BY DEF TypeOK, JournalLoader, Present
<1>2. journals' = [journals EXCEPT ![j] = [journals[j] EXCEPT !.loader = TRUE]]
  BY DEF JournalLoader
<1>3. \A k \in Ids : /\ journals'[k].name = journals[k].name
                     /\ journals'[k].issns = journals[k].issns
                     /\ journals[k].loader => journals'[k].loader
  BY <1>1, <1>2 DEF Journals, TypeOK
<1>4. Present' = Present
  <2>1. [journals[j] EXCEPT !.loader = TRUE] # None
    BY <1>1, JournalAssumption DEF Journals
  <2> QED
    BY <1>2, <2>1 DEF TypeOK, Present, JournalLoader
<1>5. UNCHANGED <<stage, record, todo, created, hits>>
  BY DEF JournalLoader, workerVars
<1>6. \A i \in BagToSet(hits[w]) : i.id \in Ids
  BY DEF TypeOK, Images
<1>7. HitsInv(w)'
  BY <1>3, <1>4, <1>5, <1>6 DEF WorkerInv, HitsInv, StillSo
<1>8. SearchInv(w)' /\ CreateInv(w)' /\ CreatedInv(w)'
  BY <1>3, <1>4, <1>5 DEF WorkerInv, SearchInv, CreateInv, CreatedInv, Matches, Contains, Present
<1>9. IdleInv(w)' /\ TodoInv(w)'
  BY <1>5 DEF WorkerInv, IdleInv, TodoInv
<1> QED
  BY <1>7, <1>8, <1>9 DEF WorkerInv

(* The images a search returns are current and match the record.           *)
LEMMA SearchHits ==
  ASSUME TypeOK, NEW ids \in SUBSET Present, NEW r, \A j \in ids : Matches(journals[j], r)
  PROVE  \A i \in BagToSet(ImagesOf(ids)) : StillSo(i) /\ Matches(i.row, r)
BY ImagesFacts DEF StillSo, Present

LEMMA StepInv ==
  ASSUME TypeOK, AreFunctions, NEW w \in Workers, WorkerInv(w), Begin(w) \/ Step(w) \/ Fail(w)
  PROVE  WorkerInv(w)'
<1> USE DEF WorkerInv
<1>0. DOMAIN stage = Workers /\ journals \in [Ids -> Journals \cup {None}]
  BY DEF TypeOK
<1>1. CASE \E r : Answer(w, r)
  BY <1>1, AnswerInv
<1>2. CASE Begin(w) /\ ~\E r : Answer(w, r)
  <2>1. /\ stage'[w] = "retrieve" /\ hits'[w] = EmptyBag /\ created'[w] = FALSE
        /\ BagToSet(hits'[w]) = {}
    BY <1>0, <1>2, BagFacts DEF Begin, IdleInv, TypeOK
  <2> QED
    BY <2>1 DEF IdleInv, HitsInv, TodoInv, SearchInv, CreateInv, CreatedInv
<1>3. CASE Retrieve(w) /\ ~\E r : Answer(w, r)
  <2>1. /\ stage'[w] = "searchName" /\ hits'[w] = EmptyBag /\ created'[w] = FALSE
        /\ BagToSet(hits'[w]) = {}
    BY <1>0, <1>3, BagFacts DEF Retrieve, IdleInv, TypeOK
  <2> QED
    BY <2>1 DEF IdleInv, HitsInv, TodoInv, SearchInv, CreateInv, CreatedInv
<1>4. CASE SearchName(w)
  <2> DEFINE named == {j \in Present : journals[j].name = record[w].name}
  <2>1. /\ stage'[w] = "searchIssns" /\ hits'[w] = ImagesOf(named)
        /\ todo'[w] = record[w].issns
        /\ UNCHANGED <<journals, record, created>>
    BY <1>0, <1>4 DEF SearchName, AreFunctions
  <2>2. \A i \in BagToSet(ImagesOf(named)) : StillSo(i) /\ Matches(i.row, record[w])
    <3>1. \A j \in named : Matches(journals[j], record[w])
      BY DEF Matches
    <3> QED
      BY <3>1, SearchHits
  <2>3. HitsInv(w)'
    BY <2>1, <2>2 DEF HitsInv, StillSo, Present
  <2>4. SearchInv(w)' /\ TodoInv(w)'
    <3>1. ImagesOf(named) = EmptyBag => named = {}
      BY ImagesFacts
    <3> QED
      BY <2>1, <3>1 DEF SearchInv, TodoInv, Present
  <2>5. IdleInv(w)' /\ CreateInv(w)' /\ CreatedInv(w)'
    BY <2>1 DEF IdleInv, CreateInv, CreatedInv, Present
  <2> QED
    BY <2>3, <2>4, <2>5
<1>5. ASSUME NEW issn \in Issns, SearchIssn(w, issn)
      PROVE  WorkerInv(w)'
  <2> DEFINE having == {j \in Present : issn \in journals[j].issns}
  <2>1. /\ stage'[w] = "searchIssns" /\ hits'[w] = hits[w] (+) ImagesOf(having)
        /\ todo'[w] = todo[w] \ {issn}
        /\ UNCHANGED <<journals, record, created, stage>>
    BY <1>0, <1>5 DEF SearchIssn, AreFunctions
  <2>2. IsABag(ImagesOf(having)) /\ IsABag(hits[w])
    BY ImagesFacts DEF TypeOK
  <2>3. /\ BagToSet(hits'[w]) = BagToSet(hits[w]) \cup BagToSet(ImagesOf(having))
        /\ hits'[w] = EmptyBag => hits[w] = EmptyBag /\ having = {}
    <3>1. ImagesOf(having) = EmptyBag => having = {}
      BY ImagesFacts
    <3> HIDE DEF having
    <3> QED
      BY <2>1, <2>2, <3>1, BagUnionFacts
  <2>4. \A i \in BagToSet(ImagesOf(having)) : StillSo(i) /\ Matches(i.row, record[w])
    <3>1. issn \in record[w].issns
      BY <1>5 DEF SearchIssn, TodoInv
    <3>2. \A j \in having : Matches(journals[j], record[w])
      BY <3>1 DEF Matches
    <3> QED
      BY <3>2, SearchHits
  <2>5. HitsInv(w)'
    BY <2>1, <2>3, <2>4 DEF HitsInv, StillSo, Present
  <2>6. SearchInv(w)' /\ TodoInv(w)'
    BY <1>5, <2>1, <2>3 DEF SearchInv, TodoInv, SearchIssn, Present
  <2>7. IdleInv(w)' /\ CreateInv(w)' /\ CreatedInv(w)'
    BY <2>1 DEF IdleInv, CreateInv, CreatedInv, Present
  <2> QED
    BY <2>5, <2>6, <2>7
<1>6. CASE Match(w)
  <2>1. PICK i \in Best(hits[w]) : hits' = [hits EXCEPT ![w] = SetToBag({i})]
    BY <1>6 DEF Match
  <2>2. /\ stage'[w] = "update" /\ BagToSet(hits'[w]) = {i} /\ i \in BagToSet(hits[w])
        /\ UNCHANGED <<journals, record, created>>
    BY <1>0, <1>6, <2>1, BagFacts DEF Match, AreFunctions, Best
  <2>3. HitsInv(w)'
    BY <2>2 DEF HitsInv, StillSo, Present
  <2>4. IdleInv(w)' /\ TodoInv(w)' /\ SearchInv(w)' /\ CreateInv(w)' /\ CreatedInv(w)'
    BY <1>6, <2>2 DEF IdleInv, TodoInv, SearchInv, CreateInv, CreatedInv, Match
  <2> QED
    BY <2>3, <2>4
<1>7. CASE NoMatch(w) /\ ~\E r : Answer(w, r)
  <2>1. /\ stage'[w] = "create" /\ hits'[w] = EmptyBag /\ BagToSet(hits'[w]) = {}
        /\ UNCHANGED <<journals, record, created>>
    BY <1>0, <1>7, BagFacts DEF NoMatch
  <2>2. stage[w] = "searchIssns" /\ todo[w] = {} /\ ~created[w] /\ hits[w] = EmptyBag
    BY <1>7 DEF NoMatch, Searched
  <2>3. \A k \in Present : ~Matches(journals[k], record[w])
    BY <2>2 DEF SearchInv, Matches
  <2> QED
    BY <2>1, <2>2, <2>3 DEF IdleInv, HitsInv, TodoInv, SearchInv, CreateInv, CreatedInv, Present
<1>8. CASE Create(w)
  <2>1. PICK j \in Ids :
          /\ journals[j] = None
          /\ journals' = [journals EXCEPT ![j] = [name |-> record[w].name,
                            issns |-> record[w].issns, loader |-> FALSE]]
    BY <1>8 DEF Create
  <2>2. /\ stage'[w] = "searchName" /\ created'[w] = TRUE /\ hits'[w] = EmptyBag
        /\ BagToSet(hits'[w]) = {} /\ UNCHANGED record
    BY <1>0, <1>8, BagFacts DEF Create, TypeOK, AreFunctions
  <2>3. ASSUME NEW k \in Present'
        PROVE  Matches(journals'[k], record[w]) => Contains(journals'[k], record[w])
    <3>1. CASE k = j
      BY <1>0, <2>1, <3>1 DEF Contains
    <3>2. CASE k # j
      BY <1>0, <1>8, <2>1, <2>3, <3>2 DEF CreateInv, Create, Present
    <3> QED
      BY <3>1, <3>2
  <2> QED
    BY <2>2, <2>3 DEF IdleInv, HitsInv, TodoInv, SearchInv, CreateInv, CreatedInv
<1>9. CASE AnswerCreated(w)
  BY <1>1, <1>9 DEF AnswerCreated
<1>10. CASE Update(w)
  BY <1>1, <1>10 DEF Update
<1>11. CASE Fail(w)
  BY <1>1, <1>11 DEF Fail
<1> QED
  BY <1>1, <1>2, <1>3, <1>4, <1>5, <1>6, <1>7, <1>8, <1>9, <1>10, <1>11 DEF Step

LEMMA AloneInvariant == Alone => (Spec => []IInv)
<1> SUFFICES ASSUME Alone
             PROVE  Spec => []IInv
  OBVIOUS
<1>1. Init => IInv
  <2> SUFFICES ASSUME Init, NEW w \in Workers
               PROVE  WorkerInv(w)
    BY InitTypes DEF IInv
  <2>1. stage[w] = "idle" /\ hits[w] = EmptyBag /\ created[w] = FALSE
    BY DEF Init
  <2>2. BagToSet(hits[w]) = {}
    BY <2>1, BagFacts
  <2> QED
    BY <2>1, <2>2 DEF WorkerInv, IdleInv, HitsInv, TodoInv, SearchInv, CreateInv, CreatedInv
<1>2. IInv /\ [Next]_vars => IInv'
  <2> SUFFICES ASSUME IInv, [Next]_vars
               PROVE  IInv'
    OBVIOUS
  <2>1. TypeOK' /\ AreFunctions'
    BY TypeStep DEF IInv
  <2>2. ASSUME NEW w \in Workers
        PROVE  WorkerInv(w)'
    <3>1. CASE UNCHANGED vars
      BY <3>1 DEF IInv, WorkerInv, IdleInv, HitsInv, TodoInv, SearchInv, CreateInv, CreatedInv,
                  StillSo, Present, vars, workerVars
    <3>2. ASSUME NEW v \in Workers, Begin(v) \/ Step(v) \/ Fail(v)
          PROVE  WorkerInv(w)'
      <4>1. v = w
        BY DEF Alone
      <4> QED
        BY <3>2, <4>1, StepInv DEF IInv
    <3>3. ASSUME NEW j \in Ids, JournalLoader(j)
          PROVE  WorkerInv(w)'
      BY <3>3, LoaderInv DEF IInv
    <3> QED
      BY <3>1, <3>2, <3>3 DEF Next
  <2> QED
    BY <2>1, <2>2 DEF IInv
<1> QED
  BY <1>1, <1>2, PTL DEF Spec

-----------------------------------------------------------------------------
(* What steps do to the table of journals.                                 *)

LEMMA JournalSteps ==
  ASSUME IInv, [Next]_vars
  PROVE  \/ UNCHANGED journals
         \/ \E j \in Ids : JournalLoader(j)
         \/ \E w \in Workers : Create(w) \/ Update(w)
BY DEF Next, Step, Begin, Retrieve, SearchName, SearchIssn, Match, NoMatch, AnswerCreated,
       Fail, vars

LEMMA UpdateStep ==
  ASSUME IInv, NEW w \in Workers, Update(w)
  PROVE  \E i \in BagToSet(hits[w]) :
           LET new == Completed(i.row, record[w]) IN
           /\ i \in Images /\ record[w] \in Records /\ StillSo(i)
           /\ Answer(w, i.id)
           /\ journals' = IF new = i.row THEN journals ELSE [journals EXCEPT ![i.id] = new]
<1>1. PICK i \in BagToSet(hits[w]) :
        /\ journals' = IF Completed(i.row, record[w]) = i.row THEN journals
                       ELSE [journals EXCEPT ![i.id] = Completed(i.row, record[w])]
        /\ Answer(w, i.id)
  BY DEF Update
<1>2. i \in Images /\ record[w] \in Records
  BY DEF IInv, TypeOK, Update
<1>3. StillSo(i)
  BY DEF IInv, WorkerInv, HitsInv
<1> QED
  BY <1>1, <1>2, <1>3

LEMMA DuplicateStep ==
  ASSUME IInv, [Next]_vars, NEW j \in Ids, journals[j] = None, journals'[j] # None,
         NEW k \in Present
  PROVE  Score(journals[k], journals'[j]) = 0
<1>0. journals \in [Ids -> Journals \cup {None}]
  BY DEF IInv, TypeOK
<1>1. ~UNCHANGED journals
  OBVIOUS
<1>2. ~\E i \in Ids : JournalLoader(i)
  BY <1>0 DEF JournalLoader, Present
<1>3. ASSUME NEW w \in Workers, Update(w)
      PROVE  FALSE
  <2>1. PICK i \in BagToSet(hits[w]) :
          /\ i \in Images /\ StillSo(i)
          /\ journals' = IF Completed(i.row, record[w]) = i.row THEN journals
                         ELSE [journals EXCEPT ![i.id] = Completed(i.row, record[w])]
    BY <1>3, UpdateStep
  <2>2. i.id = j
    BY <1>0, <2>1
  <2> QED
    BY <2>1, <2>2 DEF StillSo, Present
<1>4. PICK w \in Workers : Create(w)
  BY <1>1, <1>2, <1>3, JournalSteps
<1>5. journals'[j] = [name |-> record[w].name, issns |-> record[w].issns, loader |-> FALSE]
  BY <1>0, <1>4 DEF Create
<1>6. ~Matches(journals[k], record[w])
  BY <1>4 DEF IInv, WorkerInv, CreateInv, Create
<1>7. /\ journals[k].name # journals'[j].name
      /\ journals[k].issns \cap journals'[j].issns = {}
  BY <1>5, <1>6 DEF Matches
<1>8. Cardinality(journals[k].issns \cap journals'[j].issns) = 0
  BY <1>7, FS_EmptySet
<1> QED
  BY <1>7, <1>8 DEF Score

LEMMA IssnsStep ==
  ASSUME IInv, [Next]_vars, NEW j \in Present
  PROVE  journals[j].issns \subseteq journals'[j].issns
<1>0. journals[j] \in Journals /\ j \in Ids /\ DOMAIN journals = Ids
  BY DEF IInv, TypeOK, Present
<1>1. CASE UNCHANGED journals
  BY <1>1
<1>2. ASSUME NEW k \in Ids, JournalLoader(k)
      PROVE  journals[j].issns \subseteq journals'[j].issns
  BY <1>0, <1>2 DEF JournalLoader, Journals
<1>3. ASSUME NEW w \in Workers, Create(w)
      PROVE  journals[j].issns \subseteq journals'[j].issns
  BY <1>0, <1>3 DEF Create, Present
<1>4. ASSUME NEW w \in Workers, Update(w)
      PROVE  journals[j].issns \subseteq journals'[j].issns
  <2>1. PICK i \in BagToSet(hits[w]) :
          /\ i \in Images /\ record[w] \in Records /\ StillSo(i)
          /\ journals' = IF Completed(i.row, record[w]) = i.row THEN journals
                         ELSE [journals EXCEPT ![i.id] = Completed(i.row, record[w])]
    BY <1>4, UpdateStep
  <2>2. CASE journals' = journals
    BY <2>2
  <2>3. CASE j = i.id /\ journals' # journals
    <3>1. journals'[j] = Completed(i.row, record[w])
      BY <1>0, <2>1, <2>3
    <3>2. i.row \in Journals /\ i.row.issns = journals[j].issns
      BY <2>1, <2>3 DEF Images, StillSo
    <3> QED
      BY <2>1, <3>1, <3>2, CompletedTyped
  <2>4. CASE j # i.id
    BY <1>0, <2>1, <2>4
  <2> QED
    BY <2>2, <2>3, <2>4
<1> QED
  BY <1>1, <1>2, <1>3, <1>4, JournalSteps

(* A step that answers with a journal is one of two.                       *)
LEMMA AnswerSteps ==
  ASSUME IInv, [Next]_vars, Alone, NEW w \in Workers, NEW j \in Ids, Answered(w, j)
  PROVE  Update(w) \/ \E i \in Best(hits[w]) : AnswerCreated(w) /\ j = i.id
<1>0. DOMAIN stage = Workers /\ DOMAIN reply = Workers /\ j \notin Statuses
  BY JournalAssumption DEF IInv, TypeOK
<1>1. stage[w] # "idle" /\ stage'[w] = "idle" /\ reply'[w] = j
  BY DEF Answered
<1>2. Step(w) \/ Fail(w)
  <2>1. ~UNCHANGED stage
    BY <1>1
  <2>2. PICK v \in Workers : Begin(v) \/ Step(v) \/ Fail(v)
    BY <2>1 DEF Next, JournalLoader, vars, workerVars
  <2>3. v = w
    BY DEF Alone
  <2>4. ~Begin(w)
    BY <1>1 DEF Begin
  <2> QED
    BY <2>2, <2>3, <2>4
<1>3. ASSUME NEW r \in Statuses
      PROVE  ~Answer(w, r)
  BY <1>0, <1>1, <1>3 DEF Answer
<1>4. ~Fail(w) /\ ~Retrieve(w) /\ ~NoMatch(w)
  BY <1>0, <1>1, <1>3 DEF Fail, Retrieve, NoMatch, Statuses
<1>5. ~SearchName(w) /\ ~(\E issn \in Issns : SearchIssn(w, issn)) /\ ~Match(w) /\ ~Create(w)
  BY <1>0, <1>1 DEF SearchName, SearchIssn, Match, Create
<1>6. Update(w) \/ AnswerCreated(w)
  BY <1>2, <1>4, <1>5 DEF Step
<1>7. ASSUME AnswerCreated(w)
      PROVE  \E i \in Best(hits[w]) : j = i.id
  <2>1. PICK i \in Best(hits[w]) : Answer(w, i.id)
    BY <1>3, <1>7 DEF AnswerCreated, Statuses
  <2> QED
    BY <1>0, <1>1, <2>1 DEF Answer
<1> QED
  BY <1>6, <1>7

LEMMA CompleteStep ==
  ASSUME IInv, [Next]_vars, Alone, NEW w \in Workers, NEW j \in Ids, Answered(w, j)
  PROVE  /\ Matches(journals'[j], record[w])
         /\ ~journals'[j].loader => Contains(journals'[j], record[w])
<1>0. DOMAIN journals = Ids /\ DOMAIN reply = Workers /\ reply'[w] = j
  BY DEF IInv, TypeOK, Answered
<1>c. ASSUME Contains(journals'[j], record[w])
      PROVE  Matches(journals'[j], record[w])
  BY <1>c DEF Contains, Matches
<1>h. ASSUME NEW i \in BagToSet(hits[w])
      PROVE  StillSo(i) /\ Matches(i.row, record[w])
  BY DEF IInv, WorkerInv, HitsInv
<1>1. CASE Update(w)
  <2>1. PICK i \in BagToSet(hits[w]) :
          /\ i \in Images /\ record[w] \in Records /\ StillSo(i)
          /\ Answer(w, i.id)
          /\ journals' = IF Completed(i.row, record[w]) = i.row THEN journals
                         ELSE [journals EXCEPT ![i.id] = Completed(i.row, record[w])]
    BY <1>1, UpdateStep
  <2>2. j = i.id /\ i.row \in Journals /\ Matches(i.row, record[w])
    BY <1>0, <1>h, <2>1 DEF Answer, Images
  <2>3. CASE Completed(i.row, record[w]) = i.row
    <3>1. /\ journals'[j].name = i.row.name /\ journals'[j].issns = i.row.issns
          /\ i.row.loader => journals'[j].loader
      BY <2>1, <2>2, <2>3 DEF StillSo
    <3>2. ~i.row.loader => Contains(i.row, record[w])
      BY <2>1, <2>2, <2>3, CompletedTyped
    <3>3. Matches(journals'[j], record[w])
      BY <2>2, <3>1 DEF Matches
    <3>4. ~journals'[j].loader => Contains(journals'[j], record[w])
      BY <3>1, <3>2 DEF Contains
    <3> QED
      BY <3>3, <3>4
  <2>4. CASE Completed(i.row, record[w]) # i.row
    <3>1. journals'[j] = Completed(i.row, record[w])
      BY <1>0, <2>1, <2>2, <2>4
    <3>2. ~i.row.loader
      BY <2>4 DEF Completed
    <3>3. Contains(journals'[j], record[w])
      BY <2>1, <2>2, <3>1, <3>2, CompletedTyped
    <3> QED
      BY <1>c, <3>3
  <2> QED
    BY <2>3, <2>4
<1>2. ASSUME NEW i \in Best(hits[w]), AnswerCreated(w), j = i.id
      PROVE  Contains(journals'[j], record[w])
  <2>1. created[w] /\ journals' = journals
    BY <1>2 DEF AnswerCreated
  <2>2. StillSo(i) /\ Matches(i.row, record[w])
    BY <1>h DEF Best
  <2>3. j \in Present /\ Matches(journals[j], record[w])
    BY <1>2, <2>2 DEF StillSo, Matches
  <2> QED
    BY <2>1, <2>3 DEF IInv, WorkerInv, CreatedInv
<1> QED
  BY <1>1, <1>2, <1>c, AnswerSteps

-----------------------------------------------------------------------------

(* Resolving one DOI at a time creates a journal only if PASS has none that*)
(* matches, however the loader interferes and transactions fail.           *)
THEOREM NoDuplicates == Alone => (Spec => NoDuplicateCreated)
<1> SUFFICES ASSUME Alone
             PROVE  Spec => NoDuplicateCreated
  OBVIOUS
<1>1. IInv /\ [Next]_vars =>
        [\A j \in Ids : journals[j] = None /\ journals'[j] # None =>
           \A k \in Present : Score(journals[k], journals'[j]) = 0]_vars
  BY DuplicateStep
<1> QED
  BY <1>1, AloneInvariant, PTL DEF Spec, NoDuplicateCreated

(* Resolving one DOI at a time takes no ISSN away from a journal.          *)
THEOREM IssnsGrow == Alone => (Spec => IssnsOnlyGrow)
<1> SUFFICES ASSUME Alone
             PROVE  Spec => IssnsOnlyGrow
  OBVIOUS
<1>1. IInv /\ [Next]_vars =>
        [\A j \in Present : journals[j].issns \subseteq journals'[j].issns]_vars
  BY IssnsStep
<1> QED
  BY <1>1, AloneInvariant, PTL DEF Spec, IssnsOnlyGrow

(* Resolving one DOI at a time, a request is answered with a journal that  *)
(* shares the title or an ISSN with the Crossref record and has all its    *)
(* ISSNs, unless the loader maintains it.                                  *)
THEOREM Complete == Alone => (Spec => ResolvedIsComplete)
<1> SUFFICES ASSUME Alone
             PROVE  Spec => ResolvedIsComplete
  OBVIOUS
<1>1. IInv /\ [Next]_vars =>
        [\A w \in Workers, j \in Ids :
           Answered(w, j) =>
             /\ \/ journals'[j].name = record[w].name
                \/ journals'[j].issns \cap record[w].issns # {}
             /\ ~journals'[j].loader => record[w].issns \subseteq journals'[j].issns]_vars
  BY CompleteStep DEF Contains, Matches
<1> QED
  BY <1>1, AloneInvariant, PTL DEF Spec, ResolvedIsComplete

-----------------------------------------------------------------------------
(* The best match.                                                         *)

Image(j) == [id |-> j, row |-> journals[j]]

Points(bag, i) == IF i \in BagToSet(bag) THEN bag[i] ELSE 0

(* The score of a row by the searches a worker has made.                   *)
ScoreSoFar(row, w) ==
  (IF row.name = record[w].name THEN 1 ELSE 0)
  + Cardinality(row.issns \cap (record[w].issns \ todo[w]))

(* As long as the loader has changed nothing, what was read is exactly what*)
(* is there; every journal has one point for each search that returned it; *)
(* and the match that was picked has the highest score.                    *)
RankInv(w) ==
  loads = 0 =>
    /\ \A i \in BagToSet(hits[w]) : i = Image(i.id)
    /\ stage[w] = "searchIssns" =>
         \A k \in Present : Points(hits[w], Image(k)) = ScoreSoFar(journals[k], w)
    /\ stage[w] = "update" =>
         \A i \in BagToSet(hits[w]), k \in Present :
           Score(journals[k], record[w]) <= Score(i.row, record[w])

LEMMA PointsOfImages ==
  ASSUME TypeOK, NEW ids \in SUBSET Present, NEW k
  PROVE  Points(ImagesOf(ids), Image(k)) = IF k \in ids THEN 1 ELSE 0
<1>1. BagToSet(ImagesOf(ids)) = {Image(j) : j \in ids}
  BY ImagesFacts DEF Image
<1>2. Image(k) \in BagToSet(ImagesOf(ids)) <=> k \in ids
  BY <1>1 DEF Image
<1>3. \A i \in BagToSet(ImagesOf(ids)) : ImagesOf(ids)[i] = 1
  BY DEF ImagesOf, SetToBag, BagToSet
<1> QED
  BY <1>2, <1>3 DEF Points

LEMMA PointsAdd ==
  ASSUME NEW B, NEW C, IsABag(B), IsABag(C), NEW i
  PROVE  /\ Points(B (+) C, i) = Points(B, i) + Points(C, i)
         /\ Points(B, i) \in Nat
<1>1. DOMAIN (B (+) C) = DOMAIN B \cup DOMAIN C
  BY DEF (+)
<1>2. /\ i \in DOMAIN B => B[i] \in Nat
      /\ i \in DOMAIN C => C[i] \in Nat
  BY DEF IsABag
<1>3. i \in DOMAIN B \cup DOMAIN C =>
        (B (+) C)[i] = (IF i \in DOMAIN B THEN B[i] ELSE 0) + (IF i \in DOMAIN C THEN C[i] ELSE 0)
  BY DEF (+)
<1>4. /\ BagToSet(B) = DOMAIN B /\ BagToSet(C) = DOMAIN C
      /\ BagToSet(B (+) C) = DOMAIN (B (+) C)
  BY DEF BagToSet
<1> QED
  BY <1>1, <1>2, <1>3, <1>4 DEF Points

LEMMA FiniteScore ==
  ASSUME NEW row, NEW r \in Records, NEW S \in SUBSET r.issns
  PROVE  /\ IsFiniteSet(row.issns \cap S) /\ Cardinality(row.issns \cap S) \in Nat
         /\ Score(row, r) \in Nat
<1>1. IsFiniteSet(r.issns)
  BY JournalAssumption
<1>2. /\ IsFiniteSet(row.issns \cap S) /\ Cardinality(row.issns \cap S) \in Nat
      /\ Cardinality(row.issns \cap r.issns) \in Nat
  BY <1>1, FS_Subset, FS_CardinalityType
<1> QED
  BY <1>2 DEF Score

LEMMA BestIsBest ==
  ASSUME TypeOK, NEW w \in Workers, WorkerInv(w), RankInv(w), loads = 0, Searched(w),
         NEW i \in Best(hits[w]), NEW k \in Present
  PROVE  Score(journals[k], record[w]) <= Score(i.row, record[w])
<1>1. i \in BagToSet(hits[w]) /\ i = Image(i.id) /\ i.id \in Present
  BY DEF Best, RankInv, WorkerInv, HitsInv, StillSo
<1>2. record[w] \in Records /\ stage[w] = "searchIssns" /\ todo[w] = {}
  BY DEF TypeOK, Searched
<1>3. \A j \in Present : ScoreSoFar(journals[j], w) = Score(journals[j], record[w])
  BY <1>2 DEF ScoreSoFar, Score
<1>4. \A j \in Present : Points(hits[w], Image(j)) = Score(journals[j], record[w])
  BY <1>2, <1>3 DEF RankInv
<1>5. i.row = journals[i.id]
  BY <1>1 DEF Image
<1>6. hits[w][i] = Score(i.row, record[w])
  BY <1>1, <1>4, <1>5 DEF Points
<1>7. Score(i.row, record[w]) \in Nat
  BY <1>2, FiniteScore
<1>8. CASE Image(k) \in BagToSet(hits[w])
  <2>1. hits[w][Image(k)] <= hits[w][i]
    BY <1>8 DEF Best
  <2>2. hits[w][Image(k)] = Score(journals[k], record[w])
    BY <1>4, <1>8 DEF Points
  <2> QED
    BY <1>6, <2>1, <2>2
<1>9. CASE Image(k) \notin BagToSet(hits[w])
  <2>1. Score(journals[k], record[w]) = 0
    BY <1>4, <1>9 DEF Points
  <2> QED
    BY <1>7, <2>1
<1> QED
  BY <1>8, <1>9

LEMMA RankStep ==
  ASSUME TypeOK, AreFunctions, NEW w \in Workers, WorkerInv(w), RankInv(w),
         Begin(w) \/ Step(w) \/ Fail(w)
  PROVE  RankInv(w)'
<1>0. DOMAIN stage = Workers /\ journals \in [Ids -> Journals \cup {None}]
  BY DEF TypeOK
<1>l. loads' = loads
  BY DEF Begin, Step, Fail, Retrieve, SearchName, SearchIssn, Match, NoMatch, Create,
         AnswerCreated, Update, bounds
<1>e. ASSUME BagToSet(hits'[w]) = {}, stage'[w] # "searchIssns"
      PROVE  RankInv(w)'
  BY <1>e DEF RankInv
<1>1. ASSUME NEW r, Answer(w, r)
      PROVE  RankInv(w)'
  <2>1. stage'[w] = "idle" /\ hits'[w] = EmptyBag
    BY <1>0, <1>1 DEF AreFunctions, Answer
  <2> QED
    BY <1>e, <2>1, BagFacts
<1>2. CASE Begin(w) /\ ~\E r : Answer(w, r)
  <2>1. stage'[w] = "retrieve" /\ hits'[w] = EmptyBag
    BY <1>0, <1>2 DEF Begin, WorkerInv, IdleInv
  <2> QED
    BY <1>e, <2>1, BagFacts
<1>3. CASE Retrieve(w) /\ ~\E r : Answer(w, r)
  <2>1. stage'[w] = "searchName" /\ hits'[w] = EmptyBag
    BY <1>0, <1>3 DEF Retrieve, WorkerInv, IdleInv
  <2> QED
    BY <1>e, <2>1, BagFacts
<1>4. CASE SearchName(w)
  <2> DEFINE named == {j \in Present : journals[j].name = record[w].name}
  <2>1. /\ stage'[w] = "searchIssns" /\ hits'[w] = ImagesOf(named)
        /\ todo'[w] = record[w].issns
        /\ UNCHANGED <<journals, record, created>>
    BY <1>0, <1>4 DEF SearchName, AreFunctions
  <2>2. \A i \in BagToSet(ImagesOf(named)) : i = Image(i.id)
    BY ImagesFacts DEF Image
  <2>3. ASSUME NEW k \in Present
        PROVE  Points(ImagesOf(named), Image(k))
                 = (IF journals[k].name = record[w].name THEN 1 ELSE 0)
                   + Cardinality(journals[k].issns \cap (record[w].issns \ record[w].issns))
    <3>1. Cardinality(journals[k].issns \cap (record[w].issns \ record[w].issns)) = 0
      BY FS_EmptySet
    <3>2. Points(ImagesOf(named), Image(k)) = IF k \in named THEN 1 ELSE 0
      BY PointsOfImages
    <3> QED
      BY <3>1, <3>2
  <2> QED
    BY <2>1, <2>2, <2>3 DEF RankInv, Present, Image, ScoreSoFar
<1>5. ASSUME NEW issn \in Issns, SearchIssn(w, issn)
      PROVE  RankInv(w)'
  <2> DEFINE having == {j \in Present : issn \in journals[j].issns}
  <2>1. /\ stage'[w] = "searchIssns" /\ hits'[w] = hits[w] (+) ImagesOf(having)
        /\ todo'[w] = todo[w] \ {issn} /\ issn \in todo[w] /\ stage[w] = "searchIssns"
        /\ UNCHANGED <<journals, record, created, stage>>
    BY <1>0, <1>5 DEF SearchIssn, AreFunctions
  <2>2. IsABag(ImagesOf(having)) /\ IsABag(hits[w]) /\ record[w] \in Records
    BY <2>1, ImagesFacts DEF TypeOK
  <2>3. \A i \in BagToSet(ImagesOf(having)) : i = Image(i.id)
    BY ImagesFacts DEF Image
  <2>4. BagToSet(hits'[w]) = BagToSet(hits[w]) \cup BagToSet(ImagesOf(having))
    <3> HIDE DEF having
    <3> QED
      BY <2>1, <2>2, BagUnionFacts
  <2>5. ASSUME NEW k \in Present, loads = 0
        PROVE  Points(hits[w] (+) ImagesOf(having), Image(k))
                 = (IF journals[k].name = record[w].name THEN 1 ELSE 0)
                   + Cardinality(journals[k].issns \cap (record[w].issns \ (todo[w] \ {issn})))
    <3> DEFINE S == journals[k].issns \cap (record[w].issns \ todo[w])
               T == journals[k].issns \cap (record[w].issns \ (todo[w] \ {issn}))
    <3>1. Points(hits[w], Image(k)) = (IF journals[k].name = record[w].name THEN 1 ELSE 0)
                                       + Cardinality(S)
      BY <2>1, <2>5 DEF RankInv, ScoreSoFar
    <3>2. Points(ImagesOf(having), Image(k)) = IF issn \in journals[k].issns THEN 1 ELSE 0
      BY PointsOfImages
    <3>3. Points(hits[w] (+) ImagesOf(having), Image(k))
            = Points(hits[w], Image(k)) + Points(ImagesOf(having), Image(k))
      <4> HIDE DEF having
      <4> QED
        BY <2>2, PointsAdd
    <3>4. IsFiniteSet(S) /\ Cardinality(S) \in Nat
      <4>1. record[w].issns \ todo[w] \in SUBSET record[w].issns
        OBVIOUS
      <4> QED
        BY <2>2, <4>1, FiniteScore
    <3>5. issn \in record[w].issns /\ issn \notin S
      BY <2>1 DEF WorkerInv, TodoInv
    <3>6. Cardinality(T) = Cardinality(S) + IF issn \in journals[k].issns THEN 1 ELSE 0
      <4>1. CASE issn \in journals[k].issns
        <5>1. \A x : x \in T <=> (x \in S \/ x = issn)
          BY <3>5, <4>1
        <5>1a. T = S \cup {issn}
          BY <5>1
        <5>2. Cardinality(S \cup {issn}) = Cardinality(S) + 1
          BY <3>4, <3>5, FS_AddElement
        <5> QED
          BY <4>1, <5>1a, <5>2
      <4>2. CASE issn \notin journals[k].issns
        <5>1. T = S
          BY <4>2
        <5> HIDE DEF S, T, having
        <5> QED
          BY <3>4, <4>2, <5>1
      <4> QED
        BY <4>1, <4>2
    <3> HIDE DEF S, T, having
    <3>7. Points(hits[w] (+) ImagesOf(having), Image(k))
            = (IF journals[k].name = record[w].name THEN 1 ELSE 0) + Cardinality(T)
      BY <3>1, <3>2, <3>3, <3>4, <3>6
    <3> QED
      BY <3>7 DEF T, having
  <2>6. ASSUME loads = 0
        PROVE  \A i \in BagToSet(hits'[w]) : i = Image(i.id)
    BY <2>3, <2>4, <2>6 DEF RankInv
  <2> HIDE DEF having
  <2> QED
    BY <1>l, <2>1, <2>5, <2>6 DEF RankInv, Present, Image, ScoreSoFar
<1>6. CASE Match(w)
  <2>1. PICK i \in Best(hits[w]) : hits' = [hits EXCEPT ![w] = SetToBag({i})]
    BY <1>6 DEF Match
  <2>2. /\ stage'[w] = "update" /\ BagToSet(hits'[w]) = {i} /\ i \in BagToSet(hits[w])
        /\ Searched(w) /\ UNCHANGED <<journals, record, created>>
    BY <1>0, <1>6, <2>1, BagFacts DEF Match, AreFunctions, Best
  <2>3. loads = 0 => \A k \in Present : Score(journals[k], record[w]) <= Score(i.row, record[w])
    BY <2>2, BestIsBest
  <2> QED
    BY <1>l, <2>2, <2>3 DEF RankInv, Present, Image
<1>7. CASE NoMatch(w) /\ ~\E r : Answer(w, r)
  <2>1. stage'[w] = "create" /\ hits'[w] = EmptyBag
    BY <1>0, <1>7 DEF NoMatch
  <2> QED
    BY <1>e, <2>1, BagFacts
<1>8. CASE Create(w)
  <2>1. stage'[w] = "searchName" /\ hits'[w] = EmptyBag
    BY <1>0, <1>8 DEF Create, TypeOK
  <2> QED
    BY <1>e, <2>1, BagFacts
<1>9. CASE AnswerCreated(w)
  BY <1>1, <1>9 DEF AnswerCreated
<1>10. CASE Update(w)
  BY <1>1, <1>10 DEF Update
<1>11. CASE Fail(w)
  BY <1>1, <1>11 DEF Fail
<1> QED
  BY <1>1, <1>2, <1>3, <1>4, <1>5, <1>6, <1>7, <1>8, <1>9, <1>10, <1>11 DEF Step

LEMMA RankInvariant == Alone => (Spec => [](IInv /\ \A w \in Workers : RankInv(w)))
<1> SUFFICES ASSUME Alone
             PROVE  Spec => [](IInv /\ \A w \in Workers : RankInv(w))
  OBVIOUS
<1> DEFINE Ranked == \A w \in Workers : RankInv(w)
<1>1. Init => Ranked
  <2> SUFFICES ASSUME Init, NEW w \in Workers
               PROVE  RankInv(w)
    OBVIOUS
  <2>1. stage[w] = "idle" /\ BagToSet(hits[w]) = {}
    BY BagFacts DEF Init
  <2> QED
    BY <2>1 DEF RankInv
<1>2. IInv /\ Ranked /\ [Next]_vars => Ranked'
  <2> SUFFICES ASSUME IInv, Ranked, [Next]_vars, NEW w \in Workers
               PROVE  RankInv(w)'
    OBVIOUS
  <2>1. CASE UNCHANGED vars
    BY <2>1 DEF RankInv, Points, Image, ScoreSoFar, Present, vars, workerVars, bounds
  <2>2. ASSUME NEW v \in Workers, Begin(v) \/ Step(v) \/ Fail(v)
        PROVE  RankInv(w)'
    <3>1. v = w
      BY DEF Alone
    <3> QED
      BY <2>2, <3>1, RankStep DEF IInv
  <2>3. ASSUME NEW j \in Ids, JournalLoader(j)
        PROVE  RankInv(w)'
    <3>1. loads' # 0
      BY <2>3, JournalAssumption DEF IInv, TypeOK, JournalLoader
    <3> QED
      BY <3>1 DEF RankInv
  <2> QED
    BY <2>1, <2>2, <2>3 DEF Next
<1> HIDE DEF Ranked
<1>3. Spec => [](IInv /\ Ranked)
  BY <1>1, <1>2, AloneInvariant, PTL DEF Spec
<1> QED
  BY <1>3 DEF Ranked

LEMMA BestStep ==
  ASSUME IInv, [Next]_vars, Alone, NEW w \in Workers, RankInv(w),
         NEW j \in Ids, Answered(w, j), loads = 0, NEW k \in Present
  PROVE  Score(journals[k], record[w]) <= Score(journals[j], record[w])
<1>0. DOMAIN reply = Workers /\ reply'[w] = j
  BY DEF IInv, TypeOK, Answered
<1>1. ASSUME Update(w)
      PROVE  Score(journals[k], record[w]) <= Score(journals[j], record[w])
  <2>1. PICK i \in BagToSet(hits[w]) : Answer(w, i.id)
    BY <1>1, UpdateStep
  <2>2. j = i.id /\ stage[w] = "update"
    BY <1>0, <1>1, <2>1 DEF Answer, Update
  <2>3. i.row = journals[j]
    BY <2>2 DEF RankInv, Image
  <2> QED
    BY <2>2, <2>3 DEF RankInv
<1>2. ASSUME NEW i \in Best(hits[w]), AnswerCreated(w), j = i.id
      PROVE  Score(journals[k], record[w]) <= Score(journals[j], record[w])
  <2>1. i.row = journals[j]
    BY <1>2 DEF RankInv, Image, Best
  <2>2. Searched(w)
    BY <1>2 DEF AnswerCreated
  <2> QED
    BY <2>1, <2>2, BestIsBest DEF IInv
<1> QED
  BY <1>1, <1>2, AnswerSteps

(* Resolving one DOI at a time, a request is answered with a journal no    *)
(* other matches better, if the loader does not change journals under it.  *)
THEOREM BestMatch == Alone => (Spec => ResolvedIsBestMatch)
<1> SUFFICES ASSUME Alone
             PROVE  Spec => ResolvedIsBestMatch
  OBVIOUS
<1>1. IInv /\ (\A w \in Workers : RankInv(w)) /\ [Next]_vars =>
        [\A w \in Workers, j \in Ids :
           Answered(w, j) /\ loads = 0 =>
             \A k \in Present :
               Score(journals[k], record[w]) <= Score(journals[j], record[w])]_vars
  BY BestStep
<1> QED
  BY <1>1, RankInvariant, PTL DEF Spec, ResolvedIsBestMatch
=============================================================================
