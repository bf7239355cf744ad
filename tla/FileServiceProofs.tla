------------------------- MODULE FileServiceProofs --------------------------
(***************************************************************************)
(* Proofs about FileService, for any number of handlers, files, users,     *)
(* requests, failures and restarts.  The argument: no request works on the *)
(* file of an upload in progress (Distinct), so an object is stored once   *)
(* and for one user; every handler at a given call knows what its earlier  *)
(* calls found (HandlerInv).  The last part is about one handler, which    *)
(* finds in the temporary directory only what it, a failed request or a    *)
(* restart has left there (SoloInv), so that the contracts of storeFile    *)
(* and getFile hold, and which leaves no more than those do (LeftInv).     *)
(***************************************************************************)
EXTENDS FileService, FiniteSetTheorems, TLAPS

RealOps ==
  [kind : {"upload", "get", "delete"}, file : Files, user : Users,
   existed : BOOLEAN, listing : SUBSET Entries]

BusyStages == UploadStages \cup LoadStages \cup DeleteStages

TypeInv ==
  /\ TypeOK
  /\ op \in [Handlers -> {NoOp} \cup RealOps]

BeforePut  == {"checkDir", "makeDir", "transfer", "put"}
BeforeLoad == {"contentType", "makeParent", "load"}
AfterLoad  == {"read", "startSweep", "sweep"}

HandlerInv(h) ==
  /\ stage[h] \in UploadStages => op[h].file \notin known
  /\ stage[h] \in BeforePut => ~InRepository(op[h].file)
  /\ stage[h] \in LoadStages => op[h].kind \in {"get", "delete"}
  /\ stage[h] \in DeleteStages => op[h].kind = "delete"
  /\ stage[h] \in BeforeLoad /\ InRepository(op[h].file) => op[h].existed
  /\ stage[h] \in AfterLoad => op[h].existed
  /\ stage[h] = "purge" /\ InRepository(op[h].file) =>
       op[h].user \in Backend \cup {stored[op[h].file]}

Distinct ==
  \A h, g \in Handlers :
    h # g /\ stage[h] \in UploadStages /\ stage[g] # "idle" => op[g].file # op[h].file

Unanswered == \A h \in Handlers : stage[h] # "idle" => reply[h] = "none"

IInv ==
  /\ TypeInv
  /\ \A h \in Handlers : HandlerInv(h)
  /\ Distinct
  /\ Unanswered

-----------------------------------------------------------------------------
(* Requests.                                                               *)
LEMMA OpsAre ==
  /\ Ops = {NoOp} \cup RealOps
  /\ \A o \in RealOps : /\ o # NoOp /\ o.file \in Files /\ o.user \in Users
                        /\ o.kind \in {"upload", "get", "delete"}
                        /\ o.existed \in BOOLEAN
BY DEF Ops, RealOps, NoOp

LEMMA OpChanges ==
  ASSUME NEW o \in RealOps
  PROVE  /\ \A l \in SUBSET Entries :
              LET n == [o EXCEPT !.listing = l] IN
              /\ n \in RealOps /\ n.file = o.file /\ n.kind = o.kind
              /\ n.user = o.user /\ n.existed = o.existed
         /\ LET n == [o EXCEPT !.existed = FALSE] IN
              /\ n \in RealOps /\ n.file = o.file /\ n.kind = o.kind
              /\ n.user = o.user /\ n.existed = FALSE
BY DEF RealOps

LEMMA Busy ==
  ASSUME TypeInv, NEW h \in Handlers
  PROVE  /\ stage[h] # "idle" => op[h] \in RealOps /\ op[h] # NoOp /\ stage[h] \in BusyStages
         /\ stage[h] = "idle" => op[h] = NoOp
BY OpsAre DEF TypeInv, TypeOK, BusyStages, UploadStages, LoadStages, DeleteStages

LEMMA AcceptedOp ==
  ASSUME NEW kind \in {"upload", "get", "delete"}, NEW f \in Files, NEW u \in Users,
         NEW e \in BOOLEAN
  PROVE  [kind |-> kind, file |-> f, user |-> u, existed |-> e, listing |-> {}] \in RealOps
BY DEF RealOps

LEMMA PresentAreEntries ==
  ASSUME TypeOK
  PROVE  PresentEntries \subseteq Entries
BY DEF TypeOK, PresentEntries, Entries

-----------------------------------------------------------------------------
(* Types.                                                                  *)

(* The part of TypeInv about handlers, and the part about the stores.      *)
HandlersTyped ==
  /\ stage \in [Handlers -> {"idle"} \cup BusyStages]
  /\ reply \in [Handlers -> Replies]
  /\ op \in [Handlers -> {NoOp} \cup RealOps]
  /\ \A h \in Handlers : stage[h] = "idle" <=> op[h] = NoOp

StoresTyped ==
  /\ stored \in [Files -> Users \cup {Nobody}]
  /\ tempDir \in BOOLEAN
  /\ staged \subseteq Files /\ parents \subseteq Files
  /\ loads \subseteq (Files \X Handlers)
  /\ known \subseteq Files
  /\ ~tempDir => staged = {} /\ parents = {} /\ loads = {}

BoundsTyped ==
  requests \in 0 .. MaxRequests /\ crashes \in 0 .. MaxCrashes /\ faults \in 0 .. MaxFaults

LEMMA TypeParts == TypeInv <=> HandlersTyped /\ StoresTyped /\ BoundsTyped
BY DEF TypeInv, TypeOK, HandlersTyped, StoresTyped, BoundsTyped, BusyStages,
       UploadStages, LoadStages, DeleteStages

LEMMA TypePartsNext == (HandlersTyped /\ StoresTyped /\ BoundsTyped)' => TypeInv'
BY DEF TypeInv, TypeOK, HandlersTyped, StoresTyped, BoundsTyped, BusyStages,
       UploadStages, LoadStages, DeleteStages

(* What a failing call is answered with.                                   *)
FailureAnswers == {"error", "notFound", "forbidden", "badRequest"}

LEMMA FailAnswers ==
  ASSUME NEW h \in Handlers, Fail(h)
  PROVE  /\ \E r \in FailureAnswers : Answer(h, r)
         /\ stage[h] # "idle" /\ faults' = faults + 1 /\ faults < MaxFaults
         /\ UNCHANGED <<stored, tempDir, staged, parents, loads, known, requests, crashes>>
<1>1. FailureAnswer(stage[h]) \in FailureAnswers
  BY DEF FailureAnswer, FailureAnswers
<1> QED
  BY <1>1 DEF Fail, temp

LEMMA GotoTyped ==
  ASSUME HandlersTyped, NEW h \in Handlers, stage[h] # "idle", NEW s \in BusyStages,
         Goto(h, s)
  PROVE  HandlersTyped'
BY OpsAre DEF Goto, HandlersTyped, BusyStages, UploadStages, LoadStages, DeleteStages

LEMMA AnswerTyped ==
  ASSUME HandlersTyped, NEW h \in Handlers, NEW r \in Replies, Answer(h, r)
  PROVE  HandlersTyped'
BY DEF Answer, HandlersTyped

LEMMA AcceptTyped ==
  ASSUME HandlersTyped, BoundsTyped, StoresTyped, NEW h \in Handlers,
         NEW kind \in {"upload", "get", "delete"},
         NEW f \in Files, NEW u \in Users, NEW s \in BusyStages, Accept(h, kind, f, u, s)
  PROVE  HandlersTyped' /\ BoundsTyped' /\ StoresTyped'
<1> DEFINE o == [kind |-> kind, file |-> f, user |-> u,
                 existed |-> InRepository(f), listing |-> {}]
<1>1. o \in RealOps /\ o # NoOp
  BY AcceptedOp, OpsAre DEF InRepository
<1>2. s # "idle"
  BY DEF BusyStages, UploadStages, LoadStages, DeleteStages
<1>3. /\ stage' = [stage EXCEPT ![h] = s] /\ reply' = [reply EXCEPT ![h] = "none"]
      /\ op' = [op EXCEPT ![h] = o]
      /\ requests < MaxRequests /\ requests' = requests + 1 /\ UNCHANGED <<crashes, faults>>
      /\ UNCHANGED <<stored, tempDir, staged, parents, loads, known>>
  BY DEF Accept, temp
<1> HIDE DEF o
<1>4. HandlersTyped'
  BY <1>1, <1>2, <1>3 DEF HandlersTyped, Replies
<1>5. BoundsTyped'
  BY <1>3, BoundsAssumption DEF BoundsTyped
<1> QED
  BY <1>3, <1>4, <1>5 DEF StoresTyped

LEMMA StepTyped ==
  ASSUME TypeInv, NEW h \in Handlers, Step(h)
  PROVE  TypeInv'
<1>1. HandlersTyped /\ StoresTyped /\ BoundsTyped /\ TypeOK
  BY TypeParts DEF TypeInv
<1>2. stage[h] # "idle" /\ op[h] \in RealOps /\ op[h].file \in Files /\ op[h].user \in Users
  <2>1. stage[h] # "idle"
    BY DEF Step, CheckDir, MakeDir, Transfer, PutObject, Unstage, ContentType, MakeParent,
           MakeParentFails, LoadObject, ReadBytes, StartSweep, SweepFails, SweepEnds,
           SweepEntry, Authorize, PurgeObject
  <2> QED
    BY <2>1, Busy, OpsAre
<1>3. BoundsTyped'
  BY <1>1 DEF BoundsTyped, bounds, Step, CheckDir, MakeDir, Transfer, PutObject, Unstage,
         ContentType, MakeParent, MakeParentFails, LoadObject, ReadBytes, StartSweep,
         SweepFails, SweepEnds, SweepEntry, Authorize, PurgeObject
<1>4. StoresTyped'
  <2>1. CASE MakeDir(h) \/ Transfer(h) \/ PutObject(h) \/ Unstage(h)
    BY <1>1, <1>2, <2>1 DEF StoresTyped, MakeDir, Transfer, PutObject, Unstage, temp
  <2>2. CASE MakeParent(h) \/ LoadObject(h) \/ SweepEnds(h)
    <3>1. CASE MakeParent(h)
      BY <1>1, <1>2, <3>1 DEF StoresTyped, MakeParent
    <3>2. CASE LoadObject(h)
      BY <1>1, <1>2, <3>2 DEF StoresTyped, LoadObject
    <3>3. CASE SweepEnds(h)
      <4>1. staged = {} /\ parents = {} /\ loads = {}
        <5>1. /\ \A f \in staged : [kind |-> "staged", file |-> f] \in PresentEntries
              /\ \A f \in parents : [kind |-> "parent", file |-> f] \in PresentEntries
              /\ \A l \in loads :
                   [kind |-> "load", file |-> l[1], handler |-> l[2]] \in PresentEntries
          BY DEF PresentEntries
        <5> QED
          BY <3>3, <5>1 DEF SweepEnds
      <4> QED
        BY <1>1, <3>3, <4>1 DEF StoresTyped, SweepEnds
    <3> QED
      BY <2>2, <3>1, <3>2, <3>3
  <2>3. CASE \E e \in PresentEntries : SweepEntry(h, e)
    BY <1>1, <2>3 DEF StoresTyped, SweepEntry
  <2>4. CASE PurgeObject(h)
    BY <1>1, <1>2, <2>4 DEF StoresTyped, PurgeObject, temp
  <2>5. CASE \/ CheckDir(h) \/ ContentType(h) \/ MakeParentFails(h) \/ ReadBytes(h)
             \/ StartSweep(h) \/ SweepFails(h) \/ Authorize(h)
    BY <1>1, <2>5 DEF StoresTyped, CheckDir, ContentType, MakeParentFails, ReadBytes,
           StartSweep, SweepFails, Authorize, temp
  <2> QED
    BY <2>1, <2>2, <2>3, <2>4, <2>5 DEF Step
<1>5. HandlersTyped'
  <2>1. /\ {"makeDir", "transfer", "put", "unstage"} \subseteq BusyStages
        /\ {"makeParent", "load", "read", "startSweep", "sweep"} \subseteq BusyStages
        /\ {"authorize", "purge"} \subseteq BusyStages
        /\ {"created", "served", "deleted", "forbidden", "notFound", "error"} \subseteq Replies
    BY DEF BusyStages, UploadStages, LoadStages, DeleteStages, Replies
  <2>2. CASE \/ CheckDir(h) \/ MakeDir(h) \/ Transfer(h) \/ PutObject(h) \/ Unstage(h)
             \/ ContentType(h) \/ MakeParent(h) \/ MakeParentFails(h) \/ LoadObject(h)
             \/ ReadBytes(h) \/ SweepFails(h) \/ SweepEnds(h) \/ Authorize(h)
    <3>1. \/ \E s \in BusyStages : Goto(h, s)
          \/ \E r \in Replies : Answer(h, r)
      BY <2>1, <2>2 DEF CheckDir, MakeDir, Transfer, PutObject, Unstage, ContentType,
             MakeParent, MakeParentFails, LoadObject, ReadBytes, SweepFails, SweepEnds,
             Loaded, Authorize
    <3> QED
      BY <1>1, <1>2, <3>1, GotoTyped, AnswerTyped
  <2>3. CASE StartSweep(h)
    <3>1. CASE tempDir
      <4> DEFINE n == [op[h] EXCEPT !.listing = PresentEntries]
      <4>1. n \in RealOps /\ n # NoOp
        BY <1>1, <1>2, PresentAreEntries, OpChanges, OpsAre
      <4>2. /\ op' = [op EXCEPT ![h] = n] /\ stage' = [stage EXCEPT ![h] = "sweep"]
            /\ UNCHANGED reply
        BY <2>3, <3>1 DEF StartSweep
      <4> HIDE DEF n
      <4> QED
        BY <1>1, <2>1, <4>1, <4>2, OpsAre DEF HandlersTyped, BusyStages, UploadStages,
           LoadStages, DeleteStages
    <3>2. CASE ~tempDir
      <4>1. Goto(h, "authorize") \/ Answer(h, "served")
        BY <2>3, <3>2 DEF StartSweep, Loaded
      <4> QED
        BY <1>1, <1>2, <2>1, <4>1, GotoTyped, AnswerTyped
    <3> QED
      BY <3>1, <3>2
  <2>4. CASE \E e \in PresentEntries : SweepEntry(h, e)
    <3>1. PICK e \in PresentEntries : SweepEntry(h, e)
      BY <2>4
    <3> DEFINE n == [op[h] EXCEPT !.listing = op[h].listing \ {e}]
    <3>2. n \in RealOps /\ n # NoOp
      <4>1. op[h].listing \ {e} \in SUBSET Entries
        BY <1>2 DEF RealOps
      <4> QED
        BY <1>2, <4>1, OpChanges, OpsAre
    <3>3. op' = [op EXCEPT ![h] = n] /\ UNCHANGED <<stage, reply>>
      BY <1>1, <3>1 DEF SweepEntry, HandlersTyped
    <3> HIDE DEF n
    <3> QED
      BY <1>1, <1>2, <3>2, <3>3 DEF HandlersTyped
  <2>5. CASE PurgeObject(h)
    <3> DEFINE n(g) == IF g = h THEN NoOp
                       ELSE IF NotYetLoaded(g, op[h].file) THEN [op[g] EXCEPT !.existed = FALSE]
                       ELSE op[g]
    <3>1. \A g \in Handlers : stage[g] # "idle" => op[g] \in RealOps
      BY Busy
    <3>2. \A g \in Handlers : NotYetLoaded(g, op[h].file) => stage[g] # "idle"
      BY DEF NotYetLoaded
    <3>3. \A g \in Handlers :
            /\ n(g) \in {NoOp} \cup RealOps
            /\ g # h => (stage[g] = "idle" <=> n(g) = NoOp)
      BY <1>1, <3>1, <3>2, OpChanges, OpsAre DEF HandlersTyped
    <3>4. /\ op' = [g \in Handlers |-> n(g)] /\ stage' = [stage EXCEPT ![h] = "idle"]
          /\ reply' = [reply EXCEPT ![h] = "deleted"]
      BY <2>5 DEF PurgeObject
    <3>5. n(h) = NoOp
      OBVIOUS
    <3> HIDE DEF n
    <3> QED
      BY <1>1, <2>1, <3>3, <3>4, <3>5 DEF HandlersTyped
  <2> QED
    BY <2>2, <2>3, <2>4, <2>5 DEF Step
<1> QED
  BY <1>3, <1>4, <1>5, TypePartsNext

LEMMA TypeStep ==
  ASSUME TypeInv, [Next]_vars
  PROVE  TypeInv'
<1>0. HandlersTyped /\ StoresTyped /\ BoundsTyped /\ TypeOK
  BY TypeParts DEF TypeInv
<1>1. ASSUME NEW h \in Handlers, Begin(h)
      PROVE  TypeInv'
  <2>1. CASE RefuseEmpty(h)
    <3>1. HandlersTyped'
      BY <1>0, <2>1, AnswerTyped DEF RefuseEmpty, Replies
    <3>2. BoundsTyped' /\ StoresTyped'
      BY <1>0, <2>1, BoundsAssumption DEF RefuseEmpty, BoundsTyped, StoresTyped, temp
    <3> QED
      BY <3>1, <3>2, TypePartsNext
  <2>2. CASE \E f \in Files, u \in Users :
               BeginUpload(h, f, u) \/ BeginGet(h, f, u) \/ BeginDelete(h, f, u)
    <3>1. PICK f \in Files, u \in Users :
            BeginUpload(h, f, u) \/ BeginGet(h, f, u) \/ BeginDelete(h, f, u)
      BY <2>2
    <3>2. {"checkDir", "contentType", "makeParent"} \subseteq BusyStages
      BY DEF BusyStages, UploadStages, LoadStages
    <3>3. HandlersTyped' /\ BoundsTyped' /\ StoresTyped'
      BY <1>0, <3>1, <3>2, AcceptTyped DEF BeginUpload, BeginGet, BeginDelete
    <3> QED
      BY <3>3, TypePartsNext
  <2> QED
    BY <1>1, <2>1, <2>2 DEF Begin
<1>2. ASSUME NEW h \in Handlers, Step(h)
      PROVE  TypeInv'
  BY <1>2, StepTyped
<1>5. ASSUME NEW h \in Handlers, Fail(h)
      PROVE  TypeInv'
  <2>1. HandlersTyped'
    BY <1>0, <1>5, FailAnswers, AnswerTyped DEF FailureAnswers, Replies
  <2>2. BoundsTyped' /\ StoresTyped'
    BY <1>0, <1>5, FailAnswers, BoundsAssumption DEF BoundsTyped, StoresTyped
  <2> QED
    BY <2>1, <2>2, TypePartsNext
<1>3. CASE Crash
  <2>1. HandlersTyped' /\ StoresTyped' /\ BoundsTyped'
    BY <1>0, <1>3, BoundsAssumption DEF Crash, HandlersTyped, StoresTyped, BoundsTyped, temp
  <2> QED
    BY <2>1, TypePartsNext
<1>4. CASE UNCHANGED vars
  <2>1. HandlersTyped' /\ StoresTyped' /\ BoundsTyped'
    BY <1>0, <1>4 DEF vars, temp, bounds, HandlersTyped, StoresTyped, BoundsTyped
  <2> QED
    BY <2>1, TypePartsNext
<1> QED
  BY <1>1, <1>2, <1>3, <1>4, <1>5 DEF Next

-----------------------------------------------------------------------------
(* What handlers know.                                                     *)

(* Another handler's step stores and makes known at most its own upload.   *)
LEMMA OtherHandler ==
  ASSUME NEW h \in Handlers, NEW g \in Handlers \ {h}, Distinct, TypeInv, HandlerInv(g),
         stage'[g] = stage[g], op'[g] = op[g],
         \/ UNCHANGED <<stored, known>>
         \/ /\ stage[h] \in UploadStages
            /\ known' \subseteq known \cup {op[h].file}
            /\ \A f \in Files : f # op[h].file => stored'[f] = stored[f]
  PROVE  HandlerInv(g)'
<1>1. CASE stage[g] = "idle"
  BY <1>1 DEF HandlerInv, UploadStages, LoadStages, DeleteStages, BeforePut, BeforeLoad,
         AfterLoad
<1>2. CASE stage[g] # "idle"
  <2>1. op[g].file \in Files
    BY <1>2, Busy, OpsAre
  <2>2. stored'[op[g].file] = stored[op[g].file] /\ (op[g].file \in known' => op[g].file \in known)
    BY <1>2, <2>1 DEF Distinct
  <2> QED
    BY <2>2 DEF HandlerInv, InRepository
<1> QED
  BY <1>1, <1>2

LEMMA DistinctKept ==
  ASSUME Distinct,
         \A g \in Handlers :
           /\ stage'[g] # "idle" => stage[g] # "idle" /\ op'[g].file = op[g].file
           /\ stage'[g] \in UploadStages => stage[g] \in UploadStages
  PROVE  Distinct'
BY DEF Distinct, UploadStages

(* A step that ends a request or goes on to the next call.                 *)
LEMMA MoveKeeps ==
  ASSUME TypeInv, Distinct, NEW h \in Handlers, HandlerInv(h),
         \A g \in Handlers : HandlerInv(g),
         stage[h] # "idle", UNCHANGED <<stored, known>>,
         \/ \E r : Answer(h, r)
         \/ \E s : /\ Goto(h, s)
                   /\ s \in UploadStages => stage[h] \in UploadStages
                   /\ s \in BeforePut => stage[h] \in BeforePut
                   /\ s \in LoadStages => stage[h] \in LoadStages
                   /\ s \in DeleteStages => op[h].kind = "delete"
                   /\ s \in BeforeLoad => stage[h] \in BeforeLoad
                   /\ s \in AfterLoad => op[h].existed
                   /\ s = "purge" => op[h].user \in Backend \cup {stored[op[h].file]}
  PROVE  (\A g \in Handlers : HandlerInv(g)') /\ Distinct'
<1>0. stage \in [Handlers -> {"idle"} \cup BusyStages] /\ op \in [Handlers -> {NoOp} \cup RealOps]
  BY TypeParts DEF HandlersTyped
<1>1. \A g \in Handlers \ {h} : stage'[g] = stage[g] /\ op'[g] = op[g]
  BY <1>0 DEF Answer, Goto
<1>2. \A g \in Handlers \ {h} : HandlerInv(g)'
  BY <1>1, OtherHandler
<1>3. HandlerInv(h)' /\ (stage'[h] # "idle" => op'[h].file = op[h].file)
      /\ (stage'[h] \in UploadStages => stage[h] \in UploadStages)
  <2>1. CASE \E r : Answer(h, r)
    <3>1. stage'[h] = "idle"
      BY <1>0, <2>1 DEF Answer
    <3> QED
      BY <3>1 DEF HandlerInv, UploadStages, LoadStages, DeleteStages, BeforePut, BeforeLoad,
             AfterLoad
  <2>2. ASSUME NEW s, Goto(h, s),
               s \in UploadStages => stage[h] \in UploadStages,
               s \in BeforePut => stage[h] \in BeforePut,
               s \in LoadStages => stage[h] \in LoadStages,
               s \in DeleteStages => op[h].kind = "delete",
               s \in BeforeLoad => stage[h] \in BeforeLoad,
               s \in AfterLoad => op[h].existed,
               s = "purge" => op[h].user \in Backend \cup {stored[op[h].file]}
        PROVE  HandlerInv(h)' /\ op'[h].file = op[h].file
               /\ (stage'[h] \in UploadStages => stage[h] \in UploadStages)
    <3>1. stage'[h] = s /\ op' = op
      BY <1>0, <2>2 DEF Goto
    <3> QED
      BY <2>2, <3>1 DEF HandlerInv, InRepository
  <2> QED
    BY <2>1, <2>2
<1>4. Distinct'
  <2>1. \A g \in Handlers :
          /\ stage'[g] # "idle" => stage[g] # "idle" /\ op'[g].file = op[g].file
          /\ stage'[g] \in UploadStages => stage[g] \in UploadStages
    BY <1>1, <1>3
  <2> QED
    BY <2>1, DistinctKept
<1> QED
  BY <1>2, <1>3, <1>4

LEMMA KnowStep ==
  ASSUME TypeInv, Distinct, \A g \in Handlers : HandlerInv(g), NEW h \in Handlers, Step(h)
  PROVE  (\A g \in Handlers : HandlerInv(g)') /\ Distinct'
<1> USE DEF UploadStages, LoadStages, DeleteStages, BeforePut, BeforeLoad, AfterLoad
<1>0. /\ stage \in [Handlers -> {"idle"} \cup BusyStages]
      /\ op \in [Handlers -> {NoOp} \cup RealOps]
      /\ stored \in [Files -> Users \cup {Nobody}]
  BY TypeParts DEF HandlersTyped, StoresTyped
<1>1. stage[h] # "idle" /\ op[h] \in RealOps /\ op[h].file \in Files /\ op[h].user \in Users
  <2>1. stage[h] # "idle"
    BY DEF Step, CheckDir, MakeDir, Transfer, PutObject, Unstage, ContentType, MakeParent,
           MakeParentFails, LoadObject, ReadBytes, StartSweep, SweepFails, SweepEnds,
           SweepEntry, Authorize, PurgeObject
  <2> QED
    BY <2>1, Busy, OpsAre
<1>2. HandlerInv(h)
  OBVIOUS
<1>3. CASE CheckDir(h) \/ MakeDir(h) \/ Transfer(h)
  <2>1. UNCHANGED <<stored, known>> /\ stage[h] \in BeforePut
    BY <1>3 DEF CheckDir, MakeDir, Transfer
  <2>2. (\E r : Answer(h, r)) \/ (\E s \in {"makeDir", "transfer", "put"} : Goto(h, s))
    BY <1>3 DEF CheckDir, MakeDir, Transfer
  <2> QED
    BY <1>1, <2>1, <2>2, MoveKeeps
<1>4. CASE ContentType(h) \/ MakeParent(h) \/ MakeParentFails(h)
  <2>1. UNCHANGED <<stored, known>> /\ stage[h] \in BeforeLoad
    BY <1>4 DEF ContentType, MakeParent, MakeParentFails
  <2>2. (\E r : Answer(h, r)) \/ (\E s \in {"makeParent", "load"} : Goto(h, s))
    BY <1>4 DEF ContentType, MakeParent, MakeParentFails
  <2> QED
    BY <1>1, <2>1, <2>2, MoveKeeps
<1>5. CASE LoadObject(h)
  <2>1. UNCHANGED <<stored, known>> /\ stage[h] = "load"
    BY <1>5 DEF LoadObject
  <2>2. (\E r : Answer(h, r)) \/ (Goto(h, "read") /\ InRepository(op[h].file))
    BY <1>5 DEF LoadObject
  <2>3. InRepository(op[h].file) => op[h].existed
    BY <1>2, <2>1 DEF HandlerInv
  <2> QED
    BY <1>1, <2>1, <2>2, <2>3, MoveKeeps
<1>6. CASE ReadBytes(h) \/ SweepFails(h) \/ SweepEnds(h)
           \/ (StartSweep(h) /\ ~tempDir)
  <2>1. UNCHANGED <<stored, known>> /\ stage[h] \in AfterLoad
    BY <1>6 DEF ReadBytes, SweepFails, SweepEnds, StartSweep
  <2>2. \/ \E r : Answer(h, r)
        \/ Goto(h, "startSweep")
        \/ Goto(h, "authorize") /\ op[h].kind # "get"
    BY <1>6 DEF ReadBytes, SweepFails, SweepEnds, StartSweep, Loaded
  <2>3. op[h].kind \in {"get", "delete"} /\ op[h].existed
    BY <1>2, <2>1 DEF HandlerInv
  <2> QED
    BY <1>1, <2>1, <2>2, <2>3, MoveKeeps
<1>7. CASE Authorize(h)
  <2>1. UNCHANGED <<stored, known>> /\ stage[h] = "authorize"
    BY <1>7 DEF Authorize
  <2>2. (\E r : Answer(h, r)) \/ (Goto(h, "purge") /\ MayDelete(op[h].user, op[h].file))
    BY <1>7 DEF Authorize
  <2>3. MayDelete(op[h].user, op[h].file) => op[h].user \in Backend \cup {stored[op[h].file]}
    BY DEF MayDelete
  <2>4. op[h].kind = "delete"
    BY <1>2, <2>1 DEF HandlerInv
  <2> QED
    BY <1>1, <2>1, <2>2, <2>3, <2>4, MoveKeeps
<1>8. CASE (StartSweep(h) /\ tempDir) \/ \E e \in PresentEntries : SweepEntry(h, e)
  <2>1. /\ UNCHANGED <<stored, known>> /\ stage[h] \in {"startSweep", "sweep"}
        /\ stage'[h] = "sweep"
        /\ \A g \in Handlers \ {h} : stage'[g] = stage[g] /\ op'[g] = op[g]
        /\ \E l \in SUBSET Entries : op'[h] = [op[h] EXCEPT !.listing = l]
    <3>1. CASE StartSweep(h) /\ tempDir
      <4>1. PresentEntries \in SUBSET Entries
        BY PresentAreEntries DEF TypeInv
      <4>2. op' = [op EXCEPT ![h] = [op[h] EXCEPT !.listing = PresentEntries]]
        BY <3>1 DEF StartSweep
      <4>3. op'[h] = [op[h] EXCEPT !.listing = PresentEntries]
            /\ \A g \in Handlers \ {h} : op'[g] = op[g]
        BY <1>0, <4>2
      <4>4. UNCHANGED <<stored, known>> /\ stage[h] = "startSweep"
            /\ stage' = [stage EXCEPT ![h] = "sweep"]
        BY <3>1 DEF StartSweep
      <4> QED
        BY <1>0, <4>1, <4>3, <4>4
    <3>2. CASE \E e \in PresentEntries : SweepEntry(h, e)
      <4>1. PICK e \in PresentEntries : SweepEntry(h, e)
        BY <3>2
      <4>2. op[h].listing \ {e} \in SUBSET Entries
        BY <1>1 DEF RealOps
      <4>3. op' = [op EXCEPT ![h] = [op[h] EXCEPT !.listing = op[h].listing \ {e}]]
        BY <1>0, <4>1 DEF SweepEntry
      <4>4. op'[h] = [op[h] EXCEPT !.listing = op[h].listing \ {e}]
            /\ \A g \in Handlers \ {h} : op'[g] = op[g]
        BY <1>0, <4>3
      <4>5. UNCHANGED <<stored, known, stage>> /\ stage[h] = "sweep"
        BY <4>1 DEF SweepEntry
      <4> QED
        BY <4>2, <4>4, <4>5
    <3> QED
      BY <1>8, <3>1, <3>2
  <2>2. /\ op'[h].file = op[h].file /\ op'[h].kind = op[h].kind
        /\ op'[h].existed = op[h].existed
    BY <1>1, <2>1, OpChanges
  <2>3. HandlerInv(h)'
    BY <1>2, <2>1, <2>2 DEF HandlerInv, InRepository
  <2>4. \A g \in Handlers \ {h} : HandlerInv(g)'
    BY <2>1, OtherHandler
  <2>5. Distinct'
    BY <2>1, <2>2, DistinctKept
  <2> QED
    BY <2>3, <2>4, <2>5
<1>9. CASE PutObject(h)
  <2>1. CASE op[h].file \in staged
    <3>1. /\ stored' = [stored EXCEPT ![op[h].file] = op[h].user]
          /\ stage' = [stage EXCEPT ![h] = "unstage"] /\ UNCHANGED <<op, known>>
          /\ stage[h] = "put"
      BY <1>9, <2>1 DEF PutObject, Goto
    <3>2. /\ \A f \in Files : f # op[h].file => stored'[f] = stored[f]
          /\ stage'[h] = "unstage"
          /\ \A g \in Handlers \ {h} : stage'[g] = stage[g] /\ op'[g] = op[g]
      BY <1>0, <3>1
    <3>3. \A g \in Handlers \ {h} : HandlerInv(g)'
      BY <3>1, <3>2, OtherHandler
    <3>4. HandlerInv(h)'
      BY <1>2, <3>1, <3>2 DEF HandlerInv
    <3>5. Distinct'
      BY <3>1, <3>2, DistinctKept
    <3> QED
      BY <3>3, <3>4, <3>5
  <2>2. CASE op[h].file \notin staged
    <3>1. Answer(h, "error") /\ UNCHANGED <<stored, known>>
      BY <1>9, <2>2 DEF PutObject
    <3> QED
      BY <1>1, <3>1, MoveKeeps
  <2> QED
    BY <2>1, <2>2
<1>10. CASE Unstage(h)
  <2>1. /\ stage' = [stage EXCEPT ![h] = "idle"] /\ op' = [op EXCEPT ![h] = NoOp]
        /\ known' \subseteq known \cup {op[h].file} /\ UNCHANGED stored /\ stage[h] = "unstage"
    BY <1>10 DEF Unstage, Answer
  <2>2. stage'[h] = "idle" /\ \A g \in Handlers \ {h} : stage'[g] = stage[g] /\ op'[g] = op[g]
    BY <1>0, <2>1
  <2>3. \A g \in Handlers \ {h} : HandlerInv(g)'
    BY <2>1, <2>2, OtherHandler
  <2>4. HandlerInv(h)'
    BY <2>2 DEF HandlerInv
  <2>5. Distinct'
    BY <2>2, DistinctKept
  <2> QED
    BY <2>3, <2>4, <2>5
<1>11. CASE PurgeObject(h)
  <2>1. /\ stored' = [stored EXCEPT ![op[h].file] = Nobody] /\ UNCHANGED known
        /\ stage' = [stage EXCEPT ![h] = "idle"] /\ stage[h] = "purge"
        /\ op' = [g \in Handlers |->
              IF g = h THEN NoOp
              ELSE IF NotYetLoaded(g, op[h].file) THEN [op[g] EXCEPT !.existed = FALSE]
              ELSE op[g]]
    BY <1>11 DEF PurgeObject, temp
  <2>2. /\ stored'[op[h].file] = Nobody
        /\ \A f \in Files : stored'[f] # Nobody => stored'[f] = stored[f]
    BY <1>0, <1>1, <2>1
  <2>3. ASSUME NEW g \in Handlers \ {h}
        PROVE  /\ HandlerInv(g)' /\ stage'[g] = stage[g]
               /\ stage[g] # "idle" => op'[g].file = op[g].file
    <3>0. stage'[g] = stage[g]
      BY <1>0, <2>1
    <3>1. CASE stage[g] = "idle"
      BY <3>0, <3>1 DEF HandlerInv
    <3>2. CASE stage[g] # "idle" /\ NotYetLoaded(g, op[h].file)
      <4>1. op'[g] = [op[g] EXCEPT !.existed = FALSE] /\ op[g] \in RealOps
        BY <2>1, <3>2, Busy
      <4>2. /\ op'[g].file = op[h].file /\ op[g].file = op[h].file
            /\ op'[g].kind = op[g].kind /\ stage[g] \in BeforeLoad
        BY <3>2, <4>1, OpChanges DEF NotYetLoaded
      <4>3. op[g].kind \in {"get", "delete"}
        BY <4>2 DEF HandlerInv
      <4>4. stored'[op'[g].file] = Nobody
        BY <2>2, <4>2
      <4> QED
        BY <3>0, <4>2, <4>3, <4>4 DEF HandlerInv, InRepository
    <3>3. CASE stage[g] # "idle" /\ ~NotYetLoaded(g, op[h].file)
      <4>1. op'[g] = op[g] /\ op[g].file \in Files
        BY <2>1, <3>3, Busy, OpsAre
      <4>2. stored'[op'[g].file] # Nobody => stored'[op'[g].file] = stored[op[g].file]
        BY <2>2, <4>1
      <4>3. HandlerInv(g) /\ UNCHANGED known
        BY <2>1
      <4>4. stored'[op[g].file] = Nobody \/ stored'[op[g].file] = stored[op[g].file]
        BY <4>1, <4>2
      <4>5. HandlerInv(g)'
        BY <3>0, <4>1, <4>3, <4>4 DEF HandlerInv, InRepository
      <4> QED
        BY <3>0, <4>1, <4>5
    <3> QED
      BY <3>1, <3>2, <3>3
  <2>4. stage'[h] = "idle"
    BY <1>0, <2>1
  <2>5. HandlerInv(h)'
    BY <2>4 DEF HandlerInv
  <2>6. Distinct'
    BY <2>3, <2>4, DistinctKept
  <2> QED
    BY <2>3, <2>5, <2>6
<1> QED
  BY <1>3, <1>4, <1>5, <1>6, <1>7, <1>8, <1>9, <1>10, <1>11 DEF Step

LEMMA AcceptKeeps ==
  ASSUME TypeInv, Distinct, \A g \in Handlers : HandlerInv(g), NEW h \in Handlers,
         NEW f \in Files, NEW u \in Users,
         BeginUpload(h, f, u) \/ BeginGet(h, f, u) \/ BeginDelete(h, f, u)
  PROVE  (\A g \in Handlers : HandlerInv(g)') /\ Distinct'
<1> USE DEF UploadStages, LoadStages, DeleteStages, BeforePut, BeforeLoad, AfterLoad
<1>0. /\ stage \in [Handlers -> {"idle"} \cup BusyStages]
      /\ op \in [Handlers -> {NoOp} \cup RealOps]
  BY TypeParts DEF HandlersTyped
<1>1. PICK kind \in {"upload", "get", "delete"}, s \in {"checkDir", "contentType", "makeParent"} :
        /\ Accept(h, kind, f, u, s)
        /\ \/ kind = "upload" /\ s = "checkDir" /\ Fresh(f)
           \/ kind = "get" /\ s = "contentType" /\ f \in known
           \/ kind = "delete" /\ s = "makeParent" /\ f \in known
  BY DEF BeginUpload, BeginGet, BeginDelete
<1>2. /\ stage[h] = "idle" /\ stage' = [stage EXCEPT ![h] = s] /\ UNCHANGED <<stored, known>>
      /\ op' = [op EXCEPT ![h] = [kind |-> kind, file |-> f, user |-> u,
                                  existed |-> InRepository(f), listing |-> {}]]
  BY <1>1 DEF Accept
<1>3. /\ stage'[h] = s /\ op'[h].file = f /\ op'[h].kind = kind
      /\ op'[h].existed = InRepository(f)
      /\ \A g \in Handlers \ {h} : stage'[g] = stage[g] /\ op'[g] = op[g]
  BY <1>0, <1>2
<1>4. \A g \in Handlers \ {h} : HandlerInv(g)'
  BY <1>2, <1>3, OtherHandler
<1>5. HandlerInv(h)'
  <2>1. InRepository(op[h].file)' <=> InRepository(f)
    BY <1>2, <1>3 DEF InRepository
  <2>2. InRepository(f) => op'[h].existed
    BY <1>3, Zenon
  <2>3. CASE kind = "upload" /\ s = "checkDir" /\ Fresh(f)
    <3>1. f \notin known' /\ ~InRepository(op[h].file)'
      BY <1>2, <2>1, <2>3 DEF Fresh
    <3> QED
      BY <1>3, <2>3, <3>1 DEF HandlerInv
  <2>4. CASE kind \in {"get", "delete"} /\ s \in {"contentType", "makeParent"}
    <3>1. InRepository(op[h].file)' => op'[h].existed
      BY <2>1, <2>2
    <3> QED
      BY <1>3, <2>4, <3>1 DEF HandlerInv
  <2> QED
    BY <1>1, <2>3, <2>4
<1>6. Distinct'
  <2>1. ASSUME NEW g \in Handlers \ {h}, stage[g] # "idle", s \in UploadStages
        PROVE  op[g].file # f
    BY <1>1, <2>1 DEF Fresh
  <2>2. ASSUME NEW g \in Handlers \ {h}, stage[g] \in UploadStages
        PROVE  op[g].file # f
    BY <1>1, <2>2 DEF Fresh, HandlerInv
  <2> QED
    BY <1>3, <2>1, <2>2 DEF Distinct
<1> QED
  BY <1>4, <1>5, <1>6

LEMMA AllIdle ==
  ASSUME \A h \in Handlers : stage[h] = "idle"
  PROVE  (\A h \in Handlers : HandlerInv(h)) /\ Distinct /\ Unanswered
BY DEF HandlerInv, Distinct, Unanswered, UploadStages, LoadStages, DeleteStages, BeforePut,
       BeforeLoad, AfterLoad

LEMMA KnowNext ==
  ASSUME TypeInv, Distinct, \A g \in Handlers : HandlerInv(g), [Next]_vars
  PROVE  (\A g \in Handlers : HandlerInv(g)') /\ Distinct'
<1>1. ASSUME NEW h \in Handlers, RefuseEmpty(h)
      PROVE  (\A g \in Handlers : HandlerInv(g)') /\ Distinct'
  <2>0. stage \in [Handlers -> {"idle"} \cup BusyStages] /\ op \in [Handlers -> {NoOp} \cup RealOps]
    BY TypeParts DEF HandlersTyped
  <2>1. /\ UNCHANGED <<stored, known>> /\ stage'[h] = "idle"
        /\ \A g \in Handlers \ {h} : stage'[g] = stage[g] /\ op'[g] = op[g]
    BY <1>1, <2>0 DEF RefuseEmpty, Answer
  <2>2. \A g \in Handlers \ {h} : HandlerInv(g)'
    BY <2>1, OtherHandler
  <2>3. HandlerInv(h)'
    BY <2>1 DEF HandlerInv, UploadStages, LoadStages, DeleteStages, BeforePut, BeforeLoad,
           AfterLoad
  <2>4. Distinct'
    BY <2>1, DistinctKept DEF UploadStages
  <2> QED
    BY <2>2, <2>3, <2>4
<1>4. ASSUME NEW h \in Handlers, Fail(h)
      PROVE  (\A g \in Handlers : HandlerInv(g)') /\ Distinct'
  BY <1>4, FailAnswers, MoveKeeps
<1>2. CASE Crash
  BY <1>2 DEF Crash, HandlerInv, Distinct, UploadStages, LoadStages, DeleteStages, BeforePut,
         BeforeLoad, AfterLoad
<1>3. CASE UNCHANGED vars
  BY <1>3 DEF vars, HandlerInv, Distinct, InRepository
<1> QED
  BY <1>1, <1>2, <1>3, <1>4, AcceptKeeps, KnowStep DEF Next, Begin

-----------------------------------------------------------------------------
(* Answers, and staged files.                                              *)
LEMMA UnansweredNext ==
  ASSUME TypeInv, Unanswered, [Next]_vars
  PROVE  Unanswered'
<1>0. HandlersTyped
  BY TypeParts
<1>1. ASSUME NEW h \in Handlers,
             \/ \E r : Answer(h, r)
             \/ \E s : Goto(h, s) /\ stage[h] # "idle"
             \/ \E kind, f, u, s : Accept(h, kind, f, u, s)
      PROVE  Unanswered'
  BY <1>0, <1>1 DEF Answer, Goto, Accept, Unanswered, HandlersTyped
<1>2. ASSUME NEW h \in Handlers, Begin(h)
      PROVE  Unanswered'
  BY <1>1, <1>2 DEF Begin, RefuseEmpty, BeginUpload, BeginGet, BeginDelete
<1>3. ASSUME NEW h \in Handlers, Step(h)
      PROVE  Unanswered'
  <2>1. CASE \/ CheckDir(h) \/ MakeDir(h) \/ Transfer(h) \/ PutObject(h) \/ Unstage(h)
             \/ ContentType(h) \/ MakeParent(h) \/ MakeParentFails(h) \/ LoadObject(h)
             \/ ReadBytes(h) \/ SweepFails(h) \/ SweepEnds(h) \/ Authorize(h)
             \/ (StartSweep(h) /\ ~tempDir)
    <3>1. (\E r : Answer(h, r)) \/ (\E s : Goto(h, s) /\ stage[h] # "idle")
      BY <2>1 DEF CheckDir, MakeDir, Transfer, PutObject, Unstage, ContentType,
             MakeParent, MakeParentFails, LoadObject, ReadBytes, SweepFails, SweepEnds,
             Loaded, Authorize, StartSweep
    <3> QED
      BY <1>1, <3>1
  <2>2. CASE (StartSweep(h) /\ tempDir) \/ \E e \in PresentEntries : SweepEntry(h, e)
    <3>1. /\ UNCHANGED reply
          /\ \/ stage' = [stage EXCEPT ![h] = "sweep"]
             \/ stage' = stage
          /\ stage[h] # "idle"
      BY <2>2 DEF StartSweep, SweepEntry
    <3> QED
      BY <1>0, <3>1 DEF Unanswered, HandlersTyped
  <2>3. CASE PurgeObject(h)
    <3>1. /\ stage' = [stage EXCEPT ![h] = "idle"]
          /\ reply' = [reply EXCEPT ![h] = "deleted"]
      BY <2>3 DEF PurgeObject
    <3> QED
      BY <1>0, <3>1 DEF Unanswered, HandlersTyped
  <2> QED
    BY <1>3, <2>1, <2>2, <2>3 DEF Step
<1>4. CASE Crash
  BY <1>4 DEF Crash, Unanswered
<1>5. CASE UNCHANGED vars
  BY <1>5 DEF vars, Unanswered
<1>6. ASSUME NEW h \in Handlers, Fail(h)
      PROVE  Unanswered'
  BY <1>1, <1>6, FailAnswers
<1> QED
  BY <1>2, <1>3, <1>4, <1>5, <1>6 DEF Next

(* A staged file that no upload is working on after a step was such a file *)
(* before it, unless the step is a failure or a restart.                   *)
LEMMA StagedStep ==
  ASSUME TypeInv, [Next]_vars, UNCHANGED <<crashes, faults>>, NEW f \in staged', ~Uploading(f)'
  PROVE  f \in staged /\ ~Uploading(f)
<1> DEFINE Owner(h) == stage[h] \in {"put", "unstage"} /\ op[h].file = f
<1>0. HandlersTyped
  BY TypeParts
<1>n. \A h \in Handlers : ~Owner(h)'
  BY DEF Uploading
<1>3. ASSUME f \in staged, NEW g \in Handlers,
             \A h \in Handlers \ {g} : stage'[h] = stage[h] /\ op'[h] = op[h],
             Owner(g) => Owner(g)'
      PROVE  f \in staged /\ ~Uploading(f)
  <2>1. ASSUME NEW h \in Handlers
        PROVE  ~Owner(h)
    BY <1>3, <1>n
  <2> QED
    BY <1>3, <2>1 DEF Uploading
<1>4. ASSUME NEW g \in Handlers, Begin(g)
      PROVE  f \in staged /\ ~Uploading(f)
  <2>1. /\ stage[g] = "idle" /\ f \in staged
        /\ (\E x : stage' = [stage EXCEPT ![g] = x]) /\ (\E x : op' = [op EXCEPT ![g] = x])
    BY <1>4 DEF Begin, RefuseEmpty, BeginUpload, BeginGet, BeginDelete, Accept, Answer, temp
  <2>2. \A h \in Handlers \ {g} : stage'[h] = stage[h] /\ op'[h] = op[h]
    BY <1>0, <2>1 DEF HandlersTyped
  <2> QED
    BY <1>3, <2>1, <2>2
<1>5. ASSUME NEW g \in Handlers, Step(g)
      PROVE  f \in staged /\ ~Uploading(f)
  <2>1. CASE Transfer(g)
    <3>1. CASE tempDir
      <4>1. staged' = staged \cup {op[g].file} /\ Goto(g, "put") /\ stage[g] = "transfer"
        BY <2>1, <3>1 DEF Transfer
      <4>2. /\ stage'[g] = "put" /\ op' = op
            /\ \A h \in Handlers \ {g} : stage'[h] = stage[h] /\ op'[h] = op[h]
        BY <1>0, <4>1 DEF Goto, HandlersTyped
      <4>3. f # op[g].file
        BY <1>n, <4>2
      <4> QED
        BY <1>3, <4>1, <4>2, <4>3
    <3>2. CASE ~tempDir
      <4>1. f \in staged /\ Answer(g, "error") /\ stage[g] = "transfer"
        BY <2>1, <3>2 DEF Transfer
      <4>2. \A h \in Handlers \ {g} : stage'[h] = stage[h] /\ op'[h] = op[h]
        BY <1>0, <4>1 DEF Answer, HandlersTyped
      <4> QED
        BY <1>3, <4>1, <4>2
    <3> QED
      BY <3>1, <3>2
  <2>2. CASE PutObject(g)
    <3>1. f \in staged /\ stage[g] = "put" /\ (Goto(g, "unstage") \/
            (Answer(g, "error") /\ op[g].file \notin staged))
      BY <2>2 DEF PutObject, temp
    <3>2. \A h \in Handlers \ {g} : stage'[h] = stage[h] /\ op'[h] = op[h]
      BY <1>0, <3>1 DEF Answer, Goto, HandlersTyped
    <3>3. Owner(g) => Owner(g)'
      BY <1>0, <3>1 DEF Goto, HandlersTyped
    <3> QED
      BY <1>3, <3>1, <3>2, <3>3
  <2>3. CASE Unstage(g)
    <3>1. f \in staged /\ f # op[g].file /\ (\E r : Answer(g, r))
      BY <2>3 DEF Unstage
    <3>2. \A h \in Handlers \ {g} : stage'[h] = stage[h] /\ op'[h] = op[h]
      BY <1>0, <3>1 DEF Answer, HandlersTyped
    <3> QED
      BY <1>3, <3>1, <3>2
  <2>4. CASE PurgeObject(g)
    <3>1. /\ f \in staged /\ stage[g] = "purge" /\ stage' = [stage EXCEPT ![g] = "idle"]
          /\ op' = [h \in Handlers |->
              IF h = g THEN NoOp
              ELSE IF NotYetLoaded(h, op[g].file) THEN [op[h] EXCEPT !.existed = FALSE]
              ELSE op[h]]
      BY <2>4 DEF PurgeObject, temp
    <3>2. ASSUME NEW h \in Handlers, Owner(h)
          PROVE  FALSE
      <4>1. h # g /\ ~NotYetLoaded(h, op[g].file)
        BY <3>1, <3>2 DEF NotYetLoaded
      <4>2. op'[h] = op[h] /\ stage'[h] = stage[h]
        BY <1>0, <3>1, <4>1 DEF HandlersTyped
      <4> QED
        BY <1>n, <3>2, <4>2
    <3> QED
      BY <3>1, <3>2 DEF Uploading
  <2>5. CASE \E e \in PresentEntries : SweepEntry(g, e)
    <3>1. PICK e \in PresentEntries : SweepEntry(g, e)
      BY <2>5
    <3>2. /\ f \in staged /\ stage[g] = "sweep" /\ UNCHANGED stage
          /\ \E x : op' = [op EXCEPT ![g] = x]
      BY <3>1 DEF SweepEntry
    <3>3. \A h \in Handlers \ {g} : stage'[h] = stage[h] /\ op'[h] = op[h]
      BY <1>0, <3>2 DEF HandlersTyped
    <3> QED
      BY <1>3, <3>2, <3>3
  <2>6. CASE \/ CheckDir(g) \/ MakeDir(g) \/ ContentType(g) \/ MakeParent(g)
             \/ MakeParentFails(g) \/ LoadObject(g) \/ ReadBytes(g) \/ StartSweep(g)
             \/ SweepFails(g) \/ SweepEnds(g) \/ Authorize(g)
    <3>1. /\ f \in staged /\ stage[g] \notin {"put", "unstage"}
          /\ \E x : stage' = [stage EXCEPT ![g] = x]
          /\ op' = op \/ \E x : op' = [op EXCEPT ![g] = x]
      BY <2>6 DEF CheckDir, MakeDir, ContentType, MakeParent, MakeParentFails, LoadObject,
             ReadBytes, StartSweep, SweepFails, SweepEnds, Authorize, Loaded, Goto, Answer, temp
    <3>2. \A h \in Handlers \ {g} : stage'[h] = stage[h] /\ op'[h] = op[h]
      BY <1>0, <3>1 DEF HandlersTyped
    <3> QED
      BY <1>3, <3>1, <3>2
  <2> QED
    BY <1>5, <2>1, <2>2, <2>3, <2>4, <2>5, <2>6 DEF Step
<1>6. CASE UNCHANGED vars
  BY <1>6 DEF vars, temp, Uploading
<1>7. ~Crash /\ \A h \in Handlers : ~Fail(h)
  BY FailAnswers DEF Crash, TypeInv, TypeOK
<1> QED
  BY <1>4, <1>5, <1>6, <1>7 DEF Next

-----------------------------------------------------------------------------
(* The invariant and its consequences.                                     *)
LEMMA InitIInv == Init => IInv
<1> SUFFICES ASSUME Init
             PROVE  IInv
  OBVIOUS
<1>1. HandlersTyped /\ StoresTyped /\ BoundsTyped
  <2>1. HandlersTyped
    BY DEF Init, HandlersTyped, Replies
  <2>2. StoresTyped
    BY DEF Init, StoresTyped
  <2>3. BoundsTyped
    BY BoundsAssumption DEF Init, BoundsTyped
  <2> QED
    BY <2>1, <2>2, <2>3
<1>2. (\A h \in Handlers : HandlerInv(h)) /\ Distinct /\ Unanswered
  BY AllIdle DEF Init
<1> QED
  BY <1>1, <1>2, TypeParts DEF IInv

LEMMA IInvStep == IInv /\ [Next]_vars => IInv'
<1> SUFFICES ASSUME IInv, [Next]_vars
             PROVE  IInv'
  OBVIOUS
<1>1. TypeInv'
  BY TypeStep DEF IInv
<1>2. (\A h \in Handlers : HandlerInv(h)') /\ Distinct'
  BY KnowNext DEF IInv
<1>3. Unanswered'
  BY UnansweredNext DEF IInv
<1> QED
  BY <1>1, <1>2, <1>3 DEF IInv

LEMMA Invariance == Spec => []IInv
BY InitIInv, IInvStep, PTL DEF Spec

(* The stores and the handlers keep their types, and nothing is in a       *)
(* temporary directory that does not exist.                                *)
THEOREM TypeCorrect == Spec => []TypeOK
<1>1. IInv => TypeOK
  BY DEF IInv, TypeInv
<1> QED
  BY Invariance, <1>1, PTL

(* However many handlers there are, an upload's staged copy is left behind *)
(* only in the step in which a call of the upload fails of itself, or the  *)
(* service stops: what other requests do to the temporary directory leaves *)
(* none.                                                                   *)
THEOREM StagedIsInProgress == Spec => StagedOutlivesOnlyFailures
<1>1. IInv /\ [Next]_vars =>
        [\A f \in staged' : ~Uploading(f)' =>
           \/ f \in staged /\ ~Uploading(f)
           \/ crashes' # crashes \/ faults' # faults]_vars
  BY StagedStep DEF IInv
<1> QED
  BY Invariance, <1>1, PTL DEF Spec, StagedOutlivesOnlyFailures

(* Two calls write to the repository.                                      *)
LEMMA StoreStep ==
  ASSUME [Next]_vars, ~UNCHANGED stored
  PROVE  \E h \in Handlers : PutObject(h) \/ PurgeObject(h)
<1>1. PICK h \in Handlers : Begin(h) \/ Step(h)
  BY FailAnswers DEF Next, Crash, vars
<1>2. ~Begin(h)
  BY DEF Begin, RefuseEmpty, BeginUpload, BeginGet, BeginDelete, Accept
<1>3. ~CheckDir(h) /\ ~MakeDir(h) /\ ~Transfer(h) /\ ~Unstage(h)
  BY DEF CheckDir, MakeDir, Transfer, Unstage
<1>4. ~ContentType(h) /\ ~MakeParent(h) /\ ~MakeParentFails(h) /\ ~LoadObject(h)
  BY DEF ContentType, MakeParent, MakeParentFails, LoadObject
<1>5. /\ ~ReadBytes(h) /\ ~StartSweep(h) /\ ~SweepFails(h) /\ ~SweepEnds(h)
      /\ ~Authorize(h) /\ \A e \in PresentEntries : ~SweepEntry(h, e)
  BY DEF ReadBytes, StartSweep, SweepFails, SweepEnds, SweepEntry, Authorize
<1> QED
  BY <1>1, <1>2, <1>3, <1>4, <1>5 DEF Step

(* A step that takes an object out of the repository is a delete by its    *)
(* owner or by a backend user: nothing changes the owner in between.       *)
LEMMA DeleteStep ==
  ASSUME IInv, [Next]_vars, NEW f \in Files, InRepository(f), stored'[f] # stored[f]
  PROVE  \E h \in Handlers :
           /\ op[h] # NoOp /\ op[h].kind = "delete" /\ op[h].file = f
           /\ op[h].user \in Backend \cup {stored[f]}
<1>0. stored \in [Files -> Users \cup {Nobody}] /\ \A h \in Handlers : HandlerInv(h)
  BY DEF IInv, TypeInv, TypeOK
<1>1. ~UNCHANGED stored
  OBVIOUS
<1>2. PICK h \in Handlers : PutObject(h) \/ PurgeObject(h)
  BY <1>1, StoreStep
<1>3. CASE PutObject(h)
  <2>1. stage[h] = "put" /\ stored' = [stored EXCEPT ![op[h].file] = op[h].user]
    BY <1>1, <1>3 DEF PutObject
  <2>2. ~InRepository(op[h].file)
    BY <1>0, <2>1 DEF HandlerInv, BeforePut
  <2>3. f # op[h].file
    BY <2>2
  <2> QED
    BY <1>0, <2>1, <2>3
<1>4. CASE PurgeObject(h)
  <2>1. stage[h] = "purge" /\ stored' = [stored EXCEPT ![op[h].file] = Nobody]
    BY <1>4 DEF PurgeObject
  <2>2. op[h].file = f
    BY <1>0, <2>1
  <2>3. op[h].kind = "delete" /\ op[h].user \in Backend \cup {stored[f]}
    BY <1>0, <2>1, <2>2 DEF HandlerInv, DeleteStages
  <2>4. op[h] # NoOp
    BY <2>1, Busy DEF IInv
  <2> QED
    BY <2>2, <2>3, <2>4
<1> QED
  BY <1>2, <1>3, <1>4

(* Only the owner of a file, or a backend user, ever deletes it.           *)
THEOREM OwnersDelete == Spec => OnlyOwnerDeletes
<1>1. IInv /\ [Next]_vars =>
        [\A f \in Files : InRepository(f) /\ stored'[f] # stored[f] =>
           \E h \in Handlers :
             /\ op[h] # NoOp /\ op[h].kind = "delete" /\ op[h].file = f
             /\ op[h].user \in Backend \cup {stored[f]}]_vars
  BY DeleteStep
<1> QED
  BY Invariance, <1>1, PTL DEF Spec, OnlyOwnerDeletes

LEMMA ServeStep ==
  ASSUME IInv, [Next]_vars, NEW g \in Handlers,
         stage[g] # "idle", reply'[g] = "served", stage'[g] = "idle"
  PROVE  op[g].existed
<1>0. /\ stage \in [Handlers -> {"idle"} \cup BusyStages] /\ reply \in [Handlers -> Replies]
      /\ HandlerInv(g) /\ reply[g] = "none"
  BY TypeParts DEF IInv, HandlersTyped, Unanswered
<1>1. ~UNCHANGED reply
  BY <1>0
<1>2. PICK h \in Handlers : Begin(h) \/ Step(h) \/ Fail(h)
  BY <1>1 DEF Next, Crash, vars
<1>3. reply'[g] = "served" /\ reply[g] # "served"
  BY <1>0
<1>4. ASSUME NEW r, Answer(h, r), r # "served"
      PROVE  FALSE
  BY <1>0, <1>3, <1>4 DEF Answer
<1>12. ~Fail(h)
  BY <1>4, FailAnswers DEF FailureAnswers
<1>5. ASSUME NEW s, Goto(h, s)
      PROVE  FALSE
  BY <1>1, <1>5 DEF Goto
<1>6. ASSUME NEW kind, NEW f, NEW u, NEW s, Accept(h, kind, f, u, s)
      PROVE  FALSE
  BY <1>0, <1>3, <1>6 DEF Accept
<1>7. CASE Begin(h)
  BY <1>4, <1>6, <1>7 DEF Begin, RefuseEmpty, BeginUpload, BeginGet, BeginDelete
<1>8. CASE SweepEnds(h) \/ StartSweep(h)
  <2>1. stage[h] \in {"sweep", "startSweep"} /\ Answer(h, "served")
    BY <1>1, <1>5, <1>8 DEF SweepEnds, StartSweep, Loaded
  <2>2. h = g
    BY <1>0, <1>3, <2>1 DEF Answer
  <2> QED
    BY <1>0, <2>1, <2>2 DEF HandlerInv, AfterLoad
<1>9. CASE PurgeObject(h)
  BY <1>0, <1>3, <1>9 DEF PurgeObject
<1>10. CASE \E e \in PresentEntries : SweepEntry(h, e)
  BY <1>1, <1>10 DEF SweepEntry
<1>11. CASE \/ CheckDir(h) \/ MakeDir(h) \/ Transfer(h) \/ PutObject(h) \/ Unstage(h)
            \/ ContentType(h) \/ MakeParent(h) \/ MakeParentFails(h) \/ LoadObject(h)
            \/ ReadBytes(h) \/ SweepFails(h) \/ Authorize(h)
  <2>1. \/ \E s : Goto(h, s)
        \/ \E r \in {"error", "created", "notFound", "forbidden"} : Answer(h, r)
    BY <1>11 DEF CheckDir, MakeDir, Transfer, PutObject, Unstage, ContentType,
           MakeParent, MakeParentFails, LoadObject, ReadBytes, SweepFails, Authorize
  <2> QED
    BY <1>4, <1>5, <2>1
<1> QED
  BY <1>2, <1>7, <1>8, <1>9, <1>10, <1>11, <1>12 DEF Step

(* Nothing that is left of a deleted object is served, however downloads   *)
(* and deletes of it interleave.                                           *)
THEOREM ServesExisting == Spec => ServedFileExisted
<1>1. IInv /\ [Next]_vars =>
        [\A h \in Handlers :
           stage[h] # "idle" /\ reply'[h] = "served" /\ stage'[h] = "idle" =>
             op[h].existed]_vars
  BY ServeStep
<1> QED
  BY Invariance, <1>1, PTL DEF Spec, ServedFileExisted

(* Between putObject and the answer the object is the user's: its id is not*)
(* known to anyone who could delete it.                                    *)
PutInv == \A h \in Handlers : stage[h] = "unstage" => stored[op[h].file] = op[h].user

(* An upload that is answered with "created" has its file in the           *)
(* repository, under the name of its user.                                 *)
CreatedIsStored ==
  [][\A h \in Handlers :
       stage[h] # "idle" /\ stage'[h] = "idle" /\ reply'[h] = "created" =>
         stored'[op[h].file] = op[h].user]_vars

LEMMA PutStep ==
  ASSUME IInv, PutInv, [Next]_vars
  PROVE  PutInv'
<1>0. /\ stage \in [Handlers -> {"idle"} \cup BusyStages] /\ op \in [Handlers -> {NoOp} \cup RealOps]
      /\ stored \in [Files -> Users \cup {Nobody}] /\ Distinct
  BY TypeParts DEF HandlersTyped, StoresTyped, IInv
<1> SUFFICES ASSUME NEW g \in Handlers, stage'[g] = "unstage"
             PROVE  stored'[op'[g].file] = op'[g].user
  BY DEF PutInv
<1>1. CASE PutObject(g)
  <2>1. /\ stored' = [stored EXCEPT ![op[g].file] = op[g].user] /\ Goto(g, "unstage")
        /\ stage[g] = "put"
    BY <1>0, <1>1 DEF PutObject, Answer
  <2>2. op[g].file \in Files
    BY <2>1, Busy, OpsAre DEF IInv
  <2> QED
    BY <1>0, <2>1, <2>2 DEF Goto
<1>2. CASE ~PutObject(g)
  <2>1. stage[g] = "unstage" /\ op'[g] = op[g]
    <3>1. ASSUME NEW h \in Handlers, NEW s, Goto(h, s), h = g => s # "unstage"
          PROVE  stage[g] = "unstage" /\ op'[g] = op[g]
      BY <1>0, <3>1 DEF Goto
    <3>2. ASSUME NEW h \in Handlers, NEW r, Answer(h, r)
          PROVE  stage[g] = "unstage" /\ op'[g] = op[g]
      BY <1>0, <3>2 DEF Answer
    <3>3. ASSUME NEW h \in Handlers, Begin(h)
          PROVE  stage[g] = "unstage" /\ op'[g] = op[g]
      BY <1>0, <3>2, <3>3 DEF Begin, RefuseEmpty, BeginUpload, BeginGet, BeginDelete, Accept
    <3>4. ASSUME NEW h \in Handlers, Step(h)
          PROVE  stage[g] = "unstage" /\ op'[g] = op[g]
      <4>1. CASE \/ CheckDir(h) \/ MakeDir(h) \/ Transfer(h) \/ PutObject(h) \/ Unstage(h)
                 \/ ContentType(h) \/ MakeParent(h) \/ MakeParentFails(h) \/ LoadObject(h)
                 \/ ReadBytes(h) \/ SweepFails(h) \/ SweepEnds(h) \/ Authorize(h)
                 \/ (StartSweep(h) /\ ~tempDir)
        <5>1. \/ \E r : Answer(h, r)
              \/ \E s : Goto(h, s) /\ (h = g => s # "unstage")
          BY <1>2, <4>1 DEF CheckDir, MakeDir, Transfer, PutObject, Unstage, ContentType,
                 MakeParent, MakeParentFails, LoadObject, ReadBytes, SweepFails, SweepEnds,
                 Loaded, Authorize, StartSweep
        <5> QED
          BY <3>1, <3>2, <5>1
      <4>2. CASE (StartSweep(h) /\ tempDir) \/ \E e \in PresentEntries : SweepEntry(h, e)
        <5>1. /\ \/ stage' = [stage EXCEPT ![h] = "sweep"]
                 \/ stage' = stage
              /\ stage[h] \in {"startSweep", "sweep"}
              /\ \E x : op' = [op EXCEPT ![h] = x]
          BY <4>2 DEF StartSweep, SweepEntry
        <5> QED
          BY <1>0, <5>1
      <4>3. CASE PurgeObject(h)
        <5>1. /\ stage' = [stage EXCEPT ![h] = "idle"]
              /\ op' = [i \in Handlers |->
                    IF i = h THEN NoOp
                    ELSE IF NotYetLoaded(i, op[h].file) THEN [op[i] EXCEPT !.existed = FALSE]
                    ELSE op[i]]
          BY <4>3 DEF PurgeObject
        <5>2. stage[g] = "unstage" /\ g # h
          BY <1>0, <5>1
        <5>3. ~NotYetLoaded(g, op[h].file)
          BY <5>2 DEF NotYetLoaded
        <5> QED
          BY <5>1, <5>2, <5>3
      <4> QED
        BY <3>4, <4>1, <4>2, <4>3 DEF Step
    <3>5. ASSUME Crash \/ UNCHANGED vars
          PROVE  stage[g] = "unstage" /\ op'[g] = op[g]
      BY <3>5 DEF Crash, vars
    <3>6. ASSUME NEW h \in Handlers, Fail(h)
          PROVE  stage[g] = "unstage" /\ op'[g] = op[g]
      BY <3>2, <3>6, FailAnswers
    <3> QED
      BY <3>3, <3>4, <3>5, <3>6 DEF Next
  <2>2. op[g].file \in Files /\ stored[op[g].file] = op[g].user
    BY <2>1, Busy, OpsAre DEF IInv, PutInv
  <2>3. ASSUME NEW h \in Handlers, PutObject(h) \/ PurgeObject(h)
        PROVE  stored'[op[g].file] = stored[op[g].file]
    <3>1. stage[h] \in {"put", "purge"} /\ h # g
      BY <2>1, <2>3 DEF PutObject, PurgeObject
    <3>2. op[h].file # op[g].file
      BY <1>0, <2>1, <3>1 DEF Distinct, UploadStages
    <3>3. UNCHANGED stored \/ \E x : stored' = [stored EXCEPT ![op[h].file] = x]
      BY <2>3 DEF PutObject, PurgeObject
    <3> QED
      BY <1>0, <2>2, <3>2, <3>3
  <2>4. ASSUME ~\E h \in Handlers : PutObject(h) \/ PurgeObject(h)
        PROVE  UNCHANGED stored
    BY <2>4, StoreStep
  <2> QED
    BY <2>1, <2>2, <2>3, <2>4
<1> QED
  BY <1>1, <1>2

LEMMA CreatedStep ==
  ASSUME IInv, PutInv, [Next]_vars, NEW g \in Handlers,
         stage[g] # "idle", stage'[g] = "idle", reply'[g] = "created"
  PROVE  stored'[op[g].file] = op[g].user
<1>0. /\ stage \in [Handlers -> {"idle"} \cup BusyStages] /\ reply \in [Handlers -> Replies]
      /\ reply[g] = "none"
  BY TypeParts DEF IInv, HandlersTyped, Unanswered
<1>1. PICK h \in Handlers : Begin(h) \/ Step(h) \/ Fail(h)
  BY <1>0 DEF Next, Crash, vars
<1>2. ASSUME NEW r, Answer(h, r), r # "created"
      PROVE  FALSE
  BY <1>0, <1>2 DEF Answer
<1>8. ~Fail(h)
  BY <1>2, FailAnswers DEF FailureAnswers
<1>3. ~UNCHANGED reply
  BY <1>0
<1>4. CASE Unstage(h)
  <2>1. Answer(h, "created") /\ stage[h] = "unstage" /\ UNCHANGED stored
    BY <1>2, <1>4 DEF Unstage
  <2>2. h = g
    BY <1>0, <2>1 DEF Answer
  <2> QED
    BY <2>1, <2>2 DEF PutInv
<1>5. ~Begin(h)
  BY <1>0, <1>2 DEF Begin, RefuseEmpty, BeginUpload, BeginGet, BeginDelete, Accept
<1>6. ~PurgeObject(h) /\ ~\E e \in PresentEntries : SweepEntry(h, e)
  BY <1>0, <1>3 DEF PurgeObject, SweepEntry
<1>7. /\ ~CheckDir(h) /\ ~MakeDir(h) /\ ~Transfer(h) /\ ~PutObject(h) /\ ~ContentType(h)
      /\ ~MakeParent(h) /\ ~MakeParentFails(h) /\ ~LoadObject(h) /\ ~ReadBytes(h)
      /\ ~StartSweep(h) /\ ~SweepFails(h) /\ ~SweepEnds(h) /\ ~Authorize(h)
  BY <1>2, <1>3 DEF CheckDir, MakeDir, Transfer, PutObject, ContentType, MakeParent,
         MakeParentFails, LoadObject, ReadBytes, StartSweep, SweepFails, SweepEnds, Loaded,
         Authorize, Goto
<1> QED
  BY <1>1, <1>4, <1>5, <1>6, <1>7, <1>8 DEF Step

(* However many uploads, downloads and deletes run at once, whoever is told*)
(* that a file was created finds it in the repository as its own.          *)
THEOREM CreatedFilesAreStored == Spec => CreatedIsStored
<1>1. Init => PutInv
  BY DEF Init, PutInv
<1>2. IInv /\ PutInv /\ [Next]_vars =>
        [\A h \in Handlers :
           stage[h] # "idle" /\ stage'[h] = "idle" /\ reply'[h] = "created" =>
             stored'[op[h].file] = op[h].user]_vars
  BY CreatedStep
<1>3. IInv /\ PutInv /\ [Next]_vars => PutInv'
  BY PutStep
<1> QED
  BY Invariance, <1>1, <1>2, <1>3, PTL DEF Spec, CreatedIsStored

-----------------------------------------------------------------------------
(* One request at a time.  What a handler has found or made in the         *)
(* temporary directory is there at its next call, also after failures and  *)
(* restarts that left files of earlier requests, so no call fails but of   *)
(* itself (Fail).                                                          *)
Alone == \A h, g \in Handlers : h = g

InTemp == {"transfer", "put", "unstage", "load", "read", "startSweep", "sweep"}

SoloInv(h) ==
  /\ stage[h] = "makeDir" => ~tempDir
  /\ stage[h] \in InTemp => tempDir
  /\ stage[h] \in {"put", "unstage"} => op[h].file \in staged
  /\ stage[h] = "load" => op[h].file \in parents
  /\ stage[h] = "read" => <<op[h].file, h>> \in loads
  /\ stage[h] = "sweep" => op[h].listing = PresentEntries

(* The calls that fail only if another handler interferes.                 *)
LEMMA NoCallFails ==
  ASSUME Alone, IInv, NEW h \in Handlers, SoloInv(h)
  PROVE  /\ ~MakeParentFails(h) /\ ~SweepFails(h)
         /\ MakeDir(h) => Goto(h, "transfer")
         /\ Transfer(h) => Goto(h, "put") /\ staged' = staged \cup {op[h].file}
         /\ PutObject(h) => Goto(h, "unstage")
         /\ Unstage(h) => Answer(h, "created")
         /\ LoadObject(h) => \/ Goto(h, "read") /\ loads' = loads \cup {<<op[h].file, h>>}
                             \/ ~InRepository(op[h].file) /\ Answer(h, "notFound")
                                  /\ UNCHANGED loads
         /\ ReadBytes(h) => Goto(h, "startSweep")
         /\ StartSweep(h) => /\ op' = [op EXCEPT ![h].listing = PresentEntries]
                             /\ stage' = [stage EXCEPT ![h] = "sweep"]
                             /\ UNCHANGED reply
<1>1. ~MakeParentFails(h)
  BY DEF MakeParentFails, Alone
<1>2. ~SweepFails(h)
  <2> SUFFICES ASSUME SweepFails(h)
               PROVE  FALSE
    OBVIOUS
  <2>1. tempDir /\ op[h].listing = PresentEntries
    BY DEF SweepFails, SoloInv, InTemp
  <2>2. \A l \in loads : [kind |-> "load", file |-> l[1], handler |-> l[2]] \in PresentEntries
    BY DEF PresentEntries
  <2>3. \A e \in PresentEntries : ~Removable(e) => \E l \in loads : l[1] = e.file
    BY DEF Removable
  <2> HIDE DEF PresentEntries
  <2> QED
    BY <2>1, <2>2, <2>3 DEF SweepFails
<1>3. /\ MakeDir(h) => Goto(h, "transfer")
      /\ Transfer(h) => Goto(h, "put") /\ staged' = staged \cup {op[h].file}
      /\ PutObject(h) => Goto(h, "unstage")
      /\ Unstage(h) => Answer(h, "created")
  BY DEF MakeDir, Transfer, PutObject, Unstage, SoloInv, InTemp
<1>4. /\ LoadObject(h) => \/ Goto(h, "read") /\ loads' = loads \cup {<<op[h].file, h>>}
                          \/ ~InRepository(op[h].file) /\ Answer(h, "notFound")
                               /\ UNCHANGED loads
      /\ ReadBytes(h) => Goto(h, "startSweep")
  BY DEF LoadObject, ReadBytes, SoloInv
<1>5. StartSweep(h) => /\ op' = [op EXCEPT ![h].listing = PresentEntries]
                       /\ stage' = [stage EXCEPT ![h] = "sweep"]
                       /\ UNCHANGED reply
  BY DEF StartSweep, SoloInv, InTemp
<1> QED
  BY <1>1, <1>2, <1>3, <1>4, <1>5

LEMMA EntriesWithout ==
  ASSUME NEW k, NEW S, NEW f
  PROVE  [kind : {k}, file : S \ {f}] = [kind : {k}, file : S] \ {[kind |-> k, file |-> f]}
<1>1. ASSUME NEW T
      PROVE  [kind : {k}, file : T] = {[kind |-> k, file |-> y] : y \in T}
  <2>1. ASSUME NEW x \in [kind : {k}, file : T]
        PROVE  x \in {[kind |-> k, file |-> y] : y \in T}
    <3>1. x = [kind |-> k, file |-> x.file] /\ x.file \in T
      BY <2>1
    <3> QED
      BY <3>1
  <2>2. ASSUME NEW x \in {[kind |-> k, file |-> y] : y \in T}
        PROVE  x \in [kind : {k}, file : T]
    BY <2>2
  <2> QED
    BY <2>1, <2>2, Zenon
<1>2. \A y : [kind |-> k, file |-> y] = [kind |-> k, file |-> f] <=> y = f
  OBVIOUS
<1>3. {[kind |-> k, file |-> y] : y \in S \ {f}}
        = {[kind |-> k, file |-> y] : y \in S} \ {[kind |-> k, file |-> f]}
  BY <1>2
<1> QED
  BY <1>1, <1>3, Zenon

(* Removing an entry removes just that one.                                *)
LEMMA SweepRemoves ==
  ASSUME TypeOK, NEW h \in Handlers, NEW e \in PresentEntries, SweepEntry(h, e)
  PROVE  PresentEntries' = PresentEntries \ {e}
<1>0. loads \subseteq Files \X Handlers
  BY DEF TypeOK
<1>1. CASE e \in [kind : {"staged"}, file : staged]
  <2>1. /\ staged' = staged \ {e.file} /\ UNCHANGED <<parents, loads>>
        /\ e = [kind |-> "staged", file |-> e.file]
    BY <1>1 DEF SweepEntry
  <2>2. [kind : {"staged"}, file : staged \ {e.file}] = [kind : {"staged"}, file : staged] \ {e}
    <3>1. [kind : {"staged"}, file : staged \ {e.file}]
            = [kind : {"staged"}, file : staged] \ {[kind |-> "staged", file |-> e.file]}
      BY EntriesWithout
    <3> QED
      BY <2>1, <3>1, Zenon
  <2>3. e \notin [kind : {"parent"}, file : parents]
    BY <2>1
  <2>4. e \notin {[kind |-> "load", file |-> l[1], handler |-> l[2]] : l \in loads}
    BY <2>1
  <2> QED
    BY <2>1, <2>2, <2>3, <2>4 DEF PresentEntries
<1>2. CASE e \in [kind : {"parent"}, file : parents]
  <2>1. /\ parents' = parents \ {e.file} /\ UNCHANGED <<staged, loads>>
        /\ e = [kind |-> "parent", file |-> e.file]
    BY <1>2 DEF SweepEntry
  <2>2. [kind : {"parent"}, file : parents \ {e.file}] = [kind : {"parent"}, file : parents] \ {e}
    <3>1. [kind : {"parent"}, file : parents \ {e.file}]
            = [kind : {"parent"}, file : parents] \ {[kind |-> "parent", file |-> e.file]}
      BY EntriesWithout
    <3> QED
      BY <2>1, <3>1, Zenon
  <2>3. e \notin [kind : {"staged"}, file : staged]
    BY <2>1
  <2>4. e \notin {[kind |-> "load", file |-> l[1], handler |-> l[2]] : l \in loads}
    BY <2>1
  <2> QED
    BY <2>1, <2>2, <2>3, <2>4 DEF PresentEntries
<1>3. ASSUME NEW l \in loads, e = [kind |-> "load", file |-> l[1], handler |-> l[2]]
      PROVE  PresentEntries' = PresentEntries \ {e}
  <2>1. loads' = loads \ {l} /\ UNCHANGED <<staged, parents>>
    BY <1>0, <1>3 DEF SweepEntry
  <2>2. \A m \in loads :
          [kind |-> "load", file |-> m[1], handler |-> m[2]] = e <=> m = l
    BY <1>0, <1>3
  <2>3. {[kind |-> "load", file |-> m[1], handler |-> m[2]] : m \in loads \ {l}}
          = {[kind |-> "load", file |-> m[1], handler |-> m[2]] : m \in loads} \ {e}
    BY <2>2
  <2>4. e \notin [kind : {"staged"}, file : staged] /\ e \notin [kind : {"parent"}, file : parents]
    BY <1>3
  <2> QED
    BY <2>1, <2>3, <2>4 DEF PresentEntries
<1> QED
  BY <1>1, <1>2, <1>3 DEF PresentEntries

LEMMA SoloStep ==
  ASSUME Alone, IInv, NEW h \in Handlers, SoloInv(h),
         Begin(h) \/ Step(h) \/ Fail(h)
  PROVE  SoloInv(h)'
<1>0. /\ stage \in [Handlers -> {"idle"} \cup BusyStages] /\ reply \in [Handlers -> Replies]
      /\ op \in [Handlers -> {NoOp} \cup RealOps] /\ TypeOK
  BY TypeParts DEF HandlersTyped, IInv, TypeInv
<1>a. ASSUME NEW r, Answer(h, r)
      PROVE  stage'[h] = "idle" /\ reply'[h] = r
  BY <1>0, <1>a DEF Answer
<1>g. ASSUME NEW s, Goto(h, s)
      PROVE  stage'[h] = s /\ op' = op /\ reply' = reply
  BY <1>0, <1>g DEF Goto
(* The calls that need nothing of the temporary directory.                 *)
<1>q. ASSUME stage'[h] \in {"idle", "checkDir", "contentType", "makeParent", "authorize", "purge"}
      PROVE  SoloInv(h)'
  BY <1>q DEF SoloInv, InTemp
<1>1. CASE Begin(h)
  <2>1. /\ stage[h] = "idle" /\ UNCHANGED loads
        /\ stage'[h] \in {"idle", "checkDir", "contentType", "makeParent"}
        /\ reply'[h] \in {"none", "badRequest"}
    BY <1>0, <1>1, <1>a DEF Begin, RefuseEmpty, BeginUpload, BeginGet, BeginDelete, Accept, temp
  <2> QED
    BY <1>q, <2>1 DEF SoloInv
<1>2. CASE CheckDir(h)
  <2>1. /\ stage[h] = "checkDir" /\ UNCHANGED <<tempDir, loads>>
        /\ Goto(h, IF tempDir THEN "transfer" ELSE "makeDir")
    BY <1>2 DEF CheckDir, temp
  <2>2. stage'[h] = (IF tempDir THEN "transfer" ELSE "makeDir") /\ reply' = reply
    BY <1>g, <2>1
  <2> QED
    BY <2>1, <2>2 DEF SoloInv, InTemp
<1>2m. CASE MakeDir(h)
  <2>1. /\ stage[h] = "makeDir" /\ tempDir' = TRUE /\ UNCHANGED loads
        /\ stage'[h] = "transfer" /\ reply' = reply
    BY <1>2m, <1>g, NoCallFails DEF MakeDir
  <2> QED
    BY <2>1 DEF SoloInv, InTemp
<1>3. CASE Transfer(h)
  <2>1. /\ stage[h] = "transfer" /\ UNCHANGED <<tempDir, parents, loads>>
        /\ staged' = staged \cup {op[h].file}
        /\ stage'[h] = "put" /\ op' = op /\ reply' = reply
    BY <1>3, <1>g, NoCallFails DEF Transfer
  <2> QED
    BY <2>1 DEF SoloInv, InTemp
<1>4. CASE PutObject(h)
  <2>1. /\ stage[h] = "put" /\ UNCHANGED <<tempDir, staged, parents, loads>>
        /\ stage'[h] = "unstage" /\ op' = op /\ reply' = reply
    BY <1>4, <1>g, NoCallFails DEF PutObject, temp
  <2> QED
    BY <2>1 DEF SoloInv, InTemp
<1>5. CASE Unstage(h)
  <2>1. stage[h] = "unstage" /\ stage'[h] = "idle" /\ reply'[h] = "created" /\ UNCHANGED loads
    BY <1>5, <1>a, NoCallFails DEF Unstage
  <2> QED
    BY <1>q, <2>1 DEF SoloInv
<1>6. CASE ContentType(h) \/ Authorize(h)
  <2>1. /\ stage[h] \in {"contentType", "authorize"} /\ UNCHANGED loads
        /\ \/ stage'[h] \in {"makeParent", "purge"} /\ reply' = reply
           \/ stage'[h] = "idle" /\ reply'[h] \in {"notFound", "forbidden"}
    BY <1>6, <1>a, <1>g DEF ContentType, Authorize, temp
  <2> QED
    BY <1>q, <2>1 DEF SoloInv
<1>7. CASE MakeParent(h)
  <2>1. /\ stage[h] = "makeParent" /\ tempDir' /\ UNCHANGED loads
        /\ parents' = parents \cup {op[h].file}
        /\ stage'[h] = "load" /\ op' = op /\ reply' = reply
    BY <1>7, <1>g DEF MakeParent
  <2> QED
    BY <2>1 DEF SoloInv, InTemp
<1>8. CASE LoadObject(h)
  <2>1. stage[h] = "load" /\ UNCHANGED tempDir
    BY <1>8 DEF LoadObject
  <2>2. CASE Goto(h, "read") /\ loads' = loads \cup {<<op[h].file, h>>}
    BY <1>g, <2>1, <2>2 DEF SoloInv, InTemp
  <2>3. CASE Answer(h, "notFound") /\ UNCHANGED loads
    BY <1>a, <1>q, <2>1, <2>3 DEF SoloInv
  <2> QED
    BY <1>8, <2>2, <2>3, NoCallFails
<1>9. CASE ReadBytes(h)
  <2>1. /\ stage[h] = "read" /\ UNCHANGED tempDir
        /\ stage'[h] = "startSweep" /\ reply' = reply
    BY <1>9, <1>g, NoCallFails DEF ReadBytes, temp
  <2> QED
    BY <2>1 DEF SoloInv, InTemp
<1>10. CASE StartSweep(h)
  <2>1. /\ stage[h] = "startSweep" /\ UNCHANGED <<tempDir, staged, parents, loads, reply>>
        /\ op' = [op EXCEPT ![h].listing = PresentEntries]
        /\ stage' = [stage EXCEPT ![h] = "sweep"]
    BY <1>10, NoCallFails DEF StartSweep, temp
  <2>2. stage'[h] = "sweep"
    BY <1>0, <2>1
  <2>3. op[h] \in RealOps
    BY <2>1, Busy DEF IInv
  <2>4. op'[h].listing = PresentEntries
    <3> DEFINE P == PresentEntries
    <3>1. op'[h] = [op[h] EXCEPT !.listing = P]
      BY <1>0, <2>1
    <3> HIDE DEF P
    <3>2. [op[h] EXCEPT !.listing = P].listing = P
      BY <2>3 DEF RealOps
    <3> QED
      BY <3>1, <3>2 DEF P
  <2>5. PresentEntries' = PresentEntries
    BY <2>1 DEF PresentEntries
  <2>6. op'[h].listing = PresentEntries'
    BY <2>4, <2>5, Zenon
  <2> QED
    BY <2>1, <2>2, <2>6 DEF SoloInv, InTemp
<1>11. ASSUME NEW e \in PresentEntries, SweepEntry(h, e)
       PROVE  SoloInv(h)'
  <2>1. stage[h] = "sweep" /\ UNCHANGED <<tempDir, stage, reply>>
    BY <1>11 DEF SweepEntry
  <2>2. op[h] \in RealOps
    BY <2>1, Busy DEF IInv
  <2>3. op'[h].listing = op[h].listing \ {e}
    <3>1. op'[h] = [op[h] EXCEPT !.listing = op[h].listing \ {e}]
      BY <1>0, <1>11 DEF SweepEntry
    <3> QED
      BY <2>2, <3>1 DEF RealOps
  <2>4. PresentEntries' = PresentEntries \ {e}
    BY <1>0, <1>11, SweepRemoves
  <2> QED
    BY <2>1, <2>3, <2>4 DEF SoloInv, InTemp
<1>12. CASE SweepEnds(h)
  <2>1. stage[h] = "sweep" /\ PresentEntries = {} /\ UNCHANGED loads
    BY <1>12 DEF SweepEnds
  <2>2. loads = {}
    BY <2>1 DEF PresentEntries
  <2>3. \/ stage'[h] = "authorize" /\ reply' = reply
        \/ stage'[h] = "idle" /\ reply'[h] = "served"
    BY <1>12, <1>a, <1>g DEF SweepEnds, Loaded
  <2> QED
    BY <1>q, <2>1, <2>2, <2>3 DEF SoloInv
<1>13. CASE PurgeObject(h)
  <2>1. stage[h] = "purge" /\ stage'[h] = "idle" /\ reply'[h] = "deleted" /\ UNCHANGED loads
    BY <1>0, <1>13 DEF PurgeObject, temp
  <2> QED
    BY <1>q, <2>1 DEF SoloInv
<1>14. CASE Fail(h)
  BY <1>a, <1>q, <1>14, FailAnswers
<1> QED
  BY <1>1, <1>2, <1>2m, <1>3, <1>4, <1>5, <1>6, <1>7, <1>8, <1>9, <1>10, <1>11, <1>12,
     <1>13, <1>14, NoCallFails DEF Step

LEMMA SoloInvariant == Alone => (Spec => [](IInv /\ \A h \in Handlers : SoloInv(h)))
<1> SUFFICES ASSUME Alone
             PROVE  Spec => [](IInv /\ \A h \in Handlers : SoloInv(h))
  OBVIOUS
<1> DEFINE Solo == \A h \in Handlers : SoloInv(h)
<1>1. Init => Solo
  BY DEF Init, SoloInv, InTemp
<1>2. IInv /\ Solo /\ [Next]_vars => Solo'
  <2> SUFFICES ASSUME IInv, Solo, [Next]_vars, NEW h \in Handlers
               PROVE  SoloInv(h)'
    OBVIOUS
  <2>1. CASE UNCHANGED vars
    <3>1. PresentEntries' = PresentEntries
      BY <2>1 DEF vars, temp, PresentEntries
    <3> QED
      BY <2>1, <3>1 DEF SoloInv, vars, temp, bounds
  <2>2. ASSUME NEW g \in Handlers, Begin(g) \/ Step(g) \/ Fail(g)
        PROVE  SoloInv(h)'
    <3>1. g = h
      BY DEF Alone
    <3> QED
      BY <2>2, <3>1, SoloStep
  <2>3. CASE Crash
    <3>1. stage'[h] = "idle"
      BY <2>3 DEF Crash
    <3> QED
      BY <3>1 DEF SoloInv, InTemp
  <2> QED
    BY <2>1, <2>2, <2>3 DEF Next
<1> HIDE DEF Solo
<1>3. Spec => [](IInv /\ Solo)
  BY <1>1, <1>2, InitIInv, IInvStep, PTL DEF Spec
<1> QED
  BY <1>3 DEF Solo

LEMMA ErrorStep ==
  ASSUME Alone, IInv, NEW h \in Handlers, SoloInv(h), [Next]_vars,
         stage[h] # "idle", stage'[h] = "idle", reply'[h] = "error"
  PROVE  faults' # faults
<1>0. /\ stage \in [Handlers -> {"idle"} \cup BusyStages] /\ reply \in [Handlers -> Replies]
      /\ reply[h] = "none" /\ faults \in Nat
  BY TypeParts DEF IInv, HandlersTyped, BoundsTyped, Unanswered
<1>1. Begin(h) \/ Step(h) \/ Fail(h)
  BY <1>0 DEF Next, Alone, Crash, vars
<1>2. ASSUME NEW r, Answer(h, r), r # "error"
      PROVE  FALSE
  BY <1>0, <1>2 DEF Answer
<1>3. ~UNCHANGED reply
  BY <1>0
<1>4. ~Begin(h)
  BY <1>0 DEF Begin, RefuseEmpty, BeginUpload, BeginGet, BeginDelete, Accept
<1>5. ~PurgeObject(h) /\ ~\E e \in PresentEntries : SweepEntry(h, e)
  BY <1>0, <1>3 DEF PurgeObject, SweepEntry
<1>6. /\ ~CheckDir(h) /\ ~MakeDir(h) /\ ~Transfer(h) /\ ~PutObject(h) /\ ~Unstage(h)
      /\ ~ContentType(h) /\ ~MakeParent(h) /\ ~LoadObject(h) /\ ~ReadBytes(h)
      /\ ~StartSweep(h) /\ ~SweepEnds(h) /\ ~Authorize(h)
  BY <1>2, <1>3, NoCallFails DEF CheckDir, ContentType, MakeParent, LoadObject, SweepEnds, Loaded,
         Authorize, Goto
<1>7. Fail(h)
  BY <1>1, <1>4, <1>5, <1>6, NoCallFails DEF Step
<1> QED
  BY <1>0, <1>7, FailAnswers

(* Serving one request at a time, an upload fails only by a failing call of*)
(* its own, whatever failures and restarts have left in the temporary      *)
(* directory before.                                                       *)
THEOREM AloneUploadsSucceed == Alone => (Spec => UploadsSucceed)
<1> SUFFICES ASSUME Alone
             PROVE  Spec => UploadsSucceed
  OBVIOUS
<1>1. IInv /\ (\A h \in Handlers : SoloInv(h)) /\ [Next]_vars =>
        [\A h \in Handlers :
           stage[h] # "idle" /\ stage'[h] = "idle" /\ reply'[h] = "error" =>
             faults' # faults]_vars
  BY ErrorStep
<1> QED
  BY <1>1, SoloInvariant, PTL DEF Spec, UploadsSucceed

-----------------------------------------------------------------------------
(* What is left in the temporary directory: at most one copy is of the     *)
(* request that is being served, each other one of a failure or a restart. *)
Holding == {"put", "unstage", "read", "startSweep", "sweep"}

Held == IF \E h \in Handlers : stage[h] \in Holding THEN 1 ELSE 0

LeftInv ==
  /\ IsFiniteSet(staged) /\ IsFiniteSet(loads)
  /\ Cardinality(staged) + Cardinality(loads) <= crashes + faults + Held

LEMMA Adding ==
  ASSUME NEW S, IsFiniteSet(S), NEW x
  PROVE  /\ IsFiniteSet(S \cup {x}) /\ Cardinality(S) \in Nat
         /\ Cardinality(S \cup {x}) \in Nat /\ Cardinality(S \cup {x}) <= Cardinality(S) + 1
<1>1. IsFiniteSet(S \cup {x}) /\ Cardinality(S) \in Nat /\ Cardinality(S \cup {x}) \in Nat
  BY FS_AddElement, FS_CardinalityType
<1>2. Cardinality(S \cup {x}) = IF x \in S THEN Cardinality(S) ELSE Cardinality(S) + 1
  BY FS_AddElement
<1> QED
  BY <1>1, <1>2

LEMMA Removing ==
  ASSUME NEW S, IsFiniteSet(S), NEW x
  PROVE  /\ IsFiniteSet(S \ {x}) /\ Cardinality(S) \in Nat
         /\ Cardinality(S \ {x}) \in Nat /\ Cardinality(S \ {x}) <= Cardinality(S)
         /\ x \in S => Cardinality(S \ {x}) + 1 = Cardinality(S)
<1>1. IsFiniteSet(S \ {x}) /\ Cardinality(S) \in Nat /\ Cardinality(S \ {x}) \in Nat
  BY FS_RemoveElement, FS_CardinalityType
<1>2. Cardinality(S \ {x}) = IF x \in S THEN Cardinality(S) - 1 ELSE Cardinality(S)
  BY FS_RemoveElement
<1> QED
  BY <1>1, <1>2

LEMMA LeftStep ==
  ASSUME Alone, IInv, LeftInv, NEW h \in Handlers, SoloInv(h), Begin(h) \/ Step(h) \/ Fail(h)
  PROVE  LeftInv'
<1> DEFINE held == IF stage[h] \in Holding THEN 1 ELSE 0
<1>0. /\ stage \in [Handlers -> {"idle"} \cup BusyStages]
      /\ crashes \in Nat /\ faults \in Nat
  BY TypeParts DEF HandlersTyped, BoundsTyped, IInv
<1>h. Held = held /\ Held' = held'
  BY DEF Held, Alone
<1>c. /\ IsFiniteSet(staged) /\ Cardinality(staged) \in Nat
      /\ IsFiniteSet(loads) /\ Cardinality(loads) \in Nat
      /\ Cardinality(staged) + Cardinality(loads) <= crashes + faults + held
  BY <1>h, FS_CardinalityType DEF LeftInv
<1>a. ASSUME NEW r, Answer(h, r)
      PROVE  stage'[h] = "idle"
  BY <1>0, <1>a DEF Answer
<1>g. ASSUME NEW s, Goto(h, s)
      PROVE  stage'[h] = s
  BY <1>0, <1>g DEF Goto
<1>i. ASSUME IsFiniteSet(staged'), IsFiniteSet(loads'),
             Cardinality(staged') + Cardinality(loads') <= crashes' + faults' + held'
      PROVE  LeftInv'
  BY <1>h, <1>i DEF LeftInv
(* The copies stay; if the request gives up one, that is a failure.        *)
<1>k. ASSUME UNCHANGED <<staged, loads, crashes>>,
             \/ UNCHANGED faults /\ (stage'[h] \in Holding \/ stage[h] \notin Holding)
             \/ faults' = faults + 1
      PROVE  LeftInv'
  <2>1. CASE UNCHANGED faults /\ (stage'[h] \in Holding \/ stage[h] \notin Holding)
    <3>1. held' >= held /\ held \in {0, 1} /\ held' \in {0, 1}
      BY <2>1
    <3> HIDE DEF held
    <3> QED
      BY <1>0, <1>c, <1>i, <1>k, <2>1, <3>1
  <2>2. CASE faults' = faults + 1
    <3>1. held \in {0, 1} /\ held' \in {0, 1}
      OBVIOUS
    <3> HIDE DEF held
    <3> QED
      BY <1>0, <1>c, <1>i, <1>k, <2>2, <3>1
  <2> QED
    BY <1>k, <2>1, <2>2
<1>1. CASE Begin(h)
  <2>1. UNCHANGED <<staged, loads, crashes, faults>> /\ stage[h] = "idle"
    BY <1>1 DEF Begin, RefuseEmpty, BeginUpload, BeginGet, BeginDelete, Accept, temp
  <2> QED
    BY <1>k, <2>1 DEF Holding
<1>2. CASE Fail(h)
  BY <1>2, <1>k, FailAnswers
<1>3. CASE \/ CheckDir(h) \/ MakeDir(h) \/ ContentType(h) \/ MakeParent(h) \/ Authorize(h)
           \/ PurgeObject(h)
  <2>1. /\ UNCHANGED <<staged, loads, crashes, faults>>
        /\ stage[h] \in {"checkDir", "makeDir", "contentType", "makeParent", "authorize", "purge"}
    BY <1>3 DEF CheckDir, MakeDir, ContentType, MakeParent, Authorize, PurgeObject, temp, bounds
  <2> QED
    BY <1>k, <2>1 DEF Holding
<1>4. CASE PutObject(h) \/ ReadBytes(h) \/ StartSweep(h)
  <2>1. UNCHANGED <<staged, loads, crashes, faults>>
    BY <1>4 DEF PutObject, ReadBytes, StartSweep, temp, bounds
  <2>2. stage'[h] \in {"unstage", "startSweep", "sweep"}
    BY <1>0, <1>4, <1>g, NoCallFails
  <2> QED
    BY <1>k, <2>1, <2>2 DEF Holding
<1>5. CASE Transfer(h)
  <2>1. /\ staged' = staged \cup {op[h].file} /\ UNCHANGED <<loads, crashes, faults>>
        /\ stage[h] = "transfer" /\ stage'[h] = "put"
    BY <1>5, <1>g, NoCallFails DEF Transfer, bounds
  <2>2. held = 0 /\ held' = 1
    BY <2>1 DEF Holding
  <2> HIDE DEF held
  <2>3. /\ IsFiniteSet(staged') /\ Cardinality(staged') \in Nat
        /\ Cardinality(staged') <= Cardinality(staged) + 1
    BY <1>c, <2>1, Adding
  <2> QED
    BY <1>0, <1>c, <1>i, <2>1, <2>2, <2>3
<1>6. CASE Unstage(h)
  <2>1. /\ staged' = staged \ {op[h].file} /\ op[h].file \in staged
        /\ UNCHANGED <<loads, crashes, faults>> /\ stage[h] = "unstage" /\ stage'[h] = "idle"
    BY <1>6, <1>a, NoCallFails DEF Unstage, bounds, SoloInv
  <2>2. held = 1 /\ held' = 0
    BY <2>1 DEF Holding
  <2> HIDE DEF held
  <2>3. /\ IsFiniteSet(staged') /\ Cardinality(staged') \in Nat
        /\ Cardinality(staged') + 1 = Cardinality(staged)
    BY <1>c, <2>1, Removing
  <2> QED
    BY <1>0, <1>c, <1>i, <2>1, <2>2, <2>3
<1>7. CASE LoadObject(h)
  <2>1. stage[h] = "load" /\ UNCHANGED <<staged, crashes, faults>>
    BY <1>7 DEF LoadObject, bounds
  <2>2. CASE Goto(h, "read") /\ loads' = loads \cup {<<op[h].file, h>>}
    <3>1. stage'[h] = "read"
      BY <1>g, <2>2
    <3>2. held = 0 /\ held' = 1
      BY <2>1, <3>1 DEF Holding
    <3> HIDE DEF held
    <3>3. /\ IsFiniteSet(loads') /\ Cardinality(loads') \in Nat
          /\ Cardinality(loads') <= Cardinality(loads) + 1
      BY <1>c, <2>2, Adding
    <3> QED
      BY <1>0, <1>c, <1>i, <2>1, <3>2, <3>3
  <2>3. CASE UNCHANGED loads
    BY <1>k, <2>1, <2>3 DEF Holding
  <2> QED
    BY <1>7, <2>2, <2>3, NoCallFails
<1>8. ASSUME NEW e \in PresentEntries, SweepEntry(h, e)
      PROVE  LeftInv'
  <2>1. /\ UNCHANGED <<stage, crashes, faults>>
        /\ staged' = staged \/ staged' = staged \ {e.file}
        /\ loads' = loads \/ loads' = loads \ {<<e.file, e.handler>>}
    BY <1>8 DEF SweepEntry, bounds
  <2>2. held' = held /\ held \in {0, 1}
    BY <2>1
  <2> HIDE DEF held
  <2>3. /\ IsFiniteSet(staged') /\ Cardinality(staged') \in Nat
        /\ Cardinality(staged') <= Cardinality(staged)
    <3>1. CASE staged' = staged
      BY <1>c, <3>1
    <3>2. CASE staged' = staged \ {e.file}
      <4>1. LET R == staged \ {e.file} IN
              IsFiniteSet(R) /\ Cardinality(R) \in Nat /\ Cardinality(R) <= Cardinality(staged)
        BY <1>c, Removing, Zenon
      <4> QED
        BY <3>2, <4>1
    <3> QED
      BY <2>1, <3>1, <3>2
  <2>4. /\ IsFiniteSet(loads') /\ Cardinality(loads') \in Nat
        /\ Cardinality(loads') <= Cardinality(loads)
    <3>1. CASE loads' = loads
      BY <1>c, <3>1
    <3>2. CASE loads' = loads \ {<<e.file, e.handler>>}
      <4>1. LET R == loads \ {<<e.file, e.handler>>} IN
              IsFiniteSet(R) /\ Cardinality(R) \in Nat /\ Cardinality(R) <= Cardinality(loads)
        BY <1>c, Removing, Zenon
      <4> QED
        BY <3>2, <4>1
    <3> QED
      BY <2>1, <3>1, <3>2
  <2> QED
    BY <1>0, <1>c, <1>i, <2>1, <2>2, <2>3, <2>4
<1>9. CASE SweepEnds(h)
  <2>1. staged' = {} /\ loads' = {} /\ UNCHANGED <<crashes, faults>>
    <3>1. PresentEntries = {} /\ UNCHANGED <<staged, loads, crashes, faults>>
      BY <1>9 DEF SweepEnds, bounds
    <3>2. /\ \A f \in staged : [kind |-> "staged", file |-> f] \in PresentEntries
          /\ \A l \in loads :
               [kind |-> "load", file |-> l[1], handler |-> l[2]] \in PresentEntries
      BY DEF PresentEntries
    <3> QED
      BY <3>1, <3>2
  <2>2. held' \in {0, 1}
    OBVIOUS
  <2> HIDE DEF held
  <2>3. IsFiniteSet({}) /\ Cardinality({}) = 0
    BY FS_EmptySet
  <2>4. IsFiniteSet(staged') /\ IsFiniteSet(loads')
        /\ Cardinality(staged') = 0 /\ Cardinality(loads') = 0
    BY <2>1, <2>3
  <2> QED
    BY <1>0, <1>i, <2>1, <2>2, <2>4
<1> QED
  BY <1>1, <1>2, <1>3, <1>4, <1>5, <1>6, <1>7, <1>8, <1>9, NoCallFails DEF Step

(* Serving one request at a time, the temporary directory holds no more    *)
(* copies of files between requests than there were failed calls and       *)
(* restarts: every request whose calls succeed, whatever its answer,       *)
(* removes what it put there.                                              *)
THEOREM AloneLeftoversBounded == Alone => (Spec => []LeftoversBounded)
<1> SUFFICES ASSUME Alone
             PROVE  Spec => []LeftoversBounded
  OBVIOUS
<1> DEFINE Solo == \A h \in Handlers : SoloInv(h)
<1>1. Init => LeftInv
  <2> SUFFICES ASSUME Init
               PROVE  LeftInv
    OBVIOUS
  <2>1. Held \in {0, 1}
    BY DEF Held
  <2>2. staged = {} /\ loads = {} /\ crashes = 0 /\ faults = 0
    BY DEF Init
  <2>3. IsFiniteSet({}) /\ Cardinality({}) = 0
    BY FS_EmptySet
  <2> QED
    BY <2>1, <2>2, <2>3 DEF LeftInv
<1>2. IInv /\ Solo /\ LeftInv /\ [Next]_vars => LeftInv'
  <2> SUFFICES ASSUME IInv, Solo, LeftInv, [Next]_vars
               PROVE  LeftInv'
    OBVIOUS
  <2>1. CASE UNCHANGED vars
    BY <2>1 DEF vars, temp, bounds, LeftInv, Held
  <2>2. ASSUME NEW h \in Handlers, Begin(h) \/ Step(h) \/ Fail(h)
        PROVE  LeftInv'
    BY <2>2, LeftStep
  <2>3. CASE Crash
    <3>1. /\ Held \in {0, 1} /\ Held' \in {0, 1} /\ crashes' = crashes + 1
          /\ UNCHANGED <<staged, loads, faults>>
      BY <2>3 DEF Held, Crash, temp
    <3>2. /\ crashes \in Nat /\ faults \in Nat
          /\ Cardinality(staged) \in Nat /\ Cardinality(loads) \in Nat
      BY FS_CardinalityType DEF IInv, TypeInv, TypeOK, LeftInv
    <3> QED
      BY <3>1, <3>2 DEF LeftInv
  <2> QED
    BY <2>1, <2>2, <2>3 DEF Next
<1>3. IInv /\ LeftInv => LeftoversBounded
  <2> SUFFICES ASSUME IInv, LeftInv, \A h \in Handlers : stage[h] = "idle"
               PROVE  Cardinality(staged) + Cardinality(loads) <= crashes + faults
    BY DEF LeftoversBounded
  <2>1. Held = 0
    BY DEF Held, Holding
  <2>2. crashes \in Nat /\ faults \in Nat
    BY DEF IInv, TypeInv, TypeOK
  <2> QED
    BY <2>1, <2>2 DEF LeftInv
<1> HIDE DEF Solo
<1>4. Spec => []Solo
  BY SoloInvariant, PTL DEF Solo
<1> QED
  BY <1>1, <1>2, <1>3, <1>4, Invariance, PTL DEF Spec

-----------------------------------------------------------------------------
LEMMA NotFoundStep ==
  ASSUME Alone, IInv, NEW h \in Handlers, SoloInv(h), [Next]_vars,
         stage[h] # "idle", stage'[h] = "idle", reply'[h] = "notFound"
  PROVE  ~(op[h].existed /\ InRepository(op[h].file)) \/ faults' # faults
<1>0. /\ stage \in [Handlers -> {"idle"} \cup BusyStages] /\ reply \in [Handlers -> Replies]
      /\ reply[h] = "none" /\ faults \in Nat
  BY TypeParts DEF IInv, HandlersTyped, BoundsTyped, Unanswered
<1>1. Begin(h) \/ Step(h) \/ Fail(h)
  BY <1>0 DEF Next, Alone, Crash, vars
<1>8. Fail(h) => faults' # faults
  BY <1>0, FailAnswers
<1>2. ASSUME NEW r \in {"created", "error", "forbidden", "served"}, Answer(h, r)
      PROVE  FALSE
  BY <1>0, <1>2 DEF Answer
<1>3. ~UNCHANGED reply
  BY <1>0
<1>4. CASE ContentType(h) \/ LoadObject(h)
  <2>1. ~InRepository(op[h].file)
    BY <1>3, <1>4, NoCallFails DEF ContentType, Goto
  <2> QED
    BY <2>1
<1>5. ~Begin(h)
  BY <1>0 DEF Begin, RefuseEmpty, BeginUpload, BeginGet, BeginDelete, Accept
<1>6. ~PurgeObject(h) /\ ~\E e \in PresentEntries : SweepEntry(h, e)
  BY <1>0, <1>3 DEF PurgeObject, SweepEntry
<1>7. /\ ~CheckDir(h) /\ ~MakeDir(h) /\ ~Transfer(h) /\ ~PutObject(h) /\ ~Unstage(h)
      /\ ~MakeParent(h) /\ ~ReadBytes(h) /\ ~StartSweep(h) /\ ~SweepEnds(h) /\ ~Authorize(h)
  BY <1>2, <1>3, NoCallFails DEF CheckDir, MakeParent, SweepEnds, Loaded, Authorize, Goto
<1> QED
  BY <1>1, <1>4, <1>5, <1>6, <1>7, <1>8, NoCallFails DEF Step

(* Serving one request at a time, a file that is there during the whole    *)
(* request is found, unless a call of the request fails of itself: what    *)
(* failures and restarts have left behind before does not matter.          *)
THEOREM AloneFindsFiles == Alone => (Spec => ExistingFileIsFound)
<1> SUFFICES ASSUME Alone
             PROVE  Spec => ExistingFileIsFound
  OBVIOUS
<1>1. IInv /\ (\A h \in Handlers : SoloInv(h)) /\ [Next]_vars =>
        [\A h \in Handlers :
           stage[h] # "idle" /\ stage'[h] = "idle" /\ reply'[h] = "notFound" =>
             ~(op[h].existed /\ InRepository(op[h].file)) \/ faults' # faults]_vars
  BY NotFoundStep
<1> QED
  BY <1>1, SoloInvariant, PTL DEF Spec, ExistingFileIsFound
=============================================================================
