---------------------------- MODULE FileService -----------------------------
(***************************************************************************)
(* The file endpoints (upload, get, delete) as concurrent request handlers *)
(* over two shared stores: the OCFL repository, whose operations are       *)
(* atomic, and the temporary directory, where every upload is staged and   *)
(* every download is unpacked, and which each download sweeps away as a    *)
(* whole when it has read its bytes.                                       *)
(*                                                                         *)
(* One action is one call on a store; Fail is any of these calls failing   *)
(* for a reason of its own.  A file's content is its identifier: uploads   *)
(* get fresh UUIDs and nothing rewrites an object.                         *)
(***************************************************************************)
EXTENDS Integers, FiniteSets

CONSTANTS
  Handlers,     \* threads that serve requests
  Files,        \* file ids (a fresh UUID each) uploads can draw
  Users,        \* authenticated principals
  Backend,      \* those with the BACKEND role
  Nobody,       \* no owner: the repository has no such object
  MaxRequests,  \* bound on the requests served
  MaxCrashes,   \* bound on restarts of the service
  MaxFaults     \* bound on calls that fail for a reason of their own

ASSUME UsersAssumption == Backend \subseteq Users /\ Nobody \notin Users
ASSUME BoundsAssumption == MaxRequests \in Nat /\ MaxCrashes \in Nat /\ MaxFaults \in Nat

VARIABLES
  stored,     \* the OCFL repository: the user each object was stored for
  tempDir,    \* the temporary directory exists
  staged,     \* files in it that an upload put there
  parents,    \* directories output/<uuid> in it
  loads,      \* directories output/<uuid>/<timestamp>: file and handler
  stage,      \* the next call of each handler
  op,         \* the request each handler serves
  known,      \* files whose upload was answered with 201
  reply,      \* the last answer of each handler
  requests,   \* requests so far
  crashes,    \* restarts so far
  faults      \* failed calls so far

temp == <<tempDir, staged, parents, loads>>
bounds == <<requests, crashes, faults>>
vars == <<stored, temp, stage, op, known, reply, bounds>>

UploadStages == {"checkDir", "makeDir", "transfer", "put", "unstage"}
LoadStages   == {"contentType", "makeParent", "load", "read", "startSweep", "sweep"}
DeleteStages == {"authorize", "purge"}
Replies == {"none", "created", "served", "deleted",
            "badRequest", "forbidden", "notFound", "error"}

(* Everything a sweep may find below the temporary directory.              *)
Entries == [kind : {"staged", "parent"}, file : Files]
           \cup [kind : {"load"}, file : Files, handler : Handlers]

(* existed: the object was in the repository when the request arrived, and *)
(* until the request took its copy (history); listing: what the sweep found.*)
NoOp == [kind |-> "none"]
Ops  == {NoOp} \cup
        [kind : {"upload", "get", "delete"}, file : Files, user : Users,
         existed : BOOLEAN, listing : SUBSET Entries]

TypeOK ==
  /\ stored \in [Files -> Users \cup {Nobody}]
  /\ tempDir \in BOOLEAN
  /\ staged \subseteq Files /\ parents \subseteq Files
  /\ loads \subseteq (Files \X Handlers)
  /\ stage \in [Handlers -> {"idle"} \cup UploadStages \cup LoadStages \cup DeleteStages]
  /\ \A h \in Handlers : stage[h] = "idle" <=> op[h] = NoOp
  /\ known \subseteq Files
  /\ reply \in [Handlers -> Replies]
  /\ requests \in 0 .. MaxRequests /\ crashes \in 0 .. MaxCrashes /\ faults \in 0 .. MaxFaults
  /\ ~tempDir => staged = {} /\ parents = {} /\ loads = {}

Init ==
  /\ stored = [f \in Files |-> Nobody]
  /\ tempDir = FALSE /\ staged = {} /\ parents = {} /\ loads = {}
  /\ stage = [h \in Handlers |-> "idle"]
  /\ op = [h \in Handlers |-> NoOp]
  /\ known = {}
  /\ reply = [h \in Handlers |-> "none"]
  /\ requests = 0 /\ crashes = 0 /\ faults = 0

InRepository(f) == stored[f] # Nobody

Goto(h, s) == stage' = [stage EXCEPT ![h] = s] /\ UNCHANGED <<op, reply>>

Answer(h, r) ==
  /\ stage' = [stage EXCEPT ![h] = "idle"]
  /\ op' = [op EXCEPT ![h] = NoOp]
  /\ reply' = [reply EXCEPT ![h] = r]

Accept(h, kind, f, u, s) ==
  /\ stage[h] = "idle" /\ requests < MaxRequests
  /\ requests' = requests + 1
  /\ stage' = [stage EXCEPT ![h] = s]
  /\ op' = [op EXCEPT ![h] = [kind |-> kind, file |-> f, user |-> u,
                              existed |-> InRepository(f), listing |-> {}]]
  /\ reply' = [reply EXCEPT ![h] = "none"]
  /\ UNCHANGED <<stored, temp, known, crashes, faults>>

-----------------------------------------------------------------------------
(* Upload: fileUpload and storeFile.  Any exception ends it with a 500.    *)

(* The UUID is one no upload has drawn before.                             *)
Fresh(f) ==
  /\ ~InRepository(f) /\ f \notin known /\ f \notin staged
  /\ \A h \in Handlers : stage[h] # "idle" => op[h].file # f

(* fileUpload refuses a file that is empty or cannot be read before        *)
(* anything is done with it.                                               *)
RefuseEmpty(h) ==
  /\ stage[h] = "idle" /\ requests < MaxRequests
  /\ requests' = requests + 1
  /\ Answer(h, "badRequest")
  /\ UNCHANGED <<stored, temp, known, crashes, faults>>

BeginUpload(h, f, u) == Fresh(f) /\ Accept(h, "upload", f, u, "checkDir")

(* Mutant: the directory is created without looking whether it is there.   *)
AlwaysMakeDir(h) ==
  /\ stage[h] = "checkDir"
  /\ Goto(h, "makeDir")
  /\ UNCHANGED <<stored, temp, known, bounds>>

CheckDir(h) ==
  /\ stage[h] = "checkDir"
  /\ Goto(h, IF tempDir THEN "transfer" ELSE "makeDir")
  /\ UNCHANGED <<stored, temp, known, bounds>>

(* Files.createDirectory fails if another handler was faster.              *)
MakeDir(h) ==
  /\ stage[h] = "makeDir"
  /\ tempDir' = TRUE
  /\ IF tempDir THEN Answer(h, "error") ELSE Goto(h, "transfer")
  /\ UNCHANGED <<stored, staged, parents, loads, known, bounds>>

Transfer(h) ==
  /\ stage[h] = "transfer"
  /\ IF tempDir
     THEN staged' = staged \cup {op[h].file} /\ Goto(h, "put")
     ELSE Answer(h, "error") /\ UNCHANGED staged
  /\ UNCHANGED <<stored, tempDir, parents, loads, known, bounds>>

(* putObject and describeVersion: nothing else touches the new object, for *)
(* its id is not known yet.  The staged copy is still needed for the first.*)
PutObject(h) ==
  /\ stage[h] = "put"
  /\ IF op[h].file \in staged
     THEN stored' = [stored EXCEPT ![op[h].file] = op[h].user] /\ Goto(h, "unstage")
     ELSE Answer(h, "error") /\ UNCHANGED stored
  /\ UNCHANGED <<temp, known, bounds>>

(* Mutant: the staged file is left behind.                                 *)
LeaveStaged(h) ==
  /\ stage[h] = "unstage"
  /\ known' = known \cup {op[h].file} /\ Answer(h, "created")
  /\ UNCHANGED <<stored, temp, bounds>>

(* Files.delete of the staged file fails if it is gone.  It is storeFile's *)
(* last call: an upload that fails before it deletes nothing.              *)
Unstage(h) ==
  /\ stage[h] = "unstage"
  /\ staged' = staged \ {op[h].file}
  /\ IF op[h].file \in staged
     THEN known' = known \cup {op[h].file} /\ Answer(h, "created")
     ELSE Answer(h, "error") /\ UNCHANGED known
  /\ UNCHANGED <<stored, tempDir, parents, loads, bounds>>

-----------------------------------------------------------------------------
(* Get, and the first half of a delete: getFile.  Any exception ends the   *)
(* request with a 404.                                                     *)

BeginGet(h, f, u) == f \in known /\ Accept(h, "get", f, u, "contentType")

BeginDelete(h, f, u) == f \in known /\ Accept(h, "delete", f, u, "makeParent")

ContentType(h) ==
  /\ stage[h] = "contentType"
  /\ IF InRepository(op[h].file) THEN Goto(h, "makeParent") ELSE Answer(h, "notFound")
  /\ UNCHANGED <<stored, temp, known, bounds>>

(* Mutant: only the temporary directory is made.                           *)
MakeTempOnly(h) ==
  /\ stage[h] = "makeParent"
  /\ tempDir' = TRUE
  /\ Goto(h, "load")
  /\ UNCHANGED <<stored, staged, parents, loads, known, bounds>>

(* Files.createDirectories makes the temporary directory, too.             *)
MakeParent(h) ==
  /\ stage[h] = "makeParent"
  /\ tempDir' = TRUE
  /\ parents' = parents \cup {op[h].file}
  /\ Goto(h, "load")
  /\ UNCHANGED <<stored, staged, loads, known, bounds>>

(* ... unless a sweep removes one of the directories on the way.           *)
MakeParentFails(h) ==
  /\ stage[h] = "makeParent"
  /\ \E g \in Handlers : stage[g] = "sweep"
  /\ Answer(h, "notFound")
  /\ UNCHANGED <<stored, temp, known, bounds>>

(* Mutant: a copy is made without asking the repository.                   *)
LoadUnchecked(h) ==
  /\ stage[h] = "load"
  /\ IF op[h].file \in parents
     THEN loads' = loads \cup {<<op[h].file, h>>} /\ Goto(h, "read")
     ELSE Answer(h, "notFound") /\ UNCHANGED loads
  /\ UNCHANGED <<stored, tempDir, staged, parents, known, bounds>>

(* The repository moves a complete copy into the parent directory.         *)
LoadObject(h) ==
  /\ stage[h] = "load"
  /\ IF InRepository(op[h].file) /\ op[h].file \in parents
     THEN loads' = loads \cup {<<op[h].file, h>>} /\ Goto(h, "read")
     ELSE Answer(h, "notFound") /\ UNCHANGED loads
  /\ UNCHANGED <<stored, tempDir, staged, parents, known, bounds>>

ReadBytes(h) ==
  /\ stage[h] = "read"
  /\ IF <<op[h].file, h>> \in loads THEN Goto(h, "startSweep") ELSE Answer(h, "notFound")
  /\ UNCHANGED <<stored, temp, known, bounds>>

Loaded(h) ==
  IF op[h].kind = "get" THEN Answer(h, "served") ELSE Goto(h, "authorize")

(* deleteRecursively of the whole temporary directory walks the tree: what *)
(* is there when the walk starts, possibly entries created later.          *)
PresentEntries ==
  [kind : {"staged"}, file : staged] \cup [kind : {"parent"}, file : parents]
  \cup {[kind |-> "load", file |-> l[1], handler |-> l[2]] : l \in loads}

(* Mutant: the file is handed out without cleaning up.                     *)
SkipSweep(h) ==
  /\ stage[h] = "startSweep"
  /\ Loaded(h)
  /\ UNCHANGED <<stored, temp, known, bounds>>

StartSweep(h) ==
  /\ stage[h] = "startSweep"
  /\ IF tempDir
     THEN /\ op' = [op EXCEPT ![h].listing = PresentEntries]
          /\ stage' = [stage EXCEPT ![h] = "sweep"]
          /\ UNCHANGED reply
     ELSE Loaded(h)
  /\ UNCHANGED <<stored, temp, known, bounds>>

(* A directory can be removed only when it is empty.                       *)
Removable(e) ==
  e.kind = "parent" => \A l \in loads : l[1] # e.file

SweepEntry(h, e) ==
  /\ stage[h] = "sweep"
  /\ e \in PresentEntries /\ Removable(e)
  /\ staged' = IF e.kind = "staged" THEN staged \ {e.file} ELSE staged
  /\ parents' = IF e.kind = "parent" THEN parents \ {e.file} ELSE parents
  /\ loads' = IF e.kind = "load" THEN loads \ {<<e.file, e.handler>>} ELSE loads
  /\ op' = [op EXCEPT ![h].listing = @ \ {e}]
  /\ UNCHANGED <<stored, tempDir, stage, known, reply, bounds>>

(* Mutant: the walk does not fail when another has finished before it.     *)
SweepFailsOnMissing(h) ==
  /\ stage[h] = "sweep"
  /\ ~(op[h].listing \subseteq PresentEntries)
  /\ Answer(h, "notFound")
  /\ UNCHANGED <<stored, temp, known, bounds>>

(* An entry the walk has listed is gone, or a directory is not empty when  *)
(* its turn comes: the walk throws.                                        *)
SweepFails(h) ==
  /\ stage[h] = "sweep"
  /\ \/ ~(op[h].listing \subseteq PresentEntries)
     \/ \E e \in op[h].listing : ~Removable(e) /\ \A l \in loads : l[1] = e.file =>
          [kind |-> "load", file |-> l[1], handler |-> l[2]] \notin op[h].listing
     \/ op[h].listing = {} /\ (PresentEntries # {} \/ ~tempDir)
  /\ Answer(h, "notFound")
  /\ UNCHANGED <<stored, temp, known, bounds>>

(* Mutant: the directory is removed without regard to what came into it.   *)
SweepEndsAtOnce(h) ==
  /\ stage[h] = "sweep"
  /\ op[h].listing = {} /\ tempDir
  /\ tempDir' = FALSE
  /\ Loaded(h)
  /\ UNCHANGED <<stored, staged, parents, loads, known, bounds>>

SweepEnds(h) ==
  /\ stage[h] = "sweep"
  /\ op[h].listing = {} /\ PresentEntries = {} /\ tempDir
  /\ tempDir' = FALSE
  /\ Loaded(h)
  /\ UNCHANGED <<stored, staged, parents, loads, known, bounds>>

-----------------------------------------------------------------------------
(* The second half of a delete.                                            *)

(* Mutant: whoever can name a file may delete it.                          *)
AnyoneMayDelete(u, f) == InRepository(f)

(* canUserDeleteFile: the owner recorded in the repository, or a backend   *)
(* user; an object that is gone counts as not permitted.                   *)
MayDelete(u, f) == InRepository(f) /\ (stored[f] = u \/ u \in Backend)

Authorize(h) ==
  /\ stage[h] = "authorize"
  /\ IF MayDelete(op[h].user, op[h].file) THEN Goto(h, "purge") ELSE Answer(h, "forbidden")
  /\ UNCHANGED <<stored, temp, known, bounds>>

(* For the history: requests that have not taken their copy of the file.   *)
NotYetLoaded(g, f) ==
  stage[g] \in {"contentType", "makeParent", "load"} /\ op[g].file = f

PurgeObject(h) ==
  /\ stage[h] = "purge"
  /\ stored' = [stored EXCEPT ![op[h].file] = Nobody]
  /\ stage' = [stage EXCEPT ![h] = "idle"]
  /\ reply' = [reply EXCEPT ![h] = "deleted"]
  /\ op' = [g \in Handlers |->
              IF g = h THEN NoOp
              ELSE IF NotYetLoaded(g, op[h].file) THEN [op[g] EXCEPT !.existed = FALSE]
              ELSE op[g]]
  /\ UNCHANGED <<temp, known, bounds>>

-----------------------------------------------------------------------------
(* Failures that no other handler causes.                                  *)

(* What the request is answered when a call of it throws; an exception in  *)
(* canUserDeleteFile counts as not permitted.                              *)
FailureAnswer(s) ==
  CASE s \in UploadStages -> "error"
    [] s \in LoadStages -> "notFound"
    [] s = "authorize" -> "forbidden"
    [] OTHER -> "badRequest"

(* Any call of a request may throw: a disk is full, a permission is        *)
(* missing, the repository's storage does not answer.  No catch cleans up, *)
(* so the stores stay as they are.  A call that had its effect before it   *)
(* threw, or half of it, leaves what a failure at the next stage leaves: a *)
(* partial transferTo fails at "put", describeVersion after putObject at   *)
(* "unstage", reading after getObject at "read".                           *)
Fail(h) ==
  /\ stage[h] # "idle" /\ faults < MaxFaults
  /\ faults' = faults + 1
  /\ Answer(h, FailureAnswer(stage[h]))
  /\ UNCHANGED <<stored, temp, known, requests, crashes>>

(* A restart loses the requests in progress, not the directories.          *)
Crash ==
  /\ crashes < MaxCrashes
  /\ crashes' = crashes + 1
  /\ stage' = [h \in Handlers |-> "idle"]
  /\ op' = [h \in Handlers |-> NoOp]
  /\ UNCHANGED <<stored, temp, known, reply, requests, faults>>

-----------------------------------------------------------------------------
Begin(h) ==
  \/ RefuseEmpty(h)
  \/ \E f \in Files, u \in Users :
       BeginUpload(h, f, u) \/ BeginGet(h, f, u) \/ BeginDelete(h, f, u)

Step(h) ==
  \/ CheckDir(h) \/ MakeDir(h) \/ Transfer(h) \/ PutObject(h) \/ Unstage(h)
  \/ ContentType(h) \/ MakeParent(h) \/ MakeParentFails(h) \/ LoadObject(h) \/ ReadBytes(h)
  \/ StartSweep(h) \/ SweepFails(h) \/ SweepEnds(h)
  \/ \E e \in PresentEntries : SweepEntry(h, e)
  \/ Authorize(h) \/ PurgeObject(h)

Next == (\E h \in Handlers : Begin(h) \/ Step(h) \/ Fail(h)) \/ Crash

Spec == Init /\ [][Next]_vars

(* Every accepted request keeps its thread until it is answered; no call   *)
(* has to fail.                                                            *)
FairSpec == Spec /\ \A h \in Handlers : WF_vars(Step(h))

-----------------------------------------------------------------------------
(* Properties that hold however the handlers interleave.                   *)

(* An object leaves the repository only through the delete of the user it  *)
(* was stored for, or of a backend user: the owner cannot change between   *)
(* canUserDeleteFile and purgeObject.                                      *)
OnlyOwnerDeletes ==
  [][\A f \in Files : InRepository(f) /\ stored'[f] # stored[f] =>
       \E h \in Handlers :
         /\ op[h] # NoOp /\ op[h].kind = "delete" /\ op[h].file = f
         /\ op[h].user \in Backend \cup {stored[f]}]_vars

(* A get is answered with a file only if the repository still had it when  *)
(* the request took its copy, however far a concurrent delete has come:    *)
(* nothing that is left of a deleted object is ever served.                *)
ServedFileExisted ==
  [][\A h \in Handlers :
       stage[h] # "idle" /\ reply'[h] = "served" /\ stage'[h] = "idle" =>
         op[h].existed]_vars

(* However requests disturb each other's temporary files, an upload leaves *)
(* its staged copy behind ("storeFile and ensure temp is cleaned") only by *)
(* a call of its own that fails before Files.delete, or by a restart; what *)
(* is left gets swept and never comes back.                                *)
Uploading(f) == \E h \in Handlers : stage[h] \in {"put", "unstage"} /\ op[h].file = f
StagedOutlivesOnlyFailures ==
  [][\A f \in staged' : ~Uploading(f)' =>
       \/ f \in staged /\ ~Uploading(f)
       \/ crashes' # crashes \/ faults' # faults]_vars

(* Every request is answered: handlers that disturb each other's temporary *)
(* files make each other fail, they do not block each other.               *)
RequestsAreAnswered ==
  \A h \in Handlers : (stage[h] # "idle") ~> (stage[h] = "idle")

-----------------------------------------------------------------------------
(* Properties of requests that are served one at a time.                   *)

(* storeFile fails only if the file is empty or missing, paths are wrong or*)
(* permissions are not configured: nothing that earlier requests, failures *)
(* or restarts have left in the temporary directory makes an upload fail,  *)
(* only a failing call of its own does.                                    *)
UploadsSucceed ==
  [][\A h \in Handlers :
       stage[h] # "idle" /\ stage'[h] = "idle" /\ reply'[h] = "error" =>
         faults' # faults]_vars

(* An upload that is answered with "unable to store the uploaded file" has *)
(* stored nothing.                                                         *)
FailedUploadsStoreNothing ==
  [][\A h \in Handlers :
       stage[h] # "idle" /\ reply'[h] = "error" /\ stage'[h] = "idle" =>
         ~InRepository(op[h].file)]_vars

(* getFile fails only if the file does not exist or permissions are not    *)
(* correct: a file that is there throughout the request is "not found" only*)
(* when a call of this very request fails, whatever was left behind before.*)
ExistingFileIsFound ==
  [][\A h \in Handlers :
       stage[h] # "idle" /\ stage'[h] = "idle" /\ reply'[h] = "notFound" =>
         ~(op[h].existed /\ InRepository(op[h].file)) \/ faults' # faults]_vars

(* Between requests the temporary directory holds at most one copy of a    *)
(* file for each failed call and each restart: no request that was served, *)
(* refused or not found leaves any, and no failure leaves two.             *)
LeftoversBounded ==
  (\A h \in Handlers : stage[h] = "idle") =>
    Cardinality(staged) + Cardinality(loads) <= crashes + faults
=============================================================================
