-------------------------- MODULE JournalResolver ---------------------------
(***************************************************************************)
(* Resolving a DOI to a journal (PassDoiServiceController.getXrefMetadata  *)
(* and ElideConnector): ask Crossref, search PASS for the journal by name  *)
(* and by each ISSN, take the best match, complete it or create a journal. *)
(* Searches and writes are transactions of their own, a Journal has no     *)
(* version, and requests and the external journal loader run concurrently. *)
(***************************************************************************)
EXTENDS Integers, FiniteSets, Bags

CONSTANTS
  Workers,      \* threads that serve requests
  Ids,          \* journal ids the database can assign
  Records,      \* Crossref records: a title and a set of typed ISSNs
  Preloaded,    \* the tables of journals the service may start with
  NoTitle,      \* an empty title
  None,         \* no row, no thread, no value
  MaxLoads,     \* bound on updates by the journal loader
  MaxFaults     \* bound on failing transactions

Titles == {r.name : r \in Records}
Issns  == UNION {r.issns : r \in Records}

(* loader: nlmta or pmcParticipation is set (isUpdatedByJournalLoader).    *)
Journals == [name : Titles, issns : SUBSET Issns, loader : BOOLEAN]

Statuses == {"none", "400", "404", "422", "500"}

ASSUME JournalAssumption ==
  /\ None \notin Records /\ None \notin Journals /\ Ids \cap Statuses = {}
  /\ Preloaded \subseteq [Ids -> Journals \cup {None}]
  /\ \A r \in Records : IsFiniteSet(r.issns)
  /\ MaxLoads \in Nat /\ MaxFaults \in Nat

VARIABLES
  journals,   \* the pass_journal table
  stage,      \* the next step of each worker
  record,     \* the Crossref record each worker resolves
  todo,       \* the ISSNs it has still to search for
  created,    \* it has created a journal and searches for it
  hits,       \* what its searches found: a bag of images
  reply,      \* its last answer: a journal, or an HTTP status
  loads,      \* updates of the journal loader so far
  faults      \* failed transactions so far

workerVars == <<stage, record, todo, created, hits, reply>>
bounds == <<loads, faults>>
vars == <<journals, workerVars, bounds>>

Present == {j \in Ids : journals[j] # None}

(* A Journal object in memory: the row as it was read, with its id.        *)
Images == [id : Ids, row : Journals]

Stages == {"idle", "retrieve", "searchName", "searchIssns", "create", "update"}

TypeOK ==
  /\ journals \in [Ids -> Journals \cup {None}]
  /\ stage \in [Workers -> Stages]
  /\ \A w \in Workers :
       /\ record[w] \in Records \cup {None}
       /\ stage[w] \notin {"idle", "retrieve"} => record[w] # None
       /\ todo[w] \subseteq Issns /\ created[w] \in BOOLEAN
       /\ IsABag(hits[w]) /\ BagToSet(hits[w]) \subseteq Images
       /\ stage[w] = "create" => hits[w] = EmptyBag /\ record[w].issns # {}
       /\ stage[w] = "update" => BagToSet(hits[w]) # {}
  /\ reply \in [Workers -> Ids \cup Statuses]
  /\ loads \in 0 .. MaxLoads /\ faults \in 0 .. MaxFaults

Init ==
  /\ journals \in Preloaded
  /\ stage = [w \in Workers |-> "idle"]
  /\ record = [w \in Workers |-> None]
  /\ todo = [w \in Workers |-> {}]
  /\ created = [w \in Workers |-> FALSE]
  /\ hits = [w \in Workers |-> EmptyBag]
  /\ reply = [w \in Workers |-> "none"]
  /\ loads = 0 /\ faults = 0

Answer(w, r) ==
  /\ stage' = [stage EXCEPT ![w] = "idle"]
  /\ record' = [record EXCEPT ![w] = None]
  /\ todo' = [todo EXCEPT ![w] = {}]
  /\ created' = [created EXCEPT ![w] = FALSE]
  /\ hits' = [hits EXCEPT ![w] = EmptyBag]
  /\ reply' = [reply EXCEPT ![w] = r]

(* A request arrives; verify refuses what is not a DOI.                    *)
Begin(w) ==
  /\ stage[w] = "idle"
  /\ \/ Answer(w, "400")
     \/ /\ stage' = [stage EXCEPT ![w] = "retrieve"]
        /\ reply' = [reply EXCEPT ![w] = "none"]
        /\ UNCHANGED <<record, todo, created, hits>>
  /\ UNCHANGED <<journals, bounds>>

(* Crossref answers with a record, with an error status that is passed on, *)
(* with something that has no title (an exception, hence 422), unreadably  *)
(* or not in time (500).                                                   *)
Retrieve(w) ==
  /\ stage[w] = "retrieve"
  /\ \/ /\ record' \in {[record EXCEPT ![w] = r] : r \in Records}
        /\ stage' = [stage EXCEPT ![w] = "searchName"]
        /\ UNCHANGED <<todo, created, hits, reply>>
     \/ \E status \in {"404", "422", "500"} : Answer(w, status)
  /\ UNCHANGED <<journals, bounds>>

-----------------------------------------------------------------------------
(* find: every journal scores a point for each search that returns it.     *)

ImagesOf(ids) == SetToBag({[id |-> j, row |-> journals[j]] : j \in ids})

(* Mutant: the ISSNs are not searched for.                                 *)
SearchNameOnly(w) ==
  LET named == {j \in Present : journals[j].name = record[w].name} IN
  /\ stage[w] = "searchName"
  /\ hits' = [hits EXCEPT ![w] = ImagesOf(named)]
  /\ stage' = [stage EXCEPT ![w] = "searchIssns"]
  /\ UNCHANGED <<journals, record, todo, created, reply, bounds>>

SearchName(w) ==
  LET named == {j \in Present : journals[j].name = record[w].name} IN
  /\ stage[w] = "searchName"
  /\ hits' = [hits EXCEPT ![w] = ImagesOf(named)]
  /\ todo' = [todo EXCEPT ![w] = record[w].issns]
  /\ stage' = [stage EXCEPT ![w] = "searchIssns"]
  /\ UNCHANGED <<journals, record, created, reply, bounds>>

SearchIssn(w, issn) ==
  LET having == {j \in Present : issn \in journals[j].issns} IN
  /\ stage[w] = "searchIssns" /\ issn \in todo[w]
  /\ hits' = [hits EXCEPT ![w] = @ (+) ImagesOf(having)]
  /\ todo' = [todo EXCEPT ![w] = @ \ {issn}]
  /\ UNCHANGED <<journals, stage, record, created, reply, bounds>>

(* Mutant: any hit is taken for the best.                                  *)
AnyHit(bag) == BagToSet(bag)

(* The images with the highest score; the iteration order of a hash map    *)
(* picks one of them.                                                      *)
Best(bag) ==
  {i \in BagToSet(bag) : \A k \in BagToSet(bag) : bag[k] <= bag[i]}

(* Mutant: a title is enough to create a journal.                          *)
HasTitle(r) == r.name # NoTitle

Sufficient(r) == r.name # NoTitle /\ r.issns # {}

Searched(w) == stage[w] = "searchIssns" /\ todo[w] = {}

(* updateJournalInPass: there is a match to complete ...                   *)
Match(w) ==
  /\ Searched(w) /\ ~created[w] /\ hits[w] # EmptyBag
  /\ \E i \in Best(hits[w]) : hits' = [hits EXCEPT ![w] = SetToBag({i})]
  /\ stage' = [stage EXCEPT ![w] = "update"]
  /\ UNCHANGED <<journals, record, todo, created, reply, bounds>>

(* ... or a journal to create, if the record says enough.                  *)
NoMatch(w) ==
  /\ Searched(w) /\ ~created[w] /\ hits[w] = EmptyBag
  /\ IF Sufficient(record[w])
     THEN /\ stage' = [stage EXCEPT ![w] = "create"]
          /\ UNCHANGED <<record, todo, created, hits, reply>>
     ELSE Answer(w, "422")
  /\ UNCHANGED <<journals, bounds>>

(* The id to answer with comes from a second search.                       *)
Create(w) ==
  /\ stage[w] = "create"
  /\ \E j \in Ids :
       /\ journals[j] = None
       /\ journals' = [journals EXCEPT ![j] = [name |-> record[w].name,
                         issns |-> record[w].issns, loader |-> FALSE]]
  /\ created' = [created EXCEPT ![w] = TRUE]
  /\ stage' = [stage EXCEPT ![w] = "searchName"]
  /\ UNCHANGED <<record, todo, hits, reply, bounds>>

AnswerCreated(w) ==
  /\ Searched(w) /\ created[w]
  /\ IF hits[w] = EmptyBag THEN Answer(w, "422")
     ELSE \E i \in Best(hits[w]) : Answer(w, i.id)
  /\ UNCHANGED <<journals, bounds>>

(* Mutants: a journal of that title needs no update; ISSNs are replaced.   *)
CompletedByTitle(row, r) ==
  IF row.loader \/ row.name = r.name THEN row
  ELSE [row EXCEPT !.issns = @ \cup r.issns, !.name = r.name]
Overwritten(row, r) ==
  IF row.loader THEN row ELSE [row EXCEPT !.issns = r.issns, !.name = r.name]

(* updateJournalIfNeeded: a journal the loader maintains is left alone; any*)
(* other takes over the missing ISSNs and the title, even an empty one.    *)
Completed(row, r) ==
  IF row.loader THEN row
  ELSE [row EXCEPT !.issns = @ \cup r.issns, !.name = r.name]

Update(w) ==
  \E i \in BagToSet(hits[w]) :
    LET new == Completed(i.row, record[w]) IN
    /\ stage[w] = "update"
    /\ journals' = IF new = i.row THEN journals ELSE [journals EXCEPT ![i.id] = new]
    /\ Answer(w, i.id)
    /\ UNCHANGED bounds

(* A transaction fails: resolveJournal catches the exception.              *)
Fail(w) ==
  /\ stage[w] \notin {"idle", "retrieve"} /\ faults < MaxFaults
  /\ faults' = faults + 1
  /\ Answer(w, "422")
  /\ UNCHANGED <<journals, loads>>

(* The journal loader, another client of PASS, sets nlmta or participation.*)
JournalLoader(j) ==
  /\ j \in Present /\ loads < MaxLoads
  /\ loads' = loads + 1
  /\ journals' = [journals EXCEPT ![j].loader = TRUE]
  /\ UNCHANGED <<workerVars, faults>>

Step(w) ==
  \/ Retrieve(w)
  \/ SearchName(w) \/ \E issn \in Issns : SearchIssn(w, issn)
  \/ Match(w) \/ NoMatch(w) \/ Create(w) \/ AnswerCreated(w) \/ Update(w)

Next ==
  \/ \E w \in Workers : Begin(w) \/ Step(w) \/ Fail(w)
  \/ \E j \in Ids : JournalLoader(j)

Spec == Init /\ [][Next]_vars

-----------------------------------------------------------------------------
(* Properties.                                                             *)

Answered(w, j) == stage[w] # "idle" /\ stage'[w] = "idle" /\ reply'[w] = j

(* The journal a request is answered with is one of the record's, by title *)
(* or ISSN, also after it was completed, and, unless the journal loader    *)
(* maintains it, has every ISSN of the record ("Construct the most complete*)
(* Journal object possible from the two sources").  Which title a completed*)
(* journal should have is left open here.                                  *)
ResolvedIsComplete ==
  [][\A w \in Workers, j \in Ids :
       Answered(w, j) =>
         /\ \/ journals'[j].name = record[w].name
            \/ journals'[j].issns \cap record[w].issns # {}
         /\ ~journals'[j].loader => record[w].issns \subseteq journals'[j].issns]_vars

(* The journal a request is answered with matches the record at least as   *)
(* well as any other did, by the definition of a match: one point for the  *)
(* name, one for each ISSN.                                                *)
Score(row, r) == (IF row.name = r.name THEN 1 ELSE 0) + Cardinality(row.issns \cap r.issns)

ResolvedIsBestMatch ==
  [][\A w \in Workers, j \in Ids :
       Answered(w, j) /\ loads = 0 =>
         \A k \in Present : Score(journals[k], record[w]) <= Score(journals[j], record[w])]_vars

(* A journal is created only if PASS has none with its name or one of its  *)
(* ISSNs ("Use the Crossref version if we don't have it already in PASS"). *)
NoDuplicateCreated ==
  [][\A j \in Ids : journals[j] = None /\ journals'[j] # None =>
       \A k \in Present : Score(journals[k], journals'[j]) = 0]_vars

(* Completing a journal never takes an ISSN away from it ("Construct the   *)
(* most complete Journal object possible from the two sources").           *)
IssnsOnlyGrow ==
  [][\A j \in Present : journals[j].issns \subseteq journals'[j].issns]_vars
=============================================================================
