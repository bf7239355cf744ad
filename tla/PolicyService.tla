--------------------------- MODULE PolicyService ----------------------------
(***************************************************************************)
(* The policy service: which policies apply to a submission                *)
(* (/policy/policies) and which repositories it may be deposited into      *)
(* (/policy/repositories).  A request reads the submission with its grants,*)
(* funders and policies in one transaction, the user in a second and the   *)
(* institution's policy in a third, while backend services edit all of     *)
(* them; what it compares are the images it read.                          *)
(*                                                                         *)
(* during[r] is the set of the contents the database had since request r   *)
(* arrived: what an answer is judged by.                                   *)
(***************************************************************************)
EXTENDS Integers, FiniteSets

CONSTANTS
  Requests,       \* requests, each sent once
  Grants,
  Funders,
  Policies,
  Repos,          \* repositories
  Institutional,  \* those named as the institutional repository
  Users,          \* users with the name of the principal
  Texts,          \* whatever else makes two images of a policy differ
  InitialDbs,     \* contents of the database to start from
  None,           \* no funder, no policy
  MaxEdits        \* bound on edits by backend services

Titles == {"institution", "other"}
Images == [title : Titles, repos : SUBSET Repos, text : Texts]

(* grants and effective belong to the submission.                          *)
Dbs == [exists     : BOOLEAN,
        grants     : SUBSET Grants,
        effective  : SUBSET Policies,
        primary    : [Grants -> Funders \cup {None}],
        direct     : [Grants -> Funders \cup {None}],
        policy     : [Funders -> Policies \cup {None}],
        image      : [Policies -> Images],
        named      : SUBSET Users,
        affiliated : SUBSET Users]

ASSUME PolicyAssumption ==
  /\ None \notin Funders /\ None \notin Policies
  /\ Institutional \subseteq Repos
  /\ InitialDbs \subseteq Dbs
  /\ IsFiniteSet(Policies) /\ IsFiniteSet(Users)
  /\ MaxEdits \in Nat

Copies == [policy : Policies, image : Images]
Kinds  == {"policies", "repositories"}
Stages == {"new", "submission", "user", "institution", "done"}
Types  == {"institution", "funder"}

(* policies lists copies with their type, optional and required are        *)
(* repositories.                                                           *)
Answers == [policies : SUBSET (Copies \X Types),
            optional : SUBSET Repos, required : SUBSET Repos]
Replies == {"none", "ok", "bad request", "error"}

VARIABLES
  db,         \* the database
  edits,      \* edits so far
  kind,       \* what each request asks for
  stage,      \* how far it is
  effective,  \* the effective policies as it read them
  found,      \* the policies that apply, as it read them
  reply,      \* the status of its answer
  answer,     \* its answer
  during      \* history: the contents of the database since it arrived

readVars == <<effective, found>>
replyVars == <<reply, answer>>
vars == <<db, edits, kind, stage, readVars, replyVars, during>>

Nothing == [policies |-> {}, optional |-> {}, required |-> {}]

TypeOK ==
  /\ db \in Dbs
  /\ edits \in Nat
  /\ kind \in [Requests -> Kinds]
  /\ stage \in [Requests -> Stages]
  /\ effective \in [Requests -> SUBSET Copies]
  /\ found \in [Requests -> SUBSET Copies]
  /\ reply \in [Requests -> Replies]
  /\ answer \in [Requests -> Answers]
  /\ during \in [Requests -> SUBSET Dbs]

Init ==
  /\ db \in InitialDbs
  /\ edits = 0
  /\ kind \in [Requests -> Kinds]
  /\ stage = [r \in Requests |-> "new"]
  /\ effective = [r \in Requests |-> {}]
  /\ found = [r \in Requests |-> {}]
  /\ reply = [r \in Requests |-> "none"]
  /\ answer = [r \in Requests |-> Nothing]
  /\ during = [r \in Requests |-> {}]

-----------------------------------------------------------------------------
(* What is read of a database d.                                           *)

CopyOf(d, p) == [policy |-> p, image |-> d.image[p]]

CopiesOf(d, policies) == {CopyOf(d, p) : p \in policies}

(* getFunders *)
FundersOf(d, g) == {d.primary[g], d.direct[g]} \ {None}

FunderPolicies(d) ==
  {d.policy[f] : f \in UNION {FundersOf(d, g) : g \in d.grants}} \ {None}

(* Mutant: some user of that name is an affiliate.                         *)
AnyoneIsAffiliate(d) == d.named \cap d.affiliated # {}

(* The principal is a unique user in the system, and an affiliate.         *)
UserIsAffiliate(d) == Cardinality(d.named) = 1 /\ d.named \subseteq d.affiliated

Titled(d) == {p \in Policies : d.image[p].title = "institution"}

(* The policy with the institution's title, if there is exactly one.       *)
InstitutionPolicy(d) == IF Cardinality(Titled(d)) = 1 THEN Titled(d) ELSE {}

-----------------------------------------------------------------------------
(* The requests.                                                           *)

Finish(r, status, content) ==
  /\ stage' = [stage EXCEPT ![r] = "done"]
  /\ reply' = [reply EXCEPT ![r] = status]
  /\ answer' = [answer EXCEPT ![r] = content]

Begin(r) ==
  /\ stage[r] = "new"
  /\ stage' = [stage EXCEPT ![r] = "submission"]
  /\ during' = [during EXCEPT ![r] = {db}]
  /\ UNCHANGED <<db, edits, kind, readVars, replyVars>>

(* The parameter is missing or not a number.                               *)
Refuse(r) ==
  /\ stage[r] = "new"
  /\ Finish(r, "bad request", Nothing)
  /\ UNCHANGED <<db, edits, kind, readVars, during>>

(* A submission that does not exist is null: the service throws.           *)
LoadSubmission(r) ==
  /\ stage[r] = "submission"
  /\ IF db.exists
     THEN /\ stage' = [stage EXCEPT ![r] = "user"]
          /\ effective' = [effective EXCEPT ![r] = CopiesOf(db, db.effective)]
          /\ found' = [found EXCEPT ![r] = CopiesOf(db, FunderPolicies(db))]
          /\ UNCHANGED replyVars
     ELSE /\ Finish(r, "error", Nothing)
          /\ UNCHANGED readVars
  /\ UNCHANGED <<db, edits, kind, during>>

(* Mutant: the title is the type.                                          *)
ListByTitle(copies) == {<<c, c.image.title>> : c \in copies}

(* doGetPolicies: the type of a policy is told by its title.               *)
ListPolicies(copies) ==
  {<<c, IF c.image.title = "institution" THEN "institution" ELSE "funder">> :
     c \in copies}

(* Mutant: the institutional repository is always optional.                *)
OptionalAlways(repos) == repos \cap Institutional

(* doGetRepositories: the institutional repository is optional if there is *)
(* another (size() > 1).                                                   *)
OptionalOf(repos) == {x \in repos \cap Institutional : repos # {x}}

(* Mutant: without the intersection with what the submission has agreed to.*)
ReposOfFound(agreed, copies) == UNION {c.image.repos : c \in copies}

(* retainAll compares whole images.                                        *)
ReposOf(agreed, copies) == UNION {c.image.repos : c \in agreed \cap copies}

AnswerTo(r, copies) ==
  LET repos == ReposOf(effective[r], copies) IN
  IF kind[r] = "policies"
  THEN [Nothing EXCEPT !.policies = ListPolicies(copies)]
  ELSE [Nothing EXCEPT !.optional = OptionalOf(repos),
                       !.required = repos \ OptionalOf(repos)]

LoadUser(r) ==
  /\ stage[r] = "user"
  /\ IF UserIsAffiliate(db)
     THEN /\ stage' = [stage EXCEPT ![r] = "institution"]
          /\ UNCHANGED replyVars
     ELSE Finish(r, "ok", AnswerTo(r, found[r]))
  /\ UNCHANGED <<db, edits, kind, readVars, during>>

LoadInstitution(r) ==
  LET copies == found[r] \cup CopiesOf(db, InstitutionPolicy(db)) IN
  /\ stage[r] = "institution"
  /\ found' = [found EXCEPT ![r] = copies]
  /\ Finish(r, "ok", AnswerTo(r, copies))
  /\ UNCHANGED <<db, edits, kind, effective, during>>

(* A query fails, or what it named is gone when it is loaded.              *)
Fail(r) ==
  /\ stage[r] \in {"submission", "user", "institution"}
  /\ Finish(r, "error", Nothing)
  /\ UNCHANGED <<db, edits, kind, readVars, during>>

-----------------------------------------------------------------------------
(* Backend services and submitters edit what the requests read.            *)

EditSubmission(grants, agreed, exists) ==
  /\ db.exists
  /\ db' = [db EXCEPT !.grants = grants, !.effective = agreed, !.exists = exists]

EditGrant(g, f, f2) == db' = [db EXCEPT !.primary[g] = f, !.direct[g] = f2]

EditFunder(f, p) == db' = [db EXCEPT !.policy[f] = p]

EditPolicy(p, i) == db' = [db EXCEPT !.image[p] = i]

EditUsers(named, affiliated) ==
  db' = [db EXCEPT !.named = named, !.affiliated = affiliated]

Edit ==
  /\ edits < MaxEdits
  /\ edits' = edits + 1
  /\ \/ \E grants \in SUBSET Grants, agreed \in SUBSET Policies, exists \in BOOLEAN :
          EditSubmission(grants, agreed, exists)
     \/ \E g \in Grants, f, f2 \in Funders \cup {None} : EditGrant(g, f, f2)
     \/ \E f \in Funders, p \in Policies \cup {None} : EditFunder(f, p)
     \/ \E p \in Policies, i \in Images : EditPolicy(p, i)
     \/ \E named, affiliated \in SUBSET Users : EditUsers(named, affiliated)
  /\ during' = [r \in Requests |->
                 IF stage[r] \in {"new", "done"} THEN during[r] ELSE during[r] \cup {db'}]
  /\ UNCHANGED <<kind, stage, readVars, replyVars>>

Next ==
  \/ \E r \in Requests : Begin(r) \/ Refuse(r)
  \/ \E r \in Requests : LoadSubmission(r) \/ LoadUser(r) \/ LoadInstitution(r)
  \/ \E r \in Requests : Fail(r)
  \/ Edit

Spec == Init /\ [][Next]_vars

-----------------------------------------------------------------------------
(* Properties.                                                             *)

Answered(r, k) == stage[r] = "done" /\ reply[r] = "ok" /\ kind[r] = k

(* What applies to a submission, by definition: the policies of the funders*)
(* of its grants, and the institution's policy for its affiliates.         *)
Granted(d, p) ==
  \E g \in d.grants, f \in Funders :
    (d.primary[g] = f \/ d.direct[g] = f) /\ d.policy[f] = p

UniqueAffiliate(d) == \E u \in d.affiliated : d.named = {u}

OnlyInstitutional(d, p) ==
  \A q \in Policies : d.image[q].title = "institution" <=> q = p

InstitutionApplies(d, p) == UniqueAffiliate(d) /\ OnlyInstitutional(d, p)

(* A policy that applied whenever the request might have looked.           *)
AppliedAlways(dbs, p) ==
  (\A d \in dbs : Granted(d, p)) \/ (\A d \in dbs : InstitutionApplies(d, p))

(* A policy that was an effective policy of the submission all the time,   *)
(* and was not edited.                                                     *)
AgreedAlways(dbs, p) ==
  /\ \A d \in dbs : p \in d.effective
  /\ \A d, e \in dbs : d.image[p] = e.image[p]

(* A policy that applied at some time; the user and the policy of the      *)
(* institution are looked up at different times.                           *)
AppliedOnce(dbs, p) ==
  \/ \E d \in dbs : Granted(d, p)
  \/ (\E d \in dbs : UniqueAffiliate(d)) /\ (\E d \in dbs : OnlyInstitutional(d, p))

(* /policy/policies lists every policy that applied to the submission      *)
(* throughout the request, and none that did not at some time of it; a     *)
(* policy is the institution's if it had the institution's title.          *)
PoliciesFit ==
  \A r \in Requests : Answered(r, "policies") =>
    /\ \A p \in Policies : AppliedAlways(during[r], p) =>
         \E x \in answer[r].policies : x[1].policy = p
    /\ \A x \in answer[r].policies :
         /\ AppliedOnce(during[r], x[1].policy)
         /\ \E d \in during[r] :
              (x[2] = "institution") <=> (d.image[x[1].policy].title = "institution")

(* /policy/repositories offers the repositories of every policy that       *)
(* applied to the submission and was agreed to throughout the request, and *)
(* none that is not of such a policy at some time of it.                   *)
Offered(r) == answer[r].optional \cup answer[r].required

RepositoriesFit ==
  \A r \in Requests : Answered(r, "repositories") =>
    /\ \A p \in Policies :
         AppliedAlways(during[r], p) /\ AgreedAlways(during[r], p)
           => \A d \in during[r] : d.image[p].repos \subseteq Offered(r)
    /\ \A x \in Offered(r) : \E p \in Policies :
         /\ AppliedOnce(during[r], p)
         /\ \E d \in during[r] : p \in d.effective /\ x \in d.image[p].repos

(* A submission with somewhere to go has a repository it must go to, unless*)
(* two repositories bear the institutional name ("repositories.size() > 1" *)
(* is about their number, not about their names).                          *)
SomethingRequired ==
  \A r \in Requests :
    (\A x, y \in Institutional : x = y) /\ Offered(r) # {} => answer[r].required # {}
=============================================================================
