------------------------- MODULE PolicyServiceProofs ------------------------
(***************************************************************************)
(* Proofs about PolicyService, for any number of requests, grants, funders,*)
(* policies, repositories and edits.  The argument: whatever a request has *)
(* read it has read from a database that was there since it arrived        *)
(* (ReadInv), so an answer lies between what applied all the time and what *)
(* applied at some time (FoundFits); without edits the two are the same    *)
(* (QuietApplies).                                                         *)
(***************************************************************************)
EXTENDS PolicyService, FiniteSetTheorems, TLAPS

Active(r) == stage[r] \in {"submission", "user", "institution"}

(* The database as it is belongs to the history of every active request.   *)
DuringInv == \A r \in Requests : Active(r) => db \in during[r]

(* What a request read when it loaded the submission.                      *)
LoadedFrom(r, d) ==
  /\ effective[r] = CopiesOf(d, d.effective)
  /\ found[r] = CopiesOf(d, FunderPolicies(d))

ReadInv ==
  \A r \in Requests :
    /\ stage[r] \in {"user", "institution"} => \E d \in during[r] : LoadedFrom(r, d)
    /\ stage[r] = "institution" => \E d \in during[r] : UserIsAffiliate(d)

IInv ==
  /\ TypeOK
  /\ DuringInv
  /\ ReadInv
  /\ PoliciesFit
  /\ RepositoriesFit
  /\ SomethingRequired

(* All three properties, of one request.                                   *)
ListFits(dbs, list) ==
  /\ \A p \in Policies : AppliedAlways(dbs, p) => \E x \in list : x[1].policy = p
  /\ \A x \in list :
       /\ AppliedOnce(dbs, x[1].policy)
       /\ \E d \in dbs :
            (x[2] = "institution") <=> (d.image[x[1].policy].title = "institution")

OfferFits(dbs, offered) ==
  /\ \A p \in Policies :
       AppliedAlways(dbs, p) /\ AgreedAlways(dbs, p)
         => \A d \in dbs : d.image[p].repos \subseteq offered
  /\ \A x \in offered : \E p \in Policies :
       /\ AppliedOnce(dbs, p)
       /\ \E d \in dbs : p \in d.effective /\ x \in d.image[p].repos

AnswerFits(r) ==
  /\ Answered(r, "policies") => ListFits(during[r], answer[r].policies)
  /\ Answered(r, "repositories") => OfferFits(during[r], Offered(r))
  /\ (\A x, y \in Institutional : x = y) /\ Offered(r) # {} => answer[r].required # {}

-----------------------------------------------------------------------------
(* The code's queries compute what is meant.                               *)

(* The policies found along grants and funders are the granted ones.       *)
LEMMA FunderPoliciesAreGranted ==
  ASSUME NEW d \in Dbs
  PROVE  FunderPolicies(d) = {p \in Policies : Granted(d, p)}
<1>1. ASSUME NEW p \in FunderPolicies(d) PROVE p \in Policies /\ Granted(d, p)
  <2>1. PICK g \in d.grants : \E f \in FundersOf(d, g) : p = d.policy[f] /\ p # None
    BY DEF FunderPolicies
  <2> PICK f \in FundersOf(d, g) : p = d.policy[f] /\ p # None
    BY <2>1
  <2>2. f \in Funders /\ (d.primary[g] = f \/ d.direct[g] = f)
    BY DEF FundersOf, Dbs
  <2> QED
    BY <2>2 DEF Granted, Dbs
<1>2. ASSUME NEW p \in Policies, Granted(d, p) PROVE p \in FunderPolicies(d)
  <2>1. PICK g \in d.grants, f \in Funders :
          (d.primary[g] = f \/ d.direct[g] = f) /\ d.policy[f] = p
    BY <1>2 DEF Granted
  <2>2. f \in FundersOf(d, g) /\ p # None
    BY <2>1, PolicyAssumption DEF FundersOf
  <2> QED
    BY <2>1, <2>2 DEF FunderPolicies
<1> QED
  BY <1>1, <1>2

(* size() == 1 and a contained affiliation: a unique affiliate.            *)
LEMMA UserIsUniqueAffiliate ==
  ASSUME NEW d \in Dbs
  PROVE  UserIsAffiliate(d) <=> UniqueAffiliate(d)
<1>1. IsFiniteSet(d.named)
  BY PolicyAssumption, FS_Subset DEF Dbs
<1>2. Cardinality(d.named) = 1 <=> \E u : d.named = {u}
  BY <1>1, FS_Singleton
<1> QED
  BY <1>2 DEF UserIsAffiliate, UniqueAffiliate

(* The policy that is added is the only one with the institution's title.  *)
LEMMA InstitutionPolicyIsOnly ==
  ASSUME NEW d \in Dbs
  PROVE  InstitutionPolicy(d) = {p \in Policies : OnlyInstitutional(d, p)}
<1>1. IsFiniteSet(Titled(d)) /\ Titled(d) \subseteq Policies
  BY PolicyAssumption, FS_Subset DEF Titled
<1>2. Cardinality(Titled(d)) = 1 <=> \E p : Titled(d) = {p}
  BY <1>1, FS_Singleton
<1>3. \A p \in Policies : OnlyInstitutional(d, p) <=> Titled(d) = {p}
  BY DEF OnlyInstitutional, Titled
<1> QED
  BY <1>1, <1>2, <1>3 DEF InstitutionPolicy

-----------------------------------------------------------------------------
(* What LoadInstitution may have added to the policies that were found: the*)
(* institution's policy as of some database, or nothing.                   *)
Added(dbs, copies) ==
  \/ copies = {} /\ \E d \in dbs : ~UserIsAffiliate(d)
  \/ /\ \E d \in dbs : UserIsAffiliate(d)
     /\ \E d \in dbs : copies = CopiesOf(d, InstitutionPolicy(d))

Fits(dbs, copies) ==
  /\ \A p \in Policies : AppliedAlways(dbs, p) => \E c \in copies : c.policy = p
  /\ \A c \in copies :
       /\ c.policy \in Policies /\ AppliedOnce(dbs, c.policy)
       /\ \E d \in dbs : c = CopyOf(d, c.policy)

(* The copies of a complete search are copies of policies that applied at  *)
(* some time, and include one of each that applied all the time.           *)
LEMMA FoundFits ==
  ASSUME NEW dbs \in SUBSET Dbs, NEW d0 \in dbs, NEW more, Added(dbs, more)
  PROVE  Fits(dbs, CopiesOf(d0, FunderPolicies(d0)) \cup more)
<1> DEFINE copies == CopiesOf(d0, FunderPolicies(d0)) \cup more
<1>1. ASSUME NEW p \in Policies, AppliedAlways(dbs, p)
      PROVE  \E c \in copies : c.policy = p
  <2>1. CASE Granted(d0, p)
    <3>1. p \in FunderPolicies(d0)
      BY <2>1, FunderPoliciesAreGranted
    <3>2. CopyOf(d0, p) \in CopiesOf(d0, FunderPolicies(d0)) /\ CopyOf(d0, p).policy = p
      BY <3>1 DEF CopiesOf, CopyOf
    <3> QED
      BY <3>2
  <2>2. CASE \A d \in dbs : InstitutionApplies(d, p)
    <3>1. \A d \in dbs : UserIsAffiliate(d) /\ p \in InstitutionPolicy(d)
      BY <2>2, UserIsUniqueAffiliate, InstitutionPolicyIsOnly DEF InstitutionApplies
    <3>2. PICK d \in dbs : more = CopiesOf(d, InstitutionPolicy(d))
      BY <3>1 DEF Added
    <3>3. CopyOf(d, p) \in more /\ CopyOf(d, p).policy = p
      BY <3>1, <3>2 DEF CopiesOf, CopyOf
    <3> QED
      BY <3>3
  <2> QED
    BY <1>1, <2>1, <2>2 DEF AppliedAlways
<1>2. ASSUME NEW c \in copies
      PROVE  /\ c.policy \in Policies /\ AppliedOnce(dbs, c.policy)
             /\ \E d \in dbs : c = CopyOf(d, c.policy)
  <2>1. CASE c \in CopiesOf(d0, FunderPolicies(d0))
    <3>1. PICK p \in FunderPolicies(d0) : c = CopyOf(d0, p)
      BY <2>1 DEF CopiesOf
    <3>2. c.policy = p
      BY <3>1 DEF CopyOf
    <3> QED
      BY <3>1, <3>2, FunderPoliciesAreGranted DEF AppliedOnce
  <2>2. CASE c \in more
    <3>1. PICK d \in dbs : more = CopiesOf(d, InstitutionPolicy(d))
      BY <2>2 DEF Added
    <3>2. PICK p \in InstitutionPolicy(d) : c = CopyOf(d, p)
      BY <2>2, <3>1 DEF CopiesOf
    <3>3. c.policy = p
      BY <3>2 DEF CopyOf
    <3>4. p \in Policies /\ OnlyInstitutional(d, p)
      BY InstitutionPolicyIsOnly
    <3>5. \E e \in dbs : UniqueAffiliate(e)
      BY <2>2, UserIsUniqueAffiliate DEF Added
    <3> QED
      BY <3>2, <3>3, <3>4, <3>5 DEF AppliedOnce
  <2> QED
    BY <2>1, <2>2
<1> QED
  BY <1>1, <1>2 DEF Fits

LEMMA ListedFits ==
  ASSUME NEW dbs, NEW copies, Fits(dbs, copies)
  PROVE  ListFits(dbs, ListPolicies(copies))
<1>1. ASSUME NEW p \in Policies, AppliedAlways(dbs, p)
      PROVE  \E x \in ListPolicies(copies) : x[1].policy = p
  <2>1. PICK c \in copies : c.policy = p
    BY <1>1 DEF Fits
  <2> DEFINE x == <<c, IF c.image.title = "institution" THEN "institution" ELSE "funder">>
  <2>2. x \in ListPolicies(copies) /\ x[1].policy = p
    BY <2>1 DEF ListPolicies
  <2> QED
    BY <2>2
<1>2. ASSUME NEW x \in ListPolicies(copies)
      PROVE  /\ AppliedOnce(dbs, x[1].policy)
             /\ \E d \in dbs : (x[2] = "institution")
                  <=> (d.image[x[1].policy].title = "institution")
  <2>1. PICK c \in copies :
          x = <<c, IF c.image.title = "institution" THEN "institution" ELSE "funder">>
    BY DEF ListPolicies
  <2>2. x[1] = c /\ ((x[2] = "institution") <=> (c.image.title = "institution"))
    BY <2>1
  <2>3. PICK d \in dbs : c = CopyOf(d, c.policy)
    BY DEF Fits
  <2>4. c.image = d.image[c.policy]
    BY <2>3 DEF CopyOf
  <2> QED
    BY <2>2, <2>4 DEF Fits
<1> QED
  BY <1>1, <1>2 DEF ListFits

LEMMA OfferedFits ==
  ASSUME NEW dbs, NEW copies, Fits(dbs, copies), NEW d0 \in dbs
  PROVE  OfferFits(dbs, ReposOf(CopiesOf(d0, d0.effective), copies))
<1> DEFINE agreed == CopiesOf(d0, d0.effective)
<1>1. ASSUME NEW p \in Policies, AppliedAlways(dbs, p), AgreedAlways(dbs, p),
             NEW d \in dbs
      PROVE  d.image[p].repos \subseteq ReposOf(agreed, copies)
  <2>1. PICK c \in copies : c.policy = p
    BY <1>1 DEF Fits
  <2>2. PICK e \in dbs : c = CopyOf(e, p)
    BY <2>1 DEF Fits
  <2>3. CopyOf(d0, p) \in agreed
    BY <1>1 DEF AgreedAlways, CopiesOf
  <2>4. CopyOf(d0, p) = c /\ c.image = d.image[p]
    BY <1>1, <2>2 DEF AgreedAlways, CopyOf
  <2> QED
    BY <2>3, <2>4 DEF ReposOf
<1>2. ASSUME NEW x \in ReposOf(agreed, copies)
      PROVE  \E p \in Policies :
               /\ AppliedOnce(dbs, p)
               /\ \E d \in dbs : p \in d.effective /\ x \in d.image[p].repos
  <2>1. PICK c \in agreed \cap copies : x \in c.image.repos
    BY DEF ReposOf
  <2>2. PICK p \in d0.effective : c = CopyOf(d0, p)
    BY <2>1 DEF CopiesOf
  <2>3. c.policy = p /\ c.image = d0.image[p]
    BY <2>2 DEF CopyOf
  <2>4. p \in Policies /\ AppliedOnce(dbs, p)
    BY <2>1, <2>3 DEF Fits
  <2> QED
    BY <2>1, <2>2, <2>3, <2>4
<1> QED
  BY <1>1, <1>2 DEF OfferFits

(* With one institutional repository, not everything is optional.          *)
LEMMA NotAllOptional ==
  ASSUME NEW repos, repos # {}, \A x, y \in Institutional : x = y
  PROVE  repos \ OptionalOf(repos) # {}
<1> SUFFICES ASSUME repos \ OptionalOf(repos) = {}
             PROVE  FALSE
  OBVIOUS
<1>1. PICK x \in repos : TRUE
  OBVIOUS
<1>2. x \in Institutional /\ repos # {x}
  BY <1>1 DEF OptionalOf
<1>3. PICK y \in repos : y # x
  BY <1>2
<1> QED
  BY <1>2, <1>3 DEF OptionalOf

-----------------------------------------------------------------------------
(* Types.                                                                  *)
LEMMA CopiesTyped ==
  ASSUME NEW d \in Dbs, NEW policies \in SUBSET Policies
  PROVE  CopiesOf(d, policies) \in SUBSET Copies
BY DEF CopiesOf, CopyOf, Copies, Dbs

LEMMA AnswerTyped ==
  ASSUME TypeOK, NEW r \in Requests, NEW copies \in SUBSET Copies
  PROVE  AnswerTo(r, copies) \in Answers
<1>1. ListPolicies(copies) \in SUBSET (Copies \X Types)
  BY DEF ListPolicies, Types
<1>2. ReposOf(effective[r], copies) \in SUBSET Repos
  BY DEF ReposOf, TypeOK, Copies, Images
<1>3. \A repos \in SUBSET Repos : OptionalOf(repos) \in SUBSET Repos
  BY DEF OptionalOf
<1>4. Nothing \in Answers
  BY DEF Nothing, Answers
<1>5. /\ [Nothing EXCEPT !.policies = ListPolicies(copies)] \in Answers
      /\ \A repos \in SUBSET Repos :
           [Nothing EXCEPT !.optional = OptionalOf(repos),
                           !.required = repos \ OptionalOf(repos)] \in Answers
  BY <1>1, <1>3, <1>4 DEF Nothing, Answers
<1> QED
  BY <1>2, <1>5 DEF AnswerTo

(* The policies a request finds are policies.                              *)
LEMMA PoliciesFound ==
  ASSUME NEW d \in Dbs
  PROVE  FunderPolicies(d) \subseteq Policies /\ InstitutionPolicy(d) \subseteq Policies
BY FunderPoliciesAreGranted, InstitutionPolicyIsOnly

LEMMA EditTyped ==
  ASSUME TypeOK, Edit
  PROVE  db' \in Dbs
<1>1. db \in Dbs
  BY DEF TypeOK
<1>2. ASSUME NEW grants \in SUBSET Grants, NEW agreed \in SUBSET Policies,
             NEW exists \in BOOLEAN, EditSubmission(grants, agreed, exists)
      PROVE  db' \in Dbs
  BY <1>1, <1>2 DEF EditSubmission, Dbs
<1>3. ASSUME NEW g \in Grants, NEW f \in Funders \cup {None},
             NEW f2 \in Funders \cup {None}, EditGrant(g, f, f2)
      PROVE  db' \in Dbs
  <2>1. /\ [db.primary EXCEPT ![g] = f] \in [Grants -> Funders \cup {None}]
        /\ [db.direct EXCEPT ![g] = f2] \in [Grants -> Funders \cup {None}]
    BY <1>1 DEF Dbs
  <2>2. db' = [[db EXCEPT !.primary = [db.primary EXCEPT ![g] = f]]
                  EXCEPT !.direct = [db.direct EXCEPT ![g] = f2]]
    BY <1>1, <1>3 DEF EditGrant, Dbs
  <2> QED
    BY <1>1, <2>1, <2>2 DEF Dbs
<1>4. ASSUME NEW f \in Funders, NEW p \in Policies \cup {None}, EditFunder(f, p)
      PROVE  db' \in Dbs
  <2>1. [db.policy EXCEPT ![f] = p] \in [Funders -> Policies \cup {None}]
    BY <1>1 DEF Dbs
  <2>2. db' = [db EXCEPT !.policy = [db.policy EXCEPT ![f] = p]]
    BY <1>1, <1>4 DEF EditFunder, Dbs
  <2> QED
    BY <1>1, <2>1, <2>2 DEF Dbs
<1>5. ASSUME NEW p \in Policies, NEW i \in Images, EditPolicy(p, i)
      PROVE  db' \in Dbs
  <2>1. [db.image EXCEPT ![p] = i] \in [Policies -> Images]
    BY <1>1 DEF Dbs
  <2>2. db' = [db EXCEPT !.image = [db.image EXCEPT ![p] = i]]
    BY <1>1, <1>5 DEF EditPolicy, Dbs
  <2> QED
    BY <1>1, <2>1, <2>2 DEF Dbs
<1>6. ASSUME NEW named \in SUBSET Users, NEW affiliated \in SUBSET Users,
             EditUsers(named, affiliated)
      PROVE  db' \in Dbs
  BY <1>1, <1>6 DEF EditUsers, Dbs
<1> QED
  BY <1>2, <1>3, <1>4, <1>5, <1>6 DEF Edit

LEMMA TypeStep ==
  ASSUME TypeOK, [Next]_vars
  PROVE  TypeOK'
<1> USE DEF TypeOK
<1>n. Nothing \in Answers
  BY DEF Nothing, Answers
<1>r. "ok" \in Replies /\ "error" \in Replies /\ "bad request" \in Replies
  BY DEF Replies
<1>s. {"submission", "user", "institution", "done"} \subseteq Stages
  BY DEF Stages
<1>f. ASSUME NEW r \in Requests, NEW status \in Replies, NEW content \in Answers,
             Finish(r, status, content)
      PROVE  /\ stage' \in [Requests -> Stages]
             /\ reply' \in [Requests -> Replies]
             /\ answer' \in [Requests -> Answers]
  BY <1>f, <1>s DEF Finish
<1>1. ASSUME NEW r \in Requests, Begin(r)
      PROVE  TypeOK'
  BY <1>1, <1>s DEF Begin, readVars, replyVars
<1>2. ASSUME NEW r \in Requests, Refuse(r)
      PROVE  TypeOK'
  BY <1>2, <1>f, <1>n, <1>r DEF Refuse, readVars
<1>3. ASSUME NEW r \in Requests, LoadSubmission(r)
      PROVE  TypeOK'
  <2>1. CASE db.exists
    <3>1. /\ CopiesOf(db, db.effective) \in SUBSET Copies
          /\ CopiesOf(db, FunderPolicies(db)) \in SUBSET Copies
      <4>1. db.effective \in SUBSET Policies
        BY DEF Dbs
      <4> QED
        BY <4>1, CopiesTyped, PoliciesFound
    <3> QED
      BY <1>3, <1>s, <2>1, <3>1 DEF LoadSubmission, replyVars
  <2>2. CASE ~db.exists
    BY <1>3, <1>f, <1>n, <1>r, <2>2 DEF LoadSubmission, readVars
  <2> QED
    BY <2>1, <2>2
<1>4. ASSUME NEW r \in Requests, LoadUser(r)
      PROVE  TypeOK'
  <2>1. CASE UserIsAffiliate(db)
    BY <1>4, <1>s, <2>1 DEF LoadUser, readVars, replyVars
  <2>2. CASE ~UserIsAffiliate(db)
    <3>1. AnswerTo(r, found[r]) \in Answers
      BY AnswerTyped
    <3> QED
      BY <1>4, <1>f, <1>r, <2>2, <3>1 DEF LoadUser, readVars
  <2> QED
    BY <2>1, <2>2
<1>5. ASSUME NEW r \in Requests, LoadInstitution(r)
      PROVE  TypeOK'
  <2> DEFINE copies == found[r] \cup CopiesOf(db, InstitutionPolicy(db))
  <2>1. copies \in SUBSET Copies
    BY CopiesTyped, PoliciesFound
  <2>2. AnswerTo(r, copies) \in Answers
    BY <2>1, AnswerTyped
  <2> QED
    BY <1>5, <1>f, <1>r, <2>1, <2>2 DEF LoadInstitution
<1>6. ASSUME NEW r \in Requests, Fail(r)
      PROVE  TypeOK'
  BY <1>6, <1>f, <1>n, <1>r DEF Fail, readVars
<1>7. ASSUME Edit
      PROVE  TypeOK'
  <2>1. db' \in Dbs
    BY <1>7, EditTyped
  <2>2. /\ edits' = edits + 1
        /\ UNCHANGED <<kind, stage, effective, found, reply, answer>>
    BY <1>7 DEF Edit, readVars, replyVars
  <2>3. during' = [r \in Requests |->
                    IF stage[r] \in {"new", "done"} THEN during[r] ELSE during[r] \cup {db'}]
    BY <1>7 DEF Edit
  <2>4. during' \in [Requests -> SUBSET Dbs]
    BY <2>1, <2>3
  <2> QED
    BY <2>1, <2>2, <2>4
<1>8. CASE UNCHANGED vars
  BY <1>8 DEF vars, readVars, replyVars
<1> QED
  BY <1>1, <1>2, <1>3, <1>4, <1>5, <1>6, <1>7, <1>8 DEF Next

-----------------------------------------------------------------------------
(* The history of a request.                                               *)
LEMMA DuringStep ==
  ASSUME TypeOK, DuringInv, [Next]_vars
  PROVE  DuringInv'
<1> USE DEF TypeOK, DuringInv, Active
<1>1. ASSUME NEW r \in Requests, Begin(r)
      PROVE  DuringInv'
  BY <1>1 DEF Begin
<1>2. ASSUME NEW r \in Requests,
             Refuse(r) \/ LoadSubmission(r) \/ LoadUser(r) \/ LoadInstitution(r) \/ Fail(r)
      PROVE  DuringInv'
  <2>1. UNCHANGED <<db, during>> /\ \A q \in Requests : Active(q)' => Active(q)
    <3>1. UNCHANGED <<db, during>>
      BY <1>2 DEF Refuse, LoadSubmission, LoadUser, LoadInstitution, Fail
    <3>2. \/ \E x : stage' = [stage EXCEPT ![r] = x] /\ Active(r)
          \/ stage' = [stage EXCEPT ![r] = "done"]
      BY <1>2 DEF Refuse, LoadSubmission, LoadUser, LoadInstitution, Fail, Finish
    <3> QED
      BY <3>1, <3>2
  <2> QED
    BY <2>1
<1>3. ASSUME Edit
      PROVE  DuringInv'
  <2>1. /\ UNCHANGED stage
        /\ during' = [r \in Requests |->
             IF stage[r] \in {"new", "done"} THEN during[r] ELSE during[r] \cup {db'}]
    BY <1>3 DEF Edit
  <2> QED
    BY <2>1
<1>4. CASE UNCHANGED vars
  BY <1>4 DEF vars
<1> QED
  BY <1>1, <1>2, <1>3, <1>4 DEF Next

(* The history only grows, and what an active request has read stays.      *)
LEMMA ReadStep ==
  ASSUME TypeOK, DuringInv, ReadInv, [Next]_vars
  PROVE  ReadInv'
<1> DEFINE Read(r) ==
      /\ stage[r] \in {"user", "institution"} => \E d \in during[r] : LoadedFrom(r, d)
      /\ stage[r] = "institution" => \E d \in during[r] : UserIsAffiliate(d)
<1> USE DEF TypeOK
<1>0. \A r \in Requests : Read(r)
  BY DEF ReadInv
<1>1. ASSUME NEW r \in Requests, stage'[r] = stage[r], during[r] \subseteq during'[r],
             effective'[r] = effective[r], found'[r] = found[r]
      PROVE  Read(r)'
  BY <1>0, <1>1 DEF LoadedFrom
<1>2. ASSUME NEW r \in Requests, stage'[r] \notin {"user", "institution"}
      PROVE  Read(r)'
  BY <1>2
<1>3. ASSUME NEW r \in Requests, Begin(r) \/ Refuse(r) \/ Fail(r) \/ LoadInstitution(r),
             NEW q \in Requests
      PROVE  Read(q)'
  <2>1. CASE q = r
    <3>1. stage'[q] \in {"submission", "done"}
      BY <1>3, <2>1 DEF Begin, Refuse, Fail, LoadInstitution, Finish
    <3> QED
      BY <1>2, <3>1
  <2>2. CASE q # r
    <3>1. /\ stage'[q] = stage[q] /\ during[q] \subseteq during'[q]
          /\ effective'[q] = effective[q] /\ found'[q] = found[q]
      BY <1>3, <2>2 DEF Begin, Refuse, Fail, LoadInstitution, Finish, readVars
    <3> QED
      BY <1>1, <3>1
  <2> QED
    BY <2>1, <2>2
<1>4. ASSUME NEW r \in Requests, LoadSubmission(r), NEW q \in Requests
      PROVE  Read(q)'
  <2>0. db \in during[r]
    BY <1>4 DEF DuringInv, Active, LoadSubmission
  <2>1. CASE q = r /\ db.exists
    <3>1. LoadedFrom(r, db)' /\ stage'[r] = "user" /\ db' = db /\ during' = during
      BY <1>4, <2>1 DEF LoadSubmission, LoadedFrom
    <3> QED
      BY <2>0, <2>1, <3>1 DEF LoadedFrom
  <2>2. CASE q = r /\ ~db.exists
    <3>1. stage'[q] = "done"
      BY <1>4, <2>2 DEF LoadSubmission, Finish
    <3> QED
      BY <1>2, <3>1
  <2>3. CASE q # r
    <3>1. /\ stage'[q] = stage[q] /\ during[q] \subseteq during'[q]
          /\ effective'[q] = effective[q] /\ found'[q] = found[q]
      BY <1>4, <2>3 DEF LoadSubmission, Finish, readVars
    <3> QED
      BY <1>1, <3>1
  <2> QED
    BY <2>1, <2>2, <2>3
<1>5. ASSUME NEW r \in Requests, LoadUser(r), NEW q \in Requests
      PROVE  Read(q)'
  <2>0. /\ db \in during[r] /\ stage[r] = "user"
        /\ UNCHANGED <<effective, found, during>>
    BY <1>5 DEF DuringInv, Active, LoadUser, readVars
  <2>1. CASE q = r /\ UserIsAffiliate(db)
    <3>1. PICK d \in during[r] : LoadedFrom(r, d)
      BY <1>0, <2>0
    <3>2. LoadedFrom(r, d)'
      BY <2>0, <3>1 DEF LoadedFrom
    <3> QED
      BY <2>0, <2>1, <3>2 DEF LoadedFrom
  <2>2. CASE q = r /\ ~UserIsAffiliate(db)
    <3>1. stage'[q] = "done"
      BY <1>5, <2>2 DEF LoadUser, Finish
    <3> QED
      BY <1>2, <3>1
  <2>3. CASE q # r
    <3>1. stage'[q] = stage[q]
      BY <1>5, <2>3 DEF LoadUser, Finish
    <3> QED
      BY <1>1, <2>0, <3>1
  <2> QED
    BY <2>1, <2>2, <2>3
<1>6. ASSUME Edit, NEW q \in Requests
      PROVE  Read(q)'
  <2>1. /\ UNCHANGED <<stage, effective, found>>
        /\ during' = [r \in Requests |->
             IF stage[r] \in {"new", "done"} THEN during[r] ELSE during[r] \cup {db'}]
    BY <1>6 DEF Edit, readVars
  <2>2. during[q] \subseteq during'[q]
    BY <2>1
  <2> QED
    BY <1>1, <2>1, <2>2
<1>7. ASSUME UNCHANGED vars, NEW q \in Requests
      PROVE  Read(q)'
  BY <1>0, <1>7 DEF vars, readVars, LoadedFrom
<1>8. \A q \in Requests : Read(q)'
  BY <1>3, <1>4, <1>5, <1>6, <1>7 DEF Next
<1> QED
  BY <1>8 DEF ReadInv

-----------------------------------------------------------------------------
(* The answers.                                                            *)
LEMMA AnswersFit ==
  (\A r \in Requests : AnswerFits(r))
    <=> PoliciesFit /\ RepositoriesFit /\ SomethingRequired
BY DEF AnswerFits, ListFits, OfferFits, PoliciesFit, RepositoriesFit, SomethingRequired

LEMMA FittingAnswer ==
  ASSUME NEW r \in Requests, NEW copies, NEW d0 \in during[r],
         Fits(during[r], copies), effective[r] = CopiesOf(d0, d0.effective),
         kind'[r] = kind[r], during'[r] = during[r], kind[r] \in Kinds,
         answer'[r] = AnswerTo(r, copies)
  PROVE  AnswerFits(r)'
<1> DEFINE repos == ReposOf(effective[r], copies)
<1>1. CASE kind[r] = "policies"
  <2>1. /\ answer'[r].policies = ListPolicies(copies)
        /\ answer'[r].optional = {} /\ answer'[r].required = {}
    BY <1>1 DEF AnswerTo, Nothing
  <2>2. ListFits(during[r], answer'[r].policies)
    BY <2>1, ListedFits
  <2> QED
    BY <1>1, <2>1, <2>2 DEF AnswerFits, Answered, Offered, ListFits
<1>2. CASE kind[r] = "repositories"
  <2>1. /\ answer'[r].optional = OptionalOf(repos)
        /\ answer'[r].required = repos \ OptionalOf(repos)
    BY <1>2 DEF AnswerTo, Nothing
  <2>2. answer'[r].optional \cup answer'[r].required = repos
    BY <2>1 DEF OptionalOf
  <2>3. OfferFits(during[r], repos)
    BY OfferedFits
  <2>4. (\A x, y \in Institutional : x = y) /\ repos # {} => answer'[r].required # {}
    BY <2>1, NotAllOptional
  <2> QED
    BY <1>2, <2>2, <2>3, <2>4 DEF AnswerFits, Answered, Offered, OfferFits
<1> QED
  BY <1>1, <1>2 DEF Kinds

LEMMA AnswerStep ==
  ASSUME TypeOK, DuringInv, ReadInv, \A r \in Requests : AnswerFits(r), [Next]_vars
  PROVE  \A r \in Requests : AnswerFits(r)'
<1> USE DEF TypeOK
<1>1. ASSUME NEW q \in Requests, answer'[q] = answer[q],
             \/ stage'[q] # "done"
             \/ /\ stage'[q] = stage[q] /\ reply'[q] = reply[q]
                /\ kind'[q] = kind[q] /\ during'[q] = during[q]
      PROVE  AnswerFits(q)'
  BY <1>1 DEF AnswerFits, Answered, Offered, ListFits, OfferFits
<1>2. ASSUME NEW r \in Requests, NEW status, status # "ok", Finish(r, status, Nothing)
      PROVE  AnswerFits(r)'
  BY <1>2 DEF Finish, Nothing, AnswerFits, Answered, Offered
<1>3. ASSUME NEW r \in Requests, NEW q \in Requests, q # r,
             \/ Begin(r) \/ Refuse(r) \/ LoadSubmission(r) \/ LoadUser(r)
             \/ LoadInstitution(r) \/ Fail(r)
      PROVE  AnswerFits(q)'
  <2>1. /\ answer'[q] = answer[q] /\ stage'[q] = stage[q] /\ reply'[q] = reply[q]
        /\ kind'[q] = kind[q] /\ during'[q] = during[q]
    BY <1>3 DEF Begin, Refuse, LoadSubmission, LoadUser, LoadInstitution, Fail, Finish,
                replyVars
  <2> QED
    BY <1>1, <2>1
<1>4. ASSUME NEW r \in Requests, Begin(r)
      PROVE  AnswerFits(r)'
  BY <1>1, <1>4 DEF Begin, replyVars
<1>5. ASSUME NEW r \in Requests, Refuse(r) \/ Fail(r)
      PROVE  AnswerFits(r)'
  BY <1>2, <1>5 DEF Refuse, Fail
<1>6. ASSUME NEW r \in Requests, LoadSubmission(r)
      PROVE  AnswerFits(r)'
  <2>1. CASE db.exists
    BY <1>1, <1>6, <2>1 DEF LoadSubmission, replyVars
  <2>2. CASE ~db.exists
    BY <1>2, <1>6, <2>2 DEF LoadSubmission
  <2> QED
    BY <2>1, <2>2
<1>7. ASSUME NEW r \in Requests, LoadUser(r)
      PROVE  AnswerFits(r)'
  <2>1. CASE UserIsAffiliate(db)
    BY <1>1, <1>7, <2>1 DEF LoadUser, replyVars
  <2>2. CASE ~UserIsAffiliate(db)
    <3>1. /\ db \in during[r] /\ during[r] \in SUBSET Dbs
          /\ \E d \in during[r] : LoadedFrom(r, d)
      BY <1>7 DEF LoadUser, DuringInv, ReadInv, Active
    <3>2. PICK d \in during[r] : LoadedFrom(r, d)
      BY <3>1
    <3>3. Added(during[r], {})
      BY <2>2, <3>1 DEF Added
    <3>4. Fits(during[r], CopiesOf(d, FunderPolicies(d)) \cup {})
      BY <3>1, <3>3, FoundFits
    <3>5. Fits(during[r], found[r])
      <4>1. CopiesOf(d, FunderPolicies(d)) \cup {} = found[r]
        BY <3>2 DEF LoadedFrom
      <4> QED
        BY <3>4, <4>1
    <3>6. /\ kind'[r] = kind[r] /\ during'[r] = during[r] /\ kind[r] \in Kinds
          /\ answer'[r] = AnswerTo(r, found[r])
      BY <1>7, <2>2 DEF LoadUser, Finish
    <3> QED
      BY <3>2, <3>5, <3>6, FittingAnswer DEF LoadedFrom
  <2> QED
    BY <2>1, <2>2
<1>8. ASSUME NEW r \in Requests, LoadInstitution(r)
      PROVE  AnswerFits(r)'
  <2> DEFINE more == CopiesOf(db, InstitutionPolicy(db))
  <2>1. /\ db \in during[r] /\ during[r] \in SUBSET Dbs
        /\ \E d \in during[r] : UserIsAffiliate(d)
        /\ \E d \in during[r] : LoadedFrom(r, d)
    BY <1>8 DEF LoadInstitution, DuringInv, ReadInv, Active
  <2>2. PICK d \in during[r] : LoadedFrom(r, d)
    BY <2>1
  <2>3. Added(during[r], more)
    BY <2>1 DEF Added
  <2>4. Fits(during[r], CopiesOf(d, FunderPolicies(d)) \cup more)
    BY <2>1, <2>3, FoundFits
  <2>5. Fits(during[r], found[r] \cup more)
    BY <2>2, <2>4 DEF LoadedFrom
  <2>6. /\ kind'[r] = kind[r] /\ during'[r] = during[r] /\ kind[r] \in Kinds
        /\ answer'[r] = AnswerTo(r, found[r] \cup more)
    BY <1>8 DEF LoadInstitution, Finish
  <2> QED
    BY <2>2, <2>5, <2>6, FittingAnswer DEF LoadedFrom
<1>9. ASSUME Edit, NEW q \in Requests
      PROVE  AnswerFits(q)'
  <2>1. /\ UNCHANGED <<kind, stage, reply, answer>>
        /\ during' = [r \in Requests |->
             IF stage[r] \in {"new", "done"} THEN during[r] ELSE during[r] \cup {db'}]
    BY <1>9 DEF Edit, replyVars
  <2>2. stage[q] = "done" => during'[q] = during[q]
    BY <2>1
  <2> QED
    BY <1>1, <2>1, <2>2
<1>10. ASSUME UNCHANGED vars, NEW q \in Requests
       PROVE  AnswerFits(q)'
  BY <1>1, <1>10 DEF vars, replyVars
<1>11. TAKE q \in Requests
<1>12. ASSUME NEW r \in Requests,
              \/ Begin(r) \/ Refuse(r) \/ LoadSubmission(r) \/ LoadUser(r)
              \/ LoadInstitution(r) \/ Fail(r)
       PROVE  AnswerFits(q)'
  BY <1>3, <1>4, <1>5, <1>6, <1>7, <1>8, <1>12
<1> QED
  BY <1>9, <1>10, <1>12 DEF Next

-----------------------------------------------------------------------------
(* The invariant and its consequences.                                     *)
LEMMA InitIInv == Init => IInv
<1> SUFFICES ASSUME Init
             PROVE  IInv
  OBVIOUS
<1>1. TypeOK
  BY PolicyAssumption DEF Init, TypeOK, Stages, Replies, Nothing, Answers
<1>2. \A r \in Requests : stage[r] = "new" /\ answer[r] = Nothing
  BY DEF Init
<1>3. DuringInv /\ ReadInv
  BY <1>2 DEF DuringInv, ReadInv, Active
<1>4. \A r \in Requests : AnswerFits(r)
  BY <1>2 DEF AnswerFits, Answered, Offered, Nothing
<1> QED
  BY <1>1, <1>3, <1>4, AnswersFit DEF IInv

LEMMA IInvStep == IInv /\ [Next]_vars => IInv'
<1> SUFFICES ASSUME IInv, [Next]_vars
             PROVE  IInv'
  OBVIOUS
<1>1. \A r \in Requests : AnswerFits(r)
  BY AnswersFit DEF IInv
<1>2. \A r \in Requests : AnswerFits(r)'
  BY <1>1, AnswerStep DEF IInv
<1>3. (PoliciesFit /\ RepositoriesFit /\ SomethingRequired)'
  BY <1>2 DEF AnswerFits, ListFits, OfferFits, PoliciesFit, RepositoriesFit,
              SomethingRequired
<1>4. (TypeOK /\ DuringInv /\ ReadInv)'
  BY TypeStep, DuringStep, ReadStep DEF IInv
<1> QED
  BY <1>3, <1>4 DEF IInv

LEMMA Invariance == Spec => []IInv
BY InitIInv, IInvStep, PTL DEF Spec

(* The variables of the policy service keep their types.                   *)
THEOREM TypeCorrect == Spec => []TypeOK
<1>1. IInv => TypeOK
  BY DEF IInv
<1> QED
  BY Invariance, <1>1, PTL

(* /policy/policies misses no policy that applied to the submission        *)
(* throughout the request, and lists none that never did.                  *)
THEOREM ListIsRight == Spec => []PoliciesFit
<1>1. IInv => PoliciesFit
  BY DEF IInv
<1> QED
  BY Invariance, <1>1, PTL

(* /policy/repositories offers the repositories of every policy that       *)
(* applied and was agreed to throughout the request, and no other.         *)
THEOREM OfferIsRight == Spec => []RepositoriesFit
<1>1. IInv => RepositoriesFit
  BY DEF IInv
<1> QED
  BY Invariance, <1>1, PTL

(* Whoever is offered a repository is told of one that is required.        *)
THEOREM OneIsRequired == Spec => []SomethingRequired
<1>1. IInv => SomethingRequired
  BY DEF IInv
<1> QED
  BY Invariance, <1>1, PTL

-----------------------------------------------------------------------------
(* Quiet requests: nobody edits anything while the request is served.      *)
Applies(d, p) == Granted(d, p) \/ InstitutionApplies(d, p)

Quiet(r, d) == during[r] = {d}

(* The policies listed to a quiet request are exactly those that apply, by *)
(* their definition, each listed as what it is.                            *)
ListExact ==
  \A r \in Requests, d \in Dbs : Quiet(r, d) /\ Answered(r, "policies") =>
    /\ {x[1].policy : x \in answer[r].policies} = {p \in Policies : Applies(d, p)}
    /\ \A x \in answer[r].policies :
         (x[2] = "institution") <=> (d.image[x[1].policy].title = "institution")

(* The repositories offered to a quiet request are exactly those of the    *)
(* policies that apply and that the submission agreed to.                  *)
OfferExact ==
  \A r \in Requests, d \in Dbs : Quiet(r, d) /\ Answered(r, "repositories") =>
    Offered(r) = UNION {d.image[p].repos : p \in {q \in d.effective : Applies(d, q)}}

LEMMA QuietApplies ==
  ASSUME NEW d, NEW p
  PROVE  /\ AppliedAlways({d}, p) <=> Applies(d, p)
         /\ AppliedOnce({d}, p) <=> Applies(d, p)
         /\ AgreedAlways({d}, p) <=> p \in d.effective
BY DEF AppliedAlways, AppliedOnce, AgreedAlways, Applies, InstitutionApplies

(* A request nobody interferes with is answered with exactly what applies: *)
(* neither the three transactions nor the comparison of whole images lose  *)
(* or add a policy by themselves.                                          *)
THEOREM QuietIsExact == Spec => [](ListExact /\ OfferExact)
<1>1. ASSUME IInv, NEW r \in Requests, NEW d \in Dbs, Quiet(r, d), Answered(r, "policies")
      PROVE  /\ {x[1].policy : x \in answer[r].policies} = {p \in Policies : Applies(d, p)}
             /\ \A x \in answer[r].policies :
                  (x[2] = "institution") <=> (d.image[x[1].policy].title = "institution")
  <2>1. /\ \A x \in answer[r].policies : x[1].policy \in Policies
        /\ during[r] = {d} /\ PoliciesFit
    BY <1>1 DEF IInv, TypeOK, Answers, Copies, Quiet
  <2>2. ASSUME NEW p \in Policies, Applies(d, p)
        PROVE  \E x \in answer[r].policies : x[1].policy = p
    <3>1. AppliedAlways(during[r], p)
      BY <2>1, <2>2, QuietApplies, Zenon
    <3> QED
      BY <1>1, <2>1, <3>1 DEF PoliciesFit
  <2>3. ASSUME NEW x \in answer[r].policies
        PROVE  /\ Applies(d, x[1].policy)
               /\ (x[2] = "institution") <=> (d.image[x[1].policy].title = "institution")
    <3> DEFINE p == x[1].policy
    <3>1. /\ AppliedOnce(during[r], p)
          /\ \E e \in during[r] :
               (x[2] = "institution") <=> (e.image[p].title = "institution")
      BY <1>1, <2>1, Zenon DEF PoliciesFit
    <3>2. Applies(d, p)
      <4>1. AppliedOnce({d}, p)
        BY <2>1, <3>1
      <4> HIDE DEF p
      <4> QED
        BY <4>1, QuietApplies, Zenon
    <3>3. \A e \in during[r] : e = d
      BY <2>1
    <3> QED
      BY <3>1, <3>2, <3>3
  <2> QED
    BY <2>1, <2>2, <2>3
<1>2. ASSUME IInv, NEW r \in Requests, NEW d \in Dbs, Quiet(r, d), Answered(r, "repositories")
      PROVE  Offered(r) = UNION {d.image[p].repos : p \in {q \in d.effective : Applies(d, q)}}
  <2>1. d.effective \subseteq Policies /\ during[r] = {d} /\ RepositoriesFit
    BY <1>2 DEF Dbs, IInv, Quiet
  <2>2. ASSUME NEW p \in Policies, Applies(d, p), p \in d.effective
        PROVE  d.image[p].repos \subseteq Offered(r)
    <3>1. AppliedAlways(during[r], p) /\ AgreedAlways(during[r], p)
      BY <2>1, <2>2, QuietApplies, Zenon
    <3> QED
      BY <1>2, <2>1, <3>1 DEF RepositoriesFit
  <2>3. ASSUME NEW x \in Offered(r)
        PROVE  \E p \in Policies : Applies(d, p) /\ p \in d.effective /\ x \in d.image[p].repos
    <3>1. PICK p \in Policies :
            /\ AppliedOnce(during[r], p)
            /\ \E e \in during[r] : p \in e.effective /\ x \in e.image[p].repos
      BY <1>2, <2>1 DEF RepositoriesFit
    <3>2. Applies(d, p)
      BY <2>1, <3>1, QuietApplies, Zenon
    <3>3. \A e \in during[r] : e = d
      BY <2>1
    <3> QED
      BY <3>1, <3>2, <3>3
  <2> QED
    BY <2>1, <2>2, <2>3
<1>3. IInv => ListExact /\ OfferExact
  BY <1>1, <1>2 DEF ListExact, OfferExact
<1> QED
  BY <1>3, Invariance, PTL
=============================================================================
