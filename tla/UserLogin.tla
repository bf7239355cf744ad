----------------------------- MODULE UserLogin ------------------------------
(***************************************************************************)
(* The filter that maps a SAML principal to a PASS user on every request   *)
(* (PassAuthenticationFilter): parse the attributes of the identity        *)
(* provider, then, one thread at a time, look the user up by its locators, *)
(* durable ones first, and create or update it.  Each look-up and each     *)
(* write is a transaction of its own; backend services edit users in       *)
(* between.  A User has no version: writes replace what they find.         *)
(***************************************************************************)
EXTENDS Integers, Sequences, FiniteSets

CONSTANTS
  Threads,     \* request threads of the one service instance
  UserIds,     \* ids the database assigns in turn
  Assertions,  \* what the identity provider may say about a principal
  Preloaded,   \* the tables of users the service may start with
  Profiles,    \* names, e-mail and affiliations a user may have
  Orcids,      \* values of a field that logins do not own
  None,        \* no row, no thread, no value
  MaxEdits,    \* bound on edits by backend services
  MaxFaults    \* bound on failing transactions

(* An assertion: EPPN (which becomes the username), its domain and its     *)
(* local part in lower case (None if malformed), unique id (None if a      *)
(* required attribute is missing), employee id (None if not given), and the*)
(* profile: names, email and affiliations.                                 *)
WellFormed(a) == a.unique # None /\ a.local # None

Resembles(a, b) ==
  \/ a.eppn = b.eppn
  \/ a.domain = b.domain /\ \/ a.unique = b.unique \/ a.local = b.local
                            \/ a.employee # None /\ a.employee = b.employee

SamePerson(a, b) == a.domain = b.domain /\ a.unique = b.unique

(* Identity providers give no two people a common identifier.              *)
ASSUME IdentityAssumption ==
  \A a, b \in Assertions :
    WellFormed(a) /\ WellFormed(b) /\ Resembles(a, b) => SamePerson(a, b)

ASSUME ProfileAssumption == \A a \in Assertions : a.profile \in Profiles

ASSUME BoundsAssumption ==
  /\ None \notin Threads
  /\ UserIds \subseteq Nat
  /\ MaxEdits \in Nat /\ MaxFaults \in Nat

(* Mutant: a locator that does not name its institution.                   *)
LocatorWithoutDomain(a, type, value) == [domain |-> "", type |-> type, value |-> value]

Locator(a, type, value) == [domain |-> a.domain, type |-> type, value |-> value]

(* The locator id list has durable ids first.                              *)
Locators(a) ==
  <<Locator(a, "unique-id", a.unique), Locator(a, "eppn", a.local)>>
  \o IF a.employee = None THEN <<>> ELSE <<Locator(a, "employeeid", a.employee)>>

Roles == {"admin", "submitter"}

ParseUser(a) ==
  [username |-> a.eppn, profile |-> a.profile, locators |-> Locators(a),
   roles |-> {"submitter"}, orcid |-> None]

(* What a row of the table of users holds.                                 *)
SomeLocators == UNION {{Locators(a)[i] : i \in DOMAIN Locators(a)} : a \in Assertions}

Users == [username : {a.eppn : a \in Assertions},
          profile  : Profiles,
          locators : UNION {[1 .. n -> SomeLocators] : n \in 1 .. 3},
          roles    : SUBSET Roles,
          orcid    : Orcids \cup {None}]

(* The name and the locators of user u are the person's of assertion a.    *)
BelongsTo(u, a) ==
  /\ WellFormed(a) /\ u.username = a.eppn
  /\ \A i \in DOMAIN u.locators : \E b \in Assertions :
       WellFormed(b) /\ SamePerson(a, b) /\ \E j \in DOMAIN Locators(b) :
         u.locators[i] = Locators(b)[j]

ASSUME UsersAssumption == None \notin Users

(* Users that were loaded into the database before the first login: of one *)
(* person each, and no two of them with the same durable id.               *)
ASSUME PreloadedAssumption ==
  \A table \in Preloaded :
    /\ DOMAIN table = UserIds
    /\ \A u \in UserIds : table[u] # None =>
         table[u] \in Users /\ \E a \in Assertions : BelongsTo(table[u], a)
    /\ \A u, w \in UserIds, a \in Assertions :
         table[u] # None /\ table[w] # None =>
         \A i \in DOMAIN table[u].locators, j \in DOMAIN table[w].locators :
           table[u].locators[i] = Locator(a, "unique-id", a.unique)
           /\ table[w].locators[j] = table[u].locators[i] => u = w

VARIABLES
  users,    \* the pass_user table
  lock,     \* the thread inside create_or_update_pass_user
  stage,    \* the next step of each thread
  user,     \* the user each thread has parsed
  index,    \* the locator it looks up next
  found,    \* the id and image its look-up returned
  reply,    \* how its last request left the filter
  edits,    \* edits so far
  faults    \* failed transactions so far

threadVars == <<stage, user, index, found, reply>>
bounds == <<edits, faults>>
vars == <<users, lock, threadVars, bounds>>

HasMember(u, locator) ==
  users[u] # None /\ \E i \in DOMAIN users[u].locators : users[u].locators[i] = locator

TypeOK ==
  /\ \A u \in UserIds : users[u] # None => users[u] \in Users
  /\ lock \in Threads \cup {None}
  /\ stage \in [Threads -> {"idle", "enter", "find", "create", "update"}]
  /\ \A t \in Threads :
       /\ stage[t] \in {"find", "create", "update"} <=> lock = t
       /\ stage[t] = "find" => index[t] \in DOMAIN user[t].locators
       /\ stage[t] = "update" => found[t].id \in UserIds
  /\ reply \in [Threads -> {"none", "ok", "refused", "error"}]
  /\ edits \in 0 .. MaxEdits /\ faults \in 0 .. MaxFaults

Init ==
  /\ users \in Preloaded
  /\ lock = None
  /\ stage = [t \in Threads |-> "idle"]
  /\ user = [t \in Threads |-> None]
  /\ index = [t \in Threads |-> 0]
  /\ found = [t \in Threads |-> None]
  /\ reply = [t \in Threads |-> "none"]
  /\ edits = 0 /\ faults = 0

Leave(t, r) ==
  /\ stage' = [stage EXCEPT ![t] = "idle"]
  /\ user' = [user EXCEPT ![t] = None]
  /\ index' = [index EXCEPT ![t] = 0]
  /\ found' = [found EXCEPT ![t] = None]
  /\ reply' = [reply EXCEPT ![t] = r]

(* The synchronized method ends, normally or by an exception.              *)
Release(t) == lock' = None

(* A request with a SAML principal: parseUser.                             *)
Begin(t, a) ==
  /\ stage[t] = "idle"
  /\ IF WellFormed(a)
     THEN /\ stage' = [stage EXCEPT ![t] = "enter"]
          /\ user' = [user EXCEPT ![t] = ParseUser(a)]
          /\ reply' = [reply EXCEPT ![t] = "none"]
          /\ UNCHANGED <<index, found>>
     ELSE Leave(t, "refused")
  /\ UNCHANGED <<users, lock, bounds>>

(* Mutant: the method is not synchronized.                                 *)
EnterUnsynchronized(t) ==
  /\ stage[t] = "enter"
  /\ lock' = t
  /\ stage' = [stage EXCEPT ![t] = "find"]
  /\ index' = [index EXCEPT ![t] = 1]
  /\ UNCHANGED <<users, user, found, reply, bounds>>

Enter(t) ==
  /\ stage[t] = "enter"
  /\ lock = None
  /\ lock' = t
  /\ stage' = [stage EXCEPT ![t] = "find"]
  /\ index' = [index EXCEPT ![t] = 1]
  /\ UNCHANGED <<users, user, found, reply, bounds>>

(* One turn of the loop of find_pass_user: who has the locator?            *)
Matches(t) == {u \in UserIds : HasMember(u, user[t].locators[index[t]])}

FindOne(t) ==
  /\ stage[t] = "find"
  /\ \E u \in UserIds :
       /\ Matches(t) = {u}
       /\ found' = [found EXCEPT ![t] = [id |-> u, image |-> users[u]]]
  /\ stage' = [stage EXCEPT ![t] = "update"]
  /\ UNCHANGED <<users, lock, user, index, reply, bounds>>

FindMany(t) ==
  /\ stage[t] = "find"
  /\ Cardinality(Matches(t)) > 1
  /\ Release(t)
  /\ Leave(t, "refused")
  /\ UNCHANGED <<users, bounds>>

(* Mutants: the loop runs one locator too far; it starts again at its end. *)
FindNoneTooFar(t) ==
  /\ stage[t] = "find"
  /\ Matches(t) = {}
  /\ IF index[t] <= Len(user[t].locators)
     THEN index' = [index EXCEPT ![t] = @ + 1] /\ UNCHANGED stage
     ELSE stage' = [stage EXCEPT ![t] = "create"] /\ UNCHANGED index
  /\ UNCHANGED <<users, lock, user, found, reply, bounds>>

FindNoneAgain(t) ==
  /\ stage[t] = "find"
  /\ Matches(t) = {}
  /\ index' = [index EXCEPT ![t] = IF @ < Len(user[t].locators) THEN @ + 1 ELSE 1]
  /\ UNCHANGED <<users, lock, stage, user, found, reply, bounds>>

FindNone(t) ==
  /\ stage[t] = "find"
  /\ Matches(t) = {}
  /\ IF index[t] < Len(user[t].locators)
     THEN index' = [index EXCEPT ![t] = @ + 1] /\ UNCHANGED stage
     ELSE stage' = [stage EXCEPT ![t] = "create"] /\ UNCHANGED index
  /\ UNCHANGED <<users, lock, user, found, reply, bounds>>

Create(t) ==
  /\ stage[t] = "create"
  /\ \E u \in UserIds :
       /\ users[u] = None /\ \A w \in UserIds : users[w] = None => u <= w
       /\ users' = [users EXCEPT ![u] = user[t]]
  /\ Release(t)
  /\ Leave(t, "ok")
  /\ UNCHANGED bounds

(* Mutant: the roles of the user are not reset.                            *)
OwnedExceptRoles == {"username", "profile", "locators"}

(* update_pass_user: what the identity provider owns is compared and taken *)
(* over; the whole image is written, if anything differs.                  *)
Owned == {"username", "profile", "locators", "roles"}

Differs(image, login) == \E f \in Owned : image[f] # login[f]

Merge(image, login) == [f \in DOMAIN image |-> IF f \in Owned THEN login[f] ELSE image[f]]

Update(t) ==
  LET image == found[t].image IN
  /\ stage[t] = "update"
  /\ users' = IF Differs(image, user[t])
              THEN [users EXCEPT ![found[t].id] = Merge(image, user[t])]
              ELSE users
  /\ Release(t)
  /\ Leave(t, "ok")
  /\ UNCHANGED bounds

(* A transaction fails: the IOException leaves the filter as an error.     *)
Fail(t) ==
  /\ stage[t] \in {"find", "create", "update"} /\ faults < MaxFaults
  /\ faults' = faults + 1
  /\ Release(t)
  /\ Leave(t, "error")
  /\ UNCHANGED <<users, edits>>

(* A backend service edits a user through the JSON API.                    *)
BackendEdit(u) ==
  /\ users[u] # None /\ edits < MaxEdits
  /\ edits' = edits + 1
  /\ \E r \in SUBSET Roles, o \in Orcids :
       users' = [users EXCEPT ![u].roles = r, ![u].orcid = o]
  /\ UNCHANGED <<lock, threadVars, faults>>

Step(t) ==
  \/ FindOne(t) \/ FindMany(t) \/ FindNone(t)
  \/ Create(t)
  \/ Update(t)

Next ==
  \/ \E t \in Threads :
       \/ \E a \in Assertions : Begin(t, a)
       \/ Enter(t) \/ Step(t) \/ Fail(t)
  \/ \E u \in UserIds : BackendEdit(u)

Spec == Init /\ [][Next]_vars

(* A thread that is inside the method keeps running.  Nothing is assumed   *)
(* of the order in which waiting threads enter it.                         *)
FairSpec == Spec /\ \A t \in Threads : WF_vars(Enter(t)) /\ WF_vars(Step(t))

-----------------------------------------------------------------------------
(* Properties.                                                             *)

(* However many first requests of a person arrive at once, one user is     *)
(* created: no two users have a durable (unique-id) locator in common      *)
(* ("Ensure that only one user is created").                               *)
OneUserPerDurableId ==
  \A u, w \in UserIds : \A a \in Assertions :
    LET id == Locator(a, "unique-id", a.unique)
    IN HasMember(u, id) /\ HasMember(w, id) => u = w

(* A well-formed assertion is refused only if two users were loaded with a *)
(* locator in common: no sequence of logins, with changed names or added   *)
(* employee ids, leads to two users matching a locator that is looked up.  *)
OnlyLoaded(u) ==
  \E table \in Preloaded : table[u] # None /\ users[u].locators = table[u].locators

NotLockedOut ==
  [][\A t \in Threads :
       stage[t] # "idle" /\ stage'[t] = "idle" /\ reply'[t] = "refused" =>
         \E u, w \in Matches(t) : u # w /\ OnlyLoaded(u) /\ OnlyLoaded(w)]_vars

(* A user that a login rewrites stays the user of the same person, also    *)
(* when the login matched a locator that is not durable.                   *)
UsersKeepTheirPerson ==
  [][\A u \in UserIds : users[u] # None =>
       /\ users'[u] # None
       /\ \E a, b \in Assertions :
            /\ a.eppn = users[u].username /\ b.eppn = users'[u].username
            /\ SamePerson(a, b)]_vars

(* After a login the user is what the identity provider says, unless it was*)
(* edited between look-up and update, and every field the provider does not*)
(* own is what it was ("User should have been reset").                     *)
LoginResetsUser ==
  [][\A t \in Threads :
       stage[t] = "update" /\ reply'[t] = "ok" /\ stage'[t] = "idle" =>
         LET f == found[t] IN
         users[f.id] = f.image =>
           users'[f.id] = [user[t] EXCEPT !.orcid = users[f.id].orcid]]_vars

(* No outcome of a login, failures included, leaves the filter's lock held.*)
LockIsReleased == \A t \in Threads : (lock = t) ~> (lock # t)
=============================================================================
