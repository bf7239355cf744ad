-------------------------- MODULE UserLoginProofs ---------------------------
(***************************************************************************)
(* Proofs about UserLogin, for any number of threads, users, assertions,   *)
(* edits and failures.  The argument: a thread that is about to write holds*)
(* the lock, so what its look-ups said of the durable locator still holds  *)
(* (Searched), and no locator of another kind is taken for a durable one   *)
(* (LocatorsAre).  Locators a user was given by a login come together, the *)
(* durable one among them (PersonInv), so whoever shares one shares that.  *)
(* The lock is given back within four steps of its holder (StepsLeft).     *)
(***************************************************************************)
EXTENDS UserLogin, SequenceTheorems, FiniteSetTheorems, TLAPS

Nobody(locator) == \A u \in UserIds : ~HasMember(u, locator)

OnlyHas(u, locator) == \A w \in UserIds : HasMember(w, locator) => w = u

Parsed(t) == \E a \in Assertions : WellFormed(a) /\ user[t] = ParseUser(a)

(* What a thread's look-ups have told it of the durable locator.           *)
Searched(t) ==
  LET durable == user[t].locators[1] IN
  /\ stage[t] \in {"enter", "find", "create", "update"} => Parsed(t)
  /\ stage[t] = "find" /\ index[t] > 1 => Nobody(durable)
  /\ stage[t] = "create" => Nobody(durable)
  /\ stage[t] = "update" => found[t].image \in Users /\ OnlyHas(found[t].id, durable)

AreFunctions ==
  /\ DOMAIN users = UserIds
  /\ DOMAIN user = Threads /\ DOMAIN index = Threads /\ DOMAIN found = Threads

IInv ==
  /\ TypeOK
  /\ AreFunctions
  /\ \A t \in Threads : Searched(t)
  /\ OneUserPerDurableId

-----------------------------------------------------------------------------
LEMMA TwoAndMore ==
  ASSUME NEW S, NEW two \in Seq(S), NEW rest \in Seq(S), Len(two) = 2
  PROVE  /\ two \o rest \in Seq(S) /\ Len(two \o rest) = 2 + Len(rest)
         /\ \A i \in 1 .. 2 + Len(rest) :
              (two \o rest)[i] = IF i <= 2 THEN two[i] ELSE rest[i - 2]
<1>1. /\ two \o rest \in Seq(S) /\ Len(two \o rest) = Len(two) + Len(rest)
      /\ \A i \in 1 .. Len(two) + Len(rest) :
           (two \o rest)[i] = IF i <= Len(two) THEN two[i] ELSE rest[i - Len(two)]
  BY ConcatProperties
<1> QED
  BY <1>1

(* The durable locator is the first one, and the only one of its type.     *)
LEMMA LocatorsAre ==
  ASSUME NEW a
  PROVE  /\ Len(Locators(a)) \in {2, 3} /\ DOMAIN Locators(a) = 1 .. Len(Locators(a))
         /\ Locators(a)[1] = Locator(a, "unique-id", a.unique)
         /\ \A i \in DOMAIN Locators(a) : i > 1 => Locators(a)[i].type # "unique-id"
<1> DEFINE two == <<Locator(a, "unique-id", a.unique), Locator(a, "eppn", a.local)>>
           rest == IF a.employee = None THEN <<>>
                   ELSE <<Locator(a, "employeeid", a.employee)>>
           S == {two[1], two[2], Locator(a, "employeeid", a.employee)}
<1>1. two \in Seq(S) /\ Len(two) = 2
  OBVIOUS
<1>2. rest \in Seq(S) /\ Len(rest) \in {0, 1} /\ \A i \in 1 .. Len(rest) :
        rest[i].type = "employeeid"
  <2>1. CASE a.employee = None
    BY <2>1
  <2>2. CASE a.employee # None
    <3>1. rest = <<Locator(a, "employeeid", a.employee)>>
      BY <2>2
    <3>2. Locator(a, "employeeid", a.employee).type = "employeeid"
      BY DEF Locator
    <3>3. Locator(a, "employeeid", a.employee) \in S
      OBVIOUS
    <3> HIDE DEF rest, S
    <3> QED
      BY <3>1, <3>2, <3>3
  <2> QED
    BY <2>1, <2>2
<1>3. two[1] = Locator(a, "unique-id", a.unique) /\ two[2].type = "eppn"
  BY DEF Locator
<1>4. Locators(a) = two \o rest
  BY DEF Locators
<1> HIDE DEF two, rest, S
<1>5. /\ Locators(a) \in Seq(S) /\ Len(Locators(a)) = 2 + Len(rest)
      /\ \A i \in 1 .. 2 + Len(rest) :
           Locators(a)[i] = IF i <= 2 THEN two[i] ELSE rest[i - 2]
  BY <1>1, <1>2, <1>4, TwoAndMore
<1>6. DOMAIN Locators(a) = 1 .. Len(Locators(a))
  BY <1>5
<1>7. \A i \in 1 .. 2 + Len(rest) : i > 1 =>
        Locators(a)[i].type \in {"eppn", "employeeid"}
  <2>1. \A i \in 1 .. 2 + Len(rest) : i > 1 => i = 2 \/ (i = 3 /\ Len(rest) = 1)
    BY <1>2
  <2> QED
    BY <1>2, <1>3, <1>5, <2>1
<1> QED
  BY <1>2, <1>3, <1>5, <1>6, <1>7

Fields == {"username", "profile", "locators", "roles", "orcid"}

LEMMA UserFacts ==
  ASSUME NEW u \in Users
  PROVE  /\ DOMAIN u = Fields /\ u = [f \in Fields |-> u[f]]
         /\ Len(u.locators) \in 1 .. 3 /\ DOMAIN u.locators = 1 .. Len(u.locators)
<1>1. PICK n \in 1 .. 3 : u.locators \in [1 .. n -> SomeLocators]
  BY DEF Users
<1>2. Len(u.locators) = n /\ DOMAIN u.locators = 1 .. n
  BY <1>1
<1>3. DOMAIN u = Fields /\ u = [f \in Fields |-> u[f]]
  BY DEF Users, Fields
<1> QED
  BY <1>2, <1>3

LEMMA ParsedIsUser ==
  ASSUME NEW a \in Assertions
  PROVE  ParseUser(a) \in Users /\ ParseUser(a).locators = Locators(a)
<1>1. ParseUser(a).locators = Locators(a)
  BY DEF ParseUser
<1>2. /\ Len(Locators(a)) \in {2, 3} /\ DOMAIN Locators(a) = 1 .. Len(Locators(a))
      /\ Locators(a) = [i \in DOMAIN Locators(a) |-> Locators(a)[i]]
  <2>1. Locators(a) = [i \in DOMAIN Locators(a) |-> Locators(a)[i]]
    BY DEF Locators
  <2> QED
    BY <2>1, LocatorsAre
<1>3. \A i \in DOMAIN Locators(a) : Locators(a)[i] \in SomeLocators
  BY DEF SomeLocators
<1>4. Locators(a) \in UNION {[1 .. n -> SomeLocators] : n \in 1 .. 3}
  <2>1. Locators(a) \in [1 .. Len(Locators(a)) -> SomeLocators]
    BY <1>2, <1>3
  <2>2. Len(Locators(a)) \in 1 .. 3
    BY <1>2
  <2> QED
    BY <2>1, <2>2
<1> QED
  BY <1>1, <1>4, ProfileAssumption DEF ParseUser, Users, Roles

(* An update takes over what the provider owns, and nothing else.          *)
LEMMA MergedUser ==
  ASSUME NEW image \in Users, NEW login \in Users
  PROVE  /\ Merge(image, login) \in Users
         /\ Merge(image, login).locators = login.locators
         /\ Merge(image, login).username = login.username
         /\ Merge(image, login) = [login EXCEPT !.orcid = image.orcid]
         /\ ~Differs(image, login) => image = [login EXCEPT !.orcid = image.orcid]
<1>1. /\ DOMAIN image = Fields /\ DOMAIN login = Fields
      /\ image = [f \in Fields |-> image[f]] /\ login = [f \in Fields |-> login[f]]
  BY UserFacts
<1>2. \A f \in Fields : f \in Owned \/ f = "orcid"
  BY DEF Fields, Owned
<1>3. "orcid" \in Fields /\ "orcid" \notin Owned /\ Owned \subseteq Fields
  BY DEF Fields, Owned
<1>4. Merge(image, login) = [f \in Fields |-> IF f = "orcid" THEN image[f] ELSE login[f]]
  BY <1>1, <1>2, <1>3 DEF Merge
<1>5. [login EXCEPT !.orcid = image.orcid]
        = [f \in Fields |-> IF f = "orcid" THEN image[f] ELSE login[f]]
  BY <1>1, <1>3
<1>6. ~Differs(image, login) =>
        image = [f \in Fields |-> IF f = "orcid" THEN image[f] ELSE login[f]]
  BY <1>1, <1>2 DEF Differs
<1>7. [login EXCEPT !.orcid = image.orcid] \in Users
  BY DEF Users
<1>8. /\ Merge(image, login).locators = login.locators
      /\ Merge(image, login).username = login.username
  BY <1>4 DEF Fields
<1> QED
  BY <1>4, <1>5, <1>6, <1>7, <1>8

-----------------------------------------------------------------------------
(* Types.                                                                  *)
LEMMA ParsedTyped ==
  ASSUME NEW t \in Threads, Parsed(t)
  PROVE  /\ user[t] \in Users /\ DOMAIN user[t].locators = 1 .. Len(user[t].locators)
         /\ Len(user[t].locators) \in {2, 3}
BY ParsedIsUser, LocatorsAre DEF Parsed

LEMMA TypeStep ==
  ASSUME TypeOK, AreFunctions, \A t \in Threads : Searched(t), [Next]_vars
  PROVE  TypeOK' /\ AreFunctions'
<1> USE BoundsAssumption
<1> DEFINE Threaded ==
      /\ lock \in Threads \cup {None}
      /\ stage \in [Threads -> {"idle", "enter", "find", "create", "update"}]
      /\ \A t \in Threads :
           /\ stage[t] \in {"find", "create", "update"} <=> lock = t
           /\ stage[t] = "find" => index[t] \in DOMAIN user[t].locators
           /\ stage[t] = "update" => found[t].id \in UserIds
      /\ reply \in [Threads -> {"none", "ok", "refused", "error"}]
      /\ DOMAIN user = Threads /\ DOMAIN index = Threads /\ DOMAIN found = Threads
    Stored ==
      DOMAIN users = UserIds /\ \A u \in UserIds : users[u] # None => users[u] \in Users
    Bounded == edits \in 0 .. MaxEdits /\ faults \in 0 .. MaxFaults
<1>0. Threaded /\ Stored /\ Bounded
  BY DEF TypeOK, AreFunctions
<1>p. ASSUME NEW t \in Threads, stage[t] \in {"enter", "find", "create", "update"}
      PROVE  /\ user[t] \in Users /\ DOMAIN user[t].locators = 1 .. Len(user[t].locators)
             /\ Len(user[t].locators) \in {2, 3}
  BY <1>p, ParsedTyped DEF Searched
<1>l. ASSUME NEW t \in Threads, NEW r \in {"none", "ok", "refused", "error"}, Leave(t, r),
             (lock = t /\ lock' = None) \/ (lock # t /\ UNCHANGED lock)
      PROVE  Threaded'
  BY <1>0, <1>l DEF Leave
<1>1. ASSUME NEW t \in Threads, NEW a \in Assertions, Begin(t, a)
      PROVE  Threaded' /\ Stored' /\ Bounded'
  <2>1. Stored' /\ Bounded'
    BY <1>0, <1>1 DEF Begin, bounds
  <2>2. CASE WellFormed(a)
    BY <1>0, <1>1, <2>1, <2>2 DEF Begin
  <2>3. CASE ~WellFormed(a)
    <3>1. Leave(t, "refused") /\ UNCHANGED lock /\ lock # t
      BY <1>0, <1>1, <2>3 DEF Begin
    <3> QED
      BY <1>l, <2>1, <3>1
  <2> QED
    BY <2>2, <2>3
<1>2. ASSUME NEW t \in Threads, Enter(t)
      PROVE  Threaded' /\ Stored' /\ Bounded'
  <2>1. Stored' /\ Bounded'
    BY <1>0, <1>2 DEF Enter, bounds
  <2>2. 1 \in DOMAIN user[t].locators
    BY <1>2, <1>p DEF Enter
  <2>3. Threaded'
    BY <1>0, <1>2, <2>2 DEF Enter
  <2> QED
    BY <2>1, <2>3
<1>3. ASSUME NEW t \in Threads, FindOne(t)
      PROVE  Threaded' /\ Stored' /\ Bounded'
  <2>1. Stored' /\ Bounded'
    BY <1>0, <1>3 DEF FindOne, bounds
  <2>2. PICK u \in UserIds : found' = [found EXCEPT ![t] = [id |-> u, image |-> users[u]]]
    BY <1>3 DEF FindOne
  <2>3. found'[t].id = u /\ DOMAIN found' = Threads
        /\ \A w \in Threads \ {t} : found'[w] = found[w]
    BY <1>0, <2>2
  <2>4. /\ stage' = [stage EXCEPT ![t] = "update"] /\ stage[t] = "find"
        /\ UNCHANGED <<lock, user, index, reply>>
    BY <1>3 DEF FindOne
  <2>5. Threaded'
    BY <1>0, <2>3, <2>4
  <2> QED
    BY <2>1, <2>5
<1>4. ASSUME NEW t \in Threads, FindMany(t) \/ Fail(t)
      PROVE  Threaded' /\ Stored' /\ Bounded'
  <2>1. Stored' /\ Bounded'
    BY <1>0, <1>4 DEF FindMany, Fail, bounds
  <2>2. lock = t /\ lock' = None /\ (Leave(t, "refused") \/ Leave(t, "error"))
    BY <1>0, <1>4 DEF FindMany, Fail, Release
  <2> QED
    BY <1>l, <2>1, <2>2
<1>5. ASSUME NEW t \in Threads, FindNone(t)
      PROVE  Threaded' /\ Stored' /\ Bounded'
  <2>1. Stored' /\ Bounded'
    BY <1>0, <1>5 DEF FindNone, bounds
  <2>2. CASE index[t] < Len(user[t].locators)
    <3>1. stage[t] = "find" /\ index[t] \in 1 .. Len(user[t].locators)
      BY <1>0, <1>5, <1>p DEF FindNone
    <3>2. index[t] + 1 \in DOMAIN user[t].locators
      BY <1>p, <2>2, <3>1
    <3>3. /\ index' = [index EXCEPT ![t] = index[t] + 1]
          /\ UNCHANGED <<stage, lock, user, found, reply>>
      BY <1>0, <1>5, <2>2 DEF FindNone
    <3>4. Threaded'
      BY <1>0, <3>2, <3>3
    <3> QED
      BY <2>1, <3>4
  <2>3. CASE ~(index[t] < Len(user[t].locators))
    <3>1. Threaded'
      BY <1>0, <1>5, <2>3 DEF FindNone
    <3> QED
      BY <2>1, <3>1
  <2> QED
    BY <2>2, <2>3
<1>6. ASSUME NEW t \in Threads, Create(t)
      PROVE  Threaded' /\ Stored' /\ Bounded'
  <2>1. Bounded'
    BY <1>0, <1>6 DEF Create, bounds
  <2>2. Stored'
    <3>1. PICK u \in UserIds : users' = [users EXCEPT ![u] = user[t]]
      BY <1>6 DEF Create
    <3>2. user[t] \in Users
      BY <1>6, <1>p DEF Create
    <3> QED
      BY <1>0, <3>1, <3>2
  <2>3. lock = t /\ lock' = None /\ Leave(t, "ok")
    BY <1>0, <1>6 DEF Create, Release
  <2> QED
    BY <1>l, <2>1, <2>2, <2>3
<1>7. ASSUME NEW t \in Threads, Update(t)
      PROVE  Threaded' /\ Stored' /\ Bounded'
  <2>1. Bounded'
    BY <1>0, <1>7 DEF Update, bounds
  <2>2. stage[t] = "update" /\ user[t] \in Users /\ found[t].image \in Users
    BY <1>7, <1>p DEF Update, Searched
  <2>3. Merge(found[t].image, user[t]) \in Users
    BY <2>2, MergedUser
  <2>4. Stored'
    <3>1. \/ users' = users
          \/ users' = [users EXCEPT ![found[t].id] = Merge(found[t].image, user[t])]
      BY <1>7 DEF Update
    <3> QED
      BY <1>0, <2>3, <3>1
  <2>5. lock = t /\ lock' = None /\ Leave(t, "ok")
    BY <1>0, <1>7, <2>2 DEF Update, Release
  <2> QED
    BY <1>l, <2>1, <2>4, <2>5
<1>8. ASSUME NEW u \in UserIds, BackendEdit(u)
      PROVE  Threaded' /\ Stored' /\ Bounded'
  <2>1. Threaded' /\ Bounded'
    BY <1>0, <1>8 DEF BackendEdit, threadVars
  <2>2. PICK r \in SUBSET Roles, o \in Orcids :
          users' = [users EXCEPT ![u].roles = r, ![u].orcid = o]
    BY <1>8 DEF BackendEdit
  <2>3. users[u] \in Users
    BY <1>0, <1>8 DEF BackendEdit
  <2> DEFINE n == [users[u] EXCEPT !.roles = r, !.orcid = o]
  <2>4. users' = [users EXCEPT ![u] = n]
    BY <1>0, <2>2
  <2>5. n \in Users
    BY <2>3 DEF Users
  <2> HIDE DEF n
  <2>6. Stored'
    BY <1>0, <2>4, <2>5
  <2> QED
    BY <2>1, <2>6
<1>9. ASSUME UNCHANGED vars
      PROVE  Threaded' /\ Stored' /\ Bounded'
  BY <1>0, <1>9 DEF vars, threadVars, bounds
<1>10. Threaded' /\ Stored' /\ Bounded'
  <2> HIDE DEF Threaded, Stored, Bounded
  <2> QED
    BY <1>1, <1>2, <1>3, <1>4, <1>5, <1>6, <1>7, <1>8, <1>9 DEF Next, Step
<1>11. AreFunctions'
  BY <1>10 DEF AreFunctions
<1>12. TypeOK'
  BY <1>10 DEF TypeOK
<1> QED
  BY <1>11, <1>12

-----------------------------------------------------------------------------
(* Look-ups and writes.                                                    *)
(* No user has got a locator.                                              *)
NoNewMembers == \A u \in UserIds : \A l : HasMember(u, l)' => HasMember(u, l)

Busy(t) == stage[t] \in {"find", "create", "update"}

LEMMA SearchedKept ==
  ASSUME NEW t \in Threads, Searched(t), stage'[t] = stage[t], user'[t] = user[t],
         index'[t] = index[t], found'[t] = found[t], NoNewMembers \/ ~Busy(t)
  PROVE  Searched(t)'
<1>1. CASE NoNewMembers
  BY <1>1 DEF NoNewMembers, Searched, Parsed, Nobody, OnlyHas
<1>2. CASE ~Busy(t)
  BY <1>2 DEF Busy, Searched, Parsed
<1> QED
  BY <1>1, <1>2

LEMMA OneUserKept ==
  ASSUME OneUserPerDurableId, NoNewMembers
  PROVE  OneUserPerDurableId'
BY DEF OneUserPerDurableId, NoNewMembers

(* A written user has the durable locator of one assertion, and no other   *)
(* user has it.                                                            *)
LEMMA WriteKeepsOne ==
  ASSUME OneUserPerDurableId, DOMAIN users = UserIds, NEW u \in UserIds,
         NEW a \in Assertions, NEW image, image.locators = Locators(a),
         users' = [users EXCEPT ![u] = image], OnlyHas(u, Locators(a)[1])
  PROVE  OneUserPerDurableId'
<1>1. \A w \in UserIds \ {u} : \A l : HasMember(w, l)' <=> HasMember(w, l)
  BY DEF HasMember
<1>2. \A l : HasMember(u, l)' => \E i \in DOMAIN Locators(a) : Locators(a)[i] = l
  BY DEF HasMember
<1>3. ASSUME NEW w \in UserIds, NEW v \in UserIds, NEW b \in Assertions,
             HasMember(w, Locator(b, "unique-id", b.unique))',
             HasMember(v, Locator(b, "unique-id", b.unique))',
             w # v
      PROVE  FALSE
  <2> DEFINE l == Locator(b, "unique-id", b.unique)
  <2>1. l.type = "unique-id"
    BY DEF Locator
  <2> HIDE DEF l
  <2>2. HasMember(w, l)' /\ HasMember(v, l)'
    BY <1>3 DEF l
  <2>3. HasMember(u, l)' => l = Locators(a)[1]
    <3>1. SUFFICES ASSUME HasMember(u, l)'
                   PROVE  l = Locators(a)[1]
      OBVIOUS
    <3>2. PICK i \in DOMAIN Locators(a) : Locators(a)[i] = l
      BY <1>2, <3>1
    <3>3. i \in 1 .. Len(Locators(a)) /\ Len(Locators(a)) \in {2, 3} /\ ~(i > 1)
      BY <2>1, <3>2, LocatorsAre
    <3> QED
      BY <3>2, <3>3
  <2>4. CASE w = u
    <3>1. HasMember(v, l) /\ l = Locators(a)[1]
      BY <1>1, <1>3, <2>2, <2>3, <2>4
    <3> QED
      BY <1>3, <2>4, <3>1 DEF OnlyHas
  <2>5. CASE v = u
    <3>1. HasMember(w, l) /\ l = Locators(a)[1]
      BY <1>1, <1>3, <2>2, <2>3, <2>5
    <3> QED
      BY <1>3, <2>5, <3>1 DEF OnlyHas
  <2>6. CASE w # u /\ v # u
    <3>1. HasMember(w, l) /\ HasMember(v, l)
      BY <1>1, <2>2, <2>6
    <3> QED
      BY <1>3, <3>1 DEF OneUserPerDurableId, l
  <2> QED
    BY <2>4, <2>5, <2>6
<1> QED
  BY <1>3 DEF OneUserPerDurableId

LEMMA SearchStep ==
  ASSUME IInv, [Next]_vars
  PROVE  (\A t \in Threads : Searched(t)') /\ OneUserPerDurableId'
<1>0. /\ lock \in Threads \cup {None} /\ DOMAIN users = UserIds /\ DOMAIN stage = Threads
      /\ \A t \in Threads : Busy(t) <=> lock = t
      /\ DOMAIN user = Threads /\ DOMAIN index = Threads /\ DOMAIN found = Threads
      /\ None \notin Threads
  BY BoundsAssumption DEF IInv, TypeOK, AreFunctions, Busy
<1>p. ASSUME NEW t \in Threads, stage[t] \in {"enter", "find", "create", "update"}
      PROVE  \E a \in Assertions : user[t] = ParseUser(a) /\ user[t].locators = Locators(a)
  BY <1>p, ParsedIsUser DEF IInv, Searched, Parsed
<1>s. UNCHANGED users => NoNewMembers
  BY DEF NoNewMembers, HasMember
<1>o. ASSUME NEW t \in Threads, NEW w \in Threads \ {t},
             \/ \E a \in Assertions : Begin(t, a)
             \/ Enter(t) \/ Step(t) \/ Fail(t)
      PROVE  Searched(w)'
  <2>1. /\ stage'[w] = stage[w] /\ user'[w] = user[w] /\ index'[w] = index[w]
        /\ found'[w] = found[w]
    BY <1>0, <1>o DEF Begin, Enter, Step, Fail, FindOne, FindMany, FindNone, Create, Update, Leave
  <2>2. UNCHANGED users \/ stage[t] \in {"create", "update"}
    BY <1>o DEF Begin, Enter, Step, Fail, FindOne, FindMany, FindNone, Create, Update
  <2>3. stage[t] \in {"create", "update"} => ~Busy(w)
    BY <1>0 DEF Busy
  <2>4. Searched(w)
    BY DEF IInv
  <2> QED
    BY <1>s, <2>1, <2>2, <2>3, <2>4, SearchedKept
<1>l. ASSUME NEW t \in Threads, NEW r, Leave(t, r)
      PROVE  Searched(t)'
  <2>1. stage'[t] = "idle"
    BY <1>0, <1>l DEF Leave
  <2> QED
    BY <2>1 DEF Searched
<1>1. ASSUME NEW t \in Threads, NEW a \in Assertions, Begin(t, a)
      PROVE  Searched(t)' /\ OneUserPerDurableId'
  <2>1. OneUserPerDurableId'
    BY <1>1, <1>s, OneUserKept DEF Begin, IInv
  <2>2. CASE WellFormed(a)
    <3>1. stage'[t] = "enter" /\ user'[t] = ParseUser(a)
      BY <1>0, <1>1, <2>2 DEF Begin
    <3> QED
      BY <2>1, <2>2, <3>1 DEF Searched, Parsed
  <2>3. CASE ~WellFormed(a)
    BY <1>1, <1>l, <2>1, <2>3 DEF Begin
  <2> QED
    BY <2>2, <2>3
<1>2. ASSUME NEW t \in Threads, Enter(t)
      PROVE  Searched(t)' /\ OneUserPerDurableId'
  <2>1. OneUserPerDurableId'
    BY <1>2, <1>s, OneUserKept DEF Enter, IInv
  <2>2. stage[t] = "enter" /\ stage'[t] = "find" /\ index'[t] = 1 /\ user' = user
    BY <1>0, <1>2 DEF Enter
  <2>3. Parsed(t)
    BY <2>2 DEF IInv, Searched
  <2> QED
    BY <2>1, <2>2, <2>3 DEF Searched, Parsed
<1>3. ASSUME NEW t \in Threads, FindOne(t)
      PROVE  Searched(t)' /\ OneUserPerDurableId'
  <2>1. OneUserPerDurableId' /\ NoNewMembers
    BY <1>3, <1>s, OneUserKept DEF FindOne, IInv
  <2>2. PICK u \in UserIds :
          /\ Matches(t) = {u}
          /\ found' = [found EXCEPT ![t] = [id |-> u, image |-> users[u]]]
    BY <1>3 DEF FindOne
  <2>3. found'[t].id = u /\ found'[t].image = users[u]
    BY <1>0, <2>2
  <2>4. stage[t] = "find" /\ stage'[t] = "update" /\ user' = user
    BY <1>0, <1>3 DEF FindOne
  <2>5. Parsed(t)
    BY <2>4 DEF IInv, Searched
  <2>6. users[u] \in Users
    BY <2>2 DEF Matches, HasMember, IInv, TypeOK
  <2>7. OnlyHas(u, user[t].locators[1])
    <3>1. CASE index[t] = 1
      BY <2>2, <3>1 DEF Matches, OnlyHas
    <3>2. CASE index[t] # 1
      <4>1. index[t] > 1
        BY <2>4, <2>5, <3>2, ParsedTyped DEF IInv, TypeOK
      <4> QED
        BY <2>4, <4>1 DEF IInv, Searched, Nobody, OnlyHas
    <3> QED
      BY <3>1, <3>2
  <2>8. OnlyHas(u, user[t].locators[1])'
    BY <2>1, <2>4, <2>7 DEF OnlyHas, NoNewMembers
  <2> QED
    BY <2>1, <2>3, <2>4, <2>5, <2>6, <2>8 DEF Searched, Parsed
<1>4. ASSUME NEW t \in Threads, FindMany(t) \/ Fail(t)
      PROVE  Searched(t)' /\ OneUserPerDurableId'
  BY <1>4, <1>l, <1>s, OneUserKept DEF FindMany, Fail, IInv
<1>5. ASSUME NEW t \in Threads, FindNone(t)
      PROVE  Searched(t)' /\ OneUserPerDurableId'
  <2>1. OneUserPerDurableId' /\ NoNewMembers
    BY <1>5, <1>s, OneUserKept DEF FindNone, IInv
  <2>2. stage[t] = "find" /\ Matches(t) = {} /\ user' = user
        /\ (stage'[t] \in {"find", "create"})
    BY <1>0, <1>5 DEF FindNone
  <2>3. Parsed(t)
    BY <2>2 DEF IInv, Searched
  <2>4. Nobody(user[t].locators[1])
    <3>1. CASE index[t] = 1
      BY <2>2, <3>1 DEF Matches, Nobody
    <3>2. CASE index[t] # 1
      <4>1. index[t] > 1
        BY <2>2, <2>3, <3>2, ParsedTyped DEF IInv, TypeOK
      <4> QED
        BY <2>2, <4>1 DEF IInv, Searched
    <3> QED
      BY <3>1, <3>2
  <2>5. Nobody(user[t].locators[1])'
    BY <2>1, <2>2, <2>4 DEF Nobody, NoNewMembers
  <2> QED
    BY <2>1, <2>2, <2>3, <2>5 DEF Searched, Parsed
<1>6. ASSUME NEW t \in Threads, Create(t)
      PROVE  Searched(t)' /\ OneUserPerDurableId'
  <2>1. Searched(t)'
    BY <1>6, <1>l DEF Create
  <2>2. PICK u \in UserIds : users' = [users EXCEPT ![u] = user[t]]
    BY <1>6 DEF Create
  <2>3. PICK a \in Assertions : user[t].locators = Locators(a)
    BY <1>6, <1>p DEF Create
  <2>4. OnlyHas(u, Locators(a)[1])
    BY <1>6, <2>3 DEF Create, IInv, Searched, Nobody, OnlyHas
  <2> QED
    BY <1>0, <2>1, <2>2, <2>3, <2>4, WriteKeepsOne DEF IInv
<1>7. ASSUME NEW t \in Threads, Update(t)
      PROVE  Searched(t)' /\ OneUserPerDurableId'
  <2>1. Searched(t)'
    BY <1>7, <1>l DEF Update
  <2>2. stage[t] = "update"
    BY <1>7 DEF Update
  <2>3. PICK a \in Assertions : user[t] = ParseUser(a) /\ user[t].locators = Locators(a)
    BY <1>p, <2>2
  <2>4. /\ OnlyHas(found[t].id, Locators(a)[1]) /\ found[t].image \in Users
        /\ found[t].id \in UserIds
    BY <2>2, <2>3 DEF IInv, Searched, TypeOK
  <2>5. Merge(found[t].image, user[t]).locators = Locators(a)
    <3>1. user[t] \in Users
      BY <2>3, ParsedIsUser
    <3> QED
      BY <2>3, <2>4, <3>1, MergedUser
  <2>6. \/ UNCHANGED users
        \/ users' = [users EXCEPT ![found[t].id] = Merge(found[t].image, user[t])]
    BY <1>7 DEF Update
  <2> QED
    BY <1>0, <1>s, <2>1, <2>4, <2>5, <2>6, WriteKeepsOne, OneUserKept DEF IInv
<1>8. ASSUME NEW u \in UserIds, BackendEdit(u)
      PROVE  (\A t \in Threads : Searched(t)') /\ OneUserPerDurableId'
  <2>1. PICK r \in SUBSET Roles, o \in Orcids :
          users' = [users EXCEPT ![u].roles = r, ![u].orcid = o]
    BY <1>8 DEF BackendEdit
  <2>2. users[u] \in Users /\ users[u] # None
    BY <1>8 DEF BackendEdit, IInv, TypeOK
  <2>3. users'[u].locators = users[u].locators /\ \A w \in UserIds \ {u} : users'[w] = users[w]
    BY <1>0, <2>1, <2>2 DEF Users
  <2>4. NoNewMembers
    BY <2>2, <2>3 DEF NoNewMembers, HasMember
  <2>5. UNCHANGED threadVars
    BY <1>8 DEF BackendEdit
  <2> QED
    BY <2>4, <2>5, SearchedKept, OneUserKept DEF IInv, threadVars
<1>9. ASSUME UNCHANGED vars
      PROVE  (\A t \in Threads : Searched(t)') /\ OneUserPerDurableId'
  BY <1>9, <1>s, SearchedKept, OneUserKept DEF vars, threadVars, IInv
<1> QED
  BY <1>o, <1>1, <1>2, <1>3, <1>4, <1>5, <1>6, <1>7, <1>8, <1>9 DEF Next, Step

-----------------------------------------------------------------------------
(* The invariant and its consequences.                                     *)
LEMMA InitIInv == Init => IInv
<1> SUFFICES ASSUME Init
             PROVE  IInv
  OBVIOUS
<1>0. users \in Preloaded
  BY DEF Init
<1>1. DOMAIN users = UserIds /\ \A u \in UserIds : users[u] # None => users[u] \in Users
  BY <1>0, PreloadedAssumption
<1>2. OneUserPerDurableId
  BY <1>0, PreloadedAssumption DEF OneUserPerDurableId, HasMember
<1>3. TypeOK
  BY <1>1, BoundsAssumption DEF Init, TypeOK
<1>4. AreFunctions
  BY <1>1 DEF Init, AreFunctions
<1>5. \A t \in Threads : Searched(t)
  BY DEF Init, Searched
<1> QED
  BY <1>2, <1>3, <1>4, <1>5 DEF IInv

LEMMA IInvStep == IInv /\ [Next]_vars => IInv'
<1> SUFFICES ASSUME IInv, [Next]_vars
             PROVE  IInv'
  OBVIOUS
<1>1. TypeOK' /\ AreFunctions'
  BY TypeStep DEF IInv
<1>2. (\A t \in Threads : Searched(t)') /\ OneUserPerDurableId'
  BY SearchStep
<1> QED
  BY <1>1, <1>2 DEF IInv

LEMMA Invariance == Spec => []IInv
BY InitIInv, IInvStep, PTL DEF Spec

(* The table of users, the lock and the threads keep their types.          *)
THEOREM TypeCorrect == Spec => []TypeOK
<1>1. IInv => TypeOK
  BY DEF IInv
<1> QED
  BY Invariance, <1>1, PTL

(* However many first requests of a person arrive at once, on however many *)
(* threads, one user is created.                                           *)
THEOREM OneUser == Spec => []OneUserPerDurableId
<1>1. IInv => OneUserPerDurableId
  BY DEF IInv
<1> QED
  BY Invariance, <1>1, PTL

LEMMA ResetStep ==
  ASSUME IInv, [Next]_vars, NEW t \in Threads,
         stage[t] = "update", reply'[t] = "ok", stage'[t] = "idle",
         users[found[t].id] = found[t].image
  PROVE  users'[found[t].id] = [user[t] EXCEPT !.orcid = users[found[t].id].orcid]
<1>0. /\ DOMAIN users = UserIds /\ stage \in [Threads -> {"idle", "enter", "find", "create", "update"}]
      /\ DOMAIN reply = Threads /\ found[t].id \in UserIds /\ found[t].image \in Users
      /\ \A w \in Threads : Busy(w) <=> lock = w
  BY DEF IInv, TypeOK, AreFunctions, Searched, Busy
<1>1. Update(t)
  <2>1. ~UNCHANGED stage
    OBVIOUS
  <2>2. PICK w \in Threads : (\E a \in Assertions : Begin(w, a)) \/ Enter(w) \/ Step(w) \/ Fail(w)
    BY <2>1 DEF Next, BackendEdit, vars, threadVars
  <2>3. w = t
    BY <1>0, <2>2 DEF Begin, Enter, Step, Fail, FindOne, FindMany, FindNone, Create, Update, Leave
  <2>4. ~Fail(t)
    BY <1>0 DEF Fail, Leave
  <2> QED
    BY <2>2, <2>3, <2>4 DEF Begin, Enter, Step, FindOne, FindMany, FindNone, Create
<1>2. user[t] \in Users
  BY ParsedTyped DEF IInv, Searched
<1>3. CASE Differs(found[t].image, user[t])
  <2>1. users' = [users EXCEPT ![found[t].id] = Merge(found[t].image, user[t])]
    BY <1>1, <1>3 DEF Update
  <2>2. users'[found[t].id] = Merge(found[t].image, user[t])
    BY <1>0, <2>1
  <2>3. Merge(found[t].image, user[t]) = [user[t] EXCEPT !.orcid = found[t].image.orcid]
    BY <1>0, <1>2, MergedUser
  <2> QED
    BY <2>2, <2>3
<1>4. CASE ~Differs(found[t].image, user[t])
  <2>1. users' = users
    BY <1>1, <1>4 DEF Update
  <2>2. found[t].image = [user[t] EXCEPT !.orcid = found[t].image.orcid]
    BY <1>0, <1>2, <1>4, MergedUser
  <2> QED
    BY <2>1, <2>2
<1> QED
  BY <1>3, <1>4

(* A login makes the user what the identity provider says and leaves alone *)
(* what the provider does not own.                                         *)
THEOREM LoginsReset == Spec => LoginResetsUser
<1>1. IInv /\ [Next]_vars =>
        [\A t \in Threads :
           stage[t] = "update" /\ reply'[t] = "ok" /\ stage'[t] = "idle" =>
             LET f == found[t] IN
             users[f.id] = f.image =>
               users'[f.id] = [user[t] EXCEPT !.orcid = users[f.id].orcid]]_vars
  BY ResetStep
<1> QED
  BY Invariance, <1>1, PTL DEF Spec, LoginResetsUser

-----------------------------------------------------------------------------
(* Users and persons.                                                      *)

Shares(u, t) == \E i \in DOMAIN user[t].locators : HasMember(u, user[t].locators[i])

(* Every user is of one person; its locators were loaded or are those of a *)
(* login; and the user a look-up has found has a locator of the login.     *)
PersonInv ==
  /\ \A u \in UserIds : users[u] # None =>
       /\ \E a \in Assertions : BelongsTo(users[u], a)
       /\ \/ OnlyLoaded(u)
          \/ \E a \in Assertions : WellFormed(a) /\ users[u].locators = Locators(a)
  /\ \A t \in Threads : stage[t] = "update" => Shares(found[t].id, t)

LEMMA LocatorKinds ==
  ASSUME NEW a, NEW i \in DOMAIN Locators(a)
  PROVE  \/ Locators(a)[i] = Locator(a, "unique-id", a.unique)
         \/ Locators(a)[i] = Locator(a, "eppn", a.local)
         \/ a.employee # None /\ Locators(a)[i] = Locator(a, "employeeid", a.employee)
<1> DEFINE x == Locator(a, "unique-id", a.unique)
           y == Locator(a, "eppn", a.local)
           z == Locator(a, "employeeid", a.employee)
<1>1. CASE a.employee = None
  <2>1. Locators(a) = <<x, y>> \o <<>>
    BY <1>1 DEF Locators
  <2> HIDE DEF x, y
  <2>2. Locators(a) = <<x, y>>
    BY <2>1
  <2>3. Locators(a)[i] = x \/ Locators(a)[i] = y
    BY <2>2
  <2> QED
    BY <2>3 DEF x, y
<1>2. CASE a.employee # None
  <2>1. Locators(a) = <<x, y>> \o <<z>>
    BY <1>2 DEF Locators
  <2> HIDE DEF x, y, z
  <2> DEFINE S == {x, y, z}
  <2>2. <<x, y>> \in Seq(S) /\ <<z>> \in Seq(S) /\ Len(<<x, y>>) = 2 /\ Len(<<z>>) = 1
    OBVIOUS
  <2>3. /\ Len(Locators(a)) = 3
        /\ \A k \in 1 .. 3 : Locators(a)[k] = IF k <= 2 THEN <<x, y>>[k] ELSE <<z>>[k - 2]
    <3> DEFINE two == <<x, y>>
               rest == <<z>>
    <3>1. two \in Seq(S) /\ rest \in Seq(S) /\ Len(two) = 2 /\ Len(rest) = 1
      BY <2>2
    <3>2. Locators(a) = two \o rest
      BY <2>1
    <3> HIDE DEF two, rest, S
    <3>3. /\ Len(two \o rest) = 2 + Len(rest)
          /\ \A k \in 1 .. 2 + Len(rest) :
               (two \o rest)[k] = IF k <= 2 THEN two[k] ELSE rest[k - 2]
      BY <3>1, TwoAndMore
    <3>4. 2 + Len(rest) = 3
      BY <3>1
    <3>5. /\ Len(Locators(a)) = 3
          /\ \A k \in 1 .. 3 : Locators(a)[k] = IF k <= 2 THEN two[k] ELSE rest[k - 2]
      BY <3>2, <3>3, <3>4
    <3> QED
      BY <3>5 DEF two, rest
  <2>4. i \in 1 .. 3
    BY <2>3, LocatorsAre
  <2>5. CASE i = 1
    BY <2>3, <2>5 DEF x
  <2>6. CASE i = 2
    BY <2>3, <2>6 DEF y
  <2>7. CASE i = 3
    BY <1>2, <2>3, <2>7 DEF z
  <2> QED
    BY <2>4, <2>5, <2>6, <2>7
<1> QED
  BY <1>1, <1>2

(* A locator in common means one person.                                   *)
LEMMA SharedLocator ==
  ASSUME NEW a \in Assertions, NEW b \in Assertions, WellFormed(a), WellFormed(b),
         NEW i \in DOMAIN Locators(a), NEW j \in DOMAIN Locators(b),
         Locators(a)[i] = Locators(b)[j]
  PROVE  SamePerson(a, b)
<1>1. Resembles(a, b)
  BY LocatorKinds DEF Locator, Resembles
<1> QED
  BY <1>1, IdentityAssumption

LEMMA SharingMeansSame ==
  ASSUME NEW a \in Assertions, WellFormed(a), NEW u, NEW b \in Assertions, BelongsTo(u, b),
         NEW i \in DOMAIN u.locators, NEW j \in DOMAIN Locators(a),
         u.locators[i] = Locators(a)[j]
  PROVE  SamePerson(b, a)
<1>1. PICK c \in Assertions :
        WellFormed(c) /\ SamePerson(b, c) /\ \E k \in DOMAIN Locators(c) :
          u.locators[i] = Locators(c)[k]
  BY DEF BelongsTo
<1>2. SamePerson(a, c)
  BY <1>1, SharedLocator
<1> QED
  BY <1>1, <1>2 DEF SamePerson

LEMMA LoginBelongs ==
  ASSUME NEW a \in Assertions, WellFormed(a), NEW u, u.username = a.eppn,
         u.locators = Locators(a)
  PROVE  BelongsTo(u, a)
BY DEF BelongsTo, SamePerson

(* The names and the locators of users are what they were.                 *)
SameRows ==
  \A u \in UserIds :
    /\ users[u] = None <=> users'[u] = None
    /\ users[u] # None =>
         users'[u].username = users[u].username /\ users'[u].locators = users[u].locators

Created(t, u) ==
  /\ users[u] = None /\ stage[t] = "create" /\ lock = t
  /\ users' = [users EXCEPT ![u] = user[t]]

Updated(t) ==
  /\ stage[t] = "update" /\ lock = t
  /\ users' = [users EXCEPT ![found[t].id] = Merge(found[t].image, user[t])]

LEMMA RowSteps ==
  ASSUME IInv, [Next]_vars
  PROVE  \/ SameRows
         \/ \E t \in Threads, u \in UserIds : Create(t) /\ Created(t, u)
         \/ \E t \in Threads : Update(t) /\ Updated(t)
<1>0. DOMAIN users = UserIds
  BY DEF IInv, AreFunctions
<1>1. CASE UNCHANGED users
  BY <1>1 DEF SameRows
<1>2. ASSUME NEW u \in UserIds, BackendEdit(u)
      PROVE  SameRows
  <2>1. PICK r \in SUBSET Roles, o \in Orcids :
          users' = [users EXCEPT ![u].roles = r, ![u].orcid = o]
    BY <1>2 DEF BackendEdit
  <2>2. users[u] \in Users /\ users[u] # None
    BY <1>2 DEF BackendEdit, IInv, TypeOK
  <2>3. /\ users'[u] = [[users[u] EXCEPT !.roles = r] EXCEPT !.orcid = o]
        /\ \A w \in UserIds \ {u} : users'[w] = users[w]
    BY <1>0, <2>1
  <2>4. /\ users'[u].username = users[u].username
        /\ users'[u].locators = users[u].locators
        /\ users'[u] \in Users
    BY <2>2, <2>3 DEF Users
  <2>5. users'[u] # None
    BY <2>4, UsersAssumption
  <2> QED
    BY <2>2, <2>3, <2>4, <2>5 DEF SameRows
<1>3. ASSUME NEW t \in Threads, Create(t)
      PROVE  \E u \in UserIds : Created(t, u)
  BY <1>3 DEF Create, Created, IInv, TypeOK
<1>4. ASSUME NEW t \in Threads, Update(t), ~UNCHANGED users
      PROVE  Updated(t)
  BY <1>4 DEF Update, Updated, IInv, TypeOK
<1>5. ASSUME NEW t \in Threads, \/ \E a \in Assertions : Begin(t, a)
                                \/ Enter(t) \/ FindOne(t) \/ FindMany(t) \/ FindNone(t) \/ Fail(t)
      PROVE  UNCHANGED users
  BY <1>5 DEF Begin, Enter, FindOne, FindMany, FindNone, Fail
<1> QED
  BY <1>1, <1>2, <1>3, <1>4, <1>5 DEF Next, Step, vars

LEMMA SameBelongs ==
  ASSUME NEW u, NEW w, NEW a, u.username = w.username, u.locators = w.locators,
         BelongsTo(u, a)
  PROVE  BelongsTo(w, a)
BY DEF BelongsTo

(* What a thread has parsed is the user of its assertion.                  *)
LEMMA LoginParsed ==
  ASSUME IInv, NEW t \in Threads, stage[t] # "idle"
  PROVE  \E a \in Assertions :
           /\ WellFormed(a) /\ user[t] \in Users
           /\ user[t].username = a.eppn /\ user[t].locators = Locators(a)
<1>1. stage[t] \in {"enter", "find", "create", "update"}
  BY DEF IInv, TypeOK
<1>2. PICK a \in Assertions : WellFormed(a) /\ user[t] = ParseUser(a)
  BY <1>1 DEF IInv, Searched, Parsed
<1>3. user[t] \in Users /\ user[t].locators = Locators(a)
  BY <1>2, ParsedIsUser
<1>4. user[t].username = a.eppn
  BY <1>2 DEF ParseUser
<1> QED
  BY <1>2, <1>3, <1>4

LEMMA UpdatedUser ==
  ASSUME IInv, NEW t \in Threads, Updated(t)
  PROVE  /\ found[t].id \in UserIds /\ users'[found[t].id] \in Users
         /\ users'[found[t].id].username = user[t].username
         /\ users'[found[t].id].locators = user[t].locators
         /\ \A u \in UserIds \ {found[t].id} : users'[u] = users[u]
<1>1. DOMAIN users = UserIds /\ found[t].id \in UserIds /\ found[t].image \in Users
  BY DEF IInv, TypeOK, AreFunctions, Searched, Updated
<1>2. user[t] \in Users
  BY LoginParsed DEF Updated
<1>3. /\ users'[found[t].id] = Merge(found[t].image, user[t])
      /\ \A u \in UserIds \ {found[t].id} : users'[u] = users[u]
  BY <1>1 DEF Updated
<1>4. /\ Merge(found[t].image, user[t]) \in Users
      /\ Merge(found[t].image, user[t]).username = user[t].username
      /\ Merge(found[t].image, user[t]).locators = user[t].locators
  BY <1>1, <1>2, MergedUser
<1> QED
  BY <1>1, <1>3, <1>4

LEMMA CreatedUser ==
  ASSUME IInv, NEW t \in Threads, NEW u \in UserIds, Created(t, u)
  PROVE  users'[u] = user[t] /\ \A w \in UserIds \ {u} : users'[w] = users[w]
<1>1. DOMAIN users = UserIds
  BY DEF IInv, AreFunctions
<1> QED
  BY <1>1 DEF Created

LEMMA PersonRows ==
  ASSUME IInv, PersonInv, [Next]_vars, NEW u \in UserIds, users'[u] # None
  PROVE  /\ \E a \in Assertions : BelongsTo(users'[u], a)
         /\ \/ OnlyLoaded(u)'
            \/ \E a \in Assertions : WellFormed(a) /\ users'[u].locators = Locators(a)
<1> DEFINE Row == /\ users[u] # None
                  /\ users'[u].username = users[u].username
                  /\ users'[u].locators = users[u].locators
           Login == \E a \in Assertions :
                      /\ WellFormed(a) /\ users'[u].username = a.eppn
                      /\ users'[u].locators = Locators(a)
<1>1. Row \/ Login
  <2>1. CASE SameRows
    BY <2>1 DEF SameRows
  <2>2. ASSUME NEW t \in Threads, NEW w \in UserIds, Created(t, w)
        PROVE  Row \/ Login
    <3>1. users'[w] = user[t] /\ (u # w => users'[u] = users[u])
      BY <2>2, CreatedUser
    <3>2. \E a \in Assertions : /\ WellFormed(a) /\ user[t].username = a.eppn
                                /\ user[t].locators = Locators(a)
      BY <2>2, LoginParsed DEF Created
    <3> QED
      BY <3>1, <3>2
  <2>3. ASSUME NEW t \in Threads, Updated(t)
        PROVE  Row \/ Login
    <3>1. \E a \in Assertions : /\ WellFormed(a) /\ user[t].username = a.eppn
                                /\ user[t].locators = Locators(a)
      BY <2>3, LoginParsed DEF Updated
    <3> QED
      BY <2>3, <3>1, UpdatedUser
  <2> QED
    BY <2>1, <2>2, <2>3, RowSteps
<1>2. ASSUME Row
      PROVE  /\ \E a \in Assertions : BelongsTo(users'[u], a)
             /\ \/ OnlyLoaded(u)'
                \/ \E a \in Assertions : WellFormed(a) /\ users'[u].locators = Locators(a)
  <2>1. PICK a \in Assertions : BelongsTo(users[u], a)
    BY <1>2 DEF PersonInv
  <2>2. BelongsTo(users'[u], a)
    BY <1>2, <2>1, SameBelongs
  <2> QED
    BY <1>2, <2>2 DEF PersonInv, OnlyLoaded
<1>3. ASSUME Login
      PROVE  /\ \E a \in Assertions : BelongsTo(users'[u], a)
             /\ \E a \in Assertions : WellFormed(a) /\ users'[u].locators = Locators(a)
  BY <1>3, LoginBelongs
<1> QED
  BY <1>1, <1>2, <1>3

LEMMA SharingKept ==
  ASSUME IInv, PersonInv, [Next]_vars, NEW t \in Threads, stage'[t] = "update"
  PROVE  Shares(found[t].id, t)'
<1>0. /\ stage \in [Threads -> {"idle", "enter", "find", "create", "update"}]
      /\ DOMAIN user = Threads /\ DOMAIN index = Threads /\ DOMAIN found = Threads
      /\ \A w \in Threads : stage[w] \in {"find", "create", "update"} <=> lock = w
  BY DEF IInv, TypeOK, AreFunctions
<1>1. ASSUME FindOne(t)
      PROVE  Shares(found[t].id, t)'
  <2>1. PICK u \in UserIds : /\ Matches(t) = {u}
                             /\ found' = [found EXCEPT ![t] = [id |-> u, image |-> users[u]]]
    BY <1>1 DEF FindOne
  <2>2. index[t] \in DOMAIN user[t].locators
    BY <1>1 DEF FindOne, IInv, TypeOK
  <2>3. HasMember(u, user[t].locators[index[t]])
    BY <2>1 DEF Matches
  <2>4. found'[t].id = u /\ users' = users /\ user' = user
    BY <1>0, <1>1, <2>1 DEF FindOne
  <2> QED
    BY <2>2, <2>3, <2>4 DEF Shares, HasMember
<1>2. ASSUME stage[t] = "update", found'[t] = found[t], user'[t] = user[t]
      PROVE  Shares(found[t].id, t)'
  <2>1. /\ found[t].id \in UserIds /\ Shares(found[t].id, t)
    BY <1>2 DEF IInv, TypeOK, PersonInv
  <2>2. SameRows
    <3>1. ASSUME NEW w \in Threads, NEW u \in UserIds, Created(w, u)
          PROVE  FALSE
      BY <1>0, <1>2, <3>1 DEF Created
    <3>2. ASSUME NEW w \in Threads, Update(w), Updated(w)
          PROVE  FALSE
      <4>1. w = t
        BY <1>0, <1>2, <3>2 DEF Updated
      <4>2. stage'[w] = "idle"
        BY <1>0, <3>2 DEF Update, Leave
      <4> QED
        BY <4>1, <4>2
    <3> QED
      BY <3>1, <3>2, RowSteps
  <2>3. /\ users[found[t].id] # None /\ users'[found[t].id] # None
        /\ users'[found[t].id].locators = users[found[t].id].locators
    BY <2>1, <2>2 DEF SameRows, Shares, HasMember
  <2> QED
    BY <1>2, <2>1, <2>3 DEF Shares, HasMember
<1>3. FindOne(t) \/ (stage[t] = "update" /\ found'[t] = found[t] /\ user'[t] = user[t])
  <2>1. CASE UNCHANGED vars
    BY <2>1 DEF vars, threadVars
  <2>2. ASSUME NEW w \in Threads, NEW a \in Assertions, Begin(w, a)
        PROVE  stage[t] = "update" /\ found'[t] = found[t] /\ user'[t] = user[t]
    BY <1>0, <2>2 DEF Begin, Leave
  <2>3. ASSUME NEW w \in Threads, Enter(w) \/ FindNone(w)
        PROVE  stage[t] = "update" /\ found'[t] = found[t] /\ user'[t] = user[t]
    BY <1>0, <2>3 DEF Enter, FindNone
  <2>4. ASSUME NEW w \in Threads, FindMany(w) \/ Create(w) \/ Update(w) \/ Fail(w)
        PROVE  stage[t] = "update" /\ found'[t] = found[t] /\ user'[t] = user[t]
    BY <1>0, <2>4 DEF FindMany, Create, Update, Fail, Leave
  <2>5. ASSUME NEW w \in Threads, FindOne(w), w # t
        PROVE  stage[t] = "update" /\ found'[t] = found[t] /\ user'[t] = user[t]
    BY <1>0, <2>5 DEF FindOne
  <2>6. ASSUME NEW u \in UserIds, BackendEdit(u)
        PROVE  stage[t] = "update" /\ found'[t] = found[t] /\ user'[t] = user[t]
    BY <2>6 DEF BackendEdit, threadVars
  <2> QED
    BY <2>1, <2>2, <2>3, <2>4, <2>5, <2>6 DEF Next, Step
<1> QED
  BY <1>1, <1>2, <1>3

LEMMA InitPersons == Init => PersonInv
<1> SUFFICES ASSUME Init
             PROVE  PersonInv
  OBVIOUS
<1>1. users \in Preloaded /\ \A t \in Threads : stage[t] = "idle"
  BY DEF Init
<1>2. \A u \in UserIds : users[u] # None => \E a \in Assertions : BelongsTo(users[u], a)
  BY <1>1, PreloadedAssumption
<1>3. \A u \in UserIds : users[u] # None => OnlyLoaded(u)
  BY <1>1 DEF OnlyLoaded
<1> QED
  BY <1>1, <1>2, <1>3 DEF PersonInv

LEMMA Persons == Spec => [](IInv /\ PersonInv)
<1>1. Init => IInv /\ PersonInv
  BY InitIInv, InitPersons
<1>2. IInv /\ PersonInv /\ [Next]_vars => (IInv /\ PersonInv)'
  <2> SUFFICES ASSUME IInv, PersonInv, [Next]_vars
               PROVE  IInv' /\ PersonInv'
    OBVIOUS
  <2>1. IInv'
    BY IInvStep
  <2>2. PersonInv'
    BY PersonRows, SharingKept DEF PersonInv
  <2> QED
    BY <2>1, <2>2
<1> QED
  BY <1>1, <1>2, PTL DEF Spec

LEMMA KeepStep ==
  ASSUME IInv, PersonInv, [Next]_vars, NEW u \in UserIds, users[u] # None
  PROVE  /\ users'[u] # None
         /\ \E a, b \in Assertions :
              /\ a.eppn = users[u].username /\ b.eppn = users'[u].username
              /\ SamePerson(a, b)
<1>1. PICK a \in Assertions : BelongsTo(users[u], a)
  BY DEF PersonInv
<1>2. a.eppn = users[u].username /\ SamePerson(a, a)
  BY <1>1 DEF BelongsTo, SamePerson
<1>3. CASE users'[u] # None /\ users'[u].username = users[u].username
  BY <1>2, <1>3
<1>4. ASSUME NEW t \in Threads, Update(t), Updated(t), u = found[t].id
      PROVE  /\ users'[u] # None
             /\ \E b \in Assertions : b.eppn = users'[u].username /\ SamePerson(a, b)
  <2>1. PICK b \in Assertions : /\ WellFormed(b) /\ user[t].username = b.eppn
                                /\ user[t].locators = Locators(b)
    BY <1>4, LoginParsed DEF Updated
  <2>2. users'[u] \in Users /\ users'[u].username = b.eppn
    BY <1>4, <2>1, UpdatedUser
  <2>3. PICK j \in DOMAIN Locators(b) : HasMember(u, Locators(b)[j])
    BY <1>4, <2>1 DEF PersonInv, Shares, Updated
  <2>4. PICK i \in DOMAIN users[u].locators : users[u].locators[i] = Locators(b)[j]
    BY <2>3 DEF HasMember
  <2>5. SamePerson(a, b)
    BY <1>1, <2>1, <2>4, SharingMeansSame
  <2> QED
    BY <2>2, <2>5, UsersAssumption
<1>5. \/ users'[u] # None /\ users'[u].username = users[u].username
      \/ \E t \in Threads : Update(t) /\ Updated(t) /\ u = found[t].id
  <2>1. CASE SameRows
    BY <2>1 DEF SameRows
  <2>2. ASSUME NEW t \in Threads, NEW w \in UserIds, Created(t, w)
        PROVE  users'[u] = users[u]
    BY <2>2, CreatedUser DEF Created
  <2>3. ASSUME NEW t \in Threads, Updated(t), u # found[t].id
        PROVE  users'[u] = users[u]
    BY <2>3, UpdatedUser
  <2> QED
    BY <2>1, <2>2, <2>3, RowSteps
<1> QED
  BY <1>2, <1>3, <1>4, <1>5

(* No login makes the user of one person the user of another.              *)
THEOREM KeepPerson == Spec => UsersKeepTheirPerson
<1>1. IInv /\ PersonInv /\ [Next]_vars =>
        [\A u \in UserIds : users[u] # None =>
           /\ users'[u] # None
           /\ \E a, b \in Assertions :
                /\ a.eppn = users[u].username /\ b.eppn = users'[u].username
                /\ SamePerson(a, b)]_vars
  BY KeepStep
<1> QED
  BY Persons, <1>1, PTL DEF Spec, UsersKeepTheirPerson

(* A user with a locator of a login that is not as it was loaded has the   *)
(* login's durable locator too.                                            *)
LEMMA DurableMatch ==
  ASSUME IInv, PersonInv, NEW t \in Threads, stage[t] = "find",
         NEW u \in Matches(t), ~OnlyLoaded(u)
  PROVE  HasMember(u, user[t].locators[1])
<1>1. PICK a \in Assertions : WellFormed(a) /\ user[t].locators = Locators(a)
  BY LoginParsed
<1>2. PICK j \in DOMAIN Locators(a) : j = index[t]
  BY <1>1 DEF IInv, TypeOK
<1>3. u \in UserIds /\ users[u] # None /\ \E i \in DOMAIN users[u].locators :
        users[u].locators[i] = Locators(a)[j]
  BY <1>1, <1>2 DEF Matches, HasMember
<1>4. PICK b \in Assertions : WellFormed(b) /\ users[u].locators = Locators(b)
  BY <1>3 DEF PersonInv
<1>5. PICK i \in DOMAIN Locators(b) : Locators(b)[i] = Locators(a)[j]
  BY <1>3, <1>4
<1>6. SamePerson(b, a)
  BY <1>1, <1>4, <1>5, SharedLocator
<1>7. Locators(b)[1] = Locators(a)[1] /\ 1 \in DOMAIN Locators(b)
  <2>1. Locator(b, "unique-id", b.unique) = Locator(a, "unique-id", a.unique)
    BY <1>6 DEF SamePerson, Locator
  <2>2. 1 \in DOMAIN Locators(b)
    BY LocatorsAre
  <2> QED
    BY <2>1, <2>2, LocatorsAre
<1> QED
  BY <1>1, <1>3, <1>4, <1>7 DEF HasMember

LEMMA RefusedStep ==
  ASSUME IInv, PersonInv, [Next]_vars, NEW t \in Threads,
         stage[t] # "idle", stage'[t] = "idle", reply'[t] = "refused"
  PROVE  \E u, w \in Matches(t) : u # w /\ OnlyLoaded(u) /\ OnlyLoaded(w)
<1>0. /\ DOMAIN reply = Threads
      /\ stage \in [Threads -> {"idle", "enter", "find", "create", "update"}]
  BY DEF IInv, TypeOK
<1>1. FindMany(t)
  <2>1. ~UNCHANGED stage
    OBVIOUS
  <2>2. PICK w \in Threads : (\E a \in Assertions : Begin(w, a)) \/ Enter(w) \/ Step(w) \/ Fail(w)
    BY <2>1 DEF Next, BackendEdit, vars, threadVars
  <2>3. w = t
    BY <1>0, <2>2 DEF Begin, Enter, Step, Fail, FindOne, FindMany, FindNone, Create, Update, Leave
  <2>4. ~Fail(t) /\ ~Create(t) /\ ~Update(t)
    BY <1>0 DEF Fail, Create, Update, Leave
  <2>5. ~FindOne(t) /\ ~FindNone(t) /\ ~Enter(t) /\ \A a \in Assertions : ~Begin(t, a)
    BY <1>0 DEF FindOne, FindNone, Enter, Begin
  <2> QED
    BY <2>2, <2>3, <2>4, <2>5 DEF Step
<1>2. stage[t] = "find" /\ Cardinality(Matches(t)) > 1
  BY <1>1 DEF FindMany
<1>3. PICK u, w \in Matches(t) : u # w
  <2>1. CASE Matches(t) = {}
    BY <1>2, <2>1, FS_EmptySet
  <2>2. ASSUME NEW u \in Matches(t), \A w \in Matches(t) : u = w
        PROVE  FALSE
    <3>1. Matches(t) = {u}
      BY <2>2
    <3> QED
      BY <1>2, <3>1, FS_Singleton
  <2> QED
    BY <2>1, <2>2
<1>4. PICK a \in Assertions : WellFormed(a) /\ user[t].locators = Locators(a)
  BY <1>2, LoginParsed
<1>5. user[t].locators[1] = Locator(a, "unique-id", a.unique)
  BY <1>4, LocatorsAre
<1>6. u \in UserIds /\ w \in UserIds
  BY DEF Matches
<1>7. index[t] > 1
  <2>1. index[t] \in 1 .. Len(Locators(a)) /\ Len(Locators(a)) \in {2, 3}
    <3>1. index[t] \in DOMAIN user[t].locators
      BY <1>2 DEF IInv, TypeOK
    <3> QED
      BY <1>4, <3>1, LocatorsAre
  <2>2. ASSUME index[t] = 1
        PROVE  FALSE
    <3>1. /\ HasMember(u, Locator(a, "unique-id", a.unique))
          /\ HasMember(w, Locator(a, "unique-id", a.unique))
      BY <1>5, <2>2 DEF Matches
    <3> QED
      BY <1>3, <1>6, <3>1 DEF IInv, OneUserPerDurableId
  <2> QED
    BY <2>1, <2>2
<1>8. \A v \in Matches(t) : OnlyLoaded(v)
  <2>1. Nobody(user[t].locators[1])
    BY <1>2, <1>7 DEF IInv, Searched
  <2> QED
    BY <1>2, <2>1, DurableMatch DEF Nobody, Matches
<1> QED
  BY <1>3, <1>8

(* No sequence of logins locks a person out.                               *)
THEOREM NobodyLockedOut == Spec => NotLockedOut
<1>1. IInv /\ PersonInv /\ [Next]_vars =>
        [\A t \in Threads :
           stage[t] # "idle" /\ stage'[t] = "idle" /\ reply'[t] = "refused" =>
             \E u, w \in Matches(t) : u # w /\ OnlyLoaded(u) /\ OnlyLoaded(w)]_vars
  BY RefusedStep
<1> QED
  BY Persons, <1>1, PTL DEF Spec, NotLockedOut

-----------------------------------------------------------------------------
(* The lock is held for a few steps only.                                  *)

(* How many steps inside the method a thread has left at most.             *)
StepsLeft(t) ==
  IF stage[t] = "find" THEN Len(user[t].locators) - index[t] + 2 ELSE 1

Moved(t) ==
  stage'[t] # stage[t] \/ user'[t] # user[t] \/ index'[t] # index[t] \/ found'[t] # found[t]

(* The thread inside create_or_update_pass_user has at most four steps to  *)
(* go, each of its steps leaves fewer or gives back the lock, and nobody   *)
(* else, neither threads that wait nor edits of users, adds any.           *)
LockHeldBriefly ==
  [][\A t \in Threads : lock = t =>
       /\ StepsLeft(t) \in 1 .. 4
       /\ lock' # t \/ ~Moved(t) \/ StepsLeft(t)' < StepsLeft(t)]_vars

LEMMA HolderStep ==
  ASSUME IInv, [Next]_vars, NEW t \in Threads, lock = t
  PROVE  /\ StepsLeft(t) \in 1 .. 4
         /\ lock' # t \/ ~Moved(t) \/ StepsLeft(t)' < StepsLeft(t)
<1>0. /\ DOMAIN stage = Threads /\ DOMAIN user = Threads
      /\ DOMAIN index = Threads /\ DOMAIN found = Threads
      /\ stage[t] \in {"find", "create", "update"}
      /\ \A w \in Threads : stage[w] \in {"find", "create", "update"} => w = t
  BY DEF IInv, TypeOK, AreFunctions
<1>1. stage[t] = "find" =>
        Len(user[t].locators) \in {2, 3} /\ index[t] \in 1 .. Len(user[t].locators)
  BY ParsedTyped DEF IInv, TypeOK, Searched
<1>2. StepsLeft(t) \in 1 .. 4 /\ (stage[t] = "find" => StepsLeft(t) >= 2)
  <2>1. CASE stage[t] = "find"
    <3> DEFINE n == Len(user[t].locators)
               i == index[t]
    <3>1. n \in {2, 3} /\ i \in 1 .. n /\ StepsLeft(t) = n - i + 2
      BY <1>1, <2>1 DEF StepsLeft
    <3> HIDE DEF n, i
    <3> QED
      BY <3>1
  <2>2. CASE stage[t] # "find"
    BY <2>2 DEF StepsLeft
  <2> QED
    BY <2>1, <2>2
<1>3. CASE FindOne(t)
  BY <1>0, <1>2, <1>3 DEF FindOne, StepsLeft
<1>4. CASE FindNone(t)
  <2>1. CASE index[t] < Len(user[t].locators)
    <3>1. stage'[t] = "find" /\ user'[t] = user[t] /\ index'[t] = index[t] + 1
      BY <1>0, <1>4, <2>1 DEF FindNone
    <3>2. /\ StepsLeft(t) = Len(user[t].locators) - index[t] + 2
          /\ StepsLeft(t)' = Len(user[t].locators) - (index[t] + 1) + 2
      BY <1>4, <3>1 DEF FindNone, StepsLeft
    <3> DEFINE n == Len(user[t].locators)
               i == index[t]
    <3>3. n \in Nat /\ i \in Nat /\ StepsLeft(t) = n - i + 2 /\ StepsLeft(t)' = n - (i + 1) + 2
      BY <1>1, <1>4, <3>2 DEF FindNone
    <3> HIDE DEF n, i
    <3>4. StepsLeft(t)' < StepsLeft(t)
      BY <3>3
    <3> QED
      BY <1>2, <3>4
  <2>2. CASE ~(index[t] < Len(user[t].locators))
    <3>1. stage'[t] = "create"
      BY <1>0, <1>4, <2>2 DEF FindNone
    <3> QED
      BY <1>2, <1>4, <3>1 DEF FindNone, StepsLeft
  <2> QED
    BY <2>1, <2>2
<1>5. CASE FindMany(t) \/ Create(t) \/ Update(t) \/ Fail(t)
  <2>1. lock' = None /\ t # None
    BY <1>5, BoundsAssumption DEF FindMany, Create, Update, Fail, Release
  <2> QED
    BY <1>2, <2>1
<1>6. CASE ~(Step(t) \/ Fail(t))
  <2>1. ~Moved(t)
    BY <1>0, <1>6 DEF Next, Begin, Enter, Step, Fail, FindOne, FindMany, FindNone, Create,
                      Update, Leave, BackendEdit, Moved, vars, threadVars
  <2> QED
    BY <1>2, <2>1
<1> QED
  BY <1>3, <1>4, <1>5, <1>6 DEF Step

(* Whatever happens inside the method and around it, a login gives the lock*)
(* back after at most four steps of its own, failures included.            *)
THEOREM LockIsBrief == Spec => LockHeldBriefly
<1>1. IInv /\ [Next]_vars =>
        [\A t \in Threads : lock = t =>
           /\ StepsLeft(t) \in 1 .. 4
           /\ lock' # t \/ ~Moved(t) \/ StepsLeft(t)' < StepsLeft(t)]_vars
  BY HolderStep
<1> QED
  BY Invariance, <1>1, PTL DEF Spec, LockHeldBriefly
=============================================================================
