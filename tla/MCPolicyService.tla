-------------------------- MODULE MCPolicyService ---------------------------
(***************************************************************************)
(* An instance of PolicyService: one request (requests only read), a grant *)
(* with two funders, a funder's policy and the institution's, a repository *)
(* of each kind, and up to two users with the principal's name.            *)
(***************************************************************************)
EXTENDS PolicyService

CONSTANTS r1, g1, f1, f2, p1, p2, journal, library, u1, u2, text, text2

OneRequest     == {r1}
OneGrant       == {g1}
TwoFunders     == {f1, f2}
TwoPolicies    == {p1, p2}
TwoRepos       == {journal, library}
Library        == {library}
TwoUsers       == {u1, u2}
TwoTexts       == {text, text2}

FunderImage  == [title |-> "other", repos |-> {journal}, text |-> text]
LibraryImage == [title |-> "institution", repos |-> {library}, text |-> text]

(* The usual content, with and without agreed policies, and a principal    *)
(* that is and is not an affiliate.                                        *)
UsualDbs ==
  {[exists |-> TRUE, grants |-> grants, effective |-> agreed,
    primary |-> [g \in OneGrant |-> f1], direct |-> [g \in OneGrant |-> f2],
    policy |-> [f \in TwoFunders |-> IF f = f1 THEN None ELSE p1],
    image |-> [p \in TwoPolicies |-> IF p = p1 THEN FunderImage ELSE LibraryImage],
    named |-> {u1}, affiliated |-> affiliated] :
     grants \in SUBSET OneGrant, agreed \in {{p2}, TwoPolicies},
     affiliated \in {{}, {u1}}}
=============================================================================
