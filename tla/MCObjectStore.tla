--------------------------- MODULE MCObjectStore ----------------------------
(***************************************************************************)
(* An instance of ObjectStore: two clients of a Submission that is a draft *)
(* or submitted.                                                           *)
(***************************************************************************)
EXTENDS ObjectStore

CONSTANTS c1, c2, o1, draft, submitted

TwoClients == {c1, c2}
OneObject  == {o1}
Contents   == {draft, submitted}
Submitted  == {submitted}
=============================================================================
