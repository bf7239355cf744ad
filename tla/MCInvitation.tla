---------------------------- MODULE MCInvitation ----------------------------
(***************************************************************************)
(* An instance of Invitation: one submission, two people who may follow a  *)
(* link, one of them a preparer, and two e-mail addresses.                 *)
(***************************************************************************)
EXTENDS Invitation, TLC

CONSTANTS c1, c2, ann, prep, service, e1, e2, s1

TwoThreads == {c1, c2}
People     == {ann, prep}
Services   == {service}
OnePreparer == {prep}
Addresses  == {e1, e2}
OneSubmission == {s1}

Symmetry == Permutations(TwoThreads) \cup Permutations(Addresses)
=============================================================================
