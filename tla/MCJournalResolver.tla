------------------------- MODULE MCJournalResolver --------------------------
(***************************************************************************)
(* Instances of JournalResolver: two titles, three ISSNs, a book without   *)
(* an ISSN and a record without a title.                                   *)
(***************************************************************************)
EXTENDS JournalResolver

CONSTANTS w1, w2, j1, j2, j3, print, online, untyped

OneWorker  == {w1}
TwoWorkers == {w1, w2}
ThreeIds   == {j1, j2, j3}

Rec(name, issns) == [name |-> name, issns |-> issns]
Row(name, issns) == [name |-> name, issns |-> issns, loader |-> FALSE]

FewRecords ==
  {Rec("Heart", {print}), Rec("Heart", {print, online}), Rec("Lung", {online, untyped})}
SomeRecords ==
  FewRecords \cup {Rec("Lung", {}), Rec(NoTitle, {print}), Rec("Heart", {print, untyped})}

NoJournals == [j \in ThreeIds |-> None]
TwoJournals == [NoJournals EXCEPT ![j1] = Row("Heart", {print}), ![j2] = Row("Lung", {online})]
PossibleTables == {NoJournals, TwoJournals}
=============================================================================
