---------------------------- MODULE MCUserLogin -----------------------------
(***************************************************************************)
(* An instance of UserLogin.  Ann changes her EPPN and gets an employee    *)
(* id; Bob, at another institution, has the same unique id and the same    *)
(* EPPN local part as Ann; Bob may have been loaded by his employee id, Ann*)
(* by her EPPN (once or twice) or her employee id, before the first login. *)
(***************************************************************************)
EXTENDS UserLogin

CONSTANTS t1, t2, orcid

TwoThreads == {t1, t2}
FourUsers  == 1 .. 4
OneOrcid   == {orcid}

Ann == [eppn |-> "Ann@jhu", domain |-> "jhu", local |-> "ann",
        unique |-> "1", employee |-> None, profile |-> "Ann"]
AnnRenamed == [Ann EXCEPT !.eppn = "Anna@jhu", !.local = "anna",
                          !.employee = "7", !.profile = "Anna"]
Bob == [eppn |-> "ann@cornell", domain |-> "cornell", local |-> "ann",
        unique |-> "1", employee |-> "7", profile |-> "Bob"]
NoUniqueId == [Ann EXCEPT !.unique = None]
BadEppn    == [Ann EXCEPT !.local = None]

SomeAssertions == {Ann, AnnRenamed, Bob, NoUniqueId, BadEppn}

Loaded(a, type, value) ==
  [username |-> a.eppn, profile |-> "loaded", roles |-> {"submitter"}, orcid |-> None,
   locators |-> <<Locator(a, type, value)>>]

SomeProfiles == {"Ann", "Anna", "Bob", "loaded"}

NoUsers == [u \in FourUsers |-> None]
BobLoaded == Loaded(Bob, "employeeid", "7")
AnnByEppn == Loaded(Ann, "eppn", "ann")
AnnByEmployeeId == Loaded(Ann, "employeeid", "7")
PossibleTables ==
  {NoUsers, [NoUsers EXCEPT ![1] = BobLoaded],
   [NoUsers EXCEPT ![1] = AnnByEppn], [NoUsers EXCEPT ![1] = AnnByEmployeeId],
   [NoUsers EXCEPT ![1] = AnnByEppn, ![2] = AnnByEppn]}
=============================================================================
