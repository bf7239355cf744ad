--------------------------- MODULE AtomicObjects ----------------------------
(***************************************************************************)
(* What the object service promises to the clients that update a Submission*)
(* or a Deposit: an object changes in one atomic step, and a client can    *)
(* replace an object only while the version it last learned of that object *)
(* is the version stored.  ObjectStore, the detailed specification of the  *)
(* requests, the transactions and the hooks, implements this one.          *)
(***************************************************************************)
EXTENDS Integers

CONSTANTS
  Clients,   \* holders of in-memory objects
  Ids,       \* identifiers the database can assign
  Values,    \* contents of an object, all attributes and relationships
  Null,      \* no row yet, or no object in memory
  Gone       \* the content of a row that was deleted

VARIABLES
  row,       \* row[o]: the stored version and content of object o
  image      \* image[c]: the object client c holds and its version

absVars == <<row, image>>

(* A deleted row keeps its last version, for the clients that still know it.*)
Stored(o) == row[o] # Null /\ row[o].value # Gone

Init ==
  /\ row = [o \in Ids |-> Null]
  /\ image = [c \in Clients |-> Null]

(* A client learns a version of an object, not necessarily the last one.   *)
Learn(c, o) ==
  /\ row[o] # Null
  /\ \E n \in 0 .. row[o].version :
       image' = [image EXCEPT ![c] = [id |-> o, version |-> n]]
  /\ UNCHANGED row

Forget(c) ==
  /\ image' = [image EXCEPT ![c] = Null]
  /\ UNCHANGED row

Insert(o, v) ==
  /\ row[o] = Null
  /\ row' = [row EXCEPT ![o] = [version |-> 0, value |-> v]]
  /\ UNCHANGED image

(* The client may let go of its image with the write.                      *)
Replace(c, o, v) ==
  /\ Stored(o)
  /\ image[c] = [id |-> o, version |-> row[o].version]
  /\ row' = [row EXCEPT ![o] = [version |-> @.version + 1, value |-> v]]
  /\ image' \in {image, [image EXCEPT ![c] = Null]}

Remove(o) ==
  /\ Stored(o)
  /\ row' = [row EXCEPT ![o].value = Gone]
  /\ UNCHANGED image

Next ==
  \/ \E c \in Clients : Forget(c)
  \/ \E c \in Clients, o \in Ids : Learn(c, o)
  \/ \E o \in Ids, v \in Values : Insert(o, v)
  \/ \E c \in Clients, o \in Ids, v \in Values : Replace(c, o, v)
  \/ \E o \in Ids : Remove(o)

Spec == Init /\ [][Next]_absVars
=============================================================================
