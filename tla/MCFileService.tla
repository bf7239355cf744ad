--------------------------- MODULE MCFileService ----------------------------
(***************************************************************************)
(* Instances of FileService: an author, another submitter and a backend    *)
(* service.                                                                *)
(***************************************************************************)
EXTENDS FileService

CONSTANTS h1, h2, f1, f2, author, other, backend

OneHandler  == {h1}
TwoHandlers == {h1, h2}
TwoFiles    == {f1, f2}
Principals  == {author, other, backend}
BackendUsers == {backend}
=============================================================================
