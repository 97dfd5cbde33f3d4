--------------------------- MODULE MCRestoreFiles ---------------------------
(* Small instances of RestoreFiles: the database, and files beside it.      *)
EXTENDS RestoreFiles

CONSTANTS c1, c2
=============================================================================
