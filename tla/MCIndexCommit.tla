--------------------------- MODULE MCIndexCommit ---------------------------
(***************************************************************************)
(* Small instances of IndexCommit.                                         *)
(***************************************************************************)
EXTENDS IndexCommit
=============================================================================
