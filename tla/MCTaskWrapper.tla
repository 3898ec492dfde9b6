--------------------------- MODULE MCTaskWrapper ---------------------------
(* Model-checking instances of TaskWrapper.                                *)
EXTENDS TaskWrapper

=============================================================================
