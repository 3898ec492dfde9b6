------------------------------ MODULE MCSleep ------------------------------
(* Model-checking instances of Sleep: a task of one thread.                *)
EXTENDS Sleep

=============================================================================
