----------------------------- MODULE MCWaitFor -----------------------------
(* Model-checking instances of WaitFor: one call, and its only sink.       *)
EXTENDS WaitFor

=============================================================================
