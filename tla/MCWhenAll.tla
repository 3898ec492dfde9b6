----------------------------- MODULE MCWhenAll -----------------------------
(* Model-checking instances of WhenAll: three tasks.                       *)
EXTENDS WhenAll

=============================================================================
