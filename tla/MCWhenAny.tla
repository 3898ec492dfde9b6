----------------------------- MODULE MCWhenAny -----------------------------
(* Model-checking instances of WhenAny: three tasks.                       *)
EXTENDS WhenAny

=============================================================================
