------------------------- MODULE MCStreamDisposal -------------------------
(* Model-checking instances of StreamDisposal: two emissions.              *)
EXTENDS StreamDisposal

=============================================================================
