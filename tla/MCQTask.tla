------------------------------ MODULE MCQTask ------------------------------
(* Model-checking instances of QTask; the cfgs name the sinks and threads. *)
EXTENDS QTask

=============================================================================
