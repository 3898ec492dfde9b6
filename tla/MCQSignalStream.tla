-------------------------- MODULE MCQSignalStream --------------------------
(* Model-checking instances of QSignalStream; the cfgs give the bounds.    *)
EXTENDS QSignalStream

=============================================================================
