------------------------ MODULE MCQSignalAwaitable ------------------------
(* Model-checking instances of QSignalAwaitable; the cfgs give the bounds. *)
EXTENDS QSignalAwaitable

=============================================================================
