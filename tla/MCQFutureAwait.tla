--------------------------- MODULE MCQFutureAwait ---------------------------
(* Model-checking instances of QFutureAwait.                               *)
EXTENDS QFutureAwait

=============================================================================
