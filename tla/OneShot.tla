------------------------------ MODULE OneShot ------------------------------
(***************************************************************************)
(* What every awaitable of the library promises about one co_await:  a     *)
(* suspended coroutine is resumed at most once, on account of something    *)
(* that has happened (one of Grounds, each a set of events all of which it *)
(* takes), and never once its frame was destroyed.                         *)
(***************************************************************************)
CONSTANTS Events, Grounds

VARIABLES
  happened,   \* what has happened so far
  answer,     \* the ground the co_await came to, {} before
  wait        \* the awaiting coroutine

vars == <<happened, answer, wait>>

Init ==
  /\ happened \in SUBSET Events
  /\ answer = {}
  /\ wait = "waiting"

Happen ==
  /\ happened' \in SUBSET Events
  /\ happened \subseteq happened'
  /\ UNCHANGED <<answer, wait>>

Answer ==
  /\ wait = "waiting"
  /\ answer' \in Grounds
  /\ answer' \subseteq happened
  /\ wait' = "answered"
  /\ UNCHANGED happened

Drop ==
  /\ wait = "waiting"
  /\ wait' = "dropped"
  /\ UNCHANGED <<happened, answer>>

Next == Happen \/ Answer \/ Drop

Spec == Init /\ [][Next]_vars

=============================================================================
