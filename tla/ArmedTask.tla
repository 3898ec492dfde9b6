----------------------------- MODULE ArmedTask -----------------------------
(***************************************************************************)
(* A task as whoever waits for it sees it: whenAll, whenAny, cancelledBy() *)
(* and withTimeout() arm one sink on it, for every kind of outcome, and    *)
(* may leave it the coroutine to resume.                                   *)
(*   - an armed sink is called once, when the task has completed: by its   *)
(*     dispatch, which does not end before, or at once if it has ended;    *)
(*     unless somebody else's sink takes its slot first;                   *)
(*   - a coroutine left with a task is resumed once, after the dispatch.   *)
(***************************************************************************)
VARIABLES
  task,          \* its coroutine, then its dispatch
  sink,          \* the sink
  continuation   \* is a coroutine left to resume?

vars == <<task, sink, continuation>>

Settled == task \in {"transfer", "settled"}

\* The task was started eagerly.
Init ==
  /\ task \in {"running", "dispatch", "settled"}
  /\ sink = "none"
  /\ continuation = FALSE

Complete ==
  /\ task = "running" /\ task' = "dispatch"
  /\ UNCHANGED <<sink, continuation>>

Arm ==
  /\ sink = "none"
  /\ sink' = IF Settled THEN "called" ELSE "pending"
  /\ UNCHANGED <<task, continuation>>

Call ==
  /\ task = "dispatch" /\ sink = "pending" /\ sink' = "called"
  /\ UNCHANGED <<task, continuation>>

Replace ==
  /\ ~Settled /\ sink = "pending" /\ sink' = "replaced"
  /\ UNCHANGED <<task, continuation>>

Park ==
  /\ ~Settled /\ continuation' = TRUE
  /\ UNCHANGED <<task, sink>>

Settle ==
  /\ task = "dispatch" /\ sink # "pending"
  /\ task' = IF continuation THEN "transfer" ELSE "settled"
  /\ UNCHANGED <<sink, continuation>>

Transfer ==
  /\ task = "transfer" /\ task' = "settled"
  /\ UNCHANGED <<sink, continuation>>

Next == Complete \/ Arm \/ Call \/ Replace \/ Park \/ Settle \/ Transfer

Spec == Init /\ [][Next]_vars

=============================================================================
