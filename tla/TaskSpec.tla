------------------------------ MODULE TaskSpec ------------------------------
(***************************************************************************)
(* What QTask<T> promises its users, with no lock, flag or step of the     *)
(* dispatch in sight (the class comment of QTask<T>, qtask.hpp:387-427):   *)
(*   - a task has one outcome, and settles once, after it is known;        *)
(*   - a sink hears of it at most once, and only while the frame that      *)
(*     holds the result is alive;                                          *)
(*   - an awaiting coroutine runs on only when the task has settled;       *)
(*   - the frame has one keeper at a time: the handle's owner, or, once    *)
(*     the owner let go of a live task, the coroutine itself.  The owner   *)
(*     frees it before the coroutine finishes or after it settled, the     *)
(*     coroutine only after it settled; nobody frees it twice.             *)
(***************************************************************************)
EXTENDS Naturals

CONSTANT Callbacks

VARIABLES
  outcome,   \* how the coroutine completed, "empty" before
  settled,   \* is the completion over, for everybody?
  keeper,    \* who has to free the frame
  called,    \* the sinks that heard of the outcome
  waiter     \* the coroutine that co_awaits the task

vars == <<outcome, settled, keeper, called, waiter>>

Init ==
  /\ outcome = "empty"
  /\ settled = FALSE
  /\ keeper = "owner"
  /\ called = {}
  /\ waiter = "none"

Finish ==
  /\ outcome = "empty"
  /\ keeper # "freed"
  /\ outcome' \in {"value", "cancelled", "error"}
  /\ UNCHANGED <<settled, keeper, called, waiter>>

\* A sink is called, while settling or, if it is registered late, after.
Call(c) ==
  /\ outcome # "empty"
  /\ keeper # "freed"
  /\ c \notin called
  /\ called' = called \cup {c}
  /\ UNCHANGED <<outcome, settled, keeper, waiter>>

Settle ==
  /\ outcome # "empty"
  /\ ~settled
  /\ keeper # "freed"
  /\ settled' = TRUE
  /\ UNCHANGED <<outcome, keeper, called, waiter>>

Park ==
  /\ waiter = "none"
  /\ keeper = "owner"
  /\ ~settled
  /\ waiter' = "parked"
  /\ UNCHANGED <<outcome, settled, keeper, called>>

Continue ==
  /\ waiter \in {"none", "parked"}
  /\ keeper = "owner"
  /\ settled
  /\ waiter' = "resumed"
  /\ UNCHANGED <<outcome, settled, keeper, called>>

\* detach(), or the handle destroyed from one of the task's own callbacks.
Release ==
  /\ keeper = "owner"
  /\ waiter # "parked"
  /\ ~settled
  /\ keeper' = "coroutine"
  /\ UNCHANGED <<outcome, settled, called, waiter>>

OwnerFrees ==
  /\ keeper = "owner"
  /\ waiter # "parked"
  /\ outcome = "empty" \/ settled
  /\ keeper' = "freed"
  /\ UNCHANGED <<outcome, settled, called, waiter>>

CoroutineFrees ==
  /\ keeper = "coroutine"
  /\ settled
  /\ keeper' = "freed"
  /\ UNCHANGED <<outcome, settled, called, waiter>>

Next ==
  \/ Finish \/ Settle \/ Park \/ Continue
  \/ Release \/ OwnerFrees \/ CoroutineFrees
  \/ \E c \in Callbacks : Call(c)

Spec == Init /\ [][Next]_vars

=============================================================================
