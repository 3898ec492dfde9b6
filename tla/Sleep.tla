------------------------------- MODULE Sleep -------------------------------
(***************************************************************************)
(* A task whose body waits in co_await sleep(ms) (include/QtCoroutine/     *)
(* qtcoroutine.hpp): the awaitable lives in the task's frame; the          *)
(* single-shot timer and the guard they share outlive it.  This module     *)
(* composes QTask, the frame that may be destroyed, with its timer: every  *)
(* suspension of the body is a sleep, and only the timer ends it.          *)
(***************************************************************************)
EXTENDS QTask

VARIABLES
  guard,    \* the flag of the sleep in progress, or of the last one
  timer     \* is its timer running?

sleepVars == <<vars, guard, timer>>

SleepInit == Init /\ guard = FALSE /\ timer = FALSE

\* await_suspend: a guard and a timer of its own, on the thread it runs on.
FallAsleep ==
  /\ Suspend
  /\ guard' = FALSE
  /\ timer' = TRUE

\* The body ends; a sleep of no duration does not suspend it before.
BodyEnds ==
  /\ \E outcome \in Outcomes : Complete(outcome)
  /\ UNCHANGED <<guard, timer>>

\* Mutant of TimerFires: the guard is read the wrong way round.
TimerFiresIfClosed ==
  /\ timer /\ op = "idle"
  /\ timer' = FALSE
  /\ guard' = TRUE
  /\ IF ~guard THEN UNCHANGED vars ELSE Resume /\ runner' = runner

\* The event loop fires the timer: if it can close the guard, it resumes.
TimerFires ==
  /\ timer /\ op = "idle"
  /\ timer' = FALSE
  /\ guard' = TRUE
  /\ IF guard THEN UNCHANGED vars ELSE Resume /\ runner' = runner

\* Mutant of FrameEnds: the awaitable has no destructor.
FrameEndsUnguarded ==
  /\ DestroyFrame
  /\ UNCHANGED <<guard, timer>>

\* The frame is destroyed, and the awaitable in it if it was asleep.
FrameEnds ==
  /\ DestroyFrame
  /\ guard' = (guard \/ coro = "suspended")
  /\ UNCHANGED timer

\* The rest of QTask, on the owner's thread.
TaskStep ==
  /\ \/ Dispatch
     \/ \E c \in Callbacks : Then(c) \/ OnCancelled(c) \/ OnError(c) \/ ToFuture(c)
     \/ AwaitReady \/ AwaitSuspend \/ AwaitResume
     \/ DetachBegin \/ DisposeBegin \/ DisposeDone \/ HandOver
  /\ UNCHANGED <<guard, timer>>

SleepNext == FallAsleep \/ BodyEnds \/ TimerFires \/ FrameEnds \/ TaskStep

SleepSpec == SleepInit /\ [][SleepNext]_sleepVars

\* The event loop fires the timer, and operations begun end.
FairSleepSpec ==
  SleepSpec /\ WF_sleepVars(TimerFires) /\ WF_sleepVars(OwnerContinues /\ (FrameEnds \/ TaskStep))

-----------------------------------------------------------------------------

\* A timer whose guard is open finds the coroutine asleep in a live frame,
\* whatever the owner did to the task in the meantime.
TimerFindsSleeper ==
  timer /\ ~guard => coro = "suspended" /\ frame = "live"

\* The sleep ends, unless the frame is destroyed first.
SleepEnds == coro = "suspended" ~> coro # "suspended"

=============================================================================
