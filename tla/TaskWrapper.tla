---------------------------- MODULE TaskWrapper ----------------------------
(***************************************************************************)
(* cancelledBy(task, token) and withTimeout(task, ms) (include/QtCoroutine *)
(* /qtask.hpp): the co_await in the coroutine that wraps the task.         *)
(* Completion, stop and timeout all post an event to the awaitable's       *)
(* context, on Home; the first one delivered passes the gate.  The task    *)
(* may complete, and the stop be requested, on other threads.  The task is *)
(* seen as module QTask proves it: see Combinator.                         *)
(***************************************************************************)
EXTENDS Naturals, Sequences

VARIABLES
  wrapper,         \* which of the two it is
  remote,          \* does the task complete on another thread?
  task,            \* the wrapped task: its coroutine, then its dispatch
  sink,            \* where the sink armed on it is
  stopRequested,
  stopCb,          \* the stop callback
  timer,
  events,          \* what is posted to the context and not delivered
  guard,           \* the gate
  cancelled,       \* cancelled, or timedOut
  pc,              \* where the wrapper's co_await is
  winner,          \* history: the event that passed the gate
  outcome          \* history: what the co_await came to

built == <<wrapper, remote>>
vars == <<built, task, sink, stopRequested, stopCb, timer, events, guard, cancelled,
          pc, winner, outcome>>

Causes == {"done", "stop", "timeout"}

TypeOK ==
  /\ wrapper \in {"cancelledBy", "withTimeout"}
  /\ remote \in BOOLEAN
  /\ task \in {"running", "dispatch", "settled"}
  /\ sink \in {"none", "pending", "entered", "returned", "replaced"}
  /\ stopRequested \in BOOLEAN
  /\ stopCb \in {"none", "armed", "entered", "called", "gone"}
  /\ timer \in {"none", "running", "fired", "stopped"}
  /\ events \in Seq(Causes)
  /\ guard \in BOOLEAN
  /\ cancelled \in BOOLEAN
  /\ pc \in {"await_ready", "ask_task", "arm_task", "arm_hook", "suspended",
             "resume", "destruct", "disarm", "over", "stray"}
  /\ winner \in Causes \cup {"none"}
  /\ outcome \in Causes \cup {"none", "dropped"}
  \* Each cause is posted once at most.
  /\ Len(events) <= 2

\* The task was started eagerly, and may be calling the callback that wraps it.
Init ==
  /\ wrapper \in {"cancelledBy", "withTimeout"}
  /\ remote \in BOOLEAN
  /\ task \in {"running", "dispatch", "settled"}
  /\ sink = "none"
  /\ stopRequested \in BOOLEAN /\ (stopRequested => wrapper = "cancelledBy")
  /\ stopCb = "none" /\ timer = "none"
  /\ events = <<>>
  /\ guard = FALSE /\ cancelled = FALSE
  /\ pc = "await_ready"
  /\ winner = "none" /\ outcome = "none"

\* Home is in its event loop.
Idle ==
  /\ pc \in {"suspended", "over"}
  /\ sink = "entered" => remote

Elsewhere == UNCHANGED <<built, stopRequested, winner, outcome>>

-----------------------------------------------------------------------------
(* The wrapped task.                                                       *)

Complete ==
  /\ task = "running"
  /\ remote \/ Idle
  /\ task' = "dispatch"
  /\ UNCHANGED <<sink, stopCb, timer, events, guard, cancelled, pc>> /\ Elsewhere

\* The sink's early check, from the dispatch.
EnterSink ==
  /\ task = "dispatch" /\ sink = "pending"
  /\ remote \/ Idle
  /\ sink' = IF guard THEN "returned" ELSE "entered"
  /\ UNCHANGED <<task, stopCb, timer, events, guard, cancelled, pc>> /\ Elsewhere

\* The sink posts the completion.
PostDone ==
  /\ sink = "entered"
  /\ sink' = "returned"
  /\ events' = Append(events, "done")
  /\ UNCHANGED <<task, stopCb, timer, guard, cancelled, pc>> /\ Elsewhere

Settle ==
  /\ task = "dispatch" /\ sink \notin {"pending", "entered"}
  /\ remote \/ Idle
  /\ task' = "settled"
  /\ UNCHANGED <<sink, stopCb, timer, events, guard, cancelled, pc>> /\ Elsewhere

\* Another wrapper, combinator or toFuture() takes the slots.
Replace ==
  /\ Idle
  /\ task # "settled" /\ sink = "pending"
  /\ sink' = "replaced"
  /\ UNCHANGED <<task, stopCb, timer, events, guard, cancelled, pc>> /\ Elsewhere

-----------------------------------------------------------------------------
(* Stop and timeout.                                                       *)

\* request_stop(), on any thread; the callback makes its early check.
RequestStop ==
  /\ wrapper = "cancelledBy" /\ ~stopRequested
  /\ stopRequested' = TRUE
  /\ stopCb' = IF stopCb # "armed" THEN stopCb ELSE IF guard THEN "called" ELSE "entered"
  /\ UNCHANGED <<built, task, sink, timer, events, guard, cancelled, pc, winner, outcome>>

\* Mutant of PostStop: the flag is set on the stopping thread.
PostStopFlagged ==
  /\ stopCb = "entered"
  /\ stopCb' = "called"
  /\ events' = Append(events, "stop")
  /\ cancelled' = TRUE
  /\ UNCHANGED <<task, sink, timer, guard, pc>> /\ Elsewhere

\* The stop callback posts the stop.
PostStop ==
  /\ stopCb = "entered"
  /\ stopCb' = "called"
  /\ events' = Append(events, "stop")
  /\ UNCHANGED <<task, sink, timer, guard, cancelled, pc>> /\ Elsewhere

\* The single-shot timer's signal is connected with a queued connection.
TimerFires ==
  /\ timer = "running" /\ Idle
  /\ timer' = "fired"
  /\ events' = Append(events, "timeout")
  /\ UNCHANGED <<task, sink, stopCb, guard, cancelled, pc>> /\ Elsewhere

-----------------------------------------------------------------------------
(* The awaitable.                                                          *)

\* await_ready: a stop requested already cancels at once ...
AwaitReady ==
  /\ pc = "await_ready"
  /\ cancelled' = stopRequested
  /\ pc' = IF stopRequested THEN "resume" ELSE "ask_task"
  /\ UNCHANGED <<task, sink, stopCb, timer, events, guard>> /\ Elsewhere

\* ... and a settled task is not suspended for.
AskTask ==
  /\ pc = "ask_task"
  /\ pc' = IF task = "settled" THEN "resume" ELSE "arm_task"
  /\ UNCHANGED <<task, sink, stopCb, timer, events, guard, cancelled>> /\ Elsewhere

\* Mutant of ArmTask: a task that has settled by now is not noticed.
ArmTaskLate ==
  /\ pc = "arm_task"
  /\ pc' = "arm_hook"
  /\ sink' = "pending"
  /\ UNCHANGED <<task, stopCb, timer, events, guard, cancelled>> /\ Elsewhere

\* The sink is registered; on a settled task it is called at once, and posts.
ArmTask ==
  /\ pc = "arm_task"
  /\ pc' = "arm_hook"
  /\ IF task = "settled"
       THEN sink' = "returned" /\ events' = Append(events, "done")
       ELSE sink' = "pending" /\ UNCHANGED events
  /\ UNCHANGED <<task, stopCb, timer, guard, cancelled>> /\ Elsewhere

\* std::stop_callback calls at once if the stop was requested by now; or the
\* timer is started.
ArmHook ==
  /\ pc = "arm_hook"
  /\ pc' = "suspended"
  /\ timer' = IF wrapper = "withTimeout" THEN "running" ELSE "none"
  /\ IF wrapper = "cancelledBy" /\ stopRequested
       THEN stopCb' = "called" /\ events' = Append(events, "stop")
       ELSE stopCb' = (IF wrapper = "cancelledBy" THEN "armed" ELSE "none") /\ UNCHANGED events
  /\ UNCHANGED <<task, sink, guard, cancelled>> /\ Elsewhere

\* A posted event is delivered: if it passes the gate, it resumes.
Deliver ==
  /\ Idle
  /\ events # <<>>
  /\ events' = Tail(events)
  /\ guard' = TRUE
  /\ IF guard
       THEN UNCHANGED <<cancelled, winner, pc>>
       ELSE /\ cancelled' = (Head(events) # "done")
            /\ winner' = Head(events)
            /\ pc' = IF pc = "suspended" THEN "resume" ELSE "stray"
  /\ UNCHANGED <<built, task, sink, stopRequested, stopCb, timer, outcome>>

\* Mutant of AwaitResume: the task is asked, whatever ended the wait.
AwaitResumeTask ==
  /\ pc = "resume" /\ stopCb # "entered"
  /\ outcome' = "done"
  /\ pc' = "destruct"
  /\ stopCb' = "gone"
  /\ UNCHANGED <<built, task, sink, stopRequested, timer, events, guard, cancelled, winner>>

\* await_resume: stopCb.reset() waits for a callback that is running elsewhere.
AwaitResume ==
  /\ pc = "resume" /\ stopCb # "entered"
  /\ outcome' = IF ~cancelled THEN "done"
              ELSE IF wrapper = "withTimeout" THEN "timeout" ELSE "stop"
  /\ pc' = "destruct"
  /\ stopCb' = "gone"
  /\ UNCHANGED <<built, task, sink, stopRequested, timer, events, guard, cancelled, winner>>

\* The awaitable's destructor, after await_resume or with a suspended frame.
Destruct ==
  /\ \/ pc = "destruct" /\ UNCHANGED outcome
     \/ pc = "suspended" /\ Idle /\ outcome' = "dropped"
  /\ guard' = TRUE
  /\ timer' = IF timer = "running" THEN "stopped" ELSE timer
  /\ pc' = "disarm"
  /\ UNCHANGED <<built, task, sink, stopRequested, stopCb, events, cancelled, winner>>

\* Mutant of Disarm: the stop callback is left to run.
DisarmNoWait ==
  /\ pc = "disarm"
  /\ pc' = "over"
  /\ UNCHANGED <<task, sink, stopCb, timer, events, guard, cancelled>> /\ Elsewhere

\* The rest of the destructor: stopCb.reset() again.
Disarm ==
  /\ pc = "disarm" /\ stopCb # "entered"
  /\ pc' = "over"
  /\ stopCb' = "gone"
  /\ UNCHANGED <<task, sink, timer, events, guard, cancelled>> /\ Elsewhere

-----------------------------------------------------------------------------

Await == AwaitReady \/ AskTask \/ ArmTask \/ ArmHook \/ AwaitResume \/ Disarm

Next ==
  \/ Complete \/ EnterSink \/ PostDone \/ Settle \/ Replace
  \/ RequestStop \/ PostStop \/ TimerFires
  \/ Await \/ Deliver \/ Destruct

Spec == Init /\ [][Next]_vars

\* The wrapper's thread runs its code and its event loop, timers included; a
\* dispatch and a stop callback in progress go on.
Fairness ==
  /\ WF_vars(EnterSink) /\ WF_vars(PostDone) /\ WF_vars(Settle) /\ WF_vars(PostStop)
  /\ WF_vars(TimerFires) /\ WF_vars(Await) /\ WF_vars(Deliver)
  /\ WF_vars(pc = "destruct" /\ Destruct)

FairSpec == Spec /\ Fairness

-----------------------------------------------------------------------------

\* What the wrapper reports is what ended the wait, not what came after.
AnswersWinner == pc = "destruct" /\ winner # "none" => outcome = winner

\* Once the awaitable is gone, no stop callback runs that captured it, and no
\* posted event, present or future, passes its gate.
NothingLeft ==
  pc = "over" => guard /\ stopCb \notin {"armed", "entered"} /\ timer # "running"

\* The wait ends once the task has settled, unless its sink was replaced; once
\* the stop was requested, also while the awaitable was being armed; and with
\* a timeout anyway, whatever becomes of the task and its slots.
WaitEnds ==
  \/ task = "settled" /\ sink # "replaced"
  \/ stopRequested
  \/ wrapper = "withTimeout"
  ~> pc = "over"

\* No cause is lost: while the coroutine is suspended after one of them, an
\* event is posted, which the open gate will let pass, or about to be.
NoLostCause ==
  pc = "suspended" /\ (\/ task = "settled" /\ sink # "replaced"
                       \/ stopRequested
                       \/ wrapper = "withTimeout" /\ timer # "running")
    => ~guard /\ (events # <<>> \/ stopCb = "entered")

\* The co_await answers once, with something that has happened, and no event,
\* not one posted before its frame was destroyed, resumes it again.
Promise ==
  INSTANCE OneShot WITH
    Events <- Causes, Grounds <- {{c} : c \in Causes},
    happened <- {c \in Causes : \/ c = "done" /\ task # "running"
                                \/ c = "stop" /\ stopRequested
                                \/ c = "timeout" /\ timer = "fired"},
    answer <- IF outcome \in Causes THEN {outcome} ELSE {},
    wait <- CASE pc = "stray" -> "stray"
              [] pc # "stray" /\ outcome = "none" -> "waiting"
              [] pc # "stray" /\ outcome \in Causes -> "answered"
              [] pc # "stray" /\ outcome = "dropped" -> "dropped"

KeepsPromise == Promise!Spec

\* The wrapper asks nothing of the task but what QTask does: it takes the steps
\* of ArmedTask only.  Nobody leaves the coroutine with it.
Armed ==
  INSTANCE ArmedTask WITH
    sink <- IF sink \in {"entered", "returned"} THEN "called" ELSE sink,
    continuation <- FALSE

TaskIsArmed == Armed!Spec

=============================================================================
