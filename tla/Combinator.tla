----------------------------- MODULE Combinator -----------------------------
(***************************************************************************)
(* What whenAll and whenAny (include/QtCoroutine/qtask.hpp) share: N tasks *)
(* that complete in any order, the one sink armed on each, and the         *)
(* coroutine that awaits them.  The modules WhenAll and WhenAny add what   *)
(* await_ready answers and what the sink does.                             *)
(*                                                                         *)
(* A task is seen as module QTask proves it: a sink armed on it for every  *)
(* kind of outcome is called once, from its dispatch or, if it settled     *)
(* first, at once; the parked continuation is resumed after it settled.    *)
(* Tasks complete on Home, the thread that awaits them; those in remote    *)
(* each on a thread of their own.  On Home nothing else runs while a sink, *)
(* await_suspend or the coroutine does; dispatches nested in a user's      *)
(* callbacks interleave freely, which is more than the stack allows.       *)
(***************************************************************************)
EXTENDS Naturals

CONSTANTS
  N,             \* how many tasks are combined
  LiveDestroy    \* may the awaiting frame be destroyed while suspended even
                 \* though a task may complete on another thread?

Tasks == 1..N
Home == 0

ASSUME CombinatorAssumption ==
  /\ N \in Nat \ {0}
  /\ LiveDestroy \in BOOLEAN

VARIABLES
  remote,        \* the tasks whose coroutine resumeOn() takes to another thread
  task,          \* each task's coroutine and completion dispatch
  sink,          \* where the sink armed on it is
  continuation,  \* the tasks that hold the awaiting coroutine's handle
  guard,         \* the awaitable's shared flag
  phase,         \* what the awaitable is doing on Home ...
  i,             \* ... and the task it is doing it to
  awaiter,       \* the awaiting coroutine
  on             \* the thread it runs on

combined == <<remote, task, sink, continuation, guard, phase, i, awaiter, on>>

CombinatorTypeOK ==
  /\ remote \subseteq Tasks
  /\ task \in [Tasks -> {"running", "dispatch", "transfer", "settled"}]
  /\ sink \in [Tasks -> {"none", "pending", "called", "entered", "returned", "replaced"}]
  /\ continuation \subseteq Tasks
  /\ guard \in BOOLEAN
  /\ phase \in {"await_ready", "then", "rest", "done"}
  /\ i \in Tasks
  /\ awaiter \in {"running", "suspended", "resumed", "over", "destroyed", "stray"}
  /\ on \in Tasks \cup {Home}

\* The tasks were started eagerly: any of them may have settled, and the
\* awaiting coroutine may itself run in a callback of one of them.
CombinatorInit ==
  /\ remote \in SUBSET Tasks
  /\ task \in [Tasks -> {"running", "dispatch", "settled"}]
  /\ sink = [t \in Tasks |-> "none"]
  /\ continuation = {}
  /\ guard = FALSE
  /\ phase = "await_ready" /\ i = 1
  /\ awaiter = "running" /\ on = Home

-----------------------------------------------------------------------------

Settled(t) == task[t] \in {"transfer", "settled"}
Thread(t) == IF t \in remote THEN t ELSE Home

\* The dispatch of task t is past the sink's call, with no callback left.
Ending(t) ==
  \/ task[t] = "transfer"
  \/ task[t] = "dispatch" /\ sink[t] \in {"entered", "returned"}

\* Home is in its event loop, or in a callback that is none of the sinks.
HomeFree ==
  /\ phase = "done"
  /\ ~(awaiter = "resumed" /\ on = Home)
  /\ \A t \in Tasks \ remote : ~Ending(t)

MayRun(t) == t \in remote \/ HomeFree

\* handle.resume(), or the symmetric transfer; a coroutine that is not
\* suspended, or not there, strays.
ResumeOn(thread) ==
  /\ awaiter' = IF awaiter = "suspended" THEN "resumed" ELSE "stray"
  /\ on' = thread

\* How a sink resumes the awaiting coroutine: directly if its task has settled
\* (await_ready), else as the continuation of the dispatch it runs in.
ResumeFrom(t) ==
  IF Settled(t)
    THEN ResumeOn(Home) /\ UNCHANGED continuation
    ELSE continuation' = continuation \cup {t} /\ UNCHANGED <<awaiter, on>>

\* The task's coroutine ends; its outcome is recorded.
Complete(t) ==
  /\ task[t] = "running" /\ MayRun(t)
  /\ task' = [task EXCEPT ![t] = "dispatch"]
  /\ UNCHANGED <<remote, sink, continuation, guard, phase, i, awaiter, on>>

\* The dispatch finds no callback (left): publish settled.
Settle(t) ==
  /\ task[t] = "dispatch" /\ sink[t] \notin {"pending", "entered"}
  /\ MayRun(t) \/ Ending(t)
  /\ task' = [task EXCEPT ![t] = IF t \in continuation THEN "transfer" ELSE "settled"]
  /\ UNCHANGED <<remote, sink, continuation, guard, phase, i, awaiter, on>>

\* The dispatch transfers to the continuation it found.
Transfer(t) ==
  /\ task[t] = "transfer"
  /\ task' = [task EXCEPT ![t] = "settled"]
  /\ ResumeOn(Thread(t))
  /\ UNCHANGED <<remote, sink, continuation, guard, phase, i>>

\* The moment the sink of task t is called: from the dispatch, or inline from
\* the registration on a settled task.
SinkCalled(t) ==
  \/ task[t] = "dispatch" /\ sink[t] = "pending" /\ MayRun(t)
  \/ sink[t] = "called"

\* await_suspend registers the sink on task i, for the outcome it has or will
\* have; the inline call on a settled task comes before anything else.
Register ==
  /\ phase = "then"
  /\ sink' = [sink EXCEPT ![i] = IF Settled(i) THEN "called" ELSE "pending"]
  /\ phase' = "rest"
  /\ UNCHANGED <<remote, task, continuation, guard, i, awaiter, on>>

\* The registrations for the other kinds, on the same task, then the next one.
RegisterRest ==
  /\ phase = "rest"
  /\ Settled(i) => sink[i] \notin {"called", "entered"}
  /\ ~(awaiter = "resumed" /\ on = Home)
  /\ IF i = N THEN phase' = "done" /\ UNCHANGED i ELSE phase' = "then" /\ i' = i + 1
  /\ UNCHANGED <<remote, task, sink, continuation, guard, awaiter, on>>

\* There is one slot per kind: somebody registers another sink on the task.
Replace(t) ==
  /\ HomeFree
  /\ ~Settled(t) /\ sink[t] = "pending"
  /\ sink' = [sink EXCEPT ![t] = "replaced"]
  /\ UNCHANGED <<remote, task, continuation, guard, phase, i, awaiter, on>>

\* The awaitable is a temporary of the co_await: await_resume, then its
\* destructor, which sets the guard.
Finish ==
  /\ awaiter = "resumed"
  /\ awaiter' = "over"
  /\ guard' = TRUE
  /\ UNCHANGED <<remote, task, sink, continuation, phase, i, on>>

\* Mutant of Destroy: the awaitable has no destructor.
DestroyUnguarded ==
  /\ HomeFree /\ (remote = {} \/ LiveDestroy)
  /\ awaiter = "suspended"
  /\ awaiter' = "destroyed"
  /\ UNCHANGED <<remote, task, sink, continuation, guard, phase, i, on>>

\* The frame is destroyed while suspended, and the awaitable with it.  With
\* tasks that complete on other threads nothing keeps a sink or a transfer
\* from being under way: see LiveDestroy.
Destroy ==
  /\ HomeFree /\ (remote = {} \/ LiveDestroy)
  /\ awaiter = "suspended"
  /\ awaiter' = "destroyed"
  /\ guard' = TRUE
  /\ UNCHANGED <<remote, task, sink, continuation, phase, i, on>>

-----------------------------------------------------------------------------

\* The tasks and the awaiting coroutine, but for the sinks.
Surroundings ==
  \/ \E t \in Tasks : Complete(t) \/ Settle(t) \/ Transfer(t) \/ Replace(t)
  \/ Register \/ RegisterRest \/ Finish \/ Destroy

\* Whatever has begun goes on; no task has to complete.
Progress(t) == Settle(t) \/ Transfer(t)

\* The combinator asks nothing of a task but what QTask does: each of its tasks
\* takes the steps of ArmedTask only, and starts as one.
Armed(t) ==
  INSTANCE ArmedTask WITH
    task <- task[t],
    sink <- IF sink[t] \in {"entered", "returned"} THEN "called" ELSE sink[t],
    continuation <- t \in continuation

TasksAreArmed ==
  /\ \A t \in Tasks : Armed(t)!Init
  /\ [][\A t \in Tasks : Armed(t)!Next \/ UNCHANGED Armed(t)!vars]_combined

=============================================================================
