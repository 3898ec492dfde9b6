------------------------------ MODULE WhenAny ------------------------------
(***************************************************************************)
(* whenAny (include/QtCoroutine/qtask.hpp): the awaiting coroutine runs on *)
(* when the first of the tasks has settled, and asks that task for the     *)
(* result.  The three awaitables of the code differ in the result's type.  *)
(***************************************************************************)
EXTENDS Combinator

VARIABLE readyIndex    \* the winner

vars == <<combined, readyIndex>>

TypeOK ==
  /\ CombinatorTypeOK
  /\ readyIndex \in Tasks

Init ==
  /\ CombinatorInit
  /\ readyIndex = 1

-----------------------------------------------------------------------------

\* await_ready asks one task after another for the first that has settled.
AwaitReady ==
  /\ phase = "await_ready" /\ awaiter = "running"
  /\ \/ Settled(i) /\ readyIndex' = i /\ awaiter' = "resumed" /\ phase' = "done" /\ UNCHANGED i
     \/ ~Settled(i) /\ i < N /\ i' = i + 1 /\ UNCHANGED <<readyIndex, phase, awaiter>>
     \/ ~Settled(i) /\ i = N /\ i' = 1 /\ phase' = "then" /\ awaiter' = "suspended"
        /\ UNCHANGED readyIndex
  /\ UNCHANGED <<remote, task, sink, continuation, guard, on>>

\* exchange: the first sink to come by wins, unless the frame has gone.
EnterSink(t) ==
  /\ SinkCalled(t)
  /\ sink' = [sink EXCEPT ![t] = IF guard THEN "returned" ELSE "entered"]
  /\ guard' = TRUE
  /\ UNCHANGED <<remote, task, continuation, phase, i, awaiter, on, readyIndex>>

\* Mutant of Win: the winner does not say who it is.
WinUnnamed(t) ==
  /\ sink[t] = "entered"
  /\ sink' = [sink EXCEPT ![t] = "returned"]
  /\ ResumeFrom(t)
  /\ UNCHANGED <<remote, task, guard, phase, i, readyIndex>>

\* Mutant of Win: the handle is resumed from within the dispatch.
WinDirect(t) ==
  /\ sink[t] = "entered"
  /\ sink' = [sink EXCEPT ![t] = "returned"]
  /\ readyIndex' = t
  /\ ResumeOn(Thread(t))
  /\ UNCHANGED <<remote, task, continuation, guard, phase, i>>

\* Mutant of Win: only a task that has settled resumes the coroutine.
WinIfSettled(t) ==
  /\ sink[t] = "entered"
  /\ sink' = [sink EXCEPT ![t] = "returned"]
  /\ readyIndex' = t
  /\ IF Settled(t) THEN ResumeFrom(t) ELSE UNCHANGED <<continuation, awaiter, on>>
  /\ UNCHANGED <<remote, task, guard, phase, i>>

\* The winner stores its index, through the awaitable, and resumes.
Win(t) ==
  /\ sink[t] = "entered"
  /\ sink' = [sink EXCEPT ![t] = "returned"]
  /\ readyIndex' = t
  /\ ResumeFrom(t)
  /\ UNCHANGED <<remote, task, guard, phase, i>>

-----------------------------------------------------------------------------

Next ==
  \/ AwaitReady
  \/ \E t \in Tasks : EnterSink(t) \/ Win(t)
  \/ Surroundings /\ UNCHANGED readyIndex

Spec == Init /\ [][Next]_vars

\* Dispatches and the await go on once begun.
Fairness ==
  /\ WF_vars(AwaitReady) /\ WF_vars((Register \/ RegisterRest \/ Finish) /\ UNCHANGED readyIndex)
  /\ \A t \in Tasks :
       /\ WF_vars(EnterSink(t) \/ Win(t))
       /\ WF_vars(Progress(t) /\ UNCHANGED readyIndex)

FairSpec == Spec /\ Fairness

-----------------------------------------------------------------------------

\* The winner has settled before the coroutine asks it for its result: none of
\* its callbacks is running or pending any more.
WinnerSettled == awaiter = "resumed" => Settled(readyIndex)

\* Whoever is about to use the awaitable finds it there: the sink that passed
\* the gate and, if all is on one thread, the loop that arms the sinks.
AwaitableLive ==
  awaiter \in {"over", "destroyed"} =>
    /\ \A t \in Tasks : sink[t] # "entered"
    /\ remote = {} => phase = "done"

\* The first task to settle ends the wait, unless another sink took the place
\* of its own.
OneSettleResumes ==
  \A t \in Tasks :
    task[t] = "settled" /\ sink[t] # "replaced" /\ phase = "done" ~> awaiter # "suspended"

\* Task t is about to resume the awaiting coroutine.
Ticket(t) ==
  \/ sink[t] = "entered"
  \/ t \in continuation /\ task[t] \in {"dispatch", "transfer"}

\* No completion is lost: once a task has settled whose sink was not replaced,
\* a coroutine that is still suspended is about to be resumed by some task.
NoLostWinner ==
  \A t \in Tasks :
    task[t] = "settled" /\ sink[t] # "replaced" /\ phase = "done" /\ awaiter = "suspended"
      => \E s \in Tasks : Ticket(s)

\* The co_await answers with one task's outcome, once, and names that task.
Promise ==
  INSTANCE OneShot WITH
    Events <- Tasks, Grounds <- {{t} : t \in Tasks},
    happened <- {t \in Tasks : task[t] # "running"},
    answer <- IF awaiter \in {"resumed", "over"} THEN {readyIndex} ELSE {},
    wait <- CASE awaiter \in {"running", "suspended"} -> "waiting"
              [] awaiter \in {"resumed", "over"} -> "answered"
              [] awaiter = "destroyed" -> "dropped"
              [] awaiter = "stray" -> "stray"

KeepsPromise == Promise!Spec

=============================================================================
