------------------------------ MODULE WhenAll ------------------------------
(***************************************************************************)
(* whenAll (include/QtCoroutine/qtask.hpp): the awaiting coroutine runs on *)
(* when the last of the tasks has completed.                               *)
(***************************************************************************)
EXTENDS Combinator, FiniteSets

VARIABLE remaining    \* the shared countdown

vars == <<combined, remaining>>

TypeOK ==
  /\ CombinatorTypeOK
  /\ remaining \in 0..N

Init ==
  /\ CombinatorInit
  /\ remaining = N

-----------------------------------------------------------------------------

\* await_ready asks one task after another; all of them must have settled.
AwaitReady ==
  /\ phase = "await_ready" /\ awaiter = "running"
  /\ \/ Settled(i) /\ i = N /\ awaiter' = "resumed" /\ phase' = "done" /\ UNCHANGED i
     \/ Settled(i) /\ i < N /\ i' = i + 1 /\ UNCHANGED <<phase, awaiter>>
     \/ ~Settled(i) /\ i' = 1 /\ phase' = "then" /\ awaiter' = "suspended"
  /\ UNCHANGED <<remote, task, sink, continuation, guard, on, remaining>>

\* A completion after the awaiting frame's end is dropped.
EnterSink(t) ==
  /\ SinkCalled(t)
  /\ sink' = [sink EXCEPT ![t] = IF guard THEN "returned" ELSE "entered"]
  /\ UNCHANGED <<remote, task, continuation, guard, phase, i, awaiter, on, remaining>>

\* Mutant of CountDown: any task's completion will do.
CountDownFirst(t) ==
  /\ sink[t] = "entered"
  /\ sink' = [sink EXCEPT ![t] = "returned"]
  /\ remaining' = remaining - 1
  /\ IF remaining = N THEN ResumeFrom(t) ELSE UNCHANGED <<continuation, awaiter, on>>
  /\ UNCHANGED <<remote, task, guard, phase, i>>

\* Mutant of CountDown: the countdown ends one task late.
CountDownPastZero(t) ==
  /\ sink[t] = "entered"
  /\ sink' = [sink EXCEPT ![t] = "returned"]
  /\ remaining' = IF remaining = 0 THEN 0 ELSE remaining - 1
  /\ IF remaining = 0 THEN ResumeFrom(t) ELSE UNCHANGED <<continuation, awaiter, on>>
  /\ UNCHANGED <<remote, task, guard, phase, i>>

\* Mutant of CountDown: a task found settled is not counted.
CountDownLive(t) ==
  /\ sink[t] = "entered"
  /\ sink' = [sink EXCEPT ![t] = "returned"]
  /\ remaining' = IF Settled(t) THEN remaining ELSE remaining - 1
  /\ IF remaining = 1 THEN ResumeFrom(t) ELSE UNCHANGED <<continuation, awaiter, on>>
  /\ UNCHANGED <<remote, task, guard, phase, i>>

\* fetch_sub: whoever counts the last task resumes the coroutine.
CountDown(t) ==
  /\ sink[t] = "entered"
  /\ sink' = [sink EXCEPT ![t] = "returned"]
  /\ remaining' = remaining - 1
  /\ IF remaining = 1 THEN ResumeFrom(t) ELSE UNCHANGED <<continuation, awaiter, on>>
  /\ UNCHANGED <<remote, task, guard, phase, i>>

-----------------------------------------------------------------------------

Next ==
  \/ AwaitReady
  \/ \E t \in Tasks : EnterSink(t) \/ CountDown(t)
  \/ Surroundings /\ UNCHANGED remaining

Spec == Init /\ [][Next]_vars

\* Dispatches and the await go on once begun.
Fairness ==
  /\ WF_vars(AwaitReady) /\ WF_vars((Register \/ RegisterRest \/ Finish) /\ UNCHANGED remaining)
  /\ \A t \in Tasks :
       /\ WF_vars(EnterSink(t) \/ CountDown(t))
       /\ WF_vars(Progress(t) /\ UNCHANGED remaining)

FairSpec == Spec /\ Fairness

-----------------------------------------------------------------------------

\* No completion is lost or counted twice: what remains is what has not been
\* counted, whatever order the tasks complete in.
CountsTasks ==
  ~guard => remaining = N - Cardinality({t \in Tasks : sink[t] = "returned"})

\* The coroutine is not left suspended once every task has settled, unless
\* another sink took the place of one of its own.
AllSettleResumes ==
  (\A t \in Tasks : task[t] = "settled" /\ sink[t] # "replaced") ~> awaiter # "suspended"

\* No last completion is lost: a coroutine that is still suspended when every
\* task has settled is one a sink of its own could not reach.
NoLostCompletion ==
  phase = "done" /\ awaiter = "suspended" =>
    \E t \in Tasks : task[t] # "settled" \/ sink[t] = "replaced"

\* The co_await answers with all the outcomes, once.
Promise ==
  INSTANCE OneShot WITH
    Events <- Tasks, Grounds <- {Tasks},
    happened <- {t \in Tasks : task[t] # "running"},
    answer <- IF awaiter \in {"resumed", "over"} THEN Tasks ELSE {},
    wait <- CASE awaiter \in {"running", "suspended"} -> "waiting"
              [] awaiter \in {"resumed", "over"} -> "answered"
              [] awaiter = "destroyed" -> "dropped"
              [] awaiter = "stray" -> "stray"

KeepsPromise == Promise!Spec

=============================================================================
