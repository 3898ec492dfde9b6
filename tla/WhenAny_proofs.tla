--------------------------- MODULE WhenAny_proofs ---------------------------
(***************************************************************************)
(* Proofs about WhenAny, for any number of tasks.  What the library        *)
(* promises needs ~LiveDestroy: see the run when_any_destroyed.            *)
(***************************************************************************)
EXTENDS WhenAny, TLAPS

\* Where each sink is while await_suspend registers them, and what it says of
\* its task.
SinkInv ==
  /\ phase = "await_ready" <=> awaiter = "running"
  /\ phase = "await_ready" => ~guard /\ \A t \in Tasks : sink[t] = "none"
  /\ phase = "then" => \A t \in i..N : sink[t] = "none"
  /\ phase = "rest" => \A t \in (i + 1)..N : sink[t] = "none"
  /\ \A t \in Tasks :
       /\ sink[t] \in {"called", "entered", "returned"} => task[t] # "running"
       /\ sink[t] = "called" => Settled(t)
       /\ Settled(t) /\ sink[t] \in {"called", "entered"} => phase = "rest" /\ i = t
       /\ task[t] = "transfer" => t \in continuation
       /\ t \in continuation => sink[t] = "returned"

\* One ticket at most, held only while the coroutine is suspended and the gate
\* closed; its holder is the winner.
GateInv ==
  /\ awaiter # "stray"
  /\ \A t \in Tasks : Ticket(t) => awaiter = "suspended" /\ guard
  /\ \A s, t \in Tasks : Ticket(s) /\ Ticket(t) => s = t
  /\ \A t \in continuation : Ticket(t) => readyIndex = t
  /\ ~guard /\ awaiter # "suspended" => \A t \in Tasks : sink[t] = "none"
  /\ ~guard /\ phase \in {"then", "rest"} => awaiter = "suspended"
  /\ awaiter \in {"over", "destroyed"} => guard
  /\ awaiter = "resumed" => Settled(readyIndex)

\* On one thread no task settles while the awaitable asks and arms.
HereInv ==
  remote = {} =>
    /\ phase # "done" =>
         \A t \in Tasks : sink[t] \in {"none", "pending"} /\ task[t] # "transfer"
    /\ phase = "await_ready" => \A t \in 1..(i - 1) : ~Settled(t)
    /\ phase \in {"then", "rest"} =>
         awaiter = "suspended" /\ \A t \in Tasks : ~Settled(t)

IInv == TypeOK /\ SinkInv /\ GateInv /\ HereInv

-----------------------------------------------------------------------------

LEMMA InvInit == Init => IInv
<1> SUFFICES ASSUME Init PROVE IInv OBVIOUS
<1> USE CombinatorAssumption DEF Init, CombinatorInit, Tasks, Home
<1>1. TypeOK
  <2>1. guard \in BOOLEAN OBVIOUS
  <2>2. task \in [Tasks -> {"running", "dispatch", "transfer", "settled"}] OBVIOUS
  <2> QED BY <2>1, <2>2 DEF TypeOK, CombinatorTypeOK
<1>2. SinkInv
  BY DEF SinkInv, Settled
<1>3. GateInv
  BY DEF GateInv, Ticket
<1>4. HereInv
  BY DEF HereInv, Settled
<1> QED BY <1>1, <1>2, <1>3, <1>4 DEF IInv

LEMMA TypeStep == ASSUME TypeOK, [Next]_vars PROVE TypeOK'
<1> USE CombinatorAssumption DEF TypeOK, CombinatorTypeOK, Tasks, Home
<1>1. CASE AwaitReady
  BY <1>1 DEF AwaitReady
<1>2. ASSUME NEW t \in Tasks, EnterSink(t) PROVE TypeOK'
  <2>1. guard' \in BOOLEAN
    BY <1>2 DEF EnterSink
  <2> QED BY <1>2, <2>1 DEF EnterSink
<1>3. ASSUME NEW t \in Tasks, Win(t) PROVE TypeOK'
  BY <1>3 DEF Win, ResumeFrom, ResumeOn
<1>4. ASSUME NEW t \in Tasks,
             Complete(t) \/ Settle(t) \/ Transfer(t) \/ Replace(t), UNCHANGED readyIndex
      PROVE TypeOK'
  <2>1. CASE Complete(t) BY <1>4, <2>1 DEF Complete
  <2>2. CASE Settle(t) BY <1>4, <2>2 DEF Settle
  <2>3. CASE Transfer(t) BY <1>4, <2>3 DEF Transfer, ResumeOn, Thread
  <2>4. CASE Replace(t) BY <1>4, <2>4 DEF Replace
  <2> QED BY <1>4, <2>1, <2>2, <2>3, <2>4
<1>5. CASE Register /\ UNCHANGED readyIndex
  BY <1>5 DEF Register
<1>6. CASE RegisterRest /\ UNCHANGED readyIndex
  BY <1>6 DEF RegisterRest
<1>7. CASE (Finish \/ Destroy) /\ UNCHANGED readyIndex
  <2>1. guard' \in BOOLEAN
    BY <1>7 DEF Finish, Destroy
  <2> QED BY <1>7, <2>1 DEF Finish, Destroy
<1>8. CASE UNCHANGED vars
  BY <1>8 DEF vars, combined
<1> QED BY <1>1, <1>2, <1>3, <1>4, <1>5, <1>6, <1>7, <1>8 DEF Next, Surroundings

LEMMA SinkStep == ASSUME IInv, [Next]_vars PROVE SinkInv'
<1> USE CombinatorAssumption
    DEF IInv, TypeOK, CombinatorTypeOK, SinkInv, GateInv, Ticket, Tasks, Home, Settled
<1>1. CASE AwaitReady
  BY <1>1 DEF AwaitReady
<1>2. ASSUME NEW t \in Tasks, EnterSink(t) PROVE SinkInv'
  BY <1>2 DEF EnterSink, SinkCalled
<1>3. ASSUME NEW t \in Tasks, Win(t) PROVE SinkInv'
  BY <1>3 DEF Win, ResumeFrom, ResumeOn
<1>4. ASSUME NEW t \in Tasks,
             Complete(t) \/ Settle(t) \/ Transfer(t) \/ Replace(t), UNCHANGED readyIndex
      PROVE SinkInv'
  <2>1. CASE Complete(t) BY <1>4, <2>1 DEF Complete
  <2>2. CASE Settle(t) BY <1>4, <2>2 DEF Settle
  <2>3. CASE Transfer(t) BY <1>4, <2>3 DEF Transfer, ResumeOn, Thread
  <2>4. CASE Replace(t) BY <1>4, <2>4 DEF Replace, HomeFree
  <2> QED BY <1>4, <2>1, <2>2, <2>3, <2>4
<1>5. CASE Register /\ UNCHANGED readyIndex
  BY <1>5 DEF Register
<1>6. CASE RegisterRest /\ UNCHANGED readyIndex
  BY <1>6 DEF RegisterRest
<1>7. CASE (Finish \/ Destroy) /\ UNCHANGED readyIndex
  BY <1>7 DEF Finish, Destroy
<1>8. CASE UNCHANGED vars
  BY <1>8 DEF vars, combined
<1> QED BY <1>1, <1>2, <1>3, <1>4, <1>5, <1>6, <1>7, <1>8 DEF Next, Surroundings

LEMMA HereStep == ASSUME IInv, [Next]_vars PROVE HereInv'
<1> USE CombinatorAssumption
    DEF IInv, TypeOK, CombinatorTypeOK, SinkInv, GateInv, HereInv, Ticket, Tasks, Home,
        Settled, MayRun, HomeFree, Ending
<1>1. CASE AwaitReady
  BY <1>1 DEF AwaitReady
<1>2. ASSUME NEW t \in Tasks, EnterSink(t) PROVE HereInv'
  BY <1>2 DEF EnterSink, SinkCalled
<1>3. ASSUME NEW t \in Tasks, Win(t) PROVE HereInv'
  BY <1>3 DEF Win, ResumeFrom, ResumeOn
<1>4. ASSUME NEW t \in Tasks,
             Complete(t) \/ Settle(t) \/ Transfer(t) \/ Replace(t), UNCHANGED readyIndex
      PROVE HereInv'
  <2>1. CASE Complete(t) BY <1>4, <2>1 DEF Complete
  <2>2. CASE Settle(t) BY <1>4, <2>2 DEF Settle
  <2>3. CASE Transfer(t) BY <1>4, <2>3 DEF Transfer, ResumeOn, Thread
  <2>4. CASE Replace(t) BY <1>4, <2>4 DEF Replace
  <2> QED BY <1>4, <2>1, <2>2, <2>3, <2>4
<1>5. CASE Register /\ UNCHANGED readyIndex
  BY <1>5 DEF Register
<1>6. CASE RegisterRest /\ UNCHANGED readyIndex
  BY <1>6 DEF RegisterRest
<1>7. CASE (Finish \/ Destroy) /\ UNCHANGED readyIndex
  BY <1>7 DEF Finish, Destroy
<1>8. CASE UNCHANGED vars
  BY <1>8 DEF vars, combined
<1> QED BY <1>1, <1>2, <1>3, <1>4, <1>5, <1>6, <1>7, <1>8 DEF Next, Surroundings

LEMMA GateStep == ASSUME IInv, [Next]_vars, ~LiveDestroy PROVE GateInv'
<1> USE CombinatorAssumption
    DEF IInv, TypeOK, CombinatorTypeOK, SinkInv, GateInv, Ticket, Tasks, Home, Settled
<1>1. CASE AwaitReady
  BY <1>1 DEF AwaitReady
<1>2. ASSUME NEW t \in Tasks, EnterSink(t) PROVE GateInv'
  BY <1>2 DEF EnterSink, SinkCalled
<1>3. ASSUME NEW t \in Tasks, Win(t) PROVE GateInv'
  <2>1. /\ awaiter = "suspended" /\ guard /\ t \notin continuation
        /\ \A s \in Tasks : s # t => ~Ticket(s)
    BY <1>3 DEF Win
  <2>2. /\ sink' = [sink EXCEPT ![t] = "returned"]
        /\ readyIndex' = t
        /\ UNCHANGED <<task, guard, phase, i>>
    BY <1>3 DEF Win
  <2>3. CASE Settled(t)
    <3>1. awaiter' = "resumed" /\ continuation' = continuation
      BY <1>3, <2>1, <2>3 DEF Win, ResumeFrom, ResumeOn
    <3>2. \A s \in Tasks : ~Ticket(s)'
      BY <2>1, <2>2, <3>1
    <3> QED BY <2>1, <2>2, <2>3, <3>1, <3>2
  <2>4. CASE ~Settled(t)
    <3>1. continuation' = continuation \cup {t} /\ awaiter' = awaiter
      BY <1>3, <2>4 DEF Win, ResumeFrom
    <3>2. \A s \in Tasks : Ticket(s)' => s = t
      BY <2>1, <2>2, <3>1
    <3> QED BY <2>1, <2>2, <3>1, <3>2
  <2> QED BY <2>3, <2>4
<1>4. ASSUME NEW t \in Tasks,
             Complete(t) \/ Settle(t) \/ Transfer(t) \/ Replace(t), UNCHANGED readyIndex
      PROVE GateInv'
  <2>1. CASE Complete(t) BY <1>4, <2>1 DEF Complete
  <2>2. CASE Settle(t) BY <1>4, <2>2 DEF Settle
  <2>3. CASE Transfer(t) BY <1>4, <2>3 DEF Transfer, ResumeOn, Thread
  <2>4. CASE Replace(t) BY <1>4, <2>4 DEF Replace, HomeFree
  <2> QED BY <1>4, <2>1, <2>2, <2>3, <2>4
<1>5. CASE Register /\ UNCHANGED readyIndex
  BY <1>5 DEF Register
<1>6. CASE RegisterRest /\ UNCHANGED readyIndex
  BY <1>6 DEF RegisterRest
<1>7. CASE Finish /\ UNCHANGED readyIndex
  BY <1>7 DEF Finish
<1>8. CASE Destroy /\ UNCHANGED readyIndex
  BY <1>8 DEF Destroy, HomeFree, Ending
<1>9. CASE UNCHANGED vars
  BY <1>9 DEF vars, combined
<1> QED BY <1>1, <1>2, <1>3, <1>4, <1>5, <1>6, <1>7, <1>8, <1>9 DEF Next, Surroundings

LEMMA Invariance == ASSUME ~LiveDestroy PROVE Spec => []IInv
<1>1. IInv /\ [Next]_vars => IInv'
  BY TypeStep, SinkStep, GateStep, HereStep DEF IInv
<1>2. QED
  BY <1>1, InvInit, PTL DEF Spec

-----------------------------------------------------------------------------

\* Every variable keeps its type, whatever threads the tasks complete on.
THEOREM TypeCorrect == Spec => []TypeOK
<1>1. Init => TypeOK
  BY InvInit DEF IInv
<1>2. TypeOK /\ [Next]_vars => TypeOK'
  BY TypeStep
<1> QED BY <1>1, <1>2, PTL DEF Spec

\* Unless the frame is destroyed while a task completes on another thread, the
\* sink that passed the gate finds the awaitable there; on one thread, so does
\* the loop of await_suspend.
THEOREM Lifetime == ASSUME ~LiveDestroy PROVE Spec => []AwaitableLive
<1>1. IInv => AwaitableLive
  BY DEF IInv, TypeOK, CombinatorTypeOK, SinkInv, GateInv, HereInv, Ticket, AwaitableLive
<1> QED BY <1>1, Invariance, PTL

\* When the coroutine asks the winner for its result, the winner has settled.
THEOREM Winner == ASSUME ~LiveDestroy PROVE Spec => []WinnerSettled
<1>1. IInv => WinnerSettled
  BY DEF IInv, GateInv, WinnerSettled
<1> QED BY <1>1, Invariance, PTL

\* whenAny resumes a suspended coroutine once, on account of one task, which it
\* names: it implements what every awaitable promises.
THEOREM OneAnswer == ASSUME ~LiveDestroy PROVE Spec => KeepsPromise
<1> DEFINE completed == {t \in Tasks : task[t] # "running"}
           waits == IF awaiter \in {"running", "suspended"} THEN "waiting"
                    ELSE IF awaiter = "destroyed" THEN "dropped" ELSE "answered"
           answer == IF awaiter \in {"resumed", "over"} THEN {readyIndex} ELSE {}
<1>1. Init => Promise!Init
  BY CombinatorAssumption DEF Init, CombinatorInit, Promise!Init
<1>2. ASSUME IInv, IInv', [Next]_vars PROVE [Promise!Next]_(Promise!vars)
  <2> USE DEF IInv, TypeOK, CombinatorTypeOK, GateInv, Settled
  <2>1. ASSUME UNCHANGED <<completed, waits, answer>> PROVE UNCHANGED Promise!vars
    BY <1>2, <2>1 DEF Promise!vars
  <2>2. ASSUME awaiter \in {"running", "suspended"}, awaiter' = "resumed",
               UNCHANGED completed, task[readyIndex'] # "running"
        PROVE Promise!Answer
    BY <1>2, <2>2 DEF Promise!Answer
  <2>3. CASE AwaitReady
    <3>1. CASE awaiter' = "resumed"
      BY <1>2, <2>2, <2>3, <3>1 DEF AwaitReady, Promise!Next
    <3>2. CASE awaiter' # "resumed"
      BY <1>2, <2>1, <2>3, <3>2 DEF AwaitReady
    <3> QED BY <3>1, <3>2
  <2>4. ASSUME NEW t \in Tasks, EnterSink(t) PROVE [Promise!Next]_(Promise!vars)
    BY <2>1, <2>4 DEF EnterSink
  <2>5. ASSUME NEW t \in Tasks, Win(t) PROVE [Promise!Next]_(Promise!vars)
    <3>1. awaiter = "suspended" /\ task[t] # "running"
      BY <1>2, <2>5 DEF Win, Ticket, SinkInv
    <3>2. CASE Settled(t)
      BY <2>2, <2>5, <3>1, <3>2 DEF Win, ResumeFrom, ResumeOn, Promise!Next
    <3>3. CASE ~Settled(t)
      BY <2>1, <2>5, <3>1, <3>3 DEF Win, ResumeFrom
    <3> QED BY <3>2, <3>3
  <2>6. ASSUME NEW t \in Tasks, Complete(t), UNCHANGED readyIndex
        PROVE [Promise!Next]_(Promise!vars)
    <3>1. completed \subseteq completed' /\ UNCHANGED <<waits, answer>>
      BY <1>2, <2>6 DEF Complete
    <3> QED BY <1>2, <3>1 DEF Promise!Next, Promise!Happen
  <2>7. ASSUME NEW t \in Tasks, Settle(t), UNCHANGED readyIndex
        PROVE [Promise!Next]_(Promise!vars)
    BY <1>2, <2>1, <2>7 DEF Settle
  <2>8. ASSUME NEW t \in Tasks, Transfer(t), UNCHANGED readyIndex
        PROVE [Promise!Next]_(Promise!vars)
    <3>1. awaiter = "suspended" /\ readyIndex = t
      BY <1>2, <2>8 DEF Transfer, Ticket, SinkInv
    <3>2. UNCHANGED completed
      BY <1>2, <2>8 DEF Transfer
    <3> QED BY <2>2, <2>8, <3>1, <3>2 DEF Transfer, ResumeOn, Promise!Next
  <2>9. ASSUME NEW t \in Tasks, Replace(t), UNCHANGED readyIndex
        PROVE [Promise!Next]_(Promise!vars)
    BY <2>1, <2>9 DEF Replace
  <2>10. CASE (Register \/ RegisterRest \/ Finish) /\ UNCHANGED readyIndex
    BY <2>1, <2>10 DEF Register, RegisterRest, Finish
  <2>11. CASE Destroy /\ UNCHANGED readyIndex
    BY <2>11 DEF Destroy, Promise!Next, Promise!Drop
  <2>12. CASE UNCHANGED vars
    BY <2>1, <2>12 DEF vars, combined
  <2> QED BY <1>2, <2>3, <2>4, <2>5, <2>6, <2>7, <2>8, <2>9, <2>10, <2>11, <2>12
          DEF Next, Surroundings
<1>3. QED
  BY <1>1, <1>2, Invariance, PTL DEF Spec, KeepsPromise, Promise!Spec

-----------------------------------------------------------------------------
(* The tasks: each takes the steps of ArmedTask, which QTask_proofs proves  *)
(* QTask to take too.  This needs no assumption on LiveDestroy.            *)

\* The sinks that have still to be armed.
ArmInv ==
  /\ phase = "await_ready" => \A t \in Tasks : sink[t] = "none"
  /\ phase = "then" => \A t \in i..N : sink[t] = "none"
  /\ phase = "rest" => \A t \in (i + 1)..N : sink[t] = "none"

LEMMA ArmInvStep == ASSUME CombinatorTypeOK, ArmInv, [Next]_vars PROVE ArmInv'
<1> USE CombinatorAssumption DEF CombinatorTypeOK, ArmInv, Tasks
<1>1. CASE AwaitReady
  BY <1>1 DEF AwaitReady
<1>2. ASSUME NEW t \in Tasks, EnterSink(t) PROVE ArmInv'
  BY <1>2 DEF EnterSink, SinkCalled
<1>3. ASSUME NEW t \in Tasks, Win(t) PROVE ArmInv'
  BY <1>3 DEF Win
<1>4. CASE \E t \in Tasks : Complete(t) \/ Settle(t) \/ Transfer(t) \/ Replace(t)
  BY <1>4 DEF Complete, Settle, Transfer, Replace, HomeFree
<1>5. CASE Register
  BY <1>5 DEF Register
<1>6. CASE RegisterRest
  BY <1>6 DEF RegisterRest
<1>7. CASE Finish \/ Destroy
  BY <1>7 DEF Finish, Destroy
<1>8. CASE UNCHANGED vars
  BY <1>8 DEF vars, combined
<1> QED BY <1>1, <1>2, <1>3, <1>4, <1>5, <1>6, <1>7, <1>8 DEF Next, Surroundings

LEMMA ArmedStep ==
  ASSUME CombinatorTypeOK, ArmInv, Next, NEW s \in Tasks
  PROVE  Armed(s)!Next \/ UNCHANGED Armed(s)!vars
<1> DEFINE seen == IF sink[s] \in {"entered", "returned"} THEN "called" ELSE sink[s]
<1> USE DEF CombinatorTypeOK
<1>1. ASSUME UNCHANGED <<task, continuation, seen>> PROVE UNCHANGED Armed(s)!vars
  BY <1>1 DEF Armed!vars
<1>2. CASE AwaitReady
  BY <1>1, <1>2 DEF AwaitReady
<1>3. ASSUME NEW t \in Tasks, EnterSink(t)
      PROVE  Armed(s)!Call \/ UNCHANGED Armed(s)!vars
  <2>1. CASE t = s /\ sink[s] = "pending"
    BY <1>3, <2>1 DEF EnterSink, SinkCalled, Armed!Call
  <2>2. CASE ~(t = s /\ sink[s] = "pending")
    BY <1>1, <1>3, <2>2 DEF EnterSink, SinkCalled
  <2> QED BY <2>1, <2>2
<1>4. ASSUME NEW t \in Tasks, Win(t)
      PROVE  Armed(s)!Park \/ UNCHANGED Armed(s)!vars
  <2>1. UNCHANGED <<task, seen>>
    BY <1>4 DEF Win
  <2>2. CASE UNCHANGED continuation
    BY <1>1, <2>1, <2>2
  <2>3. CASE continuation' = continuation \cup {t} /\ ~Settled(t)
    BY <2>1, <2>3 DEF Armed!Park, Armed!Settled, Armed!vars, Settled
  <2> QED BY <1>4, <2>2, <2>3 DEF Win, ResumeFrom
<1>5. ASSUME NEW t \in Tasks, Complete(t) PROVE Armed(s)!Complete \/ UNCHANGED Armed(s)!vars
  BY <1>5 DEF Complete, Armed!Complete, Armed!vars
<1>6. ASSUME NEW t \in Tasks, Settle(t) PROVE Armed(s)!Settle \/ UNCHANGED Armed(s)!vars
  BY <1>6 DEF Settle, Armed!Settle, Armed!vars
<1>7. ASSUME NEW t \in Tasks, Transfer(t) PROVE Armed(s)!Transfer \/ UNCHANGED Armed(s)!vars
  BY <1>7 DEF Transfer, Armed!Transfer, Armed!vars
<1>8. ASSUME NEW t \in Tasks, Replace(t) PROVE Armed(s)!Replace \/ UNCHANGED Armed(s)!vars
  BY <1>8 DEF Replace, Settled, Armed!Replace, Armed!Settled, Armed!vars
<1>9. CASE Register
  <2>1. i \in i..N /\ sink[i] = "none"
    BY <1>9, CombinatorAssumption DEF Register, ArmInv, Tasks
  <2> QED BY <1>9, <2>1 DEF Register, Settled, Armed!Next, Armed!Arm, Armed!Settled, Armed!vars
<1>10. CASE RegisterRest \/ Finish \/ Destroy
  BY <1>1, <1>10 DEF RegisterRest, Finish, Destroy
<1> QED
  BY <1>2, <1>3, <1>4, <1>5, <1>6, <1>7, <1>8, <1>9, <1>10 DEF Next, Surroundings, Armed!Next

\* What the combinator assumes of its tasks is nothing QTask does not do
\* (qtask.hpp:767-784).
THEOREM TasksArmed == Spec => TasksAreArmed
<1>1. Init => TypeOK /\ ArmInv /\ \A t \in Tasks : Armed(t)!Init
  <2> SUFFICES ASSUME Init
               PROVE  TypeOK /\ ArmInv /\ \A t \in Tasks : Armed(t)!Init
    OBVIOUS
  <2>1. TypeOK
    BY InvInit DEF IInv
  <2>2. ArmInv
    BY DEF Init, CombinatorInit, ArmInv, Tasks
  <2>3. \A t \in Tasks : Armed(t)!Init
    BY DEF Init, CombinatorInit, Armed!Init
  <2> QED BY <2>1, <2>2, <2>3
<1>2. TypeOK /\ ArmInv /\ [Next]_vars => TypeOK' /\ ArmInv'
  BY TypeStep, ArmInvStep DEF TypeOK
<1>3. TypeOK /\ ArmInv /\ [Next]_vars =>
        [\A t \in Tasks : Armed(t)!Next \/ UNCHANGED Armed(t)!vars]_combined
  BY ArmedStep DEF vars, TypeOK
<1> QED BY <1>1, <1>2, <1>3, PTL DEF Spec, TasksAreArmed

-----------------------------------------------------------------------------
(* No completion is lost: the part of liveness that is not about fairness. *)

\* Every task has been armed when await_suspend is through, no armed sink of a
\* settled task waits, and whoever closed the gate holds the ticket.
WakeInv ==
  /\ phase = "then" => \A t \in 1..(i - 1) : sink[t] # "none"
  /\ phase = "rest" => \A t \in 1..i : sink[t] # "none"
  /\ phase = "done" /\ awaiter = "suspended" => \A t \in Tasks : sink[t] # "none"
  /\ \A t \in Tasks : sink[t] = "pending" => ~Settled(t)
  /\ awaiter = "suspended" /\ guard => \E t \in Tasks : Ticket(t)
  /\ ~guard => \A t \in Tasks : sink[t] \notin {"entered", "returned"}

LEMMA WakeStep == ASSUME IInv, WakeInv, [Next]_vars PROVE WakeInv'
<1> USE CombinatorAssumption DEF TypeOK, CombinatorTypeOK, WakeInv, Tasks, Settled, Ticket
<1>0. TypeOK /\ SinkInv /\ GateInv
  BY DEF IInv
<1>1. CASE AwaitReady
  BY <1>0, <1>1 DEF AwaitReady, SinkInv
<1>2. ASSUME NEW t \in Tasks, EnterSink(t) PROVE WakeInv'
  <2>1. /\ sink[t] \in {"pending", "called"}
        /\ sink' = [sink EXCEPT ![t] = IF guard THEN "returned" ELSE "entered"]
        /\ guard' = TRUE
        /\ UNCHANGED <<task, continuation, phase, i, awaiter>>
    BY <1>2 DEF EnterSink, SinkCalled
  <2>2. ASSUME awaiter = "suspended" PROVE \E s \in Tasks : Ticket(s)'
    <3>1. CASE guard
      <4>1. PICK s \in Tasks : Ticket(s)
        BY <2>2, <3>1
      <4>2. s # t
        BY <1>0, <2>1, <4>1 DEF SinkInv
      <4> QED BY <1>0, <2>1, <4>1, <4>2
    <3>2. CASE ~guard
      BY <1>0, <2>1, <3>2
    <3> QED BY <3>1, <3>2
  <2> QED BY <1>0, <2>1, <2>2
<1>3. ASSUME NEW t \in Tasks, Win(t) PROVE WakeInv'
  <2>1. /\ sink[t] = "entered" /\ awaiter = "suspended" /\ guard
        /\ task[t] # "running"
        /\ sink' = [sink EXCEPT ![t] = "returned"]
        /\ UNCHANGED <<task, guard, phase, i>>
    BY <1>0, <1>3 DEF Win, GateInv, SinkInv
  <2>2. CASE Settled(t)
    <3>1. awaiter' = "resumed"
      BY <1>3, <2>1, <2>2 DEF Win, ResumeFrom, ResumeOn
    <3> QED BY <1>0, <2>1, <3>1
  <2>3. CASE ~Settled(t)
    <3>1. continuation' = continuation \cup {t} /\ awaiter' = awaiter
      BY <1>3, <2>3 DEF Win, ResumeFrom
    <3>2. Ticket(t)'
      BY <1>0, <2>1, <2>3, <3>1
    <3> QED BY <1>0, <2>1, <3>1, <3>2
  <2> QED BY <2>2, <2>3
<1>4. ASSUME NEW t \in Tasks, Complete(t) \/ Settle(t) \/ Transfer(t) \/ Replace(t)
      PROVE  WakeInv'
  <2>1. CASE Complete(t)
    BY <1>0, <2>1 DEF Complete
  <2>2. CASE Settle(t)
    BY <1>0, <2>2 DEF Settle
  <2>3. CASE Transfer(t)
    BY <1>0, <2>3 DEF Transfer, ResumeOn, Thread, SinkInv, GateInv
  <2>4. CASE Replace(t)
    BY <1>0, <2>4 DEF Replace, HomeFree
  <2> QED BY <1>4, <2>1, <2>2, <2>3, <2>4
<1>5. CASE Register
  BY <1>0, <1>5 DEF Register, SinkInv
<1>6. CASE RegisterRest
  BY <1>0, <1>6 DEF RegisterRest
<1>7. CASE Finish \/ Destroy
  BY <1>0, <1>7 DEF Finish, Destroy
<1>8. CASE UNCHANGED vars
  BY <1>8 DEF vars, combined
<1> QED BY <1>1, <1>2, <1>3, <1>4, <1>5, <1>6, <1>7, <1>8 DEF Next, Surroundings

\* However the completions race the registrations and each other, the first to
\* settle is resuming the coroutine, or another one is (qtask.hpp:767-784).
THEOREM WakeUp == ASSUME ~LiveDestroy PROVE Spec => []NoLostWinner
<1>1. Init => WakeInv
  BY CombinatorAssumption DEF Init, CombinatorInit, WakeInv, Tasks
<1>2. IInv /\ WakeInv /\ [Next]_vars => WakeInv'
  BY WakeStep
<1>3. IInv /\ WakeInv => NoLostWinner
  <2> SUFFICES ASSUME IInv, WakeInv, NEW t \in Tasks, task[t] = "settled",
                      sink[t] # "replaced", phase = "done", awaiter = "suspended"
               PROVE  \E s \in Tasks : Ticket(s)
    BY DEF NoLostWinner
  <2>1. sink[t] \in {"entered", "returned"}
    BY DEF IInv, TypeOK, CombinatorTypeOK, SinkInv, WakeInv, Settled
  <2> QED BY <2>1 DEF WakeInv
<1> QED BY <1>1, <1>2, <1>3, Invariance, PTL DEF Spec

=============================================================================
