--------------------------- MODULE WhenAll_proofs ---------------------------
(***************************************************************************)
(* Proofs about WhenAll, for any number of tasks.  They need ~LiveDestroy: *)
(* see the theorem's twin in WhenAny_proofs.                               *)
(***************************************************************************)
EXTENDS WhenAll, FiniteSetTheorems, TLAPS

Returned == {t \in Tasks : sink[t] = "returned"}

\* Where each sink is while await_ready asks and await_suspend registers, and
\* what it says of its task.
SinkInv ==
  /\ phase = "await_ready" <=> awaiter = "running"
  /\ phase = "await_ready" =>
       /\ ~guard
       /\ \A t \in Tasks : sink[t] = "none"
       /\ \A t \in 1..(i - 1) : Settled(t)
  /\ phase = "then" => \A t \in i..N : sink[t] = "none"
  /\ phase = "rest" => \A t \in (i + 1)..N : sink[t] = "none"
  /\ \A t \in Tasks :
       /\ sink[t] \in {"called", "entered", "returned"} => task[t] # "running"
       /\ sink[t] = "called" => Settled(t)
       /\ Settled(t) /\ sink[t] \in {"called", "entered"} => phase = "rest" /\ i = t
       /\ task[t] = "transfer" => t \in continuation

\* What remains is what has not been counted, while anybody counts.
CountInv ==
  /\ remaining \in 0..N
  /\ ~guard => remaining + Cardinality(Returned) = N

\* Sinks count, and the last one's task resumes, only while the coroutine is
\* suspended; the last one is the one after which all have returned.
ResumeInv ==
  /\ awaiter # "stray"
  /\ awaiter = "suspended" => ~guard
  /\ awaiter \in {"over", "destroyed"} => guard
  /\ \A t \in Tasks : sink[t] = "entered" => awaiter = "suspended"
  /\ \A t \in continuation :
       /\ task[t] \in {"dispatch", "transfer"} => awaiter = "suspended"
       /\ \A s \in Tasks : sink[s] = "returned"
       /\ \A s \in continuation : s = t
  /\ ~guard /\ awaiter # "suspended" =>
       \/ phase \in {"await_ready", "done"} /\ \A t \in Tasks : sink[t] = "none"
       \/ \A t \in Tasks : sink[t] = "returned"

IInv == CombinatorTypeOK /\ SinkInv /\ CountInv /\ ResumeInv

-----------------------------------------------------------------------------

LEMMA InvInit == Init => IInv
<1> SUFFICES ASSUME Init PROVE IInv OBVIOUS
<1> USE CombinatorAssumption DEF Init, CombinatorInit, Tasks, Home
<1>1. CombinatorTypeOK
  <2>1. guard \in BOOLEAN OBVIOUS
  <2>2. task \in [Tasks -> {"running", "dispatch", "transfer", "settled"}] OBVIOUS
  <2> QED BY <2>1, <2>2 DEF CombinatorTypeOK
<1>2. SinkInv
  BY DEF SinkInv, Settled
<1>3. CountInv
  <2>1. Returned = {} BY DEF Returned
  <2> QED BY <2>1, FS_EmptySet DEF CountInv
<1>4. ResumeInv
  BY DEF ResumeInv
<1> QED BY <1>1, <1>2, <1>3, <1>4 DEF IInv

LEMMA FiniteReturned == IsFiniteSet(Returned) /\ Cardinality(Returned) \in Nat
<1>1. IsFiniteSet(Tasks)
  BY FS_Interval, CombinatorAssumption DEF Tasks
<1>2. Returned \subseteq Tasks
  BY DEF Returned
<1> QED BY <1>1, <1>2, FS_Subset, FS_CardinalityType

\* A sink that has entered is not counted yet; once it is, it is one more, and
\* it is the last one exactly if one remained.
LEMMA Counting ==
  ASSUME IInv, NEW t \in Tasks, sink[t] = "entered", ~guard,
         sink' = [sink EXCEPT ![t] = "returned"]
  PROVE  /\ remaining \in 1..N
         /\ Cardinality(Returned') = Cardinality(Returned) + 1
         /\ remaining = 1 => \A s \in Tasks : s # t => sink[s] = "returned"
<1> USE CombinatorAssumption DEF Tasks
<1>1. IsFiniteSet(Tasks) /\ Cardinality(Tasks) = N
  BY FS_Interval
<1>2. Returned' = Returned \cup {t} /\ t \notin Returned /\ Returned \subseteq Tasks
  BY DEF Returned, IInv, CombinatorTypeOK
<1>3. IsFiniteSet(Returned) /\ Cardinality(Returned) \in Nat
  BY FiniteReturned
<1>4. Cardinality(Returned') = Cardinality(Returned) + 1
  BY <1>2, <1>3, FS_AddElement
<1>5. /\ Cardinality(Returned') <= N
      /\ Cardinality(Returned') = N => Returned' = Tasks
  BY <1>1, <1>2, FS_Subset
<1>6. remaining \in 0..N /\ remaining + Cardinality(Returned) = N
  BY DEF IInv, CountInv
<1>7. remaining = 1 => \A s \in Tasks : s # t => sink[s] = "returned"
  BY <1>2, <1>3, <1>4, <1>5, <1>6 DEF Returned
<1> QED BY <1>3, <1>4, <1>5, <1>6, <1>7

LEMMA TypeStep == ASSUME CombinatorTypeOK, [Next]_vars PROVE CombinatorTypeOK'
<1> USE CombinatorAssumption
    DEF CombinatorTypeOK, Tasks, Home
<1>1. CASE AwaitReady
  BY <1>1 DEF AwaitReady
<1>2. ASSUME NEW t \in Tasks, EnterSink(t) PROVE CombinatorTypeOK'
  BY <1>2 DEF EnterSink, SinkCalled
<1>3. ASSUME NEW t \in Tasks, CountDown(t) PROVE CombinatorTypeOK'
  BY <1>3 DEF CountDown, ResumeFrom, ResumeOn
<1>4. ASSUME NEW t \in Tasks,
             Complete(t) \/ Settle(t) \/ Transfer(t) \/ Replace(t), UNCHANGED remaining
      PROVE CombinatorTypeOK'
  <2>1. CASE Complete(t) BY <1>4, <2>1 DEF Complete
  <2>2. CASE Settle(t) BY <1>4, <2>2 DEF Settle
  <2>3. CASE Transfer(t) BY <1>4, <2>3 DEF Transfer, ResumeOn, Thread
  <2>4. CASE Replace(t) BY <1>4, <2>4 DEF Replace
  <2> QED BY <1>4, <2>1, <2>2, <2>3, <2>4
<1>5. CASE Register /\ UNCHANGED remaining
  BY <1>5 DEF Register
<1>6. CASE RegisterRest /\ UNCHANGED remaining
  BY <1>6 DEF RegisterRest
<1>7. CASE Finish /\ UNCHANGED remaining
  <2>1. guard' \in BOOLEAN BY <1>7 DEF Finish
  <2> QED BY <1>7, <2>1 DEF Finish
<1>8. CASE Destroy /\ UNCHANGED remaining
  <2>1. guard' \in BOOLEAN BY <1>8 DEF Destroy
  <2> QED BY <1>8, <2>1 DEF Destroy
<1>9. CASE UNCHANGED vars
  BY <1>9 DEF vars, combined
<1> QED BY <1>1, <1>2, <1>3, <1>4, <1>5, <1>6, <1>7, <1>8, <1>9 DEF Next, Surroundings

LEMMA SinkStep == ASSUME IInv, [Next]_vars PROVE SinkInv'
<1> USE CombinatorAssumption
    DEF IInv, CombinatorTypeOK, SinkInv, ResumeInv, Tasks, Home, Settled
<1>1. CASE AwaitReady
  BY <1>1 DEF AwaitReady
<1>2. ASSUME NEW t \in Tasks, EnterSink(t) PROVE SinkInv'
  BY <1>2 DEF EnterSink, SinkCalled
<1>3. ASSUME NEW t \in Tasks, CountDown(t) PROVE SinkInv'
  BY <1>3 DEF CountDown, ResumeFrom, ResumeOn
<1>4. ASSUME NEW t \in Tasks,
             Complete(t) \/ Settle(t) \/ Transfer(t) \/ Replace(t), UNCHANGED remaining
      PROVE SinkInv'
  <2>1. CASE Complete(t) BY <1>4, <2>1 DEF Complete
  <2>2. CASE Settle(t) BY <1>4, <2>2 DEF Settle
  <2>3. CASE Transfer(t) BY <1>4, <2>3 DEF Transfer, ResumeOn, Thread
  <2>4. CASE Replace(t) BY <1>4, <2>4 DEF Replace, HomeFree
  <2> QED BY <1>4, <2>1, <2>2, <2>3, <2>4
<1>5. CASE Register /\ UNCHANGED remaining
  BY <1>5 DEF Register
<1>6. CASE RegisterRest /\ UNCHANGED remaining
  BY <1>6 DEF RegisterRest
<1>7. CASE Finish /\ UNCHANGED remaining
  BY <1>7 DEF Finish
<1>8. CASE Destroy /\ UNCHANGED remaining
  BY <1>8 DEF Destroy
<1>9. CASE UNCHANGED vars
  BY <1>9 DEF vars, combined
<1> QED BY <1>1, <1>2, <1>3, <1>4, <1>5, <1>6, <1>7, <1>8, <1>9 DEF Next, Surroundings

LEMMA ResumeStep == ASSUME IInv, [Next]_vars, ~LiveDestroy PROVE ResumeInv'
<1> USE CombinatorAssumption
    DEF IInv, CombinatorTypeOK, SinkInv, ResumeInv, Tasks, Home, Settled
<1>1. CASE AwaitReady
  BY <1>1 DEF AwaitReady
<1>2. ASSUME NEW t \in Tasks, EnterSink(t) PROVE ResumeInv'
  BY <1>2 DEF EnterSink, SinkCalled
<1>3. ASSUME NEW t \in Tasks, CountDown(t) PROVE ResumeInv'
  <2>1. /\ awaiter = "suspended" /\ ~guard /\ continuation = {} /\ sink[t] = "entered"
        /\ sink' = [sink EXCEPT ![t] = "returned"]
        /\ UNCHANGED <<task, guard, phase, i>>
    BY <1>3 DEF CountDown
  <2>2. CASE remaining = 1
    <3>1. \A s \in Tasks : sink'[s] = "returned"
      BY <2>1, <2>2, Counting
    <3>2. CASE Settled(t)
      BY <1>3, <2>1, <2>2, <3>1, <3>2 DEF CountDown, ResumeFrom, ResumeOn
    <3>3. CASE ~Settled(t)
      BY <1>3, <2>1, <2>2, <3>1, <3>3 DEF CountDown, ResumeFrom
    <3> QED BY <3>2, <3>3
  <2>3. CASE remaining # 1
    BY <1>3, <2>1, <2>3 DEF CountDown
  <2> QED BY <2>2, <2>3
<1>4. ASSUME NEW t \in Tasks,
             Complete(t) \/ Settle(t) \/ Transfer(t) \/ Replace(t), UNCHANGED remaining
      PROVE ResumeInv'
  <2>1. CASE Complete(t) BY <1>4, <2>1 DEF Complete
  <2>2. CASE Settle(t) BY <1>4, <2>2 DEF Settle
  <2>3. CASE Transfer(t) BY <1>4, <2>3 DEF Transfer, ResumeOn, Thread
  <2>4. CASE Replace(t) BY <1>4, <2>4 DEF Replace, HomeFree
  <2> QED BY <1>4, <2>1, <2>2, <2>3, <2>4
<1>5. CASE Register /\ UNCHANGED remaining
  BY <1>5 DEF Register
<1>6. CASE RegisterRest /\ UNCHANGED remaining
  BY <1>6 DEF RegisterRest
<1>7. CASE Finish /\ UNCHANGED remaining
  BY <1>7 DEF Finish
<1>8. CASE Destroy /\ UNCHANGED remaining
  BY <1>8 DEF Destroy, HomeFree, Ending
<1>9. CASE UNCHANGED vars
  BY <1>9 DEF vars, combined
<1> QED BY <1>1, <1>2, <1>3, <1>4, <1>5, <1>6, <1>7, <1>8, <1>9 DEF Next, Surroundings

LEMMA CountStep == ASSUME IInv, [Next]_vars PROVE CountInv'
<1> USE CombinatorAssumption
    DEF IInv, CombinatorTypeOK, CountInv, SinkInv, ResumeInv, Tasks
<1>1. CASE AwaitReady
  <2>1. Returned' = Returned BY <1>1 DEF Returned, AwaitReady
  <2> QED BY <1>1, <2>1 DEF AwaitReady
<1>2. ASSUME NEW t \in Tasks, EnterSink(t) PROVE CountInv'
  <2>1. CASE guard
    BY <1>2, <2>1 DEF EnterSink
  <2>2. CASE ~guard
    <3>1. Returned' = Returned BY <1>2, <2>2 DEF Returned, EnterSink, SinkCalled
    <3> QED BY <1>2, <3>1 DEF EnterSink
  <2> QED BY <2>1, <2>2
<1>3. ASSUME NEW t \in Tasks, CountDown(t) PROVE CountInv'
  <2>1. /\ sink[t] = "entered" /\ ~guard /\ sink' = [sink EXCEPT ![t] = "returned"]
        /\ remaining' = remaining - 1
    BY <1>3 DEF CountDown
  <2>2. /\ remaining \in 1..N
        /\ Cardinality(Returned') = Cardinality(Returned) + 1
    BY <2>1, Counting
  <2>3. Cardinality(Returned) \in Nat
    BY FiniteReturned
  <2> QED BY <2>1, <2>2, <2>3
<1>4. ASSUME NEW t \in Tasks,
             Complete(t) \/ Settle(t) \/ Transfer(t) \/ Replace(t), UNCHANGED remaining
      PROVE CountInv'
  <2>1. CASE Complete(t) 
    <3>1. Returned' = Returned BY <1>4, <2>1 DEF Returned, Complete
    <3> QED BY <1>4, <2>1, <3>1 DEF Complete
  <2>2. CASE Settle(t) 
    <3>1. Returned' = Returned BY <1>4, <2>2 DEF Returned, Settle
    <3> QED BY <1>4, <2>2, <3>1 DEF Settle
  <2>3. CASE Transfer(t) 
    <3>1. Returned' = Returned BY <1>4, <2>3 DEF Returned, Transfer
    <3> QED BY <1>4, <2>3, <3>1 DEF Transfer
  <2>4. CASE Replace(t) 
    <3>1. Returned' = Returned BY <1>4, <2>4 DEF Returned, Replace
    <3> QED BY <1>4, <2>4, <3>1 DEF Replace
  <2> QED BY <1>4, <2>1, <2>2, <2>3, <2>4
<1>5. CASE Register /\ UNCHANGED remaining
  <2>1. Returned' = Returned BY <1>5 DEF Returned, Register, Settled
  <2> QED BY <1>5, <2>1 DEF Register
<1>6. CASE RegisterRest /\ UNCHANGED remaining
  <2>1. Returned' = Returned BY <1>6 DEF Returned, RegisterRest
  <2> QED BY <1>6, <2>1 DEF RegisterRest
<1>7. CASE Finish /\ UNCHANGED remaining
  BY <1>7 DEF Finish
<1>8. CASE Destroy /\ UNCHANGED remaining
  BY <1>8 DEF Destroy
<1>9. CASE UNCHANGED vars
  <2>1. Returned' = Returned BY <1>9 DEF Returned, vars, combined
  <2> QED BY <1>9, <2>1 DEF vars, combined
<1> QED BY <1>1, <1>2, <1>3, <1>4, <1>5, <1>6, <1>7, <1>8, <1>9 DEF Next, Surroundings

LEMMA Invariance == ASSUME ~LiveDestroy PROVE Spec => []IInv
<1>1. IInv /\ [Next]_vars => IInv'
  BY TypeStep, SinkStep, CountStep, ResumeStep DEF IInv
<1>2. QED
  BY <1>1, InvInit, PTL DEF Spec

-----------------------------------------------------------------------------

\* Every variable keeps its type: the countdown never passes zero.
THEOREM TypeCorrect == ASSUME ~LiveDestroy PROVE Spec => []TypeOK
<1>1. IInv => TypeOK
  BY DEF IInv, CountInv, TypeOK
<1> QED BY <1>1, Invariance, PTL

\* The countdown counts each task that completed once, on whatever threads.
THEOREM Count == ASSUME ~LiveDestroy PROVE Spec => []CountsTasks
<1>1. IInv => CountsTasks
  <2> SUFFICES ASSUME IInv, ~guard
               PROVE remaining = N - Cardinality(Returned)
    BY DEF CountsTasks, Returned
  <2>1. Cardinality(Returned) \in Nat
    BY FiniteReturned
  <2> QED BY <2>1, CombinatorAssumption DEF IInv, CountInv
<1> QED BY <1>1, Invariance, PTL

\* whenAll resumes a suspended coroutine once, when all of its tasks have
\* completed: it implements what every awaitable promises.
THEOREM OneAnswer == ASSUME ~LiveDestroy PROVE Spec => KeepsPromise
<1> DEFINE completed == {t \in Tasks : task[t] # "running"}
           waits == IF awaiter \in {"running", "suspended"} THEN "waiting"
                    ELSE IF awaiter = "destroyed" THEN "dropped" ELSE "answered"
<1>1. Init => Promise!Init
  BY CombinatorAssumption DEF Init, CombinatorInit, Promise!Init
<1>2. ASSUME IInv, IInv', [Next]_vars PROVE [Promise!Next]_(Promise!vars)
  <2> USE DEF IInv, CombinatorTypeOK, ResumeInv, Settled
  <2>1. ASSUME UNCHANGED <<completed, waits>> PROVE UNCHANGED Promise!vars
    BY <1>2, <2>1 DEF Promise!vars
  <2>2. ASSUME awaiter \in {"running", "suspended"}, awaiter' = "resumed",
               UNCHANGED completed, \A t \in Tasks : task[t] # "running"
        PROVE Promise!Answer
    BY <1>2, <2>2 DEF Promise!Answer
  <2>3. CASE AwaitReady
    <3>1. CASE awaiter' = "resumed"
      <4>1. \A t \in Tasks : task[t] # "running"
        <5>1. /\ phase = "await_ready" /\ i = N /\ Settled(i)
          BY <1>2, <2>3, <3>1, CombinatorAssumption DEF AwaitReady, Tasks
        <5>2. \A t \in 1..(N - 1) : Settled(t)
          BY <1>2, <5>1 DEF SinkInv
        <5>3. \A t \in Tasks : Settled(t)
          BY <5>1, <5>2, CombinatorAssumption DEF Tasks
        <5> QED BY <5>3
      <4> QED BY <1>2, <2>2, <2>3, <3>1, <4>1 DEF AwaitReady, Promise!Next
    <3>2. CASE awaiter' # "resumed"
      BY <1>2, <2>1, <2>3, <3>2 DEF AwaitReady
    <3> QED BY <3>1, <3>2
  <2>4. ASSUME NEW t \in Tasks, EnterSink(t) PROVE [Promise!Next]_(Promise!vars)
    BY <2>1, <2>4 DEF EnterSink
  <2>5. ASSUME NEW t \in Tasks, CountDown(t) PROVE [Promise!Next]_(Promise!vars)
    <3>1. /\ awaiter = "suspended" /\ sink[t] = "entered" /\ ~guard
          /\ sink' = [sink EXCEPT ![t] = "returned"] /\ task' = task
      BY <1>2, <2>5 DEF CountDown
    <3>2. CASE remaining = 1 /\ Settled(t)
      <4>1. \A s \in Tasks : task[s] # "running"
        <5>1. \A s \in Tasks : s # t => sink[s] = "returned"
          BY <1>2, <3>1, <3>2, Counting
        <5> QED BY <1>2, <3>1, <5>1 DEF SinkInv
      <4> QED BY <2>2, <2>5, <3>1, <3>2, <4>1 DEF CountDown, ResumeFrom, ResumeOn, Promise!Next
    <3>3. CASE ~(remaining = 1 /\ Settled(t))
      BY <2>1, <2>5, <3>1, <3>3 DEF CountDown, ResumeFrom
    <3> QED BY <3>2, <3>3
  <2>6. ASSUME NEW t \in Tasks, Complete(t), UNCHANGED remaining
        PROVE [Promise!Next]_(Promise!vars)
    <3>1. completed \subseteq completed' /\ UNCHANGED waits /\ UNCHANGED awaiter
      BY <1>2, <2>6 DEF Complete
    <3> QED BY <1>2, <3>1 DEF Promise!Next, Promise!Happen
  <2>7. ASSUME NEW t \in Tasks, Settle(t), UNCHANGED remaining
        PROVE [Promise!Next]_(Promise!vars)
    BY <1>2, <2>1, <2>7 DEF Settle
  <2>8. ASSUME NEW t \in Tasks, Transfer(t), UNCHANGED remaining
        PROVE [Promise!Next]_(Promise!vars)
    <3>1. awaiter = "suspended" /\ \A s \in Tasks : task[s] # "running"
      BY <1>2, <2>8 DEF Transfer, SinkInv
    <3>2. UNCHANGED completed
      BY <1>2, <2>8 DEF Transfer
    <3> QED BY <2>2, <2>8, <3>1, <3>2 DEF Transfer, ResumeOn, Promise!Next
  <2>9. ASSUME NEW t \in Tasks, Replace(t), UNCHANGED remaining
        PROVE [Promise!Next]_(Promise!vars)
    BY <2>1, <2>9 DEF Replace
  <2>10. CASE (Register \/ RegisterRest \/ Finish) /\ UNCHANGED remaining
    BY <2>1, <2>10 DEF Register, RegisterRest, Finish
  <2>11. CASE Destroy /\ UNCHANGED remaining
    BY <2>11 DEF Destroy, Promise!Next, Promise!Drop
  <2>12. CASE UNCHANGED vars
    BY <2>1, <2>12 DEF vars, combined
  <2> QED BY <1>2, <2>3, <2>4, <2>5, <2>6, <2>7, <2>8, <2>9, <2>10, <2>11, <2>12
          DEF Next, Surroundings
<1>3. QED
  BY <1>1, <1>2, Invariance, PTL DEF Spec, KeepsPromise, Promise!Spec

-----------------------------------------------------------------------------
(* The tasks: each takes the steps of ArmedTask, which QTask_proofs proves  *)
(* QTask to take too.  This needs no assumption on LiveDestroy.            *)

\* The sinks that have still to be armed.
ArmInv ==
  /\ phase = "await_ready" => \A t \in Tasks : sink[t] = "none"
  /\ phase = "then" => \A t \in i..N : sink[t] = "none"
  /\ phase = "rest" => \A t \in (i + 1)..N : sink[t] = "none"

LEMMA ArmInvStep == ASSUME CombinatorTypeOK, ArmInv, [Next]_vars PROVE ArmInv'
<1> USE CombinatorAssumption DEF CombinatorTypeOK, ArmInv, Tasks
<1>1. CASE AwaitReady
  BY <1>1 DEF AwaitReady
<1>2. ASSUME NEW t \in Tasks, EnterSink(t) PROVE ArmInv'
  BY <1>2 DEF EnterSink, SinkCalled
<1>3. ASSUME NEW t \in Tasks, CountDown(t) PROVE ArmInv'
  BY <1>3 DEF CountDown
<1>4. CASE \E t \in Tasks : Complete(t) \/ Settle(t) \/ Transfer(t) \/ Replace(t)
  BY <1>4 DEF Complete, Settle, Transfer, Replace, HomeFree
<1>5. CASE Register
  BY <1>5 DEF Register
<1>6. CASE RegisterRest
  BY <1>6 DEF RegisterRest
<1>7. CASE Finish \/ Destroy
  BY <1>7 DEF Finish, Destroy
<1>8. CASE UNCHANGED vars
  BY <1>8 DEF vars, combined
<1> QED BY <1>1, <1>2, <1>3, <1>4, <1>5, <1>6, <1>7, <1>8 DEF Next, Surroundings

LEMMA ArmedStep ==
  ASSUME CombinatorTypeOK, ArmInv, Next, NEW s \in Tasks
  PROVE  Armed(s)!Next \/ UNCHANGED Armed(s)!vars
<1> DEFINE seen == IF sink[s] \in {"entered", "returned"} THEN "called" ELSE sink[s]
<1> USE DEF CombinatorTypeOK
<1>1. ASSUME UNCHANGED <<task, continuation, seen>> PROVE UNCHANGED Armed(s)!vars
  BY <1>1 DEF Armed!vars
<1>2. CASE AwaitReady
  BY <1>1, <1>2 DEF AwaitReady
<1>3. ASSUME NEW t \in Tasks, EnterSink(t)
      PROVE  Armed(s)!Call \/ UNCHANGED Armed(s)!vars
  <2>1. CASE t = s /\ sink[s] = "pending"
    BY <1>3, <2>1 DEF EnterSink, SinkCalled, Armed!Call
  <2>2. CASE ~(t = s /\ sink[s] = "pending")
    BY <1>1, <1>3, <2>2 DEF EnterSink, SinkCalled
  <2> QED BY <2>1, <2>2
<1>4. ASSUME NEW t \in Tasks, CountDown(t)
      PROVE  Armed(s)!Park \/ UNCHANGED Armed(s)!vars
  <2>1. UNCHANGED <<task, seen>>
    BY <1>4 DEF CountDown
  <2>2. CASE UNCHANGED continuation
    BY <1>1, <2>1, <2>2
  <2>3. CASE continuation' = continuation \cup {t} /\ ~Settled(t)
    BY <2>1, <2>3 DEF Armed!Park, Armed!Settled, Armed!vars, Settled
  <2> QED BY <1>4, <2>2, <2>3 DEF CountDown, ResumeFrom
<1>5. ASSUME NEW t \in Tasks, Complete(t) PROVE Armed(s)!Complete \/ UNCHANGED Armed(s)!vars
  BY <1>5 DEF Complete, Armed!Complete, Armed!vars
<1>6. ASSUME NEW t \in Tasks, Settle(t) PROVE Armed(s)!Settle \/ UNCHANGED Armed(s)!vars
  BY <1>6 DEF Settle, Armed!Settle, Armed!vars
<1>7. ASSUME NEW t \in Tasks, Transfer(t) PROVE Armed(s)!Transfer \/ UNCHANGED Armed(s)!vars
  BY <1>7 DEF Transfer, Armed!Transfer, Armed!vars
<1>8. ASSUME NEW t \in Tasks, Replace(t) PROVE Armed(s)!Replace \/ UNCHANGED Armed(s)!vars
  BY <1>8 DEF Replace, Settled, Armed!Replace, Armed!Settled, Armed!vars
<1>9. CASE Register
  <2>1. i \in i..N /\ sink[i] = "none"
    BY <1>9, CombinatorAssumption DEF Register, ArmInv, Tasks
  <2> QED BY <1>9, <2>1 DEF Register, Settled, Armed!Next, Armed!Arm, Armed!Settled, Armed!vars
<1>10. CASE RegisterRest \/ Finish \/ Destroy
  BY <1>1, <1>10 DEF RegisterRest, Finish, Destroy
<1> QED
  BY <1>2, <1>3, <1>4, <1>5, <1>6, <1>7, <1>8, <1>9, <1>10 DEF Next, Surroundings, Armed!Next

\* What the combinator assumes of its tasks is nothing QTask does not do
\* (qtask.hpp:614-631).
THEOREM TasksArmed == Spec => TasksAreArmed
<1>1. Init => CombinatorTypeOK /\ ArmInv /\ \A t \in Tasks : Armed(t)!Init
  <2> SUFFICES ASSUME Init
               PROVE  CombinatorTypeOK /\ ArmInv /\ \A t \in Tasks : Armed(t)!Init
    OBVIOUS
  <2>1. CombinatorTypeOK
    BY InvInit DEF IInv
  <2>2. ArmInv
    BY DEF Init, CombinatorInit, ArmInv, Tasks
  <2>3. \A t \in Tasks : Armed(t)!Init
    BY DEF Init, CombinatorInit, Armed!Init
  <2> QED BY <2>1, <2>2, <2>3
<1>2. CombinatorTypeOK /\ ArmInv /\ [Next]_vars => CombinatorTypeOK' /\ ArmInv'
  BY TypeStep, ArmInvStep
<1>3. CombinatorTypeOK /\ ArmInv /\ [Next]_vars =>
        [\A t \in Tasks : Armed(t)!Next \/ UNCHANGED Armed(t)!vars]_combined
  BY ArmedStep DEF vars
<1> QED BY <1>1, <1>2, <1>3, PTL DEF Spec, TasksAreArmed

-----------------------------------------------------------------------------
(* No completion is lost: the part of liveness that is not about fairness. *)

\* The last one to count left a task to resume the coroutine.
Resumer ==
  awaiter = "suspended" /\ (\A t \in Tasks : sink[t] = "returned") =>
    \E t \in continuation : task[t] \in {"dispatch", "transfer"}

\* Every task has been armed when await_suspend is through, and no armed sink of
\* a settled task waits.
WakeInv ==
  /\ phase = "then" => \A t \in 1..(i - 1) : sink[t] # "none"
  /\ phase = "rest" => \A t \in 1..i : sink[t] # "none"
  /\ phase = "done" /\ awaiter = "suspended" => \A t \in Tasks : sink[t] # "none"
  /\ \A t \in Tasks : sink[t] = "pending" => ~Settled(t)
  /\ Resumer

LEMMA WakeStep == ASSUME IInv, IInv', WakeInv, [Next]_vars PROVE WakeInv'
<1> USE CombinatorAssumption DEF CombinatorTypeOK, WakeInv, Tasks, Settled
<1>0. /\ CombinatorTypeOK /\ CombinatorTypeOK' /\ SinkInv /\ ResumeInv
      /\ 1 \in Tasks
  BY DEF IInv
<1>1. CASE AwaitReady
  <2>1. /\ \A t \in Tasks : sink[t] = "none"
        /\ sink[1] # "returned" /\ UNCHANGED <<task, sink>>
    BY <1>0, <1>1 DEF AwaitReady, SinkInv
  <2>2. /\ phase' = "then" => \A t \in 1..(i' - 1) : FALSE
        /\ phase' # "rest"
        /\ phase' = "done" => awaiter' # "suspended"
    BY <1>1 DEF AwaitReady
  <2>3. Resumer'
    BY <1>0, <2>1 DEF Resumer
  <2> QED BY <2>1, <2>2, <2>3
<1>2. ASSUME NEW t \in Tasks, EnterSink(t) PROVE WakeInv'
  BY <1>0, <1>2 DEF EnterSink, SinkCalled, SinkInv, ResumeInv, Resumer
<1>3. ASSUME NEW t \in Tasks, CountDown(t) PROVE WakeInv'
  <2>1. /\ awaiter = "suspended" /\ ~guard /\ sink[t] = "entered"
        /\ task[t] # "running"
        /\ sink' = [sink EXCEPT ![t] = "returned"]
        /\ UNCHANGED <<task, phase, i>>
    BY <1>0, <1>3 DEF CountDown, ResumeInv, SinkInv
  <2>2. ASSUME awaiter' = "suspended", \A s \in Tasks : sink'[s] = "returned"
        PROVE  \E s \in continuation' : task'[s] \in {"dispatch", "transfer"}
    <3>1. remaining = 1
      <4>1. Returned' = Tasks /\ Cardinality(Tasks) = N
        BY <2>2, FS_Interval DEF Returned
      <4>2. Cardinality(Returned) + 1 = N /\ remaining + Cardinality(Returned) = N
        BY <2>1, <4>1, Counting DEF IInv, CountInv
      <4>3. Cardinality(Returned) \in Nat /\ remaining \in Nat
        BY FiniteReturned DEF IInv, CountInv
      <4> QED BY <4>2, <4>3
    <3>2. ~Settled(t) /\ continuation' = continuation \cup {t}
      BY <1>3, <2>1, <2>2, <3>1 DEF CountDown, ResumeFrom, ResumeOn
    <3> QED BY <1>0, <2>1, <3>2
  <2>3. awaiter' \in {"suspended", "resumed"}
    BY <1>3, <2>1 DEF CountDown, ResumeFrom, ResumeOn
  <2> QED BY <1>0, <2>1, <2>2, <2>3 DEF Resumer
<1>4. ASSUME NEW t \in Tasks, Complete(t) \/ Settle(t) \/ Transfer(t) \/ Replace(t)
      PROVE  WakeInv'
  <2>1. CASE Complete(t) BY <1>0, <2>1 DEF Complete, Resumer
  <2>2. CASE Settle(t) BY <1>0, <2>2 DEF Settle, Resumer
  <2>3. CASE Transfer(t)
    BY <1>0, <2>3 DEF Transfer, ResumeOn, Thread, SinkInv, ResumeInv, Resumer
  <2>4. CASE Replace(t) BY <1>0, <2>4 DEF Replace, HomeFree, Resumer
  <2> QED BY <1>4, <2>1, <2>2, <2>3, <2>4
<1>5. CASE Register
  BY <1>0, <1>5 DEF Register, Resumer
<1>6. CASE RegisterRest
  <2>1. /\ phase = "rest" /\ UNCHANGED <<task, sink, continuation, awaiter>>
        /\ \/ i = N /\ phase' = "done"
           \/ i \in 1..(N - 1) /\ phase' = "then" /\ i' = i + 1
    BY <1>0, <1>6 DEF RegisterRest
  <2>2. Resumer'
    BY <2>1 DEF Resumer
  <2>3. CASE i = N /\ phase' = "done"
    BY <1>0, <2>1, <2>2, <2>3
  <2>4. CASE i \in 1..(N - 1) /\ phase' = "then" /\ i' = i + 1
    <3>1. (i' - 1) = i
      BY <2>4
    <3> QED BY <1>0, <2>1, <2>2, <2>4, <3>1
  <2> QED BY <2>1, <2>3, <2>4
<1>7. CASE Finish \/ Destroy
  BY <1>0, <1>7 DEF Finish, Destroy, Resumer
<1>8. CASE UNCHANGED vars
  BY <1>8 DEF vars, combined, Resumer
<1> QED BY <1>1, <1>2, <1>3, <1>4, <1>5, <1>6, <1>7, <1>8 DEF Next, Surroundings

\* However the completions race the registrations and each other, the coroutine
\* is not left suspended when the last task has settled (qtask.hpp:602-631).
THEOREM WakeUp == ASSUME ~LiveDestroy PROVE Spec => []NoLostCompletion
<1>1. Init => WakeInv
  BY CombinatorAssumption DEF Init, CombinatorInit, WakeInv, Resumer, Tasks
<1>2. IInv /\ IInv' /\ WakeInv /\ [Next]_vars => WakeInv'
  BY WakeStep
<1>3. IInv /\ WakeInv => NoLostCompletion
  <2> SUFFICES ASSUME IInv, WakeInv, phase = "done", awaiter = "suspended",
                      \A t \in Tasks : task[t] = "settled" /\ sink[t] # "replaced"
               PROVE  FALSE
    BY DEF NoLostCompletion
  <2>1. \A t \in Tasks : sink[t] = "returned"
    BY DEF IInv, CombinatorTypeOK, SinkInv, WakeInv, Settled
  <2>2. PICK t \in continuation : task[t] \in {"dispatch", "transfer"}
    BY <2>1 DEF WakeInv, Resumer
  <2> QED BY <2>2 DEF IInv, CombinatorTypeOK
<1> QED BY <1>1, <1>2, <1>3, Invariance, PTL DEF Spec

=============================================================================
