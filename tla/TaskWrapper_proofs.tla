------------------------- MODULE TaskWrapper_proofs -------------------------
(***************************************************************************)
(* Proofs about TaskWrapper: both wrappers, the task completing on any     *)
(* thread.                                                                 *)
(***************************************************************************)
EXTENDS TaskWrapper, TLAPS

\* The cause other than completion.
Hook == IF wrapper = "cancelledBy" THEN "stop" ELSE "timeout"

Posted(c) == \E k \in 1..Len(events) : events[k] = c

\* Each cause is posted once at most, after it has happened.
OrderInv ==
  /\ \A k \in 1..Len(events) : events[k] \in {"done", Hook}
  /\ \A j, k \in 1..Len(events) : events[j] = events[k] => j = k

PostInv ==
  /\ Posted("done") => sink = "returned"
  /\ Posted("stop") => stopCb \in {"called", "gone"} /\ stopRequested
  /\ Posted("timeout") => timer = "fired"
  /\ sink \in {"entered", "returned"} => task # "running"

\* A wrapper arms its own hook only, and nothing before await_suspend.
HookInv ==
  /\ stopRequested => wrapper = "cancelledBy"
  /\ stopCb \in {"armed", "entered", "called"} => wrapper = "cancelledBy"
  /\ stopCb \in {"entered", "called"} => stopRequested
  /\ timer # "none" => wrapper = "withTimeout"
  /\ pc \in {"await_ready", "ask_task", "arm_task"} => events = <<>> /\ sink = "none"
  /\ pc \in {"await_ready", "ask_task", "arm_task", "arm_hook"} =>
       stopCb = "none" /\ timer = "none"

\* The gate stays open while the coroutine is suspended, and is closed for
\* good when the awaitable has gone.
GateInv ==
  /\ pc # "stray"
  /\ pc \in {"await_ready", "ask_task", "arm_task", "arm_hook", "suspended"} =>
       ~guard /\ ~cancelled /\ winner = "none"
  /\ pc \in {"disarm", "over"} => guard /\ timer # "running"
  /\ pc = "over" => stopCb \notin {"armed", "entered"}

\* What await_resume is about to answer has happened, and is the winner if
\* there was one.
AnswerInv ==
  /\ pc \in {"await_ready", "ask_task", "arm_task", "arm_hook", "suspended", "resume"}
       => outcome = "none"
  /\ pc = "destruct" => outcome \in Causes /\ (winner # "none" => outcome = winner)
  /\ pc \in {"disarm", "over"} => outcome # "none"
  /\ pc = "resume" =>
       /\ ~cancelled => task # "running" /\ winner \in {"none", "done"}
       /\ cancelled =>
            /\ winner \in {"none", Hook}
            /\ wrapper = "cancelledBy" => stopRequested
            /\ wrapper = "withTimeout" => timer = "fired"

\* TypeOK, but for the events' bound.
Types ==
  /\ wrapper \in {"cancelledBy", "withTimeout"}
  /\ remote \in BOOLEAN
  /\ task \in {"running", "dispatch", "settled"}
  /\ sink \in {"none", "pending", "entered", "returned", "replaced"}
  /\ stopRequested \in BOOLEAN
  /\ stopCb \in {"none", "armed", "entered", "called", "gone"}
  /\ timer \in {"none", "running", "fired", "stopped"}
  /\ events \in Seq(Causes)
  /\ guard \in BOOLEAN
  /\ cancelled \in BOOLEAN
  /\ pc \in {"await_ready", "ask_task", "arm_task", "arm_hook", "suspended",
             "resume", "destruct", "disarm", "over", "stray"}
  /\ winner \in Causes \cup {"none"}
  /\ outcome \in Causes \cup {"none", "dropped"}

IInv == Types /\ OrderInv /\ PostInv /\ HookInv /\ GateInv /\ AnswerInv

-----------------------------------------------------------------------------

LEMMA InvInit == Init => IInv
<1> SUFFICES ASSUME Init PROVE IInv OBVIOUS
<1> USE DEF Init, Causes
<1>1. Types
  <2>1. guard \in BOOLEAN /\ cancelled \in BOOLEAN OBVIOUS
  <2> QED BY <2>1 DEF Types
<1>2. OrderInv /\ PostInv
  BY DEF OrderInv, PostInv, Posted
<1>3. HookInv /\ GateInv /\ AnswerInv
  BY DEF HookInv, GateInv, AnswerInv
<1> QED BY <1>1, <1>2, <1>3 DEF IInv

\* Posting one more cause, and delivering the first.
LEMMA Posting ==
  ASSUME NEW c \in Causes, events \in Seq(Causes), events' = Append(events, c)
  PROVE  /\ events' \in Seq(Causes)
         /\ Len(events') = Len(events) + 1 /\ Len(events) \in Nat
         /\ \A k \in 1..Len(events) : events'[k] = events[k]
         /\ events'[Len(events) + 1] = c
  OBVIOUS

LEMMA Delivering ==
  ASSUME events \in Seq(Causes), events # <<>>, events' = Tail(events)
  PROVE  /\ events' \in Seq(Causes)
         /\ Len(events') = Len(events) - 1 /\ Len(events) \in Nat \ {0}
         /\ \A k \in 1..Len(events') : events'[k] = events[k + 1] /\ k + 1 \in 1..Len(events)
         /\ Head(events) = events[1] /\ Head(events) \in Causes
  OBVIOUS

LEMMA TypeStep == ASSUME IInv, [Next]_vars PROVE Types'
<1> USE DEF IInv, Types, Causes, Elsewhere, built
<1>1. CASE Complete \/ EnterSink \/ Settle \/ Replace \/ RequestStop
  <2>1. CASE RequestStop
    <3>1. stopRequested' \in BOOLEAN
      BY <2>1 DEF RequestStop
    <3> QED BY <2>1, <3>1 DEF RequestStop
  <2> QED BY <1>1, <2>1 DEF Complete, EnterSink, Settle, Replace
<1>2. CASE PostDone \/ PostStop \/ TimerFires
  <2>1. events' \in Seq(Causes)
    BY <1>2 DEF PostDone, PostStop, TimerFires
  <2> QED BY <1>2, <2>1 DEF PostDone, PostStop, TimerFires
<1>3. CASE AwaitReady \/ AskTask
  BY <1>3 DEF AwaitReady, AskTask
<1>4. CASE ArmTask
  BY <1>4 DEF ArmTask
<1>5. CASE ArmHook
  BY <1>5 DEF ArmHook
<1>6. CASE AwaitResume \/ Disarm
  BY <1>6 DEF AwaitResume, Disarm
<1>7. CASE Deliver
  <2>1. guard' \in BOOLEAN /\ cancelled' \in BOOLEAN
    BY <1>7 DEF Deliver
  <2>2. events' \in Seq(Causes) /\ Head(events) \in Causes
    BY <1>7, Delivering DEF Deliver
  <2> QED BY <1>7, <2>1, <2>2 DEF Deliver
<1>8. CASE Destruct
  <2>1. guard' \in BOOLEAN
    BY <1>8 DEF Destruct
  <2> QED BY <1>8, <2>1 DEF Destruct
<1>9. CASE UNCHANGED vars
  BY <1>9 DEF vars
<1> QED BY <1>1, <1>2, <1>3, <1>4, <1>5, <1>6, <1>7, <1>8, <1>9 DEF Next, Await

\* What becomes of the order of the events when a cause is posted ...
LEMMA OrderPosting ==
  ASSUME IInv, NEW c \in {"done", Hook}, ~Posted(c), events' = Append(events, c),
         wrapper' = wrapper
  PROVE  OrderInv' /\ \A d \in Causes : Posted(d)' => Posted(d) \/ d = c
<1>1. c \in Causes /\ events \in Seq(Causes) /\ Hook' = Hook
  BY DEF IInv, Types, Causes, Hook
<1>2. /\ Len(events') = Len(events) + 1 /\ Len(events) \in Nat
      /\ \A k \in 1..Len(events) : events'[k] = events[k]
      /\ events'[Len(events) + 1] = c
  BY <1>1, Posting
<1>3. \A k \in 1..Len(events) : events[k] # c
  BY DEF Posted
<1>4. \A k \in 1..Len(events') : k \in 1..Len(events) \/ k = Len(events) + 1
  BY <1>2
<1>5. OrderInv'
  BY <1>1, <1>2, <1>3, <1>4 DEF IInv, OrderInv
<1>6. \A d \in Causes : Posted(d)' => Posted(d) \/ d = c
  BY <1>2, <1>4 DEF Posted
<1> QED BY <1>5, <1>6

\* ... or delivered.
LEMMA OrderDelivering ==
  ASSUME IInv, events # <<>>, events' = Tail(events), wrapper' = wrapper
  PROVE  /\ OrderInv'
         /\ \A d \in Causes : Posted(d)' => Posted(d)
         /\ Head(events) \in {"done", Hook} /\ Posted(Head(events))
<1>1. events \in Seq(Causes) /\ Hook' = Hook
  BY DEF IInv, Types, Hook
<1>2. /\ Len(events') = Len(events) - 1 /\ Len(events) \in Nat \ {0}
      /\ \A k \in 1..Len(events') : events'[k] = events[k + 1] /\ k + 1 \in 1..Len(events)
      /\ Head(events) = events[1]
  BY <1>1, Delivering
<1>3. OrderInv'
  BY <1>1, <1>2 DEF IInv, OrderInv
<1>4. \A d \in Causes : Posted(d)' => Posted(d)
  BY <1>2 DEF Posted
<1>5. 1 \in 1..Len(events)
  BY <1>2
<1>6. Head(events) \in {"done", Hook} /\ Posted(Head(events))
  BY <1>2, <1>5 DEF IInv, OrderInv, Posted
<1> QED BY <1>3, <1>4, <1>6

LEMMA PostStep == ASSUME IInv, [Next]_vars PROVE OrderInv' /\ PostInv'
<1> USE DEF IInv, Types, PostInv, HookInv, Causes, Elsewhere, built
<1>1. ASSUME UNCHANGED <<events, wrapper>> 
      PROVE  OrderInv' /\ \A d \in Causes : Posted(d)' => Posted(d)
  BY <1>1 DEF OrderInv, Hook, Posted
<1>2. CASE Complete \/ EnterSink \/ Settle \/ Replace \/ RequestStop
  BY <1>1, <1>2 DEF Complete, EnterSink, Settle, Replace, RequestStop
<1>3. CASE PostDone
  <2>1. "done" \in {"done", Hook} /\ ~Posted("done") /\ wrapper' = wrapper
    BY <1>3 DEF PostDone
  <2>2. OrderInv' /\ \A d \in Causes : Posted(d)' => Posted(d) \/ d = "done"
    BY <1>3, <2>1, OrderPosting DEF PostDone
  <2> QED BY <1>3, <2>2 DEF PostDone
<1>4. CASE PostStop
  <2>1. "stop" \in {"done", Hook} /\ ~Posted("stop") /\ wrapper' = wrapper
    BY <1>4 DEF PostStop, Hook
  <2>2. OrderInv' /\ \A d \in Causes : Posted(d)' => Posted(d) \/ d = "stop"
    BY <1>4, <2>1, OrderPosting DEF PostStop
  <2> QED BY <1>4, <2>2 DEF PostStop
<1>5. CASE TimerFires
  <2>1. "timeout" \in {"done", Hook} /\ ~Posted("timeout") /\ wrapper' = wrapper
    BY <1>5 DEF TimerFires, Hook
  <2>2. OrderInv' /\ \A d \in Causes : Posted(d)' => Posted(d) \/ d = "timeout"
    BY <1>5, <2>1, OrderPosting DEF TimerFires
  <2> QED BY <1>5, <2>2 DEF TimerFires
<1>6. CASE AwaitReady \/ AskTask \/ AwaitResume \/ Disarm \/ Destruct
  BY <1>1, <1>6 DEF AwaitReady, AskTask, AwaitResume, Disarm, Destruct
<1>7. CASE ArmTask
  <2>1. CASE task = "settled"
    <3>1. "done" \in {"done", Hook} /\ ~Posted("done") /\ wrapper' = wrapper
      BY <1>7 DEF ArmTask
    <3>2. OrderInv' /\ \A d \in Causes : Posted(d)' => Posted(d) \/ d = "done"
      BY <1>7, <2>1, <3>1, OrderPosting DEF ArmTask
    <3> QED BY <1>7, <2>1, <3>2 DEF ArmTask
  <2>2. CASE task # "settled"
    <3>1. ~Posted("done") BY <1>7 DEF ArmTask
    <3> QED BY <1>1, <1>7, <2>2, <3>1 DEF ArmTask
  <2> QED BY <2>1, <2>2
<1>8. CASE ArmHook
  <2>1. ~Posted("stop") /\ ~Posted("timeout") /\ wrapper' = wrapper
    BY <1>8 DEF ArmHook
  <2>2. CASE wrapper = "cancelledBy" /\ stopRequested
    <3>1. "stop" \in {"done", Hook} BY <2>2 DEF Hook
    <3>2. OrderInv' /\ \A d \in Causes : Posted(d)' => Posted(d) \/ d = "stop"
      BY <1>8, <2>1, <2>2, <3>1, OrderPosting DEF ArmHook
    <3> QED BY <1>8, <2>1, <2>2, <3>2 DEF ArmHook
  <2>3. CASE ~(wrapper = "cancelledBy" /\ stopRequested)
    BY <1>1, <1>8, <2>1, <2>3 DEF ArmHook
  <2> QED BY <2>2, <2>3
<1>9. CASE Deliver
  <2>1. OrderInv' /\ \A d \in Causes : Posted(d)' => Posted(d)
    BY <1>9, OrderDelivering DEF Deliver
  <2> QED BY <1>9, <2>1 DEF Deliver
<1>10. CASE UNCHANGED vars
  BY <1>1, <1>10 DEF vars
<1> QED BY <1>2, <1>3, <1>4, <1>5, <1>6, <1>7, <1>8, <1>9, <1>10 DEF Next, Await

LEMMA HookStep == ASSUME IInv, [Next]_vars PROVE HookInv'
<1> USE DEF IInv, Types, HookInv, GateInv, Elsewhere, built, Idle
<1>1. CASE Complete \/ EnterSink \/ PostDone \/ Settle \/ Replace
  BY <1>1 DEF Complete, EnterSink, PostDone, Settle, Replace
<1>2. CASE RequestStop \/ PostStop \/ TimerFires
  BY <1>2 DEF RequestStop, PostStop, TimerFires
<1>3. CASE AwaitReady \/ AskTask \/ ArmTask
  BY <1>3 DEF AwaitReady, AskTask, ArmTask
<1>4. CASE ArmHook
  BY <1>4 DEF ArmHook
<1>5. CASE AwaitResume \/ Disarm \/ Deliver \/ Destruct
  BY <1>5 DEF AwaitResume, Disarm, Deliver, Destruct
<1>6. CASE UNCHANGED vars
  BY <1>6 DEF vars
<1> QED BY <1>1, <1>2, <1>3, <1>4, <1>5, <1>6 DEF Next, Await

LEMMA GateStep == ASSUME IInv, [Next]_vars PROVE GateInv'
<1> USE DEF IInv, Types, HookInv, GateInv, Elsewhere, built, Idle
<1>1. CASE Complete \/ EnterSink \/ PostDone \/ Settle \/ Replace
  BY <1>1 DEF Complete, EnterSink, PostDone, Settle, Replace
<1>2. CASE RequestStop \/ PostStop \/ TimerFires
  BY <1>2 DEF RequestStop, PostStop, TimerFires
<1>3. CASE AwaitReady \/ AskTask \/ ArmTask \/ ArmHook
  BY <1>3 DEF AwaitReady, AskTask, ArmTask, ArmHook
<1>4. CASE AwaitResume \/ Disarm \/ Destruct
  BY <1>4 DEF AwaitResume, Disarm, Destruct
<1>5. CASE Deliver
  BY <1>5 DEF Deliver
<1>6. CASE UNCHANGED vars
  BY <1>6 DEF vars
<1> QED BY <1>1, <1>2, <1>3, <1>4, <1>5, <1>6 DEF Next, Await

LEMMA AnswerStep == ASSUME IInv, [Next]_vars PROVE AnswerInv'
<1> USE DEF IInv, Types, PostInv, HookInv, GateInv, AnswerInv, Elsewhere, built, Idle, Causes
<1>1. CASE Complete \/ EnterSink \/ PostDone \/ Settle \/ Replace
  BY <1>1 DEF Complete, EnterSink, PostDone, Settle, Replace, Hook
<1>2. CASE RequestStop \/ PostStop \/ TimerFires
  BY <1>2 DEF RequestStop, PostStop, TimerFires, Hook
<1>3. CASE AwaitReady \/ AskTask \/ ArmTask \/ ArmHook
  BY <1>3 DEF AwaitReady, AskTask, ArmTask, ArmHook, Hook
<1>4. CASE AwaitResume
  BY <1>4 DEF AwaitResume, Hook
<1>5. CASE Disarm \/ Destruct
  BY <1>5 DEF Disarm, Destruct
<1>6. CASE Deliver
  <2>1. Head(events) \in {"done", Hook} /\ Posted(Head(events)) /\ Hook' = Hook
    BY <1>6, OrderDelivering DEF Deliver, Hook
  <2>2. CASE guard
    BY <1>6, <2>2 DEF Deliver, Hook
  <2>3. CASE ~guard /\ Head(events) = "done"
    BY <1>6, <2>1, <2>3 DEF Deliver
  <2>4. CASE ~guard /\ Head(events) # "done"
    <3>1. /\ wrapper = "cancelledBy" => stopRequested
          /\ wrapper = "withTimeout" => timer = "fired"
      BY <2>1, <2>4 DEF Hook
    <3> QED BY <1>6, <2>1, <2>4, <3>1 DEF Deliver
  <2> QED BY <2>2, <2>3, <2>4
<1>7. CASE UNCHANGED vars
  BY <1>7 DEF vars, Hook
<1> QED BY <1>1, <1>2, <1>3, <1>4, <1>5, <1>6, <1>7 DEF Next, Await

LEMMA Invariance == Spec => []IInv
<1>1. IInv /\ [Next]_vars => IInv'
  BY TypeStep, PostStep, HookStep, GateStep, AnswerStep DEF IInv
<1> QED BY <1>1, InvInit, PTL DEF Spec

-----------------------------------------------------------------------------

\* Every variable keeps its type, and the context never holds more than two
\* of the wrapper's events, however stop, timeout and completion race.
THEOREM TypeCorrect == Spec => []TypeOK
<1>1. IInv => TypeOK
  <2> SUFFICES ASSUME IInv PROVE Len(events) <= 2
    BY DEF IInv, Types, TypeOK
  <2>1. Len(events) \in Nat
    BY DEF IInv, Types
  <2>2. ASSUME Len(events) >= 3 PROVE FALSE
    <3>1. {1, 2, 3} \subseteq 1..Len(events)
      BY <2>1, <2>2
    <3>2. events[1] # events[2] /\ events[2] # events[3] /\ events[1] # events[3]
      BY <3>1 DEF IInv, OrderInv
    <3> QED BY <3>1, <3>2 DEF IInv, OrderInv
  <2> QED BY <2>1, <2>2
<1> QED BY <1>1, Invariance, PTL

\* No cause that comes after the one that ended the wait changes the answer.
THEOREM Winner == Spec => []AnswersWinner
<1>1. IInv => AnswersWinner
  BY DEF IInv, AnswerInv, AnswersWinner
<1> QED BY <1>1, Invariance, PTL

\* The destructor leaves nothing armed that captured the awaitable.
THEOREM Teardown == Spec => []NothingLeft
<1>1. IInv => NothingLeft
  BY DEF IInv, GateInv, NothingLeft
<1> QED BY <1>1, Invariance, PTL

\* Both wrappers implement what every awaitable promises.
THEOREM OneAnswer == Spec => KeepsPromise
<1> DEFINE causes == {c \in Causes : \/ c = "done" /\ task # "running"
                                     \/ c = "stop" /\ stopRequested
                                     \/ c = "timeout" /\ timer = "fired"}
           answer == IF outcome \in Causes THEN {outcome} ELSE {}
           waits == IF outcome = "none" THEN "waiting"
                    ELSE IF outcome = "dropped" THEN "dropped" ELSE "answered"
<1>1. Init => Promise!Init
  BY DEF Init, Promise!Init, Causes
<1>2. ASSUME IInv, IInv', [Next]_vars PROVE [Promise!Next]_(Promise!vars)
  <2>1. pc # "stray" /\ pc' # "stray" /\ outcome \in Causes \cup {"none", "dropped"}
        /\ outcome' \in Causes \cup {"none", "dropped"}
    BY <1>2 DEF IInv, Types, GateInv
  <2>2. ASSUME causes \subseteq causes', UNCHANGED outcome
        PROVE [Promise!Next]_(Promise!vars)
    BY <2>1, <2>2 DEF Promise!Next, Promise!Happen, Causes
  <2>3. ASSUME UNCHANGED causes, outcome = "none", outcome' \in causes
        PROVE Promise!Answer
    BY <2>1, <2>3 DEF Promise!Answer, Causes
  <2>4. ASSUME UNCHANGED causes, outcome = "none", outcome' = "dropped"
        PROVE Promise!Drop
    BY <2>1, <2>4 DEF Promise!Drop, Causes
  <2> USE DEF IInv, Types, Elsewhere, built
  <2>5. CASE Complete \/ EnterSink \/ PostDone \/ Settle \/ Replace
    BY <1>2, <2>2, <2>5 DEF Complete, EnterSink, PostDone, Settle, Replace
  <2>6. CASE RequestStop \/ PostStop \/ TimerFires
    BY <1>2, <2>2, <2>6 DEF RequestStop, PostStop, TimerFires
  <2>7. CASE AwaitReady \/ AskTask \/ ArmTask \/ Disarm \/ Deliver
    BY <1>2, <2>2, <2>7 DEF AwaitReady, AskTask, ArmTask, Disarm, Deliver
  <2>8. CASE ArmHook
    <3>1. timer # "fired"
      BY <1>2, <2>8 DEF ArmHook, HookInv
    <3>2. causes \subseteq causes' /\ UNCHANGED outcome
      BY <2>8, <3>1 DEF ArmHook
    <3> QED BY <2>2, <3>2
  <2>9. CASE AwaitResume
    <3>1. outcome = "none" /\ outcome' \in causes /\ UNCHANGED causes
      BY <1>2, <2>9 DEF AwaitResume, AnswerInv, Causes
    <3> QED BY <2>3, <3>1 DEF Promise!Next
  <2>10. CASE Destruct
    <3>1. (timer = "fired") <=> (timer' = "fired")
      BY <2>10 DEF Destruct
    <3>2. UNCHANGED causes
      BY <2>10, <3>1 DEF Destruct
    <3>3. CASE pc = "destruct"
      BY <2>2, <2>10, <3>2, <3>3 DEF Destruct
    <3>4. CASE pc # "destruct"
      <4>1. outcome = "none" /\ outcome' = "dropped"
        BY <1>2, <2>10, <3>4 DEF Destruct, AnswerInv
      <4> QED BY <2>4, <3>2, <4>1 DEF Promise!Next
    <3> QED BY <3>3, <3>4
  <2>11. CASE UNCHANGED vars
    BY <2>2, <2>11 DEF vars
  <2> QED BY <1>2, <2>5, <2>6, <2>7, <2>8, <2>9, <2>10, <2>11 DEF Next, Await
<1> QED BY <1>1, <1>2, Invariance, PTL DEF Spec, KeepsPromise, Promise!Spec

\* What the wrappers assume of the task is nothing QTask does not do
\* (qtask.hpp:1039-1045, 1130-1136).
THEOREM TaskArmed == Spec => TaskIsArmed
<1> DEFINE seen == IF sink \in {"entered", "returned"} THEN "called" ELSE sink
<1>1. Init => Armed!Init
  BY DEF Init, Armed!Init
<1>2. ASSUME IInv, [Next]_vars PROVE [Armed!Next]_(Armed!vars)
  <2> USE DEF IInv, Types, Elsewhere
  <2>1. ASSUME UNCHANGED <<task, seen>> PROVE UNCHANGED Armed!vars
    BY <2>1 DEF Armed!vars
  <2>2. CASE Complete
    BY <2>2 DEF Complete, Armed!Next, Armed!Complete
  <2>3. CASE EnterSink
    BY <1>2, <2>3 DEF EnterSink, Armed!Next, Armed!Call
  <2>4. CASE Settle
    BY <1>2, <2>4 DEF Settle, Armed!Next, Armed!Settle
  <2>5. CASE Replace
    BY <1>2, <2>5 DEF Replace, Armed!Next, Armed!Replace, Armed!Settled
  <2>6. CASE ArmTask
    BY <1>2, <2>6 DEF ArmTask, HookInv, Armed!Next, Armed!Arm, Armed!Settled
  <2>7. CASE PostDone \/ RequestStop \/ PostStop \/ TimerFires \/ Deliver \/ Destruct
    BY <2>1, <2>7 DEF PostDone, RequestStop, PostStop, TimerFires, Deliver, Destruct
  <2>8. CASE AwaitReady \/ AskTask \/ ArmHook \/ AwaitResume \/ Disarm
    BY <2>1, <2>8 DEF AwaitReady, AskTask, ArmHook, AwaitResume, Disarm
  <2>9. CASE UNCHANGED vars
    BY <2>1, <2>9 DEF vars
  <2> QED BY <1>2, <2>2, <2>3, <2>4, <2>5, <2>6, <2>7, <2>8, <2>9 DEF Next, Await
<1> QED BY <1>1, <1>2, Invariance, PTL DEF Spec, TaskIsArmed, Armed!Spec

-----------------------------------------------------------------------------
(* No cause is lost: the part of liveness that is not about fairness.      *)

\* Behind an open gate, whatever has happened since it was armed is posted or
\* about to be.
WakeInv ==
  /\ sink \in {"pending", "entered"} => task # "settled"
  /\ pc \in {"arm_hook", "suspended"} =>
       sink # "none" /\ (sink = "returned" => Posted("done"))
  /\ pc = "suspended" =>
       /\ stopRequested => stopCb = "entered" \/ Posted("stop")
       /\ wrapper = "cancelledBy" /\ ~stopRequested => stopCb = "armed"
       /\ wrapper = "withTimeout" => timer = "running" \/ Posted("timeout")

LEMMA Remains ==
  ASSUME events \in Seq(Causes), NEW c \in Causes, events' = Append(events, c)
  PROVE  Posted(c)' /\ \A d : Posted(d) => Posted(d)'
<1>1. /\ Len(events') = Len(events) + 1 /\ Len(events) \in Nat
      /\ \A k \in 1..Len(events) : events'[k] = events[k]
      /\ events'[Len(events) + 1] = c
  BY Posting
<1> QED BY <1>1 DEF Posted

LEMMA WakeStep == ASSUME IInv, WakeInv, [Next]_vars PROVE WakeInv'
<1> USE DEF Types, WakeInv, Elsewhere, built
<1>0. Types /\ HookInv /\ GateInv
  BY DEF IInv
<1>1. ASSUME UNCHANGED events PROVE \A d : Posted(d)' = Posted(d)
  BY <1>1 DEF Posted
<1>2. CASE Complete \/ Settle \/ Replace
  BY <1>0, <1>1, <1>2 DEF Complete, Settle, Replace, Idle
<1>3. CASE EnterSink
  BY <1>0, <1>1, <1>3 DEF EnterSink, GateInv
<1>4. CASE PostDone
  <2>1. Posted("done")' /\ \A d : Posted(d) => Posted(d)'
    BY <1>0, <1>4, Remains DEF PostDone, Causes
  <2> QED BY <1>0, <1>4, <2>1 DEF PostDone
<1>5. CASE RequestStop
  BY <1>0, <1>1, <1>5 DEF RequestStop, GateInv, HookInv
<1>6. CASE PostStop
  <2>1. Posted("stop")' /\ \A d : Posted(d) => Posted(d)'
    BY <1>0, <1>6, Remains DEF PostStop, Causes
  <2> QED BY <1>0, <1>6, <2>1 DEF PostStop, HookInv
<1>7. CASE TimerFires
  <2>1. Posted("timeout")' /\ \A d : Posted(d) => Posted(d)'
    BY <1>0, <1>7, Remains DEF TimerFires, Causes
  <2> QED BY <1>0, <1>7, <2>1 DEF TimerFires, HookInv
<1>8. CASE AwaitReady \/ AskTask \/ AwaitResume \/ Disarm \/ Destruct
  BY <1>0, <1>1, <1>8 DEF AwaitReady, AskTask, AwaitResume, Disarm, Destruct
<1>9. CASE ArmTask
  <2>1. CASE task = "settled"
    <3>1. Posted("done")'
      BY <1>0, <1>9, <2>1, Remains DEF ArmTask, Causes
    <3> QED BY <1>0, <1>9, <2>1, <3>1 DEF ArmTask
  <2>2. CASE task # "settled"
    BY <1>0, <1>9, <2>2 DEF ArmTask
  <2> QED BY <2>1, <2>2
<1>10. CASE ArmHook
  <2>1. CASE wrapper = "cancelledBy" /\ stopRequested
    <3>1. Posted("stop")' /\ \A d : Posted(d) => Posted(d)'
      BY <1>0, <1>10, <2>1, Remains DEF ArmHook, Causes
    <3> QED BY <1>0, <1>10, <2>1, <3>1 DEF ArmHook
  <2>2. CASE ~(wrapper = "cancelledBy" /\ stopRequested)
    BY <1>0, <1>1, <1>10, <2>2 DEF ArmHook, HookInv
  <2> QED BY <2>1, <2>2
<1>11. CASE Deliver
  <2>1. pc' \in {"over", "resume", "stray"}
    BY <1>0, <1>11 DEF Deliver, Idle, GateInv
  <2> QED BY <1>0, <1>11, <2>1 DEF Deliver
<1>12. CASE UNCHANGED vars
  BY <1>1, <1>12 DEF vars
<1> QED BY <1>2, <1>3, <1>4, <1>5, <1>6, <1>7, <1>8, <1>9, <1>10, <1>11, <1>12
        DEF Next, Await

\* However completion, stop and timeout race the arming, the first of them is
\* not missed: its event finds the gate open (qtask.hpp:1010-1050, 1106-1150).
THEOREM WakeUp == Spec => []NoLostCause
<1>1. Init => WakeInv
  BY DEF Init, WakeInv
<1>2. IInv /\ WakeInv /\ [Next]_vars => WakeInv'
  BY WakeStep
<1>3. IInv /\ WakeInv => NoLostCause
  <2> SUFFICES ASSUME IInv, WakeInv, pc = "suspended",
                      \/ task = "settled" /\ sink # "replaced"
                      \/ stopRequested
                      \/ wrapper = "withTimeout" /\ timer # "running"
               PROVE  ~guard /\ (events # <<>> \/ stopCb = "entered")
    BY DEF NoLostCause
  <2>1. ~guard
    BY DEF IInv, GateInv
  <2>2. (\E d \in Causes : Posted(d)) \/ stopCb = "entered"
    BY DEF IInv, Types, WakeInv, Causes
  <2>3. ASSUME NEW d \in Causes, Posted(d) PROVE events # <<>>
    BY <2>3 DEF Posted
  <2> QED BY <2>1, <2>2, <2>3
<1> QED BY <1>1, <1>2, <1>3, Invariance, PTL DEF Spec

=============================================================================
