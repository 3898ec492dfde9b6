---------------------- MODULE QSignalAwaitable_proofs ----------------------
(***************************************************************************)
(* Proofs about QSignalAwaitable, for any builders and any number of       *)
(* emissions.                                                              *)
(***************************************************************************)
EXTENDS QSignalAwaitable, SequenceTheorems, TLAPS

\* The gate, the outcome behind it, and where the coroutine is.
GateInv ==
  /\ pc \in {"await_ready", "suspended"} =>
       ~resumed /\ ~result /\ cancelReason = "none" /\ ctx = "alive"
  /\ pc = "resume" => (result <=> cancelReason = "none")
  /\ pc \in {"disarm", "over"} => resumed
  /\ ctx = "gone" => pc = "over"

\* What is armed while the coroutine is suspended, and what is left at the end.
ArmInv ==
  /\ pc = "await_ready" => arming = "no"
  /\ pc = "suspended" =>
       /\ arming # "no"
       /\ "resumeOn" \in builders /\ arming # "context" => "ResumeContextDestroyed" \in hooks
       /\ arming \notin {"context", "sender"} => "SenderDestroyed" \in hooks
       /\ "cancelledBy" \in builders /\ arming \notin {"context", "sender", "stop"} => "Stopped" \in hooks
  /\ arming = "no" => hooks = {}
  /\ pc = "over" => hooks = {} /\ arming \in {"no", "done"} /\ ~posting

InputInv ==
  /\ stopRequested => "cancelledBy" \in builders
  /\ posting => stopRequested
  /\ pc = "suspended" /\ (\/ emitted > 0 \/ ~sender
                          \/ stopRequested /\ arming \in {"timer", "signal", "unlock", "done"})
       => events # <<>> \/ posting
  /\ pc = "await_ready" => emitted = 0 /\ sender

IInv == TypeOK /\ GateInv /\ ArmInv /\ InputInv

-----------------------------------------------------------------------------

\* A hook on an idle context thread resumes a suspended coroutine, or does
\* nothing because the awaitable is gone.
LEMMA FireLemma ==
  ASSUME TypeOK, GateInv, Idle, NEW kind \in Hooks \cup {"Timeout"}, Fire(kind)
  PROVE  /\ resumed' \in BOOLEAN /\ result' \in BOOLEAN
         /\ cancelReason' \in Reasons \cup {"none"}
         /\ cancelReason' # "none" => resumed'
         /\ \/ /\ pc = "suspended" /\ pc' = "resume" /\ resumed'
               /\ result' <=> cancelReason' = "none"
            \/ pc = "over" /\ UNCHANGED <<block, pc>>
<1> USE DEF Fire, TypeOK, GateInv, Idle, block
<1>1. CASE resumed
  BY <1>1
<1>2. CASE ~resumed
  <2>1. pc = "suspended" /\ pc' = "resume" /\ resumed' = TRUE
    BY <1>2
  <2>2. CASE kind = "signal"
    BY <1>2, <2>1, <2>2
  <2>3. CASE kind # "signal"
    BY <1>2, <2>1, <2>3 DEF Hooks, Reasons
  <2> QED BY <2>2, <2>3
<1> QED BY <1>1, <1>2

LEMMA InvInit == Init => IInv
<1> SUFFICES ASSUME Init PROVE IInv
  OBVIOUS
<1>0. migrates \in BOOLEAN /\ (migrates => "resumeOn" \in builders)
  BY DEF Init
<1>1. /\ resumed \in BOOLEAN /\ result \in BOOLEAN /\ timer \in BOOLEAN
      /\ posting \in BOOLEAN /\ sender \in BOOLEAN /\ stopRequested \in BOOLEAN
  BY Zenon DEF Init
<1>2. TypeOK
  BY <1>0, <1>1, AwaitableAssumption DEF Init, TypeOK
<1>3. GateInv /\ ArmInv /\ InputInv
  BY DEF Init, GateInv, ArmInv, InputInv
<1> QED BY <1>2, <1>3 DEF IInv

\* The steps of await_suspend.
LEMMA ArmStep == ASSUME IInv, ArmNext PROVE IInv'
<1> USE DEF IInv, built, block, world, Hooks, HookOf
<1>1. CASE ArmContext
  BY <1>1 DEF ArmContext, Arm, TypeOK, GateInv, ArmInv, InputInv
<1>2. CASE ArmSender
  BY <1>2 DEF ArmSender, Arm, TypeOK, GateInv, ArmInv, InputInv
<1>3. CASE ArmStop
  <2>1. CASE "cancelledBy" \in builders /\ stopRequested /\ ~resumed
    <3>1. events' \in Seq(Hooks) /\ events' # <<>>
      BY <1>3, <2>1, AppendProperties DEF ArmStop, TypeOK
    <3> QED BY <1>3, <2>1, <3>1 DEF ArmStop, Arm, TypeOK, GateInv, ArmInv, InputInv
  <2>2. CASE ~("cancelledBy" \in builders /\ stopRequested /\ ~resumed)
    <3>1. /\ arming = "stop" /\ arming' = "timer" /\ hooks' = hooks \cup HookOf("cancelledBy", "Stopped")
          /\ UNCHANGED <<built, block, pc, posting, world, outcome, timer, events>>
      BY <1>3, <2>2 DEF ArmStop, Arm
    <3>2. GateInv' /\ ArmInv'
      BY <3>1 DEF GateInv, ArmInv
    <3>3. InputInv'
      BY <2>2, <3>1 DEF GateInv, InputInv
    <3>4. hooks' \subseteq Hooks
      BY <3>1 DEF TypeOK
    <3>5. TypeOK'
      BY <3>1, <3>4 DEF TypeOK
    <3> QED BY <3>2, <3>3, <3>5
  <2> QED BY <2>1, <2>2
<1>4. CASE ArmTimer
  <2>1. timer' \in BOOLEAN
    <3>1. ("withTimeout" \in builders) \in BOOLEAN
      OBVIOUS
    <3>2. timer' = ("withTimeout" \in builders)
      BY <1>4 DEF ArmTimer
    <3> QED BY <3>1, <3>2, Zenon
  <2> QED BY <1>4, <2>1 DEF ArmTimer, Arm, TypeOK, GateInv, ArmInv, InputInv
<1>5. CASE ArmSignal
  BY <1>5 DEF ArmSignal, Arm, TypeOK, GateInv, ArmInv, InputInv
<1>6. CASE EndArming
  BY <1>6 DEF EndArming, Arm, TypeOK, GateInv, ArmInv, InputInv
<1> QED BY <1>1, <1>2, <1>3, <1>4, <1>5, <1>6 DEF ArmNext

\* An emission or the sender's destruction, direct or posted.
LEMMA NotifyStep ==
  ASSUME IInv, NEW here \in BOOLEAN, Emit(here) \/ SenderDestroyed(here) PROVE IInv'
<1> DEFINE kind == IF Emit(here) THEN "signal" ELSE "SenderDestroyed"
<1>0. TypeOK /\ GateInv /\ ArmInv /\ InputInv
  BY DEF IInv
<1>1. /\ Notify(kind, here) /\ (here => Idle) /\ kind \in Hooks
      /\ UNCHANGED <<built, armed, posting, ctx, stopRequested, outcome>>
      /\ emitted' \in 0..MaxEmits /\ sender' \in BOOLEAN
      /\ kind \in hooks => pc # "await_ready"
      /\ pc # "await_ready"
      /\ pc = "suspended" => kind \in hooks
  <2>1. CASE Emit(here)
    <3>1. "signal" \in hooks /\ pc # "await_ready"
      BY <1>0, <2>1 DEF Emit, ArmInv
    <3>2. emitted' \in 0..MaxEmits
      BY <1>0, <2>1, AwaitableAssumption DEF Emit, TypeOK
    <3> QED BY <1>0, <2>1, <3>1, <3>2 DEF Emit, TypeOK, Hooks
  <2>2. CASE ~Emit(here)
    <3>1. SenderDestroyed(here) /\ kind = "SenderDestroyed"
      BY <2>2
    <3>2. pc # "await_ready" /\ (pc = "suspended" => kind \in hooks)
      BY <1>0, <3>1 DEF SenderDestroyed, ObjectsFree, ArmInv
    <3>3. sender' \in BOOLEAN
      BY <3>1, Zenon DEF SenderDestroyed
    <3> QED BY <1>0, <3>1, <3>2, <3>3 DEF SenderDestroyed, TypeOK, Hooks
  <2> QED BY <2>1, <2>2
<1> HIDE DEF kind
<1>2. CASE kind \in hooks /\ here
  <2>1. Fire(kind) /\ Idle /\ UNCHANGED events
    BY <1>1, <1>2 DEF Notify
  <2> QED BY <1>0, <1>1, <2>1, FireLemma
          DEF IInv, TypeOK, GateInv, ArmInv, InputInv, built, armed, block
<1>3. CASE kind \in hooks /\ ~here
  <2>1. events' = Append(events, kind) /\ UNCHANGED <<block, pc>>
    BY <1>1, <1>3 DEF Notify
  <2>2. events' \in Seq(Hooks) /\ events' # <<>>
    BY <1>0, <1>1, <2>1, AppendProperties DEF TypeOK
  <2> QED BY <1>0, <1>1, <2>1, <2>2
          DEF IInv, TypeOK, GateInv, ArmInv, InputInv, built, armed, block
<1>4. CASE kind \notin hooks
  <2>1. UNCHANGED <<block, pc, events>>
    BY <1>1, <1>4 DEF Notify
  <2> QED BY <1>0, <1>1, <1>4, <2>1
          DEF IInv, TypeOK, GateInv, ArmInv, InputInv, built, armed, block
<1> QED BY <1>2, <1>3, <1>4

\* A stop request, its two halves and the direct one.
LEMMA StopStep ==
  ASSUME IInv, RequestStop \/ PostStop \/ RequestStopHere PROVE IInv'
<1> USE DEF IInv, built, block, armed, world
<1>1. CASE RequestStop
  <2>1. posting' \in BOOLEAN /\ (posting' <=> "Stopped" \in hooks /\ ~resumed)
    BY <1>1, Zenon DEF RequestStop
  <2>2. stopRequested' \in BOOLEAN /\ stopRequested'
    BY <1>1, Zenon DEF RequestStop
  <2>3. /\ "cancelledBy" \in builders
        /\ UNCHANGED <<built, block, armed, pc, events, ctx, sender, emitted, outcome>>
    BY <1>1 DEF RequestStop
  <2>4. TypeOK' /\ GateInv'
    BY <2>1, <2>2, <2>3 DEF TypeOK, GateInv
  <2>5. ArmInv'
    BY <2>1, <2>3 DEF ArmInv, GateInv
  <2>6. InputInv'
    <3>1. pc = "suspended" /\ arming \in {"timer", "signal", "unlock", "done"} => posting'
      BY <2>1, <2>3 DEF ArmInv, GateInv
    <3>2. ~posting
      BY <1>1 DEF RequestStop, InputInv
    <3> QED BY <2>1, <2>2, <2>3, <3>1, <3>2 DEF InputInv
  <2> QED BY <2>4, <2>5, <2>6
<1>2. CASE PostStop
  <2>1. events' \in Seq(Hooks) /\ events' # <<>>
    BY <1>2, AppendProperties DEF PostStop, TypeOK, Hooks
  <2>2. posting' \in BOOLEAN
    BY <1>2, Zenon DEF PostStop
  <2> QED BY <1>2, <2>1, <2>2 DEF PostStop, TypeOK, GateInv, ArmInv, InputInv
<1>3. CASE RequestStopHere
  <2>1. events' \in Seq(Hooks) /\ ("Stopped" \in hooks /\ ~resumed => events' # <<>>)
        /\ (events # <<>> => events' # <<>>)
    BY <1>3, AppendProperties DEF RequestStopHere, TypeOK, Hooks
  <2>2. stopRequested' \in BOOLEAN
    BY <1>3, Zenon DEF RequestStopHere
  <2> QED BY <1>3, <2>1, <2>2 DEF RequestStopHere, TypeOK, GateInv, ArmInv, InputInv
<1> QED BY <1>1, <1>2, <1>3

\* The destruction of the context, and its event loop.
LEMMA ContextStep ==
  ASSUME IInv, ContextDestroyed \/ ContextGone \/ Deliver \/ TimerFires PROVE IInv'
<1> USE DEF IInv, built, block, armed, world
<1>1. CASE ContextDestroyed
  <2>1. pc = "suspended" => "ResumeContextDestroyed" \in hooks
    BY <1>1 DEF ContextDestroyed, ObjectsFree, ArmInv
  <2>2. CASE "ResumeContextDestroyed" \in hooks
    <3>1. Fire("ResumeContextDestroyed") /\ Idle
      BY <1>1, <2>2 DEF ContextDestroyed
    <3> QED BY <1>1, <3>1, FireLemma
            DEF ContextDestroyed, TypeOK, GateInv, ArmInv, InputInv, Hooks
  <2>3. CASE "ResumeContextDestroyed" \notin hooks
    BY <1>1, <2>1, <2>3
    DEF ContextDestroyed, Idle, TypeOK, GateInv, ArmInv, InputInv
  <2> QED BY <2>2, <2>3
<1>2. CASE ContextGone
  <2>1. timer' \in BOOLEAN
    BY <1>2, Zenon DEF ContextGone
  <2>2. pc = "over"
    BY <1>2 DEF ContextGone, GateInv
  <2> QED BY <1>2, <2>1, <2>2 DEF ContextGone, TypeOK, GateInv, ArmInv, InputInv
<1>3. CASE Deliver
  <2>1. Head(events) \in Hooks /\ events' \in Seq(Hooks)
    BY <1>3 DEF Deliver, TypeOK
  <2>2. Fire(Head(events)) /\ Idle
    BY <1>3 DEF Deliver
  <2> QED BY <1>3, <2>1, <2>2, FireLemma
          DEF Deliver, TypeOK, GateInv, ArmInv, InputInv
<1>4. CASE TimerFires
  <2>1. timer' \in BOOLEAN
    BY <1>4, Zenon DEF TimerFires
  <2>2. Fire("Timeout") /\ Idle /\ UNCHANGED <<built, hooks, arming, events, posting, world, outcome>>
    BY <1>4 DEF TimerFires
  <2> QED BY <2>1, <2>2, FireLemma DEF TypeOK, GateInv, ArmInv, InputInv
<1> QED BY <1>1, <1>2, <1>3, <1>4

\* await_ready, and the coroutine after it was resumed or dropped.
LEMMA CoroutineStep ==
  ASSUME IInv, AwaitReady \/ FrameDestroyed \/ Finish PROVE IInv'
<1> USE DEF IInv, built, block, armed, world
<1>1. CASE AwaitReady
  <2>1. result' \in BOOLEAN
    BY <1>1 DEF AwaitReady, TypeOK
  <2> QED BY <1>1, <2>1
          DEF AwaitReady, TypeOK, GateInv, ArmInv, InputInv, Reasons
<1>2. CASE FrameDestroyed
  BY <1>2 DEF FrameDestroyed, TypeOK, GateInv, ArmInv, InputInv
<1>3. CASE AwaitResume
  BY <1>3 DEF AwaitResume, TypeOK, GateInv, ArmInv, InputInv
<1>4. CASE Destruct
  <2>1. resumed' \in BOOLEAN
    BY <1>4, Zenon DEF Destruct
  <2> QED BY <1>4, <2>1 DEF Destruct, TypeOK, GateInv, ArmInv, InputInv
<1>5. CASE Disarm
  BY <1>5 DEF Disarm, TypeOK, GateInv, ArmInv, InputInv
<1> QED BY <1>1, <1>2, <1>3, <1>4, <1>5 DEF Finish

THEOREM Invariance == Spec => []IInv
<1>1. IInv /\ [Next]_vars => IInv'
  <2> SUFFICES ASSUME IInv, [Next]_vars PROVE IInv'
    OBVIOUS
  <2>1. CASE Next
    BY <2>1, ArmStep, NotifyStep, StopStep, ContextStep, CoroutineStep DEF Next
  <2>2. CASE UNCHANGED vars
    BY <2>2 DEF IInv, TypeOK, GateInv, ArmInv, InputInv, vars, built, block, armed, world
  <2> QED BY <2>1, <2>2
<1> QED BY <1>1, InvInit, PTL DEF Spec

-----------------------------------------------------------------------------

\* Every variable keeps its type, and only who closed the gate stores a reason.
THEOREM TypeCorrect == Spec => []TypeOK
BY Invariance, PTL DEF IInv

\* await_resume (286-304) finds either a result or a reason.
THEOREM Outcome == Spec => []OneOutcome
<1>1. IInv => OneOutcome
  BY DEF IInv, GateInv, OneOutcome
<1> QED BY <1>1, Invariance, PTL

\* ~QSignalAwaitable (125-130) leaves nothing connected, and await_suspend on
\* the awaiting thread has returned by then (armMutex).
THEOREM Disarmed == Spec => []NothingLeftArmed
<1>1. IInv => NothingLeftArmed
  BY DEF IInv, ArmInv, NothingLeftArmed
<1> QED BY <1>1, Invariance, PTL

\* The stop callback (242-257) posts to a context that is still there, because
\* the resumed coroutine waits for it in disarm() before ~QObject goes on.
THEOREM LiveContext == Spec => []PostsToLiveContext
<1>1. IInv => PostsToLiveContext
  BY DEF IInv, GateInv, ArmInv, PostsToLiveContext
<1> QED BY <1>1, Invariance, PTL

\* An emission, the sender's end or a stop while the coroutine is suspended
\* is on its way to it (await_suspend, 190-284).
THEOREM InputsKept == Spec => []NoLostInput
<1>1. IInv => NoLostInput
  BY DEF IInv, GateInv, InputInv, NoLostInput
<1> QED BY <1>1, Invariance, PTL

-----------------------------------------------------------------------------
(* The refinement: what resumes the coroutine has happened.                *)

\* An event is posted for an input that has come.
Justified(kind) ==
  \/ kind = "signal" /\ emitted > 0
  \/ kind = "SenderDestroyed" /\ ~sender
  \/ kind = "Stopped" /\ stopRequested

\* So is what the hook that passed the gate stored for await_resume.
CauseInv ==
  /\ pc \in {"await_ready", "suspended", "resume"} <=> outcome = "none"
  /\ cancelReason # "none" => cancelReason \in Happened
  /\ result => "value" \in Happened
  /\ \A k \in 1..Len(events) : Justified(events[k])
  /\ timer => "withTimeout" \in builders /\ arming \in {"signal", "unlock", "done"}

\* What has happened stays so.
LEMMA CausesStay ==
  ASSUME IInv, [Next]_vars
  PROVE  /\ Happened \subseteq Happened'
         /\ \A kind : Justified(kind) => Justified(kind)'
<1> USE DEF IInv, TypeOK, GateInv, ArmInv, InputInv, built, block, armed, world
<1>1. /\ builders' = builders /\ emitted \in Nat /\ emitted' \in Nat /\ emitted' >= emitted
      /\ (sender' => sender) /\ (stopRequested => stopRequested')
      /\ ctx # "alive" => ctx' # "alive"
      /\ result /\ arming = "no" => result' /\ arming' = "no"
      /\ ~timer /\ arming \in {"signal", "unlock", "done"} =>
           ~timer' /\ arming' \in {"signal", "unlock", "done"}
  <2> USE AwaitableAssumption
  <2>1. CASE ArmNext
    BY <2>1 DEF ArmNext, ArmContext, ArmSender, ArmStop, ArmTimer, ArmSignal, EndArming, Arm
  <2>2. ASSUME NEW here \in BOOLEAN, Emit(here) \/ SenderDestroyed(here)
        PROVE  <1>1!1 /\ <1>1!2 /\ <1>1!3 /\ <1>1!4 /\ <1>1!5
    BY <2>2 DEF Emit, SenderDestroyed, Notify, Fire
  <2>3. CASE RequestStop \/ PostStop \/ RequestStopHere
    BY <2>3 DEF RequestStop, PostStop, RequestStopHere
  <2>4. CASE ContextDestroyed \/ ContextGone
    BY <2>4 DEF ContextDestroyed, ContextGone, Fire
  <2>5. CASE Deliver \/ TimerFires
    BY <2>5 DEF Deliver, TimerFires, Fire
  <2>6. CASE AwaitReady
    BY <2>6 DEF AwaitReady
  <2>7. CASE FrameDestroyed \/ Finish
    BY <2>7 DEF FrameDestroyed, Finish, AwaitResume, Destruct, Disarm
  <2>8. CASE UNCHANGED vars
    BY <2>8 DEF vars
  <2> QED BY <2>1, <2>2, <2>3, <2>4, <2>5, <2>6, <2>7, <2>8 DEF Next
<1>2. Happened \subseteq Happened'
  BY <1>1 DEF Happened
<1>3. \A kind : Justified(kind) => Justified(kind)'
  BY <1>1 DEF Justified
<1> QED BY <1>2, <1>3

\* A hook whose cause has happened stores that cause, or nothing.
LEMMA FireCause ==
  ASSUME IInv, CauseInv, [Next]_vars, Idle, NEW kind \in Hooks \cup {"Timeout"}, Fire(kind),
         (IF kind = "signal" THEN "value" ELSE kind) \in Happened',
         UNCHANGED outcome
  PROVE  /\ pc' \in {"await_ready", "suspended", "resume"} <=> outcome' = "none"
         /\ cancelReason' # "none" => cancelReason' \in Happened'
         /\ result' => "value" \in Happened'
<1>1. Happened \subseteq Happened'
  BY CausesStay
<1>2. CASE resumed
  BY <1>1, <1>2 DEF Fire, CauseInv, block
<1>3. CASE ~resumed
  <2>1. pc = "suspended" /\ pc' = "resume" /\ cancelReason = "none" /\ ~result
    BY <1>3 DEF Fire, Idle, IInv, GateInv
  <2>2. outcome' = "none"
    BY <2>1 DEF CauseInv
  <2>3. CASE kind = "signal"
    BY <1>3, <2>1, <2>2, <2>3 DEF Fire
  <2>4. CASE kind # "signal"
    BY <1>3, <2>1, <2>2, <2>4 DEF Fire
  <2> QED BY <2>3, <2>4
<1> QED BY <1>2, <1>3

\* A longer queue of justified events, and a shorter one.
LEMMA QueueCause ==
  ASSUME events \in Seq(Hooks), \A k \in 1..Len(events) : Justified(events[k]),
         \A kind : Justified(kind) => Justified(kind)',
         \/ events' = events
         \/ \E kind \in Hooks : Justified(kind)' /\ events' = Append(events, kind)
         \/ events # <<>> /\ events' = Tail(events)
         \/ events' = <<>>
  PROVE  (\A k \in 1..Len(events) : Justified(events[k]))'
<1>0. SUFFICES ASSUME NEW k \in 1..Len(events') PROVE \E kind : events'[k] = kind /\ Justified(kind)'
  OBVIOUS
<1>1. CASE events' = events
  BY <1>1
<1>2. CASE \E kind \in Hooks : Justified(kind)' /\ events' = Append(events, kind)
  <2>1. PICK kind \in Hooks : Justified(kind)' /\ events' = Append(events, kind)
    BY <1>2
  <2>2. k \in 1..Len(events) \/ k = Len(events) + 1
    BY <2>1, AppendProperties
  <2> QED BY <2>1, <2>2, AppendProperties
<1>3. CASE events # <<>> /\ events' = Tail(events)
  <2>1. k + 1 \in 1..Len(events) /\ events'[k] = events[k + 1]
    BY <1>3
  <2> QED BY <2>1
<1>4. CASE events' = <<>>
  BY <1>4
<1> QED BY <1>1, <1>2, <1>3, <1>4

LEMMA CauseInit == Init => CauseInv
BY DEF Init, CauseInv

LEMMA CauseStep == ASSUME IInv, CauseInv, [Next]_vars PROVE CauseInv'
<1>0. /\ Happened \subseteq Happened'
      /\ \A kind : Justified(kind) => Justified(kind)'
      /\ events \in Seq(Hooks)
      /\ \A k \in 1..Len(events) : Justified(events[k])
  BY CausesStay DEF IInv, TypeOK, CauseInv
<1> DEFINE QueueMove ==
             \/ events' = events
             \/ \E kind \in Hooks : Justified(kind)' /\ events' = Append(events, kind)
             \/ events # <<>> /\ events' = Tail(events)
             \/ events' = <<>>
           Stored ==
             /\ pc' \in {"await_ready", "suspended", "resume"} <=> outcome' = "none"
             /\ cancelReason' # "none" => cancelReason' \in Happened'
             /\ result' => "value" \in Happened'
           TimerMove == timer' => "withTimeout" \in builders' /\ arming' \in {"signal", "unlock", "done"}
<1>1. SUFFICES QueueMove /\ Stored /\ TimerMove
  BY <1>0, QueueCause DEF CauseInv
<1>2. UNCHANGED <<block, pc, outcome>> => Stored
  BY <1>0 DEF block, CauseInv
<1>3. UNCHANGED <<built, armed>> => TimerMove
  BY DEF built, armed, CauseInv
<1>4. CASE ArmNext
  <2>1. Stored
    BY <1>2, <1>4 DEF ArmNext, ArmContext, ArmSender, ArmStop, ArmTimer, ArmSignal, EndArming, Arm
  <2>2. QueueMove
    <3>1. CASE ArmStop
      BY <3>1 DEF ArmStop, Arm, world, Justified, Hooks
    <3> QED BY <1>4, <3>1 DEF ArmNext, ArmContext, ArmSender, ArmTimer, ArmSignal, EndArming
  <2>3. TimerMove
    <3>1. CASE ArmTimer
      <4>1. timer' <=> "withTimeout" \in builders
        BY <3>1 DEF ArmTimer
      <4> QED BY <3>1, <4>1 DEF ArmTimer, Arm, built
    <3> QED BY <1>4, <3>1 DEF ArmNext, ArmContext, ArmSender, ArmStop, ArmSignal, EndArming, Arm,
                                CauseInv, built
  <2> QED BY <2>1, <2>2, <2>3
<1>5. ASSUME NEW here \in BOOLEAN, Emit(here) \/ SenderDestroyed(here)
      PROVE  QueueMove /\ Stored /\ TimerMove
  <2>1. PICK kind \in Hooks :
             /\ Notify(kind, here) /\ (here => Idle) /\ Justified(kind)'
             /\ (IF kind = "signal" THEN "value" ELSE kind) \in Happened'
             /\ UNCHANGED <<built, armed, outcome>>
    <3>1. CASE Emit(here)
      <4>1. emitted' > 0
        BY <3>1 DEF Emit, IInv, TypeOK
      <4>2. Justified("signal")' /\ "value" \in Happened' /\ "signal" \in Hooks
        BY <4>1 DEF Justified, Happened, Hooks
      <4> QED BY <3>1, <4>2 DEF Emit
    <3>2. CASE SenderDestroyed(here)
      <4>1. Justified("SenderDestroyed")' /\ "SenderDestroyed" \in Happened' /\ "SenderDestroyed" \in Hooks
        BY <3>2 DEF SenderDestroyed, Justified, Happened, Hooks, Reasons
      <4> QED BY <3>2, <4>1 DEF SenderDestroyed
    <3> QED BY <1>5, <3>1, <3>2
  <2>2. CASE kind \in hooks /\ here
    <3>1. Fire(kind) /\ Idle /\ UNCHANGED events
      BY <2>1, <2>2 DEF Notify
    <3> QED BY <1>3, <2>1, <3>1, FireCause
  <2>3. CASE ~(kind \in hooks /\ here)
    <3>1. /\ UNCHANGED <<block, pc>>
          /\ events' = events \/ events' = Append(events, kind)
      BY <2>1, <2>3 DEF Notify
    <3> QED BY <1>2, <1>3, <2>1, <3>1
  <2> QED BY <2>2, <2>3
<1>6. CASE RequestStop \/ PostStop \/ RequestStopHere
  <2>1. Stored /\ TimerMove
    BY <1>2, <1>3, <1>6 DEF RequestStop, PostStop, RequestStopHere
  <2>2. QueueMove
    <3>1. CASE RequestStop
      BY <3>1 DEF RequestStop
    <3>2. CASE PostStop
      BY <3>2 DEF PostStop, IInv, InputInv, Justified, Hooks, world
    <3>3. CASE RequestStopHere
      BY <3>3 DEF RequestStopHere, Justified, Hooks
    <3> QED BY <1>6, <3>1, <3>2, <3>3
  <2> QED BY <2>1, <2>2
<1>7. CASE ContextDestroyed
  <2>1. QueueMove /\ TimerMove
    BY <1>3, <1>7 DEF ContextDestroyed
  <2>2. CASE "ResumeContextDestroyed" \in hooks
    <3>1. /\ Fire("ResumeContextDestroyed") /\ Idle /\ UNCHANGED outcome
          /\ "ResumeContextDestroyed" \in Happened' /\ "ResumeContextDestroyed" \in Hooks
      BY <1>7, <2>2 DEF ContextDestroyed, Happened, Reasons, Hooks
    <3>2. Stored
      BY <3>1, FireCause
    <3> QED BY <2>1, <3>2
  <2>3. CASE "ResumeContextDestroyed" \notin hooks
    BY <1>2, <1>7, <2>1, <2>3 DEF ContextDestroyed
  <2> QED BY <2>2, <2>3
<1>8. CASE ContextGone
  BY <1>2, <1>8 DEF ContextGone
<1>9. CASE Deliver
  <2>1. /\ Head(events) \in Hooks /\ Justified(Head(events))
        /\ Fire(Head(events)) /\ Idle /\ UNCHANGED <<built, armed, world, outcome>>
    <3>1. 1 \in 1..Len(events) /\ Head(events) = events[1]
      BY <1>0, <1>9 DEF Deliver
    <3> QED BY <1>0, <1>9, <3>1 DEF Deliver
  <2>2. (IF Head(events) = "signal" THEN "value" ELSE Head(events)) \in Happened'
    BY <2>1 DEF Justified, Happened, Reasons, world
  <2>3. Stored
    BY <2>1, <2>2, FireCause
  <2> QED BY <1>3, <1>9, <2>1, <2>3 DEF Deliver
<1>10. CASE TimerFires
  <2>1. "Timeout" \in Happened'
    BY <1>10 DEF TimerFires, CauseInv, Happened, Reasons, built
  <2>2. Fire("Timeout") /\ Idle /\ UNCHANGED <<events, outcome>> /\ ~timer'
    BY <1>10 DEF TimerFires
  <2>3. Stored
    BY <2>1, <2>2, FireCause
  <2> QED BY <2>2, <2>3
<1>11. CASE AwaitReady
  <2>1. pc = "await_ready" /\ outcome' = "none" /\ pc' \in {"resume", "suspended"}
    BY <1>11 DEF AwaitReady, CauseInv
  <2>2. ~timer /\ timer' = timer /\ events' = events
    BY <1>11 DEF AwaitReady, CauseInv, IInv, ArmInv
  <2>3. cancelReason' # "none" => cancelReason' \in Happened'
    BY <1>0, <1>11 DEF AwaitReady, CauseInv, Happened, Reasons, world
  <2>4. result' => "value" \in Happened'
    BY <1>0, <1>11, <2>1 DEF AwaitReady, CauseInv, Happened, IInv, ArmInv, GateInv
  <2> QED BY <2>1, <2>2, <2>3, <2>4
<1>12. CASE FrameDestroyed
  BY <1>0, <1>3, <1>12 DEF FrameDestroyed, CauseInv, block
<1>13. CASE AwaitResume
  <2>1. outcome' # "none"
    BY <1>13 DEF AwaitResume
  <2> QED BY <1>0, <1>3, <1>13, <2>1 DEF AwaitResume, CauseInv, block
<1>14. CASE Destruct
  BY <1>0, <1>3, <1>14 DEF Destruct, CauseInv
<1>15. CASE Disarm
  BY <1>0, <1>15 DEF Disarm, CauseInv, block, built
<1>16. CASE UNCHANGED vars
  BY <1>2, <1>3, <1>16 DEF vars
<1> QED BY <1>4, <1>5, <1>6, <1>7, <1>8, <1>9, <1>10, <1>11, <1>12, <1>13, <1>14, <1>15, <1>16
        DEF Next, Finish

\* The co_await answers once, with something that has happened (a value, a
\* stop, the end of sender or context, the timeout), and what was still posted
\* or armed for it then never resumes the coroutine again (190-284, 125-130).
THEOREM OneAnswer == Spec => KeepsPromise
<1> DEFINE ans == IF outcome \in {"none", "dropped"} THEN {} ELSE {outcome}
<1>1. Init => Promise!Init
  BY DEF Init, Promise!Init, Happened
<1>2. ASSUME IInv, IInv', CauseInv, CauseInv', [Next]_vars
      PROVE  [Promise!Next]_Promise!vars
  <2>1. Happened \subseteq Happened' /\ Happened' \subseteq Reasons \cup {"value"}
    BY <1>2, CausesStay DEF Happened
  <2>2. CASE UNCHANGED outcome
    <3>1. pc \in {"suspended", "resume"} => outcome = "none"
      BY <1>2 DEF CauseInv
    <3>2. pc' \in {"suspended", "resume"} => outcome' = "none"
      BY <1>2 DEF CauseInv
    <3> QED BY <2>1, <2>2, <3>1, <3>2 DEF Promise!Next, Promise!Happen
  <2>3. CASE AwaitResume
    <3>1. pc' = "destruct" /\ outcome = "none" /\ Happened' = Happened
      BY <1>2, <2>3 DEF AwaitResume, CauseInv, Happened, built, block, armed, world
    <3>2. outcome' \in Happened /\ outcome' \in Reasons \cup {"value"}
      BY <1>2, <2>3 DEF AwaitResume, CauseInv, IInv, GateInv, TypeOK, Happened
    <3>3. outcome' # "none" /\ outcome' # "dropped"
      BY <3>2 DEF Reasons
    <3> QED BY <3>1, <3>2, <3>3 DEF Promise!Next, Promise!Answer
  <2>4. CASE FrameDestroyed
    <3>1. pc' = "destruct" /\ outcome = "none" /\ outcome' = "dropped" /\ Happened' = Happened
      BY <1>2, <2>4 DEF FrameDestroyed, CauseInv, Happened, built, block, armed, world
    <3> QED BY <3>1 DEF Promise!Next, Promise!Drop
  <2>5. UNCHANGED outcome \/ AwaitResume \/ FrameDestroyed
    BY <1>2 DEF Next, ArmNext, ArmContext, ArmSender, ArmStop, ArmTimer, ArmSignal, EndArming, Arm,
                Emit, SenderDestroyed, RequestStop, PostStop, RequestStopHere, ContextDestroyed,
                ContextGone, Deliver, TimerFires, AwaitReady, Finish, Destruct, Disarm, vars
  <2> QED BY <2>2, <2>3, <2>4, <2>5
<1>3. Spec => []CauseInv
  <2>1. IInv /\ CauseInv /\ [Next]_vars => CauseInv'
    BY CauseStep
  <2> QED BY <2>1, CauseInit, Invariance, PTL DEF Spec
<1> QED BY <1>1, <1>2, <1>3, Invariance, PTL DEF Spec, KeepsPromise, Promise!Spec

=============================================================================
