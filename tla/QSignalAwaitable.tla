-------------------------- MODULE QSignalAwaitable --------------------------
(***************************************************************************)
(* One co_await of a QSignalAwaitable (include/QtCoroutine/qtcoroutine.hpp)*)
(* with its control block: the hooks await_suspend arms one after another, *)
(* the events they post to the resume context, and the awaitable's end.    *)
(*                                                                         *)
(* Hooks resume the coroutine on the context's thread only.  Without       *)
(* resumeOn() to another thread (~migrates) that is the awaiting thread,   *)
(* busy while it arms; with it, the context's thread is free to resume the *)
(* coroutine, and to destroy the awaitable, in the middle of               *)
(* await_suspend.  Other threads emit, destroy the sender and stop.        *)
(***************************************************************************)
EXTENDS Naturals, Sequences

CONSTANT MaxEmits    \* bound: emissions while the signal is connected

ASSUME AwaitableAssumption == MaxEmits \in Nat

VARIABLES
  builders,      \* the builders it was made with
  migrates,      \* does the resumeOn() context live on another thread?
  resumed,       \* the exactly-one-resume gate
  result,        \* is a result stored?
  cancelReason,
  hooks,         \* connections made, and "stop" for the registered callback
  timer,         \* is the single-shot timer running?
  arming,        \* how far await_suspend has come; it holds armMutex
  pc,            \* where the coroutine is
  events,        \* what is posted to the context and not delivered
  posting,       \* is the stop callback past its early check?
  ctx,           \* the resume context
  sender,        \* is the sender alive?
  stopRequested,
  emitted,       \* history: emissions the connection saw
  outcome        \* history: what the co_await came to

built == <<builders, migrates>>
block == <<resumed, result, cancelReason>>
armed == <<hooks, timer, arming>>
world == <<ctx, sender, stopRequested, emitted>>
vars == <<built, block, armed, pc, events, posting, world, outcome>>

-----------------------------------------------------------------------------

Reasons == {"Stopped", "SenderDestroyed", "ResumeContextDestroyed", "Timeout"}
Hooks == {"ResumeContextDestroyed", "SenderDestroyed", "Stopped", "signal"}

Builders == {"resumeOn", "cancelledBy", "withTimeout", "readyIf"}

TypeOK ==
  /\ builders \subseteq Builders
  /\ migrates \in BOOLEAN /\ (migrates => "resumeOn" \in builders)
  /\ resumed \in BOOLEAN /\ result \in BOOLEAN /\ timer \in BOOLEAN
  /\ posting \in BOOLEAN /\ sender \in BOOLEAN /\ stopRequested \in BOOLEAN
  /\ cancelReason \in Reasons \cup {"none"}
  /\ hooks \subseteq Hooks
  /\ arming \in {"no", "context", "sender", "stop", "timer", "signal", "unlock", "done"}
  /\ pc \in {"await_ready", "suspended", "resume", "destruct", "disarm", "over"}
  /\ events \in Seq(Hooks)
  /\ ctx \in {"alive", "dying", "gone"}
  /\ emitted \in 0..MaxEmits
  /\ outcome \in Reasons \cup {"none", "value", "dropped"}
  \* Once await_suspend has begun, only who closed the gate stores a reason.
  /\ arming # "no" /\ cancelReason # "none" => resumed

Init ==
  /\ builders \in SUBSET Builders
  /\ migrates \in BOOLEAN /\ (migrates => "resumeOn" \in builders)
  /\ resumed = FALSE /\ result = FALSE /\ cancelReason = "none"
  /\ hooks = {} /\ timer = FALSE /\ arming = "no"
  /\ pc = "await_ready"
  /\ events = <<>> /\ posting = FALSE
  /\ ctx = "alive" /\ sender = TRUE /\ stopRequested = FALSE
  /\ emitted = 0 /\ outcome = "none"

\* The context's thread is in its event loop.
Idle ==
  /\ pc \in {"suspended", "over"}
  /\ migrates \/ arming \in {"no", "done"}
  /\ ctx # "dying"

-----------------------------------------------------------------------------
(* The awaiting thread: await_ready and await_suspend.                     *)

\* A stop that was requested before, then the ready check, make suspending
\* unnecessary; the former must say so here.
AwaitReady ==
  /\ pc = "await_ready"
  /\ \/ /\ "cancelledBy" \in builders /\ stopRequested
        /\ cancelReason' = "Stopped"
        /\ pc' = "resume" /\ UNCHANGED <<result, arming>>
     \/ /\ ~("cancelledBy" \in builders /\ stopRequested) /\ "readyIf" \in builders
        /\ result' = TRUE
        /\ pc' = "resume" /\ UNCHANGED <<cancelReason, arming>>
     \/ /\ ~("cancelledBy" \in builders /\ stopRequested)
        /\ pc' = "suspended" /\ arming' = "context"
        /\ UNCHANGED <<result, cancelReason>>
  /\ UNCHANGED <<built, resumed, hooks, timer, events, posting, world, outcome>>

\* The hook that a builder asks for.
HookOf(builder, hook) == IF builder \in builders THEN {hook} ELSE {}

Arm(step, hook, next) ==
  /\ arming = step
  /\ hooks' = hooks \cup hook
  /\ arming' = next
  /\ UNCHANGED <<built, block, pc, posting, world, outcome>>

ArmContext ==
  /\ Arm("context", HookOf("resumeOn", "ResumeContextDestroyed"), "sender")
  /\ UNCHANGED <<timer, events>>

ArmSender ==
  /\ Arm("sender", {"SenderDestroyed"}, "stop")
  /\ UNCHANGED <<timer, events>>

\* Mutant of ArmStop: a stop since await_ready goes unnoticed.
ArmStopForLater ==
  /\ Arm("stop", HookOf("cancelledBy", "Stopped"), "timer")
  /\ UNCHANGED <<timer, events>>

\* The constructor of a stop_callback runs it if the stop was requested in
\* the meantime.
ArmStop ==
  /\ Arm("stop", HookOf("cancelledBy", "Stopped"), "timer")
  /\ events' = IF "cancelledBy" \in builders /\ stopRequested /\ ~resumed
               THEN Append(events, "Stopped") ELSE events
  /\ UNCHANGED timer

ArmTimer ==
  /\ Arm("timer", {}, "signal")
  /\ timer' = ("withTimeout" \in builders)
  /\ UNCHANGED events

ArmSignal ==
  /\ Arm("signal", {"signal"}, "unlock")
  /\ UNCHANGED <<timer, events>>

\* await_suspend returns and releases armMutex.
EndArming ==
  /\ Arm("unlock", {}, "done")
  /\ UNCHANGED <<timer, events>>

-----------------------------------------------------------------------------
(* The hooks.                                                              *)

\* What every hook does on the context's thread: the first one through the
\* gate stores its reason and resumes the coroutine, the others return.
Fire(kind) ==
  IF resumed
    THEN UNCHANGED <<block, pc>>
    ELSE /\ resumed' = TRUE
         /\ pc' = "resume"
         /\ IF kind = "signal"
              THEN result' = TRUE /\ UNCHANGED cancelReason
              ELSE cancelReason' = kind /\ UNCHANGED result

\* A connection with a context: direct on the context's thread, else posted.
Notify(kind, here) ==
  \/ /\ kind \in hooks /\ here
     /\ Fire(kind)
     /\ UNCHANGED events
  \/ /\ kind \in hooks /\ ~here
     /\ events' = Append(events, kind)
     /\ UNCHANGED <<block, pc>>
  \/ /\ kind \notin hooks
     /\ UNCHANGED <<block, pc, events>>

Emit(here) ==
  /\ here => Idle
  /\ sender /\ "signal" \in hooks
  /\ emitted < MaxEmits
  /\ emitted' = emitted + 1
  /\ Notify("signal", here)
  /\ UNCHANGED <<built, armed, posting, ctx, sender, stopRequested, outcome>>

\* Sender and context have to outlive the calls await_suspend makes on them.
ObjectsFree == arming = "done" \/ pc = "over"

SenderDestroyed(here) ==
  /\ here => Idle
  /\ ObjectsFree
  /\ sender /\ sender' = FALSE
  /\ Notify("SenderDestroyed", here)
  /\ UNCHANGED <<built, armed, posting, ctx, stopRequested, emitted, outcome>>

\* Mutant of RequestStop: the callback stores the reason right away.
RequestStopEagerly ==
  /\ "cancelledBy" \in builders
  /\ ~stopRequested /\ stopRequested' = TRUE
  /\ posting' = ("Stopped" \in hooks /\ ~resumed)
  /\ cancelReason' = IF posting' THEN "Stopped" ELSE cancelReason
  /\ UNCHANGED <<built, resumed, result, armed, pc, events, ctx, sender, emitted,
                 outcome>>

\* request_stop() on another thread: the stop callback's early check, ...
RequestStop ==
  /\ "cancelledBy" \in builders
  /\ ~stopRequested /\ stopRequested' = TRUE
  /\ posting' = ("Stopped" \in hooks /\ ~resumed)
  /\ UNCHANGED <<built, block, armed, pc, events, ctx, sender, emitted, outcome>>

\* ... and its post to the context.
PostStop ==
  /\ posting
  /\ posting' = FALSE
  /\ events' = Append(events, "Stopped")
  /\ UNCHANGED <<built, block, armed, pc, world, outcome>>

\* request_stop() on the context's thread: both in one.
RequestStopHere ==
  /\ "cancelledBy" \in builders /\ Idle
  /\ ~stopRequested /\ stopRequested' = TRUE
  /\ events' = IF "Stopped" \in hooks /\ ~resumed
               THEN Append(events, "Stopped") ELSE events
  /\ UNCHANGED <<built, block, armed, pc, posting, ctx, sender, emitted, outcome>>

\* ~QObject of the resumeOn() context begins with destroyed(), whose slot
\* resumes the coroutine before the destructor goes on.
ContextDestroyed ==
  /\ "resumeOn" \in builders /\ Idle /\ ObjectsFree
  /\ ctx = "alive" /\ ctx' = "dying"
  /\ IF "ResumeContextDestroyed" \in hooks
       THEN Fire("ResumeContextDestroyed")
       ELSE UNCHANGED <<block, pc>>
  /\ UNCHANGED <<built, armed, events, posting, sender, stopRequested, emitted,
                 outcome>>

\* The rest of it: the posted events, the timer and the connections with that
\* receiver go.
ContextGone ==
  /\ ctx = "dying" /\ ctx' = "gone"
  /\ pc \in {"suspended", "over"}
  /\ events' = <<>> /\ timer' = FALSE
  /\ hooks' = hooks \cap {"Stopped"}
  /\ UNCHANGED <<built, block, arming, pc, posting, sender, stopRequested, emitted,
                 outcome>>

-----------------------------------------------------------------------------
(* The context's event loop.                                               *)

Deliver ==
  /\ Idle /\ events # <<>>
  /\ events' = Tail(events)
  /\ Fire(Head(events))
  /\ UNCHANGED <<built, armed, posting, world, outcome>>

TimerFires ==
  /\ Idle /\ timer
  /\ timer' = FALSE
  /\ Fire("Timeout")
  /\ UNCHANGED <<built, hooks, arming, events, posting, world, outcome>>

-----------------------------------------------------------------------------
(* The coroutine, and the end of the awaitable.                            *)

\* await_resume; the awaitable goes with the full expression, before the
\* coroutine suspends again.
AwaitResume ==
  /\ pc = "resume"
  /\ outcome' = IF cancelReason # "none" THEN cancelReason ELSE "value"
  /\ pc' = "destruct"
  /\ UNCHANGED <<built, block, armed, events, posting, world>>

\* The suspended frame is destroyed, on the thread that would resume it: from
\* any other a hook that has passed the gate would resume a frame on its way out.
\* Whoever does it knows that the coroutine is suspended.
FrameDestroyed ==
  /\ pc = "suspended" /\ arming = "done" /\ Idle
  /\ outcome' = "dropped"
  /\ pc' = "destruct"
  /\ UNCHANGED <<built, block, armed, events, posting, world>>

\* Mutant of Destruct: an event in the queue is not made stale.
DestructUngated ==
  /\ pc = "destruct"
  /\ pc' = "disarm"
  /\ UNCHANGED <<built, block, armed, events, posting, world, outcome>>

\* ~QSignalAwaitable closes the gate ...
Destruct ==
  /\ pc = "destruct"
  /\ resumed' = TRUE
  /\ pc' = "disarm"
  /\ UNCHANGED <<built, result, cancelReason, armed, events, posting, world, outcome>>

\* Mutant of Disarm: no armMutex.
DisarmUnlocked ==
  /\ pc = "disarm"
  /\ ~posting
  /\ hooks' = {}
  /\ pc' = "over"
  /\ UNCHANGED <<built, block, timer, arming, events, posting, world, outcome>>

\* Mutant of Disarm: a stop callback that is running is not waited for.
DisarmUnwaited ==
  /\ pc = "disarm"
  /\ arming \in {"no", "done"}
  /\ hooks' = {}
  /\ pc' = "over"
  /\ UNCHANGED <<built, block, timer, arming, events, posting, world, outcome>>

\* ... and disarms: it waits for armMutex, and ~stop_callback waits for the
\* callback if that is running.
Disarm ==
  /\ pc = "disarm"
  /\ arming \in {"no", "done"}
  /\ ~posting
  /\ hooks' = {}
  /\ pc' = "over"
  /\ UNCHANGED <<built, block, timer, arming, events, posting, world, outcome>>

-----------------------------------------------------------------------------

ArmNext ==
  ArmContext \/ ArmSender \/ ArmStop \/ ArmTimer \/ ArmSignal \/ EndArming

Finish == AwaitResume \/ Destruct \/ Disarm

Next ==
  \/ AwaitReady \/ ArmNext
  \/ \E here \in BOOLEAN : Emit(here) \/ SenderDestroyed(here)
  \/ RequestStop \/ PostStop \/ RequestStopHere
  \/ ContextDestroyed \/ ContextGone
  \/ Deliver \/ TimerFires
  \/ FrameDestroyed \/ Finish

Spec == Init /\ [][Next]_vars

\* await_suspend and a running stop callback go on, the context's thread runs
\* its event loop (asserted), and a resumed coroutine runs on to the end of
\* the co_await.  No input is obliged to come.
Fairness ==
  /\ WF_vars(ArmNext) /\ WF_vars(PostStop)
  /\ WF_vars(Deliver) /\ WF_vars(TimerFires) /\ WF_vars(Finish)

FairSpec == Spec /\ Fairness

-----------------------------------------------------------------------------
(* Safety.                                                                 *)

\* await_resume has one thing to report: a result or a reason, never both,
\* never neither.
OneOutcome == pc = "resume" => (result <=> cancelReason = "none")

\* Once the awaitable is gone nothing of it is connected or registered, and
\* await_suspend, which reads its members, has returned.
NothingLeftArmed == pc = "over" => hooks = {} /\ arming \in {"no", "done"}

\* The stop callback's early check suffices: between it and the post the
\* context cannot be freed.
PostsToLiveContext == posting => ctx # "gone"

\* No input is lost: while the coroutine is suspended, one that came after
\* its hook was armed is in the context's event queue, or on its way there.
NoLostInput ==
  pc = "suspended" =>
    /\ ~resumed /\ ctx = "alive"
    /\ \/ emitted > 0 \/ ~sender
       \/ stopRequested /\ arming \in {"timer", "signal", "unlock", "done"}
       => events # <<>> \/ posting

-----------------------------------------------------------------------------
(* Refinement.                                                             *)

\* What the co_await may come to on account of what has happened: a value
\* after an emission or if it was ready, a timeout once the timer has fired
\* (or was destroyed with a context that nobody waits on).
Happened ==
  {why \in Reasons \cup {"value"} :
     \/ why = "value" /\ (emitted > 0 \/ (result /\ arming = "no"))
     \/ why = "SenderDestroyed" /\ ~sender
     \/ why = "Stopped" /\ stopRequested
     \/ why = "ResumeContextDestroyed" /\ ctx # "alive"
     \/ why = "Timeout" /\ "withTimeout" \in builders /\ ~timer
                         /\ arming \in {"signal", "unlock", "done"}}

\* The co_await answers once, with something that has happened, and nothing
\* that was posted or armed for it resumes it again, nor a destroyed frame.
Promise ==
  INSTANCE OneShot WITH
    Events <- Reasons \cup {"value"}, Grounds <- {{why} : why \in Reasons \cup {"value"}},
    happened <- Happened,
    answer <- IF outcome \in {"none", "dropped"} THEN {} ELSE {outcome},
    wait <- CASE outcome = "none" -> "waiting"
              [] outcome # "none" /\ pc \in {"suspended", "resume"} -> "stray"
              [] outcome = "dropped" /\ pc \notin {"suspended", "resume"} -> "dropped"
              [] outcome \notin {"none", "dropped"} /\ pc \notin {"suspended", "resume"} -> "answered"

KeepsPromise == Promise!Spec

-----------------------------------------------------------------------------
(* Liveness.                                                               *)

\* A co_await ends once there was an emission, the sender's end or a stop, and
\* with a timeout anyway.
WaitEnds ==
  pc = "suspended" /\ (\/ emitted > 0 \/ ~sender \/ stopRequested
                        \/ "withTimeout" \in builders) ~> pc = "over"

=============================================================================
