------------------------------ MODULE WaitFor ------------------------------
(***************************************************************************)
(* waitFor (include/QtCoroutine/qtask.hpp): block until a task settles, in *)
(* a nested event loop.  The call drives a QTask of its own, the bridge,   *)
(* whose body is one co_await of the task waited for; this module composes *)
(* the module QTask, as that bridge, with the call.  The call runs on      *)
(* Owner; Completer is where the task waited for may settle, and the       *)
(* bridge with it.  Each call of the bridge's sink posts a quit event.     *)
(***************************************************************************)
EXTENDS QTask

CONSTANT quit    \* the sink waitFor registers on the bridge

ASSUME WaitForAssumption == quit \in Callbacks

VARIABLES
  call,          \* where the call of waitFor is
  quitting       \* is a quit event posted to the nested loop?

waitVars == <<vars, call, quitting>>

\* The calls of waitFor, in the order it makes them.
CallTypeOK ==
  /\ call \in {"bridge", "await_ready", "register", "exec", "await_resume",
               "dispose", "returned"}
  /\ quitting \in BOOLEAN
  \* A quit event has a loop to receive it.
  /\ quitting => call \in {"register", "exec"}

WaitInit ==
  /\ Init
  /\ call = "bridge"
  /\ quitting = FALSE

-----------------------------------------------------------------------------

\* Mutant of Quit: quit() is called directly, which a loop that has not begun
\* does not remember.
QuitDirect == quitting' = (call = "exec")

\* The quit lambda, on whatever thread the sink is called: a queued call.
Quit == quitting' = TRUE

\* What a step of the bridge does to the call.
Posts == IF fired'[quit] > fired[quit] THEN Quit ELSE UNCHANGED quitting

\* waitForBridge: one co_await of the task, which suspends unless the task has
\* settled; the task resumes it from the nested loop or from Completer.
BridgeBody ==
  /\ \/ Suspend /\ call = "bridge" /\ runner = Owner
     \/ Resume /\ (runner' = Owner => call = "exec")
     \/ \E outcome \in Outcomes : Complete(outcome)
  /\ UNCHANGED <<call, quitting>>

BridgeDispatch ==
  /\ Dispatch
  /\ Posts
  /\ UNCHANGED call

\* The bridge's eager start returns, and its await_ready is asked.
AwaitBridge ==
  /\ OwnerFree
  /\ \/ call = "bridge" /\ call' = "await_ready"
     \/ call = "await_ready" /\ call' = IF settled THEN "await_resume" ELSE "register"
  /\ UNCHANGED <<vars, quitting>>

\* then, onCancelled, onError: three critical sections of the bridge's mutex.
RegisterQuit ==
  /\ call = "register"
  /\ ToFuture(quit)
  /\ Posts
  /\ call' = IF op' = "idle" THEN "exec" ELSE "register"

\* Mutant of Exec: the loop only processes what is pending.
ExecProcessEvents ==
  /\ call = "exec" /\ OwnerFree /\ coro # "callback"
  /\ call' = "await_resume"
  /\ quitting' = FALSE
  /\ UNCHANGED vars

\* loop.exec() returns when it gets to the quit event.
Exec ==
  /\ call = "exec" /\ quitting
  /\ runner = Owner => coro = "parked"
  /\ call' = "await_resume"
  /\ quitting' = FALSE
  /\ UNCHANGED vars

\* The bridge's await_resume: the result, or the exception, is taken.
TakeResult ==
  /\ call = "await_resume"
  /\ call' = "dispose"
  /\ UNCHANGED <<vars, quitting>>

\* The bridge goes out of scope.
DisposeBridge ==
  /\ call = "dispose"
  /\ DisposeBegin \/ DisposeDone \/ HandOver \/ DestroyFrame
  /\ call' = IF handle' THEN "dispose" ELSE "returned"
  /\ UNCHANGED quitting

-----------------------------------------------------------------------------

Call == AwaitBridge \/ RegisterQuit \/ Exec \/ TakeResult \/ DisposeBridge

WaitNext == BridgeBody \/ BridgeDispatch \/ Call

WaitSpec == WaitInit /\ [][WaitNext]_waitVars

\* The bridge, once resumed, completes and dispatches; the call goes on, and
\* its loop delivers what was posted.  That the task waited for settles is not
\* assumed.
WaitFairness ==
  /\ WF_waitVars(BridgeDispatch) /\ WF_waitVars(Call)
  /\ WF_waitVars(coro = "running" /\ BridgeBody)

FairWaitSpec == WaitSpec /\ WaitFairness

-----------------------------------------------------------------------------

\* await_resume finds an outcome (not std::unreachable()), and the bridge has
\* run to its end, wherever and whenever the task settled.
ResultThere ==
  call \in {"await_resume", "dispose"} =>
    state # "empty" /\ coro \notin {"running", "suspended"}

\* The sink captures the nested loop by reference: it is never called once
\* exec() has returned, when the loop is gone.
LoopOutlivesSink ==
  [][fired' # fired => call \in {"register", "exec"}]_waitVars

\* waitFor returns once the task waited for has settled: the quit event is not
\* lost between the registration and exec().
CallReturns ==
  state # "empty" ~> call = "returned"

=============================================================================
