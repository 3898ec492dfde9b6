------------------------------- MODULE QTask -------------------------------
(***************************************************************************)
(* One coroutine frame of QTask<T> (include/QtCoroutine/qtask.hpp): its    *)
(* promise, the completion dispatch that final_suspend runs, the QTask     *)
(* handle that owns the frame, and at most one awaiting coroutine.         *)
(*                                                                         *)
(* Every section the code runs under promise().mutex is one step; every    *)
(* read of the shared `settled` flag outside that mutex is a step of its   *)
(* own.  The owner's operations run on Owner.  The coroutine starts on     *)
(* Owner (eager start); every resumption of it runs there or on Completer, *)
(* another thread resumeOn() may take it to.  While it runs on Owner, the  *)
(* owner can only act from inside one of the task's callbacks.             *)
(***************************************************************************)
EXTENDS Naturals

CONSTANTS
  Callbacks,     \* completion sinks; each is registered at most once per kind
  NoCallback,    \* an empty std::function
  Owner,         \* the thread that created the task
  Completer,     \* the thread resumeOn() takes the coroutine to, or Owner
  LiveDisposal   \* may Owner drop the handle on the strength of a callback's
                 \* notification, before it has seen `settled`, while the
                 \* dispatch runs on another thread?

ASSUME QTaskAssumption ==
  /\ NoCallback \notin Callbacks
  /\ LiveDisposal \in BOOLEAN

VARIABLES
  slot,          \* thenCallback, cancelledCallback, errorCallback
  state,         \* TaskState
  settled,       \* the heap-shared atomic flag
  detached,
  continuation,  \* is an awaiting coroutine's handle stored?
  frame,         \* is the coroutine frame, and the promise in it, alive?
  coro,          \* where the coroutine, then its completion dispatch, is
  runner,        \* the thread the coroutine runs on
  taken,         \* the dispatch's local copies of the callbacks
  handle,        \* is QTask::m_handle non-null?
  op,            \* where the owner's operation in progress is
  sink,          \* the sink toFuture() is registering
  awaiter,       \* the coroutine that co_awaits the task
  kinds,         \* history: the kinds each sink was registered for
  replaced,      \* history: registrations a later one of their kind overwrote
  fired          \* history: how often each sink was called

promise == <<slot, state, settled, detached, continuation, frame>>
dispatch == <<coro, runner, taken>>
owner == <<handle, op, sink>>
history == <<kinds, replaced, fired>>
vars == <<promise, dispatch, owner, awaiter, history>>

-----------------------------------------------------------------------------

\* The three ways to complete, and the kind of callback each one calls.
Outcomes == {"value", "cancelled", "error"}
NoCallbacks == [k \in Outcomes |-> NoCallback]

TypeOK ==
  /\ slot \in [Outcomes -> Callbacks \cup {NoCallback}]
  /\ taken \in [Outcomes -> Callbacks \cup {NoCallback}]
  /\ state \in Outcomes \cup {"empty"}
  /\ settled \in BOOLEAN
  /\ detached \in BOOLEAN
  /\ continuation \in BOOLEAN
  /\ handle \in BOOLEAN
  /\ frame \in {"live", "destroyed"}
  /\ coro \in {"running", "suspended", "dispatch", "invoke", "callback",
               "destroy", "transfer", "parked", "gone"}
  /\ runner \in {Owner, Completer}
  /\ op \in {"idle", "onCancelled", "onError", "await_suspend",
             "detach_settled", "detach_live",
             "dispose_settled", "dispose_live", "dispose_defer",
             "dispose_frame"}
  /\ sink \in Callbacks \cup {NoCallback}
  /\ awaiter \in {"none", "parked", "resumed", "done"}
  /\ kinds \in [Callbacks -> SUBSET Outcomes]
  /\ replaced \subseteq Outcomes \X Callbacks
  /\ fired \in [Callbacks -> Nat]
  \* A coroutine past its body has recorded its outcome.
  /\ coro \notin {"running", "suspended", "gone"} => state \in Outcomes

-----------------------------------------------------------------------------
(* The coroutine body, as far as the task sees it.                         *)

\* get_return_object and initial_suspend: the body runs at once, on the
\* creating thread, before the caller holds the handle.
Init ==
  /\ slot = NoCallbacks
  /\ state = "empty"
  /\ settled = FALSE
  /\ detached = FALSE
  /\ continuation = FALSE
  /\ frame = "live"
  /\ coro = "running"
  /\ runner = Owner
  /\ taken = NoCallbacks
  /\ handle = TRUE
  /\ op = "idle"
  /\ sink = NoCallback
  /\ awaiter = "none"
  /\ kinds = [c \in Callbacks |-> {}]
  /\ replaced = {}
  /\ fired = [c \in Callbacks |-> 0]

\* The body reaches a co_await of its own and suspends.
Suspend ==
  /\ coro = "running"
  /\ coro' = "suspended"
  /\ UNCHANGED <<promise, runner, taken, owner, awaiter, history>>

\* An awaitable the body waits for resumes it, from an event loop or a slot:
\* on the thread it suspended on, or where resumeOn() takes it.  On Owner that
\* cannot happen in the middle of an operation.
Resume ==
  /\ coro = "suspended"
  /\ coro' = "running"
  /\ runner' \in {Owner, Completer}
  /\ runner' = Owner => op = "idle"
  /\ UNCHANGED <<promise, taken, owner, awaiter, history>>

\* return_value, return_void and unhandled_exception only record the outcome;
\* the coroutine is then suspended at final_suspend and the dispatch starts.
Complete(outcome) ==
  /\ coro = "running"
  /\ state' = outcome
  /\ coro' = "dispatch"
  /\ UNCHANGED <<slot, settled, detached, continuation, frame, runner, taken,
                 owner, awaiter, history>>

-----------------------------------------------------------------------------
(* dispatchCompletion: the loop that FinalAwaiter::await_suspend runs.     *)

\* Mutant of TakeCallbacks: the slots are copied, not moved from.
CopyCallbacks ==
  /\ coro = "dispatch"
  /\ slot # NoCallbacks
  /\ taken' = slot
  /\ coro' = "invoke"
  /\ UNCHANGED <<promise, runner, owner, awaiter, history>>

\* Under the mutex: callbacks are registered, so move all three out.
TakeCallbacks ==
  /\ coro = "dispatch"
  /\ slot # NoCallbacks
  /\ taken' = slot
  /\ slot' = NoCallbacks
  /\ coro' = "invoke"
  /\ UNCHANGED <<state, settled, detached, continuation, frame, runner, owner,
                 awaiter, history>>

\* Mutant of Settle: one round of callbacks, without looking for more.
SettleAfterOneRound ==
  /\ coro = "dispatch"
  /\ settled' = TRUE
  /\ coro' = IF detached /\ ~continuation THEN "destroy"
             ELSE IF continuation THEN "transfer" ELSE "parked"
  /\ UNCHANGED <<slot, state, detached, continuation, frame, runner, taken,
                 owner, awaiter, history>>

\* Mutant of Settle: the request to self-destruct is not looked at.
SettleForOwner ==
  /\ coro = "dispatch"
  /\ slot = NoCallbacks
  /\ settled' = TRUE
  /\ coro' = IF continuation THEN "transfer" ELSE "parked"
  /\ UNCHANGED <<slot, state, detached, continuation, frame, runner, taken,
                 owner, awaiter, history>>

\* Under the mutex: nothing is registered, so publish `settled` and, in the
\* same critical section, decide the frame's destiny.
Settle ==
  /\ coro = "dispatch"
  /\ slot = NoCallbacks
  /\ settled' = TRUE
  /\ coro' = IF detached /\ ~continuation THEN "destroy"
             ELSE IF continuation THEN "transfer" ELSE "parked"
  /\ UNCHANGED <<slot, state, detached, continuation, frame, runner, taken,
                 owner, awaiter, history>>

\* invokeCallbacks, outside the mutex: call the one that fits the outcome,
\* drop the others.
InvokeCallback ==
  /\ coro = "invoke"
  /\ taken' = NoCallbacks
  /\ IF taken[state] = NoCallback
       THEN coro' = "dispatch" /\ UNCHANGED fired
       ELSE /\ coro' = "callback"
            /\ fired' = [fired EXCEPT ![taken[state]] = @ + 1]
  /\ UNCHANGED <<promise, runner, owner, awaiter, kinds, replaced>>

\* The callback returns (or throws: the exception is swallowed) and the loop
\* goes round.  A callback on the owner's thread finishes what it began.
CallbackReturn ==
  /\ coro = "callback"
  /\ runner = Owner => op = "idle"
  /\ coro' = "dispatch"
  /\ UNCHANGED <<promise, runner, taken, owner, awaiter, history>>

\* After lock.unlock(): a detached frame destroys itself.
SelfDestruct ==
  /\ coro = "destroy"
  /\ frame' = "destroyed"
  /\ coro' = "gone"
  /\ UNCHANGED <<slot, state, settled, detached, continuation, runner, taken,
                 owner, awaiter, history>>

\* await_suspend returned the continuation: symmetric transfer to it.
Transfer ==
  /\ coro = "transfer"
  /\ awaiter' = "resumed"
  /\ coro' = "parked"
  /\ UNCHANGED <<promise, runner, taken, owner, history>>

-----------------------------------------------------------------------------
(* The owner's operations on the handle.                                   *)

\* Owner's thread is not inside the coroutine or the dispatch; inside one of
\* the user's callbacks it may use the handle.
OwnerFree ==
  /\ op = "idle"
  /\ handle
  /\ awaiter # "resumed"
  /\ runner = Owner => coro \in {"suspended", "callback", "parked", "gone"}

\* The critical section of then, onCancelled and onError: a live task keeps
\* the callback for the dispatch; on a settled one it is called at once, if
\* its kind is the outcome.
Register(kind, c) ==
  /\ kinds' = [kinds EXCEPT ![c] = @ \cup {kind}]
  /\ IF settled
       THEN /\ fired' = IF state = kind THEN [fired EXCEPT ![c] = @ + 1] ELSE fired
            /\ UNCHANGED <<slot, replaced>>
       ELSE /\ slot' = [slot EXCEPT ![kind] = c]
            /\ replaced' = replaced \cup ({kind} \X ({slot[kind]} \ {NoCallback}))
            /\ UNCHANGED fired
  /\ UNCHANGED <<state, settled, detached, continuation, frame, dispatch, handle,
                 awaiter>>

Then(c) ==
  /\ OwnerFree
  /\ kinds[c] = {}
  /\ Register("value", c)
  /\ UNCHANGED <<op, sink>>

OnCancelled(c) ==
  /\ OwnerFree
  /\ kinds[c] = {}
  /\ Register("cancelled", c)
  /\ UNCHANGED <<op, sink>>

OnError(c) ==
  /\ OwnerFree
  /\ kinds[c] = {}
  /\ Register("error", c)
  /\ UNCHANGED <<op, sink>>

\* toFuture registers one sink, which finishes the QPromise, for each kind in
\* turn: three critical sections, between which another thread may dispatch.
\* The combinators and the task wrappers register their sinks the same way.
ToFuture(c) ==
  \/ /\ OwnerFree
     /\ kinds[c] = {}
     /\ Register("value", c)
     /\ op' = "onCancelled" /\ sink' = c
  \/ /\ op = "onCancelled" /\ sink = c
     /\ Register("cancelled", c)
     /\ op' = "onError" /\ UNCHANGED sink
  \/ /\ op = "onError" /\ sink = c
     /\ Register("error", c)
     /\ op' = "idle" /\ sink' = NoCallback

\* Mutant of AwaitReady: done() instead of the flag.
AwaitReadyIfDone ==
  /\ OwnerFree
  /\ awaiter = "none"
  /\ IF coro \notin {"running", "suspended"}
       THEN awaiter' = "resumed" /\ UNCHANGED op
       ELSE op' = "await_suspend" /\ UNCHANGED awaiter
  /\ UNCHANGED <<promise, dispatch, handle, sink, history>>

\* await_ready reads the flag; a settled task is not suspended for.
AwaitReady ==
  /\ OwnerFree
  /\ awaiter = "none"
  /\ IF settled
       THEN awaiter' = "resumed" /\ UNCHANGED op
       ELSE op' = "await_suspend" /\ UNCHANGED awaiter
  /\ UNCHANGED <<promise, dispatch, handle, sink, history>>

\* Mutant of AwaitSuspend: no second look at the flag.
AwaitSuspendUnchecked ==
  /\ op = "await_suspend"
  /\ awaiter' = "parked"
  /\ continuation' = TRUE
  /\ op' = "idle"
  /\ UNCHANGED <<slot, state, settled, detached, frame, dispatch, handle, sink,
                 history>>

\* await_suspend re-checks the flag under the mutex before it parks.
AwaitSuspend ==
  /\ op = "await_suspend"
  /\ IF settled
       THEN awaiter' = "resumed" /\ UNCHANGED continuation
       ELSE awaiter' = "parked" /\ continuation' = TRUE
  /\ op' = "idle"
  /\ UNCHANGED <<slot, state, settled, detached, frame, dispatch, handle, sink,
                 history>>

\* whenAll's or whenAny's sink, called by the dispatch on another thread, leaves
\* the task the coroutine it has to resume: await_ready says no, the dispatch
\* is not over.  On the owner's thread that is AwaitReady and AwaitSuspend.
AwaitFromCallback ==
  /\ coro = "callback" /\ runner # Owner
  /\ handle /\ awaiter = "none"
  /\ op \in {"idle", "onCancelled", "onError"}
  /\ awaiter' = "parked"
  /\ continuation' = TRUE
  /\ UNCHANGED <<slot, state, settled, detached, frame, dispatch, owner, history>>

\* await_resume reads the outcome from the promise.
AwaitResume ==
  /\ awaiter = "resumed"
  /\ awaiter' = "done"
  /\ UNCHANGED <<promise, dispatch, owner, history>>

\* The threading contract: the owner may drop a settled task, a live one from
\* inside its callbacks on the owner's thread, and a suspended one that is not
\* migrating.  A task that another thread completes is foreign until settled;
\* LiveDisposal lifts that once a sink has told the owner of the outcome.
MayDrop ==
  /\ OwnerFree
  /\ awaiter \in {"none", "done"}
  /\ \/ settled
     \/ coro = "callback" /\ runner = Owner
     \/ coro = "suspended" /\ Completer = Owner
     \/ LiveDisposal /\ \E c \in Callbacks : fired[c] > 0

DetachBegin ==
  /\ MayDrop
  /\ op' = IF settled THEN "detach_settled" ELSE "detach_live"
  /\ UNCHANGED <<promise, dispatch, handle, sink, awaiter, history>>

\* ~QTask and move-assignment: disposeHandle reads the flag, then done().
DisposeBegin ==
  /\ MayDrop
  /\ op' = IF settled THEN "dispose_settled" ELSE "dispose_live"
  /\ UNCHANGED <<promise, dispatch, handle, sink, awaiter, history>>

\* Mutant of DisposeDone: done() is not asked.
DisposeUndeferred ==
  /\ op = "dispose_live"
  /\ op' = "dispose_frame"
  /\ UNCHANGED <<promise, dispatch, handle, sink, awaiter, history>>

\* At final_suspend the disposal is left to the dispatch.
DisposeDone ==
  /\ op = "dispose_live"
  /\ op' = IF coro \in {"running", "suspended"} THEN "dispose_frame" ELSE "dispose_defer"
  /\ UNCHANGED <<promise, dispatch, handle, sink, awaiter, history>>

\* Live: ask the dispatch, under the mutex, to destroy the frame.
HandOver ==
  /\ op \in {"detach_live", "dispose_defer"}
  /\ detached' = TRUE
  /\ handle' = FALSE
  /\ op' = "idle"
  /\ UNCHANGED <<slot, state, settled, continuation, frame, dispatch, sink,
                 awaiter, history>>

\* Settled (wait out the dispatch's critical section first), or suspended at
\* a co_await of its own: destroy the frame here.  Code that is running in
\* the frame, were there any, would go on running.
DestroyFrame ==
  /\ op \in {"detach_settled", "dispose_settled", "dispose_frame"}
  /\ frame' = "destroyed"
  /\ coro' = IF coro \in {"suspended", "parked"} THEN "gone" ELSE coro
  /\ handle' = FALSE
  /\ op' = "idle"
  /\ UNCHANGED <<slot, state, settled, detached, continuation, runner, taken,
                 sink, awaiter, history>>

-----------------------------------------------------------------------------

Dispatch ==
  \/ TakeCallbacks \/ Settle \/ InvokeCallback \/ CallbackReturn
  \/ SelfDestruct \/ Transfer

OwnerContinues ==
  \/ op # "idle" /\ \E c \in Callbacks : ToFuture(c)
  \/ AwaitSuspend \/ DisposeDone \/ HandOver \/ DestroyFrame

Next ==
  \/ Suspend \/ Resume
  \/ \E outcome \in Outcomes : Complete(outcome)
  \/ Dispatch
  \/ \E c \in Callbacks : Then(c) \/ OnCancelled(c) \/ OnError(c) \/ ToFuture(c)
  \/ AwaitReady \/ AwaitSuspend \/ AwaitFromCallback \/ AwaitResume
  \/ DetachBegin \/ DisposeBegin \/ DisposeDone \/ HandOver \/ DestroyFrame

Spec == Init /\ [][Next]_vars

\* A dispatch in progress and an operation in progress run on: neither waits
\* for anything but a critical section or a callback that returns.  Nothing
\* obliges the coroutine to complete or the owner to begin an operation.
Fairness == WF_vars(Dispatch) /\ WF_vars(OwnerContinues) /\ WF_vars(AwaitResume)

FairSpec == Spec /\ Fairness

-----------------------------------------------------------------------------
(* Safety.                                                                 *)

\* No use after free: whoever is about to touch the promise (the coroutine
\* and its dispatch, an operation in progress, an awaiting coroutine, the
\* handle the owner holds) finds the frame alive.
FrameSafe ==
  \/ frame = "live"
  \/ /\ coro = "gone"
     /\ ~handle
     /\ op = "idle"
     /\ awaiter \in {"none", "done"}

\* No leak: a frame nobody holds a handle to is one whose dispatch has yet to
\* decide its destiny, and will read `detached` then, or is destroying it.
NoOrphanFrame ==
  frame = "live" /\ ~handle =>
    \/ coro = "destroy"
    \/ detached /\ ~continuation
       /\ coro \in {"running", "suspended", "dispatch", "invoke", "callback"}

\* A registered sink is never forgotten: once the task has settled, every
\* sink registered for the outcome was called, unless the owner replaced it.
NoLostCallback ==
  settled =>
    \A c \in Callbacks :
      state \in kinds[c] /\ <<state, c>> \notin replaced => fired[c] > 0

\* A sink registered for all three kinds (toFuture, whenAll, withTimeout) is
\* called at most once, whatever the registrations' race with the dispatch.
SinkCalledOnce == \A c \in Callbacks : fired[c] <= 1

\* So the future of toFuture() and the sinks of the combinators and wrappers
\* hear of the outcome once, whatever order registration and dispatch take.
EachSinkOnce == NoLostCallback /\ SinkCalledOnce

\* No lost wake-up: an awaiter stays parked only while its handle is stored
\* and the dispatch has still to transfer to it.
NoLostAwaiter ==
  awaiter = "parked" => continuation /\ (settled => coro = "transfer")

\* The awaiter runs on only after the whole dispatch: no callback of the
\* task is running or pending any more when its result is consumed.
AwaiterAfterCallbacks ==
  awaiter \in {"resumed", "done"} =>
    /\ settled
    /\ slot = NoCallbacks /\ taken = NoCallbacks
    /\ coro \notin {"invoke", "callback"}

-----------------------------------------------------------------------------
(* Liveness.                                                               *)

\* An awaiter parked on a task that completes is resumed.
ParkedAwaiterResumes ==
  awaiter = "parked" /\ state # "empty" ~> awaiter = "done"

\* A completed task whose handle is gone gives its frame back.
DroppedFrameFreed ==
  ~handle /\ state # "empty" ~> frame = "destroyed"

-----------------------------------------------------------------------------
(* Refinement: the frame's keeper is the owner while it holds the handle,  *)
(* and the coroutine from the moment `detached` is set.                    *)

keeper ==
  IF frame = "destroyed" THEN "freed" ELSE IF handle THEN "owner" ELSE "coroutine"

Contract ==
  INSTANCE TaskSpec WITH
    outcome <- state,
    called <- {c \in Callbacks : fired[c] > 0},
    waiter <- IF awaiter = "done" THEN "resumed" ELSE awaiter

\* The lock-level protocol implements what the class comment promises.
ImplementsContract == Contract!Spec

\* A task and a sink c on it, as who armed it sees them if the outcome is k (a
\* task whose frame is destroyed while it is suspended never completes).
TaskSeen ==
  CASE state = "empty" -> "running"
    [] state # "empty" /\ coro \in {"dispatch", "invoke", "callback"} -> "dispatch"
    [] state # "empty" /\ coro = "transfer" -> "transfer"
    [] state # "empty" /\ coro \in {"destroy", "parked", "gone"} -> "settled"

SinkSeen(k, c) ==
  CASE fired[c] > 1 -> "called again"
    [] fired[c] = 1 -> "called"
    [] fired[c] = 0 /\ <<k, c>> \in replaced -> "replaced"
    [] fired[c] = 0 /\ <<k, c>> \notin replaced -> IF k \in kinds[c] THEN "pending" ELSE "none"

Armed(k, c) == INSTANCE ArmedTask WITH task <- TaskSeen, sink <- SinkSeen(k, c)

\* The combinators and wrappers rely on every sink being called exactly when it
\* should: on each task what they see of it are the steps of ArmedTask.
ImplementsArmed ==
  /\ \A k \in Outcomes, c \in Callbacks : Armed(k, c)!Init
  /\ [][\A k \in Outcomes, c \in Callbacks :
          state' \in {"empty", k} => Armed(k, c)!Next \/ UNCHANGED Armed(k, c)!vars]_vars

=============================================================================
