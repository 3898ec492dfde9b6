# A TLA+ model of QtCoroutine

QtCoroutine is a header-only C++23 library: coroutines as tasks (`QTask`), and
awaitables and streams over Qt signals and futures. Its headers are
`src/include/QtCoroutine/*.hpp`. What is hard in it is not data but protocol:
who may touch a coroutine frame, who frees it, who wakes whom, and what happens
when a completion, a stop, a timeout and the end of an object meet on two
threads. This directory models those protocols, checks them with TLC on small
instances, and proves their safety with TLAPS for all of them.

## 1. The system

| part (file) | state | operations | meets |
|---|---|---|---|
| `QTask`'s promise and handle (`qtask.hpp` 27-574) | outcome, three callback slots, `settled` (shared with the handle), `detached`, `continuation`, the frame's lifetime | completion dispatch at `final_suspend`; `then`, `onCancelled`, `onError`, `toFuture`, `co_await`, `detach`, destruction, move-assignment | the coroutine that awaits it (symmetric transfer), the sinks, the owner's thread |
| `whenAll`, `whenAny`, `tryAll` (`qtask.hpp` 576-918) | a counter or a gate shared by the sinks, the winner's index | await, and the sinks on several tasks | `QTask`'s callback slots and continuation |
| `waitFor` (`qtask.hpp` 920-970) | a nested event loop, a bridge task | blocks until a task settles | `QTask`, Qt's event loop |
| task wrappers `cancelledBy`, `withTimeout` (`qtask.hpp` 972-1168) | gate, context, timer or stop callback | await; completion, stop, timeout | `QTask`'s slots, posted events |
| `QSignalAwaitable` (`qtcoroutine.hpp` 59-356) | gate, result, reason, connections, stop callback, timer | arming in `await_suspend`; signal, sender's end, context's end, stop, timeout; `disarm` | sender, context, stop source, the event loop of the context |
| `ExpectedAwaitable` (19-57), `sleep` (358-393) | none; a gate | adaptor; timer | any awaitable; the event loop |
| `QSignalStream` (`qsignalstream.hpp`) | queue, flags, waiter, generations, `notifyPosted` | emission, stop, ends, `next()`, timers, builders, disposal | sender, stop source, the consumer's event loop |
| `QFuture` adaptors (`qfuture_coroutine_traits.hpp`) | a guard; the promise | continuation, posted resume; the coroutine that returns a future | Qt's continuation lock |
| `utils.hpp` | none | signal traits, `AwaitCancelled` | everything |

What makes it hard:

- **Interleaving.** A task may complete on another thread (after `resumeOn`),
  and every input of an awaitable or a stream may come from any thread. The code
  reads an atomic flag outside its mutex and acts inside.
- **Reentrancy.** Callbacks run user code, which may destroy the object that is
  calling it; sinks on one task run inside the dispatch of another.
- **Ordering.** Posted events arrive later than the state they announce; a
  timer may fire for a wait that is over.
- **Lifetime.** Frames, contexts, senders and awaitables end at any moment; a
  callback in flight must find that out.
- **Progress.** Nothing polls: one lost wake-up and the coroutine is suspended
  for ever.

What correctness means for each part: a task uses its frame only while it is
alive and frees it once, calls each sink once and forgets none, and never
strands its awaiter. A stream loses and reorders nothing, wakes whoever has
something to receive, and never resumes a consumer without a reason. An
awaitable of any kind keeps one promise (`OneShot`): a suspended coroutine is
resumed once, on account of something that has happened, and never after its
frame was dropped. A combinator needs all of its tasks for that, or one; a
wrapper the first of completion, stop and timeout; a future what it holds.

## 2. Modules

| module | what it is |
|---|---|
| `TaskSpec` | what `QTask`'s class comment promises, without locks or flags |
| `ArmedTask` | a task as whoever arms a sink on it sees it |
| `QTask` | one frame: promise, dispatch, handle, one awaiter; implements `TaskSpec` and `ArmedTask` |
| `Sleep` | `QTask` composed with the timer of the `sleep()` its body waits in |
| `WaitFor` | `QTask`, as `waitFor`'s bridge, composed with the call and its nested loop |
| `OneShot` | what every awaitable promises of one co_await |
| `Combinator` | N tasks, each an `ArmedTask`, their sinks, and the coroutine that awaits them |
| `WhenAll`, `WhenAny` | what `await_ready` answers and the sinks do; both implement `OneShot` |
| `TaskWrapper` | the co_await in `cancelledBy()` or `withTimeout()`; implements `OneShot` |
| `QFutureAwait` | the co_await of a `QFuture` and the coroutine that returns it; implements `OneShot` |
| `QSignalAwaitable` | one co_await of a signal: arming, hooks, context, end of the awaitable; implements `OneShot` |
| `StreamSpec` | what a stream promises its reader: a log of emissions, read in order, with an end |
| `QSignalStream` | one stream: control block, inputs, event loop, consumer; implements `StreamSpec` |
| `StreamDisposal` | `~QSignalStream`, lock by lock |
| `MC...` | the instances TLC checks |
| `..._proofs` | the proofs about a module; `QTask_proofs` has those of `Sleep` and `WaitFor` too |

Operators named "Mutant of X" are plausible errors in X. Substituted for X, each
makes one property of one run fail; no specification uses them.

### QTask

Variables have the source's names: `slot` is the three callback members,
`taken` the dispatch's local copies, `settled`, `detached`, `continuation` and
`state` the promise's members. `coro` is where the coroutine is: `running` or
`suspended` in its body, then in `dispatchCompletion` at the head of the loop
(`dispatch`), past the critical section with callbacks to call (`invoke`),
inside one (`callback`), unlocked and about to destroy itself (`destroy`), about
to transfer (`transfer`), `parked` at `final_suspend`, or `gone`. `op` is where
the owner's operation is between its read of `settled` and the effect.

Each critical section is one action (`TakeCallbacks` and `Settle` are the two
branches of the loop's section, `Register` that of the registrations,
`AwaitSuspend`, `HandOver`). Reads of `settled` outside the mutex are steps of
their own: `AwaitReady`, `DetachBegin`, `DisposeBegin`. `DisposeDone` is the
`done()` test of `disposeHandle`. `DestroyFrame` includes the empty lock that
waits out the dispatch's tail.

`toFuture` is three registrations of one sink with the dispatch free to run
between them. The sinks of the combinators, of the wrappers and of `waitFor` are
registered in the same way, so the properties about sinks speak of them too. A
combinator's sink may also leave the task a coroutine to resume, on the thread
that calls it: `AwaitFromCallback` is that call of `await_suspend` (621, 776).

The environment: the owner operates from `Owner` only, as the debug assertions
demand; while the coroutine runs on `Owner`, only from inside a callback. The
body suspends and resumes, on `Owner` or on `Completer` (`resumeOn`).
`MayDrop` is the threading contract of the class comment (418-427): a task that
another thread may complete is not dropped before it is seen settled.
`LiveDisposal` lifts that for an owner who heard of the outcome from a sink.

### Sleep and WaitFor: compositions of QTask

Both EXTEND `QTask` and take it through its own actions, conjoined with those of
the other component; their next-state relations imply `QTask`'s, which
`SleepIsTask` and `BridgeIsTask` prove, so every theorem about a task holds of
the task that sleeps and of the bridge. In `Sleep` the body's suspension is a
`sleep()`: `guard` and `timer` outlive the frame, and `FrameEnds` is the frame's
destruction with the awaitable's destructor in it. In `WaitFor`, `call` is where
the call is, `quitting` the queued quit; `Posts` conjoins the quit lambda to
whatever step of the bridge calls its sink, on either thread.

### Combinator, WhenAll, WhenAny

Here a task is an `ArmedTask`: a sink registered for all kinds is called once,
from the dispatch or, on a settled task, inline, unless another takes its slot;
a continuation stored by the sink is transferred to after the task settled.
`QTask` is proved to implement it (`ArmedRefinement`), and the tasks of the
combinators, and that of the wrappers, to take its steps only (`TasksArmed`,
`TaskArmed`): what is assumed of a task here is nothing `QTask` does not do.
`task` and `sink` have one entry for each task,
`remote` is the set of tasks that complete on threads of their own. `phase` and
`i` are the loops of `await_ready` and `await_suspend`, one task at a time, so
that tasks elsewhere complete in the middle of them. The sink is two steps: its
check of the guard, or exchange of the gate (`EnterSink`), and the rest
(`CountDown`, `Win`), which resumes directly or stores the continuation
(`ResumeFrom`). A coroutine that is resumed while it is not suspended becomes
`stray`. Dispatches nested in a user's callbacks are free to interleave on Home,
which is more than the stack allows.

### TaskWrapper and QFutureAwait

`events` is what is posted to the awaitable's context, in order; `guard` the
gate. In `TaskWrapper` the stop callback is two steps on whatever thread stops,
its early check and its post; `AwaitResume` and `Disarm` are the two resets of
the `std::stop_callback`, which wait for it. In `QFutureAwait` `future` is the
set of `QFuture`'s flags, `producer` the coroutine that has it as its return
type, `hooks` what `await_suspend` attached. `RunContinuation` lets Qt run the
continuation directly on Home or by an event from elsewhere; a cancellation that
is no exception skips it and cancels the chained future. `Teardown` is Qt's
destruction of posted events under its lock, after the coroutines are gone.

### QSignalStream and StreamDisposal

The control block's fields have the source's names; emissions are numbered.
`wakes` and `timers` are the consumer thread's event loop. `pc` is the
consumer: between `await_ready` and `await_suspend` (`suspend`) another thread's
input may come; the consumer's own event loop cannot. The argument `here` of an
input says whether it runs on the consumer's thread. `Notify` is `notify()`,
called with the mutex held, and conjoined to each input: it is not a step of its
own. The consumer keeps awaiting; a `NextAwaitable` may be destroyed while
parked, or be kept beyond its wait. Disposal is one step there;
`StreamDisposal` has its locks, its wait for the stop callback, and the
references to the control block.

### QSignalAwaitable

`arming` is how far `await_suspend` has come, in the order of the code, with
`armMutex` held from the first to the last step. If it `migrates`, the context's
thread delivers events in the middle of it. `Fire` is what the four connection
lambdas, the timer and the posted stop do: exchange the gate, store, resume. The
stop callback is two steps, its early check (`RequestStop`) and its post
(`PostStop`). The context's destruction is two as well: `destroyed()` with its
slot, which runs the coroutine through to the end of the co_await, then the
rest of `~QObject`.

Assumed of the callers: sender and context outlive the calls `await_suspend`
makes on them (`ObjectsFree`); a suspended frame is destroyed on the thread that
would resume it, the awaiting one or, with `resumeOn()`, the context's
(`FrameDestroyed`; section 4 says what happens otherwise); of the coroutine, that
it does not suspend between `await_resume` and the end of the full expression.
All properties of this module, and the theorems on them, rest on these three.

## 3. Runs

| run | shows | bounds |
|---|---|---|
| `task_cross_thread` | memory safety, no leak, each sink called exactly when it should be (`ArmedTask` implemented), awaiters last, `TaskSpec` implemented, awaiters resumed, frames freed | 3 sinks, 2 threads |
| `sleep` | a timer resumes nobody but the coroutine asleep, whatever the owner does; every sleep ends | 2 sinks, 1 thread |
| `wait_for` | the result is there when the nested loop ends, the sink never outlives the loop, the call returns | the bridge's one sink, 2 threads |
| `wait_for_bridge` | *violation*: the bridge's frame leaks (section 4) | the same |
| `stream` | no loss, no reordering, no stale value kept, no lost wake-up, no unreachable resume, `StreamSpec` implemented, waits end | 3 emissions, 3 waits, every set of builders |
| `disposal` | nobody uses the control block once it is gone; disposal ends | 2 emissions, 1 stop |
| `await` | one outcome, nothing left armed, no post to a freed context, `OneShot` implemented, waits end, with hooks firing in the middle of the arming | 3 emissions, every set of builders |
| `when_all`, `when_any` | every completion counted once; one winner, which has settled and finds the awaitable; `OneShot` implemented; the coroutine is resumed | 3 tasks, each here or elsewhere |
| `when_any_destroyed` | *violation*: a winner in flight writes to a destroyed awaitable (section 4) | 2 tasks |
| `wrapper` | the answer is the cause that came first, nothing is left, `OneShot` implemented, the wait ends | both wrappers, the task here or elsewhere |
| `future` | no post at teardown, resumption from the event loop only, `OneShot` implemented, the wait ends | one future, one cancellation |

**The bounds.** A sink is registered once (a second registration replaces the
first, which two sinks show); one sink per kind plus one that comes late makes
three: each of the three slots can be filled while a round of callbacks runs,
and one be replaced. The dispatch loop then goes round three times. For a
stream, three waits give a stale timer of an earlier wait, the current one, and
a wait after a timeout; three emissions give a queue with something before and
behind the value that is being delivered. `MaxEmits` and `MaxWaits` are guards
of `Emit` and `AwaitReady`, the only unbounded inputs. Three tasks are enough for
a combinator to have one settled, one settling while the loop arms another, and
one to come, and for two losers of a gate. One co_await of a wrapper or a future
is finite: what may come at all comes once. Disposal meets one stop callback,
since there is one stop token, and two emissions, one of which may hold the mutex
while the other waits for it.

`task_cross_thread` has two threads; with `Completer = Owner`, the instance on
one thread, `QTask` runs in `sleep`.

`CHECK_DEADLOCK FALSE` everywhere: the systems stop when the task is gone, the
stream disposed of, the await over.

**Fairness.** `QTask`: the dispatch and an operation in progress go on, for
they wait only for critical sections and for callbacks to return; a resumed
awaiter runs. Not assumed: that the coroutine completes or that the owner does
anything. The number of registrations is finite, which is why the drain loop
ends; a callback that registers a new one each time would keep it going, in the
code as well. Elsewhere: a thread that waits runs its event loop, timers
included (each `await_suspend` asserts that it has one), and code that has begun
goes on. No input need come, no task complete, nobody stop. In `StreamDisposal`
weak fairness of the waiter for the mutex is enough, since the emissions that
can take it from under it are finitely many. The leads-to properties of the
combinators and wrappers except tasks whose sink was replaced, because the code
does: there is one slot per kind (449), and whoever registers last has it.

## 4. What the code does otherwise than it says

`wait_for_bridge`. `detach()` and `disposeHandle()` read `settled` without the
lock and set `detached` under it, without a second look, unlike `await_suspend`
(297), which has one. With the dispatch on another thread the frame's destiny may
be decided in between: `detached` is set on a frame that stays parked, and
nobody destroys it. The comments at `qtask.hpp:36-39` and `270-272` say that the
dispatch always honours the request. The threading contract tells users not to
drop a live task that another thread completes, but `waitFor` does: its quit
sink is called before `settled` is published, `exec()` returns on the caller's
thread, and `~QTask` of the local bridge meets the dispatch on the other one. So
does a user of the bridge the README recommends, `toFuture()`, which finishes the
future from a callback as well. The theorems `Ownership` and `Refinement` assume
`~LiveDisposal`, and need it.

`when_any_destroyed`. `~WhenAnyAwaitable` sets the gate, so that sinks to come
leave the awaitable alone, but does not wait for one that has passed it. With a
winner on another thread the frame may be destroyed between its exchange and its
write of `readyIndex`, against the comment at `qtask.hpp:747-750`. `whenAll` has
the same window between the sink's look at the guard (615) and the resumption.
On one thread neither is possible. The theorems on both assume `~LiveDestroy`.

Seen on the way, and not claims of the code:

- With `resumeOn()` to another thread, destroying a frame that is suspended from
  the thread it was suspended on races a hook that has passed the gate on the
  context's thread and resumes the frame. The destructor's comment
  (`qtcoroutine.hpp:119-124`) has no such proviso, but the threading contract
  (`qtask.hpp:425-427`) makes that handle foreign to the original thread. No
  property of `QSignalAwaitable` speaks of this case.
- `whenAny`'s arming loop reads its members after a task on another thread may
  have resumed the coroutine; `AwaitableLive` speaks of that loop on one thread
  only, where no task settles in the middle of it.
- When `whenAll`'s coroutine runs on, all outcomes are recorded, but across
  threads a task other than the last may not have published `settled`.
- A `cancel()` of a future that finished with a value, while its co_await waits
  for the posted resumption, makes `await_resume` report a cancellation.
- The stream's stop callback may resume the consumer, which may dispose of the
  stream and with it of that callback's own `std::function`
  (`qsignalstream.hpp:357`).

## 5. Proofs

Every proof module proves an invariance theorem or lemma `Spec => []IInv`, one
lemma per part of the invariant, one step per action, and draws the properties
from it. Every invariant and action property of the passing runs and every
refinement is a theorem. The assumptions are those of the models
(`QTaskAssumption`, `StreamAssumption`, `AwaitableAssumption`,
`CombinatorAssumption`, `WaitForAssumption`, `DisposalAssumption`): nothing about
the number of sinks, tasks or emissions, or about which builders are used.

- `QTask_proofs`. None of the properties is inductive. `FrameSafe` needs who
  may touch the frame in each position of `coro` and `op`; `OnceEach` needs, for
  every registered sink, that it is in its slot, in the dispatch's hands, called
  or replaced, and that a sink registered for several kinds has been called for
  one outcome only; `NoOrphanFrame` a hand-over invariant that says what an
  operation under way has read. `Refinement`: every step of `QTask` is a step of
  `TaskSpec` or a stutter.
- `ArmedRefinement`, also there. What a sink has lost when its slot is taken
  depends on the outcome the task will have: replaced for the outcome `k` it is
  out of the game, replaced for another it is not. So the mapping has `k` as a
  parameter, a prophecy, and the theorem is about every `k` and every sink, up
  to the moment that rules `k` out. A `toFuture` under way shows as a
  sink that is not armed yet for some `k`. `ReplacedInv`: a replaced sink is in
  none of the places it could still be called from.
- `Sleep` and `WaitFor`, at the end of the same module. With the invariant of
  the task at hand, `SleepSafe` needs only that a timer with an open guard is
  that of the sleep in progress. `LoopIsThere` needs that the bridge has one
  sink, that a quit event comes of its call alone, and that it is called once:
  `OnlyTheSink` gets that from `QTask`'s `SinkInv`.
- `WhenAny_proofs`, `WhenAll_proofs`. For any number of tasks. In `WhenAny`
  whoever is about to resume the coroutine holds a ticket (`Ticket`): there is
  one at most, only while the gate is closed and the coroutine suspended, and its
  holder is the winner. In `WhenAll` the countdown is tied to the cardinality of
  the set of sinks that have returned (`Counting`), so the one that counts to
  zero is the last. `OneAnswer` is the refinement of `OneShot`.
- `TaskWrapper_proofs`, `QFutureAwait_proofs`. `PostInv`, `OrderInv`: each cause
  is posted once at most and after it has happened; `GateInv`: the gate is open
  exactly while somebody may still be resumed; `AnswerInv`: what is about to be
  reported has happened. For the future, lemmas of the form "this action changes
  the hooks and events so" (`ContinuationRuns`, `DeliverStep`) keep the
  continuation's cases in one place. Both implement `OneShot`.
- `QSignalStream_proofs`. `WakeInv` ties the waiter to the consumer's position,
  `notifyPosted` to the event queue, and a resumption to its reason;
  `NotifyLemma` proves it once for all inputs. `OutcomeInv` says what a reported
  end or abort implies for the flags. `KeptInv` is about the queue as an interval
  of emission numbers (`InOrder`). `Implements` maps `delivered \o queue` to the
  log of `StreamSpec`: notifications, wakes, generations and timers that fire for
  no one are stutters, and each position of the consumer from which it reports
  something has the reason the abstract reader asks for. `Terminal` (nothing but
  the end after the end) is proved as well.
- `StreamDisposal_proofs`. For any set of emissions in progress. `RefInv` says
  how long each holder keeps its reference, `StopInv` that the stop callback is
  over once disposal has waited for it and that the mutex is there, and free when
  it goes, exactly as long as somebody refers to it. Hence `Lifetime`; that
  nobody waits in a circle (`NoDeadlock`); and that no stop reaches the control
  block after `dispose()` has waited for it (`StopEndsFirst`), which is why
  `QSignalStream` may have disposal as one step.
- `QSignalAwaitable_proofs`. `GateInv` (where the gate is open, and that the
  context is freed only when all is over), `ArmInv` (which hooks are armed at
  which point, and that a running stop callback holds up the end), `InputInv`
  (an input leaves an event). `FireLemma`: a hook on an idle thread resumes a
  suspended coroutine or does nothing. `OneAnswer`, the refinement of `OneShot`,
  adds `CauseInv`: whatever is posted or stored has happened, and stays so.
- `WakeUp`, one for each kind of awaitable (`NoLostAwaiter`, `NoLostWakeup`,
  `NoLostCompletion`, `NoLostWinner`, `NoLostCause`, `NoLostFinish`; of a signal,
  `InputsKept`): a suspended coroutine with a reason to go on has somebody who
  is about to resume it. This is the part of progress that is not about
  fairness: what is left is that events are delivered and that code which has
  begun goes on. In the combinators `WakeInv` says that every task is armed once
  `await_suspend` is through, that no sink of a settled task waits, and that the
  last one to count, or the winner, has left the coroutine with a task that has
  not yet transferred.

Model-checked only: the liveness properties (leads-to under fairness is out of
TLAPS's reach here). By inspection: that the tasks of the combinators and
wrappers are allowed every step of `ArmedTask`. The theorems show one direction,
that they take no others; the other is that each of its actions is an action of
`Combinator`, with no guard but the thread it runs on. `WhenAll`'s and
`WhenAny`'s theorems, `TasksArmed` excepted, say nothing of an awaiting frame
destroyed while a task completes on another thread: section 4 says why.

## 6. Not modelled

- The values: a task's result, the arguments of a signal. Hence not that
  `await_resume` moves the result away from later readers (488).
- `tryAll`: a coroutine that awaits one task after another, each as in `QTask`.
- Awaiters destroyed while parked in a `QTask`: the class comment forbids them.
- `isCancelled`, `cancelReason`, `ExpectedAwaitable`, `utils.hpp`: reads and
  adaptors without state.
- A second co_await of a `QSignalAwaitable` that was kept, and `readyIf`'s
  predicate: a signal await is used once.
- Qt itself: event loops, timers, connections and `QFuture` are as the code uses
  them. In particular, a `.then()` continuation runs directly if the promise is
  finished on Home and by an event otherwise.
- `await_resume`'s exception on a `QFuture` that is not valid
  (`qfuture_coroutine_traits.hpp:209-212`): a future without a promise, or one
  whose result was taken before; `QFutureAwait`'s has a producer and one reader.
- Frames that outlive the application: `Teardown` assumes that they are gone
  before Qt destroys its posted events.
- Debug assertions: what they demand of the callers is what the models assume.
- Memory orderings: the flags are acquire/release and the models are
  sequentially consistent; no property relates two flags read without a lock.
- Examples, tests, build files.

## 7. Plan

Done, by importance: `QTask` with `TaskSpec`, `QSignalStream`,
`QSignalAwaitable`; the combinators, wrappers and futures with `OneShot`;
`Sleep` and `WaitFor` as compositions; `StreamDisposal`; the proofs of all of
them; `ArmedTask` between `QTask` and whoever waits for it, `StreamSpec`, and
`OneShot` for signals. To come:

1. A composition of `QTask` and `QSignalAwaitable`: the body's suspension is a
   signal await, and destroying the task destroys the awaitable.
2. The converse of `TasksArmed`: that a combinator restricts its tasks by their
   threads only.
