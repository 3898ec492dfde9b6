--------------------------- MODULE QFutureAwait ---------------------------
(***************************************************************************)
(* One co_await of a QFuture, and the coroutine that returns it            *)
(* (include/QtCoroutine/qfuture_coroutine_traits.hpp).  QFuture is Qt's:   *)
(* its flags, its continuation and where that runs are modelled from how   *)
(* the code and its comments use them.                                     *)
(*                                                                         *)
(* The continuation runs once, when the promise is finished, or at once if *)
(* that was before; from another thread than Home, where the co_await is,  *)
(* it is marshalled to the awaitable's context.  What runs there posts the *)
(* resumption.                                                             *)
(***************************************************************************)
EXTENDS Naturals, Sequences

VARIABLES
  future,        \* which of QFuture's flags are set, and is a result stored
  producer,      \* where the coroutine behind the QPromise is
  hooks,         \* what await_suspend has attached, and the chained future
  events,        \* what is posted to the context and not delivered
  guard,         \* the gate
  pc,            \* where the co_await is
  outcome,       \* history: what it came to
  stuck          \* was an event posted with the post-event lock held?

vars == <<future, producer, hooks, events, guard, pc, outcome, stuck>>

Flags == {"result", "failed", "canceled", "finished"}
Outcomes == {"value", "error", "cancelled"}

TypeOK ==
  /\ future \subseteq Flags
  /\ producer \in {"running", "finish", "continue", "done"}
  /\ hooks \subseteq {"then", "onCanceled", "ran", "chainCanceled"}
  /\ events \in Seq({"continuation", "resume"})
  /\ guard \in BOOLEAN
  /\ pc \in {"await_ready", "then", "onCanceled", "suspended", "resume",
             "isCanceled", "destruct", "over", "stray"}
  /\ outcome \in Outcomes \cup {"none", "dropped"}
  /\ stuck \in BOOLEAN
  \* One continuation, then one resumption of it, is posted.
  /\ Len(events) <= 1

Is(flag) == flag \in future

\* initial_suspend has started the promise; it may have finished since.
Init ==
  /\ \/ future = {} /\ producer = "running"
     \/ future \in {{"result", "finished"}, {"canceled", "finished"},
                    {"failed", "canceled", "finished"}} /\ producer = "done"
  /\ hooks = {} /\ events = <<>>
  /\ guard = FALSE /\ pc = "await_ready"
  /\ outcome = "none" /\ stuck = FALSE

\* Home is in its event loop.
Idle == pc \in {"suspended", "over"}

-----------------------------------------------------------------------------
(* The posted resumption.                                                  *)

\* Mutant of PostResume: the early check is left out.
PostResumeUnchecked(rest, locked) ==
  /\ events' = Append(rest, "resume")
  /\ stuck' = (stuck \/ locked)
  /\ UNCHANGED <<guard, pc>>

\* Mutant of PostResume: the handle is resumed from within the continuation.
PostResumeDirect(rest, locked) ==
  /\ events' = rest
  /\ guard' = TRUE
  /\ pc' = IF guard THEN pc ELSE "resume"
  /\ UNCHANGED stuck

\* postResume, called by the continuation or the cancellation handler: nothing
\* once the awaitable has gone, or else the resumption is posted.
PostResume(rest, locked) ==
  /\ events' = IF guard THEN rest ELSE Append(rest, "resume")
  /\ stuck' = (stuck \/ (locked /\ ~guard))
  /\ UNCHANGED <<guard, pc>>

\* The then-continuation takes the future, so that it runs for an exception as
\* well as for a value.  A plain cancellation skips it and cancels the chained
\* future, whose handler runs as soon as it is attached.
Continuation(rest, locked) ==
  IF Is("canceled") /\ ~Is("failed") /\ "onCanceled" \notin hooks
    THEN hooks' = hooks \cup {"ran", "chainCanceled"} /\ events' = rest
         /\ UNCHANGED <<guard, pc, stuck>>
    ELSE hooks' = hooks \cup {"ran"} /\ PostResume(rest, locked)

-----------------------------------------------------------------------------
(* The promise: QFuture as a coroutine's return type, and QFuture::cancel. *)

\* return_value, return_void: a result is refused once the future is canceled.
ReturnValue ==
  /\ producer = "running"
  /\ future' = IF Is("canceled") THEN future ELSE future \cup {"result"}
  /\ producer' = "finish"
  /\ UNCHANGED <<hooks, events, guard, pc, outcome, stuck>>

\* unhandled_exception: so is an exception, which cancels the future.
UnhandledException ==
  /\ producer = "running"
  /\ future' = IF Is("canceled") THEN future ELSE future \cup {"failed", "canceled"}
  /\ producer' = "finish"
  /\ UNCHANGED <<hooks, events, guard, pc, outcome, stuck>>

\* A QPromise is destroyed unfinished, by a producer that is no coroutine.
Abandon ==
  /\ producer = "running"
  /\ future' = future \cup {"canceled"}
  /\ producer' = "finish"
  /\ UNCHANGED <<hooks, events, guard, pc, outcome, stuck>>

\* finish() sets the flag ...
Finish ==
  /\ producer = "finish"
  /\ future' = future \cup {"finished"}
  /\ producer' = "continue"
  /\ UNCHANGED <<hooks, events, guard, pc, outcome, stuck>>

\* ... and runs the continuation that is attached by now, if it has not run:
\* here, if this is Home, or else by an event.
RunContinuation ==
  /\ producer = "continue"
  /\ producer' = "done"
  /\ IF "then" \in hooks /\ "ran" \notin hooks
       THEN \/ Idle /\ Continuation(events, FALSE)
            \/ /\ events' = Append(events, "continuation")
               /\ hooks' = hooks \cup {"ran"}
               /\ UNCHANGED <<guard, pc, stuck>>
       ELSE UNCHANGED <<hooks, events, guard, pc, stuck>>
  /\ UNCHANGED <<future, outcome>>

\* QFuture::cancel, by anyone, at any time.
Cancel ==
  /\ ~Is("canceled")
  /\ future' = future \cup {"canceled"}
  /\ UNCHANGED <<producer, hooks, events, guard, pc, outcome, stuck>>

-----------------------------------------------------------------------------
(* The awaitable.                                                          *)

AwaitReady ==
  /\ pc = "await_ready"
  /\ pc' = IF Is("finished") THEN "resume" ELSE "then"
  /\ UNCHANGED <<future, producer, hooks, events, guard, outcome, stuck>>

\* m_future.then(): on a future that has finished it runs at once, and finds
\* no cancellation handler yet.
AttachThen ==
  /\ pc = "then"
  /\ pc' = "onCanceled"
  /\ IF ~Is("finished")
       THEN hooks' = hooks \cup {"then"} /\ UNCHANGED events
       ELSE IF Is("canceled") /\ ~Is("failed")
       THEN hooks' = {"then", "ran", "chainCanceled"} /\ UNCHANGED events
       ELSE hooks' = {"then", "ran"} /\ events' = Append(events, "resume")
  /\ UNCHANGED <<future, producer, guard, outcome, stuck>>

\* Mutant of AttachOnCanceled: no cancellation handler.
AttachNothing ==
  /\ pc = "onCanceled"
  /\ pc' = "suspended"
  /\ UNCHANGED <<future, producer, hooks, events, guard, outcome, stuck>>

\* .onCanceled(): on a chained future that is canceled it runs at once.
AttachOnCanceled ==
  /\ pc = "onCanceled"
  /\ pc' = "suspended"
  /\ hooks' = hooks \cup {"onCanceled"}
  /\ events' = IF "chainCanceled" \in hooks THEN Append(events, "resume") ELSE events
  /\ UNCHANGED <<future, producer, guard, outcome, stuck>>

\* The marshalled continuation reaches Home.
DeliverContinuation ==
  /\ Idle
  /\ events # <<>> /\ Head(events) = "continuation"
  /\ Continuation(Tail(events), FALSE)
  /\ UNCHANGED <<future, producer, outcome>>

\* The posted resumption: the gate is the authoritative check.
DeliverResume ==
  /\ Idle
  /\ events # <<>> /\ Head(events) = "resume"
  /\ events' = Tail(events)
  /\ guard' = TRUE
  /\ pc' = IF guard THEN pc ELSE IF pc = "suspended" THEN "resume" ELSE "stray"
  /\ UNCHANGED <<future, producer, hooks, outcome, stuck>>

\* Mutant of RethrowError: cancellation is asked for first.
RethrowCancelled ==
  /\ pc = "resume"
  /\ IF Is("canceled")
       THEN outcome' = "cancelled" /\ pc' = "destruct"
       ELSE pc' = "isCanceled" /\ UNCHANGED outcome
  /\ UNCHANGED <<future, producer, hooks, events, guard, stuck>>

\* await_resume: the exception first, for a failed future is canceled too ...
RethrowError ==
  /\ pc = "resume"
  /\ IF Is("finished") /\ Is("failed")
       THEN outcome' = "error" /\ pc' = "destruct"
       ELSE pc' = "isCanceled" /\ UNCHANGED outcome
  /\ UNCHANGED <<future, producer, hooks, events, guard, stuck>>

\* ... then cancellation, then the result.
TakeResult ==
  /\ pc = "isCanceled"
  /\ outcome' = IF Is("canceled") THEN "cancelled" ELSE "value"
  /\ pc' = "destruct"
  /\ UNCHANGED <<future, producer, hooks, events, guard, stuck>>

\* The destructor, after await_resume or with a suspended frame.
Destruct ==
  /\ \/ pc = "destruct" /\ UNCHANGED outcome
     \/ pc = "suspended" /\ outcome' = "dropped"
  /\ pc' = "over"
  /\ guard' = TRUE
  /\ UNCHANGED <<future, producer, hooks, events, stuck>>

\* The application ends after the coroutines that run in it: Qt destroys the
\* posted events under its lock, a marshalled continuation with its promise.
Teardown ==
  /\ pc = "over"
  /\ IF events = <<"continuation">>
       THEN Continuation(<<>>, TRUE)
       ELSE events' = <<>> /\ UNCHANGED <<hooks, guard, pc, stuck>>
  /\ UNCHANGED <<future, producer, outcome>>

-----------------------------------------------------------------------------

Produce == Finish \/ RunContinuation

Await ==
  \/ AwaitReady \/ AttachThen \/ AttachOnCanceled
  \/ DeliverContinuation \/ DeliverResume \/ RethrowError \/ TakeResult

Next ==
  \/ ReturnValue \/ UnhandledException \/ Abandon \/ Produce \/ Cancel
  \/ Await \/ Destruct \/ Teardown

Spec == Init /\ [][Next]_vars

\* finish() runs its continuation; Home runs its code and its event loop.
Fairness ==
  WF_vars(Produce) /\ WF_vars(Await) /\ WF_vars(pc = "destruct" /\ Destruct)

FairSpec == Spec /\ Fairness

-----------------------------------------------------------------------------

\* The coroutine is resumed from the event loop, by the event posted for it:
\* never within the delivery of the continuation, whose lock the coroutine's
\* next co_await would take again.
ResumesFromLoop ==
  [][pc = "suspended" /\ pc' = "resume" =>
       events # <<>> /\ Head(events) = "resume"]_vars

\* Destroying the events of an abandoned await posts no other one.
NoPostAtTeardown == ~stuck

\* The wait ends once the future has finished, whichever way it did.
FinishedWaitEnds == "finished" \in future ~> pc = "over"

\* No completion is lost: while the coroutine is suspended on a future that has
\* finished, the continuation or the resumption is posted, or about to be.
NoLostFinish ==
  pc = "suspended" /\ Is("finished") =>
    ~guard /\ (events # <<>> \/ producer = "continue")

\* The co_await answers once, with what the finished future holds (an error is
\* no cancellation), and no event resumes it again.
Promise ==
  INSTANCE OneShot WITH
    Events <- Outcomes, Grounds <- {{o} : o \in Outcomes},
    happened <- {o \in Outcomes : \/ o = "value" /\ {"result", "finished"} \subseteq future
                                  \/ o = "error" /\ {"failed", "finished"} \subseteq future
                                  \/ o = "cancelled" /\ {"canceled", "finished"} \subseteq future
                                     /\ "failed" \notin future},
    answer <- IF outcome \in Outcomes THEN {outcome} ELSE {},
    wait <- CASE pc = "stray" -> "stray"
              [] pc # "stray" /\ outcome = "none" -> "waiting"
              [] pc # "stray" /\ outcome \in Outcomes -> "answered"
              [] pc # "stray" /\ outcome = "dropped" -> "dropped"

KeepsPromise == Promise!Spec

=============================================================================
