--------------------------- MODULE QSignalStream ---------------------------
(***************************************************************************)
(* One QSignalStream (include/QtCoroutine/qsignalstream.hpp): the control  *)
(* block its inputs share, and the coroutine that awaits next() in a loop. *)
(*                                                                         *)
(* The consumer lives on one thread.  An input (an emission, a stop        *)
(* request, the sender's destruction) runs on that thread (`here`) or on   *)
(* another one; each is one critical section of the control block's mutex. *)
(* What runs on the consumer's thread from its event loop (posted wakes,   *)
(* timers, inputs that are here, the destruction of the resumeOn() context)*)
(* finds the thread idle: it cannot come between the consumer's            *)
(* await_ready and await_suspend, nor between a wake and await_resume.     *)
(***************************************************************************)
EXTENDS Naturals, Sequences

CONSTANTS
  MaxEmits,      \* bound: emissions the stream accepts
  MaxWaits       \* bound: how often a next() may park

ASSUME StreamAssumption == MaxEmits \in Nat /\ MaxWaits \in Nat

VARIABLES
  builders,      \* the builders called that it still matters to know of
  queue,         \* the accepted emissions, by number, nobody consumed yet
  latestOnly,
  stopped,
  ended,
  ctxDestroyed,
  waiter,        \* is a parked next()'s handle stored?
  gen,           \* the number of the latest park
  timedOutGen,
  notifyPosted,
  wakes,         \* wake events posted to the context and not delivered
  timers,        \* the waits whose single-shot timer is still to fire
  pc,            \* where the consumer is
  m_gen,         \* its NextAwaitable's park, 0 if it never parked
  accepted,      \* history: how many emissions entered the queue
  delivered,     \* history: the values next() returned
  outcome        \* history: what the last next() came to

block == <<queue, latestOnly, stopped, ended, ctxDestroyed, waiter, gen,
           timedOutGen, notifyPosted>>
loop == <<wakes, timers>>
consumer == <<pc, m_gen>>
history == <<accepted, delivered, outcome>>
vars == <<builders, block, loop, consumer, history>>

-----------------------------------------------------------------------------

Numbers == 1..MaxEmits

Builders == {"cancelledBy", "withTimeout", "resumeOn"}

TypeOK ==
  /\ builders \subseteq Builders
  /\ queue \in Seq(Numbers) /\ delivered \in Seq(Numbers)
  /\ latestOnly \in BOOLEAN /\ stopped \in BOOLEAN /\ ended \in BOOLEAN
  /\ ctxDestroyed \in BOOLEAN /\ waiter \in BOOLEAN /\ notifyPosted \in BOOLEAN
  /\ gen \in 0..MaxWaits
  /\ timedOutGen \in 0..gen /\ m_gen \in 0..gen
  /\ timers \subseteq 1..gen
  /\ wakes \in 0..1
  /\ pc \in {"build", "running", "suspend", "parked", "resume", "finished"}
  /\ accepted \in 0..MaxEmits
  /\ outcome \in {"none", "value", "end", "Stopped", "ContextDestroyed", "Timeout"}

\* The constructor connects: emissions count from here on.
Init ==
  /\ builders = {}
  /\ queue = <<>> /\ latestOnly = FALSE
  /\ stopped = FALSE /\ ended = FALSE /\ ctxDestroyed = FALSE
  /\ waiter = FALSE /\ gen = 0 /\ timedOutGen = 0 /\ notifyPosted = FALSE
  /\ wakes = 0 /\ timers = {}
  /\ pc = "build" /\ m_gen = 0
  /\ accepted = 0 /\ delivered = <<>> /\ outcome = "none"

\* Mutant of LatestOnly: the wrong end of the queue is erased.
LatestOnlyKeepsFirst ==
  /\ pc = "build"
  /\ latestOnly' = TRUE
  /\ queue' = IF queue = <<>> THEN queue ELSE <<Head(queue)>>
  /\ UNCHANGED <<builders, stopped, ended, ctxDestroyed, waiter, gen, timedOutGen,
                 notifyPosted, loop, consumer, history>>

\* latestOnly() conflates what another thread queued since the constructor.
LatestOnly ==
  /\ pc = "build"
  /\ latestOnly' = TRUE
  /\ queue' = IF queue = <<>> THEN queue ELSE <<queue[Len(queue)]>>
  /\ UNCHANGED <<builders, stopped, ended, ctxDestroyed, waiter, gen, timedOutGen,
                 notifyPosted, loop, consumer, history>>

\* cancelledBy(): a stop callback is registered; on a token that was stopped
\* before it runs at once, and finds nobody to notify.
CancelledBy ==
  /\ pc = "build"
  /\ builders' = builders \cup {"cancelledBy"}
  /\ stopped' \in {stopped, TRUE}
  /\ UNCHANGED <<queue, latestOnly, ended, ctxDestroyed, waiter, gen, timedOutGen,
                 notifyPosted, loop, consumer, history>>

\* withTimeout(), and resumeOn() to the consumer's thread.
WithTimeout ==
  /\ pc = "build"
  /\ builders' = builders \cup {"withTimeout"}
  /\ UNCHANGED <<block, loop, consumer, history>>

ResumeOn ==
  /\ pc = "build"
  /\ builders' = builders \cup {"resumeOn"}
  /\ UNCHANGED <<block, loop, consumer, history>>

Built ==
  /\ pc = "build"
  /\ pc' = "running"
  /\ UNCHANGED <<builders, block, loop, m_gen, history>>

-----------------------------------------------------------------------------
(* The inputs.                                                             *)

\* The consumer's thread is in its event loop, or in code of the consumer
\* that emits or stops by itself; it is not inside next().
Idle == pc \in {"running", "parked", "finished"}

\* Disposing of the stream disconnects it: later, only an emission that is
\* already under way on another thread reaches the control block.
Connected(here) == here => pc \in {"running", "parked"}

\* notify(), with the mutex held: the input makes a parked next() deliverable.
\* On the consumer's thread resume it at once, else post one wake to it.
Notify(here) ==
  LET deliverable ==
        waiter /\ (stopped' \/ ended' \/ queue' # <<>>) /\ ~ctxDestroyed IN
  /\ waiter' = (waiter /\ ~(deliverable /\ here))
  /\ pc' = IF deliverable /\ here THEN "resume" ELSE pc
  /\ notifyPosted' = (notifyPosted \/ (deliverable /\ ~here))
  /\ wakes' = IF deliverable /\ ~here /\ ~notifyPosted THEN wakes + 1 ELSE wakes

\* The signal lambda: queue the values, unless the stream is over.
Emit(here) ==
  /\ Connected(here)
  /\ ~stopped /\ ~ended /\ ~ctxDestroyed
  /\ accepted < MaxEmits
  /\ accepted' = accepted + 1
  /\ queue' = Append(IF latestOnly THEN <<>> ELSE queue, accepted + 1)
  /\ UNCHANGED <<stopped, ended>>
  /\ Notify(here)
  /\ UNCHANGED <<builders, latestOnly, ctxDestroyed, gen, timedOutGen, timers, m_gen,
                 delivered, outcome>>

\* The `destroyed` lambda of the sender.
SenderDestroyed(here) ==
  /\ Connected(here)
  /\ ~ended
  /\ ended' = TRUE
  /\ UNCHANGED <<queue, stopped>>
  /\ Notify(here)
  /\ UNCHANGED <<builders, latestOnly, ctxDestroyed, gen, timedOutGen, timers, m_gen,
                 history>>

\* The stop callback; disposing of the stream waits for it and removes it.
Stop(here) ==
  /\ "cancelledBy" \in builders
  /\ Connected(here)
  /\ pc # "finished"
  /\ ~stopped
  /\ stopped' = TRUE
  /\ UNCHANGED <<queue, ended>>
  /\ Notify(here)
  /\ UNCHANGED <<builders, latestOnly, ctxDestroyed, gen, timedOutGen, timers, m_gen,
                 history>>

\* The `destroyed` lambda of resumeOn()'s context, on its own thread.  What
\* was posted to the context, and its timers, go with it.
ContextDestroyed ==
  /\ "resumeOn" \in builders
  /\ pc \in {"running", "parked"}
  /\ ~ctxDestroyed
  /\ ctxDestroyed' = TRUE
  /\ waiter' = FALSE
  /\ pc' = IF waiter THEN "resume" ELSE pc
  /\ wakes' = 0 /\ timers' = {}
  /\ UNCHANGED <<builders, queue, latestOnly, stopped, ended, gen, timedOutGen,
                 notifyPosted, m_gen, history>>

-----------------------------------------------------------------------------
(* The consumer's event loop.                                              *)

\* Mutant of DeliverWake: notifyPosted is reset only if somebody is woken.
DeliverWakeKeepsPosted ==
  /\ Idle /\ wakes > 0
  /\ wakes' = wakes - 1
  /\ LET take == waiter /\ (stopped \/ ended \/ queue # <<>>) IN
     /\ waiter' = (waiter /\ ~take)
     /\ notifyPosted' = ~take
     /\ pc' = IF take THEN "resume" ELSE pc
  /\ UNCHANGED <<builders, queue, latestOnly, stopped, ended, ctxDestroyed, gen,
                 timedOutGen, timers, m_gen, history>>

\* A posted wake is delivered: it may find nobody waiting, or a later next()
\* that has nothing to wake for.
DeliverWake ==
  /\ Idle /\ wakes > 0
  /\ wakes' = wakes - 1
  /\ notifyPosted' = FALSE
  /\ LET take == waiter /\ (stopped \/ ended \/ queue # <<>>) IN
     /\ waiter' = (waiter /\ ~take)
     /\ pc' = IF take THEN "resume" ELSE pc
  /\ UNCHANGED <<builders, queue, latestOnly, stopped, ended, ctxDestroyed, gen,
                 timedOutGen, timers, m_gen, history>>

\* Mutant of TimerFires: a stale timer takes whoever waits.
TimerFiresStale(g) ==
  /\ Idle /\ g \in timers
  /\ timers' = timers \ {g}
  /\ IF waiter
       THEN timedOutGen' = g /\ waiter' = FALSE /\ pc' = "resume"
       ELSE UNCHANGED <<timedOutGen, waiter, pc>>
  /\ UNCHANGED <<builders, queue, latestOnly, stopped, ended, ctxDestroyed, gen,
                 notifyPosted, wakes, m_gen, history>>

\* The timer that wait g armed fires: stale unless that wait is still on.
TimerFires(g) ==
  /\ Idle /\ g \in timers
  /\ timers' = timers \ {g}
  /\ IF waiter /\ gen = g
       THEN timedOutGen' = g /\ waiter' = FALSE /\ pc' = "resume"
       ELSE UNCHANGED <<timedOutGen, waiter, pc>>
  /\ UNCHANGED <<builders, queue, latestOnly, stopped, ended, ctxDestroyed, gen,
                 notifyPosted, wakes, m_gen, history>>

-----------------------------------------------------------------------------
(* The consumer.                                                           *)

Ready == stopped \/ ctxDestroyed \/ ended \/ queue # <<>>

\* next() and its await_ready.
AwaitReady ==
  /\ pc = "running"
  /\ Ready \/ gen < MaxWaits
  /\ m_gen' = 0
  /\ pc' = IF Ready THEN "resume" ELSE "suspend"
  /\ UNCHANGED <<builders, block, loop, history>>

\* Mutant of AwaitSuspend: only the first wait arms the timeout.
AwaitSuspendArmsOnce ==
  /\ pc = "suspend"
  /\ IF Ready
       THEN pc' = "resume" /\ UNCHANGED <<waiter, gen, m_gen, timers>>
       ELSE /\ pc' = "parked"
            /\ waiter' = TRUE
            /\ gen' = gen + 1
            /\ m_gen' = gen'
            /\ timers' = IF "withTimeout" \in builders /\ gen = 0 THEN {gen'} ELSE timers
  /\ UNCHANGED <<builders, queue, latestOnly, stopped, ended, ctxDestroyed, timedOutGen,
                 notifyPosted, wakes, history>>

\* await_suspend re-checks under the mutex, parks, and arms the timeout.
AwaitSuspend ==
  /\ pc = "suspend"
  /\ IF Ready
       THEN pc' = "resume" /\ UNCHANGED <<waiter, gen, m_gen, timers>>
       ELSE /\ pc' = "parked"
            /\ waiter' = TRUE
            /\ gen' = gen + 1
            /\ m_gen' = gen'
            /\ timers' = IF "withTimeout" \in builders THEN timers \cup {gen'} ELSE timers
  /\ UNCHANGED <<builders, queue, latestOnly, stopped, ended, ctxDestroyed, timedOutGen,
                 notifyPosted, wakes, history>>

\* Mutant of AwaitResume: the value is taken off the queue before the abort.
AwaitResumePopsFirst ==
  /\ pc = "resume"
  /\ pc' = "running"
  /\ queue' = IF queue = <<>> THEN queue ELSE Tail(queue)
  /\ \/ /\ stopped \/ ctxDestroyed
        /\ outcome' = IF stopped THEN "Stopped" ELSE "ContextDestroyed"
        /\ UNCHANGED delivered
     \/ /\ ~stopped /\ ~ctxDestroyed /\ queue # <<>>
        /\ outcome' = "value"
        /\ delivered' = Append(delivered, Head(queue))
     \/ /\ ~stopped /\ ~ctxDestroyed /\ queue = <<>>
        /\ outcome' = IF ended THEN "end" ELSE "Timeout"
        /\ UNCHANGED delivered
  /\ UNCHANGED <<builders, latestOnly, stopped, ended, ctxDestroyed, waiter, gen,
                 timedOutGen, notifyPosted, loop, m_gen, accepted>>

\* Mutant of AwaitResume: the end is reported before the queue is drained.
AwaitResumeEndFirst ==
  /\ pc = "resume"
  /\ pc' = "running"
  /\ \/ /\ stopped \/ ctxDestroyed
        /\ outcome' = IF stopped THEN "Stopped" ELSE "ContextDestroyed"
        /\ UNCHANGED <<queue, delivered>>
     \/ /\ ~stopped /\ ~ctxDestroyed /\ ~ended /\ queue # <<>>
        /\ outcome' = "value"
        /\ delivered' = Append(delivered, Head(queue))
        /\ queue' = Tail(queue)
     \/ /\ ~stopped /\ ~ctxDestroyed /\ (ended \/ queue = <<>>)
        /\ outcome' = IF ended THEN "end" ELSE "Timeout"
        /\ UNCHANGED <<queue, delivered>>
  /\ UNCHANGED <<builders, latestOnly, stopped, ended, ctxDestroyed, waiter, gen,
                 timedOutGen, notifyPosted, loop, m_gen, accepted>>

\* await_resume: an abort first, then a value, the end, and last a timeout.
\* With none of them the code is at std::unreachable().
AwaitResume ==
  /\ pc = "resume"
  /\ pc' = "running"
  /\ \/ /\ stopped \/ ctxDestroyed
        /\ outcome' = IF stopped THEN "Stopped" ELSE "ContextDestroyed"
        /\ UNCHANGED <<queue, delivered>>
     \/ /\ ~stopped /\ ~ctxDestroyed /\ queue # <<>>
        /\ outcome' = "value"
        /\ delivered' = Append(delivered, Head(queue))
        /\ queue' = Tail(queue)
     \/ /\ ~stopped /\ ~ctxDestroyed /\ queue = <<>>
        /\ \/ ended /\ outcome' = "end"
           \/ ~ended /\ m_gen # 0 /\ timedOutGen = m_gen /\ outcome' = "Timeout"
        /\ UNCHANGED <<queue, delivered>>
  /\ UNCHANGED <<builders, latestOnly, stopped, ended, ctxDestroyed, waiter, gen,
                 timedOutGen, notifyPosted, loop, m_gen, accepted>>

\* ~NextAwaitable of wait g: the one the consumer is parked in (its frame is
\* destroyed and another consumer takes over), or one of an earlier wait that
\* was kept in a variable.
AwaitableDestroyed(g) ==
  /\ Idle /\ g \in 1..gen
  /\ waiter' = (waiter /\ gen # g)
  /\ pc' = IF pc = "parked" /\ m_gen = g THEN "running" ELSE pc
  /\ UNCHANGED <<builders, queue, latestOnly, stopped, ended, ctxDestroyed, gen,
                 timedOutGen, notifyPosted, loop, m_gen, history>>

\* ~QSignalStream, once no next() is pending.
Dispose ==
  /\ pc = "running"
  /\ pc' = "finished"
  /\ UNCHANGED <<builders, block, loop, m_gen, history>>

-----------------------------------------------------------------------------

Consume == AwaitSuspend \/ AwaitResume

Timeout == \E g \in timers : TimerFires(g)

Next ==
  \/ LatestOnly \/ CancelledBy \/ WithTimeout \/ ResumeOn \/ Built
  \/ \E here \in BOOLEAN : Emit(here) \/ SenderDestroyed(here) \/ Stop(here)
  \/ ContextDestroyed \/ DeliverWake \/ Timeout
  \/ AwaitReady \/ Consume
  \/ \E g \in 1..gen : AwaitableDestroyed(g)
  \/ Dispose

Spec == Init /\ [][Next]_vars

\* The consumer's thread runs its event loop (await_suspend asserts that it
\* has one): posted wakes and expired timers are delivered, and a next() that
\* has begun goes on.  No input is obliged to come.
Fairness == WF_vars(DeliverWake) /\ WF_vars(Timeout) /\ WF_vars(Consume)

FairSpec == Spec /\ Fairness

-----------------------------------------------------------------------------
(* Safety.                                                                 *)

\* A stream that is not latestOnly() loses, repeats and reorders nothing it
\* accepted, however emissions fall between the consumer's steps.
Lossless ==
  ~latestOnly => delivered \o queue = [i \in 1..accepted |-> i]

\* latestOnly() drops stale values only: one value waits at most, values come
\* in the order of their emission, and the newest is waiting or was the last
\* one delivered.
Conflated ==
  LET kept == delivered \o queue IN
  /\ latestOnly => Len(queue) <= 1
  /\ \A i \in 1..Len(kept) - 1 : kept[i] < kept[i + 1]
  /\ accepted > 0 => kept # <<>> /\ kept[Len(kept)] = accepted

\* No lost wake-up: a next() parked on a stream with something to deliver has
\* a wake on its way, and a context to receive it; and notifyPosted, which
\* coalesces wakes, is set exactly while one is in the context's event queue.
NoLostWakeup ==
  /\ pc = "parked" <=> waiter
  /\ waiter => ~ctxDestroyed /\ (stopped \/ ended \/ queue # <<>> => wakes > 0)
  /\ ~ctxDestroyed => (notifyPosted <=> wakes = 1)

\* await_resume's std::unreachable() is: whatever resumes the consumer, and
\* whatever happens before it gets the mutex, leaves it something to report.
NeverUnreachable ==
  pc = "resume" => Ready \/ (m_gen # 0 /\ timedOutGen = m_gen)

\* The end is reported only once everything queued has been drained; what
\* next() reports after the end or an abort is no value and no timeout any
\* more, and no other abort takes the place of Stopped.
TerminalStays ==
  [][/\ outcome' = "end" => queue' = <<>>
     /\ outcome \in {"end", "Stopped", "ContextDestroyed"} =>
          outcome' \notin {"value", "Timeout"}
     /\ outcome = "Stopped" => outcome' = "Stopped"]_vars

-----------------------------------------------------------------------------
(* Refinement.                                                             *)

\* To the consumer the stream is a log read in order: neither the threads its
\* inputs come from, nor coalesced and posted wakes, nor timers left behind by
\* earlier waits show in what next() returns.
Contract ==
  INSTANCE StreamSpec WITH
    log <- delivered \o queue, read <- Len(delivered),
    timed <- "withTimeout" \in builders,
    over <- {why \in {"end", "Stopped", "ContextDestroyed"} :
               \/ why = "end" /\ ended
               \/ why = "Stopped" /\ stopped
               \/ why = "ContextDestroyed" /\ ctxDestroyed},
    asked <- pc \in {"suspend", "parked", "resume"},
    expired <- m_gen # 0 /\ timedOutGen = m_gen,
    answer <- outcome

ImplementsStream == Contract!Spec

-----------------------------------------------------------------------------
(* Liveness.                                                               *)

\* A parked next() ends once there is a value, the end or an abort for it, and
\* with a timeout anyway, every one of a loop's.
WaitEnds ==
  pc = "parked" /\ (Ready \/ "withTimeout" \in builders) ~> pc # "parked"

=============================================================================
