-------------------------- MODULE StreamDisposal --------------------------
(***************************************************************************)
(* ~QSignalStream against a stop callback and emissions in progress        *)
(* (include/QtCoroutine/qsignalstream.hpp), lock by lock.  QSignalStream   *)
(* takes disposal for one step; here it is what it is: the stop callback   *)
(* is waited for, the connections are cut, the mutex is taken once more    *)
(* and the handle's reference to the control block released.               *)
(*                                                                         *)
(* Emissions come from other threads.  The stop is requested on one, or on *)
(* the consumer's thread (`here`); there the callback may resume the       *)
(* consumer, which then may dispose of the stream inside its own stop      *)
(* callback.  The references that awaitables, timers and posted wakes hold *)
(* are left out: they keep the control block alive longer.                 *)
(***************************************************************************)
CONSTANT Emissions    \* the emissions that may be in progress

\* What the mutex may be besides held by an emission.
MutexStates == {"free", "stop", "dispose", "destroyed", "destroyed locked"}

ASSUME DisposalAssumption == Emissions \cap MutexStates = {}

VARIABLES
  mutex,       \* who holds the control block's mutex
  refs,        \* who holds a reference to the control block
  stop,        \* the stop callback
  here,        \* is it called on the consumer's thread?
  emission,    \* each emission
  dispose      \* the next thing dispose() does

vars == <<mutex, refs, stop, here, emission, dispose>>

TypeOK ==
  /\ mutex \in MutexStates \cup Emissions
  /\ refs \subseteq {"handle", "stop", "signal"}
  /\ stop \in {"armed", "called", "locked", "resuming", "over"}
  /\ here \in BOOLEAN
  /\ emission \in [Emissions -> {"none", "called", "locked", "unlocked", "over"}]
  /\ dispose \in {"begin", "reset", "disconnect", "lock", "unlock", "release", "done"}
  \* The mutex is held by whoever is in its critical section.
  /\ mutex = "stop" <=> stop = "locked"
  /\ mutex = "dispose" <=> dispose = "unlock"
  /\ \A e \in Emissions : mutex = e <=> emission[e] = "locked"

\* Built with cancelledBy(); the signal's lambda and the stop callback hold a
\* reference each.
Init ==
  /\ mutex = "free"
  /\ refs = {"handle", "stop", "signal"}
  /\ stop = "armed" /\ here = FALSE
  /\ emission = [e \in Emissions |-> "none"]
  /\ dispose = "begin"

\* The last reference to go takes the control block, and the mutex, with it.
Release(who) ==
  /\ refs' = refs \ who
  /\ mutex' = IF refs' # {} THEN mutex
              ELSE IF mutex = "free" THEN "destroyed" ELSE "destroyed locked"

Cut == dispose \notin {"begin", "reset", "disconnect"}

\* The signal's lambda is freed once it is disconnected and not running.
SignalRef(running) == IF running = {} THEN {"signal"} ELSE {}

Running == {e \in Emissions : emission[e] \in {"called", "locked", "unlocked"}}

-----------------------------------------------------------------------------
(* The inputs.                                                             *)

RequestStop ==
  /\ stop = "armed"
  /\ here' \in {FALSE, dispose = "begin"}
  /\ stop' = "called"
  /\ UNCHANGED <<mutex, refs, emission, dispose>>

StopLocks ==
  /\ stop = "called" /\ mutex = "free"
  /\ stop' = "locked" /\ mutex' = "stop"
  /\ UNCHANGED <<refs, here, emission, dispose>>

\* notify() lets go of the mutex before it resumes a consumer parked here.
StopUnlocks ==
  /\ stop = "locked"
  /\ mutex' = "free"
  /\ stop' \in {"over"} \cup (IF here THEN {"resuming"} ELSE {})
  /\ UNCHANGED <<refs, here, emission, dispose>>

\* The consumer, resumed inside the callback, ends or suspends again.
StopReturns ==
  /\ stop = "resuming" /\ dispose \in {"begin", "done"}
  /\ stop' = "over"
  /\ UNCHANGED <<mutex, refs, here, emission, dispose>>

Emit(e) ==
  /\ emission[e] = "none" /\ ~Cut
  /\ emission' = [emission EXCEPT ![e] = "called"]
  /\ UNCHANGED <<mutex, refs, stop, here, dispose>>

EmitLocks(e) ==
  /\ emission[e] = "called" /\ mutex = "free"
  /\ emission' = [emission EXCEPT ![e] = "locked"]
  /\ mutex' = e
  /\ UNCHANGED <<refs, stop, here, dispose>>

EmitUnlocks(e) ==
  /\ emission[e] = "locked"
  /\ emission' = [emission EXCEPT ![e] = "unlocked"]
  /\ mutex' = "free"
  /\ UNCHANGED <<refs, stop, here, dispose>>

EmitReturns(e) ==
  /\ emission[e] = "unlocked"
  /\ emission' = [emission EXCEPT ![e] = "over"]
  /\ IF Cut THEN Release(SignalRef(Running \ {e})) ELSE UNCHANGED <<mutex, refs>>
  /\ UNCHANGED <<stop, here, dispose>>

-----------------------------------------------------------------------------
(* dispose(), on the consumer's thread.                                    *)

\* Mutant of DisposeBegin: the mutex is taken for the whole of it.
DisposeBeginLocked ==
  /\ dispose = "begin" /\ mutex = "free"
  /\ here => stop \in {"armed", "resuming", "over"}
  /\ dispose' = "reset"
  /\ mutex' = "dispose"
  /\ UNCHANGED <<refs, stop, here, emission>>

\* The stream's end: not while the consumer's thread is in the callback itself.
DisposeBegin ==
  /\ dispose = "begin"
  /\ here => stop \in {"armed", "resuming", "over"}
  /\ dispose' = "reset"
  /\ UNCHANGED <<mutex, refs, stop, here, emission>>

\* Mutant of StopReset: a callback in progress is not waited for.
StopResetNoWait ==
  /\ dispose = "reset"
  /\ dispose' = "disconnect"
  /\ stop' = IF stop = "armed" THEN "over" ELSE stop
  /\ Release({"stop"})
  /\ UNCHANGED <<here, emission>>

\* m_stopCallback.reset() waits for a callback that another thread is in.
StopReset ==
  /\ dispose = "reset"
  /\ stop \notin {"called", "locked"}
  /\ dispose' = "disconnect"
  /\ stop' = IF stop = "armed" THEN "over" ELSE stop
  /\ Release({"stop"})
  /\ UNCHANGED <<here, emission>>

\* The connections are cut; a lambda that is running runs on.
Disconnect ==
  /\ dispose = "disconnect"
  /\ dispose' = "lock"
  /\ Release(SignalRef(Running))
  /\ UNCHANGED <<stop, here, emission>>

DisposeLocks ==
  /\ dispose = "lock" /\ mutex = "free"
  /\ dispose' = "unlock" /\ mutex' = "dispose"
  /\ UNCHANGED <<refs, stop, here, emission>>

DisposeUnlocks ==
  /\ dispose = "unlock"
  /\ dispose' = "release" /\ mutex' = "free"
  /\ UNCHANGED <<refs, stop, here, emission>>

\* m_cb.reset()
ReleaseHandle ==
  /\ dispose = "release"
  /\ dispose' = "done"
  /\ Release({"handle"})
  /\ UNCHANGED <<stop, here, emission>>

-----------------------------------------------------------------------------

StopGoesOn == StopLocks \/ StopUnlocks \/ StopReturns

EmissionGoesOn(e) == EmitLocks(e) \/ EmitUnlocks(e) \/ EmitReturns(e)

DisposalGoesOn ==
  StopReset \/ Disconnect \/ DisposeLocks \/ DisposeUnlocks \/ ReleaseHandle

Next ==
  \/ RequestStop \/ StopGoesOn
  \/ \E e \in Emissions : Emit(e) \/ EmissionGoesOn(e)
  \/ DisposeBegin \/ DisposalGoesOn

Spec == Init /\ [][Next]_vars

\* Threads run on; the mutex may be taken from under a waiter again and again,
\* but only as often as there are emissions.
FairSpec ==
  /\ Spec
  /\ WF_vars(StopGoesOn) /\ WF_vars(DisposalGoesOn)
  /\ \A e \in Emissions : WF_vars(EmissionGoesOn(e))

-----------------------------------------------------------------------------

\* Whoever is about to use the control block, its mutex included, has it, and
\* the mutex is not destroyed while somebody holds it.
BlockAlive ==
  refs = {} =>
    /\ mutex = "destroyed"
    /\ stop \notin {"called", "locked"}
    /\ Running = {}
    /\ dispose = "done"

\* What dispose() waits for does not wait for dispose(): while it waits for a
\* stop callback, or for the mutex, the mutex is free or held by an emission or
\* a callback that is about to let go of it.
NoCircularWait ==
  \/ dispose = "reset" /\ stop \in {"called", "locked"}
  \/ dispose = "lock"
  => \/ mutex = "free"
     \/ mutex = "stop" /\ stop = "locked" /\ dispose = "reset"
     \/ \E e \in Emissions : mutex = e /\ emission[e] = "locked"

\* Once disposal has waited for it, the stop callback sets nothing in the control
\* block any more: in QSignalStream no Stop follows Dispose.
NoLateStop ==
  [][dispose \notin {"begin", "reset"} =>
       stop' \notin {"armed", "called", "locked"} /\ mutex' # "stop"]_vars

\* Disposal ends, and frees the control block: it waits for a stop callback
\* that waits for the mutex, and for no more than that.
DisposalEnds == dispose # "begin" ~> dispose = "done" /\ mutex = "destroyed"

=============================================================================
