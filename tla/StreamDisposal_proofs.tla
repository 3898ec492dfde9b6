----------------------- MODULE StreamDisposal_proofs -----------------------
(***************************************************************************)
(* Proofs about StreamDisposal, for any set of emissions in progress.      *)
(***************************************************************************)
EXTENDS StreamDisposal, TLAPS

\* Who holds a reference, and for how long.
RefInv ==
  /\ "handle" \in refs <=> dispose # "done"
  /\ "stop" \in refs <=> dispose \in {"begin", "reset"}
  /\ "signal" \in refs <=> ~Cut \/ Running # {}

\* The stop callback is over, but for a consumer it resumed, once disposal has
\* waited for it; the mutex goes with the last reference, and is free then.
StopInv ==
  /\ dispose \notin {"begin", "reset"} => stop \in {"resuming", "over"}
  /\ mutex # "destroyed locked"
  /\ mutex = "destroyed" <=> refs = {}

IInv == TypeOK /\ RefInv /\ StopInv

-----------------------------------------------------------------------------

LEMMA InvInit == Init => IInv
<1> SUFFICES ASSUME Init PROVE IInv OBVIOUS
<1> USE DEF Init
<1>1. TypeOK
  <2>1. here \in BOOLEAN OBVIOUS
  <2> QED BY <2>1, DisposalAssumption DEF TypeOK, MutexStates
<1>2. RefInv /\ StopInv
  BY DEF RefInv, StopInv, Cut
<1> QED BY <1>1, <1>2 DEF IInv

\* The lambda's reference goes when the last emission that runs it is over.
LEMMA ReleaseLemma ==
  ASSUME NEW who, Release(who)
  PROVE  /\ refs' = refs \ who
         /\ refs' # {} => mutex' = mutex
         /\ refs' = {} /\ mutex = "free" => mutex' = "destroyed"
  BY DEF Release

\* The stop callback.
LEMMA StopStep ==
  ASSUME IInv, RequestStop \/ StopGoesOn PROVE IInv'
<1> USE DisposalAssumption
    DEF IInv, TypeOK, RefInv, StopInv, MutexStates, Cut, Running
<1>1. CASE RequestStop
  <2>1. here' \in BOOLEAN
    BY <1>1 DEF RequestStop
  <2> QED BY <1>1, <2>1 DEF RequestStop
<1>2. CASE StopLocks
  BY <1>2 DEF StopLocks
<1>3. CASE StopUnlocks
  <2>1. stop' \in {"over", "resuming"}
    BY <1>3 DEF StopUnlocks
  <2> QED BY <1>3, <2>1 DEF StopUnlocks
<1>4. CASE StopReturns
  BY <1>4 DEF StopReturns
<1> QED BY <1>1, <1>2, <1>3, <1>4 DEF StopGoesOn

\* An emission.
LEMMA EmissionStep ==
  ASSUME IInv, NEW e \in Emissions, Emit(e) \/ EmissionGoesOn(e) PROVE IInv'
<1> USE DisposalAssumption DEF IInv, TypeOK, RefInv, StopInv, MutexStates, Cut
<1>1. CASE Emit(e)
  BY <1>1 DEF Emit
<1>2. CASE EmitLocks(e)
  <2>1. Running' = Running
    BY <1>2 DEF EmitLocks, Running
  <2> QED BY <1>2, <2>1 DEF EmitLocks
<1>3. CASE EmitUnlocks(e)
  <2>1. Running' = Running
    BY <1>3 DEF EmitUnlocks, Running
  <2> QED BY <1>3, <2>1 DEF EmitUnlocks
<1>4. CASE EmitReturns(e)
  <2>1. /\ Running' = Running \ {e} /\ e \in Running
        /\ emission' \in [Emissions -> {"none", "called", "locked", "unlocked", "over"}]
        /\ \A f \in Emissions : emission'[f] = "locked" <=> emission[f] = "locked"
        /\ UNCHANGED <<stop, here, dispose>>
    BY <1>4 DEF EmitReturns, Running
  <2>2. CASE ~Cut
    BY <1>4, <2>1, <2>2 DEF EmitReturns
  <2>3. CASE Cut
    <3>1. Release(SignalRef(Running \ {e}))
      BY <1>4, <2>3 DEF EmitReturns
    <3>2. "signal" \in refs' <=> Running' # {}
      BY <2>1, <2>3, <3>1 DEF Release, SignalRef
    <3>3. /\ refs' \subseteq refs
          /\ "handle" \in refs' <=> "handle" \in refs
          /\ "stop" \in refs' <=> "stop" \in refs
      BY <3>1 DEF Release, SignalRef
    <3>4. refs' = {} => mutex = "free"
      \* Nobody is left who could hold it.
      <4> SUFFICES ASSUME refs' = {} PROVE mutex = "free" OBVIOUS
      <4>1. dispose = "done" /\ Running' = {} /\ stop # "locked"
        BY <2>1, <3>2, <3>3
      <4>2. \A f \in Emissions : emission[f] # "locked"
        BY <2>1, <4>1 DEF Running
      <4> QED BY <2>1, <4>1, <4>2
    <3>5. IF refs' = {} THEN mutex = "free" /\ mutex' = "destroyed" ELSE mutex' = mutex
      BY <3>1, <3>4 DEF Release
    <3>6. TypeOK'
      BY <2>1, <3>3, <3>5
    <3>7. RefInv'
      BY <2>1, <2>3, <3>2, <3>3
    <3>8. StopInv'
      BY <2>1, <3>3, <3>5
    <3> QED BY <3>6, <3>7, <3>8
  <2> QED BY <2>2, <2>3
<1> QED BY <1>1, <1>2, <1>3, <1>4 DEF EmissionGoesOn

\* dispose().
LEMMA DisposeStep ==
  ASSUME IInv, DisposeBegin \/ DisposalGoesOn PROVE IInv'
<1> USE DisposalAssumption DEF IInv, TypeOK, RefInv, StopInv, MutexStates, Cut
<1>1. CASE DisposeBegin
  BY <1>1 DEF DisposeBegin, Running
<1>2. CASE StopReset
  <2>1. refs' = refs \ {"stop"} /\ mutex' = mutex
    <3>1. Release({"stop"}) /\ "handle" \in refs
      BY <1>2 DEF StopReset
    <3>2. refs' = refs \ {"stop"} /\ "handle" \in refs'
      BY <3>1 DEF Release
    <3> QED BY <3>1, <3>2 DEF Release
  <2>2. /\ dispose = "reset" /\ dispose' = "disconnect" /\ stop' \in {"resuming", "over"}
        /\ stop # "locked" /\ UNCHANGED <<here, emission>>
    BY <1>2 DEF StopReset
  <2> QED BY <2>1, <2>2 DEF Running
<1>3. CASE Disconnect
  <2>1. /\ dispose = "disconnect" /\ dispose' = "lock" /\ UNCHANGED <<stop, here, emission>>
        /\ Release(SignalRef(Running))
    BY <1>3 DEF Disconnect
  <2>2. "signal" \in refs' <=> Running # {}
    BY <2>1 DEF Release, SignalRef
  <2>3. "handle" \in refs' /\ ("stop" \in refs' <=> "stop" \in refs) /\ refs' \subseteq refs
    BY <2>1 DEF Release, SignalRef
  <2>4. mutex' = mutex
    BY <2>1, <2>3, ReleaseLemma
  <2> QED BY <2>1, <2>2, <2>3, <2>4 DEF Running
<1>4. CASE DisposeLocks \/ DisposeUnlocks
  BY <1>4 DEF DisposeLocks, DisposeUnlocks, Running
<1>5. CASE ReleaseHandle
  <2>1. /\ dispose = "release" /\ dispose' = "done" /\ UNCHANGED <<stop, here, emission>>
        /\ Release({"handle"})
    BY <1>5 DEF ReleaseHandle
  <2>2. refs' = refs \ {"handle"}
    BY <2>1, ReleaseLemma
  <2>3. refs' = {} => mutex = "free"
    <3> SUFFICES ASSUME refs' = {} PROVE mutex = "free" OBVIOUS
    <3>1. Running = {} /\ stop # "locked" /\ refs # {}
      BY <2>1, <2>2
    <3>2. \A f \in Emissions : emission[f] # "locked"
      BY <3>1 DEF Running
    <3> QED BY <2>1, <3>1, <3>2
  <2> QED BY <2>1, <2>2, <2>3, ReleaseLemma DEF Running
<1> QED BY <1>1, <1>2, <1>3, <1>4, <1>5 DEF DisposalGoesOn

LEMMA Invariance == Spec => []IInv
<1>1. IInv /\ [Next]_vars => IInv'
  <2> SUFFICES ASSUME IInv, [Next]_vars PROVE IInv'
    OBVIOUS
  <2>1. CASE UNCHANGED vars
    BY <2>1 DEF vars, IInv, TypeOK, RefInv, StopInv, Cut, Running
  <2> QED BY <2>1, StopStep, EmissionStep, DisposeStep DEF Next
<1> QED BY <1>1, InvInit, PTL DEF Spec

-----------------------------------------------------------------------------

\* Every variable keeps its type, and the mutex is held by whoever is in its
\* critical section.
THEOREM TypeCorrect == Spec => []TypeOK
BY Invariance, PTL DEF IInv

\* The control block, and the mutex in it, outlive every emission, the stop
\* callback and dispose() itself (qsignalstream.hpp:398-418).
THEOREM Lifetime == Spec => []BlockAlive
<1>1. IInv => BlockAlive
  BY DisposalAssumption DEF IInv, TypeOK, RefInv, StopInv, MutexStates, Cut, BlockAlive
<1> QED BY <1>1, Invariance, PTL

\* m_stopCallback.reset() is called without the mutex (404), and by the time
\* the mutex is taken (410) no stop callback can take it any more.
THEOREM NoDeadlock == Spec => []NoCircularWait
<1>1. IInv => NoCircularWait
  BY DisposalAssumption DEF IInv, TypeOK, RefInv, StopInv, MutexStates, NoCircularWait
<1> QED BY <1>1, Invariance, PTL

\* stop_callback's destructor, in dispose() (404), returns after the callback.
THEOREM StopEndsFirst == Spec => NoLateStop
<1>1. IInv /\ [Next]_vars /\ IInv' =>
        [dispose \notin {"begin", "reset"} =>
           stop' \notin {"armed", "called", "locked"} /\ mutex' # "stop"]_vars
  <2> SUFFICES ASSUME IInv, IInv', Next, dispose \notin {"begin", "reset"}
               PROVE  dispose' \notin {"begin", "reset"}
    BY DEF IInv, TypeOK, StopInv
  <2> QED
    BY DEF Next, RequestStop, StopGoesOn, StopLocks, StopUnlocks, StopReturns, Emit,
       EmissionGoesOn, EmitLocks, EmitUnlocks, EmitReturns, DisposeBegin, DisposalGoesOn,
       StopReset, Disconnect, DisposeLocks, DisposeUnlocks, ReleaseHandle
<1> QED BY <1>1, Invariance, PTL DEF Spec, NoLateStop

=============================================================================
