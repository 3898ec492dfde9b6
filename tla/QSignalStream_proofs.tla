------------------------ MODULE QSignalStream_proofs ------------------------
(***************************************************************************)
(* Proofs about QSignalStream, for any bounds and any set of builders.     *)
(***************************************************************************)
EXTENDS QSignalStream, SequenceTheorems, TLAPS

\* The wake protocol: a handle is stored exactly while the consumer is
\* parked; notifyPosted mirrors the event queue; a wait is woken for a reason.
WakeInv ==
  /\ pc = "parked" <=> waiter
  /\ waiter => ~ctxDestroyed /\ m_gen = gen
  /\ waiter /\ (stopped \/ ended \/ queue # <<>>) => wakes > 0
  /\ ~ctxDestroyed => (notifyPosted <=> wakes = 1)
  /\ ctxDestroyed => wakes = 0
  /\ pc = "suspend" => gen < MaxWaits
  /\ pc = "resume" => Ready \/ (m_gen # 0 /\ timedOutGen = m_gen)

\* What an outcome says about the flags, once and for all.
OutcomeInv ==
  /\ outcome = "end" => ended /\ queue = <<>>
  /\ outcome = "Stopped" => stopped
  /\ outcome = "ContextDestroyed" => ctxDestroyed

IInv == TypeOK /\ WakeInv /\ OutcomeInv

-----------------------------------------------------------------------------

\* notify() on its own, for any input that leaves the other state alone.
LEMMA NotifyLemma ==
  ASSUME TypeOK, WakeInv, NEW here \in BOOLEAN, Notify(here), here => Idle,
         UNCHANGED <<ctxDestroyed, gen, m_gen, timedOutGen>>,
         queue # <<>> => queue' # <<>>, stopped => stopped', ended => ended'
  PROVE  /\ WakeInv'
         /\ pc' \in {pc, "resume"}
         /\ wakes' \in 0..1
         /\ notifyPosted' \in BOOLEAN /\ waiter' \in BOOLEAN
<1> DEFINE deliverable ==
             waiter /\ (stopped' \/ ended' \/ queue' # <<>>) /\ ~ctxDestroyed
<1> USE DEF Notify, WakeInv, TypeOK, Ready
<1>0. ctxDestroyed' = ctxDestroyed
  OBVIOUS
<1>1. CASE ~deliverable
  <2>1. /\ waiter' = waiter /\ pc' = pc /\ wakes' = wakes
        /\ notifyPosted' = notifyPosted
    BY <1>1
  <2> QED BY <1>1, <2>1
<1>2. CASE deliverable /\ here
  <2>1. /\ ~waiter' /\ pc' = "resume" /\ wakes' = wakes
        /\ notifyPosted' = notifyPosted
    BY <1>2
  <2> QED BY <1>2, <2>1
<1>3. CASE deliverable /\ ~here
  <2>1. /\ waiter' /\ pc' = pc /\ notifyPosted'
        /\ wakes' = IF notifyPosted THEN wakes ELSE wakes + 1
    BY <1>3
  <2>2. wakes' = 1
    BY <1>3, <2>1
  <2> QED BY <1>3, <2>1, <2>2
<1> QED BY <1>1, <1>2, <1>3

LEMMA InvInit == Init => IInv
<1> SUFFICES ASSUME Init PROVE IInv
  OBVIOUS
<1> USE DEF Init
<1>1. /\ latestOnly \in BOOLEAN /\ stopped \in BOOLEAN /\ ended \in BOOLEAN
      /\ ctxDestroyed \in BOOLEAN /\ waiter \in BOOLEAN /\ notifyPosted \in BOOLEAN
  BY Zenon
<1>2. TypeOK
  BY <1>1, StreamAssumption DEF TypeOK
<1>3. WakeInv /\ OutcomeInv
  BY DEF WakeInv, OutcomeInv
<1> QED BY <1>2, <1>3 DEF IInv

\* Each input is a call of notify() after its own assignments.
LEMMA InputLemma ==
  ASSUME NEW here \in BOOLEAN, Emit(here) \/ SenderDestroyed(here) \/ Stop(here), TypeOK
  PROVE  /\ Notify(here) /\ (here => Idle)
         /\ UNCHANGED <<builders, latestOnly, ctxDestroyed, gen, timedOutGen, timers,
                        m_gen, delivered, outcome>>
         /\ queue' \in Seq(Numbers) /\ accepted' \in 0..MaxEmits
         /\ queue # <<>> => queue' # <<>>
         /\ stopped' \in BOOLEAN /\ (stopped => stopped')
         /\ ended' \in BOOLEAN /\ (ended => ended')
<1>1. CASE Emit(here)
  <2>1. /\ Notify(here) /\ (here => Idle)
        /\ UNCHANGED <<builders, latestOnly, ctxDestroyed, gen, timedOutGen, timers,
                       m_gen, delivered, outcome>>
        /\ UNCHANGED <<stopped, ended>>
    BY <1>1 DEF Emit, Connected, Idle
  <2>2. accepted' = accepted + 1 /\ accepted + 1 \in Numbers
    BY <1>1, StreamAssumption DEF Emit, TypeOK, Numbers
  <2>3. queue' = Append(IF latestOnly THEN <<>> ELSE queue, accepted + 1)
    BY <1>1 DEF Emit
  <2>4. (IF latestOnly THEN <<>> ELSE queue) \in Seq(Numbers)
    BY DEF TypeOK
  <2>5. queue' \in Seq(Numbers) /\ queue' # <<>>
    BY <2>2, <2>3, <2>4
  <2>6. accepted' \in 0..MaxEmits
    BY <2>2, StreamAssumption DEF Numbers
  <2> QED BY <2>1, <2>5, <2>6 DEF TypeOK
<1>2. CASE SenderDestroyed(here)
  BY <1>2 DEF SenderDestroyed, Connected, Idle, TypeOK, history
<1>3. CASE Stop(here)
  BY <1>3 DEF Stop, Connected, Idle, TypeOK, history
<1> QED BY <1>1, <1>2, <1>3

LEMMA TypeStep == ASSUME IInv, [Next]_vars PROVE TypeOK'
<1> USE DEF block, loop, consumer, history
<1>0. TypeOK /\ WakeInv
  BY DEF IInv
<1>1. CASE LatestOnly
  <2>1. queue' \in Seq(Numbers)
    BY <1>0, <1>1 DEF LatestOnly, TypeOK
  <2> QED BY <1>0, <1>1, <2>1 DEF LatestOnly, TypeOK
<1>2. CASE Built \/ Dispose
  BY <1>0, <1>2 DEF Built, Dispose, TypeOK
<1>12. CASE CancelledBy
  <2>1. stopped' \in BOOLEAN
    <3>1. stopped' = TRUE \/ stopped' = stopped
      BY <1>12 DEF CancelledBy
    <3> QED BY <1>0, <3>1, Zenon DEF TypeOK
  <2> QED BY <1>0, <1>12, <2>1 DEF CancelledBy, TypeOK, Builders
<1>13. CASE WithTimeout \/ ResumeOn
  BY <1>0, <1>13 DEF WithTimeout, ResumeOn, TypeOK, Builders
<1>3. ASSUME NEW here \in BOOLEAN, Emit(here) \/ SenderDestroyed(here) \/ Stop(here)
      PROVE  TypeOK'
  BY <1>0, <1>3, InputLemma, NotifyLemma DEF TypeOK
<1>4. CASE ContextDestroyed
  <2>1. waiter' \in BOOLEAN
    BY <1>4, Zenon DEF ContextDestroyed
  <2> QED BY <1>0, <1>4, <2>1 DEF ContextDestroyed, TypeOK
<1>5. CASE DeliverWake
  <2>1. notifyPosted' \in BOOLEAN
    BY <1>5, Zenon DEF DeliverWake
  <2> QED BY <1>0, <1>5, <2>1 DEF DeliverWake, TypeOK
<1>6. ASSUME NEW g \in timers, TimerFires(g) PROVE TypeOK'
  <2>1. waiter' \in BOOLEAN
    <3>1. waiter' = FALSE \/ waiter' = waiter
      BY <1>6 DEF TimerFires
    <3>2. waiter \in BOOLEAN
      BY <1>0 DEF TypeOK
    <3> QED BY <3>1, <3>2, Zenon
  <2> QED BY <1>0, <1>6, <2>1 DEF TimerFires, TypeOK
<1>7. CASE AwaitReady
  BY <1>0, <1>7 DEF AwaitReady, TypeOK
<1>8. CASE AwaitSuspend
  <2>1. CASE Ready
    BY <1>0, <1>8, <2>1 DEF AwaitSuspend, TypeOK
  <2>2. CASE ~Ready
    <3>1. gen' = gen + 1 /\ gen' \in 1..MaxWaits /\ m_gen' = gen'
      BY <1>0, <1>8, <2>2, StreamAssumption DEF AwaitSuspend, TypeOK, WakeInv
    <3>2. timers' \subseteq 1..gen'
      <4>1. timers' \subseteq timers \cup {gen'}
        BY <1>8, <2>2 DEF AwaitSuspend
      <4>2. timers \subseteq 1..gen /\ gen \in Nat
        BY <1>0, StreamAssumption DEF TypeOK
      <4>3. 1..gen \subseteq 1..gen' /\ gen' \in 1..gen'
        BY <3>1, <4>2
      <4> QED BY <4>1, <4>2, <4>3
    <3>3. timedOutGen' \in 0..gen' /\ gen' \in 0..MaxWaits /\ m_gen' \in 0..gen'
      BY <1>0, <1>8, <3>1, StreamAssumption DEF AwaitSuspend, TypeOK
    <3> QED BY <1>0, <1>8, <2>2, <3>2, <3>3 DEF AwaitSuspend, TypeOK
  <2> QED BY <2>1, <2>2
<1>9. CASE AwaitResume
  <2>1. queue' \in Seq(Numbers) /\ delivered' \in Seq(Numbers)
    <3>1. queue \in Seq(Numbers) /\ delivered \in Seq(Numbers)
      BY <1>0 DEF TypeOK
    <3>2. CASE UNCHANGED <<queue, delivered>>
      BY <3>1, <3>2
    <3>3. CASE /\ queue # <<>>
               /\ delivered' = Append(delivered, Head(queue))
               /\ queue' = Tail(queue)
      <4>1. Head(queue) \in Numbers /\ Tail(queue) \in Seq(Numbers)
        BY <3>1, <3>3
      <4> QED BY <3>1, <3>3, <4>1
    <3> QED BY <1>9, <3>2, <3>3 DEF AwaitResume
  <2>2. /\ pc' = "running"
        /\ outcome' \in {"value", "end", "Stopped", "ContextDestroyed", "Timeout"}
        /\ UNCHANGED <<builders, latestOnly, stopped, ended, ctxDestroyed, waiter, gen,
                       timedOutGen, notifyPosted, loop, m_gen, accepted>>
    BY <1>9 DEF AwaitResume
  <2> QED BY <1>0, <2>1, <2>2 DEF TypeOK
<1>10. ASSUME NEW g \in 1..gen, AwaitableDestroyed(g) PROVE TypeOK'
  BY <1>0, <1>10 DEF AwaitableDestroyed, TypeOK
<1>11. CASE UNCHANGED vars
  BY <1>0, <1>11 DEF vars, TypeOK
<1> QED
  BY <1>1, <1>2, <1>3, <1>4, <1>5, <1>6, <1>7, <1>8, <1>9, <1>10, <1>11,
     <1>12, <1>13
  DEF Next, Consume, Timeout

LEMMA WakeStep == ASSUME IInv, Next PROVE WakeInv'
<1> USE DEF block, loop, consumer, history
<1>0. TypeOK /\ WakeInv /\ StreamAssumption
  BY StreamAssumption DEF IInv
<1>1. CASE LatestOnly
  \* A builder runs before any next(): nobody is parked or resumed yet.
  BY <1>0, <1>1 DEF LatestOnly, WakeInv, TypeOK
<1>2. CASE Built \/ Dispose
  BY <1>0, <1>2 DEF Built, Dispose, WakeInv
<1>11. CASE CancelledBy \/ WithTimeout \/ ResumeOn
  <2>1. /\ pc = "build" /\ ~waiter
        /\ UNCHANGED <<pc, waiter, ctxDestroyed, notifyPosted, wakes>>
    BY <1>0, <1>11 DEF CancelledBy, WithTimeout, ResumeOn, WakeInv
  <2> QED BY <1>0, <2>1 DEF WakeInv
<1>3. ASSUME NEW here \in BOOLEAN, Emit(here) \/ SenderDestroyed(here) \/ Stop(here)
      PROVE  WakeInv'
  BY <1>0, <1>3, InputLemma, NotifyLemma
<1>4. CASE ContextDestroyed
  BY <1>0, <1>4 DEF ContextDestroyed, WakeInv, Ready
<1>5. CASE DeliverWake
  <2>1. wakes = 1 /\ wakes' = 0 /\ ~ctxDestroyed /\ ~ctxDestroyed'
    BY <1>0, <1>5 DEF DeliverWake, WakeInv, TypeOK
  <2>2. UNCHANGED <<queue, stopped, ended, gen, m_gen, timedOutGen>> /\ ~notifyPosted'
    BY <1>5 DEF DeliverWake
  <2>3. CASE waiter /\ (stopped \/ ended \/ queue # <<>>)
    <3>1. pc' = "resume"
      BY <1>5, <2>3 DEF DeliverWake
    <3>2. ~waiter'
      BY <1>5, <2>3, Zenon DEF DeliverWake
    <3>3. Ready'
      BY <2>2, <2>3 DEF Ready
    <3> QED BY <2>1, <2>2, <3>1, <3>2, <3>3 DEF WakeInv
  <2>4. CASE ~(waiter /\ (stopped \/ ended \/ queue # <<>>))
    <3>1. pc' = pc /\ pc # "resume" /\ pc # "suspend" /\ (waiter' <=> waiter)
      BY <1>0, <1>5, <2>4 DEF DeliverWake, Idle, TypeOK
    <3> QED BY <1>0, <2>1, <2>2, <2>4, <3>1 DEF WakeInv
  <2> QED BY <2>3, <2>4
<1>6. ASSUME NEW g \in timers, TimerFires(g) PROVE WakeInv'
  <2>1. g # 0 /\ UNCHANGED <<queue, stopped, ended, ctxDestroyed, gen, m_gen,
                               notifyPosted, wakes>>
    BY <1>0, <1>6 DEF TimerFires, TypeOK
  <2>2. CASE waiter /\ gen = g
    <3>1. timedOutGen' = g /\ waiter' = FALSE /\ pc' = "resume" /\ m_gen = g
      BY <1>0, <1>6, <2>2 DEF TimerFires, WakeInv
    <3> QED BY <1>0, <2>1, <2>2, <3>1 DEF WakeInv
  <2>3. CASE ~(waiter /\ gen = g)
    <3>1. UNCHANGED <<timedOutGen, waiter, pc>>
      BY <1>6, <2>3 DEF TimerFires
    <3> QED BY <1>0, <2>1, <3>1 DEF WakeInv, Ready
  <2> QED BY <2>2, <2>3
<1>7. CASE AwaitReady
  BY <1>0, <1>7 DEF AwaitReady, WakeInv, Ready
<1>8. CASE AwaitSuspend
  <2>1. CASE Ready
    BY <1>0, <1>8, <2>1 DEF AwaitSuspend, WakeInv, Ready
  <2>2. CASE ~Ready
    BY <1>0, <1>8, <2>2 DEF AwaitSuspend, WakeInv, Ready
  <2> QED BY <2>1, <2>2
<1>9. CASE AwaitResume
  <2>1. ~waiter /\ ~waiter' /\ pc' = "running"
    BY <1>0, <1>9 DEF AwaitResume, WakeInv
  <2>2. UNCHANGED <<ctxDestroyed, notifyPosted, wakes>>
    BY <1>9 DEF AwaitResume
  <2> QED BY <1>0, <2>1, <2>2 DEF WakeInv
<1>10. ASSUME NEW g \in 1..gen, AwaitableDestroyed(g) PROVE WakeInv'
  <2>1. CASE waiter /\ gen = g
    BY <1>0, <1>10, <2>1 DEF AwaitableDestroyed, WakeInv
  <2>2. CASE ~(waiter /\ gen = g)
    BY <1>0, <1>10, <2>2 DEF AwaitableDestroyed, WakeInv, Idle
  <2> QED BY <2>1, <2>2
<1> QED
  BY <1>1, <1>2, <1>3, <1>4, <1>5, <1>6, <1>7, <1>8, <1>9, <1>10, <1>11
  DEF Next, Consume, Timeout

LEMMA OutcomeStep == ASSUME IInv, Next PROVE OutcomeInv'
<1> USE DEF block, loop, consumer, history, OutcomeInv
<1>0. TypeOK /\ OutcomeInv
  BY DEF IInv
<1>1. CASE LatestOnly \/ Built \/ Dispose
  BY <1>0, <1>1 DEF LatestOnly, Built, Dispose
<1>8. CASE CancelledBy \/ WithTimeout \/ ResumeOn
  BY <1>0, <1>8 DEF CancelledBy, WithTimeout, ResumeOn
<1>2. ASSUME NEW here \in BOOLEAN, Emit(here) \/ SenderDestroyed(here) \/ Stop(here)
      PROVE  OutcomeInv'
  BY <1>0, <1>2 DEF Emit, SenderDestroyed, Stop
<1>3. CASE ContextDestroyed \/ DeliverWake
  BY <1>0, <1>3 DEF ContextDestroyed, DeliverWake
<1>4. ASSUME NEW g \in timers, TimerFires(g) PROVE OutcomeInv'
  BY <1>0, <1>4 DEF TimerFires
<1>5. CASE AwaitReady \/ AwaitSuspend
  BY <1>0, <1>5 DEF AwaitReady, AwaitSuspend
<1>6. CASE AwaitResume
  BY <1>0, <1>6 DEF AwaitResume
<1>7. ASSUME NEW g \in 1..gen, AwaitableDestroyed(g) PROVE OutcomeInv'
  BY <1>0, <1>7 DEF AwaitableDestroyed
<1> QED
  BY <1>1, <1>2, <1>3, <1>4, <1>5, <1>6, <1>7, <1>8 DEF Next, Consume, Timeout

THEOREM Invariance == Spec => []IInv
<1>1. IInv /\ [Next]_vars => IInv'
  <2> SUFFICES ASSUME IInv, [Next]_vars PROVE IInv'
    OBVIOUS
  <2>1. CASE Next
    BY <2>1, TypeStep, WakeStep, OutcomeStep DEF IInv
  <2>2. CASE UNCHANGED vars
    BY <2>2, TypeStep
    DEF IInv, WakeInv, OutcomeInv, Ready, vars, block, loop, consumer, history
  <2> QED BY <2>1, <2>2
<1> QED BY <1>1, InvInit, PTL DEF Spec

-----------------------------------------------------------------------------
(* What is kept of the accepted emissions: delivered values, then queued.  *)

\* Delivering the head of the queue, and accepting another emission, leave the
\* order of what is kept as it was.
LEMMA KeepWhenDelivered ==
  ASSUME NEW S, NEW d \in Seq(S), NEW q \in Seq(S), q # <<>>
  PROVE  Append(d, Head(q)) \o Tail(q) = d \o q
<1>1. /\ Head(q) \in S /\ Head(q) = q[1] /\ Tail(q) \in Seq(S) /\ Len(Tail(q)) = Len(q) - 1
      /\ \A i \in 1..Len(Tail(q)) : Tail(q)[i] = q[i + 1]
  BY HeadTailProperties
<1>2. /\ Append(d, Head(q)) \in Seq(S) /\ Len(Append(d, Head(q))) = Len(d) + 1
      /\ \A i \in 1..Len(d) : Append(d, Head(q))[i] = d[i]
      /\ Append(d, Head(q))[Len(d) + 1] = Head(q)
  BY <1>1, AppendProperties
<1>3. Len(d) \in Nat /\ Len(q) \in Nat
  BY LenProperties
<1> DEFINE a == Append(d, Head(q))
<1> DEFINE t == Tail(q)
<1>4. /\ a \o t \in Seq(S) /\ Len(a \o t) = Len(d) + Len(q)
      /\ \A i \in 1..Len(a \o t) : (a \o t)[i] = IF i <= Len(a) THEN a[i] ELSE t[i - Len(a)]
  BY <1>1, <1>2, <1>3, ConcatProperties
<1>5. /\ d \o q \in Seq(S) /\ Len(d \o q) = Len(d) + Len(q)
      /\ \A i \in 1..Len(d \o q) : (d \o q)[i] = IF i <= Len(d) THEN d[i] ELSE q[i - Len(d)]
  BY ConcatProperties
<1>6. ASSUME NEW i \in 1..Len(a \o t) PROVE (a \o t)[i] = (d \o q)[i]
  <2>1. CASE i <= Len(d)
    BY <1>2, <1>3, <1>4, <1>5, <2>1
  <2>2. CASE i = Len(d) + 1
    BY <1>1, <1>2, <1>3, <1>4, <1>5, <2>2
  <2>3. CASE i > Len(d) + 1
    <3>1. (a \o t)[i] = t[i - Len(a)] /\ i - Len(a) \in 1..Len(t)
      BY <1>1, <1>2, <1>3, <1>4, <2>3
    <3>2. t[i - Len(a)] = q[i - Len(a) + 1] /\ i - Len(a) + 1 = i - Len(d)
      BY <1>1, <1>2, <1>3, <3>1
    <3> QED BY <1>3, <1>4, <1>5, <2>3, <3>1, <3>2
  <2> QED BY <1>3, <1>4, <2>1, <2>2, <2>3
<1> QED BY <1>4, <1>5, <1>6, SeqEqual

LEMMA KeepWhenAccepted ==
  ASSUME NEW S, NEW d \in Seq(S), NEW q \in Seq(S), NEW e \in S
  PROVE  d \o Append(q, e) = Append(d \o q, e)
<1>1. Append(q, e) = q \o <<e>> /\ <<e>> \in Seq(S)
  BY AppendIsConcat
<1>2. Append(d \o q, e) = (d \o q) \o <<e>>
  BY AppendIsConcat, ConcatProperties
<1> QED BY <1>1, <1>2, ConcatAssociative

\* A sequence of emission numbers in order, none of them above n.
InOrder(s, n) ==
  /\ \A i \in 1..Len(s) : s[i] <= n
  /\ \A i \in 1..Len(s) - 1 : s[i] < s[i + 1]

\* Emission n + 1 comes after all those before it.
LEMMA KeepInOrder ==
  ASSUME NEW n \in Nat, NEW s \in Seq(Nat), InOrder(s, n)
  PROVE  /\ InOrder(Append(s, n + 1), n + 1)
         /\ Append(s, n + 1) # <<>>
         /\ Append(s, n + 1)[Len(Append(s, n + 1))] = n + 1
<1>1. /\ Append(s, n + 1) \in Seq(Nat) /\ Len(Append(s, n + 1)) = Len(s) + 1
      /\ \A i \in 1..Len(s) : Append(s, n + 1)[i] = s[i]
      /\ Append(s, n + 1)[Len(s) + 1] = n + 1
  BY AppendProperties
<1>2. Len(s) \in Nat /\ \A i \in 1..Len(s) : s[i] \in Nat
  BY LenProperties, ElementOfSeq
<1>3. \A i \in 1..Len(Append(s, n + 1)) : Append(s, n + 1)[i] <= n + 1
  <2> SUFFICES ASSUME NEW i \in 1..Len(Append(s, n + 1)) PROVE Append(s, n + 1)[i] <= n + 1
    OBVIOUS
  <2>1. CASE i <= Len(s)
    BY <1>1, <1>2, <2>1 DEF InOrder
  <2>2. CASE i = Len(s) + 1
    BY <1>1, <2>2
  <2> QED BY <1>1, <1>2, <2>1, <2>2
<1>4. \A i \in 1..Len(Append(s, n + 1)) - 1 : Append(s, n + 1)[i] < Append(s, n + 1)[i + 1]
  <2> SUFFICES ASSUME NEW i \in 1..Len(s) PROVE Append(s, n + 1)[i] < Append(s, n + 1)[i + 1]
    BY <1>1, <1>2
  <2>1. CASE i < Len(s)
    BY <1>1, <1>2, <2>1 DEF InOrder
  <2>2. CASE i = Len(s)
    BY <1>1, <1>2, <2>2 DEF InOrder
  <2> QED BY <1>2, <2>1, <2>2
<1>5. Append(s, n + 1) # <<>>
  BY <1>1, <1>2
<1>6. InOrder(Append(s, n + 1), n + 1)
  BY <1>3, <1>4 DEF InOrder
<1> QED BY <1>1, <1>5, <1>6

KeptInv ==
  /\ pc = "build" => delivered = <<>>
  /\ InOrder(delivered \o queue, accepted)
  /\ Lossless
  /\ Conflated

LEMMA KeptEmit ==
  ASSUME IInv, KeptInv, NEW here \in BOOLEAN, Emit(here) PROVE KeptInv'
<1> DEFINE kept == delivered \o queue
<1>1. /\ queue \in Seq(Nat) /\ delivered \in Seq(Nat) /\ accepted \in Nat
      /\ accepted' = accepted + 1 /\ delivered' = delivered /\ latestOnly' = latestOnly
      /\ latestOnly \in BOOLEAN
  <2>1. TypeOK
    BY DEF IInv
  <2> QED BY <2>1, StreamAssumption DEF TypeOK, Numbers, Emit
<1>2. queue' = Append(IF latestOnly THEN <<>> ELSE queue, accepted + 1)
  BY DEF Emit
<1>3. pc' = "build" => delivered' = <<>>
  BY <1>1 DEF KeptInv, Emit, Notify
<1>4. CASE latestOnly
  <2>1. InOrder(delivered, accepted)
    <3>1. /\ Len(delivered) \in Nat /\ Len(queue) \in Nat
          /\ Len(delivered \o queue) = Len(delivered) + Len(queue)
          /\ \A i \in 1..Len(delivered \o queue) :
               (delivered \o queue)[i] =
                 IF i <= Len(delivered) THEN delivered[i] ELSE queue[i - Len(delivered)]
      BY <1>1, LenProperties, ConcatProperties
    <3>2. \A i \in 1..Len(delivered) :
            i \in 1..Len(delivered \o queue) /\ (delivered \o queue)[i] = delivered[i]
      BY <3>1
    <3> QED BY <3>1, <3>2 DEF KeptInv, InOrder
  <2>2. (delivered \o queue)' = Append(delivered, accepted + 1) /\ Len(queue') <= 1
    <3>1. queue' = Append(<<>>, accepted + 1) /\ <<>> \in Seq(Nat)
      BY <1>2, <1>4
    <3>2. delivered \o Append(<<>>, accepted + 1) = Append(delivered \o <<>>, accepted + 1)
      BY <1>1, <3>1, KeepWhenAccepted
    <3>3. delivered \o <<>> = delivered
      BY <1>1, ConcatEmptySeq
    <3> QED BY <1>1, <3>1, <3>2, <3>3
  <2>3. /\ InOrder((delivered \o queue)', accepted') /\ (delivered \o queue)' # <<>>
        /\ (delivered \o queue)'[Len((delivered \o queue)')] = accepted'
    BY <1>1, <2>1, <2>2, KeepInOrder
  <2> QED BY <1>1, <1>3, <1>4, <2>2, <2>3 DEF KeptInv, Lossless, Conflated, InOrder
<1>5. CASE ~latestOnly
  <2>1. (delivered \o queue)' = Append(kept, accepted + 1)
    BY <1>1, <1>2, <1>5, KeepWhenAccepted
  <2>2. kept \in Seq(Nat) /\ InOrder(kept, accepted) /\ kept = [i \in 1..accepted |-> i]
    BY <1>1, <1>5, ConcatProperties DEF KeptInv, Lossless
  <2>3. /\ InOrder((delivered \o queue)', accepted') /\ (delivered \o queue)' # <<>>
        /\ (delivered \o queue)'[Len((delivered \o queue)')] = accepted'
    BY <1>1, <2>1, <2>2, KeepInOrder
  <2>4. Append(kept, accepted + 1) = [i \in 1..accepted + 1 |-> i]
    <3>1. Len(kept) = accepted
      BY <1>1, <2>2
    <3>2. /\ Append(kept, accepted + 1) \in Seq(Nat)
          /\ Len(Append(kept, accepted + 1)) = accepted + 1
          /\ \A i \in 1..accepted : Append(kept, accepted + 1)[i] = kept[i]
          /\ Append(kept, accepted + 1)[accepted + 1] = accepted + 1
      BY <1>1, <2>2, <3>1, AppendProperties
    <3> DEFINE all == [i \in 1..accepted + 1 |-> i]
    <3>3. all \in Seq(Nat) /\ Len(all) = accepted + 1
      BY <1>1
    <3>4. \A i \in 1..accepted + 1 : Append(kept, accepted + 1)[i] = all[i]
      <4> SUFFICES ASSUME NEW i \in 1..accepted + 1
                   PROVE  Append(kept, accepted + 1)[i] = i
        OBVIOUS
      <4>1. CASE i \in 1..accepted
        BY <2>2, <3>2, <4>1
      <4>2. CASE i = accepted + 1
        BY <3>2, <4>2
      <4>3. i \in 1..accepted \/ i = accepted + 1
        BY <1>1
      <4> QED BY <4>1, <4>2, <4>3
    <3> QED BY <3>2, <3>3, <3>4, SeqEqual
  <2> QED BY <1>1, <1>3, <1>5, <2>1, <2>3, <2>4 DEF KeptInv, Lossless, Conflated, InOrder
<1> QED BY <1>4, <1>5

LEMMA KeptStep == ASSUME IInv, KeptInv, [Next]_vars PROVE KeptInv'
<1> USE DEF block, loop, consumer, history
<1>1. queue \in Seq(Numbers) /\ delivered \in Seq(Numbers) /\ latestOnly \in BOOLEAN
  BY DEF IInv, TypeOK
<1>2. ASSUME NEW here \in BOOLEAN, Emit(here) PROVE KeptInv'
  BY <1>2, KeptEmit
<1>3. CASE LatestOnly
  <2>1. /\ delivered = <<>> /\ delivered' = <<>> /\ accepted' = accepted /\ latestOnly'
        /\ queue' = IF queue = <<>> THEN queue ELSE <<queue[Len(queue)]>>
    BY <1>3 DEF LatestOnly, KeptInv
  <2>2. delivered \o queue = queue /\ (delivered \o queue)' = queue'
    <3>1. queue' \in Seq(Numbers)
      BY <1>1, <2>1
    <3> QED BY <1>1, <2>1, <3>1, ConcatEmptySeq
  <2>3. CASE queue = <<>>
    BY <2>1, <2>2, <2>3 DEF KeptInv, Lossless, Conflated, InOrder
  <2>4. CASE queue # <<>>
    <3>1. Len(queue) \in 1..Len(queue) /\ queue' = <<queue[Len(queue)]>> /\ Len(queue') = 1
      BY <1>1, <2>1, <2>4, LenProperties
    <3>2. queue'[1] <= accepted /\ (accepted > 0 => queue'[1] = accepted)
      BY <2>2, <3>1 DEF KeptInv, Conflated, InOrder
    <3> QED BY <2>1, <2>2, <3>1, <3>2 DEF KeptInv, Lossless, Conflated, InOrder
  <2> QED BY <2>3, <2>4
<1>4. CASE AwaitResume
  <2>1. UNCHANGED <<latestOnly, accepted>> /\ pc' = "running"
    BY <1>4 DEF AwaitResume
  <2>2. (delivered \o queue)' = delivered \o queue /\ (Len(queue) <= 1 => Len(queue') <= 1)
    <3>1. CASE UNCHANGED <<queue, delivered>>
      BY <3>1
    <3>2. CASE /\ queue # <<>> /\ delivered' = Append(delivered, Head(queue))
               /\ queue' = Tail(queue)
      <4>1. Len(Tail(queue)) = Len(queue) - 1 /\ Len(queue) \in Nat
        BY <1>1, <3>2, HeadTailProperties, LenProperties
      <4> QED BY <1>1, <3>2, <4>1, KeepWhenDelivered
    <3> QED BY <1>4, <3>1, <3>2 DEF AwaitResume
  <2> QED BY <2>1, <2>2 DEF KeptInv, Lossless, Conflated, InOrder
<1>5. CASE UNCHANGED <<queue, delivered, accepted, latestOnly>> /\ (pc' = "build" => pc = "build")
  BY <1>5 DEF KeptInv, Lossless, Conflated, InOrder
<1>6. \/ \E here \in BOOLEAN : Emit(here)
      \/ LatestOnly \/ AwaitResume
      \/ UNCHANGED <<queue, delivered, accepted, latestOnly>> /\ (pc' = "build" => pc = "build")
  <2>1. ASSUME NEW here \in BOOLEAN, SenderDestroyed(here) \/ Stop(here)
        PROVE  UNCHANGED <<queue, delivered, accepted, latestOnly>> /\ (pc' = "build" => pc = "build")
    BY <2>1 DEF SenderDestroyed, Stop, Notify
  <2>2. ASSUME NEW g, TimerFires(g) \/ AwaitableDestroyed(g)
        PROVE  UNCHANGED <<queue, delivered, accepted, latestOnly>> /\ (pc' = "build" => pc = "build")
    BY <2>2 DEF TimerFires, AwaitableDestroyed
  <2>3. CASE CancelledBy \/ WithTimeout \/ ResumeOn \/ Built \/ Dispose \/ AwaitReady \/ AwaitSuspend
    BY <2>3 DEF CancelledBy, WithTimeout, ResumeOn, Built, Dispose, AwaitReady, AwaitSuspend
  <2>4. CASE ContextDestroyed \/ DeliverWake \/ UNCHANGED vars
    BY <2>4 DEF ContextDestroyed, DeliverWake, vars
  <2> QED BY <2>1, <2>2, <2>3, <2>4 DEF Next, Consume, Timeout
<1> QED BY <1>2, <1>3, <1>4, <1>5, <1>6

LEMMA KeptInvariance == Spec => []KeptInv
<1>1. Init => KeptInv
  <2> SUFFICES ASSUME Init PROVE KeptInv
    OBVIOUS
  <2>1. delivered \o queue = <<>> /\ accepted = 0
    BY ConcatEmptySeq DEF Init
  <2>2. [i \in 1..0 |-> i] = <<>>
    OBVIOUS
  <2> QED BY <2>1, <2>2 DEF Init, KeptInv, Lossless, Conflated, InOrder
<1>2. IInv /\ KeptInv /\ [Next]_vars => KeptInv'
  BY KeptStep
<1> QED BY <1>1, <1>2, Invariance, PTL DEF Spec

-----------------------------------------------------------------------------

\* Every variable keeps its type (the control block's fields, 121-137).
THEOREM TypeCorrect == Spec => []TypeOK
BY Invariance, PTL DEF IInv

\* No next() stays parked on a stream with something to deliver unless a wake
\* is on its way (notify(), await_suspend's second check, ~NextAwaitable).
THEOREM WakeUp == Spec => []NoLostWakeup
<1>1. IInv => NoLostWakeup
  BY DEF IInv, WakeInv, NoLostWakeup
<1> QED BY <1>1, Invariance, PTL

\* await_resume (252-280) never reaches std::unreachable(), whichever input,
\* wake or timer resumed it.
THEOREM Reachability == Spec => []NeverUnreachable
<1>1. IInv => NeverUnreachable
  BY DEF IInv, WakeInv, NeverUnreachable
<1> QED BY <1>1, Invariance, PTL

\* The end is reported on a drained queue only, after the end or an abort
\* next() never yields a value or a timeout again, and Stopped is final (the
\* order of the tests in await_resume, 252-280, and the lambda's guard, 302).
THEOREM Terminal == Spec => TerminalStays
<1> DEFINE Stays == /\ outcome' = "end" => queue' = <<>>
                    /\ outcome \in {"end", "Stopped", "ContextDestroyed"} =>
                         outcome' \notin {"value", "Timeout"}
                    /\ outcome = "Stopped" => outcome' = "Stopped"
<1>1. IInv /\ [Next]_vars => [Stays]_vars
  <2> SUFFICES ASSUME IInv, Next PROVE Stays
    BY DEF vars
  <2>0. outcome' = "end" => queue' = <<>>
    BY OutcomeStep DEF OutcomeInv
  <2>1. CASE AwaitResume
    BY <2>0, <2>1 DEF IInv, OutcomeInv, AwaitResume
  <2>2. CASE UNCHANGED outcome
    BY <2>0, <2>2
  <2>3. AwaitResume \/ UNCHANGED outcome
    BY DEF Next, Consume, Timeout, LatestOnly, CancelledBy, WithTimeout, ResumeOn, Built,
       Emit, SenderDestroyed, Stop, ContextDestroyed, DeliverWake, TimerFires,
       AwaitReady, AwaitSuspend, AwaitableDestroyed, Dispose, history
  <2> QED BY <2>1, <2>2, <2>3
<1> QED BY <1>1, Invariance, PTL DEF Spec, TerminalStays

\* No emission is lost, repeated or reordered on its way through the queue
\* (the signal lambda 297-311, await_resume's pop 258-267).
THEOREM NothingLost == Spec => []Lossless
<1>1. KeptInv => Lossless
  BY DEF KeptInv
<1> QED BY <1>1, KeptInvariance, PTL

\* latestOnly() (342-348) and the lambda's clear() (304-305) drop stale values only.
THEOREM OnlyStaleDropped == Spec => []Conflated
<1>1. KeptInv => Conflated
  BY DEF KeptInv
<1> QED BY <1>1, KeptInvariance, PTL

-----------------------------------------------------------------------------
(* The refinement: the values delivered and queued are the log of          *)
(* StreamSpec, of which the consumer has read what was delivered.          *)

LEMMA KeptRead ==
  ASSUME NEW S, NEW d \in Seq(S), NEW q \in Seq(S)
  PROVE  /\ d \o q \in Seq(S)
         /\ SubSeq(d \o q, 1, Len(d)) = d
         /\ Len(d) < Len(d \o q) <=> q # <<>>
         /\ Len(d) = Len(d \o q) <=> q = <<>>
<1>1. /\ Len(d) \in Nat /\ Len(q) \in Nat /\ d \o q \in Seq(S)
      /\ Len(d \o q) = Len(d) + Len(q)
      /\ \A i \in 1..Len(d) : (d \o q)[i] = d[i]
  BY LenProperties, ConcatProperties
<1>2. q = <<>> <=> Len(q) = 0
  BY EmptySeq
<1>3. SubSeq(d \o q, 1, Len(d)) = d
  <2>1. /\ SubSeq(d \o q, 1, Len(d)) \in Seq(S) /\ Len(SubSeq(d \o q, 1, Len(d))) = Len(d)
        /\ \A i \in 1..Len(d) : SubSeq(d \o q, 1, Len(d))[i] = (d \o q)[i]
    BY <1>1
  <2>2. \A i \in 1..Len(d) : SubSeq(d \o q, 1, Len(d))[i] = d[i]
    BY <1>1, <2>1
  <2> QED BY <2>1, <2>2, SeqEqual
<1>4. (Len(d) < Len(d \o q) <=> q # <<>>) /\ (Len(d) = Len(d \o q) <=> q = <<>>)
  <2> DEFINE m == Len(d)
             n == Len(q)
             l == Len(d \o q)
  <2>1. m \in Nat /\ n \in Nat /\ l = m + n
    BY <1>1
  <2>2. q = <<>> <=> n = 0
    BY <1>2
  <2> HIDE DEF m, n, l
  <2>3. (m < l <=> q # <<>>) /\ (m = l <=> q = <<>>)
    BY <2>1, <2>2
  <2> QED BY <2>3 DEF m, l
<1> QED BY <1>1, <1>3, <1>4

\* What the refinement needs beside the invariants above.
ContractInv ==
  /\ pc = "build" => outcome = "none"
  /\ pc = "suspend" => m_gen = 0
  /\ timers # {} => "withTimeout" \in builders

LEMMA ContractInvInit == Init => ContractInv
BY DEF Init, ContractInv

LEMMA ContractInvStep == ASSUME ContractInv, [Next]_vars PROVE ContractInv'
<1> USE DEF ContractInv, block, loop, consumer, history
<1>1. CASE LatestOnly \/ CancelledBy \/ WithTimeout \/ ResumeOn \/ Built \/ Dispose
  BY <1>1 DEF LatestOnly, CancelledBy, WithTimeout, ResumeOn, Built, Dispose
<1>2. ASSUME NEW here \in BOOLEAN, Emit(here) \/ SenderDestroyed(here) \/ Stop(here)
      PROVE  ContractInv'
  BY <1>2 DEF Emit, SenderDestroyed, Stop, Notify
<1>3. CASE ContextDestroyed \/ DeliverWake
  BY <1>3 DEF ContextDestroyed, DeliverWake, Idle
<1>4. ASSUME NEW g \in timers, TimerFires(g) PROVE ContractInv'
  BY <1>4 DEF TimerFires, Idle
<1>5. CASE AwaitReady
  BY <1>5 DEF AwaitReady
<1>6. CASE AwaitSuspend
  BY <1>6 DEF AwaitSuspend
<1>7. CASE AwaitResume
  BY <1>7 DEF AwaitResume
<1>8. ASSUME NEW g \in 1..gen, AwaitableDestroyed(g) PROVE ContractInv'
  BY <1>8 DEF AwaitableDestroyed, Idle
<1>9. CASE UNCHANGED vars
  BY <1>9 DEF vars
<1> QED BY <1>1, <1>2, <1>3, <1>4, <1>5, <1>6, <1>7, <1>8, <1>9 DEF Next, Consume, Timeout

Kept == delivered \o queue

Over ==
  {why \in {"end", "Stopped", "ContextDestroyed"} :
     \/ why = "end" /\ ended
     \/ why = "Stopped" /\ stopped
     \/ why = "ContextDestroyed" /\ ctxDestroyed}

Asked == pc \in {"suspend", "parked", "resume"}

Expired == m_gen # 0 /\ timedOutGen = m_gen

\* The newest emission ends the log.
LEMMA KeptNewest ==
  ASSUME TypeOK, KeptInv
  PROVE  (IF Kept = <<>> THEN 0 ELSE Kept[Len(Kept)]) = accepted
<1>1. Kept \in Seq(Numbers) /\ accepted \in Nat
  BY ConcatProperties, StreamAssumption DEF TypeOK, Kept
<1>2. CASE accepted > 0
  BY <1>2 DEF KeptInv, Conflated, Kept
<1>3. CASE accepted = 0
  <2> SUFFICES ASSUME Kept # <<>> PROVE FALSE
    BY <1>3
  <2>1. 1 \in 1..Len(Kept) /\ Kept[1] \in Numbers
    BY <1>1, EmptySeq, LenProperties, ElementOfSeq
  <2>2. Kept[1] <= 0
    BY <1>3, <2>1 DEF KeptInv, InOrder, Kept
  <2> QED BY <2>1, <2>2 DEF Numbers
<1> QED BY <1>1, <1>2, <1>3

\* A step in which StreamSpec sees nothing.
LEMMA Quiet ==
  ASSUME UNCHANGED <<Kept, Len(delivered), latestOnly, Over, outcome>>,
         "withTimeout" \in builders' <=> "withTimeout" \in builders,
         Asked' <=> Asked, Expired' <=> Expired
  PROVE  UNCHANGED Contract!vars
<1>1. ("withTimeout" \in builders)' = ("withTimeout" \in builders)
  OBVIOUS
<1>2. Asked' = Asked
  BY DEF Asked
<1>3. Expired' = Expired
  BY DEF Expired
<1>4. UNCHANGED <<Kept, latestOnly, "withTimeout" \in builders, Over>>
  BY <1>1
<1>5. UNCHANGED <<Len(delivered), Asked, Expired, outcome>>
  BY <1>2, <1>3
<1>6. UNCHANGED Contract!source
  BY <1>4 DEF Contract!source, Kept, Over
<1>7. UNCHANGED Contract!reader
  BY <1>5 DEF Contract!reader, Asked, Expired
<1> QED BY <1>6, <1>7 DEF Contract!vars

\* The builders, called before the first next().
LEMMA ContractBuild ==
  ASSUME IInv, IInv', KeptInv, ContractInv,
         LatestOnly \/ CancelledBy \/ WithTimeout \/ ResumeOn \/ Built
  PROVE  Contract!Next \/ UNCHANGED Contract!vars
<1> USE DEF Kept, Over, Asked, Expired
<1>1. CASE LatestOnly
  <2>1. /\ pc = "build" /\ outcome = "none" /\ delivered = <<>> /\ delivered' = <<>>
        /\ latestOnly' = TRUE /\ queue' = IF queue = <<>> THEN queue ELSE <<queue[Len(queue)]>>
        /\ UNCHANGED <<builders, stopped, ended, ctxDestroyed, pc, timedOutGen, m_gen, outcome>>
    BY <1>1 DEF LatestOnly, ContractInv, KeptInv, consumer, history
  <2>2. delivered \o queue = queue /\ (delivered \o queue)' = queue'
    BY <2>1, ConcatEmptySeq DEF IInv, TypeOK
  <2>3. Contract!Conflate
    BY <2>1, <2>2 DEF Contract!Conflate, Contract!Newest, Contract!reader
  <2> QED BY <2>3 DEF Contract!Next
<1>2. CASE CancelledBy
  <2>1. /\ stopped' = stopped \/ stopped' = TRUE
        /\ "withTimeout" \in builders' <=> "withTimeout" \in builders
        /\ UNCHANGED <<queue, delivered, latestOnly, ended, ctxDestroyed, pc, timedOutGen, m_gen, outcome>>
    BY <1>2 DEF CancelledBy, consumer, history
  <2>2. CASE stopped' = stopped
    BY <2>1, <2>2, Quiet
  <2>3. CASE stopped' = TRUE
    <3>1. Over' = Over \cup {"Stopped"}
      BY <2>1, <2>3
    <3>2. ("withTimeout" \in builders)' = ("withTimeout" \in builders)
      BY <2>1
    <3>3. UNCHANGED Contract!reader
      BY <2>1 DEF Contract!reader
    <3>4. Contract!Finish
      BY <2>1, <3>1, <3>2, <3>3 DEF Contract!Finish, Contract!Aborts
    <3> QED BY <3>4 DEF Contract!Next
  <2> QED BY <2>1, <2>2, <2>3
<1>3. CASE WithTimeout
  <2>1. Contract!LimitWaits
    BY <1>3 DEF WithTimeout, ContractInv, Contract!LimitWaits, Contract!reader, block, consumer, history
  <2> QED BY <2>1 DEF Contract!Next
<1>4. CASE ResumeOn \/ Built
  BY <1>4, Quiet DEF ResumeOn, Built, block, consumer, history
<1> QED BY <1>1, <1>2, <1>3, <1>4

\* An input: an emission is another entry of the log, the others end it.
LEMMA ContractInput ==
  ASSUME IInv, KeptInv, NEW here \in BOOLEAN, Emit(here) \/ SenderDestroyed(here) \/ Stop(here)
  PROVE  Contract!Next
<1> USE DEF Kept, Over, Asked, Expired
<1>0. TypeOK /\ WakeInv /\ queue \in Seq(Numbers) /\ delivered \in Seq(Numbers)
  BY DEF IInv, TypeOK
<1>1. /\ Asked' = Asked
      /\ UNCHANGED <<builders, latestOnly, ctxDestroyed, timedOutGen, m_gen, delivered, outcome>>
  <2>1. Notify(here)
    BY <1>0, InputLemma
  <2>2. pc' = pc \/ (pc = "parked" /\ pc' = "resume")
    BY <1>0, <2>1 DEF Notify, WakeInv
  <2> QED BY <1>0, <2>2, InputLemma
<1>2. UNCHANGED Contract!reader
  BY <1>1 DEF Contract!reader
<1>3. ("withTimeout" \in builders)' = ("withTimeout" \in builders)
  BY <1>1
<1>4. CASE Emit(here)
  <2>1. /\ Over = {} /\ Over' = Over
        /\ queue' = Append(IF latestOnly THEN <<>> ELSE queue, accepted + 1)
    BY <1>1, <1>4 DEF Emit
  <2>2. Kept' = Append(IF latestOnly THEN SubSeq(Kept, 1, Len(delivered)) ELSE Kept, accepted + 1)
    <3>1. accepted + 1 \in Numbers /\ <<>> \in Seq(Numbers)
      BY <1>0, <1>4, StreamAssumption DEF Emit, TypeOK, Numbers
    <3>2. CASE latestOnly
      <4>1. Kept' = Append(delivered \o <<>>, accepted + 1)
        BY <1>0, <1>1, <2>1, <3>1, <3>2, KeepWhenAccepted
      <4>2. delivered \o <<>> = delivered /\ SubSeq(Kept, 1, Len(delivered)) = delivered
        BY <1>0, ConcatEmptySeq, KeptRead
      <4> QED BY <3>2, <4>1, <4>2
    <3>3. CASE ~latestOnly
      BY <1>0, <1>1, <2>1, <3>1, <3>3, KeepWhenAccepted
    <3> QED BY <3>2, <3>3
  <2>3. Contract!Newest = accepted
    BY <1>0, KeptNewest DEF Contract!Newest
  <2>4. Contract!Send
    BY <1>1, <1>2, <1>3, <2>1, <2>2, <2>3 DEF Contract!Send
  <2> QED BY <2>4 DEF Contract!Next
<1>5. CASE SenderDestroyed(here)
  <2>1. Over' = Over \cup {"end"} /\ Kept' = Kept
    BY <1>1, <1>5 DEF SenderDestroyed
  <2>2. Contract!Finish
    BY <1>1, <1>2, <1>3, <2>1 DEF Contract!Finish, Contract!Aborts
  <2> QED BY <2>2 DEF Contract!Next
<1>6. CASE Stop(here)
  <2>1. Over' = Over \cup {"Stopped"} /\ Kept' = Kept
    BY <1>1, <1>6 DEF Stop
  <2>2. Contract!Finish
    BY <1>1, <1>2, <1>3, <2>1 DEF Contract!Finish, Contract!Aborts
  <2> QED BY <2>2 DEF Contract!Next
<1> QED BY <1>4, <1>5, <1>6

\* The end of the context, wakes and timers: all but a timeout of the pending
\* next() is invisible.
LEMMA ContractLoop ==
  ASSUME IInv, ContractInv, ContextDestroyed \/ DeliverWake \/ Timeout
  PROVE  Contract!Next \/ UNCHANGED Contract!vars
<1> USE DEF Kept, Over, Asked, Expired
<1>0. TypeOK /\ WakeInv
  BY DEF IInv
<1>1. CASE ContextDestroyed
  <2>1. /\ Over' = Over \cup {"ContextDestroyed"}
        /\ UNCHANGED <<queue, delivered, latestOnly, builders, timedOutGen, m_gen, outcome>>
    BY <1>1 DEF ContextDestroyed, history
  <2>2. Asked' = Asked
    <3>1. pc' = pc \/ (pc = "parked" /\ pc' = "resume")
      BY <1>0, <1>1 DEF ContextDestroyed, WakeInv
    <3> QED BY <3>1
  <2>3. UNCHANGED Contract!reader
    BY <2>1, <2>2 DEF Contract!reader
  <2>4. Contract!Finish
    BY <2>1, <2>3 DEF Contract!Finish, Contract!Aborts
  <2> QED BY <2>4 DEF Contract!Next
<1>2. CASE DeliverWake
  <2>1. UNCHANGED <<builders, queue, delivered, latestOnly, stopped, ended, ctxDestroyed,
                    timedOutGen, m_gen, outcome>>
    BY <1>2 DEF DeliverWake, history
  <2>2. pc' = pc \/ (pc = "parked" /\ pc' = "resume")
    BY <1>0, <1>2 DEF DeliverWake, WakeInv
  <2> QED BY <2>1, <2>2, Quiet
<1>3. ASSUME NEW g \in timers, TimerFires(g)
      PROVE  Contract!Next \/ UNCHANGED Contract!vars
  <2>1. UNCHANGED <<builders, queue, delivered, latestOnly, stopped, ended, ctxDestroyed,
                    m_gen, outcome>>
    BY <1>3 DEF TimerFires, history
  <2>2. CASE waiter /\ gen = g
    <3>1. pc = "parked" /\ pc' = "resume" /\ timedOutGen' = m_gen /\ m_gen # 0
      BY <1>0, <1>3, <2>2 DEF TimerFires, WakeInv, TypeOK
    <3>2. "withTimeout" \in builders
      BY <1>3 DEF ContractInv
    <3>3. Contract!Expire
      BY <2>1, <3>1, <3>2 DEF Contract!Expire, Contract!source
    <3> QED BY <3>3 DEF Contract!Next
  <2>3. CASE ~(waiter /\ gen = g)
    BY <1>3, <2>1, <2>3, Quiet DEF TimerFires
  <2> QED BY <2>2, <2>3
<1> QED BY <1>1, <1>2, <1>3 DEF Timeout

\* next(): asked when await_ready runs, answered by await_resume.
LEMMA ContractConsumer ==
  ASSUME IInv, ContractInv, AwaitReady \/ AwaitSuspend \/ AwaitResume \/ Dispose
  PROVE  Contract!Next \/ UNCHANGED Contract!vars
<1> USE DEF Kept, Over, Asked, Expired
<1>0. /\ TypeOK /\ WakeInv /\ queue \in Seq(Numbers) /\ delivered \in Seq(Numbers)
      /\ gen \in Nat /\ timedOutGen \in 0..gen /\ m_gen \in 0..gen
  BY StreamAssumption DEF IInv, TypeOK
<1>1. CASE AwaitReady
  <2>1. Contract!Ask
    BY <1>1 DEF AwaitReady, Contract!Ask, Contract!source, block, loop, history
  <2> QED BY <2>1 DEF Contract!Next
<1>2. CASE AwaitSuspend
  <2>1. /\ UNCHANGED <<builders, queue, delivered, latestOnly, stopped, ended, ctxDestroyed,
                       timedOutGen, outcome>>
        /\ pc = "suspend" /\ pc' \in {"resume", "parked"}
        /\ m_gen' = m_gen \/ m_gen' = gen + 1
    BY <1>2 DEF AwaitSuspend, history
  <2>2. ~Expired /\ ~Expired'
    BY <1>0, <2>1 DEF ContractInv
  <2> QED BY <2>1, <2>2, Quiet
<1>3. CASE AwaitResume
  <2>1. /\ pc = "resume" /\ pc' = "running"
        /\ UNCHANGED <<builders, latestOnly, stopped, ended, ctxDestroyed, timedOutGen, m_gen>>
    BY <1>3 DEF AwaitResume
  <2>2. /\ Kept' = Kept
        /\ (Len(delivered) < Len(Kept) <=> queue # <<>>) /\ (Len(delivered) = Len(Kept) <=> queue = <<>>)
        /\ queue # <<>> => Len(Append(delivered, Head(queue))) = Len(delivered) + 1
    <3>1. Kept' = Kept
      <4>1. CASE UNCHANGED <<queue, delivered>>
        BY <4>1
      <4>2. CASE queue # <<>> /\ delivered' = Append(delivered, Head(queue)) /\ queue' = Tail(queue)
        BY <1>0, <4>2, KeepWhenDelivered
      <4> QED BY <1>3, <4>1, <4>2 DEF AwaitResume
    <3> QED BY <1>0, <3>1, KeptRead, HeadTailProperties, AppendProperties
  <2>3. /\ UNCHANGED Contract!source /\ Asked /\ Asked' = FALSE /\ Expired' = Expired
    BY <2>1, <2>2 DEF Contract!source
  <2>4. \/ /\ Over \cap Contract!Aborts # {}
           /\ outcome' = IF "Stopped" \in Over THEN "Stopped" ELSE "ContextDestroyed"
           /\ Len(delivered') = Len(delivered)
        \/ /\ Over \cap Contract!Aborts = {} /\ Len(delivered) < Len(Kept)
           /\ outcome' = "value" /\ Len(delivered') = Len(delivered) + 1
        \/ /\ Over = {"end"} /\ Len(delivered) = Len(Kept)
           /\ outcome' = "end" /\ Len(delivered') = Len(delivered)
        \/ /\ Over = {} /\ Len(delivered) = Len(Kept) /\ Expired
           /\ outcome' = "Timeout" /\ Len(delivered') = Len(delivered)
    <3>1. CASE stopped \/ ctxDestroyed
      BY <1>3, <3>1 DEF AwaitResume, Contract!Aborts
    <3>2. CASE ~stopped /\ ~ctxDestroyed /\ queue # <<>>
      <4>1. Over \cap Contract!Aborts = {}
        BY <3>2 DEF Contract!Aborts
      <4>2. outcome' = "value" /\ delivered' = Append(delivered, Head(queue))
        BY <1>3, <3>2 DEF AwaitResume
      <4> QED BY <2>2, <3>2, <4>1, <4>2
    <3>3. CASE ~stopped /\ ~ctxDestroyed /\ queue = <<>> /\ ended
      <4>1. Over = {"end"}
        BY <3>3
      <4>2. outcome' = "end" /\ delivered' = delivered
        BY <1>3, <3>3 DEF AwaitResume
      <4> QED BY <2>2, <3>3, <4>1, <4>2
    <3>4. CASE ~stopped /\ ~ctxDestroyed /\ queue = <<>> /\ ~ended
      <4>1. Over = {}
        BY <3>4
      <4>2. outcome' = "Timeout" /\ delivered' = delivered /\ Expired
        BY <1>3, <3>4 DEF AwaitResume
      <4> QED BY <2>2, <3>4, <4>1, <4>2
    <3> QED BY <3>1, <3>2, <3>3, <3>4
  <2>5. Contract!Answer
    BY <2>3, <2>4 DEF Contract!Answer
  <2> QED BY <2>5 DEF Contract!Next
<1>4. CASE Dispose
  BY <1>4, Quiet DEF Dispose, block, loop, history
<1> QED BY <1>1, <1>2, <1>3, <1>4

\* next() returns what a log of the emissions, read in order, would: each
\* value once, the end after the last one, an abort at once, a timeout only if
\* its own has expired and there is nothing else (await_ready, await_suspend,
\* await_resume and ~NextAwaitable, 191-280; notify(), 143-178; the builders
\* and the signal's lambdas, 289-389).
THEOREM Implements == Spec => ImplementsStream
<1>1. Init => Contract!Init
  <2> SUFFICES ASSUME Init PROVE Contract!Init
    OBVIOUS
  <2>1. delivered \o queue = <<>> /\ Len(delivered) = 0
    BY ConcatEmptySeq DEF Init
  <2> QED BY <2>1 DEF Init, Contract!Init
<1>2. ASSUME IInv, IInv', KeptInv, ContractInv, [Next]_vars
      PROVE  [Contract!Next]_Contract!vars
  <2>1. ASSUME NEW g \in 1..gen, AwaitableDestroyed(g)
        PROVE  Contract!Next \/ UNCHANGED Contract!vars
    <3>1. UNCHANGED <<builders, queue, delivered, latestOnly, stopped, ended, ctxDestroyed,
                      timedOutGen, m_gen, outcome>>
      BY <2>1 DEF AwaitableDestroyed, history
    <3>2. CASE pc = "parked" /\ m_gen = g
      <4>1. Contract!Leave
        BY <2>1, <3>1, <3>2 DEF AwaitableDestroyed, Contract!Leave, Contract!source
      <4> QED BY <4>1 DEF Contract!Next
    <3>3. CASE ~(pc = "parked" /\ m_gen = g)
      BY <2>1, <3>1, <3>3, Quiet DEF AwaitableDestroyed, Kept, Over, Asked, Expired
    <3> QED BY <3>2, <3>3
  <2>2. CASE UNCHANGED vars
    BY <2>2, Quiet DEF vars, block, consumer, history, Kept, Over, Asked, Expired
  <2> QED BY <1>2, <2>1, <2>2, ContractBuild, ContractInput, ContractLoop, ContractConsumer
          DEF Next, Consume
<1>3. Spec => []ContractInv
  BY ContractInvInit, ContractInvStep, PTL DEF Spec
<1> QED BY <1>1, <1>2, <1>3, Invariance, KeptInvariance, PTL
        DEF Spec, ImplementsStream, Contract!Spec

=============================================================================
