---------------------------- MODULE QTask_proofs ----------------------------
(***************************************************************************)
(* Proofs about QTask, for any set of callbacks and any two threads, and   *)
(* about Sleep and WaitFor, which each take a task through steps of QTask  *)
(* only: what is proved of any task holds of the one that sleeps and of    *)
(* waitFor's bridge.                                                       *)
(***************************************************************************)
EXTENDS Sleep, WaitFor, TLAPS

-----------------------------------------------------------------------------
(* Types.                                                                  *)

LEMMA TypeInit == Init => TypeOK
<1>1. Init => /\ settled \in BOOLEAN /\ detached \in BOOLEAN
              /\ continuation \in BOOLEAN /\ handle \in BOOLEAN
  BY Zenon DEF Init
<1> QED BY <1>1 DEF Init, TypeOK, Outcomes, NoCallbacks

LEMMA TypeStep == ASSUME TypeOK, [Next]_vars PROVE TypeOK'
<1> USE DEF TypeOK, promise, dispatch, owner, history
<1>1. CASE Suspend \/ Resume
  BY <1>1 DEF Suspend, Resume
<1>2. ASSUME NEW outcome \in Outcomes, Complete(outcome) PROVE TypeOK'
  BY <1>2 DEF Complete
<1>3. CASE TakeCallbacks
  BY <1>3 DEF TakeCallbacks, NoCallbacks
<1>4. CASE Settle
  BY <1>4 DEF Settle
<1>5. CASE InvokeCallback
  <2>1. state \in Outcomes
    BY <1>5 DEF InvokeCallback
  <2>2. taken[state] # NoCallback => taken[state] \in Callbacks
    BY <2>1
  <2>3. fired' \in [Callbacks -> Nat]
    BY <1>5, <2>2 DEF InvokeCallback
  <2>4. taken' \in [Outcomes -> Callbacks \cup {NoCallback}]
    BY <1>5 DEF InvokeCallback, NoCallbacks
  <2>5. coro' \in {"dispatch", "callback"}
    BY <1>5 DEF InvokeCallback
  <2>6. UNCHANGED <<promise, runner, owner, awaiter, kinds, replaced>>
    BY <1>5 DEF InvokeCallback
  <2> QED BY <2>1, <2>3, <2>4, <2>5, <2>6
<1>6. CASE CallbackReturn \/ SelfDestruct \/ Transfer
  BY <1>6 DEF CallbackReturn, SelfDestruct, Transfer
<1>7. ASSUME NEW kind \in Outcomes, NEW c \in Callbacks, Register(kind, c),
             op' \in {"idle", "onCancelled", "onError"},
             sink' \in Callbacks \cup {NoCallback}
      PROVE  TypeOK'
  <2>1. kinds' \in [Callbacks -> SUBSET Outcomes]
    BY <1>7 DEF Register
  <2>2. fired' \in [Callbacks -> Nat]
    BY <1>7 DEF Register
  <2>3. slot' \in [Outcomes -> Callbacks \cup {NoCallback}]
    BY <1>7 DEF Register
  <2>4. replaced' \subseteq Outcomes \X Callbacks
    BY <1>7 DEF Register
  <2>5. UNCHANGED <<state, settled, detached, continuation, frame, dispatch,
                    handle, awaiter>>
    BY <1>7 DEF Register
  <2> QED BY <1>7, <2>1, <2>2, <2>3, <2>4, <2>5
<1>8. ASSUME NEW c \in Callbacks, Then(c) \/ OnCancelled(c) \/ OnError(c) \/ ToFuture(c)
      PROVE  TypeOK'
  <2>1. \E kind \in Outcomes : Register(kind, c)
    BY <1>8 DEF Then, OnCancelled, OnError, ToFuture, Outcomes
  <2>2. op' \in {"idle", "onCancelled", "onError"} /\ sink' \in Callbacks \cup {NoCallback}
    BY <1>8 DEF Then, OnCancelled, OnError, ToFuture, OwnerFree
  <2> QED BY <1>7, <2>1, <2>2
<1>9. CASE AwaitReady \/ AwaitSuspend \/ AwaitFromCallback \/ AwaitResume
  <2>1. CASE AwaitReady
    <3>1. /\ awaiter' \in {awaiter, "resumed"}
          /\ op' \in {op, "await_suspend"}
          /\ UNCHANGED <<promise, dispatch, handle, sink, history>>
      BY <2>1 DEF AwaitReady
    <3> QED BY <3>1
  <2>2. CASE AwaitSuspend
    <3>1. /\ awaiter' \in {"resumed", "parked"}
          /\ op' = "idle"
          /\ UNCHANGED <<slot, state, settled, detached, frame, dispatch, handle,
                         sink, history>>
      BY <2>2 DEF AwaitSuspend
    <3>2. continuation' \in BOOLEAN
      <4>1. continuation' = TRUE \/ continuation' = continuation
        BY <2>2 DEF AwaitSuspend
      <4> QED BY <4>1, Zenon
    <3> QED BY <3>1, <3>2
  <2>3. CASE AwaitResume BY <2>3 DEF AwaitResume
  <2>4. CASE AwaitFromCallback
    <3>1. continuation' \in BOOLEAN
      BY <2>4, Zenon DEF AwaitFromCallback
    <3> QED BY <2>4, <3>1 DEF AwaitFromCallback
  <2> QED BY <1>9, <2>1, <2>2, <2>3, <2>4
<1>10. CASE DetachBegin \/ DisposeBegin \/ DisposeDone
  BY <1>10 DEF DetachBegin, DisposeBegin, DisposeDone
<1>11. CASE HandOver \/ DestroyFrame
  <2>0. handle' \in BOOLEAN
    BY <1>11, Zenon DEF HandOver, DestroyFrame
  <2>1. CASE HandOver BY <2>0, <2>1 DEF HandOver
  <2>2. CASE DestroyFrame BY <2>0, <2>2 DEF DestroyFrame
  <2> QED BY <1>11, <2>1, <2>2
<1>12. CASE UNCHANGED vars
  BY <1>12 DEF vars
<1> QED
  BY <1>1, <1>2, <1>3, <1>4, <1>5, <1>6, <1>8, <1>9, <1>10, <1>11, <1>12
  DEF Next, Dispatch

\* Every state component is well-typed, and the dispatch runs only with the
\* outcome recorded, in all behaviours of a task (qtask.hpp:41-134).
THEOREM TypeCorrect == Spec => []TypeOK
BY TypeInit, TypeStep, PTL DEF Spec

-----------------------------------------------------------------------------
(***************************************************************************)
(* The inductive invariant, in four parts.  FrameSafe and the others only  *)
(* speak of what must not happen; these say why it does not: where the     *)
(* dispatch is determines `settled` and the callback slots, what the owner *)
(* and the awaiter are doing bounds where the dispatch can be, and each    *)
(* registration is in exactly one of the places a callback can be.         *)
(***************************************************************************)

Settling == {"destroy", "transfer", "parked"}

\* The dispatch publishes `settled` when, and only when, nothing is left.
DispatchInv ==
  /\ coro \in {"running", "suspended"} => state = "empty"
  /\ coro \notin Settling \cup {"gone"} => ~settled
  /\ coro \in Settling => settled
  /\ settled => slot = NoCallbacks /\ state \in Outcomes
  /\ coro # "invoke" => taken = NoCallbacks
  /\ coro = "gone" <=> frame = "destroyed"
  /\ coro = "gone" /\ ~settled => state = "empty"

\* The owner acts on a frame that stays, whatever the dispatch does meanwhile.
OwnerInv ==
  /\ frame = "destroyed" => ~handle
  /\ ~handle => op = "idle" /\ awaiter \in {"none", "done"}
  /\ detached => ~handle
  /\ ~handle /\ frame = "live" => detached
  /\ coro = "destroy" => ~handle /\ ~continuation
  /\ op = "await_suspend" => awaiter = "none"
  /\ op \in {"detach_settled", "detach_live", "dispose_settled", "dispose_live",
             "dispose_defer", "dispose_frame"} => awaiter \in {"none", "done"}
  /\ op \in {"detach_settled", "dispose_settled"} => coro = "parked"
  /\ op = "dispose_live" /\ coro \in {"running", "suspended"} =>
       coro = "suspended" /\ Completer = Owner
  /\ op = "dispose_frame" => coro = "suspended" /\ Completer = Owner

\* The awaiter's handle is stored while it waits, and consumed once.
AwaiterInv ==
  /\ awaiter = "parked" => continuation /\ (settled => coro = "transfer")
  /\ coro = "transfer" => awaiter = "parked"
  /\ continuation => awaiter # "none"
  /\ awaiter \in {"resumed", "done"} => settled

\* Where the registrations of a callback are, and what has become of them.
SinkInv ==
  \A c \in Callbacks :
    /\ fired[c] <= 1
    /\ fired[c] > 0 => state \in kinds[c]
    /\ \A k \in Outcomes :
         /\ slot[k] = c \/ taken[k] = c => k \in kinds[c] /\ (k = state => fired[c] = 0)
         /\ ~(slot[k] = c /\ taken[k] = c)
         /\ k \in kinds[c] =>
              \/ <<k, c>> \in replaced
              \/ slot[k] = c
              \/ taken[k] = c
              \/ state # "empty" /\ state # k
              \/ state = k /\ fired[c] > 0

\* toFuture() registers its sink for the three kinds in their order.
ToFutureInv ==
  /\ op = "onCancelled" => sink \in Callbacks /\ kinds[sink] = {"value"}
  /\ op = "onError" => sink \in Callbacks /\ kinds[sink] = {"value", "cancelled"}

IInv == TypeOK /\ DispatchInv /\ OwnerInv /\ AwaiterInv /\ SinkInv /\ ToFutureInv

\* Without LiveDisposal the owner lets go only of a task whose dispatch has
\* still to look at `detached`, and so every parked frame has an owner.
HandOverInv ==
  /\ op \in {"detach_live", "dispose_live", "dispose_defer"} =>
       \/ coro = "callback" /\ runner = Owner
       \/ coro = "suspended" /\ Completer = Owner
  /\ coro = "parked" => handle

-----------------------------------------------------------------------------
(* The invariant is inductive: one lemma for each part.                    *)

LEMMA InvInit == Init => IInv /\ HandOverInv
<1> SUFFICES ASSUME Init PROVE IInv /\ HandOverInv
  OBVIOUS
<1> USE DEF Init
<1>1. TypeOK
  BY TypeInit
<1>2. \A k \in Outcomes : slot[k] = NoCallback /\ taken[k] = NoCallback
  BY DEF NoCallbacks
<1>3. SinkInv
  <2>1. \A c \in Callbacks : c # NoCallback /\ kinds[c] = {}
    BY QTaskAssumption
  <2>2. ASSUME NEW c \in Callbacks PROVE fired[c] <= 1 /\ ~(fired[c] > 0)
    <3>1. fired[c] = 0
      OBVIOUS
    <3>2. 0 <= 1 /\ ~(0 > 0)
      OBVIOUS
    <3> HIDE DEF Init
    <3> QED BY <3>1, <3>2, Zenon
  <2> HIDE DEF Init
  <2>3. \A c \in Callbacks : \A k \in Outcomes :
          ~(slot[k] = c \/ taken[k] = c) /\ k \notin kinds[c]
    BY <1>2, <2>1
  <2> QED BY <2>2, <2>3, Zenon DEF SinkInv
<1>4. DispatchInv /\ OwnerInv
  BY DEF DispatchInv, OwnerInv, Settling
<1>5. AwaiterInv /\ ToFutureInv /\ HandOverInv
  BY DEF AwaiterInv, ToFutureInv, HandOverInv
<1> QED
  BY <1>1, <1>3, <1>4, <1>5 DEF IInv

\* A step that registers a callback: what it finds, and what it leaves alone.
LEMMA Registration ==
  ASSUME IInv, NEW c \in Callbacks,
         Then(c) \/ OnCancelled(c) \/ OnError(c) \/ ToFuture(c)
  PROVE  /\ \E k \in Outcomes : Register(k, c) /\ k \notin kinds[c]
         /\ handle
         /\ op \in {"idle", "onCancelled", "onError"}
         /\ op' \in {"idle", "onCancelled", "onError"}
<1> USE DEF IInv, ToFutureInv, OwnerInv, Outcomes
<1>1. CASE Then(c) BY <1>1 DEF Then, OwnerFree
<1>2. CASE OnCancelled(c) BY <1>2 DEF OnCancelled, OwnerFree
<1>3. CASE OnError(c) BY <1>3 DEF OnError, OwnerFree
<1>4. CASE ToFuture(c)
  <2>1. CASE op = "onCancelled" /\ sink = c
    BY <1>4, <2>1 DEF ToFuture, OwnerFree
  <2>2. CASE op = "onError" /\ sink = c
    BY <1>4, <2>2 DEF ToFuture, OwnerFree
  <2>3. CASE OwnerFree /\ kinds[c] = {}
    BY <1>4, <2>3 DEF ToFuture, OwnerFree
  <2> QED BY <1>4, <2>1, <2>2, <2>3 DEF ToFuture
<1> QED BY <1>1, <1>2, <1>3, <1>4

LEMMA DispatchStep == ASSUME IInv, Next PROVE DispatchInv'
<1> USE DEF DispatchInv, Settling, promise, dispatch, owner, history
<1>0. TypeOK /\ DispatchInv /\ OwnerInv
  BY DEF IInv
<1>1. CASE Suspend \/ Resume
  BY <1>0, <1>1 DEF Suspend, Resume
<1>2. ASSUME NEW outcome \in Outcomes, Complete(outcome) PROVE DispatchInv'
  BY <1>0, <1>2 DEF Complete
<1>3. CASE TakeCallbacks
  BY <1>0, <1>3 DEF TakeCallbacks
<1>4. CASE Settle
  BY <1>0, <1>4 DEF Settle, TypeOK
<1>5. CASE InvokeCallback
  BY <1>0, <1>5 DEF InvokeCallback, TypeOK
<1>6. CASE CallbackReturn
  BY <1>0, <1>6 DEF CallbackReturn
<1>7. CASE SelfDestruct
  BY <1>0, <1>7 DEF SelfDestruct
<1>8. CASE Transfer
  BY <1>0, <1>8 DEF Transfer
<1>9. ASSUME NEW c \in Callbacks, Then(c) \/ OnCancelled(c) \/ OnError(c) \/ ToFuture(c)
      PROVE  DispatchInv'
  <2>1. PICK k \in Outcomes : Register(k, c)
    BY <1>9, Registration
  <2> QED BY <1>0, <2>1 DEF Register
<1>10. CASE AwaitReady \/ AwaitSuspend \/ AwaitFromCallback \/ AwaitResume
  BY <1>0, <1>10 DEF AwaitReady, AwaitSuspend, AwaitFromCallback, AwaitResume
<1>11. CASE DetachBegin \/ DisposeBegin \/ DisposeDone \/ HandOver
  BY <1>0, <1>11 DEF DetachBegin, DisposeBegin, DisposeDone, HandOver
<1>12. CASE DestroyFrame
  <2>1. coro \in {"suspended", "parked"}
    BY <1>0, <1>12 DEF DestroyFrame, OwnerInv
  <2> QED BY <1>0, <1>12, <2>1 DEF DestroyFrame
<1> QED
  BY <1>1, <1>2, <1>3, <1>4, <1>5, <1>6, <1>7, <1>8, <1>9, <1>10, <1>11, <1>12
  DEF Next, Dispatch

LEMMA OwnerStep == ASSUME IInv, Next PROVE OwnerInv'
<1> USE DEF OwnerInv, promise, dispatch, owner, history
<1>0. TypeOK /\ DispatchInv /\ OwnerInv /\ AwaiterInv /\ SinkInv
  BY DEF IInv
<1>1. CASE Suspend
  BY <1>0, <1>1 DEF Suspend, AwaiterInv
<1>2. CASE Resume
  BY <1>0, <1>2 DEF Resume
<1>3. ASSUME NEW outcome \in Outcomes, Complete(outcome) PROVE OwnerInv'
  BY <1>0, <1>3 DEF Complete
<1>4. CASE TakeCallbacks
  BY <1>0, <1>4 DEF TakeCallbacks
<1>5. CASE Settle
  BY <1>0, <1>5 DEF Settle
<1>6. CASE InvokeCallback
  BY <1>0, <1>6 DEF InvokeCallback
<1>7. CASE CallbackReturn
  BY <1>0, <1>7 DEF CallbackReturn
<1>8. CASE SelfDestruct
  BY <1>0, <1>8 DEF SelfDestruct
<1>9. CASE Transfer
  BY <1>0, <1>9 DEF Transfer, AwaiterInv
<1>10. ASSUME NEW c \in Callbacks, Then(c) \/ OnCancelled(c) \/ OnError(c) \/ ToFuture(c)
       PROVE  OwnerInv'
  <2>1. /\ UNCHANGED <<state, settled, detached, continuation, frame, dispatch,
                       handle, awaiter>>
        /\ handle /\ op' \in {"idle", "onCancelled", "onError"}
    BY <1>10, Registration DEF Register
  <2> QED BY <1>0, <2>1
<1>11. CASE AwaitReady
  BY <1>0, <1>11 DEF AwaitReady, OwnerFree
<1>12. CASE AwaitSuspend
  BY <1>0, <1>12 DEF AwaitSuspend
<1>13. CASE AwaitFromCallback \/ AwaitResume
  BY <1>0, <1>13 DEF AwaitFromCallback, AwaitResume
<1>14. CASE DetachBegin \/ DisposeBegin
  <2>1. /\ OwnerFree /\ awaiter \in {"none", "done"}
        /\ UNCHANGED <<promise, dispatch, handle, awaiter>>
        /\ \/ settled /\ op' \in {"detach_settled", "dispose_settled"}
           \/ ~settled /\ op' \in {"detach_live", "dispose_live"}
    BY <1>14 DEF DetachBegin, DisposeBegin, MayDrop
  <2>2. settled => coro = "parked"
    BY <1>0, <2>1 DEF OwnerFree, DispatchInv, AwaiterInv, TypeOK, Settling
  <2>3. coro \in {"running", "suspended"} /\ ~settled => coro = "suspended" /\ Completer = Owner
    <3>1. coro \in {"running", "suspended"} => \A c \in Callbacks : ~(fired[c] > 0)
      BY <1>0 DEF DispatchInv, SinkInv, TypeOK, Outcomes
    <3> QED BY <1>14, <3>1 DEF DetachBegin, DisposeBegin, MayDrop
  <2> QED BY <1>0, <2>1, <2>2, <2>3 DEF OwnerFree
<1>15. CASE DisposeDone
  BY <1>0, <1>15 DEF DisposeDone
<1>16. CASE HandOver
  BY <1>0, <1>16 DEF HandOver
<1>17. CASE DestroyFrame
  BY <1>0, <1>17 DEF DestroyFrame
<1> QED
  BY <1>1, <1>2, <1>3, <1>4, <1>5, <1>6, <1>7, <1>8, <1>9, <1>10, <1>11, <1>12,
     <1>13, <1>14, <1>15, <1>16, <1>17
  DEF Next, Dispatch

LEMMA AwaiterStep == ASSUME IInv, Next PROVE AwaiterInv'
<1> USE DEF AwaiterInv, promise, dispatch, owner, history
<1>0. TypeOK /\ DispatchInv /\ OwnerInv /\ AwaiterInv
  BY DEF IInv
<1>1. CASE Suspend \/ Resume
  BY <1>0, <1>1 DEF Suspend, Resume
<1>2. ASSUME NEW outcome \in Outcomes, Complete(outcome) PROVE AwaiterInv'
  BY <1>0, <1>2 DEF Complete
<1>3. CASE TakeCallbacks \/ InvokeCallback \/ CallbackReturn
  BY <1>0, <1>3 DEF TakeCallbacks, InvokeCallback, CallbackReturn
<1>4. CASE Settle
  <2>1. continuation => awaiter = "parked"
    BY <1>0, <1>4 DEF Settle, DispatchInv, TypeOK, Settling
  <2> QED BY <1>0, <1>4, <2>1 DEF Settle
<1>5. CASE SelfDestruct
  BY <1>0, <1>5 DEF SelfDestruct
<1>6. CASE Transfer
  BY <1>0, <1>6 DEF Transfer, DispatchInv, Settling
<1>7. ASSUME NEW c \in Callbacks, Then(c) \/ OnCancelled(c) \/ OnError(c) \/ ToFuture(c)
      PROVE  AwaiterInv'
  <2>1. UNCHANGED <<state, settled, detached, continuation, frame, dispatch,
                    handle, awaiter>>
    BY <1>7, Registration DEF Register
  <2> QED BY <1>0, <2>1
<1>8. CASE AwaitReady
  BY <1>0, <1>8 DEF AwaitReady
<1>9. CASE AwaitSuspend
  BY <1>0, <1>9 DEF AwaitSuspend, OwnerInv
<1>10. CASE AwaitFromCallback \/ AwaitResume
  BY <1>0, <1>10 DEF AwaitFromCallback, AwaitResume, DispatchInv, Settling
<1>11. CASE DetachBegin \/ DisposeBegin \/ DisposeDone \/ HandOver
  BY <1>0, <1>11 DEF DetachBegin, DisposeBegin, DisposeDone, HandOver
<1>12. CASE DestroyFrame
  BY <1>0, <1>12 DEF DestroyFrame, OwnerInv
<1> QED
  BY <1>1, <1>2, <1>3, <1>4, <1>5, <1>6, <1>7, <1>8, <1>9, <1>10, <1>11, <1>12
  DEF Next, Dispatch

LEMMA ToFutureStep == ASSUME IInv, Next PROVE ToFutureInv'
<1> USE DEF ToFutureInv, promise, dispatch, owner, history
<1>0. TypeOK /\ ToFutureInv
  BY DEF IInv
<1>1. CASE Suspend \/ Resume \/ TakeCallbacks \/ Settle \/ CallbackReturn \/ SelfDestruct \/ Transfer
  BY <1>0, <1>1
  DEF Suspend, Resume, TakeCallbacks, Settle, CallbackReturn, SelfDestruct, Transfer
<1>2. ASSUME NEW outcome \in Outcomes, Complete(outcome) PROVE ToFutureInv'
  BY <1>0, <1>2 DEF Complete
<1>3. CASE InvokeCallback
  BY <1>0, <1>3 DEF InvokeCallback
<1>4. ASSUME NEW c \in Callbacks, Then(c) \/ OnCancelled(c) \/ OnError(c)
      PROVE  ToFutureInv'
  BY <1>4 DEF Then, OnCancelled, OnError, OwnerFree
<1>5. ASSUME NEW c \in Callbacks, ToFuture(c) PROVE ToFutureInv'
  BY <1>0, <1>5 DEF ToFuture, Register, OwnerFree, TypeOK
<1>6. CASE AwaitReady \/ AwaitSuspend \/ AwaitFromCallback \/ AwaitResume
  BY <1>0, <1>6 DEF AwaitReady, AwaitSuspend, AwaitFromCallback, AwaitResume
<1>7. CASE DetachBegin \/ DisposeBegin \/ DisposeDone \/ HandOver \/ DestroyFrame
  BY <1>0, <1>7 DEF DetachBegin, DisposeBegin, DisposeDone, HandOver, DestroyFrame
<1> QED
  BY <1>1, <1>2, <1>3, <1>4, <1>5, <1>6, <1>7 DEF Next, Dispatch

LEMMA SinkStep == ASSUME IInv, Next PROVE SinkInv'
<1> USE DEF promise, dispatch, owner, history
<1>0. TypeOK /\ DispatchInv /\ SinkInv /\ \A c \in Callbacks : c # NoCallback
  BY QTaskAssumption DEF IInv
<1>1. ASSUME UNCHANGED <<slot, taken, state, kinds, replaced, fired>> PROVE SinkInv'
  BY <1>0, <1>1 DEF SinkInv
<1>2. ASSUME NEW outcome \in Outcomes, Complete(outcome) PROVE SinkInv'
  <2>1. state = "empty" /\ outcome # "empty"
    BY <1>0, <1>2 DEF Complete, DispatchInv, Outcomes
  <2>2. \A c \in Callbacks : fired[c] = 0
    <3> SUFFICES ASSUME NEW c \in Callbacks PROVE fired[c] = 0
      OBVIOUS
    <3>1. state \notin kinds[c] /\ fired[c] \in Nat
      BY <1>0, <2>1 DEF TypeOK, Outcomes
    <3>2. ~(fired[c] > 0)
      BY <1>0, <3>1, Zenon DEF SinkInv
    <3> QED BY <3>1, <3>2
  <2>3. state' = outcome /\ UNCHANGED <<slot, taken, kinds, replaced, fired>>
    BY <1>2 DEF Complete
  <2> QED BY <1>0, <2>1, <2>2, <2>3 DEF SinkInv
<1>3. CASE TakeCallbacks
  <2>1. \A k \in Outcomes : taken[k] = NoCallback /\ slot'[k] = NoCallback /\ taken'[k] = slot[k]
    BY <1>0, <1>3 DEF TakeCallbacks, DispatchInv, NoCallbacks
  <2>2. UNCHANGED <<state, kinds, replaced, fired>>
    BY <1>3 DEF TakeCallbacks
  <2> QED BY <1>0, <2>1, <2>2 DEF SinkInv
<1>4. CASE InvokeCallback
  <2>1. state \in Outcomes /\ \A k \in Outcomes : taken'[k] = NoCallback
    BY <1>0, <1>4 DEF InvokeCallback, TypeOK, NoCallbacks
  <2>2. UNCHANGED <<state, slot, kinds, replaced>>
    BY <1>4 DEF InvokeCallback
  <2>3. \A c \in Callbacks : fired'[c] = IF taken[state] = c THEN fired[c] + 1 ELSE fired[c]
    BY <1>0, <1>4 DEF InvokeCallback, TypeOK
  <2>4. state # "empty"
    BY <2>1 DEF Outcomes
  <2> SUFFICES ASSUME NEW c \in Callbacks
               PROVE  /\ fired'[c] <= 1
                      /\ fired'[c] > 0 => state \in kinds[c]
                      /\ \A k \in Outcomes :
                           /\ slot[k] = c => k \in kinds[c] /\ (k = state => fired'[c] = 0)
                           /\ k \in kinds[c] =>
                                \/ <<k, c>> \in replaced
                                \/ slot[k] = c
                                \/ state # k
                                \/ state = k /\ fired'[c] > 0
    BY <1>0, <2>1, <2>2, <2>4 DEF SinkInv
  <2>5. fired[c] \in Nat
    BY <1>0 DEF TypeOK
  <2>6. CASE taken[state] = c
    <3>1. fired[c] = 0 /\ state \in kinds[c] /\ slot[state] # c
      BY <1>0, <2>1, <2>6 DEF SinkInv
    <3>2. fired'[c] = 1
      BY <2>3, <2>6, <3>1
    <3>3. \A k \in Outcomes : slot[k] = c => k \in kinds[c] /\ k # state
      BY <1>0, <3>1 DEF SinkInv
    <3> QED BY <3>1, <3>2, <3>3
  <2>7. CASE taken[state] # c
    <3>1. fired'[c] = fired[c]
      BY <2>3, <2>7
    <3> QED BY <1>0, <2>1, <2>4, <2>5, <2>7, <3>1 DEF SinkInv
  <2> QED BY <2>6, <2>7
<1>5. ASSUME NEW c \in Callbacks, Then(c) \/ OnCancelled(c) \/ OnError(c) \/ ToFuture(c)
      PROVE  SinkInv'
  <2>1. PICK kind \in Outcomes : Register(kind, c) /\ kind \notin kinds[c]
    BY <1>5, Registration
  <2>2. UNCHANGED <<state, taken>>
    BY <2>1 DEF Register
  <2>3. \A d \in Callbacks : kinds'[d] = IF d = c THEN kinds[c] \cup {kind} ELSE kinds[d]
    BY <1>0, <2>1 DEF Register, TypeOK
  <2>4. taken[kind] # c /\ slot[kind] # c /\ (state = kind => fired[c] = 0)
    <3>1. fired[c] \in Nat
      BY <1>0 DEF TypeOK
    <3>2. taken[kind] # c /\ slot[kind] # c
      BY <1>0, <2>1, Zenon DEF SinkInv
    <3>3. state = kind => ~(fired[c] > 0)
      BY <1>0, <2>1, Zenon DEF SinkInv
    <3> QED BY <3>1, <3>2, <3>3
  <2>5. CASE settled
    <3>1. UNCHANGED <<slot, replaced>>
      BY <2>1, <2>5 DEF Register
    <3>2. \A d \in Callbacks :
            fired'[d] = IF d = c /\ state = kind THEN fired[c] + 1 ELSE fired[d]
      BY <1>0, <2>1, <2>5 DEF Register, TypeOK
    <3>3. state \in Outcomes /\ state # "empty"
      BY <1>0, <2>5 DEF DispatchInv, Outcomes
    <3>4. \A k \in Outcomes : slot[k] = NoCallback
      BY <1>0, <2>5 DEF DispatchInv, NoCallbacks
    <3>5. \A k \in Outcomes : taken[k] = NoCallback
      BY <1>0, <2>5 DEF DispatchInv, NoCallbacks, Settling
    <3> QED BY <1>0, <2>2, <2>3, <2>4, <3>1, <3>2, <3>3, <3>4, <3>5 DEF SinkInv, TypeOK
  <2>6. CASE ~settled
    <3>1. UNCHANGED fired
      BY <2>1, <2>6 DEF Register
    <3>2. \A k \in Outcomes : slot'[k] = IF k = kind THEN c ELSE slot[k]
      BY <1>0, <2>1, <2>6 DEF Register, TypeOK
    <3>3. /\ replaced \subseteq replaced'
          /\ slot[kind] # NoCallback => <<kind, slot[kind]>> \in replaced'
      BY <2>1, <2>6 DEF Register
    <3> SUFFICES ASSUME NEW d \in Callbacks, NEW k \in Outcomes
                 PROVE  /\ fired[d] <= 1
                        /\ fired[d] > 0 => state \in kinds'[d]
                        /\ slot'[k] = d \/ taken[k] = d =>
                             k \in kinds'[d] /\ (k = state => fired[d] = 0)
                        /\ ~(slot'[k] = d /\ taken[k] = d)
                        /\ k \in kinds'[d] =>
                             \/ <<k, d>> \in replaced'
                             \/ slot'[k] = d
                             \/ taken[k] = d
                             \/ state # "empty" /\ state # k
                             \/ state = k /\ fired[d] > 0
      BY <2>2, <3>1 DEF SinkInv, Outcomes
    <3>4. CASE k = kind /\ d = c
      BY <1>0, <2>1, <2>3, <2>4, <3>2, <3>4 DEF SinkInv
    <3>5. CASE k = kind /\ d # c
      BY <1>0, <2>1, <2>3, <3>2, <3>3, <3>5 DEF SinkInv
    <3>6. CASE k # kind
      BY <1>0, <2>3, <3>2, <3>3, <3>6 DEF SinkInv
    <3> QED BY <3>4, <3>5, <3>6
  <2> QED BY <2>5, <2>6
<1>6. CASE \/ Suspend \/ Resume \/ Settle \/ CallbackReturn \/ SelfDestruct \/ Transfer
           \/ AwaitReady \/ AwaitSuspend \/ AwaitFromCallback \/ AwaitResume
  BY <1>1, <1>6
  DEF Suspend, Resume, Settle, CallbackReturn, SelfDestruct, Transfer, AwaitReady,
      AwaitSuspend, AwaitFromCallback, AwaitResume
<1>7. CASE DetachBegin \/ DisposeBegin \/ DisposeDone \/ HandOver \/ DestroyFrame
  BY <1>1, <1>7 DEF DetachBegin, DisposeBegin, DisposeDone, HandOver, DestroyFrame
<1> QED
  BY <1>2, <1>3, <1>4, <1>5, <1>6, <1>7 DEF Next, Dispatch

LEMMA HandOverStep == ASSUME IInv, HandOverInv, Next, ~LiveDisposal PROVE HandOverInv'
<1> USE DEF HandOverInv, promise, dispatch, owner, history
<1>0. TypeOK /\ DispatchInv /\ OwnerInv /\ AwaiterInv
  BY DEF IInv
<1>1. CASE Suspend \/ Resume
  BY <1>0, <1>1 DEF Suspend, Resume
<1>2. ASSUME NEW outcome \in Outcomes, Complete(outcome) PROVE HandOverInv'
  BY <1>0, <1>2 DEF Complete
<1>3. CASE TakeCallbacks \/ InvokeCallback \/ CallbackReturn \/ SelfDestruct
  BY <1>0, <1>3 DEF TakeCallbacks, InvokeCallback, CallbackReturn, SelfDestruct
<1>4. CASE Settle
  \* A frame that parks has an owner: without one, `detached` was set, and
  \* no awaiter can have stored its handle.
  <2>1. ~handle => detached /\ ~continuation
    BY <1>0, <1>4 DEF Settle, DispatchInv, OwnerInv, AwaiterInv, TypeOK, Settling
  <2> QED BY <1>0, <1>4, <2>1 DEF Settle
<1>5. CASE Transfer
  BY <1>0, <1>5 DEF Transfer, OwnerInv, AwaiterInv
<1>6. ASSUME NEW c \in Callbacks, Then(c) \/ OnCancelled(c) \/ OnError(c) \/ ToFuture(c)
      PROVE  HandOverInv'
  <2>1. /\ UNCHANGED <<state, settled, detached, continuation, frame, dispatch,
                       handle, awaiter>>
        /\ op' \in {"idle", "onCancelled", "onError"}
    BY <1>6, Registration DEF Register
  <2> QED BY <1>0, <2>1
<1>7. CASE AwaitReady \/ AwaitSuspend \/ AwaitFromCallback \/ AwaitResume
  BY <1>0, <1>7 DEF AwaitReady, AwaitSuspend, AwaitFromCallback, AwaitResume
<1>8. CASE DetachBegin \/ DisposeBegin
  <2>1. ~settled => \/ coro = "callback" /\ runner = Owner
                    \/ coro = "suspended" /\ Completer = Owner
    BY <1>8 DEF DetachBegin, DisposeBegin, MayDrop
  <2> QED BY <1>0, <1>8, <2>1 DEF DetachBegin, DisposeBegin
<1>9. CASE DisposeDone
  BY <1>0, <1>9 DEF DisposeDone
<1>10. CASE HandOver
  BY <1>0, <1>10 DEF HandOver
<1>11. CASE DestroyFrame
  BY <1>0, <1>11 DEF DestroyFrame, OwnerInv
<1> QED
  BY <1>1, <1>2, <1>3, <1>4, <1>5, <1>6, <1>7, <1>8, <1>9, <1>10, <1>11
  DEF Next, Dispatch

-----------------------------------------------------------------------------
(* What follows from it.                                                   *)

THEOREM Invariance == Spec => []IInv
<1>1. IInv /\ [Next]_vars => IInv'
  <2> SUFFICES ASSUME IInv, [Next]_vars PROVE IInv'
    OBVIOUS
  <2>1. TypeOK'
    BY TypeStep DEF IInv
  <2>2. CASE Next
    BY <2>1, <2>2, DispatchStep, OwnerStep, AwaiterStep, SinkStep, ToFutureStep DEF IInv
  <2>3. CASE UNCHANGED vars
    BY <2>3
    DEF IInv, TypeOK, DispatchInv, OwnerInv, AwaiterInv, SinkInv, ToFutureInv,
        vars, promise, dispatch, owner, history
  <2> QED BY <2>2, <2>3
<1> QED BY <1>1, InvInit, PTL DEF Spec

\* No use after free, for every interleaving of the owner with a dispatch on
\* another thread, and even if the owner drops the task before it settled
\* (qtask.hpp:41-68, 261-302, 357-379).
THEOREM MemorySafety == Spec => []FrameSafe
<1>1. IInv => FrameSafe
  BY DEF IInv, TypeOK, DispatchInv, OwnerInv, FrameSafe
<1> QED BY <1>1, Invariance, PTL

\* Every sink registered for the outcome is called before the task settles,
\* however its registration raced the dispatch (qtask.hpp:43-67, 322-353).
THEOREM Delivery == Spec => []NoLostCallback
<1>1. IInv => NoLostCallback
  <2> SUFFICES ASSUME IInv, settled, NEW c \in Callbacks, state \in kinds[c],
                      <<state, c>> \notin replaced
               PROVE  fired[c] > 0
    BY DEF NoLostCallback
  <2>1. state \in Outcomes /\ slot = NoCallbacks /\ taken = NoCallbacks
    BY DEF IInv, DispatchInv, Settling
  <2>2. slot[state] # c /\ taken[state] # c
    BY <2>1, QTaskAssumption DEF NoCallbacks
  <2> QED BY <2>1, <2>2 DEF IInv, SinkInv
<1> QED BY <1>1, Invariance, PTL

\* A sink registered for all kinds is called once at most (qtask.hpp:461-481).
THEOREM AtMostOnce == Spec => []SinkCalledOnce
<1>1. IInv => SinkCalledOnce
  BY Zenon DEF IInv, SinkInv, SinkCalledOnce
<1> QED BY <1>1, Invariance, PTL

\* Both together: every sink hears of the outcome it was registered for, once.
THEOREM OnceEach == Spec => []EachSinkOnce
<1>1. NoLostCallback /\ SinkCalledOnce => EachSinkOnce
  BY DEF EachSinkOnce
<1>2. QED
  BY <1>1, Delivery, AtMostOnce, PTL

\* An awaiter is never parked on a task that will not transfer to it
\* (qtask.hpp:292-302).
THEOREM WakeUp == Spec => []NoLostAwaiter
<1>1. IInv => NoLostAwaiter
  BY DEF IInv, AwaiterInv, NoLostAwaiter
<1> QED BY <1>1, Invariance, PTL

\* The awaiter runs on only when no callback of the task is left
\* (qtask.hpp:279-285, 55-64).
THEOREM AwaiterLast == Spec => []AwaiterAfterCallbacks
<1>1. IInv => AwaiterAfterCallbacks
  <2> SUFFICES ASSUME IInv, awaiter \in {"resumed", "done"}
               PROVE  /\ settled /\ slot = NoCallbacks /\ taken = NoCallbacks
                      /\ coro \notin {"invoke", "callback"}
    BY DEF AwaiterAfterCallbacks
  <2>1. settled
    BY DEF IInv, AwaiterInv
  <2> QED BY <2>1 DEF IInv, TypeOK, DispatchInv, Settling
<1> QED BY <1>1, Invariance, PTL

\* No leak, provided the owner keeps a task that another thread completes
\* until it has settled: a frame without a handle is one whose dispatch will
\* read `detached` (qtask.hpp:56-62, 261-277, 357-379).
THEOREM Ownership == ASSUME ~LiveDisposal PROVE Spec => []NoOrphanFrame
<1>1. IInv /\ HandOverInv => NoOrphanFrame
  BY DEF IInv, TypeOK, DispatchInv, OwnerInv, AwaiterInv, HandOverInv, NoOrphanFrame,
         Settling
<1>2. IInv /\ IInv' /\ HandOverInv /\ [Next]_vars => HandOverInv'
  <2> SUFFICES ASSUME IInv, HandOverInv, [Next]_vars PROVE HandOverInv'
    OBVIOUS
  <2>1. CASE UNCHANGED vars
    BY <2>1 DEF HandOverInv, vars, promise, dispatch, owner
  <2> QED BY <2>1, HandOverStep
<1> QED BY <1>1, <1>2, InvInit, Invariance, PTL DEF Spec

-----------------------------------------------------------------------------
(* The refinement: every step of the lock-level task is a step of TaskSpec *)
(* or changes nothing TaskSpec speaks of.                                  *)

Called == {c \in Callbacks : fired[c] > 0}

\* A step that leaves alone what the contract speaks of.
LEMMA Stutter ==
  ASSUME UNCHANGED <<state, settled, frame, handle, fired, awaiter>>
  PROVE  UNCHANGED Contract!vars
BY DEF Contract!vars, keeper

\* One more call to one sink.
LEMMA OneCall ==
  ASSUME IInv, NEW c \in Callbacks, fired[c] = 0, frame = "live", state # "empty",
         fired' = [fired EXCEPT ![c] = @ + 1],
         UNCHANGED <<state, settled, frame, handle, awaiter>>
  PROVE  Contract!Call(c)
<1>1. fired \in [Callbacks -> Nat]
  BY DEF IInv, TypeOK
<1>2. c \notin Called /\ Called' = Called \cup {c}
  BY <1>1 DEF Called
<1>3. keeper # "freed"
  BY DEF keeper
<1>4. UNCHANGED <<state, settled, keeper, IF awaiter = "done" THEN "resumed" ELSE awaiter>>
  BY DEF keeper
<1> QED BY <1>2, <1>3, <1>4 DEF Contract!Call, Called

LEMMA StepRefinement ==
  ASSUME IInv, HandOverInv, Next, ~LiveDisposal
  PROVE  [Contract!Next]_(Contract!vars)
<1> USE DEF promise, dispatch, owner, history
<1>0. TypeOK /\ DispatchInv /\ OwnerInv /\ AwaiterInv /\ SinkInv
  BY DEF IInv
<1>1. CASE \/ Suspend \/ Resume \/ TakeCallbacks \/ CallbackReturn
           \/ DetachBegin \/ DisposeBegin \/ DisposeDone
  BY <1>1, Stutter
  DEF Suspend, Resume, TakeCallbacks, CallbackReturn, DetachBegin, DisposeBegin, DisposeDone
<1>2. ASSUME NEW outcome \in Outcomes, Complete(outcome) PROVE Contract!Finish
  <2>1. state = "empty" /\ frame = "live"
    BY <1>0, <1>2 DEF Complete, DispatchInv, TypeOK
  <2>2. state' = outcome /\ UNCHANGED <<settled, frame, handle, fired, awaiter>>
    BY <1>2 DEF Complete
  <2> QED BY <2>1, <2>2 DEF Contract!Finish, keeper, Outcomes
<1>3. CASE Settle
  <2>1. state # "empty" /\ ~settled /\ frame = "live"
    BY <1>0, <1>3 DEF Settle, DispatchInv, TypeOK, Settling, Outcomes
  <2>2. settled' = TRUE /\ UNCHANGED <<state, frame, handle, fired, awaiter>>
    BY <1>3 DEF Settle
  <2> QED BY <2>1, <2>2 DEF Contract!Next, Contract!Settle, keeper
<1>4. CASE InvokeCallback
  <2>1. state \in Outcomes /\ frame = "live" /\ state # "empty"
    BY <1>0, <1>4 DEF InvokeCallback, TypeOK, DispatchInv, Outcomes
  <2>2. UNCHANGED <<state, settled, frame, handle, awaiter>>
    BY <1>4 DEF InvokeCallback
  <2>3. CASE taken[state] = NoCallback
    BY <1>4, <2>2, <2>3, Stutter DEF InvokeCallback
  <2>4. CASE taken[state] # NoCallback
    <3>1. PICK c \in Callbacks : c = taken[state]
      BY <1>0, <2>1, <2>4 DEF TypeOK
    <3>2. fired[c] = 0
      BY <1>0, <2>1, <3>1 DEF SinkInv
    <3>3. fired' = [fired EXCEPT ![c] = @ + 1]
      BY <1>4, <2>4, <3>1 DEF InvokeCallback
    <3>4. Contract!Call(c)
      BY <2>1, <2>2, <3>2, <3>3, OneCall
    <3> QED BY <3>4 DEF Contract!Next
  <2> QED BY <2>3, <2>4
<1>5. CASE SelfDestruct
  <2>1. frame = "live" /\ ~handle /\ settled /\ frame' = "destroyed"
    BY <1>0, <1>5 DEF SelfDestruct, DispatchInv, OwnerInv, TypeOK, Settling
  <2>2. UNCHANGED <<state, settled, handle, fired, awaiter>>
    BY <1>5 DEF SelfDestruct
  <2> QED BY <2>1, <2>2 DEF Contract!Next, Contract!CoroutineFrees, keeper
<1>6. CASE Transfer
  <2>1. frame = "live" /\ handle /\ settled /\ awaiter = "parked" /\ awaiter' = "resumed"
    BY <1>0, <1>6 DEF Transfer, DispatchInv, OwnerInv, AwaiterInv, TypeOK, Settling
  <2>2. UNCHANGED <<state, settled, handle, frame, fired>>
    BY <1>6 DEF Transfer
  <2> QED BY <2>1, <2>2 DEF Contract!Next, Contract!Continue, keeper
<1>7. ASSUME NEW c \in Callbacks, Then(c) \/ OnCancelled(c) \/ OnError(c) \/ ToFuture(c)
      PROVE  Contract!Call(c) \/ UNCHANGED Contract!vars
  <2>1. PICK kind \in Outcomes : Register(kind, c) /\ kind \notin kinds[c]
    BY <1>7, Registration
  <2>2. UNCHANGED <<state, settled, frame, handle, awaiter>>
    BY <2>1 DEF Register
  <2>3. CASE settled /\ state = kind
    <3>1. frame = "live"
      BY <1>0, <1>7, Registration DEF OwnerInv, TypeOK
    <3>2. fired[c] = 0
      <4>1. fired[c] \in Nat
        BY <1>0 DEF TypeOK
      <4>2. ~(fired[c] > 0)
        BY <1>0, <2>1, <2>3, Zenon DEF SinkInv
      <4> QED BY <4>1, <4>2
    <3>3. fired' = [fired EXCEPT ![c] = @ + 1]
      BY <2>1, <2>3 DEF Register
    <3>4. state # "empty"
      BY <2>3 DEF Outcomes
    <3> QED BY <2>2, <3>1, <3>2, <3>3, <3>4, OneCall
  <2>4. CASE ~(settled /\ state = kind)
    <3>1. UNCHANGED fired
      BY <2>1, <2>4 DEF Register
    <3> QED BY <2>2, <3>1, Stutter
  <2> QED BY <2>3, <2>4
<1>8. CASE AwaitReady
  <2>1. UNCHANGED <<state, settled, frame, handle, fired>>
    BY <1>8 DEF AwaitReady
  <2>2. CASE settled
    <3>1. handle /\ frame = "live" /\ awaiter = "none" /\ awaiter' = "resumed"
      BY <1>0, <1>8, <2>2 DEF AwaitReady, OwnerFree, OwnerInv, TypeOK
    <3> QED BY <2>1, <2>2, <3>1 DEF Contract!Next, Contract!Continue, keeper
  <2>3. CASE ~settled
    BY <1>8, <2>1, <2>3, Stutter DEF AwaitReady
  <2> QED BY <2>2, <2>3
<1>9. CASE AwaitSuspend
  <2>1. UNCHANGED <<state, settled, frame, handle, fired>>
    BY <1>9 DEF AwaitSuspend
  <2>2. handle /\ frame = "live" /\ awaiter = "none"
    BY <1>0, <1>9 DEF AwaitSuspend, OwnerInv, TypeOK
  <2>3. CASE settled
    <3>1. awaiter' = "resumed"
      BY <1>9, <2>3 DEF AwaitSuspend
    <3> QED BY <2>1, <2>2, <2>3, <3>1 DEF Contract!Next, Contract!Continue, keeper
  <2>4. CASE ~settled
    <3>1. awaiter' = "parked"
      BY <1>9, <2>4 DEF AwaitSuspend
    <3> QED BY <2>1, <2>2, <2>4, <3>1 DEF Contract!Next, Contract!Park, keeper
  <2> QED BY <2>3, <2>4
<1>10. CASE AwaitResume
  <2>1. awaiter = "resumed" /\ awaiter' = "done"
    BY <1>10 DEF AwaitResume
  <2>2. UNCHANGED <<state, settled, frame, handle, fired>>
    BY <1>10 DEF AwaitResume
  <2> QED BY <2>1, <2>2 DEF Contract!vars, keeper
<1>11. CASE HandOver
  <2>1. handle /\ frame = "live" /\ ~settled /\ awaiter # "parked" /\ ~handle'
    BY <1>0, <1>11 DEF HandOver, HandOverInv, DispatchInv, OwnerInv, TypeOK, Settling
  <2>2. UNCHANGED <<state, settled, frame, fired, awaiter>>
    BY <1>11 DEF HandOver
  <2> QED BY <2>1, <2>2 DEF Contract!Next, Contract!Release, keeper
<1>12. CASE DestroyFrame
  <2>1. handle /\ frame = "live" /\ awaiter # "parked" /\ (state = "empty" \/ settled)
    BY <1>0, <1>12 DEF DestroyFrame, DispatchInv, OwnerInv, TypeOK, Settling
  <2>2. frame' = "destroyed" /\ UNCHANGED <<state, settled, fired, awaiter>>
    BY <1>12 DEF DestroyFrame
  <2> QED BY <2>1, <2>2 DEF Contract!Next, Contract!OwnerFrees, keeper
<1>13. CASE AwaitFromCallback
  <2>1. handle /\ frame = "live" /\ awaiter = "none" /\ ~settled
    BY <1>0, <1>13 DEF AwaitFromCallback, DispatchInv, OwnerInv, TypeOK, Settling
  <2>2. awaiter' = "parked" /\ UNCHANGED <<state, settled, frame, handle, fired>>
    BY <1>13 DEF AwaitFromCallback
  <2> QED BY <2>1, <2>2 DEF Contract!Next, Contract!Park, keeper
<1> QED
  BY <1>1, <1>2, <1>3, <1>4, <1>5, <1>6, <1>7, <1>8, <1>9, <1>10, <1>11, <1>12, <1>13
  DEF Next, Dispatch, Contract!Next

\* The locks, the flag and the dispatch loop implement what the class comment
\* promises (qtask.hpp:387-427), under the same proviso as Ownership.
THEOREM Refinement == ASSUME ~LiveDisposal PROVE Spec => ImplementsContract
<1>1. Init => Contract!Init
  <2> SUFFICES ASSUME Init PROVE Contract!Init
    OBVIOUS
  <2>1. {c \in Callbacks : fired[c] > 0} = {}
    BY DEF Init
  <2> QED BY <2>1 DEF Init, Contract!Init, keeper
<1>2. IInv /\ HandOverInv /\ [Next]_vars => [Contract!Next]_(Contract!vars)
  <2> SUFFICES ASSUME IInv, HandOverInv, [Next]_vars
               PROVE  [Contract!Next]_(Contract!vars)
    OBVIOUS
  <2>1. CASE UNCHANGED vars
    BY <2>1, Stutter DEF vars, promise, owner, history
  <2> QED BY <2>1, StepRefinement
<1>3. IInv /\ HandOverInv /\ [Next]_vars => HandOverInv'
  <2> SUFFICES ASSUME IInv, HandOverInv, [Next]_vars PROVE HandOverInv'
    OBVIOUS
  <2>1. CASE UNCHANGED vars
    BY <2>1 DEF HandOverInv, vars, promise, dispatch, owner
  <2> QED BY <2>1, HandOverStep
<1> QED
  BY <1>1, <1>2, <1>3, InvInit, Invariance, PTL DEF Spec, Contract!Spec, ImplementsContract

-----------------------------------------------------------------------------
(* The refinement for who arms a sink on the task: the combinators, the    *)
(* wrappers and toFuture().                                                *)

\* A sink that lost its slot is in none of the places it could be called from.
ReplacedInv ==
  \A c \in Callbacks, k \in Outcomes :
    <<k, c>> \in replaced => k \in kinds[c] /\ slot[k] # c /\ taken[k] # c

LEMMA ReplacedStep == ASSUME IInv, ReplacedInv, [Next]_vars PROVE ReplacedInv'
<1> USE DEF promise, dispatch, owner, history
<1>0. TypeOK /\ DispatchInv /\ SinkInv /\ \A c \in Callbacks : c # NoCallback
  BY QTaskAssumption DEF IInv
<1>1. ASSUME UNCHANGED <<slot, taken, kinds, replaced>> PROVE ReplacedInv'
  BY <1>1 DEF ReplacedInv
<1>2. CASE TakeCallbacks
  <2>1. \A k \in Outcomes : taken'[k] = slot[k] /\ slot'[k] = NoCallback
    BY <1>2 DEF TakeCallbacks, NoCallbacks
  <2>2. UNCHANGED <<kinds, replaced>>
    BY <1>2 DEF TakeCallbacks
  <2> QED BY <1>0, <2>1, <2>2 DEF ReplacedInv
<1>3. CASE InvokeCallback
  <2>1. \A k \in Outcomes : taken'[k] = NoCallback
    BY <1>3 DEF InvokeCallback, NoCallbacks
  <2>2. UNCHANGED <<slot, kinds, replaced>>
    BY <1>3 DEF InvokeCallback
  <2> QED BY <1>0, <2>1, <2>2 DEF ReplacedInv
<1>4. ASSUME NEW d \in Callbacks, Then(d) \/ OnCancelled(d) \/ OnError(d) \/ ToFuture(d)
      PROVE  ReplacedInv'
  <2>1. PICK kind \in Outcomes : Register(kind, d) /\ kind \notin kinds[d]
    BY <1>4, Registration
  <2>2. UNCHANGED taken /\ \A c \in Callbacks : kinds[c] \subseteq kinds'[c]
    BY <1>0, <2>1 DEF Register, TypeOK
  <2>3. CASE settled
    BY <2>1, <2>2, <2>3 DEF Register, ReplacedInv
  <2>4. CASE ~settled
    <3>1. /\ replaced' = replaced \cup ({kind} \X ({slot[kind]} \ {NoCallback}))
          /\ \A k \in Outcomes : slot'[k] = IF k = kind THEN d ELSE slot[k]
      BY <1>0, <2>1, <2>4 DEF Register, TypeOK
    <3> SUFFICES ASSUME NEW c \in Callbacks, NEW k \in Outcomes, <<k, c>> \in replaced'
                 PROVE  k \in kinds'[c] /\ slot'[k] # c /\ taken[k] # c
      BY <2>2 DEF ReplacedInv
    <3>2. CASE <<k, c>> \in replaced
      <4>1. k \in kinds[c] /\ slot[k] # c /\ taken[k] # c
        BY <3>2 DEF ReplacedInv
      <4>2. k = kind => c # d
        BY <2>1, <4>1
      <4> QED BY <2>2, <3>1, <4>1, <4>2
    <3>3. CASE <<k, c>> \notin replaced
      <4>1. k = kind /\ c = slot[kind]
        BY <3>1, <3>3
      <4>2. k \in kinds[c] /\ taken[k] # c
        BY <1>0, <4>1 DEF SinkInv
      <4>3. c # d
        BY <2>1, <4>1, <4>2
      <4> QED BY <2>2, <3>1, <4>1, <4>2, <4>3
    <3> QED BY <3>2, <3>3
  <2> QED BY <2>3, <2>4
<1>5. ASSUME NEW outcome \in Outcomes, Complete(outcome) PROVE ReplacedInv'
  BY <1>1, <1>5 DEF Complete
<1>6. CASE \/ Suspend \/ Resume \/ Settle \/ CallbackReturn \/ SelfDestruct \/ Transfer
           \/ AwaitReady \/ AwaitSuspend \/ AwaitFromCallback \/ AwaitResume
  BY <1>1, <1>6
  DEF Suspend, Resume, Settle, CallbackReturn, SelfDestruct, Transfer, AwaitReady,
      AwaitSuspend, AwaitFromCallback, AwaitResume
<1>7. CASE DetachBegin \/ DisposeBegin \/ DisposeDone \/ HandOver \/ DestroyFrame
  BY <1>1, <1>7 DEF DetachBegin, DisposeBegin, DisposeDone, HandOver, DestroyFrame
<1>8. CASE UNCHANGED vars
  BY <1>1, <1>8 DEF vars
<1> QED BY <1>2, <1>3, <1>4, <1>5, <1>6, <1>7, <1>8 DEF Next, Dispatch

\* What the phases of the dispatch, and the registrations of a sink, look like
\* from outside.
Seen ==
  /\ coro \in {"running", "suspended"} => TaskSeen = "running"
  /\ coro \in {"dispatch", "invoke", "callback"} => TaskSeen = "dispatch"
  /\ coro = "transfer" => TaskSeen = "transfer"
  /\ coro \in {"destroy", "parked"} => TaskSeen = "settled"
  /\ coro = "gone" => TaskSeen = IF state = "empty" THEN "running" ELSE "settled"
  /\ settled => TaskSeen \in {"transfer", "settled"}
  /\ ~settled => TaskSeen \notin {"transfer", "settled"}
  /\ \A k \in Outcomes, c \in Callbacks :
       /\ fired[c] \in {0, 1}
       /\ fired[c] = 1 => SinkSeen(k, c) = "called"
       /\ fired[c] = 0 /\ <<k, c>> \in replaced => SinkSeen(k, c) = "replaced"
       /\ fired[c] = 0 /\ <<k, c>> \notin replaced =>
            SinkSeen(k, c) = IF k \in kinds[c] THEN "pending" ELSE "none"

LEMMA Views == IInv => Seen
<1> SUFFICES ASSUME IInv PROVE Seen
  OBVIOUS
<1>1. /\ coro \in {"running", "suspended", "dispatch", "invoke", "callback",
                  "destroy", "transfer", "parked", "gone"}
      /\ coro \in {"running", "suspended"} => state = "empty"
      /\ coro \notin {"running", "suspended", "gone"} => state # "empty"
      /\ settled => state # "empty" /\ coro \in Settling \cup {"gone"}
      /\ ~settled => coro \notin Settling /\ (coro = "gone" => state = "empty")
  BY DEF IInv, TypeOK, DispatchInv, Settling, Outcomes
<1>2. ASSUME NEW c \in Callbacks PROVE fired[c] \in {0, 1}
  <2>1. fired[c] \in Nat /\ fired[c] <= 1
    BY Zenon DEF IInv, TypeOK, SinkInv
  <2> QED BY <2>1
<1>3. ASSUME NEW k \in Outcomes, NEW c \in Callbacks
      PROVE  /\ fired[c] = 1 => SinkSeen(k, c) = "called"
             /\ fired[c] = 0 /\ <<k, c>> \in replaced => SinkSeen(k, c) = "replaced"
             /\ fired[c] = 0 /\ <<k, c>> \notin replaced =>
                  SinkSeen(k, c) = IF k \in kinds[c] THEN "pending" ELSE "none"
  <2>1. /\ fired[c] = 1 => fired[c] # 0 /\ ~(fired[c] > 1)
        /\ fired[c] = 0 => fired[c] # 1 /\ ~(fired[c] > 1)
    OBVIOUS
  <2> QED BY <2>1, Zenon DEF SinkSeen
<1> QED BY <1>1, <1>2, <1>3 DEF Seen, TaskSeen, Settling

LEMMA ViewsNext == IInv' => Seen'
BY Views, PTL

\* A step that leaves alone what the view of sink c is made of.
LEMMA QuietSink ==
  ASSUME NEW k \in Outcomes, NEW c \in Callbacks, fired'[c] = fired[c],
         <<k, c>> \in replaced' <=> <<k, c>> \in replaced,
         k \in kinds'[c] <=> k \in kinds[c]
  PROVE  SinkSeen(k, c)' = SinkSeen(k, c)
BY DEF SinkSeen

\* A registration of sink d arms it, if it is of the kind that fits, unless
\* that is done; takes the slot from the sink that had it; or is none of c's.
LEMMA ArmedRegister ==
  ASSUME IInv, IInv', ReplacedInv, NEW k \in Outcomes, NEW c \in Callbacks,
         state' \in {"empty", k}, NEW kind \in Outcomes, NEW d \in Callbacks,
         Register(kind, d), kind \notin kinds[d]
  PROVE  Armed(k, c)!Arm \/ Armed(k, c)!Replace \/ UNCHANGED Armed(k, c)!vars
<1>0. TypeOK /\ SinkInv /\ Seen /\ Seen' /\ \A e \in Callbacks : e # NoCallback
  BY Views, ViewsNext, QTaskAssumption DEF IInv
<1>1. /\ state \in {"empty", k} /\ state \in Outcomes \cup {"empty"} /\ "empty" \notin Outcomes
      /\ UNCHANGED <<state, settled, coro, continuation>>
      /\ \A e \in Callbacks : kinds'[e] = IF e = d THEN kinds[e] \cup {kind} ELSE kinds[e]
      /\ \A e \in Callbacks : fired[e] \in {0, 1}
  BY <1>0 DEF Register, TypeOK, Outcomes, dispatch, Seen
<1>2. UNCHANGED TaskSeen
  BY <1>1 DEF TaskSeen
<1>3. settled <=> TaskSeen \in {"transfer", "settled"}
  BY <1>0 DEF Seen
<1>4. k \notin kinds[c] => fired[c] = 0 /\ <<k, c>> \notin replaced /\ slot[k] # c
  <2>1. fired[c] > 0 => state \in kinds[c]
    BY <1>0 DEF SinkInv
  <2>2. kinds[c] \subseteq Outcomes
    BY <1>0 DEF TypeOK
  <2>3. slot[k] = c => k \in kinds[c]
    BY <1>0 DEF SinkInv
  <2>4. <<k, c>> \in replaced => k \in kinds[c]
    BY DEF ReplacedInv
  <2> QED BY <1>1, <2>1, <2>2, <2>3, <2>4
<1>5. CASE settled
  <2>1. /\ \A e \in Callbacks :
             fired'[e] = IF state = kind /\ e = d THEN fired[e] + 1 ELSE fired[e]
        /\ UNCHANGED replaced
    BY <1>0, <1>5 DEF Register, TypeOK
  <2>2. state = k
    BY <1>0, <1>1, <1>5 DEF IInv, DispatchInv
  <2>3. CASE c = d /\ kind = k
    <3>1. fired[c] = 0 /\ fired'[c] = 1 /\ <<k, c>> \notin replaced
      BY <1>4, <2>1, <2>2, <2>3
    <3>2. SinkSeen(k, c) = "none" /\ SinkSeen(k, c)' = "called"
      BY <1>0, <2>3, <3>1 DEF Seen
    <3> QED BY <1>1, <1>2, <1>3, <1>5, <3>2 DEF Armed!Arm, Armed!Settled
  <2>4. CASE ~(c = d /\ kind = k)
    <3>1. fired'[c] = fired[c] /\ (k \in kinds'[c] <=> k \in kinds[c])
      BY <1>1, <2>1, <2>2, <2>4
    <3>2. SinkSeen(k, c)' = SinkSeen(k, c)
      BY <2>1, <3>1, QuietSink, Zenon
    <3> QED BY <1>1, <1>2, <3>2 DEF Armed!vars
  <2> QED BY <2>3, <2>4
<1>6. CASE ~settled
  <2>1. /\ UNCHANGED fired
        /\ replaced' = replaced \cup ({kind} \X ({slot[kind]} \ {NoCallback}))
    BY <1>6 DEF Register
  <2>2. CASE c = d /\ kind = k
    <3>1. fired[c] = 0 /\ <<k, c>> \notin replaced /\ slot[k] # c
      BY <1>4, <2>2
    <3>2. fired'[c] = 0 /\ <<k, c>> \notin replaced' /\ k \in kinds'[c]
      BY <1>1, <2>1, <2>2, <3>1
    <3>3. SinkSeen(k, c) = "none" /\ SinkSeen(k, c)' = "pending"
      BY <1>0, <2>2, <3>1, <3>2 DEF Seen
    <3> QED BY <1>1, <1>2, <1>3, <1>6, <3>3 DEF Armed!Arm, Armed!Settled
  <2>3. CASE c # d /\ kind = k /\ slot[k] = c
    <3>1. k \in kinds[c] /\ (k = state => fired[c] = 0)
      BY <1>0, <2>3 DEF SinkInv
    <3>2. fired[c] = 0
      <4>1. fired[c] > 0 => state \in kinds[c]
        BY <1>0 DEF SinkInv
      <4>2. kinds[c] \subseteq Outcomes
        BY <1>0 DEF TypeOK
      <4> QED BY <1>1, <3>1, <4>1, <4>2
    <3>3. <<k, c>> \notin replaced
      BY <2>3 DEF ReplacedInv
    <3>4. fired'[c] = 0 /\ <<k, c>> \in replaced'
      BY <1>0, <2>1, <2>3, <3>2
    <3>5. SinkSeen(k, c) = "pending" /\ SinkSeen(k, c)' = "replaced"
      BY <1>0, <3>1, <3>2, <3>3, <3>4 DEF Seen
    <3> QED BY <1>1, <1>2, <1>3, <1>6, <3>5 DEF Armed!Replace, Armed!Settled
  <2>4. CASE ~(c = d /\ kind = k) /\ ~(kind = k /\ slot[k] = c)
    <3>1. /\ fired'[c] = fired[c]
          /\ <<k, c>> \in replaced' <=> <<k, c>> \in replaced
          /\ k \in kinds'[c] <=> k \in kinds[c]
      BY <1>1, <2>1, <2>4
    <3>2. SinkSeen(k, c)' = SinkSeen(k, c)
      BY <3>1, QuietSink, Zenon
    <3> QED BY <1>1, <1>2, <3>2 DEF Armed!vars
  <2> QED BY <2>2, <2>3, <2>4
<1> QED BY <1>5, <1>6

\* A step that calls and registers nothing and leaves no coroutine.
LEMMA QuietArmed ==
  ASSUME NEW k \in Outcomes, NEW c \in Callbacks,
         UNCHANGED <<kinds, replaced, fired, continuation, TaskSeen>>
  PROVE  UNCHANGED Armed(k, c)!vars
<1>1. SinkSeen(k, c)' = SinkSeen(k, c)
  BY QuietSink
<1> QED BY <1>1 DEF Armed!vars

LEMMA ArmedStep ==
  ASSUME IInv, IInv', ReplacedInv, Next, NEW k \in Outcomes, NEW c \in Callbacks,
         state' \in {"empty", k}
  PROVE  Armed(k, c)!Next \/ UNCHANGED Armed(k, c)!vars
<1> USE DEF promise, dispatch, owner, history
<1>0. TypeOK /\ DispatchInv /\ OwnerInv /\ SinkInv /\ Seen /\ Seen'
  BY Views, ViewsNext DEF IInv
<1>1. ASSUME UNCHANGED <<state, coro, continuation, kinds, replaced, fired>>
      PROVE  UNCHANGED Armed(k, c)!vars
  <2>1. UNCHANGED TaskSeen
    BY <1>1 DEF TaskSeen
  <2> QED BY <1>1, <2>1, QuietArmed
<1>2. CASE Suspend \/ Resume \/ TakeCallbacks \/ CallbackReturn \/ SelfDestruct
  <2>1. UNCHANGED <<kinds, replaced, fired, continuation, state>>
    BY <1>2 DEF Suspend, Resume, TakeCallbacks, CallbackReturn, SelfDestruct
  <2>2. CASE Suspend \/ Resume
    <3>1. coro \in {"running", "suspended"} /\ coro' \in {"running", "suspended"}
      BY <2>2 DEF Suspend, Resume
    <3> QED BY <1>0, <2>1, <3>1, QuietArmed DEF Seen
  <2>3. CASE TakeCallbacks \/ CallbackReturn
    <3>1. /\ coro \in {"dispatch", "invoke", "callback"}
          /\ coro' \in {"dispatch", "invoke", "callback"}
      BY <2>3 DEF TakeCallbacks, CallbackReturn
    <3> QED BY <1>0, <2>1, <3>1, QuietArmed DEF Seen
  <2>4. CASE SelfDestruct
    <3>1. coro = "destroy" /\ coro' = "gone" /\ state \in Outcomes /\ state # "empty"
      BY <1>0, <2>4 DEF SelfDestruct, TypeOK, Outcomes
    <3> QED BY <1>0, <2>1, <3>1, QuietArmed DEF Seen
  <2> QED BY <1>2, <2>2, <2>3, <2>4
<1>3. ASSUME NEW outcome \in Outcomes, Complete(outcome) PROVE Armed(k, c)!Complete
  <2>1. coro = "running" /\ coro' = "dispatch"
    BY <1>3 DEF Complete
  <2>2. UNCHANGED <<kinds, replaced, fired, continuation>>
    BY <1>3 DEF Complete
  <2>3. SinkSeen(k, c)' = SinkSeen(k, c)
    BY <2>2, QuietSink
  <2> QED BY <1>0, <2>1, <2>2, <2>3 DEF Seen, Armed!Complete
<1>4. CASE Settle
  <2>1. UNCHANGED <<kinds, replaced, fired, continuation, state>>
    BY <1>4 DEF Settle
  <2>2. SinkSeen(k, c)' = SinkSeen(k, c)
    BY <2>1, QuietSink
  <2>3. /\ coro = "dispatch" /\ slot = NoCallbacks
        /\ coro' = "transfer" <=> continuation = TRUE
        /\ coro' \in {"destroy", "transfer", "parked"}
    BY <1>0, <1>4 DEF Settle, TypeOK
  <2>4. SinkSeen(k, c) # "pending"
    <3> SUFFICES ASSUME SinkSeen(k, c) = "pending" PROVE FALSE
      OBVIOUS
    <3>1. fired[c] = 0 /\ <<k, c>> \notin replaced /\ k \in kinds[c]
      BY <1>0 DEF Seen
    <3>2. slot[k] # c /\ taken[k] # c
      BY <1>0, <2>3, QTaskAssumption DEF DispatchInv, NoCallbacks
    <3>3. state = k
      BY <1>0, <2>1, <2>3 DEF TypeOK, Outcomes
    <3>4. \/ <<k, c>> \in replaced
          \/ slot[k] = c
          \/ taken[k] = c
          \/ state # k
          \/ fired[c] > 0
      BY <1>0, <3>1, Zenon DEF SinkInv
    <3> QED BY <3>1, <3>2, <3>3, <3>4
  <2>5. TaskSeen = "dispatch" /\ TaskSeen' = IF continuation THEN "transfer" ELSE "settled"
    BY <1>0, <2>3 DEF Seen
  <2> QED BY <2>1, <2>2, <2>4, <2>5 DEF Armed!Next, Armed!Settle
<1>5. CASE InvokeCallback
  <2>1. /\ coro = "invoke" /\ coro' \in {"dispatch", "callback"}
        /\ UNCHANGED <<kinds, replaced, continuation, state>>
    BY <1>5 DEF InvokeCallback
  <2>2. state = k
    BY <1>0, <2>1 DEF TypeOK, Outcomes
  <2>3. TaskSeen = "dispatch" /\ TaskSeen' = "dispatch"
    BY <1>0, <2>1 DEF Seen
  <2>4. CASE taken[k] = NoCallback
    BY <1>5, <2>1, <2>2, <2>3, <2>4, QuietArmed DEF InvokeCallback
  <2>5. CASE taken[k] # NoCallback
    <3>1. \A e \in Callbacks : fired'[e] = IF e = taken[k] THEN fired[e] + 1 ELSE fired[e]
      BY <1>0, <1>5, <2>2, <2>5 DEF InvokeCallback, TypeOK
    <3>2. CASE taken[k] = c
      <4>1. k \in kinds[c] /\ fired[c] = 0
        BY <1>0, <2>2, <3>2 DEF SinkInv
      <4>2. <<k, c>> \notin replaced
        BY <3>2 DEF ReplacedInv
      <4>3. fired'[c] = 1
        BY <3>1, <3>2, <4>1
      <4>4. SinkSeen(k, c) = "pending" /\ SinkSeen(k, c)' = "called"
        BY <1>0, <4>1, <4>2, <4>3 DEF Seen
      <4> QED BY <2>1, <2>3, <4>4 DEF Armed!Next, Armed!Call
    <3>3. CASE taken[k] # c
      <4>1. fired'[c] = fired[c] /\ kinds' = kinds /\ replaced' = replaced
        BY <2>1, <3>1, <3>3
      <4>2. SinkSeen(k, c)' = SinkSeen(k, c)
        BY <4>1, QuietSink, Zenon
      <4> QED BY <2>1, <2>3, <4>2 DEF Armed!vars
    <3> QED BY <3>2, <3>3
  <2> QED BY <2>4, <2>5
<1>6. CASE Transfer
  <2>1. /\ coro = "transfer" /\ coro' = "parked"
        /\ UNCHANGED <<kinds, replaced, fired, continuation>>
    BY <1>6 DEF Transfer
  <2>2. SinkSeen(k, c)' = SinkSeen(k, c)
    BY <2>1, QuietSink
  <2> QED BY <1>0, <2>1, <2>2 DEF Seen, Armed!Next, Armed!Transfer
<1>7. ASSUME NEW d \in Callbacks, Then(d) \/ OnCancelled(d) \/ OnError(d) \/ ToFuture(d)
      PROVE  Armed(k, c)!Next \/ UNCHANGED Armed(k, c)!vars
  <2>1. PICK kind \in Outcomes : Register(kind, d) /\ kind \notin kinds[d]
    BY <1>7, Registration
  <2> QED BY <2>1, ArmedRegister DEF Armed!Next
<1>8. CASE AwaitSuspend \/ AwaitFromCallback
  <2>1. UNCHANGED <<state, settled, coro, kinds, replaced, fired>>
    BY <1>8 DEF AwaitSuspend, AwaitFromCallback
  <2>2. CASE UNCHANGED continuation
    BY <1>1, <2>1, <2>2
  <2>3. CASE continuation' # continuation
    <3>1. ~settled /\ continuation' = TRUE
      BY <1>0, <1>8, <2>3 DEF AwaitSuspend, AwaitFromCallback, DispatchInv, Settling
    <3>2. TaskSeen' = TaskSeen
      BY <2>1 DEF TaskSeen
    <3>3. SinkSeen(k, c)' = SinkSeen(k, c)
      BY <2>1, QuietSink
    <3> QED BY <1>0, <3>1, <3>2, <3>3 DEF Seen, Armed!Next, Armed!Park, Armed!Settled
  <2> QED BY <2>2, <2>3
<1>9. CASE AwaitReady \/ AwaitResume \/ DetachBegin \/ DisposeBegin \/ DisposeDone \/ HandOver
  BY <1>1, <1>9
  DEF AwaitReady, AwaitResume, DetachBegin, DisposeBegin, DisposeDone, HandOver
<1>10. CASE DestroyFrame
  <2>1. /\ coro \in {"suspended", "parked"} /\ coro' = "gone"
        /\ UNCHANGED <<state, continuation, kinds, replaced, fired>>
    BY <1>0, <1>10 DEF DestroyFrame, OwnerInv
  <2>2. UNCHANGED TaskSeen
    <3>1. CASE coro = "suspended"
      BY <1>0, <2>1, <3>1 DEF Seen, DispatchInv
    <3>2. CASE coro = "parked"
      <4>1. state # "empty"
        BY <1>0, <3>2 DEF TypeOK, Outcomes
      <4> QED BY <1>0, <2>1, <3>2, <4>1 DEF Seen
    <3> QED BY <2>1, <3>1, <3>2
  <2> QED BY <2>1, <2>2, QuietArmed
<1> QED
  BY <1>2, <1>3, <1>4, <1>5, <1>6, <1>7, <1>8, <1>9, <1>10 DEF Next, Dispatch, Armed!Next

\* To whoever arms a sink on it, for every kind of outcome, a task behaves as
\* ArmedTask says: the sink is called once, by the dispatch or at once, unless
\* another took its slot, and the coroutine left with it is resumed after the
\* dispatch (qtask.hpp:69-134, 292-302, 381-481).
THEOREM ArmedRefinement == Spec => ImplementsArmed
<1>1. Init => ReplacedInv
  BY DEF Init, ReplacedInv
<1>2. Init => \A k \in Outcomes, c \in Callbacks : Armed(k, c)!Init
  <2> SUFFICES ASSUME Init, NEW k \in Outcomes, NEW c \in Callbacks
               PROVE  Armed(k, c)!Init
    OBVIOUS
  <2>1. Seen
    BY InvInit, Views
  <2>2. TaskSeen = "running" /\ SinkSeen(k, c) = "none" /\ continuation = FALSE
    BY <2>1 DEF Seen, Init
  <2> QED BY <2>2 DEF Armed!Init
<1>3. IInv /\ ReplacedInv /\ [Next]_vars => ReplacedInv'
  BY ReplacedStep
<1>4. IInv /\ IInv' /\ ReplacedInv /\ [Next]_vars =>
        [\A k \in Outcomes, c \in Callbacks :
           state' \in {"empty", k} => Armed(k, c)!Next \/ UNCHANGED Armed(k, c)!vars]_vars
  BY ArmedStep
<1> QED
  BY <1>1, <1>2, <1>3, <1>4, Invariance, PTL DEF Spec, ImplementsArmed

-----------------------------------------------------------------------------
(* Sleep.                                                                  *)

LEMMA SleepStepOfTask == [SleepNext]_sleepVars => [Next]_vars
  BY DEF SleepNext, FallAsleep, BodyEnds, TimerFires, FrameEnds, TaskStep, Next, sleepVars

\* A task whose body sleeps is a task: every theorem about Spec is about it.
THEOREM SleepIsTask == SleepSpec => Spec
  BY SleepStepOfTask, PTL DEF SleepSpec, SleepInit, Spec

\* The timer that may still pass the guard is that of the sleep in progress.
Asleep ==
  /\ guard \in BOOLEAN
  /\ timer /\ ~guard => coro = "suspended"

LEMMA AsleepStep == ASSUME IInv, Asleep, [SleepNext]_sleepVars PROVE Asleep'
<1> USE DEF Asleep
<1>1. CASE FallAsleep
  BY <1>1 DEF FallAsleep, Suspend
<1>2. CASE BodyEnds
  BY <1>2 DEF BodyEnds, Complete
<1>3. CASE TimerFires
  BY <1>3 DEF TimerFires
<1>4. CASE FrameEnds
  <2>1. coro = "suspended" => guard' = TRUE
    BY <1>4 DEF FrameEnds
  <2>2. guard' \in BOOLEAN /\ (guard => guard') /\ UNCHANGED timer
    BY <1>4 DEF FrameEnds
  <2>3. coro # "suspended" => coro' = coro \/ coro' = "gone"
    BY <1>4 DEF FrameEnds, DestroyFrame
  <2> QED BY <2>1, <2>2, <2>3
<1>5. CASE TaskStep
  <2>1. coro = "suspended" => coro' = "suspended"
    BY <1>5 DEF TaskStep, Dispatch, TakeCallbacks, Settle, InvokeCallback, CallbackReturn,
         SelfDestruct, Transfer, Then, OnCancelled, OnError, ToFuture, Register, AwaitReady,
         AwaitSuspend, AwaitResume, DetachBegin, DisposeBegin, DisposeDone, HandOver, dispatch
  <2> QED BY <1>5, <2>1 DEF TaskStep
<1>6. CASE UNCHANGED sleepVars
  BY <1>6 DEF sleepVars, vars, dispatch
<1> QED BY <1>1, <1>2, <1>3, <1>4, <1>5, <1>6 DEF SleepNext

\* A timer left behind by a frame that was dropped, by whatever operation of
\* the owner and at whatever moment, resumes nothing.
THEOREM SleepSafe == SleepSpec => []TimerFindsSleeper
<1>1. SleepInit => Asleep
  BY DEF SleepInit, Asleep
<1>2. IInv /\ Asleep => TimerFindsSleeper
  BY DEF IInv, TypeOK, DispatchInv, Asleep, TimerFindsSleeper
<1> QED BY <1>1, <1>2, AsleepStep, SleepIsTask, Invariance, PTL DEF SleepSpec

-----------------------------------------------------------------------------
(* WaitFor.                                                                *)

LEMMA WaitStepOfTask == [WaitNext]_waitVars => [Next]_vars
<1> USE DEF Next, waitVars
<1>1. WaitForAssumption /\ RegisterQuit => \E c \in Callbacks : ToFuture(c)
  BY DEF RegisterQuit, WaitForAssumption
<1> QED BY <1>1, WaitForAssumption
        DEF WaitNext, BridgeBody, BridgeDispatch, Call, AwaitBridge, Exec, TakeResult, DisposeBridge

\* waitFor's bridge is a task, of any two threads: so are the theorems' frames,
\* sinks and awaiters its own.
THEOREM BridgeIsTask == WaitSpec => Spec
  BY WaitStepOfTask, PTL DEF WaitSpec, WaitInit, Spec

\* The bridge has the one sink, registered by this call, and a quit event comes
\* of it alone; once exec() has returned the sink has been called, if it was
\* registered at all.
CallInv ==
  /\ CallTypeOK
  /\ \A c \in Callbacks : c # quit => kinds[c] = {}
  /\ call \in {"bridge", "await_ready"} => kinds[quit] = {}
  /\ quitting => fired[quit] > 0
  /\ call \in {"await_resume", "dispose", "returned"} =>
       /\ state # "empty"
       /\ kinds[quit] = {} \/ fired[quit] > 0

\* What is called is the sink, and it was not called before.
LEMMA OnlyTheSink ==
  ASSUME IInv, CallInv, Dispatch, fired' # fired
  PROVE  kinds[quit] # {} /\ fired[quit] = 0 /\ call \in {"register", "exec"}
<1>1. /\ state \in Outcomes /\ taken[state] \in Callbacks
  <2>1. InvokeCallback
    BY DEF Dispatch, TakeCallbacks, Settle, CallbackReturn, SelfDestruct, Transfer, history
  <2>2. state \in Outcomes
    BY <2>1 DEF InvokeCallback, IInv, TypeOK
  <2>3. taken[state] # NoCallback
    BY <2>1 DEF InvokeCallback
  <2> QED BY <2>2, <2>3 DEF IInv, TypeOK
<1>2. state \in kinds[taken[state]] /\ fired[taken[state]] = 0
  BY <1>1 DEF IInv, SinkInv
<1>3. taken[state] = quit
  BY <1>1, <1>2 DEF CallInv
<1>4. kinds[quit] # {} /\ fired[quit] = 0
  BY <1>2, <1>3
<1>5. call \in {"register", "exec"}
  BY <1>4 DEF CallInv, CallTypeOK
<1> QED BY <1>4, <1>5

\* A dispatch calls a sink or leaves what the call depends on alone.
LEMMA DispatchOfBridge ==
  ASSUME IInv, Dispatch
  PROVE  /\ UNCHANGED <<kinds, state>>
         /\ \A c \in Callbacks : fired'[c] >= fired[c]
<1>1. UNCHANGED <<kinds, state>>
  BY DEF Dispatch, TakeCallbacks, Settle, InvokeCallback, CallbackReturn, SelfDestruct,
         Transfer, promise, history
<1>2. CASE InvokeCallback
  <2>1. state \in Outcomes
    BY <1>2 DEF InvokeCallback, IInv, TypeOK
  <2>2. CASE taken[state] = NoCallback
    <3>1. fired' = fired
      BY <1>2, <2>2 DEF InvokeCallback
    <3> QED BY <1>1, <3>1 DEF IInv, TypeOK
  <2>3. CASE taken[state] # NoCallback
    <3>1. fired' = [fired EXCEPT ![taken[state]] = @ + 1]
      BY <1>2, <2>3 DEF InvokeCallback
    <3> QED BY <1>1, <3>1 DEF IInv, TypeOK
  <2> QED BY <1>1, <2>2, <2>3
<1>3. CASE ~InvokeCallback
  BY <1>1, <1>3 DEF Dispatch, TakeCallbacks, Settle, CallbackReturn, SelfDestruct,
         Transfer, history, IInv, TypeOK
<1> QED BY <1>2, <1>3

LEMMA CallStep == ASSUME IInv, IInv', CallInv, [WaitNext]_waitVars PROVE CallInv'
<1> USE WaitForAssumption DEF CallInv, CallTypeOK
<1>1. CASE BridgeBody
  <2>1. UNCHANGED <<call, quitting, kinds, fired>>
    BY <1>1 DEF BridgeBody, Suspend, Resume, Complete, history
  <2>2. state # "empty" => state' # "empty"
    BY <1>1 DEF BridgeBody, Suspend, Resume, Complete, promise, Outcomes
  <2> QED BY <2>1, <2>2
<1>2. CASE BridgeDispatch
  <2>1. UNCHANGED <<kinds, state, call>> /\ \A c \in Callbacks : fired'[c] >= fired[c]
    BY <1>2, DispatchOfBridge DEF BridgeDispatch
  <2>2. fired[quit] \in Nat /\ fired'[quit] \in Nat
    BY DEF IInv, TypeOK
  <2>3. CASE fired'[quit] > fired[quit]
    <3>1. call \in {"register", "exec"}
      BY <1>2, <2>2, <2>3, OnlyTheSink DEF BridgeDispatch
    <3>2. quitting' = TRUE
      BY <1>2, <2>3 DEF BridgeDispatch, Posts, Quit
    <3> QED BY <2>1, <2>2, <2>3, <3>1, <3>2
  <2>4. CASE ~(fired'[quit] > fired[quit])
    <3>1. quitting' = quitting
      BY <1>2, <2>4 DEF BridgeDispatch, Posts
    <3> QED BY <2>1, <2>2, <2>4, <3>1
  <2> QED BY <2>3, <2>4
<1>3. CASE AwaitBridge
  BY <1>3 DEF AwaitBridge, vars, history, promise, IInv, DispatchInv, Outcomes
<1>4. CASE RegisterQuit
  <2>1. call = "register" /\ call' \in {"register", "exec"}
    BY <1>4 DEF RegisterQuit
  <2>2. \A c \in Callbacks : c # quit => kinds'[c] = {}
    BY <1>4 DEF RegisterQuit, ToFuture, Register, IInv, TypeOK
  <2>3. fired[quit] \in Nat /\ fired'[quit] \in Nat /\ fired'[quit] >= fired[quit]
    BY <1>4 DEF RegisterQuit, ToFuture, Register, IInv, TypeOK
  <2>4. CASE fired'[quit] > fired[quit]
    <3>1. quitting' = TRUE
      BY <1>4, <2>4 DEF RegisterQuit, Posts, Quit
    <3> QED BY <2>1, <2>2, <2>3, <2>4, <3>1
  <2>5. CASE ~(fired'[quit] > fired[quit])
    <3>1. quitting' = quitting
      BY <1>4, <2>5 DEF RegisterQuit, Posts
    <3> QED BY <2>1, <2>2, <2>3, <2>5, <3>1
  <2> QED BY <2>4, <2>5
<1>5. CASE Exec
  <2>1. fired[quit] > 0 /\ state # "empty"
    BY <1>5 DEF Exec, IInv, TypeOK, SinkInv, Outcomes
  <2> QED BY <1>5, <2>1 DEF Exec, vars, history, promise
<1>6. CASE TakeResult
  BY <1>6 DEF TakeResult, vars, history, promise
<1>7. CASE DisposeBridge
  <2>1. UNCHANGED <<kinds, fired, state, quitting>> /\ call = "dispose"
        /\ call' \in {"dispose", "returned"}
    BY <1>7 DEF DisposeBridge, DisposeBegin, DisposeDone, HandOver, DestroyFrame, promise, history
  <2> QED BY <2>1
<1>8. CASE UNCHANGED waitVars
  BY <1>8 DEF waitVars, vars, history, promise
<1> QED BY <1>1, <1>2, <1>3, <1>4, <1>5, <1>6, <1>7, <1>8 DEF WaitNext, Call

LEMMA CallInvariance == WaitSpec => [](IInv /\ CallInv)
<1>1. WaitInit => CallInv
  BY WaitForAssumption DEF WaitInit, Init, CallInv, CallTypeOK
<1> QED BY <1>1, CallStep, BridgeIsTask, Invariance, PTL DEF WaitSpec

\* await_resume, and the bridge's disposal, find a bridge that has completed.
THEOREM ResultIsThere == WaitSpec => []ResultThere
<1>1. IInv /\ CallInv => ResultThere
  BY DEF IInv, DispatchInv, CallInv, ResultThere
<1> QED BY <1>1, CallInvariance, PTL

\* The sink, which refers to the nested loop on the caller's stack, is never
\* called once that loop has returned, on whatever thread the task settles.
THEOREM LoopIsThere == WaitSpec => LoopOutlivesSink
<1>1. ASSUME IInv, CallInv, [WaitNext]_waitVars, fired' # fired
      PROVE  call \in {"register", "exec"}
  <2>1. CASE Dispatch
    BY <1>1, <2>1, OnlyTheSink
  <2>2. CASE RegisterQuit
    BY <2>2 DEF RegisterQuit
  <2>3. CASE ~Dispatch /\ ~RegisterQuit
    BY <1>1, <2>3 DEF WaitNext, BridgeBody, BridgeDispatch, Call, AwaitBridge, Exec, TakeResult,
         DisposeBridge, Suspend, Resume, Complete, DisposeBegin, DisposeDone, HandOver,
         DestroyFrame, waitVars, vars, history
  <2> QED BY <2>1, <2>2, <2>3
<1> QED BY <1>1, CallInvariance, PTL DEF WaitSpec, LoopOutlivesSink

=============================================================================
