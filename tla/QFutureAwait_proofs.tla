------------------------ MODULE QFutureAwait_proofs ------------------------
(***************************************************************************)
(* Proofs about QFutureAwait.                                              *)
(***************************************************************************)
EXTENDS QFutureAwait, TLAPS

\* A finished future has an outcome, which does not change except that it may
\* be canceled later on.
FutureInv ==
  /\ Is("finished") => producer \in {"continue", "done"}
  /\ producer \in {"continue", "done"} => Is("finished")
  /\ producer # "running" /\ ~Is("canceled") => Is("result")

\* The continuation runs once, on a future that has finished, and posts the
\* resumption or leaves that to the cancellation handler.
HookInv ==
  /\ pc \in {"await_ready", "then"} => hooks = {}
  /\ pc = "suspended" => "onCanceled" \in hooks
  /\ hooks # {} => "then" \in hooks /\ ("onCanceled" \in hooks \/ pc = "onCanceled")
  /\ pc = "onCanceled" => "then" \in hooks /\ "onCanceled" \notin hooks
  /\ "ran" \in hooks => Is("finished")
  /\ events \in {<<>>, <<"continuation">>, <<"resume">>}
  /\ events # <<>> => "ran" \in hooks
  /\ "chainCanceled" \in hooks /\ "onCanceled" \notin hooks => events = <<>>
  /\ "chainCanceled" \in hooks => "ran" \in hooks

\* The gate stays open while the coroutine is suspended, and is closed for good
\* when the awaitable has gone.
GateInv ==
  /\ pc # "stray"
  /\ pc \in {"await_ready", "then", "onCanceled", "suspended"} => ~guard
  /\ pc = "over" => guard
  /\ ~stuck

AnswerInv ==
  /\ pc \in {"await_ready", "then", "onCanceled", "suspended", "resume", "isCanceled"}
       => outcome = "none"
  /\ pc = "destruct" => outcome \in Outcomes
  /\ pc = "over" => outcome # "none"
  /\ pc \in {"resume", "isCanceled"} => Is("finished")
  /\ pc = "isCanceled" => ~Is("failed")

IInv == TypeOK /\ FutureInv /\ HookInv /\ GateInv /\ AnswerInv

-----------------------------------------------------------------------------

LEMMA InvInit == Init => IInv
<1> SUFFICES ASSUME Init PROVE IInv OBVIOUS
<1> USE DEF Init, Is, Flags
<1>1. TypeOK
  <2>1. guard \in BOOLEAN /\ stuck \in BOOLEAN OBVIOUS
  <2> QED BY <2>1 DEF TypeOK, Outcomes
<1>2. FutureInv
  BY DEF FutureInv
<1>3. HookInv /\ GateInv /\ AnswerInv
  BY DEF HookInv, GateInv, AnswerInv
<1> QED BY <1>1, <1>2, <1>3 DEF IInv

\* One event at most is posted at a time.
LEMMA OneEvent ==
  /\ \A e \in {"continuation", "resume"} :
       Append(<<>>, e) = <<e>> /\ Head(<<e>>) = e /\ Tail(<<e>>) = <<>> /\ <<e>> # <<>>
  /\ \A s \in {<<>>, <<"continuation">>, <<"resume">>} :
       /\ s \in Seq({"continuation", "resume"}) /\ Len(s) <= 1
       /\ s # <<>> => s = <<Head(s)>>
  OBVIOUS

\* What the continuation does where it runs: in the event loop of Home, with
\* the cancellation handler attached, or when the application ends.
LEMMA ContinuationRuns ==
  ASSUME IInv, Idle, "then" \in hooks, NEW locked \in BOOLEAN, locked => pc = "over",
         Continuation(<<>>, locked)
  PROVE  /\ hooks' = hooks \cup {"ran"}
         /\ events' \in {<<>>, <<"resume">>}
         /\ UNCHANGED <<guard, pc>>
         /\ ~stuck'
<1>1. "onCanceled" \in hooks
  BY DEF IInv, HookInv, Idle
<1>2. hooks' = hooks \cup {"ran"} /\ PostResume(<<>>, locked)
  BY <1>1 DEF Continuation
<1>3. events' \in {<<>>, <<"resume">>} /\ UNCHANGED <<guard, pc>>
  BY <1>2, OneEvent DEF PostResume
<1>4. ~stuck'
  BY <1>2 DEF PostResume, IInv, GateInv
<1> QED BY <1>2, <1>3, <1>4

\* Every step changes the events and the hooks in one of these ways.
LEMMA ProduceStep ==
  ASSUME IInv, RunContinuation
  PROVE  /\ future' = future /\ outcome' = outcome /\ guard' = guard /\ pc' = pc
         /\ producer' = "done" /\ Is("finished") /\ ~stuck'
         /\ \/ UNCHANGED <<hooks, events>>
            \/ /\ hooks' = hooks \cup {"ran"} /\ "then" \in hooks
               /\ events' \in {<<>>, <<"continuation">>, <<"resume">>}
               /\ "chainCanceled" \notin hooks
<1>1. /\ future' = future /\ outcome' = outcome /\ producer' = "done" /\ Is("finished")
      /\ ~stuck
  BY DEF RunContinuation, IInv, FutureInv, GateInv
<1>2. CASE ~("then" \in hooks /\ "ran" \notin hooks)
  BY <1>1, <1>2 DEF RunContinuation
<1>3. CASE "then" \in hooks /\ "ran" \notin hooks
  <2>1. events = <<>> /\ "chainCanceled" \notin hooks
    BY <1>3 DEF IInv, HookInv
  <2>2. CASE Idle /\ Continuation(events, FALSE)
    <3>1. /\ hooks' = hooks \cup {"ran"} /\ events' \in {<<>>, <<"resume">>}
          /\ UNCHANGED <<guard, pc>> /\ ~stuck'
      BY <1>3, <2>1, <2>2, ContinuationRuns
    <3> QED BY <1>1, <1>3, <2>1, <3>1
  <2>3. CASE /\ events' = Append(events, "continuation")
             /\ hooks' = hooks \cup {"ran"}
             /\ UNCHANGED <<guard, pc, stuck>>
    <3>1. events' = <<"continuation">>
      BY <2>1, <2>3, OneEvent
    <3> QED BY <1>1, <1>3, <2>1, <2>3, <3>1
  <2> QED BY <1>3, <2>2, <2>3 DEF RunContinuation
<1> QED BY <1>2, <1>3

LEMMA DeliverStep ==
  ASSUME IInv, DeliverContinuation \/ Teardown
  PROVE  /\ future' = future /\ outcome' = outcome /\ guard' = guard /\ pc' = pc
         /\ producer' = producer /\ ~stuck'
         /\ \/ hooks' = hooks /\ events' = <<>>
            \/ /\ hooks' = hooks \cup {"ran"} /\ "ran" \in hooks /\ "onCanceled" \in hooks
               /\ events' \in {<<>>, <<"resume">>}
<1>1. future' = future /\ outcome' = outcome /\ producer' = producer /\ ~stuck
  BY DEF DeliverContinuation, Teardown, IInv, GateInv
<1>2. ASSUME NEW locked \in BOOLEAN, locked => pc = "over", Idle,
             events = <<"continuation">>, Continuation(<<>>, locked)
      PROVE  /\ hooks' = hooks \cup {"ran"} /\ "ran" \in hooks /\ "onCanceled" \in hooks
             /\ events' \in {<<>>, <<"resume">>}
             /\ UNCHANGED <<guard, pc>> /\ ~stuck'
  <2>1. "ran" \in hooks
    BY <1>2, OneEvent DEF IInv, HookInv
  <2>2. "then" \in hooks /\ "onCanceled" \in hooks
    BY <1>2, <2>1 DEF IInv, HookInv, Idle
  <2> QED BY <1>2, <2>1, <2>2, ContinuationRuns
<1>3. CASE DeliverContinuation
  <2>1. Idle /\ events = <<"continuation">> /\ Continuation(<<>>, FALSE)
    BY <1>3, OneEvent DEF DeliverContinuation, IInv, HookInv
  <2> QED BY <1>1, <1>2, <2>1
<1>4. CASE Teardown
  <2>1. CASE events = <<"continuation">>
    <3>1. Idle /\ pc = "over" /\ Continuation(<<>>, TRUE)
      BY <1>4, <2>1 DEF Teardown, Idle
    <3> QED BY <1>1, <1>2, <2>1, <3>1
  <2>2. CASE events # <<"continuation">>
    BY <1>1, <1>4, <2>2 DEF Teardown
  <2> QED BY <2>1, <2>2
<1> QED BY <1>3, <1>4

LEMMA AttachStep ==
  ASSUME IInv, AttachThen \/ AttachOnCanceled
  PROVE  /\ UNCHANGED <<future, producer, guard, outcome, stuck>>
         /\ \/ pc = "then" /\ pc' = "onCanceled"
            \/ pc = "onCanceled" /\ pc' = "suspended" /\ "onCanceled" \in hooks'
         /\ events' \in {<<>>, <<"continuation">>, <<"resume">>}
         /\ hooks \subseteq hooks' /\ hooks' \subseteq hooks \cup
              {"then", "onCanceled", "ran", "chainCanceled"}
         /\ HookInv'
<1> USE DEF IInv, HookInv, Is
<1>1. CASE AttachThen
  <2>1. hooks = {} /\ events = <<>>
    BY <1>1 DEF AttachThen
  <2>2. events' \in {<<>>, <<"resume">>}
    BY <1>1, <2>1, OneEvent DEF AttachThen
  <2>3. CASE ~Is("finished")
    BY <1>1, <2>1, <2>3 DEF AttachThen
  <2>4. CASE Is("finished") /\ Is("canceled") /\ ~Is("failed")
    BY <1>1, <2>1, <2>4 DEF AttachThen
  <2>5. CASE Is("finished") /\ ~(Is("canceled") /\ ~Is("failed"))
    BY <1>1, <2>1, <2>2, <2>5 DEF AttachThen
  <2> QED BY <2>3, <2>4, <2>5
<1>2. CASE AttachOnCanceled
  <2>1. "chainCanceled" \in hooks => events' = <<"resume">> /\ "ran" \in hooks
    BY <1>2, OneEvent DEF AttachOnCanceled
  <2>2. "chainCanceled" \notin hooks => events' = events
    BY <1>2 DEF AttachOnCanceled
  <2>3. /\ pc = "onCanceled" /\ pc' = "suspended" /\ hooks' = hooks \cup {"onCanceled"}
        /\ UNCHANGED <<future, producer, guard, outcome, stuck>>
    BY <1>2 DEF AttachOnCanceled
  <2>4. events' \in {<<>>, <<"continuation">>, <<"resume">>}
    BY <2>1, <2>2
  <2>5. events' # <<>> => "ran" \in hooks'
    BY <2>1, <2>2, <2>3
  <2>6. HookInv'
    BY <2>3, <2>4, <2>5
  <2> QED BY <2>3, <2>4, <2>6
<1> QED BY <1>1, <1>2

LEMMA ResumeStep ==
  ASSUME IInv, DeliverResume
  PROVE  /\ UNCHANGED <<future, producer, hooks, outcome, stuck>>
         /\ events = <<"resume">> /\ events' = <<>> /\ guard' = TRUE
         /\ \/ guard /\ pc' = pc /\ pc = "over"
            \/ ~guard /\ pc = "suspended" /\ pc' = "resume"
<1>1. events = <<"resume">> /\ events' = <<>>
  BY OneEvent DEF IInv, HookInv, DeliverResume
<1>2. \/ guard /\ pc = "over"
      \/ ~guard /\ pc = "suspended"
  BY DEF IInv, TypeOK, GateInv, DeliverResume, Idle
<1> QED BY <1>1, <1>2 DEF DeliverResume

LEMMA FutureStep == ASSUME IInv, [Next]_vars PROVE FutureInv'
<1> USE DEF IInv, TypeOK, FutureInv, Is, Flags
<1>1. CASE ReturnValue \/ UnhandledException \/ Abandon \/ Finish \/ Cancel
  BY <1>1 DEF ReturnValue, UnhandledException, Abandon, Finish, Cancel
<1>2. CASE RunContinuation
  <2>1. future' = future /\ producer' = "done" /\ Is("finished")
    BY <1>2, ProduceStep
  <2> QED BY <2>1
<1>3. CASE UNCHANGED <<future, producer>>
  BY <1>3
<1> QED BY <1>1, <1>2, <1>3
        DEF Next, Produce, Await, AwaitReady, AttachThen, AttachOnCanceled,
            DeliverContinuation, DeliverResume, RethrowError, TakeResult, Destruct,
            Teardown, vars

LEMMA HookStep == ASSUME IInv, [Next]_vars PROVE HookInv'
<1>1. CASE ReturnValue \/ UnhandledException \/ Abandon \/ Finish \/ Cancel
  <2>1. UNCHANGED <<hooks, events, pc>> /\ future \subseteq future'
    BY <1>1 DEF ReturnValue, UnhandledException, Abandon, Finish, Cancel
  <2> QED BY <2>1 DEF IInv, HookInv, Is
<1>2. CASE RunContinuation
  BY <1>2, ProduceStep DEF IInv, HookInv, Is
<1>3. CASE DeliverContinuation \/ Teardown
  BY <1>3, DeliverStep DEF IInv, HookInv, Is
<1>4. CASE AttachThen \/ AttachOnCanceled
  BY <1>4, AttachStep
<1>5. CASE DeliverResume
  BY <1>5, ResumeStep DEF IInv, HookInv, Is
<1>6. CASE AwaitReady \/ RethrowError \/ TakeResult \/ Destruct
  BY <1>6 DEF AwaitReady, RethrowError, TakeResult, Destruct, IInv, HookInv, Is
<1>7. CASE UNCHANGED vars
  BY <1>7 DEF vars, IInv, HookInv, Is
<1> QED BY <1>1, <1>2, <1>3, <1>4, <1>5, <1>6, <1>7 DEF Next, Produce, Await

LEMMA TypeStep == ASSUME IInv, [Next]_vars PROVE TypeOK'
<1> USE DEF IInv, TypeOK, Flags
<1>1. events' \in Seq({"continuation", "resume"}) /\ Len(events') <= 1
  BY HookStep, OneEvent DEF HookInv
<1>2. CASE ReturnValue \/ UnhandledException \/ Abandon \/ Finish \/ Cancel
  BY <1>2 DEF ReturnValue, UnhandledException, Abandon, Finish, Cancel
<1>3. CASE RunContinuation
  <2>1. /\ UNCHANGED <<future, outcome, guard, pc>> /\ producer' = "done"
        /\ ~stuck' /\ hooks' \subseteq hooks \cup {"ran"}
    BY <1>3, ProduceStep
  <2>2. stuck' \in BOOLEAN
    BY <1>3 DEF RunContinuation, Continuation, PostResume
  <2> QED BY <1>1, <2>1, <2>2
<1>4. CASE DeliverContinuation \/ Teardown
  <2>1. /\ UNCHANGED <<future, outcome, guard, pc, producer>>
        /\ ~stuck' /\ hooks' \subseteq hooks \cup {"ran"}
    BY <1>4, DeliverStep
  <2>2. stuck' \in BOOLEAN
    BY <1>4 DEF DeliverContinuation, Teardown, Continuation, PostResume
  <2> QED BY <1>1, <2>1, <2>2
<1>5. CASE AttachThen \/ AttachOnCanceled
  BY <1>1, <1>5, AttachStep
<1>6. CASE DeliverResume
  BY <1>1, <1>6, ResumeStep
<1>7. CASE AwaitReady \/ RethrowError \/ TakeResult
  BY <1>7 DEF AwaitReady, RethrowError, TakeResult, Outcomes
<1>8. CASE Destruct
  <2>1. guard' \in BOOLEAN BY <1>8 DEF Destruct
  <2> QED BY <1>8, <2>1 DEF Destruct
<1>9. CASE UNCHANGED vars
  BY <1>9 DEF vars
<1> QED BY <1>2, <1>3, <1>4, <1>5, <1>6, <1>7, <1>8, <1>9 DEF Next, Produce, Await

LEMMA GateStep == ASSUME IInv, [Next]_vars PROVE GateInv' /\ AnswerInv'
<1> USE DEF IInv, GateInv, AnswerInv, Is
<1>1. CASE ReturnValue \/ UnhandledException \/ Abandon \/ Finish \/ Cancel
  <2>1. UNCHANGED <<pc, guard, outcome, stuck>> /\ future \subseteq future'
    BY <1>1 DEF ReturnValue, UnhandledException, Abandon, Finish, Cancel
  <2>2. pc = "isCanceled" => "failed" \notin future'
    BY <1>1 DEF ReturnValue, UnhandledException, Abandon, Finish, Cancel, FutureInv
  <2> QED BY <2>1, <2>2
<1>2. CASE RunContinuation
  <2>1. UNCHANGED <<future, outcome, guard, pc>> /\ ~stuck'
    BY <1>2, ProduceStep
  <2> QED BY <2>1
<1>3. CASE DeliverContinuation \/ Teardown
  <2>1. UNCHANGED <<future, outcome, guard, pc>> /\ ~stuck'
    BY <1>3, DeliverStep
  <2> QED BY <2>1
<1>4. CASE AttachThen \/ AttachOnCanceled
  BY <1>4, AttachStep
<1>5. CASE DeliverResume
  <2>1. /\ events = <<"resume">> /\ guard' = TRUE /\ UNCHANGED <<future, outcome, stuck>>
        /\ (guard /\ pc' = pc /\ pc = "over") \/ (pc = "suspended" /\ pc' = "resume")
    BY <1>5, ResumeStep
  <2>2. Is("finished")
    BY <2>1, OneEvent DEF HookInv
  <2> QED BY <2>1, <2>2
<1>6. CASE AwaitReady
  BY <1>6 DEF AwaitReady
<1>7. CASE RethrowError \/ TakeResult
  BY <1>7 DEF RethrowError, TakeResult, Outcomes
<1>8. CASE Destruct
  BY <1>8 DEF Destruct, Outcomes
<1>9. CASE UNCHANGED vars
  BY <1>9 DEF vars
<1> QED BY <1>1, <1>2, <1>3, <1>4, <1>5, <1>6, <1>7, <1>8, <1>9 DEF Next, Produce, Await

LEMMA Invariance == Spec => []IInv
<1>1. IInv /\ [Next]_vars => IInv'
  BY TypeStep, FutureStep, HookStep, GateStep DEF IInv
<1> QED BY <1>1, InvInit, PTL DEF Spec

-----------------------------------------------------------------------------

\* Every variable keeps its type: one event at a time is posted for the await.
THEOREM TypeCorrect == Spec => []TypeOK
<1>1. IInv => TypeOK
  BY DEF IInv
<1> QED BY <1>1, Invariance, PTL

\* Whenever the application ends, no posted event's destruction posts another.
THEOREM QuietEnd == Spec => []NoPostAtTeardown
<1>1. IInv => NoPostAtTeardown
  BY DEF IInv, GateInv, NoPostAtTeardown
<1> QED BY <1>1, Invariance, PTL

\* Only the posted resumption resumes the coroutine, whatever the thread that
\* finishes the promise.
THEOREM Resumption == Spec => ResumesFromLoop
<1>1. ASSUME IInv, [Next]_vars, pc = "suspended", pc' = "resume"
      PROVE  events # <<>> /\ Head(events) = "resume"
  <2>1. ~RunContinuation
    <3>1. pc' # pc
      BY <1>1
    <3> QED BY <1>1, <3>1, ProduceStep
  <2>2. ~(DeliverContinuation \/ Teardown)
    <3>1. pc' # pc
      BY <1>1
    <3> QED BY <1>1, <3>1, DeliverStep
  <2>3. ~(AttachThen \/ AttachOnCanceled)
    BY <1>1, AttachStep
  <2>4. ~(ReturnValue \/ UnhandledException \/ Abandon \/ Finish \/ Cancel)
    BY <1>1 DEF ReturnValue, UnhandledException, Abandon, Finish, Cancel
  <2>5. ~(AwaitReady \/ RethrowError \/ TakeResult \/ Destruct \/ UNCHANGED vars)
    BY <1>1 DEF AwaitReady, RethrowError, TakeResult, Destruct, vars
  <2>6. DeliverResume
    BY <1>1, <2>1, <2>2, <2>3, <2>4, <2>5 DEF Next, Produce, Await
  <2> QED BY <2>6 DEF DeliverResume
<1> QED BY <1>1, Invariance, PTL DEF Spec, ResumesFromLoop

\* The co_await implements what every awaitable promises: in particular it
\* answers with what the future holds, an error as an error.
THEOREM OneAnswer == Spec => KeepsPromise
<1> DEFINE holds == {o \in Outcomes :
                       \/ o = "value" /\ {"result", "finished"} \subseteq future
                       \/ o = "error" /\ {"failed", "finished"} \subseteq future
                       \/ o = "cancelled" /\ {"canceled", "finished"} \subseteq future
                          /\ "failed" \notin future}
<1>1. Init => Promise!Init
  BY DEF Init, Promise!Init, Outcomes
<1>2. ASSUME IInv, IInv', [Next]_vars PROVE [Promise!Next]_(Promise!vars)
  <2>1. pc # "stray" /\ pc' # "stray" /\ outcome \in Outcomes \cup {"none", "dropped"}
        /\ outcome' \in Outcomes \cup {"none", "dropped"}
    BY <1>2 DEF IInv, TypeOK, GateInv
  <2>2. ASSUME holds \subseteq holds', UNCHANGED outcome
        PROVE [Promise!Next]_(Promise!vars)
    BY <2>1, <2>2 DEF Promise!Next, Promise!Happen, Outcomes
  <2>3. ASSUME UNCHANGED future, outcome = "none", outcome' \in holds
        PROVE Promise!Answer
    BY <2>1, <2>3 DEF Promise!Answer, Outcomes
  <2>4. ASSUME UNCHANGED future, outcome = "none", outcome' = "dropped"
        PROVE Promise!Drop
    BY <2>1, <2>4 DEF Promise!Drop, Outcomes
  <2>5. CASE ReturnValue \/ UnhandledException \/ Abandon \/ Finish \/ Cancel
    <3>1. UNCHANGED outcome /\ future \subseteq future'
      BY <2>5 DEF ReturnValue, UnhandledException, Abandon, Finish, Cancel
    <3>2. "finished" \in future => ("failed" \in future' => "failed" \in future)
      BY <1>2, <2>5 DEF ReturnValue, UnhandledException, Abandon, Finish, Cancel, IInv,
                        FutureInv, Is
    <3> QED BY <2>2, <3>1, <3>2
  <2>6. CASE RunContinuation
    BY <1>2, <2>2, <2>6, ProduceStep
  <2>7. CASE DeliverContinuation \/ Teardown
    BY <1>2, <2>2, <2>7, DeliverStep
  <2>8. CASE AwaitReady \/ AttachThen \/ AttachOnCanceled \/ DeliverResume
    BY <2>2, <2>8 DEF AwaitReady, AttachThen, AttachOnCanceled, DeliverResume
  <2>9. CASE RethrowError
    <3>1. CASE Is("finished") /\ Is("failed")
      BY <1>2, <2>3, <2>9, <3>1 DEF RethrowError, IInv, AnswerInv, Is, Outcomes, Promise!Next
    <3>2. CASE ~(Is("finished") /\ Is("failed"))
      BY <2>2, <2>9, <3>2 DEF RethrowError
    <3> QED BY <3>1, <3>2
  <2>10. CASE TakeResult
    <3>1. outcome = "none" /\ outcome' \in holds /\ UNCHANGED future
      BY <1>2, <2>10 DEF TakeResult, IInv, AnswerInv, FutureInv, Is, Outcomes
    <3> QED BY <2>3, <3>1 DEF Promise!Next
  <2>11. CASE Destruct
    <3>1. CASE pc = "destruct"
      BY <2>2, <2>11, <3>1 DEF Destruct
    <3>2. CASE pc # "destruct"
      <4>1. outcome = "none" /\ outcome' = "dropped" /\ UNCHANGED future
        BY <1>2, <2>11, <3>2 DEF Destruct, IInv, AnswerInv
      <4> QED BY <2>4, <4>1 DEF Promise!Next
    <3> QED BY <3>1, <3>2
  <2>12. CASE UNCHANGED vars
    BY <2>2, <2>12 DEF vars
  <2> QED BY <1>2, <2>5, <2>6, <2>7, <2>8, <2>9, <2>10, <2>11, <2>12
          DEF Next, Produce, Await
<1> QED BY <1>1, <1>2, Invariance, PTL DEF Spec, KeepsPromise, Promise!Spec

-----------------------------------------------------------------------------
(* No completion is lost: the part of liveness that is not about fairness. *)

\* A continuation that is attached in time has still to be run by finish();
\* once it has run, something is posted, or the handler to come will do that.
WakeInv ==
  /\ "then" \in hooks /\ "ran" \notin hooks /\ Is("finished") => producer = "continue"
  /\ pc = "onCanceled" /\ "ran" \in hooks => events # <<>> \/ "chainCanceled" \in hooks
  /\ pc = "suspended" /\ "ran" \in hooks => events # <<>>

\* Run with the gate open, the continuation posts the resumption.
LEMMA ContinuationPosts ==
  ASSUME IInv, pc = "suspended", NEW locked \in BOOLEAN, Continuation(<<>>, locked)
  PROVE  events' # <<>>
<1>1. "onCanceled" \in hooks /\ ~guard
  BY DEF IInv, HookInv, GateInv
<1> QED BY <1>1, OneEvent DEF Continuation, PostResume

LEMMA WakeStep == ASSUME IInv, WakeInv, [Next]_vars PROVE WakeInv'
<1> USE DEF WakeInv, Is
<1>0. TypeOK /\ FutureInv /\ HookInv /\ GateInv
  BY DEF IInv
<1>1. CASE ReturnValue \/ UnhandledException \/ Abandon \/ Cancel
  BY <1>0, <1>1 DEF ReturnValue, UnhandledException, Abandon, Cancel, FutureInv
<1>2. CASE Finish
  BY <1>0, <1>2 DEF Finish
<1>3. CASE RunContinuation
  <2>1. CASE "then" \in hooks /\ "ran" \notin hooks
    <3>1. events = <<>> /\ "ran" \in hooks' /\ pc' = pc
      <4>1. events = <<>>
        BY <1>0, <2>1 DEF HookInv
      <4> QED BY <1>3, <2>1, <4>1, ProduceStep DEF RunContinuation, Continuation, PostResume
    <3>2. pc \in {"onCanceled", "suspended"} => events' # <<>>
      <4>1. CASE Idle /\ Continuation(events, FALSE)
        BY <3>1, <4>1, ContinuationPosts DEF Idle
      <4>2. CASE events' = Append(events, "continuation")
        BY <3>1, <4>2, OneEvent
      <4> QED BY <1>3, <2>1, <4>1, <4>2 DEF RunContinuation
    <3> QED BY <3>1, <3>2
  <2>2. CASE ~("then" \in hooks /\ "ran" \notin hooks)
    BY <1>3, <2>2 DEF RunContinuation
  <2> QED BY <2>1, <2>2
<1>4. CASE AwaitReady \/ RethrowError \/ TakeResult \/ Destruct
  BY <1>4 DEF AwaitReady, RethrowError, TakeResult, Destruct
<1>5. CASE AttachThen
  <2>1. events = <<>>
    BY <1>0, <1>5 DEF AttachThen, HookInv
  <2>2. events' = Append(events, "resume") => events' # <<>>
    BY <2>1, OneEvent
  <2>3. pc' = "onCanceled" /\ UNCHANGED <<future, producer>>
    BY <1>5 DEF AttachThen
  <2>4. \/ ~Is("finished") /\ "ran" \notin hooks'
        \/ "ran" \in hooks' /\ "chainCanceled" \in hooks'
        \/ "ran" \in hooks' /\ events' # <<>>
    BY <1>0, <1>5, <2>2 DEF AttachThen, HookInv
  <2> QED BY <2>3, <2>4
<1>6. CASE AttachOnCanceled
  <2>1. CASE "chainCanceled" \in hooks
    <3>1. events = <<>>
      BY <1>0, <1>6, <2>1 DEF AttachOnCanceled, HookInv
    <3> QED BY <1>6, <2>1, <3>1, OneEvent DEF AttachOnCanceled
  <2>2. CASE "chainCanceled" \notin hooks
    BY <1>6, <2>2 DEF AttachOnCanceled
  <2> QED BY <2>1, <2>2
<1>7. CASE DeliverContinuation \/ Teardown
  <2>1. future' = future /\ producer' = producer /\ pc' = pc
        /\ (hooks' = hooks \/ "ran" \in hooks')
    BY <1>0, <1>7, DeliverStep
  <2>2. pc = "suspended" => events' # <<>>
    <3> SUFFICES ASSUME pc = "suspended" PROVE events' # <<>>
      OBVIOUS
    <3>1. DeliverContinuation /\ events = <<"continuation">>
      BY <1>0, <1>7, OneEvent DEF DeliverContinuation, Teardown, HookInv
    <3> QED BY <3>1, OneEvent, ContinuationPosts DEF DeliverContinuation
  <2>3. pc # "onCanceled"
    BY <1>7 DEF DeliverContinuation, Teardown, Idle
  <2> QED BY <2>1, <2>2, <2>3
<1>8. CASE DeliverResume
  <2>1. pc' # "suspended" /\ pc' # "onCanceled" /\ UNCHANGED <<future, producer, hooks>>
    BY <1>0, <1>8 DEF DeliverResume, Idle, GateInv
  <2> QED BY <2>1
<1>9. CASE UNCHANGED vars
  BY <1>9 DEF vars
<1> QED BY <1>1, <1>2, <1>3, <1>4, <1>5, <1>6, <1>7, <1>8, <1>9 DEF Next, Produce, Await

\* Whether the future finishes before, between or after the two registrations,
\* on this thread or another, the coroutine is not forgotten
\* (qfuture_coroutine_traits.hpp:139-155).
THEOREM WakeUp == Spec => []NoLostFinish
<1>1. Init => WakeInv
  BY DEF Init, WakeInv
<1>2. IInv /\ WakeInv /\ [Next]_vars => WakeInv'
  BY WakeStep
<1>3. IInv /\ WakeInv => NoLostFinish
  BY DEF IInv, HookInv, GateInv, WakeInv, NoLostFinish
<1> QED BY <1>1, <1>2, <1>3, Invariance, PTL DEF Spec

=============================================================================
