-------------------------- MODULE ForwarderProofs --------------------------
(***************************************************************************)
(* Proofs about module Forwarder, for any number of concurrent calls, any  *)
(* number of retries, with and without a dead letter topic.                *)
(***************************************************************************)
EXTENDS Forwarder, FiniteSetTheorems, TLAPS

(* The invariants the proofs rest on: why the properties hold.             *)

Posted(c, a) == request[c][a] # "unsent"
Failed(c, a) == Posted(c, a) /\ seen[c][a] \in DeliveryErrors
Untried(c, a) == request[c][a] = "unsent" /\ seen[c][a] = "none"

(* The attempts before the current one failed, those after it were not     *)
(* made, and the current one is what the suspension point says.  What a    *)
(* call saw is what n8n answered; only one that failed is parked.          *)
CallInv(c) ==
  /\ \A a \in Attempts :
       /\ pc[c] = "idle" \/ a > attempt[c] => Untried(c, a)
       /\ a < attempt[c] => Failed(c, a)
       /\ seen[c][a] \in Refusals => request[c][a] = seen[c][a]
       /\ seen[c][a] = "ok" =>
            request[c][a] = "ok" /\ pc[c] = "true" /\ a = attempt[c]
  /\ pc[c] = "wait" => Posted(c, attempt[c]) /\ seen[c][attempt[c]] = "none"
  /\ pc[c] = "sleep" => Failed(c, attempt[c]) /\ attempt[c] < MaxRetries
  /\ pc[c] \in {"dlq", "false"} => Failed(c, attempt[c]) /\ attempt[c] = MaxRetries
  /\ c \in dlq \cup lost => pc[c] \in {"false", "cancelled"}
  /\ pc[c] = "false" => c \in dlq \cup lost

IInv == TypeOK /\ \A c \in Calls : CallInv(c)
-----------------------------------------------------------------------------
LEMMA AttemptsAreNumbers == Attempts \subseteq Nat /\ 0 \in Attempts /\ MaxRetries \in Attempts
BY ForwarderAssumption DEF Attempts

LEMMA InitIInv == Init => IInv
<1> SUFFICES ASSUME Init PROVE IInv
  OBVIOUS
<1>1. TypeOK
  BY AttemptsAreNumbers DEF Init, TypeOK
<1>2. \A c \in Calls : CallInv(c)
  BY AttemptsAreNumbers
  DEF Init, CallInv, Untried, Failed, Posted, Refusals, DeliveryErrors
<1> QED  BY <1>1, <1>2 DEF IInv

(* What an attempt can fail with. *)
LEMMA FailuresAreErrors ==
  ASSUME NEW c \in Calls
  PROVE  Failures(c) \subseteq DeliveryErrors
BY DEF Failures, DeliveryErrors

(* The state of call d that CallInv is about. *)
CallState(d) ==
  <<pc[d], attempt[d], request[d], seen[d], d \in dlq, d \in lost>>

LEMMA OtherCall ==
  ASSUME NEW d, CallInv(d), UNCHANGED CallState(d)
  PROVE  CallInv(d)'
BY DEF CallState, CallInv, Untried, Failed, Posted

LEMMA TypeOKStep ==
  ASSUME IInv, [Next]_vars
  PROVE  TypeOK'
<1> USE DEF IInv, TypeOK
<1>1. ASSUME NEW c \in Calls, Forward(c)
      PROVE  TypeOK'
  BY <1>1, AttemptsAreNumbers
  DEF Forward, Post, Goto, Awaiting, counters, parked
<1>2. ASSUME NEW c \in Calls, NEW a \in Attempts, Answer(c, a)
      PROVE  TypeOK'
  BY <1>2 DEF Answer, counters, parked
<1>3. ASSUME NEW c \in Calls, Delivered(c)
      PROVE  TypeOK'
  BY <1>3 DEF Delivered, Learn, Goto, Ended, parked
<1>4. ASSUME NEW c \in Calls, Backoff(c)
      PROVE  TypeOK'
  BY <1>4, FailuresAreErrors DEF Backoff, Learn, Goto, Awaiting, counters, parked
<1>5. ASSUME NEW c \in Calls, Retry(c)
      PROVE  TypeOK'
  <2>1. attempt[c] + 1 \in Attempts
    BY <1>5, ForwarderAssumption DEF Retry, CallInv, Attempts
  <2> QED  BY <1>5, <2>1 DEF Retry, Post, Goto, Awaiting, counters, parked
<1>6. ASSUME NEW c \in Calls, Exhausted(c)
      PROVE  TypeOK'
  <2>1. PICK o \in DeliveryErrors : Learn(c, o)
    BY <1>6, FailuresAreErrors DEF Exhausted
  <2>2. CASE hasDlq
    <3>1. Goto(c, "dlq") /\ UNCHANGED lost
      BY <1>6, <2>2 DEF Exhausted
    <3> QED  BY <1>6, <2>1, <3>1 DEF Exhausted, Learn, Goto, Awaiting
  <2>3. CASE ~hasDlq
    <3>1. Goto(c, "false") /\ lost' = lost \cup {c}
      BY <1>6, <2>3 DEF Exhausted
    <3> QED  BY <1>6, <2>1, <3>1 DEF Exhausted, Learn, Goto, Ended
  <2> QED  BY <2>2, <2>3
<1>7. ASSUME NEW c \in Calls, TimesOut(c)
      PROVE  TypeOK'
  BY <1>7 DEF TimesOut, Learn, Goto, Ended, counters, parked
<1>8. ASSUME NEW c \in Calls, DlqAcked(c) \/ DlqFailed(c)
      PROVE  TypeOK'
  BY <1>8 DEF DlqAcked, DlqFailed, Goto, Ended, counters
<1>9. ASSUME NEW c \in Calls, Cancel(c)
      PROVE  TypeOK'
  BY <1>9 DEF Cancel, Goto, Ended, counters
<1>10. CASE UNCHANGED vars
  BY <1>10 DEF vars
<1> QED
  BY <1>1, <1>2, <1>3, <1>4, <1>5, <1>6, <1>7, <1>8, <1>9, <1>10 DEF Next, Step

(* No step but its own, and n8n's answers to it, touches a call. *)
LEMMA CallInvStep ==
  ASSUME IInv, [Next]_vars, NEW d \in Calls
  PROVE  CallInv(d)'
<1>0. CallInv(d) /\ TypeOK
  BY DEF IInv
<1> USE DEF TypeOK
<1>1. ASSUME NEW c \in Calls, c # d,
             Forward(c) \/ Step(c) \/ Cancel(c)
             \/ \E a \in Attempts : Answer(c, a)
      PROVE  CallInv(d)'
  <2>1. UNCHANGED <<pc[d], attempt[d], request[d], seen[d]>>
    BY <1>0, <1>1
    DEF Forward, Step, Cancel, Answer, Delivered, Backoff, Retry, Exhausted,
        TimesOut, DlqAcked, DlqFailed, Post, Goto, Learn
  <2>2. UNCHANGED <<d \in dlq, d \in lost>>
    BY <1>0, <1>1
    DEF Forward, Step, Cancel, Answer, Delivered, Backoff, Retry, Exhausted,
        TimesOut, DlqAcked, DlqFailed, parked
  <2> QED  BY <1>0, <2>1, <2>2, OtherCall DEF CallState
<1> DEFINE Kept == CallInv(d)'
<1>2. ASSUME Forward(d) PROVE Kept
  BY <1>0, <1>2, AttemptsAreNumbers
  DEF Forward, Post, Goto, parked, CallInv, Untried, Failed, Posted, Refusals,
      DeliveryErrors, Attempts
<1>3. ASSUME NEW a \in Attempts, Answer(d, a) PROVE Kept
  BY <1>0, <1>3
  DEF Answer, parked, CallInv, Untried, Failed, Posted, Refusals, DeliveryErrors
<1>4. ASSUME Delivered(d) PROVE Kept
  BY <1>0, <1>4, AttemptsAreNumbers
  DEF Delivered, Learn, Goto, parked, Successes, CallInv, Untried, Failed, Posted,
      Refusals, DeliveryErrors
<1>5. ASSUME Backoff(d) PROVE Kept
  BY <1>0, <1>5, AttemptsAreNumbers
  DEF Backoff, Failures, RetriesLeft, Learn, Goto, parked, CallInv, Untried,
      Failed, Posted, Refusals, DeliveryErrors
<1>6. ASSUME Retry(d) PROVE Kept
  <2>1. attempt[d] + 1 \in Attempts
    BY <1>0, <1>6, ForwarderAssumption DEF Retry, CallInv, Attempts
  <2> QED
    BY <1>0, <1>6, <2>1, AttemptsAreNumbers
    DEF Retry, Post, Goto, parked, CallInv, Untried, Failed, Posted, Refusals,
        DeliveryErrors, Attempts
<1>7. ASSUME Exhausted(d) PROVE Kept
  BY <1>0, <1>7, AttemptsAreNumbers, ForwarderAssumption
  DEF Exhausted, Failures, RetriesLeft, Learn, Goto, CallInv, Untried, Failed,
      Posted, Refusals, DeliveryErrors, Attempts
<1>8. ASSUME TimesOut(d) PROVE Kept
  BY <1>0, <1>8, AttemptsAreNumbers
  DEF TimesOut, Learn, Goto, parked, CallInv, Untried, Failed, Posted, Refusals,
      DeliveryErrors
<1>9. ASSUME DlqAcked(d) \/ DlqFailed(d) \/ Cancel(d) PROVE Kept
  BY <1>0, <1>9
  DEF DlqAcked, DlqFailed, Cancel, Goto, Awaiting, CallInv, Untried, Failed, Posted
<1>10. CASE UNCHANGED vars
  BY <1>0, <1>10, OtherCall DEF vars, CallState
<1> QED
  BY <1>1, <1>2, <1>3, <1>4, <1>5, <1>6, <1>7, <1>8, <1>9, <1>10 DEF Next, Step

LEMMA IInvHolds == Spec => []IInv
<1>1. IInv /\ [Next]_vars => IInv'
  BY TypeOKStep, CallInvStep DEF IInv
<1> QED  BY <1>1, InitIInv, PTL DEF Spec
-----------------------------------------------------------------------------
(* The state of every call and the counters have their types: no attempt   *)
(* past the last one is ever made or answered.                             *)
THEOREM ForwarderTypeCorrect == Spec => []TypeOK
<1>1. IInv => TypeOK
  BY DEF IInv
<1> QED  BY <1>1, IInvHolds, PTL

(* forward() gives up only after every attempt was made and failed, and    *)
(* returns FALSE only with the event in the topic or in the log.           *)
THEOREM ForwarderGivesUpOnlyExhausted == Spec => []GivesUpOnlyExhausted
<1>1. IInv => GivesUpOnlyExhausted
  BY AttemptsAreNumbers
  DEF IInv, CallInv, GivesUpOnlyExhausted, Failed, Posted, Attempts
<1> QED  BY <1>1, IInvHolds, PTL

(* What a call saw of an answer is what n8n answered, and an acceptance it *)
(* saw is the last thing it does with the event.                           *)
THEOREM ForwarderRepeatsOnlyUnacknowledged == Spec => []RepeatsOnlyUnacknowledged
<1>1. IInv => RepeatsOnlyUnacknowledged
  BY DEF IInv, CallInv, RepeatsOnlyUnacknowledged, Untried
<1> QED  BY <1>1, IInvHolds, PTL
-----------------------------------------------------------------------------
(* The events n8n has accepted, as module Delivery sees them. *)
Acceptances == {c \in Calls : \E a \in Attempts : request[c][a] = "ok"}

(* A step that accepts nothing leaves them alone. *)
LEMMA SameAcceptances ==
  ASSUME \A c \in Calls, a \in Attempts : request'[c][a] = "ok" <=> request[c][a] = "ok"
  PROVE  Acceptances' = Acceptances
BY DEF Acceptances

(* Every step of a call is a step of module Delivery or changes nothing    *)
(* that module Delivery sees.                                              *)
LEMMA StepImplements ==
  ASSUME IInv, [Next]_vars
  PROVE  [D!Next]_(D!deliveryVars)
<1> USE DEF IInv, TypeOK
<1> DEFINE Implemented == [D!Next]_(D!deliveryVars)
           Begun == {c \in Calls : pc[c] # "idle"}
           Seen(c) == [st |-> Result(pc[c]), ev |-> IF pc[c] = "idle" THEN "none" ELSE c]
           Forwards == [c \in Calls |-> Seen(c)]
<1>1. ASSUME NEW c \in Calls, Forward(c) PROVE Implemented
  <2>1. Acceptances' = Acceptances
    BY <1>1, SameAcceptances, AttemptsAreNumbers
    DEF Forward, Post, CallInv, Untried
  <2>2. Begun' = Begun \cup {c}
    BY <1>1 DEF Forward, Post, Goto
  <2>3. Forwards' = [Forwards EXCEPT ![c] = [st |-> "busy", ev |-> c]]
    BY <1>1 DEF Forward, Post, Goto, Result, Awaiting
  <2>4. Forwards[c].st # "busy"
    BY <1>1 DEF Forward, Result, Awaiting
  <2>5. D!Begin(c, c)
    BY <1>1, <2>1, <2>2, <2>3, <2>4 DEF D!Begin, Acceptances, Forward, parked
  <2> QED  BY <2>5 DEF D!Next
<1>2. ASSUME NEW c \in Calls, NEW a \in Attempts, Answer(c, a) PROVE Implemented
  <2>1. Posted(c, a) /\ a \in Attempts /\ request[c][a] # "ok"
    BY <1>2 DEF Answer, Posted
  <2>2. c \in Begun
    BY <2>1 DEF CallInv, Untried, Posted
  <2>3. Begun' = Begun /\ Forwards' = Forwards
    BY <1>2 DEF Answer
  <2>4. CASE request' = [request EXCEPT ![c][a] = "ok"]
    <3>1. Acceptances' = Acceptances \cup {c}
      BY <2>4 DEF Acceptances
    <3>2. D!Accept(c)
      BY <1>2, <2>2, <2>3, <3>1 DEF D!Accept, Acceptances, Answer, parked
    <3> QED  BY <3>2 DEF D!Next
  <2>5. CASE \E s \in Refusals : request' = [request EXCEPT ![c][a] = s]
    <3>1. Acceptances' = Acceptances
      BY <2>1, <2>5, SameAcceptances DEF Refusals
    <3> QED
      BY <1>2, <2>3, <3>1 DEF D!deliveryVars, Acceptances, Answer, parked
  <2> QED  BY <1>2, <2>4, <2>5 DEF Answer
<1>3. ASSUME NEW c \in Calls, NEW l \in Awaiting \cup Ended,
             NEW st, st = Result(l), pc[c] # "idle", Goto(c, l)
      PROVE  Begun' = Begun /\ Forwards' = [Forwards EXCEPT ![c].st = st]
  BY <1>3 DEF Goto, Awaiting, Ended
<1>4. ASSUME NEW c \in Calls, NEW l \in Awaiting, pc[c] \in Awaiting, Goto(c, l)
      PROVE  Begun' = Begun /\ Forwards' = Forwards
  BY <1>4 DEF Goto, Awaiting, Result
<1>5. UNCHANGED request => Acceptances' = Acceptances
  BY DEF Acceptances
<1>6. ASSUME NEW c \in Calls, pc[c] \in Awaiting
      PROVE  pc[c] # "idle" /\ Forwards[c].st = "busy" /\ Forwards[c].ev = c
  BY <1>6 DEF Awaiting, Result
<1>r. /\ Result("true") = "true" /\ Result("false") = "false"
      /\ Result("raised") = "raised" /\ Result("cancelled") = "raised"
      /\ Ended \subseteq Awaiting \cup Ended
  BY DEF Result, Awaiting
<1>7. ASSUME NEW c \in Calls, Delivered(c) PROVE Implemented
  <2>1. c \in Acceptances
    BY <1>7 DEF Delivered, Successes, Acceptances
  <2>2. pc[c] \in Awaiting
    BY <1>7 DEF Delivered, Awaiting
  <2>3. Begun' = Begun /\ Forwards' = [Forwards EXCEPT ![c].st = "true"]
    <3>1. pc[c] # "idle" /\ Goto(c, "true") /\ "true" \in Ended
      BY <1>6, <1>7, <2>2 DEF Delivered, Ended
    <3> HIDE DEF Begun, Forwards
    <3> QED  BY <1>3, <1>r, <3>1
  <2>4. D!Succeed(c)
    BY <1>5, <1>6, <1>7, <2>1, <2>2, <2>3
    DEF D!Succeed, D!Return, Acceptances, Delivered, parked
  <2> QED  BY <2>4 DEF D!Next
<1>8. ASSUME NEW c \in Calls, Backoff(c) PROVE Implemented
  BY <1>4, <1>5, <1>8
  DEF Backoff, Awaiting, D!deliveryVars, Acceptances, parked
<1>9. ASSUME NEW c \in Calls, Retry(c) PROVE Implemented
  <2>1. attempt[c] + 1 \in Attempts /\ request[c][attempt[c] + 1] # "ok"
    <3>1. CallInv(c) /\ pc[c] = "sleep" /\ attempt[c] \in Attempts
      BY <1>9 DEF Retry
    <3>2. attempt[c] + 1 \in Attempts /\ attempt[c] + 1 > attempt[c]
      BY <3>1, ForwarderAssumption DEF CallInv, Attempts
    <3>3. Untried(c, attempt[c] + 1)
      BY <3>1, <3>2 DEF CallInv
    <3> QED  BY <3>2, <3>3 DEF Untried
  <2>2. Acceptances' = Acceptances
    BY <1>9, <2>1, SameAcceptances DEF Retry, Post
  <2>3. Begun' = Begun /\ Forwards' = Forwards
    BY <1>4, <1>9 DEF Retry, Post, Awaiting
  <2> QED  BY <1>9, <2>2, <2>3 DEF Retry, D!deliveryVars, Acceptances, parked
<1>10. ASSUME NEW c \in Calls, pc[c] \in Awaiting, Goto(c, "false"),
              UNCHANGED request,
              \/ dlq' = dlq \cup {c} /\ lost' = lost
              \/ dlq' = dlq /\ lost' = lost \cup {c}
              \/ dlq' = dlq \cup {c} /\ lost' = lost \cup {c}
       PROVE  Implemented
  <2>1. Begun' = Begun /\ Forwards' = [Forwards EXCEPT ![c].st = "false"]
    <3>1. pc[c] # "idle" /\ "false" \in Ended
      BY <1>6, <1>10 DEF Ended
    <3> HIDE DEF Begun, Forwards
    <3> QED  BY <1>3, <1>r, <1>10, <3>1
  <2>2. D!GiveUp(c)
    BY <1>5, <1>6, <1>10, <2>1 DEF D!GiveUp, D!Return, Acceptances
  <2> QED  BY <2>2 DEF D!Next
<1>11. ASSUME NEW c \in Calls, NEW l \in {"raised", "cancelled"}, pc[c] \in Awaiting,
              Goto(c, l), UNCHANGED <<request, lost>>, dlq' \in {dlq, dlq \cup {c}}
       PROVE  Implemented
  <2>1. Begun' = Begun /\ Forwards' = [Forwards EXCEPT ![c].st = "raised"]
    <3>1. pc[c] # "idle" /\ l \in Ended /\ Result(l) = "raised"
      BY <1>6, <1>11, <1>r DEF Ended
    <3> HIDE DEF Begun, Forwards
    <3> QED  BY <1>3, <1>r, <1>11, <3>1
  <2>2. D!Raise(c)
    BY <1>5, <1>6, <1>11, <2>1 DEF D!Raise, D!Return, Acceptances
  <2> QED  BY <2>2 DEF D!Next
<1>12. ASSUME NEW c \in Calls, Exhausted(c) PROVE Implemented
  <2>1. CASE hasDlq
    BY <1>4, <1>5, <1>12, <2>1
    DEF Exhausted, Awaiting, D!deliveryVars, Acceptances
  <2>2. CASE ~hasDlq
    BY <1>10, <1>12, <2>2 DEF Exhausted, Awaiting
  <2> QED  BY <2>1, <2>2
<1>13. ASSUME NEW c \in Calls, DlqAcked(c) \/ DlqFailed(c) PROVE Implemented
  BY <1>10, <1>13 DEF DlqAcked, DlqFailed, Awaiting
<1>14. ASSUME NEW c \in Calls, TimesOut(c) \/ Cancel(c) PROVE Implemented
  BY <1>11, <1>14 DEF TimesOut, Cancel, Awaiting, parked
<1>15. CASE UNCHANGED vars
  BY <1>5, <1>15 DEF vars, D!deliveryVars, Acceptances
<1> QED
  BY <1>1, <1>2, <1>7, <1>8, <1>9, <1>12, <1>13, <1>14, <1>15 DEF Next, Step

(* WebhookForwarder.forward() keeps the promises of module Delivery.       *)
THEOREM ForwarderImplementsDelivery == Spec => ImplementsDelivery
<1>1. Init => D!Init
  BY AttemptsAreNumbers DEF Init, D!Init, D!Idle, Result, Awaiting
<1>2. IInv /\ [Next]_vars => [D!Next]_(D!deliveryVars)
  BY StepImplements
<1> QED  BY <1>1, <1>2, IInvHolds, PTL DEF Spec, D!Spec, ImplementsDelivery
-----------------------------------------------------------------------------
(* The counters, as sizes of sets of calls.                                *)

Succeeded == {c \in Calls : HasSucceeded(c)}
Exhausting == {c \in Calls : HasFailed(c)}
InDlq == {c \in Calls : HasFailed(c) /\ pc[c] \in {"dlq", "cancelled"}}

Accounts ==
  /\ forwarded = Cardinality(Succeeded)
  /\ webhookErrors = Cardinality(Exhausting)
  /\ dlqSent <= Cardinality(dlq)
  /\ webhookErrors = dlqSent + Cardinality(lost) + Cardinality(InDlq)

LEMMA AccountsMeaning == CountersAccount <=> Accounts
BY DEF CountersAccount, Accounts, Succeeded, Exhausting, InDlq

LEMMA FiniteCalls ==
  ASSUME NEW S, S \subseteq Calls
  PROVE  IsFiniteSet(S) /\ Cardinality(S) \in Nat
BY ForwarderAssumption, FS_Subset, FS_CardinalityType

LEMMA OneMore ==
  ASSUME NEW S, S \subseteq Calls, NEW c \in Calls, c \notin S
  PROVE  Cardinality(S \cup {c}) = Cardinality(S) + 1
BY FiniteCalls, FS_AddElement

LEMMA OneLess ==
  ASSUME NEW S, S \subseteq Calls, NEW c \in S
  PROVE  Cardinality(S \ {c}) = Cardinality(S) - 1
BY FiniteCalls, FS_RemoveElement

LEMMA NoFewer ==
  ASSUME NEW S, S \subseteq Calls, NEW c \in Calls
  PROVE  Cardinality(S) <= Cardinality(S \cup {c})
BY FiniteCalls, FS_AddElement

(* Before the last attempt is answered a call has neither outcome.         *)
LEMMA NoOutcomeYet ==
  ASSUME IInv, NEW c \in Calls, pc[c] \in {"idle", "wait", "sleep"}
  PROVE  ~HasSucceeded(c) /\ ~HasFailed(c) /\ c \notin lost
<1>1. CallInv(c) /\ attempt[c] \in Attempts
  BY DEF IInv, TypeOK
<1>2. ~HasSucceeded(c) /\ c \notin lost
  BY <1>1 DEF HasSucceeded, CallInv
<1>3. \E a \in Attempts : seen[c][a] = "none"
  <2>1. CASE pc[c] = "idle"
    BY <1>1, <2>1, AttemptsAreNumbers DEF CallInv, Untried
  <2>2. CASE pc[c] = "wait"
    BY <1>1, <2>2 DEF CallInv
  <2>3. CASE pc[c] = "sleep"
    <3>1. attempt[c] + 1 \in Attempts /\ attempt[c] + 1 > attempt[c]
      BY <1>1, <2>3, ForwarderAssumption DEF CallInv, Attempts
    <3> QED  BY <1>1, <3>1 DEF CallInv, Untried
  <2> QED  BY <2>1, <2>2, <2>3
<1> QED  BY <1>2, <1>3 DEF HasFailed, DeliveryErrors, Refusals

(* At the topic a call has failed and is counted nowhere but there.        *)
LEMMA AtTopic ==
  ASSUME IInv, NEW c \in Calls, pc[c] = "dlq"
  PROVE  c \in InDlq /\ c \notin dlq /\ c \notin lost
<1>1. CallInv(c) /\ attempt[c] \in Attempts
  BY DEF IInv, TypeOK
<1>2. \A a \in Attempts : a < attempt[c] \/ a = attempt[c]
  BY <1>1, ForwarderAssumption DEF CallInv, Attempts
<1> QED  BY <1>1, <1>2 DEF CallInv, InDlq, HasFailed, Failed

(* An outcome that is learned. *)
LEMMA Learned ==
  ASSUME IInv, NEW c \in Calls, NEW o, Learn(c, o), pc[c] = "wait"
  PROVE  /\ \A d \in Calls : d # c => seen'[d] = seen[d]
         /\ seen'[c][attempt[c]] = o /\ attempt[c] \in Attempts
         /\ \A a \in Attempts : a # attempt[c] => seen'[c][a] = seen[c][a]
         /\ ~HasSucceeded(c) /\ ~HasFailed(c)
<1>1. seen \in [Calls -> [Attempts -> {"none", "ok", "timeout"} \cup DeliveryErrors]]
      /\ attempt[c] \in Attempts
  BY DEF IInv, TypeOK
<1> QED  BY <1>1, NoOutcomeYet DEF Learn

LEMMA AccountsStep ==
  ASSUME IInv, Accounts, [Next]_vars
  PROVE  Accounts'
<1> USE DEF Accounts
<1>1. /\ TypeOK /\ dlq \subseteq Calls /\ lost \subseteq Calls
      /\ Succeeded \subseteq Calls /\ Exhausting \subseteq Calls /\ InDlq \subseteq Calls
  BY DEF IInv, TypeOK, Succeeded, Exhausting, InDlq
<1>n. /\ forwarded \in Nat /\ webhookErrors \in Nat /\ dlqSent \in Nat
      /\ Cardinality(dlq) \in Nat /\ Cardinality(lost) \in Nat /\ Cardinality(InDlq) \in Nat
  BY <1>1, FiniteCalls DEF TypeOK
<1>2. ASSUME UNCHANGED <<Succeeded, Exhausting, InDlq, counters, parked>>
      PROVE  Accounts'
  BY <1>2 DEF counters, parked
<1>3. ASSUME NEW c \in Calls, pc[c] \in {"idle", "wait", "sleep"}, NEW l, Goto(c, l), l # "dlq",
             \A d \in Calls : d # c => seen'[d] = seen[d],
             ~HasSucceeded(c)', ~HasFailed(c)'
      PROVE  UNCHANGED <<Succeeded, Exhausting, InDlq>>
  <2>1. ~HasSucceeded(c) /\ ~HasFailed(c)
    BY <1>3, NoOutcomeYet
  <2>2. \A d \in Calls : d # c => pc'[d] = pc[d]
    BY <1>1, <1>3 DEF Goto, TypeOK
  <2>3. \A d \in Calls : HasSucceeded(d)' = HasSucceeded(d) /\ HasFailed(d)' = HasFailed(d)
    BY <1>3, <2>1 DEF HasSucceeded, HasFailed
  <2> QED  BY <2>1, <2>2, <2>3 DEF Succeeded, Exhausting, InDlq
<1>4. ASSUME NEW c \in Calls, Forward(c) \/ Retry(c)
      PROVE  Accounts'
  <2>1. seen' = seen /\ UNCHANGED <<counters, parked>> /\ pc[c] \in {"idle", "sleep"} /\ Goto(c, "wait")
    BY <1>4 DEF Forward, Retry, Post
  <2>2. ~HasSucceeded(c)' /\ ~HasFailed(c)'
    BY <2>1, NoOutcomeYet DEF HasSucceeded, HasFailed
  <2> QED  BY <1>2, <1>3, <2>1, <2>2
<1>5. ASSUME NEW c \in Calls, NEW a \in Attempts, Answer(c, a)
      PROVE  Accounts'
  BY <1>2, <1>5 DEF Answer, Succeeded, Exhausting, InDlq, HasSucceeded, HasFailed
<1>6. ASSUME NEW c \in Calls, Delivered(c)
      PROVE  Accounts'
  <2>1. pc[c] = "wait" /\ Learn(c, "ok") /\ Goto(c, "true") /\ forwarded' = forwarded + 1
        /\ UNCHANGED <<webhookErrors, dlqSent, dlq, lost>>
    BY <1>6 DEF Delivered, parked
  <2>2. ~HasSucceeded(c) /\ ~HasFailed(c)
    BY <2>1, NoOutcomeYet
  <2>3. HasSucceeded(c)' /\ ~HasFailed(c)' /\ \A d \in Calls : d # c =>
          HasSucceeded(d)' = HasSucceeded(d) /\ HasFailed(d)' = HasFailed(d) /\ pc'[d] = pc[d]
    BY <1>1, <2>1, Learned DEF HasSucceeded, HasFailed, DeliveryErrors, Refusals, Goto, TypeOK
  <2>4. Succeeded' = Succeeded \cup {c} /\ c \notin Succeeded
        /\ Exhausting' = Exhausting /\ InDlq' = InDlq
    BY <2>2, <2>3 DEF Succeeded, Exhausting, InDlq
  <2> QED  BY <1>1, <2>1, <2>4, OneMore
<1>7. ASSUME NEW c \in Calls, Backoff(c)
      PROVE  Accounts'
  <2>1. PICK o \in DeliveryErrors : Learn(c, o)
    BY <1>7, FailuresAreErrors DEF Backoff
  <2>2. pc[c] = "wait" /\ Goto(c, "sleep") /\ RetriesLeft(c) /\ UNCHANGED <<counters, parked>>
    BY <1>7 DEF Backoff
  <2>3. attempt[c] + 1 \in Attempts /\ seen[c][attempt[c] + 1] = "none"
    BY <2>2, Learned, <2>1, ForwarderAssumption
    DEF IInv, CallInv, Untried, RetriesLeft, Attempts
  <2>4. seen'[c][attempt[c] + 1] = "none"
    BY <2>1, <2>2, <2>3, Learned, ForwarderAssumption DEF Attempts
  <2>5. ~HasSucceeded(c)' /\ ~HasFailed(c)'
    BY <2>1, <2>2, <2>3, <2>4, Learned DEF HasSucceeded, HasFailed, DeliveryErrors, Refusals
  <2> QED  BY <1>2, <1>3, <2>1, <2>2, <2>5, Learned
<1>8. ASSUME NEW c \in Calls, TimesOut(c)
      PROVE  Accounts'
  <2>1. pc[c] = "wait" /\ Learn(c, "timeout") /\ Goto(c, "raised") /\ UNCHANGED <<counters, parked>>
    BY <1>8 DEF TimesOut
  <2>2. ~HasSucceeded(c)' /\ ~HasFailed(c)'
    BY <2>1, Learned DEF HasSucceeded, HasFailed, DeliveryErrors, Refusals
  <2> QED  BY <1>2, <1>3, <2>1, <2>2, Learned
<1>9. ASSUME NEW c \in Calls, Exhausted(c)
      PROVE  Accounts'
  <2>1. PICK o \in DeliveryErrors : Learn(c, o)
    BY <1>9, FailuresAreErrors DEF Exhausted
  <2>2. pc[c] = "wait" /\ attempt[c] = MaxRetries /\ webhookErrors' = webhookErrors + 1
        /\ UNCHANGED <<forwarded, dlqSent, dlq>>
    BY <1>1, <1>9, ForwarderAssumption DEF Exhausted, RetriesLeft, TypeOK, Attempts
  <2>3. ~HasSucceeded(c) /\ ~HasFailed(c) /\ c \notin lost
    BY <2>2, NoOutcomeYet
  <2>4. \A a \in Attempts : a # attempt[c] => a < attempt[c]
    BY <2>2, ForwarderAssumption DEF Attempts
  <2>5. HasFailed(c)' /\ ~HasSucceeded(c)'
    BY <2>1, <2>2, <2>3, <2>4, Learned
    DEF IInv, CallInv, Failed, HasFailed, HasSucceeded, DeliveryErrors, Refusals
  <2>6. \A d \in Calls : d # c =>
          HasSucceeded(d)' = HasSucceeded(d) /\ HasFailed(d)' = HasFailed(d)
    BY <2>1, <2>2, Learned DEF HasSucceeded, HasFailed
  <2>7. Succeeded' = Succeeded /\ Exhausting' = Exhausting \cup {c} /\ c \notin Exhausting
        /\ c \notin InDlq
    BY <2>3, <2>5, <2>6 DEF Succeeded, Exhausting, InDlq
  <2>8. Cardinality(Exhausting') = Cardinality(Exhausting) + 1
    BY <1>1, <2>7, OneMore
  <2>9. CASE hasDlq
    <3>1. Goto(c, "dlq") /\ lost' = lost
      BY <1>9, <2>9 DEF Exhausted
    <3>2. InDlq' = InDlq \cup {c}
      BY <1>1, <2>5, <2>6, <3>1 DEF InDlq, Goto, TypeOK
    <3>3. Cardinality(InDlq') = Cardinality(InDlq) + 1
      BY <1>1, <2>7, <3>2, OneMore
    <3>4. Cardinality(dlq') = Cardinality(dlq) /\ Cardinality(lost') = Cardinality(lost)
      BY <2>2, <3>1
    <3> QED  BY <1>n, <2>2, <2>7, <2>8, <3>3, <3>4
  <2>10. CASE ~hasDlq
    <3>1. Goto(c, "false") /\ lost' = lost \cup {c}
      BY <1>9, <2>10 DEF Exhausted
    <3>2. InDlq' = InDlq
      BY <1>1, <2>3, <2>5, <2>6, <3>1 DEF InDlq, Goto, TypeOK
    <3>3. Cardinality(lost') = Cardinality(lost) + 1
      BY <1>1, <2>3, <3>1, OneMore
    <3> QED  BY <1>1, <2>2, <2>7, <2>8, <3>2, <3>3, FiniteCalls DEF TypeOK
  <2> QED  BY <2>9, <2>10
<1>10. ASSUME NEW c \in Calls, DlqAcked(c) \/ DlqFailed(c)
       PROVE  Accounts'
  <2>1. pc[c] = "dlq" /\ Goto(c, "false") /\ seen' = seen /\ UNCHANGED <<forwarded, webhookErrors>>
    BY <1>10 DEF DlqAcked, DlqFailed, counters
  <2>2. c \in InDlq /\ c \notin dlq /\ c \notin lost
    BY <2>1, AtTopic
  <2>3. Succeeded' = Succeeded /\ Exhausting' = Exhausting /\ InDlq' = InDlq \ {c}
    BY <1>1, <2>1 DEF Succeeded, Exhausting, InDlq, HasSucceeded, HasFailed, Goto, TypeOK
  <2>4. Cardinality(InDlq') = Cardinality(InDlq) - 1
    BY <1>1, <2>2, <2>3, OneLess
  <2>5. CASE DlqAcked(c)
    <3>1. Cardinality(dlq') = Cardinality(dlq) + 1
      BY <1>1, <2>2, <2>5, OneMore DEF DlqAcked
    <3>2. lost' = lost /\ dlqSent' = dlqSent + 1
      BY <2>5 DEF DlqAcked
    <3>3. Cardinality(lost') = Cardinality(lost)
      BY <3>2
    <3>4. forwarded' = Cardinality(Succeeded') /\ webhookErrors' = Cardinality(Exhausting')
      BY <2>1, <2>3
    <3>5. dlqSent' <= Cardinality(dlq')
      BY <1>n, <3>1, <3>2
    <3>6. webhookErrors' = dlqSent' + Cardinality(lost') + Cardinality(InDlq')
      BY <1>n, <2>1, <2>4, <3>2, <3>3
    <3> QED  BY <3>4, <3>5, <3>6
  <2>6. CASE DlqFailed(c)
    <3>1. Cardinality(lost') = Cardinality(lost) + 1
      BY <1>1, <2>2, <2>6, OneMore DEF DlqFailed
    <3>2. Cardinality(dlq) <= Cardinality(dlq')
      BY <1>1, <2>6, NoFewer, FiniteCalls DEF DlqFailed
    <3>3. dlqSent' = dlqSent
      BY <2>6 DEF DlqFailed, counters
    <3>4. Cardinality(dlq') \in Nat
      BY <1>1, <2>6, FiniteCalls DEF DlqFailed
    <3>5. forwarded' = Cardinality(Succeeded') /\ webhookErrors' = Cardinality(Exhausting')
      BY <2>1, <2>3
    <3>6. dlqSent' <= Cardinality(dlq')
      BY <1>n, <3>2, <3>3, <3>4
    <3>7. webhookErrors' = dlqSent' + Cardinality(lost') + Cardinality(InDlq')
      BY <1>n, <2>1, <2>4, <3>1, <3>3
    <3> QED  BY <3>5, <3>6, <3>7
  <2> QED  BY <1>10, <2>5, <2>6
<1>11. ASSUME NEW c \in Calls, Cancel(c)
       PROVE  Accounts'
  <2>1. seen' = seen /\ pc[c] \in Awaiting /\ Goto(c, "cancelled")
        /\ UNCHANGED <<counters, lost>>
    BY <1>11 DEF Cancel
  <2>2. Succeeded' = Succeeded /\ Exhausting' = Exhausting
    BY <2>1 DEF Succeeded, Exhausting, HasSucceeded, HasFailed
  <2>3. InDlq' = InDlq
    <3>1. pc[c] # "dlq" => ~HasFailed(c)
      BY <2>1, NoOutcomeYet DEF Awaiting
    <3> QED  BY <1>1, <2>1, <3>1 DEF InDlq, HasFailed, Goto, TypeOK
  <2>4. dlq' = dlq \/ dlq' = dlq \cup {c}
    BY <1>11 DEF Cancel
  <2>5. Cardinality(dlq') \in Nat /\ Cardinality(dlq) <= Cardinality(dlq')
    BY <1>1, <1>n, <2>4, NoFewer, FiniteCalls
  <2>6. /\ Cardinality(lost') = Cardinality(lost) /\ Cardinality(InDlq') = Cardinality(InDlq)
        /\ Cardinality(Succeeded') = Cardinality(Succeeded)
        /\ Cardinality(Exhausting') = Cardinality(Exhausting)
        /\ forwarded' = forwarded /\ webhookErrors' = webhookErrors /\ dlqSent' = dlqSent
    BY <2>1, <2>2, <2>3 DEF counters
  <2>7. forwarded' = Cardinality(Succeeded')
    BY <2>6
  <2>8. webhookErrors' = Cardinality(Exhausting')
    BY <2>6
  <2>9. dlqSent' <= Cardinality(dlq')
    BY <1>n, <2>5, <2>6
  <2>10. webhookErrors' = dlqSent' + Cardinality(lost') + Cardinality(InDlq')
    BY <1>n, <2>6
  <2> QED  BY <2>7, <2>8, <2>9, <2>10
<1>12. CASE UNCHANGED vars
  BY <1>2, <1>12 DEF vars, counters, parked, Succeeded, Exhausting, InDlq, HasSucceeded, HasFailed
<1> QED
  BY <1>4, <1>5, <1>6, <1>7, <1>8, <1>9, <1>10, <1>11, <1>12 DEF Next, Step

(* The four counters of /metrics and the two places an event that could    *)
(* not be delivered ends up in account for each call exactly once.         *)
THEOREM ForwarderCountersAccount == Spec => []CountersAccount
<1>1. Init => Accounts
  <2> SUFFICES ASSUME Init PROVE Accounts
    OBVIOUS
  <2>1. Succeeded = {} /\ Exhausting = {} /\ InDlq = {}
    BY AttemptsAreNumbers
    DEF Init, Succeeded, Exhausting, InDlq, HasSucceeded, HasFailed, DeliveryErrors, Refusals
  <2> QED  BY <2>1, FS_EmptySet DEF Init, Accounts
<1>2. IInv /\ Accounts /\ [Next]_vars => Accounts'
  BY AccountsStep
<1>3. Accounts => CountersAccount
  BY AccountsMeaning
<1> QED  BY <1>1, <1>2, <1>3, IInvHolds, PTL DEF Spec
=============================================================================
