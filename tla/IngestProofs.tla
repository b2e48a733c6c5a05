---------------------------- MODULE IngestProofs ----------------------------
(***************************************************************************)
(* Proofs about module Ingest, for every batch and every number of         *)
(* invocations.                                                            *)
(***************************************************************************)
EXTENDS Ingest, FiniteSetTheorems, TLAPS

(* The invariants the proofs rest on: why the properties hold.             *)

(* A live invocation has dealt with the records it went past. *)
PastSettled ==
  pc \in {"run", "wait", "done"} =>
    \A j \in 1 .. next - 1 : Settled(invocation, j)

(* It is in the batch while it waits, and at its end when it is done. *)
AtRecord ==
  /\ pc # "idle" => invocation \in 1 .. MaxInvocations
  /\ pc = "wait" => next \in Indexes
  /\ pc = "done" => next = Len(Batch) + 1

(* Request r was sent when the records before its own were settled, is     *)
(* forwarded with its own event, and an answer that lets the loop go on is *)
(* right about the record.                                                 *)
InTurn(r) ==
  /\ http[r] # "unsent" => \A j \in 1 .. r[2] - 1 : Settled(r[1], j)
  /\ http[r] = "forward" => fwd[r].ev = r[2]
  /\ http[r] \in {"forward", "forwarded", "filtered"} => Batch[r[2]] = "event"
  /\ http[r] = "invalid" => Batch[r[2]] = "invalid"
  /\ http[r] = "forwarded" => r[2] \in accepted

(* Nothing has been sent for what is still ahead of the function: the      *)
(* current record has a request only once it is waited for.                *)
Fresh(r) ==
  http[r] # "unsent" =>
    \/ r[1] < invocation
    \/ r[1] = invocation /\ r[2] < next
    \/ r = Current /\ pc \in {"wait", "raised"}

RequestsInTurn == \A r \in Requests : InTurn(r) /\ Fresh(r)

(* A record is counted when the loop reaches it and, when it has an answer, *)
(* once more; neither count runs ahead of the loop.                        *)
CountsBehind ==
  /\ \A c \in Totals \ {"total"} : counts[c] < next
  /\ \/ counts["total"] < next
     \/ pc \in {"wait", "raised"} /\ counts["total"] = next /\ next <= Len(Batch)

IInv ==
  /\ TypeOK /\ BatchSettled /\ InOrder
  /\ PastSettled /\ AtRecord /\ RequestsInTurn /\ CountsBehind

(* For the totals: a live invocation awaits nothing of what it went past,  *)
(* and has counted it by what it was answered.                             *)
PastFinal ==
  pc \in {"run", "wait", "done"} =>
    \A k \in Indexes : k < next => http[<<invocation, k>>] \notin {"sent", "forward"}

Past(kinds) == {k \in Indexes : k < next /\ Batch[k] \in kinds}

PastAnswered(answer) ==
  {k \in Indexes : k < next /\ http[<<invocation, k>>] = answer}

PastCounted ==
  pc \in {"run", "wait", "done"} =>
    /\ counts["total"] = IF pc = "wait" THEN next ELSE next - 1
    /\ counts["forwarded"] = Cardinality(PastAnswered("forwarded"))
    /\ counts["filtered"] = Cardinality(PastAnswered("filtered"))
    /\ counts["forwarded"] + counts["filtered"] = Cardinality(Past({"event"}))
    /\ counts["failed"] = Cardinality(Past({"garbage", "invalid"}))
-----------------------------------------------------------------------------
LEMMA LenBatch == Len(Batch) \in Nat
BY IngestAssumption

(* The service and n8n change the delivery only as module Delivery allows. *)
LEMMA StepIsDeliveryStep == [Next]_vars => D!Next \/ UNCHANGED delivery
<1> SUFFICES ASSUME [Next]_vars
             PROVE  D!Next \/ UNCHANGED delivery
  OBVIOUS
<1>1. ASSUME NEW r \in Requests, Forward(r)
      PROVE  D!Next
  BY <1>1 DEF Forward, Requests, D!Next
<1>2. ASSUME NEW r \in Requests, ForwardReturns(r) \/ ForwardRaises(r) \/ Vanish(r)
      PROVE  D!Next \/ UNCHANGED delivery
  BY <1>2 DEF ForwardReturns, ForwardRaises, Vanish, D!Next
<1>3. ASSUME NEW k \in Indexes, Accept(k)
      PROVE  D!Next
  BY <1>3 DEF Accept, D!Next
<1> QED
  BY <1>1, <1>2, <1>3
  DEF Next, vars, Invoke, Handle, SkipEmpty, SkipGarbage, Post, Answered, Raises,
      Complete, Dies, Refuse, Judge

LEMMA DeliveryKeeps ==
  ASSUME D!DeliveryTypeOK, D!Next \/ UNCHANGED delivery
  PROVE  D!DeliveryTypeOK' /\ accepted \subseteq accepted'
<1> DEFINE Kept == D!DeliveryTypeOK' /\ accepted \subseteq accepted'
<1> USE DEF D!DeliveryTypeOK
<1>1. ASSUME NEW r \in Requests, NEW k \in Indexes, D!Begin(r, k)
      PROVE  Kept
  BY <1>1 DEF D!Begin
<1>2. ASSUME NEW k \in Indexes, D!Accept(k)
      PROVE  Kept
  BY <1>2 DEF D!Accept
<1>3. ASSUME NEW r \in Requests, D!Succeed(r)
      PROVE  Kept
  BY <1>3 DEF D!Succeed, D!Return
<1>4. ASSUME NEW r \in Requests, D!GiveUp(r)
      PROVE  Kept
  BY <1>4 DEF D!GiveUp, D!Return
<1>5. ASSUME NEW r \in Requests, D!Raise(r)
      PROVE  Kept
  BY <1>5 DEF D!Raise, D!Return
<1>6. CASE UNCHANGED delivery
  BY <1>6 DEF delivery
<1> QED  BY <1>1, <1>2, <1>3, <1>4, <1>5, <1>6 DEF D!Next

-----------------------------------------------------------------------------
LEMMA InitIInv == Init => IInv
<1> SUFFICES ASSUME Init PROVE IInv
  OBVIOUS
<1>1. D!DeliveryTypeOK
  BY DEF Init, D!Init, D!DeliveryTypeOK, D!Idle
<1>2. TypeOK
  BY <1>1, LenBatch, IngestAssumption DEF Init, TypeOK, Zero, Statuses
<1>3. BatchSettled /\ InOrder /\ PastSettled /\ AtRecord /\ RequestsInTurn
  BY DEF Init, D!Init, BatchSettled, InOrder, PastSettled, AtRecord, RequestsInTurn,
         InTurn, Fresh
<1>4. CountsBehind
  BY DEF Init, Zero, Totals, CountsBehind
<1> QED  BY <1>2, <1>3, <1>4 DEF IInv

(* A request that is under way belongs to a record of the batch. *)
LEMMA CurrentRequest ==
  ASSUME TypeOK, AtRecord, pc = "wait" \/ At(Posted)
  PROVE  /\ Current \in Requests /\ next \in Indexes
         /\ Current[2] = next
BY LenBatch DEF TypeOK, AtRecord, At, Current, Requests, Indexes

(* A request that is answered stays answered: the function never sends it  *)
(* again.                                                                  *)
LEMMA AnswersStay ==
  ASSUME TypeOK, AtRecord, RequestsInTurn, [Next]_vars,
         NEW r \in Requests, http[r] \notin {"unsent", "sent", "forward"}
  PROVE  http'[r] = http[r]
<1> USE DEF TypeOK
<1>1. CASE http' = http
  BY <1>1
<1>2. CASE Post
  <2>1. pc = "run" /\ Current \in Requests
    BY <1>2, CurrentRequest DEF Post, At
  <2>2. http[Current] = "unsent"
    <3>1. Fresh(Current)
      BY <2>1 DEF RequestsInTurn
    <3> QED  BY <2>1, <3>1 DEF Fresh, Current
  <2> QED  BY <1>2, <2>1, <2>2 DEF Post, Answer
<1>3. ASSUME NEW q \in Requests,
             Refuse(q) \/ Judge(q) \/ Forward(q) \/ ForwardReturns(q)
             \/ ForwardRaises(q) \/ Vanish(q)
      PROVE  http'[r] = http[r]
  <2>1. http[q] \in {"sent", "forward"} /\ \E a : Answer(q, a)
    BY <1>3
    DEF Refuse, Judge, Forward, ForwardReturns, ForwardRaises, Vanish, Arrived
  <2> QED  BY <2>1 DEF Answer
<1> QED
  BY <1>1, <1>2, <1>3
  DEF Next, vars, Handle, Invoke, SkipEmpty, SkipGarbage, Answered, Raises, Dies,
      Complete, Accept

(* What is settled for an invocation stays settled for it. *)
LEMMA SettledStays ==
  ASSUME TypeOK, AtRecord, RequestsInTurn, [Next]_vars,
         NEW n, NEW k, <<n, k>> \in Requests, Settled(n, k)
  PROVE  Settled(n, k)'
<1>1. accepted \subseteq accepted'
  BY StepIsDeliveryStep, DeliveryKeeps DEF TypeOK
<1>2. http[<<n, k>>] = "filtered" => http'[<<n, k>>] = "filtered"
  BY AnswersStay
<1> QED  BY <1>1, <1>2 DEF Settled

(* So does all that invocation n went past before record m. *)
LEMMA AllSettledStay ==
  ASSUME TypeOK, AtRecord, RequestsInTurn, [Next]_vars,
         NEW n \in 1 .. MaxInvocations, NEW m \in 1 .. Len(Batch) + 1,
         \A j \in 1 .. m - 1 : Settled(n, j)
  PROVE  \A j \in 1 .. m - 1 : Settled(n, j)'
<1> TAKE j \in 1 .. m - 1
<1>1. <<n, j>> \in Requests
  BY LenBatch DEF Requests, Indexes
<1> QED  BY <1>1, SettledStays

(* The same for the live invocation, which most steps leave alone. *)
LEMMA LiveSettledStay ==
  ASSUME TypeOK, AtRecord, RequestsInTurn, [Next]_vars,
         pc # "idle", invocation' = invocation,
         NEW m \in 1 .. Len(Batch) + 1,
         \A j \in 1 .. m - 1 : Settled(invocation, j)
  PROVE  \A j \in 1 .. m - 1 : Settled(invocation, j)'
<1>1. PICK n \in 1 .. MaxInvocations : n = invocation
  BY DEF AtRecord
<1>2. \A j \in 1 .. m - 1 : Settled(n, j)'
  BY <1>1, AllSettledStay
<1> QED  BY <1>1, <1>2 DEF Settled

LEMMA TypeOKStep ==
  ASSUME TypeOK, AtRecord, CountsBehind, [Next]_vars
  PROVE  TypeOK'
<1> USE DEF TypeOK
<1>1. D!DeliveryTypeOK'
  BY StepIsDeliveryStep, DeliveryKeeps
<1>2. http' \in [Requests -> Statuses]
  <2>1. CASE Post
    BY <2>1 DEF Post, Answer, Statuses
  <2>2. ASSUME NEW r \in Requests,
               Refuse(r) \/ Judge(r) \/ Forward(r) \/ ForwardReturns(r)
               \/ ForwardRaises(r) \/ Vanish(r)
        PROVE  http' \in [Requests -> Statuses]
    BY <2>2 DEF Refuse, Judge, Forward, ForwardReturns, ForwardRaises, Vanish,
                Answer, Statuses, Errors
  <2> QED
    BY <2>1, <2>2
    DEF Next, vars, Invoke, Handle, SkipEmpty, SkipGarbage, Answered, Raises,
        Complete, Dies, Accept
<1> DEFINE LambdaTypes ==
             /\ pc' \in {"idle", "run", "wait", "raised", "done"}
             /\ invocation' \in 0 .. MaxInvocations
             /\ next' \in 1 .. Len(Batch) + 1
             /\ counts' \in [Totals -> 0 .. Len(Batch)]
<1>3. LambdaTypes
  <2>1. CASE Invoke
    BY <2>1, LenBatch, IngestAssumption DEF Invoke, Zero, Totals
  <2>2. CASE SkipEmpty \/ SkipGarbage \/ Post
    BY <2>2, LenBatch
    DEF SkipEmpty, SkipGarbage, Post, At, Count, CountsBehind, Totals
  <2>3. CASE Answered
    <3>1. CountOf(http[Current]) \in Totals \ {"total"}
      BY <2>3 DEF Answered, CountOf, Totals
    <3>2. next \in Indexes
      BY <2>3, CurrentRequest DEF Answered
    <3> QED
      BY <2>3, <3>1, <3>2, LenBatch
      DEF Answered, Goes, Count, CountsBehind, Totals, Indexes
  <2>4. CASE Raises \/ Dies \/ Complete
    BY <2>4 DEF Raises, Dies, Complete
  <2>5. CASE UNCHANGED Lambda
    BY <2>5 DEF Lambda
  <2> QED
    BY <2>1, <2>2, <2>3, <2>4, <2>5
    DEF Next, vars, Lambda, Handle, Refuse, Judge, Forward, ForwardReturns,
        ForwardRaises, Vanish, Accept
<1> QED  BY <1>1, <1>2, <1>3

LEMMA CountsBehindStep ==
  ASSUME TypeOK, AtRecord, CountsBehind, [Next]_vars
  PROVE  CountsBehind'
<1> USE DEF TypeOK, CountsBehind
<1>1. CASE Invoke
  BY <1>1 DEF Invoke, Zero, Totals
<1>2. CASE SkipEmpty \/ SkipGarbage
  BY <1>2, LenBatch DEF SkipEmpty, SkipGarbage, At, Count, Totals
<1>3. CASE Post
  BY <1>3, LenBatch DEF Post, At, Count, Totals
<1>4. CASE Answered
  <2>1. CountOf(http[Current]) \in Totals \ {"total"}
    BY <1>4 DEF Answered, CountOf, Totals
  <2> QED  BY <1>4, <2>1, LenBatch DEF Answered, Goes, Count, Totals
<1>5. CASE Raises \/ Dies \/ Complete
  BY <1>5 DEF Raises, Dies, Complete
<1>6. CASE UNCHANGED Lambda
  BY <1>6 DEF Lambda
<1> QED
  BY <1>1, <1>2, <1>3, <1>4, <1>5, <1>6
  DEF Next, vars, Lambda, Handle, Refuse, Judge, Forward, ForwardReturns,
      ForwardRaises, Vanish, Accept

LEMMA AtRecordStep ==
  ASSUME TypeOK, AtRecord, [Next]_vars
  PROVE  AtRecord'
<1> USE DEF TypeOK, AtRecord
<1>1. CASE Invoke
  BY <1>1, IngestAssumption DEF Invoke
<1>2. CASE SkipEmpty \/ SkipGarbage \/ Post
  BY <1>2 DEF SkipEmpty, SkipGarbage, Post, At, Indexes
<1>3. CASE Answered
  BY <1>3 DEF Answered, Goes
<1>4. CASE Raises \/ Dies \/ Complete
  BY <1>4, LenBatch DEF Raises, Dies, Complete
<1>5. CASE UNCHANGED Lambda
  BY <1>5 DEF Lambda
<1> QED
  BY <1>1, <1>2, <1>3, <1>4, <1>5
  DEF Next, vars, Lambda, Handle, Refuse, Judge, Forward, ForwardReturns,
      ForwardRaises, Vanish, Accept
-----------------------------------------------------------------------------
(* The function goes past a record only when it is settled. *)
LEMMA PastSettledStep ==
  ASSUME TypeOK, AtRecord, PastSettled, RequestsInTurn, [Next]_vars
  PROVE  PastSettled'
<1> USE DEF TypeOK, PastSettled
<1>1. CASE Invoke
  BY <1>1 DEF Invoke
<1>2. ASSUME At({"empty", "garbage"}) \/ Answered, next' = next + 1,
             invocation' = invocation
      PROVE  PastSettled'
  <2>1. pc \in {"run", "wait"} /\ next \in Indexes
    BY <1>2, CurrentRequest, LenBatch DEF At, Answered, Indexes
  <2>2. Settled(invocation, next)
    <3>1. CASE At({"empty", "garbage"})
      BY <3>1 DEF At, Settled
    <3>2. CASE Answered
      <4>1. /\ http[Current] \in {"forwarded", "filtered", "invalid"}
            /\ Current \in Requests /\ Current[2] = next
        BY <3>2, CurrentRequest DEF Answered
      <4>2. InTurn(Current)
        BY <4>1 DEF RequestsInTurn
      <4> QED  BY <4>1, <4>2 DEF InTurn, Settled, Current
    <3> QED  BY <1>2, <3>1, <3>2
  <2>3. \A j \in 1 .. (next + 1) - 1 : Settled(invocation, j)
    BY <2>1, <2>2 DEF Indexes
  <2>4. PICK m \in 1 .. Len(Batch) + 1 : m = next + 1
    BY <2>1, LenBatch DEF Indexes
  <2>5. \A j \in 1 .. m - 1 : Settled(invocation, j)'
    BY <1>2, <2>1, <2>3, <2>4, LiveSettledStay
  <2> QED  BY <1>2, <2>4, <2>5
<1>3. CASE Raises \/ Dies
  BY <1>3 DEF Raises, Dies
<1>4. ASSUME next' = next, invocation' = invocation,
             pc' \in {"run", "wait", "done"} => pc \in {"run", "wait", "done"}
      PROVE  PastSettled'
  <2> SUFFICES ASSUME pc \in {"run", "wait", "done"}
               PROVE  \A j \in 1 .. next - 1 : Settled(invocation, j)'
    BY <1>4
  <2>1. PICK m \in 1 .. Len(Batch) + 1 : m = next
    OBVIOUS
  <2>2. \A j \in 1 .. m - 1 : Settled(invocation, j)'
    BY <1>4, <2>1, LiveSettledStay
  <2> QED  BY <2>1, <2>2
<1>5. CASE SkipEmpty \/ SkipGarbage \/ Answered
  BY <1>5, <1>2 DEF SkipEmpty, SkipGarbage, At, Answered, Goes
<1>6. CASE Post \/ Complete \/ UNCHANGED Lambda
  BY <1>6, <1>4 DEF Post, At, Complete, Lambda
<1> QED
  BY <1>1, <1>3, <1>5, <1>6
  DEF Next, vars, Lambda, Handle, Refuse, Judge, Forward, ForwardReturns,
      ForwardRaises, Vanish, Accept

(* What was settled before a request stays settled before it. *)
LEMMA SettledBefore ==
  ASSUME TypeOK, AtRecord, RequestsInTurn, [Next]_vars,
         NEW r \in Requests, http[r] # "unsent"
  PROVE  \A j \in 1 .. r[2] - 1 : Settled(r[1], j)'
<1>1. \A j \in 1 .. r[2] - 1 : Settled(r[1], j)
  BY DEF RequestsInTurn, InTurn
<1>2. r[1] \in 1 .. MaxInvocations /\ r[2] \in 1 .. Len(Batch) + 1
  BY LenBatch DEF Requests, Indexes
<1> QED  BY <1>1, <1>2, AllSettledStay

(* A request that a step leaves alone stays in turn. *)
LEMMA InTurnStays ==
  ASSUME TypeOK, AtRecord, RequestsInTurn, [Next]_vars, NEW r \in Requests,
         http'[r] = http[r], fwd'[r].ev = fwd[r].ev
  PROVE  InTurn(r)'
<1>1. accepted \subseteq accepted'
  BY StepIsDeliveryStep, DeliveryKeeps DEF TypeOK
<1>2. http[r] # "unsent" => \A j \in 1 .. r[2] - 1 : Settled(r[1], j)'
  BY SettledBefore
<1>3. InTurn(r)
  BY DEF RequestsInTurn
<1> QED  BY <1>1, <1>2, <1>3 DEF InTurn

LEMMA InTurnStep ==
  ASSUME TypeOK, AtRecord, PastSettled, RequestsInTurn, [Next]_vars,
         NEW r \in Requests
  PROVE  InTurn(r)'
<1> USE DEF TypeOK
<1>0. InTurn(r)
  BY DEF RequestsInTurn
<1>1. CASE http'[r] = http[r] /\ fwd'[r].ev = fwd[r].ev
  BY <1>1, InTurnStays
<1>2. CASE Post
  <2>1. CASE r = Current
    <3>1. /\ r[1] = invocation /\ r[2] = next
          /\ pc = "run" /\ http'[r] = "sent"
      BY <1>2, <2>1, CurrentRequest DEF Post, At, Answer, Current
    <3>2. PICK n \in 1 .. MaxInvocations, m \in 1 .. Len(Batch) + 1 : n = r[1] /\ m = r[2]
      BY LenBatch DEF Requests, Indexes
    <3>3. \A j \in 1 .. m - 1 : Settled(n, j)'
      BY <3>1, <3>2, AllSettledStay DEF PastSettled
    <3> QED  BY <3>1, <3>2, <3>3 DEF InTurn
  <2>2. CASE r # Current
    BY <1>1, <1>2, <2>2 DEF Post, Answer, delivery
  <2> QED  BY <2>1, <2>2
<1>3. ASSUME NEW q \in Requests,
             Refuse(q) \/ Judge(q) \/ Forward(q) \/ ForwardReturns(q)
             \/ ForwardRaises(q) \/ Vanish(q)
      PROVE  InTurn(r)'
  <2>1. CASE r # q
    <3>1. http'[r] = http[r]
      BY <1>3, <2>1 DEF Refuse, Judge, Forward, ForwardReturns, ForwardRaises,
                        Vanish, Answer
    <3>2. fwd'[r].ev = fwd[r].ev
      BY <1>3, <2>1
      DEF Refuse, Judge, Forward, ForwardReturns, ForwardRaises, Vanish, delivery,
          D!Begin, D!Succeed, D!GiveUp, D!Raise, D!Return, D!DeliveryTypeOK
    <3> QED  BY <1>1, <3>1, <3>2
  <2>2. CASE r = q
    <3>1. http[r] \in {"sent", "forward"}
      BY <1>3, <2>2
      DEF Refuse, Judge, Forward, ForwardReturns, ForwardRaises, Vanish, Arrived
    <3>2. \A j \in 1 .. r[2] - 1 : Settled(r[1], j)'
      BY <3>1, SettledBefore
    <3>3. CASE Refuse(q) \/ ForwardRaises(q) \/ Vanish(q)
      BY <2>2, <3>2, <3>3
      DEF Refuse, ForwardRaises, Vanish, Answer, InTurn
    <3>4. CASE Judge(q)
      BY <2>2, <3>2, <3>4 DEF Judge, Arrived, Answer, InTurn
    <3>5. CASE Forward(q)
      BY <2>2, <3>2, <3>5
      DEF Forward, Arrived, Answer, InTurn, D!Begin, D!DeliveryTypeOK
    <3>6. CASE ForwardReturns(q)
      <4>1. CASE D!GiveUp(r) /\ Answer(r, "webhook_error")
        BY <3>2, <4>1 DEF Answer, InTurn
      <4>2. CASE D!Succeed(r) /\ Answer(r, "forwarded")
        <5>1. Batch[r[2]] = "event" /\ r[2] \in accepted
          BY <1>0, <2>2, <3>6, <4>2 DEF ForwardReturns, D!Succeed, InTurn
        <5> QED  BY <3>2, <4>2, <5>1 DEF Answer, InTurn, D!Succeed
      <4> QED  BY <2>2, <3>6, <4>1, <4>2 DEF ForwardReturns
    <3> QED  BY <1>3, <3>3, <3>4, <3>5, <3>6
  <2> QED  BY <2>1, <2>2
<1>4. CASE UNCHANGED <<http, fwd>>
  BY <1>1, <1>4
<1> QED
  BY <1>2, <1>3, <1>4
  DEF Next, vars, delivery, Handle, Invoke, SkipEmpty, SkipGarbage, Answered,
      Raises, Dies, Complete, Accept, D!Accept

LEMMA FreshStep ==
  ASSUME TypeOK, AtRecord, RequestsInTurn, [Next]_vars, NEW r \in Requests
  PROVE  Fresh(r)'
<1> USE DEF TypeOK
<1>0. Fresh(r)
  BY DEF RequestsInTurn
<1>t. r = <<r[1], r[2]>> /\ r[1] \in Nat /\ r[2] \in Nat /\ invocation \in Nat
      /\ next \in Nat
  BY LenBatch, IngestAssumption DEF Requests, Indexes
<1>1. CASE Invoke
  BY <1>0, <1>1, <1>t DEF Invoke, Fresh, Current
<1>2. CASE SkipEmpty \/ SkipGarbage
  BY <1>0, <1>2, <1>t DEF SkipEmpty, SkipGarbage, At, Fresh, Current
<1>3. CASE Post
  <2>1. r # Current => http'[r] = http[r]
    BY <1>3 DEF Post, Answer
  <2> QED  BY <1>0, <1>3, <2>1 DEF Post, At, Fresh, Current
<1>4. CASE Answered
  BY <1>0, <1>4, <1>t DEF Answered, Goes, Fresh, Current
<1>5. CASE Raises \/ Dies \/ Complete
  BY <1>0, <1>5 DEF Raises, Dies, Complete, Fresh, Current
<1>6. ASSUME NEW q \in Requests,
             Refuse(q) \/ Judge(q) \/ Forward(q) \/ ForwardReturns(q)
             \/ ForwardRaises(q) \/ Vanish(q)
      PROVE  Fresh(r)'
  <2>1. http[q] # "unsent" /\ (\E a : Answer(q, a)) /\ UNCHANGED Lambda
    BY <1>6
    DEF Refuse, Judge, Forward, ForwardReturns, ForwardRaises, Vanish, Arrived
  <2>2. http'[r] # "unsent" => http[r] # "unsent"
    BY <2>1 DEF Answer
  <2> QED  BY <1>0, <2>1, <2>2 DEF Fresh, Current, Lambda
<1>7. CASE UNCHANGED <<Lambda, http>>
  BY <1>0, <1>7 DEF Fresh, Current, Lambda
<1> QED
  BY <1>1, <1>2, <1>3, <1>4, <1>5, <1>6, <1>7
  DEF Next, vars, Lambda, Handle, Accept

LEMMA IInvStep == IInv /\ [Next]_vars => IInv'
<1> SUFFICES ASSUME IInv, [Next]_vars PROVE IInv'
  OBVIOUS
<1> USE DEF IInv
<1>1. TypeOK' /\ CountsBehind' /\ AtRecord'
  BY TypeOKStep, CountsBehindStep, AtRecordStep
<1>2. PastSettled'
  BY PastSettledStep
<1>3. RequestsInTurn'
  BY InTurnStep, FreshStep DEF RequestsInTurn
<1>4. BatchSettled'
  BY <1>1, <1>2, LenBatch DEF BatchSettled, PastSettled, AtRecord, Indexes
<1>5. InOrder'
  BY <1>3 DEF InOrder, RequestsInTurn, InTurn
<1> QED  BY <1>1, <1>2, <1>3, <1>4, <1>5

LEMMA IInvHolds == Spec => []IInv
<1>1. Init => IInv
  BY InitIInv
<1>2. IInv /\ [Next]_vars => IInv'
  BY IInvStep
<1> QED  BY <1>1, <1>2, PTL DEF Spec
-----------------------------------------------------------------------------
(* The state of the handler, the requests and the service has its types;   *)
(* no total ever exceeds the length of the batch.                          *)
THEOREM IngestTypeCorrect == Spec => []TypeOK
<1>1. IInv => TypeOK
  BY DEF IInv
<1> QED  BY <1>1, IInvHolds, PTL

(* lambda_handler() returns only when n8n has accepted every event of the  *)
(* batch but those the filters dropped in this pass, whatever they made of *)
(* them in earlier ones.                                                   *)
THEOREM IngestBatchSettled == Spec => []BatchSettled
<1>1. IInv => BatchSettled
  BY DEF IInv
<1> QED  BY <1>1, IInvHolds, PTL

(* Whatever the overlap of the invocations and the changes of the filters, *)
(* a request offers n8n an event only after those ahead of it were settled *)
(* for the invocation that sent it.                                        *)
THEOREM IngestInOrder == Spec => []InOrder
<1>1. IInv => InOrder
  BY DEF IInv
<1> QED  BY <1>1, IInvHolds, PTL

(* The handler and the route use forward() as module Delivery lets them.   *)
THEOREM IngestUsesDelivery == Spec => D!Spec
<1>1. Init => D!Init
  BY DEF Init
<1>2. [Next]_vars => [D!Next]_(D!deliveryVars)
  BY StepIsDeliveryStep DEF delivery, D!deliveryVars
<1> QED  BY <1>1, <1>2, PTL DEF Spec, D!Spec
-----------------------------------------------------------------------------
(* The totals.                                                             *)

LEMMA PastIsFinite ==
  /\ \A kinds : Cardinality(Past(kinds)) \in Nat
  /\ \A answer : Cardinality(PastAnswered(answer)) \in Nat
<1>1. IsFiniteSet(Indexes)
  BY LenBatch, FS_Interval DEF Indexes
<1>2. ASSUME NEW S \in SUBSET Indexes
      PROVE  Cardinality(S) \in Nat
  BY <1>1, FS_Subset, FS_CardinalityType
<1> QED  BY <1>2 DEF Past, PastAnswered

(* One more record in a set of records below the current one. *)
LEMMA OneMore ==
  ASSUME NEW S \in SUBSET Indexes, NEW k \in Indexes, k \notin S
  PROVE  Cardinality(S \cup {k}) = Cardinality(S) + 1
<1>1. IsFiniteSet(Indexes)
  BY LenBatch, FS_Interval DEF Indexes
<1> QED  BY <1>1, FS_Subset, FS_AddElement

(* Going past a record of the batch counts it with its kind alone, and     *)
(* with its answer alone.                                                  *)
LEMMA PastOneMore ==
  ASSUME TypeOK, next \in Indexes, next' = next + 1, NEW kinds
  PROVE  Cardinality(Past(kinds)') =
           Cardinality(Past(kinds)) + (IF Batch[next] \in kinds THEN 1 ELSE 0)
<1>1. CASE Batch[next] \in kinds
  <2>1. Past(kinds)' = Past(kinds) \cup {next}
    BY <1>1 DEF Past, TypeOK, Indexes
  <2>2. Past(kinds) \in SUBSET Indexes /\ next \notin Past(kinds)
    BY DEF Past, TypeOK, Indexes
  <2> QED  BY <1>1, <2>1, <2>2, OneMore
<1>2. CASE Batch[next] \notin kinds
  <2>1. Past(kinds)' = Past(kinds)
    BY <1>2 DEF Past, TypeOK, Indexes
  <2> QED  BY <1>2, <2>1, PastIsFinite
<1> QED  BY <1>1, <1>2

LEMMA AnsweredOneMore ==
  ASSUME TypeOK, next \in Indexes, next' = next + 1,
         UNCHANGED <<invocation, http>>, NEW answer
  PROVE  Cardinality(PastAnswered(answer)') =
           Cardinality(PastAnswered(answer))
           + (IF http[Current] = answer THEN 1 ELSE 0)
<1>1. CASE http[Current] = answer
  <2>1. PastAnswered(answer)' = PastAnswered(answer) \cup {next}
    BY <1>1 DEF PastAnswered, TypeOK, Indexes, Current
  <2>2. PastAnswered(answer) \in SUBSET Indexes /\ next \notin PastAnswered(answer)
    BY DEF PastAnswered, TypeOK, Indexes
  <2> QED  BY <1>1, <2>1, <2>2, OneMore
<1>2. CASE http[Current] # answer
  <2>1. PastAnswered(answer)' = PastAnswered(answer)
    BY <1>2 DEF PastAnswered, TypeOK, Indexes, Current
  <2> QED  BY <1>2, <2>1, PastIsFinite
<1> QED  BY <1>1, <1>2

(* The service never changes what a live invocation went past. *)
LEMMA ServiceLeavesThePast ==
  ASSUME TypeOK, AtRecord, PastFinal, pc \in {"run", "wait", "done"},
         NEW r \in Requests,
         Refuse(r) \/ Judge(r) \/ Forward(r) \/ ForwardReturns(r)
         \/ ForwardRaises(r) \/ Vanish(r)
  PROVE  /\ \A k \in Indexes : k < next =>
              http'[<<invocation, k>>] = http[<<invocation, k>>]
         /\ UNCHANGED Lambda
<1>1. http[r] \in {"sent", "forward"} /\ (\E a : Answer(r, a)) /\ UNCHANGED Lambda
  BY DEF Refuse, Judge, Forward, ForwardReturns, ForwardRaises, Vanish, Arrived
<1>2. ASSUME NEW k \in Indexes, k < next
      PROVE  http'[<<invocation, k>>] = http[<<invocation, k>>]
  <2>1. <<invocation, k>> # r /\ <<invocation, k>> \in Requests
    BY <1>1, <1>2 DEF PastFinal, AtRecord, Requests
  <2> QED  BY <1>1, <2>1 DEF Answer, TypeOK
<1> QED  BY <1>1, <1>2

(* The record the function is at has no request until it is posted. *)
LEMMA CurrentUnsent ==
  ASSUME TypeOK, AtRecord, RequestsInTurn, pc = "run", next \in Indexes
  PROVE  http[Current] = "unsent"
<1>1. Current \in Requests
  BY DEF AtRecord, Current, Requests
<1>2. Fresh(Current)
  BY <1>1 DEF RequestsInTurn
<1> QED  BY <1>2 DEF Fresh, Current, TypeOK

(* The same, once the function goes past a record that awaits nothing.     *)
LEMMA PastFinalGrows ==
  ASSUME TypeOK, PastFinal, pc \in {"run", "wait"}, next' = next + 1,
         UNCHANGED <<invocation, http>>, http[Current] \notin {"sent", "forward"}
  PROVE  PastFinal'
<1> SUFFICES ASSUME NEW k \in Indexes, k < next + 1
             PROVE  http[<<invocation, k>>] \notin {"sent", "forward"}
  BY DEF PastFinal
<1>1. k < next \/ k = next
  BY DEF TypeOK, Indexes
<1> QED  BY <1>1 DEF PastFinal, Current

LEMMA PastFinalStep ==
  ASSUME TypeOK, AtRecord, RequestsInTurn, PastFinal, [Next]_vars
  PROVE  PastFinal'
<1>1. CASE Invoke
  <2>1. \A k \in Indexes : ~(k < 1)
    BY DEF Indexes
  <2> QED  BY <1>1, <2>1 DEF Invoke, PastFinal
<1>2. CASE SkipEmpty \/ SkipGarbage
  <2>1. /\ next \in Indexes /\ pc = "run" /\ next' = next + 1
        /\ UNCHANGED <<invocation, http>>
    BY <1>2, LenBatch DEF SkipEmpty, SkipGarbage, At, Indexes, TypeOK
  <2>2. http[Current] = "unsent"
    BY <2>1, CurrentUnsent
  <2> QED  BY <2>1, <2>2, PastFinalGrows
<1>3. CASE Post
  <2>1. /\ pc = "run" /\ UNCHANGED <<invocation, next>>
        /\ http' = [http EXCEPT ![Current] = "sent"]
    BY <1>3 DEF Post, At, Answer
  <2>2. ASSUME NEW k \in Indexes, k < next
        PROVE  http'[<<invocation, k>>] = http[<<invocation, k>>]
    <3>1. <<invocation, k>> # Current /\ <<invocation, k>> \in Requests
      BY <2>1, <2>2 DEF Current, AtRecord, Requests, TypeOK
    <3> QED  BY <2>1, <3>1 DEF TypeOK
  <2> QED  BY <2>1, <2>2 DEF PastFinal
<1>4. CASE Answered
  <2>1. /\ pc = "wait" /\ next' = next + 1 /\ UNCHANGED <<invocation, http>>
        /\ http[Current] \in {"forwarded", "filtered", "invalid"}
    BY <1>4 DEF Answered, Goes
  <2> QED  BY <2>1, PastFinalGrows
<1>5. CASE Raises \/ Dies
  BY <1>5 DEF Raises, Dies, PastFinal
<1>6. CASE Complete \/ UNCHANGED <<Lambda, http>>
  BY <1>6 DEF Complete, Lambda, PastFinal
<1>7. ASSUME NEW r \in Requests,
             Refuse(r) \/ Judge(r) \/ Forward(r) \/ ForwardReturns(r)
             \/ ForwardRaises(r) \/ Vanish(r)
      PROVE  PastFinal'
  <2>1. UNCHANGED Lambda
    BY <1>7 DEF Refuse, Judge, Forward, ForwardReturns, ForwardRaises, Vanish
  <2> QED  BY <1>7, <2>1, ServiceLeavesThePast DEF Lambda, PastFinal
<1> QED
  BY <1>1, <1>2, <1>3, <1>4, <1>5, <1>6, <1>7
  DEF Next, vars, Lambda, Handle, Accept

LEMMA PastCountedStep ==
  ASSUME TypeOK, AtRecord, RequestsInTurn, PastFinal, PastCounted, [Next]_vars
  PROVE  PastCounted'
<1> DEFINE fw == Cardinality(PastAnswered("forwarded"))
           fl == Cardinality(PastAnswered("filtered"))
           ev == Cardinality(Past({"event"}))
           fd == Cardinality(Past({"garbage", "invalid"}))
<1>t. /\ \A c \in Totals : counts[c] \in Nat
      /\ counts \in [Totals -> 0 .. Len(Batch)] /\ next \in Nat
  BY LenBatch DEF TypeOK
<1>n. fw \in Nat /\ fl \in Nat /\ ev \in Nat /\ fd \in Nat
  BY PastIsFinite
<1>p. pc \in {"run", "wait", "done"} =>
        /\ counts["total"] = IF pc = "wait" THEN next ELSE next - 1
        /\ counts["forwarded"] = fw /\ counts["filtered"] = fl
        /\ counts["forwarded"] + counts["filtered"] = ev
        /\ counts["failed"] = fd
  BY DEF PastCounted
<1> DEFINE Goal ==
        pc' \in {"run", "wait", "done"} =>
          /\ counts'["total"] = IF pc' = "wait" THEN next' ELSE next' - 1
          /\ counts'["forwarded"] = fw' /\ counts'["filtered"] = fl'
          /\ counts'["forwarded"] + counts'["filtered"] = ev'
          /\ counts'["failed"] = fd'
<1>q. SUFFICES Goal
  BY DEF PastCounted
<1>1. CASE Invoke
  <2>1. /\ PastAnswered("forwarded")' = {} /\ PastAnswered("filtered")' = {}
        /\ Past({"event"})' = {} /\ Past({"garbage", "invalid"})' = {}
    BY <1>1, LenBatch DEF Invoke, Past, PastAnswered, Indexes
  <2>2. fw' = 0 /\ fl' = 0 /\ ev' = 0 /\ fd' = 0
    BY <2>1, FS_EmptySet
  <2>3. pc' = "run" /\ next' = 1 /\ \A c \in Totals : counts'[c] = 0
    BY <1>1 DEF Invoke, Zero
  <2> HIDE DEF fw, fl, ev, fd
  <2> QED  BY <2>2, <2>3 DEF Totals
<1>2. CASE SkipEmpty \/ SkipGarbage
  <2>1. /\ next \in Indexes /\ next' = next + 1 /\ pc = "run" /\ pc' = "run"
        /\ UNCHANGED <<invocation, http>> /\ Batch[next] \in {"empty", "garbage"}
    BY <1>2, LenBatch DEF SkipEmpty, SkipGarbage, At, TypeOK, Indexes
  <2>2. http[Current] = "unsent"
    BY <2>1, CurrentUnsent
  <2>3. fw' = fw
    BY <1>n, <2>1, <2>2, AnsweredOneMore
  <2>4. fl' = fl
    BY <1>n, <2>1, <2>2, AnsweredOneMore
  <2>5. ev' = ev
    BY <1>n, <2>1, PastOneMore
  <2>6. fd' = fd + (IF Batch[next] = "garbage" THEN 1 ELSE 0)
    BY <1>n, <2>1, PastOneMore
  <2> HIDE DEF fw, fl, ev, fd
  <2>7. CASE SkipEmpty
    <3>1. Batch[next] = "empty" /\ counts' = [counts EXCEPT !["total"] = @ + 1]
      BY <2>7 DEF SkipEmpty, At, Count
    <3> QED
      BY <1>t, <1>n, <1>p, <2>1, <2>3, <2>4, <2>5, <2>6, <3>1 DEF Totals
  <2>8. CASE SkipGarbage
    <3>1. /\ Batch[next] = "garbage"
          /\ counts' = [counts EXCEPT !["total"] = @ + 1, !["failed"] = @ + 1]
      BY <2>8 DEF SkipGarbage, At
    <3> QED
      BY <1>t, <1>n, <1>p, <2>1, <2>3, <2>4, <2>5, <2>6, <3>1 DEF Totals
  <2> QED  BY <1>2, <2>7, <2>8
<1>3. CASE Post
  <2>1. /\ pc = "run" /\ pc' = "wait" /\ next' = next /\ invocation' = invocation
        /\ counts' = [counts EXCEPT !["total"] = @ + 1]
        /\ http' = [http EXCEPT ![Current] = "sent"]
    BY <1>3 DEF Post, At, Count, Answer
  <2>2. \A answer : PastAnswered(answer)' = PastAnswered(answer)
    BY <1>t, <2>1 DEF PastAnswered, Current, TypeOK, Indexes
  <2>3. \A kinds : Past(kinds)' = Past(kinds)
    BY <2>1 DEF Past
  <2>4. fw' = fw /\ fl' = fl /\ ev' = ev /\ fd' = fd
    BY <2>2, <2>3
  <2> HIDE DEF fw, fl, ev, fd
  <2>5. counts'["total"] = next
    BY <1>t, <1>p, <2>1 DEF Totals
  <2>6. \A c \in Totals \ {"total"} : counts'[c] = counts[c]
    BY <1>t, <2>1
  <2> QED  BY <1>p, <2>1, <2>4, <2>5, <2>6 DEF Totals
<1>4. CASE Answered
  <2>1. /\ next \in Indexes /\ Current \in Requests /\ Current[2] = next
        /\ next' = next + 1 /\ pc = "wait" /\ pc' = "run"
        /\ UNCHANGED <<invocation, http>>
        /\ http[Current] \in {"forwarded", "filtered", "invalid"}
        /\ counts' = [counts EXCEPT ![CountOf(http[Current])] = @ + 1]
    BY <1>4, CurrentRequest DEF Answered, Goes, Count
  <2>2. Batch[next] = IF http[Current] = "invalid" THEN "invalid" ELSE "event"
    BY <2>1 DEF RequestsInTurn, InTurn
  <2>3. fw' = fw + (IF http[Current] = "forwarded" THEN 1 ELSE 0)
    BY <2>1, AnsweredOneMore
  <2>4. fl' = fl + (IF http[Current] = "filtered" THEN 1 ELSE 0)
    BY <2>1, AnsweredOneMore
  <2>5. ev' = ev + (IF http[Current] = "invalid" THEN 0 ELSE 1)
    BY <1>n, <2>1, <2>2, PastOneMore
  <2>6. fd' = fd + (IF http[Current] = "invalid" THEN 1 ELSE 0)
    BY <1>n, <2>1, <2>2, PastOneMore
  <2> HIDE DEF fw, fl, ev, fd
  <2>7. CASE http[Current] = "forwarded"
    <3>1. CountOf(http[Current]) = "forwarded"
      BY <2>7 DEF CountOf
    <3>2. \A c \in Totals : counts'[c] = counts[c] + (IF c = "forwarded" THEN 1 ELSE 0)
      BY <1>t, <2>1, <3>1
    <3>3. /\ counts'["forwarded"] = counts["forwarded"] + 1
          /\ counts'["filtered"] = counts["filtered"] + 0
          /\ counts'["failed"] = counts["failed"] + 0
          /\ counts'["total"] = counts["total"]
      BY <1>t, <3>2 DEF Totals
    <3> QED
      BY <1>n, <1>p, <1>t, <2>1, <2>3, <2>4, <2>5, <2>6, <2>7, <3>3
  <2>8. CASE http[Current] = "filtered"
    <3>1. CountOf(http[Current]) = "filtered"
      BY <2>8 DEF CountOf
    <3>2. \A c \in Totals : counts'[c] = counts[c] + (IF c = "filtered" THEN 1 ELSE 0)
      BY <1>t, <2>1, <3>1
    <3>3. /\ counts'["forwarded"] = counts["forwarded"] + 0
          /\ counts'["filtered"] = counts["filtered"] + 1
          /\ counts'["failed"] = counts["failed"] + 0
          /\ counts'["total"] = counts["total"]
      BY <1>t, <3>2 DEF Totals
    <3> QED
      BY <1>n, <1>p, <1>t, <2>1, <2>3, <2>4, <2>5, <2>6, <2>8, <3>3
  <2>9. CASE http[Current] = "invalid"
    <3>1. CountOf(http[Current]) = "failed"
      BY <2>9 DEF CountOf
    <3>2. \A c \in Totals : counts'[c] = counts[c] + (IF c = "failed" THEN 1 ELSE 0)
      BY <1>t, <2>1, <3>1
    <3>3. /\ counts'["forwarded"] = counts["forwarded"] + 0
          /\ counts'["filtered"] = counts["filtered"] + 0
          /\ counts'["failed"] = counts["failed"] + 1
          /\ counts'["total"] = counts["total"]
      BY <1>t, <3>2 DEF Totals
    <3> QED
      BY <1>n, <1>p, <1>t, <2>1, <2>3, <2>4, <2>5, <2>6, <2>9, <3>3
  <2> QED  BY <2>1, <2>7, <2>8, <2>9
<1>5. CASE Raises \/ Dies
  BY <1>5 DEF Raises, Dies
<1>6. ASSUME pc' = "done" => pc \in {"run", "wait", "done"},
             pc' # "done" => pc' = pc,
             pc' = "done" => pc # "wait",
             UNCHANGED <<invocation, next, counts>>,
             pc \in {"run", "wait", "done"} =>
               \A k \in Indexes : k < next =>
                 http'[<<invocation, k>>] = http[<<invocation, k>>]
      PROVE  Goal
  <2> SUFFICES ASSUME pc' \in {"run", "wait", "done"}
               PROVE  Goal
    OBVIOUS
  <2>1. \A answer : PastAnswered(answer)' = PastAnswered(answer)
    BY <1>6 DEF PastAnswered
  <2>2. \A kinds : Past(kinds)' = Past(kinds)
    BY <1>6 DEF Past
  <2>3. fw' = fw /\ fl' = fl /\ ev' = ev /\ fd' = fd
    BY <2>1, <2>2
  <2> HIDE DEF fw, fl, ev, fd
  <2> QED  BY <1>6, <1>p, <2>3
<1> HIDE DEF Goal
<1>7. CASE Complete \/ UNCHANGED <<Lambda, http>>
  BY <1>6, <1>7 DEF Complete, Lambda
<1>8. ASSUME NEW r \in Requests,
             Refuse(r) \/ Judge(r) \/ Forward(r) \/ ForwardReturns(r)
             \/ ForwardRaises(r) \/ Vanish(r)
      PROVE  Goal
  <2>1. UNCHANGED Lambda
    BY <1>8 DEF Refuse, Judge, Forward, ForwardReturns, ForwardRaises, Vanish
  <2>2. pc \in {"run", "wait", "done"} =>
          \A k \in Indexes : k < next =>
            http'[<<invocation, k>>] = http[<<invocation, k>>]
    BY <1>8, ServiceLeavesThePast
  <2> QED  BY <1>6, <2>1, <2>2 DEF Lambda
<1> QED
  BY <1>1, <1>2, <1>3, <1>4, <1>5, <1>7, <1>8
  DEF Next, vars, Lambda, Handle, Accept

(* The totals lambda_handler() returns are those of one pass over the      *)
(* batch, however many invocations raised before and however the filters   *)
(* changed: by what it was answered, and every event is in one of them.    *)
THEOREM IngestTotalsOfOnePass == Spec => []TotalsOfOnePass
<1> DEFINE Inv == PastFinal /\ PastCounted
<1>1. Init => Inv
  BY DEF Init, PastFinal, PastCounted
<1>2. IInv /\ Inv /\ [Next]_vars => Inv'
  BY PastFinalStep, PastCountedStep DEF IInv
<1>3. IInv /\ Inv => TotalsOfOnePass
  <2> SUFFICES ASSUME IInv, Inv, pc = "done" PROVE TotalsOfOnePass
    BY DEF TotalsOfOnePass
  <2>1. next = Len(Batch) + 1
    BY DEF IInv, AtRecord
  <2>2. ASSUME NEW kinds
        PROVE  Past(kinds) = {k \in Indexes : Batch[k] \in kinds}
    BY <2>1, LenBatch DEF Past, Indexes
  <2>3. ASSUME NEW answer
        PROVE  PastAnswered(answer) = {k \in Indexes : http[<<invocation, k>>] = answer}
    BY <2>1, LenBatch DEF PastAnswered, Indexes
  <2>4. counts["total"] = Len(Batch)
    BY <2>1, LenBatch DEF PastCounted
  <2>5. /\ counts["forwarded"] = Cardinality(PastAnswered("forwarded"))
        /\ counts["filtered"] = Cardinality(PastAnswered("filtered"))
        /\ counts["forwarded"] + counts["filtered"] = Cardinality(Past({"event"}))
        /\ counts["failed"] = Cardinality(Past({"garbage", "invalid"}))
    BY DEF PastCounted
  <2> QED  BY <2>2, <2>3, <2>4, <2>5 DEF TotalsOfOnePass, HowMany, HowOften
<1> QED  BY <1>1, <1>2, <1>3, IInvHolds, PTL DEF Spec
=============================================================================
