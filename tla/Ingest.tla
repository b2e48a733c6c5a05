------------------------------- MODULE Ingest -------------------------------
(***************************************************************************)
(* lambda/handler.py and POST /ingest/{env} of app/main.py: one batch of   *)
(* records on its way from the MSK trigger through the Lambda function and *)
(* the service to n8n.  lambda_handler() posts the records one by one and  *)
(* raises at the first answer that is neither 200 nor 422; the trigger     *)
(* then hands the whole batch to a new invocation.  The service goes on    *)
(* with a request whose client has timed out, so that the forward() calls  *)
(* of several invocations overlap (module Delivery).  The filters may      *)
(* change between any two requests: an update reaches one instance, a      *)
(* restart another, and a request reaches whichever instance it is routed  *)
(* to (modules FilterConfig and Pipeline).                                 *)
(*                                                                         *)
(* The trigger, HTTP between the two and n8n are external.                 *)
(***************************************************************************)
EXTENDS Naturals, Sequences, FiniteSets

CONSTANTS
  Batch,          \* the kinds of the records, in the order of the loops
  MaxInvocations  \* bound on how often the trigger hands out the batch

(* What a record is: an empty value, nothing that decodes to a JSON object, *)
(* an event that fails its schema, or one for the filters to judge.        *)
Posted == {"invalid", "event"}
Kinds == {"empty", "garbage"} \cup Posted

ASSUME IngestAssumption ==
  /\ Batch \in Seq(Kinds)
  /\ MaxInvocations \in Nat

VARIABLES
  pc,          \* the Lambda function: idle, run, wait, raised or done
  invocation,  \* invocations so far
  next,        \* the record the invocation is at
  counts,      \* the totals it returns
  http,        \* http[r]: what became of request r in the service
  fwd, begun, accepted, dlq, lost  \* module Delivery

delivery == <<fwd, begun, accepted, dlq, lost>>
vars == <<pc, invocation, next, counts, http, delivery>>

Indexes == 1 .. Len(Batch)
Requests == (1 .. MaxInvocations) \X Indexes
NoRecord == 0

D == INSTANCE Delivery WITH
       Callers <- Requests, Events <- Indexes, NoEvent <- NoRecord

Totals == {"total", "forwarded", "filtered", "failed"}
Zero == [c \in Totals |-> 0]

Init ==
  /\ pc = "idle" /\ invocation = 0 /\ next = 1
  /\ counts = Zero
  /\ http = [r \in Requests |-> "unsent"]
  /\ D!Init

Current == <<invocation, next>>
Count(c) == counts' = [counts EXCEPT ![c] = @ + 1]
Answer(r, a) == http' = [http EXCEPT ![r] = a]

Lambda == <<pc, invocation, next, counts>>
-----------------------------------------------------------------------------
(* Mutant: the totals live in the module and are never reset. *)
InvokeKeepsCounts ==
  /\ pc \in {"idle", "raised"} /\ invocation < MaxInvocations
  /\ pc' = "run" /\ invocation' = invocation + 1 /\ next' = 1
  /\ UNCHANGED <<counts, http, delivery>>

(* The trigger calls lambda_handler(), again when the last call raised. *)
Invoke ==
  /\ pc \in {"idle", "raised"} /\ invocation < MaxInvocations
  /\ pc' = "run" /\ invocation' = invocation + 1 /\ next' = 1
  /\ counts' = Zero
  /\ UNCHANGED <<http, delivery>>

At(kinds) == pc = "run" /\ next <= Len(Batch) /\ Batch[next] \in kinds

(* Mutant: an empty record counts as failed. *)
SkipEmptyFails ==
  /\ At({"empty"})
  /\ counts' = [counts EXCEPT !["total"] = @ + 1, !["failed"] = @ + 1]
  /\ next' = next + 1
  /\ UNCHANGED <<pc, invocation, http, delivery>>

(* The record has no value. *)
SkipEmpty ==
  /\ At({"empty"})
  /\ Count("total")
  /\ next' = next + 1
  /\ UNCHANGED <<pc, invocation, http, delivery>>

(* The value does not decode, or not to an object. *)
SkipGarbage ==
  /\ At({"garbage"})
  /\ counts' = [counts EXCEPT !["total"] = @ + 1, !["failed"] = @ + 1]
  /\ next' = next + 1
  /\ UNCHANGED <<pc, invocation, http, delivery>>

(* Mutant: the records of a batch are posted without waiting. *)
PostUnawaited ==
  /\ At(Posted)
  /\ Count("total")
  /\ Answer(Current, "sent")
  /\ next' = next + 1
  /\ UNCHANGED <<pc, invocation, delivery>>

(* _post(): the request is sent and the answer awaited. *)
Post ==
  /\ At(Posted)
  /\ Count("total")
  /\ Answer(Current, "sent")
  /\ pc' = "wait"
  /\ UNCHANGED <<invocation, next, delivery>>

Goes(c) == pc' = "run" /\ next' = next + 1 /\ Count(c)

(* Which count a record is added to when its answer lets the loop go on.   *)
CountOf(answer) ==
  CASE answer = "forwarded" -> "forwarded"
    [] answer = "filtered" -> "filtered"
    [] answer = "invalid" -> "failed"

Errors == {"webhook_error", "error"}

(* Mutants: an error is counted and passed over, or a 422 is tried again.  *)
AnsweredErrorFails ==
  /\ pc = "wait" /\ http[Current] \in {"forwarded", "filtered", "invalid"} \cup Errors
  /\ Goes(IF http[Current] \in Errors THEN "failed" ELSE CountOf(http[Current]))
  /\ UNCHANGED <<invocation, http, delivery>>

AnsweredRepeats422 ==
  /\ pc = "wait" /\ http[Current] \in {"forwarded", "filtered", "invalid"}
  /\ IF http[Current] = "invalid"
     THEN Answer(Current, "sent") /\ UNCHANGED <<pc, next, counts>>
     ELSE Goes(CountOf(http[Current])) /\ UNCHANGED http
  /\ UNCHANGED <<invocation, delivery>>

(* 200 or 422: the next record. *)
Answered ==
  /\ pc = "wait" /\ http[Current] \in {"forwarded", "filtered", "invalid"}
  /\ Goes(CountOf(http[Current]))
  /\ UNCHANGED <<invocation, http, delivery>>

(* Any other status, no answer in time or a broken connection: raise.  The *)
(* service may have answered, or still be at it.                           *)
Raises ==
  /\ pc = "wait"
  /\ pc' = "raised"
  /\ UNCHANGED <<invocation, next, counts, http, delivery>>

(* The function's own timeout ends it between two requests. *)
Dies ==
  /\ pc = "run"
  /\ pc' = "raised"
  /\ UNCHANGED <<invocation, next, counts, http, delivery>>

(* All the records have been gone through: the totals are returned, and    *)
(* the trigger does not hand out the batch again.                          *)
Complete ==
  /\ pc = "run" /\ next > Len(Batch)
  /\ pc' = "done"
  /\ UNCHANGED <<invocation, next, counts, http, delivery>>
-----------------------------------------------------------------------------
Arrived(r, kind) == http[r] = "sent" /\ Batch[r[2]] = kind

(* ingest() does not get to judge the event: unknown pipeline, ingest not  *)
(* enabled, wrong secret, or 500 because the validator or the filter       *)
(* engine raises, which for some events they do every time.                *)
Refuse(r) ==
  /\ http[r] = "sent"
  /\ Answer(r, "error")
  /\ UNCHANGED <<Lambda, delivery>>

(* ingest() answers without forwarding: 422, or 200 filtered. *)
Judge(r) ==
  /\ \/ Arrived(r, "invalid") /\ Answer(r, "invalid")
     \/ Arrived(r, "event") /\ Answer(r, "filtered")
  /\ UNCHANGED <<Lambda, delivery>>

(* The event passes the filters of the moment, and ingest() awaits         *)
(* forward().                                                              *)
Forward(r) ==
  /\ Arrived(r, "event")
  /\ Answer(r, "forward")
  /\ D!Begin(r, r[2])
  /\ UNCHANGED Lambda

(* forward() returned: 200 for TRUE, 502 for FALSE. *)
ForwardReturns(r) ==
  /\ http[r] = "forward"
  /\ \/ D!Succeed(r) /\ Answer(r, "forwarded")
     \/ D!GiveUp(r) /\ Answer(r, "webhook_error")
  /\ UNCHANGED Lambda

(* forward() raised: 500. *)
ForwardRaises(r) ==
  /\ http[r] = "forward"
  /\ D!Raise(r)
  /\ Answer(r, "error")
  /\ UNCHANGED Lambda

(* The request does not reach the service, or the instance ends under it. *)
Vanish(r) ==
  /\ \/ http[r] = "sent" /\ UNCHANGED delivery
     \/ http[r] = "forward" /\ D!Raise(r)
  /\ Answer(r, "gone")
  /\ UNCHANGED Lambda

(* n8n accepts an event, awaited or not. *)
Accept(k) ==
  /\ D!Accept(k)
  /\ UNCHANGED <<Lambda, http>>

Handle == SkipEmpty \/ SkipGarbage \/ Post \/ Answered \/ Raises \/ Complete

Next ==
  \/ Invoke \/ Handle \/ Dies
  \/ \E r \in Requests : \/ Refuse(r) \/ Judge(r) \/ Forward(r)
                         \/ ForwardReturns(r) \/ ForwardRaises(r) \/ Vanish(r)
  \/ \E k \in Indexes : Accept(k)

Spec == Init /\ [][Next]_vars

(* The function runs, and urlopen() has a timeout.  Nothing is assumed of  *)
(* the service and n8n.                                                    *)
FairSpec == Spec /\ WF_vars(Handle)
-----------------------------------------------------------------------------
Statuses ==
  {"unsent", "sent", "forward", "forwarded", "filtered", "invalid", "gone"} \cup Errors

TypeOK ==
  /\ pc \in {"idle", "run", "wait", "raised", "done"}
  /\ invocation \in 0 .. MaxInvocations
  /\ next \in 1 .. Len(Batch) + 1
  /\ counts \in [Totals -> 0 .. Len(Batch)]
  /\ http \in [Requests -> Statuses]
  /\ D!DeliveryTypeOK

(* A record that invocation n need not come back for: no event, one that   *)
(* n8n has accepted, or one that the filters dropped when n posted it.     *)
Settled(n, k) ==
  Batch[k] = "event" => k \in accepted \/ http[<<n, k>>] = "filtered"

(* The handler returns, and the trigger moves on for good, only when n8n   *)
(* has accepted every event of the batch but those the filters dropped in  *)
(* this very pass.  An event in the dead letter topic or in the log is not *)
(* enough, nor one dropped earlier by filters that have changed, whatever  *)
(* the requests of earlier invocations are still doing.                    *)
BatchSettled == pc = "done" => \A k \in Indexes : Settled(invocation, k)

(* n8n is never offered an event by a request before the events ahead of   *)
(* it are settled for the invocation that sent the request, although the   *)
(* invocations overlap in the service.                                     *)
InOrder ==
  \A r \in Requests :
    http[r] = "forward" => \A j \in 1 .. r[2] - 1 : Settled(r[1], j)

HowMany(kinds) == Cardinality({k \in Indexes : Batch[k] \in kinds})
HowOften(n, answer) == Cardinality({k \in Indexes : http[<<n, k>>] = answer})

(* The totals are those of one pass over the batch, however many failed    *)
(* before it: they say of every event what this invocation was answered,   *)
(* and miss none.                                                          *)
TotalsOfOnePass ==
  pc = "done" =>
    /\ counts["total"] = Len(Batch)
    /\ counts["forwarded"] = HowOften(invocation, "forwarded")
    /\ counts["filtered"] = HowOften(invocation, "filtered")
    /\ counts["forwarded"] + counts["filtered"] = HowMany({"event"})
    /\ counts["failed"] = HowMany({"garbage", "invalid"})

(* Every invocation ends, whatever the service does with its requests. *)
InvocationEnds == pc \in {"run", "wait"} ~> pc \in {"raised", "done"}
=============================================================================
