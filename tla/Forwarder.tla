------------------------------ MODULE Forwarder ------------------------------
(***************************************************************************)
(* app/webhook.py: concurrent calls of WebhookForwarder.forward() on one   *)
(* forwarder.  Each call posts its event to n8n up to MaxRetries + 1       *)
(* times, sleeping in between, and hands the event to _send_to_dlq() when  *)
(* every attempt failed.  Every await is a point where the other calls,    *)
(* n8n and the dead letter topic move.                                     *)
(*                                                                         *)
(* n8n and the network are external: request[c][a] is what became of the   *)
(* a-th POST of call c on n8n's side, seen[c][a] what the call learned.    *)
(* The two differ when a response is lost or comes too late.               *)
(***************************************************************************)
EXTENDS Naturals, FiniteSets

CONSTANTS
  Calls,        \* invocations of forward(), one event each
  Cancellable,  \* those made by the Kafka consumer task, which is cancelled
  MaxRetries    \* webhook_max_retries

ASSUME ForwarderAssumption ==
  /\ IsFiniteSet(Calls) /\ Cancellable \subseteq Calls
  /\ MaxRetries \in Nat

VARIABLES
  hasDlq,         \* dlq_topic is set, and _dlq_producer with it; never changes
  pc,             \* where each call is suspended, or how it ended
  attempt,        \* the loop variable of forward()
  request,        \* request[c][a]: n8n's side of attempt a
  seen,           \* seen[c][a]: what _attempt() made of attempt a
  forwarded,      \* _messages_forwarded
  webhookErrors,  \* _webhook_errors
  dlqSent,        \* _dlq_sent
  dlq,            \* calls whose event is in the dead letter topic
  lost            \* calls whose event was logged as lost or dropped

vars == <<hasDlq, pc, attempt, request, seen, forwarded, webhookErrors,
          dlqSent, dlq, lost>>
counters == <<forwarded, webhookErrors, dlqSent>>
parked == <<dlq, lost>>

Attempts == 0 .. MaxRetries
Awaiting == {"wait", "sleep", "dlq"}
Ended == {"true", "false", "raised", "cancelled"}
Refusals == {"4xx", "5xx"}
DeliveryErrors == Refusals \cup {"neterr"}

Init ==
  /\ hasDlq \in BOOLEAN
  /\ pc = [c \in Calls |-> "idle"]
  /\ attempt = [c \in Calls |-> 0]
  /\ request = [c \in Calls |-> [a \in Attempts |-> "unsent"]]
  /\ seen = [c \in Calls |-> [a \in Attempts |-> "none"]]
  /\ forwarded = 0 /\ webhookErrors = 0 /\ dlqSent = 0
  /\ dlq = {} /\ lost = {}

Goto(c, l) == pc' = [pc EXCEPT ![c] = l]
Learn(c, o) == seen' = [seen EXCEPT ![c][attempt[c]] = o]

(* Mutant: the status check forgets the 4xx range. *)
SuccessesBelow500 == {"ok", "4xx"}

(* The status check of _attempt(): which answers return without raising. *)
Successes == {"ok"}

(* What can surface as WebhookDeliveryError while attempt[c] is awaited: a *)
(* 4xx or 5xx answer, or any aiohttp.ClientError, answered or not.         *)
Failures(c) == {"neterr"} \cup ({request[c][attempt[c]]} \cap Refusals)

(* Mutants: the bound of the loop is off by one, either way. *)
RetriesLeftPlusOne(c) == attempt[c] <= MaxRetries
RetriesLeftMinusOne(c) == attempt[c] + 1 < MaxRetries

RetriesLeft(c) == attempt[c] < MaxRetries

(* _attempt(): the request goes out and the response is awaited. *)
Post(c, a) ==
  /\ attempt' = [attempt EXCEPT ![c] = a]
  /\ request' = [request EXCEPT ![c][a] = "sent"]
  /\ Goto(c, "wait")

(* forward() up to its first await. *)
Forward(c) ==
  /\ pc[c] = "idle"
  /\ Post(c, 0)
  /\ UNCHANGED <<hasDlq, seen, counters, parked>>

(* n8n answers a request it received; an unreachable n8n never does. *)
Answer(c, a) ==
  /\ request[c][a] = "sent"
  /\ \E s \in Refusals \cup {"ok"} : request' = [request EXCEPT ![c][a] = s]
  /\ UNCHANGED <<hasDlq, pc, attempt, seen, counters, parked>>

(* _attempt() returns: the call is counted and forward() returns TRUE. *)
Delivered(c) ==
  /\ pc[c] = "wait" /\ request[c][attempt[c]] \in Successes
  /\ Learn(c, "ok")
  /\ forwarded' = forwarded + 1
  /\ Goto(c, "true")
  /\ UNCHANGED <<hasDlq, attempt, request, webhookErrors, dlqSent, parked>>

(* WebhookDeliveryError with attempts left: sleep for the backoff. *)
Backoff(c) ==
  /\ pc[c] = "wait" /\ RetriesLeft(c)
  /\ \E o \in Failures(c) : Learn(c, o)
  /\ Goto(c, "sleep")
  /\ UNCHANGED <<hasDlq, attempt, request, counters, parked>>

(* Mutant: the same attempt over and over. *)
RetrySame(c) ==
  /\ pc[c] = "sleep"
  /\ Post(c, attempt[c])
  /\ UNCHANGED <<hasDlq, seen, counters, parked>>

Retry(c) ==
  /\ pc[c] = "sleep"
  /\ Post(c, attempt[c] + 1)
  /\ UNCHANGED <<hasDlq, seen, counters, parked>>

(* WebhookDeliveryError on the last attempt: count the error, then write   *)
(* to the dead letter topic or, without one, log the event and drop it.    *)
Exhausted(c) ==
  /\ pc[c] = "wait" /\ ~RetriesLeft(c)
  /\ \E o \in Failures(c) : Learn(c, o)
  /\ webhookErrors' = webhookErrors + 1
  /\ IF hasDlq THEN Goto(c, "dlq") /\ UNCHANGED lost
               ELSE Goto(c, "false") /\ lost' = lost \cup {c}
  /\ UNCHANGED <<hasDlq, attempt, request, forwarded, dlqSent, dlq>>

(* ClientTimeout(total=...) expires.  aiohttp raises asyncio.TimeoutError, *)
(* which is no ClientError: neither _attempt() nor forward() catches it.   *)
TimesOut(c) ==
  /\ pc[c] = "wait"
  /\ Learn(c, "timeout")
  /\ Goto(c, "raised")
  /\ UNCHANGED <<hasDlq, attempt, request, counters, parked>>

(* send_and_wait() returns. *)
DlqAcked(c) ==
  /\ pc[c] = "dlq"
  /\ dlq' = dlq \cup {c}
  /\ dlqSent' = dlqSent + 1
  /\ Goto(c, "false")
  /\ UNCHANGED <<hasDlq, attempt, request, seen, forwarded, webhookErrors, lost>>

(* Mutant: dlq_sent is counted before the topic has answered. *)
DlqFailedCounted(c) ==
  /\ pc[c] = "dlq"
  /\ dlq' \in {dlq, dlq \cup {c}}
  /\ lost' = lost \cup {c}
  /\ dlqSent' = dlqSent + 1
  /\ Goto(c, "false")
  /\ UNCHANGED <<hasDlq, attempt, request, seen, forwarded, webhookErrors>>

(* Mutant: the failure of the topic is swallowed. *)
DlqFailedUnlogged(c) ==
  /\ pc[c] = "dlq"
  /\ Goto(c, "false")
  /\ UNCHANGED <<hasDlq, attempt, request, seen, counters, parked>>

(* send_and_wait() raises, although the broker may have the record. *)
DlqFailed(c) ==
  /\ pc[c] = "dlq"
  /\ dlq' \in {dlq, dlq \cup {c}}
  /\ lost' = lost \cup {c}
  /\ Goto(c, "false")
  /\ UNCHANGED <<hasDlq, attempt, request, seen, counters>>

(* The consumer task is cancelled at one of the awaits.  A record already  *)
(* given to the producer may still be written.                             *)
Cancel(c) ==
  /\ c \in Cancellable /\ pc[c] \in Awaiting
  /\ dlq' \in {dlq} \cup (IF pc[c] = "dlq" THEN {dlq \cup {c}} ELSE {})
  /\ Goto(c, "cancelled")
  /\ UNCHANGED <<hasDlq, attempt, request, seen, counters, lost>>

Step(c) ==
  \/ Delivered(c) \/ Backoff(c) \/ Retry(c) \/ Exhausted(c) \/ TimesOut(c)
  \/ DlqAcked(c) \/ DlqFailed(c)

Next ==
  \E c \in Calls :
    \/ Forward(c) \/ Step(c) \/ Cancel(c)
    \/ \E a \in Attempts : Answer(c, a)

Spec == Init /\ [][Next]_vars

(* Every await of forward() ends: a POST by the total timeout, the sleep   *)
(* by its timer, send_and_wait() by the producer's request timeout.        *)
FairSpec == Spec /\ \A c \in Calls : WF_vars(Step(c))
-----------------------------------------------------------------------------
TypeOK ==
  /\ hasDlq \in BOOLEAN
  /\ pc \in [Calls -> {"idle"} \cup Awaiting \cup Ended]
  /\ attempt \in [Calls -> Attempts]
  /\ request \in [Calls -> [Attempts -> {"unsent", "sent", "ok"} \cup Refusals]]
  /\ seen \in [Calls -> [Attempts -> {"none", "ok", "timeout"} \cup DeliveryErrors]]
  /\ forwarded \in Nat /\ webhookErrors \in Nat /\ dlqSent \in Nat
  /\ dlq \subseteq Calls /\ lost \subseteq Calls

(* forward() returns FALSE, or is about to write to the dead letter topic, *)
(* only after all MaxRetries + 1 attempts were sent and each one failed;   *)
(* and once it has returned FALSE the event is in the topic or in the log. *)
GivesUpOnlyExhausted ==
  \A c \in Calls :
    /\ pc[c] \in {"dlq", "false"} =>
         \A a \in Attempts : request[c][a] # "unsent" /\ seen[c][a] \in DeliveryErrors
    /\ pc[c] = "false" => c \in dlq \cup lost

(* An event n8n accepted is posted again, parked or reported as failed     *)
(* only when the call never learned of the acceptance: whatever answer the *)
(* call did see is the answer n8n gave, and a seen acceptance is the end.  *)
RepeatsOnlyUnacknowledged ==
  \A c \in Calls, a \in Attempts :
    /\ seen[c][a] \in Refusals => request[c][a] = seen[c][a]
    /\ seen[c][a] = "ok" =>
         /\ request[c][a] = "ok" /\ pc[c] = "true"
         /\ c \notin dlq \cup lost
         /\ \A b \in Attempts : b > a => request[c][b] = "unsent"

HasSucceeded(c) == \E a \in Attempts : seen[c][a] = "ok"
HasFailed(c) == \A a \in Attempts : seen[c][a] \in DeliveryErrors

(* /metrics adds up over all interleavings: messages_forwarded counts the  *)
(* calls that saw a success, webhook_errors those whose every attempt      *)
(* failed, dlq_sent no more events than the topic holds, and the failed    *)
(* ones are sent, lost, in the topic's hands or cancelled there.           *)
CountersAccount ==
  LET inDlq == {c \in Calls : HasFailed(c) /\ pc[c] \in {"dlq", "cancelled"}}
  IN  /\ forwarded = Cardinality({c \in Calls : HasSucceeded(c)})
      /\ webhookErrors = Cardinality({c \in Calls : HasFailed(c)})
      /\ dlqSent <= Cardinality(dlq)
      /\ webhookErrors = dlqSent + Cardinality(lost) + Cardinality(inDlq)

(* Every call that was made ends, whatever n8n and the topic do. *)
CallsEnd == \A c \in Calls : pc[c] # "idle" ~> pc[c] \in Ended

(* Forwarder implements Delivery, one caller and one event per call. *)
Result(l) ==
  CASE l \in Awaiting -> "busy"
    [] l = "cancelled" -> "raised"
    [] OTHER -> l

D == INSTANCE Delivery WITH
       Callers <- Calls, Events <- Calls, NoEvent <- "none",
       fwd <- [c \in Calls |-> [st |-> Result(pc[c]),
                                ev |-> IF pc[c] = "idle" THEN "none" ELSE c]],
       begun <- {c \in Calls : pc[c] # "idle"},
       accepted <- {c \in Calls : \E a \in Attempts : request[c][a] = "ok"}

ImplementsDelivery == D!Spec
-----------------------------------------------------------------------------
(* README.md:65 promises retries on network errors or 5xx responses, and   *)
(* tests/test_webhook.py:76 is named test_forward_does_not_retry_on_4xx:   *)
(* no attempt follows one that was answered with a 4xx status.             *)
NoRetryOn4xx ==
  \A c \in Calls, a \in Attempts :
    seen[c][a] = "4xx" => \A b \in Attempts : b > a => request[c][b] = "unsent"

(* app/config.py:58 says that events go to the dead letter topic when the  *)
(* delivery fails after all retries, and to the log without one: a call    *)
(* whose last attempt ended without success and was not cancelled leaves   *)
(* the event in one of the two.                                            *)
FailedDeliveryIsParked ==
  \A c \in Calls :
    pc[c] \in {"false", "raised"} /\ attempt[c] = MaxRetries => c \in dlq \cup lost
=============================================================================
