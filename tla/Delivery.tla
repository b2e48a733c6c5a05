------------------------------ MODULE Delivery ------------------------------
(***************************************************************************)
(* What WebhookForwarder.forward() promises to whoever awaits it, with no  *)
(* attempts, counters or timers: TRUE is returned only for an event that   *)
(* n8n has accepted, FALSE only for an event parked in the dead letter     *)
(* topic or logged as dropped, and an exception promises nothing.  A       *)
(* request that has left the process may be accepted at any later moment,  *)
(* whether or not somebody still waits for the answer.                     *)
(***************************************************************************)
CONSTANTS Callers,   \* whoever may have one forward() outstanding
          Events,    \* what is forwarded
          NoEvent    \* the event of a caller that has nothing outstanding

VARIABLES
  fwd,       \* fwd[k]: result and event of k's latest forward()
  begun,     \* events handed to forward() so far
  accepted,  \* events n8n has answered with a success status
  dlq,       \* events in the dead letter topic
  lost       \* events whose loss was logged

deliveryVars == <<fwd, begun, accepted, dlq, lost>>

Idle == [st |-> "idle", ev |-> NoEvent]

DeliveryTypeOK ==
  /\ fwd \in [Callers -> [st : {"idle", "busy", "true", "false", "raised"},
                          ev : Events \cup {NoEvent}]]
  /\ \A k \in Callers : fwd[k].st # "idle" => fwd[k].ev \in begun
  /\ begun \subseteq Events
  /\ accepted \subseteq Events
  /\ dlq \subseteq Events
  /\ lost \subseteq Events

Init ==
  /\ fwd = [k \in Callers |-> Idle]
  /\ begun = {} /\ accepted = {} /\ dlq = {} /\ lost = {}

Return(k, st) == fwd' = [fwd EXCEPT ![k].st = st]

(* forward(event) is called. *)
Begin(k, e) ==
  /\ fwd[k].st # "busy"
  /\ fwd' = [fwd EXCEPT ![k] = [st |-> "busy", ev |-> e]]
  /\ begun' = begun \cup {e}
  /\ UNCHANGED <<accepted, dlq, lost>>

(* n8n accepts an event it was offered, possibly after the caller left. *)
Accept(e) ==
  /\ e \in begun
  /\ accepted' = accepted \cup {e}
  /\ UNCHANGED <<fwd, begun, dlq, lost>>

(* forward() returns TRUE. *)
Succeed(k) ==
  /\ fwd[k].st = "busy" /\ fwd[k].ev \in accepted
  /\ Return(k, "true")
  /\ UNCHANGED <<begun, accepted, dlq, lost>>

(* forward() returns FALSE: the event is in the topic, logged, or both. *)
GiveUp(k) ==
  /\ fwd[k].st = "busy"
  /\ Return(k, "false")
  /\ \/ dlq' = dlq \cup {fwd[k].ev} /\ lost' = lost
     \/ dlq' = dlq /\ lost' = lost \cup {fwd[k].ev}
     \/ dlq' = dlq \cup {fwd[k].ev} /\ lost' = lost \cup {fwd[k].ev}
  /\ UNCHANGED <<begun, accepted>>

(* forward() raises, is cancelled, or its process dies; the topic may      *)
(* still take the event.                                                   *)
Raise(k) ==
  /\ fwd[k].st = "busy"
  /\ Return(k, "raised")
  /\ dlq' \in {dlq, dlq \cup {fwd[k].ev}}
  /\ UNCHANGED <<begun, accepted, lost>>

Next ==
  \/ \E k \in Callers, e \in Events : Begin(k, e)
  \/ \E e \in Events : Accept(e)
  \/ \E k \in Callers : Succeed(k) \/ GiveUp(k) \/ Raise(k)

Spec == Init /\ [][Next]_deliveryVars
=============================================================================
