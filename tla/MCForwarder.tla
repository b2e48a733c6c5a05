----------------------------- MODULE MCForwarder -----------------------------
(* One or two concurrent calls, the first one made by the consumer task. *)
EXTENDS Forwarder

CONSTANTS c1, c2
OneCall == {c1}
TwoCalls == {c1, c2}
FromConsumer == {c1}
=============================================================================
