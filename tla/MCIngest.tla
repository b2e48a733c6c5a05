------------------------------ MODULE MCIngest ------------------------------
(* A batch with every way through the handler and two events to order. *)
EXTENDS Ingest

FullBatch == <<"event", "empty", "invalid", "garbage", "event">>
=============================================================================
