----------------------------- MODULE MCLifecycle -----------------------------
(* Two pipelines with Kafka, one of them with a dead letter topic, and one *)
(* between them that has such a topic, but takes events by HTTP only.      *)
EXTENDS Lifecycle

CONSTANTS k1, k2, h
AllPipelines == {k1, k2, h}
InOrder == <<k1, h, k2>>
WithKafka == {k1, k2}
WithDlq == {h, k2}
=============================================================================
