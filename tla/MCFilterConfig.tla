--------------------------- MODULE MCFilterConfig ---------------------------
(* One or two instances, two pipelines, and bodies that are applied. *)
EXTENDS FilterConfig, TLC

CONSTANTS i1, i2, p1, p2, good1, good2
OneInstance == {i1}
TwoInstances == {i1, i2}
TwoPipelines == {p1, p2}
GoodBodies == {good1, good2}
QualityOfGood == [b \in GoodBodies |-> "good"]
=============================================================================
