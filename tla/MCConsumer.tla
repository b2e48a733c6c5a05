----------------------------- MODULE MCConsumer -----------------------------
(* Two instances of the service; small logs on one or two partitions. *)
EXTENDS Consumer, TLC

CONSTANTS i1, i2, p1, p2
TwoInstances == {i1, i2}
InstanceSymmetry == Permutations(TwoInstances)
OnePartition == {p1}
TwoPartitions == {p1, p2}

\* two records whose order matters, and beside them, under the same commit,
\* one that raises
LogMixed == (p1 :> <<"match", "match">>) @@ (p2 :> <<"raises">>)

\* nothing raises: everything must be committed in the end
LogGood == p1 :> <<"skip", "match">>
=============================================================================
