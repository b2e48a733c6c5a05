------------------------------ MODULE MCEditors ------------------------------
(* One instance, two pipelines, two pages, and another client that puts an *)
(* entry the service refuses.                                              *)
EXTENDS Editors, TLC

CONSTANTS i1, p1, p2, e1, e2, paid, bad, nothing, onlyPaid, onlyBad, both
OneInstance == {i1}
TwoPipelines == {p1, p2}
TwoBrowsers == {e1, e2}
TwoEntries == {paid, bad}
OnePaid == {paid}

AllBodies == {nothing, onlyPaid, onlyBad, both}
Refused == {onlyBad}
Sets == (nothing :> {}) @@ (onlyPaid :> OnePaid) @@ (onlyBad :> {bad})
          @@ (both :> TwoEntries) @@ (Environment :> {})

\* bad has not the shape of a filter
QualityOfAll == [b \in AllBodies |-> IF bad \in Sets[b] THEN "malformed" ELSE "good"]

Symmetry == Permutations(TwoPipelines) \cup Permutations(TwoBrowsers)
=============================================================================
