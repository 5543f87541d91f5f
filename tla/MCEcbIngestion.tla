---------------------------- MODULE MCEcbIngestion ----------------------------
(* Instances of EcbIngestion for TLC. *)
EXTENDS EcbIngestion, TLC

CONSTANTS w1, w2, r1, r2

TwoWorkers == {w1, w2}
Symmetry   == Permutations({w1, w2})
RunSymmetry == Symmetry \cup Permutations({r1, r2})

(* One batch; the source grows from one row to two. *)
OneBatchGrowing == [b \in {1} |-> <<1, 2>>]

(* Two batches, the second empty until the source moves. *)
TwoBatches == <<<<1, 1>>, <<0, 1>>>>
=============================================================================
