-------------------------- MODULE MCRewindRecorder --------------------------
(* An instance of RewindRecorder for TLC: functions none of whose names    *)
(* contains another, two of which (A.b and A_b) have one safe name.        *)
EXTENDS RewindRecorder, TLC

CONSTANTS w1, w2, r1, r2

MCSafeName   == [f \in Functions |-> IF f = 3 THEN 2 ELSE 1]
MCContaining == [f \in Functions |-> {f}]

Symmetric == Permutations(Threads) \cup Permutations(Buffers)
=============================================================================
