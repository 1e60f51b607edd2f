---------------------------- MODULE MCPatchLedger ---------------------------
(* An engine with two threads and a command, over two patches; one of the  *)
(* three crash kinds has a key that json cannot write.                     *)
EXTENDS PatchLedger

CONSTANTS engine, command, e1, e2, c1, k1, k2, k3, q1, q2

MCProcOf == [t \in {e1, e2, c1} |-> IF t = c1 THEN command ELSE engine]
MCPatchOf == [k \in {k1, k2, k3} |-> IF k = k1 THEN q1 ELSE q2]
=============================================================================
