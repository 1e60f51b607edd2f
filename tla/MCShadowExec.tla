--------------------------- MODULE MCShadowExec ---------------------------
(* Instances of ShadowExec for TLC: two functions, of one name or of two.  *)
EXTENDS ShadowExec, TLC

CONSTANTS t1, t2, t3, f1, f2, k1, k2

OwnKeys == (f1 :> k1) @@ (f2 :> k2)
OneKey  == (f1 :> k1) @@ (f2 :> k1)
JustF   == f1 :> k1
===========================================================================
