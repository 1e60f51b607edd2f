------------------------------ MODULE MCRunLoop ------------------------------
(* An instance of RunLoop for TLC: a function of the script with two bugs  *)
(* that can be guarded and one that cannot, an imported and a nested one.  *)
EXTENDS RunLoop, TLC

CONSTANTS b1, b2, b3, b4, b5, main1, lib1, inner1

MCFuncOf ==
  [b \in Bugs |-> CASE b \in {b1, b2, b3} -> main1 [] b = b4 -> lib1 [] b = b5 -> inner1]
=============================================================================
