--------------------------- MODULE MCHttpReplay ---------------------------
(* Instances of HttpReplay for TLC.  Two bugs of e1, in one function, have *)
(* a guard and end its handler, a third has one and is caught by the       *)
(* application; e2 shares the first and has one without a guard, which     *)
(* raises a TimeoutError.                                                  *)
EXTENDS HttpReplay, TLC

CONSTANTS t1, t2, e1, e2, g1, g2, guardable, hopeless, caught, second

MCBugsOf == (e1 :> {guardable, caught, second}) @@ (e2 :> {guardable, hopeless})
MCFuncOf == (guardable :> g1) @@ (second :> g1) @@ (caught :> g2) @@ (hopeless :> g2)
===========================================================================
