--------------------------- MODULE MCWebMiddleware ---------------------------
(* An instance of WebMiddleware for TLC: e1 has two bugs, b2 and b4, on one *)
(* line and a third on another, e2 has b3 and b5 on one line.               *)
EXTENDS WebMiddleware, TLC

CONSTANTS w1, w2, e1, e2, b1, b2, b3, b4, b5, s1, s2, s3

MCBugsOf == (e1 :> {b1, b2, b4}) @@ (e2 :> {b3, b5})
MCSiteOf == (b1 :> s1) @@ (b2 :> s2) @@ (b3 :> s3) @@ (b4 :> s2) @@ (b5 :> s3)
=============================================================================
