--------------------------- MODULE MCPatchStore ---------------------------
(* Instances of PatchStore for TLC: two threads of one process and one of   *)
(* another.  f1 and f2 are functions of one name in two source files and    *)
(* share their files in the store, l1; rolling n1 back also matches l2, the *)
(* files of f3, whose name ends like theirs.                                *)
EXTENDS PatchStore, TLC

CONSTANTS f1, f2, f3, n1, n2, l1, l2, s1, s2, p1, p2, t1, t2, t3

MCProcOf   == (t1 :> p1) @@ (t2 :> p1) @@ (t3 :> p2)
TwoProcOf  == (t1 :> p1) @@ (t3 :> p2)
MCSource   == (f1 :> s1) @@ (f2 :> s2) @@ (f3 :> s1)
MCName     == (f1 :> n1) @@ (f2 :> n1) @@ (f3 :> n2)
MCFile     == (f1 :> l1) @@ (f2 :> l1) @@ (f3 :> l2)
MCKin      == MCName
ThreadsAlike == Permutations({t1, t2})
MCMatching == (n1 :> {l1, l2}) @@ (n2 :> {l2})
===========================================================================
