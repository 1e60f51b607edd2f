--------------------------- MODULE MCPatchEngine ---------------------------
(* Instances of PatchEngine for TLC: two functions, each with the crash     *)
(* kinds the run is about.  The functions of a crash kind are looked up in  *)
(* the records below, whose fields are the kinds.                           *)
EXTENDS PatchEngine, TLC

CONSTANTS f1, f2, f3, a, b, n, s1, s2, cf, cg, ch, src

(* One crash site in each of two functions, and n in the second. *)
OneSiteAt  == (a :> f1) @@ (b :> f2) @@ (n :> f2)
OneSiteSig == (a :> s1) @@ (b :> s2) @@ (n :> s2)

(* Two sites a and b in f1, a crash n without a rule in f2. *)
TwoSiteAt  == (a :> f1) @@ (b :> f1) @@ (n :> f2)
TwoSiteSig == (a :> s1) @@ (b :> s2) @@ (n :> s2)

(* In f1, `x.owner.name' fails at a or b because a property getter, f2 or f3, *)
(* returned None; both failures have one signature.                        *)
GetterAt  == (a :> f1) @@ (b :> f1)
GetterFix == (a :> f2) @@ (b :> f3)
GetterSig == (a :> s1) @@ (b :> s1)

MCPristine  == (f1 :> cf) @@ (f2 :> cg)
MCPristine3 == (f1 :> cf) @@ (f2 :> cg) @@ (f3 :> ch)
OneFunction == f1 :> cf
JustFAt  == (a :> f1) @@ (b :> f1)
JustFSig == (a :> s1) @@ (b :> s2)

(* Names: every function has a co_name, a source file and a file in the     *)
(* store of its own, and a rollback by the co_name removes this file; or g, *)
(* in the same source, is the name of two methods, C.g and D.g, and a       *)
(* rollback may also be given the qualified name of one.                    *)
ApartNames   == {"f", "g", "h"}
ApartName    == [x \in Funcs |-> CASE x = f1 -> "f" [] x = f2 -> "g" [] x = f3 -> "h"]
ApartFile    == [x \in Funcs |-> CASE x = f1 -> "m.f" [] x = f2 -> "m.g" [] x = f3 -> "m.h"]
ApartRemoves == ("f" :> {"m.f"}) @@ ("g" :> {"m.g"}) @@ ("h" :> {"m.h"})

SharedNames   == {"f", "g", "C.g"}
SharedName    == (f1 :> "f") @@ (f2 :> "g") @@ (f3 :> "g")
SharedFile    == (f1 :> "m.f") @@ (f2 :> "m.C.g") @@ (f3 :> "m.D.g")
SharedRemoves == ("f" :> {"m.f"}) @@ ("g" :> {"m.C.g", "m.D.g"}) @@ ("C.g" :> {"m.C.g"})

OneSource == [x \in Funcs |-> src]
AllFiles == {"m.f", "m.g", "m.h", "m.C.g", "m.D.g"}

(* Threads, exceptions and the addresses no source code object occupies     *)
(* are interchangeable; used by a run that checks no liveness.               *)
Symmetric == Permutations(Threads) \cup Permutations(Excs)
               \cup Permutations(Codes \ {cf, cg, ch})
============================================================================
