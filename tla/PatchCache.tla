----------------------------- MODULE PatchCache -----------------------------
(***************************************************************************)
(* What the patch store promises the processes that share it: a function   *)
(* runs the source of, or a code object synthesised for, itself or one of  *)
(* the functions it shares a name with, never anything else, whatever      *)
(* happens to the files in between.                                        *)
(***************************************************************************)
CONSTANTS Procs, Funcs, Versions, Kin

VARIABLES offered,   (* offered[f]: the versions synthesised for f so far   *)
          live       (* live[p][f]: the version process p runs, or the      *)
                     (* function whose source it runs                       *)

vars == <<offered, live>>

(* What may be run in the place of f. *)
Fitting(f) ==
  {x \in Funcs \cup Versions :
     \E g \in Funcs : Kin[g] = Kin[f] /\ (x = g \/ x \in offered[g])}

Init == /\ offered = [f \in Funcs |-> {}]
        /\ live = [p \in Procs |-> [f \in Funcs |-> f]]

(* A new version is synthesised for f and runs in p at once. *)
Patch(p, f, v) ==
  /\ \A g \in Funcs : v \notin offered[g]
  /\ offered' = [offered EXCEPT ![f] = @ \cup {v}]
  /\ live' = [live EXCEPT ![p][f] = v]

(* p takes a version from the store, or goes back to an earlier one. *)
Switch(p, f) ==
  /\ \E x \in Fitting(f) : live' = [live EXCEPT ![p][f] = x]
  /\ UNCHANGED offered

Restart(p) ==
  /\ live' = [live EXCEPT ![p] = [f \in Funcs |-> f]]
  /\ UNCHANGED offered

Next == \E p \in Procs :
          \/ \E f \in Funcs : Switch(p, f) \/ \E v \in Versions : Patch(p, f, v)
          \/ Restart(p)

Spec == Init /\ [][Next]_vars
=============================================================================
