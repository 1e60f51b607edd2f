---------------------------- MODULE PatchHistory ----------------------------
(***************************************************************************)
(* What lifecycle.json promises those who use it one after the other: the  *)
(* states that a patch has been through are only added to, one at a time;  *)
(* a save keeps all of them; a restart finds what was saved.  A save that  *)
(* is cut short may lose the history, never replace it by another one.     *)
(* While two managers of a process use it, it promises nothing.            *)
(***************************************************************************)
EXTENDS Sequences

CONSTANTS Patches, States

VARIABLES history,   (* history[q]: the states of q so far, oldest first    *)
          saved,     (* what a restart would find                           *)
          sole       (* is there one manager?                               *)

vars == <<history, saved, sole>>

Nothing == [q \in Patches |-> <<>>]

Init == history = Nothing /\ saved = Nothing /\ sole = TRUE

(* Patches move to a new state. *)
Note ==
  /\ history' \in [Patches -> Seq(States)]
  /\ \A q \in Patches : \/ history'[q] = history[q]
                        \/ \E s \in States : history'[q] = Append(history[q], s)
  /\ UNCHANGED saved

Save == saved' \in {history, Nothing} /\ UNCHANGED history

Recover == history' = saved /\ UNCHANGED saved

(* Nothing is said of the other two variables. *)
Shared == ~sole \/ ~sole'

Next == Note \/ Save \/ Recover \/ Shared

Spec == Init /\ [][Next]_vars
=============================================================================
