-------------------------- MODULE MCIncidentAlerts --------------------------
(* Instances of IncidentAlerts for TLC: c1 and c2 are crashes of one        *)
(* function, common and HIGH, c3 one of a function with a sensitive name.   *)
EXTENDS IncidentAlerts, TLC

CONSTANTS f1, f2, c1, c2, c3

MCFuncOf  == (c1 :> f1) @@ (c2 :> f1) @@ (c3 :> f2)
MCGuardOf == (c1 :> "null_guard") @@ (c2 :> "chain_subscript_guard") @@ (c3 :> "file_guard")
MCTwoFuncOf  == (c1 :> f1) @@ (c2 :> f1)
MCTwoGuardOf == (c1 :> "null_guard") @@ (c2 :> "chain_subscript_guard")

Symmetric == Permutations(Incidents) \cup Permutations(Flushers) \cup Permutations(Commands)
=============================================================================
