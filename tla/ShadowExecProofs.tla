-------------------------- MODULE ShadowExecProofs --------------------------
(***************************************************************************)
(* What ShadowExec promises for any number of threads, functions and       *)
(* patches, and for any way functions share keys.                          *)
(*                                                                         *)
(* Inv is inductive.  Locals says who holds which lock and what the locals *)
(* of a call are at each of its steps; the two properties need it because  *)
(* what a swap leaves behind is the code that was read before it, and that *)
(* is the patched code only because nobody else is in a swap meanwhile.    *)
(***************************************************************************)
EXTENDS ShadowExec, TLAPS

InSwap == {"swap"} \cup Swapped
Inside == {"lookup", "lock", "read"} \cup InSwap

Locals ==
  \A t \in Threads :
    /\ pc[t] # "idle" => func[t] \in Funcs /\ run[t] \in Codes
    /\ pc[t] \in {"read"} \cup InSwap => lock[KeyOf[func[t]]] = t
    /\ pc[t] \in {"lock", "read"} \cup InSwap => shadow[t] \in Codes
    /\ pc[t] # "idle" /\ run[t][2] > 0 => patched[func[t]] > 0
    /\ pc[t] \in Inside => patched[func[t]] > 0
    /\ pc[t] \in InSwap => /\ saved[t] \in Codes /\ saved[t][2] > 0
                           /\ func[t] \notin overlap => saved[t] = <<func[t], patched[func[t]]>>
    /\ pc[t] = "record" => verdict[t] \in Verdicts \cup {None}

Counted == \A f \in Funcs : code[f][2] > 0 => patched[f] > 0

Inv == /\ TypeOK /\ Locals /\ SourceOnlyInShadow /\ SwapLeavesNoTrace
       /\ Counted

----------------------------------------------------------------------------
LEMMA Constants ==
  /\ KeyOf \in [Funcs -> Keys] /\ MaxPatches \in Nat
  /\ None \notin Threads /\ None \notin Funcs /\ None \notin Codes
BY ShadowExecAssumption DEF Codes, Versions

(* The end of a call keeps the types of its locals. *)
LEMMA LeaveTyped ==
  ASSUME TypeOK, NEW t \in Threads, Leave(t)
  PROVE  /\ pc' \in [Threads -> {"idle", "running", "crashed", "lookup", "lock", "read", "swap",
                                "record"} \cup Swapped]
         /\ func' \in [Threads -> Funcs \cup {None}] /\ run' \in [Threads -> Codes \cup {None}]
         /\ shadow' \in [Threads -> Codes \cup {None}] /\ saved' \in [Threads -> Codes \cup {None}]
         /\ verdict' \in [Threads -> Verdicts \cup {None}] /\ called' \in [Threads -> Versions]
<1>1. 0 \in Versions
  BY Constants DEF Versions
<1> QED BY <1>1 DEF TypeOK, Leave, Goto

----------------------------------------------------------------------------
(* A step keeps the types.                                                 *)
LEMMA Typing == Inv /\ [Next]_vars => TypeOK'
<1> SUFFICES ASSUME Inv, [Next]_vars PROVE TypeOK'
  OBVIOUS
<1> USE DEF Inv, TypeOK, Locals, Swapped, InSwap, Inside, Codes, Versions
<1>1. CASE UNCHANGED vars
  BY <1>1 DEF vars, heap, locals, call
<1>2. ASSUME NEW t \in Threads, NEW f \in Funcs, Call(t, f) PROVE TypeOK'
  BY <1>2, Constants DEF Call, Goto, Key, heap, call, locals
<1>3. ASSUME NEW t \in Threads, NEW v \in Verdicts, ShadowEnds(t, v) PROVE TypeOK'
  BY <1>3, Constants DEF ShadowEnds, Goto, Key, heap, call, locals
<1>4. ASSUME NEW t \in Threads, Return(t) PROVE TypeOK'
  <2>1. CASE Leave(t)
    BY <1>4, <2>1, LeaveTyped DEF Return, heap
  <2>2. CASE Goto(t, "lookup") /\ UNCHANGED <<call, locals>>
    BY <1>4, <2>2 DEF Return, Goto, heap, call, locals
  <2> QED BY <1>4, <2>1, <2>2 DEF Return
<1>5. ASSUME NEW t \in Threads, Crash(t) PROVE TypeOK'
  BY <1>5, Constants DEF Crash, Goto, Key, heap, call, locals
<1>6. ASSUME NEW t \in Threads, Patch(t) PROVE TypeOK'
  <2>1. func[t] \in Funcs /\ run[t] \in Codes /\ Key(t) \in Keys
    BY <1>6, Constants DEF Patch, Key
  <2>2. patched[func[t]] + 1 \in Versions
    BY <1>6, <2>1, Constants DEF Patch
  <2>3. /\ code' \in [Funcs -> Codes] /\ patched' \in [Funcs -> Versions]
        /\ original' \in [Keys -> Codes \cup {None}]
    BY <1>6, <2>1, <2>2 DEF Patch
  <2>4. overlap' \subseteq Funcs
    BY <1>6, <2>1 DEF Patch
  <2> QED BY <1>6, <2>3, <2>4, LeaveTyped DEF Patch
<1>7. ASSUME NEW t \in Threads, GiveUp(t) PROVE TypeOK'
  BY <1>7, Constants DEF GiveUp, Goto, Key, heap, call, locals, Leave
<1>8. ASSUME NEW t \in Threads, Lookup(t) PROVE TypeOK'
  <2>1. CASE Leave(t)
    BY <1>8, <2>1, LeaveTyped DEF Lookup, heap
  <2>2. CASE original[Key(t)] # None
    <3>1. Key(t) \in Keys /\ original[Key(t)] \in Codes
      BY <1>8, <2>2, Constants DEF Lookup, Key
    <3>2. shadow' = [shadow EXCEPT ![t] = original[Key(t)]] /\ pc' = [pc EXCEPT ![t] = "lock"]
      BY <1>8, <2>2 DEF Lookup, Goto
    <3> QED BY <1>8, <2>2, <3>1, <3>2 DEF Lookup, heap, call
  <2> QED BY <1>8, <2>1, <2>2 DEF Lookup
<1>9. ASSUME NEW t \in Threads, Acquire(t) PROVE TypeOK'
  BY <1>9, Constants DEF Acquire, Goto, Key, heap, call, locals
<1>10. ASSUME NEW t \in Threads, ReadCurrent(t) PROVE TypeOK'
  BY <1>10, Constants DEF ReadCurrent, Goto, Key, heap, call, locals
<1>11. ASSUME NEW t \in Threads, SwapIn(t) PROVE TypeOK'
  BY <1>11, Constants DEF SwapIn, Goto, Key, heap, call, locals
<1>12. ASSUME NEW t \in Threads, Timeout(t) PROVE TypeOK'
  <2>1. verdict' \in [Threads -> Verdicts \cup {None}]
    BY <1>12 DEF Timeout, Verdicts
  <2> QED BY <1>12, <2>1 DEF Timeout, Goto, heap, call
<1>13. ASSUME NEW t \in Threads, Restore(t) PROVE TypeOK'
  BY <1>13, Constants DEF Restore, Goto, Key, heap, call, locals
<1>14. ASSUME NEW t \in Threads, Record(t) PROVE TypeOK'
  BY <1>14, Constants DEF Record, Goto, Key, heap, call, locals, Leave
<1>15. ASSUME NEW t \in Threads, LeavePool(t) PROVE TypeOK'
  BY <1>15, Constants DEF LeavePool, Goto, Key, heap, call, locals
<1> QED BY <1>1, <1>2, <1>3, <1>4, <1>5, <1>6, <1>7, <1>8, <1>9, <1>10, <1>11, <1>12, <1>13, <1>14, <1>15 DEF Next, ShadowStep

----------------------------------------------------------------------------
(* A step keeps what the locals hold.                                      *)
LEMMA LocalsKept == Inv /\ [Next]_vars => Locals'
<1> SUFFICES ASSUME Inv, [Next]_vars PROVE Locals'
  OBVIOUS
<1> USE DEF Inv, TypeOK, Locals, Swapped, InSwap, Inside, Codes, Versions, Counted, Source, SourceOnlyInShadow, SwapLeavesNoTrace
<1>1. CASE UNCHANGED vars
  BY <1>1 DEF vars, heap, locals, call
<1>2. ASSUME NEW t \in Threads, NEW f \in Funcs, Call(t, f) PROVE Locals'
  BY <1>2, Constants DEF Call, Goto, Key, heap, call, locals
<1>3. ASSUME NEW t \in Threads, NEW v \in Verdicts, ShadowEnds(t, v) PROVE Locals'
  BY <1>3, Constants DEF ShadowEnds, Goto, Key, heap, call, locals
<1>4. ASSUME NEW t \in Threads, Return(t) PROVE Locals'
  BY <1>4, Constants DEF Return, Goto, Key, heap, call, locals, Leave
<1>5. ASSUME NEW t \in Threads, Crash(t) PROVE Locals'
  BY <1>5, Constants DEF Crash, Goto, Key, heap, call, locals
<1>6. ASSUME NEW t \in Threads, Patch(t) PROVE Locals'
  BY <1>6, Constants DEF Patch, Goto, Key, heap, call, locals, Leave
<1>7. ASSUME NEW t \in Threads, GiveUp(t) PROVE Locals'
  BY <1>7, Constants DEF GiveUp, Goto, Key, heap, call, locals, Leave
<1>8. ASSUME NEW t \in Threads, Lookup(t) PROVE Locals'
  BY <1>8, Constants DEF Lookup, Goto, Key, heap, call, locals, Leave
<1>9. ASSUME NEW t \in Threads, Acquire(t) PROVE Locals'
  BY <1>9, Constants DEF Acquire, Goto, Key, heap, call, locals
<1>10. ASSUME NEW t \in Threads, ReadCurrent(t) PROVE Locals'
  BY <1>10, Constants DEF ReadCurrent, Goto, Key, heap, call, locals
<1>11. ASSUME NEW t \in Threads, SwapIn(t) PROVE Locals'
  BY <1>11, Constants DEF SwapIn, Goto, Key, heap, call, locals
<1>12. ASSUME NEW t \in Threads, Timeout(t) PROVE Locals'
  BY <1>12, Constants DEF Timeout, Goto, Key, heap, call, locals
<1>13. ASSUME NEW t \in Threads, Restore(t) PROVE Locals'
  BY <1>13, Constants DEF Restore, Goto, Key, heap, call, locals
<1>14. ASSUME NEW t \in Threads, Record(t) PROVE Locals'
  BY <1>14, Constants DEF Record, Goto, Key, heap, call, locals, Leave
<1>15. ASSUME NEW t \in Threads, LeavePool(t) PROVE Locals'
  BY <1>15, Constants DEF LeavePool, Goto, Key, heap, call, locals
<1> QED BY <1>1, <1>2, <1>3, <1>4, <1>5, <1>6, <1>7, <1>8, <1>9, <1>10, <1>11, <1>12, <1>13, <1>14, <1>15 DEF Next, ShadowStep

----------------------------------------------------------------------------
(* A step puts unpatched code in place only as a swap.                     *)
LEMMA SourceKept == Inv /\ [Next]_vars => SourceOnlyInShadow'
<1> SUFFICES ASSUME Inv, [Next]_vars PROVE SourceOnlyInShadow'
  OBVIOUS
<1> USE DEF Inv, TypeOK, Locals, Swapped, InSwap, Inside, Codes, Versions, SourceOnlyInShadow
<1>1. CASE UNCHANGED vars
  BY <1>1 DEF vars, heap, locals, call
<1>2. ASSUME NEW t \in Threads, NEW f \in Funcs, Call(t, f) PROVE SourceOnlyInShadow'
  BY <1>2, Constants DEF Call, Goto, Key, heap, call, locals
<1>3. ASSUME NEW t \in Threads, NEW v \in Verdicts, ShadowEnds(t, v) PROVE SourceOnlyInShadow'
  BY <1>3, Constants DEF ShadowEnds, Goto, Key, heap, call, locals
<1>4. ASSUME NEW t \in Threads, Return(t) PROVE SourceOnlyInShadow'
  <2>1. \A u \in Threads : func[u] = func'[u] \/ pc[u] \notin Swapped
    BY <1>4 DEF Return, Leave, call
  <2>2. \A u \in Threads : pc[u] \in Swapped => pc'[u] = pc[u]
    BY <1>4 DEF Return, Leave, Goto
  <2> QED BY <1>4, <2>1, <2>2 DEF Return, heap
<1>5. ASSUME NEW t \in Threads, Crash(t) PROVE SourceOnlyInShadow'
  BY <1>5, Constants DEF Crash, Goto, Key, heap, call, locals
<1>6. ASSUME NEW t \in Threads, Patch(t) PROVE SourceOnlyInShadow'
  BY <1>6, Constants DEF Patch, Goto, Key, heap, call, locals, Leave
<1>7. ASSUME NEW t \in Threads, GiveUp(t) PROVE SourceOnlyInShadow'
  BY <1>7, Constants DEF GiveUp, Goto, Key, heap, call, locals, Leave
<1>8. ASSUME NEW t \in Threads, Lookup(t) PROVE SourceOnlyInShadow'
  BY <1>8, Constants DEF Lookup, Goto, Key, heap, call, locals, Leave
<1>9. ASSUME NEW t \in Threads, Acquire(t) PROVE SourceOnlyInShadow'
  BY <1>9, Constants DEF Acquire, Goto, Key, heap, call, locals
<1>10. ASSUME NEW t \in Threads, ReadCurrent(t) PROVE SourceOnlyInShadow'
  BY <1>10, Constants DEF ReadCurrent, Goto, Key, heap, call, locals
<1>11. ASSUME NEW t \in Threads, SwapIn(t) PROVE SourceOnlyInShadow'
  BY <1>11, Constants DEF SwapIn, Goto, Key, heap, call, locals
<1>12. ASSUME NEW t \in Threads, Timeout(t) PROVE SourceOnlyInShadow'
  BY <1>12, Constants DEF Timeout, Goto, Key, heap, call, locals
<1>13. ASSUME NEW t \in Threads, Restore(t) PROVE SourceOnlyInShadow'
  BY <1>13, Constants DEF Restore, Goto, Key, heap, call, locals
<1>14. ASSUME NEW t \in Threads, Record(t) PROVE SourceOnlyInShadow'
  BY <1>14, Constants DEF Record, Goto, Key, heap, call, locals, Leave
<1>15. ASSUME NEW t \in Threads, LeavePool(t) PROVE SourceOnlyInShadow'
  BY <1>15, Constants DEF LeavePool, Goto, Key, heap, call, locals
<1> QED BY <1>1, <1>2, <1>3, <1>4, <1>5, <1>6, <1>7, <1>8, <1>9, <1>10, <1>11, <1>12, <1>13, <1>14, <1>15 DEF Next, ShadowStep

----------------------------------------------------------------------------
(* A swap that no patch falls into is undone.                              *)
LEMMA TraceKept == Inv /\ [Next]_vars => SwapLeavesNoTrace'
<1> SUFFICES ASSUME Inv, [Next]_vars PROVE SwapLeavesNoTrace'
  OBVIOUS
<1> USE DEF Inv, TypeOK, Locals, Swapped, InSwap, Inside, Codes, Versions, SwapLeavesNoTrace
<1>1. CASE UNCHANGED vars
  BY <1>1 DEF vars, heap, locals, call
<1>2. ASSUME NEW t \in Threads, NEW f \in Funcs, Call(t, f) PROVE SwapLeavesNoTrace'
  BY <1>2, Constants DEF Call, Goto, Key, heap, call, locals
<1>3. ASSUME NEW t \in Threads, NEW v \in Verdicts, ShadowEnds(t, v) PROVE SwapLeavesNoTrace'
  BY <1>3, Constants DEF ShadowEnds, Goto, Key, heap, call, locals
<1>4. ASSUME NEW t \in Threads, Return(t) PROVE SwapLeavesNoTrace'
  <2>1. \A u \in Threads : func[u] = func'[u] \/ pc[u] \notin Swapped
    BY <1>4 DEF Return, Leave, call
  <2>2. \A u \in Threads : pc[u] \in Swapped => pc'[u] = pc[u]
    BY <1>4 DEF Return, Leave, Goto
  <2>3. UNCHANGED <<code, patched, overlap>>
    BY <1>4 DEF Return, heap
  <2>4. ASSUME NEW f \in Funcs,
               \/ f \in overlap \/ code[f] = <<f, patched[f]>>
               \/ \E u \in Threads : func[u] = f /\ pc[u] \in Swapped
        PROVE  \/ f \in overlap' \/ code'[f] = <<f, patched'[f]>>
               \/ \E u \in Threads : func'[u] = f /\ pc'[u] \in Swapped
    BY <2>1, <2>2, <2>3, <2>4
  <2> QED BY <2>4
<1>5. ASSUME NEW t \in Threads, Crash(t) PROVE SwapLeavesNoTrace'
  BY <1>5, Constants DEF Crash, Goto, Key, heap, call, locals
<1>6. ASSUME NEW t \in Threads, Patch(t) PROVE SwapLeavesNoTrace'
  BY <1>6, Constants DEF Patch, Goto, Key, heap, call, locals, Leave
<1>7. ASSUME NEW t \in Threads, GiveUp(t) PROVE SwapLeavesNoTrace'
  BY <1>7, Constants DEF GiveUp, Goto, Key, heap, call, locals, Leave
<1>8. ASSUME NEW t \in Threads, Lookup(t) PROVE SwapLeavesNoTrace'
  BY <1>8, Constants DEF Lookup, Goto, Key, heap, call, locals, Leave
<1>9. ASSUME NEW t \in Threads, Acquire(t) PROVE SwapLeavesNoTrace'
  BY <1>9, Constants DEF Acquire, Goto, Key, heap, call, locals
<1>10. ASSUME NEW t \in Threads, ReadCurrent(t) PROVE SwapLeavesNoTrace'
  BY <1>10, Constants DEF ReadCurrent, Goto, Key, heap, call, locals
<1>11. ASSUME NEW t \in Threads, SwapIn(t) PROVE SwapLeavesNoTrace'
  BY <1>11, Constants DEF SwapIn, Goto, Key, heap, call, locals
<1>12. ASSUME NEW t \in Threads, Timeout(t) PROVE SwapLeavesNoTrace'
  BY <1>12, Constants DEF Timeout, Goto, Key, heap, call, locals
<1>13. ASSUME NEW t \in Threads, Restore(t) PROVE SwapLeavesNoTrace'
  BY <1>13, Constants DEF Restore, Goto, Key, heap, call, locals
<1>14. ASSUME NEW t \in Threads, Record(t) PROVE SwapLeavesNoTrace'
  BY <1>14, Constants DEF Record, Goto, Key, heap, call, locals, Leave
<1>15. ASSUME NEW t \in Threads, LeavePool(t) PROVE SwapLeavesNoTrace'
  BY <1>15, Constants DEF LeavePool, Goto, Key, heap, call, locals
<1> QED BY <1>1, <1>2, <1>3, <1>4, <1>5, <1>6, <1>7, <1>8, <1>9, <1>10, <1>11, <1>12, <1>13, <1>14, <1>15 DEF Next, ShadowStep

----------------------------------------------------------------------------
(* A version above 0 is a counted patch.                                   *)
LEMMA CountKept == Inv /\ [Next]_vars => Counted'
<1> SUFFICES ASSUME Inv, [Next]_vars PROVE Counted'
  OBVIOUS
<1> USE DEF Inv, TypeOK, Locals, Swapped, InSwap, Inside, Codes, Versions, Counted
<1>1. CASE UNCHANGED vars
  BY <1>1 DEF vars, heap, locals, call
<1>2. ASSUME NEW t \in Threads, NEW f \in Funcs, Call(t, f) PROVE Counted'
  BY <1>2, Constants DEF Call, Goto, Key, heap, call, locals
<1>3. ASSUME NEW t \in Threads, NEW v \in Verdicts, ShadowEnds(t, v) PROVE Counted'
  BY <1>3, Constants DEF ShadowEnds, Goto, Key, heap, call, locals
<1>4. ASSUME NEW t \in Threads, Return(t) PROVE Counted'
  BY <1>4, Constants DEF Return, Goto, Key, heap, call, locals, Leave
<1>5. ASSUME NEW t \in Threads, Crash(t) PROVE Counted'
  BY <1>5, Constants DEF Crash, Goto, Key, heap, call, locals
<1>6. ASSUME NEW t \in Threads, Patch(t) PROVE Counted'
  BY <1>6, Constants DEF Patch, Goto, Key, heap, call, locals, Leave
<1>7. ASSUME NEW t \in Threads, GiveUp(t) PROVE Counted'
  BY <1>7, Constants DEF GiveUp, Goto, Key, heap, call, locals, Leave
<1>8. ASSUME NEW t \in Threads, Lookup(t) PROVE Counted'
  BY <1>8, Constants DEF Lookup, Goto, Key, heap, call, locals, Leave
<1>9. ASSUME NEW t \in Threads, Acquire(t) PROVE Counted'
  BY <1>9, Constants DEF Acquire, Goto, Key, heap, call, locals
<1>10. ASSUME NEW t \in Threads, ReadCurrent(t) PROVE Counted'
  BY <1>10, Constants DEF ReadCurrent, Goto, Key, heap, call, locals
<1>11. ASSUME NEW t \in Threads, SwapIn(t) PROVE Counted'
  BY <1>11, Constants DEF SwapIn, Goto, Key, heap, call, locals
<1>12. ASSUME NEW t \in Threads, Timeout(t) PROVE Counted'
  BY <1>12, Constants DEF Timeout, Goto, Key, heap, call, locals
<1>13. ASSUME NEW t \in Threads, Restore(t) PROVE Counted'
  BY <1>13, Constants DEF Restore, Goto, Key, heap, call, locals
<1>14. ASSUME NEW t \in Threads, Record(t) PROVE Counted'
  BY <1>14, Constants DEF Record, Goto, Key, heap, call, locals, Leave
<1>15. ASSUME NEW t \in Threads, LeavePool(t) PROVE Counted'
  BY <1>15, Constants DEF LeavePool, Goto, Key, heap, call, locals
<1> QED BY <1>1, <1>2, <1>3, <1>4, <1>5, <1>6, <1>7, <1>8, <1>9, <1>10, <1>11, <1>12, <1>13, <1>14, <1>15 DEF Next, ShadowStep

----------------------------------------------------------------------------
(* The theorems.                                                           *)

LEMMA Invariance == Spec => []Inv
<1>1. Init => Inv
  BY Constants DEF Init, Inv, TypeOK, Locals, SourceOnlyInShadow, SwapLeavesNoTrace, Counted, Source,
                   Codes, Versions, InSwap, Inside, Swapped
<1>2. Inv /\ [Next]_vars => Inv'
  BY Typing, LocalsKept, SourceKept, TraceKept, CountKept DEF Inv
<1> QED BY <1>1, <1>2, PTL DEF Spec

(* The types, for any threads, functions and patches.                      *)
THEOREM TypeCorrect == Spec => []TypeOK
<1>1. Inv => TypeOK
  BY DEF Inv
<1> QED BY <1>1, Invariance, PTL

(* "Two threads shadow-executing the same function don't corrupt           *)
(* __code__": unpatched code is in a patched function only during a swap.  *)
THEOREM PatchedStaysPatched == Spec => []SourceOnlyInShadow
<1>1. Inv => SourceOnlyInShadow
  BY DEF Inv
<1> QED BY <1>1, Invariance, PTL

(* A shadow no patch falls into gives the function its latest patch back.  *)
THEOREM SwapsAreUndone == Spec => []SwapLeavesNoTrace
<1>1. Inv => SwapLeavesNoTrace
  BY DEF Inv
<1> QED BY <1>1, Invariance, PTL
=============================================================================
