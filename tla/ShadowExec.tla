----------------------------- MODULE ShadowExec -----------------------------
(***************************************************************************)
(* Shadow execution (codesuture/shadow.py, and the "return" event of the   *)
(* trace function in codesuture/tracer.py): when a call of a patched       *)
(* function returns, the original code is run once more with the same      *)
(* arguments, in a thread of its own, and the results are compared.        *)
(*                                                                         *)
(* The original runs by being put into func.__code__ for the time of the   *)
(* run, under a lock per func_key ("file:name"), which functions of one    *)
(* file may share.  The engine patches the same attribute under a lock of  *)
(* its own.                                                                *)
(*                                                                         *)
(* A code object is a pair <<function, version>>, version 0 being the      *)
(* source and each patch a new one.  Only version 0 crashes here.  clear() *)
(* has no caller outside the tests and is left out.                        *)
(***************************************************************************)
EXTENDS Naturals

CONSTANTS
  Threads,          (* of the application                                  *)
  Funcs, Keys, KeyOf,
  None,
  MaxPatches        (* bound, for each function                            *)

ASSUME ShadowExecAssumption ==
  /\ KeyOf \in [Funcs -> Keys]
  /\ MaxPatches \in Nat
  /\ None \notin Threads \cup Funcs \cup (Funcs \X Nat)

VARIABLES
  code,             (* func.__code__                                       *)
  original,         (* _original_codes                                     *)
  lock,             (* owner of a lock of _func_locks                      *)
  results,          (* _shadow_results: the verdict                        *)
  pc, func, run,    (* of a thread: where it is, in which call, and the    *)
                    (* code object the call runs                           *)
  shadow, saved,    (* original_code and current_code of shadow_execute    *)
  verdict,          (* result.verdict                                      *)
  patched,          (* history: how often a function was patched           *)
  called,           (* history: patched[f] at the time of the call         *)
  overlap           (* history: functions patched during a swap            *)

heap    == <<code, original, lock, results>>
locals  == <<shadow, saved, verdict>>
call    == <<func, run, called>>
vars    == <<heap, pc, call, locals, patched, overlap>>

Versions == 0 .. MaxPatches
Codes    == Funcs \X Versions
Source(f) == <<f, 0>>
Verdicts == {"unnecessary", "divergent", "justified", "error"}
Swapped  == {"swapped", "late", "restore"}

TypeOK ==
  /\ code \in [Funcs -> Codes]
  /\ original \in [Keys -> Codes \cup {None}]
  /\ lock \in [Keys -> Threads \cup {None}]
  /\ results \in [Keys -> Verdicts \cup {None}]
  /\ pc \in [Threads -> {"idle", "running", "crashed", "lookup", "lock", "read", "swap",
                         "record"} \cup Swapped]
  /\ func \in [Threads -> Funcs \cup {None}]
  /\ run \in [Threads -> Codes \cup {None}]
  /\ shadow \in [Threads -> Codes \cup {None}] /\ saved \in [Threads -> Codes \cup {None}]
  /\ verdict \in [Threads -> Verdicts \cup {None}]
  /\ patched \in [Funcs -> Versions] /\ called \in [Threads -> Versions]
  /\ overlap \subseteq Funcs

Init ==
  /\ code = [f \in Funcs |-> Source(f)]
  /\ original = [k \in Keys |-> None] /\ lock = [k \in Keys |-> None]
  /\ results = [k \in Keys |-> None]
  /\ pc = [t \in Threads |-> "idle"]
  /\ func = [t \in Threads |-> None] /\ run = [t \in Threads |-> None]
  /\ shadow = [t \in Threads |-> None] /\ saved = [t \in Threads |-> None]
  /\ verdict = [t \in Threads |-> None]
  /\ patched = [f \in Funcs |-> 0] /\ called = [t \in Threads |-> 0]
  /\ overlap = {}

Goto(t, s) == pc' = [pc EXCEPT ![t] = s]
Key(t)     == KeyOf[func[t]]

(* The thread is through with its call. *)
Leave(t) ==
  /\ Goto(t, "idle")
  /\ func' = [func EXCEPT ![t] = None] /\ run' = [run EXCEPT ![t] = None]
  /\ called' = [called EXCEPT ![t] = 0]
  /\ shadow' = [shadow EXCEPT ![t] = None] /\ saved' = [saved EXCEPT ![t] = None]
  /\ verdict' = [verdict EXCEPT ![t] = None]

----------------------------------------------------------------------------
(* The application and the engine.                                         *)

Call(t, f) ==
  /\ pc[t] = "idle"
  /\ func' = [func EXCEPT ![t] = f] /\ run' = [run EXCEPT ![t] = code[f]]
  /\ called' = [called EXCEPT ![t] = patched[f]]
  /\ Goto(t, "running")
  /\ UNCHANGED <<heap, locals, patched, overlap>>

(* The "return" event: code that has no entry in _patched_codes is not     *)
(* looked at.                                                              *)
Return(t) ==
  /\ pc[t] = "running"
  /\ IF run[t][2] > 0 THEN Goto(t, "lookup") /\ UNCHANGED <<call, locals>> ELSE Leave(t)
  /\ UNCHANGED <<heap, patched, overlap>>

Crash(t) ==
  /\ pc[t] = "running" /\ run[t][2] = 0
  /\ Goto(t, "crashed")
  /\ UNCHANGED <<heap, call, locals, patched, overlap>>

(* The engine gives the function a guarded code object, or gives up;       *)
(* register_original keeps the first code object.                          *)
Patch(t) ==
  LET f == func[t]
      n == patched[f] + 1 IN
  /\ pc[t] = "crashed" /\ n <= MaxPatches
  /\ patched' = [patched EXCEPT ![f] = n]
  /\ code' = [code EXCEPT ![f] = <<f, n>>]
  /\ original' = [original EXCEPT ![Key(t)] = IF @ = None THEN run[t] ELSE @]
  /\ overlap' = IF \E u \in Threads : func[u] = f /\ pc[u] \in Swapped \cup {"swap"}
                THEN overlap \cup {f} ELSE overlap
  /\ Leave(t)
  /\ UNCHANGED <<lock, results>>

GiveUp(t) ==
  /\ pc[t] = "crashed" /\ Leave(t)
  /\ UNCHANGED <<heap, patched, overlap>>

----------------------------------------------------------------------------
(* shadow_execute.                                                         *)

Lookup(t) ==
  /\ pc[t] = "lookup"
  /\ IF original[Key(t)] = None THEN Leave(t)
     ELSE /\ shadow' = [shadow EXCEPT ![t] = original[Key(t)]]
          /\ Goto(t, "lock")
          /\ UNCHANGED <<call, saved, verdict>>
  /\ UNCHANGED <<heap, patched, overlap>>

(* Variants of the definition below, with a mistake in them. *)
AcquireNothing(t) ==
  /\ pc[t] = "lock" /\ Goto(t, "read")
  /\ UNCHANGED <<heap, call, locals, patched, overlap>>
AcquireAfterRead(t) ==
  \/ /\ pc[t] = "lock" /\ saved[t] = None
     /\ saved' = [saved EXCEPT ![t] = code[func[t]]]
     /\ UNCHANGED <<heap, pc, call, shadow, verdict, patched, overlap>>
  \/ /\ pc[t] = "lock" /\ saved[t] # None /\ lock[Key(t)] = None
     /\ lock' = [lock EXCEPT ![Key(t)] = t]
     /\ Goto(t, "swap")
     /\ UNCHANGED <<code, original, results, call, locals, patched, overlap>>

Acquire(t) ==
  /\ pc[t] = "lock" /\ lock[Key(t)] = None
  /\ lock' = [lock EXCEPT ![Key(t)] = t]
  /\ Goto(t, "read")
  /\ UNCHANGED <<code, original, results, call, locals, patched, overlap>>

(* Variant of the definition below, with a mistake in it. *)
ReadNothing(t) ==
  /\ pc[t] = "read" /\ Goto(t, "swap")
  /\ UNCHANGED <<heap, call, locals, patched, overlap>>

ReadCurrent(t) ==
  /\ pc[t] = "read"
  /\ saved' = [saved EXCEPT ![t] = code[func[t]]]
  /\ Goto(t, "swap")
  /\ UNCHANGED <<heap, call, shadow, verdict, patched, overlap>>

SwapIn(t) ==
  /\ pc[t] = "swap"
  /\ code' = [code EXCEPT ![func[t]] = shadow[t]]
  /\ Goto(t, "swapped")
  /\ UNCHANGED <<original, lock, results, call, locals, patched, overlap>>

(* The pool's thread, which the trace function ignores, comes back within  *)
(* the 5 seconds of future.result.                                         *)
ShadowEnds(t, v) ==
  /\ pc[t] = "swapped"
  /\ verdict' = [verdict EXCEPT ![t] = v]
  /\ Goto(t, "restore")
  /\ UNCHANGED <<heap, call, shadow, saved, patched, overlap>>

(* It does not: the result is an error, but the pool is left, and the code *)
(* restored, only when it has come back after all.                         *)
Timeout(t) ==
  /\ pc[t] = "swapped"
  /\ verdict' = [verdict EXCEPT ![t] = "error"]
  /\ Goto(t, "late")
  /\ UNCHANGED <<heap, call, shadow, saved, patched, overlap>>

LeavePool(t) ==
  /\ pc[t] = "late" /\ Goto(t, "restore")
  /\ UNCHANGED <<heap, call, locals, patched, overlap>>

Restore(t) ==
  /\ pc[t] = "restore"
  /\ code' = [code EXCEPT ![func[t]] = saved[t]]
  /\ lock' = [lock EXCEPT ![Key(t)] = None]
  /\ Goto(t, "record")
  /\ UNCHANGED <<original, results, call, locals, patched, overlap>>

Record(t) ==
  /\ pc[t] = "record"
  /\ results' = [results EXCEPT ![Key(t)] = verdict[t]]
  /\ Leave(t)
  /\ UNCHANGED <<code, original, lock, patched, overlap>>

ShadowStep(t) ==
  \/ Lookup(t) \/ Acquire(t) \/ ReadCurrent(t) \/ SwapIn(t) \/ Timeout(t)
  \/ Restore(t) \/ Record(t)
  \/ \E v \in Verdicts : ShadowEnds(t, v)

Next ==
  \E t \in Threads :
    \/ \E f \in Funcs : Call(t, f)
    \/ Return(t) \/ Crash(t) \/ Patch(t) \/ GiveUp(t)
    \/ ShadowStep(t) \/ LeavePool(t)

Spec == Init /\ [][Next]_vars

(* Nothing is assumed of the original code: it may never come back. *)
FairSpec == Spec /\ \A t \in Threads : WF_vars(ShadowStep(t))

----------------------------------------------------------------------------
(* Properties that hold.                                                   *)

(* A function that has been patched carries unpatched code only while some *)
(* thread shadows it ("two threads shadow-executing the same function      *)
(* don't corrupt __code__").                                               *)
SourceOnlyInShadow ==
  \A f \in Funcs :
    patched[f] > 0 /\ code[f][2] = 0 => \E t \in Threads : func[t] = f /\ pc[t] \in Swapped

(* While no patch falls into a swap, shadowing leaves no trace: afterwards *)
(* the function carries its latest patch.                                  *)
SwapLeavesNoTrace ==
  \A f \in Funcs :
    \/ f \in overlap \/ code[f] = <<f, patched[f]>>
    \/ \E t \in Threads : func[t] = f /\ pc[t] \in Swapped

(* Properties that do not hold.                                            *)

(* "The patch prevents recurrence on subsequent calls": a function called  *)
(* after it was patched runs patched code.                                 *)
CallersGuarded ==
  \A t \in Threads : pc[t] = "running" /\ called[t] > 0 => run[t][2] > 0

(* The latest patch stays in place when nobody shadows the function. *)
LatestPatchStays ==
  \A f \in Funcs : code[f] = <<f, patched[f]>> \/ \E t \in Threads : func[t] = f /\ pc[t] \in Swapped

(* What runs in the shadow of a function is its own original code. *)
OwnOriginal == \A t \in Threads : shadow[t] # None => shadow[t] = Source(func[t])

(* The time-out bounds the time that a call waits for its shadow. *)
ShadowsEnd == \A t \in Threads : pc[t] = "swapped" ~> pc[t] = "idle"
=============================================================================
