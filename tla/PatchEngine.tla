---------------------------- MODULE PatchEngine ----------------------------
(***************************************************************************)
(* The healing pipeline of CodeSutureTracer (codesuture/tracer.py): what   *)
(* _handle_exception does, in the threads of one process, between the      *)
(* moment a frame raises and the moment the exception leaves the thread.   *)
(*                                                                         *)
(* The unit of atomicity is a block under _patch_lock or _state_lock, or   *)
(* one access to state that no lock protects.  _state_lock is only ever    *)
(* taken for such a block, so it needs no variable; _patch_lock is held    *)
(* over the nested rewind/fallback region and is the variable patchLock.   *)
(*                                                                         *)
(* Python objects are identified by their address (id()), as in the code:  *)
(* `heap' gives the code object found at an address, an address is reused  *)
(* once nothing refers to the object that was there, and so is the address *)
(* of an exception object when RecycleIds holds.                           *)
(*                                                                         *)
(* Functions may share their names: the backups are kept under co_filename *)
(* and co_name, a rollback looks for a co_name, and the file in the store  *)
(* is named by module and qualified name.                                  *)
(***************************************************************************)
EXTENDS Naturals, Sequences, FiniteSets

CONSTANTS
  Threads,       (* threads of the process                                 *)
  Funcs,         (* patchable functions                                    *)
  Names, Name,   (* texts; the co_name of a function's code                *)
  Sources, Source,  (* files; the co_filename of a function's code         *)
  Files, File,   (* names in the store; that of a function                 *)
  Removes,       (* [Names -> SUBSET Files]: what a rollback removes       *)
  Crashes,       (* crash kinds: instruction, exception type, window       *)
  Sigs,          (* (var_name, key_name, strategy, exc type) signatures    *)
  Codes, Excs,   (* addresses of code objects and of exception objects     *)
  None,          (* the absence of any of them                             *)
  At, Fix, Sig,  (* of a crash kind: the function whose frame raises, the  *)
                 (* one analyze_exception wants patched (a property getter *)
                 (* when it is not At), the signature of its PatchSpec     *)
  NoSpec,        (* kinds analyze_exception has no rule for                *)
  Rejected,      (* kinds whose patch the validators refuse                *)
  Ineffective,   (* kinds whose guard does not stop the crash              *)
  Uninvokable,   (* generators, coroutines, __init__: never rewound        *)
  Healed,        (* kinds whose heal key a persisted patch registered      *)
  PriorRegistry, (* kinds fingerprinted by an earlier process              *)
  Pristine,      (* [Funcs -> Codes]: the code objects of the source       *)
  Socketed,      (* functions whose frames have a `self' with a socket     *)
  RewindWorks,   (* possible results of rewind_frame_to_start              *)
  SaveWorks,     (* FALSE in it: save_patch may raise                      *)
  MaxRetries, DryRun,                       (* --retries, --dry-run        *)
  RecycleIds,    (* an exception may reuse the address of a dead one       *)
  RollbackAnytime,  (* FALSE: rollbacks only while no thread is healing    *)
  MaxRaises, MaxDepth, MaxRollbacks                      (* bounds         *)

ASSUME PatchEngineAssumption ==
  /\ At \in [Crashes -> Funcs] /\ Fix \in [Crashes -> Funcs]
  /\ Sig \in [Crashes -> Sigs]
  /\ Name \in [Funcs -> Names] /\ Source \in [Funcs -> Sources]
  /\ File \in [Funcs -> Files] /\ Removes \in [Names -> SUBSET Files]
  /\ Pristine \in [Funcs -> Codes]
  /\ \A f, g \in Funcs : Pristine[f] = Pristine[g] => f = g
  /\ None \notin Threads \cup Funcs \cup Names \cup Crashes \cup Codes \cup Excs
  /\ "absent" \notin Funcs \cup {None}
  /\ RewindWorks \subseteq BOOLEAN /\ RewindWorks # {}
  /\ SaveWorks \subseteq BOOLEAN
  /\ DryRun \in BOOLEAN /\ RecycleIds \in BOOLEAN /\ RollbackAnytime \in BOOLEAN
  /\ MaxRetries \in Nat /\ MaxRaises \in Nat
  /\ MaxDepth \in Nat /\ MaxRollbacks \in Nat
  /\ PriorRegistry \subseteq Crashes

(* Python's None is no code object. *)
ASSUME NoneIsNoCode == \A f \in Funcs, s \in SUBSET Sigs : None # [fn |-> f, guards |-> s]

VARIABLES
  heap,        (* the code object at an address: whose body, which guards  *)
  fcode,       (* func.__code__ of every function                          *)
  originals,   (* _ORIGINAL_CODES, keyed co_filename:co_name               *)
  attempts,    (* self.attempts, keyed (id(f_code), f_lasti)               *)
  sigs,        (* self.patched_signatures: target_func of the spec kept    *)
  registry,    (* .codesuture_fingerprints: the kinds on record            *)
  store,       (* .codesuture_store: the code a file gives a restart, None *)
               (* also when its .code and .json do not match               *)
  handled, rewound,         (* _handled_exc_ids, _rewound_exc_ids          *)
  patched,                  (* stats["patched"]                            *)
  patchLock,                (* owner of _patch_lock                        *)
  admin,                    (* name being rolled back, between the steps   *)
  pc, stack,                (* of a thread: control, application frames    *)
  exc, crash,               (* the exception in flight, its kind here      *)
  spec, func, old, new,     (* locals of _handle_exception                 *)
  raises, rollbacks, seen,  (* bounds; exception addresses used so far     *)
  unsaved,                  (* history: files whose last save_patch raised *)
  applied,                  (* history: patches counted, per crash kind    *)
  mine,                     (* history: the exception in flight counted    *)
  sent                      (* history: fallbacks written for it           *)

code_vars == <<heap, fcode, originals>>
know_vars == <<attempts, sigs, registry, store, unsaved>>
exc_vars  == <<handled, rewound, patched, applied, mine, sent>>
locals    == <<spec, func, old, new>>
flight    == <<stack, exc, crash>>
bounds    == <<raises, rollbacks, seen>>
vars == <<code_vars, know_vars, exc_vars, locals, flight, bounds,
          patchLock, admin, pc>>

Code   == [fn : Funcs, guards : SUBSET Sigs]
Frame  == [fn : Funcs, code : Codes]     (* fn: the function that was called *)
Keys   == Sources \X Names
Target == Funcs \cup {None}       (* None: the function of the crashed frame *)
Specs  == [target : Target, cached : BOOLEAN, reuse : BOOLEAN]
NoSpecYet == [target |-> None, cached |-> FALSE, reuse |-> FALSE]
PCs == {"run", "check", "analyze", "attempt", "reuse", "resolve", "backup",
        "synth", "persist", "replace", "save", "publish", "count", "repin",
        "rewind", "fallback", "again", "unwind", "hook"}

TypeOK ==
  /\ heap \in [Codes -> Code \cup {None}] /\ fcode \in [Funcs -> Codes]
  /\ originals \in [Keys -> Codes \cup {None}]
  /\ attempts \in [Codes \X Crashes -> 0 .. MaxRetries]
  /\ sigs \in [Sigs -> Target \cup {"absent"}]
  /\ registry \subseteq Crashes
  /\ store \in [Files -> Code \cup {None}] /\ unsaved \subseteq Files
  /\ handled \subseteq Excs /\ rewound \subseteq Excs /\ patched \in Nat
  /\ patchLock \in Threads \cup {None} /\ admin \in Names \cup {None}
  /\ pc \in [Threads -> PCs] /\ stack \in [Threads -> Seq(Frame)]
  /\ exc \in [Threads -> Excs \cup {None}]
  /\ crash \in [Threads -> Crashes \cup {None}]
  /\ spec \in [Threads -> Specs] /\ func \in [Threads -> Target]
  /\ old \in [Threads -> Codes \cup {None}]
  /\ new \in [Threads -> Codes \cup {None}]
  /\ raises \in 0 .. MaxRaises /\ rollbacks \in 0 .. MaxRollbacks
  /\ seen \subseteq Excs /\ applied \in [Crashes -> Nat]
  /\ mine \in [Threads -> BOOLEAN] /\ sent \in [Threads -> Nat]

Init ==
  /\ heap = [c \in Codes |->
               IF \E f \in Funcs : Pristine[f] = c
               THEN [fn |-> CHOOSE f \in Funcs : Pristine[f] = c, guards |-> {}]
               ELSE None]
  /\ fcode = Pristine
  /\ originals = [k \in Keys |-> None]
  /\ attempts = [k \in Codes \X Crashes |-> 0]
  /\ sigs = [s \in Sigs |-> "absent"]
  /\ registry = PriorRegistry
  /\ store = [l \in Files |-> None] /\ unsaved = {}
  /\ handled = {} /\ rewound = {} /\ patched = 0
  /\ patchLock = None /\ admin = None
  /\ pc = [t \in Threads |-> "run"] /\ stack = [t \in Threads |-> <<>>]
  /\ exc = [t \in Threads |-> None] /\ crash = [t \in Threads |-> None]
  /\ spec = [t \in Threads |-> NoSpecYet] /\ func = [t \in Threads |-> None]
  /\ old = [t \in Threads |-> None] /\ new = [t \in Threads |-> None]
  /\ raises = 0 /\ rollbacks = 0 /\ seen = {}
  /\ applied = [c \in Crashes |-> 0]
  /\ mine = [t \in Threads |-> FALSE] /\ sent = [t \in Threads |-> 0]

----------------------------------------------------------------------------
(* Helpers.                                                                *)

Top(t) == Head(stack[t])
Goto(t, p) == pc' = [pc EXCEPT ![t] = p]

(* The handler returns: its locals die and the exception goes on. *)
Leave(t) ==
  /\ Goto(t, "unwind")
  /\ spec' = [spec EXCEPT ![t] = NoSpecYet]
  /\ func' = [func EXCEPT ![t] = None]
  /\ old' = [old EXCEPT ![t] = None]
  /\ new' = [new EXCEPT ![t] = None]

(* The function a frame's code was written for: not always the one that    *)
(* was called, as a rollback may mix up functions of one name.             *)
Body(fr) == heap[fr.code].fn

(* "{co_filename}:{co_name}" of the code of f. *)
Key(f) == <<Source[f], Name[f]>>

(* What get_function_from_frame may find: a function whose __code__ is     *)
(* still the code object the frame runs.                                   *)
FunctionsOf(fr) ==
  LET holders == {f \in Funcs : fcode[f] = fr.code}
  IN  IF holders = {} THEN {None} ELSE holders

(* Code objects something refers to; any other address may be reused.      *)
LiveCodes ==
  {Pristine[f] : f \in Funcs} \cup {fcode[f] : f \in Funcs}
    \cup {originals[k] : k \in Keys}
    \cup (UNION {{stack[t][i].code : i \in 1 .. Len(stack[t])} : t \in Threads})
    \cup {old[t] : t \in Threads} \cup {new[t] : t \in Threads}

(* A guard stops its crash when it is in the code that has to hold it: the *)
(* code the frame runs, or the getter's at the time of the call.           *)
Guarded(c, fr) ==
  /\ c \notin Ineffective
  /\ Sig[c] \in IF Fix[c] = At[c] THEN heap[fr.code].guards
                                  ELSE heap[fcode[Fix[c]]].guards

----------------------------------------------------------------------------
(* The application: calls, returns, raises.                                *)

Call(t, f) ==
  /\ pc[t] = "run" /\ Len(stack[t]) < MaxDepth
  /\ stack' = [stack EXCEPT ![t] = <<[fn |-> f, code |-> fcode[f]]>> \o @]
  /\ UNCHANGED <<code_vars, know_vars, exc_vars, locals, exc, crash, bounds,
                 patchLock, admin, pc>>

Return(t) ==
  /\ pc[t] = "run" /\ stack[t] # <<>>
  /\ stack' = [stack EXCEPT ![t] = Tail(@)]
  /\ UNCHANGED <<code_vars, know_vars, exc_vars, locals, exc, crash, bounds,
                 patchLock, admin, pc>>

(* A frame raises: the tracer is called with event 'exception' (or the     *)
(* RAISE callback of sys.monitoring).                                      *)
Raise(t, c, e) ==
  /\ pc[t] = "run" /\ stack[t] # <<>> /\ raises < MaxRaises
  /\ At[c] = Body(Top(t)) /\ ~Guarded(c, Top(t))
  /\ \A u \in Threads : exc[u] # e
  /\ RecycleIds \/ e \notin seen
  /\ RollbackAnytime \/ admin = None
  /\ exc' = [exc EXCEPT ![t] = e] /\ crash' = [crash EXCEPT ![t] = c]
  /\ raises' = raises + 1 /\ seen' = seen \cup {e}
  /\ mine' = [mine EXCEPT ![t] = FALSE] /\ sent' = [sent EXCEPT ![t] = 0]
  /\ Goto(t, "check")
  /\ UNCHANGED <<code_vars, know_vars, handled, rewound, patched, applied,
                 locals, stack, rollbacks, patchLock, admin>>

----------------------------------------------------------------------------
(* _handle_exception.                                                      *)

(* A crash a persisted patch is registered for, or an exception whose id() *)
(* is in _handled_exc_ids, is let go.                                      *)
CheckHandled(t) ==
  /\ pc[t] = "check"
  /\ IF \/ crash[t] \in Healed /\ FunctionsOf(Top(t)) # {None}
        \/ exc[t] \in handled
     THEN Goto(t, "unwind") ELSE Goto(t, "analyze")
  /\ UNCHANGED <<code_vars, know_vars, exc_vars, locals, flight, bounds,
                 patchLock, admin>>

(* The fingerprint registry comes first; its entries keep the strategy and *)
(* the target's name and not target_func.                                  *)
Analyze(t) ==
  /\ pc[t] = "analyze"
  /\ \/ /\ crash[t] \in registry
        /\ spec' = [spec EXCEPT ![t] = [NoSpecYet EXCEPT !.cached = TRUE]]
        /\ Goto(t, "attempt")
     \/ /\ crash[t] \notin registry \cup NoSpec
        /\ spec' = [spec EXCEPT ![t].target =
                      IF Fix[crash[t]] = At[crash[t]] THEN None ELSE Fix[crash[t]]]
        /\ Goto(t, "attempt")
     \/ /\ crash[t] \in NoSpec \ registry
        /\ Goto(t, "unwind") /\ UNCHANGED spec
  /\ UNCHANGED <<code_vars, know_vars, exc_vars, func, old, new, flight, bounds,
                 patchLock, admin>>

(* Variant of the definition below, with a mistake in it. *)
AttemptOffByOne(t) ==
  LET key == <<Top(t).code, crash[t]>> IN
  /\ pc[t] = "attempt"
  /\ IF attempts[key] > MaxRetries
     THEN Leave(t) /\ UNCHANGED attempts
     ELSE attempts' = [attempts EXCEPT ![key] = @ + 1]
            /\ Goto(t, "reuse") /\ UNCHANGED locals
  /\ UNCHANGED <<code_vars, sigs, registry, store, unsaved, exc_vars, flight,
                 bounds, patchLock, admin>>

(* The retry limit per crash site, and the dry run. *)
Attempt(t) ==
  LET key == <<Top(t).code, crash[t]>> IN
  /\ pc[t] = "attempt"
  /\ IF attempts[key] >= MaxRetries
     THEN Leave(t) /\ UNCHANGED attempts
     ELSE /\ attempts' = [attempts EXCEPT ![key] = @ + 1]
          /\ IF DryRun THEN Leave(t)
                       ELSE Goto(t, "reuse") /\ UNCHANGED locals
  /\ UNCHANGED <<code_vars, sigs, registry, store, unsaved, exc_vars, flight,
                 bounds, patchLock, admin>>

(* A known signature replaces the whole spec, target_func included.        *)
Reuse(t) ==
  LET known == sigs[Sig[crash[t]]] IN
  /\ pc[t] = "reuse"
  /\ spec' = IF known = "absent" THEN spec
             ELSE [spec EXCEPT ![t].target = known, ![t].reuse = TRUE]
  /\ Goto(t, "resolve")
  /\ UNCHANGED <<code_vars, know_vars, exc_vars, func, old, new, flight, bounds,
                 patchLock, admin>>

(* Variant of the definition below, with a mistake in it. *)
ResolveWithoutTest(t) ==
  /\ pc[t] = "resolve"
  /\ \E f \in FunctionsOf(Top(t)) :
       /\ func' = [func EXCEPT ![t] = f]
       /\ old' = [old EXCEPT ![t] = Top(t).code]
       /\ Goto(t, IF f # None THEN "backup" ELSE "synth")
  /\ UNCHANGED <<code_vars, know_vars, exc_vars, spec, new, flight, bounds,
                 patchLock, admin>>

(* The function to patch and the code to start from; the test that         *)
(* _ORIGINAL_CODES has no entry under the names of the frame's code.       *)
Resolve(t) ==
  LET target == spec[t].target IN
  /\ pc[t] = "resolve"
  /\ \E f \in IF target # None THEN {target} ELSE FunctionsOf(Top(t)) :
       /\ func' = [func EXCEPT ![t] = f]
       /\ old' = [old EXCEPT ![t] = IF target # None THEN fcode[f] ELSE Top(t).code]
       /\ Goto(t, IF f # None /\ originals[Key(Body(Top(t)))] = None
                  THEN "backup" ELSE "synth")
  /\ UNCHANGED <<code_vars, know_vars, exc_vars, spec, new, flight, bounds,
                 patchLock, admin>>

(* The entry is keyed by the crashed frame and holds the __code__ the      *)
(* function to patch has now.                                              *)
Backup(t) ==
  /\ pc[t] = "backup"
  /\ originals' = [originals EXCEPT ![Key(Body(Top(t)))] = fcode[func[t]]]
  /\ Goto(t, "synth")
  /\ UNCHANGED <<heap, fcode, know_vars, exc_vars, locals, flight, bounds,
                 patchLock, admin>>

(* Variant of the definition below, with a mistake in it. *)
SynthFromSource(t) ==
  /\ pc[t] = "synth"
  /\ \E c \in Codes \ LiveCodes :
       /\ heap' = [heap EXCEPT ![c] =
                     [fn |-> Top(t).fn, guards |-> {Sig[crash[t]]}]]
       /\ new' = [new EXCEPT ![t] = c]
  /\ Goto(t, "persist")
  /\ UNCHANGED <<spec, func, old, fcode, originals, know_vars, exc_vars, flight,
                 bounds, patchLock, admin>>

(* synthesize_guarded_code: a new code object, or a refusal.               *)
Synth(t) ==
  /\ pc[t] = "synth"
  /\ IF crash[t] \in Rejected THEN Leave(t) /\ UNCHANGED heap
     ELSE \E c \in Codes \ LiveCodes :
            /\ heap' = [heap EXCEPT ![c] =
                          [heap[old[t]] EXCEPT !.guards = @ \cup {Sig[crash[t]]}]]
            /\ new' = [new EXCEPT ![t] = c]
            /\ Goto(t, "persist")
            /\ UNCHANGED <<spec, func, old>>
  /\ UNCHANGED <<fcode, originals, know_vars, exc_vars, flight, bounds,
                 patchLock, admin>>

(* _persist_patch: every live function that still has the old code.        *)
Persist(t) ==
  /\ pc[t] = "persist"
  /\ fcode' = [g \in Funcs |-> IF fcode[g] = old[t] THEN new[t] ELSE fcode[g]]
  /\ Goto(t, "replace")
  /\ UNCHANGED <<heap, originals, know_vars, exc_vars, locals, flight, bounds,
                 patchLock, admin>>

(* replace_function_code: the function, whatever its code is by now, and   *)
(* every other one that shares that code.                                  *)
Replace(t) ==
  /\ pc[t] = "replace"
  /\ fcode' = IF func[t] = None THEN fcode
              ELSE [g \in Funcs |-> IF fcode[g] = fcode[func[t]] THEN new[t]
                                                                 ELSE fcode[g]]
  /\ Goto(t, "save")
  /\ UNCHANGED <<heap, originals, know_vars, exc_vars, locals, flight, bounds,
                 patchLock, admin>>

(* save_patch has written both files of f. *)
Saved(f, code) ==
  /\ store' = [store EXCEPT ![File[f]] = code]
  /\ unsaved' = unsaved \ {File[f]}

(* save_patch raises before it writes anything, or between or in one of    *)
(* its two files, which then do not match.                                 *)
NotSaved(f) ==
  /\ \/ UNCHANGED store
     \/ store' = [store EXCEPT ![File[f]] = None]
  /\ unsaved' = unsaved \cup {File[f]}

(* Variant of the definition below, with a mistake in it. *)
SaveOldCode(t) ==
  /\ pc[t] = "save" /\ patchLock = None
  /\ IF func[t] = None THEN UNCHANGED <<store, unsaved>>
                       ELSE Saved(func[t], heap[old[t]])
  /\ Goto(t, "publish")
  /\ UNCHANGED <<code_vars, attempts, sigs, registry, exc_vars, locals, flight,
                 bounds, patchLock, admin>>

(* The assertion on a target_func, then save_patch under _patch_lock.  An  *)
(* exception of either ends the handler; the swap is not undone.           *)
Save(t) ==
  LET mismatch == spec[t].target # None /\ fcode[func[t]] # new[t] IN
  /\ pc[t] = "save" /\ patchLock = None
  /\ \/ /\ mismatch
        /\ Leave(t) /\ UNCHANGED <<store, unsaved>>
     \/ /\ ~mismatch /\ func[t] = None
        /\ Goto(t, "publish") /\ UNCHANGED <<locals, store, unsaved>>
     \/ /\ ~mismatch /\ func[t] # None
        /\ Saved(func[t], heap[new[t]])
        /\ Goto(t, "publish") /\ UNCHANGED locals
     \/ /\ ~mismatch /\ func[t] # None /\ FALSE \in SaveWorks
        /\ NotSaved(func[t])
        /\ Leave(t)
  /\ UNCHANGED <<code_vars, attempts, sigs, registry, exc_vars, flight, bounds,
                 patchLock, admin>>

(* Variant of the definition below, with a mistake in it. *)
PublishReusedOnly(t) ==
  /\ pc[t] = "publish" /\ patchLock = None
  /\ sigs' = [sigs EXCEPT ![Sig[crash[t]]] = spec[t].target]
  /\ registry' = IF spec[t].reuse THEN registry \cup {crash[t]} ELSE registry
  /\ Goto(t, "count")
  /\ UNCHANGED <<code_vars, attempts, store, unsaved, exc_vars, locals, flight,
                 bounds, patchLock, admin>>

(* The signature and the fingerprint, under _patch_lock.                   *)
Publish(t) ==
  /\ pc[t] = "publish" /\ patchLock = None
  /\ sigs' = IF spec[t].reuse THEN sigs
             ELSE [sigs EXCEPT ![Sig[crash[t]]] = spec[t].target]
  /\ registry' = IF spec[t].cached THEN registry ELSE registry \cup {crash[t]}
  /\ Goto(t, "count")
  /\ UNCHANGED <<code_vars, attempts, store, unsaved, exc_vars, locals, flight,
                 bounds, patchLock, admin>>

(* Variant of the definition below, with a mistake in it. *)
CountUnmarked(t) ==
  /\ pc[t] = "count"
  /\ patched' = patched + 1
  /\ applied' = [applied EXCEPT ![crash[t]] = @ + 1]
  /\ mine' = [mine EXCEPT ![t] = TRUE]
  /\ IF func[t] = None \/ func[t] \in Uninvokable
     THEN Leave(t) ELSE Goto(t, "repin") /\ UNCHANGED locals
  /\ UNCHANGED <<code_vars, know_vars, handled, rewound, sent, flight, bounds,
                 patchLock, admin>>

(* The patch is counted and the exception marked, under _state_lock.       *)
Count(t) ==
  /\ pc[t] = "count"
  /\ patched' = patched + 1 /\ handled' = handled \cup {exc[t]}
  /\ applied' = [applied EXCEPT ![crash[t]] = @ + 1]
  /\ mine' = [mine EXCEPT ![t] = TRUE]
  /\ IF func[t] = None \/ func[t] \in Uninvokable
     THEN Leave(t) ELSE Goto(t, "repin") /\ UNCHANGED locals
  /\ UNCHANGED <<code_vars, know_vars, rewound, sent, flight, bounds,
                 patchLock, admin>>

(* Variant of the definition below, with a mistake in it. *)
RepinOldCode(t) ==
  /\ pc[t] = "repin" /\ patchLock = None
  /\ fcode' = [fcode EXCEPT ![func[t]] = old[t]]
  /\ Goto(t, "rewind")
  /\ UNCHANGED <<heap, originals, know_vars, exc_vars, locals, flight, bounds,
                 patchLock, admin>>

(* The swap is made once more, under _patch_lock.                          *)
Repin(t) ==
  /\ pc[t] = "repin" /\ patchLock = None
  /\ fcode' = [fcode EXCEPT ![func[t]] = new[t]]
  /\ Goto(t, "rewind")
  /\ UNCHANGED <<heap, originals, know_vars, exc_vars, locals, flight, bounds,
                 patchLock, admin>>

(* rewind_frame_to_start under _patch_lock; when it fails, the transaction *)
(* fallback looks for a socket on the frame's `self'.                      *)
Rewind(t) ==
  /\ pc[t] = "rewind" /\ patchLock = None
  /\ \/ /\ TRUE \in RewindWorks
        /\ handled' = handled \cup {exc[t]} /\ rewound' = rewound \cup {exc[t]}
        /\ Leave(t) /\ UNCHANGED patchLock
     \/ /\ FALSE \in RewindWorks
        /\ IF Top(t).fn \in Socketed
           THEN Goto(t, "fallback") /\ patchLock' = t /\ UNCHANGED locals
           ELSE Leave(t) /\ UNCHANGED patchLock
        /\ UNCHANGED <<handled, rewound>>
  /\ UNCHANGED <<code_vars, know_vars, patched, applied, mine, sent, flight,
                 bounds, admin>>

(* _try_transaction_fallback writes a 500, notes the exception as rewound  *)
(* and raises _CodeSutureFallbackSuppression; the surrounding `except      *)
(* Exception' catches it and runs the fallback a second time.              *)
Fallback(t) ==
  /\ pc[t] = "fallback"
  /\ \/ /\ sent' = [sent EXCEPT ![t] = @ + 1]
        /\ rewound' = rewound \cup {exc[t]}
        /\ Goto(t, "again") /\ UNCHANGED <<patchLock, locals>>
     \/ (* sendall fails *)
        Leave(t) /\ patchLock' = None /\ UNCHANGED <<sent, rewound>>
  /\ UNCHANGED <<code_vars, know_vars, handled, patched, applied, mine, flight,
                 bounds, admin>>

(* Variant of the definition below, with a mistake in it. *)
FallbackKeepsLock(t) ==
  /\ pc[t] = "again"
  /\ sent' = [sent EXCEPT ![t] = @ + 1] /\ rewound' = rewound \cup {exc[t]}
  /\ Leave(t)
  /\ UNCHANGED <<code_vars, know_vars, handled, patched, applied, mine, flight,
                 bounds, patchLock, admin>>

(* The second signal leaves the lock and ends in the handler's own         *)
(* `except Exception', which logs a failure and returns.                   *)
FallbackAgain(t) ==
  /\ pc[t] = "again"
  /\ \/ /\ sent' = [sent EXCEPT ![t] = @ + 1]
        /\ rewound' = rewound \cup {exc[t]}
     \/ UNCHANGED <<sent, rewound>>
  /\ Leave(t) /\ patchLock' = None
  /\ UNCHANGED <<code_vars, know_vars, handled, patched, applied, mine, flight,
                 bounds, admin>>

----------------------------------------------------------------------------
(* The exception leaves the frame.  It may be caught there, reach the      *)
(* caller's frame, where the tracer is called again, or end the thread.    *)

ForgetException(t) ==
  exc' = [exc EXCEPT ![t] = None] /\ crash' = [crash EXCEPT ![t] = None]

Catch(t) ==
  /\ pc[t] = "unwind"
  /\ ForgetException(t) /\ Goto(t, "run")
  /\ UNCHANGED <<code_vars, know_vars, exc_vars, locals, stack, bounds,
                 patchLock, admin>>

Propagate(t, c) ==
  /\ pc[t] = "unwind" /\ Len(stack[t]) > 1
  /\ At[c] = Body(stack[t][2]) /\ ~Guarded(c, stack[t][2])
  /\ stack' = [stack EXCEPT ![t] = Tail(@)]
  /\ crash' = [crash EXCEPT ![t] = c]
  /\ Goto(t, "check")
  /\ UNCHANGED <<code_vars, know_vars, exc_vars, locals, exc, bounds,
                 patchLock, admin>>

(* The caller's frame gives analyze_exception nothing to go by. *)
PassBy(t) ==
  /\ pc[t] = "unwind" /\ Len(stack[t]) > 1
  /\ stack' = [stack EXCEPT ![t] = Tail(@)]
  /\ UNCHANGED <<code_vars, know_vars, exc_vars, locals, exc, crash, bounds,
                 patchLock, admin, pc>>

Uncaught(t) ==
  /\ pc[t] = "unwind" /\ Len(stack[t]) = 1
  /\ stack' = [stack EXCEPT ![t] = <<>>]
  /\ Goto(t, "hook")
  /\ UNCHANGED <<code_vars, know_vars, exc_vars, locals, exc, crash, bounds,
                 patchLock, admin>>

(* _codesuture_excepthook: an exception in both sets is announced as       *)
(* self-healed, any other one goes to the original hook.                   *)
Swallowed(t) == pc[t] = "hook" /\ exc[t] \in handled \cap rewound

ExceptHook(t) ==
  /\ pc[t] = "hook"
  /\ ForgetException(t) /\ Goto(t, "run")
  /\ UNCHANGED <<code_vars, know_vars, exc_vars, locals, stack, bounds,
                 patchLock, admin>>

----------------------------------------------------------------------------
(* rollback_function, called in the process itself.                        *)

Quiet == \A t \in Threads : pc[t] = "run"

(* Variant of the definition below, with a mistake in it. *)
RollbackAnyFunction(n) ==
  /\ admin = None /\ rollbacks < MaxRollbacks
  /\ RollbackAnytime \/ Quiet
  /\ \E k \in Keys, g \in Funcs :
       /\ k[2] = n /\ originals[k] # None
       /\ fcode' = [fcode EXCEPT ![g] = originals[k]]
       /\ originals' = [originals EXCEPT ![k] = None]
  /\ admin' = n /\ rollbacks' = rollbacks + 1
  /\ UNCHANGED <<heap, know_vars, exc_vars, locals, flight, raises, seen,
                 patchLock, pc>>

(* rollback_runtime, given a name: a function whose code carries it gets   *)
(* the code backed up under it, for whichever function that was, and the   *)
(* backup is dropped.  A function that has this code already may be passed *)
(* over.  A text that is no co_name (a qualified name) finds no backup.    *)
RollbackRuntime(n) ==
  LET named == {g \in Funcs : Name[heap[fcode[g]].fn] = n}
      kept  == {k \in Keys : k[2] = n /\ originals[k] # None} IN
  /\ admin = None /\ rollbacks < MaxRollbacks
  /\ RollbackAnytime \/ Quiet
  /\ \/ \E k \in kept, g \in named :
          /\ fcode' = [fcode EXCEPT ![g] = originals[k]]
          /\ originals' = [originals EXCEPT ![k] = None]
     \/ /\ \A k \in kept, g \in named : fcode[g] = originals[k]
        /\ UNCHANGED <<fcode, originals>>
  /\ admin' = n /\ rollbacks' = rollbacks + 1
  /\ UNCHANGED <<heap, know_vars, exc_vars, locals, flight, raises, seen,
                 patchLock, pc>>

(* rollback_function: the files in the store that match the name, whoever  *)
(* they belong to, are removed.                                            *)
RollbackStore ==
  /\ admin # None
  /\ store' = [l \in Files |-> IF l \in Removes[admin] THEN None ELSE store[l]]
  /\ unsaved' = unsaved \ Removes[admin]
  /\ admin' = None
  /\ UNCHANGED <<code_vars, attempts, sigs, registry, exc_vars, locals, flight,
                 bounds, patchLock, pc>>

----------------------------------------------------------------------------
Handle(t) ==
  \/ CheckHandled(t) \/ Analyze(t) \/ Attempt(t) \/ Reuse(t) \/ Resolve(t)
  \/ Backup(t) \/ Synth(t) \/ Persist(t) \/ Replace(t) \/ Save(t) \/ Publish(t)
  \/ Count(t) \/ Repin(t) \/ Rewind(t) \/ Fallback(t) \/ FallbackAgain(t)

Leaving(t) == \/ Catch(t) \/ PassBy(t) \/ Uncaught(t) \/ ExceptHook(t)
              \/ \E c \in Crashes : Propagate(t, c)

Next ==
  \/ \E t \in Threads :
       \/ \E f \in Funcs : Call(t, f)
       \/ Return(t)
       \/ \E c \in Crashes, e \in Excs : Raise(t, c, e)
       \/ Handle(t)
       \/ Leaving(t)
  \/ \E n \in Names : RollbackRuntime(n)
  \/ RollbackStore

Spec == Init /\ [][Next]_vars

(* A thread that is inside the handler keeps running.                      *)
FairSpec == Spec /\ \A t \in Threads : WF_vars(Handle(t)) /\ WF_vars(Leaving(t))

----------------------------------------------------------------------------
(* Properties.                                                             *)

(* The threads inside the handler that work on function f. *)
Busy(f) == \E t \in Threads : pc[t] \notin {"run", "unwind", "hook"}
                                /\ (func[t] = f \/ Top(t).fn = f)

(* No two handlers hold the same function to patch: what some of the        *)
(* properties below need and the code does not see to, as _patch_lock is    *)
(* released between the steps of a handler.                                 *)
PatchedApart == \A t, u \in Threads : t # u /\ func[t] # None => func[u] # func[t]

(* No other function has the co_name of f or its file in the store, and     *)
(* the texts that make a rollback remove this file are this co_name only.   *)
OwnName(f) ==
  /\ \A g \in Funcs \ {f} : Name[g] # Name[f] /\ File[g] # File[f]
  /\ \A n \in Names : File[f] \in Removes[n] <=> n = Name[f]

(* Whatever addresses are reused and whoever patches or rolls back, a      *)
(* function runs a body that carries its name, which is its own when no    *)
(* other function has the name; so is the code in a file of its own.       *)
OwnBody ==
  \A f \in Funcs :
    /\ Name[heap[fcode[f]].fn] = Name[f]
    /\ OwnName(f) /\ store[File[f]] # None => store[File[f]].fn = f

(* What OwnBody stops short of: every function runs its own body, and its  *)
(* file holds its own body.                                                *)
EveryBodyOwn ==
  \A f \in Funcs :
    /\ heap[fcode[f]].fn = f
    /\ store[File[f]] # None => store[File[f]].fn = f

(* Once the handlers that touch f are through, a crash of f whose patch    *)
(* was counted is guarded in the code the next call will run: "the patch   *)
(* prevents recurrence on subsequent calls".                               *)
GuardLive ==
  \A c \in Crashes :
    applied[c] > 0 /\ ~Busy(At[c]) /\ ~Busy(Fix[c])
      => Sig[c] \in heap[fcode[Fix[c]]].guards

(* An exception whose patch was counted is not patched again on its way up *)
(* the stack, although the tracer is called in every frame it leaves.      *)
CountedOnce == \A t \in Threads : pc[t] = "persist" => ~mine[t]

(* A counted patch can be repeated without a new analysis: by signature in *)
(* this process, by fingerprint in the next one.                           *)
CountedIsOnRecord ==
  \A c \in Crashes :
    applied[c] > 0 => c \in registry /\ sigs[Sig[c]] # "absent"

(* The excepthook announces as self-healed ("Guard applied, execution      *)
(* rewound successfully") only an exception a patch was counted for.       *)
SwallowOnlyPatched == \A t \in Threads : Swallowed(t) => mine[t]

(* A rollback can undo every patch of f: a backup under the names of f is  *)
(* the code f had in the source, and when f is patched there is one.       *)
Restorable(f) ==
  /\ originals[Key(f)] # None => heap[originals[Key(f)]] = [fn |-> f, guards |-> {}]
  /\ heap[fcode[f]].guards # {} => originals[Key(f)] # None

(* A function with names of its own can be restored, whoever patched it    *)
(* and in however many steps; where names are shared, not every one can.   *)
BackupPristine == \A f \in Funcs : OwnName(f) => Restorable(f)
EveryBackupPristine == \A f \in Funcs : Restorable(f)

(* While nobody heals or rolls back, the live code of a function with      *)
(* names of its own is the one the store would give it after a restart.    *)
(* Where save_patch raised after the swap, the store lags behind: it has   *)
(* no version or an older one, never a guard the live code is without.     *)
LiveMatchesStore ==
  \A f \in Funcs : OwnName(f) /\ ~Busy(f) /\ admin = None =>
    LET kept == store[File[f]] IN
    IF File[f] \in unsaved
    THEN kept # None => kept.fn = f /\ kept.guards \subseteq heap[fcode[f]].guards
    ELSE IF kept = None THEN heap[fcode[f]].guards = {} ELSE kept = heap[fcode[f]]

(* What LiveMatchesStore stops short of: nothing is live that the store    *)
(* does not have.                                                          *)
LiveIsSaved ==
  \A f \in Funcs :
    ~Busy(f) /\ admin = None /\ heap[fcode[f]].guards # {}
      => store[File[f]] = heap[fcode[f]]

(* Only a rollback takes a guard away from a function with names of its own. *)
GuardsGrow ==
  [][\A f \in Funcs : OwnName(f) /\ admin' = admin =>
       heap[fcode[f]].guards \subseteq (heap[fcode[f]].guards)']_vars

(* A crash site is patched at most MaxRetries times: "After max_retries,   *)
(* codesuture must give up and not loop forever".                          *)
RetriesBounded == \A c \in Crashes : applied[c] <= MaxRetries

(* One failed request gets one fallback response. *)
OneFallback == \A t \in Threads : sent[t] <= 1

(* An exception handed to the tracer leaves it again, and the thread goes  *)
(* back to the application, whatever the other threads do.                 *)
HandlerReturns ==
  \A t \in Threads : pc[t] = "check" ~> pc[t] = "run"
============================================================================
