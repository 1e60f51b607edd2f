------------------------------- MODULE RunLoop -------------------------------
(***************************************************************************)
(* `codesuture run' (codesuture/cli.py): the script is executed, and again *)
(* when an execution ended with an exception after something was patched;  *)
(* and `codesuture watch' (codesuture/watcher.py), which starts the former *)
(* as a child process until it ends well, shows the same exception again   *)
(* and again, or was started too often.  Patches go from one execution to  *)
(* the next, and from one child to the next, through the store: a function *)
(* takes its patch when its definition is assigned to a global name        *)
(* (CodeSutureGlobals) or its module is imported (persistence.py).         *)
(*                                                                         *)
(* A function's code is the set of bugs it has guards for.  How a crash is *)
(* handled is PatchEngine's subject, the store's files PatchStore's; here  *)
(* a patch is made at once and by one thread, and saved, not saved, or     *)
(* lost with those before it.  A script defines a function once in an      *)
(* execution.                                                              *)
(***************************************************************************)
EXTENDS Naturals, Sequences, FiniteSets

CONSTANTS
  Bugs, Funcs, FuncOf,
  Patchable,        (* bugs analyze_exception finds a guard for            *)
  Ineffective,      (* bugs whose guard does not always stop them: see     *)
                    (* GuardedCalls, and PatchEngine on reused specs       *)
  Imported,         (* functions of imported modules                       *)
  Nested,           (* functions that no global name or attribute leads to *)
  Retries,          (* --retries                                           *)
  MaxRestarts,      (* --max-restarts                                      *)
  MaxAgain,         (* bound: patches of a child for bugs that have one    *)
  NoBug

ASSUME RunLoopAssumption ==
  /\ IsFiniteSet(Bugs) /\ FuncOf \in [Bugs -> Funcs] /\ Patchable \subseteq Bugs
  /\ Imported \subseteq Funcs /\ Nested \subseteq Funcs \ Imported
  /\ Retries \in Nat /\ MaxRestarts \in Nat /\ MaxAgain \in Nat
  /\ NoBug \notin Bugs

VARIABLES
  stage,
  restarts, last, same,    (* the watcher: restarts, last_exception,       *)
                           (* same_exception_count                         *)
  run, before, patched,    (* the child: run, patched_before, the tracer's *)
                           (* stats["patched"]                             *)
  shown, code,             (* the last exception in its output, its return *)
                           (* code                                         *)
  again,                   (* the patches made for bugs that had one       *)
  defined,                 (* functions in memory                          *)
  live, stored,            (* the guards of functions, in memory and saved *)
  crashed,                 (* history: the last crash of an execution      *)
  healed, began,           (* history: bugs patched and saved so far, and  *)
                           (* when the execution began                     *)
  log                      (* history: the last children that failed, the  *)
                           (* two before the one that runs                 *)

watcher == <<restarts, last, same, log>>
child   == <<run, before, patched, shown, code, again>>
memory  == <<defined, live, stored, crashed, healed, began>>
rlvars  == <<stage, watcher, child, memory>>

Verdicts == {"clean", "unrecoverable", "exhausted"}

RLTypeOK ==
  /\ stage \in Verdicts \cup {"launch", "running", "uncaught", "exited"}
  /\ restarts \in 0 .. MaxRestarts + 1 /\ same \in 0 .. 2
  /\ {last, shown, crashed} \subseteq Bugs \cup {NoBug}
  /\ run \in 0 .. Retries /\ code \in {0, 1}
  /\ again \in 0 .. MaxAgain
  /\ before \in Nat /\ patched \in before .. (Retries + 1) * Cardinality(Bugs) + again
  /\ defined \subseteq Funcs
  /\ live \in [Funcs -> SUBSET Bugs] /\ stored \in [Funcs -> SUBSET Bugs]
  /\ healed \subseteq Bugs /\ began \subseteq Bugs
  /\ log \in Seq([exception : Bugs \cup {NoBug}, patched : BOOLEAN])

RLInit ==
  /\ stage = "launch"
  /\ restarts = 0 /\ last = NoBug /\ same = 0 /\ log = <<>>
  /\ run = 0 /\ before = 0 /\ patched = 0 /\ shown = NoBug /\ code = 0 /\ again = 0
  /\ defined = {}
  /\ live = [f \in Funcs |-> {}] /\ stored = [f \in Funcs |-> {}]
  /\ crashed = NoBug /\ healed = {} /\ began = {}

----------------------------------------------------------------------------
(* codesuture run.                                                         *)

(* The watcher starts a child. *)
Launch ==
  /\ stage = "launch" /\ restarts <= MaxRestarts
  /\ stage' = "running" /\ began' = healed
  /\ log' = IF Len(log) > 2 THEN Tail(log) ELSE log
  /\ UNCHANGED <<restarts, last, same, child, defined, live, stored, crashed, healed>>

(* A child that is gone leaves nothing but the store to the next one. *)
ChildGone ==
  /\ run' = 0 /\ before' = 0 /\ patched' = 0 /\ shown' = NoBug /\ code' = 0 /\ again' = 0
  /\ defined' = {} /\ live' = [f \in Funcs |-> {}]
  /\ crashed' = NoBug /\ began' = {}
  /\ UNCHANGED <<stored, healed>>

(* What the store has for a function that a global name, or an attribute   *)
(* of a class or module, leads to.  The patch of a nested function is      *)
(* saved, and nothing loads it.                                            *)
Loaded(f) == IF f \in Nested THEN {} ELSE stored[f]

(* The script's definition of a function: CodeSutureGlobals.__setitem__. *)
Define(f) ==
  /\ stage = "running" /\ f \notin defined \cup Imported
  /\ defined' = defined \cup {f}
  /\ live' = [live EXCEPT ![f] = Loaded(f)]
  /\ UNCHANGED <<stage, watcher, child, stored, crashed, healed, began>>

(* The first import of a module in a process: the loader is wrapped, and   *)
(* patches the module after it is executed.                                *)
Import(f) ==
  /\ stage = "running" /\ f \in Imported \ defined
  /\ defined' = defined \cup {f}
  /\ live' = [live EXCEPT ![f] = Loaded(f)]
  /\ UNCHANGED <<stage, watcher, child, stored, crashed, healed, began>>

Hits(b) ==
  /\ stage = "running" /\ FuncOf[b] \in defined
  /\ b \in live[FuncOf[b]] => b \in Ineffective
  /\ crashed' = b

(* The script catches the exception, or it ends the execution. *)
Propagates == stage' \in {"running", "uncaught"}

(* stats["patched"] grows, also by a patch the function has already. *)
Counts(b) ==
  /\ patched' = patched + 1
  /\ IF b \in live[FuncOf[b]] THEN again < MaxAgain /\ again' = again + 1 ELSE UNCHANGED again

(* Variant of the definition below, with a mistake in it. *)
PatchFromSource(b) ==
  LET f == FuncOf[b] IN
  /\ Hits(b) /\ b \in Patchable
  /\ live' = [live EXCEPT ![f] = {b}]
  /\ stored' = [stored EXCEPT ![f] = {b}]
  /\ healed' = healed \cup {b}
  /\ Counts(b) /\ shown' = b
  /\ Propagates
  /\ UNCHANGED <<watcher, run, before, code, defined, began>>

(* The guard is added to the code that crashed. *)
Patch(b) ==
  LET f == FuncOf[b] IN
  /\ Hits(b) /\ b \in Patchable
  /\ live' = [live EXCEPT ![f] = @ \cup {b}]
  /\ stored' = [stored EXCEPT ![f] = live'[f]]
  /\ healed' = healed \cup {b}
  /\ Counts(b) /\ shown' = b
  /\ Propagates
  /\ UNCHANGED <<watcher, run, before, code, defined, began>>

(* The patch is refused; or it is made and save_patch raises, before it has *)
(* touched the files or after: it is not counted, and the files may be     *)
(* left in a state nothing is loaded from.                                 *)
PatchFails(b) ==
  LET f == FuncOf[b] IN
  /\ Hits(b) /\ b \in Patchable
  /\ \/ UNCHANGED <<live, stored, healed>>
     \/ /\ live' = [live EXCEPT ![f] = @ \cup {b}]
        /\ \/ UNCHANGED <<stored, healed>>
           \/ /\ stored' = [stored EXCEPT ![f] = {}]
              /\ healed' = {c \in healed : FuncOf[c] # f}
  /\ shown' = b
  /\ Propagates
  /\ UNCHANGED <<watcher, run, before, patched, code, again, defined, began>>

(* No guard is found, or no further attempt is made. *)
Crash(b) ==
  /\ Hits(b) /\ Propagates
  /\ UNCHANGED <<watcher, child, defined, live, stored, healed, began>>

(* Variant of the definition below, with a mistake in it. *)
ReexecuteEver ==
  /\ stage = "uncaught" /\ patched > before
  /\ stage' = "running"
  /\ run' = run + 1 /\ before' = patched
  /\ defined' = defined \cap Imported
  /\ live' = [f \in Funcs |-> IF f \in defined' THEN live[f] ELSE {}]
  /\ crashed' = NoBug /\ began' = healed
  /\ UNCHANGED <<watcher, patched, shown, code, again, stored, healed>>

(* Modules stay imported; the script defines its functions anew. *)
Reexecute ==
  /\ stage = "uncaught" /\ patched > before /\ run < Retries
  /\ stage' = "running"
  /\ run' = run + 1 /\ before' = patched
  /\ defined' = defined \cap Imported
  /\ live' = [f \in Funcs |-> IF f \in defined' THEN live[f] ELSE {}]
  /\ crashed' = NoBug /\ began' = healed
  /\ UNCHANGED <<watcher, patched, shown, code, again, stored, healed>>

(* "Script exited with": the loop ends, and the process as well as ever. *)
GiveUp ==
  /\ stage = "uncaught" /\ ~(patched > before /\ run < Retries)
  /\ stage' = "exited" /\ code' = 0
  /\ UNCHANGED <<watcher, run, before, patched, shown, again, memory>>

Finish ==
  /\ stage = "running"
  /\ stage' = "exited" /\ code' = 0 /\ crashed' = NoBug
  /\ UNCHANGED <<watcher, run, before, patched, shown, again, defined, live, stored, healed,
                 began>>

(* SystemExit, os._exit or a signal: no except clause stops it.  When the  *)
(* engine has shown no exception the script may have printed its last.     *)
Exit ==
  /\ stage = "running"
  /\ stage' = "exited" /\ code' = 1
  /\ \E e \in IF shown = NoBug THEN {NoBug, crashed} ELSE {shown} : shown' = e
  /\ UNCHANGED <<watcher, run, before, patched, again, memory>>

----------------------------------------------------------------------------
(* codesuture watch.                                                       *)

(* Variant of the definition below, with a mistake in it. *)
TimeOutForgiven ==
  /\ stage \in {"running", "uncaught"}
  /\ stage' = "launch" /\ ChildGone
  /\ UNCHANGED watcher

(* The child is killed after 60 seconds. *)
TimeOut ==
  /\ stage \in {"running", "uncaught"}
  /\ stage' = "launch" /\ restarts' = restarts + 1 /\ ChildGone
  /\ UNCHANGED <<last, same, log>>

Clean ==
  /\ stage = "exited" /\ code = 0
  /\ stage' = "clean"
  /\ UNCHANGED <<watcher, child, memory>>

(* _extract_exception: the last one that the engine says it caught, or     *)
(* else the last one in the output.                                        *)
current_exception == shown

(* The exception was shown before, and this child has patched nothing. *)
Repeated == current_exception # NoBug /\ current_exception = last /\ patched = 0

(* The child failed; its output is read, and it is started again or not. *)
Judged(count) ==
  /\ stage = "exited" /\ code # 0
  /\ same' = count /\ last' = IF Repeated THEN last ELSE current_exception
  /\ log' = Append(log, [exception |-> current_exception, patched |-> patched > 0])
  /\ IF same' >= 2 THEN stage' = "unrecoverable" /\ UNCHANGED restarts
     ELSE stage' = "launch" /\ restarts' = restarts + 1
  /\ ChildGone

(* Variant of the definition below, with a mistake in it. *)
JudgeOnce == Judged(IF Repeated THEN same + 1 ELSE same)

Judge == Judged(IF Repeated THEN same + 1 ELSE 0)

Exhausted ==
  /\ stage = "launch" /\ restarts > MaxRestarts
  /\ stage' = "exhausted"
  /\ UNCHANGED <<watcher, child, memory>>

RLNext ==
  \/ Launch \/ Reexecute \/ GiveUp \/ Finish \/ Exit
  \/ \E f \in Funcs : Define(f) \/ Import(f)
  \/ \E b \in Bugs : Patch(b) \/ PatchFails(b) \/ Crash(b)
  \/ TimeOut \/ Clean \/ Judge \/ Exhausted

RLSpec == RLInit /\ [][RLNext]_rlvars

(* The watcher runs, and subprocess.run kills a child that does not end;   *)
(* nothing is assumed of the script.                                       *)
FairSpec ==
  RLSpec /\ WF_rlvars(Launch) /\ WF_rlvars(TimeOut) /\ WF_rlvars(Clean \/ Judge \/ Exhausted)

----------------------------------------------------------------------------
(* Properties that hold.                                                   *)

(* What was patched and saved does not crash in a later execution, whether *)
(* the same process runs the script again, imported modules and all, or    *)
(* another one does (README:332 "cross-restart persistence"): unless the   *)
(* guard is one that does not stop its bug, or in a nested function, or a  *)
(* later save of the function was broken off.                              *)
NoRecurrence ==
  crashed # NoBug /\ crashed \notin Ineffective /\ FuncOf[crashed] \notin Nested =>
    crashed \notin began

(* The watcher gives up, before it has to, exactly when the last three     *)
(* children that failed showed the same exception and the last two of them *)
(* patched nothing, however many ran into the time-out in between.         *)
GivesUpExactly ==
  LET n == Len(log) IN
  stage = "unrecoverable" <=>
    /\ n >= 3 /\ log[n].exception # NoBug
    /\ log[n - 1].exception = log[n].exception /\ log[n - 2].exception = log[n].exception
    /\ ~log[n].patched /\ ~log[n - 1].patched

(* The watcher comes to an end, also of scripts that never do.             *)
WatchEnds == <>(stage \in Verdicts)

(* Properties that do not hold.                                            *)

(* "Script exited cleanly" is said of a script that ended without an       *)
(* exception.                                                              *)
CleanIsClean == stage = "clean" => crashed = NoBug

(* "Unrecoverable: same exception fired 3x with 0 new patches".            *)
ThriceUnpatched ==
  stage = "unrecoverable" =>
    \A i \in Len(log) - 2 .. Len(log) : ~log[i].patched

(* What was patched and saved does not crash again.                        *)
NothingRecurs == crashed # NoBug => crashed \notin began
=============================================================================
