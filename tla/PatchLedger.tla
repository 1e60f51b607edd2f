----------------------------- MODULE PatchLedger ----------------------------
(***************************************************************************)
(* The two files that outlive an engine beside the patches themselves:     *)
(* lifecycle.json (lifecycle.py), which a LifecycleManager reads once and  *)
(* then rewrites from its own copy, and the fingerprint registry           *)
(* (fingerprint.py), which is read and rewritten whole for every record.   *)
(* An engine's threads look up, record and track the crashes they heal;    *)
(* the command line marks patches as fixed or rolled back.  A program may  *)
(* call rollback_function in the engine's process, which makes a manager   *)
(* of its own; rollback_all is the command line's.  Processes may          *)
(* be killed anywhere.  Both files are written in place: `open' for        *)
(* writing empties a file before anything is in it.                        *)
(***************************************************************************)
EXTENDS Naturals, Sequences, FiniteSets

CONSTANTS
  Procs, Threads, ProcOf,   (* ProcOf[t]: the process of thread t            *)
  Commands,                 (* the processes that run a command              *)
  Kinds, Patches, PatchOf,  (* fingerprints, patch ids; the patch of a kind  *)
  Unserializable,           (* kinds whose key or default json cannot write  *)
  Alone,                    (* is at most one process up at a time?          *)
  None, Torn,               (* no holder; a file that is not valid json      *)
  MaxStarts, MaxEvents      (* bounds: processes started, crashes + commands *)

States == {"patched", "suggested", "fixed", "rolled_back"}

ASSUME LedgerAssumption ==
  /\ ProcOf \in [Threads -> Procs] /\ Commands \subseteq Procs
  /\ PatchOf \in [Kinds -> Patches] /\ Unserializable \subseteq Kinds
  /\ Alone \in BOOLEAN /\ None \notin Threads
  /\ MaxStarts \in Nat /\ MaxEvents \in Nat
  /\ Torn \notin [Kinds -> Nat] \cup [Patches -> Seq(States)]

ASSUME NoneAssumption == None \notin [Patches -> Seq(States)]

VARIABLES
  up,         (* the processes that run                                     *)
  copy,       (* copy[p]: _patches of p's manager, the states of each patch *)
  ledger,     (* lifecycle.json                                             *)
  registry,   (* the hit counts in .codesuture_fingerprints                 *)
  lock,       (* lock[p]: who holds the manager's _lock                     *)
  rlock,      (* rlock[p]: who holds _registry_lock                         *)
  inner,      (* inner[t]: _patches of a manager that t has made, or None   *)
  doubled,    (* history: processes in which a second manager has written   *)
  pc, kind, read, then,     (* a thread's step, crash, registry, next step  *)
  recorded,   (* ghost: the hits recorded since the registry was removed    *)
  cut,        (* ghost: a write of the registry was cut short               *)
  starts, events

files == <<ledger, registry>>
ghosts == <<recorded, cut>>
seconds == <<inner, doubled>>
vars == <<up, copy, ledger, registry, lock, rlock, seconds, pc, kind, read, then,
          recorded, cut, starts, events>>

Nothing == [q \in Patches |-> <<>>]
NoHits == [k \in Kinds |-> 0]

(* LifecycleManager._load: a file that cannot be parsed is no history. *)
Readable(file) == IF file = Torn THEN Nothing ELSE file

(* What is in a file when a writer is done: its data, unless another one   *)
(* has written since both emptied it.                                      *)
Written(file, data) == IF file = Torn THEN {data} ELSE {data, Torn}

At(t, step) == pc[t] = step /\ ProcOf[t] \in up
Go(t, step) == pc' = [pc EXCEPT ![t] = step]
State(p, q) == IF copy[p][q] = <<>> THEN None ELSE copy[p][q][Len(copy[p][q])]
Moved(patches, S, s) ==
  [q \in Patches |-> IF q \in S THEN Append(patches[q], s) ELSE patches[q]]
Transition(p, S, s) == copy' = [copy EXCEPT ![p] = Moved(@, S, s)]

Init ==
  /\ up = {} /\ copy = [p \in Procs |-> Nothing]
  /\ ledger = Nothing /\ registry = NoHits
  /\ lock = [p \in Procs |-> None] /\ rlock = [p \in Procs |-> None]
  /\ inner = [t \in Threads |-> None] /\ doubled = {}
  /\ pc = [t \in Threads |-> "idle"] /\ kind = [t \in Threads |-> None]
  /\ read = [t \in Threads |-> NoHits] /\ then = [t \in Threads |-> "idle"]
  /\ recorded = NoHits /\ cut = FALSE /\ starts = 0 /\ events = 0

(* Variant of the definition below, with a mistake in it: nothing is loaded. *)
StartAfresh(p) ==
  /\ p \notin up /\ starts < MaxStarts
  /\ Alone => up = {}
  /\ up' = up \cup {p} /\ starts' = starts + 1
  /\ UNCHANGED <<copy, files, lock, rlock, seconds, pc, kind, read, then, ghosts, events>>

(* A process starts: its manager loads the file, once. *)
Start(p) ==
  /\ p \notin up /\ starts < MaxStarts
  /\ Alone => up = {}
  /\ up' = up \cup {p} /\ starts' = starts + 1
  /\ copy' = [copy EXCEPT ![p] = Readable(ledger)]
  /\ UNCHANGED <<files, lock, rlock, seconds, pc, kind, read, then, ghosts, events>>

(* A process ends or is killed, whatever its threads do. *)
Stop(p) ==
  LET mine == {t \in Threads : ProcOf[t] = p}
      Reset(f, v) == [t \in Threads |-> IF t \in mine THEN v ELSE f[t]] IN
  /\ p \in up /\ up' = up \ {p}
  /\ copy' = [copy EXCEPT ![p] = Nothing]
  /\ lock' = [lock EXCEPT ![p] = None] /\ rlock' = [rlock EXCEPT ![p] = None]
  /\ pc' = Reset(pc, "idle") /\ kind' = Reset(kind, None)
  /\ inner' = Reset(inner, None) /\ doubled' = doubled \ {p}
  /\ read' = Reset(read, NoHits) /\ then' = Reset(then, "idle")
  /\ cut' = (cut \/ \E t \in mine : pc[t] = "reg_write")
  /\ UNCHANGED <<files, recorded, starts, events>>

(* Variant of the definition below, with a mistake in it: no lock. *)
LookupUnlocked(t, k) ==
  /\ At(t, "idle") /\ ProcOf[t] \notin Commands /\ events < MaxEvents
  /\ events' = events + 1 /\ kind' = [kind EXCEPT ![t] = k]
  /\ Go(t, IF registry = Torn THEN "untraced" ELSE IF registry[k] = 0 THEN "record" ELSE "note")
  /\ UNCHANGED <<up, copy, files, lock, rlock, seconds, read, then, ghosts, starts>>

(* _handle_exception looks the crash up, outside any try: what json.load   *)
(* raises for a torn registry leaves the trace function, and the           *)
(* interpreter stops tracing the thread.                                   *)
Lookup(t, k) ==
  /\ At(t, "idle") /\ ProcOf[t] \notin Commands /\ events < MaxEvents
  /\ rlock[ProcOf[t]] = None
  /\ events' = events + 1 /\ kind' = [kind EXCEPT ![t] = k]
  /\ Go(t, CASE registry = Torn -> "untraced"
             [] registry # Torn /\ registry[k] = 0 -> "record"
             [] registry # Torn /\ registry[k] # 0 -> "note")
  /\ UNCHANGED <<up, copy, files, lock, rlock, seconds, read, then, ghosts, starts>>

(* Variant of the definition below, with a mistake in it: no lock. *)
RecordLoadUnlocked(t) ==
  /\ At(t, "record") /\ registry # Torn
  /\ rlock' = [rlock EXCEPT ![ProcOf[t]] = t]
  /\ read' = [read EXCEPT ![t] = [registry EXCEPT ![kind[t]] = @ + 1]]
  /\ Go(t, "reg_open")
  /\ UNCHANGED <<up, copy, files, lock, seconds, kind, then, ghosts, starts, events>>

(* record, for a crash that was not found: load, then save_registry.  An   *)
(* exception of either ends the healing of this crash.                     *)
RecordLoad(t) ==
  /\ At(t, "record") /\ rlock[ProcOf[t]] = None
  /\ IF registry = Torn
     THEN Go(t, "idle") /\ UNCHANGED <<rlock, read>>
     ELSE /\ rlock' = [rlock EXCEPT ![ProcOf[t]] = t]
          /\ read' = [read EXCEPT ![t] = [registry EXCEPT ![kind[t]] = @ + 1]]
          /\ Go(t, "reg_open")
  /\ UNCHANGED <<up, copy, files, lock, seconds, kind, then, ghosts, starts, events>>

RecordOpen(t) ==
  /\ At(t, "reg_open") /\ Go(t, "reg_write")
  /\ registry' = Torn
  /\ UNCHANGED <<up, copy, ledger, lock, rlock, seconds, kind, read, then, ghosts, starts, events>>

RecordWrite(t) ==
  /\ At(t, "reg_write")
  /\ rlock' = [rlock EXCEPT ![ProcOf[t]] = None]
  /\ IF kind[t] \in Unserializable
     THEN registry' = Torn /\ cut' = TRUE /\ Go(t, "idle") /\ UNCHANGED recorded
     ELSE /\ registry' \in Written(registry, read[t])
          /\ recorded' = [recorded EXCEPT ![kind[t]] = @ + 1]
          /\ Go(t, "note") /\ UNCHANGED cut
  /\ UNCHANGED <<up, copy, ledger, lock, seconds, kind, read, then, starts, events>>

(* _log_incident looks the crash up again; an exception skips the log. *)
NoteHits(t) ==
  /\ At(t, "note") /\ rlock[ProcOf[t]] = None
  /\ Go(t, IF registry = Torn THEN "idle" ELSE "track")
  /\ UNCHANGED <<up, copy, files, lock, rlock, seconds, kind, read, then, ghosts, starts, events>>

(* LifecycleManager.track, once as patched and, when there is a suggested  *)
(* fix, again: the state changes only if it is another one, the file is    *)
(* written in any case.                                                    *)
Track(t, s) ==
  LET p == ProcOf[t] q == PatchOf[kind[t]] IN
  /\ At(t, IF s = "patched" THEN "track" ELSE "suggest")
  /\ lock[p] = None /\ lock' = [lock EXCEPT ![p] = t]
  /\ IF State(p, q) # s THEN Transition(p, {q}, s) ELSE UNCHANGED copy
  /\ \E n \in IF s = "patched" THEN {"idle", "suggest"} ELSE {"idle"} : then' = [then EXCEPT ![t] = n]
  /\ Go(t, "open")
  /\ UNCHANGED <<up, files, rlock, seconds, kind, read, ghosts, starts, events>>

(* LifecycleManager._save: the manager is the one rollback_function made,  *)
(* which is dropped then, or the process's.                                *)
SaveOpen(t) ==
  /\ At(t, "open") /\ Go(t, "write")
  /\ ledger' = Torn
  /\ UNCHANGED <<up, copy, registry, lock, rlock, seconds, kind, read, then, ghosts, starts, events>>

SaveWrite(t) ==
  /\ At(t, "write") /\ Go(t, then[t])
  /\ IF inner[t] = None
     THEN /\ ledger' \in Written(ledger, copy[ProcOf[t]])
          /\ lock' = [lock EXCEPT ![ProcOf[t]] = None] /\ UNCHANGED inner
     ELSE /\ ledger' \in Written(ledger, inner[t])
          /\ inner' = [inner EXCEPT ![t] = None] /\ UNCHANGED lock
  /\ UNCHANGED <<up, copy, registry, rlock, doubled, kind, read, then, ghosts, starts, events>>

(* A command of a process of its own: mark_fixed and mark_rolled_back move *)
(* what matches the name, whatever state it is in, and save if anything    *)
(* does; rollback_all moves what is not done, saves in any case and        *)
(* removes the registry.                                                   *)
Mark(t, S, s, next) ==
  /\ At(t, "idle") /\ ProcOf[t] \in Commands /\ events < MaxEvents
  /\ lock[ProcOf[t]] = None
  /\ lock' = [lock EXCEPT ![ProcOf[t]] = t] /\ Transition(ProcOf[t], S, s)
  /\ then' = [then EXCEPT ![t] = next] /\ Go(t, "open") /\ events' = events + 1
  /\ UNCHANGED <<up, files, rlock, seconds, kind, read, ghosts, starts>>

MarkMatching(t, S, s) ==
  /\ \A q \in S : copy[ProcOf[t]][q] # <<>>
  /\ S # {} /\ Mark(t, S, s, "done")

RollBackAll(t) ==
  Mark(t, {q \in Patches : State(ProcOf[t], q) \in {"patched", "suggested"}}, "rolled_back", "remove")

(* rollback_function in an engine's process: mark_rolled_back of a second  *)
(* manager, which loads the file and has a lock of its own.                *)
RollBackInside(t, S) ==
  /\ At(t, "idle") /\ ProcOf[t] \notin Commands /\ events < MaxEvents
  /\ S # {} /\ \A q \in S : Readable(ledger)[q] # <<>>
  /\ inner' = [inner EXCEPT ![t] = Moved(Readable(ledger), S, "rolled_back")]
  /\ doubled' = doubled \cup {ProcOf[t]}
  /\ then' = [then EXCEPT ![t] = "idle"] /\ Go(t, "open") /\ events' = events + 1
  /\ UNCHANGED <<up, copy, files, lock, rlock, kind, read, ghosts, starts>>

RemoveRegistry(t) ==
  /\ At(t, "remove") /\ Go(t, "done")
  /\ registry' = NoHits /\ recorded' = NoHits /\ cut' = FALSE
  /\ UNCHANGED <<up, copy, ledger, lock, rlock, seconds, kind, read, then, starts, events>>

Heal(t) ==
  \/ \E k \in Kinds : Lookup(t, k)
  \/ RecordLoad(t) \/ RecordOpen(t) \/ RecordWrite(t) \/ NoteHits(t)
  \/ Track(t, "patched") \/ Track(t, "suggested") \/ SaveOpen(t) \/ SaveWrite(t)
  \/ \E S \in SUBSET Patches : RollBackInside(t, S)

Command(t) ==
  \/ \E S \in SUBSET Patches : MarkMatching(t, S, "fixed") \/ MarkMatching(t, S, "rolled_back")
  \/ RollBackAll(t) \/ RemoveRegistry(t)

Next == \/ \E p \in Procs : Start(p) \/ Stop(p)
        \/ \E t \in Threads : Heal(t) \/ Command(t)

Spec == Init /\ [][Next]_vars

----------------------------------------------------------------------------
Steps == {"idle", "record", "reg_open", "reg_write", "note", "track", "suggest",
          "open", "write", "remove", "done", "untraced"}

(* Types; with them, that no two threads of a process write one file,      *)
(* those of rollback_function excepted.                                    *)
TypeOK ==
  /\ up \subseteq Procs /\ (Alone => \A p, r \in up : p = r)
  /\ copy \in [Procs -> [Patches -> Seq(States)]]
  /\ ledger = Torn \/ ledger \in [Patches -> Seq(States)]
  /\ registry = Torn \/ registry \in [Kinds -> Nat]
  /\ lock \in [Procs -> Threads \cup {None}] /\ rlock \in [Procs -> Threads \cup {None}]
  /\ pc \in [Threads -> Steps] /\ kind \in [Threads -> Kinds \cup {None}]
  /\ read \in [Threads -> [Kinds -> Nat]]
  /\ then \in [Threads -> {"idle", "suggest", "done", "remove"}]
  /\ recorded \in [Kinds -> Nat] /\ cut \in BOOLEAN /\ starts \in Nat /\ events \in Nat
  /\ inner \in [Threads -> [Patches -> Seq(States)] \cup {None}] /\ doubled \subseteq up
  /\ \A t \in Threads : /\ pc[t] \in {"open", "write"} /\ inner[t] = None => lock[ProcOf[t]] = t
                        /\ pc[t] \in {"reg_open", "reg_write"} => rlock[ProcOf[t]] = t

(* lifecycle.json and the manager's copy of it, through every restart and  *)
(* every command, are a PatchHistory: no state that was noted is lost but  *)
(* by a write that was cut short, and none is replaced by an older one, as *)
(* long as the process makes no second manager.                            *)
Current == IF up = {} THEN Readable(ledger) ELSE copy[CHOOSE p \in up : TRUE]
History == INSTANCE PatchHistory WITH history <- Current, saved <- Readable(ledger),
                                       sole <- (doubled = {})
ImplementsHistory == History!Spec

(* While nobody writes it, the registry has exactly the hits that were      *)
(* recorded, unless a write was cut short; and lifecycle.json has what     *)
(* every manager has in memory: none is about to write an older state over *)
(* a newer one, unless its process has rolled back a function itself.      *)
HitsExact ==
  cut \/ (\E t \in Threads : pc[t] = "reg_write") \/ registry = recorded
CopiesExact ==
  \/ \E t \in Threads : pc[t] \in {"open", "write"}
  \/ \A p \in up \ doubled : copy[p] = Readable(ledger)
FilesExact == HitsExact /\ CopiesExact

(* A thread is left without tracing only after a write of the registry was *)
(* cut short, by a kill or by a value that json cannot write: a thread     *)
(* never reads what another one of its process is writing.                 *)
TracingKept == \A t \in Threads : pc[t] = "untraced" => cut

(* Does not hold: lifecycle.json has what the manager of the only process   *)
(* has, also after a rollback in it (README:161).                          *)
CopiesCurrent ==
  \/ starts > 1 \/ \E t \in Threads : pc[t] \in {"open", "write"}
  \/ \A p \in up : copy[p] = Readable(ledger)
=============================================================================
