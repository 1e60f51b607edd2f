----------------------------- MODULE PatchStore -----------------------------
(***************************************************************************)
(* The .codesuture_store/ directory (codesuture/persistence.py) shared by  *)
(* the processes of an application, and rollback_function                  *)
(* (codesuture/rollback.py).                                               *)
(*                                                                         *)
(* A patch is a pair of files, a .code and a .json, under a name made of   *)
(* the function's module and __qualname__, which functions may share (main *)
(* of two scripts, a redefinition, functions of the same <locals>).  The   *)
(* json holds the HMAC of the code under the key in secret.key.  Files are *)
(* written in place: open() truncates, the content follows.  An operation  *)
(* runs in a worker, a thread of one process.  _store_lock excludes the    *)
(* writers of one process from each other; nothing excludes processes,     *)
(* readers or removals.                                                    *)
(*                                                                         *)
(* The content of a .code is the version of a code object, a number that   *)
(* is new with each save_patch, or Torn: truncated, or the mixed bytes of  *)
(* two writers.  A signature is the pair <<key, version>>.  The .orig.code *)
(* files have no place here: the engine never passes original_code.  What  *)
(* a process runs for a function is a version, or a function, whose source *)
(* that stands for.                                                        *)
(***************************************************************************)
EXTENDS Naturals

CONSTANTS
  Procs, Workers, ProcOf,   (* processes, threads, the process of a thread *)
  Funcs,
  Internal,                 (* functions of the engine itself, which       *)
                            (* _self_heal saves without a spec             *)
  Sources, Source,          (* source files; the co_filename of a function *)
  Names, Name,              (* names; the co_name of a function            *)
  Files, File,              (* names in the store; that of a function      *)
  Matching,                 (* Matching[n]: the names in the store that    *)
                            (* rollback_function(n) matches, by suffix     *)
  Kin,                      (* a partition of the functions that keeps     *)
                            (* those with a common name together           *)
  KeyExists,                (* the store already has its key               *)
  None, Torn, Absent,
  MaxSaves, MaxLoads, MaxRollbacks, MaxCrashes             (* bounds       *)

ASSUME PatchStoreAssumption ==
  /\ ProcOf \in [Workers -> Procs]
  /\ Internal \subseteq Funcs
  /\ Source \in [Funcs -> Sources] /\ Name \in [Funcs -> Names]
  /\ File \in [Funcs -> Files] /\ Matching \in [Names -> SUBSET Files]
  /\ \A f, g \in Funcs : File[f] = File[g] \/ Name[f] = Name[g] => Kin[f] = Kin[g]
  /\ KeyExists \in BOOLEAN
  /\ {MaxSaves, MaxLoads, MaxRollbacks, MaxCrashes} \subseteq Nat
  /\ {None, Torn, Absent} \cap Nat = {} /\ None # Torn /\ None # Absent
  /\ {None, Torn} \cap (Nat \X (Nat \cup {Torn})) = {}
  /\ None \notin Workers \cup Funcs \cup Names
  /\ Absent \notin Funcs /\ Funcs \cap Nat = {}

VARIABLES
  key,              (* secret.key: None, Torn (opened, empty) or a number  *)
  code, json,       (* the two files of a name in the store                *)
  storeLock,        (* owner of a process's _store_lock                    *)
  live,             (* what a process runs for f                           *)
  originals,        (* _ORIGINAL_CODES of a process, by Slot: Absent, else *)
                    (* what a function ran before its first patch          *)
  pc, task,         (* of a worker: its next step, its local variables     *)
  saves, loads, rollbacks, crashes,                (* counters             *)
  offered,          (* history: versions synthesised for f                 *)
  clean             (* history: the version of the last save under a name  *)
                    (* of the store if it was alone, as defined at Start   *)

files  == <<key, code, json>>
memory == <<live, originals>>
count  == <<saves, loads, rollbacks, crashes>>
ghost  == <<offered, clean>>
vars   == <<files, memory, storeLock, pc, task, count, ghost>>

Versions == 1 .. MaxSaves
Slots    == Sources \X Names

(* Where the backup of a function is kept: co_filename:co_name. *)
Slot(f) == <<Source[f], Name[f]>>

(* A key is known by the save that made it; 0 is the empty key of a file   *)
(* just opened, MaxSaves + 1 the key of an earlier session.                *)
Keys == 0 .. MaxSaves + 1
(* Variants of the definition below, with a mistake in them. *)
KeyBytesRaw(k) == k
KeyBytes(k) == IF k = Torn THEN 0 ELSE k

Idle == [op |-> "none", fn |-> None, ver |-> None, key |-> None, todo |-> {},
         alone |-> FALSE]

Tasks == [op : {"none", "save", "load", "rollback"},
          fn : Funcs \cup Names \cup {None}, ver : {None, Torn} \cup Versions,
          key : {None} \cup Keys, todo : SUBSET ({"code", "json"} \X Files),
          alone : BOOLEAN]
Steps == {"idle", "key", "keylock", "keyopen", "keywrite", "keyread", "code", "codewrite",
          "json", "jsonwrite", "meta", "apply", "list", "remove"}

TypeOK ==
  /\ key \in {None, Torn} \cup Keys
  /\ code \in [Files -> {None, Torn} \cup Versions]
  /\ json \in [Files -> {None, Torn} \cup (Keys \X Versions)]
  /\ storeLock \in [Procs -> Workers \cup {None}]
  /\ live \in [Procs -> [Funcs -> Funcs \cup Versions]]
  /\ originals \in [Procs -> [Slots -> {Absent} \cup Funcs \cup Versions]]
  /\ pc \in [Workers -> Steps] /\ task \in [Workers -> Tasks]
  /\ saves \in 0 .. MaxSaves /\ loads \in 0 .. MaxLoads
  /\ rollbacks \in 0 .. MaxRollbacks /\ crashes \in 0 .. MaxCrashes
  /\ offered \in [Funcs -> SUBSET Versions] /\ clean \in [Files -> {None} \cup Versions]

Init ==
  /\ key = IF KeyExists THEN MaxSaves + 1 ELSE None
  /\ code = [l \in Files |-> None] /\ json = [l \in Files |-> None]
  /\ storeLock = [p \in Procs |-> None]
  /\ live = [p \in Procs |-> [f \in Funcs |-> f]]
  /\ originals = [p \in Procs |-> [k \in Slots |-> Absent]]
  /\ pc = [w \in Workers |-> "idle"] /\ task = [w \in Workers |-> Idle]
  /\ saves = 0 /\ loads = 0 /\ rollbacks = 0 /\ crashes = 0
  /\ offered = [f \in Funcs |-> {}] /\ clean = [l \in Files |-> None]

----------------------------------------------------------------------------
(* Helpers.                                                                *)

Goto(w, s) == pc' = [pc EXCEPT ![w] = s]
End(w) == Goto(w, "idle") /\ task' = [task EXCEPT ![w] = Idle]

Free(w)    == storeLock[ProcOf[w]] = None
Take(w)    == Free(w) /\ storeLock' = [storeLock EXCEPT ![ProcOf[w]] = w]
Release(w) == storeLock' = [storeLock EXCEPT ![ProcOf[w]] = None]

(* The file after a writer has put x into it: a file removed meanwhile     *)
(* stays removed, and bytes another writer put there may mix with it.      *)
Written(old, x) ==
  CASE old = None -> {None} [] old = Torn -> {x} [] OTHER -> {x, old, Torn}

(* The names in the store whose files an operation writes or removes. *)
Touched(t) == CASE t.op = "save" -> {File[t.fn]} [] t.op = "rollback" -> Matching[t.fn] [] OTHER -> {}

(* There is a key, and nobody is about to write another one. *)
KeySettled == key # None /\ \A w \in Workers : pc[w] \notin {"keyopen", "keywrite"}

(* An operation t starts in w.  A save is alone as long as no operation    *)
(* that touches its files overlaps it, and none at all that began before   *)
(* the key was settled.                                                    *)
Start(w, t) ==
  LET apart(u) == \/ Touched(task[u]) = {}
                  \/ Touched(task[u]) \cap Touched(t) = {} /\ KeySettled IN
  task' = [u \in Workers |->
             IF u = w THEN [t EXCEPT !.alone = /\ Touched(t) # {}
                                               /\ \A v \in Workers \ {w} : apart(v)]
                      ELSE [task[u] EXCEPT !.alone = @ /\ apart(u)]]

----------------------------------------------------------------------------
(* save_patch, called by the engine under its _patch_lock (which is one    *)
(* per process) once the patched code runs.                                *)

BeginSave(w, f) ==
  LET p == ProcOf[w]
      v == saves + 1 IN
  /\ pc[w] = "idle" /\ saves < MaxSaves
  /\ \A u \in Workers : ProcOf[u] = p => task[u].op # "save"
  /\ saves' = v
  /\ offered' = [offered EXCEPT ![f] = @ \cup {v}]
  /\ clean' = [clean EXCEPT ![File[f]] = None]
  /\ live' = [live EXCEPT ![p][f] = v]
  /\ originals' = [originals EXCEPT ![p][Slot(f)] = IF @ = Absent THEN live[p][f] ELSE @]
  /\ Start(w, [Idle EXCEPT !.op = "save", !.fn = f, !.ver = v])
  /\ Goto(w, "key")
  /\ UNCHANGED <<files, storeLock, loads, rollbacks, crashes>>

(* Variants of the definition below, with a mistake in them. *)
KeyCheckAlways(w) ==
  /\ pc[w] = "key" /\ Goto(w, IF task[w].op = "save" THEN "keyopen" ELSE "keyread")
  /\ UNCHANGED <<files, memory, storeLock, task, count, ghost>>

(* _get_hmac_key: the file is looked for, and looked for again under the   *)
(* lock before it is written.                                              *)
KeyCheck(w) ==
  /\ pc[w] = "key"
  /\ Goto(w, IF key = None THEN "keylock" ELSE "keyread")
  /\ UNCHANGED <<files, memory, storeLock, task, count, ghost>>

KeyLock(w) ==
  /\ pc[w] = "keylock" /\ Free(w)
  /\ IF key = None THEN Take(w) /\ Goto(w, "keyopen")
                   ELSE Goto(w, "keyread") /\ UNCHANGED storeLock
  /\ UNCHANGED <<files, memory, task, count, ghost>>

KeyOpen(w) ==
  /\ pc[w] = "keyopen"
  /\ key' = Torn /\ Goto(w, "keywrite")
  /\ UNCHANGED <<code, json, memory, storeLock, task, count, ghost>>

KeyWrite(w) ==
  /\ pc[w] = "keywrite"
  /\ key' = task[w].ver
  /\ Release(w) /\ Goto(w, "keyread")
  /\ UNCHANGED <<code, json, memory, task, count, ghost>>

KeyRead(w) ==
  /\ pc[w] = "keyread"
  /\ task' = [task EXCEPT ![w].key = KeyBytes(key)]
  /\ Goto(w, IF task[w].op = "save" THEN "code" ELSE "meta")
  /\ UNCHANGED <<files, memory, storeLock, count, ghost>>

CodeOpen(w) ==
  /\ pc[w] = "code" /\ Take(w)
  /\ code' = [code EXCEPT ![File[task[w].fn]] = Torn]
  /\ Goto(w, "codewrite")
  /\ UNCHANGED <<key, json, memory, task, count, ghost>>

(* Variants of the definition below, with a mistake in them. *)
CodeWriteKeepsLock(w) ==
  LET l == File[task[w].fn] IN
  /\ pc[w] = "codewrite"
  /\ \E c \in Written(code[l], task[w].ver) : code' = [code EXCEPT ![l] = c]
  /\ IF task[w].fn \in Internal THEN End(w) /\ UNCHANGED storeLock
     ELSE Release(w) /\ Goto(w, "json") /\ UNCHANGED task
  /\ UNCHANGED <<key, json, memory, count, ghost>>

(* Without a spec there is no json, and the save ends here. *)
CodeWrite(w) ==
  LET l == File[task[w].fn] IN
  /\ pc[w] = "codewrite"
  /\ \E c \in Written(code[l], task[w].ver) : code' = [code EXCEPT ![l] = c]
  /\ Release(w)
  /\ IF task[w].fn \in Internal THEN End(w) ELSE Goto(w, "json") /\ UNCHANGED task
  /\ UNCHANGED <<key, json, memory, count, ghost>>

JsonOpen(w) ==
  /\ pc[w] = "json" /\ Take(w)
  /\ json' = [json EXCEPT ![File[task[w].fn]] = Torn]
  /\ Goto(w, "jsonwrite")
  /\ UNCHANGED <<key, code, memory, task, count, ghost>>

JsonWrite(w) ==
  LET l == File[task[w].fn] IN
  /\ pc[w] = "jsonwrite"
  /\ \E s \in Written(json[l], <<task[w].key, task[w].ver>>) :
       json' = [json EXCEPT ![l] = s]
  /\ Release(w) /\ End(w)
  /\ clean' = IF task[w].alone THEN [clean EXCEPT ![l] = task[w].ver] ELSE clean
  /\ UNCHANGED <<key, code, memory, count, offered>>

----------------------------------------------------------------------------
(* _load_cached_code and apply_persisted_patch_to_function, at import.     *)

BeginLoad(w, f) ==
  /\ pc[w] = "idle" /\ loads < MaxLoads
  /\ code[File[f]] # None
  /\ loads' = loads + 1
  /\ task' = [task EXCEPT ![w] = [Idle EXCEPT !.op = "load", !.fn = f, !.ver = code[File[f]]]]
  /\ Goto(w, "key")
  /\ UNCHANGED <<files, memory, storeLock, saves, rollbacks, crashes, ghost>>

(* Variants of the definition below, with a mistake in them. *)
ReadMetaUnsigned(w) ==
  /\ pc[w] = "meta" /\ Goto(w, "apply")
  /\ UNCHANGED <<files, memory, storeLock, task, count, ghost>>

(* A json that is missing, cannot be parsed or signs something else makes  *)
(* the load refuse the patch.                                              *)
ReadMeta(w) ==
  /\ pc[w] = "meta"
  /\ IF json[File[task[w].fn]] = <<task[w].key, task[w].ver>>
     THEN Goto(w, "apply") /\ UNCHANGED task ELSE End(w)
  /\ UNCHANGED <<files, memory, storeLock, count, ghost>>

Apply(w) ==
  /\ pc[w] = "apply" /\ Free(w)
  /\ live' = [live EXCEPT ![ProcOf[w]][task[w].fn] = task[w].ver]
  /\ End(w)
  /\ UNCHANGED <<files, originals, storeLock, count, ghost>>

----------------------------------------------------------------------------
(* rollback_function: first the code in this process, then the files.  Of  *)
(* the backups under this co_name the first one is put into the first      *)
(* function of this co_name; which ones these are is left open.            *)

BeginRollback(w, n) ==
  LET p     == ProcOf[w]
      named == {f \in Funcs : Name[f] = n}
      kept  == {k \in Slots : k[2] = n /\ originals[p][k] # Absent} IN
  /\ pc[w] = "idle" /\ rollbacks < MaxRollbacks
  /\ rollbacks' = rollbacks + 1
  /\ \/ \E k \in kept, g \in named :
          /\ live' = [live EXCEPT ![p][g] = originals[p][k]]
          /\ originals' = [originals EXCEPT ![p][k] = Absent]
     \/ /\ \A k \in kept, g \in named : live[p][g] = originals[p][k]
        /\ UNCHANGED memory
  /\ clean' = [l \in Files |-> IF l \in Matching[n] THEN None ELSE clean[l]]
  /\ Start(w, [Idle EXCEPT !.op = "rollback", !.fn = n])
  /\ Goto(w, "list")
  /\ UNCHANGED <<files, storeLock, saves, loads, crashes, offered>>

(* Variants of the definition below, with a mistake in them. *)
ListCodeFiles(w) ==
  /\ pc[w] = "list"
  /\ task' = [task EXCEPT ![w].todo = {<<"code", g>> : g \in {h \in Matching[task[w].fn] : code[h] # None}}]
  /\ Goto(w, "remove")
  /\ UNCHANGED <<files, memory, storeLock, count, ghost>>

ListFiles(w) ==
  LET M == Matching[task[w].fn] IN
  /\ pc[w] = "list"
  /\ task' = [task EXCEPT ![w].todo = {<<"code", g>> : g \in {h \in M : code[h] # None}}
                               \cup {<<"json", g>> : g \in {h \in M : json[h] # None}}]
  /\ Goto(w, "remove")
  /\ UNCHANGED <<files, memory, storeLock, count, ghost>>

(* Files go one by one; os.remove of a file that is gone raises and ends   *)
(* the rollback there.                                                     *)
RemoveFile(w, x) ==
  LET gone == IF x[1] = "code" THEN code[x[2]] = None ELSE json[x[2]] = None IN
  /\ pc[w] = "remove" /\ x \in task[w].todo
  /\ IF gone THEN End(w)
     ELSE task' = [task EXCEPT ![w].todo = @ \ {x}] /\ UNCHANGED pc
  /\ code' = IF x[1] = "code" THEN [code EXCEPT ![x[2]] = None] ELSE code
  /\ json' = IF x[1] = "json" THEN [json EXCEPT ![x[2]] = None] ELSE json
  /\ UNCHANGED <<key, memory, storeLock, count, ghost>>

EndRollback(w) ==
  /\ pc[w] = "remove" /\ task[w].todo = {}
  /\ End(w)
  /\ UNCHANGED <<files, memory, storeLock, count, ghost>>

----------------------------------------------------------------------------
(* The process ends, in the middle of whatever it does, and starts again   *)
(* from the source; what was written stays.                                *)
Crash(p) ==
  /\ crashes < MaxCrashes /\ crashes' = crashes + 1
  /\ live' = [live EXCEPT ![p] = [f \in Funcs |-> f]]
  /\ originals' = [originals EXCEPT ![p] = [k \in Slots |-> Absent]]
  /\ storeLock' = [storeLock EXCEPT ![p] = None]
  /\ pc' = [w \in Workers |-> IF ProcOf[w] = p THEN "idle" ELSE pc[w]]
  /\ task' = [w \in Workers |-> IF ProcOf[w] = p THEN Idle ELSE task[w]]
  /\ UNCHANGED <<files, saves, loads, rollbacks, ghost>>

Step(w) ==
  \/ KeyCheck(w) \/ KeyLock(w) \/ KeyOpen(w) \/ KeyWrite(w) \/ KeyRead(w)
  \/ CodeOpen(w) \/ CodeWrite(w) \/ JsonOpen(w) \/ JsonWrite(w)
  \/ ReadMeta(w) \/ Apply(w)
  \/ ListFiles(w) \/ EndRollback(w)
  \/ \E x \in {"code", "json"} \X Files : RemoveFile(w, x)

Next ==
  \/ \E w \in Workers :
       \/ Step(w)
       \/ \E f \in Funcs : BeginSave(w, f) \/ BeginLoad(w, f)
       \/ \E n \in Names : BeginRollback(w, n)
  \/ \E p \in Procs : Crash(p)

Spec == Init /\ [][Next]_vars

----------------------------------------------------------------------------
(* Properties.                                                             *)

(* Whatever crashes, overlaps or is removed half-way, what a process runs  *)
(* for a function is the source of, or a version synthesised for, that     *)
(* function or one with a name in common: a torn or mismatched pair of     *)
(* files is refused by the load.                                           *)
Cache == INSTANCE PatchCache WITH offered <- offered, live <- live
ImplementsCache == Cache!Spec

(* A patch whose save no other save or rollback under its name overlapped  *)
(* can be loaded after a restart ("cross-restart persistence").            *)
CleanSaveLoads ==
  \A l \in Files : clean[l] # None =>
    code[l] = clean[l] /\ json[l] = <<KeyBytes(key), clean[l]>>

(* Every signature in the store is under the store's key ("a random key is *)
(* generated per server; every persisted patch is signed").                *)
OneKey ==
  \A l \in Files : json[l] \notin {None, Torn} => json[l][1] = KeyBytes(key)

(* A rollback that no save and no other rollback of the same names in the  *)
(* store overlapped leaves none of their files, so that the next process   *)
(* to start runs the source.                                               *)
RollbackErases ==
  \A w \in Workers :
    task[w].op = "rollback" /\ pc[w] = "remove" /\ task[w].todo = {} /\ task[w].alone
      => \A l \in Matching[task[w].fn] : code[l] = None /\ json[l] = None

(* Once the in-process part of a rollback is over, and nobody else is at   *)
(* work, the process runs the function's source ("rollback restores them   *)
(* in the running process, no restart").                                   *)
RollbackRestores ==
  \A w \in Workers :
    pc[w] = "list" /\ (\A u \in Workers \ {w} : pc[u] = "idle")
      => \A f \in Funcs : Name[f] = task[w].fn => live[ProcOf[w]][f] = f

(* A process runs for a function its own source or a version synthesised   *)
(* for that very function ("every persisted patch is signed").             *)
OwnVersion ==
  \A p \in Procs, f \in Funcs : live[p][f] \in {f} \cup offered[f]
=============================================================================
