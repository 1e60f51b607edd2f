-------------------------- MODULE PatchStoreProofs --------------------------
(***************************************************************************)
(* What PatchStore promises for any number of processes, threads and       *)
(* functions and for every bound: type correctness, that a save or a       *)
(* rollback which is alone on its functions does what it is for, and that  *)
(* the store implements PatchCache.                                        *)
(*                                                                         *)
(* Inv is inductive.  Locals says what the local variables of an operation *)
(* hold at each of its steps; it is needed because json and key are        *)
(* written from them.  Provenance says that what is in a file, in a        *)
(* process, in a backup or in the hands of an operation for a function     *)
(* fits that function: it is of one of its kin.                            *)
(*                                                                         *)
(* AloneInv is inductive too.  Apart says what being alone excludes, and   *)
(* Saving and Erasing how far an operation that is alone has come with its *)
(* files; nobody else's step touches these, nor the key.                   *)
(***************************************************************************)
EXTENDS PatchStore, TLAPS

Locals ==
  \A w \in Workers :
    /\ pc[w] \notin {"idle", "list", "remove"} => task[w].fn \in Funcs
    /\ pc[w] \in {"list", "remove"} => task[w].fn \in Names
    /\ pc[w] = "idle" => task[w].op = "none"
    /\ pc[w] \in {"key", "keylock", "keyopen", "keywrite", "keyread"}
         => task[w].op \in {"save", "load"}
    /\ pc[w] \in {"code", "codewrite", "json", "jsonwrite"} => task[w].op = "save"
    /\ pc[w] \in {"meta", "apply"} => task[w].op = "load"
    /\ pc[w] \in {"list", "remove"} => task[w].op = "rollback"
    /\ pc[w] \in {"code", "codewrite", "json", "jsonwrite", "meta"} => task[w].key \in Keys
    /\ pc[w] = "apply" => task[w].ver \in Versions
    /\ pc[w] = "keyread" => key # None
    /\ task[w].op = "save" => task[w].ver \in Versions
    /\ task[w].op = "load" => task[w].ver # None

Provenance ==
  /\ \A f \in Funcs :
       /\ \A v \in offered[f] : v <= saves
       /\ code[File[f]] \in Versions => code[File[f]] \in Cache!Fitting(f)
       /\ \A p \in Procs :
            /\ live[p][f] \in Cache!Fitting(f)
            /\ \A k \in Slots : k[2] = Name[f] /\ originals[p][k] # Absent
                                => originals[p][k] \in Cache!Fitting(f)
  /\ \A w \in Workers : task[w].op \in {"save", "load"} /\ task[w].ver \in Versions
                          => task[w].ver \in Cache!Fitting(task[w].fn)

Inv == TypeOK /\ Locals /\ Provenance

(* Who holds and who makes the key. *)
Signing  == {"code", "codewrite", "json", "jsonwrite"}
KeyUsers ==
  /\ \A w \in Workers :
       /\ pc[w] \in {"keylock", "keyopen", "keywrite"} => task[w].op = "save"
       /\ task[w].op = "load" \/ pc[w] \in Signing => key # None
  /\ \A l \in Files : code[l] # None => key # None

(* An operation that is alone shares no name in the store with another one *)
(* that writes or removes files, and the key is settled if there is one.   *)
Apart ==
  \A w \in Workers : task[w].alone =>
    /\ task[w].op \in {"save", "rollback"} /\ Touched(task[w]) # {}
    /\ \A u \in Workers \ {w} : Touched(task[u]) # {} =>
         Touched(task[u]) \cap Touched(task[w]) = {} /\ KeySettled

(* What a save that is alone has written so far. *)
Saving ==
  \A w \in Workers : task[w].alone =>
    /\ pc[w] \in Signing => task[w].key = KeyBytes(key)
    /\ pc[w] = "codewrite" => code[File[task[w].fn]] = Torn
    /\ pc[w] \in {"json", "jsonwrite"} => code[File[task[w].fn]] = task[w].ver
    /\ pc[w] = "jsonwrite" => json[File[task[w].fn]] = Torn

(* A rollback removes files that match its name; one that is alone still   *)
(* has all of them to do that are there.                                   *)
Erasing ==
  \A w \in Workers : pc[w] = "remove" =>
    /\ task[w].todo \subseteq {"code", "json"} \X Matching[task[w].fn]
    /\ task[w].alone => \A h \in Matching[task[w].fn] :
         /\ code[h] # None => <<"code", h>> \in task[w].todo
         /\ json[h] # None => <<"json", h>> \in task[w].todo

(* After a clean save nothing is at work under its name. *)
Clean ==
  \A l \in Files : clean[l] # None =>
    /\ KeySettled /\ code[l] = clean[l] /\ json[l] = <<KeyBytes(key), clean[l]>>
    /\ \A w \in Workers : l \notin Touched(task[w])

AloneInv == TypeOK /\ Locals /\ KeyUsers /\ Apart /\ Saving /\ Erasing /\ Clean

----------------------------------------------------------------------------
(* Helpers.                                                                *)

LEMMA Constants ==
  /\ MaxSaves \in Nat /\ MaxLoads \in Nat /\ MaxRollbacks \in Nat /\ MaxCrashes \in Nat
  /\ ProcOf \in [Workers -> Procs]
  /\ None \notin Nat /\ Torn \notin Nat /\ Absent \notin Nat
  /\ None # Torn /\ None # Absent /\ None \notin Workers \cup Funcs \cup Names
  /\ Absent \notin Funcs /\ Funcs \cap Nat = {}
  /\ Source \in [Funcs -> Sources] /\ Name \in [Funcs -> Names]
  /\ File \in [Funcs -> Files] /\ Matching \in [Names -> SUBSET Files]
BY PatchStoreAssumption

LEMMA NoPair ==
  ASSUME NEW k \in Keys, NEW v \in {Torn} \cup Versions
  PROVE  <<k, v>> # None /\ <<k, v>> # Torn
BY PatchStoreAssumption DEF Keys, Versions

(* A file holds, after a write, what it held before or what was written. *)
LEMMA WrittenIn ==
  ASSUME NEW old, NEW x, NEW y \in Written(old, x)
  PROVE  y \in {None, Torn, old, x} /\ (y = None => old = None \/ x = None)
BY Constants DEF Written

LEMMA KeyBytesIn == ASSUME NEW k \in {Torn} \cup Keys PROVE KeyBytes(k) \in Keys
<1>1. CASE k = Torn
  BY <1>1, Constants DEF KeyBytes, Keys
<1>2. CASE k # Torn
  BY <1>2 DEF KeyBytes
<1> QED BY <1>1, <1>2

LEMMA IdleTask == Idle \in Tasks
BY DEF Idle, Tasks

LEMMA KeySet ==
  ASSUME NEW t \in Tasks, NEW k \in Keys
  PROVE  [t EXCEPT !.key = k] \in Tasks
BY DEF Tasks

LEMMA TodoSet ==
  ASSUME NEW t \in Tasks, NEW s \in SUBSET ({"code", "json"} \X Files)
  PROVE  [t EXCEPT !.todo = s] \in Tasks
BY DEF Tasks

(* What the end of an operation leaves. *)
LEMMA Ended ==
  ASSUME TypeOK, NEW w \in Workers, End(w)
  PROVE  /\ pc' \in [Workers -> Steps] /\ task' \in [Workers -> Tasks]
         /\ pc'[w] = "idle" /\ task'[w].op = "none"
         /\ \A u \in Workers \ {w} : pc'[u] = pc[u] /\ task'[u] = task[u]
<1>1. Idle.op = "none"
  BY DEF Idle
<1> QED BY <1>1, IdleTask DEF End, Goto, TypeOK, Steps

(* Start changes the task of w to t, and of the others nothing but alone. *)
LEMMA Started ==
  ASSUME TypeOK, NEW w \in Workers, NEW t \in Tasks, Start(w, t)
  PROVE  /\ task' \in [Workers -> Tasks]
         /\ \A u \in Workers :
              /\ task'[u].op = IF u = w THEN t.op ELSE task[u].op
              /\ task'[u].fn = IF u = w THEN t.fn ELSE task[u].fn
              /\ task'[u].ver = IF u = w THEN t.ver ELSE task[u].ver
              /\ task'[u].key = IF u = w THEN t.key ELSE task[u].key
<1> DEFINE apart(u) == \/ Touched(task[u]) = {}
                       \/ Touched(task[u]) \cap Touched(t) = {} /\ KeySettled
<1>1. task' = [u \in Workers |->
                 IF u = w THEN [t EXCEPT !.alone = Touched(t) # {} /\ \A v \in Workers \ {w} : apart(v)]
                          ELSE [task[u] EXCEPT !.alone = @ /\ apart(u)]]
  BY DEF Start
<1> HIDE DEF apart
<1>2. task \in [Workers -> Tasks]
  BY DEF TypeOK
<1>3. \A u \in Workers : (task[u].alone /\ apart(u)) \in BOOLEAN
  OBVIOUS
<1>4. (Touched(t) # {} /\ \A v \in Workers \ {w} : apart(v)) \in BOOLEAN
  OBVIOUS
<1> QED BY <1>1, <1>2, <1>3, <1>4 DEF Tasks

(* The tasks after the first step of a save and of a rollback. *)
LEMMA SaveStarted ==
  ASSUME TypeOK, NEW w \in Workers, NEW f \in Funcs, BeginSave(w, f)
  PROVE  /\ task' \in [Workers -> Tasks]
         /\ \A u \in Workers :
              IF u = w THEN task'[u].op = "save" /\ task'[u].fn = f /\ task'[u].ver = saves + 1
              ELSE /\ task'[u].op = task[u].op /\ task'[u].fn = task[u].fn
                   /\ task'[u].ver = task[u].ver /\ task'[u].key = task[u].key
<1> DEFINE t == [Idle EXCEPT !.op = "save", !.fn = f, !.ver = saves + 1]
<1>1. t.op = "save" /\ t.fn = f /\ t.ver = saves + 1
  BY DEF Idle
<1>2. saves + 1 \in Versions
  BY Constants DEF BeginSave, TypeOK, Versions
<1>3. t \in Tasks
  BY <1>2 DEF Idle, Tasks
<1>4. Start(w, t)
  BY DEF BeginSave
<1> HIDE DEF t
<1> QED BY <1>1, <1>3, <1>4, Started

LEMMA RollbackStarted ==
  ASSUME TypeOK, NEW w \in Workers, NEW n \in Names, BeginRollback(w, n)
  PROVE  /\ task' \in [Workers -> Tasks]
         /\ \A u \in Workers :
              IF u = w THEN task'[u].op = "rollback" /\ task'[u].fn = n
              ELSE /\ task'[u].op = task[u].op /\ task'[u].fn = task[u].fn
                   /\ task'[u].ver = task[u].ver /\ task'[u].key = task[u].key
<1> DEFINE t == [Idle EXCEPT !.op = "rollback", !.fn = n]
<1>1. t.op = "rollback" /\ t.fn = n
  BY DEF Idle
<1>2. t \in Tasks
  BY DEF Idle, Tasks
<1>3. Start(w, t)
  BY DEF BeginRollback
<1> HIDE DEF t
<1> QED BY <1>1, <1>2, <1>3, Started

LEMMA SlotIn == ASSUME NEW f \in Funcs PROVE Slot(f) \in Slots /\ Slot(f)[2] = Name[f]
BY Constants DEF Slot, Slots

(* The in-process part of a rollback puts a backup into a function of the  *)
(* name, or does nothing.                                                  *)
PutBack(w, n) ==
  \E k \in Slots, g \in Funcs :
    /\ k[2] = n /\ Name[g] = n /\ originals[ProcOf[w]][k] # Absent
    /\ live' = [live EXCEPT ![ProcOf[w]][g] = originals[ProcOf[w]][k]]
    /\ originals' = [originals EXCEPT ![ProcOf[w]][k] = Absent]

LEMMA Restores ==
  ASSUME NEW w \in Workers, NEW n \in Names, BeginRollback(w, n)
  PROVE  UNCHANGED memory \/ PutBack(w, n)
BY DEF BeginRollback, PutBack

LEMMA Nested ==
  ASSUME NEW P, NEW D, NEW V, NEW m \in [P -> [D -> V]], NEW p \in P, NEW d \in D, NEW v
  PROVE  \A q \in P, e \in D :
           [m EXCEPT ![p][d] = v][q][e] = IF q = p /\ e = d THEN v ELSE m[q][e]
OBVIOUS

----------------------------------------------------------------------------
(* A step keeps the types, given what the locals hold.                     *)
LEMMA Typing == TypeOK /\ Locals /\ [Next]_vars => TypeOK'
<1> SUFFICES ASSUME TypeOK /\ Locals, [Next]_vars PROVE TypeOK'
  OBVIOUS
<1> USE DEF TypeOK, Locals, Versions, Keys
<1>1. CASE UNCHANGED vars
  BY <1>1 DEF vars, files, memory, count, ghost
<1>2. ASSUME NEW w \in Workers, KeyCheck(w) PROVE TypeOK'
  BY <1>2, Constants DEF KeyCheck, Goto, files, memory, count, ghost, Steps
<1>3. ASSUME NEW w \in Workers, KeyLock(w) PROVE TypeOK'
  <2>1. CASE key = None
    <3>1. storeLock' \in [Procs -> Workers \cup {None}]
      BY <1>3, <2>1 DEF KeyLock, Take
    <3> QED BY <1>3, <2>1, <3>1 DEF KeyLock, Goto, Steps, files, memory, count, ghost
  <2>2. CASE key # None
    BY <1>3, <2>2, Constants DEF KeyLock, Goto, Steps, files, memory, count, ghost
  <2> QED BY <2>1, <2>2
<1>4. ASSUME NEW w \in Workers, KeyOpen(w) PROVE TypeOK'
  BY <1>4, Constants DEF KeyOpen, Goto, files, memory, count, ghost, Steps
<1>5. ASSUME NEW w \in Workers, KeyWrite(w) PROVE TypeOK'
  <2>1. key' \in {None, Torn} \cup Keys
    BY <1>5, Constants DEF KeyWrite, Tasks
  <2>2. storeLock' \in [Procs -> Workers \cup {None}]
    BY <1>5 DEF KeyWrite, Release
  <2> QED BY <1>5, <2>1, <2>2 DEF KeyWrite, Goto, Steps, files, memory, count, ghost
<1>6. ASSUME NEW w \in Workers, KeyRead(w) PROVE TypeOK'
  <2>1. KeyBytes(key) \in Keys
    BY <1>6, KeyBytesIn DEF KeyRead
  <2>2. task' \in [Workers -> Tasks]
    <3>1. [task[w] EXCEPT !.key = KeyBytes(key)] \in Tasks
      BY <2>1, KeySet
    <3> QED BY <1>6, <3>1 DEF KeyRead
  <2> QED BY <1>6, <2>2 DEF KeyRead, Goto, Steps, files, memory, count, ghost
<1>7. ASSUME NEW w \in Workers, CodeOpen(w) PROVE TypeOK'
  BY <1>7, Constants DEF CodeOpen, Goto, files, memory, count, ghost, Free, Take, Steps
<1>8. ASSUME NEW w \in Workers, CodeWrite(w) PROVE TypeOK'
  <2>1. File[task[w].fn] \in Files /\ task[w].ver \in Versions
    BY <1>8, Constants DEF CodeWrite, Tasks
  <2>2. code' \in [Files -> {None, Torn} \cup Versions]
    <3>1. PICK c \in Written(code[File[task[w].fn]], task[w].ver) :
            code' = [code EXCEPT ![File[task[w].fn]] = c]
      BY <1>8 DEF CodeWrite
    <3>2. c \in {None, Torn} \cup Versions
      BY <2>1, WrittenIn
    <3> QED BY <3>1, <3>2
  <2>3. storeLock' \in [Procs -> Workers \cup {None}]
    BY <1>8 DEF CodeWrite, Release
  <2>4. pc' \in [Workers -> Steps] /\ task' \in [Workers -> Tasks]
    BY <1>8, Ended DEF CodeWrite, Goto, Steps
  <2> QED BY <1>8, <2>2, <2>3, <2>4 DEF CodeWrite, files, memory, count, ghost
<1>9. ASSUME NEW w \in Workers, JsonOpen(w) PROVE TypeOK'
  BY <1>9, Constants DEF JsonOpen, Goto, files, memory, count, ghost, Free, Take, Steps
<1>10. ASSUME NEW w \in Workers, JsonWrite(w) PROVE TypeOK'
  <2>1. File[task[w].fn] \in Files /\ task[w].ver \in Versions /\ task[w].key \in Keys
    BY <1>10, Constants DEF JsonWrite, Tasks
  <2>2. json' \in [Files -> {None, Torn} \cup (Keys \X Versions)]
    <3>1. PICK c \in Written(json[File[task[w].fn]], <<task[w].key, task[w].ver>>) :
            json' = [json EXCEPT ![File[task[w].fn]] = c]
      BY <1>10 DEF JsonWrite
    <3>2. c \in {None, Torn} \cup (Keys \X Versions)
      BY <2>1, WrittenIn
    <3> QED BY <3>1, <3>2
  <2>3. storeLock' \in [Procs -> Workers \cup {None}]
    BY <1>10 DEF JsonWrite, Release
  <2>4. pc' \in [Workers -> Steps] /\ task' \in [Workers -> Tasks]
    BY <1>10, Ended DEF JsonWrite
  <2>5. clean' \in [Files -> {None} \cup Versions]
    BY <1>10, <2>1 DEF JsonWrite
  <2> QED BY <1>10, <2>2, <2>3, <2>4, <2>5 DEF JsonWrite, files, memory, count, ghost
<1>11. ASSUME NEW w \in Workers, ReadMeta(w) PROVE TypeOK'
  <2>1. pc' \in [Workers -> Steps] /\ task' \in [Workers -> Tasks]
    BY <1>11, Ended DEF ReadMeta, Goto, Steps
  <2> QED BY <1>11, <2>1 DEF ReadMeta, files, memory, count, ghost
<1>12. ASSUME NEW w \in Workers, Apply(w) PROVE TypeOK'
  <2>1. live' \in [Procs -> [Funcs -> Funcs \cup Versions]]
    BY <1>12 DEF Apply
  <2>2. pc' \in [Workers -> Steps] /\ task' \in [Workers -> Tasks]
    BY <1>12, Ended DEF Apply
  <2> QED BY <1>12, <2>1, <2>2 DEF Apply, files, memory, count, ghost
<1>13. ASSUME NEW w \in Workers, ListFiles(w) PROVE TypeOK'
  <2>1. task[w].fn \in Names /\ Matching[task[w].fn] \subseteq Files
    BY <1>13, Constants DEF ListFiles
  <2>2. task' \in [Workers -> Tasks]
    <3> DEFINE s == {<<"code", g>> : g \in {h \in Matching[task[w].fn] : code[h] # None}}
                      \cup {<<"json", g>> : g \in {h \in Matching[task[w].fn] : json[h] # None}}
    <3>1. s \in SUBSET ({"code", "json"} \X Files)
      BY <2>1
    <3>2. [task[w] EXCEPT !.todo = s] \in Tasks
      BY <3>1, TodoSet
    <3>3. task' = [task EXCEPT ![w].todo = s]
      BY <1>13 DEF ListFiles
    <3> HIDE DEF s
    <3> QED BY <3>2, <3>3
  <2> QED BY <1>13, <2>2 DEF ListFiles, Goto, Steps, files, memory, count, ghost
<1>14. ASSUME NEW w \in Workers, EndRollback(w) PROVE TypeOK'
  <2>1. pc' \in [Workers -> Steps] /\ task' \in [Workers -> Tasks]
    BY <1>14, Ended DEF EndRollback
  <2> QED BY <1>14, <2>1 DEF EndRollback, files, memory, count, ghost
<1>15. ASSUME NEW w \in Workers, NEW x \in {"code", "json"} \X Files, RemoveFile(w, x) PROVE TypeOK'
  <2>1. code' \in [Files -> {None, Torn} \cup Versions]
    BY <1>15 DEF RemoveFile
  <2>2. json' \in [Files -> {None, Torn} \cup (Keys \X Versions)]
    BY <1>15 DEF RemoveFile
  <2>3. pc' \in [Workers -> Steps] /\ task' \in [Workers -> Tasks]
    <3>1. CASE End(w)
      BY <3>1, Ended
    <3>2. CASE task' = [task EXCEPT ![w].todo = @ \ {x}] /\ UNCHANGED pc
      <4>1. task[w].todo \ {x} \in SUBSET ({"code", "json"} \X Files)
        BY DEF Tasks
      <4>2. [task[w] EXCEPT !.todo = task[w].todo \ {x}] \in Tasks
        BY <4>1, TodoSet
      <4> QED BY <3>2, <4>2
    <3> QED BY <1>15, <3>1, <3>2 DEF RemoveFile
  <2> QED BY <1>15, <2>1, <2>2, <2>3 DEF RemoveFile, files, memory, count, ghost
<1>16. ASSUME NEW w \in Workers, NEW f \in Funcs, BeginSave(w, f) PROVE TypeOK'
  <2>1. ProcOf[w] \in Procs /\ saves + 1 \in Versions /\ saves + 1 \in 0 .. MaxSaves
    BY <1>16, Constants DEF BeginSave
  <2>2. live' \in [Procs -> [Funcs -> Funcs \cup Versions]]
    BY <1>16, <2>1 DEF BeginSave
  <2>3. originals' \in [Procs -> [Slots -> {Absent} \cup Funcs \cup Versions]]
    BY <1>16, <2>1, SlotIn DEF BeginSave
  <2>4. offered' \in [Funcs -> SUBSET Versions] /\ clean' \in [Files -> {None} \cup Versions]
    BY <1>16, <2>1 DEF BeginSave
  <2>5. task' \in [Workers -> Tasks]
    BY <1>16, SaveStarted
  <2> QED BY <1>16, <2>1, <2>2, <2>3, <2>4, <2>5 DEF BeginSave, Goto, Steps, files, memory, count, ghost
<1>17. ASSUME NEW w \in Workers, NEW f \in Funcs, BeginLoad(w, f) PROVE TypeOK'
  <2>1. loads + 1 \in 0 .. MaxLoads
    BY <1>17, Constants DEF BeginLoad
  <2>2. task' \in [Workers -> Tasks]
    <3>1. code[File[f]] \in {None, Torn} \cup Versions
      BY Constants
    <3> QED BY <1>17, <3>1 DEF BeginLoad, Idle, Tasks
  <2> QED BY <1>17, <2>1, <2>2 DEF BeginLoad, Goto, Steps, files, memory, count, ghost
<1>18. ASSUME NEW w \in Workers, NEW n \in Names, BeginRollback(w, n) PROVE TypeOK'
  <2>1. ProcOf[w] \in Procs /\ rollbacks + 1 \in 0 .. MaxRollbacks
    BY <1>18, Constants DEF BeginRollback
  <2>6. UNCHANGED memory \/ PutBack(w, n)
    BY <1>18, Restores
  <2>7. ProcOf[w] \in Procs
    BY Constants
  <2>8. ASSUME PutBack(w, n)
        PROVE  /\ live' \in [Procs -> [Funcs -> Funcs \cup Versions]]
               /\ originals' \in [Procs -> [Slots -> {Absent} \cup Funcs \cup Versions]]
    <3>1. PICK k \in Slots, g \in Funcs :
            /\ originals[ProcOf[w]][k] # Absent
            /\ live' = [live EXCEPT ![ProcOf[w]][g] = originals[ProcOf[w]][k]]
            /\ originals' = [originals EXCEPT ![ProcOf[w]][k] = Absent]
      BY <2>8 DEF PutBack
    <3>2. originals[ProcOf[w]][k] \in Funcs \cup Versions
      BY <2>7, <3>1
    <3> QED BY <2>7, <3>1, <3>2
  <2>2. live' \in [Procs -> [Funcs -> Funcs \cup Versions]]
    BY <2>6, <2>8 DEF memory
  <2>3. originals' \in [Procs -> [Slots -> {Absent} \cup Funcs \cup Versions]]
    BY <2>6, <2>8 DEF memory
  <2>4. clean' \in [Files -> {None} \cup Versions]
    BY <1>18 DEF BeginRollback
  <2>5. task' \in [Workers -> Tasks]
    BY <1>18, RollbackStarted
  <2> QED BY <1>18, <2>1, <2>2, <2>3, <2>4, <2>5 DEF BeginRollback, Goto, Steps, files, memory, count, ghost
<1>19. ASSUME NEW p \in Procs, Crash(p) PROVE TypeOK'
  <2>1. crashes + 1 \in 0 .. MaxCrashes
    BY <1>19, Constants DEF Crash
  <2>2. pc' \in [Workers -> Steps] /\ task' \in [Workers -> Tasks]
    BY <1>19, IdleTask DEF Crash, Steps
  <2>3. /\ live' \in [Procs -> [Funcs -> Funcs \cup Versions]]
        /\ originals' \in [Procs -> [Slots -> {Absent} \cup Funcs \cup Versions]]
        /\ storeLock' \in [Procs -> Workers \cup {None}]
    BY <1>19 DEF Crash
  <2> QED BY <1>19, <2>1, <2>2, <2>3 DEF Crash, files, memory, count, ghost
<1> QED BY <1>1, <1>2, <1>3, <1>4, <1>5, <1>6, <1>7, <1>8, <1>9, <1>10, <1>11, <1>12, <1>13, <1>14, <1>15, <1>16, <1>17, <1>18, <1>19 DEF Next, Step

----------------------------------------------------------------------------
(* A step keeps what the locals hold.                                      *)
LEMMA LocalsKept == TypeOK /\ Locals /\ [Next]_vars => Locals'
<1> SUFFICES ASSUME TypeOK /\ Locals, [Next]_vars PROVE Locals'
  OBVIOUS
<1> USE DEF TypeOK, Locals, Tasks, Steps, Versions, Keys
<1>1. CASE UNCHANGED vars
  BY <1>1 DEF vars, files, memory, count, ghost
<1>2. ASSUME NEW w \in Workers, KeyCheck(w) PROVE Locals'
  BY <1>2, Constants DEF KeyCheck, Goto, files, memory, count, ghost
<1>3. ASSUME NEW w \in Workers, KeyLock(w) PROVE Locals'
  BY <1>3, Constants DEF KeyLock, Goto, files, memory, count, ghost, Free, Take
<1>4. ASSUME NEW w \in Workers, KeyOpen(w) PROVE Locals'
  BY <1>4, Constants DEF KeyOpen, Goto, files, memory, count, ghost
<1>5. ASSUME NEW w \in Workers, KeyWrite(w) PROVE Locals'
  BY <1>5, Constants DEF KeyWrite, Goto, files, memory, count, ghost, Release
<1>6. ASSUME NEW w \in Workers, KeyRead(w) PROVE Locals'
  BY <1>6, Constants DEF KeyRead, Goto, files, memory, count, ghost, KeyBytes
<1>7. ASSUME NEW w \in Workers, CodeOpen(w) PROVE Locals'
  BY <1>7, Constants DEF CodeOpen, Goto, files, memory, count, ghost, Free, Take
<1>8. ASSUME NEW w \in Workers, CodeWrite(w) PROVE Locals'
  <2>1. CASE End(w)
    BY <1>8, <2>1, Ended DEF CodeWrite, files, memory, count, ghost
  <2>2. CASE Goto(w, "json") /\ UNCHANGED task
    BY <1>8, <2>2 DEF CodeWrite, Goto, files, memory, count, ghost
  <2> QED BY <1>8, <2>1, <2>2 DEF CodeWrite
<1>9. ASSUME NEW w \in Workers, JsonOpen(w) PROVE Locals'
  BY <1>9, Constants DEF JsonOpen, Goto, files, memory, count, ghost, Free, Take
<1>10. ASSUME NEW w \in Workers, JsonWrite(w) PROVE Locals'
  BY <1>10, Constants DEF JsonWrite, Goto, files, memory, count, ghost, Release, End, Idle
<1>11. ASSUME NEW w \in Workers, ReadMeta(w) PROVE Locals'
  <2>1. CASE End(w)
    BY <1>11, <2>1, Ended DEF ReadMeta, files, memory, count, ghost
  <2>2. CASE /\ json[File[task[w].fn]] = <<task[w].key, task[w].ver>>
             /\ Goto(w, "apply") /\ UNCHANGED task
    <3>1. json[File[task[w].fn]] \in Keys \X Versions
      <4>1. <<task[w].key, task[w].ver>> \notin {None, Torn}
        BY <1>11, NoPair, Ended DEF ReadMeta
      <4>2. File[task[w].fn] \in Files
        BY <1>11, Constants DEF ReadMeta
      <4> QED BY <2>2, <4>1, <4>2
    <3>2. task[w].ver \in Versions
      BY <2>2, <3>1
    <3> QED BY <1>11, <2>2, <3>2 DEF ReadMeta, Goto, files, memory, count, ghost
  <2> QED BY <1>11, <2>1, <2>2 DEF ReadMeta
<1>12. ASSUME NEW w \in Workers, Apply(w) PROVE Locals'
  BY <1>12, Constants DEF Apply, Goto, files, memory, count, ghost, End, Idle
<1>13. ASSUME NEW w \in Workers, ListFiles(w) PROVE Locals'
  BY <1>13, Constants DEF ListFiles, Goto, files, memory, count, ghost
<1>14. ASSUME NEW w \in Workers, EndRollback(w) PROVE Locals'
  BY <1>14, Constants DEF EndRollback, Goto, files, memory, count, ghost, End, Idle
<1>15. ASSUME NEW w \in Workers, NEW x \in {"code", "json"} \X Files, RemoveFile(w, x) PROVE Locals'
  <2>1. CASE End(w)
    BY <1>15, <2>1, Ended DEF RemoveFile, files, memory, count, ghost
  <2>2. CASE task' = [task EXCEPT ![w].todo = @ \ {x}] /\ UNCHANGED pc
    BY <1>15, <2>2 DEF RemoveFile, files, memory, count, ghost
  <2> QED BY <1>15, <2>1, <2>2 DEF RemoveFile
<1>16. ASSUME NEW w \in Workers, NEW f \in Funcs, BeginSave(w, f) PROVE Locals'
  <2>1. saves + 1 \in Versions
    BY <1>16, Constants DEF BeginSave
  <2>2. pc' = [pc EXCEPT ![w] = "key"] /\ key' = key
    BY <1>16 DEF BeginSave, Goto, files
  <2> QED BY <2>1, <2>2, <1>16, SaveStarted
<1>17. ASSUME NEW w \in Workers, NEW f \in Funcs, BeginLoad(w, f) PROVE Locals'
  BY <1>17, Constants DEF BeginLoad, Goto, files, memory, count, ghost, Idle
<1>18. ASSUME NEW w \in Workers, NEW n \in Names, BeginRollback(w, n) PROVE Locals'
  <2>1. pc' = [pc EXCEPT ![w] = "list"] /\ key' = key
    BY <1>18 DEF BeginRollback, Goto, files
  <2> QED BY <2>1, <1>18, RollbackStarted
<1>19. ASSUME NEW p \in Procs, Crash(p) PROVE Locals'
  BY <1>19, Constants DEF Crash, Idle, files, memory, count, ghost
<1> QED BY <1>1, <1>2, <1>3, <1>4, <1>5, <1>6, <1>7, <1>8, <1>9, <1>10, <1>11, <1>12, <1>13, <1>14, <1>15, <1>16, <1>17, <1>18, <1>19 DEF Next, Step

----------------------------------------------------------------------------
(* A step spreads a version only among kin.                                *)

LEMMA Fits ==
  ASSUME TypeOK, NEW f \in Funcs, NEW g \in Funcs, Kin[g] = Kin[f]
  PROVE  /\ f \in Cache!Fitting(f) /\ offered[f] \subseteq Cache!Fitting(f)
         /\ \A x : x \in Cache!Fitting(g) => x \in Cache!Fitting(f)
<1>1. offered[f] \subseteq Versions
  BY DEF TypeOK
<1> QED BY <1>1 DEF Cache!Fitting

LEMMA Related ==
  ASSUME NEW f \in Funcs, NEW g \in Funcs, File[f] = File[g] \/ Name[f] = Name[g]
  PROVE  Kin[g] = Kin[f]
BY PatchStoreAssumption

LEMMA FitsSame ==
  ASSUME UNCHANGED offered, NEW f \in Funcs
  PROVE  Cache!Fitting(f)' = Cache!Fitting(f)
BY DEF Cache!Fitting

LEMMA FitsStill ==
  ASSUME \A g \in Funcs : offered[g] \subseteq offered'[g], NEW f \in Funcs,
         NEW x \in Cache!Fitting(f)
  PROVE  x \in Cache!Fitting(f)'
BY DEF Cache!Fitting

LEMMA ProvenanceKept == Inv /\ [Next]_vars => Provenance'
<1> SUFFICES ASSUME Inv, [Next]_vars PROVE Provenance'
  OBVIOUS
<1> USE DEF Inv, Locals, Tasks
<1>0. TypeOK /\ pc \in [Workers -> Steps] /\ task \in [Workers -> Tasks]
  BY DEF TypeOK
<1> DEFINE filed  == \A f \in Funcs : code[File[f]] \in Versions => code[File[f]] \in Cache!Fitting(f)
           runs   == \A f \in Funcs, p \in Procs : live[p][f] \in Cache!Fitting(f)
           backed == \A f \in Funcs, p \in Procs, k \in Slots :
                       k[2] = Name[f] /\ originals[p][k] # Absent => originals[p][k] \in Cache!Fitting(f)
           held(w) == task[w].op \in {"save", "load"} /\ task[w].ver \in Versions
                        => task[w].ver \in Cache!Fitting(task[w].fn)
           counted == \A f \in Funcs : \A v \in offered[f] : v <= saves
<1>a. filed /\ runs /\ backed /\ counted /\ \A w \in Workers : held(w)
  BY DEF Provenance
<1>b. filed' /\ runs' /\ backed' /\ counted' /\ (\A w \in Workers : held(w)') => Provenance'
  BY DEF Provenance
<1>c. UNCHANGED offered => \A f \in Funcs : Cache!Fitting(f)' = Cache!Fitting(f)
  BY FitsSame
<1>d. \A w \in Workers : task[w].op \in {"save", "load"} => task[w].fn \in Funcs
  BY <1>0 DEF Steps
(* The parts a step leaves alone. *)
<1>e. UNCHANGED <<offered, code>> => filed'
  BY <1>a, <1>c
<1>f. UNCHANGED <<offered, memory>> => runs' /\ backed'
  BY <1>a, <1>c DEF memory
<1>g. UNCHANGED <<offered, saves>> => counted'
  BY <1>a
<1>h. UNCHANGED offered =>
        \A w \in Workers : \/ task'[w].op = "none"
                           \/ task'[w].op = "rollback"
                           \/ /\ task'[w].op = task[w].op /\ task'[w].fn = task[w].fn
                              /\ task'[w].ver = task[w].ver
                           => held(w)'
  BY <1>a, <1>c, <1>d
<1> HIDE DEF filed, runs, backed, counted, held
<1>1. CASE UNCHANGED vars
  BY <1>1, <1>b, <1>e, <1>f, <1>g, <1>h DEF vars, files, count, ghost
<1>2. ASSUME NEW w \in Workers, KeyCheck(w) \/ KeyLock(w) \/ KeyOpen(w) \/ KeyWrite(w)
      PROVE  Provenance'
  BY <1>2, <1>b, <1>e, <1>f, <1>g, <1>h
     DEF KeyCheck, KeyLock, KeyOpen, KeyWrite, files, count, ghost
<1>3. ASSUME NEW w \in Workers, KeyRead(w) \/ ListFiles(w) PROVE Provenance'
  <2>1. UNCHANGED <<offered, code, memory, saves>>
    BY <1>3 DEF KeyRead, ListFiles, files, count, ghost
  <2>2. \A u \in Workers : /\ task'[u].op = task[u].op /\ task'[u].fn = task[u].fn
                           /\ task'[u].ver = task[u].ver
    BY <1>0, <1>3 DEF KeyRead, ListFiles
  <2> QED BY <2>1, <2>2, <1>b, <1>e, <1>f, <1>g, <1>h
<1>4. ASSUME NEW w \in Workers, CodeOpen(w) \/ CodeWrite(w) PROVE Provenance'
  <2>1. UNCHANGED <<offered, memory, saves>>
    BY <1>4 DEF CodeOpen, CodeWrite, count, ghost
  <2>2. task[w].fn \in Funcs /\ task[w].op = "save" /\ task[w].ver \in Versions
    BY <1>4 DEF CodeOpen, CodeWrite
  <2>3. task[w].ver \in Cache!Fitting(task[w].fn)
    BY <2>2, <1>a DEF held
  <2>4. PICK c : /\ c \in {None, Torn, code[File[task[w].fn]], task[w].ver}
                 /\ code' = [code EXCEPT ![File[task[w].fn]] = c]
    <3>1. CASE CodeOpen(w)
      BY <3>1 DEF CodeOpen
    <3>2. CASE CodeWrite(w)
      <4>1. PICK c \in Written(code[File[task[w].fn]], task[w].ver) :
              code' = [code EXCEPT ![File[task[w].fn]] = c]
        BY <3>2 DEF CodeWrite
      <4>2. c \in {None, Torn, code[File[task[w].fn]], task[w].ver}
        BY WrittenIn
      <4> QED BY <4>1, <4>2
    <3> QED BY <1>4, <3>1, <3>2
  <2>5. ASSUME NEW f \in Funcs, code'[File[f]] \in Versions PROVE code'[File[f]] \in Cache!Fitting(f)
    <3>1. code \in [Files -> {None, Torn} \cup Versions] /\ File[f] \in Files
      BY <1>0, Constants DEF TypeOK
    <3>2. None \notin Versions /\ Torn \notin Versions
      BY Constants DEF Versions
    <3>3. CASE code'[File[f]] = code[File[f]]
      BY <2>5, <3>3, <1>a DEF filed
    <3>4. CASE code'[File[f]] # code[File[f]]
      <4>1. File[f] = File[task[w].fn] /\ code'[File[f]] = task[w].ver
        BY <2>4, <2>5, <3>1, <3>2, <3>4
      <4>2. Kin[task[w].fn] = Kin[f]
        BY <2>2, <4>1, Related
      <4> QED BY <2>2, <2>3, <4>1, <4>2, <1>0, Fits
    <3> QED BY <3>3, <3>4
  <2>6. filed'
    BY <2>1, <2>5, <1>c DEF filed
  <2>7. \A u \in Workers : task'[u] = task[u] \/ task'[u].op = "none"
    BY <1>0, <1>4, Ended DEF CodeOpen, CodeWrite
  <2> QED BY <2>1, <2>6, <2>7, <1>b, <1>f, <1>g, <1>h
<1>5. ASSUME NEW w \in Workers, JsonOpen(w) \/ JsonWrite(w) \/ ReadMeta(w) \/ EndRollback(w)
      PROVE  Provenance'
  <2>1. UNCHANGED <<offered, code, memory, saves>>
    BY <1>5 DEF JsonOpen, JsonWrite, ReadMeta, EndRollback, files, count, ghost
  <2>2. \A u \in Workers : task'[u] = task[u] \/ task'[u].op = "none"
    BY <1>0, <1>5, Ended DEF JsonOpen, JsonWrite, ReadMeta, EndRollback
  <2> QED BY <2>1, <2>2, <1>b, <1>e, <1>f, <1>g, <1>h
<1>6. ASSUME NEW w \in Workers, Apply(w) PROVE Provenance'
  <2>1. UNCHANGED <<offered, code, originals, saves>>
    BY <1>6 DEF Apply, files, count, ghost
  <2>2. \A u \in Workers : task'[u] = task[u] \/ task'[u].op = "none"
    BY <1>0, <1>6, Ended DEF Apply
  <2>3. task[w].ver \in Cache!Fitting(task[w].fn)
    BY <1>6, <1>a DEF Apply, held
  <2>4. live' = [live EXCEPT ![ProcOf[w]][task[w].fn] = task[w].ver]
    BY <1>6 DEF Apply
  <2>5. \A f \in Funcs, p \in Procs : live'[p][f] \in Cache!Fitting(f)
    BY <2>3, <2>4, <1>0, <1>a DEF TypeOK, runs
  <2>6. runs' /\ backed'
    BY <2>1, <2>5, <1>a, <1>c DEF runs, backed
  <2> QED BY <2>1, <2>2, <2>6, <1>b, <1>e, <1>g, <1>h
<1>7. ASSUME NEW w \in Workers, NEW x \in {"code", "json"} \X Files, RemoveFile(w, x)
      PROVE  Provenance'
  <2>1. UNCHANGED <<offered, memory, saves>>
    BY <1>7 DEF RemoveFile, count, ghost
  <2>2. \A u \in Workers :
           \/ task'[u].op = "none"
           \/ task'[u].op = task[u].op /\ task'[u].fn = task[u].fn /\ task'[u].ver = task[u].ver
    <3>1. CASE End(w)
      BY <3>1, <1>0, Ended
    <3>2. CASE task' = [task EXCEPT ![w].todo = @ \ {x}] /\ UNCHANGED pc
      BY <3>2, <1>0
    <3> QED BY <1>7, <3>1, <3>2 DEF RemoveFile
  <2>3. \A f \in Funcs : code'[File[f]] = code[File[f]] \/ code'[File[f]] = None
    BY <1>0, <1>7, Constants DEF RemoveFile, TypeOK
  <2>4. None \notin Versions
    BY Constants DEF Versions
  <2>5. filed'
    BY <2>1, <2>3, <2>4, <1>a, <1>c DEF filed
  <2> QED BY <2>1, <2>2, <2>5, <1>b, <1>f, <1>g, <1>h
<1>8. ASSUME NEW w \in Workers, NEW f \in Funcs, BeginSave(w, f) PROVE Provenance'
  <2>1. saves \in Nat /\ saves' = saves + 1 /\ saves + 1 \in Versions /\ ProcOf[w] \in Procs
    BY <1>0, <1>8, Constants DEF BeginSave, TypeOK, Versions
  <2>2. offered' = [offered EXCEPT ![f] = offered[f] \cup {saves + 1}]
    BY <1>8 DEF BeginSave
  <2>3. \A g \in Funcs : offered[g] \subseteq offered'[g]
    BY <2>2, <1>0 DEF TypeOK
  <2>4. saves + 1 \in offered'[f]
    BY <2>2, <1>0 DEF TypeOK
  <2>5. \A g \in Funcs : \A x : x \in Cache!Fitting(g) => x \in Cache!Fitting(g)'
    BY <2>3, FitsStill
  <2>6. saves + 1 \in Cache!Fitting(f)'
    BY <2>1, <2>4 DEF Cache!Fitting
  <2>7. filed'
    <3>1. code' = code
      BY <1>8 DEF BeginSave, files
    <3> QED BY <3>1, <2>5, <1>a DEF filed
  <2>8. runs'
    <3>1. live' = [live EXCEPT ![ProcOf[w]][f] = saves + 1]
      BY <1>8, <2>1 DEF BeginSave
    <3>2. \A g \in Funcs, p \in Procs :
             \/ live'[p][g] = live[p][g]
             \/ g = f /\ live'[p][g] = saves + 1
      BY <3>1, <1>0 DEF TypeOK
    <3> QED BY <3>2, <2>5, <2>6, <1>a DEF runs
  <2>9. backed'
    <3>1. originals' = [originals EXCEPT ![ProcOf[w]][Slot(f)] = IF @ = Absent THEN live[ProcOf[w]][f] ELSE @]
      BY <1>8 DEF BeginSave
    <3>2. \A p \in Procs, k \in Slots :
             \/ originals'[p][k] = originals[p][k]
             \/ p = ProcOf[w] /\ k = Slot(f) /\ originals'[p][k] = live[p][f]
      BY <3>1, <1>0 DEF TypeOK
    <3>3. ASSUME NEW g \in Funcs, NEW p \in Procs, NEW k \in Slots,
                 k[2] = Name[g], originals'[p][k] # Absent
          PROVE  originals'[p][k] \in Cache!Fitting(g)'
      <4>1. CASE originals'[p][k] = originals[p][k]
        BY <3>3, <4>1, <2>5, <1>a DEF backed
      <4>2. CASE k = Slot(f) /\ originals'[p][k] = live[p][f]
        <5>1. Kin[f] = Kin[g]
          BY <3>3, <4>2, SlotIn, Related
        <5>2. live[p][f] \in Cache!Fitting(g)
          BY <5>1, <1>0, <1>a, Fits DEF runs
        <5> QED BY <4>2, <5>2, <2>5
      <4> QED BY <3>2, <4>1, <4>2
    <3> QED BY <3>3 DEF backed
  <2>10. counted'
    <3>1. ASSUME NEW g \in Funcs, NEW v \in offered'[g] PROVE v <= saves'
      <4>1. v \in offered[g] \/ v = saves + 1
        BY <2>2, <3>1, <1>0 DEF TypeOK
      <4>2. v \in offered[g] => v \in Nat /\ v <= saves
        BY <1>0, <1>a DEF TypeOK, counted, Versions
      <4> QED BY <4>1, <4>2, <2>1
    <3> QED BY <3>1 DEF counted
  <2>11. ASSUME NEW u \in Workers PROVE held(u)'
    <3>1. CASE u = w
      BY <1>8, <2>6, <3>1, <1>0, SaveStarted DEF held
    <3>2. CASE u # w
      BY <1>8, <2>5, <3>2, <1>0, <1>a, <1>d, SaveStarted DEF held
    <3> QED BY <3>1, <3>2
  <2> QED BY <2>7, <2>8, <2>9, <2>10, <2>11, <1>b
<1>9. ASSUME NEW w \in Workers, NEW f \in Funcs, BeginLoad(w, f) PROVE Provenance'
  <2>1. UNCHANGED <<offered, code, memory, saves>>
    BY <1>9 DEF BeginLoad, files, ghost
  <2>2. /\ \A u \in Workers \ {w} : task'[u] = task[u]
        /\ task'[w].fn = f /\ task'[w].ver = code[File[f]]
    BY <1>0, <1>9 DEF BeginLoad, Idle
  <2>3. held(w)'
    BY <2>1, <2>2, <1>a, <1>c DEF filed, held
  <2>4. \A u \in Workers \ {w} : held(u)'
    BY <2>1, <2>2, <1>h
  <2> QED BY <2>1, <2>3, <2>4, <1>b, <1>e, <1>f, <1>g
<1>10. ASSUME NEW w \in Workers, NEW n \in Names, BeginRollback(w, n) PROVE Provenance'
  <2>1. UNCHANGED <<offered, code, saves>>
    BY <1>10 DEF BeginRollback, files
  <2>2. \A u \in Workers :
           \/ task'[u].op = "rollback"
           \/ task'[u].op = task[u].op /\ task'[u].fn = task[u].fn /\ task'[u].ver = task[u].ver
    BY <1>0, <1>10, RollbackStarted
  <2>3. ASSUME NEW k \in Slots, NEW g \in Funcs, k[2] = n, Name[g] = n,
               originals[ProcOf[w]][k] # Absent,
               live' = [live EXCEPT ![ProcOf[w]][g] = originals[ProcOf[w]][k]],
               originals' = [originals EXCEPT ![ProcOf[w]][k] = Absent]
        PROVE  runs' /\ backed'
    <3>1. ProcOf[w] \in Procs
      BY Constants
    <3>2. originals[ProcOf[w]][k] \in Cache!Fitting(g)
      BY <2>3, <3>1, <1>a DEF backed
    <3>3. \A f \in Funcs, p \in Procs :
             \/ live'[p][f] = live[p][f]
             \/ f = g /\ live'[p][f] = originals[ProcOf[w]][k]
      <4>1. live \in [Procs -> [Funcs -> Funcs \cup Versions]]
        BY <1>0 DEF TypeOK
      <4> QED BY <2>3, <3>1, <4>1, Nested
    <3>4. \A p \in Procs, j \in Slots :
             originals'[p][j] = originals[p][j] \/ originals'[p][j] = Absent
      <4>1. originals \in [Procs -> [Slots -> {Absent} \cup Funcs \cup Versions]]
        BY <1>0 DEF TypeOK
      <4> QED BY <2>3, <3>1, <4>1, Nested
    <3>5. runs'
      BY <3>2, <3>3, <2>1, <1>a, <1>c DEF runs
    <3>6. backed'
      BY <3>4, <2>1, <1>a, <1>c DEF backed
    <3> QED BY <3>5, <3>6
  <2>4. runs' /\ backed'
    <3>1. CASE UNCHANGED memory
      BY <2>1, <3>1, <1>f
    <3>2. CASE PutBack(w, n)
      <4>1. PICK k \in Slots, g \in Funcs :
              /\ k[2] = n /\ Name[g] = n /\ originals[ProcOf[w]][k] # Absent
              /\ live' = [live EXCEPT ![ProcOf[w]][g] = originals[ProcOf[w]][k]]
              /\ originals' = [originals EXCEPT ![ProcOf[w]][k] = Absent]
        BY <3>2 DEF PutBack
      <4> QED BY <2>3, <4>1
    <3> QED BY <1>10, <3>1, <3>2, Restores
  <2> QED BY <2>1, <2>2, <2>4, <1>b, <1>e, <1>g, <1>h
<1>11. ASSUME NEW p \in Procs, Crash(p) PROVE Provenance'
  <2>1. UNCHANGED <<offered, code, saves>>
    BY <1>11 DEF Crash, files, ghost
  <2>2. \A u \in Workers : task'[u] = task[u] \/ task'[u].op = "none"
    BY <1>11, <1>0 DEF Crash, Idle
  <2>3. \A f \in Funcs, q \in Procs : live'[q][f] = live[q][f] \/ live'[q][f] = f
    BY <1>11, <1>0 DEF Crash, TypeOK
  <2>4. \A k \in Slots, q \in Procs :
           originals'[q][k] = originals[q][k] \/ originals'[q][k] = Absent
    BY <1>11, <1>0 DEF Crash, TypeOK
  <2>5. \A f \in Funcs : f \in Cache!Fitting(f)
    BY <1>0, Fits
  <2>6. runs' /\ backed'
    BY <2>1, <2>3, <2>4, <2>5, <1>a, <1>c DEF runs, backed
  <2> QED BY <2>1, <2>2, <2>6, <1>b, <1>e, <1>g, <1>h
<1> QED BY <1>1, <1>2, <1>3, <1>4, <1>5, <1>6, <1>7, <1>8, <1>9, <1>10, <1>11 DEF Next, Step

----------------------------------------------------------------------------
(* The theorems.                                                           *)

LEMMA InitInv == Init => Inv
<1> SUFFICES ASSUME Init PROVE Inv
  OBVIOUS
<1>1. key \in {None, Torn} \cup Keys
  BY Constants DEF Init, Keys
<1>2. TypeOK
  BY <1>1, IdleTask, Constants DEF Init, TypeOK, Steps, Versions
<1>3. Idle.op = "none"
  BY DEF Idle
<1>4. Locals
  BY <1>3 DEF Init, Locals
<1>5. Provenance
  <2>1. \A f \in Funcs : f \in Cache!Fitting(f)
    BY <1>2, Fits
  <2> QED BY <1>3, <2>1, Constants DEF Init, Provenance, Versions
<1> QED BY <1>2, <1>4, <1>5 DEF Inv

LEMMA Invariance == Spec => []Inv
<1>1. Inv /\ [Next]_vars => Inv'
  BY Typing, LocalsKept, ProvenanceKept DEF Inv
<1> QED BY <1>1, InitInv, PTL DEF Spec

(* The store's files, the locks and the locals of every operation have     *)
(* their types, for any number of processes, threads and functions.        *)
THEOREM TypeCorrect == Spec => []TypeOK
<1>1. Inv => TypeOK
  BY DEF Inv
<1> QED BY <1>1, Invariance, PTL

----------------------------------------------------------------------------
(* Operations that are alone.                                              *)

(* What a step of w does to the operations and to the files that its       *)
(* operation does not touch.                                               *)
Effect(w) ==
  /\ \A u \in Workers \ {w} : pc'[u] = pc[u] /\ task'[u] = task[u]
  /\ \/ pc'[w] = "idle" /\ task'[w] = Idle
     \/ /\ task'[w].op = task[w].op /\ task'[w].fn = task[w].fn
        /\ task'[w].ver = task[w].ver /\ task'[w].alone = task[w].alone
  /\ \A l \in Files \ Touched(task[w]) : code'[l] = code[l] /\ json'[l] = json[l]
  /\ key' = key \/ pc[w] \in {"keyopen", "keywrite"}

(* An operation that touches files starts in w.                            *)
Launch(w) ==
  /\ task'[w].op \in {"save", "rollback"} /\ (task'[w].alone => Touched(task'[w]) # {})
  /\ pc'[w] \in {"key", "list"}
  /\ \A u \in Workers \ {w} :
       /\ pc'[u] = pc[u] /\ task'[u].op = task[u].op /\ task'[u].fn = task[u].fn
       /\ task'[u].ver = task[u].ver /\ task'[u].key = task[u].key
       /\ task'[u].todo = task[u].todo /\ (task'[u].alone => task[u].alone)
       /\ task'[u].alone \/ task'[w].alone =>
            \/ Touched(task[u]) = {}
            \/ Touched(task[u]) \cap Touched(task'[w]) = {} /\ KeySettled
  /\ \A l \in Files : clean'[l] # None => clean'[l] = clean[l] /\ l \notin Touched(task'[w])
  /\ UNCHANGED files

(* Nothing that touches files starts or goes on: operations go on      *)
(* waiting, end, or a load begins.                                         *)
Wait ==
  /\ \A u \in Workers :
       \/ pc'[u] = pc[u] /\ task'[u] = task[u]
       \/ /\ pc'[u] \in {"idle", "key"} /\ task'[u].op \in {"none", "load"}
          /\ task'[u].alone = FALSE
          /\ task'[u].op = "load" => \E l \in Files : code[l] # None
  /\ UNCHANGED <<files, clean>>

LEMMA TouchedIs ==
  ASSUME NEW t
  PROVE  /\ t.op = "save" => Touched(t) = {File[t.fn]}
         /\ t.op = "rollback" => Touched(t) = Matching[t.fn]
         /\ t.op \notin {"save", "rollback"} => Touched(t) = {}
BY DEF Touched

(* What an operation touches are names in the store, and a save has one.   *)
LEMMA Touches ==
  ASSUME TypeOK, Locals, NEW w \in Workers, task[w].op \in {"save", "rollback"}
  PROVE  /\ Touched(task[w]) \subseteq Files
         /\ task[w].op = "save" => Touched(task[w]) # {}
<1>1. pc[w] \in Steps
  BY DEF TypeOK
<1>2. CASE task[w].op = "save"
  <2>1. task[w].fn \in Funcs
    BY <1>1, <1>2 DEF Locals, Steps
  <2> QED BY <1>2, <2>1, TouchedIs, Constants
<1>3. CASE task[w].op = "rollback"
  <2>1. task[w].fn \in Names
    BY <1>1, <1>3 DEF Locals, Steps
  <2> QED BY <1>3, <2>1, TouchedIs, Constants
<1> QED BY <1>2, <1>3

LEMMA WrittenTorn == ASSUME NEW x, NEW y \in Written(Torn, x) PROVE y = x
BY Constants DEF Written

(* The steps of an operation, those that start one, and all the others.    *)
LEMMA Effects ==
  ASSUME TypeOK, Locals, Erasing, NEW w \in Workers, Step(w)
  PROVE  Effect(w)
<1> DEFINE same == /\ \A u \in Workers \ {w} : pc'[u] = pc[u] /\ task'[u] = task[u]
                   /\ \/ pc'[w] = "idle" /\ task'[w] = Idle
                      \/ /\ task'[w].op = task[w].op /\ task'[w].fn = task[w].fn
                         /\ task'[w].ver = task[w].ver /\ task'[w].alone = task[w].alone
<1>1. pc \in [Workers -> Steps] /\ task \in [Workers -> Tasks]
  BY DEF TypeOK
<1>2. code \in [Files -> {None, Torn} \cup Versions] /\ json \in [Files -> {None, Torn} \cup (Keys \X Versions)]
  BY DEF TypeOK
<1>3. pc[w] \in {"code", "codewrite", "json", "jsonwrite"} => Touched(task[w]) = {File[task[w].fn]}
  BY TouchedIs DEF Locals
<1>4. ASSUME End(w) PROVE same
  BY <1>1, <1>4 DEF End, Goto
<1>5. ASSUME NEW s, Goto(w, s), UNCHANGED task PROVE same
  BY <1>1, <1>5 DEF Goto
<1>6. CASE KeyCheck(w) \/ KeyLock(w) \/ KeyOpen(w) \/ KeyWrite(w) \/ ListFiles(w) \/ KeyRead(w)
  <2>1. same
    BY <1>1, <1>6 DEF KeyCheck, KeyLock, KeyOpen, KeyWrite, ListFiles, KeyRead, Goto, Tasks
  <2> HIDE DEF same
  <2> QED
    BY <1>6, <2>1 DEF Effect, same, KeyCheck, KeyLock, KeyOpen, KeyWrite, ListFiles, KeyRead, files
<1>7. CASE CodeOpen(w) \/ JsonOpen(w)
  <2>1. same
    BY <1>1, <1>7 DEF CodeOpen, JsonOpen, Goto
  <2> HIDE DEF same
  <2>2. \A l \in Files \ Touched(task[w]) : code'[l] = code[l] /\ json'[l] = json[l]
    BY <1>2, <1>3, <1>7 DEF CodeOpen, JsonOpen
  <2> QED BY <1>7, <2>1, <2>2 DEF Effect, same, CodeOpen, JsonOpen
<1>8. CASE CodeWrite(w) \/ JsonWrite(w)
  <2>1. same
    BY <1>4, <1>5, <1>8 DEF CodeWrite, JsonWrite
  <2> HIDE DEF same
  <2>2. \A l \in Files \ Touched(task[w]) : code'[l] = code[l] /\ json'[l] = json[l]
    BY <1>2, <1>3, <1>8 DEF CodeWrite, JsonWrite
  <2> QED BY <1>8, <2>1, <2>2 DEF Effect, same, CodeWrite, JsonWrite
<1>9. CASE ReadMeta(w) \/ Apply(w) \/ EndRollback(w)
  <2>1. same
    BY <1>4, <1>5, <1>9 DEF ReadMeta, Apply, EndRollback
  <2> HIDE DEF same
  <2> QED BY <1>9, <2>1 DEF Effect, same, ReadMeta, Apply, EndRollback, files
<1>10. ASSUME NEW x \in {"code", "json"} \X Files, RemoveFile(w, x) PROVE Effect(w)
  <2>1. ASSUME task' = [task EXCEPT ![w].todo = @ \ {x}], UNCHANGED pc PROVE same
    BY <1>1, <2>1 DEF Tasks
  <2> HIDE DEF same
  <2>2. same
    BY <1>4, <1>10, <2>1 DEF RemoveFile
  <2>3. x[2] \in Touched(task[w])
    <3>1. x \in {"code", "json"} \X Matching[task[w].fn]
      BY <1>10 DEF RemoveFile, Erasing
    <3>2. task[w].op = "rollback"
      BY <1>10 DEF RemoveFile, Locals
    <3> QED BY <3>1, <3>2, TouchedIs
  <2>4. \A l \in Files \ Touched(task[w]) : code'[l] = code[l] /\ json'[l] = json[l]
    BY <1>2, <1>10, <2>3 DEF RemoveFile
  <2> QED BY <1>10, <2>2, <2>4 DEF Effect, same, RemoveFile
<1> QED BY <1>6, <1>7, <1>8, <1>9, <1>10 DEF Step

LEMMA Launches ==
  ASSUME TypeOK, NEW w \in Workers,
         (\E f \in Funcs : BeginSave(w, f)) \/ (\E n \in Names : BeginRollback(w, n))
  PROVE  Launch(w)
<1>1. PICK t \in Tasks :
        /\ t.op \in {"save", "rollback"} /\ Start(w, t)
        /\ \A l \in Files : clean'[l] # None => clean'[l] = clean[l] /\ l \notin Touched(t)
  <2>1. ASSUME NEW f \in Funcs, BeginSave(w, f)
        PROVE  \E t \in Tasks :
                 /\ t.op \in {"save", "rollback"} /\ Start(w, t)
                 /\ \A l \in Files : clean'[l] # None => clean'[l] = clean[l] /\ l \notin Touched(t)
    <3> DEFINE t == [Idle EXCEPT !.op = "save", !.fn = f, !.ver = saves + 1]
    <3>0. saves \in 0 .. MaxSaves /\ saves < MaxSaves
      BY <2>1 DEF BeginSave, TypeOK
    <3>1. saves + 1 \in Versions
      BY <3>0, Constants DEF Versions
    <3>2. t \in Tasks /\ t.fn = f /\ t.op = "save"
      BY <3>1 DEF Idle, Tasks
    <3>3. Start(w, t)
      BY <2>1 DEF BeginSave
    <3> HIDE DEF t
    <3>4. Touched(t) = {File[f]}
      BY <3>2, TouchedIs
    <3>5. \A l \in Files : clean'[l] # None => clean'[l] = clean[l] /\ l \notin Touched(t)
      BY <2>1, <3>4 DEF BeginSave, TypeOK
    <3> QED BY <3>2, <3>3, <3>5
  <2>2. ASSUME NEW n \in Names, BeginRollback(w, n)
        PROVE  \E t \in Tasks :
                 /\ t.op \in {"save", "rollback"} /\ Start(w, t)
                 /\ \A l \in Files : clean'[l] # None => clean'[l] = clean[l] /\ l \notin Touched(t)
    <3> DEFINE t == [Idle EXCEPT !.op = "rollback", !.fn = n]
    <3>1. t \in Tasks /\ t.fn = n /\ t.op = "rollback"
      BY DEF Idle, Tasks
    <3>2. Start(w, t)
      BY <2>2 DEF BeginRollback
    <3> HIDE DEF t
    <3>3. Touched(t) = Matching[n]
      BY <3>1, TouchedIs
    <3>4. \A l \in Files : clean'[l] # None => clean'[l] = clean[l] /\ l \notin Touched(t)
      BY <2>2, <3>3 DEF BeginRollback, TypeOK
    <3> QED BY <3>1, <3>2, <3>4
  <2> QED BY <2>1, <2>2
<1>3. pc'[w] \in {"key", "list"} /\ (\A u \in Workers \ {w} : pc'[u] = pc[u]) /\ UNCHANGED files
  BY DEF BeginSave, BeginRollback, Goto, TypeOK
<1>4. task'[w].op = t.op /\ task'[w].fn = t.fn
  BY <1>1, Started
<1>5. Touched(task'[w]) = Touched(t)
  BY <1>4 DEF Touched
<1> DEFINE apart(u) == \/ Touched(task[u]) = {}
                       \/ Touched(task[u]) \cap Touched(t) = {} /\ KeySettled
<1>6. task' = [u \in Workers |->
                 IF u = w THEN [t EXCEPT !.alone = Touched(t) # {} /\ \A v \in Workers \ {w} : apart(v)]
                          ELSE [task[u] EXCEPT !.alone = @ /\ apart(u)]]
  BY <1>1 DEF Start
<1>9. task'[w].alone => Touched(t) # {}
  <2> HIDE DEF apart
  <2>1. task'[w] = [t EXCEPT !.alone = Touched(t) # {} /\ \A v \in Workers \ {w} : apart(v)]
    BY <1>6
  <2> QED BY <1>1, <2>1 DEF Tasks
<1>7. ASSUME NEW u \in Workers \ {w}
      PROVE  /\ task'[u].todo = task[u].todo /\ (task'[u].alone => task[u].alone)
             /\ task'[u].alone \/ task'[w].alone => apart(u)
  <2> HIDE DEF apart
  <2>1. task \in [Workers -> Tasks]
    BY DEF TypeOK
  <2>2. task'[u] = [task[u] EXCEPT !.alone = task[u].alone /\ apart(u)]
    BY <1>6
  <2>3. task'[w] = [t EXCEPT !.alone = Touched(t) # {} /\ \A v \in Workers \ {w} : apart(v)]
    BY <1>6
  <2>4. task'[u].alone = (task[u].alone /\ apart(u)) /\ task'[u].todo = task[u].todo
    BY <2>1, <2>2 DEF Tasks
  <2>5. task'[w].alone = (Touched(t) # {} /\ \A v \in Workers \ {w} : apart(v))
    BY <1>1, <2>3 DEF Tasks
  <2> QED BY <2>4, <2>5
<1>8. \A u \in Workers \ {w} : /\ task'[u].op = task[u].op /\ task'[u].fn = task[u].fn
                              /\ task'[u].ver = task[u].ver /\ task'[u].key = task[u].key
  BY <1>1, Started
<1> QED BY <1>1, <1>3, <1>4, <1>5, <1>7, <1>8, <1>9 DEF Launch

LEMMA Waits ==
  ASSUME TypeOK,
         UNCHANGED vars \/ (\E p \in Procs : Crash(p))
           \/ \E w \in Workers, f \in Funcs : BeginLoad(w, f)
  PROVE  Wait
<1>1. CASE UNCHANGED vars
  BY <1>1 DEF Wait, vars, ghost
<1>2. ASSUME NEW p \in Procs, Crash(p) PROVE Wait
  BY <1>2 DEF Wait, Crash, Idle, ghost
<1>3. ASSUME NEW w \in Workers, NEW f \in Funcs, BeginLoad(w, f) PROVE Wait
  <2>1. \A u \in Workers \ {w} : pc'[u] = pc[u] /\ task'[u] = task[u]
    BY <1>3 DEF BeginLoad, Goto, TypeOK
  <2>2. pc'[w] = "key" /\ task'[w].op = "load" /\ task'[w].alone = FALSE
    BY <1>3 DEF BeginLoad, Goto, TypeOK, Idle
  <2>3. \E l \in Files : code[l] # None
    BY <1>3, Constants DEF BeginLoad
  <2> QED BY <1>3, <2>1, <2>2, <2>3 DEF Wait, BeginLoad, ghost
<1> QED BY <1>1, <1>2, <1>3

(* Once the key is settled nobody changes it, and there is always one      *)
(* after there was one.                                                    *)
LEMMA SettledStays ==
  ASSUME TypeOK, Locals, [Next]_vars, KeySettled
  PROVE  KeySettled' /\ key' = key
<1>1. \A w \in Workers : pc[w] \notin {"keyopen", "keywrite"}
  BY DEF KeySettled
<1>2. ASSUME NEW w \in Workers, Step(w)
      PROVE  key' = key /\ \A u \in Workers : pc'[u] \notin {"keyopen", "keywrite"}
  BY <1>1, <1>2 DEF Step, KeySettled, KeyCheck, KeyLock, KeyOpen, KeyWrite, KeyRead, CodeOpen,
     CodeWrite, JsonOpen, JsonWrite, ReadMeta, Apply, ListFiles, RemoveFile, EndRollback, End,
     Goto, files, TypeOK
<1>3. ASSUME NEW w \in Workers,
             \/ \E f \in Funcs : BeginSave(w, f) \/ BeginLoad(w, f)
             \/ \E n \in Names : BeginRollback(w, n)
      PROVE  key' = key /\ \A u \in Workers : pc'[u] \notin {"keyopen", "keywrite"}
  BY <1>1, <1>3 DEF BeginSave, BeginLoad, BeginRollback, Goto, files, TypeOK
<1>4. ASSUME NEW p \in Procs, Crash(p)
      PROVE  key' = key /\ \A u \in Workers : pc'[u] \notin {"keyopen", "keywrite"}
  BY <1>1, <1>4 DEF Crash, files
<1>5. ASSUME UNCHANGED vars
      PROVE  key' = key /\ \A u \in Workers : pc'[u] \notin {"keyopen", "keywrite"}
  BY <1>1, <1>5 DEF vars, files
<1>6. key' = key /\ \A u \in Workers : pc'[u] \notin {"keyopen", "keywrite"}
  BY <1>2, <1>3, <1>4, <1>5 DEF Next
<1> QED BY <1>6 DEF KeySettled

LEMMA KeyStays ==
  ASSUME TypeOK, Locals, KeyUsers, [Next]_vars, key # None
  PROVE  key' # None
<1>1. ASSUME NEW w \in Workers, KeyWrite(w) PROVE key' # None
  <2>1. task[w].ver \in Versions
    BY <1>1 DEF KeyWrite, KeyUsers, Locals
  <2> QED BY <1>1, <2>1, Constants DEF KeyWrite, Versions
<1>2. ASSUME NEW w \in Workers, KeyOpen(w) PROVE key' # None
  BY <1>2, Constants DEF KeyOpen
<1>3. ASSUME NEW w \in Workers, Step(w), ~KeyWrite(w), ~KeyOpen(w) PROVE key' = key
  BY <1>3 DEF Step, KeyCheck, KeyLock, KeyRead, CodeOpen, CodeWrite, JsonOpen, JsonWrite,
     ReadMeta, Apply, ListFiles, RemoveFile, EndRollback, files
<1>4. ASSUME NEW w \in Workers,
             \/ \E f \in Funcs : BeginSave(w, f) \/ BeginLoad(w, f)
             \/ \E n \in Names : BeginRollback(w, n)
      PROVE  key' = key
  BY <1>4 DEF BeginSave, BeginLoad, BeginRollback, files
<1>5. ASSUME NEW p \in Procs, Crash(p) PROVE key' = key
  BY <1>5 DEF Crash, files
<1>6. CASE UNCHANGED vars
  BY <1>6 DEF vars, files
<1> QED BY <1>1, <1>2, <1>3, <1>4, <1>5, <1>6 DEF Next

(* Loads and signatures come after the key.                                *)
LEMMA KeyUsersKept == TypeOK /\ Locals /\ Erasing /\ KeyUsers /\ [Next]_vars => KeyUsers'
<1> SUFFICES ASSUME TypeOK, Locals, Erasing, KeyUsers, [Next]_vars PROVE KeyUsers'
  OBVIOUS
<1> DEFINE making(w) == pc[w] \in {"keylock", "keyopen", "keywrite"} => task[w].op = "save"
           using(w)  == task[w].op = "load" \/ pc[w] \in Signing => key # None
           stored(l) == code[l] # None => key # None
<1>1. \A w \in Workers : making(w) /\ using(w)
  BY DEF KeyUsers
<1>2. \A l \in Files : stored(l)
  BY DEF KeyUsers
<1>3. key # None => key' # None
  BY KeyStays
<1>4. ASSUME NEW w \in Workers, Step(w)
      PROVE  /\ \A u \in Workers : (making(u) /\ using(u))'
             /\ \A l \in Files : stored(l)'
  <2>1. Effect(w)
    BY <1>4, Effects
  <2>2. \A u \in Workers \ {w} : (making(u) /\ using(u))'
    BY <1>1, <1>3, <2>1 DEF Effect
  <2>3. making(w)'
    <3>1. pc'[w] \in {"keylock", "keyopen", "keywrite"} =>
             (KeyCheck(w) \/ KeyLock(w) \/ KeyOpen(w)) /\ task' = task
      BY <1>4 DEF Step, KeyCheck, KeyLock, KeyOpen, KeyWrite, KeyRead, CodeOpen, CodeWrite, JsonOpen,
         JsonWrite, ReadMeta, Apply, ListFiles, RemoveFile, EndRollback, End, Goto, TypeOK
    <3>2. CASE KeyCheck(w) /\ task' = task
      BY <1>1, <3>2 DEF KeyCheck, Locals, Goto, TypeOK
    <3>3. CASE (KeyLock(w) \/ KeyOpen(w)) /\ task' = task
      BY <1>1, <3>3 DEF KeyLock, KeyOpen
    <3> QED BY <3>1, <3>2, <3>3
  <2>4. using(w)'
    <3>1. CASE task'[w].op = "load"
      <4>1. task[w].op = "load"
        BY <2>1, <3>1 DEF Effect, Idle
      <4> QED BY <1>1, <1>3, <4>1
    <3>2. CASE pc'[w] \in Signing
      <4>1. pc[w] \in Signing \cup {"keyread"}
        BY <1>4, <3>2 DEF Step, KeyCheck, KeyLock, KeyOpen, KeyWrite, KeyRead, CodeOpen, CodeWrite,
           JsonOpen, JsonWrite, ReadMeta, Apply, ListFiles, RemoveFile, EndRollback, End, Goto,
           TypeOK, Signing
      <4>2. key # None
        BY <1>1, <4>1 DEF Locals
      <4> QED BY <1>3, <4>2
    <3> QED BY <3>1, <3>2
  <2>5. ASSUME NEW l \in Files PROVE stored(l)'
    <3>1. CASE pc[w] \in Signing
      BY <1>1, <1>3, <3>1
    <3>2. CASE pc[w] \notin Signing
      <4>1. code'[l] # None => code[l] # None
        BY <1>4, <3>2 DEF Step, KeyCheck, KeyLock, KeyOpen, KeyWrite, KeyRead, CodeOpen, CodeWrite,
           JsonOpen, JsonWrite, ReadMeta, Apply, ListFiles, RemoveFile, EndRollback, files,
           TypeOK, Signing
      <4> QED BY <1>2, <1>3, <4>1
    <3> QED BY <3>1, <3>2
  <2> QED BY <2>2, <2>3, <2>4, <2>5
<1>5. ASSUME NEW w \in Workers, Launch(w)
      PROVE  /\ \A u \in Workers : (making(u) /\ using(u))'
             /\ \A l \in Files : stored(l)'
  BY <1>1, <1>2, <1>5 DEF Launch, Signing, files
<1>6. ASSUME Wait
      PROVE  /\ \A u \in Workers : (making(u) /\ using(u))'
             /\ \A l \in Files : stored(l)'
  BY <1>1, <1>2, <1>6 DEF Wait, Signing, files
<1>7. /\ \A u \in Workers : (making(u) /\ using(u))'
      /\ \A l \in Files : stored(l)'
  BY <1>4, <1>5, <1>6, Launches, Waits DEF Next
<1> QED BY <1>7 DEF KeyUsers

(* Who makes the key disturbs everybody: no operation is alone meanwhile.  *)
LEMMA MakerDisturbs ==
  ASSUME TypeOK, Locals, KeyUsers, Apart, NEW w \in Workers,
         pc[w] \in {"keyopen", "keywrite"}, NEW u \in Workers \ {w}
  PROVE  ~task[u].alone
<1>1. task[w].op = "save"
  BY DEF KeyUsers
<1>2. Touched(task[w]) # {}
  BY <1>1, Touches
<1> QED BY <1>2 DEF Apart, KeySettled

(* An operation stays alone or stops being so for good.                    *)
LEMMA ApartKept ==
  TypeOK /\ Locals /\ Erasing /\ Apart /\ [Next]_vars => Apart'
<1> SUFFICES ASSUME TypeOK, Locals, Erasing, Apart, [Next]_vars, NEW w \in Workers, task'[w].alone
             PROVE  /\ task'[w].op \in {"save", "rollback"} /\ Touched(task'[w]) # {}
                    /\ \A u \in Workers \ {w} : Touched(task'[u]) # {} =>
                         Touched(task'[u]) \cap Touched(task'[w]) = {} /\ KeySettled'
  BY DEF Apart
<1>1. KeySettled => KeySettled'
  BY SettledStays
<1>2. task[w].alone =>
        /\ task[w].op \in {"save", "rollback"} /\ Touched(task[w]) # {}
        /\ \A u \in Workers \ {w} : Touched(task[u]) # {} =>
             Touched(task[u]) \cap Touched(task[w]) = {} /\ KeySettled
  BY DEF Apart
<1>3. ASSUME \A u \in Workers : \/ task'[u].alone = FALSE /\ Touched(task'[u]) = {}
                               \/ /\ task'[u].op = task[u].op /\ task'[u].alone = task[u].alone
                                  /\ Touched(task'[u]) = Touched(task[u])
      PROVE  /\ task'[w].op \in {"save", "rollback"} /\ Touched(task'[w]) # {}
             /\ \A u \in Workers \ {w} : Touched(task'[u]) # {} =>
                  Touched(task'[u]) \cap Touched(task'[w]) = {} /\ KeySettled'
  BY <1>1, <1>2, <1>3
<1>4. ASSUME NEW v \in Workers, Step(v)
      PROVE  \A u \in Workers : \/ task'[u].alone = FALSE /\ Touched(task'[u]) = {}
                                \/ /\ task'[u].op = task[u].op /\ task'[u].alone = task[u].alone
                                   /\ Touched(task'[u]) = Touched(task[u])
  <2>1. Effect(v)
    BY <1>4, Effects
  <2> QED BY <2>1 DEF Effect, Idle, Touched
<1>5. ASSUME Wait
      PROVE  \A u \in Workers : \/ task'[u].alone = FALSE /\ Touched(task'[u]) = {}
                                \/ /\ task'[u].op = task[u].op /\ task'[u].alone = task[u].alone
                                   /\ Touched(task'[u]) = Touched(task[u])
  BY <1>5 DEF Wait, Touched
<1>6. ASSUME NEW v \in Workers, Launch(v)
      PROVE  /\ task'[w].op \in {"save", "rollback"} /\ Touched(task'[w]) # {}
             /\ \A u \in Workers \ {w} : Touched(task'[u]) # {} =>
                  Touched(task'[u]) \cap Touched(task'[w]) = {} /\ KeySettled'
  <2>1. \A u \in Workers \ {v} : Touched(task'[u]) = Touched(task[u])
    BY <1>6 DEF Launch, Touched
  <2>2. CASE w = v
    BY <1>1, <1>6, <2>1, <2>2 DEF Launch
  <2>3. CASE w # v
    <3>1. task[w].alone /\ task'[w].op = task[w].op
      BY <1>6, <2>3 DEF Launch
    <3>2. Touched(task[w]) # {}
      BY <1>2, <3>1, Touches
    <3>3. Touched(task[w]) \cap Touched(task'[v]) = {} /\ KeySettled
      BY <1>6, <2>3, <3>2 DEF Launch
    <3> QED BY <1>1, <1>2, <2>1, <2>3, <3>1, <3>3
  <2> QED BY <2>2, <2>3
<1> QED BY <1>3, <1>4, <1>5, <1>6, Launches, Waits DEF Next

(* A step of another worker leaves the key and the files of an operation   *)
(* that is alone as they are.                                              *)
LEMMA Undisturbed ==
  ASSUME TypeOK, Locals, KeyUsers, Apart, Erasing, NEW v \in Workers, Step(v),
         NEW w \in Workers \ {v}, task[w].alone
  PROVE  /\ key' = key /\ pc'[w] = pc[w] /\ task'[w] = task[w]
         /\ \A l \in Touched(task[w]) : code'[l] = code[l] /\ json'[l] = json[l]
<1>1. Effect(v)
  BY Effects
<1>2. task[w].op \in {"save", "rollback"}
  BY DEF Apart
<1>3. Touched(task[w]) \subseteq Files
  BY <1>2, Touches
<1>4. Touched(task[w]) \cap Touched(task[v]) = {}
  BY DEF Apart
<1>5. key' = key
  BY <1>1, MakerDisturbs DEF Effect
<1> QED BY <1>1, <1>3, <1>4, <1>5 DEF Effect

(* A save that is alone writes its own code and signature and the current  *)
(* key into untouched files.                                               *)
LEMMA SavingKept ==
  TypeOK /\ Locals /\ KeyUsers /\ Apart /\ Saving /\ Erasing /\ [Next]_vars => Saving'
<1> DEFINE written(w) ==
      /\ pc[w] \in Signing => task[w].key = KeyBytes(key)
      /\ pc[w] = "codewrite" => code[File[task[w].fn]] = Torn
      /\ pc[w] \in {"json", "jsonwrite"} => code[File[task[w].fn]] = task[w].ver
      /\ pc[w] = "jsonwrite" => json[File[task[w].fn]] = Torn
<1> SUFFICES ASSUME TypeOK, Locals, KeyUsers, Apart, Saving, Erasing, [Next]_vars,
                    NEW w \in Workers, task'[w].alone
             PROVE  written(w)'
  BY DEF Saving
<1>1. task[w].alone => written(w)
  BY DEF Saving
<1>2. ASSUME NEW v \in Workers \ {w}, Step(v) PROVE written(w)'
  <2>1. task[w].alone
    BY <1>2, Effects DEF Effect
  <2>2. /\ key' = key /\ pc'[w] = pc[w] /\ task'[w] = task[w]
        /\ \A l \in Touched(task[w]) : code'[l] = code[l] /\ json'[l] = json[l]
    BY <1>2, <2>1, Undisturbed
  <2>3. pc[w] \in Signing => File[task[w].fn] \in Touched(task[w])
    BY TouchedIs DEF Locals, Signing
  <2> QED BY <1>1, <2>1, <2>2, <2>3 DEF Signing
<1>3. ASSUME Step(w) PROVE written(w)'
  <2>1. task[w].alone
    BY <1>3, Effects DEF Effect, Idle
  <2>2. written(w)
    BY <1>1, <2>1
  <2>3. pc'[w] \in Signing =>
           \/ KeyRead(w) \/ CodeOpen(w) \/ JsonOpen(w)
           \/ CodeWrite(w) /\ pc'[w] = "json" /\ task' = task
    BY <1>3 DEF Step, KeyCheck, KeyLock, KeyOpen, KeyWrite, KeyRead, CodeOpen, CodeWrite, JsonOpen,
       JsonWrite, ReadMeta, Apply, ListFiles, RemoveFile, EndRollback, End, Goto, TypeOK, Signing
  <2>4. CASE KeyRead(w)
    BY <2>4 DEF KeyRead, Goto, TypeOK, Tasks, files, Signing
  <2>5. pc[w] \in Signing => File[task[w].fn] \in Files
    BY Constants DEF Locals, Signing
  <2>6. CASE CodeOpen(w)
    BY <2>2, <2>5, <2>6 DEF CodeOpen, Goto, TypeOK, Signing
  <2>7. CASE JsonOpen(w)
    BY <2>2, <2>5, <2>7 DEF JsonOpen, Goto, TypeOK, Signing
  <2>8. CASE CodeWrite(w) /\ pc'[w] = "json" /\ task' = task
    <3>1. code'[File[task[w].fn]] = task[w].ver
      BY <2>2, <2>5, <2>8, WrittenTorn DEF CodeWrite, TypeOK, Signing
    <3> QED BY <2>2, <2>8, <3>1 DEF CodeWrite, Signing
  <2>9. CASE pc'[w] \notin Signing
    BY <2>9 DEF Signing
  <2> QED BY <2>3, <2>4, <2>6, <2>7, <2>8, <2>9
<1>4. ASSUME NEW v \in Workers, Launch(v) PROVE written(w)'
  BY <1>1, <1>4 DEF Launch, Signing, files
<1>5. ASSUME Wait PROVE written(w)'
  BY <1>1, <1>5 DEF Wait, Signing, files
<1> QED BY <1>2, <1>3, <1>4, <1>5, Launches, Waits DEF Next

(* A rollback that is alone forgets no file.                               *)
LEMMA ErasingKept ==
  TypeOK /\ Locals /\ KeyUsers /\ Apart /\ Erasing /\ [Next]_vars => Erasing'
<1> DEFINE within(w) == task[w].todo \subseteq {"code", "json"} \X Matching[task[w].fn]
           all(w) == \A h \in Matching[task[w].fn] :
                       /\ code[h] # None => <<"code", h>> \in task[w].todo
                       /\ json[h] # None => <<"json", h>> \in task[w].todo
<1> SUFFICES ASSUME TypeOK, Locals, KeyUsers, Apart, Erasing, [Next]_vars,
                    NEW w \in Workers, pc'[w] = "remove"
             PROVE  within(w)' /\ (task'[w].alone => all(w)')
  BY DEF Erasing
<1>1. pc[w] = "remove" => within(w) /\ (task[w].alone => all(w))
  BY DEF Erasing
<1>2. ASSUME NEW v \in Workers \ {w}, Step(v) PROVE within(w)' /\ (task'[w].alone => all(w)')
  <2>1. pc'[w] = pc[w] /\ task'[w] = task[w]
    BY <1>2, Effects DEF Effect
  <2>2. ASSUME task'[w].alone PROVE all(w)'
    <3>1. \A l \in Touched(task[w]) : code'[l] = code[l] /\ json'[l] = json[l]
      BY <1>2, <2>1, <2>2, Undisturbed
    <3>2. Touched(task[w]) = Matching[task[w].fn]
      BY <2>1, TouchedIs DEF Locals
    <3> QED BY <1>1, <2>1, <2>2, <3>1, <3>2
  <2> QED BY <1>1, <2>1, <2>2
<1>3. ASSUME Step(w) PROVE within(w)' /\ (task'[w].alone => all(w)')
  <2>1. \/ ListFiles(w)
        \/ \E x \in {"code", "json"} \X Files :
             RemoveFile(w, x) /\ task' = [task EXCEPT ![w].todo = @ \ {x}]
    BY <1>3 DEF Step, KeyCheck, KeyLock, KeyOpen, KeyWrite, KeyRead, CodeOpen, CodeWrite, JsonOpen,
       JsonWrite, ReadMeta, Apply, ListFiles, RemoveFile, EndRollback, End, Goto, TypeOK
  <2>2. CASE ListFiles(w)
    <3> DEFINE M == Matching[task[w].fn]
               s == {<<"code", g>> : g \in {h \in M : code[h] # None}}
                      \cup {<<"json", g>> : g \in {h \in M : json[h] # None}}
    <3>1. task' = [task EXCEPT ![w].todo = s] /\ UNCHANGED <<code, json>>
      BY <2>2 DEF ListFiles, files
    <3>2. s \subseteq {"code", "json"} \X M
      OBVIOUS
    <3>3. \A h \in M : /\ code[h] # None => <<"code", h>> \in s
                       /\ json[h] # None => <<"json", h>> \in s
      OBVIOUS
    <3> HIDE DEF s
    <3>4. task'[w].todo = s /\ task'[w].fn = task[w].fn
      BY <3>1 DEF TypeOK, Tasks
    <3> QED BY <3>1, <3>2, <3>3, <3>4
  <2>3. ASSUME NEW x \in {"code", "json"} \X Files, RemoveFile(w, x),
               task' = [task EXCEPT ![w].todo = @ \ {x}]
        PROVE  within(w)' /\ (task'[w].alone => all(w)')
    <3>1. /\ task'[w].todo = task[w].todo \ {x} /\ task'[w].fn = task[w].fn
          /\ task'[w].alone = task[w].alone
      BY <2>3 DEF TypeOK, Tasks
    <3>2. pc[w] = "remove"
      BY <2>3 DEF RemoveFile
    <3>3. ASSUME NEW h \in Files
          PROVE  /\ code'[h] # None => code[h] # None /\ x # <<"code", h>>
                 /\ json'[h] # None => json[h] # None /\ x # <<"json", h>>
      BY <2>3 DEF RemoveFile, TypeOK
    <3>4. Matching[task[w].fn] \subseteq Files
      BY <3>2, Constants DEF Locals
    <3>5. within(w)'
      BY <1>1, <3>1, <3>2
    <3>6. ASSUME task'[w].alone, NEW h \in Matching[task[w].fn]
          PROVE  /\ code'[h] # None => <<"code", h>> \in task'[w].todo
                 /\ json'[h] # None => <<"json", h>> \in task'[w].todo
      <4>1. h \in Files
        BY <3>4, <3>6
      <4>2. /\ code[h] # None => <<"code", h>> \in task[w].todo
            /\ json[h] # None => <<"json", h>> \in task[w].todo
        BY <1>1, <3>1, <3>2, <3>6
      <4>3. /\ code'[h] # None => code[h] # None /\ x # <<"code", h>>
            /\ json'[h] # None => json[h] # None /\ x # <<"json", h>>
        BY <3>3, <4>1
      <4> HIDE DEF all, within
      <4> QED BY <3>1, <4>2, <4>3
    <3> QED BY <3>1, <3>5, <3>6
  <2> QED BY <2>1, <2>2, <2>3
<1>4. ASSUME NEW v \in Workers, Launch(v) PROVE within(w)' /\ (task'[w].alone => all(w)')
  <2>1. w # v /\ pc[w] = "remove" /\ task'[w].fn = task[w].fn /\ task'[w].todo = task[w].todo
    BY <1>4 DEF Launch
  <2>2. task'[w].alone => task[w].alone
    BY <1>4, <2>1 DEF Launch
  <2>3. UNCHANGED <<code, json>>
    BY <1>4 DEF Launch, files
  <2> QED BY <1>1, <2>1, <2>2, <2>3
<1>5. ASSUME Wait PROVE within(w)' /\ (task'[w].alone => all(w)')
  BY <1>1, <1>5 DEF Wait, files
<1> QED BY <1>2, <1>3, <1>4, <1>5, Launches, Waits DEF Next

(* What a clean save left stays until another operation touches it.        *)
LEMMA CleanKept == AloneInv /\ [Next]_vars => Clean'
<1> DEFINE good(l) == /\ KeySettled /\ code[l] = clean[l]
                      /\ json[l] = <<KeyBytes(key), clean[l]>>
                      /\ \A w \in Workers : l \notin Touched(task[w])
<1> SUFFICES ASSUME AloneInv, [Next]_vars, NEW l \in Files, clean'[l] # None PROVE good(l)'
  BY DEF Clean
<1>1. TypeOK /\ Locals /\ KeyUsers /\ Apart /\ Saving /\ Erasing
  BY DEF AloneInv
<1>2. clean[l] # None => good(l)
  BY DEF AloneInv, Clean
<1>3. KeySettled => KeySettled' /\ key' = key
  BY <1>1, SettledStays
<1>4. ASSUME NEW w \in Workers, Step(w), clean'[l] = clean[l] PROVE good(l)'
  <2>1. Effect(w)
    BY <1>1, <1>4, Effects
  <2>2. good(l) /\ KeySettled' /\ key' = key
    BY <1>2, <1>3, <1>4
  <2>3. code'[l] = code[l] /\ json'[l] = json[l]
    BY <2>1, <2>2 DEF Effect
  <2>4. \A u \in Workers : Touched(task'[u]) \subseteq Touched(task[u])
    BY <2>1 DEF Effect, Idle, Touched
  <2> QED BY <1>4, <2>2, <2>3, <2>4
<1>5. ASSUME NEW w \in Workers, Step(w), clean'[l] # clean[l] PROVE good(l)'
  <2>1. JsonWrite(w)
    BY <1>5 DEF Step, KeyCheck, KeyLock, KeyOpen, KeyWrite, KeyRead, CodeOpen, CodeWrite, JsonOpen,
       ReadMeta, Apply, ListFiles, RemoveFile, EndRollback, ghost
  <2>2. task[w].alone /\ l = File[task[w].fn] /\ clean'[l] = task[w].ver
    BY <1>1, <1>5, <2>1 DEF JsonWrite, TypeOK
  <2>3. pc[w] = "jsonwrite" /\ task[w].op = "save" /\ Touched(task[w]) = {l}
    BY <1>1, <2>1, <2>2, TouchedIs DEF JsonWrite, Locals
  <2>4. task[w].key = KeyBytes(key) /\ code[l] = task[w].ver /\ json[l] = Torn
    BY <1>1, <2>2, <2>3 DEF Saving, Signing
  <2>5. KeySettled
    <3>1. key # None
      BY <1>1, <2>3 DEF KeyUsers, Signing
    <3>2. \A u \in Workers : pc[u] \notin {"keyopen", "keywrite"}
      BY <1>1, <2>2, <2>3, MakerDisturbs
    <3> QED BY <3>1, <3>2 DEF KeySettled
  <2>6. code'[l] = code[l] /\ json'[l] = <<KeyBytes(key), task[w].ver>>
    BY <1>1, <2>1, <2>2, <2>4, WrittenTorn DEF JsonWrite, TypeOK
  <2>7. \A u \in Workers : l \notin Touched(task'[u])
    <3>1. task'[w] = Idle /\ \A u \in Workers \ {w} : task'[u] = task[u]
      BY <1>1, <2>1 DEF JsonWrite, End, TypeOK
    <3>2. Touched(Idle) = {}
      BY TouchedIs DEF Idle
    <3>3. \A u \in Workers \ {w} : l \notin Touched(task[u])
      BY <1>1, <2>2, <2>3 DEF Apart
    <3> QED BY <3>1, <3>2, <3>3
  <2> QED BY <1>3, <2>2, <2>4, <2>5, <2>6, <2>7
<1>6. ASSUME NEW w \in Workers, Launch(w) PROVE good(l)'
  <2>1. clean'[l] = clean[l] /\ l \notin Touched(task'[w]) /\ UNCHANGED <<code, json>>
    BY <1>6 DEF Launch, files
  <2>2. \A u \in Workers \ {w} : Touched(task'[u]) = Touched(task[u])
    BY <1>6 DEF Launch, Touched
  <2> QED BY <1>2, <1>3, <2>1, <2>2
<1>7. ASSUME Wait PROVE good(l)'
  <2>1. UNCHANGED <<code, json, clean>>
    BY <1>7 DEF Wait, files
  <2>2. \A u \in Workers : Touched(task'[u]) \subseteq Touched(task[u])
    BY <1>7 DEF Wait, Touched
  <2> QED BY <1>2, <1>3, <2>1, <2>2
<1> QED BY <1>1, <1>4, <1>5, <1>6, <1>7, Launches, Waits DEF Next

LEMMA AloneInit == Init => AloneInv
<1> SUFFICES ASSUME Init PROVE AloneInv
  OBVIOUS
<1>1. TypeOK /\ Locals
  BY InitInv DEF Inv
<1>2. \A w \in Workers : pc[w] = "idle" /\ task[w].op = "none" /\ task[w].alone = FALSE
  BY DEF Init, Idle
<1>3. \A l \in Files : code[l] = None /\ clean[l] = None
  BY DEF Init
<1> QED BY <1>1, <1>2, <1>3 DEF AloneInv, KeyUsers, Apart, Saving, Erasing, Clean, Signing

LEMMA AloneInvariance == Spec => []AloneInv
<1>1. AloneInv /\ [Next]_vars => AloneInv'
  BY Typing, LocalsKept, KeyUsersKept, ApartKept, SavingKept, ErasingKept, CleanKept DEF AloneInv
<1> QED BY <1>1, AloneInit, PTL DEF Spec

(* A patch whose save no other operation under its name overlapped, and    *)
(* none at all that began while the key was still being made, is complete  *)
(* and signed with the key of the store until something is saved under its *)
(* name or the name is rolled back, whatever crashes in the meantime.      *)
THEOREM CleanSavesLoad == Spec => []CleanSaveLoads
<1>1. AloneInv => CleanSaveLoads
  BY DEF AloneInv, Clean, CleanSaveLoads
<1> QED BY <1>1, AloneInvariance, PTL

(* A rollback that shares its names in the store with no other operation   *)
(* has removed all their files when it ends, at any number of processes.   *)
THEOREM RollbacksErase == Spec => []RollbackErases
<1>1. AloneInv => RollbackErases
  <2> SUFFICES ASSUME AloneInv, NEW w \in Workers, pc[w] = "remove", task[w].todo = {},
                      task[w].alone, NEW h \in Matching[task[w].fn]
               PROVE  code[h] = None /\ json[h] = None
    BY DEF RollbackErases
  <2> QED BY DEF AloneInv, Erasing
<1> QED BY <1>1, AloneInvariance, PTL

----------------------------------------------------------------------------
(* The cache.                                                              *)

(* Every step of the store is a step of the cache or leaves it alone.      *)
LEMMA CacheStep == Inv /\ [Next]_vars => [Cache!Next]_(Cache!vars)
<1> SUFFICES ASSUME Inv, [Next]_vars PROVE [Cache!Next]_(Cache!vars)
  OBVIOUS
<1> USE DEF Inv, TypeOK
<1>1. CASE UNCHANGED vars
  BY <1>1 DEF vars, memory, ghost, Cache!vars
<1>2. ASSUME NEW w \in Workers, NEW f \in Funcs, BeginSave(w, f)
      PROVE  Cache!Next
  <2>1. ProcOf[w] \in Procs /\ saves + 1 \in Versions
    BY <1>2, Constants DEF BeginSave, Versions
  <2>2. \A g \in Funcs : saves + 1 \notin offered[g]
    BY <1>2 DEF BeginSave, Provenance
  <2>3. Cache!Patch(ProcOf[w], f, saves + 1)
    BY <1>2, <2>2 DEF BeginSave, Cache!Patch
  <2> QED BY <2>1, <2>3 DEF Cache!Next
<1>3. ASSUME NEW w \in Workers, Apply(w) PROVE Cache!Next
  <2>1. /\ ProcOf[w] \in Procs /\ task[w].fn \in Funcs
        /\ task[w].ver \in Cache!Fitting(task[w].fn)
    BY <1>3, Constants DEF Apply, Locals, Provenance
  <2>2. Cache!Switch(ProcOf[w], task[w].fn)
    BY <1>3, <2>1 DEF Apply, count, ghost, Cache!Switch
  <2> QED BY <2>1, <2>2 DEF Cache!Next
<1>4. ASSUME NEW w \in Workers, NEW n \in Names, BeginRollback(w, n)
      PROVE  [Cache!Next]_(Cache!vars)
  <2>1. UNCHANGED offered
    BY <1>4 DEF BeginRollback
  <2>2. CASE UNCHANGED memory
    BY <2>1, <2>2 DEF memory, Cache!vars
  <2>3. ASSUME NEW k \in Slots, NEW g \in Funcs, k[2] = n, Name[g] = n,
               originals[ProcOf[w]][k] # Absent,
               live' = [live EXCEPT ![ProcOf[w]][g] = originals[ProcOf[w]][k]]
        PROVE  Cache!Next
    <3>1. ProcOf[w] \in Procs
      BY Constants
    <3>2. originals[ProcOf[w]][k] \in Cache!Fitting(g)
      BY <2>3, <3>1 DEF Provenance
    <3>3. Cache!Switch(ProcOf[w], g)
      BY <2>1, <2>3, <3>2 DEF Cache!Switch
    <3> QED BY <3>1, <3>3 DEF Cache!Next
  <2>4. CASE PutBack(w, n)
    <3>1. PICK k \in Slots, g \in Funcs :
            /\ k[2] = n /\ Name[g] = n /\ originals[ProcOf[w]][k] # Absent
            /\ live' = [live EXCEPT ![ProcOf[w]][g] = originals[ProcOf[w]][k]]
      BY <2>4 DEF PutBack
    <3> QED BY <2>3, <3>1
  <2> QED BY <1>4, <2>2, <2>4, Restores
<1>5. ASSUME NEW p \in Procs, Crash(p) PROVE Cache!Next
  <2>1. Cache!Restart(p)
    BY <1>5 DEF Crash, ghost, Cache!Restart
  <2> QED BY <2>1 DEF Cache!Next
<1>6. ASSUME NEW w \in Workers,
             \/ KeyCheck(w) \/ KeyLock(w) \/ KeyOpen(w) \/ KeyWrite(w) \/ KeyRead(w)
             \/ CodeOpen(w) \/ CodeWrite(w) \/ JsonOpen(w) \/ JsonWrite(w)
             \/ ReadMeta(w) \/ ListFiles(w) \/ EndRollback(w)
             \/ \E x \in {"code", "json"} \X Files : RemoveFile(w, x)
             \/ \E f \in Funcs : BeginLoad(w, f)
      PROVE  UNCHANGED Cache!vars
  BY <1>6 DEF KeyCheck, KeyLock, KeyOpen, KeyWrite, KeyRead, CodeOpen, CodeWrite, JsonOpen,
              JsonWrite, ReadMeta, ListFiles, EndRollback, RemoveFile, BeginLoad,
              memory, ghost, Cache!vars
<1> QED BY <1>1, <1>2, <1>3, <1>4, <1>5, <1>6 DEF Next, Step

(* Whatever crashes, overlaps or is removed half-way, what a process runs  *)
(* for a function is the source of, or a version synthesised for, that     *)
(* function or one it has a name in common with; where no two functions    *)
(* have a name in common, Kin may keep each apart, and the function's own. *)
THEOREM StoreImplementsCache == Spec => ImplementsCache
<1>1. Init => Cache!Init
  BY DEF Init, Cache!Init
<1> QED BY <1>1, Invariance, CacheStep, PTL DEF Spec, ImplementsCache, Cache!Spec
=============================================================================
