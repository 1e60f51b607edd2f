-------------------------- MODULE AcrossRunsProofs --------------------------
(***************************************************************************)
(* Proofs about what outlasts one execution of a program.                  *)
(*                                                                         *)
(* First the two files of PatchLedger: their types and locks for any       *)
(* processes, and, when one process is up at a time, that they lose        *)
(* nothing and that lifecycle.json implements PatchHistory, which promises *)
(* nothing while a process that has rolled back a function has two         *)
(* managers.                                                               *)
(*                                                                         *)
(* In the second half what RunLoop promises of any script and any limits.  *)
(* Its Inv is inductive.  Kept says where a patch is: in the store from    *)
(* the moment it is counted as saved, and in memory while its function is  *)
(* defined, so that a saved guard, if it does stop its bug, stops it in    *)
(* every execution that begins later.  Counted bounds the patches by the   *)
(* guards in place, the executions before and, for guards that do not stop *)
(* their bug, the patches made again.  Streak reads the                    *)
(* watcher's two variables off the children that failed.                   *)
(* The two components have neither state nor names in common.              *)
(***************************************************************************)
EXTENDS PatchLedger, RunLoop, FiniteSetTheorems, TLAPS

(* One more state for the patches in S. *)
LEMMA MovedType ==
  ASSUME NEW d \in [Patches -> Seq(States)], NEW S, NEW s \in States
  PROVE  Moved(d, S, s) \in [Patches -> Seq(States)]
BY DEF Moved

(* A transition appends one state to the histories of the patches in S. *)
LEMMA TransitionType ==
  ASSUME NEW p \in Procs, NEW S, NEW s \in States, Transition(p, S, s),
         copy \in [Procs -> [Patches -> Seq(States)]]
  PROVE  copy' \in [Procs -> [Patches -> Seq(States)]]
<1>1. Moved(copy[p], S, s) \in [Patches -> Seq(States)]
  BY MovedType
<1> QED BY <1>1 DEF Transition

LEMMA NothingType == Nothing \in [Patches -> Seq(States)] /\ NoHits \in [Kinds -> Nat]
<1>1. Nothing \in [Patches -> Seq(States)]
  BY DEF Nothing
<1>2. NoHits \in [Kinds -> Nat]
  BY DEF NoHits
<1> QED BY <1>1, <1>2

(* One more hit. *)
LEMMA HitType ==
  ASSUME NEW f \in [Kinds -> Nat], NEW k PROVE [f EXCEPT ![k] = @ + 1] \in [Kinds -> Nat]
<1>1. CASE k \in Kinds
  BY <1>1
<1>2. CASE k \notin Kinds
  BY <1>2
<1> QED BY <1>1, <1>2

LEMMA TypeInit == Init => TypeOK
<1> SUFFICES ASSUME Init PROVE TypeOK
  OBVIOUS
<1>1. copy \in [Procs -> [Patches -> Seq(States)]] /\ read \in [Threads -> [Kinds -> Nat]]
  BY NothingType DEF Init
<1>2. up \subseteq Procs /\ \A p, r \in up : p = r
  BY DEF Init
<1> QED BY NothingType, <1>1, <1>2 DEF Init, TypeOK, Steps

(* Each action keeps the types; a thread that is to write a file holds the *)
(* lock of its process, because nobody else does when it takes it.         *)
LEMMA TypeStep == TypeOK /\ [Next]_vars => TypeOK'
<1> SUFFICES ASSUME TypeOK, [Next]_vars PROVE TypeOK'
  OBVIOUS
<1> USE LedgerAssumption DEF seconds
<1>1. CASE UNCHANGED vars
  BY <1>1 DEF TypeOK, vars
<1>2. ASSUME NEW p \in Procs, Start(p) PROVE TypeOK'
  BY <1>2, NothingType DEF TypeOK, Start, Readable, files, ghosts
<1>3. ASSUME NEW p \in Procs, Stop(p) PROVE TypeOK'
  BY <1>3, NothingType DEF TypeOK, Stop, Steps, files
<1>4. ASSUME NEW t \in Threads, NEW k \in Kinds, Lookup(t, k) PROVE TypeOK'
  <2>1. PICK s \in {"untraced", "record", "note"} : pc' = [pc EXCEPT ![t] = s]
    BY <1>4 DEF Lookup, Go, TypeOK
  <2>2. UNCHANGED <<up, copy, ledger, registry, lock, rlock, inner, doubled, read, then, recorded, cut, starts>>
        /\ events' \in Nat /\ kind' \in [Threads -> Kinds \cup {None}]
    BY <1>4 DEF Lookup, files, ghosts, TypeOK
  <2> QED BY <2>1, <2>2 DEF TypeOK, Steps
<1>5. ASSUME NEW t \in Threads, RecordLoad(t) PROVE TypeOK'
  <2>1. CASE registry = Torn
    BY <1>5, <2>1 DEF TypeOK, RecordLoad, At, Go, Steps, files, ghosts
  <2>2. CASE registry # Torn
    <3>1. [registry EXCEPT ![kind[t]] = @ + 1] \in [Kinds -> Nat]
      BY <2>2, HitType DEF TypeOK
    <3>2. read' \in [Threads -> [Kinds -> Nat]]
      BY <1>5, <2>2, <3>1 DEF TypeOK, RecordLoad
    <3>3. /\ pc' = [pc EXCEPT ![t] = "reg_open"] /\ rlock[ProcOf[t]] = None
          /\ rlock' = [rlock EXCEPT ![ProcOf[t]] = t]
          /\ UNCHANGED <<up, copy, ledger, registry, lock, inner, doubled, kind, then, recorded, cut, starts, events>>
      BY <1>5, <2>2 DEF RecordLoad, Go, files, ghosts
    <3> QED BY <3>2, <3>3 DEF TypeOK, Steps
  <2> QED BY <2>1, <2>2
<1>6. ASSUME NEW t \in Threads, RecordOpen(t) PROVE TypeOK'
  BY <1>6 DEF TypeOK, RecordOpen, At, Go, Steps, ghosts
<1>7. ASSUME NEW t \in Threads, RecordWrite(t) PROVE TypeOK'
  <2>1. /\ registry' = Torn \/ registry' \in [Kinds -> Nat]
        /\ recorded' \in [Kinds -> Nat] /\ cut' \in BOOLEAN
    <3>1. CASE kind[t] \in Unserializable
      BY <1>7, <3>1 DEF TypeOK, RecordWrite
    <3>2. CASE kind[t] \notin Unserializable
      <4>1. recorded' \in [Kinds -> Nat]
        <5>1. recorded' = [recorded EXCEPT ![kind[t]] = @ + 1] /\ recorded \in [Kinds -> Nat]
          BY <1>7, <3>2 DEF TypeOK, RecordWrite
        <5> QED BY <5>1, HitType
      <4>2. registry' \in {read[t], Torn} /\ UNCHANGED cut
        BY <1>7, <3>2 DEF RecordWrite, Written
      <4> QED BY <4>1, <4>2 DEF TypeOK
    <3> QED BY <3>1, <3>2
  <2>2. PICK s \in {"idle", "note"} : pc' = [pc EXCEPT ![t] = s]
    BY <1>7 DEF RecordWrite, Go
  <2> QED BY <1>7, <2>1, <2>2 DEF TypeOK, RecordWrite, At, Steps
<1>8. ASSUME NEW t \in Threads, NoteHits(t) PROVE TypeOK'
  BY <1>8 DEF TypeOK, NoteHits, At, Go, Steps, files, ghosts
<1>9. ASSUME NEW t \in Threads, NEW s \in {"patched", "suggested"}, Track(t, s) PROVE TypeOK'
  <2>1. copy' \in [Procs -> [Patches -> Seq(States)]]
    BY <1>9, TransitionType DEF Track, TypeOK, States
  <2>2. then' \in [Threads -> {"idle", "suggest", "done", "remove"}]
    BY <1>9 DEF Track, TypeOK
  <2>3. /\ pc' = [pc EXCEPT ![t] = "open"] /\ lock[ProcOf[t]] = None
        /\ lock' = [lock EXCEPT ![ProcOf[t]] = t]
        /\ UNCHANGED <<up, ledger, registry, rlock, inner, doubled, kind, read, recorded, cut, starts,
                       events>>
    BY <1>9 DEF Track, Go, files, ghosts
  <2> QED BY <2>1, <2>2, <2>3 DEF TypeOK, Steps
<1>10. ASSUME NEW t \in Threads, SaveOpen(t) PROVE TypeOK'
  BY <1>10 DEF TypeOK, SaveOpen, At, Go, Steps, ghosts
<1>11. ASSUME NEW t \in Threads, SaveWrite(t) PROVE TypeOK'
  <2>1. ledger' = Torn \/ ledger' \in [Patches -> Seq(States)]
    BY <1>11 DEF SaveWrite, Written, TypeOK
  <2>2. /\ pc[t] = "write" /\ pc' = [pc EXCEPT ![t] = then[t]]
        /\ UNCHANGED <<up, copy, registry, rlock, doubled, kind, read, then, recorded, cut, starts, events>>
    BY <1>11 DEF SaveWrite, At, Go, ghosts
  <2>3. CASE inner[t] = None
    <3>1. lock' = [lock EXCEPT ![ProcOf[t]] = None] /\ inner' = inner
      BY <1>11, <2>3 DEF SaveWrite
    <3>2. \A u \in Threads : u # t /\ pc'[u] \in {"open", "write"} /\ inner'[u] = None =>
            ProcOf[u] # ProcOf[t] /\ lock'[ProcOf[u]] = u
      BY <2>2, <2>3, <3>1 DEF TypeOK
    <3>3. pc'[t] \notin {"open", "write"} /\ pc' \in [Threads -> Steps]
      BY <2>2 DEF TypeOK, Steps
    <3> QED BY <2>1, <2>2, <3>1, <3>2, <3>3 DEF TypeOK
  <2>4. CASE inner[t] # None
    <3>1. inner' = [inner EXCEPT ![t] = None] /\ lock' = lock
      BY <1>11, <2>4 DEF SaveWrite
    <3>2. pc'[t] \notin {"open", "write"} /\ pc' \in [Threads -> Steps]
      BY <2>2 DEF TypeOK, Steps
    <3> QED BY <2>1, <2>2, <3>1, <3>2 DEF TypeOK
  <2> QED BY <2>3, <2>4
<1>12. ASSUME NEW t \in Threads, NEW S, NEW s \in {"fixed", "rolled_back"},
              NEW n \in {"done", "remove"}, Mark(t, S, s, n)
       PROVE TypeOK'
  <2>1. copy' \in [Procs -> [Patches -> Seq(States)]]
    BY <1>12, TransitionType DEF Mark, TypeOK, States
  <2>2. then' \in [Threads -> {"idle", "suggest", "done", "remove"}] /\ events' \in Nat
    BY <1>12 DEF Mark, TypeOK
  <2>3. /\ pc' = [pc EXCEPT ![t] = "open"] /\ lock[ProcOf[t]] = None
        /\ lock' = [lock EXCEPT ![ProcOf[t]] = t]
        /\ UNCHANGED <<up, ledger, registry, rlock, inner, doubled, kind, read, recorded, cut, starts>>
    BY <1>12 DEF Mark, Go, files, ghosts
  <2> QED BY <2>1, <2>2, <2>3 DEF TypeOK, Steps
<1>13. ASSUME NEW t \in Threads, RemoveRegistry(t) PROVE TypeOK'
  BY <1>13, NothingType DEF TypeOK, RemoveRegistry, At, Go, Steps
<1>14. ASSUME NEW t \in Threads, NEW S \in SUBSET Patches, RollBackInside(t, S) PROVE TypeOK'
  <2>1. Readable(ledger) \in [Patches -> Seq(States)]
    BY NothingType DEF TypeOK, Readable
  <2>2. PICK d \in [Patches -> Seq(States)] : inner' = [inner EXCEPT ![t] = d]
    BY <1>14, <2>1, MovedType DEF RollBackInside, States
  <2>3. inner' \in [Threads -> [Patches -> Seq(States)] \cup {None}]
        /\ inner'[t] # None /\ \A u \in Threads : u # t => inner'[u] = inner[u]
    BY <2>2, NoneAssumption DEF TypeOK
  <2>4. /\ pc' = [pc EXCEPT ![t] = "open"] /\ then' = [then EXCEPT ![t] = "idle"]
        /\ doubled' = doubled \cup {ProcOf[t]} /\ ProcOf[t] \in up /\ events' = events + 1
        /\ UNCHANGED <<up, copy, ledger, registry, lock, rlock, kind, read, recorded, cut, starts>>
    BY <1>14 DEF RollBackInside, At, Go, files, ghosts
  <2> QED BY <2>3, <2>4 DEF TypeOK, Steps
<1> QED BY <1>1, <1>2, <1>3, <1>4, <1>5, <1>6, <1>7, <1>8, <1>9, <1>10, <1>11, <1>12, <1>13, <1>14
        DEF Next, Heal, Command, MarkMatching, RollBackAll

(* The types of the two files and of the threads that use them, and that a *)
(* file is written by one thread of a process at a time.                   *)
THEOREM TypeCorrect == Spec => []TypeOK
BY TypeInit, TypeStep, PTL DEF Spec

----------------------------------------------------------------------------
Healing == {"record", "reg_open", "reg_write", "note", "track", "suggest", "untraced"}

(* Who is busy is up; a command does not heal and an engine runs no        *)
(* command; a file is torn while it is written; what a record is about to  *)
(* write is one more hit than was recorded.                                *)
Busy ==
  \A t \in Threads :
    /\ pc[t] # "idle" => ProcOf[t] \in up
    /\ pc[t] \in Healing \/ then[t] = "suggest" => ProcOf[t] \notin Commands
    /\ pc[t] = "remove" \/ then[t] = "remove" => ProcOf[t] \in Commands
    /\ inner[t] # None => ProcOf[t] \in doubled

LEMMA BusyStep == TypeOK /\ Busy /\ [Next]_vars => Busy'
<1> SUFFICES ASSUME TypeOK, Busy, [Next]_vars PROVE Busy'
  OBVIOUS
<1> USE LedgerAssumption DEF seconds
<1>1. CASE UNCHANGED vars
  BY <1>1 DEF Busy, vars
<1>2. ASSUME NEW p \in Procs, Start(p) PROVE Busy'
  BY <1>2 DEF Busy, Start
<1>3. ASSUME NEW p \in Procs, Stop(p) PROVE Busy'
  BY <1>3 DEF Busy, Stop, Healing
<1>4. ASSUME NEW t \in Threads, NEW k \in Kinds, Lookup(t, k) PROVE Busy'
  <2>1. PICK s \in {"untraced", "record", "note"} : pc' = [pc EXCEPT ![t] = s]
    BY <1>4 DEF Lookup, Go
  <2>2. ProcOf[t] \in up /\ ProcOf[t] \notin Commands /\ UNCHANGED <<up, then, inner, doubled>>
    BY <1>4 DEF Lookup, At
  <2> QED BY <2>1, <2>2 DEF Busy, Healing, TypeOK
<1>5. ASSUME NEW t \in Threads,
             RecordLoad(t) \/ RecordOpen(t) \/ RecordWrite(t) \/ NoteHits(t)
      PROVE  Busy'
  <2>1. PICK s \in {"idle", "reg_open", "reg_write", "note", "track"} : pc' = [pc EXCEPT ![t] = s]
    BY <1>5 DEF RecordLoad, RecordOpen, RecordWrite, NoteHits, Go
  <2>2. pc[t] \in Healing /\ ProcOf[t] \in up /\ UNCHANGED <<up, then, inner, doubled>>
    BY <1>5 DEF RecordLoad, RecordOpen, RecordWrite, NoteHits, At, Healing
  <2> QED BY <2>1, <2>2 DEF Busy, Healing, TypeOK
<1>6. ASSUME NEW t \in Threads, NEW s \in {"patched", "suggested"}, Track(t, s) PROVE Busy'
  BY <1>6 DEF Busy, Track, At, Go, Healing, TypeOK
<1>7. ASSUME NEW t \in Threads, SaveOpen(t) PROVE Busy'
  BY <1>7 DEF Busy, SaveOpen, At, Go, Healing, TypeOK
<1>8. ASSUME NEW t \in Threads, SaveWrite(t) PROVE Busy'
  BY <1>8 DEF Busy, SaveWrite, At, Go, Healing, TypeOK
<1>9. ASSUME NEW t \in Threads, NEW S, NEW s, NEW n \in {"done", "remove"}, Mark(t, S, s, n)
      PROVE  Busy'
  BY <1>9 DEF Busy, Mark, At, Go, Healing, TypeOK
<1>10. ASSUME NEW t \in Threads, RemoveRegistry(t) PROVE Busy'
  BY <1>10 DEF Busy, RemoveRegistry, At, Go, Healing, TypeOK
<1>11. ASSUME NEW t \in Threads, NEW S \in SUBSET Patches, RollBackInside(t, S) PROVE Busy'
  BY <1>11 DEF Busy, RollBackInside, At, Go, Healing, TypeOK
<1> QED BY <1>1, <1>2, <1>3, <1>4, <1>5, <1>6, <1>7, <1>8, <1>9, <1>10, <1>11
        DEF Next, Heal, Command, MarkMatching, RollBackAll

LEMMA BusyAlways == Spec => []Busy
<1>1. Init => Busy
  BY DEF Init, Busy, Healing
<1> QED BY <1>1, BusyStep, TypeCorrect, PTL DEF Spec

----------------------------------------------------------------------------
(* One process at a time: what is known of the history is its copy.        *)
LEMMA CurrentCopy ==
  ASSUME Alone, TypeOK, NEW p \in up PROVE Current = copy[p]
BY DEF TypeOK, Current

LEMMA CurrentCopyNext ==
  ASSUME Alone, TypeOK', NEW p \in up' PROVE Current' = copy'[p]
BY DEF TypeOK, Current

(* What is written is the copy, or is cut short. *)
LEMMA ReadableWritten ==
  ASSUME NEW d \in [Patches -> Seq(States)], NEW f, NEW g \in Written(f, d)
  PROVE  Readable(g) \in {d, Nothing}
BY LedgerAssumption DEF Readable, Written

(* A transition of the manager that is up notes one state per patch. *)
LEMMA TransitionNotes ==
  ASSUME Alone, TypeOK, TypeOK', NEW p \in up, NEW S, NEW s \in States,
         Transition(p, S, s), UNCHANGED <<up, ledger>>
  PROVE  History!Note
<1>1. Current = copy[p] /\ Current' = copy'[p]
  BY CurrentCopy, CurrentCopyNext
<1>2. p \in Procs /\ copy \in [Procs -> [Patches -> Seq(States)]]
      /\ copy' \in [Procs -> [Patches -> Seq(States)]]
  BY DEF TypeOK
<1>3. copy'[p] = [q \in Patches |-> IF q \in S THEN Append(copy[p][q], s) ELSE copy[p][q]]
  BY <1>2 DEF Transition, Moved
<1>4. ASSUME NEW q \in Patches
      PROVE \/ copy'[p][q] = copy[p][q]
            \/ \E x \in States : copy'[p][q] = Append(copy[p][q], x)
  BY <1>3
<1>5. Readable(ledger)' = Readable(ledger)
  BY DEF Readable
<1> QED BY <1>1, <1>2, <1>4, <1>5 DEF History!Note

LEMMA HistoryInit == Init => History!Init
<1> SUFFICES ASSUME Init PROVE History!Init
  OBVIOUS
<1>1. up = {} /\ ledger = Nothing
  BY DEF Init
<1>2. Current = Nothing /\ Readable(ledger) = Nothing /\ doubled = {}
  BY <1>1 DEF Current, Readable, Init
<1> QED BY <1>2 DEF History!Init, History!Nothing, Nothing

(* What changes neither the processes that are up, nor their copies, nor   *)
(* the file, nor who has a second manager, is a stutter.                   *)
LEMMA HistoryStutter ==
  ASSUME UNCHANGED <<up, copy, ledger, doubled>> PROVE UNCHANGED History!vars
BY DEF Current, Readable, History!vars

LEMMA HistoryStep ==
  ASSUME Alone PROVE TypeOK /\ TypeOK' /\ Busy /\ [Next]_vars => [History!Next]_(History!vars)
<1> SUFFICES ASSUME TypeOK, TypeOK', Busy, [Next]_vars PROVE [History!Next]_(History!vars)
  OBVIOUS
<1> USE DEF seconds
<1>0. CASE doubled # {} \/ doubled' # {}
  BY <1>0 DEF History!Next, History!Shared
<1>1. CASE UNCHANGED vars
  BY <1>1, HistoryStutter DEF vars
<1>2. ASSUME NEW p \in Procs, Start(p), doubled = {} PROVE UNCHANGED History!vars
  <2>1. up = {} /\ up' = {p} /\ ledger' = ledger
    BY <1>2 DEF Start, files
  <2>2. copy'[p] = Readable(ledger)
    BY <1>2 DEF Start, TypeOK
  <2>3. Current' = copy'[p]
    BY <2>1, CurrentCopyNext
  <2>4. Current = Readable(ledger) /\ Readable(ledger)' = Readable(ledger)
    BY <2>1 DEF Current, Readable
  <2>5. UNCHANGED doubled
    BY <1>2 DEF Start
  <2> QED BY <2>2, <2>3, <2>4, <2>5 DEF History!vars
<1>3. ASSUME NEW p \in Procs, Stop(p) PROVE History!Recover
  <2>1. up' = {} /\ ledger' = ledger
    BY <1>3 DEF Stop, TypeOK, files
  <2>2. Current' = Readable(ledger) /\ Readable(ledger)' = Readable(ledger)
    BY <2>1 DEF Current, Readable
  <2> QED BY <2>2 DEF History!Recover
<1>4. ASSUME NEW t \in Threads, Heal(t), ~ SaveOpen(t), ~ SaveWrite(t),
             ~ Track(t, "patched"), ~ Track(t, "suggested"),
             \A S \in SUBSET Patches : ~ RollBackInside(t, S)
      PROVE  UNCHANGED History!vars
  BY <1>4, HistoryStutter
     DEF Heal, Lookup, RecordLoad, RecordOpen, RecordWrite, NoteHits, files
<1>5. ASSUME NEW t \in Threads, NEW s \in {"patched", "suggested"}, Track(t, s)
      PROVE  [History!Next]_(History!vars)
  <2>1. ProcOf[t] \in up /\ UNCHANGED <<up, ledger, doubled>> /\ s \in States
    BY <1>5 DEF Track, At, files, States
  <2>2. CASE UNCHANGED copy
    BY <2>1, <2>2, HistoryStutter
  <2>3. CASE Transition(ProcOf[t], {PatchOf[kind[t]]}, s)
    BY <2>1, <2>3, TransitionNotes DEF History!Next
  <2> QED BY <1>5, <2>2, <2>3 DEF Track
<1>6. ASSUME NEW t \in Threads, SaveOpen(t) PROVE History!Save
  <2>1. ProcOf[t] \in up /\ UNCHANGED <<up, copy>> /\ ledger' = Torn
    BY <1>6 DEF SaveOpen, At
  <2>2. Current' = Current /\ Readable(ledger)' = Nothing
    BY <2>1, CurrentCopy, CurrentCopyNext DEF Readable, Nothing
  <2> QED BY <2>2 DEF History!Save, History!Nothing, Nothing
<1>7. ASSUME NEW t \in Threads, SaveWrite(t), inner[t] = None PROVE History!Save
  <2>1. ProcOf[t] \in up /\ UNCHANGED <<up, copy>> /\ ledger' \in Written(ledger, copy[ProcOf[t]])
    BY <1>7 DEF SaveWrite, At
  <2>2. Current = copy[ProcOf[t]] /\ Current' = Current
    BY <2>1, CurrentCopy, CurrentCopyNext
  <2>3. copy[ProcOf[t]] \in [Patches -> Seq(States)]
    BY <2>1 DEF TypeOK
  <2>4. Readable(ledger)' \in {Current, Nothing}
    BY <2>1, <2>2, <2>3, ReadableWritten DEF Readable, Nothing
  <2> QED BY <2>2, <2>4 DEF History!Save, History!Nothing, Nothing
<1>8. ASSUME NEW t \in Threads, NEW S, NEW s \in {"fixed", "rolled_back"}, NEW n, Mark(t, S, s, n)
      PROVE  History!Note
  <2>1. ProcOf[t] \in up /\ UNCHANGED <<up, ledger>> /\ s \in States
        /\ Transition(ProcOf[t], S, s)
    BY <1>8 DEF Mark, At, files, States
  <2> QED BY <2>1, TransitionNotes
<1>9. ASSUME NEW t \in Threads, RemoveRegistry(t) PROVE UNCHANGED History!vars
  BY <1>9, HistoryStutter DEF RemoveRegistry
<1>10. ASSUME NEW t \in Threads, NEW S \in SUBSET Patches, RollBackInside(t, S) PROVE doubled' # {}
  BY <1>10 DEF RollBackInside
<1>11. ASSUME NEW t \in Threads, inner[t] # None PROVE doubled # {}
  BY <1>11 DEF Busy
<1> QED BY <1>0, <1>1, <1>2, <1>3, <1>4, <1>5, <1>6, <1>7, <1>8, <1>9, <1>10, <1>11
        DEF Next, Heal, Command, MarkMatching, RollBackAll, History!Next

(* As long as one process is up at a time, lifecycle.json and the manager  *)
(* implement PatchHistory, whatever is killed and wherever it is: also     *)
(* before and after, not during, a process that rolls back a function      *)
(* itself.                                                                 *)
THEOREM LedgerKeepsHistory == Alone => (Spec => ImplementsHistory)
<1> SUFFICES ASSUME Alone PROVE Spec => ImplementsHistory
  OBVIOUS
<1>1. TypeOK /\ TypeOK' /\ Busy /\ [Next]_vars => [History!Next]_(History!vars)
  BY HistoryStep
<1> QED BY <1>1, HistoryInit, TypeCorrect, BusyAlways, PTL DEF Spec, ImplementsHistory, History!Spec

----------------------------------------------------------------------------
RegistryInv ==
  /\ HitsExact /\ TracingKept
  /\ \A t \in Threads :
       /\ pc[t] = "reg_write" => registry = Torn
       /\ pc[t] \in {"reg_open", "reg_write"} =>
            cut \/ read[t] = [recorded EXCEPT ![kind[t]] = @ + 1]

LedgerInv ==
  /\ CopiesExact
  /\ doubled = {} => \A t \in Threads : pc[t] = "write" => ledger = Torn

FilesInv == Busy /\ RegistryInv /\ LedgerInv

LEMMA FilesInit == Init => FilesInv
BY DEF Init, FilesInv, Busy, Healing, RegistryInv, HitsExact, TracingKept,
       LedgerInv, CopiesExact

(* What neither touches the registry nor who writes it. *)
LEMMA RegistryKept ==
  ASSUME RegistryInv, UNCHANGED <<registry, read, kind, recorded, cut>>, TypeOK,
         NEW t \in Threads, NEW s \in Steps \ {"reg_open", "reg_write", "untraced"},
         pc[t] # "reg_write", pc' = [pc EXCEPT ![t] = s]
  PROVE  RegistryInv'
BY DEF RegistryInv, HitsExact, TracingKept, TypeOK

LEMMA RegistryStep ==
  ASSUME Alone PROVE TypeOK /\ Busy /\ RegistryInv /\ [Next]_vars => RegistryInv'
<1> SUFFICES ASSUME TypeOK, Busy, RegistryInv, [Next]_vars PROVE RegistryInv'
  OBVIOUS
<1> USE LedgerAssumption
<1>0. \A t, u \in Threads : pc[t] # "idle" /\ pc[u] # "idle" => ProcOf[t] = ProcOf[u]
  BY DEF Busy, TypeOK
<1>1. CASE UNCHANGED vars
  BY <1>1 DEF RegistryInv, HitsExact, TracingKept, vars
<1>2. ASSUME NEW p \in Procs, Start(p) PROVE RegistryInv'
  BY <1>2 DEF RegistryInv, HitsExact, TracingKept, Start, files, ghosts
<1>3. ASSUME NEW p \in Procs, Stop(p) PROVE RegistryInv'
  <2>0. pc' = [t \in Threads |-> IF ProcOf[t] = p THEN "idle" ELSE pc[t]]
    BY <1>3 DEF Stop
  <2>1. ASSUME NEW t \in Threads PROVE pc'[t] = "idle"
    <3>1. CASE ProcOf[t] = p
      BY <2>0, <3>1
    <3>2. CASE ProcOf[t] # p
      <4>1. ProcOf[t] \notin up
        BY <1>3, <3>2 DEF Stop, TypeOK
      <4> QED BY <2>0, <3>2, <4>1 DEF Busy
    <3> QED BY <3>1, <3>2
  <2>2. registry' = registry /\ recorded' = recorded
    BY <1>3 DEF Stop, files
  <2>3. cut' \/ registry' = recorded'
    <3>1. ASSUME NEW t \in Threads, pc[t] = "reg_write" PROVE cut'
      <4>1. ProcOf[t] = p
        BY <1>3, <3>1 DEF Stop, Busy, TypeOK
      <4> QED BY <1>3, <3>1, <4>1 DEF Stop
    <3>2. cut => cut'
      BY <1>3 DEF Stop
    <3> QED BY <2>2, <3>1, <3>2 DEF RegistryInv, HitsExact
  <2> QED BY <2>1, <2>3 DEF RegistryInv, HitsExact, TracingKept
<1>4. ASSUME NEW t \in Threads, NEW k \in Kinds, Lookup(t, k) PROVE RegistryInv'
  <2>1. UNCHANGED <<registry, read, recorded, cut>> /\ pc[t] = "idle"
        /\ kind' = [kind EXCEPT ![t] = k] /\ rlock[ProcOf[t]] = None /\ ProcOf[t] \in up
    BY <1>4 DEF Lookup, At, files, ghosts
  <2>2. \A u \in Threads : pc[u] \notin {"reg_open", "reg_write"}
    <3> SUFFICES ASSUME NEW u \in Threads, pc[u] \in {"reg_open", "reg_write"} PROVE FALSE
      OBVIOUS
    <3>1. ProcOf[u] = ProcOf[t]
      BY <2>1 DEF Busy, TypeOK
    <3> QED BY <2>1, <3>1 DEF TypeOK
  <2>3. cut \/ registry # Torn
    BY <2>2 DEF RegistryInv, HitsExact, TypeOK
  <2>4. PICK s \in {"untraced", "record", "note"} :
          pc' = [pc EXCEPT ![t] = s] /\ (s = "untraced" => registry = Torn)
    BY <1>4 DEF Lookup, Go
  <2> QED BY <2>1, <2>2, <2>3, <2>4 DEF RegistryInv, HitsExact, TracingKept, TypeOK
<1>5. ASSUME NEW t \in Threads, RecordLoad(t) PROVE RegistryInv'
  <2>1. UNCHANGED <<registry, kind, recorded, cut>> /\ pc[t] = "record" /\ rlock[ProcOf[t]] = None
    BY <1>5 DEF RecordLoad, At, files, ghosts
  <2>2. \A u \in Threads : pc[u] \notin {"reg_open", "reg_write"}
    BY <1>0, <2>1 DEF TypeOK
  <2>3. CASE registry = Torn
    <3>1. pc' = [pc EXCEPT ![t] = "idle"] /\ UNCHANGED read
      BY <1>5, <2>3 DEF RecordLoad, Go
    <3> QED BY <2>1, <3>1, RegistryKept DEF Steps
  <2>4. CASE registry # Torn
    <3>1. pc' = [pc EXCEPT ![t] = "reg_open"]
          /\ read' = [read EXCEPT ![t] = [registry EXCEPT ![kind[t]] = @ + 1]]
      BY <1>5, <2>4 DEF RecordLoad, Go
    <3>2. cut \/ registry = recorded
      BY <2>2 DEF RegistryInv, HitsExact
    <3>3. cut \/ read'[t] = [recorded EXCEPT ![kind[t]] = @ + 1]
      BY <3>1, <3>2 DEF TypeOK
    <3> QED BY <2>1, <2>2, <3>1, <3>2, <3>3 DEF RegistryInv, HitsExact, TracingKept, TypeOK
  <2> QED BY <2>3, <2>4
<1>6. ASSUME NEW t \in Threads, RecordOpen(t) PROVE RegistryInv'
  <2>1. UNCHANGED <<read, kind, recorded, cut>> /\ registry' = Torn
        /\ pc[t] = "reg_open" /\ pc' = [pc EXCEPT ![t] = "reg_write"]
    BY <1>6 DEF RecordOpen, At, Go, ghosts
  <2> QED BY <2>1 DEF RegistryInv, HitsExact, TracingKept, TypeOK
<1>7. ASSUME NEW t \in Threads, RecordWrite(t) PROVE RegistryInv'
  <2>1. UNCHANGED <<read, kind>> /\ pc[t] = "reg_write" /\ registry = Torn
    BY <1>7 DEF RecordWrite, At, RegistryInv
  <2>2. \A u \in Threads : u # t => pc[u] \notin {"reg_open", "reg_write"}
    BY <1>0, <2>1 DEF TypeOK
  <2>3. CASE kind[t] \in Unserializable
    <3>1. cut' /\ pc' = [pc EXCEPT ![t] = "idle"]
      BY <1>7, <2>3 DEF RecordWrite, Go
    <3> QED BY <2>1, <2>2, <3>1 DEF RegistryInv, HitsExact, TracingKept, TypeOK
  <2>4. CASE kind[t] \notin Unserializable
    <3>1. /\ UNCHANGED cut /\ pc' = [pc EXCEPT ![t] = "note"]
          /\ registry' = read[t] /\ recorded' = [recorded EXCEPT ![kind[t]] = @ + 1]
      BY <1>7, <2>1, <2>4 DEF RecordWrite, Go, Written
    <3>2. cut \/ read[t] = [recorded EXCEPT ![kind[t]] = @ + 1]
      BY <2>1 DEF RegistryInv
    <3>3. cut \/ registry' = recorded'
      BY <3>1, <3>2
    <3> QED BY <2>1, <2>2, <3>1, <3>3 DEF RegistryInv, HitsExact, TracingKept, TypeOK
  <2> QED BY <2>3, <2>4
<1>8. ASSUME NEW t \in Threads, NoteHits(t) PROVE RegistryInv'
  <2>1. UNCHANGED <<registry, read, kind, recorded, cut>> /\ pc[t] = "note"
    BY <1>8 DEF NoteHits, At, files, ghosts
  <2>2. PICK s \in {"idle", "track"} : pc' = [pc EXCEPT ![t] = s]
    BY <1>8 DEF NoteHits, Go
  <2> QED BY <2>1, <2>2, RegistryKept DEF Steps
<1>9. ASSUME NEW t \in Threads, NEW s \in {"patched", "suggested"}, Track(t, s) PROVE RegistryInv'
  <2>1. UNCHANGED <<registry, read, kind, recorded, cut>> /\ pc[t] \in {"track", "suggest"}
        /\ pc' = [pc EXCEPT ![t] = "open"]
    BY <1>9 DEF Track, At, Go, files, ghosts
  <2> QED BY <2>1, RegistryKept DEF Steps
<1>10. ASSUME NEW t \in Threads, SaveOpen(t) PROVE RegistryInv'
  <2>1. UNCHANGED <<registry, read, kind, recorded, cut>> /\ pc[t] = "open"
        /\ pc' = [pc EXCEPT ![t] = "write"]
    BY <1>10 DEF SaveOpen, At, Go, ghosts
  <2> QED BY <2>1, RegistryKept DEF Steps
<1>11. ASSUME NEW t \in Threads, SaveWrite(t) PROVE RegistryInv'
  <2>1. UNCHANGED <<registry, read, kind, recorded, cut>> /\ pc[t] = "write"
        /\ pc' = [pc EXCEPT ![t] = then[t]]
    BY <1>11 DEF SaveWrite, At, Go, ghosts
  <2>2. then[t] \in Steps \ {"reg_open", "reg_write", "untraced"}
    BY DEF TypeOK, Steps
  <2> QED BY <2>1, <2>2, RegistryKept
<1>12. ASSUME NEW t \in Threads, NEW S, NEW s, NEW n, Mark(t, S, s, n) PROVE RegistryInv'
  <2>1. UNCHANGED <<registry, read, kind, recorded, cut>> /\ pc[t] = "idle"
        /\ pc' = [pc EXCEPT ![t] = "open"]
    BY <1>12 DEF Mark, At, Go, files, ghosts
  <2> QED BY <2>1, RegistryKept DEF Steps
<1>13. ASSUME NEW t \in Threads, RemoveRegistry(t) PROVE RegistryInv'
  <2>1. /\ pc[t] = "remove" /\ pc' = [pc EXCEPT ![t] = "done"]
        /\ registry' = NoHits /\ recorded' = NoHits
    BY <1>13 DEF RemoveRegistry, At, Go
  <2>2. \A u \in Threads : pc[u] \notin Healing
    BY <1>0, <2>1 DEF Busy, Healing
  <2> QED BY <2>1, <2>2 DEF RegistryInv, HitsExact, TracingKept, TypeOK, Healing
<1>14. ASSUME NEW t \in Threads, NEW S \in SUBSET Patches, RollBackInside(t, S) PROVE RegistryInv'
  <2>1. UNCHANGED <<registry, read, kind, recorded, cut>> /\ pc[t] = "idle"
        /\ pc' = [pc EXCEPT ![t] = "open"]
    BY <1>14 DEF RollBackInside, At, Go, files, ghosts
  <2> QED BY <2>1, RegistryKept DEF Steps
<1> QED BY <1>1, <1>2, <1>3, <1>4, <1>5, <1>6, <1>7, <1>8, <1>9, <1>10, <1>11, <1>12, <1>13, <1>14
        DEF Next, Heal, Command, MarkMatching, RollBackAll

LEMMA LedgerStep ==
  ASSUME Alone PROVE TypeOK /\ TypeOK' /\ Busy /\ LedgerInv /\ [Next]_vars => LedgerInv'
<1> SUFFICES ASSUME TypeOK, TypeOK', Busy, LedgerInv, [Next]_vars PROVE LedgerInv'
  OBVIOUS
<1> USE LedgerAssumption DEF seconds
<1>0. \A t, u \in Threads : pc[t] # "idle" /\ pc[u] # "idle" => ProcOf[t] = ProcOf[u]
  BY DEF Busy, TypeOK
<1>00. CASE doubled' # {}
  <2>1. PICK r \in doubled' : TRUE
    BY <1>00
  <2>2. r \in up' /\ \A p \in up' : p = r
    BY <2>1 DEF TypeOK
  <2>3. \A p \in up' : p \in doubled'
    BY <2>1, <2>2
  <2> QED BY <1>00, <2>3 DEF LedgerInv, CopiesExact
<1> USE DEF LedgerInv, CopiesExact
<1>1. CASE UNCHANGED vars
  BY <1>1 DEF LedgerInv, CopiesExact, Readable, vars
<1>2. ASSUME NEW p \in Procs, Start(p) PROVE LedgerInv'
  <2>1. up' = {p} /\ UNCHANGED <<pc, ledger>> /\ copy'[p] = Readable(ledger) /\ doubled' = doubled
    BY <1>2 DEF Start, files, TypeOK
  <2> QED BY <2>1 DEF LedgerInv, CopiesExact, Readable
<1>3. ASSUME NEW p \in Procs, Stop(p) PROVE LedgerInv'
  <2>1. up' = {} /\ \A t \in Threads : pc'[t] = "idle"
    BY <1>3 DEF Stop, TypeOK, Busy
  <2> QED BY <2>1 DEF LedgerInv, CopiesExact
<1>4. ASSUME NEW t \in Threads, UNCHANGED <<up, copy, ledger, doubled>>, pc[t] \notin {"open", "write"},
             NEW s \in Steps \ {"open", "write"}, pc' = [pc EXCEPT ![t] = s]
      PROVE  LedgerInv'
  BY <1>4 DEF LedgerInv, CopiesExact, Readable, TypeOK
<1>5. ASSUME NEW t \in Threads, Heal(t), ~ SaveOpen(t), ~ SaveWrite(t),
             ~ Track(t, "patched"), ~ Track(t, "suggested"),
             \A S \in SUBSET Patches : ~ RollBackInside(t, S)
      PROVE  LedgerInv'
  <2>1. PICK s \in Steps \ {"open", "write"} : pc' = [pc EXCEPT ![t] = s]
    BY <1>5 DEF Heal, Lookup, RecordLoad, RecordOpen, RecordWrite, NoteHits, Go, Steps
  <2>2. UNCHANGED <<up, copy, ledger, doubled>> /\ pc[t] \notin {"open", "write"}
    BY <1>5 DEF Heal, Lookup, RecordLoad, RecordOpen, RecordWrite, NoteHits, At, files
  <2> QED BY <1>4, <2>1, <2>2
<1>6. ASSUME NEW t \in Threads, pc[t] \notin {"open", "write"}, pc' = [pc EXCEPT ![t] = "open"],
             ledger' = ledger, doubled' = doubled
      PROVE  LedgerInv'
  BY <1>6 DEF LedgerInv, CopiesExact, TypeOK
<1>7. ASSUME NEW t \in Threads, NEW s \in {"patched", "suggested"}, Track(t, s) PROVE LedgerInv'
  BY <1>6, <1>7 DEF Track, At, Go, files
<1>8. ASSUME NEW t \in Threads, SaveOpen(t) PROVE LedgerInv'
  <2>1. ledger' = Torn /\ pc' = [pc EXCEPT ![t] = "write"]
    BY <1>8 DEF SaveOpen, Go
  <2> QED BY <2>1 DEF LedgerInv, CopiesExact, TypeOK
<1>9. ASSUME NEW t \in Threads, SaveWrite(t), doubled' = {} PROVE LedgerInv'
  <2>0. doubled = {} /\ \A u \in Threads : inner[u] = None
    BY <1>9 DEF SaveWrite, Busy
  <2>1. pc[t] = "write" /\ pc' = [pc EXCEPT ![t] = then[t]] /\ ProcOf[t] \in up
        /\ UNCHANGED <<up, copy>> /\ ledger = Torn
    BY <1>9, <2>0 DEF SaveWrite, At, Go
  <2>2. ledger' = copy[ProcOf[t]]
    BY <1>9, <2>0, <2>1 DEF SaveWrite, Written
  <2>3. \A u \in Threads : u # t => pc[u] \notin {"open", "write"}
    <3> SUFFICES ASSUME NEW u \in Threads, u # t, pc[u] \in {"open", "write"} PROVE FALSE
      OBVIOUS
    <3>1. ProcOf[u] = ProcOf[t]
      BY <1>0, <2>1
    <3>2. lock[ProcOf[u]] = u /\ lock[ProcOf[t]] = t
      BY <2>0, <2>1 DEF TypeOK
    <3> QED BY <3>1, <3>2
  <2>4. \A u \in Threads : pc'[u] \notin {"open", "write"}
    BY <2>1, <2>3 DEF TypeOK
  <2>5. copy[ProcOf[t]] \in [Patches -> Seq(States)]
    BY <2>1 DEF TypeOK
  <2>6. Readable(ledger)' = copy[ProcOf[t]]
    BY <2>2, <2>5 DEF Readable
  <2>7. \A p \in up' : copy'[p] = Readable(ledger)'
    BY <2>1, <2>6 DEF TypeOK
  <2> QED BY <2>4, <2>7 DEF LedgerInv, CopiesExact
<1>10. ASSUME NEW t \in Threads, NEW S, NEW s, NEW n, Mark(t, S, s, n) PROVE LedgerInv'
  BY <1>6, <1>10 DEF Mark, At, Go, files
<1>11. ASSUME NEW t \in Threads, RemoveRegistry(t) PROVE LedgerInv'
  BY <1>4, <1>11 DEF RemoveRegistry, At, Go, Steps
<1>12. ASSUME NEW t \in Threads, NEW S \in SUBSET Patches, RollBackInside(t, S) PROVE doubled' # {}
  BY <1>12 DEF RollBackInside
<1> QED BY <1>00, <1>12, <1>1, <1>2, <1>3, <1>5, <1>7, <1>8, <1>9, <1>10, <1>11
        DEF Next, Heal, Command, MarkMatching, RollBackAll

LEMMA FilesInvariant == Alone => (Spec => []FilesInv)
<1> SUFFICES ASSUME Alone PROVE Spec => []FilesInv
  OBVIOUS
<1>1. TypeOK /\ TypeOK' /\ FilesInv /\ [Next]_vars => FilesInv'
  BY BusyStep, RegistryStep, LedgerStep DEF FilesInv
<1> QED BY <1>1, FilesInit, TypeCorrect, PTL DEF Spec

(* One process at a time, the files lose nothing: no hit of the registry   *)
(* and no state of lifecycle.json, but for a write that was cut short; the *)
(* second for processes that have not rolled back a function themselves.   *)
THEOREM FilesStayExact == Alone => (Spec => []FilesExact)
<1>1. FilesInv => FilesExact
  BY DEF FilesInv, RegistryInv, LedgerInv, FilesExact
<1> QED BY <1>1, FilesInvariant, PTL

(* A thread whose lookup fails, and which is not traced any more, has read *)
(* what a killed process or an unserialisable key left behind.             *)
THEOREM TracingIsKept == Alone => (Spec => []TracingKept)
<1>1. FilesInv => TracingKept
  BY DEF FilesInv, RegistryInv
<1> QED BY <1>1, FilesInvariant, PTL

----------------------------------------------------------------------------
(* RunLoop. *)

Guarded == {b \in Bugs : b \in live[FuncOf[b]]}

Kept ==
  /\ \A f \in Funcs \ defined : live[f] = {}
  /\ \A f \in defined \ Nested : stored[f] \subseteq live[f]
  /\ \A b \in healed : FuncOf[b] \notin Nested => b \in stored[FuncOf[b]]
  /\ \A b \in began : FuncOf[b] \notin Nested =>
       b \in IF FuncOf[b] \in defined THEN live[FuncOf[b]] ELSE stored[FuncOf[b]]
  /\ stage = "launch" => defined = {} /\ crashed = NoBug
  /\ NoRecurrence

Counted == patched <= run * Cardinality(Bugs) + Cardinality(Guarded) + again

(* Child n failed with the exception of the one before, and patched nothing. *)
SameAgain(l, n) ==
  /\ n >= 2 /\ l[n].exception # NoBug
  /\ l[n - 1].exception = l[n].exception /\ ~l[n].patched

Streak ==
  /\ last = IF log = <<>> THEN NoBug ELSE log[Len(log)].exception
  /\ same = IF ~SameAgain(log, Len(log)) THEN 0 ELSE IF ~SameAgain(log, Len(log) - 1) THEN 1 ELSE 2
  /\ same = 2 <=> stage = "unrecoverable"
  /\ stage \in {"running", "uncaught", "exited"} => restarts <= MaxRestarts
  /\ Len(log) <= IF stage \in {"launch", "unrecoverable", "exhausted"} THEN 3 ELSE 2

Inv == RLTypeOK /\ Kept /\ Counted /\ Streak

----------------------------------------------------------------------------
LEMMA Constants ==
  /\ IsFiniteSet(Bugs) /\ FuncOf \in [Bugs -> Funcs] /\ Patchable \subseteq Bugs
  /\ Imported \subseteq Funcs /\ Nested \subseteq Funcs \ Imported
  /\ Retries \in Nat /\ MaxRestarts \in Nat /\ MaxAgain \in Nat /\ NoBug \notin Bugs
  /\ Cardinality(Bugs) \in Nat
BY RunLoopAssumption, FS_CardinalityType

(* There are no more guards in place than there are bugs. *)
LEMMA GuardedBound ==
  /\ IsFiniteSet(Guarded) /\ Cardinality(Guarded) \in Nat
  /\ Cardinality(Guarded) <= Cardinality(Bugs)
BY Constants, FS_Subset, FS_CardinalityType, Guarded \subseteq Bugs DEF Guarded

(* Guards that are only added do not become fewer. *)
LEMMA GuardedGrows ==
  ASSUME RLTypeOK, RLTypeOK', \A f \in Funcs : live[f] \subseteq live'[f]
  PROVE  /\ IsFiniteSet(Guarded') /\ Cardinality(Guarded') \in Nat
         /\ Cardinality(Guarded) <= Cardinality(Guarded')
<1>1. Guarded \subseteq Guarded' /\ Guarded' \subseteq Bugs
  BY Constants DEF Guarded, RLTypeOK
<1>2. IsFiniteSet(Guarded')
  BY <1>1, Constants, FS_Subset
<1> QED BY <1>1, <1>2, FS_Subset, FS_CardinalityType

----------------------------------------------------------------------------
LEMMA InvInit == RLInit => Inv
<1> SUFFICES ASSUME RLInit PROVE Inv
  OBVIOUS
<1>1. 0 <= (Retries + 1) * Cardinality(Bugs)
  BY Constants
<1>2. RLTypeOK
  BY <1>1, Constants DEF RLInit, RLTypeOK
<1>3. Kept
  BY Constants DEF RLInit, Kept, NoRecurrence
<1>4. Counted
  BY GuardedBound, Constants DEF RLInit, Counted
<1>5. Streak
  BY Constants DEF RLInit, Streak, SameAgain
<1> QED BY <1>2, <1>3, <1>4, <1>5 DEF Inv

LEMMA TailType ==
  ASSUME NEW S, NEW s \in Seq(S), Len(s) > 2
  PROVE  /\ Tail(s) \in Seq(S) /\ Len(Tail(s)) = Len(s) - 1
         /\ \A i \in 1 .. Len(s) - 1 : Tail(s)[i] = s[i + 1]
OBVIOUS

LEMMA Product ==
  ASSUME NEW r \in Nat, NEW s \in Nat, NEW c \in Nat, r <= s
  PROVE  /\ r * c \in Nat /\ (s + 1) * c \in Nat
         /\ (r + 1) * c = r * c + c /\ (r + 1) * c <= (s + 1) * c
<1>1. r * c \in Nat /\ (s + 1) * c \in Nat /\ (r + 1) * c = r * c + c
  BY Z3
<1>2. PICK k \in Nat : s = r + k
  BY s - r \in Nat
<1>3. (s + 1) * c = (r + 1) * c + k * c /\ k * c >= 0 /\ (r + 1) * c \in Nat
  BY <1>2, Z3
<1> QED BY <1>1, <1>3

(* A guard that was not in place is one more of those that are; one that   *)
(* was there is counted in again.                                          *)
LEMMA PatchCounts ==
  ASSUME RLTypeOK, Counted, NEW b \in Bugs, Patch(b)
  PROVE  /\ Counted' /\ again' \in 0 .. MaxAgain
         /\ patched' \in before' .. (Retries + 1) * Cardinality(Bugs) + again'
<1>1. /\ run \in Nat /\ run <= Retries /\ patched \in Nat /\ before \in Nat /\ patched >= before
      /\ again \in 0 .. MaxAgain /\ MaxAgain \in Nat
  BY Constants DEF RLTypeOK
<1>2. patched' = patched + 1 /\ run' = run /\ before' = before
  BY DEF Patch, Counts
<1>3. /\ run * Cardinality(Bugs) \in Nat /\ (Retries + 1) * Cardinality(Bugs) \in Nat
      /\ run * Cardinality(Bugs) + Cardinality(Bugs) <= (Retries + 1) * Cardinality(Bugs)
  BY <1>1, Constants, Product
<1>4. /\ again' \in 0 .. MaxAgain
      /\ Cardinality(Guarded') \in Nat /\ Cardinality(Guarded') <= Cardinality(Bugs)
      /\ Cardinality(Guarded') + again' = Cardinality(Guarded) + again + 1
  <2>1. CASE b \in live[FuncOf[b]]
    <3>1. Guarded' = Guarded
      BY <2>1, Constants DEF Patch, Guarded, RLTypeOK
    <3>2. again < MaxAgain /\ again' = again + 1
      BY <2>1 DEF Patch, Counts
    <3> HIDE DEF Guarded
    <3> QED BY <1>1, <3>1, <3>2, GuardedBound
  <2>2. CASE b \notin live[FuncOf[b]]
    <3>1. Guarded' = Guarded \cup {b} /\ b \notin Guarded
      BY <2>2, Constants DEF Patch, Guarded, RLTypeOK
    <3>2. Cardinality(Guarded') = Cardinality(Guarded) + 1
      BY <3>1, GuardedBound, FS_AddElement
    <3>3. Guarded' \subseteq Bugs /\ Cardinality(Guarded') <= Cardinality(Bugs)
      BY <3>1, Constants, FS_Subset DEF Guarded
    <3>4. again' = again
      BY <2>2 DEF Patch, Counts
    <3> HIDE DEF Guarded
    <3> QED BY <1>1, <3>2, <3>3, <3>4, GuardedBound
  <2> QED BY <2>1, <2>2
<1> HIDE DEF Guarded
<1>5. Counted'
  BY <1>1, <1>2, <1>3, <1>4, GuardedBound DEF Counted
<1> QED BY <1>1, <1>2, <1>3, <1>4, <1>5, GuardedBound, Constants DEF Counted

----------------------------------------------------------------------------
(* A step keeps the types.                                                 *)
LEMMA Typing == Inv /\ [RLNext]_rlvars => RLTypeOK'
<1> SUFFICES ASSUME Inv, [RLNext]_rlvars PROVE RLTypeOK'
  OBVIOUS
<1> USE Constants DEF Inv, RLTypeOK
<1>0. ASSUME ChildGone PROVE 0 <= (Retries + 1) * Cardinality(Bugs) + again' /\ again' = 0
  BY <1>0, Product DEF ChildGone
<1>1. CASE UNCHANGED rlvars
  BY <1>1 DEF rlvars, watcher, child, memory
<1>2. CASE Launch
  BY <1>2, TailType DEF Launch, child
<1>3. CASE Reexecute
  BY <1>3 DEF Reexecute, watcher
<1>4. CASE GiveUp
  BY <1>4 DEF GiveUp, watcher, memory
<1>5. CASE Finish
  BY <1>5 DEF Finish, watcher
<1>6. CASE Exit
  BY <1>6 DEF Exit, watcher, memory
<1>7. ASSUME NEW f \in Funcs, Define(f) \/ Import(f) PROVE RLTypeOK'
  BY <1>7 DEF Define, Import, Loaded, watcher, child
<1>8. ASSUME NEW b \in Bugs, Patch(b) PROVE RLTypeOK'
  <2>1. patched' \in before' .. (Retries + 1) * Cardinality(Bugs) + again' /\ again' \in 0 .. MaxAgain
    BY <1>8, PatchCounts
  <2> QED BY <1>8, <2>1 DEF Patch, Hits, Propagates, watcher
<1>9. ASSUME NEW b \in Bugs, PatchFails(b) PROVE RLTypeOK'
  BY <1>9 DEF PatchFails, Hits, Propagates, watcher
<1>10. ASSUME NEW b \in Bugs, Crash(b) PROVE RLTypeOK'
  BY <1>10 DEF Crash, Hits, Propagates, watcher, child
<1>11. CASE TimeOut
  BY <1>11, <1>0 DEF TimeOut, Streak, ChildGone
<1>12. CASE Clean
  BY <1>12 DEF Clean, Verdicts, watcher, child, memory
<1>13. CASE Judge
  <2>1. same \in 0 .. 1 /\ restarts <= MaxRestarts
    BY <1>13 DEF Judge, Judged, Streak
  <2>2. [exception |-> current_exception, patched |-> patched > 0]
          \in [exception : Bugs \cup {NoBug}, patched : BOOLEAN]
    BY DEF current_exception
  <2> QED BY <1>0, <1>13, <2>1, <2>2 DEF Judge, Judged, Repeated, current_exception, Verdicts, ChildGone
<1>14. CASE Exhausted
  BY <1>14 DEF Exhausted, Verdicts, watcher, child, memory
<1> QED BY <1>1, <1>2, <1>3, <1>4, <1>5, <1>6, <1>7, <1>8, <1>9, <1>10, <1>11, <1>12, <1>13, <1>14 DEF RLNext

----------------------------------------------------------------------------
(* A step keeps saved patches where they are found again.                  *)
LEMMA KeptKept == Inv /\ [RLNext]_rlvars => Kept'
<1> SUFFICES ASSUME Inv, [RLNext]_rlvars PROVE Kept'
  OBVIOUS
<1> USE Constants DEF Inv, RLTypeOK, Kept, NoRecurrence
<1>1. CASE UNCHANGED rlvars
  BY <1>1 DEF rlvars, watcher, child, memory
<1>2. CASE Launch
  BY <1>2 DEF Launch
<1>3. CASE Reexecute
  BY <1>3 DEF Reexecute
<1>4. CASE GiveUp
  BY <1>4 DEF GiveUp, memory
<1>5. CASE Finish
  BY <1>5 DEF Finish
<1>6. CASE Exit
  BY <1>6 DEF Exit, memory
<1>7. ASSUME NEW f \in Funcs, Define(f) \/ Import(f) PROVE Kept'
  BY <1>7 DEF Define, Import, Loaded
<1>8. ASSUME NEW b \in Bugs, Patch(b) PROVE Kept'
  BY <1>8 DEF Patch, Hits, Propagates
<1>9. ASSUME NEW b \in Bugs, PatchFails(b) PROVE Kept'
  BY <1>9 DEF PatchFails, Hits, Propagates
<1>10. ASSUME NEW b \in Bugs, Crash(b) PROVE Kept'
  BY <1>10 DEF Crash, Hits, Propagates
<1>11. CASE Clean \/ Exhausted
  BY <1>11 DEF Clean, Exhausted, memory
<1>12. CASE TimeOut \/ Judge
  BY <1>12 DEF TimeOut, Judge, Judged, ChildGone
<1> QED BY <1>1, <1>2, <1>3, <1>4, <1>5, <1>6, <1>7, <1>8, <1>9, <1>10, <1>11, <1>12 DEF RLNext

----------------------------------------------------------------------------
(* A step keeps the bound on the patches.                                  *)
LEMMA CountedKept == Inv /\ [RLNext]_rlvars => Counted'
<1> SUFFICES ASSUME Inv, [RLNext]_rlvars PROVE Counted'
  OBVIOUS
<1> USE DEF Inv
<1>1. RLTypeOK' /\ patched \in Nat /\ run \in Nat /\ run * Cardinality(Bugs) \in Nat /\ again \in Nat
  BY Typing, Constants, Product DEF RLTypeOK
<1>2. ASSUME patched' = patched, run' = run, again' = again, \A f \in Funcs : live[f] \subseteq live'[f] PROVE Counted'
  BY <1>1, <1>2, GuardedGrows, GuardedBound DEF Counted
<1>3. CASE UNCHANGED rlvars
  BY <1>2, <1>3 DEF rlvars, child, memory
<1>4. CASE TimeOut \/ Judge
  <2>1. Guarded' \subseteq Bugs /\ Cardinality(Guarded') \in Nat
    BY Constants, FS_Subset, FS_CardinalityType DEF Guarded
  <2>2. patched' = 0 /\ run' = 0 /\ again' = 0
    BY <1>4 DEF TimeOut, Judge, Judged, ChildGone
  <2> QED BY <2>1, <2>2, Constants, Product DEF Counted
<1>5. CASE Reexecute
  <2>1. Guarded' \subseteq Bugs /\ Cardinality(Guarded') \in Nat
    BY Constants, FS_Subset, FS_CardinalityType DEF Guarded
  <2>2. patched' = patched /\ run' = run + 1 /\ again' = again
    BY <1>5 DEF Reexecute
  <2>3. run' * Cardinality(Bugs) = run * Cardinality(Bugs) + Cardinality(Bugs)
    BY <1>1, <2>2, Constants, Product
  <2> QED BY <1>1, <2>1, <2>2, <2>3, GuardedBound, Constants DEF Counted
<1>6. CASE Launch \/ GiveUp \/ Finish \/ Exit
  BY <1>2, <1>6 DEF Launch, GiveUp, Finish, Exit, child, memory
<1>7. ASSUME NEW f \in Funcs, Define(f) \/ Import(f) PROVE Counted'
  <2>1. \A g \in Funcs : live[g] \subseteq live'[g]
    BY <1>7 DEF Define, Import, Kept, RLTypeOK
  <2> QED BY <1>2, <1>7, <2>1 DEF Define, Import, child
<1>8. ASSUME NEW b \in Bugs, Patch(b) PROVE Counted'
  BY <1>8, PatchCounts
<1>9. ASSUME NEW b \in Bugs, PatchFails(b) PROVE Counted'
  <2>1. \A g \in Funcs : live[g] \subseteq live'[g]
    BY <1>9 DEF PatchFails, RLTypeOK
  <2> QED BY <1>2, <1>9, <2>1 DEF PatchFails
<1>10. ASSUME NEW b \in Bugs, Crash(b) PROVE Counted'
  BY <1>2, <1>10 DEF Crash, child
<1>11. CASE Clean \/ Exhausted
  BY <1>2, <1>11 DEF Clean, Exhausted, child, memory
<1> QED BY <1>3, <1>4, <1>5, <1>6, <1>7, <1>8, <1>9, <1>10, <1>11 DEF RLNext

----------------------------------------------------------------------------
(* A step keeps what the watcher knows of the children that failed.        *)
LEMMA StreakKept == Inv /\ [RLNext]_rlvars => Streak'
<1> SUFFICES ASSUME Inv, [RLNext]_rlvars PROVE Streak'
  OBVIOUS
<1> USE Constants DEF Inv, RLTypeOK, Streak
<1>1. CASE UNCHANGED rlvars
  BY <1>1 DEF rlvars, watcher, SameAgain
<1>2. CASE Reexecute \/ GiveUp \/ Finish \/ Exit
  BY <1>2 DEF Reexecute, GiveUp, Finish, Exit, watcher, SameAgain
<1>7. CASE Launch
  <2> DEFINE n == Len(log)
  <2>0. /\ stage = "launch" /\ stage' = "running" /\ restarts <= MaxRestarts
        /\ same' = same /\ last' = last /\ restarts' = restarts
        /\ log' = IF n > 2 THEN Tail(log) ELSE log
    BY <1>7 DEF Launch
  <2>1. n \in Nat /\ n <= 3 /\ same \in {0, 1}
    BY <2>0
  <2>2. CASE n <= 2
    <3>1. log' = log
      BY <2>0, <2>1, <2>2
    <3> QED BY <2>0, <2>1, <2>2, <3>1 DEF SameAgain
  <2>3. CASE n = 3
    <3>1. log' = Tail(log)
      BY <2>0, <2>3
    <3>2. Len(log') = 2 /\ log'[1] = log[2] /\ log'[2] = log[3]
      BY <2>3, <3>1, TailType
    <3>3. SameAgain(log', 2) <=> SameAgain(log, 3)
      BY <3>2 DEF SameAgain
    <3>4. ~SameAgain(log', 1)
      BY DEF SameAgain
    <3>5. last' = log'[2].exception /\ log' # <<>>
      <4>1. log # <<>> /\ log' # <<>>
        BY <2>3, <3>2
      <4>2. last = log[3].exception
        BY <2>3, <4>1
      <4> QED BY <2>0, <3>2, <4>1, <4>2
    <3>6. same = IF SameAgain(log, 3) THEN 1 ELSE 0
      BY <2>1, <2>3
    <3>7. Len(log') - 1 = 1
      BY <3>2
    <3> HIDE DEF n
    <3> QED BY <2>0, <2>1, <3>2, <3>3, <3>4, <3>5, <3>6, <3>7
  <2>4. n <= 2 \/ n = 3
    <3> HIDE DEF n
    <3> QED BY <2>1
  <2> QED BY ONLY <2>2, <2>3, <2>4
<1>3. ASSUME NEW f \in Funcs, Define(f) \/ Import(f) PROVE Streak'
  BY <1>3 DEF Define, Import, watcher, SameAgain
<1>4. ASSUME NEW b \in Bugs, Patch(b) \/ PatchFails(b) \/ Crash(b) PROVE Streak'
  BY <1>4 DEF Patch, PatchFails, Crash, Hits, Propagates, watcher, SameAgain
<1>5. CASE TimeOut \/ Clean \/ Exhausted
  BY <1>5 DEF TimeOut, Clean, Exhausted, watcher, SameAgain
<1>6. CASE Judge
  <2> DEFINE n == Len(log)
             r == [exception |-> current_exception, patched |-> patched > 0]
  <2>0. patched \in Nat /\ n <= 2 /\ last = IF n = 0 THEN NoBug ELSE log[n].exception
    BY <1>6 DEF Judge, Judged
  <2>1. n \in Nat /\ log' = Append(log, r) /\ Len(log') = n + 1 /\ log'[n + 1] = r
    BY <1>6 DEF Judge, Judged
  <2>2. \A i \in 1 .. n : log'[i] = log[i]
    BY <2>1
  <2>3. SameAgain(log', n) <=> SameAgain(log, n)
    BY <2>1, <2>2 DEF SameAgain
  <2>4. SameAgain(log', n + 1) <=> Repeated
    <3>1. r.exception = current_exception /\ (~r.patched <=> patched = 0)
      <4>1. r.patched = (patched > 0) /\ r.exception = current_exception
        OBVIOUS
      <4>2. patched > 0 <=> patched # 0
        BY <2>0
      <4> QED BY <4>1, <4>2
    <3>2. n >= 1 => log'[n] = log[n]
      BY <2>1, <2>2
    <3> QED BY <2>0, <2>1, <3>1, <3>2 DEF SameAgain, Repeated
  <2>5. last' = log'[n + 1].exception /\ log' # <<>>
    <3>1. last' = current_exception
      BY <1>6 DEF Judge, Judged, Repeated
    <3>2. r.exception = current_exception /\ n + 1 # 0
      BY <2>1
    <3> QED BY <2>1, <3>1, <3>2
  <2>6. /\ same' = IF Repeated THEN same + 1 ELSE 0
        /\ same' >= 2 => stage' = "unrecoverable"
        /\ ~(same' >= 2) => stage' = "launch"
        /\ same # 2
    BY <1>6 DEF Judge, Judged
  <2>7. same = IF SameAgain(log, n) THEN 1 ELSE 0
    BY <2>6
  <2>8. same' = IF ~SameAgain(log', n + 1) THEN 0 ELSE IF ~SameAgain(log', n) THEN 1 ELSE 2
    BY <2>3, <2>4, <2>6, <2>7
  <2> HIDE DEF n, r
  <2>9. n + 1 - 1 = n
    BY <2>1
  <2>10. Len(log') <= 3
    BY <2>0, <2>1
  <2>11. stage' \in {"launch", "unrecoverable"}
    BY <2>6
  <2> QED BY <2>1, <2>5, <2>6, <2>8, <2>9, <2>10, <2>11
<1> QED BY <1>1, <1>2, <1>3, <1>4, <1>5, <1>6, <1>7 DEF RLNext

----------------------------------------------------------------------------
LEMMA InvStep == Inv /\ [RLNext]_rlvars => Inv'
BY Typing, KeptKept, CountedKept, StreakKept DEF Inv

(* The watcher gives up exactly on three such children in a row.           *)
LEMMA StreakIsExact == Inv => GivesUpExactly
<1> SUFFICES ASSUME Inv PROVE GivesUpExactly
  OBVIOUS
<1> DEFINE n == Len(log)
<1>1. n \in Nat
  BY DEF Inv, RLTypeOK
<1>2. stage = "unrecoverable" <=> SameAgain(log, n) /\ SameAgain(log, n - 1)
  BY DEF Inv, Streak
<1>3. SameAgain(log, n - 1) <=> /\ n >= 3 /\ log[n - 1].exception # NoBug
                                /\ log[n - 2].exception = log[n - 1].exception
                                /\ ~log[n - 1].patched
  BY <1>1 DEF SameAgain
<1> QED BY <1>1, <1>2, <1>3 DEF SameAgain, GivesUpExactly

(* The state has its types: stats["patched"], by which run_script decides  *)
(* to execute the script again, counts at most one patch per bug and       *)
(* execution, and those for crashes that the guard in place did not stop.  *)
THEOREM LoopTypeCorrect == RLSpec => []RLTypeOK
<1>1. Inv => RLTypeOK
  BY DEF Inv
<1> QED BY InvInit, InvStep, <1>1, PTL DEF RLSpec

(* What the engine patched and saved, with a guard that does stop it, does *)
(* not crash in a later execution, in the same process or a child of the   *)
(* watcher, unless the function is nested or a later save broke off.       *)
THEOREM PatchedBugsStayAway == RLSpec => []NoRecurrence
<1>1. Inv => NoRecurrence
  BY DEF Inv, Kept
<1> QED BY InvInit, InvStep, <1>1, PTL DEF RLSpec

(* The watcher's same_exception_count and last_exception say exactly when   *)
(* three children in a row failed with the same exception and the last two *)
(* patched nothing.                                                        *)
THEOREM WatcherGivesUpExactly == RLSpec => []GivesUpExactly
BY InvInit, InvStep, StreakIsExact, PTL DEF RLSpec
=============================================================================
