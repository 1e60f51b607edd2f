--------------------------- MODULE RewindRecorder ---------------------------
(***************************************************************************)
(* The flight recorder of codesuture/rewind: the trace callback of every   *)
(* thread puts snapshots into one ring buffer (tracer.py, buffer.py), the  *)
(* handler of a patched crash dumps the newest of them and saves the dump  *)
(* under the function's safe name and the time to the second               *)
(* (persistence.py), and `codesuture rewind', in another process, loads    *)
(* the latest dump.                                                        *)
(*                                                                         *)
(* A snapshot is its number and the time it was taken at; which frames are *)
(* skipped, and what a snapshot says of arguments, locals and results, is  *)
(* left out, and so is dump_for_function, which nothing calls.             *)
(*                                                                         *)
(* No name is one of IncidentAlerts': CrashRecordsProofs extends both.     *)
(***************************************************************************)
EXTENDS Naturals, Sequences, FiniteSets

CONSTANTS
  Threads,
  Buffers,          (* the buffers enable_rewind may create                *)
  Functions,
  SafeName,         (* of a function: its name with '_' for '.' and without
                       '<' and '>', a number in the order files are sorted *)
  Containing,       (* functions whose names contain a function's name     *)
  MaxFrames,        (* max_frames                                          *)
  MaxAge,           (* max_age_seconds, in ticks                           *)
  LastN,            (* last_n of a dump                                    *)
  TicksPerSecond,
  MaxTicks,         (* bound: ticks                                        *)
  MaxEvents,        (* bound: snapshots                                    *)
  MaxDumps,         (* bound: dumps                                        *)
  Nothing, Torn     (* Torn: a file that is not JSON                       *)

Snapshots == [time : 0 .. MaxTicks, number : 1 .. MaxEvents]
Names     == {SafeName[f] : f \in Functions} \X (0 .. MaxTicks)
Dumps     == 1 .. MaxDumps

ASSUME RewindRecorderAssumption ==
  /\ SafeName \in [Functions -> Nat] /\ Containing \in [Functions -> SUBSET Functions]
  /\ \A f \in Functions : f \in Containing[f]
  /\ MaxFrames \in Nat \ {0} /\ LastN \in Nat \ {0} /\ TicksPerSecond \in Nat \ {0}
  /\ MaxAge \in Nat /\ MaxTicks \in Nat /\ MaxEvents \in Nat /\ MaxDumps \in Nat
  /\ Nothing \notin Buffers \cup Dumps \cup Snapshots \cup Functions \cup Names
  /\ Torn \notin Dumps \cup {Nothing}

VARIABLES
  ticks,            (* time.monotonic                                      *)
  current,          (* the global _buffer                                  *)
  engine,           (* the tracer's _rewind_buffer                         *)
  enabled, frames,  (* of a buffer                                         *)
  pc, held, shot,   (* of a trace callback: its buffer, its snapshot       *)
  events, dumps,    (* counters                                            *)
  dump,             (* of a handler: the number of the dump it saves       *)
  names, dumpFiles, (* .codesuture_rewind: names of dumps, what they hold  *)
  appended,         (* history: all a buffer was given                     *)
  view,             (* history: what the last dump returned, and when      *)
  funcs,            (* history: the function of a dump                     *)
  opened            (* history: the dumps, as their files were opened      *)

recorder == <<current, enabled, frames, appended>>
callback == <<held, shot, events>>
storage  == <<names, dumpFiles, funcs, opened>>
rrvars   == <<ticks, recorder, engine, pc, callback, dumps, dump, view, storage>>

RRTypeOK ==
  /\ ticks \in 0 .. MaxTicks
  /\ current \in Buffers \cup {Nothing} /\ engine \in Buffers \cup {Nothing}
  /\ enabled \in [Buffers -> BOOLEAN]
  /\ frames \in [Buffers -> Seq(Snapshots)] /\ appended \in [Buffers -> Seq(Snapshots)]
  /\ \A b \in Buffers : Len(frames[b]) <= MaxFrames
  /\ pc \in [Threads -> {"idle", "stamp", "test", "append", "open", "write"}]
  /\ held \in [Threads -> Buffers \cup {Nothing}] /\ shot \in [Threads -> Snapshots \cup {Nothing}]
  /\ events \in 0 .. MaxEvents /\ dumps \in 0 .. MaxDumps
  /\ dump \in [Threads -> Dumps \cup {Nothing}]
  /\ dumpFiles \in [Names -> Dumps \cup {Nothing, Torn}]
  /\ view \in [list : SUBSET Snapshots, from : Buffers \cup {Nothing}, at : 0 .. MaxTicks,
               given : Nat]
  /\ names \in [Dumps -> Names \cup {Nothing}]
  /\ funcs \in [Dumps -> Functions \cup {Nothing}] /\ opened \in Seq(Dumps)

RRInit ==
  /\ ticks = 0 /\ current = Nothing /\ engine = Nothing
  /\ enabled = [b \in Buffers |-> FALSE]
  /\ frames = [b \in Buffers |-> <<>>] /\ appended = [b \in Buffers |-> <<>>]
  /\ pc = [t \in Threads |-> "idle"]
  /\ held = [t \in Threads |-> Nothing] /\ shot = [t \in Threads |-> Nothing]
  /\ events = 0 /\ dumps = 0 /\ dump = [t \in Threads |-> Nothing]
  /\ dumpFiles = [n \in Names |-> Nothing]
  /\ view = [list |-> {}, from |-> Nothing, at |-> 0, given |-> 0]
  /\ names = [d \in Dumps |-> Nothing]
  /\ funcs = [d \in Dumps |-> Nothing] /\ opened = <<>>

Continue(t, l) == pc' = [pc EXCEPT ![t] = l]

----------------------------------------------------------------------------
(* enable_rewind, when a tracer is made, and disable_rewind.               *)

Enable(b) ==
  /\ ~enabled[b] /\ appended[b] = <<>> /\ b # engine
  /\ current' = b /\ engine' = b
  /\ enabled' = [enabled EXCEPT ![b] = TRUE]
  /\ UNCHANGED <<ticks, frames, appended, pc, callback, dumps, dump, view, storage>>

Disable ==
  /\ current # Nothing
  /\ enabled' = [enabled EXCEPT ![current] = FALSE]
  /\ current' = Nothing
  /\ UNCHANGED <<ticks, frames, appended, engine, pc, callback, dumps, dump, view, storage>>

----------------------------------------------------------------------------
(* rewind_trace_callback, of a call, return or exception event.            *)

ReadBuffer(t) ==
  /\ pc[t] = "idle" /\ events < MaxEvents
  /\ current # Nothing /\ enabled[current]
  /\ held' = [held EXCEPT ![t] = current]
  /\ Continue(t, "stamp")
  /\ UNCHANGED <<ticks, recorder, engine, shot, events, dumps, dump, view, storage>>

Stamp(t) ==
  /\ pc[t] = "stamp" /\ events < MaxEvents
  /\ events' = events + 1
  /\ shot' = [shot EXCEPT ![t] = [time |-> ticks, number |-> events']]
  /\ Continue(t, "test")
  /\ UNCHANGED <<ticks, recorder, engine, held, dumps, dump, view, storage>>

(* record: the flag is tested before the lock is taken. *)
Test(t) ==
  /\ pc[t] = "test"
  /\ Continue(t, IF enabled[held[t]] THEN "append" ELSE "idle")
  /\ UNCHANGED <<ticks, recorder, engine, callback, dumps, dump, view, storage>>

(* The last n of a sequence, or all when there are fewer. *)
LastOf(s, n) == SubSeq(s, IF Len(s) > n THEN Len(s) - n + 1 ELSE 1, Len(s))

(* Variant of the definition below, with a mistake in it. *)
AppendUnbounded(t) ==
  LET b == held[t] IN
  /\ pc[t] = "append"
  /\ frames' = [frames EXCEPT ![b] = Append(@, shot[t])]
  /\ appended' = [appended EXCEPT ![b] = Append(@, shot[t])]
  /\ Continue(t, "idle")
  /\ UNCHANGED <<ticks, current, enabled, engine, callback, dumps, dump, view, storage>>

(* The deque drops its oldest when it is full. *)
AppendFrame(t) ==
  LET b == held[t] IN
  /\ pc[t] = "append"
  /\ frames' = [frames EXCEPT ![b] = LastOf(Append(@, shot[t]), MaxFrames)]
  /\ appended' = [appended EXCEPT ![b] = Append(@, shot[t])]
  /\ Continue(t, "idle")
  /\ UNCHANGED <<ticks, current, enabled, engine, callback, dumps, dump, view, storage>>

----------------------------------------------------------------------------
(* The handler of a crash in f: dump, and save_rewind_dump.                *)

(* The positions of the young in a buffer, and the last n of positions. *)
Young(list, now) == {i \in 1 .. Len(list) : now <= list[i].time + MaxAge}
Newest(S, n)     == {i \in S : Cardinality({j \in S : i < j}) < n}

(* Variant of the definition below, with a mistake in it. *)
DumpOldest(t, f) ==
  LET young == Young(frames[engine], ticks)
      oldest == {i \in young : Cardinality({j \in young : j < i}) < LastN} IN
  /\ pc[t] = "idle" /\ dumps < MaxDumps
  /\ engine # Nothing /\ oldest # {}
  /\ dumps' = dumps + 1 /\ dump' = [dump EXCEPT ![t] = dumps']
  /\ funcs' = [funcs EXCEPT ![dumps'] = f]
  /\ view' = [list |-> {frames[engine][i] : i \in oldest}, from |-> engine, at |-> ticks,
              given |-> Len(appended[engine])]
  /\ Continue(t, "open")
  /\ UNCHANGED <<ticks, recorder, engine, callback, names, dumpFiles, opened>>

Dump(t, f) ==
  LET newest == Newest(Young(frames[engine], ticks), LastN) IN
  /\ pc[t] = "idle" /\ dumps < MaxDumps
  /\ engine # Nothing /\ newest # {}
  /\ dumps' = dumps + 1 /\ dump' = [dump EXCEPT ![t] = dumps']
  /\ funcs' = [funcs EXCEPT ![dumps'] = f]
  /\ view' = [list |-> {frames[engine][i] : i \in newest}, from |-> engine, at |-> ticks,
              given |-> Len(appended[engine])]
  /\ Continue(t, "open")
  /\ UNCHANGED <<ticks, recorder, engine, callback, names, dumpFiles, opened>>

(* open(..., 'w') under the function's safe name and the second. *)
OpenFile(t) ==
  LET d == dump[t]
      n == <<SafeName[funcs[d]], ticks \div TicksPerSecond>> IN
  /\ pc[t] = "open"
  /\ names' = [names EXCEPT ![d] = n]
  /\ dumpFiles' = [dumpFiles EXCEPT ![n] = Torn]
  /\ opened' = Append(opened, d)
  /\ Continue(t, "write")
  /\ UNCHANGED <<ticks, recorder, engine, callback, dumps, dump, view, funcs>>

(* Two files open under one name overwrite each other; the shorter leaves  *)
(* the end of the longer.                                                  *)
Overlaps(t) ==
  LET n == names[dump[t]] IN
  \/ dumpFiles[n] # Torn
  \/ \E u \in Threads \ {t} : pc[u] = "write" /\ names[dump[u]] = n

WriteFile(t) ==
  /\ pc[t] = "write"
  /\ \E w \in {dump[t]} \cup (IF Overlaps(t) THEN {Torn} ELSE {}) :
       dumpFiles' = [dumpFiles EXCEPT ![names[dump[t]]] = w]
  /\ dump' = [dump EXCEPT ![t] = Nothing]
  /\ Continue(t, "idle")
  /\ UNCHANGED <<ticks, recorder, engine, callback, dumps, view, names, funcs, opened>>

----------------------------------------------------------------------------
(* load_latest_rewind, in another process: file names sorted, so by safe   *)
(* name and then by time, and from the end; a file that does not parse is  *)
(* skipped, and so is one whose `function' does not contain the name.      *)

Sorts(m, n) == m[1] < n[1] \/ (m[1] = n[1] /\ m[2] <= n[2])

Loadable(f) ==
  {n \in Names : dumpFiles[n] \in Dumps /\ (f = Nothing \/ funcs[dumpFiles[n]] \in Containing[f])}

(* Variant of the definition below, with a mistake in it. *)
LoadOldest(f) ==
  IF Loadable(f) = {} THEN Nothing
  ELSE dumpFiles[CHOOSE n \in Loadable(f) : \A m \in Loadable(f) : Sorts(n, m)]

LoadLatest(f) ==
  IF Loadable(f) = {} THEN Nothing
  ELSE dumpFiles[CHOOSE n \in Loadable(f) : \A m \in Loadable(f) : Sorts(m, n)]

----------------------------------------------------------------------------
Elapse ==
  /\ ticks < MaxTicks /\ ticks' = ticks + 1
  /\ UNCHANGED <<recorder, engine, pc, callback, dumps, dump, view, storage>>

RRNext ==
  \/ \E b \in Buffers : Enable(b)
  \/ \E t \in Threads : ReadBuffer(t) \/ Stamp(t) \/ Test(t) \/ AppendFrame(t)
  \/ \E t \in Threads, f \in Functions : Dump(t, f)
  \/ \E t \in Threads : OpenFile(t) \/ WriteFile(t)
  \/ Disable
  \/ Elapse

RRSpec == RRInit /\ [][RRNext]_rrvars

----------------------------------------------------------------------------
(* A young snapshot is missing from a dump only if max_frames snapshots or *)
(* last_n young ones came into the buffer after it, and a dump holds       *)
(* nothing older than the age window (buffer.py 71: "the last_n            *)
(* most-recent snapshots within the age window"), although threads stamp   *)
(* their snapshots before they take the lock.                              *)
DumpIsNewest ==
  LET young(s) == view.at <= s.time + MaxAge
      given(i) == appended[view.from][i] IN
  view.from # Nothing =>
    /\ \A s \in view.list : young(s)
    /\ \A i \in 1 .. view.given :
         \/ ~young(given(i)) \/ given(i) \in view.list
         \/ view.given - i >= MaxFrames
         \/ Cardinality({j \in i + 1 .. view.given : young(given(j))}) >= LastN

(* When no dump of a function is being saved, load_latest_rewind gives the *)
(* dump of it whose saving began last, unless another function's name      *)
(* contains this one's, or a dump of it shares its file name with another, *)
(* of this function or of one with the same safe name (persistence.py      *)
(* 42-44, 62-89).                                                          *)
LoadIsLatest ==
  \A f \in Functions :
    LET of == {i \in 1 .. Len(opened) : funcs[opened[i]] = f} IN
    (/\ Containing[f] = {f}
     /\ \A t \in Threads : dump[t] # Nothing => funcs[dump[t]] # f
     /\ \A i \in of, j \in 1 .. Len(opened) : names[opened[i]] = names[opened[j]] => i = j)
    => \A i \in of : (\A j \in of : j <= i) => LoadLatest(f) = opened[i]

(* "Load the most recent rewind dump, optionally filtered by function      *)
(* name" (persistence.py 63): when nobody saves and no two dumps of the    *)
(* function fell into one second, it is the dump of that function whose    *)
(* saving began last.  A.b and A_b have one safe name, and the later of    *)
(* their dumps in one second replaces the other.                           *)
LatestOfFunction ==
  \A f \in Functions :
    LET of == {i \in 1 .. Len(opened) : funcs[opened[i]] = f} IN
    (/\ Containing[f] = {f}
     /\ \A t \in Threads : dump[t] = Nothing
     /\ \A i, j \in of : names[opened[i]] = names[opened[j]] => i = j)
    => \A i \in of : (\A j \in of : j <= i) => LoadLatest(f) = opened[i]

(* The snapshots of a dump, which are listed in the order the buffer was   *)
(* given them, are in the order they were taken in, as the timeline of     *)
(* `codesuture rewind' shows them (README: "frame-by-frame timeline").     *)
(* The time stamp is taken before the lock.                                *)
TimelineOrdered ==
  LET given == appended[view.from] IN
  view.from # Nothing =>
    \A i, j \in 1 .. view.given :
      i < j /\ {given[i], given[j]} \subseteq view.list => given[i].time <= given[j].time

(* "Load the most recent rewind dump" (persistence.py 63): without a name, *)
(* and when nobody saves, it is the dump whose saving began last.  Files   *)
(* are sorted by the safe name first.                                      *)
LatestIsLatest ==
  (opened # <<>> /\ \A t \in Threads : dump[t] = Nothing)
    => LoadLatest(Nothing) = opened[Len(opened)]

(* A saved dump stays.  Two crashes of a function in one second, in two    *)
(* threads or one after the other, have one file name.                     *)
DumpsKept ==
  (\A t \in Threads : dump[t] = Nothing)
    => \A i \in 1 .. Len(opened) : dumpFiles[names[opened[i]]] = opened[i]
=============================================================================
