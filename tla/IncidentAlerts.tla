--------------------------- MODULE IncidentAlerts ---------------------------
(***************************************************************************)
(* From a patch to an alert: the incident that _log_incident               *)
(* (codesuture/tracer.py) classifies, logs and gives to the router of      *)
(* codesuture/alerts/router.py, the batch and its timer, the escalation of *)
(* functions that are patched again and again, the alert directory of      *)
(* alerts/channels/file_channel.py, and the commands that dismiss alerts   *)
(* from another process.                                                   *)
(*                                                                         *)
(* Each incident is handled by a thread of its own, each firing of the     *)
(* batch timer by another.  The clock ticks in units of the escalation     *)
(* window's resolution; the timer may fire at any time.  The webhook, the  *)
(* lifecycle manager and the texts are left out.                           *)
(***************************************************************************)
EXTENDS Naturals, Sequences, FiniteSets

CONSTANTS
  Incidents,
  Flushers,         (* threads of batch timers                             *)
  Commands,         (* `codesuture alerts dismiss' commands                *)
  Crashes, FuncOf, GuardOf,
  OnRecord,         (* crashes whose fingerprints earlier runs recorded    *)
  Funcs, Sensitive, (* functions whose names are sensitive                 *)
  Routing,          (* alerts.routing: the severities that go to a file    *)
  Threshold, Window,(* alerts.escalation                                   *)
  MaxClock,         (* bound                                               *)
  None, Unread      (* Unread: the file unread.md                          *)

Severities == {"CRITICAL", "HIGH", "MEDIUM", "LOW"}
Senders    == Incidents \cup Flushers

ASSUME IncidentAlertsAssumption ==
  /\ FuncOf \in [Crashes -> Funcs] /\ Sensitive \subseteq Funcs
  /\ OnRecord \subseteq Crashes /\ Routing \subseteq Severities
  /\ Threshold \in Nat \ {0} /\ Window \in Nat \ {0} /\ MaxClock \in Nat
  /\ Incidents \cap (Flushers \cup Commands) = {} /\ Flushers \cap Commands = {}
  /\ Unread \notin Incidents
  /\ None \notin Senders \cup Crashes \cup {Unread} \cup Severities

VARIABLES
  running, clock,
  stage,            (* of the thread of an incident or timer, of a command *)
  crash, severity,  (* of an incident                                      *)
  registry,         (* fingerprints on record                              *)
  tracker,          (* _escalation_tracker: when, and in what incident     *)
  buffer, timer,    (* _batch_buffer; whether _batch_timer is set          *)
  batch,            (* what a timer's thread has still to send             *)
  channel,          (* holder of the file channel's _lock                  *)
  dir, listed,      (* the alert directory; the entries of unread.md       *)
  todo,             (* names a dismiss command has still to look at        *)
  logged,           (* history: the severity in the incident log           *)
  routed, stamp,    (* history: the order and times of the escalation      *)
  alerted,          (* history: alert files written for an incident        *)
  lost              (* history: incidents whose alert failed               *)

router  == <<tracker, buffer, timer>>
files   == <<dir, listed>>
history == <<logged, routed, stamp, alerted, lost>>
vars    == <<running, clock, stage, crash, severity, registry, router, batch,
             channel, files, todo, history>>

TypeOK ==
  /\ running \in BOOLEAN /\ clock \in 0 .. MaxClock
  /\ stage \in [Senders \cup Commands ->
                  {"new", "log", "escalate", "batch", "file", "unread", "done", "remove",
                   "failed"}]
  /\ crash \in [Incidents -> Crashes \cup {None}]
  /\ severity \in [Incidents -> Severities \cup {None}]
  /\ registry \subseteq Crashes
  /\ tracker \in [Funcs -> SUBSET (Incidents \X (0 .. MaxClock))]
  /\ buffer \in Seq(Incidents) /\ timer \in BOOLEAN
  /\ batch \in [Flushers -> Seq(Incidents)]
  /\ channel \in Senders \cup {None}
  /\ dir \subseteq Incidents \cup {Unread} /\ listed \subseteq Incidents
  /\ todo \in [Commands -> SUBSET (Incidents \cup {Unread})]
  /\ logged \in [Incidents -> Severities \cup {None}]
  /\ routed \in Seq(Incidents) /\ stamp \in [Incidents -> 0 .. MaxClock]
  /\ alerted \in [Incidents -> Nat] /\ lost \subseteq Incidents

Init ==
  /\ running = TRUE /\ clock = 0
  /\ stage = [x \in Senders \cup Commands |-> "new"]
  /\ crash = [i \in Incidents |-> None] /\ severity = [i \in Incidents |-> None]
  /\ registry = OnRecord
  /\ tracker = [f \in Funcs |-> {}]
  /\ buffer = <<>> /\ timer = FALSE /\ batch = [k \in Flushers |-> <<>>]
  /\ channel = None
  /\ dir = {} /\ listed = {} /\ todo = [d \in Commands |-> {}]
  /\ logged = [i \in Incidents |-> None]
  /\ routed = <<>> /\ stamp = [i \in Incidents |-> 0]
  /\ alerted = [i \in Incidents |-> 0] /\ lost = {}

Goto(x, s) == stage' = [stage EXCEPT ![x] = s]

----------------------------------------------------------------------------
(* The incident.                                                           *)

(* The tracer passes no HTTP method, which would make an incident HIGH.    *)
classify_severity(guard, func, hits) ==
  IF \/ guard = "callable_guard"
     \/ func \in Sensitive /\ guard \in {"division_guard", "type_coercion_guard"}
  THEN "CRITICAL"
  ELSE IF \/ func \in Sensitive \/ hits = 0
          \/ guard \in {"chain_subscript_guard", "type_coercion_guard"}
  THEN "HIGH"
  ELSE IF hits >= 3 \/ guard \in {"file_guard", "str_coerce_guard"} THEN "LOW" ELSE "MEDIUM"

(* A crash was patched, and its fingerprint recorded unless it was known. *)
Record(i, c) ==
  /\ running /\ stage[i] = "new"
  /\ crash' = [crash EXCEPT ![i] = c]
  /\ registry' = registry \cup {c}
  /\ Goto(i, "log")
  /\ UNCHANGED <<running, clock, severity, router, batch, channel, files, todo, history>>

(* The entry on record has no "count", so the incident has occurred once.  *)
Hits(i) == IF crash[i] \in registry THEN 1 ELSE 0

Log(i) ==
  /\ running /\ stage[i] = "log"
  /\ severity' = [severity EXCEPT
                    ![i] = classify_severity(GuardOf[crash[i]], FuncOf[crash[i]], Hits(i))]
  /\ logged' = [logged EXCEPT ![i] = severity'[i]]
  /\ Goto(i, "escalate")
  /\ UNCHANGED <<running, clock, crash, registry, router, batch, channel, files, todo,
                 routed, stamp, alerted, lost>>

(* The stamps of a function within the window that ends now. *)
Recent(stamps) == {s \in stamps : s[2] + Window > clock}

(* Where an incident of severity s goes. *)
Route(s) ==
  CASE s \in Routing -> "file"
    [] s \notin Routing /\ s = "HIGH" -> "batch"
    [] OTHER -> "done"

(* The outcome of _check_escalation: the incident takes the severity s, and *)
(* with it its channel.                                                     *)
Graded(i, s) ==
  /\ severity' = [severity EXCEPT ![i] = s]
  /\ routed' = Append(routed, i) /\ stamp' = [stamp EXCEPT ![i] = clock]
  /\ Goto(i, Route(s))
  /\ UNCHANGED <<running, clock, crash, registry, buffer, timer, batch, channel, files, todo,
                 logged, alerted, lost>>

(* Variants of the definition below, with a mistake in them. *)
EscalateUnpruned(i) ==
  LET f == FuncOf[crash[i]] IN
  /\ running /\ stage[i] = "escalate"
  /\ tracker' = [tracker EXCEPT ![f] = @ \cup {<<i, clock>>}]
  /\ Graded(i, IF Cardinality(tracker'[f]) >= Threshold THEN "CRITICAL" ELSE severity[i])

EscalateToPriority(i) ==
  LET f == FuncOf[crash[i]] IN
  /\ running /\ stage[i] = "escalate"
  /\ tracker' = [tracker EXCEPT ![f] = Recent(@ \cup {<<i, clock>>})]
  /\ Graded(i, IF Cardinality(tracker'[f]) >= Threshold THEN "URGENT" ELSE severity[i])

(* The time is read before the lock is taken; the hours of a window do not *)
(* tell the two moments apart.                                             *)
Escalate(i) ==
  LET f == FuncOf[crash[i]] IN
  /\ running /\ stage[i] = "escalate"
  /\ tracker' = [tracker EXCEPT ![f] = Recent(@ \cup {<<i, clock>>})]
  /\ Graded(i, IF Cardinality(tracker'[f]) >= Threshold THEN "CRITICAL" ELSE severity[i])

----------------------------------------------------------------------------
(* The batch.                                                              *)

AddToBatch(i) ==
  /\ running /\ stage[i] = "batch"
  /\ buffer' = Append(buffer, i)
  /\ timer' = TRUE
  /\ Goto(i, "done")
  /\ UNCHANGED <<running, clock, crash, severity, registry, tracker, batch, channel, files,
                 todo, history>>

(* Variants of the definition below, with a mistake in them. *)
FlushKeeps(k) ==
  /\ running /\ stage[k] = "new" /\ timer
  /\ batch' = [batch EXCEPT ![k] = buffer]
  /\ UNCHANGED buffer /\ timer' = FALSE
  /\ Goto(k, "file")
  /\ UNCHANGED <<running, clock, crash, severity, registry, tracker, channel, files, todo,
                 history>>

FlushClearsFirst(k) ==
  /\ running /\ stage[k] = "new" /\ timer
  /\ buffer' = <<>> /\ timer' = FALSE
  /\ batch' = [batch EXCEPT ![k] = buffer']
  /\ Goto(k, "file")
  /\ UNCHANGED <<running, clock, crash, severity, registry, tracker, channel, files, todo,
                 history>>

(* The timer fires: _flush_batch takes the buffer, then sends it.          *)
Flush(k) ==
  /\ running /\ stage[k] = "new" /\ timer
  /\ batch' = [batch EXCEPT ![k] = buffer]
  /\ buffer' = <<>> /\ timer' = FALSE
  /\ Goto(k, "file")
  /\ UNCHANGED <<running, clock, crash, severity, registry, tracker, channel, files, todo,
                 history>>

----------------------------------------------------------------------------
(* FileAlertChannel.send, by the thread of an incident or of a timer.      *)

Sends(x, i) == IF x \in Incidents THEN i = x ELSE batch[x] # <<>> /\ i = Head(batch[x])

WriteAlert(x, i) ==
  /\ running /\ stage[x] = "file" /\ Sends(x, i)
  /\ channel = None /\ channel' = x
  /\ dir' = dir \cup {i} /\ alerted' = [alerted EXCEPT ![i] = @ + 1]
  /\ Goto(x, "unread")
  /\ UNCHANGED <<running, clock, crash, severity, registry, router, batch, listed, todo,
                 logged, routed, stamp, lost>>

(* _send_file_alert returns: to the end of route, or to the next of a batch. *)
Onward(x) ==
  IF x \in Incidents THEN Goto(x, "done") /\ UNCHANGED batch
  ELSE Goto(x, "file") /\ batch' = [batch EXCEPT ![x] = Tail(@)]

(* The alert cannot be formatted or written, all or in part.  The router    *)
(* logs the exception and goes on.                                         *)
LoseAlert(x, i) ==
  /\ running /\ stage[x] = "file" /\ Sends(x, i)
  /\ channel = None
  /\ lost' = lost \cup {i}
  /\ dir' \in {dir, dir \cup {i}}
  /\ Onward(x)
  /\ UNCHANGED <<running, clock, crash, severity, registry, router, channel, listed, todo,
                 logged, routed, stamp, alerted>>

(* unread.md is opened for appending, and is a new file if it was removed. *)
(* When that fails the alert is there and not listed.                      *)
AppendUnread(x, i) ==
  /\ running /\ stage[x] = "unread" /\ Sends(x, i)
  /\ channel' = None
  /\ \/ dir' = dir \cup {Unread} /\ listed' = listed \cup {i}
     \/ UNCHANGED files
  /\ Onward(x)
  /\ UNCHANGED <<running, clock, crash, severity, registry, router, todo, history>>

(* All of the batch is sent; a later timer has a thread of its own. *)
EndFlush(k) ==
  /\ running /\ stage[k] = "file" /\ batch[k] = <<>>
  /\ Goto(k, "new")
  /\ UNCHANGED <<running, clock, crash, severity, registry, router, batch, channel, files,
                 todo, history>>

----------------------------------------------------------------------------
(* The commands, in another process and without the lock.                  *)

(* dismiss: the file that names the incident is removed.                   *)
Dismiss(d, i) ==
  /\ stage[d] = "new" /\ i \in dir
  /\ dir' = dir \ {i}
  /\ Goto(d, "done")
  /\ UNCHANGED <<running, clock, crash, severity, registry, router, batch, channel, listed,
                 todo, history>>

(* dismiss_all lists the directory and removes name by name what is there. *)
DismissAll(d) ==
  /\ stage[d] = "new" /\ dir # {}
  /\ todo' = [todo EXCEPT ![d] = dir]
  /\ Goto(d, "remove")
  /\ UNCHANGED <<running, clock, crash, severity, registry, router, batch, channel, files,
                 history>>

RemoveName(d, n) ==
  /\ stage[d] = "remove" /\ n \in todo[d] \cap dir
  /\ dir' = dir \ {n} /\ listed' = IF n = Unread THEN {} ELSE listed
  /\ todo' = [todo EXCEPT ![d] = @ \ {n}]
  /\ UNCHANGED <<running, clock, stage, crash, severity, registry, router, batch, channel,
                 history>>

(* Another command removed the name: before the isfile test, which passes  *)
(* it over, or after it, and os.remove raises.                             *)
MissName(d, n) ==
  /\ stage[d] = "remove" /\ n \in todo[d] \ dir
  /\ \/ todo' = [todo EXCEPT ![d] = @ \ {n}] /\ UNCHANGED stage
     \/ todo' = [todo EXCEPT ![d] = {}] /\ Goto(d, "failed")
  /\ UNCHANGED <<running, clock, crash, severity, registry, router, batch, channel, files,
                 history>>

EndDismissAll(d) ==
  /\ stage[d] = "remove" /\ todo[d] = {}
  /\ Goto(d, "done")
  /\ UNCHANGED <<running, clock, crash, severity, registry, router, batch, channel, files,
                 todo, history>>

----------------------------------------------------------------------------
Tick ==
  /\ clock < MaxClock /\ clock' = clock + 1
  /\ UNCHANGED <<running, stage, crash, severity, registry, router, batch, channel, files,
                 todo, history>>

(* The process ends and its threads, the daemon timer among them, with it. *)
Exit ==
  /\ running /\ running' = FALSE
  /\ UNCHANGED <<clock, stage, crash, severity, registry, router, batch, channel, files,
                 todo, history>>

Handle(i) ==
  \/ \E c \in Crashes : Record(i, c)
  \/ Log(i) \/ Escalate(i) \/ AddToBatch(i)

Send(x) == \E i \in Incidents : WriteAlert(x, i) \/ LoseAlert(x, i) \/ AppendUnread(x, i)

Command(d) ==
  \/ \E i \in Incidents : Dismiss(d, i)
  \/ DismissAll(d) \/ EndDismissAll(d)
  \/ \E n \in Incidents \cup {Unread} : RemoveName(d, n) \/ MissName(d, n)

Next ==
  \/ \E i \in Incidents : Handle(i)
  \/ \E x \in Senders : Send(x)
  \/ \E k \in Flushers : Flush(k) \/ EndFlush(k)
  \/ \E d \in Commands : Command(d)
  \/ Tick \/ Exit

Spec == Init /\ [][Next]_vars

(* Threads run, timers fire. *)
FairSpec ==
  /\ Spec
  /\ \A i \in Incidents : WF_vars(Log(i) \/ Escalate(i) \/ AddToBatch(i) \/ Send(i))
  /\ \A k \in Flushers : WF_vars(Flush(k) \/ Send(k) \/ EndFlush(k))

----------------------------------------------------------------------------
(* Properties that hold.                                                   *)

(* "Functions patched 5+ times in 24 hours are auto-escalated to           *)
(* CRITICAL": the n-th incident is escalated exactly when it is, with      *)
(* those before it, the Threshold-th of its function within the window.    *)
SameFunc(i, j) == FuncOf[crash[i]] = FuncOf[crash[j]]

EscalationExact ==
  \A n \in 1 .. Len(routed) :
    LET i      == routed[n]
        recent == {m \in 1 .. n : SameFunc(routed[m], i) /\ stamp[routed[m]] + Window > stamp[i]}
    IN severity[i] = IF Cardinality(recent) >= Threshold THEN "CRITICAL" ELSE logged[i]

(* No incident is alerted of twice, neither by two timers nor by a timer   *)
(* and its own thread.                                                     *)
AlertedOnce == \A i \in Incidents : alerted[i] <= 1

(* An incident that is HIGH, or has a file channel, gets its alert unless  *)
(* writing this very alert fails or the process ends: one that cannot be   *)
(* sent does not keep the rest of its batch (router.py 51-56, 79-80).      *)
AlertDue(i)  == stage[i] \in {"file", "batch"}
AlertsArrive == \A i \in Incidents : AlertDue(i) ~> alerted[i] = 1 \/ i \in lost \/ ~running

(* Properties that do not hold.                                            *)

(* "HIGH: ... first occurrence": the first incident of a fingerprint is    *)
(* not filed below HIGH.                                                   *)
First(i) ==
  /\ crash[i] # None /\ crash[i] \notin OnRecord
  /\ \A j \in Incidents \ {i} : crash[j] # crash[i]
FirstIsHigh ==
  \A i \in Incidents : First(i) /\ logged[i] # None => logged[i] \in {"CRITICAL", "HIGH"}

(* The log and the alert of an incident agree on its severity.             *)
LogAgrees == \A i \in Incidents : i \in dir => severity[i] = logged[i]

(* An alert that is due, and can be written, outlives the process it was   *)
(* due in.                                                                 *)
AlertsSurvive == \A i \in Incidents : AlertDue(i) ~> alerted[i] = 1 \/ i \in lost

(* An alert that was dismissed is not listed as unread any more.           *)
ListedIsThere ==
  (\A x \in Senders : stage[x] # "unread") => listed \subseteq dir

(* An alert whose sending is over and which nobody dismissed is listed.    *)
ThereIsListed ==
  (\A x \in Senders : stage[x] # "unread") /\ (\A d \in Commands : stage[d] # "remove")
    => dir \ {Unread} \subseteq listed
=============================================================================
