------------------------- MODULE CrashRecordsProofs -------------------------
(***************************************************************************)
(* Proofs about what is kept of a crash for people to look at: the alerts  *)
(* of IncidentAlerts, for any number of incidents, timers and commands,    *)
(* any threshold and window, and, in the second half, the dumps of         *)
(* RewindRecorder, for any number of threads, buffers and snapshots.       *)
(* The two components have neither state nor names in common.              *)
(***************************************************************************)
EXTENDS IncidentAlerts, RewindRecorder, FiniteSetTheorems, TLAPS

(* How far a thread is. *)
Ungraded == {"new", "log", "escalate"}
Waiting  == Ungraded \cup {"batch", "file"}

Progress ==
  /\ \A i \in Incidents :
       /\ stage[i] \in Waiting \cup {"unread", "done"}
       /\ crash[i] = None <=> stage[i] = "new"
       /\ stage[i] = "escalate" => severity[i] = logged[i] /\ severity[i] \in Severities
       /\ stage[i] \in Waiting => alerted[i] = 0
  /\ \A k \in Flushers :
       /\ stage[k] \in {"new", "file", "unread"}
       /\ stage[k] = "new" => batch[k] = <<>>
       /\ stage[k] = "unread" => batch[k] # <<>>

(* An incident that is batched is in one place, and its thread has ended.  *)
(* Of those in a batch only the first may have been sent.                  *)
Sent(k, n) == n = 1 /\ stage[k] = "unread"

BufferFresh == \A n \in 1 .. Len(buffer) : stage[buffer[n]] = "done" /\ alerted[buffer[n]] = 0
BufferOnce  == \A m, n \in 1 .. Len(buffer) : buffer[m] = buffer[n] => m = n
BatchFresh  ==
  \A k \in Flushers : \A n \in 1 .. Len(batch[k]) :
    stage[batch[k][n]] = "done" /\ (~Sent(k, n) => alerted[batch[k][n]] = 0)
BatchOnce ==
  \A k, l \in Flushers : \A n \in 1 .. Len(batch[k]), m \in 1 .. Len(batch[l]) :
    batch[k][n] = batch[l][m] => k = l /\ n = m
BatchApart ==
  \A k \in Flushers : \A n \in 1 .. Len(batch[k]), m \in 1 .. Len(buffer) : batch[k][n] # buffer[m]

Batched == BufferFresh /\ BufferOnce /\ BatchFresh /\ BatchOnce /\ BatchApart

(* The router sees an incident once, and only then is it graded.           *)
Routed ==
  /\ \A n \in 1 .. Len(routed) : stage[routed[n]] \notin Ungraded
  /\ \A m, n \in 1 .. Len(routed) : routed[m] = routed[n] => m = n

(* The tracker has of each function the incidents that were escalated, with *)
(* their times, and at least those of the window that ends now.             *)
Occurs(f, n) == FuncOf[crash[routed[n]]] = f
Tracked ==
  \A f \in Funcs :
    /\ \A s \in tracker[f] : \E n \in 1 .. Len(routed) : Occurs(f, n) /\ s = <<routed[n], stamp[routed[n]]>>
    /\ \A n \in 1 .. Len(routed) :
         Occurs(f, n) /\ stamp[routed[n]] + Window > clock => <<routed[n], stamp[routed[n]]>> \in tracker[f]

AlertInv == TypeOK /\ Progress /\ Batched /\ AlertedOnce
Grades   == Routed /\ Tracked /\ EscalationExact
GradeInv == TypeOK /\ Progress /\ Grades

LEMMA Constants ==
  /\ Incidents \cap Flushers = {} /\ Incidents \cap Commands = {} /\ Flushers \cap Commands = {}
  /\ FuncOf \in [Crashes -> Funcs] /\ None \notin Crashes \cup Severities \cup Senders
  /\ Window \in Nat \ {0} /\ Threshold \in Nat /\ MaxClock \in Nat
BY IncidentAlertsAssumption DEF Senders

LEMMA Classified ==
  ASSUME NEW g, NEW f, NEW h PROVE classify_severity(g, f, h) \in Severities
BY DEF classify_severity, Severities

(* Where an incident may go, and what an escalation may make of it. *)
LEMMA Routes ==
  ASSUME NEW s PROVE Route(s) \in {"file", "batch", "done"}
<1>1. CASE s \in Routing
  BY <1>1 DEF Route
<1>2. CASE s \notin Routing /\ s = "HIGH"
  BY <1>2 DEF Route
<1>3. CASE s \notin Routing /\ s # "HIGH"
  BY <1>3 DEF Route
<1> QED BY <1>1, <1>2, <1>3

Raised(i) == IF Cardinality(tracker'[FuncOf[crash[i]]]) >= Threshold THEN "CRITICAL" ELSE severity[i]

LEMMA Escalation ==
  ASSUME TypeOK, Progress, NEW i \in Incidents, Escalate(i)
  PROVE  /\ stage[i] = "escalate" /\ FuncOf[crash[i]] \in Funcs
         /\ Raised(i) \in Severities
         /\ stage' = [stage EXCEPT ![i] = Route(Raised(i))]
         /\ severity' = [severity EXCEPT ![i] = Raised(i)]
         /\ routed' = Append(routed, i) /\ stamp' = [stamp EXCEPT ![i] = clock]
         /\ tracker' = [tracker EXCEPT ![FuncOf[crash[i]]] = Recent(@ \cup {<<i, clock>>})]
         /\ UNCHANGED <<running, clock, crash, registry, buffer, timer, batch, channel, files, todo,
                        logged, alerted, lost>>
<1>1. stage[i] = "escalate" /\ crash[i] \in Crashes /\ severity[i] \in Severities
  BY DEF Escalate, Progress, TypeOK
<1>2. FuncOf[crash[i]] \in Funcs
  BY <1>1, Constants
<1>3. Raised(i) \in Severities
  BY <1>1 DEF Raised, Severities
<1> QED BY <1>1, <1>2, <1>3 DEF Escalate, Graded, Goto, Raised

(* A sender passes on from an incident, whether it was sent or not. *)
LEMMA Passing ==
  ASSUME TypeOK, NEW x \in Senders, NEW i \in Incidents, Sends(x, i), Onward(x)
  PROVE  /\ stage' = [stage EXCEPT ![x] = IF x \in Incidents THEN "done" ELSE "file"]
         /\ batch' \in [Flushers -> Seq(Incidents)]
         /\ x \in Incidents => UNCHANGED batch
         /\ x \in Flushers => batch[x] # <<>> /\ batch' = [batch EXCEPT ![x] = Tail(@)]
<1> USE Constants DEF Senders
<1>1. CASE x \in Incidents
  BY <1>1 DEF TypeOK, Onward, Goto
<1>2. CASE x \in Flushers
  <2>1. /\ stage' = [stage EXCEPT ![x] = "file"] /\ batch' = [batch EXCEPT ![x] = Tail(@)]
        /\ batch[x] # <<>> /\ batch[x] \in Seq(Incidents) /\ x \notin Incidents
    BY <1>2 DEF TypeOK, Onward, Goto, Sends
  <2>2. Tail(batch[x]) \in Seq(Incidents)
    BY <2>1
  <2> QED BY <1>2, <2>1, <2>2 DEF TypeOK
<1> QED BY <1>1, <1>2

----------------------------------------------------------------------------
(* Types.                                                                  *)
LEMMA Typing == TypeOK /\ Progress /\ [Next]_vars => TypeOK'
<1> SUFFICES ASSUME TypeOK /\ Progress, [Next]_vars PROVE TypeOK'
  OBVIOUS
<1> USE Constants DEF TypeOK, Progress, Senders
<1>1. CASE UNCHANGED vars
  BY <1>1 DEF vars, router, files, history
<1>2. ASSUME NEW i \in Incidents, NEW c \in Crashes, Record(i, c) PROVE TypeOK'
  BY <1>2 DEF Record, Goto, router, files, history
<1>3. ASSUME NEW i \in Incidents, Log(i) PROVE TypeOK'
  <2> DEFINE s == classify_severity(GuardOf[crash[i]], FuncOf[crash[i]], Hits(i))
  <2>1. s \in Severities
    BY Classified
  <2> HIDE DEF s
  <2>2. /\ severity' = [severity EXCEPT ![i] = s] /\ logged' = [logged EXCEPT ![i] = s]
        /\ stage' = [stage EXCEPT ![i] = "escalate"]
        /\ UNCHANGED <<running, clock, crash, registry, router, batch, channel, files, todo,
                       routed, stamp, alerted, lost>>
    BY <1>3 DEF Log, Goto, s
  <2> QED BY <2>1, <2>2 DEF router, files
<1>4. ASSUME NEW i \in Incidents, Escalate(i) PROVE TypeOK'
  <2>1. Route(Raised(i)) \in {"file", "batch", "done"}
    BY Routes
  <2>2. /\ Raised(i) \in Severities /\ FuncOf[crash[i]] \in Funcs
        /\ stage' = [stage EXCEPT ![i] = Route(Raised(i))]
        /\ severity' = [severity EXCEPT ![i] = Raised(i)]
        /\ routed' = Append(routed, i) /\ stamp' = [stamp EXCEPT ![i] = clock]
        /\ tracker' = [tracker EXCEPT ![FuncOf[crash[i]]] = Recent(@ \cup {<<i, clock>>})]
        /\ UNCHANGED <<running, clock, crash, registry, buffer, timer, batch, channel, files, todo,
                       logged, alerted, lost>>
    BY <1>4, Escalation
  <2>3. Recent(tracker[FuncOf[crash[i]]] \cup {<<i, clock>>}) \in SUBSET (Incidents \X (0 .. MaxClock))
    BY <2>2 DEF Recent
  <2>4. tracker' \in [Funcs -> SUBSET (Incidents \X (0 .. MaxClock))]
    BY <2>2, <2>3
  <2>5. routed' \in Seq(Incidents) /\ stamp' \in [Incidents -> 0 .. MaxClock]
    BY <2>2
  <2> QED BY <2>1, <2>2, <2>4, <2>5 DEF files
<1>5. ASSUME NEW i \in Incidents, AddToBatch(i) PROVE TypeOK'
  BY <1>5 DEF AddToBatch, Goto, router, files, history
<1>6. ASSUME NEW k \in Flushers, Flush(k) PROVE TypeOK'
  <2>1. /\ batch' = [batch EXCEPT ![k] = buffer] /\ buffer' = <<>> /\ timer' = FALSE
        /\ stage' = [stage EXCEPT ![k] = "file"]
        /\ UNCHANGED <<running, clock, crash, severity, registry, tracker, channel, files, todo,
                       history>>
    BY <1>6 DEF Flush, Goto
  <2>2. batch' \in [Flushers -> Seq(Incidents)]
    BY <2>1
  <2>3. <<>> \in Seq(Incidents)
    OBVIOUS
  <2> QED BY <2>1, <2>2, <2>3 DEF files, history
<1>7. ASSUME NEW k \in Flushers, EndFlush(k) PROVE TypeOK'
  BY <1>7 DEF EndFlush, Goto, router, files, history
<1>8. ASSUME NEW x \in Senders, NEW i \in Incidents, WriteAlert(x, i) PROVE TypeOK'
  BY <1>8 DEF WriteAlert, Goto, router, files, history
<1>9. ASSUME NEW x \in Senders, NEW i \in Incidents, AppendUnread(x, i) PROVE TypeOK'
  <2>1. /\ channel' = None /\ dir' \subseteq Incidents \cup {Unread} /\ listed' \subseteq Incidents
        /\ UNCHANGED <<running, clock, crash, severity, registry, router, todo, history>>
    BY <1>9 DEF AppendUnread, files
  <2>2. /\ stage' = [stage EXCEPT ![x] = IF x \in Incidents THEN "done" ELSE "file"]
        /\ batch' \in [Flushers -> Seq(Incidents)]
    BY <1>9, Passing DEF AppendUnread
  <2> QED BY <2>1, <2>2 DEF router, history
<1>17. ASSUME NEW x \in Senders, NEW i \in Incidents, LoseAlert(x, i) PROVE TypeOK'
  <2>1. /\ lost' \subseteq Incidents /\ dir' \subseteq Incidents \cup {Unread}
        /\ UNCHANGED <<running, clock, crash, severity, registry, router, channel, listed, todo,
                       logged, routed, stamp, alerted>>
    BY <1>17 DEF LoseAlert
  <2>2. /\ stage' = [stage EXCEPT ![x] = IF x \in Incidents THEN "done" ELSE "file"]
        /\ batch' \in [Flushers -> Seq(Incidents)]
    BY <1>17, Passing DEF LoseAlert
  <2> QED BY <2>1, <2>2 DEF router
<1>10. ASSUME NEW d \in Commands, NEW i \in Incidents, Dismiss(d, i) PROVE TypeOK'
  BY <1>10 DEF Dismiss, Goto, router, files, history
<1>11. ASSUME NEW d \in Commands, DismissAll(d) PROVE TypeOK'
  BY <1>11 DEF DismissAll, Goto, router, files, history
<1>12. ASSUME NEW d \in Commands, NEW n \in Incidents \cup {Unread}, RemoveName(d, n) PROVE TypeOK'
  BY <1>12 DEF RemoveName, Goto, router, files, history
<1>13. ASSUME NEW d \in Commands, NEW n \in Incidents \cup {Unread}, MissName(d, n) PROVE TypeOK'
  <2>1. stage' \in [Senders \cup Commands ->
                      {"new", "log", "escalate", "batch", "file", "unread", "done", "remove", "failed"}]
    BY <1>13 DEF MissName, Goto
  <2>2. todo' \in [Commands -> SUBSET (Incidents \cup {Unread})]
    <3>1. CASE todo' = [todo EXCEPT ![d] = @ \ {n}]
      BY <3>1
    <3>2. CASE todo' = [todo EXCEPT ![d] = {}]
      BY <3>2
    <3> QED BY <1>13, <3>1, <3>2 DEF MissName
  <2> QED BY <1>13, <2>1, <2>2 DEF MissName, router, files, history
<1>14. ASSUME NEW d \in Commands, EndDismissAll(d) PROVE TypeOK'
  BY <1>14 DEF EndDismissAll, Goto, router, files, history
<1>15. CASE Tick
  BY <1>15 DEF Tick, Goto, router, files, history
<1>16. CASE Exit
  BY <1>16 DEF Exit, Goto, router, files, history
<1> QED BY <1>1, <1>2, <1>3, <1>4, <1>5, <1>6, <1>7, <1>8, <1>9, <1>10, <1>11,
           <1>12, <1>13, <1>14, <1>15, <1>16, <1>17
  DEF Next, Handle, Send, Command

(* How far a thread is, and what it has done by then.                      *)
LEMMA ProgressKept == TypeOK /\ Progress /\ Batched /\ [Next]_vars => Progress'
<1> SUFFICES ASSUME TypeOK, Progress, Batched, [Next]_vars PROVE Progress'
  OBVIOUS
<1> USE Constants DEF TypeOK, Progress, Senders, Waiting, Ungraded
<1>1. CASE UNCHANGED vars
  BY <1>1 DEF vars, router, files, history
<1>2. ASSUME NEW i \in Incidents, NEW c \in Crashes, Record(i, c) PROVE Progress'
  BY <1>2 DEF Record, Goto, router, files, history
<1>3. ASSUME NEW i \in Incidents, Log(i) PROVE Progress'
  <2> DEFINE s == classify_severity(GuardOf[crash[i]], FuncOf[crash[i]], Hits(i))
  <2>1. s \in Severities
    BY Classified
  <2> HIDE DEF s
  <2>2. /\ severity' = [severity EXCEPT ![i] = s] /\ logged' = [logged EXCEPT ![i] = s]
        /\ stage' = [stage EXCEPT ![i] = "escalate"] /\ stage[i] = "log"
        /\ UNCHANGED <<crash, batch, alerted>>
    BY <1>3 DEF Log, Goto, s
  <2> QED BY <2>1, <2>2
<1>4. ASSUME NEW i \in Incidents, Escalate(i) PROVE Progress'
  <2>1. Route(Raised(i)) \in {"file", "batch", "done"}
    BY Routes
  <2>2. /\ stage' = [stage EXCEPT ![i] = Route(Raised(i))] /\ stage[i] = "escalate"
        /\ severity' = [severity EXCEPT ![i] = Raised(i)]
        /\ UNCHANGED <<crash, batch, logged, alerted>>
    BY <1>4, Escalation
  <2> QED BY <2>1, <2>2
<1>5. ASSUME NEW i \in Incidents, AddToBatch(i) PROVE Progress'
  BY <1>5 DEF AddToBatch, Goto, router, files, history
<1>6. ASSUME NEW k \in Flushers, Flush(k) PROVE Progress'
  BY <1>6 DEF Flush, Goto, router, files, history
<1>7. ASSUME NEW k \in Flushers, EndFlush(k) PROVE Progress'
  BY <1>7 DEF EndFlush, Goto, router, files, history
<1>8. ASSUME NEW x \in Senders, NEW i \in Incidents, WriteAlert(x, i) PROVE Progress'
  <2>1. /\ stage[x] = "file" /\ stage' = [stage EXCEPT ![x] = "unread"]
        /\ alerted' = [alerted EXCEPT ![i] = @ + 1]
        /\ UNCHANGED <<crash, severity, logged, batch>>
    BY <1>8 DEF WriteAlert, Goto, router
  <2>2. CASE x \in Incidents
    <3>1. i = x
      BY <2>2, <1>8 DEF WriteAlert, Sends
    <3> QED BY <2>1, <2>2, <3>1
  <2>3. CASE x \in Flushers
    <3>1. batch[x] # <<>> /\ batch[x] \in Seq(Incidents) /\ i = batch[x][1] /\ 1 \in 1 .. Len(batch[x])
      BY <2>3, <1>8 DEF WriteAlert, Sends
    <3>2. stage[i] = "done"
      BY <2>3, <3>1 DEF Batched, BatchFresh
    <3> QED BY <2>1, <2>3, <3>1, <3>2
  <2> QED BY <2>2, <2>3
<1>9. ASSUME NEW x \in Senders, NEW i \in Incidents, AppendUnread(x, i) \/ LoseAlert(x, i)
      PROVE  Progress'
  <2>1. UNCHANGED <<crash, severity, logged, alerted>> /\ stage[x] \in {"file", "unread"}
    BY <1>9 DEF AppendUnread, LoseAlert, history
  <2>2. /\ stage' = [stage EXCEPT ![x] = IF x \in Incidents THEN "done" ELSE "file"]
        /\ x \in Incidents => UNCHANGED batch
        /\ x \in Flushers => batch' = [batch EXCEPT ![x] = Tail(@)]
    BY <1>9, Passing DEF AppendUnread, LoseAlert
  <2>3. CASE x \in Incidents
    BY <2>1, <2>2, <2>3
  <2>4. CASE x \in Flushers
    BY <2>1, <2>2, <2>4
  <2> QED BY <2>3, <2>4
<1>10. ASSUME NEW d \in Commands, NEW i \in Incidents, Dismiss(d, i) PROVE Progress'
  BY <1>10 DEF Dismiss, Goto, router, files, history
<1>11. ASSUME NEW d \in Commands, DismissAll(d) PROVE Progress'
  BY <1>11 DEF DismissAll, Goto, router, files, history
<1>12. ASSUME NEW d \in Commands, NEW n \in Incidents \cup {Unread}, RemoveName(d, n) PROVE Progress'
  BY <1>12 DEF RemoveName, Goto, router, files, history
<1>13. ASSUME NEW d \in Commands, NEW n \in Incidents \cup {Unread}, MissName(d, n) PROVE Progress'
  BY <1>13 DEF MissName, Goto, router, files, history
<1>14. ASSUME NEW d \in Commands, EndDismissAll(d) PROVE Progress'
  BY <1>14 DEF EndDismissAll, Goto, router, files, history
<1>15. CASE Tick
  BY <1>15 DEF Tick, Goto, router, files, history
<1>16. CASE Exit
  BY <1>16 DEF Exit, Goto, router, files, history
<1> QED BY <1>1, <1>2, <1>3, <1>4, <1>5, <1>6, <1>7, <1>8, <1>9, <1>10, <1>11,
           <1>12, <1>13, <1>14, <1>15, <1>16
  DEF Next, Handle, Send, Command

----------------------------------------------------------------------------
(* The batch.                                                              *)

LEMMA Members ==
  ASSUME TypeOK
  PROVE  /\ buffer \in Seq(Incidents)
         /\ \A n \in 1 .. Len(buffer) : buffer[n] \in Incidents
         /\ \A k \in Flushers : batch[k] \in Seq(Incidents)
         /\ \A k \in Flushers : \A n \in 1 .. Len(batch[k]) : batch[k][n] \in Incidents
BY DEF TypeOK

LEMMA TailOf ==
  ASSUME NEW S, NEW s \in Seq(S), s # <<>>
  PROVE  \A n \in 1 .. Len(Tail(s)) : Tail(s)[n] = s[n + 1] /\ n + 1 \in 1 .. Len(s) /\ n + 1 # 1
OBVIOUS

(* Nothing is disturbed by a step that leaves buffer, batches and alerts    *)
(* alone, takes no incident back and ends no sending.                      *)
LEMMA BatchedStays ==
  ASSUME TypeOK, Batched, UNCHANGED <<buffer, batch, alerted>>,
         \A i \in Incidents : stage[i] = "done" => stage'[i] = "done",
         \A k \in Flushers : stage[k] = "unread" => stage'[k] = "unread"
  PROVE  Batched'
BY Members DEF Batched, BufferFresh, BufferOnce, BatchFresh, BatchOnce, BatchApart, Sent

(* A batched incident is in one place.                                     *)
LEMMA BatchedKept == AlertInv /\ [Next]_vars => Batched'
<1> SUFFICES ASSUME AlertInv, [Next]_vars PROVE Batched'
  OBVIOUS
<1> USE Constants DEF Senders
<1>1. TypeOK /\ Progress /\ Batched
  BY DEF AlertInv
<1>2. CASE UNCHANGED vars
  <2>1. /\ UNCHANGED <<buffer, batch, alerted>>
        /\ \A j \in Incidents : stage[j] = "done" => stage'[j] = "done"
        /\ \A l \in Flushers : stage[l] = "unread" => stage'[l] = "unread"
    BY <1>1, <1>2 DEF TypeOK, vars, router, files, history
  <2> QED BY <1>1, <2>1, BatchedStays
<1>3. ASSUME NEW i \in Incidents, NEW c \in Crashes, Record(i, c) PROVE Batched'
  <2>1. /\ UNCHANGED <<buffer, batch, alerted>>
        /\ \A j \in Incidents : stage[j] = "done" => stage'[j] = "done"
        /\ \A l \in Flushers : stage[l] = "unread" => stage'[l] = "unread"
    BY <1>1, <1>3 DEF TypeOK, Record, Goto, router, files, history
  <2> QED BY <1>1, <2>1, BatchedStays
<1>4. ASSUME NEW i \in Incidents, Log(i) PROVE Batched'
  <2>1. /\ UNCHANGED <<buffer, batch, alerted>>
        /\ \A j \in Incidents : stage[j] = "done" => stage'[j] = "done"
        /\ \A l \in Flushers : stage[l] = "unread" => stage'[l] = "unread"
    BY <1>1, <1>4 DEF TypeOK, Log, Goto, router, files, history
  <2> QED BY <1>1, <2>1, BatchedStays
<1>5. ASSUME NEW i \in Incidents, Escalate(i) PROVE Batched'
  <2>1. /\ stage' = [stage EXCEPT ![i] = Route(Raised(i))] /\ stage[i] = "escalate"
        /\ UNCHANGED <<batch, buffer, alerted>>
    BY <1>1, <1>5, Escalation
  <2>2. /\ \A j \in Incidents : stage[j] = "done" => stage'[j] = "done"
        /\ \A l \in Flushers : stage'[l] = stage[l]
    BY <1>1, <2>1 DEF TypeOK
  <2> QED BY <1>1, <2>1, <2>2, BatchedStays
<1>6. ASSUME NEW i \in Incidents, AddToBatch(i) PROVE Batched'
  <2>1. /\ stage[i] = "batch" /\ stage' = [stage EXCEPT ![i] = "done"]
        /\ buffer' = Append(buffer, i) /\ alerted[i] = 0
        /\ UNCHANGED <<batch, alerted>>
    BY <1>1, <1>6 DEF AddToBatch, Goto, history, Progress, Waiting
  <2>2. /\ \A j \in Incidents : stage[j] = "done" => stage'[j] = "done"
        /\ \A l \in Flushers : stage'[l] = stage[l]
        /\ stage'[i] = "done"
    BY <1>1, <2>1 DEF TypeOK
  <2>3. /\ \A n \in 1 .. Len(buffer) : buffer[n] # i
        /\ \A k \in Flushers : \A n \in 1 .. Len(batch[k]) : batch[k][n] # i
    BY <1>1, <2>1 DEF Batched, BufferFresh, BatchFresh
  <2>4. /\ \A n \in 1 .. Len(buffer') : n \in 1 .. Len(buffer) \/ n = Len(buffer')
        /\ \A n \in 1 .. Len(buffer) : buffer'[n] = buffer[n]
        /\ buffer'[Len(buffer')] = i
    BY <1>1, <2>1, Members
  <2>5. BufferFresh'
    BY <1>1, <2>1, <2>2, <2>4, Members DEF Batched, BufferFresh
  <2>6. BufferOnce'
    BY <1>1, <2>3, <2>4 DEF Batched, BufferOnce
  <2>7. BatchFresh'
    BY <1>1, <2>1, <2>2, Members DEF Batched, BatchFresh, Sent
  <2>8. BatchOnce'
    BY <1>1, <2>1 DEF Batched, BatchOnce
  <2>9. BatchApart'
    BY <1>1, <2>1, <2>3, <2>4 DEF Batched, BatchApart
  <2> QED BY <2>5, <2>6, <2>7, <2>8, <2>9 DEF Batched
<1>7. ASSUME NEW k \in Flushers, Flush(k) PROVE Batched'
  <2>1. /\ stage[k] = "new" /\ stage' = [stage EXCEPT ![k] = "file"]
        /\ batch' = [batch EXCEPT ![k] = buffer] /\ buffer' = <<>>
        /\ UNCHANGED alerted
    BY <1>7 DEF Flush, Goto, history
  <2>2. /\ \A n \in 1 .. Len(buffer') : FALSE
        /\ batch'[k] = buffer /\ stage'[k] = "file"
        /\ \A l \in Flushers : l # k => batch'[l] = batch[l] /\ stage'[l] = stage[l]
        /\ \A i \in Incidents : stage'[i] = stage[i]
    BY <1>1, <2>1 DEF TypeOK
  <2>3. BufferFresh' /\ BufferOnce' /\ BatchApart'
    BY <2>2 DEF BufferFresh, BufferOnce, BatchApart
  <2>4. BatchFresh'
    <3> SUFFICES ASSUME NEW l \in Flushers, NEW n \in 1 .. Len(batch'[l])
                 PROVE  /\ stage'[batch'[l][n]] = "done"
                        /\ ~Sent(l, n)' => alerted'[batch'[l][n]] = 0
      BY DEF BatchFresh
    <3>1. CASE l = k
      BY <1>1, <2>1, <2>2, <3>1, Members DEF Batched, BufferFresh
    <3>2. CASE l # k
      BY <1>1, <2>1, <2>2, <3>2, Members DEF Batched, BatchFresh, Sent
    <3> QED BY <3>1, <3>2
  <2>5. BatchOnce'
    <3> SUFFICES ASSUME NEW l \in Flushers, NEW m \in Flushers,
                        NEW n \in 1 .. Len(batch'[l]), NEW o \in 1 .. Len(batch'[m]),
                        batch'[l][n] = batch'[m][o]
                 PROVE  l = m /\ n = o
      BY DEF BatchOnce
    <3>1. CASE l = k /\ m = k
      BY <1>1, <2>2, <3>1 DEF Batched, BufferOnce
    <3>2. CASE l = k /\ m # k
      BY <1>1, <2>2, <3>2 DEF Batched, BatchApart
    <3>3. CASE l # k /\ m = k
      BY <1>1, <2>2, <3>3 DEF Batched, BatchApart
    <3>4. CASE l # k /\ m # k
      BY <1>1, <2>2, <3>4 DEF Batched, BatchOnce
    <3> QED BY <3>1, <3>2, <3>3, <3>4
  <2> QED BY <2>3, <2>4, <2>5 DEF Batched
<1>8. ASSUME NEW k \in Flushers, EndFlush(k) PROVE Batched'
  <2>1. /\ UNCHANGED <<buffer, batch, alerted>>
        /\ \A j \in Incidents : stage[j] = "done" => stage'[j] = "done"
        /\ \A l \in Flushers : stage[l] = "unread" => stage'[l] = "unread"
    BY <1>1, <1>8 DEF TypeOK, EndFlush, Goto, router, history
  <2> QED BY <1>1, <2>1, BatchedStays
<1>9. ASSUME NEW x \in Senders, NEW i \in Incidents, WriteAlert(x, i) PROVE Batched'
  <2>1. /\ stage[x] = "file" /\ stage' = [stage EXCEPT ![x] = "unread"]
        /\ alerted' = [alerted EXCEPT ![i] = @ + 1]
        /\ UNCHANGED <<batch, buffer>>
    BY <1>9 DEF WriteAlert, Goto, router
  <2>2. BufferOnce' /\ BatchOnce' /\ BatchApart'
    BY <1>1, <2>1 DEF Batched, BufferOnce, BatchOnce, BatchApart
  <2>3. /\ \A y \in Senders : y # x => stage'[y] = stage[y]
        /\ \A j \in Incidents : j # i => alerted'[j] = alerted[j]
        /\ stage'[x] = "unread"
    BY <1>1, <2>1 DEF TypeOK
  <2>4. CASE x \in Incidents
    <3>1. /\ i = x
          /\ \A m \in 1 .. Len(buffer) : buffer[m] # i
          /\ \A l \in Flushers : \A m \in 1 .. Len(batch[l]) : batch[l][m] # i
      BY <1>1, <2>1, <2>4, <1>9 DEF WriteAlert, Sends, Batched, BufferFresh, BatchFresh
    <3>2. BufferFresh'
      BY <1>1, <2>1, <2>3, <3>1, Members DEF Batched, BufferFresh
    <3>3. BatchFresh'
      BY <1>1, <2>1, <2>3, <2>4, <3>1, Members DEF Batched, BatchFresh, Sent
    <3> QED BY <2>2, <3>2, <3>3 DEF Batched
  <2>5. CASE x \in Flushers
    <3>1. batch[x] # <<>> /\ i = Head(batch[x])
      BY <2>5, <1>9 DEF WriteAlert, Sends
    <3>2. i = batch[x][1] /\ 1 \in 1 .. Len(batch[x])
      BY <1>1, <2>5, <3>1, Members
    <3>3. /\ \A m \in 1 .. Len(buffer) : buffer[m] # i
          /\ \A l \in Flushers : \A m \in 1 .. Len(batch[l]) : batch[l][m] = i => l = x /\ m = 1
      BY <1>1, <2>5, <3>2 DEF Batched, BatchApart, BatchOnce
    <3>4. BufferFresh'
      BY <1>1, <2>1, <2>3, <2>5, <3>3, Members DEF Batched, BufferFresh
    <3>5. BatchFresh'
      BY <1>1, <2>1, <2>3, <2>5, <3>3, Members DEF Batched, BatchFresh, Sent
    <3> QED BY <2>2, <3>4, <3>5 DEF Batched
  <2> QED BY <2>4, <2>5
<1>10. ASSUME NEW x \in Senders, NEW i \in Incidents, AppendUnread(x, i) \/ LoseAlert(x, i)
       PROVE  Batched'
  <2>1. UNCHANGED <<buffer, alerted>> /\ stage[x] \in {"file", "unread"}
    BY <1>10 DEF AppendUnread, LoseAlert, history, router
  <2>4. /\ stage' = [stage EXCEPT ![x] = IF x \in Incidents THEN "done" ELSE "file"]
        /\ x \in Incidents => UNCHANGED batch
        /\ x \in Flushers => batch[x] # <<>> /\ batch' = [batch EXCEPT ![x] = Tail(@)]
    BY <1>1, <1>10, Passing DEF AppendUnread, LoseAlert
  <2>2. CASE x \in Incidents
    <3>1. stage' = [stage EXCEPT ![x] = "done"] /\ UNCHANGED batch
      BY <2>2, <2>4
    <3>2. /\ \A j \in Incidents : stage[j] = "done" => stage'[j] = "done"
          /\ \A l \in Flushers : stage'[l] = stage[l]
      BY <1>1, <2>2, <3>1 DEF TypeOK
    <3> QED BY <1>1, <2>1, <3>1, <3>2, BatchedStays
  <2>3. CASE x \in Flushers
    <3>1. /\ stage' = [stage EXCEPT ![x] = "file"] /\ batch' = [batch EXCEPT ![x] = Tail(@)]
          /\ batch[x] # <<>>
      BY <2>3, <2>4
    <3>2. /\ batch'[x] = Tail(batch[x]) /\ stage'[x] = "file"
          /\ \A l \in Flushers : l # x => batch'[l] = batch[l] /\ stage'[l] = stage[l]
          /\ \A j \in Incidents : stage'[j] = stage[j]
      BY <1>1, <2>3, <3>1 DEF TypeOK
    <3>3. \A n \in 1 .. Len(batch'[x]) :
            batch'[x][n] = batch[x][n + 1] /\ n + 1 \in 1 .. Len(batch[x]) /\ n + 1 # 1
      <4>1. batch[x] \in Seq(Incidents) /\ batch[x] # <<>>
        BY <1>1, <2>3, <3>1, Members
      <4>2. \A n \in 1 .. Len(Tail(batch[x])) :
              Tail(batch[x])[n] = batch[x][n + 1] /\ n + 1 \in 1 .. Len(batch[x]) /\ n + 1 # 1
        BY <4>1, TailOf
      <4> QED BY <3>2, <4>2
    <3>4. \A l \in Flushers : \A n \in 1 .. Len(batch'[l]) :
            \E o \in 1 .. Len(batch[l]) :
              batch'[l][n] = batch[l][o] /\ (l # x => o = n) /\ (l = x => o = n + 1)
      BY <3>2, <3>3
    <3>5. BufferFresh' /\ BufferOnce'
      BY <1>1, <2>1, <3>2, Members DEF Batched, BufferFresh, BufferOnce
    <3>6. BatchFresh'
      <4> SUFFICES ASSUME NEW l \in Flushers, NEW n \in 1 .. Len(batch'[l])
                   PROVE  /\ stage'[batch'[l][n]] = "done"
                          /\ ~Sent(l, n)' => alerted'[batch'[l][n]] = 0
        BY DEF BatchFresh
      <4>1. PICK o \in 1 .. Len(batch[l]) :
              batch'[l][n] = batch[l][o] /\ (l # x => o = n) /\ (l = x => o = n + 1)
        BY <3>4
      <4>2. ~Sent(l, n)' => ~Sent(l, o)
        BY <3>2, <3>3, <4>1 DEF Sent
      <4> QED BY <1>1, <2>1, <3>2, <4>1, <4>2, Members DEF Batched, BatchFresh
    <3>7. BatchOnce'
      <4> SUFFICES ASSUME NEW l \in Flushers, NEW m \in Flushers,
                          NEW n \in 1 .. Len(batch'[l]), NEW o \in 1 .. Len(batch'[m]),
                          batch'[l][n] = batch'[m][o]
                   PROVE  l = m /\ n = o
        BY DEF BatchOnce
      <4>1. PICK p \in 1 .. Len(batch[l]) :
              batch'[l][n] = batch[l][p] /\ (l # x => p = n) /\ (l = x => p = n + 1)
        BY <3>4
      <4>2. PICK q \in 1 .. Len(batch[m]) :
              batch'[m][o] = batch[m][q] /\ (m # x => q = o) /\ (m = x => q = o + 1)
        BY <3>4
      <4>3. batch[l][p] = batch[m][q]
        BY <4>1, <4>2
      <4>4. l = m /\ p = q
        BY <1>1, <4>3 DEF Batched, BatchOnce
      <4> QED BY <4>1, <4>2, <4>4
    <3>8. BatchApart'
      BY <1>1, <2>1, <3>4 DEF Batched, BatchApart
    <3> QED BY <3>5, <3>6, <3>7, <3>8 DEF Batched
  <2> QED BY <2>2, <2>3
<1>11. ASSUME NEW d \in Commands, NEW i \in Incidents, Dismiss(d, i) PROVE Batched'
  <2>1. /\ UNCHANGED <<buffer, batch, alerted>>
        /\ \A j \in Incidents : stage[j] = "done" => stage'[j] = "done"
        /\ \A l \in Flushers : stage[l] = "unread" => stage'[l] = "unread"
    BY <1>1, <1>11 DEF TypeOK, Dismiss, Goto, router, files, history
  <2> QED BY <1>1, <2>1, BatchedStays
<1>12. ASSUME NEW d \in Commands, DismissAll(d) PROVE Batched'
  <2>1. /\ UNCHANGED <<buffer, batch, alerted>>
        /\ \A j \in Incidents : stage[j] = "done" => stage'[j] = "done"
        /\ \A l \in Flushers : stage[l] = "unread" => stage'[l] = "unread"
    BY <1>1, <1>12 DEF TypeOK, DismissAll, Goto, router, files, history
  <2> QED BY <1>1, <2>1, BatchedStays
<1>13. ASSUME NEW d \in Commands, NEW n \in Incidents \cup {Unread}, RemoveName(d, n) PROVE Batched'
  <2>1. /\ UNCHANGED <<buffer, batch, alerted>>
        /\ \A j \in Incidents : stage[j] = "done" => stage'[j] = "done"
        /\ \A l \in Flushers : stage[l] = "unread" => stage'[l] = "unread"
    BY <1>1, <1>13 DEF TypeOK, RemoveName, Goto, router, files, history
  <2> QED BY <1>1, <2>1, BatchedStays
<1>14. ASSUME NEW d \in Commands, NEW n \in Incidents \cup {Unread}, MissName(d, n) PROVE Batched'
  <2>1. /\ UNCHANGED <<buffer, batch, alerted>>
        /\ \A j \in Incidents : stage[j] = "done" => stage'[j] = "done"
        /\ \A l \in Flushers : stage[l] = "unread" => stage'[l] = "unread"
    BY <1>1, <1>14 DEF TypeOK, MissName, Goto, router, files, history
  <2> QED BY <1>1, <2>1, BatchedStays
<1>15. ASSUME NEW d \in Commands, EndDismissAll(d) PROVE Batched'
  <2>1. /\ UNCHANGED <<buffer, batch, alerted>>
        /\ \A j \in Incidents : stage[j] = "done" => stage'[j] = "done"
        /\ \A l \in Flushers : stage[l] = "unread" => stage'[l] = "unread"
    BY <1>1, <1>15 DEF TypeOK, EndDismissAll, Goto, router, files, history
  <2> QED BY <1>1, <2>1, BatchedStays
<1>16. CASE Tick
  <2>1. /\ UNCHANGED <<buffer, batch, alerted>>
        /\ \A j \in Incidents : stage[j] = "done" => stage'[j] = "done"
        /\ \A l \in Flushers : stage[l] = "unread" => stage'[l] = "unread"
    BY <1>1, <1>16 DEF TypeOK, Tick, Goto, router, files, history
  <2> QED BY <1>1, <2>1, BatchedStays
<1>17. CASE Exit
  <2>1. /\ UNCHANGED <<buffer, batch, alerted>>
        /\ \A j \in Incidents : stage[j] = "done" => stage'[j] = "done"
        /\ \A l \in Flushers : stage[l] = "unread" => stage'[l] = "unread"
    BY <1>1, <1>17 DEF TypeOK, Exit, Goto, router, files, history
  <2> QED BY <1>1, <2>1, BatchedStays
<1> QED BY <1>2, <1>3, <1>4, <1>5, <1>6, <1>7, <1>8, <1>9, <1>10, <1>11, <1>12,
           <1>13, <1>14, <1>15, <1>16, <1>17
  DEF Next, Handle, Send, Command

(* An alert is written for an incident that has none.                      *)
LEMMA AlertedKept == AlertInv /\ [Next]_vars => AlertedOnce'
<1> SUFFICES ASSUME AlertInv, [Next]_vars PROVE AlertedOnce'
  OBVIOUS
<1> USE Constants DEF AlertInv, TypeOK, Progress, Batched, BatchFresh, AlertedOnce, Senders,
           Waiting, Ungraded, Sent
<1>1. CASE UNCHANGED vars
  BY <1>1 DEF vars, router, files, history
<1>2. ASSUME NEW i \in Incidents, NEW c \in Crashes, Record(i, c) PROVE AlertedOnce'
  BY <1>2 DEF Record, Goto, router, files, history
<1>3. ASSUME NEW i \in Incidents, Log(i) PROVE AlertedOnce'
  BY <1>3 DEF Log, Goto, router, files, history
<1>4. ASSUME NEW i \in Incidents, Escalate(i) PROVE AlertedOnce'
  BY <1>4, Escalation
<1>5. ASSUME NEW i \in Incidents, AddToBatch(i) PROVE AlertedOnce'
  BY <1>5 DEF AddToBatch, Goto, router, files, history
<1>6. ASSUME NEW k \in Flushers, Flush(k) PROVE AlertedOnce'
  BY <1>6 DEF Flush, Goto, router, files, history
<1>7. ASSUME NEW k \in Flushers, EndFlush(k) PROVE AlertedOnce'
  BY <1>7 DEF EndFlush, Goto, router, files, history
<1>8. ASSUME NEW x \in Senders, NEW i \in Incidents, WriteAlert(x, i) PROVE AlertedOnce'
  <2>1. stage[x] = "file" /\ alerted' = [alerted EXCEPT ![i] = @ + 1]
    BY <1>8 DEF WriteAlert
  <2>2. CASE x \in Incidents
    <3>1. i = x
      BY <2>2, <1>8 DEF WriteAlert, Sends
    <3> QED BY <2>1, <2>2, <3>1
  <2>3. CASE x \in Flushers
    <3>1. batch[x] # <<>> /\ batch[x] \in Seq(Incidents) /\ i = batch[x][1] /\ 1 \in 1 .. Len(batch[x])
      BY <2>3, <1>8 DEF WriteAlert, Sends
    <3>2. alerted[i] = 0
      BY <2>1, <2>3, <3>1
    <3> QED BY <2>1, <3>2
  <2> QED BY <2>2, <2>3
<1>9. ASSUME NEW x \in Senders, NEW i \in Incidents, AppendUnread(x, i) \/ LoseAlert(x, i)
      PROVE  AlertedOnce'
  BY <1>9 DEF AppendUnread, LoseAlert, history
<1>10. ASSUME NEW d \in Commands, NEW i \in Incidents, Dismiss(d, i) PROVE AlertedOnce'
  BY <1>10 DEF Dismiss, Goto, router, files, history
<1>11. ASSUME NEW d \in Commands, DismissAll(d) PROVE AlertedOnce'
  BY <1>11 DEF DismissAll, Goto, router, files, history
<1>12. ASSUME NEW d \in Commands, NEW n \in Incidents \cup {Unread}, RemoveName(d, n) PROVE AlertedOnce'
  BY <1>12 DEF RemoveName, Goto, router, files, history
<1>13. ASSUME NEW d \in Commands, NEW n \in Incidents \cup {Unread}, MissName(d, n) PROVE AlertedOnce'
  BY <1>13 DEF MissName, Goto, router, files, history
<1>14. ASSUME NEW d \in Commands, EndDismissAll(d) PROVE AlertedOnce'
  BY <1>14 DEF EndDismissAll, Goto, router, files, history
<1>15. CASE Tick
  BY <1>15 DEF Tick, Goto, router, files, history
<1>16. CASE Exit
  BY <1>16 DEF Exit, Goto, router, files, history
<1> QED BY <1>1, <1>2, <1>3, <1>4, <1>5, <1>6, <1>7, <1>8, <1>9, <1>10, <1>11,
           <1>12, <1>13, <1>14, <1>15, <1>16
  DEF Next, Handle, Send, Command

----------------------------------------------------------------------------
(* The theorems.                                                           *)

LEMMA AlertInit == Init => AlertInv
<1> SUFFICES ASSUME Init PROVE AlertInv
  OBVIOUS
<1> USE Constants DEF Init, Senders
<1>1. <<>> \in Seq(Incidents) /\ Len(<<>>) = 0
  OBVIOUS
<1>2. TypeOK
  <2>1. stage \in [Senders \cup Commands ->
                    {"new", "log", "escalate", "batch", "file", "unread", "done", "remove", "failed"}]
    OBVIOUS
  <2>2. registry \subseteq Crashes /\ running \in BOOLEAN /\ clock \in 0 .. MaxClock
    BY IncidentAlertsAssumption
  <2>3. /\ crash \in [Incidents -> Crashes \cup {None}]
        /\ severity \in [Incidents -> Severities \cup {None}]
        /\ logged \in [Incidents -> Severities \cup {None}]
    OBVIOUS
  <2>4. tracker \in [Funcs -> SUBSET (Incidents \X (0 .. MaxClock))]
    OBVIOUS
  <2>5. batch \in [Flushers -> Seq(Incidents)] /\ buffer \in Seq(Incidents) /\ routed \in Seq(Incidents)
    BY <1>1
  <2>6. stamp \in [Incidents -> 0 .. MaxClock] /\ alerted \in [Incidents -> Nat] /\ lost \subseteq Incidents
    BY <2>2
  <2>7. dir \subseteq Incidents \cup {Unread} /\ listed \subseteq Incidents
    OBVIOUS
  <2>8. todo \in [Commands -> SUBSET (Incidents \cup {Unread})]
    OBVIOUS
  <2>9. timer \in BOOLEAN /\ channel \in Senders \cup {None}
    OBVIOUS
  <2> QED BY <2>1, <2>2, <2>3, <2>4, <2>5, <2>6, <2>7, <2>8, <2>9 DEF TypeOK
<1>3. Progress
  BY DEF Progress, Waiting, Ungraded
<1>4. Batched
  BY <1>1 DEF Batched, BufferFresh, BufferOnce, BatchFresh, BatchOnce, BatchApart
<1>5. AlertedOnce
  BY DEF AlertedOnce
<1> QED BY <1>2, <1>3, <1>4, <1>5 DEF AlertInv

LEMMA AlertInvariance == Spec => []AlertInv
<1>1. AlertInv /\ [Next]_vars => AlertInv'
  <2>1. AlertInv => TypeOK /\ Progress /\ Batched
    BY DEF AlertInv
  <2> QED BY <2>1, Typing, ProgressKept, BatchedKept, AlertedKept DEF AlertInv
<1> QED BY <1>1, AlertInit, PTL DEF Spec

(* The variables have their types, whatever fires and is dismissed when. *)
THEOREM TypeCorrect == Spec => []TypeOK
<1>1. AlertInv => TypeOK
  BY DEF AlertInv
<1> QED BY <1>1, AlertInvariance, PTL

(* No incident is alerted of twice, however many timers fire and whenever  *)
(* incidents arrive between them.                                          *)
THEOREM NoAlertTwice == Spec => []AlertedOnce
<1>1. AlertInv => AlertedOnce
  BY DEF AlertInv
<1> QED BY <1>1, AlertInvariance, PTL
----------------------------------------------------------------------------
(* The escalation.                                                         *)

LEMMA RoutedMembers ==
  ASSUME TypeOK
  PROVE  /\ Len(routed) \in Nat
         /\ \A n \in 1 .. Len(routed) :
              routed[n] \in Incidents /\ stamp[routed[n]] \in 0 .. MaxClock
BY DEF TypeOK

(* What was graded stays so in a step that leaves the records of it alone. *)
LEMMA GradesStay ==
  ASSUME TypeOK, Routed, Tracked, EscalationExact, UNCHANGED <<tracker, routed, stamp>>,
         clock' \in Nat, clock' >= clock,
         \A i \in Incidents : stage[i] \notin Ungraded =>
           /\ stage'[i] \notin Ungraded
           /\ crash'[i] = crash[i] /\ severity'[i] = severity[i] /\ logged'[i] = logged[i]
  PROVE  Routed' /\ Tracked' /\ EscalationExact'
<1>1. \A n \in 1 .. Len(routed) :
        /\ stage'[routed[n]] \notin Ungraded
        /\ crash'[routed[n]] = crash[routed[n]] /\ severity'[routed[n]] = severity[routed[n]]
        /\ logged'[routed[n]] = logged[routed[n]]
  BY RoutedMembers DEF Routed
<1>2. Routed'
  BY <1>1 DEF Routed
<1>3. \A n \in 1 .. Len(routed) : stamp[routed[n]] + Window > clock' => stamp[routed[n]] + Window > clock
  BY RoutedMembers, Constants DEF TypeOK
<1>4. Tracked'
  <2>1. tracker' = tracker /\ routed' = routed /\ stamp' = stamp
    OBVIOUS
  <2>2. \A f \in Funcs, n \in 1 .. Len(routed) : Occurs(f, n)' = Occurs(f, n)
    BY <1>1, <2>1 DEF Occurs
  <2>3. ASSUME NEW f \in Funcs, NEW s \in tracker[f]
        PROVE  \E n \in 1 .. Len(routed) : Occurs(f, n)' /\ s = <<routed[n], stamp[routed[n]]>>
    BY <2>2 DEF Tracked
  <2>4. ASSUME NEW f \in Funcs, NEW n \in 1 .. Len(routed), Occurs(f, n)',
               stamp[routed[n]] + Window > clock'
        PROVE  <<routed[n], stamp[routed[n]]>> \in tracker[f]
    <3>1. Occurs(f, n) /\ stamp[routed[n]] + Window > clock
      BY <1>3, <2>2, <2>4
    <3> QED BY <3>1 DEF Tracked
  <2> HIDE DEF Occurs
  <2> QED BY <2>1, <2>3, <2>4 DEF Tracked
<1>5. EscalationExact'
  <2> SUFFICES ASSUME NEW n \in 1 .. Len(routed)
               PROVE  severity'[routed[n]] =
                        IF Cardinality({m \in 1 .. n : /\ FuncOf[crash'[routed[m]]] = FuncOf[crash'[routed[n]]]
                                                      /\ stamp[routed[m]] + Window > stamp[routed[n]]})
                           >= Threshold
                        THEN "CRITICAL" ELSE logged'[routed[n]]
    BY DEF EscalationExact, SameFunc
  <2>1. \A m \in 1 .. n : m \in 1 .. Len(routed)
    BY RoutedMembers
  <2>2. {m \in 1 .. n : FuncOf[crash'[routed[m]]] = FuncOf[crash'[routed[n]]]
                        /\ stamp[routed[m]] + Window > stamp[routed[n]]}
        = {m \in 1 .. n : FuncOf[crash[routed[m]]] = FuncOf[crash[routed[n]]]
                          /\ stamp[routed[m]] + Window > stamp[routed[n]]}
    BY <1>1, <2>1
  <2> QED BY <1>1, <2>2 DEF EscalationExact, SameFunc
<1> QED BY <1>2, <1>4, <1>5

(* The occurrences of a function within a window, and what the tracker has *)
(* of them after they were looked through.                                 *)
LEMMA SameNumber ==
  ASSUME NEW S, NEW T, NEW n \in Nat, S \subseteq 1 .. n, NEW g \in [S -> T],
         \A m, o \in S : g[m] = g[o] => m = o,
         \A t \in T : \E m \in S : g[m] = t
  PROVE  IsFiniteSet(T) /\ Cardinality(T) = Cardinality(S)
<1>1. IsFiniteSet(S)
  <2>1. IsFiniteSet(1 .. n)
    BY FS_Interval
  <2> QED BY <2>1, FS_Subset
<1>2. g \in Bijection(S, T)
  BY DEF Bijection, Injection, Surjection, IsInjective
<1>3. ExistsBijection(S, T)
  BY <1>2 DEF ExistsBijection
<1> QED BY <1>1, <1>3, FS_Bijection

(* An escalation counts what is recent and no more. *)
LEMMA EscalationKeeps ==
  ASSUME GradeInv, NEW i \in Incidents, Escalate(i)
  PROVE  Routed' /\ Tracked' /\ EscalationExact'
<1> DEFINE f == FuncOf[crash[i]]
           L == Len(routed)
<1>1. TypeOK /\ Progress /\ Routed /\ Tracked /\ EscalationExact
  BY DEF GradeInv, Grades
<1>2. /\ stage[i] = "escalate" /\ f \in Funcs
      /\ stage' = [stage EXCEPT ![i] = Route(Raised(i))]
      /\ severity' = [severity EXCEPT ![i] = Raised(i)]
      /\ routed' = Append(routed, i) /\ stamp' = [stamp EXCEPT ![i] = clock]
      /\ tracker' = [tracker EXCEPT ![f] = Recent(@ \cup {<<i, clock>>})]
      /\ UNCHANGED <<clock, crash, logged>>
  BY <1>1, Escalation
<1>3. /\ clock \in Nat /\ Window \in Nat \ {0} /\ L \in Nat
      /\ \A n \in 1 .. L : routed[n] \in Incidents /\ routed[n] # i /\ stamp[routed[n]] \in Nat
  BY <1>1, <1>2, Constants, RoutedMembers DEF Routed, Ungraded, TypeOK
<1>4. /\ Len(routed') = L + 1 /\ routed'[L + 1] = i
      /\ \A n \in 1 .. L : routed'[n] = routed[n]
  BY <1>1, <1>2 DEF TypeOK
<1>5. /\ \A n \in 1 .. L : /\ stamp'[routed'[n]] = stamp[routed[n]]
                           /\ severity'[routed'[n]] = severity[routed[n]]
                           /\ stage'[routed'[n]] = stage[routed[n]]
      /\ stamp'[i] = clock /\ severity'[i] = Raised(i) /\ stage'[i] = Route(Raised(i))
  <2>1. /\ \A j \in Incidents : j # i =>
             stamp'[j] = stamp[j] /\ severity'[j] = severity[j] /\ stage'[j] = stage[j]
        /\ stamp'[i] = clock /\ severity'[i] = Raised(i) /\ stage'[i] = Route(Raised(i))
    BY <1>1, <1>2 DEF TypeOK, Senders
  <2> QED BY <1>3, <1>4, <2>1
<1>6. \A n \in 1 .. L + 1 : n \in 1 .. L \/ n = L + 1
  BY <1>3
<1> HIDE DEF L
<1>7. Routed'
  <2>1. stage'[i] \notin Ungraded
    BY <1>5, Routes DEF Ungraded
  <2> QED BY <1>1, <1>3, <1>4, <1>5, <1>6, <2>1 DEF Routed, L
<1>8. Tracked'
  <2> SUFFICES ASSUME NEW g \in Funcs
               PROVE  /\ \A s \in tracker'[g] : \E n \in 1 .. L + 1 :
                           FuncOf[crash[routed'[n]]] = g /\ s = <<routed'[n], stamp'[routed'[n]]>>
                      /\ \A n \in 1 .. L + 1 :
                           FuncOf[crash[routed'[n]]] = g /\ stamp'[routed'[n]] + Window > clock
                             => <<routed'[n], stamp'[routed'[n]]>> \in tracker'[g]
    <3>1. Len(routed') = L + 1 /\ crash' = crash /\ clock' = clock
      BY <1>2, <1>4
    <3> QED BY <3>1 DEF Tracked, Occurs
  <2>1. /\ \A s \in tracker[g] : \E n \in 1 .. L :
             FuncOf[crash[routed[n]]] = g /\ s = <<routed[n], stamp[routed[n]]>>
        /\ \A n \in 1 .. L :
             FuncOf[crash[routed[n]]] = g /\ stamp[routed[n]] + Window > clock
               => <<routed[n], stamp[routed[n]]>> \in tracker[g]
    BY <1>1 DEF Tracked, Occurs, L
  <2>2. \A n \in 1 .. L : n \in 1 .. L + 1
    BY <1>3 DEF L
  <2>3. L + 1 \in 1 .. L + 1
    BY <1>3 DEF L
  <2>4. CASE g # f
    <3>1. tracker'[g] = tracker[g]
      BY <1>1, <1>2, <2>4 DEF TypeOK
    <3> QED BY <1>4, <1>5, <1>6, <2>1, <2>2, <2>4, <3>1
  <2>5. CASE g = f
    <3>1. tracker'[g] = {s \in tracker[g] \cup {<<i, clock>>} : s[2] + Window > clock}
      BY <1>1, <1>2, <2>5 DEF TypeOK, Recent
    <3>2. \A s \in tracker'[g] : \E n \in 1 .. L + 1 :
            FuncOf[crash[routed'[n]]] = g /\ s = <<routed'[n], stamp'[routed'[n]]>>
      BY <1>4, <1>5, <2>1, <2>2, <2>3, <2>5, <3>1
    <3>3. clock + Window > clock
      BY <1>3
    <3>4. ASSUME NEW n \in 1 .. L + 1,
                 FuncOf[crash[routed'[n]]] = g, stamp'[routed'[n]] + Window > clock
          PROVE  <<routed'[n], stamp'[routed'[n]]>> \in tracker'[g]
      <4>1. CASE n \in 1 .. L
        BY <1>4, <1>5, <2>1, <3>1, <3>4, <4>1
      <4>2. CASE n = L + 1
        BY <1>4, <1>5, <3>1, <3>3, <4>2
      <4> QED BY <1>6, <4>1, <4>2
    <3> QED BY <3>2, <3>4
  <2> QED BY <2>4, <2>5
<1>9. EscalationExact'
  <2> DEFINE R(n) == {m \in 1 .. n : /\ FuncOf[crash[routed'[m]]] = FuncOf[crash[routed'[n]]]
                                     /\ stamp'[routed'[m]] + Window > stamp'[routed'[n]]}
  <2> SUFFICES ASSUME NEW n \in 1 .. L + 1
               PROVE  severity'[routed'[n]] =
                        IF Cardinality(R(n)) >= Threshold THEN "CRITICAL" ELSE logged[routed'[n]]
    BY <1>2, <1>4 DEF EscalationExact, SameFunc
  <2>1. CASE n \in 1 .. L
    <3>1. \A m \in 1 .. n : m \in 1 .. L
      BY <1>3, <2>1 DEF L
    <3>2. R(n) = {m \in 1 .. n : /\ FuncOf[crash[routed[m]]] = FuncOf[crash[routed[n]]]
                                 /\ stamp[routed[m]] + Window > stamp[routed[n]]}
      BY <1>4, <1>5, <2>1, <3>1
    <3> HIDE DEF R
    <3>3. severity[routed[n]] = IF Cardinality(R(n)) >= Threshold THEN "CRITICAL" ELSE logged[routed[n]]
      BY <1>1, <2>1, <3>2 DEF EscalationExact, SameFunc, L
    <3> QED BY <1>4, <1>5, <2>1, <3>3
  <2>2. CASE n = L + 1
    <3> DEFINE h(m) == <<routed'[m], stamp'[routed'[m]]>>
    <3>1. R(n) = {m \in 1 .. n : FuncOf[crash[routed'[m]]] = f /\ stamp'[routed'[m]] + Window > clock}
      BY <1>4, <1>5, <2>2
    <3>2. /\ \A s \in tracker'[f] : \E m \in 1 .. n : FuncOf[crash[routed'[m]]] = f /\ s = h(m)
          /\ \A m \in 1 .. n : FuncOf[crash[routed'[m]]] = f /\ stamp'[routed'[m]] + Window > clock
                                => h(m) \in tracker'[f]
      <4>1. Len(routed') = n /\ crash' = crash /\ clock' = clock /\ f \in Funcs
        BY <1>2, <1>4, <2>2
      <4> HIDE DEF f
      <4> QED BY <1>8, <4>1 DEF Tracked, Occurs
    <3>3. \A s \in tracker'[f] : s[2] + Window > clock
      BY <1>1, <1>2 DEF TypeOK, Recent
    <3>4. \A m, o \in R(n) : h(m) = h(o) => m = o
      BY <1>4, <1>7, <2>2, <3>1 DEF Routed
    <3>5. \A m \in R(n) : h(m) \in tracker'[f]
      BY <3>1, <3>2
    <3>6. \A s \in tracker'[f] : \E m \in R(n) : h(m) = s
      BY <3>1, <3>2, <3>3
    <3>7. R(n) \subseteq 1 .. n /\ n \in Nat
      BY <1>3, <2>2 DEF L
    <3> HIDE DEF R, h
    <3>8. Cardinality(tracker'[f]) = Cardinality(R(n))
      <4> DEFINE S == R(n)
                 T == tracker'[f]
                 g == [m \in S |-> h(m)]
      <4>1. g \in [S -> T] /\ \A m \in S : g[m] = h(m)
        BY <3>5
      <4> HIDE DEF g
      <4>2. /\ \A m, o \in S : g[m] = g[o] => m = o
            /\ \A s \in T : \E m \in S : g[m] = s
        BY <3>4, <3>6, <4>1
      <4>3. S \subseteq 1 .. n /\ n \in Nat
        BY <3>7
      <4> HIDE DEF S, T
      <4>4. Cardinality(T) = Cardinality(S)
        BY <4>1, <4>2, <4>3, SameNumber
      <4> QED BY <4>4 DEF S, T
    <3>9. severity[i] = logged[i]
      BY <1>1, <1>2 DEF Progress
    <3> QED BY <1>4, <1>5, <2>2, <3>8, <3>9 DEF Raised
  <2> QED BY <1>6, <2>1, <2>2
<1> QED BY <1>7, <1>8, <1>9

(* Grades stay exact.                                                      *)
LEMMA GradesKept == GradeInv /\ [Next]_vars => Grades'
<1> SUFFICES ASSUME GradeInv, [Next]_vars PROVE Grades'
  OBVIOUS
<1> USE Constants DEF Senders
<1>1. TypeOK /\ Routed /\ Tracked /\ EscalationExact
  BY DEF GradeInv, Grades
<1>2. CASE UNCHANGED vars
  <2>1. /\ UNCHANGED <<tracker, routed, stamp>> /\ clock' \in Nat /\ clock' >= clock
        /\ \A j \in Incidents : stage[j] \notin Ungraded =>
             /\ stage'[j] \notin Ungraded
             /\ crash'[j] = crash[j] /\ severity'[j] = severity[j] /\ logged'[j] = logged[j]
    BY <1>1, <1>2 DEF TypeOK, vars, router, files, history, Ungraded
  <2> QED BY <1>1, <2>1, GradesStay DEF Grades
<1>3. ASSUME NEW i \in Incidents, NEW c \in Crashes, Record(i, c) PROVE Grades'
  <2>1. /\ UNCHANGED <<tracker, routed, stamp>> /\ clock' \in Nat /\ clock' >= clock
        /\ \A j \in Incidents : stage[j] \notin Ungraded =>
             /\ stage'[j] \notin Ungraded
             /\ crash'[j] = crash[j] /\ severity'[j] = severity[j] /\ logged'[j] = logged[j]
    BY <1>1, <1>3 DEF TypeOK, Record, Goto, router, files, history, Ungraded
  <2> QED BY <1>1, <2>1, GradesStay DEF Grades
<1>4. ASSUME NEW i \in Incidents, Log(i) PROVE Grades'
  <2>1. /\ UNCHANGED <<tracker, routed, stamp>> /\ clock' \in Nat /\ clock' >= clock
        /\ \A j \in Incidents : stage[j] \notin Ungraded =>
             /\ stage'[j] \notin Ungraded
             /\ crash'[j] = crash[j] /\ severity'[j] = severity[j] /\ logged'[j] = logged[j]
    BY <1>1, <1>4 DEF TypeOK, Log, Goto, router, files, history, Ungraded
  <2> QED BY <1>1, <2>1, GradesStay DEF Grades
<1>5. ASSUME NEW i \in Incidents, Escalate(i) PROVE Grades'
  BY <1>1, <1>5, EscalationKeeps DEF Grades
<1>6. ASSUME NEW i \in Incidents, AddToBatch(i) PROVE Grades'
  <2>1. /\ UNCHANGED <<tracker, routed, stamp>> /\ clock' \in Nat /\ clock' >= clock
        /\ \A j \in Incidents : stage[j] \notin Ungraded =>
             /\ stage'[j] \notin Ungraded
             /\ crash'[j] = crash[j] /\ severity'[j] = severity[j] /\ logged'[j] = logged[j]
    BY <1>1, <1>6 DEF TypeOK, AddToBatch, Goto, router, files, history, Ungraded
  <2> QED BY <1>1, <2>1, GradesStay DEF Grades
<1>7. ASSUME NEW k \in Flushers, Flush(k) PROVE Grades'
  <2>1. /\ UNCHANGED <<tracker, routed, stamp>> /\ clock' \in Nat /\ clock' >= clock
        /\ \A j \in Incidents : stage[j] \notin Ungraded =>
             /\ stage'[j] \notin Ungraded
             /\ crash'[j] = crash[j] /\ severity'[j] = severity[j] /\ logged'[j] = logged[j]
    BY <1>1, <1>7 DEF TypeOK, Flush, Goto, router, files, history, Ungraded
  <2> QED BY <1>1, <2>1, GradesStay DEF Grades
<1>8. ASSUME NEW k \in Flushers, EndFlush(k) PROVE Grades'
  <2>1. /\ UNCHANGED <<tracker, routed, stamp>> /\ clock' \in Nat /\ clock' >= clock
        /\ \A j \in Incidents : stage[j] \notin Ungraded =>
             /\ stage'[j] \notin Ungraded
             /\ crash'[j] = crash[j] /\ severity'[j] = severity[j] /\ logged'[j] = logged[j]
    BY <1>1, <1>8 DEF TypeOK, EndFlush, Goto, router, files, history, Ungraded
  <2> QED BY <1>1, <2>1, GradesStay DEF Grades
<1>9. ASSUME NEW x \in Senders, NEW i \in Incidents, WriteAlert(x, i) PROVE Grades'
  <2>1. /\ UNCHANGED <<tracker, routed, stamp>> /\ clock' \in Nat /\ clock' >= clock
        /\ \A j \in Incidents : stage[j] \notin Ungraded =>
             /\ stage'[j] \notin Ungraded
             /\ crash'[j] = crash[j] /\ severity'[j] = severity[j] /\ logged'[j] = logged[j]
    BY <1>1, <1>9 DEF TypeOK, WriteAlert, Goto, router, files, history, Ungraded
  <2> QED BY <1>1, <2>1, GradesStay DEF Grades
<1>10. ASSUME NEW x \in Senders, NEW i \in Incidents, AppendUnread(x, i) \/ LoseAlert(x, i)
       PROVE  Grades'
  <2>2. stage' = [stage EXCEPT ![x] = IF x \in Incidents THEN "done" ELSE "file"]
    BY <1>1, <1>10, Passing DEF AppendUnread, LoseAlert
  <2>3. /\ UNCHANGED <<clock, crash, severity, logged, tracker, routed, stamp>>
        /\ stage[x] \in {"file", "unread"}
    BY <1>10 DEF AppendUnread, LoseAlert, router, history
  <2>1. /\ UNCHANGED <<tracker, routed, stamp>> /\ clock' \in Nat /\ clock' >= clock
        /\ \A j \in Incidents : stage[j] \notin Ungraded =>
             /\ stage'[j] \notin Ungraded
             /\ crash'[j] = crash[j] /\ severity'[j] = severity[j] /\ logged'[j] = logged[j]
    BY <1>1, <2>2, <2>3 DEF TypeOK, Ungraded
  <2> QED BY <1>1, <2>1, GradesStay DEF Grades
<1>11. ASSUME NEW d \in Commands, NEW i \in Incidents, Dismiss(d, i) PROVE Grades'
  <2>1. /\ UNCHANGED <<tracker, routed, stamp>> /\ clock' \in Nat /\ clock' >= clock
        /\ \A j \in Incidents : stage[j] \notin Ungraded =>
             /\ stage'[j] \notin Ungraded
             /\ crash'[j] = crash[j] /\ severity'[j] = severity[j] /\ logged'[j] = logged[j]
    BY <1>1, <1>11 DEF TypeOK, Dismiss, Goto, router, files, history, Ungraded
  <2> QED BY <1>1, <2>1, GradesStay DEF Grades
<1>12. ASSUME NEW d \in Commands, DismissAll(d) PROVE Grades'
  <2>1. /\ UNCHANGED <<tracker, routed, stamp>> /\ clock' \in Nat /\ clock' >= clock
        /\ \A j \in Incidents : stage[j] \notin Ungraded =>
             /\ stage'[j] \notin Ungraded
             /\ crash'[j] = crash[j] /\ severity'[j] = severity[j] /\ logged'[j] = logged[j]
    BY <1>1, <1>12 DEF TypeOK, DismissAll, Goto, router, files, history, Ungraded
  <2> QED BY <1>1, <2>1, GradesStay DEF Grades
<1>13. ASSUME NEW d \in Commands, NEW n \in Incidents \cup {Unread}, RemoveName(d, n) PROVE Grades'
  <2>1. /\ UNCHANGED <<tracker, routed, stamp>> /\ clock' \in Nat /\ clock' >= clock
        /\ \A j \in Incidents : stage[j] \notin Ungraded =>
             /\ stage'[j] \notin Ungraded
             /\ crash'[j] = crash[j] /\ severity'[j] = severity[j] /\ logged'[j] = logged[j]
    BY <1>1, <1>13 DEF TypeOK, RemoveName, Goto, router, files, history, Ungraded
  <2> QED BY <1>1, <2>1, GradesStay DEF Grades
<1>14. ASSUME NEW d \in Commands, NEW n \in Incidents \cup {Unread}, MissName(d, n) PROVE Grades'
  <2>1. /\ UNCHANGED <<tracker, routed, stamp>> /\ clock' \in Nat /\ clock' >= clock
        /\ \A j \in Incidents : stage[j] \notin Ungraded =>
             /\ stage'[j] \notin Ungraded
             /\ crash'[j] = crash[j] /\ severity'[j] = severity[j] /\ logged'[j] = logged[j]
    BY <1>1, <1>14 DEF TypeOK, MissName, Goto, router, files, history, Ungraded
  <2> QED BY <1>1, <2>1, GradesStay DEF Grades
<1>15. ASSUME NEW d \in Commands, EndDismissAll(d) PROVE Grades'
  <2>1. /\ UNCHANGED <<tracker, routed, stamp>> /\ clock' \in Nat /\ clock' >= clock
        /\ \A j \in Incidents : stage[j] \notin Ungraded =>
             /\ stage'[j] \notin Ungraded
             /\ crash'[j] = crash[j] /\ severity'[j] = severity[j] /\ logged'[j] = logged[j]
    BY <1>1, <1>15 DEF TypeOK, EndDismissAll, Goto, router, files, history, Ungraded
  <2> QED BY <1>1, <2>1, GradesStay DEF Grades
<1>16. CASE Tick
  <2>1. /\ UNCHANGED <<tracker, routed, stamp>> /\ clock' \in Nat /\ clock' >= clock
        /\ \A j \in Incidents : stage[j] \notin Ungraded =>
             /\ stage'[j] \notin Ungraded
             /\ crash'[j] = crash[j] /\ severity'[j] = severity[j] /\ logged'[j] = logged[j]
    BY <1>1, <1>16 DEF TypeOK, Tick, Goto, router, files, history, Ungraded
  <2> QED BY <1>1, <2>1, GradesStay DEF Grades
<1>17. CASE Exit
  <2>1. /\ UNCHANGED <<tracker, routed, stamp>> /\ clock' \in Nat /\ clock' >= clock
        /\ \A j \in Incidents : stage[j] \notin Ungraded =>
             /\ stage'[j] \notin Ungraded
             /\ crash'[j] = crash[j] /\ severity'[j] = severity[j] /\ logged'[j] = logged[j]
    BY <1>1, <1>17 DEF TypeOK, Exit, Goto, router, files, history, Ungraded
  <2> QED BY <1>1, <2>1, GradesStay DEF Grades
<1> QED BY <1>2, <1>3, <1>4, <1>5, <1>6, <1>7, <1>8, <1>9, <1>10, <1>11, <1>12,
           <1>13, <1>14, <1>15, <1>16, <1>17
  DEF Next, Handle, Send, Command

(* An incident is escalated exactly when it is the Threshold-th of its      *)
(* function within the window, whatever the threshold and the window, in   *)
(* whatever order the threads of the incidents come to the router.         *)
THEOREM EscalatesExactly == Spec => []EscalationExact
<1>1. Init => GradeInv
  BY AlertInit DEF AlertInv, GradeInv, Grades, Init, Routed, Tracked, EscalationExact
<1>2. GradeInv /\ Batched /\ [Next]_vars => GradeInv'
  BY Typing, ProgressKept, GradesKept DEF GradeInv, Grades
<1>3. AlertInv => Batched
  BY DEF AlertInv
<1>4. GradeInv => EscalationExact
  BY DEF GradeInv, Grades
<1> QED BY <1>1, <1>2, <1>3, <1>4, AlertInvariance, PTL DEF Spec

----------------------------------------------------------------------------
(* The flight recorder.                                                    *)

(* What a trace callback and a handler hold at each of their steps. *)
Holding ==
  /\ \A t \in Threads :
       /\ pc[t] \in {"stamp", "test", "append"} => held[t] # Nothing
       /\ pc[t] \in {"test", "append"} => shot[t] # Nothing
       /\ pc[t] \in {"open", "write"} <=> dump[t] # Nothing
       /\ dump[t] # Nothing => dump[t] <= dumps /\ funcs[dump[t]] # Nothing
       /\ pc[t] = "write" => names[dump[t]] # Nothing
  /\ view.from # Nothing => view.given <= Len(appended[view.from])

(* A buffer has the end of what it was given. *)
IsEnd(s, all) ==
  /\ Len(s) <= Len(all) /\ (Len(s) < Len(all) => Len(s) >= MaxFrames)
  /\ \A i \in 1 .. Len(s) : s[i] = all[Len(all) - Len(s) + i]
Ends == \A b \in Buffers : IsEnd(frames[b], appended[b])

RingInv == RRTypeOK /\ Holding /\ Ends /\ DumpIsNewest

(* The name a dump's file gets. *)
FileName(t) == <<SafeName[funcs[dump[t]]], ticks \div TicksPerSecond>>

LEMMA LastOfIs ==
  ASSUME NEW S, NEW s \in Seq(S), NEW n \in Nat \ {0}
  PROVE  /\ LastOf(s, n) \in Seq(S)
         /\ Len(LastOf(s, n)) = IF Len(s) > n THEN n ELSE Len(s)
         /\ \A i \in 1 .. Len(LastOf(s, n)) : LastOf(s, n)[i] = s[Len(s) - Len(LastOf(s, n)) + i]
<1>1. CASE Len(s) > n
  <2>1. LastOf(s, n) = SubSeq(s, Len(s) - n + 1, Len(s))
    BY <1>1 DEF LastOf
  <2> QED BY <1>1, <2>1
<1>2. CASE ~(Len(s) > n)
  <2>1. LastOf(s, n) = SubSeq(s, 1, Len(s))
    BY <1>2 DEF LastOf
  <2>2. LastOf(s, n) = s
    BY <2>1
  <2> QED BY <1>2, <2>2
<1> QED BY <1>1, <1>2

(* Seconds do not go back. *)
LEMMA Seconds ==
  ASSUME NEW a \in Nat, NEW b \in Nat, a <= b, NEW n \in Nat \ {0}
  PROVE  a \div n \in Nat /\ a \div n <= b \div n /\ a \div n <= a
OBVIOUS

LEMMA RingInit == RRInit => RingInv
<1> SUFFICES ASSUME RRInit PROVE RingInv
  OBVIOUS
<1>1. RRTypeOK
  BY RewindRecorderAssumption DEF RRInit, RRTypeOK, Names
<1>2. Holding /\ DumpIsNewest
  BY DEF RRInit, Holding, DumpIsNewest
<1>3. Ends
  BY RewindRecorderAssumption DEF RRInit, Ends, IsEnd
<1> QED BY <1>1, <1>2, <1>3 DEF RingInv

LEMMA NamesFit ==
  ASSUME RRTypeOK, Holding, NEW t \in Threads, OpenFile(t)
  PROVE  /\ dump[t] \in Dumps /\ funcs[dump[t]] \in Functions
         /\ FileName(t) \in Names /\ FileName(t) # Nothing
<1>1. dump[t] \in Dumps /\ funcs[dump[t]] \in Functions
  BY DEF OpenFile, RRTypeOK, Holding
<1>2. ticks \div TicksPerSecond \in 0 .. MaxTicks
  <2>1. ticks \in Nat /\ MaxTicks \in Nat /\ ticks <= MaxTicks /\ TicksPerSecond \in Nat \ {0}
    BY RewindRecorderAssumption DEF RRTypeOK
  <2>2. ticks \div TicksPerSecond \in Nat /\ ticks \div TicksPerSecond <= ticks
    BY <2>1, Seconds
  <2> QED BY <2>1, <2>2
<1>3. FileName(t) \in Names
  BY <1>1, <1>2 DEF FileName, Names
<1> QED BY <1>1, <1>3, RewindRecorderAssumption

LEMMA RecorderTyping ==
  ASSUME RRTypeOK, Holding, [RRNext]_rrvars
  PROVE  RRTypeOK'
<1>1. ASSUME NEW b \in Buffers, Enable(b) PROVE RRTypeOK'
  BY <1>1 DEF Enable, RRTypeOK, callback, storage, Names
<1>2. ASSUME Disable PROVE RRTypeOK'
  BY <1>2, RewindRecorderAssumption DEF Disable, RRTypeOK, Snapshots, Continue, recorder,
     callback, storage
<1>3. ASSUME NEW t \in Threads, ReadBuffer(t) PROVE RRTypeOK'
  BY <1>3, RewindRecorderAssumption DEF ReadBuffer, RRTypeOK, Snapshots, Continue, recorder,
     callback, storage
<1>4. ASSUME NEW t \in Threads, Stamp(t) PROVE RRTypeOK'
  <2>1. [time |-> ticks, number |-> events'] \in Snapshots /\ events' \in 0 .. MaxEvents
    BY <1>4, RewindRecorderAssumption DEF Stamp, RRTypeOK, Snapshots
  <2> QED BY <1>4, <2>1 DEF Stamp, RRTypeOK, Continue, recorder, storage
<1>5. ASSUME NEW t \in Threads, Test(t) PROVE RRTypeOK'
  BY <1>5, RewindRecorderAssumption DEF Test, RRTypeOK, Snapshots, Continue, recorder, callback,
     storage
<1>6. ASSUME NEW t \in Threads, AppendFrame(t) PROVE RRTypeOK'
  <2>1. held[t] \in Buffers /\ shot[t] \in Snapshots
    BY <1>6 DEF AppendFrame, RRTypeOK, Holding
  <2> DEFINE s == Append(frames[held[t]], shot[t])
             u == Append(appended[held[t]], shot[t])
  <2>2. s \in Seq(Snapshots) /\ u \in Seq(Snapshots)
    BY <2>1 DEF RRTypeOK
  <2>4. /\ frames' = [frames EXCEPT ![held[t]] = LastOf(s, MaxFrames)]
        /\ appended' = [appended EXCEPT ![held[t]] = u]
    BY <1>6, <2>1 DEF AppendFrame, RRTypeOK
  <2> HIDE DEF s, u
  <2>3. LastOf(s, MaxFrames) \in Seq(Snapshots) /\ Len(LastOf(s, MaxFrames)) <= MaxFrames
    <3>1. MaxFrames \in Nat \ {0} /\ Len(s) \in Nat
      BY <2>2, RewindRecorderAssumption
    <3> QED BY <2>2, <3>1, LastOfIs
  <2>5. /\ frames' \in [Buffers -> Seq(Snapshots)] /\ appended' \in [Buffers -> Seq(Snapshots)]
        /\ \A b \in Buffers : Len(frames'[b]) <= MaxFrames
    BY <2>1, <2>2, <2>3, <2>4 DEF RRTypeOK
  <2> QED BY <1>6, <2>5 DEF AppendFrame, RRTypeOK, Continue, callback, storage
<1>7. ASSUME NEW t \in Threads, NEW f \in Functions, Dump(t, f) PROVE RRTypeOK'
  <2>1. engine \in Buffers /\ dumps' \in Dumps
    BY <1>7, RewindRecorderAssumption DEF Dump, RRTypeOK, Dumps
  <2>2. view' \in [list : SUBSET Snapshots, from : Buffers \cup {Nothing}, at : 0 .. MaxTicks,
                   given : Nat]
    <3>1. \A i \in Newest(Young(frames[engine], ticks), LastN) : frames[engine][i] \in Snapshots
      BY <2>1 DEF Newest, Young, RRTypeOK
    <3>2. Len(appended[engine]) \in Nat
      BY <2>1 DEF RRTypeOK
    <3>3. engine \in Buffers \cup {Nothing} /\ ticks \in 0 .. MaxTicks
      BY DEF RRTypeOK
    <3>4. {frames[engine][i] : i \in Newest(Young(frames[engine], ticks), LastN)}
            \subseteq Snapshots
      BY <3>1
    <3> QED BY <1>7, <3>2, <3>3, <3>4 DEF Dump
  <2>3. dumps' \in 0 .. MaxDumps /\ dump' \in [Threads -> Dumps \cup {Nothing}]
    BY <1>7, <2>1 DEF Dump, RRTypeOK, Dumps
  <2>4. funcs' \in [Dumps -> Functions \cup {Nothing}]
    BY <1>7 DEF Dump, RRTypeOK
  <2>5. pc' \in [Threads -> {"idle", "stamp", "test", "append", "open", "write"}]
    BY <1>7 DEF Dump, RRTypeOK, Continue
  <2> QED BY <1>7, <2>2, <2>3, <2>4, <2>5 DEF Dump, RRTypeOK, recorder, callback
<1>8. ASSUME NEW t \in Threads, OpenFile(t) PROVE RRTypeOK'
  <2>1. dump[t] \in Dumps /\ FileName(t) \in Names
    BY <1>8, NamesFit
  <2>2. /\ names' = [names EXCEPT ![dump[t]] = FileName(t)]
        /\ dumpFiles' = [dumpFiles EXCEPT ![FileName(t)] = Torn]
    BY <1>8 DEF OpenFile, FileName
  <2>3. opened' \in Seq(Dumps) /\ dump[t] \in Dumps
    BY <1>8, <2>1 DEF OpenFile, RRTypeOK
  <2>4. /\ names' \in [Dumps -> Names \cup {Nothing}]
        /\ dumpFiles' \in [Names -> Dumps \cup {Nothing, Torn}]
    BY <2>1, <2>2 DEF RRTypeOK
  <2> QED BY <1>8, <2>3, <2>4 DEF OpenFile, RRTypeOK, Continue, recorder, callback
<1>9. ASSUME NEW t \in Threads, WriteFile(t) PROVE RRTypeOK'
  <2>1. dump[t] \in Dumps /\ names[dump[t]] \in Names
    BY <1>9 DEF WriteFile, RRTypeOK, Holding
  <2> QED BY <1>9, <2>1 DEF WriteFile, RRTypeOK, Continue, recorder, callback
<1>10. ASSUME Elapse PROVE RRTypeOK'
  <2>1. ticks' \in 0 .. MaxTicks
    BY <1>10, RewindRecorderAssumption DEF Elapse, RRTypeOK
  <2> QED BY <1>10, <2>1 DEF Elapse, RRTypeOK, recorder, callback, storage
<1>11. ASSUME UNCHANGED rrvars PROVE RRTypeOK'
  BY <1>11, RewindRecorderAssumption DEF rrvars, RRTypeOK, Snapshots, Continue, recorder,
     callback, storage
<1> QED BY <1>1, <1>2, <1>3, <1>4, <1>5, <1>6, <1>7, <1>8, <1>9, <1>10, <1>11 DEF RRNext

LEMMA HoldingKept ==
  ASSUME RRTypeOK, Holding, [RRNext]_rrvars
  PROVE  Holding'
<1>0. RRTypeOK'
  BY RecorderTyping
<1>1. ASSUME NEW b \in Buffers, Enable(b) PROVE Holding'
  BY <1>1, RewindRecorderAssumption DEF Enable, RRTypeOK, Holding, Continue, recorder, callback,
     storage
<1>2. ASSUME Disable PROVE Holding'
  BY <1>2, RewindRecorderAssumption DEF Disable, RRTypeOK, Holding, Continue, recorder, callback,
     storage
<1>3. ASSUME NEW t \in Threads, ReadBuffer(t) PROVE Holding'
  BY <1>3, RewindRecorderAssumption DEF ReadBuffer, RRTypeOK, Holding, Continue, recorder,
     callback, storage
<1>4. ASSUME NEW t \in Threads, Stamp(t) PROVE Holding'
  <2>1. Nothing \notin Snapshots /\ [time |-> ticks, number |-> events'] \in Snapshots
    BY <1>4, RewindRecorderAssumption DEF Stamp, RRTypeOK, Snapshots
  <2> QED BY <1>4, <2>1 DEF Stamp, RRTypeOK, Holding, Continue, recorder, storage
<1>5. ASSUME NEW t \in Threads, Test(t) PROVE Holding'
  BY <1>5, RewindRecorderAssumption DEF Test, RRTypeOK, Holding, Continue, recorder, callback,
     storage
<1>6. ASSUME NEW t \in Threads, AppendFrame(t) PROVE Holding'
  <2>1. held[t] \in Buffers /\ shot[t] \in Snapshots
    BY <1>6 DEF AppendFrame, RRTypeOK, Holding
  <2>2. \A b \in Buffers : Len(appended[b]) <= Len(appended'[b])
    BY <1>6, <2>1 DEF AppendFrame, RRTypeOK
  <2>3. view' = view /\ (view.from # Nothing => view.from \in Buffers)
    BY <1>6 DEF AppendFrame, RRTypeOK
  <2>4. view.from # Nothing => view.given <= Len(appended'[view.from])
    <3>1. ASSUME view.from # Nothing PROVE view.given <= Len(appended'[view.from])
      <4>1. view.from \in Buffers /\ view.given \in Nat
        BY <3>1 DEF RRTypeOK
      <4>2. Len(appended[view.from]) \in Nat /\ Len(appended'[view.from]) \in Nat
        <5>1. appended[view.from] \in Seq(Snapshots) /\ appended'[view.from] \in Seq(Snapshots)
          BY <1>0, <4>1 DEF RRTypeOK
        <5> QED BY <5>1
      <4> QED BY <2>2, <3>1, <4>1, <4>2 DEF Holding
    <3> QED BY <3>1
  <2> QED BY <1>6, <2>1, <2>3, <2>4 DEF AppendFrame, RRTypeOK, Holding, Continue, callback,
     storage
<1>7. ASSUME NEW t \in Threads, NEW f \in Functions, Dump(t, f) PROVE Holding'
  <2>1. engine \in Buffers /\ dumps' \in Dumps /\ dumps' = dumps + 1 /\ dumps \in Nat
    BY <1>7, RewindRecorderAssumption DEF Dump, RRTypeOK, Dumps
  <2>2. \A u \in Threads : dump'[u] = IF u = t THEN dumps' ELSE dump[u]
    BY <1>7 DEF Dump, RRTypeOK
  <2>3. funcs'[dumps'] = f /\ \A d \in Dumps : d # dumps' => funcs'[d] = funcs[d]
    BY <1>7, <2>1 DEF Dump, RRTypeOK
  <2>4. view'.from \in Buffers /\ view'.given = Len(appended'[view'.from])
    BY <1>7, <2>1 DEF Dump, recorder
  <2>5. Nothing \notin Dumps /\ Nothing \notin Functions
    BY RewindRecorderAssumption
  <2>6. \A u \in Threads : dump[u] # Nothing =>
          dump[u] \in Dumps /\ dump[u] # dumps' /\ dump[u] <= dumps'
    BY <2>1 DEF RRTypeOK, Holding, Dumps
  <2>7. \A u \in Threads : dump'[u] # Nothing => dump'[u] <= dumps' /\ funcs'[dump'[u]] # Nothing
    <3> SUFFICES ASSUME NEW u \in Threads, dump'[u] # Nothing
                 PROVE  dump'[u] <= dumps' /\ funcs'[dump'[u]] # Nothing
      OBVIOUS
    <3>1. CASE u = t
      BY <2>1, <2>2, <2>3, <2>5, <3>1
    <3>2. CASE u # t
      <4>1. dump'[u] = dump[u] /\ funcs[dump[u]] # Nothing
        BY <2>2, <3>2 DEF Holding
      <4> QED BY <2>3, <2>6, <4>1
    <3> QED BY <3>1, <3>2
  <2>8. \A u \in Threads : pc'[u] = IF u = t THEN "open" ELSE pc[u]
    BY <1>7 DEF Dump, Continue, RRTypeOK
  <2>9. view'.from # Nothing => view'.given <= Len(appended'[view'.from])
    BY <2>1, <2>4, <1>0 DEF RRTypeOK
  <2> QED BY <1>7, <2>1, <2>2, <2>5, <2>7, <2>8, <2>9 DEF Dump, Holding, callback
<1>8. ASSUME NEW t \in Threads, OpenFile(t) PROVE Holding'
  <2>1. dump[t] \in Dumps /\ FileName(t) # Nothing
    BY <1>8, NamesFit
  <2>2. names' = [names EXCEPT ![dump[t]] = FileName(t)]
    BY <1>8 DEF OpenFile, FileName
  <2>3. names'[dump[t]] # Nothing /\ \A d \in Dumps : names[d] # Nothing => names'[d] # Nothing
    BY <2>1, <2>2 DEF RRTypeOK
  <2> QED BY <1>8, <2>1, <2>3 DEF OpenFile, RRTypeOK, Holding, Continue, recorder, callback
<1>9. ASSUME NEW t \in Threads, WriteFile(t) PROVE Holding'
  BY <1>9, RewindRecorderAssumption DEF WriteFile, RRTypeOK, Holding, Continue, recorder,
     callback, storage
<1>10. ASSUME Elapse PROVE Holding'
  BY <1>10, RewindRecorderAssumption DEF Elapse, RRTypeOK, Holding, Continue, recorder, callback,
     storage
<1>11. ASSUME UNCHANGED rrvars PROVE Holding'
  BY <1>11, RewindRecorderAssumption DEF rrvars, RRTypeOK, Holding, Continue, recorder, callback,
     storage
<1> QED BY <1>1, <1>2, <1>3, <1>4, <1>5, <1>6, <1>7, <1>8, <1>9, <1>10, <1>11 DEF RRNext

(* Only the callback that holds a buffer's lock changes it. *)
LEMMA Buffered ==
  ASSUME [RRNext]_rrvars
  PROVE  (\E t \in Threads : AppendFrame(t)) \/ (frames' = frames /\ appended' = appended)
BY DEF RRNext, Enable, Disable, ReadBuffer, Stamp, Test, Dump, OpenFile, WriteFile, Elapse,
   rrvars, recorder

LEMMA EndsKept ==
  ASSUME RRTypeOK, Holding, Ends, [RRNext]_rrvars
  PROVE  Ends'
<1>1. ASSUME NEW t \in Threads, AppendFrame(t) PROVE Ends'
  <2>1. held[t] \in Buffers /\ shot[t] \in Snapshots
    BY <1>1 DEF AppendFrame, RRTypeOK, Holding
  <2> DEFINE fr == frames[held[t]]
             al == appended[held[t]]
             s == Append(fr, shot[t])
             u == Append(al, shot[t])
  <2>2. fr \in Seq(Snapshots) /\ al \in Seq(Snapshots) /\ IsEnd(fr, al)
    BY <2>1 DEF RRTypeOK, Ends
  <2>3. /\ frames' = [frames EXCEPT ![held[t]] = LastOf(s, MaxFrames)]
        /\ appended' = [appended EXCEPT ![held[t]] = u]
    BY <1>1, <2>1 DEF AppendFrame, RRTypeOK
  <2>4. \A b \in Buffers : /\ b = held[t] => frames'[b] = LastOf(s, MaxFrames) /\ appended'[b] = u
                           /\ b # held[t] => frames'[b] = frames[b] /\ appended'[b] = appended[b]
    BY <2>1, <2>3 DEF RRTypeOK
  <2> HIDE DEF fr, al
  <2>5. MaxFrames \in Nat \ {0}
    BY RewindRecorderAssumption
  <2>6. s \in Seq(Snapshots) /\ u \in Seq(Snapshots) /\ IsEnd(s, u)
    <3>1. /\ s \in Seq(Snapshots) /\ Len(s) = Len(fr) + 1 /\ Len(fr) \in Nat
          /\ \A n \in 1 .. Len(s) : s[n] = IF n = Len(s) THEN shot[t] ELSE fr[n]
      BY <2>1, <2>2
    <3>2. /\ u \in Seq(Snapshots) /\ Len(u) = Len(al) + 1 /\ Len(al) \in Nat
          /\ \A n \in 1 .. Len(u) : u[n] = IF n = Len(u) THEN shot[t] ELSE al[n]
      BY <2>1, <2>2
    <3> HIDE DEF s, u
    <3>3. Len(s) <= Len(u) /\ (Len(s) < Len(u) => Len(s) >= MaxFrames)
      BY <2>2, <2>5, <3>1, <3>2 DEF IsEnd
    <3>4. ASSUME NEW n \in 1 .. Len(s) PROVE s[n] = u[Len(u) - Len(s) + n]
      <4> DEFINE k == Len(u) - Len(s) + n
      <4>1. k \in 1 .. Len(u) /\ (k = Len(u) <=> n = Len(s)) /\ k = Len(al) - Len(fr) + n
        BY <3>1, <3>2, <3>3
      <4>2. n # Len(s) => n \in 1 .. Len(fr) /\ fr[n] = al[Len(al) - Len(fr) + n]
        BY <2>2, <3>1 DEF IsEnd
      <4> HIDE DEF k
      <4>3. s[n] = u[k]
        BY <3>1, <3>2, <4>1, <4>2
      <4> QED BY <4>3 DEF k
    <3> QED BY <3>1, <3>2, <3>3, <3>4 DEF IsEnd
  <2> HIDE DEF s, u
  <2>7. IsEnd(LastOf(s, MaxFrames), u)
    <3> DEFINE w == LastOf(s, MaxFrames)
    <3>1. /\ w \in Seq(Snapshots) /\ Len(w) = (IF Len(s) > MaxFrames THEN MaxFrames ELSE Len(s))
          /\ \A i \in 1 .. Len(w) : w[i] = s[Len(s) - Len(w) + i]
      BY <2>5, <2>6, LastOfIs
    <3> HIDE DEF w
    <3>2. Len(s) \in Nat /\ Len(u) \in Nat /\ Len(w) \in Nat
      BY <2>6, <3>1
    <3>3. Len(w) <= Len(s) /\ Len(w) <= Len(u) /\ (Len(w) < Len(u) => Len(w) >= MaxFrames)
      BY <2>5, <2>6, <3>1, <3>2 DEF IsEnd
    <3>4. ASSUME NEW i \in 1 .. Len(w) PROVE w[i] = u[Len(u) - Len(w) + i]
      <4>1. w[i] = s[Len(s) - Len(w) + i]
        BY <3>1
      <4>2. Len(s) - Len(w) + i \in 1 .. Len(s)
        BY <3>2, <3>3
      <4>3. Len(u) - Len(s) + (Len(s) - Len(w) + i) = Len(u) - Len(w) + i
        BY <3>2
      <4> QED BY <2>6, <4>1, <4>2, <4>3 DEF IsEnd
    <3> QED BY <3>3, <3>4 DEF IsEnd, w
  <2> QED BY <2>4, <2>7 DEF Ends
<1>2. CASE frames' = frames /\ appended' = appended
  BY <1>2 DEF Ends
<1> QED BY <1>1, <1>2, Buffered

(* A shift that takes S into T: T has as many elements.                     *)
LEMMA OneToOne ==
  ASSUME NEW S, NEW T, IsFiniteSet(T), NEW d \in Int, S \subseteq Int,
         \A x \in S : x + d \in T
  PROVE  IsFiniteSet(S) /\ Cardinality(S) \in Nat /\ Cardinality(T) \in Nat
         /\ Cardinality(S) <= Cardinality(T)
<1> DEFINE m == [x \in S |-> x + d]
<1>1. m \in Injection(S, T)
  BY DEF Injection, IsInjective
<1> HIDE DEF m
<1> QED BY <1>1, FS_Injection, FS_CardinalityType

LEMMA DumpHasNewest ==
  ASSUME RRTypeOK, Holding, Ends, NEW t \in Threads, NEW f \in Functions, Dump(t, f)
  PROVE  DumpIsNewest'
<1> DEFINE fr == frames[engine]
           al == appended[engine]
           Y  == Young(fr, ticks)
<1>1. engine \in Buffers
  BY DEF Dump, RRTypeOK
<1>2. /\ view'.list = {fr[i] : i \in Newest(Y, LastN)} /\ view'.from = engine
      /\ view'.at = ticks /\ view'.given = Len(al) /\ appended' = appended
  BY DEF Dump, recorder
<1>3. fr \in Seq(Snapshots) /\ al \in Seq(Snapshots) /\ IsEnd(fr, al)
  BY <1>1 DEF RRTypeOK, Ends
<1>4. MaxFrames \in Nat \ {0} /\ LastN \in Nat \ {0} /\ MaxAge \in Nat /\ ticks \in Nat
  BY RewindRecorderAssumption DEF RRTypeOK
<1> HIDE DEF fr, al
<1>5. Len(fr) \in Nat /\ Len(al) \in Nat
  BY <1>3
<1>6. ASSUME NEW s \in view'.list PROVE ticks <= s.time + MaxAge
  BY <1>2, <1>6 DEF Newest, Young
<1>7. ASSUME NEW i \in 1 .. Len(al), ticks <= al[i].time + MaxAge, ~(Len(al) - i >= MaxFrames),
             al[i] \notin view'.list
      PROVE  Cardinality({j \in i + 1 .. Len(al) : ticks <= al[j].time + MaxAge}) >= LastN
  <2> DEFINE gone == Len(al) - Len(fr)
             p == i - gone
             S == {q \in Y : p < q}
             T == {j \in i + 1 .. Len(al) : ticks <= al[j].time + MaxAge}
  <2>1. gone \in Nat /\ p \in 1 .. Len(fr) /\ gone + p = i
    BY <1>3, <1>4, <1>5, <1>7 DEF IsEnd
  <2>2. \A q \in 1 .. Len(fr) : fr[q] = al[gone + q]
    BY <1>3 DEF IsEnd
  <2>3. fr[p] = al[i] /\ p \in Y
    BY <1>7, <2>1, <2>2 DEF Young
  <2>4. p \notin Newest(Y, LastN)
    BY <1>2, <1>7, <2>3
  <2>5. ~(Cardinality(S) < LastN)
    BY <2>3, <2>4 DEF Newest
  <2>6. \A q \in S : q \in 1 .. Len(fr) /\ p < q /\ ticks <= fr[q].time + MaxAge
    BY DEF Young
  <2> HIDE DEF Y
  <2>7. \A q \in S : q \in Int /\ q + gone \in T
    <3> SUFFICES ASSUME NEW q \in S PROVE q \in Int /\ q + gone \in T
      OBVIOUS
    <3>1. q \in 1 .. Len(fr) /\ p < q /\ ticks <= fr[q].time + MaxAge /\ fr[q] = al[gone + q]
      BY <2>2, <2>6
    <3>2. q + gone = gone + q /\ q + gone \in i + 1 .. Len(al)
      BY <1>5, <1>7, <2>1, <3>1
    <3> QED BY <3>1, <3>2
  <2>8. IsFiniteSet(T)
    <3>1. IsFiniteSet(1 .. Len(al)) /\ T \in SUBSET (1 .. Len(al))
      BY <1>5, <1>7, FS_Interval
    <3> HIDE DEF T
    <3> QED BY <3>1, FS_Subset
  <2> HIDE DEF S, T, p, gone
  <2>9. Cardinality(S) \in Nat /\ Cardinality(T) \in Nat /\ Cardinality(S) <= Cardinality(T)
    <3>1. gone \in Int /\ S \subseteq Int /\ \A q \in S : q + gone \in T
      BY <2>1, <2>7
    <3> QED BY <2>8, <3>1, OneToOne
  <2>10. Cardinality(T) >= LastN
    BY <1>4, <2>5, <2>9
  <2> QED BY <2>10 DEF T
<1> QED BY <1>2, <1>6, <1>7 DEF DumpIsNewest, al

LEMMA NewestKept ==
  ASSUME RRTypeOK, Holding, Ends, DumpIsNewest, [RRNext]_rrvars
  PROVE  DumpIsNewest'
<1>1. ASSUME NEW t \in Threads, NEW f \in Functions, Dump(t, f) PROVE DumpIsNewest'
  BY <1>1, DumpHasNewest
<1>2. CASE view' = view /\ appended' = appended
  BY <1>2 DEF DumpIsNewest
<1>3. ASSUME NEW t \in Threads, AppendFrame(t) PROVE DumpIsNewest'
  <2> SUFFICES ASSUME view.from # Nothing PROVE DumpIsNewest'
    BY <1>3 DEF DumpIsNewest, AppendFrame
  <2> DEFINE e == view.from
  <2>1. held[t] \in Buffers /\ e \in Buffers /\ view.given \in Nat /\ view.given <= Len(appended[e])
    BY <1>3 DEF AppendFrame, RRTypeOK, Holding
  <2>2. view' = view
    BY <1>3 DEF AppendFrame
  <2>3. appended[e] \in Seq(Snapshots)
    BY <2>1 DEF RRTypeOK
  <2>4. \A i \in 1 .. view.given : appended'[e][i] = appended[e][i]
    <3>1. appended'[e] = IF e = held[t] THEN Append(appended[e], shot[t]) ELSE appended[e]
      BY <1>3, <2>1 DEF AppendFrame, RRTypeOK
    <3>2. \A i \in 1 .. Len(appended[e]) : Append(appended[e], shot[t])[i] = appended[e][i]
      BY <2>3
    <3>3. \A i \in 1 .. view.given : i \in 1 .. Len(appended[e])
      BY <2>1, <2>3
    <3> QED BY <3>1, <3>2, <3>3
  <2>5. ASSUME NEW i \in 1 .. view.given
        PROVE  {j \in i + 1 .. view.given : view.at <= appended'[e][j].time + MaxAge}
                 = {j \in i + 1 .. view.given : view.at <= appended[e][j].time + MaxAge}
    <3>1. \A j \in i + 1 .. view.given : j \in 1 .. view.given
      BY <2>1
    <3> QED BY <2>4, <3>1
  <2> QED BY <2>2, <2>4, <2>5 DEF DumpIsNewest
<1>4. (\E t \in Threads, f \in Functions : Dump(t, f)) \/ view' = view
  BY DEF RRNext, Enable, Disable, ReadBuffer, Stamp, Test, AppendFrame, OpenFile, WriteFile,
     Elapse, rrvars
<1>5. ASSUME NEW t \in Threads, NEW f \in Functions, Dump(t, f) PROVE appended' = appended
  BY <1>5 DEF Dump, recorder
<1> QED BY <1>1, <1>2, <1>3, <1>4, Buffered

----------------------------------------------------------------------------
(* The files.  Sole: no other dump had the name the i-th was opened under. *)

Sole(i)   == \A j \in 1 .. Len(opened) : names[opened[j]] = names[opened[i]] => j = i
Saves(d)  == \E t \in Threads : dump[t] = d

Filed ==
  /\ \A i, j \in 1 .. Len(opened) : opened[i] = opened[j] => i = j
  /\ \A i \in 1 .. Len(opened) :
       /\ opened[i] <= dumps /\ names[opened[i]] \in Names
       /\ funcs[opened[i]] \in Functions /\ names[opened[i]][1] = SafeName[funcs[opened[i]]]
       /\ names[opened[i]][2] <= ticks \div TicksPerSecond
  /\ \A i, j \in 1 .. Len(opened) : i < j => names[opened[i]][2] <= names[opened[j]][2]

Savers ==
  /\ \A t \in Threads : pc[t] = "open" => \A i \in 1 .. Len(opened) : opened[i] # dump[t]
  /\ \A t \in Threads : pc[t] = "write" => \E i \in 1 .. Len(opened) : opened[i] = dump[t]
  /\ \A t, u \in Threads : dump[t] # Nothing /\ dump[t] = dump[u] => t = u

Contents ==
  /\ \A n \in Names : dumpFiles[n] \in Dumps =>
       \E i \in 1 .. Len(opened) : opened[i] = dumpFiles[n] /\ names[opened[i]] = n
  /\ \A i \in 1 .. Len(opened) : Sole(i) =>
       dumpFiles[names[opened[i]]] = IF Saves(opened[i]) THEN Torn ELSE opened[i]

FileInv == RRTypeOK /\ Holding /\ Filed /\ Savers /\ Contents

LEMMA FileInit == RRInit => FileInv
<1> SUFFICES ASSUME RRInit PROVE FileInv
  OBVIOUS
<1>1. RRTypeOK /\ Holding
  BY RingInit DEF RingInv
<1>2. Filed /\ Savers /\ Contents
  BY RewindRecorderAssumption DEF RRInit, Filed, Savers, Contents
<1> QED BY <1>1, <1>2 DEF FileInv

(* The steps that have to do with files. *)
LEMMA Elsewhere ==
  ASSUME RRTypeOK, [RRNext]_rrvars
  PROVE  \/ \E t \in Threads, f \in Functions : Dump(t, f)
         \/ \E t \in Threads : OpenFile(t) \/ WriteFile(t)
         \/ /\ UNCHANGED <<storage, dump, dumps>> /\ (ticks' = ticks \/ ticks' = ticks + 1)
            /\ \A t \in Threads : /\ pc'[t] = "open" <=> pc[t] = "open"
                                  /\ pc'[t] = "write" <=> pc[t] = "write"
BY DEF RRNext, Enable, Disable, ReadBuffer, Stamp, Test, AppendFrame, Elapse, Continue, RRTypeOK,
   rrvars

LEMMA DumpFiled ==
  ASSUME FileInv, RRTypeOK', Holding', NEW t \in Threads, NEW f \in Functions, Dump(t, f)
  PROVE  FileInv'
<1>1. dumps \in Nat /\ dumps' = dumps + 1 /\ dumps' \in Dumps
  BY RewindRecorderAssumption DEF Dump, FileInv, RRTypeOK, Dumps
<1>2. /\ \A u \in Threads : dump'[u] = IF u = t THEN dumps' ELSE dump[u]
      /\ \A u \in Threads : pc'[u] = IF u = t THEN "open" ELSE pc[u]
      /\ \A d \in Dumps : d # dumps' => funcs'[d] = funcs[d]
      /\ UNCHANGED <<ticks, names, dumpFiles, opened>>
  BY <1>1 DEF Dump, Continue, FileInv, RRTypeOK
<1>3. \A i \in 1 .. Len(opened) : opened[i] \in Dumps /\ opened[i] <= dumps /\ opened[i] # dumps'
  <2>1. \A i \in 1 .. Len(opened) : opened[i] \in Dumps
    BY DEF FileInv, RRTypeOK
  <2>2. \A i \in 1 .. Len(opened) : opened[i] <= dumps
    BY DEF FileInv, Filed
  <2> QED BY <1>1, <2>1, <2>2 DEF Dumps
<1>4. \A u \in Threads : dump[u] # Nothing => dump[u] <= dumps /\ dump[u] # dumps' /\ dump[u] \in Dumps
  BY <1>1 DEF FileInv, RRTypeOK, Holding, Dumps
<1>5. Filed'
  <2>1. \A i \in 1 .. Len(opened) : funcs'[opened[i]] = funcs[opened[i]] /\ opened[i] <= dumps'
    BY <1>1, <1>2, <1>3 DEF Dumps
  <2> QED BY <1>2, <2>1 DEF FileInv, Filed
<1>6. Savers'
  BY <1>1, <1>2, <1>3, <1>4 DEF FileInv, Savers
<1>7. dump[t] = Nothing
  BY DEF Dump, FileInv, Holding
<1>8. \A i \in 1 .. Len(opened) : Saves(opened[i])' <=> Saves(opened[i])
  BY <1>2, <1>3, <1>7, RewindRecorderAssumption DEF Saves
<1>9. Contents'
  BY <1>2, <1>8 DEF FileInv, Contents, Sole
<1> QED BY <1>5, <1>6, <1>9 DEF FileInv

LEMMA OpenFiled ==
  ASSUME FileInv, RRTypeOK', Holding', NEW t \in Threads, OpenFile(t)
  PROVE  FileInv'
<1> DEFINE d == dump[t]
           n == FileName(t)
           L == Len(opened)
<1>1. /\ d \in Dumps /\ d <= dumps /\ funcs[d] \in Functions
      /\ n \in Names /\ n[1] = SafeName[funcs[d]] /\ n[2] = ticks \div TicksPerSecond
  BY NamesFit DEF FileInv, OpenFile, Holding, FileName
<1>2. /\ names' = [names EXCEPT ![d] = n] /\ dumpFiles' = [dumpFiles EXCEPT ![n] = Torn]
      /\ opened' = Append(opened, d)
      /\ UNCHANGED <<ticks, dumps, dump, funcs>>
  BY DEF OpenFile, FileName
<1>3. \A u \in Threads : pc'[u] = IF u = t THEN "write" ELSE pc[u]
  BY DEF OpenFile, Continue, FileInv, RRTypeOK
<1>4. L \in Nat /\ Len(opened') = L + 1 /\ opened'[L + 1] = d
      /\ \A i \in 1 .. L : opened'[i] = opened[i] /\ opened[i] \in Dumps /\ opened[i] # d
  <2>1. opened \in Seq(Dumps) /\ \A i \in 1 .. Len(opened) : opened[i] # d
    BY DEF FileInv, RRTypeOK, Savers, OpenFile
  <2> QED BY <1>1, <1>2, <2>1
<1>5. names'[d] = n /\ \A i \in 1 .. L : names'[opened[i]] = names[opened[i]]
  BY <1>1, <1>2, <1>4 DEF FileInv, RRTypeOK
<1> HIDE DEF d, n, L
<1>6. Filed'
  <2>1. \A i \in 1 .. L + 1 : i \in 1 .. L \/ i = L + 1
    BY <1>4
  <2>2. \A i \in 1 .. L : names[opened[i]][2] <= n[2]
    BY <1>1 DEF FileInv, Filed, L
  <2>3. n[2] <= n[2]
    BY <1>1, RewindRecorderAssumption DEF Names
  <2>4. \A i \in 1 .. L + 1 : /\ opened'[i] <= dumps' /\ names'[opened'[i]] \in Names
                              /\ funcs'[opened'[i]] \in Functions
                              /\ names'[opened'[i]][1] = SafeName[funcs'[opened'[i]]]
                              /\ names'[opened'[i]][2] <= n[2]
    BY <1>1, <1>2, <1>4, <1>5, <2>1, <2>2, <2>3 DEF FileInv, Filed, L
  <2>5. \A i, j \in 1 .. L + 1 : opened'[i] = opened'[j] => i = j
    BY <1>4, <2>1 DEF FileInv, Filed, L
  <2>6. \A i, j \in 1 .. L + 1 : i < j => names'[opened'[i]][2] <= names'[opened'[j]][2]
    <3> SUFFICES ASSUME NEW i \in 1 .. L + 1, NEW j \in 1 .. L + 1, i < j
                 PROVE  names'[opened'[i]][2] <= names'[opened'[j]][2]
      OBVIOUS
    <3>1. i \in 1 .. L
      BY <1>4
    <3>2. CASE j \in 1 .. L
      BY <1>4, <1>5, <3>1, <3>2 DEF FileInv, Filed, L
    <3>3. CASE j = L + 1
      BY <1>4, <1>5, <2>2, <3>1, <3>3
    <3> QED BY <2>1, <3>2, <3>3
  <2>7. n[2] = ticks' \div TicksPerSecond
    BY <1>1, <1>2
  <2> QED BY <1>4, <2>4, <2>5, <2>6, <2>7 DEF Filed
<1>7. Savers'
  <2>1. \A u \in Threads : u # t /\ dump[u] # Nothing => dump[u] # d
    BY DEF FileInv, Savers, d
  <2>2. \A u \in Threads : pc[u] \in {"open", "write"} => dump[u] # Nothing
    BY DEF FileInv, Holding
  <2>3. ASSUME NEW u \in Threads, pc'[u] = "open" PROVE \A i \in 1 .. L + 1 : opened'[i] # dump'[u]
    <3>1. u # t /\ pc[u] = "open" /\ dump'[u] = dump[u]
      BY <1>2, <1>3, <2>3
    <3> QED BY <1>4, <2>1, <2>2, <3>1 DEF FileInv, Savers, L
  <2>4. ASSUME NEW u \in Threads, pc'[u] = "write" PROVE \E i \in 1 .. L + 1 : opened'[i] = dump'[u]
    <3>1. CASE u = t
      BY <1>2, <1>4, <3>1 DEF d
    <3>2. CASE u # t
      BY <1>2, <1>3, <1>4, <2>4, <3>2 DEF FileInv, Savers, L
    <3> QED BY <3>1, <3>2
  <2> QED BY <1>2, <1>4, <2>3, <2>4 DEF FileInv, Savers
<1>8. Contents'
  <2>1. Torn \notin Dumps /\ \A m \in Names : dumpFiles'[m] = IF m = n THEN Torn ELSE dumpFiles[m]
    BY <1>1, <1>2, RewindRecorderAssumption DEF FileInv, RRTypeOK
  <2>2. ASSUME NEW m \in Names, dumpFiles'[m] \in Dumps
        PROVE  \E i \in 1 .. L + 1 : opened'[i] = dumpFiles'[m] /\ names'[opened'[i]] = m
    <3>1. dumpFiles'[m] = dumpFiles[m]
      BY <2>1, <2>2
    <3>2. PICK i \in 1 .. L : opened[i] = dumpFiles[m] /\ names[opened[i]] = m
      BY <2>2, <3>1 DEF FileInv, Contents, L
    <3> QED BY <1>4, <1>5, <3>1, <3>2
  <2>3. ASSUME NEW i \in 1 .. L + 1, Sole(i)'
        PROVE  dumpFiles'[names'[opened'[i]]] = IF Saves(opened[i])' THEN Torn ELSE opened'[i]
    <3>1. CASE i = L + 1
      <4>1. Saves(opened[i])'
        BY <1>2, <1>4, <3>1 DEF Saves, d
      <4> QED BY <1>1, <1>4, <1>5, <2>1, <3>1, <4>1
    <3>2. CASE i \in 1 .. L
      <4>1. names[opened[i]] # n
        <5>1. names'[opened'[L + 1]] = n /\ L + 1 # i
          BY <1>4, <1>5, <3>2
        <5> QED BY <1>4, <1>5, <2>3, <3>2, <5>1 DEF Sole
      <4>2. Sole(i)
        BY <1>4, <1>5, <2>3, <3>2 DEF Sole, L
      <4>3. Saves(opened[i])' <=> Saves(opened[i])
        BY <1>2, <1>4, <3>2 DEF Saves
      <4>4. names[opened[i]] \in Names
        BY <3>2 DEF FileInv, Filed, L
      <4> QED BY <1>4, <1>5, <2>1, <3>2, <4>1, <4>2, <4>3, <4>4 DEF FileInv, Contents, L
    <3> QED BY <1>4, <3>1, <3>2
  <2> QED BY <1>4, <2>2, <2>3 DEF Contents
<1> QED BY <1>6, <1>7, <1>8 DEF FileInv

LEMMA WriteFiled ==
  ASSUME FileInv, RRTypeOK', Holding', NEW t \in Threads, WriteFile(t)
  PROVE  FileInv'
<1> DEFINE d == dump[t]
<1>1. PICK w \in {d} \cup (IF Overlaps(t) THEN {Torn} ELSE {}) :
             dumpFiles' = [dumpFiles EXCEPT ![names[d]] = w]
  BY DEF WriteFile
<1>2. d # Nothing /\ d \in Dumps /\ names[d] \in Names
  BY DEF WriteFile, FileInv, RRTypeOK, Holding
<1>3. /\ \A u \in Threads : dump'[u] = IF u = t THEN Nothing ELSE dump[u]
      /\ \A u \in Threads : pc'[u] = IF u = t THEN "idle" ELSE pc[u]
      /\ UNCHANGED <<ticks, dumps, names, funcs, opened>>
  BY DEF WriteFile, Continue, FileInv, RRTypeOK
<1>4. PICK k \in 1 .. Len(opened) : opened[k] = d
  BY DEF WriteFile, FileInv, Savers
<1>5. \A m \in Names : dumpFiles'[m] = IF m = names[d] THEN w ELSE dumpFiles[m]
  BY <1>1, <1>2 DEF FileInv, RRTypeOK
<1>6. w \in {d, Torn} /\ Torn \notin Dumps /\ Nothing \notin Dumps
  BY <1>1, RewindRecorderAssumption
<1>7. \A i \in 1 .. Len(opened) : opened[i] \in Dumps /\ names[opened[i]] \in Names
  <2>1. \A i \in 1 .. Len(opened) : opened[i] \in Dumps
    BY DEF FileInv, RRTypeOK
  <2>2. \A i \in 1 .. Len(opened) : names[opened[i]] \in Names
    BY DEF FileInv, Filed
  <2> QED BY <2>1, <2>2
<1> HIDE DEF d
<1>8. Filed'
  BY <1>3 DEF FileInv, Filed
<1>9. Savers'
  <2>1. \A u \in Threads : pc'[u] \in {"open", "write"} => u # t /\ pc'[u] = pc[u] /\ dump'[u] = dump[u]
    BY <1>3
  <2>2. \A u \in Threads : dump'[u] # Nothing => dump'[u] = dump[u]
    BY <1>3
  <2> QED BY <1>3, <2>1, <2>2 DEF FileInv, Savers
<1>10. ASSUME Sole(k) PROVE ~Overlaps(t)
  <2>1. dumpFiles[names[d]] = Torn
    BY <1>4, <1>10 DEF FileInv, Contents, Saves, d
  <2>2. ASSUME NEW u \in Threads \ {t}, pc[u] = "write", names[dump[u]] = names[d] PROVE FALSE
    <3>1. PICK j \in 1 .. Len(opened) : opened[j] = dump[u]
      BY <2>2 DEF FileInv, Savers
    <3>2. dump[u] = d
      BY <1>4, <1>10, <2>2, <3>1 DEF Sole
    <3> QED BY <1>2, <3>2 DEF FileInv, Savers, d
  <2> QED BY <2>1, <2>2 DEF Overlaps, d
<1>11. Contents'
  <2>1. ASSUME NEW m \in Names, dumpFiles'[m] \in Dumps
        PROVE  \E i \in 1 .. Len(opened) : opened[i] = dumpFiles'[m] /\ names[opened[i]] = m
    <3>1. CASE m = names[d]
      BY <1>4, <1>5, <1>6, <2>1, <3>1
    <3>2. CASE m # names[d]
      BY <1>5, <2>1, <3>2 DEF FileInv, Contents
    <3> QED BY <3>1, <3>2
  <2>2. ASSUME NEW i \in 1 .. Len(opened), Sole(i)
        PROVE  dumpFiles'[names[opened[i]]]
                 = IF \E u \in Threads : dump'[u] = opened[i] THEN Torn ELSE opened[i]
    <3>1. CASE i = k
      <4>1. w = d
        BY <1>1, <1>10, <2>2, <3>1
      <4>2. \A u \in Threads : dump'[u] # d
        BY <1>2, <1>3 DEF FileInv, Savers, d
      <4> QED BY <1>4, <1>5, <1>7, <3>1, <4>1, <4>2
    <3>2. CASE i # k
      <4>1. names[opened[i]] # names[d] /\ opened[i] # d
        BY <1>4, <2>2, <3>2 DEF Sole, FileInv, Filed
      <4>2. (\E u \in Threads : dump'[u] = opened[i]) <=> Saves(opened[i])
        BY <1>3, <1>6, <1>7, <4>1 DEF Saves, d
      <4> QED BY <1>5, <1>7, <2>2, <4>1, <4>2 DEF FileInv, Contents
    <3> QED BY <3>1, <3>2
  <2> QED BY <1>3, <2>1, <2>2 DEF Contents, Sole, Saves
<1> QED BY <1>8, <1>9, <1>11 DEF FileInv

LEMMA FileNext ==
  ASSUME FileInv, [RRNext]_rrvars
  PROVE  FileInv'
<1>1. RRTypeOK' /\ Holding'
  BY RecorderTyping, HoldingKept DEF FileInv
<1>2. ASSUME NEW t \in Threads, NEW f \in Functions, Dump(t, f) PROVE FileInv'
  BY <1>1, <1>2, DumpFiled
<1>3. ASSUME NEW t \in Threads, OpenFile(t) PROVE FileInv'
  BY <1>1, <1>3, OpenFiled
<1>4. ASSUME NEW t \in Threads, WriteFile(t) PROVE FileInv'
  BY <1>1, <1>4, WriteFiled
<1>5. ASSUME UNCHANGED <<storage, dump, dumps>>, ticks' = ticks \/ ticks' = ticks + 1,
             \A t \in Threads : /\ pc'[t] = "open" <=> pc[t] = "open"
                                /\ pc'[t] = "write" <=> pc[t] = "write"
      PROVE  FileInv'
  <2>1. UNCHANGED <<names, dumpFiles, funcs, opened, dump, dumps>>
    BY <1>5 DEF storage
  <2>2. Savers'
    <3>1. Savers
      BY DEF FileInv
    <3> QED BY <1>5, <2>1, <3>1 DEF Savers
  <2>3. Contents'
    <3>1. \A i \in 1 .. Len(opened) : (Sole(i)' <=> Sole(i)) /\ (Saves(opened[i])' <=> Saves(opened[i]))
      BY <2>1 DEF Sole, Saves
    <3> QED BY <2>1, <3>1 DEF FileInv, Contents
  <2>4. ticks \div TicksPerSecond <= ticks' \div TicksPerSecond
    <3>1. ticks \in Nat /\ ticks' \in Nat /\ ticks <= ticks' /\ TicksPerSecond \in Nat \ {0}
      BY <1>5, RewindRecorderAssumption DEF FileInv, RRTypeOK
    <3> QED BY <3>1, Seconds
  <2>5. \A i \in 1 .. Len(opened) : names[opened[i]][2] <= ticks' \div TicksPerSecond
    <3> SUFFICES ASSUME NEW i \in 1 .. Len(opened)
                 PROVE  names[opened[i]][2] <= ticks' \div TicksPerSecond
      OBVIOUS
    <3>1. names[opened[i]][2] \in Nat /\ names[opened[i]][2] <= ticks \div TicksPerSecond
      BY RewindRecorderAssumption DEF FileInv, Filed, Names
    <3>2. ticks \div TicksPerSecond \in Nat /\ ticks' \div TicksPerSecond \in Nat
      <4>1. /\ ticks \in Nat /\ ticks' \in Nat /\ TicksPerSecond \in Nat \ {0}
            /\ ticks <= ticks /\ ticks' <= ticks'
        BY <1>5, RewindRecorderAssumption DEF FileInv, RRTypeOK
      <4> QED BY <4>1, Seconds
    <3> QED BY <2>4, <3>1, <3>2
  <2> QED BY <1>1, <2>1, <2>2, <2>3, <2>5 DEF FileInv, Filed
<1> QED BY <1>2, <1>3, <1>4, <1>5, Elsewhere DEF FileInv

(* The file that load_latest_rewind opens first. *)
LEMMA LatestLoads == FileInv => LoadIsLatest
<1> SUFFICES ASSUME FileInv, NEW f \in Functions, Containing[f] = {f},
                    \A t \in Threads : dump[t] # Nothing => funcs[dump[t]] # f,
                    \A j \in {l \in 1 .. Len(opened) : funcs[opened[l]] = f}, k \in 1 .. Len(opened) :
                      names[opened[j]] = names[opened[k]] => j = k,
                    NEW i \in {l \in 1 .. Len(opened) : funcs[opened[l]] = f},
                    \A j \in {l \in 1 .. Len(opened) : funcs[opened[l]] = f} : j <= i
             PROVE  LoadLatest(f) = opened[i]
  BY DEF LoadIsLatest
<1>0. /\ i \in 1 .. Len(opened) /\ funcs[opened[i]] = f
      /\ \A j \in 1 .. Len(opened) : names[opened[j]] = names[opened[i]] => j = i
      /\ \A j \in 1 .. Len(opened) : funcs[opened[j]] = f => j <= i
  OBVIOUS
<1> DEFINE n == names[opened[i]]
<1>1. opened[i] \in Dumps /\ n \in Names /\ n[1] = SafeName[f] /\ f # Nothing
  BY <1>0, RewindRecorderAssumption DEF FileInv, RRTypeOK, Filed
<1>2. dumpFiles[n] = opened[i]
  <2>1. Sole(i)
    BY <1>0 DEF Sole
  <2>2. ~Saves(opened[i])
    BY <1>1, RewindRecorderAssumption DEF Saves
  <2> QED BY <1>0, <2>1, <2>2 DEF FileInv, Contents
<1>3. n \in Loadable(f)
  BY <1>1, <1>2 DEF Loadable
<1>4. ASSUME NEW m \in Loadable(f) PROVE m \in Names /\ m[1] = SafeName[f] /\ Sorts(m, n)
  <2>1. m \in Names /\ dumpFiles[m] \in Dumps /\ funcs[dumpFiles[m]] = f
    BY <1>1, <1>4 DEF Loadable
  <2>2. PICK j \in 1 .. Len(opened) : opened[j] = dumpFiles[m] /\ names[opened[j]] = m
    BY <2>1 DEF FileInv, Contents
  <2>3. j <= i /\ m[1] = SafeName[f]
    BY <1>0, <2>1, <2>2 DEF FileInv, Filed
  <2>4. m[2] <= n[2]
    <3>1. CASE j < i
      BY <1>0, <2>2, <3>1 DEF FileInv, Filed
    <3>2. CASE j = i
      BY <1>1, <2>2, <3>2, RewindRecorderAssumption DEF Names
    <3> QED BY <2>3, <3>1, <3>2
  <2> QED BY <1>1, <2>1, <2>3, <2>4 DEF Sorts
<1>5. ASSUME NEW m \in Loadable(f), \A k \in Loadable(f) : Sorts(k, m) PROVE m = n
  <2>1. m \in Names /\ m[1] = n[1] /\ Sorts(m, n) /\ Sorts(n, m)
    BY <1>1, <1>3, <1>4, <1>5
  <2>2. SafeName[f] \in Nat /\ m[2] \in Nat /\ n[2] \in Nat
    BY <1>1, <2>1, RewindRecorderAssumption DEF Names
  <2>3. m[2] = n[2]
    BY <1>1, <2>1, <2>2 DEF Sorts
  <2> HIDE DEF n
  <2> QED BY <1>1, <2>1, <2>3 DEF Names
<1> HIDE DEF n
<1>6. n = CHOOSE m \in Loadable(f) : \A k \in Loadable(f) : Sorts(k, m)
  BY <1>3, <1>4, <1>5
<1> QED BY <1>2, <1>3, <1>6 DEF LoadLatest

LEMMA RingInvariance == RRSpec => []RingInv
<1>1. RRSpec => []RingInv
  <2>1. RRInit => RingInv
    BY RingInit
  <2>2. RingInv /\ [RRNext]_rrvars => RingInv'
    BY RecorderTyping, HoldingKept, EndsKept, NewestKept DEF RingInv
  <2> QED BY <2>1, <2>2, PTL DEF RRSpec
<1> QED BY <1>1

(* The recorder's buffers, files and threads have their types, and no       *)
(* buffer has more than max_frames snapshots.                               *)
THEOREM RecorderTypeCorrect == RRSpec => []RRTypeOK
<1>1. RingInv => RRTypeOK
  BY DEF RingInv
<1> QED BY <1>1, RingInvariance, PTL

(* A dump leaves a young snapshot out only for max_frames or last_n newer   *)
(* ones, whatever callbacks run next to it, and shows none that is too old. *)
THEOREM DumpsAreNewest == RRSpec => []DumpIsNewest
<1>1. RingInv => DumpIsNewest
  BY DEF RingInv
<1> QED BY <1>1, RingInvariance, PTL

(* The dump of a function that load_latest_rewind finds is the one whose    *)
(* saving began last, however many threads saved dumps in whatever order    *)
(* and whichever functions have the same safe name, as long as no dump of   *)
(* it had its file name from another.                                       *)
THEOREM LatestIsLoaded == RRSpec => []LoadIsLatest
<1>1. RRSpec => []LoadIsLatest
  <2>1. RRInit => FileInv
    BY FileInit
  <2>2. FileInv /\ [RRNext]_rrvars => FileInv'
    BY FileNext
  <2>3. FileInv => LoadIsLatest
    BY LatestLoads
  <2> QED BY <2>1, <2>2, <2>3, PTL DEF RRSpec
<1> QED BY <1>1
=============================================================================
