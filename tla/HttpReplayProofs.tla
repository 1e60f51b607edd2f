-------------------------- MODULE HttpReplayProofs --------------------------
(***************************************************************************)
(* What HttpReplay promises for any number of threads, endpoints,          *)
(* functions, bugs and requests.                                           *)
(*                                                                         *)
(* Inv is inductive.  Progress counts the executions and status lines a    *)
(* request has behind it at each stage.  Standing says what becomes of the *)
(* guard a request made for its first failure, alone: the function has it, *)
(* a thread about to swap that function's code has it in its own frame,    *)
(* and so the frames of the second execution have it.                      *)
(***************************************************************************)
EXTENDS HttpReplay, TLAPS

(* Executions, status lines and answers at each stage of a request. *)
ProgressOf(t) ==
  /\ stage[t] = "idle" => /\ statuses[t] = 0 /\ answer[t] = None /\ first[t] = None
                          /\ sent[t] = FALSE /\ alone[t] = FALSE
  /\ stage[t] = "running" => runs[t] = 1 /\ statuses[t] = (IF answer[t] = None THEN 0 ELSE 1)
  /\ stage[t] \in {"crashed", "asked"} => runs[t] = 1 /\ statuses[t] <= 1
  /\ stage[t] = "asked" => method[t] \in Replayable
  /\ stage[t] = "replaying" => runs[t] = 2 /\ (answer[t] = None => statuses[t] <= 1)
  /\ stage[t] \in {"failed", "late"} => runs[t] = 2
  /\ stage[t] = "done" => statuses[t] >= 1
  /\ stage[t] \in {"running", "replaying", "crashed", "asked"} =>
       IF sent[t] THEN statuses[t] >= 1 ELSE statuses[t] = 0
  /\ stage[t] # "idle" => runs[t] \in 1 .. 2
  /\ stage[t] # "idle" /\ runs[t] = 2 => method[t] \in Replayable
  /\ stage[t] # "idle" /\ runs[t] = 1 => first[t] = None

Progress == \A t \in Threads : ProgressOf(t)

(* What the trace function is at work on. *)
TracedBug(t) ==
  tracing[t] # "no" => stage[t] \in {"running", "replaying", "asked"} /\ bug[t] \in Bugs

Tracing == \A t \in Threads : TracedBug(t)

(* The bug whose guard the second execution is made for. *)
Hit(t) == IF runs[t] = 2 THEN first[t] ELSE bug[t]

(* The guard is in the function, and stays when u swaps the code. *)
Held(t) ==
  alone[t] /\ stage[t] \in {"running", "crashed", "asked", "replaying"} => Hit(t) \in fixed

KeptBy(t, u) ==
  /\ alone[t] /\ stage[t] \in {"running", "crashed", "asked", "replaying"}
  /\ tracing[u] = "swap" /\ FuncOf[bug[u]] = FuncOf[Hit(t)]
  => Hit(t) \in ran[u]

(* It is in the frames of the second execution, which fails elsewhere. *)
Run(t) == alone[t] /\ stage[t] = "replaying" => first[t] \in ran[t]

Elsewhere(t) ==
  /\ alone[t] /\ first[t] \in Effective
  /\ stage[t] \in {"failed", "late"} \/ (stage[t] = "replaying" /\ tracing[t] # "no")
  => bug[t] # first[t]

Standing ==
  \A t \in Threads :
    /\ Held(t) /\ Run(t) /\ Elsewhere(t)
    /\ \A u \in Threads \ {t} : KeptBy(t, u)

Inv == TypeOK /\ Progress /\ Tracing /\ Standing

----------------------------------------------------------------------------
LEMMA Constants ==
  /\ BugsOf \in [Endpoints -> SUBSET Bugs] /\ Patchable \subseteq Bugs
  /\ FuncOf \in [Bugs -> Funcs] /\ MaxRequests \in Nat
  /\ None \notin Bugs /\ None \notin Endpoints /\ None \notin Methods /\ None # Unknown
BY HttpReplayAssumption

(* An answer is not None. *)
LEMMA AnswersAreRecords == None \notin Answers
BY HttpReplayAssumption

(* What Emit does to the history of a request. *)
LEMMA Emitted ==
  ASSUME TypeOK, NEW t \in Threads, NEW l \in Bugs \cup {None, Unknown}, statuses[t] <= 1, Emit(t, l)
  PROVE  /\ answer' \in [Threads -> Answers \cup {None}] /\ statuses' \in [Threads -> 0 .. 2]
         /\ answer'[t] # None /\ statuses'[t] = statuses[t] + 1
         /\ \A u \in Threads \ {t} : answer'[u] = answer[u] /\ statuses'[u] = statuses[u]
<1> DEFINE a == [label |-> l, patches |-> ran[t] \cap BugsOf[endpoint[t]]]
<1>1. a \in Answers
  BY DEF TypeOK, Answers
<1>2. answer' = [answer EXCEPT ![t] = a] /\ statuses' = [statuses EXCEPT ![t] = statuses[t] + 1]
  BY DEF Emit
<1> HIDE DEF a
<1> QED BY <1>1, <1>2, AnswersAreRecords DEF TypeOK

----------------------------------------------------------------------------
(* A step keeps the types.                                                 *)
LEMMA Typing == Inv /\ [Next]_vars => TypeOK'
<1> SUFFICES ASSUME Inv, [Next]_vars PROVE TypeOK'
  OBVIOUS
<1> USE DEF Inv, TypeOK
<1> USE DEF Goto, shared, request, history
<1>1. CASE UNCHANGED vars
  BY <1>1 DEF vars
<1>2. ASSUME NEW t \in Threads, NEW m \in Methods, NEW e \in Endpoints, Receive(t, m, e) PROVE TypeOK'
  BY <1>2, Constants DEF Receive
<1>3. ASSUME NEW t \in Threads, SendResponse(t) PROVE TypeOK'
  BY <1>3, Constants, Emitted DEF SendResponse, Runs, Progress, ProgressOf
<1>4. ASSUME NEW t \in Threads, NEW f \in Funcs, Call(t, f) PROVE TypeOK'
  BY <1>4, Constants DEF Call
<1>5. ASSUME NEW t \in Threads, NEW b \in Bugs, Raise(t, b) PROVE TypeOK'
  BY <1>5, Constants DEF Raise, Runs, Unwind
<1>6. ASSUME NEW t \in Threads, Find(t) PROVE TypeOK'
  BY <1>6, Constants DEF Find, Return, Unwind
<1>7. ASSUME NEW t \in Threads, Swap(t) PROVE TypeOK'
  <2>1. bug[t] \in Bugs
    BY <1>7 DEF Swap, Tracing, TracedBug
  <2>2. fixed' \subseteq Bugs
    BY <1>7, <2>1 DEF Swap, In
  <2>3. alone' \in [Threads -> BOOLEAN]
    BY <1>7 DEF Swap
  <2> QED BY <1>7, <2>2, <2>3 DEF Swap
<1>8. ASSUME NEW t \in Threads, Arm(t) PROVE TypeOK'
  BY <1>8, Constants DEF Arm, Return, Unwind
<1>9. ASSUME NEW t \in Threads, Finish(t) PROVE TypeOK'
  BY <1>9, Constants, Emitted DEF Finish, Runs, Progress, ProgressOf
<1>10. ASSUME NEW t \in Threads, DegradeMutating(t) PROVE TypeOK'
  BY <1>10, Constants, Emitted DEF DegradeMutating, Progress, ProgressOf
<1>11. ASSUME NEW t \in Threads, Ask(t) PROVE TypeOK'
  BY <1>11, Constants DEF Ask
<1>12. ASSUME NEW t \in Threads, DegradeUnpatched(t) PROVE TypeOK'
  BY <1>12, Constants, Emitted DEF DegradeUnpatched, Progress, ProgressOf
<1>13. ASSUME NEW t \in Threads, Replay(t) PROVE TypeOK'
  BY <1>13, Constants DEF Replay, Progress, ProgressOf
<1>14. ASSUME NEW t \in Threads, EndRequest(t) PROVE TypeOK'
  BY <1>14, Constants DEF EndRequest
<1> QED BY <1>1, <1>2, <1>3, <1>4, <1>5, <1>6, <1>7, <1>8, <1>9, <1>10, <1>11, <1>12, <1>13,
          <1>14 DEF Next

----------------------------------------------------------------------------
(* A step keeps the count of executions and status lines.                  *)
LEMMA ProgressKept == Inv /\ [Next]_vars => Progress' /\ Tracing'
<1> SUFFICES ASSUME Inv, [Next]_vars PROVE Progress' /\ Tracing'
  OBVIOUS
<1> USE DEF Inv, TypeOK, Progress, ProgressOf, Tracing, TracedBug
<1> USE DEF Goto, shared, request, history
<1>1. CASE UNCHANGED vars
  BY <1>1 DEF vars
<1>2. ASSUME NEW t \in Threads, NEW m \in Methods, NEW e \in Endpoints, Receive(t, m, e)
      PROVE Progress' /\ Tracing'
  BY <1>2, Constants DEF Receive
<1>3. ASSUME NEW t \in Threads, SendResponse(t) PROVE Progress' /\ Tracing'
  BY <1>3, Constants, Emitted DEF SendResponse, Runs
<1>4. ASSUME NEW t \in Threads, NEW f \in Funcs, Call(t, f) PROVE Progress' /\ Tracing'
  BY <1>4, Constants DEF Call
<1>5. ASSUME NEW t \in Threads, NEW b \in Bugs, Raise(t, b) PROVE Progress' /\ Tracing'
  BY <1>5, Constants DEF Raise, Runs, Unwind
<1>6. ASSUME NEW t \in Threads, Find(t) PROVE Progress' /\ Tracing'
  BY <1>6, Constants DEF Find, Return, Unwind
<1>7. ASSUME NEW t \in Threads, Swap(t) PROVE Progress' /\ Tracing'
  BY <1>7 DEF Swap
<1>8. ASSUME NEW t \in Threads, Arm(t) PROVE Progress' /\ Tracing'
  BY <1>8, Constants DEF Arm, Return, Unwind
<1>9. ASSUME NEW t \in Threads, Finish(t) PROVE Progress' /\ Tracing'
  BY <1>9, Constants, Emitted DEF Finish, Runs
<1>10. ASSUME NEW t \in Threads, DegradeMutating(t) PROVE Progress' /\ Tracing'
  BY <1>10, Constants, Emitted DEF DegradeMutating
<1>11. ASSUME NEW t \in Threads, Ask(t) PROVE Progress' /\ Tracing'
  BY <1>11, Constants DEF Ask
<1>12. ASSUME NEW t \in Threads, DegradeUnpatched(t) PROVE Progress' /\ Tracing'
  BY <1>12, Constants, Emitted DEF DegradeUnpatched
<1>13. ASSUME NEW t \in Threads, Replay(t) PROVE Progress' /\ Tracing'
  BY <1>13, Constants DEF Replay
<1>14. ASSUME NEW t \in Threads, EndRequest(t) PROVE Progress' /\ Tracing'
  BY <1>14, Constants DEF EndRequest
<1> QED BY <1>1, <1>2, <1>3, <1>4, <1>5, <1>6, <1>7, <1>8, <1>9, <1>10, <1>11, <1>12, <1>13,
          <1>14 DEF Next

----------------------------------------------------------------------------
(* A step keeps what is known of a guard a request made alone.             *)
LEMMA StandingKept == Inv /\ [Next]_vars => Standing'
<1> SUFFICES ASSUME Inv, [Next]_vars PROVE Standing'
  OBVIOUS
<1> USE DEF Inv, TypeOK, Standing, Held, KeptBy, Run, Elsewhere, Hit
<1> USE DEF Goto, shared, request, history
<1>1. CASE UNCHANGED vars
  BY <1>1 DEF vars
<1>2. ASSUME NEW t \in Threads, NEW m \in Methods, NEW e \in Endpoints, Receive(t, m, e) PROVE Standing'
  BY <1>2, Constants DEF Receive, Progress, ProgressOf
<1>3. ASSUME NEW t \in Threads, SendResponse(t) PROVE Standing'
  BY <1>3 DEF SendResponse
<1>4. ASSUME NEW t \in Threads, NEW f \in Funcs, Call(t, f) PROVE Standing'
  BY <1>4, Constants DEF Call, Runs, Progress, ProgressOf
<1>5. ASSUME NEW t \in Threads, NEW b \in Bugs, Raise(t, b) PROVE Standing'
  BY <1>5, Constants DEF Raise, Runs, Unwind, Progress, ProgressOf
<1>6. ASSUME NEW t \in Threads, Find(t) PROVE Standing'
  BY <1>6, Constants DEF Find, Return, Unwind, In, Tracing, TracedBug
<1>7. ASSUME NEW t \in Threads, Swap(t) PROVE Standing'
  BY <1>7, Constants DEF Swap, In, Tracing, TracedBug, Progress, ProgressOf
<1>8. ASSUME NEW t \in Threads, Arm(t) PROVE Standing'
  BY <1>8, Constants DEF Arm, Return, Unwind, Tracing, TracedBug
<1>9. ASSUME NEW t \in Threads, Finish(t) PROVE Standing'
  BY <1>9 DEF Finish
<1>10. ASSUME NEW t \in Threads, DegradeMutating(t) PROVE Standing'
  BY <1>10 DEF DegradeMutating
<1>11. ASSUME NEW t \in Threads, Ask(t) PROVE Standing'
  BY <1>11 DEF Ask
<1>12. ASSUME NEW t \in Threads, DegradeUnpatched(t) PROVE Standing'
  BY <1>12 DEF DegradeUnpatched
<1>13. ASSUME NEW t \in Threads, Replay(t) PROVE Standing'
  BY <1>13, Constants DEF Replay, Progress, ProgressOf
<1>14. ASSUME NEW t \in Threads, EndRequest(t) PROVE Standing'
  BY <1>14, Constants DEF EndRequest, Tracing, TracedBug
<1> QED BY <1>1, <1>2, <1>3, <1>4, <1>5, <1>6, <1>7, <1>8, <1>9, <1>10, <1>11, <1>12, <1>13,
          <1>14 DEF Next

----------------------------------------------------------------------------
(* The theorems.                                                           *)

LEMMA Invariance == Spec => []Inv
<1>1. Init => Inv
  BY Constants DEF Init, Inv, TypeOK, Progress, ProgressOf, Tracing, TracedBug, Standing, Held,
                   KeptBy, Run, Elsewhere
<1>2. Inv /\ [Next]_vars => Inv'
  BY Typing, ProgressKept, StandingKept DEF Inv
<1> QED BY <1>1, <1>2, PTL DEF Spec

(* Types, and with them that no handler runs a third time and no request   *)
(* gets a third status line.                                               *)
THEOREM TypeCorrect == Spec => []TypeOK
<1>1. Inv => TypeOK
  BY DEF Inv
<1> QED BY <1>1, Invariance, PTL

(* "Mutating requests are never replayed", for any number of requests on   *)
(* any threads, traced or not.                                             *)
THEOREM MutatingRunsOnce == Spec => []MutatingOnce
<1>1. Inv => MutatingOnce
  BY DEF Inv, TypeOK, Progress, ProgressOf, MutatingOnce, Mutating, Replayable
<1> QED BY <1>1, Invariance, PTL

(* A request whose handling ends without an exception of the second        *)
(* execution was answered.                                                 *)
THEOREM EveryEndAnswered == Spec => []Answered
<1>1. Inv => Answered
  BY DEF Inv, Progress, ProgressOf, Answered
<1> QED BY <1>1, Invariance, PTL

(* The second execution does not fail at the bug the first one failed at   *)
(* when this request made the guard for it, with no other thread in the    *)
(* middle of a patch of the function, and the guard is one that works.     *)
THEOREM ReplayHasThePatch == Spec => []ReplayGetsFurther
<1>1. Inv => ReplayGetsFurther
  BY DEF Inv, Standing, Elsewhere, ReplayGetsFurther
<1> QED BY <1>1, Invariance, PTL
=============================================================================
