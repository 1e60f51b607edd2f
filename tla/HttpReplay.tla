----------------------------- MODULE HttpReplay -----------------------------
(***************************************************************************)
(* Recovery of HTTP requests by the handle_one_request that the tracer     *)
(* installs in http.server (codesuture/tracer.py, from                     *)
(* _install_http_transaction_replay on): a crashed handler is answered     *)
(* with a degraded response, or run once more when the engine has patched  *)
(* it.                                                                     *)
(*                                                                         *)
(* A bug is a place in a function, on the way of some endpoints, that      *)
(* raises.  The engine, seen from here, looks for the function a frame     *)
(* belongs to, swaps in the frame's code with one guard more (PatchEngine  *)
(* has the details) and then arms a replay on the thread.  A code object   *)
(* is the set of bugs it has guards for.  The flag http_replay_ready, with *)
(* http_replay_exc_id, is armed[t]; the class attribute _codesuture_patch  *)
(* is label.  Requests that are refused before they reach a handler leave  *)
(* no trace and are left out, and so are rollbacks.                        *)
(***************************************************************************)
EXTENDS Naturals

CONSTANTS
  Threads,
  Traced,           (* threads the tracer was installed on                 *)
  Pooled,           (* threads serve one connection after the other;       *)
                    (* otherwise each connection has a thread of its own   *)
  Endpoints, Bugs,
  BugsOf,           (* the bugs a handler of an endpoint can run into      *)
  Funcs, FuncOf,    (* functions; the one a bug is in                      *)
  Patchable,        (* bugs the engine finds a guard for                   *)
  Effective,        (* bugs whose guard stops them                         *)
  Timeouts,         (* bugs that raise a TimeoutError                      *)
  Caught,           (* bugs whose exception the application handles itself *)
  Methods,
  None, Unknown,    (* Unknown: "unknown" in the place of a patch          *)
  MaxRequests       (* bound                                               *)

Answers == [label : Bugs \cup {None, Unknown}, patches : SUBSET Bugs]

ASSUME HttpReplayAssumption ==
  /\ Traced \subseteq Threads /\ Pooled \in BOOLEAN
  /\ BugsOf \in [Endpoints -> SUBSET Bugs]
  /\ FuncOf \in [Bugs -> Funcs]
  /\ Patchable \subseteq Bugs /\ Caught \subseteq Bugs
  /\ MaxRequests \in Nat
  /\ None \notin Bugs \cup Endpoints \cup Methods \cup {Unknown} \cup Answers

VARIABLES
  stage,            (* of the request on a thread                          *)
  tracing,          (* what the trace function still has to do about bug   *)
  method, endpoint, (* the request                                         *)
  bug,              (* the bug whose exception was raised last             *)
  sent,             (* sent_response                                       *)
  armed,            (* the bug http_replay_ready was set for, or None      *)
  fixed,            (* bugs with a guard in the code of their function     *)
  label,            (* the bug in the handler class's _codesuture_patch    *)
  requests,         (* counter                                             *)
  ran,              (* bugs with a guard in the frames of a handler        *)
  first,            (* history: the bug that ended its first execution     *)
  alone,            (* history: that bug's function was patched by the     *)
                    (* thread itself, nobody else in the middle of it      *)
  runs, statuses,   (* history: executions and status lines of a request   *)
  answer            (* history: the answer of this execution: the patch    *)
                    (* its header names, the patches the handler ran with  *)

shared  == <<fixed, label>>
request == <<method, endpoint, requests>>
history == <<first, runs>>
vars    == <<stage, tracing, request, bug, sent, armed, shared, ran, alone, history,
             statuses, answer>>

(* Variant of the definition below, with a mistake in it. *)
ReplayableButPost == Methods \ {"POST"}

Replayable == {"GET", "HEAD", "OPTIONS"}

TypeOK ==
  /\ stage \in [Threads -> {"idle", "running", "replaying", "crashed", "asked", "failed",
                         "late", "done"}]
  /\ tracing \in [Threads -> {"no", "find", "swap", "arm"}]
  /\ method \in [Threads -> Methods \cup {None}]
  /\ endpoint \in [Threads -> Endpoints \cup {None}]
  /\ {bug, armed, first} \subseteq [Threads -> Bugs \cup {None}]
  /\ sent \in [Threads -> BOOLEAN] /\ alone \in [Threads -> BOOLEAN]
  /\ fixed \in SUBSET Bugs /\ label \in Bugs \cup {None}
  /\ requests \in 0 .. MaxRequests
  /\ ran \in [Threads -> SUBSET Bugs]
  /\ runs \in [Threads -> 0 .. 2]
  /\ statuses \in [Threads -> 0 .. 2]
  /\ answer \in [Threads -> Answers \cup {None}]

Init ==
  /\ stage = [t \in Threads |-> "idle"] /\ tracing = [t \in Threads |-> "no"]
  /\ method = [t \in Threads |-> None] /\ endpoint = [t \in Threads |-> None]
  /\ bug = [t \in Threads |-> None] /\ armed = [t \in Threads |-> None]
  /\ first = [t \in Threads |-> None]
  /\ sent = [t \in Threads |-> FALSE] /\ alone = [t \in Threads |-> FALSE]
  /\ fixed = {} /\ label = None /\ requests = 0
  /\ ran = [t \in Threads |-> {}]
  /\ runs = [t \in Threads |-> 0] /\ statuses = [t \in Threads |-> 0]
  /\ answer = [t \in Threads |-> None]

----------------------------------------------------------------------------
(* The handler method.                                                     *)

Goto(t, s) == stage' = [stage EXCEPT ![t] = s]
Runs(t)    == stage[t] \in {"running", "replaying"} /\ tracing[t] = "no"

Receive(t, m, e) ==
  /\ stage[t] = "idle" /\ requests < MaxRequests
  /\ requests' = requests + 1
  /\ method' = [method EXCEPT ![t] = m] /\ endpoint' = [endpoint EXCEPT ![t] = e]
  /\ ran' = [ran EXCEPT ![t] = fixed]
  /\ runs' = [runs EXCEPT ![t] = 1]
  /\ Goto(t, "running")
  /\ UNCHANGED <<tracing, bug, sent, armed, shared, alone, first, statuses, answer>>

(* The handler calls a function: a new frame, of the code it has now. *)
Call(t, f) ==
  /\ Runs(t)
  /\ ran' = [ran EXCEPT ![t] = {b \in Bugs : b \in IF FuncOf[b] = f THEN fixed ELSE @}]
  /\ UNCHANGED <<stage, tracing, request, bug, sent, armed, shared, alone, history,
                 statuses, answer>>

(* A status line and its headers go out; X-CodeSuture is among them when   *)
(* the handler's class has a patch.                                        *)
Emit(t, l) ==
  /\ statuses' = [statuses EXCEPT ![t] = @ + 1]
  /\ answer' = [answer EXCEPT ![t] = [label |-> l, patches |-> ran[t] \cap BugsOf[endpoint[t]]]]

(* send_response and end_headers, once per execution of a handler. *)
SendResponse(t) ==
  /\ Runs(t) /\ answer[t] = None
  /\ sent' = [sent EXCEPT ![t] = TRUE]
  /\ Emit(t, label)
  /\ UNCHANGED <<stage, tracing, request, bug, armed, shared, ran, alone, history>>

(* Variant of the definition below, with a mistake in it. *)
UnwindAsFirst(t, b) ==
  IF b \in Caught THEN UNCHANGED stage ELSE Goto(t, "crashed")

(* The exception of b unwinds the handler unless the application catches   *)
(* it.  In the second execution only the clause for TimeoutError is left   *)
(* to catch it.                                                            *)
Unwind(t, b) ==
  IF b \in Caught THEN UNCHANGED stage
  ELSE Goto(t, IF stage[t] = "running" THEN "crashed"
               ELSE IF b \in Timeouts THEN "late" ELSE "failed")

Raise(t, b) ==
  /\ Runs(t) /\ b \in BugsOf[endpoint[t]] \ (ran[t] \cap Effective)
  /\ bug' = [bug EXCEPT ![t] = b]
  /\ alone' = IF stage[t] = "running" THEN [alone EXCEPT ![t] = FALSE] ELSE alone
  /\ IF t \in Traced /\ b \in Patchable
     THEN tracing' = [tracing EXCEPT ![t] = "find"] /\ UNCHANGED stage
     ELSE Unwind(t, b) /\ UNCHANGED tracing
  /\ UNCHANGED <<request, sent, armed, shared, ran, history, statuses, answer>>

----------------------------------------------------------------------------
(* The engine, called by the trace function or by handle_one_request, in   *)
(* the middle of the exception or after it.                                *)

In(f, bugs) == {b \in bugs : FuncOf[b] = f}

Return(t) ==
  /\ tracing' = [tracing EXCEPT ![t] = "no"]
  /\ IF stage[t] = "asked" THEN UNCHANGED stage ELSE Unwind(t, bug[t])

(* Variant of the definition below, with a mistake in it. *)
FindByName(t) ==
  /\ tracing[t] = "find"
  /\ tracing' = [tracing EXCEPT ![t] = "swap"] /\ UNCHANGED stage
  /\ UNCHANGED <<request, bug, sent, armed, shared, ran, alone, history, statuses, answer>>

(* get_function_from_frame takes a function whose code is the frame's; the *)
(* patch fails when there is none any more, and for reasons of its own.    *)
Find(t) ==
  LET f == FuncOf[bug[t]] IN
  /\ tracing[t] = "find"
  /\ \/ /\ In(f, fixed) = In(f, ran[t])
        /\ tracing' = [tracing EXCEPT ![t] = "swap"] /\ UNCHANGED stage
     \/ Return(t)
  /\ UNCHANGED <<request, bug, sent, armed, shared, ran, alone, history, statuses, answer>>

(* The function gets the frame's code and one guard more. *)
Swap(t) ==
  LET f == FuncOf[bug[t]] IN
  /\ tracing[t] = "swap"
  /\ fixed' = (fixed \ In(f, fixed)) \cup In(f, ran[t]) \cup {bug[t]}
  /\ tracing' = [tracing EXCEPT ![t] = "arm"]
  /\ alone' = IF stage[t] = "replaying" THEN alone
              ELSE [alone EXCEPT ![t] = \A u \in Threads \ {t} :
                                          tracing[u] = "swap" => FuncOf[bug[u]] # f]
  /\ UNCHANGED <<stage, request, bug, sent, armed, label, ran, history, statuses, answer>>

(* _arm_http_transaction_replay; only then does the exception go on. *)
Arm(t) ==
  /\ tracing[t] = "arm"
  /\ armed' = [armed EXCEPT ![t] = bug[t]]
  /\ label' = bug[t]
  /\ Return(t)
  /\ UNCHANGED <<request, bug, sent, fixed, ran, alone, history, statuses, answer>>

----------------------------------------------------------------------------
(* handle_one_request, after the handler.                                  *)

(* Variant of the definition below, with a mistake in it. *)
FinishSilently(t) ==
  /\ Runs(t) /\ Goto(t, "done")
  /\ UNCHANGED <<tracing, request, bug, sent, armed, shared, ran, alone, history, statuses, answer>>

(* The handler returned; a request it did not answer gets the degraded     *)
(* response, whose X-CodeSuture header is always there.                    *)
Finish(t) ==
  /\ Runs(t)
  /\ IF sent[t] THEN UNCHANGED <<statuses, answer>> ELSE Emit(t, IF label = None THEN Unknown ELSE label)
  /\ Goto(t, "done")
  /\ UNCHANGED <<tracing, request, bug, sent, armed, shared, ran, alone, history>>

(* A handler of a mutating method crashed: answered, never run again. *)
DegradeMutating(t) ==
  /\ stage[t] = "crashed" /\ method[t] \notin Replayable
  /\ Emit(t, bug[t]) /\ Goto(t, "done")
  /\ UNCHANGED <<tracing, request, bug, sent, armed, shared, ran, alone, history>>

(* _handle_http_transaction_exception gives the engine the exception once  *)
(* more when there is no flag, as on a thread that is not traced.          *)
Ask(t) ==
  /\ stage[t] = "crashed" /\ method[t] \in Replayable /\ armed[t] = None
  /\ Goto(t, "asked")
  /\ tracing' = [tracing EXCEPT ![t] = IF bug[t] \in Patchable THEN "find" ELSE "no"]
  /\ UNCHANGED <<request, bug, sent, armed, shared, ran, alone, history, statuses, answer>>

DegradeUnpatched(t) ==
  /\ stage[t] = "asked" /\ tracing[t] = "no" /\ armed[t] = None
  /\ Emit(t, bug[t]) /\ Goto(t, "done")
  /\ UNCHANGED <<tracing, request, bug, sent, armed, shared, ran, alone, history>>

Replay(t) ==
  /\ stage[t] \in {"crashed", "asked"} /\ tracing[t] = "no"
  /\ method[t] \in Replayable /\ armed[t] # None
  /\ armed' = [armed EXCEPT ![t] = None]
  /\ first' = [first EXCEPT ![t] = bug[t]]
  /\ runs' = [runs EXCEPT ![t] = @ + 1]
  /\ ran' = [ran EXCEPT ![t] = fixed]
  /\ answer' = [answer EXCEPT ![t] = None]
  /\ Goto(t, "replaying")
  /\ UNCHANGED <<tracing, request, bug, sent, shared, alone, statuses>>

(* The connection goes on, or is over; an exception of the second          *)
(* execution always ends it, leaving handle_one_request or, a              *)
(* TimeoutError, by close_connection.  A thread that is not pooled goes    *)
(* with its connection; the variables of the request go in any case.       *)
EndRequest(t) ==
  /\ stage[t] \in {"done", "failed", "late"}
  /\ \/ (Pooled \/ stage[t] = "done") /\ UNCHANGED armed
     \/ ~Pooled /\ armed' = [armed EXCEPT ![t] = None]
  /\ Goto(t, "idle")
  /\ method' = [method EXCEPT ![t] = None] /\ endpoint' = [endpoint EXCEPT ![t] = None]
  /\ bug' = [bug EXCEPT ![t] = None] /\ first' = [first EXCEPT ![t] = None]
  /\ sent' = [sent EXCEPT ![t] = FALSE] /\ alone' = [alone EXCEPT ![t] = FALSE]
  /\ ran' = [ran EXCEPT ![t] = {}]
  /\ runs' = [runs EXCEPT ![t] = 0] /\ statuses' = [statuses EXCEPT ![t] = 0]
  /\ answer' = [answer EXCEPT ![t] = None]
  /\ UNCHANGED <<tracing, requests, shared>>

Next ==
  \E t \in Threads :
    \/ \E m \in Methods, e \in Endpoints : Receive(t, m, e)
    \/ SendResponse(t)
    \/ \E f \in Funcs : Call(t, f)
    \/ \E b \in Bugs : Raise(t, b)
    \/ Find(t) \/ Swap(t) \/ Arm(t)
    \/ Finish(t) \/ DegradeMutating(t) \/ Ask(t) \/ DegradeUnpatched(t) \/ Replay(t)
    \/ EndRequest(t)

Spec == Init /\ [][Next]_vars

----------------------------------------------------------------------------
(* Properties that hold.                                                   *)

Mutating == {"POST", "PUT", "PATCH", "DELETE"}

(* "Mutating requests are never replayed": whatever flag an earlier        *)
(* request left on the thread, a mutating handler runs once.               *)
MutatingOnce ==
  \A t \in Threads :
    stage[t] # "idle" /\ method[t] \in Mutating => runs[t] = 1 /\ first[t] = None

(* A request whose handling ends without an exception of the second        *)
(* execution has been answered, by the handler or for it.                  *)
Answered == \A t \in Threads : stage[t] = "done" => statuses[t] >= 1

(* The patch is in place before the handler runs again, and stays: when    *)
(* the second execution fails as well, it fails at another bug, unless the *)
(* guard for the first does not stop it, or was not made by this request,  *)
(* or another thread was between finding and patching the function then.   *)
ReplayGetsFurther ==
  \A t \in Threads :
    stage[t] \in {"failed", "late"} /\ alone[t] /\ first[t] \in Effective => bug[t] # first[t]

(* Properties that do not hold.                                            *)

(* "GET and HEAD are replayed in-place after patching": what ended the     *)
(* first execution was patched before the second.                          *)
ReplayAfterPatch ==
  \A t \in Threads : stage[t] = "replaying" => first[t] \in fixed

(* A request gets one status line. *)
OneStatus == \A t \in Threads : stage[t] # "idle" => statuses[t] <= 1

(* "The client gets a response instead of a socket close". *)
NoSocketClose == \A t \in Threads : stage[t] = "failed" => statuses[t] >= 1

(* The same of a handle_one_request that returns normally. *)
ReturnsAnswered ==
  \A t \in Threads : stage[t] \in {"done", "late"} => statuses[t] >= 1

(* ReplayGetsFurther whatever other threads do: another swap takes the     *)
(* guard away before the handler runs again.                               *)
GuardStays ==
  \A t \in Threads :
    stage[t] \in {"failed", "late"} /\ first[t] \in Patchable \cap Effective => bug[t] # first[t]

(* "Every patched response carries the X-CodeSuture header".               *)
PatchedIsLabelled ==
  \A t \in Threads :
    answer[t] # None /\ answer[t].patches # {} => answer[t].label # None

(* The client "is never lied to": the header names a patch there is.       *)
HonestLabel ==
  \A t \in Threads :
    answer[t] # None /\ answer[t].label # None => answer[t].label \in fixed
=============================================================================
