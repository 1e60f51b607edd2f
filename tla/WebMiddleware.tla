---------------------------- MODULE WebMiddleware ----------------------------
(***************************************************************************)
(* The middleware of codesuture/middleware.py (WSGI, its requests on the   *)
(* threads of a server) and codesuture/middleware_asgi.py (ASGI, in the    *)
(* tasks of one event loop): when the application raises, the crashed      *)
(* function gets a guarded code object and the application is called once  *)
(* more with the same request.  A process has one of the two.              *)
(*                                                                         *)
(* An endpoint is one handler function.  A code object is the number it    *)
(* was made as, its identity, with the bugs it has guards for.  A thread   *)
(* can be interrupted anywhere; a task gives the event loop to others only *)
(* where it awaits, so what the ASGI middleware does between a crash and   *)
(* its next await is one action.                                           *)
(*                                                                         *)
(* Tracebacks, the logged incident, headers and bodies are left out, and   *)
(* so are scopes other than http, which go straight to the application.    *)
(***************************************************************************)
EXTENDS Naturals, FiniteSets

CONSTANTS
  Workers,          (* threads or tasks that serve requests                *)
  Endpoints,
  Mutating,         (* endpoints of mutating methods                       *)
  Bugs, BugsOf,     (* the bugs in the function of an endpoint             *)
  Sites, SiteOf,    (* exc_id: exception type, file, function and line     *)
  Patchable,        (* bugs analyze_exception finds a guard for            *)
  MaxRequests,      (* bound                                               *)
  None

CodeObjects == [made : 0 .. MaxRequests, guards : SUBSET Bugs]
Source      == [made |-> 0, guards |-> {}]

ASSUME WebMiddlewareAssumption ==
  /\ Mutating \subseteq Endpoints
  /\ BugsOf \in [Endpoints -> SUBSET Bugs]
  /\ \A d, e \in Endpoints : d # e => BugsOf[d] \cap BugsOf[e] = {}
  /\ IsFiniteSet(Bugs) /\ SiteOf \in [Bugs -> Sites] /\ Patchable \subseteq Bugs
  /\ MaxRequests \in Nat
  /\ None \notin Workers \cup Endpoints \cup Bugs

VARIABLES
  server,           (* "wsgi" or "asgi"                                    *)
  stage, endpoint,  (* of the request a worker serves                      *)
  ran, bug,         (* its frame's code; the bug that ended its first call *)
  said,             (* this call of the application started a response     *)
  started,          (* responses started on the connection                 *)
  code, made,       (* func.__code__ of each endpoint; code objects made   *)
  seen,             (* _retried_exc_ids, _patched_ids                      *)
  lock,             (* the task that holds the ASGI middleware's _lock     *)
  stalled,          (* the task that blocks the event loop, waiting for it *)
  requests          (* counter                                             *)

locals   == <<endpoint, ran, bug>>
response == <<said, started>>
heap     == <<code, made>>
loop     == <<lock, stalled>>
vars     == <<server, stage, locals, response, heap, seen, loop, requests>>

TypeOK ==
  /\ server \in {"wsgi", "asgi"}
  /\ stage \in [Workers -> {"idle", "running", "caught", "lookup", "swap", "remember",
                            "replay", "rerunning", "refusing", "ended", "raised"}]
  /\ endpoint \in [Workers -> Endpoints \cup {None}]
  /\ ran \in [Workers -> CodeObjects] /\ bug \in [Workers -> Bugs \cup {None}]
  /\ said \in [Workers -> BOOLEAN] /\ started \in [Workers -> 0 .. 2]
  /\ code \in [Endpoints -> CodeObjects] /\ made \in 0 .. MaxRequests
  /\ seen \subseteq Sites
  /\ {lock, stalled} \subseteq Workers \cup {None}
  /\ requests \in 0 .. MaxRequests

Init ==
  /\ server \in {"wsgi", "asgi"}
  /\ stage = [w \in Workers |-> "idle"] /\ endpoint = [w \in Workers |-> None]
  /\ ran = [w \in Workers |-> Source] /\ bug = [w \in Workers |-> None]
  /\ said = [w \in Workers |-> FALSE] /\ started = [w \in Workers |-> 0]
  /\ code = [e \in Endpoints |-> Source] /\ made = 0 /\ seen = {}
  /\ lock = None /\ stalled = None /\ requests = 0

----------------------------------------------------------------------------
(* The application, called by the middleware.                              *)

Goto(w, s) == stage' = [stage EXCEPT ![w] = s]
Runs(w)    == stage[w] \in {"running", "rerunning"} /\ stalled = None
Hits(w, b) == Runs(w) /\ b \in BugsOf[endpoint[w]] \ ran[w].guards
Start(w)   == started' = [started EXCEPT ![w] = @ + 1]

Receive(w, e) ==
  /\ stage[w] = "idle" /\ stalled = None /\ requests < MaxRequests
  /\ requests' = requests + 1
  /\ endpoint' = [endpoint EXCEPT ![w] = e]
  /\ ran' = [ran EXCEPT ![w] = code[e]] /\ bug' = [bug EXCEPT ![w] = None]
  /\ said' = [said EXCEPT ![w] = FALSE] /\ started' = [started EXCEPT ![w] = 0]
  /\ Goto(w, "running")
  /\ UNCHANGED <<server, heap, seen, loop>>

(* The call of start_response, or the first message sent.  A WSGI server   *)
(* lets a response start only once.                                        *)
Respond(w) ==
  /\ Runs(w) /\ ~said[w]
  /\ server = "wsgi" => started[w] = 0
  /\ said' = [said EXCEPT ![w] = TRUE] /\ Start(w)
  /\ UNCHANGED <<server, stage, locals, heap, seen, loop, requests>>

(* The application returns.  A WSGI application may start its response     *)
(* only when its result is iterated; in a replay ReturnAnswered does.      *)
Return(w) ==
  /\ Runs(w)
  /\ server = "wsgi" /\ stage[w] = "rerunning" => said[w]
  /\ Goto(w, "ended")
  /\ UNCHANGED <<server, locals, response, heap, seen, loop, requests>>

(* The server gets the result or the exception and the worker is free. *)
EndRequest(w) ==
  /\ stage[w] \in {"ended", "raised"} /\ stalled = None
  /\ Goto(w, "idle")
  /\ UNCHANGED <<server, locals, response, heap, seen, loop, requests>>

(* The call of the application ended with the exception of b. *)
Fails(w, b) ==
  /\ stage[w] = "running" /\ Hits(w, b)
  /\ bug' = [bug EXCEPT ![w] = b]

(* get_function_from_frame finds the function while it has the frame's code *)
(* object; without it, or without a spec, there is no patch.                *)
CanPatch(w, b) == b \in Patchable /\ code[endpoint[w]] = ran[w]

(* The guard is put into the code of the crashed frame. *)
Guarded(w, b) == [made |-> made + 1, guards |-> ran[w].guards \cup {b}]

----------------------------------------------------------------------------
(* CodeSutureMiddleware.  Its lock regions are a test and an insertion.    *)

Catch(t, b) ==
  /\ server = "wsgi" /\ Fails(t, b)
  /\ Goto(t, "caught")
  /\ UNCHANGED <<server, endpoint, ran, response, heap, seen, loop, requests>>

Test(t) ==
  /\ stage[t] = "caught"
  /\ Goto(t, IF SiteOf[bug[t]] \in seen THEN "raised" ELSE "lookup")
  /\ UNCHANGED <<server, locals, response, heap, seen, loop, requests>>

Lookup(t) ==
  /\ stage[t] = "lookup"
  /\ Goto(t, IF CanPatch(t, bug[t]) THEN "swap" ELSE "raised")
  /\ UNCHANGED <<server, locals, response, heap, seen, loop, requests>>

Swap(t) ==
  /\ stage[t] = "swap"
  /\ code' = [code EXCEPT ![endpoint[t]] = Guarded(t, bug[t])] /\ made' = made + 1
  /\ Goto(t, "remember")
  /\ UNCHANGED <<server, locals, response, seen, loop, requests>>

Remember(t) ==
  /\ stage[t] = "remember"
  /\ seen' = seen \cup {SiteOf[bug[t]]}
  /\ Goto(t, "replay")
  /\ UNCHANGED <<server, locals, response, heap, loop, requests>>

Replay(t) ==
  /\ stage[t] = "replay"
  /\ ran' = [ran EXCEPT ![t] = code[endpoint[t]]]
  /\ said' = [said EXCEPT ![t] = FALSE]
  /\ Goto(t, "rerunning")
  /\ UNCHANGED <<server, endpoint, bug, started, heap, seen, loop, requests>>

(* The second call crashes, or starts a response after the first has: the  *)
(* first exception is raised.                                              *)
RaiseFirst(t) ==
  /\ server = "wsgi" /\ stage[t] = "rerunning"
  /\ (\E b \in Bugs : Hits(t, b)) \/ (~said[t] /\ started[t] > 0)
  /\ Goto(t, "raised")
  /\ UNCHANGED <<server, locals, response, heap, seen, loop, requests>>

(* Variant of the definition below, with a mistake in it. *)
ReturnUnanswered(t) ==
  /\ server = "wsgi" /\ stage[t] = "rerunning" /\ ~said[t] /\ started[t] = 0
  /\ Goto(t, "ended")
  /\ UNCHANGED <<server, locals, response, heap, seen, loop, requests>>

(* The second call returned without a response: "200 OK" is sent for it. *)
ReturnAnswered(t) ==
  /\ server = "wsgi" /\ stage[t] = "rerunning" /\ ~said[t] /\ started[t] = 0
  /\ Start(t) /\ Goto(t, "ended")
  /\ UNCHANGED <<server, locals, said, heap, seen, loop, requests>>

Wsgi(t) ==
  \/ \E b \in Bugs : Catch(t, b)
  \/ Test(t) \/ Lookup(t) \/ Swap(t) \/ Remember(t) \/ Replay(t)
  \/ RaiseFirst(t) \/ ReturnAnswered(t)

----------------------------------------------------------------------------
(* CodeSutureASGIMiddleware.                                               *)

(* _send_error_response: the task awaits with its response started.        *)
Refuse(a) == Goto(a, "refusing") /\ Start(a)

(* Headers are out: the exception goes to the server. *)
Reraise(a, b) ==
  /\ server = "asgi" /\ Fails(a, b) /\ started[a] > 0
  /\ Goto(a, "raised")
  /\ UNCHANGED <<server, endpoint, ran, response, heap, seen, loop, requests>>

(* `with self._lock' while another task holds the lock over its await: the *)
(* thread, and the event loop with it, waits.                              *)
Stall(a, b) ==
  /\ server = "asgi" /\ Fails(a, b) /\ started[a] = 0 /\ lock # None
  /\ stalled' = a
  /\ UNCHANGED <<server, stage, endpoint, ran, response, heap, seen, lock, requests>>

RefuseSeen(a, b) ==
  /\ server = "asgi" /\ Fails(a, b) /\ started[a] = 0 /\ lock = None
  /\ SiteOf[b] \in seen
  /\ lock' = a /\ Refuse(a)
  /\ UNCHANGED <<server, endpoint, ran, said, heap, seen, stalled, requests>>

RefuseUnpatchable(a, b) ==
  /\ server = "asgi" /\ Fails(a, b) /\ started[a] = 0 /\ lock = None
  /\ SiteOf[b] \notin seen /\ ~CanPatch(a, b)
  /\ Refuse(a)
  /\ UNCHANGED <<server, endpoint, ran, said, heap, seen, loop, requests>>

(* The function is patched and the application called once more.  In the   *)
(* variants before it, a mistake is made.                                  *)
Repaired(a, b) ==
  /\ code' = [code EXCEPT ![endpoint[a]] = Guarded(a, b)] /\ made' = made + 1
  /\ seen' = seen \cup {SiteOf[b]}
  /\ ran' = [ran EXCEPT ![a] = Guarded(a, b)]
  /\ said' = [said EXCEPT ![a] = FALSE]
  /\ Goto(a, "rerunning")
  /\ UNCHANGED <<server, endpoint, started, loop, requests>>

PatchStarted(a, b) ==
  /\ server = "asgi" /\ Fails(a, b) /\ lock = None
  /\ SiteOf[b] \notin seen /\ CanPatch(a, b)
  /\ Repaired(a, b)

PatchStale(a, b) ==
  /\ server = "asgi" /\ Fails(a, b) /\ started[a] = 0 /\ lock = None
  /\ SiteOf[b] \notin seen /\ b \in Patchable
  /\ Repaired(a, b)

Patch(a, b) ==
  /\ server = "asgi" /\ Fails(a, b) /\ started[a] = 0 /\ lock = None
  /\ SiteOf[b] \notin seen /\ CanPatch(a, b)
  /\ Repaired(a, b)

(* The second call crashes: an error response, whatever it has sent. *)
RefuseReplay(a) ==
  /\ server = "asgi" /\ stage[a] = "rerunning" /\ \E b \in Bugs : Hits(a, b)
  /\ Refuse(a)
  /\ UNCHANGED <<server, locals, said, heap, seen, loop, requests>>

(* The error response is out, and the lock, if held over it, released. *)
Refused(a) ==
  /\ stage[a] = "refusing" /\ stalled = None
  /\ lock' = IF lock = a THEN None ELSE lock
  /\ Goto(a, "ended")
  /\ UNCHANGED <<server, locals, response, heap, seen, stalled, requests>>

Asgi(a) ==
  \/ \E b \in Bugs : \/ Reraise(a, b) \/ Stall(a, b) \/ RefuseSeen(a, b)
                     \/ RefuseUnpatchable(a, b) \/ Patch(a, b)
  \/ RefuseReplay(a) \/ Refused(a)

Next ==
  \E w \in Workers :
    \/ \E e \in Endpoints : Receive(w, e)
    \/ Respond(w) \/ Return(w) \/ EndRequest(w)
    \/ Wsgi(w) \/ Asgi(w)

Spec == Init /\ [][Next]_vars

----------------------------------------------------------------------------
(* Properties that hold.                                                   *)

(* Threads may exchange the code of a function with several bugs under     *)
(* each other; nothing else takes a guard away.                            *)
Exclusive(e) == server = "asgi" \/ Cardinality(BugsOf[e] \cap Patchable) <= 1

(* "The patch prevents recurrence on subsequent calls": a site that the    *)
(* middleware remembers, and so never patches again, has a guard in the    *)
(* live function, however many frames of older code crash later; and a     *)
(* replay runs the guard it was made for.                                  *)
GuardsStay ==
  /\ \A s \in seen : \E e \in Endpoints : \E b \in BugsOf[e] :
       SiteOf[b] = s /\ (Exclusive(e) => b \in code[e].guards)
  /\ \A w \in Workers :
       stage[w] = "rerunning" /\ Exclusive(endpoint[w]) => bug[w] \in ran[w].guards

(* "Headers already sent, can't replay": an ASGI replay starts on an       *)
(* unused connection, and a WSGI replay that returns has been answered     *)
(* once.                                                                   *)
ReplayAnswersOnce ==
  \A w \in Workers :
    /\ server = "asgi" /\ stage[w] = "rerunning" => started[w] = (IF said[w] THEN 1 ELSE 0)
    /\ server = "wsgi" /\ stage[w] = "ended" /\ bug[w] # None => started[w] = 1

(* The lock that is held over an await is released once the error response *)
(* is out.                                                                 *)
LockIsForRefusals == lock # None => stage[lock] = "refusing"

(* Properties that do not hold.                                            *)

(* "POST/PUT/PATCH/DELETE transactions are never replayed".                *)
MutatingNotReplayed ==
  \A w \in Workers : stage[w] = "rerunning" => endpoint[w] \notin Mutating

(* No task blocks the event loop all tasks share. *)
LoopLives == stalled = None

(* A request gets one response. *)
OneResponse == \A w \in Workers : started[w] <= 1

(* A remembered site has its guard, whatever else its function has wrong.  *)
SeenIsGuarded ==
  \A s \in seen : \E e \in Endpoints : \E b \in BugsOf[e] :
    SiteOf[b] = s /\ b \in code[e].guards
=============================================================================
