------------------------- MODULE WebMiddlewareProofs -------------------------
(***************************************************************************)
(* What WebMiddleware promises for any number of workers, endpoints, bugs  *)
(* and requests.                                                           *)
(*                                                                         *)
(* Inv is inductive.  Requests bounds the code objects made by the         *)
(* requests, as each of them patches at most once.  Steps says at each     *)
(* stage of a worker which bug it has and whether the live function has    *)
(* the guard for it, Remembered the same of the remembered sites; Responses *)
(* counts the responses started.                                           *)
(***************************************************************************)
EXTENDS WebMiddleware, FiniteSetTheorems, TLAPS

(* Workers whose request may still make a code object. *)
Pending == {w \in Workers : stage[w] \in {"running", "caught", "lookup", "swap"}}

Requests == IsFiniteSet(Pending) /\ made + Cardinality(Pending) <= requests

Steps ==
  \A w \in Workers :
    /\ stage[w] # "idle" => endpoint[w] \in Endpoints
    /\ stage[w] \in {"caught", "lookup", "swap", "remember", "replay"} => server = "wsgi"
    /\ stage[w] = "refusing" => server = "asgi"
    /\ stage[w] \in {"caught", "lookup", "swap", "remember", "replay", "rerunning"} =>
         bug[w] \in BugsOf[endpoint[w]]
    /\ stage[w] \in {"swap", "remember", "replay", "rerunning"} => bug[w] \in Patchable
    /\ stage[w] \in {"remember", "replay"} /\ Exclusive(endpoint[w]) =>
         bug[w] \in code[endpoint[w]].guards
    /\ stage[w] = "rerunning" /\ Exclusive(endpoint[w]) => bug[w] \in ran[w].guards

Remembered ==
  \A s \in seen : \E e \in Endpoints : \E b \in BugsOf[e] \cap Patchable :
    SiteOf[b] = s /\ (Exclusive(e) => b \in code[e].guards)

Responses ==
  \A w \in Workers :
    /\ server = "wsgi" =>
         /\ started[w] <= 1 /\ (said[w] => started[w] = 1)
         /\ stage[w] = "running" => bug[w] = None
         /\ stage[w] = "ended" /\ bug[w] # None => started[w] = 1
    /\ server = "asgi" =>
         /\ stage[w] \in {"running", "rerunning"} => started[w] = (IF said[w] THEN 1 ELSE 0)

Inv == TypeOK /\ Requests /\ Steps /\ Remembered /\ Responses

----------------------------------------------------------------------------
LEMMA Constants ==
  /\ BugsOf \in [Endpoints -> SUBSET Bugs] /\ IsFiniteSet(Bugs)
  /\ SiteOf \in [Bugs -> Sites] /\ Patchable \subseteq Bugs /\ MaxRequests \in Nat
  /\ None \notin Workers /\ None \notin Endpoints /\ None \notin Bugs
BY WebMiddlewareAssumption

LEMMA SourceIsCode == Source \in CodeObjects /\ Source.guards = {}
BY Constants DEF Source, CodeObjects

(* An exclusive endpoint of a WSGI application has one bug to guard. *)
LEMMA OneBug ==
  ASSUME server = "wsgi", NEW e \in Endpoints, Exclusive(e),
         NEW b \in BugsOf[e] \cap Patchable, NEW c \in BugsOf[e] \cap Patchable
  PROVE  b = c
<1> DEFINE S == BugsOf[e] \cap Patchable
<1>1. IsFiniteSet(S) /\ Cardinality(S) <= 1
  BY Constants, FS_Subset DEF Exclusive
<1>2. SUFFICES ASSUME b # c PROVE FALSE
  OBVIOUS
<1>3. {b, c} \subseteq S /\ IsFiniteSet({b}) /\ Cardinality({b}) = 1
  BY FS_Singleton
<1>4. Cardinality({b} \cup {c}) = 2
  BY <1>2, <1>3, FS_AddElement
<1>5. {b} \cup {c} = {b, c}
  OBVIOUS
<1>6. Cardinality({b, c}) <= Cardinality(S) /\ Cardinality(S) \in Nat
  BY <1>1, <1>3, FS_Subset, FS_CardinalityType
<1> QED BY <1>1, <1>4, <1>5, <1>6

(* A new code object is one, while there are requests to make it. *)
LEMMA GuardedIsCode ==
  ASSUME TypeOK, Requests, NEW w \in Workers, NEW b \in Bugs, w \in Pending
  PROVE  Guarded(w, b) \in CodeObjects /\ made + 1 \in 0 .. MaxRequests
<1>1. Cardinality(Pending) \in Nat /\ Cardinality(Pending) # 0
  BY FS_CardinalityType, FS_EmptySet DEF Requests
<1>2. made + 1 \in 0 .. MaxRequests
  BY <1>1, Constants DEF Requests, TypeOK
<1>3. ran[w] \in CodeObjects
  BY DEF TypeOK
<1> QED BY <1>2, <1>3 DEF Guarded, CodeObjects

----------------------------------------------------------------------------
LEMMA InvInit == Init => Inv
<1> SUFFICES ASSUME Init PROVE Inv
  OBVIOUS
<1>1. TypeOK
  BY SourceIsCode, Constants DEF Init, TypeOK
<1>2. Pending = {}
  BY DEF Init, Pending
<1>3. Requests
  BY <1>2, FS_EmptySet DEF Init, Requests
<1>4. Steps /\ Remembered /\ Responses
  BY DEF Init, Steps, Remembered, Responses
<1> QED BY <1>1, <1>3, <1>4 DEF Inv
----------------------------------------------------------------------------
(* A step keeps the types.                                                 *)
LEMMA Typing == Inv /\ [Next]_vars => TypeOK'
<1> SUFFICES ASSUME Inv, [Next]_vars PROVE TypeOK'
  OBVIOUS
<1> USE DEF Inv, TypeOK
<1>1. CASE UNCHANGED vars
  BY <1>1 DEF vars, locals, response, heap, loop
<1>2. ASSUME NEW w \in Workers, NEW e \in Endpoints, Receive(w, e) PROVE TypeOK'
  BY <1>2, Constants DEF Receive, Goto, heap, loop
<1>3. ASSUME NEW w \in Workers, Respond(w) PROVE TypeOK'
  BY <1>3, Constants DEF Respond, Responses, Start, Runs, locals, heap, loop
<1>4. ASSUME NEW w \in Workers, Return(w) PROVE TypeOK'
  BY <1>4, Constants DEF Return, Goto, Runs, locals, response, heap, loop
<1>5. ASSUME NEW w \in Workers, EndRequest(w) PROVE TypeOK'
  BY <1>5, Constants DEF EndRequest, Goto, locals, response, heap, loop
<1>6. ASSUME NEW w \in Workers, NEW b \in Bugs, Catch(w, b) PROVE TypeOK'
  BY <1>6, Constants DEF Catch, Fails, Hits, Goto, Runs, response, heap, loop
<1>7. ASSUME NEW w \in Workers, Test(w) PROVE TypeOK'
  BY <1>7, Constants DEF Test, Goto, locals, response, heap, loop
<1>8. ASSUME NEW w \in Workers, Lookup(w) PROVE TypeOK'
  BY <1>8, Constants DEF Lookup, CanPatch, Goto, locals, response, heap, loop
<1>9. ASSUME NEW w \in Workers, Swap(w) PROVE TypeOK'
  <2>1. Guarded(w, bug[w]) \in CodeObjects /\ made + 1 \in 0 .. MaxRequests
    BY <1>9, GuardedIsCode, Constants DEF Swap, Pending, Steps
  <2> QED BY <1>9, <2>1, Constants DEF Swap, Goto, locals, response, loop
<1>10. ASSUME NEW w \in Workers, Remember(w) PROVE TypeOK'
  BY <1>10, Constants DEF Remember, Steps, Goto, locals, response, heap, loop
<1>11. ASSUME NEW w \in Workers, Replay(w) PROVE TypeOK'
  BY <1>11, Constants DEF Replay, Steps, Goto, heap, loop
<1>12. ASSUME NEW w \in Workers, RaiseFirst(w) PROVE TypeOK'
  BY <1>12, Constants DEF RaiseFirst, Hits, Goto, Runs, locals, response, heap, loop
<1>13. ASSUME NEW w \in Workers, ReturnAnswered(w) PROVE TypeOK'
  BY <1>13, Constants DEF ReturnAnswered, Goto, Start, locals, heap, loop
<1>14. ASSUME NEW w \in Workers, NEW b \in Bugs, Reraise(w, b) PROVE TypeOK'
  BY <1>14, Constants DEF Reraise, Fails, Hits, Goto, Runs, response, heap, loop
<1>15. ASSUME NEW w \in Workers, NEW b \in Bugs, Stall(w, b) PROVE TypeOK'
  BY <1>15, Constants DEF Stall, Fails, Hits, Runs, response, heap
<1>16. ASSUME NEW w \in Workers, NEW b \in Bugs, RefuseSeen(w, b) PROVE TypeOK'
  BY <1>16, Constants DEF RefuseSeen, Refuse, Fails, Hits, Goto, Start, Runs, heap
<1>17. ASSUME NEW w \in Workers, NEW b \in Bugs, RefuseUnpatchable(w, b) PROVE TypeOK'
  BY <1>17, Constants DEF RefuseUnpatchable, Refuse, Fails, Hits, Goto, Start, Runs, heap, loop
<1>18. ASSUME NEW w \in Workers, NEW b \in Bugs, Patch(w, b) PROVE TypeOK'
  <2>1. Guarded(w, b) \in CodeObjects /\ made + 1 \in 0 .. MaxRequests
    BY <1>18, GuardedIsCode, Constants DEF Patch, Fails, Hits, Pending, Steps
  <2> QED BY <1>18, <2>1, Constants DEF Patch, Repaired, Fails, Hits, Steps, Goto, Runs, loop
<1>19. ASSUME NEW w \in Workers, RefuseReplay(w) PROVE TypeOK'
  BY <1>19, Constants DEF RefuseReplay, Refuse, Hits, Responses, Goto, Start, Runs, locals, heap, loop
<1>20. ASSUME NEW w \in Workers, Refused(w) PROVE TypeOK'
  BY <1>20, Constants DEF Refused, Goto, locals, response, heap
<1> QED BY <1>1, <1>2, <1>3, <1>4, <1>5, <1>6, <1>7, <1>8, <1>9, <1>10, <1>11,
          <1>12, <1>13, <1>14, <1>15, <1>16, <1>17, <1>18, <1>19, <1>20
       DEF Next, Wsgi, Asgi

----------------------------------------------------------------------------
(* A step keeps the requests ahead of the code objects.                    *)
LEMMA RequestsKept == Inv /\ [Next]_vars => Requests'
<1> SUFFICES ASSUME Inv, [Next]_vars PROVE Requests'
  OBVIOUS
<1> USE DEF Inv
<1>a. made \in Nat /\ requests \in Nat /\ Cardinality(Pending) \in Nat
  BY Constants, FS_CardinalityType DEF TypeOK, Requests
<1>b. ASSUME made' = made, requests' = requests, Pending' \subseteq Pending PROVE Requests'
  <2>1. IsFiniteSet(Pending') /\ Cardinality(Pending') <= Cardinality(Pending)
    BY <1>b, FS_Subset DEF Requests
  <2>2. Cardinality(Pending') \in Nat
    BY <2>1, FS_CardinalityType
  <2> QED BY <1>a, <1>b, <2>1, <2>2 DEF Requests
<1>c. ASSUME NEW w \in Workers, w \in Pending, made' = made + 1, requests' = requests,
             Pending' = Pending \ {w}
      PROVE  Requests'
  <2>1. IsFiniteSet(Pending') /\ Cardinality(Pending') = Cardinality(Pending) - 1
    BY <1>c, FS_RemoveElement DEF Requests
  <2> QED BY <1>a, <1>c, <2>1 DEF Requests
<1>1. CASE UNCHANGED vars
  BY <1>1 DEF vars, locals, response, heap, loop, Requests, Pending
<1>2. ASSUME NEW w \in Workers, NEW e \in Endpoints, Receive(w, e) PROVE Requests'
  <2>1. Pending' = Pending \cup {w} /\ w \notin Pending
    BY <1>2 DEF Receive, Goto, Pending, TypeOK
  <2>2. IsFiniteSet(Pending') /\ Cardinality(Pending') = Cardinality(Pending) + 1
    BY <2>1, FS_AddElement DEF Requests
  <2>3. made' = made /\ requests' = requests + 1
    BY <1>2 DEF Receive, heap
  <2> QED BY <1>a, <2>2, <2>3 DEF Requests
<1>3. ASSUME NEW w \in Workers, Respond(w) PROVE Requests'
  BY <1>3, <1>b DEF Respond, Pending, TypeOK, Start, Runs, locals, heap, loop
<1>4. ASSUME NEW w \in Workers, Return(w) PROVE Requests'
  BY <1>4, <1>b DEF Return, Pending, TypeOK, Goto, Runs, locals, response, heap, loop
<1>5. ASSUME NEW w \in Workers, EndRequest(w) PROVE Requests'
  BY <1>5, <1>b DEF EndRequest, Pending, TypeOK, Goto, locals, response, heap, loop
<1>6. ASSUME NEW w \in Workers, NEW b \in Bugs, Catch(w, b) PROVE Requests'
  BY <1>6, <1>b DEF Catch, Fails, Hits, Pending, TypeOK, Goto, Runs, response, heap, loop
<1>7. ASSUME NEW w \in Workers, Test(w) PROVE Requests'
  BY <1>7, <1>b DEF Test, Pending, TypeOK, Goto, locals, response, heap, loop
<1>8. ASSUME NEW w \in Workers, Lookup(w) PROVE Requests'
  BY <1>8, <1>b DEF Lookup, CanPatch, Pending, TypeOK, Goto, locals, response, heap, loop
<1>9. ASSUME NEW w \in Workers, Swap(w) PROVE Requests'
  BY <1>9, <1>c DEF Swap, Goto, Pending, TypeOK
<1>10. ASSUME NEW w \in Workers, Remember(w) PROVE Requests'
  BY <1>10, <1>b DEF Remember, Pending, TypeOK, Goto, locals, response, heap, loop
<1>11. ASSUME NEW w \in Workers, Replay(w) PROVE Requests'
  BY <1>11, <1>b DEF Replay, Pending, TypeOK, Goto, heap, loop
<1>12. ASSUME NEW w \in Workers, RaiseFirst(w) PROVE Requests'
  BY <1>12, <1>b DEF RaiseFirst, Hits, Pending, TypeOK, Goto, Runs, locals, response, heap, loop
<1>13. ASSUME NEW w \in Workers, ReturnAnswered(w) PROVE Requests'
  BY <1>13, <1>b DEF ReturnAnswered, Pending, TypeOK, Goto, Start, locals, heap, loop
<1>14. ASSUME NEW w \in Workers, NEW b \in Bugs, Reraise(w, b) PROVE Requests'
  BY <1>14, <1>b DEF Reraise, Fails, Hits, Pending, TypeOK, Goto, Runs, response, heap, loop
<1>15. ASSUME NEW w \in Workers, NEW b \in Bugs, Stall(w, b) PROVE Requests'
  BY <1>15, <1>b DEF Stall, Fails, Hits, Pending, TypeOK, Runs, response, heap
<1>16. ASSUME NEW w \in Workers, NEW b \in Bugs, RefuseSeen(w, b) PROVE Requests'
  BY <1>16, <1>b DEF RefuseSeen, Refuse, Fails, Hits, Pending, TypeOK, Goto, Start, Runs, heap
<1>17. ASSUME NEW w \in Workers, NEW b \in Bugs, RefuseUnpatchable(w, b) PROVE Requests'
  BY <1>17, <1>b DEF RefuseUnpatchable, Refuse, Fails, Hits, Pending, TypeOK, Goto, Start, Runs, heap, loop
<1>18. ASSUME NEW w \in Workers, NEW b \in Bugs, Patch(w, b) PROVE Requests'
  BY <1>18, <1>c DEF Patch, Repaired, Fails, Hits, Goto, Pending, TypeOK
<1>19. ASSUME NEW w \in Workers, RefuseReplay(w) PROVE Requests'
  BY <1>19, <1>b DEF RefuseReplay, Refuse, Hits, Pending, TypeOK, Goto, Start, Runs, locals, heap, loop
<1>20. ASSUME NEW w \in Workers, Refused(w) PROVE Requests'
  BY <1>20, <1>b DEF Refused, Pending, TypeOK, Goto, locals, response, heap
<1> QED BY <1>1, <1>2, <1>3, <1>4, <1>5, <1>6, <1>7, <1>8, <1>9, <1>10, <1>11,
          <1>12, <1>13, <1>14, <1>15, <1>16, <1>17, <1>18, <1>19, <1>20
       DEF Next, Wsgi, Asgi

----------------------------------------------------------------------------
(* A patch takes no guard away where it may be relied on: a thread that     *)
(* replaces the code another one made has the same bug to guard, a task    *)
(* patches the code its frame ran.                                         *)
LEMMA GuardsAreKept ==
  ASSUME TypeOK, Steps, NEW w \in Workers,
         Swap(w) \/ \E b \in Bugs : Patch(w, b),
         NEW e \in Endpoints, Exclusive(e), NEW c \in BugsOf[e] \cap Patchable, c \in code[e].guards
  PROVE  c \in code'[e].guards
<1>1. CASE Swap(w)
  <2>1. /\ server = "wsgi" /\ endpoint[w] \in Endpoints
        /\ bug[w] \in BugsOf[endpoint[w]] \cap Patchable
    BY <1>1 DEF Swap, Steps
  <2>2. code' = [code EXCEPT ![endpoint[w]] = Guarded(w, bug[w])]
    BY <1>1 DEF Swap
  <2>3. CASE e = endpoint[w]
    <3>1. c = bug[w]
      BY <2>1, <2>3, OneBug
    <3> QED BY <2>2, <2>3, <3>1 DEF TypeOK, Guarded
  <2> QED BY <2>2, <2>3 DEF TypeOK
<1>2. ASSUME NEW b \in Bugs, Patch(w, b) PROVE c \in code'[e].guards
  <2>1. code' = [code EXCEPT ![endpoint[w]] = Guarded(w, b)] /\ code[endpoint[w]] = ran[w]
    BY <1>2 DEF Patch, Repaired, CanPatch
  <2> QED BY <2>1 DEF TypeOK, Guarded
<1> QED BY <1>1, <1>2

----------------------------------------------------------------------------
(* A step keeps the count of responses.                                    *)
LEMMA ResponsesKept == Inv /\ [Next]_vars => Responses'
<1> SUFFICES ASSUME Inv, [Next]_vars PROVE Responses'
  OBVIOUS
<1> USE DEF Inv, TypeOK, Responses
<1>1. CASE UNCHANGED vars
  BY <1>1 DEF vars, locals, response, heap, loop
<1>2. ASSUME NEW w \in Workers, NEW e \in Endpoints, Receive(w, e) PROVE Responses'
  BY <1>2, Constants DEF Receive, Goto, heap, loop
<1>3. ASSUME NEW w \in Workers, Respond(w) PROVE Responses'
  BY <1>3, Constants DEF Respond, Start, Runs, locals, heap, loop
<1>4. ASSUME NEW w \in Workers, Return(w) PROVE Responses'
  BY <1>4, Constants DEF Return, Goto, Runs, locals, response, heap, loop
<1>5. ASSUME NEW w \in Workers, EndRequest(w) PROVE Responses'
  BY <1>5, Constants DEF EndRequest, Goto, locals, response, heap, loop
<1>6. ASSUME NEW w \in Workers, NEW b \in Bugs, Catch(w, b) PROVE Responses'
  BY <1>6, Constants DEF Catch, Fails, Hits, Goto, Runs, response, heap, loop
<1>7. ASSUME NEW w \in Workers, Test(w) PROVE Responses'
  BY <1>7, Constants DEF Test, Goto, locals, response, heap, loop
<1>8. ASSUME NEW w \in Workers, Lookup(w) PROVE Responses'
  BY <1>8, Constants DEF Lookup, CanPatch, Goto, locals, response, heap, loop
<1>9. ASSUME NEW w \in Workers, Swap(w) PROVE Responses'
  BY <1>9, Constants DEF Swap, Goto, locals, response, loop
<1>10. ASSUME NEW w \in Workers, Remember(w) PROVE Responses'
  BY <1>10, Constants DEF Remember, Goto, locals, response, heap, loop
<1>11. ASSUME NEW w \in Workers, Replay(w) PROVE Responses'
  BY <1>11, Constants DEF Replay, Steps, Goto, heap, loop
<1>12. ASSUME NEW w \in Workers, RaiseFirst(w) PROVE Responses'
  BY <1>12, Constants DEF RaiseFirst, Hits, Goto, Runs, locals, response, heap, loop
<1>13. ASSUME NEW w \in Workers, ReturnAnswered(w) PROVE Responses'
  BY <1>13, Constants DEF ReturnAnswered, Goto, Start, locals, heap, loop
<1>14. ASSUME NEW w \in Workers, NEW b \in Bugs, Reraise(w, b) PROVE Responses'
  BY <1>14, Constants DEF Reraise, Fails, Hits, Goto, Runs, response, heap, loop
<1>15. ASSUME NEW w \in Workers, NEW b \in Bugs, Stall(w, b) PROVE Responses'
  BY <1>15, Constants DEF Stall, Fails, Hits, Runs, response, heap
<1>16. ASSUME NEW w \in Workers, NEW b \in Bugs, RefuseSeen(w, b) PROVE Responses'
  BY <1>16, Constants DEF RefuseSeen, Refuse, Fails, Hits, Goto, Start, Runs, heap
<1>17. ASSUME NEW w \in Workers, NEW b \in Bugs, RefuseUnpatchable(w, b) PROVE Responses'
  BY <1>17, Constants DEF RefuseUnpatchable, Refuse, Fails, Hits, Goto, Start, Runs, heap, loop
<1>18. ASSUME NEW w \in Workers, NEW b \in Bugs, Patch(w, b) PROVE Responses'
  BY <1>18, Constants DEF Patch, Repaired, CanPatch, Fails, Hits, Goto, Runs, loop
<1>19. ASSUME NEW w \in Workers, RefuseReplay(w) PROVE Responses'
  BY <1>19, Constants DEF RefuseReplay, Refuse, Hits, Goto, Start, Runs, locals, heap, loop
<1>20. ASSUME NEW w \in Workers, Refused(w) PROVE Responses'
  BY <1>20, Constants DEF Refused, Steps, Goto, locals, response, heap
<1> QED BY <1>1, <1>2, <1>3, <1>4, <1>5, <1>6, <1>7, <1>8, <1>9, <1>10, <1>11,
          <1>12, <1>13, <1>14, <1>15, <1>16, <1>17, <1>18, <1>19, <1>20
       DEF Next, Wsgi, Asgi

----------------------------------------------------------------------------
(* A step keeps what each stage knows of its bug and its guard.            *)
LEMMA StepsKept == Inv /\ [Next]_vars => Steps'
<1> SUFFICES ASSUME Inv, [Next]_vars PROVE Steps'
  OBVIOUS
<1> USE DEF Inv, TypeOK, Steps, Exclusive
<1>1. CASE UNCHANGED vars
  BY <1>1 DEF vars, locals, response, heap, loop
<1>2. ASSUME NEW w \in Workers, NEW e \in Endpoints, Receive(w, e) PROVE Steps'
  BY <1>2, Constants DEF Receive, Goto, heap, loop
<1>3. ASSUME NEW w \in Workers, Respond(w) PROVE Steps'
  BY <1>3, Constants DEF Respond, Start, Runs, locals, heap, loop
<1>4. ASSUME NEW w \in Workers, Return(w) PROVE Steps'
  BY <1>4, Constants DEF Return, Goto, Runs, locals, response, heap, loop
<1>5. ASSUME NEW w \in Workers, EndRequest(w) PROVE Steps'
  BY <1>5, Constants DEF EndRequest, Goto, locals, response, heap, loop
<1>6. ASSUME NEW w \in Workers, NEW b \in Bugs, Catch(w, b) PROVE Steps'
  BY <1>6, Constants DEF Catch, Fails, Hits, Goto, Runs, response, heap, loop
<1>7. ASSUME NEW w \in Workers, Test(w) PROVE Steps'
  BY <1>7, Constants DEF Test, Goto, locals, response, heap, loop
<1>8. ASSUME NEW w \in Workers, Lookup(w) PROVE Steps'
  BY <1>8, Constants DEF Lookup, CanPatch, Goto, locals, response, heap, loop
<1>9. ASSUME NEW w \in Workers, Swap(w) PROVE Steps'
  <2>1. /\ endpoint[w] \in Endpoints /\ stage' = [stage EXCEPT ![w] = "remember"]
        /\ code' = [code EXCEPT ![endpoint[w]] = Guarded(w, bug[w])]
        /\ UNCHANGED <<server, endpoint, ran, bug>>
    BY <1>9 DEF Swap, Goto, locals
  <2>2. bug[w] \in code'[endpoint[w]].guards
    BY <2>1 DEF Guarded
  <2>3. \A v \in Workers \ {w} : stage[v] \in {"remember", "replay"} /\ Exclusive(endpoint[v]) =>
          bug[v] \in code'[endpoint[v]].guards
    BY <1>9, GuardsAreKept
  <2>4. stage[w] = "swap"
    BY <1>9 DEF Swap
  <2> QED BY <2>1, <2>2, <2>3, <2>4
<1>10. ASSUME NEW w \in Workers, Remember(w) PROVE Steps'
  BY <1>10, Constants DEF Remember, Goto, locals, response, heap, loop
<1>11. ASSUME NEW w \in Workers, Replay(w) PROVE Steps'
  BY <1>11, Constants DEF Replay, Goto, heap, loop
<1>12. ASSUME NEW w \in Workers, RaiseFirst(w) PROVE Steps'
  BY <1>12, Constants DEF RaiseFirst, Hits, Goto, Runs, locals, response, heap, loop
<1>13. ASSUME NEW w \in Workers, ReturnAnswered(w) PROVE Steps'
  BY <1>13, Constants DEF ReturnAnswered, Goto, Start, locals, heap, loop
<1>14. ASSUME NEW w \in Workers, NEW b \in Bugs, Reraise(w, b) PROVE Steps'
  BY <1>14, Constants DEF Reraise, Fails, Hits, Goto, Runs, response, heap, loop
<1>15. ASSUME NEW w \in Workers, NEW b \in Bugs, Stall(w, b) PROVE Steps'
  BY <1>15, Constants DEF Stall, Fails, Hits, Runs, response, heap
<1>16. ASSUME NEW w \in Workers, NEW b \in Bugs, RefuseSeen(w, b) PROVE Steps'
  BY <1>16, Constants DEF RefuseSeen, Refuse, Fails, Hits, Goto, Start, Runs, heap
<1>17. ASSUME NEW w \in Workers, NEW b \in Bugs, RefuseUnpatchable(w, b) PROVE Steps'
  BY <1>17, Constants DEF RefuseUnpatchable, Refuse, Fails, Hits, Goto, Start, Runs, heap, loop
<1>18. ASSUME NEW w \in Workers, NEW b \in Bugs, Patch(w, b) PROVE Steps'
  <2>1. /\ server = "asgi" /\ stage[w] = "running" /\ b \in BugsOf[endpoint[w]] \cap Patchable
        /\ ran' = [ran EXCEPT ![w] = Guarded(w, b)] /\ bug' = [bug EXCEPT ![w] = b]
        /\ stage' = [stage EXCEPT ![w] = "rerunning"] /\ UNCHANGED <<server, endpoint>>
    BY <1>18 DEF Patch, Repaired, CanPatch, Fails, Hits, Goto
  <2>2. b \in ran'[w].guards
    BY <2>1 DEF Guarded
  <2> QED BY <2>1, <2>2
<1>19. ASSUME NEW w \in Workers, RefuseReplay(w) PROVE Steps'
  BY <1>19, Constants DEF RefuseReplay, Refuse, Hits, Goto, Start, Runs, locals, heap, loop
<1>20. ASSUME NEW w \in Workers, Refused(w) PROVE Steps'
  BY <1>20, Constants DEF Refused, Goto, locals, response, heap
<1> QED BY <1>1, <1>2, <1>3, <1>4, <1>5, <1>6, <1>7, <1>8, <1>9, <1>10, <1>11,
          <1>12, <1>13, <1>14, <1>15, <1>16, <1>17, <1>18, <1>19, <1>20
       DEF Next, Wsgi, Asgi

----------------------------------------------------------------------------
(* A step keeps the guards of remembered sites.                            *)
LEMMA RememberedKept == Inv /\ [Next]_vars => Remembered'
<1> SUFFICES ASSUME Inv, [Next]_vars PROVE Remembered'
  OBVIOUS
<1> USE DEF Inv
<1>a. ASSUME UNCHANGED <<server, code, seen>> PROVE Remembered'
  BY <1>a DEF Remembered, Exclusive
<1>1. CASE UNCHANGED vars
  BY <1>1, <1>a DEF vars, heap
<1>2. ASSUME NEW w \in Workers, NEW e \in Endpoints, Receive(w, e) PROVE Remembered'
  BY <1>2, <1>a DEF Receive, heap
<1>3. ASSUME NEW w \in Workers, Respond(w) PROVE Remembered'
  BY <1>3, <1>a DEF Respond, heap
<1>4. ASSUME NEW w \in Workers, Return(w) PROVE Remembered'
  BY <1>4, <1>a DEF Return, heap
<1>5. ASSUME NEW w \in Workers, EndRequest(w) PROVE Remembered'
  BY <1>5, <1>a DEF EndRequest, heap
<1>6. ASSUME NEW w \in Workers, NEW b \in Bugs, Catch(w, b) PROVE Remembered'
  BY <1>6, <1>a DEF Catch, heap
<1>7. ASSUME NEW w \in Workers, Test(w) PROVE Remembered'
  BY <1>7, <1>a DEF Test, heap
<1>8. ASSUME NEW w \in Workers, Lookup(w) PROVE Remembered'
  BY <1>8, <1>a DEF Lookup, heap
<1>9. ASSUME NEW w \in Workers, Swap(w) PROVE Remembered'
  <2>1. \A e \in Endpoints : \A c \in BugsOf[e] \cap Patchable :
          Exclusive(e) /\ c \in code[e].guards => c \in code'[e].guards
    BY <1>9, GuardsAreKept
  <2>2. server' = server /\ seen' = seen
    BY <1>9 DEF Swap
  <2> QED BY <2>1, <2>2 DEF Remembered, Exclusive
<1>10. ASSUME NEW w \in Workers, Remember(w) PROVE Remembered'
  <2>1. /\ endpoint[w] \in Endpoints /\ bug[w] \in BugsOf[endpoint[w]] \cap Patchable
        /\ Exclusive(endpoint[w]) => bug[w] \in code[endpoint[w]].guards
    BY <1>10 DEF Remember, Steps
  <2>2. seen' = seen \cup {SiteOf[bug[w]]} /\ UNCHANGED <<server, code>>
    BY <1>10 DEF Remember, heap
  <2>3. \E e \in Endpoints : \E b \in BugsOf[e] \cap Patchable :
          SiteOf[b] = SiteOf[bug[w]] /\ (Exclusive(e) => b \in code[e].guards)
    BY <2>1
  <2>4. \A e \in Endpoints : Exclusive(e)' = Exclusive(e)
    BY <2>2 DEF Exclusive
  <2> QED BY <2>2, <2>3, <2>4 DEF Remembered
<1>11. ASSUME NEW w \in Workers, Replay(w) PROVE Remembered'
  BY <1>11, <1>a DEF Replay, heap
<1>12. ASSUME NEW w \in Workers, RaiseFirst(w) PROVE Remembered'
  BY <1>12, <1>a DEF RaiseFirst, heap
<1>13. ASSUME NEW w \in Workers, ReturnAnswered(w) PROVE Remembered'
  BY <1>13, <1>a DEF ReturnAnswered, heap
<1>14. ASSUME NEW w \in Workers, NEW b \in Bugs, Reraise(w, b) PROVE Remembered'
  BY <1>14, <1>a DEF Reraise, heap
<1>15. ASSUME NEW w \in Workers, NEW b \in Bugs, Stall(w, b) PROVE Remembered'
  BY <1>15, <1>a DEF Stall, heap
<1>16. ASSUME NEW w \in Workers, NEW b \in Bugs, RefuseSeen(w, b) PROVE Remembered'
  BY <1>16, <1>a DEF RefuseSeen, heap
<1>17. ASSUME NEW w \in Workers, NEW b \in Bugs, RefuseUnpatchable(w, b) PROVE Remembered'
  BY <1>17, <1>a DEF RefuseUnpatchable, heap
<1>18. ASSUME NEW w \in Workers, NEW b \in Bugs, Patch(w, b) PROVE Remembered'
  <2>1. \A e \in Endpoints : \A c \in BugsOf[e] \cap Patchable :
          Exclusive(e) /\ c \in code[e].guards => c \in code'[e].guards
    BY <1>18, GuardsAreKept
  <2>2. /\ endpoint[w] \in Endpoints /\ b \in BugsOf[endpoint[w]] \cap Patchable
        /\ code' = [code EXCEPT ![endpoint[w]] = Guarded(w, b)]
        /\ seen' = seen \cup {SiteOf[b]} /\ server' = server
    BY <1>18 DEF Patch, Repaired, CanPatch, Fails, Hits, Steps
  <2>3. b \in code'[endpoint[w]].guards
    BY <2>2 DEF TypeOK, Guarded
  <2> QED BY <2>1, <2>2, <2>3 DEF Remembered, Exclusive
<1>19. ASSUME NEW w \in Workers, RefuseReplay(w) PROVE Remembered'
  BY <1>19, <1>a DEF RefuseReplay, heap
<1>20. ASSUME NEW w \in Workers, Refused(w) PROVE Remembered'
  BY <1>20, <1>a DEF Refused, heap
<1> QED BY <1>1, <1>2, <1>3, <1>4, <1>5, <1>6, <1>7, <1>8, <1>9, <1>10, <1>11,
          <1>12, <1>13, <1>14, <1>15, <1>16, <1>17, <1>18, <1>19, <1>20
       DEF Next, Wsgi, Asgi

----------------------------------------------------------------------------
LEMMA InvStep == Inv /\ [Next]_vars => Inv'
BY Typing, RequestsKept, StepsKept, RememberedKept, ResponsesKept DEF Inv

(* The state has its types: a request makes at most one code object, and    *)
(* starts at most two responses.                                           *)
THEOREM TypeCorrect == Spec => []TypeOK
<1>1. Inv => TypeOK
  BY DEF Inv
<1> QED BY InvInit, InvStep, <1>1, PTL DEF Spec

(* A site that the middleware never patches again has its guard in the live *)
(* function, and a replay runs with the guard it was made for, whatever    *)
(* the other threads or tasks do in between.                               *)
THEOREM GuardsStayInPlace == Spec => []GuardsStay
<1>1. Inv => GuardsStay
  BY Constants DEF Inv, Steps, Remembered, GuardsStay
<1> QED BY InvInit, InvStep, <1>1, PTL DEF Spec

(* A replay starts on an unused connection under ASGI, and under WSGI has   *)
(* answered exactly once when it returns.                                  *)
THEOREM ReplaysAnswerOnce == Spec => []ReplayAnswersOnce
<1>1. Inv => ReplayAnswersOnce
  BY DEF Inv, Responses, ReplayAnswersOnce
<1> QED BY InvInit, InvStep, <1>1, PTL DEF Spec
=============================================================================
