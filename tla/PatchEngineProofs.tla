------------------------- MODULE PatchEngineProofs -------------------------
(***************************************************************************)
(* Proofs about PatchEngine, for any number of threads, functions, crash   *)
(* kinds and addresses.  The inductive invariants:                         *)
(*                                                                         *)
(*   TypeInv   types, locals at each step, no dangling references          *)
(*   BodyInv   whose body a code object holds                              *)
(*   CountInv  what a counted patch left on record                         *)
(*   GuardInv  which guards a function has, whoever patches it; one crash  *)
(*             signature per function and no rollbacks                     *)
(*   ApartInv  what memory, backups and store make of each other while no  *)
(*             two handlers patch the same function at once and rollbacks  *)
(*             come between the healing                                    *)
(***************************************************************************)
EXTENDS PatchEngine, TLAPS

(* What the local variables of _handle_exception hold at each point of it. *)
HasOld == {"synth", "persist", "replace", "save", "publish", "count", "repin",
           "rewind", "fallback", "again", "backup"}
HasNew == HasOld \ {"synth", "backup"}

Stages ==
  \A t \in Threads :
    /\ pc[t] # "run" => exc[t] # None /\ crash[t] # None
    /\ pc[t] \notin {"run", "hook"} => stack[t] # <<>>
    /\ old[t] # None <=> pc[t] \in HasOld
    /\ new[t] # None <=> pc[t] \in HasNew
    /\ pc[t] \in {"backup", "repin"} => func[t] # None
    /\ pc[t] \in HasOld /\ spec[t].target # None => func[t] # None

(* There is a code object at every address something refers to. *)
NoDangling ==
  /\ \A f \in Funcs : heap[fcode[f]] \in Code /\ heap[Pristine[f]] \in Code
  /\ \A k \in Keys : originals[k] # None => heap[originals[k]] \in Code
  /\ \A t \in Threads : \A i \in 1 .. Len(stack[t]) :
       heap[stack[t][i].code] \in Code
  /\ \A t \in Threads : old[t] # None => heap[old[t]] \in Code
  /\ \A t \in Threads : new[t] # None => heap[new[t]] \in Code

TypeInv == TypeOK /\ Stages /\ NoDangling

LEMMA HeadOfMany ==
  ASSUME NEW S, NEW q \in Seq(S), Len(q) > 0
  PROVE  q # <<>> /\ Head(q) = q[1]
OBVIOUS

USE PatchEngineAssumption

LEMMA TypeInit == Init => TypeInv
<1> SUFFICES ASSUME Init PROVE TypeInv
    OBVIOUS
<1>1. TypeOK
  <2>1. heap \in [Codes -> Code \cup {None}]
    BY DEF Init, Code
  <2>2. NoSpecYet \in Specs
    BY DEF NoSpecYet, Specs, Target
  <2> QED
    BY <2>1, <2>2 DEF Init, TypeOK, PCs, Target
<1>2. Stages
  BY DEF Init, Stages, HasOld, HasNew, NoSpecYet
<1>3. NoDangling
  <2>1. \A f \in Funcs : heap[Pristine[f]] \in Code
    BY DEF Init, Code
  <2>2. \A t \in Threads : stack[t] = <<>> /\ old[t] = None /\ new[t] = None
    BY DEF Init
  <2>3. /\ \A f \in Funcs : fcode[f] = Pristine[f]
        /\ \A k \in Keys : originals[k] = None
    BY DEF Init
  <2> QED
    BY <2>1, <2>2, <2>3 DEF NoDangling
<1> QED
  BY <1>1, <1>2, <1>3 DEF TypeInv

LEMMA PushFrame ==
  ASSUME NEW s \in Seq(Frame), NEW fr \in Frame
  PROVE  /\ <<fr>> \o s \in Seq(Frame) /\ <<fr>> \o s # <<>>
         /\ Head(<<fr>> \o s) = fr
         /\ \A i \in 1 .. Len(<<fr>> \o s) :
              \/ (<<fr>> \o s)[i] = fr
              \/ \E j \in 1 .. Len(s) : (<<fr>> \o s)[i] = s[j]
<1>1. /\ Len(<<fr>> \o s) = Len(s) + 1
      /\ \A i \in 1 .. Len(s) + 1 : (<<fr>> \o s)[i] = IF i = 1 THEN fr ELSE s[i - 1]
  OBVIOUS
<1>2. \A i \in 1 .. Len(s) + 1 : i # 1 => i - 1 \in 1 .. Len(s)
  OBVIOUS
<1> QED
  BY <1>1, <1>2

LEMMA PopFrame ==
  ASSUME NEW s \in Seq(Frame), s # <<>>
  PROVE  /\ Tail(s) \in Seq(Frame) /\ Head(s) \in Frame /\ Head(s) = s[1]
         /\ 1 \in 1 .. Len(s)
         /\ Len(s) > 1 => Tail(s) # <<>> /\ Head(Tail(s)) = s[2]
         /\ \A i \in 1 .. Len(Tail(s)) : \E j \in 1 .. Len(s) : Tail(s)[i] = s[j]
<1>1. Tail(s) \in Seq(Frame) /\ Head(s) \in Frame /\ Head(s) = s[1]
      /\ 1 \in 1 .. Len(s)
  OBVIOUS
<1>2. /\ Len(Tail(s)) = Len(s) - 1
      /\ \A i \in 1 .. Len(s) - 1 : Tail(s)[i] = s[i + 1] /\ i + 1 \in 1 .. Len(s)
  OBVIOUS
<1>3. Len(s) > 1 => Tail(s) # <<>> /\ Head(Tail(s)) = s[2]
  <2> SUFFICES ASSUME Len(s) > 1 PROVE Tail(s) # <<>> /\ Head(Tail(s)) = s[2]
      OBVIOUS
  <2>1. Tail(s) \in Seq(Frame) /\ Len(Tail(s)) > 0 /\ Tail(s)[1] = s[2]
    BY <1>1, <1>2
  <2> QED
    BY <2>1, HeadOfMany
<1> QED
  BY <1>1, <1>2, <1>3

LEMMA KeyOfFunction == \A f \in Funcs : Key(f) \in Keys /\ Key(f)[2] = Name[f]
BY DEF Key, Keys

LEMMA TopFrame ==
  ASSUME TypeInv, NEW t \in Threads, stack[t] # <<>>
  PROVE  /\ Top(t) \in Frame /\ Top(t).fn \in Funcs /\ Top(t).code \in Codes
         /\ heap[Top(t).code] \in Code
         /\ Body(Top(t)) \in Funcs /\ Key(Body(Top(t))) \in Keys
         /\ FunctionsOf(Top(t)) \subseteq Target
<1>1. Top(t) \in Frame /\ Top(t) = stack[t][1] /\ 1 \in 1 .. Len(stack[t])
  BY PopFrame DEF TypeInv, TypeOK, Top
<1>2. /\ Top(t).fn \in Funcs /\ Top(t).code \in Codes
      /\ heap[Top(t).code] \in Code
  BY <1>1 DEF TypeInv, NoDangling, Frame
<1>3. Body(Top(t)) \in Funcs
  BY <1>2 DEF Body, Code
<1>4. FunctionsOf(Top(t)) \subseteq Target
  BY DEF FunctionsOf, Target
<1> QED
  BY <1>1, <1>2, <1>3, <1>4, KeyOfFunction

LEMMA LeaveKeeps ==
  ASSUME TypeInv, NEW t \in Threads, Leave(t), UNCHANGED <<code_vars, stack, exc, crash>>,
         pc[t] # "run", pc[t] # "hook"
  PROVE  /\ spec' \in [Threads -> Specs] /\ func' \in [Threads -> Target]
         /\ old' \in [Threads -> Codes \cup {None}]
         /\ new' \in [Threads -> Codes \cup {None}]
         /\ pc' \in [Threads -> PCs]
         /\ Stages'
         /\ NoDangling'
<1> USE DEF TypeInv, Leave, Goto
<1>1. /\ spec' \in [Threads -> Specs] /\ func' \in [Threads -> Target]
      /\ old' \in [Threads -> Codes \cup {None}]
      /\ new' \in [Threads -> Codes \cup {None}]
      /\ pc' \in [Threads -> PCs]
  BY DEF TypeOK, Specs, Target, NoSpecYet, PCs
<1>2. Stages'
  BY DEF Stages, HasOld, HasNew, NoSpecYet, TypeOK
<1>3. NoDangling'
  <2>1. \A u \in Threads : old'[u] \in {old[u], None} /\ new'[u] \in {new[u], None}
    BY DEF TypeOK
  <2> QED
    BY <2>1 DEF NoDangling, code_vars
<1> QED
  BY <1>1, <1>2, <1>3

LEMMA PoppedFrames ==
  ASSUME TypeInv, NEW t \in Threads, stack[t] # <<>>,
         stack' = [stack EXCEPT ![t] = Tail(stack[t])],
         UNCHANGED <<code_vars, old, new>>
  PROVE  /\ stack' \in [Threads -> Seq(Frame)]
         /\ NoDangling'
<1> USE DEF TypeInv, code_vars
<1>1. /\ Tail(stack[t]) \in Seq(Frame)
      /\ \A i \in 1 .. Len(Tail(stack[t])) :
           \E j \in 1 .. Len(stack[t]) : Tail(stack[t])[i] = stack[t][j]
  BY PopFrame DEF TypeOK
<1>2. \A u \in Threads : \A i \in 1 .. Len(stack'[u]) : heap[stack'[u][i].code] \in Code
  <2> TAKE u \in Threads
  <2>1. CASE u = t
    BY <1>1, <2>1 DEF TypeOK, NoDangling
  <2>2. CASE u # t
    BY <2>2 DEF TypeOK, NoDangling
  <2> QED
    BY <2>1, <2>2
<1> QED
  BY <1>1, <1>2 DEF TypeOK, NoDangling

LEMMA ApplicationKeeps ==
  ASSUME TypeInv, NEW t \in Threads
  PROVE  /\ \A f \in Funcs : Call(t, f) => TypeInv'
         /\ Return(t) => TypeInv'
         /\ \A c \in Crashes, e \in Excs : Raise(t, c, e) => TypeInv'
<1> USE DEF TypeInv, code_vars, know_vars, exc_vars, locals, bounds
<1>1. ASSUME NEW f \in Funcs, Call(t, f) PROVE TypeInv'
  <2> DEFINE fr == [fn |-> f, code |-> fcode[f]]
  <2>1. fr \in Frame /\ heap[fr.code] \in Code /\ stack[t] \in Seq(Frame)
    BY DEF TypeOK, Frame, NoDangling
  <2>2. /\ stack' = [stack EXCEPT ![t] = <<fr>> \o stack[t]]
        /\ <<fr>> \o stack[t] \in Seq(Frame) /\ <<fr>> \o stack[t] # <<>>
        /\ \A i \in 1 .. Len(<<fr>> \o stack[t]) :
              \/ (<<fr>> \o stack[t])[i] = fr
              \/ \E j \in 1 .. Len(stack[t]) : (<<fr>> \o stack[t])[i] = stack[t][j]
    BY <1>1, <2>1, PushFrame DEF Call
  <2> HIDE DEF fr
  <2>3. TypeOK'
    BY <1>1, <2>2 DEF Call, TypeOK
  <2>4. Stages'
    BY <1>1, <2>2 DEF Call, TypeOK, Stages, HasOld, HasNew
  <2>5. NoDangling'
    <3>1. \A u \in Threads : \A i \in 1 .. Len(stack'[u]) :
             heap[stack'[u][i].code] \in Code
      <4> TAKE u \in Threads
      <4>1. CASE u = t
        BY <2>1, <2>2, <4>1 DEF TypeOK, NoDangling
      <4>2. CASE u # t
        BY <2>2, <4>2 DEF TypeOK, NoDangling
      <4> QED
        BY <4>1, <4>2
    <3> QED
      BY <1>1, <3>1 DEF Call, NoDangling
  <2> QED
    BY <2>3, <2>4, <2>5
<1>2. ASSUME Return(t) PROVE TypeInv'
  <2>1. /\ Tail(stack[t]) \in Seq(Frame)
        /\ \A i \in 1 .. Len(Tail(stack[t])) :
             \E j \in 1 .. Len(stack[t]) : Tail(stack[t])[i] = stack[t][j]
    BY <1>2, PopFrame DEF Return, TypeOK
  <2>2. TypeOK'
    BY <1>2, <2>1 DEF Return, TypeOK
  <2>3. Stages'
    BY <1>2 DEF Return, TypeOK, Stages, HasOld, HasNew
  <2>4. NoDangling'
    <3>1. stack' = [stack EXCEPT ![t] = Tail(stack[t])]
      BY <1>2 DEF Return
    <3> QED
      BY <1>2, <2>1, <3>1, PoppedFrames DEF Return
  <2> QED
    BY <2>2, <2>3, <2>4
<1>3. ASSUME NEW c \in Crashes, NEW e \in Excs, Raise(t, c, e) PROVE TypeInv'
  <2>1. /\ exc' \in [Threads -> Excs \cup {None}]
        /\ crash' \in [Threads -> Crashes \cup {None}]
        /\ mine' \in [Threads -> BOOLEAN] /\ sent' \in [Threads -> Nat]
        /\ raises' \in 0 .. MaxRaises /\ seen' \subseteq Excs
        /\ pc' \in [Threads -> PCs]
    BY <1>3 DEF Raise, TypeOK, Goto, PCs
  <2>2. TypeOK'
    BY <1>3, <2>1 DEF Raise, TypeOK
  <2>3. Stages'
    BY <1>3 DEF Raise, Goto, TypeOK, Stages, HasOld, HasNew
  <2>4. NoDangling'
    BY <1>3 DEF Raise, TypeOK, NoDangling
  <2> QED
    BY <2>2, <2>3, <2>4
<1> QED
  BY <1>1, <1>2, <1>3

LEMMA AnalysisKeeps ==
  ASSUME TypeInv, NEW t \in Threads,
         CheckHandled(t) \/ Analyze(t) \/ Attempt(t) \/ Reuse(t) \/ Resolve(t)
  PROVE  TypeInv'
<1> USE DEF TypeInv, code_vars, know_vars, exc_vars, flight, bounds
<1>1. CASE CheckHandled(t)
  <2>1. /\ pc[t] = "check"
        /\ \/ pc' = [pc EXCEPT ![t] = "unwind"]
           \/ pc' = [pc EXCEPT ![t] = "analyze"]
    BY <1>1 DEF CheckHandled, Goto
  <2>2. TypeOK'
    BY <1>1, <2>1 DEF CheckHandled, TypeOK, PCs, locals
  <2>3. Stages'
    BY <1>1, <2>1 DEF CheckHandled, TypeOK, Stages, HasOld, HasNew, locals
  <2>4. NoDangling'
    BY <1>1 DEF CheckHandled, NoDangling, locals
  <2> QED
    BY <2>2, <2>3, <2>4
<1>2. CASE Analyze(t)
  <2>1. crash[t] \in Crashes /\ Fix[crash[t]] \in Funcs /\ pc[t] = "analyze"
    BY <1>2 DEF Analyze, TypeOK, Stages
  <2>2. \E s \in Specs, p \in {"attempt", "unwind"} :
           spec' = [spec EXCEPT ![t] = s] /\ pc' = [pc EXCEPT ![t] = p]
    <3>1. spec[t] \in Specs
      BY DEF TypeOK
    <3>2. ASSUME crash[t] \in registry,
                 spec' = [spec EXCEPT ![t] = [NoSpecYet EXCEPT !.cached = TRUE]],
                 Goto(t, "attempt")
          PROVE  <2>2
      BY <3>2 DEF Goto, NoSpecYet, Specs, Target
    <3>3. ASSUME spec' = [spec EXCEPT ![t].target =
                            IF Fix[crash[t]] = At[crash[t]] THEN None ELSE Fix[crash[t]]],
                 Goto(t, "attempt")
          PROVE  <2>2
      BY <2>1, <3>1, <3>3 DEF Goto, Specs, Target
    <3>4. ASSUME Goto(t, "unwind"), UNCHANGED spec PROVE <2>2
      BY <3>1, <3>4 DEF Goto, TypeOK
    <3> QED
      BY <1>2, <3>2, <3>3, <3>4 DEF Analyze
  <2>3. TypeOK'
    <3>1. spec' \in [Threads -> Specs] /\ pc' \in [Threads -> PCs]
      BY <2>2 DEF TypeOK, PCs
    <3> QED
      BY <1>2, <3>1 DEF Analyze, TypeOK
  <2>4. Stages'
    BY <1>2, <2>1, <2>2 DEF Analyze, TypeOK, Stages, HasOld, HasNew
  <2>5. NoDangling'
    BY <1>2 DEF Analyze, NoDangling
  <2> QED
    BY <2>3, <2>4, <2>5
<1>3. CASE Attempt(t)
  <2>1. stack[t] # <<>> /\ crash[t] \in Crashes /\ pc[t] = "attempt"
    BY <1>3 DEF Attempt, TypeOK, Stages
  <2> DEFINE key == <<Top(t).code, crash[t]>>
  <2>2. key \in Codes \X Crashes
    BY <2>1, TopFrame
  <2>3. attempts' \in [Codes \X Crashes -> 0 .. MaxRetries]
    <3>1. attempts[key] \in 0 .. MaxRetries
      BY <2>2 DEF TypeOK
    <3>2. \/ attempts' = attempts
          \/ ~(attempts[key] >= MaxRetries)
             /\ attempts' = [attempts EXCEPT ![key] = attempts[key] + 1]
      BY <1>3 DEF Attempt
    <3>3. ASSUME ~(attempts[key] >= MaxRetries)
          PROVE  attempts[key] + 1 \in 0 .. MaxRetries
      BY <3>1, <3>3
    <3> HIDE DEF key
    <3>4. CASE attempts' = [attempts EXCEPT ![key] = attempts[key] + 1]
               /\ ~(attempts[key] >= MaxRetries)
      <4> DEFINE n == attempts[key] + 1
      <4>1. n \in 0 .. MaxRetries /\ attempts' = [attempts EXCEPT ![key] = n]
        BY <3>3, <3>4
      <4> HIDE DEF n
      <4> QED
        BY <2>2, <4>1 DEF TypeOK
    <3> QED
      BY <3>2, <3>4 DEF TypeOK
  <2>4. CASE Leave(t)
    BY <1>3, <2>1, <2>3, <2>4, LeaveKeeps DEF Attempt, TypeOK
  <2>5. CASE Goto(t, "reuse") /\ UNCHANGED locals
    <3>1. TypeOK'
      BY <1>3, <2>3, <2>5 DEF Attempt, Goto, TypeOK, PCs, locals
    <3>2. Stages'
      BY <1>3, <2>1, <2>5 DEF Attempt, Goto, TypeOK, Stages, HasOld, HasNew, locals
    <3>3. NoDangling'
      BY <1>3, <2>5 DEF Attempt, NoDangling, locals
    <3> QED
      BY <3>1, <3>2, <3>3
  <2> QED
    BY <1>3, <2>4, <2>5 DEF Attempt
<1>4. CASE Reuse(t)
  <2>1. crash[t] \in Crashes /\ Sig[crash[t]] \in Sigs
    BY <1>4 DEF Reuse, TypeOK, Stages
  <2>2. spec' \in [Threads -> Specs]
    <3>1. spec[t] \in Specs /\ sigs[Sig[crash[t]]] \in Target \cup {"absent"}
      BY <2>1 DEF TypeOK
    <3>2. \/ spec' = spec
          \/ /\ sigs[Sig[crash[t]]] \in Target
             /\ spec' = [spec EXCEPT ![t].target = sigs[Sig[crash[t]]], ![t].reuse = TRUE]
      BY <1>4, <3>1 DEF Reuse
    <3>3. ASSUME NEW g \in Target
          PROVE  [[spec[t] EXCEPT !.target = g] EXCEPT !.reuse = TRUE] \in Specs
      BY <3>1 DEF Specs
    <3>4. CASE spec' = spec
      BY <3>4 DEF TypeOK
    <3>5. ASSUME NEW g \in Target,
                 spec' = [spec EXCEPT ![t].target = g, ![t].reuse = TRUE]
          PROVE  spec' \in [Threads -> Specs]
      <4>1. spec' = [spec EXCEPT ![t] = [[spec[t] EXCEPT !.target = g] EXCEPT !.reuse = TRUE]]
        BY <3>5 DEF TypeOK
      <4> QED
        BY <3>3, <4>1 DEF TypeOK
    <3> QED
      BY <3>2, <3>4, <3>5
  <2>3. TypeOK'
    BY <1>4, <2>2 DEF Reuse, Goto, TypeOK, PCs
  <2>4. Stages'
    BY <1>4 DEF Reuse, Goto, TypeOK, Stages, HasOld, HasNew
  <2>5. NoDangling'
    BY <1>4 DEF Reuse, NoDangling
  <2> QED
    BY <2>3, <2>4, <2>5
<1>5. CASE Resolve(t)
  <2>0. PICK f \in IF spec[t].target # None THEN {spec[t].target}
                                             ELSE FunctionsOf(Top(t)) :
          /\ func' = [func EXCEPT ![t] = f]
          /\ old' = [old EXCEPT ![t] = IF spec[t].target # None THEN fcode[f]
                                                               ELSE Top(t).code]
          /\ Goto(t, IF f # None /\ originals[Key(Body(Top(t)))] = None
                     THEN "backup" ELSE "synth")
    BY <1>5 DEF Resolve
  <2> DEFINE o == IF spec[t].target # None THEN fcode[f] ELSE Top(t).code
             p == IF f # None /\ originals[Key(Body(Top(t)))] = None
                  THEN "backup" ELSE "synth"
  <2>1. /\ pc[t] = "resolve"
        /\ func' = [func EXCEPT ![t] = f] /\ old' = [old EXCEPT ![t] = o]
        /\ pc' = [pc EXCEPT ![t] = p]
        /\ UNCHANGED <<code_vars, know_vars, exc_vars, spec, new, flight, bounds,
                       patchLock, admin>>
    BY <1>5, <2>0 DEF Resolve, Goto
  <2>2. stack[t] # <<>>
    BY <2>1 DEF Stages
  <2>3. f \in Target /\ (spec[t].target # None => f # None)
    BY <2>0, <2>2, TopFrame DEF TypeOK, Specs
  <2>4. o \in Codes /\ heap[o] \in Code
    BY <2>2, <2>3, TopFrame DEF TypeOK, NoDangling, Target
  <2>5. p \in {"backup", "synth"} /\ (p = "backup" => f # None)
    OBVIOUS
  <2> HIDE DEF o, p
  <2>6. TypeOK'
    BY <2>1, <2>3, <2>4, <2>5 DEF TypeOK, PCs
  <2>7. o # None
    BY <2>4
  <2>8. Stages'
    BY <2>1, <2>2, <2>3, <2>5, <2>7 DEF TypeOK, Stages, HasOld, HasNew
  <2>9. NoDangling'
    BY <2>1, <2>4 DEF TypeOK, NoDangling
  <2> QED
    BY <2>6, <2>8, <2>9
<1> QED
  BY <1>1, <1>2, <1>3, <1>4, <1>5

LEMMA PatchKeeps ==
  ASSUME TypeInv, NEW t \in Threads,
         \/ Backup(t) \/ Synth(t) \/ Persist(t) \/ Replace(t)
         \/ Save(t) \/ Publish(t) \/ Count(t) \/ Repin(t)
  PROVE  TypeInv'
<1> USE DEF TypeInv, code_vars, know_vars, exc_vars, flight, bounds
<1>1. CASE Backup(t)
  <2>1. /\ Key(Body(Top(t))) \in Keys /\ func[t] \in Funcs /\ fcode[func[t]] \in Codes
        /\ heap[fcode[func[t]]] \in Code
    BY <1>1, TopFrame DEF Backup, Stages, TypeOK, Target, NoDangling
  <2>2. TypeOK'
    BY <1>1, <2>1 DEF Backup, Goto, TypeOK, PCs, locals
  <2>3. Stages'
    BY <1>1 DEF Backup, Goto, TypeOK, Stages, HasOld, HasNew, locals
  <2>4. NoDangling'
    BY <1>1, <2>1 DEF Backup, TypeOK, NoDangling, locals
  <2> QED
    BY <2>2, <2>3, <2>4
<1>2. CASE Synth(t)
  <2>1. stack[t] # <<>> /\ crash[t] \in Crashes /\ old[t] \in Codes /\ heap[old[t]] \in Code
    BY <1>2 DEF Synth, Stages, TypeOK, NoDangling, HasOld
  <2>2. CASE Leave(t) /\ UNCHANGED heap
    BY <1>2, <2>2, LeaveKeeps DEF Synth, TypeOK
  <2>3. ASSUME NEW c \in Codes \ LiveCodes,
               heap' = [heap EXCEPT ![c] =
                          [heap[old[t]] EXCEPT !.guards = @ \cup {Sig[crash[t]]}]],
               new' = [new EXCEPT ![t] = c], Goto(t, "persist"),
               UNCHANGED <<spec, func, old>>
        PROVE  TypeInv'
    <3> DEFINE k == [heap[old[t]] EXCEPT !.guards = @ \cup {Sig[crash[t]]}]
    <3>1. k \in Code /\ heap' = [heap EXCEPT ![c] = k]
      BY <2>1, <2>3 DEF Code
    <3> HIDE DEF k
    <3>2. TypeOK'
      <4>1. heap' \in [Codes -> Code \cup {None}]
        BY <3>1 DEF TypeOK
      <4>2. new' \in [Threads -> Codes \cup {None}] /\ pc' \in [Threads -> PCs]
        BY <2>3 DEF Goto, TypeOK, PCs
      <4> QED
        BY <1>2, <2>3, <4>1, <4>2 DEF Synth, TypeOK
    <3>3. Stages'
      BY <1>2, <2>3 DEF Synth, Goto, TypeOK, Stages, HasOld, HasNew
    <3>4. \A x \in Codes : heap[x] \in Code => heap'[x] \in Code
      BY <3>1 DEF TypeOK
    <3>5. NoDangling'
      <4>1. /\ \A f \in Funcs : heap'[fcode[f]] \in Code /\ heap'[Pristine[f]] \in Code
            /\ \A k2 \in Keys : originals[k2] # None => heap'[originals[k2]] \in Code
            /\ \A u \in Threads : old[u] # None => heap'[old[u]] \in Code
        BY <3>4 DEF TypeOK, NoDangling
      <4>2. \A u \in Threads : \A i \in 1 .. Len(stack[u]) : stack[u][i] \in Frame
        BY DEF TypeOK
      <4>3. \A u \in Threads : \A i \in 1 .. Len(stack[u]) : heap'[stack[u][i].code] \in Code
        BY <3>4, <4>2 DEF NoDangling, Frame
      <4>4. \A u \in Threads : new'[u] # None => heap'[new'[u]] \in Code
        <5> TAKE u \in Threads
        <5>1. CASE u = t
          <6>1. new'[u] = c
            BY <2>3, <5>1 DEF TypeOK
          <6>2. heap'[c] = k
            BY <3>1 DEF TypeOK
          <6> QED
            BY <3>1, <6>1, <6>2
        <5>2. CASE u # t
          <6>1. new'[u] = new[u]
            BY <2>3, <5>2 DEF TypeOK
          <6> QED
            BY <3>4, <6>1 DEF TypeOK, NoDangling
        <5> QED
          BY <5>1, <5>2
      <4> QED
        BY <1>2, <2>3, <4>1, <4>3, <4>4 DEF Synth, NoDangling
    <3> QED
      BY <3>2, <3>3, <3>5
  <2> QED
    BY <1>2, <2>2, <2>3 DEF Synth
<1>3. CASE Persist(t)
  <2>1. TypeOK'
    BY <1>3 DEF Persist, Stages, Goto, TypeOK, PCs, locals, HasNew, HasOld
  <2>2. Stages'
    BY <1>3 DEF Persist, Goto, TypeOK, Stages, HasOld, HasNew, locals
  <2>3. NoDangling'
    BY <1>3 DEF Persist, Stages, TypeOK, NoDangling, locals, HasNew, HasOld
  <2> QED
    BY <2>1, <2>2, <2>3
<1>4. CASE Replace(t)
  <2>1. new[t] \in Codes /\ heap[new[t]] \in Code
    BY <1>4 DEF Replace, Stages, TypeOK, NoDangling, HasNew, HasOld
  <2>2. \A g \in Funcs : fcode'[g] \in {fcode[g], new[t]}
    BY <1>4 DEF Replace
  <2>3. fcode' \in [Funcs -> Codes]
    BY <1>4, <2>1 DEF Replace, TypeOK
  <2>4. TypeOK'
    BY <1>4, <2>3 DEF Replace, Goto, TypeOK, PCs, locals
  <2>5. Stages'
    BY <1>4 DEF Replace, Goto, TypeOK, Stages, HasOld, HasNew, locals
  <2>6. NoDangling'
    BY <1>4, <2>1, <2>2 DEF Replace, NoDangling, locals
  <2> QED
    BY <2>4, <2>5, <2>6
<1>5. CASE Save(t)
  <2>0. store' \in [Files -> Code \cup {None}] /\ unsaved' \subseteq Files
    <3>1. heap[new[t]] \in Code
      BY <1>5 DEF Save, Stages, NoDangling, HasNew, HasOld
    <3>2. /\ \/ UNCHANGED store
             \/ store' = [store EXCEPT ![File[func[t]]] = heap[new[t]]]
             \/ store' = [store EXCEPT ![File[func[t]]] = None]
          /\ \/ unsaved' \subseteq unsaved
             \/ func[t] # None /\ unsaved' = unsaved \cup {File[func[t]]}
      BY <1>5 DEF Save, Saved, NotSaved
    <3>3. store \in [Files -> Code \cup {None}] /\ unsaved \subseteq Files
      BY DEF TypeOK
    <3>4. func[t] # None => File[func[t]] \in Files
      BY DEF TypeOK, Target
    <3>5. store' \in [Files -> Code \cup {None}]
      BY <3>1, <3>2, <3>3
    <3>6. unsaved' \subseteq Files
      BY <3>2, <3>3, <3>4
    <3> QED
      BY <3>5, <3>6
  <2>1. CASE Leave(t)
    BY <1>5, <2>0, <2>1, LeaveKeeps DEF Save, TypeOK
  <2>2. CASE ~Leave(t)
    <3>2. pc' = [pc EXCEPT ![t] = "publish"] /\ UNCHANGED locals
      BY <1>5, <2>2 DEF Save, Goto
    <3>3. TypeOK'
      BY <1>5, <2>0, <3>2 DEF Save, TypeOK, PCs, locals
    <3>4. Stages'
      BY <1>5, <3>2 DEF Save, TypeOK, Stages, HasOld, HasNew, locals
    <3>5. NoDangling'
      BY <1>5, <3>2 DEF Save, NoDangling, locals
    <3> QED
      BY <3>3, <3>4, <3>5
  <2> QED
    BY <2>1, <2>2
<1>6. CASE Publish(t)
  <2>1. TypeOK'
    BY <1>6 DEF Publish, Stages, Goto, TypeOK, PCs, locals, Specs
  <2>2. Stages'
    BY <1>6 DEF Publish, Goto, TypeOK, Stages, HasOld, HasNew, locals
  <2>3. NoDangling'
    BY <1>6 DEF Publish, NoDangling, locals
  <2> QED
    BY <2>1, <2>2, <2>3
<1>7. CASE Count(t)
  <2>1. exc[t] \in Excs /\ crash[t] \in Crashes /\ pc[t] = "count"
    BY <1>7 DEF Count, Stages, TypeOK
  <2>2. /\ patched' \in Nat /\ handled' \subseteq Excs
        /\ applied' \in [Crashes -> Nat] /\ mine' \in [Threads -> BOOLEAN]
    BY <1>7, <2>1 DEF Count, TypeOK
  <2>3. CASE Leave(t)
    BY <1>7, <2>1, <2>2, <2>3, LeaveKeeps DEF Count, TypeOK
  <2>4. CASE func[t] # None /\ Goto(t, "repin") /\ UNCHANGED locals
    <3>1. TypeOK'
      BY <1>7, <2>2, <2>4 DEF Count, Goto, TypeOK, PCs, locals
    <3>2. Stages'
      BY <1>7, <2>1, <2>4 DEF Count, Goto, TypeOK, Stages, HasOld, HasNew, locals
    <3>3. NoDangling'
      BY <1>7, <2>4 DEF Count, NoDangling, locals
    <3> QED
      BY <3>1, <3>2, <3>3
  <2> QED
    BY <1>7, <2>3, <2>4 DEF Count
<1>8. CASE Repin(t)
  <2>1. TypeOK'
    BY <1>8 DEF Repin, Stages, Goto, TypeOK, PCs, locals, HasNew, HasOld
  <2>2. Stages'
    BY <1>8 DEF Repin, Goto, TypeOK, Stages, HasOld, HasNew, locals
  <2>3. NoDangling'
    BY <1>8 DEF Repin, Stages, TypeOK, NoDangling, locals, HasNew, HasOld
  <2> QED
    BY <2>1, <2>2, <2>3
<1> QED
  BY <1>1, <1>2, <1>3, <1>4, <1>5, <1>6, <1>7, <1>8

LEMMA RewindKeeps ==
  ASSUME TypeInv, NEW t \in Threads,
         Rewind(t) \/ Fallback(t) \/ FallbackAgain(t)
  PROVE  TypeInv'
<1> USE DEF TypeInv, know_vars, exc_vars, flight, bounds
<1>1. /\ exc[t] \in Excs /\ stack[t] # <<>>
      /\ pc[t] \in {"rewind", "fallback", "again"}
  BY DEF Rewind, Fallback, FallbackAgain, Stages, TypeOK
<1>2. /\ handled' \subseteq Excs /\ rewound' \subseteq Excs
      /\ sent' \in [Threads -> Nat] /\ patchLock' \in Threads \cup {None}
      /\ UNCHANGED <<patched, applied, mine>>
  <2>1. /\ handled' \in {handled, handled \cup {exc[t]}}
        /\ rewound' \in {rewound, rewound \cup {exc[t]}}
        /\ patchLock' \in {patchLock, t, None}
        /\ sent' = sent \/ sent' = [sent EXCEPT ![t] = @ + 1]
        /\ UNCHANGED <<patched, applied, mine>>
    BY DEF Rewind, Fallback, FallbackAgain
  <2>2. handled' \subseteq Excs /\ rewound' \subseteq Excs /\ patchLock' \in Threads \cup {None}
    BY <1>1, <2>1 DEF TypeOK
  <2>3. sent' \in [Threads -> Nat]
    <3>1. sent[t] + 1 \in Nat /\ sent \in [Threads -> Nat]
      BY DEF TypeOK
    <3> QED
      BY <2>1, <3>1
  <2> QED
    BY <2>1, <2>2, <2>3
<1>3. UNCHANGED <<code_vars, know_vars, flight, bounds, admin>>
  BY DEF Rewind, Fallback, FallbackAgain
<1>4. CASE Leave(t)
  <2>1. /\ Stages' /\ NoDangling'
        /\ spec' \in [Threads -> Specs] /\ func' \in [Threads -> Target]
        /\ old' \in [Threads -> Codes \cup {None}]
        /\ new' \in [Threads -> Codes \cup {None}]
        /\ pc' \in [Threads -> PCs]
    BY <1>1, <1>3, <1>4, LeaveKeeps
  <2>2. TypeOK'
    BY <1>2, <1>3, <2>1 DEF TypeOK, code_vars
  <2> QED
    BY <2>1, <2>2
<1>5. ASSUME NEW p \in {"fallback", "again"}, Goto(t, p), UNCHANGED locals
      PROVE  TypeInv'
  <2>1. TypeOK'
    BY <1>2, <1>3, <1>5 DEF Goto, TypeOK, PCs, locals, code_vars
  <2>2. Stages'
    BY <1>1, <1>3, <1>5 DEF Goto, TypeOK, Stages, HasOld, HasNew, locals
  <2>3. NoDangling'
    BY <1>3, <1>5 DEF NoDangling, locals, code_vars
  <2> QED
    BY <2>1, <2>2, <2>3
<1> QED
  BY <1>4, <1>5 DEF Rewind, Fallback, FallbackAgain

LEMMA LeavingKeeps ==
  ASSUME TypeInv, NEW t \in Threads, Leaving(t)
  PROVE  TypeInv'
<1> USE DEF TypeInv, code_vars, know_vars, exc_vars, locals, bounds
<1>1. CASE Catch(t) \/ ExceptHook(t)
  <2>1. TypeOK'
    <3>1. /\ exc' \in [Threads -> Excs \cup {None}]
          /\ crash' \in [Threads -> Crashes \cup {None}]
          /\ pc' \in [Threads -> PCs]
      BY <1>1 DEF Catch, ExceptHook, ForgetException, Goto, TypeOK, PCs
    <3> QED
      BY <1>1, <3>1 DEF Catch, ExceptHook, TypeOK
  <2>2. Stages'
    BY <1>1 DEF Catch, ExceptHook, ForgetException, Goto, TypeOK, Stages, HasOld, HasNew
  <2>3. NoDangling'
    BY <1>1 DEF Catch, ExceptHook, NoDangling
  <2> QED
    BY <2>1, <2>2, <2>3
<1>2. CASE Uncaught(t)
  <2>1. stack' \in [Threads -> Seq(Frame)] /\ stack'[t] = <<>>
    BY <1>2 DEF Uncaught, TypeOK
  <2>2. TypeOK'
    BY <1>2, <2>1 DEF Uncaught, Goto, TypeOK, PCs
  <2>3. Stages'
    BY <1>2 DEF Uncaught, Goto, TypeOK, Stages, HasOld, HasNew
  <2>4. NoDangling'
    BY <1>2, <2>1 DEF Uncaught, TypeOK, NoDangling
  <2> QED
    BY <2>2, <2>3, <2>4
<1>3. ASSUME PassBy(t) \/ \E c \in Crashes : Propagate(t, c)
      PROVE  TypeInv'
  <2>1. /\ pc[t] = "unwind" /\ Len(stack[t]) > 1
        /\ stack' = [stack EXCEPT ![t] = Tail(stack[t])]
        /\ UNCHANGED <<code_vars, know_vars, exc_vars, locals, exc, bounds,
                       patchLock, admin>>
    BY <1>3 DEF PassBy, Propagate
  <2>2. stack[t] \in Seq(Frame) /\ stack[t] # <<>> /\ Tail(stack[t]) # <<>>
    <3>1. stack[t] \in Seq(Frame)
      BY DEF TypeOK
    <3>2. stack[t] # <<>>
      BY <2>1, <3>1
    <3> QED
      BY <2>1, <3>1, <3>2, PopFrame
  <2>3. stack' \in [Threads -> Seq(Frame)] /\ NoDangling'
    BY <2>1, <2>2, PoppedFrames
  <2>4. \E p \in {"unwind", "check"}, k \in Crashes :
            pc' = [pc EXCEPT ![t] = p] /\ crash' = [crash EXCEPT ![t] = k]
    <3>1. CASE PassBy(t)
      BY <3>1 DEF PassBy, TypeOK, Stages
    <3>2. CASE \E c \in Crashes : Propagate(t, c)
      BY <3>2 DEF Propagate, Goto
    <3> QED
      BY <1>3, <3>1, <3>2
  <2>5. TypeOK'
    BY <2>1, <2>3, <2>4 DEF TypeOK, PCs
  <2>6. Stages'
    BY <2>1, <2>2, <2>4 DEF TypeOK, Stages, HasOld, HasNew
  <2> QED
    BY <2>3, <2>5, <2>6
<1> QED
  BY <1>1, <1>2, <1>3 DEF Leaving

LEMMA RollbackKeeps ==
  ASSUME TypeInv, (\E n \in Names : RollbackRuntime(n)) \/ RollbackStore
  PROVE  TypeInv'
<1> USE DEF TypeInv, code_vars, know_vars, exc_vars, locals, flight
<1>1. ASSUME NEW n \in Names, RollbackRuntime(n) PROVE TypeInv'
  <2>1. /\ fcode' \in [Funcs -> Codes] /\ originals' \in [Keys -> Codes \cup {None}]
        /\ \A g \in Funcs : heap[fcode'[g]] \in Code
        /\ \A k \in Keys : originals'[k] \in {originals[k], None}
    <3>1. CASE UNCHANGED <<fcode, originals>>
      BY <3>1 DEF TypeOK, NoDangling
    <3>2. ASSUME NEW g \in Funcs, NEW k \in Keys, originals[k] # None,
                 fcode' = [fcode EXCEPT ![g] = originals[k]],
                 originals' = [originals EXCEPT ![k] = None]
          PROVE  <2>1
      BY <3>2 DEF TypeOK, NoDangling
    <3> QED
      BY <1>1, <3>1, <3>2 DEF RollbackRuntime
  <2>2. TypeOK'
    BY <1>1, <2>1 DEF RollbackRuntime, TypeOK
  <2>3. Stages'
    BY <1>1 DEF RollbackRuntime, Stages
  <2>4. NoDangling'
    BY <1>1, <2>1 DEF RollbackRuntime, NoDangling
  <2> QED
    BY <2>2, <2>3, <2>4
<1>2. ASSUME RollbackStore PROVE TypeInv'
  <2>1. TypeOK'
    BY <1>2 DEF RollbackStore, TypeOK, bounds
  <2>2. Stages'
    BY <1>2 DEF RollbackStore, Stages
  <2>3. NoDangling'
    BY <1>2 DEF RollbackStore, NoDangling
  <2> QED
    BY <2>1, <2>2, <2>3
<1> QED
  BY <1>1, <1>2

LEMMA TypeNext == TypeInv /\ [Next]_vars => TypeInv'
<1> SUFFICES ASSUME TypeInv, [Next]_vars PROVE TypeInv'
    OBVIOUS
<1>1. ASSUME NEW t \in Threads, Handle(t) PROVE TypeInv'
  BY <1>1, AnalysisKeeps, PatchKeeps, RewindKeeps DEF Handle
<1>2. CASE UNCHANGED vars
  BY <1>2 DEF TypeInv, TypeOK, Stages, NoDangling, vars, code_vars, know_vars,
              exc_vars, locals, flight, bounds
<1> QED
  BY <1>1, <1>2, ApplicationKeeps, LeavingKeeps, RollbackKeeps DEF Next

(* Whatever the threads, the crashes and the rollbacks, the handler's state *)
(* has its type, and in particular no crash site of one code object is      *)
(* patched more than MaxRetries times (attempts).                           *)
THEOREM TypeCorrect == Spec => []TypeOK
<1>1. Spec => []TypeInv
  BY TypeInit, TypeNext, PTL DEF Spec
<1> QED
  BY <1>1, PTL DEF TypeInv

(* Whose body a function may run in place of its own: that of a function   *)
(* of its name, and only a rollback puts it there.                          *)
Kin(f, g) == IF MaxRollbacks = 0 THEN f = g ELSE Name[f] = Name[g]

LEMMA KinFacts ==
  /\ \A f \in Funcs : Kin(f, f)
  /\ \A f, g \in Funcs : Kin(f, g) => Kin(g, f) /\ Name[f] = Name[g]
  /\ \A f, g, h \in Funcs : Kin(f, g) /\ Kin(g, h) => Kin(f, h)
BY DEF Kin

(* Under Fix = At no crash is repaired in another function's code: code     *)
(* objects keep the body of a kin of the function they are used for.        *)
CodeBodies ==
  /\ \A f \in Funcs : Kin(heap[fcode[f]].fn, f)
  /\ \A k \in Keys : originals[k] # None =>
       Name[heap[originals[k]].fn] = k[2] /\ \E g \in Funcs : k = Key(g)
  /\ \A l \in Files : store[l] # None =>
       \E g \in Funcs : File[g] = l /\ Kin(store[l].fn, g)
  /\ \A t \in Threads : \A i \in 1 .. Len(stack[t]) :
       Kin(heap[stack[t][i].code].fn, stack[t][i].fn)

LocalBody(t) ==
  /\ spec[t].target = None
  /\ func[t] # None => pc[t] \in HasOld /\ Kin(func[t], Top(t).fn)
  /\ old[t] # None => Kin(heap[old[t]].fn, Top(t).fn)
  /\ new[t] # None => Kin(heap[new[t]].fn, Top(t).fn)

LocalBodies ==
  /\ \A s \in Sigs : sigs[s] \in {None, "absent"}
  /\ \A t \in Threads : LocalBody(t)

BodyInv == TypeInv /\ CodeBodies /\ LocalBodies

USE DEF TypeInv, BodyInv

LEMMA BodyInit == Init /\ Fix = At => BodyInv
<1> SUFFICES ASSUME Init, Fix = At PROVE BodyInv
    OBVIOUS
<1>1. \A f \in Funcs : heap[Pristine[f]].fn = f
  BY DEF Init
<1>2. CodeBodies
  BY <1>1, KinFacts DEF Init, CodeBodies
<1>3. LocalBodies
  BY DEF Init, LocalBodies, LocalBody, NoSpecYet
<1> QED
  BY <1>2, <1>3, TypeInit

(* Every address something refers to is live, so Synth writes to none.     *)
LEMMA LiveNotFree ==
  /\ \A f \in Funcs : Pristine[f] \in LiveCodes /\ fcode[f] \in LiveCodes
  /\ \A k \in Keys : originals[k] \in LiveCodes
  /\ \A u \in Threads : old[u] \in LiveCodes /\ new[u] \in LiveCodes
  /\ \A u \in Threads : \A i \in 1 .. Len(stack[u]) : stack[u][i].code \in LiveCodes
<1>1. \A u \in Threads : \A i \in 1 .. Len(stack[u]) :
         stack[u][i].code \in UNION {{stack[v][j].code : j \in 1 .. Len(stack[v])} : v \in Threads}
  OBVIOUS
<1>2. \A u \in Threads : \A i \in 1 .. Len(stack[u]) : stack[u][i].code \in LiveCodes
  BY <1>1, Zenon DEF LiveCodes
<1>3. \A f \in Funcs : Pristine[f] \in LiveCodes /\ fcode[f] \in LiveCodes
  BY DEF LiveCodes
<1>4. \A k \in Keys : originals[k] \in LiveCodes
  BY DEF LiveCodes
<1>5. \A u \in Threads : old[u] \in LiveCodes
  BY DEF LiveCodes
<1>6. \A u \in Threads : new[u] \in LiveCodes
  BY DEF LiveCodes
<1> QED
  BY <1>2, <1>3, <1>4, <1>5, <1>6

LEMMA BodyApplication ==
  ASSUME BodyInv, NEW t \in Threads,
         \/ \E f \in Funcs : Call(t, f)
         \/ Return(t)
         \/ \E c \in Crashes, e \in Excs : Raise(t, c, e)
         \/ Leaving(t)
  PROVE  CodeBodies' /\ LocalBodies'
<1> USE DEF code_vars, know_vars, exc_vars, locals, bounds
<1>1. ASSUME NEW f \in Funcs, Call(t, f) PROVE CodeBodies'
  <2> DEFINE fr == [fn |-> f, code |-> fcode[f]]
  <2>1. fr \in Frame /\ Kin(heap[fr.code].fn, fr.fn) /\ stack[t] \in Seq(Frame)
    <3>1. fcode[f] \in Codes /\ stack[t] \in Seq(Frame)
      BY DEF TypeOK
    <3>2. Kin(heap[fcode[f]].fn, f)
      BY DEF CodeBodies
    <3> QED
      BY <3>1, <3>2 DEF Frame
  <2>2. /\ stack' = [stack EXCEPT ![t] = <<fr>> \o stack[t]]
        /\ \A i \in 1 .. Len(<<fr>> \o stack[t]) :
              \/ (<<fr>> \o stack[t])[i] = fr
              \/ \E j \in 1 .. Len(stack[t]) : (<<fr>> \o stack[t])[i] = stack[t][j]
    BY <1>1, <2>1, PushFrame DEF Call
  <2> HIDE DEF fr
  <2>3. \A u \in Threads : \A i \in 1 .. Len(stack'[u]) :
           Kin(heap[stack'[u][i].code].fn, stack'[u][i].fn)
    <3> TAKE u \in Threads
    <3>1. CASE u = t
      <4> DEFINE s == <<fr>> \o stack[t]
      <4>1. /\ stack'[u] = s
            /\ \A i \in 1 .. Len(s) :
                 s[i] = fr \/ \E j \in 1 .. Len(stack[t]) : s[i] = stack[t][j]
        BY <2>2, <3>1 DEF TypeOK
      <4> HIDE DEF s
      <4> QED
        BY <2>1, <4>1 DEF CodeBodies
    <3>2. CASE u # t
      BY <2>2, <3>2 DEF TypeOK, CodeBodies
    <3> QED
      BY <3>1, <3>2
  <2> QED
    BY <1>1, <2>3 DEF Call, CodeBodies
<1>2. ASSUME stack[t] # <<>>, stack' = [stack EXCEPT ![t] = Tail(stack[t])],
             UNCHANGED <<code_vars, store>>
      PROVE  CodeBodies'
  <2>1. \A i \in 1 .. Len(Tail(stack[t])) :
           \E j \in 1 .. Len(stack[t]) : Tail(stack[t])[i] = stack[t][j]
    BY <1>2, PopFrame DEF TypeOK
  <2>2. \A u \in Threads : \A i \in 1 .. Len(stack'[u]) :
           Kin(heap[stack'[u][i].code].fn, stack'[u][i].fn)
    <3> TAKE u \in Threads
    <3>1. CASE u = t
      BY <1>2, <2>1, <3>1 DEF TypeOK, CodeBodies
    <3>2. CASE u # t
      BY <1>2, <3>2 DEF TypeOK, CodeBodies
    <3> QED
      BY <3>1, <3>2
  <2> QED
    BY <1>2, <2>2 DEF CodeBodies
<1>3. CodeBodies'
  <2>1. CASE Return(t)
    BY <1>2, <2>1 DEF Return
  <2>2. CASE PassBy(t) \/ \E c \in Crashes : Propagate(t, c)
    <3>1. stack[t] # <<>>
      BY <2>2 DEF PassBy, Propagate, Stages
    <3> QED
      BY <1>2, <2>2, <3>1 DEF PassBy, Propagate
  <2>3. CASE Uncaught(t)
    <3>1. \A u \in Threads : stack'[u] = <<>> \/ stack'[u] = stack[u]
      BY <2>3 DEF Uncaught, TypeOK
    <3>2. UNCHANGED <<heap, fcode, originals, store>>
      BY <2>3 DEF Uncaught
    <3> QED
      BY <3>1, <3>2 DEF CodeBodies
  <2>4. CASE (\E c \in Crashes, e \in Excs : Raise(t, c, e)) \/ Catch(t) \/ ExceptHook(t)
    BY <2>4 DEF Raise, Catch, ExceptHook, CodeBodies
  <2> QED
    BY <1>1, <2>1, <2>2, <2>3, <2>4 DEF Leaving
<1>4. LocalBodies'
  <2>1. /\ UNCHANGED <<heap, sigs, spec, func, old, new>>
        /\ \A u \in Threads : u # t => Top(u)' = Top(u) /\ pc'[u] = pc[u]
        /\ pc[t] \notin HasOld
    <3>1. CASE (\E f \in Funcs : Call(t, f)) \/ Return(t)
      BY <3>1 DEF Call, Return, Top, TypeOK, HasOld
    <3>2. CASE \E c \in Crashes, e \in Excs : Raise(t, c, e)
      BY <3>2 DEF Raise, Goto, Top, TypeOK, HasOld
    <3>3. CASE Leaving(t)
      BY <3>3 DEF Leaving, Catch, PassBy, Uncaught, ExceptHook, Propagate, Goto, Top,
                  TypeOK, HasOld
    <3> QED
      BY <3>1, <3>2, <3>3
  <2>2. func[t] = None /\ old[t] = None /\ new[t] = None
    BY <2>1 DEF LocalBodies, LocalBody, Stages, HasNew
  <2> QED
    BY <2>1, <2>2 DEF LocalBodies, LocalBody
<1> QED
  BY <1>3, <1>4

LEMMA TopBody ==
  ASSUME BodyInv, NEW t \in Threads, stack[t] # <<>>
  PROVE  Kin(Body(Top(t)), Top(t).fn) /\ Name[Body(Top(t))] = Name[Top(t).fn]
<1>1. Top(t) = stack[t][1] /\ 1 \in 1 .. Len(stack[t])
  BY PopFrame DEF TypeOK, Top
<1>2. Kin(Body(Top(t)), Top(t).fn)
  BY <1>1 DEF CodeBodies, Body
<1> QED
  BY <1>2, TopFrame, KinFacts

LEMMA FoundFunction ==
  ASSUME NEW fr, NEW f, f \in FunctionsOf(fr)
  PROVE  f = None \/ (f \in Funcs /\ fcode[f] = fr.code)
BY Zenon DEF FunctionsOf

LEMMA BodyAnalysis ==
  ASSUME BodyInv, Fix = At, NEW t \in Threads,
         CheckHandled(t) \/ Analyze(t) \/ Attempt(t) \/ Reuse(t) \/ Resolve(t)
  PROVE  CodeBodies' /\ LocalBodies'
<1> USE DEF code_vars, know_vars, exc_vars, flight, bounds
<1>1. CodeBodies'
  BY DEF CheckHandled, Analyze, Attempt, Reuse, Resolve, CodeBodies
<1>2. /\ UNCHANGED <<heap, sigs, stack, new>>
      /\ \A u \in Threads : u # t => LocalBody(u)'
  <2>1. /\ pc[t] \notin HasOld /\ new[t] = None
        /\ UNCHANGED <<heap, sigs, stack>>
    BY DEF CheckHandled, Analyze, Attempt, Reuse, Resolve, HasOld, HasNew, Stages
  <2>2. new' = new
    BY <2>1 DEF CheckHandled, Analyze, Attempt, Reuse, Resolve, Leave, locals, TypeOK
  <2>3. ASSUME NEW u \in Threads, u # t
        PROVE  /\ spec'[u] = spec[u] /\ func'[u] = func[u] /\ old'[u] = old[u]
               /\ pc'[u] = pc[u]
    <3>1. CASE CheckHandled(t)
      BY <2>3, <3>1 DEF CheckHandled, Goto, locals, TypeOK
    <3>2. CASE Analyze(t)
      BY <2>3, <3>2 DEF Analyze, Goto, TypeOK
    <3>3. CASE Attempt(t)
      BY <2>3, <3>3 DEF Attempt, Leave, Goto, locals, TypeOK
    <3>4. CASE Reuse(t)
      BY <2>3, <3>4 DEF Reuse, Goto, TypeOK
    <3>5. CASE Resolve(t)
      BY <2>3, <3>5 DEF Resolve, Goto, TypeOK
    <3> QED
      BY <3>1, <3>2, <3>3, <3>4, <3>5
  <2> QED
    BY <2>1, <2>2, <2>3 DEF LocalBodies, LocalBody, Top
<1>3. /\ new[t] = None /\ spec[t] \in Specs /\ spec[t].target = None
      /\ ~Resolve(t) => func[t] = None /\ old[t] = None
  BY DEF CheckHandled, Analyze, Attempt, Reuse, Resolve, LocalBodies, LocalBody, Stages,
         HasOld, HasNew, TypeOK
<1>4. spec'[t].target = None
  <2>1. CASE CheckHandled(t) \/ Attempt(t) \/ Resolve(t)
    BY <1>3, <2>1 DEF CheckHandled, Attempt, Resolve, Leave, NoSpecYet, locals, TypeOK
  <2>2. CASE Analyze(t)
    <3>1. crash[t] \in Crashes
      BY <2>2 DEF Analyze, TypeOK, Stages
    <3> QED
      BY <1>3, <2>2, <3>1 DEF Analyze, NoSpecYet, Specs, TypeOK
  <2>3. CASE Reuse(t)
    <3>1. sigs[Sig[crash[t]]] \in {None, "absent"}
      BY <2>3 DEF Reuse, TypeOK, Stages, LocalBodies
    <3> QED
      BY <1>3, <2>3, <3>1 DEF Reuse, Specs, TypeOK
  <2> QED
    BY <2>1, <2>2, <2>3
<1>5. LocalBody(t)'
  <2>1. CASE Resolve(t)
    <3>1. stack[t] # <<>>
      BY <2>1 DEF Resolve, Stages
    <3>2. Kin(Body(Top(t)), Top(t).fn) /\ Body(Top(t)) \in Funcs /\ Top(t).fn \in Funcs
      BY <3>1, TopBody, TopFrame
    <3>3. ASSUME NEW f, f \in FunctionsOf(Top(t)) PROVE f = None \/ Kin(f, Top(t).fn)
      <4>1. CASE f = None
        BY <4>1
      <4>2. CASE f # None
        <5>1. f \in Funcs /\ fcode[f] = Top(t).code
          BY <3>3, <4>2, FoundFunction, Zenon
        <5>2. Kin(Body(Top(t)), f)
          BY <5>1 DEF CodeBodies, Body
        <5> QED BY <3>2, <5>1, <5>2, KinFacts
      <4> QED BY <4>1, <4>2
    <3>4. /\ func'[t] \in FunctionsOf(Top(t)) /\ old'[t] = Top(t).code
          /\ pc'[t] \in HasOld /\ Top(t)' = Top(t)
      BY <1>2, <1>3, <2>1 DEF Resolve, Goto, HasOld, Top, TypeOK
    <3>5. func'[t] = None \/ Kin(func'[t], Top(t).fn)
      BY <3>3, <3>4
    <3>6. Kin(heap'[old'[t]].fn, Top(t)'.fn)
      BY <1>2, <3>2, <3>4 DEF Body
    <3> QED
      BY <1>2, <1>3, <1>4, <3>4, <3>5, <3>6 DEF LocalBody
  <2>2. CASE ~Resolve(t)
    <3>1. func'[t] = None /\ old'[t] = None
      BY <1>3, <2>2 DEF CheckHandled, Analyze, Attempt, Reuse, Leave, locals, TypeOK
    <3> QED
      BY <1>2, <1>3, <1>4, <3>1 DEF LocalBody
  <2> QED
    BY <2>1, <2>2
<1> QED
  BY <1>1, <1>2, <1>5 DEF LocalBodies

LEMMA BodyPatch ==
  ASSUME BodyInv, NEW t \in Threads,
         \/ Backup(t) \/ Synth(t) \/ Persist(t) \/ Replace(t)
         \/ Save(t) \/ Publish(t) \/ Count(t) \/ Repin(t)
  PROVE  CodeBodies' /\ LocalBodies'
<1> USE DEF code_vars, know_vars, exc_vars, flight, bounds
<1>1. /\ pc[t] \in HasOld /\ stack[t] # <<>> /\ stack' = stack /\ spec[t].target = None
      /\ Top(t).fn \in Funcs /\ crash[t] \in Crashes
      /\ old[t] \in Codes /\ heap[old[t]] \in Code
      /\ heap[old[t]].fn \in Funcs /\ Kin(heap[old[t]].fn, Top(t).fn)
  <2>1. pc[t] \in HasOld /\ stack' = stack
    BY DEF Backup, Synth, Persist, Replace, Save, Publish, Count, Repin, HasOld
  <2>2. stack[t] # <<>> /\ old[t] # None /\ crash[t] # None
    BY <2>1 DEF Stages, HasOld
  <2> QED
    BY <2>1, <2>2, TopFrame DEF TypeOK, NoDangling, LocalBodies, LocalBody, Code
<1>2. new[t] # None => /\ new[t] \in Codes /\ heap[new[t]] \in Code
                       /\ heap[new[t]].fn \in Funcs /\ Kin(heap[new[t]].fn, Top(t).fn)
  BY DEF TypeOK, NoDangling, LocalBodies, LocalBody, Code
<1>3. func[t] # None => func[t] \in Funcs /\ Kin(func[t], Top(t).fn)
  BY DEF LocalBodies, LocalBody, TypeOK, Target
<1>0. \A f \in Funcs : heap[fcode[f]].fn \in Funcs /\ Kin(heap[fcode[f]].fn, f)
  BY DEF NoDangling, Code, CodeBodies
<1>4. CASE Synth(t) /\ ~(Leave(t) /\ UNCHANGED heap)
  <2>1. PICK c \in Codes \ LiveCodes :
          /\ heap' = [heap EXCEPT ![c] =
                        [heap[old[t]] EXCEPT !.guards = @ \cup {Sig[crash[t]]}]]
          /\ new' = [new EXCEPT ![t] = c] /\ Goto(t, "persist")
          /\ UNCHANGED <<spec, func, old>>
    BY <1>4 DEF Synth
  <2>2. Kin(heap'[c].fn, Top(t).fn)
    BY <1>1, <2>1 DEF TypeOK, Code
  <2>3. \A x \in LiveCodes \cap Codes : heap'[x] = heap[x]
    BY <2>1 DEF TypeOK
  <2>4. CodeBodies'
    <3>1. UNCHANGED <<fcode, originals, store, stack>>
      BY <1>4 DEF Synth
    <3>2. \A u \in Threads : \A i \in 1 .. Len(stack[u]) :
             heap'[stack[u][i].code] = heap[stack[u][i].code]
      <4>1. \A u \in Threads : \A i \in 1 .. Len(stack[u]) : stack[u][i] \in Frame
        BY DEF TypeOK
      <4> QED
        BY <2>3, <4>1, LiveNotFree DEF Frame
    <3>3. \A f \in Funcs : heap'[fcode[f]] = heap[fcode[f]]
      BY <2>3, LiveNotFree DEF TypeOK
    <3>4. \A k \in Keys : originals[k] # None => heap'[originals[k]] = heap[originals[k]]
      BY <2>3, LiveNotFree DEF TypeOK
    <3>5. /\ \A f \in Funcs : Kin(heap'[fcode'[f]].fn, f)
          /\ \A k \in Keys : originals'[k] # None =>
               Name[heap'[originals'[k]].fn] = k[2] /\ \E g \in Funcs : k = Key(g)
          /\ \A l \in Files : store'[l] # None =>
               \E g \in Funcs : File[g] = l /\ Kin(store'[l].fn, g)
      BY <3>1, <3>3, <3>4 DEF CodeBodies
    <3>6. \A u \in Threads : \A i \in 1 .. Len(stack'[u]) :
             Kin(heap'[stack'[u][i].code].fn, stack'[u][i].fn)
      <4>1. \A u \in Threads : \A i \in 1 .. Len(stack[u]) :
               Kin(heap[stack[u][i].code].fn, stack[u][i].fn)
        BY DEF CodeBodies
      <4>2. stack' = stack
        BY <3>1
      <4> QED
        BY <3>2, <4>1, <4>2
    <3> QED
      BY <3>5, <3>6 DEF CodeBodies
  <2>5. LocalBodies'
    <3>1. \A u \in Threads : Top(u)' = Top(u)
      BY <1>1 DEF Top
    <3>2. ASSUME NEW u \in Threads, u # t PROVE LocalBody(u)'
      <4>1. new'[u] = new[u] /\ pc'[u] = pc[u] /\ UNCHANGED <<spec, func, old>>
        BY <2>1, <3>2 DEF Goto, TypeOK
      <4>2. /\ old[u] # None => heap'[old[u]] = heap[old[u]]
            /\ new[u] # None => heap'[new[u]] = heap[new[u]]
        BY <2>3, LiveNotFree DEF TypeOK
      <4> QED
        BY <3>1, <4>1, <4>2 DEF LocalBodies, LocalBody
    <3>3. LocalBody(t)'
      <4>1. /\ new'[t] = c /\ pc'[t] \in HasOld /\ UNCHANGED <<spec, func, old>>
            /\ heap'[old[t]] = heap[old[t]]
        BY <2>1, <2>3, LiveNotFree DEF Goto, TypeOK, HasOld
      <4> QED
        BY <1>1, <1>3, <2>2, <3>1, <4>1 DEF LocalBody
    <3> QED
      BY <1>4, <3>2, <3>3 DEF Synth, LocalBodies
  <2> QED
    BY <2>4, <2>5
<1>5. CASE ~(Synth(t) /\ ~(Leave(t) /\ UNCHANGED heap))
  <2>1. UNCHANGED heap
    BY <1>5 DEF Backup, Synth, Persist, Replace, Save, Publish, Count, Repin
  <2>2. \A f \in Funcs : Kin(heap[fcode'[f]].fn, f)
    <3>1. CASE UNCHANGED fcode
      BY <3>1, <1>0
    <3>2. ASSUME NEW f \in Funcs, fcode'[f] = new[t], new[t] # None,
                 Kin(f, Top(t).fn)
          PROVE  Kin(heap[fcode'[f]].fn, f)
      BY <1>1, <1>2, <3>2, KinFacts
    <3>3. ASSUME NEW f \in Funcs, fcode[f] = old[t] PROVE Kin(f, Top(t).fn)
      BY <1>0, <1>1, <3>3, KinFacts
    <3>4. ASSUME NEW f \in Funcs, func[t] # None, fcode[f] = fcode[func[t]]
          PROVE  Kin(f, Top(t).fn)
      <4>1. Kin(heap[fcode[f]].fn, f) /\ Kin(heap[fcode[f]].fn, func[t])
        BY <1>0, <1>3, <3>4
      <4> QED
        BY <1>0, <1>1, <1>3, <3>4, <4>1, KinFacts
    <3>5. new[t] # None \/ UNCHANGED fcode
      BY <1>5 DEF Backup, Synth, Persist, Replace, Save, Publish, Count, Repin, Stages,
                  HasNew, HasOld
    <3>6. ASSUME NEW f \in Funcs, fcode'[f] # fcode[f]
          PROVE  fcode'[f] = new[t] /\ Kin(f, Top(t).fn)
      <4>0. Persist(t) \/ Replace(t) \/ Repin(t)
        BY <3>6 DEF Backup, Synth, Save, Publish, Count
      <4>1. CASE Persist(t)
        <5>1. fcode'[f] = IF fcode[f] = old[t] THEN new[t] ELSE fcode[f]
          BY <4>1 DEF Persist
        <5> QED
          BY <3>3, <3>6, <5>1
      <4>2. CASE Replace(t)
        <5>1. func[t] # None /\ fcode[f] = fcode[func[t]] /\ fcode'[f] = new[t]
          BY <3>6, <4>2 DEF Replace
        <5> QED
          BY <3>4, <5>1
      <4>3. CASE Repin(t)
        <5>1. func[t] # None /\ f = func[t] /\ fcode'[f] = new[t]
          BY <3>6, <4>3 DEF Repin, Stages, TypeOK
        <5> QED
          BY <1>3, <5>1
      <4> QED
        BY <4>0, <4>1, <4>2, <4>3
    <3> QED
      BY <1>0, <3>1, <3>2, <3>5, <3>6
  <2>3. \A k \in Keys : originals'[k] # None =>
           Name[heap[originals'[k]].fn] = k[2] /\ \E g \in Funcs : k = Key(g)
    <3>1. CASE Backup(t)
      <4> DEFINE b == Body(Top(t))
      <4>1. func[t] # None
        BY <3>1 DEF Backup, Stages
      <4>2. b \in Funcs /\ Key(b) \in Keys /\ Name[b] = Name[Top(t).fn]
        BY <1>1, TopFrame, TopBody
      <4>3. Name[heap[fcode[func[t]]].fn] = Name[func[t]] /\ Name[func[t]] = Name[Top(t).fn]
        BY <1>0, <1>1, <1>3, <4>1, KinFacts
      <4>4. Key(b)[2] = Name[b]
        BY <4>2, KeyOfFunction
      <4>5. originals' = [originals EXCEPT ![Key(b)] = fcode[func[t]]]
        BY <3>1 DEF Backup
      <4> HIDE DEF b
      <4>6. \A k \in Keys : originals'[k] = IF k = Key(b) THEN fcode[func[t]] ELSE originals[k]
        BY <4>5 DEF TypeOK
      <4> QED
        BY <4>2, <4>3, <4>4, <4>6 DEF CodeBodies
    <3>2. CASE UNCHANGED originals
      BY <3>2 DEF CodeBodies
    <3> QED
      BY <3>1, <3>2 DEF Synth, Persist, Replace, Save, Publish, Count, Repin
  <2>4. \A l \in Files : store'[l] # None =>
           \E g \in Funcs : File[g] = l /\ Kin(store'[l].fn, g)
    <3>1. CASE UNCHANGED store
      BY <3>1 DEF CodeBodies
    <3>2. ASSUME Save(t), func[t] # None, NEW x,
                 store' = [store EXCEPT ![File[func[t]]] = x],
                 x = None \/ x = heap[new[t]]
          PROVE  <2>4
      <4>1. new[t] # None
        BY <3>2 DEF Save, Stages, HasNew, HasOld
      <4>2. x = None \/ Kin(x.fn, func[t])
        BY <1>1, <1>2, <1>3, <3>2, <4>1, KinFacts
      <4>3. \A l \in Files : store'[l] = IF l = File[func[t]] THEN x ELSE store[l]
        BY <3>2 DEF TypeOK
      <4> QED
        BY <1>3, <3>2, <4>2, <4>3 DEF CodeBodies
    <3>3. CASE Save(t)
      <4>1. \/ UNCHANGED store
            \/ func[t] # None /\ store' = [store EXCEPT ![File[func[t]]] = heap[new[t]]]
            \/ func[t] # None /\ store' = [store EXCEPT ![File[func[t]]] = None]
        BY <3>3 DEF Save, Saved, NotSaved
      <4> QED
        BY <3>1, <3>2, <3>3, <4>1
    <3> QED
      BY <3>1, <3>3 DEF Backup, Synth, Persist, Replace, Publish, Count, Repin
  <2>5. CodeBodies'
    BY <1>1, <2>1, <2>2, <2>3, <2>4 DEF CodeBodies
  <2>6. \A s \in Sigs : sigs'[s] \in {None, "absent"}
    <3>1. CASE Publish(t)
      BY <1>1, <3>1 DEF Publish, TypeOK, LocalBodies
    <3>2. CASE UNCHANGED sigs
      BY <3>2 DEF LocalBodies
    <3> QED
      BY <3>1, <3>2 DEF Backup, Synth, Persist, Replace, Save, Count, Repin
  <2>7. ASSUME NEW u \in Threads PROVE LocalBody(u)'
    <3>1. Top(u)' = Top(u)
      BY <1>1 DEF Top
    <3>2. LocalBody(u)
      BY DEF LocalBodies
    <3>3. CASE Leave(t)
      <4>1. \/ /\ spec'[u] = NoSpecYet /\ func'[u] = None
               /\ old'[u] = None /\ new'[u] = None
            \/ /\ u # t /\ spec'[u] = spec[u] /\ func'[u] = func[u]
               /\ old'[u] = old[u] /\ new'[u] = new[u] /\ pc'[u] = pc[u]
        BY <3>3 DEF Leave, Goto, TypeOK
      <4> QED
        BY <2>1, <3>1, <3>2, <4>1 DEF LocalBody, NoSpecYet
    <3>4. CASE ~Leave(t)
      <4>1. UNCHANGED locals /\ \E p \in HasOld : pc' = [pc EXCEPT ![t] = p]
        BY <1>5, <3>4 DEF Backup, Synth, Persist, Replace, Save, Publish, Count, Repin,
                          Goto, HasOld
      <4>2. pc[u] \in HasOld => pc'[u] \in HasOld
        BY <4>1 DEF TypeOK
      <4> QED
        BY <2>1, <3>1, <3>2, <4>1, <4>2 DEF LocalBody, locals
    <3> QED
      BY <3>3, <3>4
  <2> QED
    BY <2>5, <2>6, <2>7 DEF LocalBodies
<1> QED
  BY <1>4, <1>5

LEMMA BodyRewind ==
  ASSUME BodyInv, NEW t \in Threads, Rewind(t) \/ Fallback(t) \/ FallbackAgain(t)
  PROVE  CodeBodies' /\ LocalBodies'
<1>1. UNCHANGED <<code_vars, know_vars, flight>>
  BY DEF Rewind, Fallback, FallbackAgain
<1>2. CodeBodies'
  BY <1>1 DEF CodeBodies, code_vars, know_vars, flight
<1>3. ASSUME NEW u \in Threads PROVE LocalBody(u)'
  <2>1. Top(u)' = Top(u) /\ LocalBody(u)
    BY <1>1 DEF Top, flight, LocalBodies
  <2>2. CASE Leave(t)
    <3>1. \/ /\ spec'[u] = NoSpecYet /\ func'[u] = None
             /\ old'[u] = None /\ new'[u] = None
          \/ /\ u # t /\ spec'[u] = spec[u] /\ func'[u] = func[u]
             /\ old'[u] = old[u] /\ new'[u] = new[u] /\ pc'[u] = pc[u]
      BY <2>2 DEF Leave, Goto, TypeOK
    <3> QED
      BY <1>1, <2>1, <3>1 DEF LocalBody, NoSpecYet, code_vars
  <2>3. CASE UNCHANGED locals /\ \E p \in HasOld : pc' = [pc EXCEPT ![t] = p]
    <3>1. pc[u] \in HasOld => pc'[u] \in HasOld
      BY <2>3 DEF TypeOK
    <3> QED
      BY <1>1, <2>1, <2>3, <3>1 DEF LocalBody, locals, code_vars
  <2> QED
    BY <2>2, <2>3 DEF Rewind, Fallback, FallbackAgain, Goto, HasOld
<1> QED
  BY <1>1, <1>2, <1>3 DEF LocalBodies, know_vars

LEMMA BodyRollback ==
  ASSUME BodyInv, (\E n \in Names : RollbackRuntime(n)) \/ RollbackStore
  PROVE  CodeBodies' /\ LocalBodies'
<1>1. UNCHANGED <<heap, sigs, stack, locals, pc>>
  BY DEF RollbackRuntime, RollbackStore, flight, know_vars, code_vars
<1>2. LocalBodies'
  BY <1>1 DEF LocalBodies, LocalBody, Top, locals
<1>3. ASSUME NEW n \in Names, RollbackRuntime(n) PROVE CodeBodies'
  <2>1. UNCHANGED store
    BY <1>3 DEF RollbackRuntime, know_vars
  <2>2. CASE UNCHANGED <<fcode, originals>>
    BY <1>1, <2>1, <2>2 DEF CodeBodies
  <2>3. ASSUME NEW g \in Funcs, NEW k \in Keys, k[2] = n, originals[k] # None,
               Name[heap[fcode[g]].fn] = n,
               fcode' = [fcode EXCEPT ![g] = originals[k]],
               originals' = [originals EXCEPT ![k] = None]
        PROVE  CodeBodies'
    <3>1. MaxRollbacks # 0
      BY <1>3 DEF RollbackRuntime, TypeOK
    <3>2. /\ Name[heap[originals[k]].fn] = n /\ heap[originals[k]].fn \in Funcs
          /\ heap[fcode[g]].fn \in Funcs /\ Kin(heap[fcode[g]].fn, g)
      BY <2>3 DEF CodeBodies, NoDangling, Code
    <3>3. Kin(heap[originals[k]].fn, g)
      BY <2>3, <3>1, <3>2 DEF Kin
    <3>4. \A f \in Funcs : Kin(heap[fcode'[f]].fn, f)
      BY <2>3, <3>3 DEF CodeBodies, TypeOK
    <3>5. \A j \in Keys : originals'[j] \in {None, originals[j]}
      BY <2>3 DEF TypeOK
    <3> QED
      BY <1>1, <2>1, <3>4, <3>5 DEF CodeBodies
  <2> QED
    BY <1>3, <2>2, <2>3 DEF RollbackRuntime
<1>4. ASSUME RollbackStore PROVE CodeBodies'
  <2>1. \A l \in Files : store'[l] \in {None, store[l]}
    BY <1>4 DEF RollbackStore
  <2> QED
    BY <1>1, <1>4, <2>1 DEF RollbackStore, CodeBodies, code_vars
<1> QED
  BY <1>2, <1>3, <1>4

LEMMA BodyNext == BodyInv /\ Fix = At /\ [Next]_vars => BodyInv'
<1> SUFFICES ASSUME BodyInv, Fix = At, [Next]_vars PROVE BodyInv'
    OBVIOUS
<1>1. TypeInv'
  BY TypeNext
<1>2. CASE UNCHANGED vars
  BY <1>1, <1>2 DEF vars, CodeBodies, LocalBodies, LocalBody, Top, code_vars, know_vars,
                    locals, flight
<1>3. CASE Next
  <2>1. ASSUME NEW t \in Threads, Handle(t) PROVE CodeBodies' /\ LocalBodies'
    BY <2>1, BodyAnalysis, BodyPatch, BodyRewind DEF Handle
  <2>2. CodeBodies' /\ LocalBodies'
    BY <1>3, <2>1, BodyApplication, BodyRollback DEF Next
  <2> QED
    BY <1>1, <2>2
<1> QED
  BY <1>2, <1>3

(* A function runs a body of its name, its own when no other function has   *)
(* the name, and so is the code in a file of its own, whatever addresses    *)
(* are reused and whoever patches or rolls back, as long as every crash is  *)
(* repaired in the function that raised.                                    *)
THEOREM BodiesAreOwn == Fix = At /\ Spec => []OwnBody
<1>1. ASSUME BodyInv PROVE OwnBody
  <2>1. \A f \in Funcs : Name[heap[fcode[f]].fn] = Name[f]
    BY <1>1, KinFacts DEF CodeBodies, NoDangling, Code
  <2>2. ASSUME NEW f \in Funcs, OwnName(f), store[File[f]] # None
        PROVE  store[File[f]].fn = f
    <3>1. File[f] \in Files /\ store[File[f]] \in Code
      BY <1>1, <2>2 DEF TypeOK
    <3>2. PICK g \in Funcs : File[g] = File[f] /\ Kin(store[File[f]].fn, g)
      BY <1>1, <2>2, <3>1 DEF CodeBodies
    <3>3. g = f
      BY <2>2, <3>2 DEF OwnName
    <3>4. store[File[f]].fn \in Funcs /\ Name[store[File[f]].fn] = Name[f]
      BY <3>1, <3>2, <3>3, KinFacts DEF Code
    <3> QED
      BY <2>2, <3>4 DEF OwnName
  <2> QED
    BY <2>1, <2>2 DEF OwnBody
<1>2. ASSUME Fix = At PROVE Spec => []OwnBody
  <2>1. Init => BodyInv
    BY <1>2, BodyInit
  <2>2. BodyInv /\ [Next]_vars => BodyInv'
    BY <1>2, BodyNext
  <2> QED
    BY <1>1, <2>1, <2>2, PTL DEF Spec
<1> QED
  BY <1>2

----------------------------------------------------------------------------
(* What is counted.  CountInv is inductive.  OnRecord follows the flags    *)
(* cached and reuse of a spec, because of which Publish may leave out the  *)
(* fingerprint or the signature; Marked says that an exception whose patch *)
(* was counted is in _handled_exc_ids for as long as it is in flight.      *)

(* Where the flags of a spec are not set yet, and where they are used.     *)
NotYet   == {"run", "check", "analyze", "unwind", "hook"}
Reused   == {"resolve", "backup", "synth", "persist", "replace", "save", "publish", "count"}
Deciding == {"attempt", "reuse"} \cup Reused

OnRecord ==
  \A t \in Threads :
    /\ pc[t] \in NotYet => ~spec[t].cached /\ ~spec[t].reuse
    /\ pc[t] \in Deciding /\ spec[t].cached => crash[t] \in registry
    /\ pc[t] \in Deciding /\ spec[t].reuse => sigs[Sig[crash[t]]] # "absent"
    /\ pc[t] = "count" => crash[t] \in registry /\ sigs[Sig[crash[t]]] # "absent"

Marked ==
  \A t \in Threads :
    /\ pc[t] # "run" /\ mine[t] => exc[t] \in handled
    /\ pc[t] \in {"analyze"} \cup Deciding => ~mine[t]

CountInv == TypeInv /\ OnRecord /\ CountedIsOnRecord /\ Marked

LEMMA BlankSpec ==
  /\ ~NoSpecYet.cached /\ ~NoSpecYet.reuse
  /\ ~[NoSpecYet EXCEPT !.cached = TRUE].reuse
BY DEF NoSpecYet

----------------------------------------------------------------------------
(* A step keeps the relation of a spec's flags to the records.             *)
LEMMA OnRecordKept == CountInv /\ [Next]_vars => OnRecord'
<1> SUFFICES ASSUME CountInv, [Next]_vars PROVE OnRecord'
  OBVIOUS
<1> USE DEF CountInv, TypeInv, TypeOK, NotYet, Reused, Deciding, OnRecord, NoSpecYet, Specs, Target
<1>1. CASE UNCHANGED vars
  BY <1>1 DEF vars, code_vars, know_vars, exc_vars, locals, flight, bounds
<1>2. ASSUME NEW t \in Threads, CheckHandled(t) PROVE OnRecord'
  BY <1>2 DEF CheckHandled, Goto, code_vars, know_vars, exc_vars, locals, flight, bounds
<1>3. ASSUME NEW t \in Threads, Analyze(t) PROVE OnRecord'
  <2>1. /\ spec[t] \in Specs /\ ~spec[t].cached /\ ~spec[t].reuse
    BY <1>3 DEF Analyze
  <2>2. ~spec'[t].reuse /\ (spec'[t].cached => crash[t] \in registry)
    <3>1. CASE crash[t] \in registry /\ spec' = [spec EXCEPT ![t] = [NoSpecYet EXCEPT !.cached = TRUE]]
      BY <3>1, BlankSpec
    <3>2. CASE \E g : spec' = [spec EXCEPT ![t].target = g]
      BY <2>1, <3>2
    <3>3. CASE UNCHANGED spec
      BY <2>1, <3>3
    <3> QED BY <1>3, <3>1, <3>2, <3>3 DEF Analyze
  <2>3. \A u \in Threads \ {t} : spec'[u] = spec[u] /\ pc'[u] = pc[u]
    BY <1>3 DEF Analyze, Goto
  <2>4. pc'[t] \in {"attempt", "unwind"} /\ (pc'[t] = "unwind" => spec'[t] = spec[t])
    BY <1>3 DEF Analyze, Goto
  <2> QED BY <1>3, <2>1, <2>2, <2>3, <2>4 DEF Analyze, flight, know_vars
<1>4. ASSUME NEW t \in Threads, Attempt(t) PROVE OnRecord'
  BY <1>4 DEF Attempt, Goto, code_vars, know_vars, exc_vars, locals, flight, bounds, Leave
<1>5. ASSUME NEW t \in Threads, Reuse(t) PROVE OnRecord'
  BY <1>5 DEF Reuse, Goto, code_vars, know_vars, exc_vars, locals, flight, bounds
<1>6. ASSUME NEW t \in Threads, Resolve(t) PROVE OnRecord'
  BY <1>6 DEF Resolve, Goto, code_vars, know_vars, exc_vars, locals, flight, bounds
<1>7. ASSUME NEW t \in Threads, Backup(t) PROVE OnRecord'
  BY <1>7 DEF Backup, Goto, code_vars, know_vars, exc_vars, locals, flight, bounds
<1>8. ASSUME NEW t \in Threads, Synth(t) PROVE OnRecord'
  BY <1>8 DEF Synth, Goto, code_vars, know_vars, exc_vars, locals, flight, bounds, Leave
<1>9. ASSUME NEW t \in Threads, Persist(t) PROVE OnRecord'
  BY <1>9 DEF Persist, Goto, code_vars, know_vars, exc_vars, locals, flight, bounds
<1>10. ASSUME NEW t \in Threads, Replace(t) PROVE OnRecord'
  BY <1>10 DEF Replace, Goto, code_vars, know_vars, exc_vars, locals, flight, bounds
<1>11. ASSUME NEW t \in Threads, Save(t) PROVE OnRecord'
  <2>1. /\ pc[t] = "save" /\ UNCHANGED <<registry, sigs, crash>>
        /\ Leave(t) \/ (Goto(t, "publish") /\ UNCHANGED spec)
    BY <1>11 DEF Save, locals, flight
  <2>2. CASE Leave(t)
    BY <2>1, <2>2 DEF Leave, Goto
  <2>3. CASE Goto(t, "publish") /\ UNCHANGED spec
    BY <2>1, <2>3 DEF Goto
  <2> QED BY <2>1, <2>2, <2>3
<1>12. ASSUME NEW t \in Threads, Publish(t) PROVE OnRecord'
  <2>1. pc[t] = "publish" /\ crash[t] \in Crashes /\ Sig[crash[t]] \in Sigs
    BY <1>12, PatchEngineAssumption DEF Publish, Stages
  <2>2. spec[t].target # "absent"
    BY PatchEngineAssumption DEF Specs, Target
  <2>3. crash[t] \in registry' /\ sigs'[Sig[crash[t]]] # "absent"
    BY <1>12, <2>1, <2>2 DEF Publish
  <2>4. pc'[t] = "count" /\ \A u \in Threads \ {t} : pc'[u] = pc[u]
    BY <1>12 DEF Publish, Goto
  <2>5. registry \subseteq registry' /\ \A s \in Sigs : sigs[s] # "absent" => sigs'[s] # "absent"
    BY <1>12, <2>1, <2>2 DEF Publish
  <2>6. Sig \in [Crashes -> Sigs]
    BY PatchEngineAssumption
  <2> QED BY <1>12, <2>3, <2>4, <2>5, <2>6 DEF Publish, locals, flight
<1>13. ASSUME NEW t \in Threads, Count(t) PROVE OnRecord'
  BY <1>13 DEF Count, Goto, code_vars, know_vars, exc_vars, locals, flight, bounds, Leave
<1>14. ASSUME NEW t \in Threads, Repin(t) PROVE OnRecord'
  BY <1>14 DEF Repin, Goto, code_vars, know_vars, exc_vars, locals, flight, bounds
<1>15. ASSUME NEW t \in Threads, Rewind(t) PROVE OnRecord'
  <2>1. /\ pc[t] = "rewind" /\ UNCHANGED <<registry, sigs, crash>>
        /\ \A u \in Threads \ {t} : spec'[u] = spec[u] /\ pc'[u] = pc[u]
    BY <1>15 DEF Rewind, Leave, Goto, locals, know_vars, flight
  <2>2. \/ pc'[t] = "unwind" /\ ~spec'[t].cached /\ ~spec'[t].reuse
        \/ pc'[t] = "fallback"
    <3>1. CASE Leave(t)
      BY <3>1, BlankSpec DEF Leave, Goto
    <3>2. CASE Goto(t, "fallback")
      BY <3>2 DEF Goto
    <3> QED BY <1>15, <3>1, <3>2 DEF Rewind
  <2> QED BY <2>1, <2>2
<1>16. ASSUME NEW t \in Threads, Fallback(t) PROVE OnRecord'
  BY <1>16 DEF Fallback, Goto, code_vars, know_vars, exc_vars, locals, flight, bounds, Leave
<1>17. ASSUME NEW t \in Threads, FallbackAgain(t) PROVE OnRecord'
  BY <1>17 DEF FallbackAgain, Goto, code_vars, know_vars, exc_vars, locals, flight, bounds, Leave
<1>18. ASSUME NEW t \in Threads, Return(t) PROVE OnRecord'
  BY <1>18 DEF Return, Goto, code_vars, know_vars, exc_vars, locals, flight, bounds
<1>19. ASSUME NEW t \in Threads, Catch(t) PROVE OnRecord'
  BY <1>19 DEF Catch, Goto, code_vars, know_vars, exc_vars, locals, flight, bounds, ForgetException
<1>20. ASSUME NEW t \in Threads, PassBy(t) PROVE OnRecord'
  BY <1>20 DEF PassBy, Goto, code_vars, know_vars, exc_vars, locals, flight, bounds
<1>21. ASSUME NEW t \in Threads, Uncaught(t) PROVE OnRecord'
  BY <1>21 DEF Uncaught, Goto, code_vars, know_vars, exc_vars, locals, flight, bounds
<1>22. ASSUME NEW t \in Threads, ExceptHook(t) PROVE OnRecord'
  BY <1>22 DEF ExceptHook, Goto, code_vars, know_vars, exc_vars, locals, flight, bounds, ForgetException
<1>23. ASSUME NEW t \in Threads, NEW f \in Funcs, Call(t, f) PROVE OnRecord'
  BY <1>23 DEF Call, Goto, code_vars, know_vars, exc_vars, locals, flight, bounds
<1>24. ASSUME NEW t \in Threads, NEW c \in Crashes, NEW e \in Excs, Raise(t, c, e) PROVE OnRecord'
  BY <1>24 DEF Raise, Goto, code_vars, know_vars, exc_vars, locals, flight, bounds
<1>25. ASSUME NEW t \in Threads, NEW c \in Crashes, Propagate(t, c) PROVE OnRecord'
  BY <1>25 DEF Propagate, Goto, code_vars, know_vars, exc_vars, locals, flight, bounds
<1>26. ASSUME NEW n \in Names, RollbackRuntime(n) PROVE OnRecord'
  BY <1>26 DEF RollbackRuntime, Goto, code_vars, know_vars, exc_vars, locals, flight, bounds
<1>27. ASSUME RollbackStore PROVE OnRecord'
  BY <1>27 DEF RollbackStore, Goto, code_vars, know_vars, exc_vars, locals, flight, bounds
<1> QED BY <1>1, <1>2, <1>3, <1>4, <1>5, <1>6, <1>7, <1>8, <1>9, <1>10, <1>11, <1>12, <1>13, <1>14, <1>15, <1>16, <1>17, <1>18, <1>19, <1>20, <1>21, <1>22, <1>23, <1>24, <1>25, <1>26, <1>27
  DEF Next, Handle, Leaving

----------------------------------------------------------------------------
(* What is counted is on record, and records are not taken back.           *)
LEMMA CountedKept == CountInv /\ [Next]_vars => CountedIsOnRecord'
<1> SUFFICES ASSUME CountInv, [Next]_vars PROVE CountedIsOnRecord'
  OBVIOUS
<1> USE DEF CountInv, TypeInv, TypeOK, NotYet, Reused, Deciding, OnRecord, CountedIsOnRecord
<1>1. CASE UNCHANGED vars
  BY <1>1 DEF vars, code_vars, know_vars, exc_vars, locals, flight, bounds
<1>2. ASSUME NEW t \in Threads, CheckHandled(t) PROVE CountedIsOnRecord'
  BY <1>2 DEF CheckHandled, Goto, code_vars, know_vars, exc_vars, locals, flight, bounds
<1>3. ASSUME NEW t \in Threads, Analyze(t) PROVE CountedIsOnRecord'
  BY <1>3 DEF Analyze, Goto, code_vars, know_vars, exc_vars, locals, flight, bounds
<1>4. ASSUME NEW t \in Threads, Attempt(t) PROVE CountedIsOnRecord'
  BY <1>4 DEF Attempt, Goto, code_vars, know_vars, exc_vars, locals, flight, bounds, Leave
<1>5. ASSUME NEW t \in Threads, Reuse(t) PROVE CountedIsOnRecord'
  BY <1>5 DEF Reuse, Goto, code_vars, know_vars, exc_vars, locals, flight, bounds
<1>6. ASSUME NEW t \in Threads, Resolve(t) PROVE CountedIsOnRecord'
  BY <1>6 DEF Resolve, Goto, code_vars, know_vars, exc_vars, locals, flight, bounds
<1>7. ASSUME NEW t \in Threads, Backup(t) PROVE CountedIsOnRecord'
  BY <1>7 DEF Backup, Goto, code_vars, know_vars, exc_vars, locals, flight, bounds
<1>8. ASSUME NEW t \in Threads, Synth(t) PROVE CountedIsOnRecord'
  BY <1>8 DEF Synth, Goto, code_vars, know_vars, exc_vars, locals, flight, bounds, Leave
<1>9. ASSUME NEW t \in Threads, Persist(t) PROVE CountedIsOnRecord'
  BY <1>9 DEF Persist, Goto, code_vars, know_vars, exc_vars, locals, flight, bounds
<1>10. ASSUME NEW t \in Threads, Replace(t) PROVE CountedIsOnRecord'
  BY <1>10 DEF Replace, Goto, code_vars, know_vars, exc_vars, locals, flight, bounds
<1>11. ASSUME NEW t \in Threads, Save(t) PROVE CountedIsOnRecord'
  BY <1>11 DEF Save, Goto, code_vars, know_vars, exc_vars, locals, flight, bounds, Leave
<1>12. ASSUME NEW t \in Threads, Publish(t) PROVE CountedIsOnRecord'
  <2>1. pc[t] = "publish" /\ crash[t] \in Crashes /\ Sig[crash[t]] \in Sigs
    BY <1>12, PatchEngineAssumption DEF Publish, Stages
  <2>2. spec[t].target # "absent"
    BY PatchEngineAssumption DEF Specs, Target
  <2>3. crash[t] \in registry' /\ sigs'[Sig[crash[t]]] # "absent"
    BY <1>12, <2>1, <2>2 DEF Publish
  <2>4. pc'[t] = "count" /\ \A u \in Threads \ {t} : pc'[u] = pc[u]
    BY <1>12 DEF Publish, Goto
  <2>5. registry \subseteq registry' /\ \A s \in Sigs : sigs[s] # "absent" => sigs'[s] # "absent"
    BY <1>12, <2>1, <2>2 DEF Publish
  <2>6. Sig \in [Crashes -> Sigs]
    BY PatchEngineAssumption
  <2> QED BY <1>12, <2>5, <2>6 DEF Publish, exc_vars
<1>13. ASSUME NEW t \in Threads, Count(t) PROVE CountedIsOnRecord'
  BY <1>13 DEF Count, Goto, code_vars, know_vars, exc_vars, locals, flight, bounds, Leave
<1>14. ASSUME NEW t \in Threads, Repin(t) PROVE CountedIsOnRecord'
  BY <1>14 DEF Repin, Goto, code_vars, know_vars, exc_vars, locals, flight, bounds
<1>15. ASSUME NEW t \in Threads, Rewind(t) PROVE CountedIsOnRecord'
  BY <1>15 DEF Rewind, Goto, code_vars, know_vars, exc_vars, locals, flight, bounds, Leave
<1>16. ASSUME NEW t \in Threads, Fallback(t) PROVE CountedIsOnRecord'
  BY <1>16 DEF Fallback, Goto, code_vars, know_vars, exc_vars, locals, flight, bounds, Leave
<1>17. ASSUME NEW t \in Threads, FallbackAgain(t) PROVE CountedIsOnRecord'
  BY <1>17 DEF FallbackAgain, Goto, code_vars, know_vars, exc_vars, locals, flight, bounds, Leave
<1>18. ASSUME NEW t \in Threads, Return(t) PROVE CountedIsOnRecord'
  BY <1>18 DEF Return, Goto, code_vars, know_vars, exc_vars, locals, flight, bounds
<1>19. ASSUME NEW t \in Threads, Catch(t) PROVE CountedIsOnRecord'
  BY <1>19 DEF Catch, Goto, code_vars, know_vars, exc_vars, locals, flight, bounds, ForgetException
<1>20. ASSUME NEW t \in Threads, PassBy(t) PROVE CountedIsOnRecord'
  BY <1>20 DEF PassBy, Goto, code_vars, know_vars, exc_vars, locals, flight, bounds
<1>21. ASSUME NEW t \in Threads, Uncaught(t) PROVE CountedIsOnRecord'
  BY <1>21 DEF Uncaught, Goto, code_vars, know_vars, exc_vars, locals, flight, bounds
<1>22. ASSUME NEW t \in Threads, ExceptHook(t) PROVE CountedIsOnRecord'
  BY <1>22 DEF ExceptHook, Goto, code_vars, know_vars, exc_vars, locals, flight, bounds, ForgetException
<1>23. ASSUME NEW t \in Threads, NEW f \in Funcs, Call(t, f) PROVE CountedIsOnRecord'
  BY <1>23 DEF Call, Goto, code_vars, know_vars, exc_vars, locals, flight, bounds
<1>24. ASSUME NEW t \in Threads, NEW c \in Crashes, NEW e \in Excs, Raise(t, c, e) PROVE CountedIsOnRecord'
  BY <1>24 DEF Raise, Goto, code_vars, know_vars, exc_vars, locals, flight, bounds
<1>25. ASSUME NEW t \in Threads, NEW c \in Crashes, Propagate(t, c) PROVE CountedIsOnRecord'
  BY <1>25 DEF Propagate, Goto, code_vars, know_vars, exc_vars, locals, flight, bounds
<1>26. ASSUME NEW n \in Names, RollbackRuntime(n) PROVE CountedIsOnRecord'
  BY <1>26 DEF RollbackRuntime, Goto, code_vars, know_vars, exc_vars, locals, flight, bounds
<1>27. ASSUME RollbackStore PROVE CountedIsOnRecord'
  BY <1>27 DEF RollbackStore, Goto, code_vars, know_vars, exc_vars, locals, flight, bounds
<1> QED BY <1>1, <1>2, <1>3, <1>4, <1>5, <1>6, <1>7, <1>8, <1>9, <1>10, <1>11, <1>12, <1>13, <1>14, <1>15, <1>16, <1>17, <1>18, <1>19, <1>20, <1>21, <1>22, <1>23, <1>24, <1>25, <1>26, <1>27
  DEF Next, Handle, Leaving

----------------------------------------------------------------------------
(* A step keeps the marks of the exceptions in flight.                     *)
LEMMA MarkedKept == CountInv /\ [Next]_vars => Marked'
<1> SUFFICES ASSUME CountInv, [Next]_vars PROVE Marked'
  OBVIOUS
<1> USE DEF CountInv, TypeInv, TypeOK, NotYet, Reused, Deciding, Marked, Stages
<1>1. CASE UNCHANGED vars
  BY <1>1 DEF vars, code_vars, know_vars, exc_vars, locals, flight, bounds
<1>2. ASSUME NEW t \in Threads, CheckHandled(t) PROVE Marked'
  BY <1>2 DEF CheckHandled, Goto, code_vars, know_vars, exc_vars, locals, flight, bounds
<1>3. ASSUME NEW t \in Threads, Analyze(t) PROVE Marked'
  BY <1>3 DEF Analyze, Goto, code_vars, know_vars, exc_vars, locals, flight, bounds
<1>4. ASSUME NEW t \in Threads, Attempt(t) PROVE Marked'
  BY <1>4 DEF Attempt, Goto, code_vars, know_vars, exc_vars, locals, flight, bounds, Leave
<1>5. ASSUME NEW t \in Threads, Reuse(t) PROVE Marked'
  BY <1>5 DEF Reuse, Goto, code_vars, know_vars, exc_vars, locals, flight, bounds
<1>6. ASSUME NEW t \in Threads, Resolve(t) PROVE Marked'
  BY <1>6 DEF Resolve, Goto, code_vars, know_vars, exc_vars, locals, flight, bounds
<1>7. ASSUME NEW t \in Threads, Backup(t) PROVE Marked'
  BY <1>7 DEF Backup, Goto, code_vars, know_vars, exc_vars, locals, flight, bounds
<1>8. ASSUME NEW t \in Threads, Synth(t) PROVE Marked'
  BY <1>8 DEF Synth, Goto, code_vars, know_vars, exc_vars, locals, flight, bounds, Leave
<1>9. ASSUME NEW t \in Threads, Persist(t) PROVE Marked'
  BY <1>9 DEF Persist, Goto, code_vars, know_vars, exc_vars, locals, flight, bounds
<1>10. ASSUME NEW t \in Threads, Replace(t) PROVE Marked'
  BY <1>10 DEF Replace, Goto, code_vars, know_vars, exc_vars, locals, flight, bounds
<1>11. ASSUME NEW t \in Threads, Save(t) PROVE Marked'
  BY <1>11 DEF Save, Goto, code_vars, know_vars, exc_vars, locals, flight, bounds, Leave
<1>12. ASSUME NEW t \in Threads, Publish(t) PROVE Marked'
  BY <1>12 DEF Publish, Goto, code_vars, know_vars, exc_vars, locals, flight, bounds
<1>13. ASSUME NEW t \in Threads, Count(t) PROVE Marked'
  BY <1>13 DEF Count, Goto, code_vars, know_vars, exc_vars, locals, flight, bounds, Leave
<1>14. ASSUME NEW t \in Threads, Repin(t) PROVE Marked'
  BY <1>14 DEF Repin, Goto, code_vars, know_vars, exc_vars, locals, flight, bounds
<1>15. ASSUME NEW t \in Threads, Rewind(t) PROVE Marked'
  <2>1. pc[t] = "rewind" /\ UNCHANGED <<exc, mine>> /\ handled \subseteq handled'
    BY <1>15 DEF Rewind, flight
  <2>2. pc' = [pc EXCEPT ![t] = "unwind"] \/ pc' = [pc EXCEPT ![t] = "fallback"]
    <3>1. Goto(t, "unwind") \/ Goto(t, "fallback")
      BY <1>15 DEF Rewind, Leave
    <3> QED BY <3>1 DEF Goto
  <2> QED BY <2>1, <2>2
<1>16. ASSUME NEW t \in Threads, Fallback(t) PROVE Marked'
  BY <1>16 DEF Fallback, Goto, code_vars, know_vars, exc_vars, locals, flight, bounds, Leave
<1>17. ASSUME NEW t \in Threads, FallbackAgain(t) PROVE Marked'
  BY <1>17 DEF FallbackAgain, Goto, code_vars, know_vars, exc_vars, locals, flight, bounds, Leave
<1>18. ASSUME NEW t \in Threads, Return(t) PROVE Marked'
  BY <1>18 DEF Return, Goto, code_vars, know_vars, exc_vars, locals, flight, bounds
<1>19. ASSUME NEW t \in Threads, Catch(t) PROVE Marked'
  BY <1>19 DEF Catch, Goto, code_vars, know_vars, exc_vars, locals, flight, bounds, ForgetException
<1>20. ASSUME NEW t \in Threads, PassBy(t) PROVE Marked'
  BY <1>20 DEF PassBy, Goto, code_vars, know_vars, exc_vars, locals, flight, bounds
<1>21. ASSUME NEW t \in Threads, Uncaught(t) PROVE Marked'
  BY <1>21 DEF Uncaught, Goto, code_vars, know_vars, exc_vars, locals, flight, bounds
<1>22. ASSUME NEW t \in Threads, ExceptHook(t) PROVE Marked'
  BY <1>22 DEF ExceptHook, Goto, code_vars, know_vars, exc_vars, locals, flight, bounds, ForgetException
<1>23. ASSUME NEW t \in Threads, NEW f \in Funcs, Call(t, f) PROVE Marked'
  BY <1>23 DEF Call, Goto, code_vars, know_vars, exc_vars, locals, flight, bounds
<1>24. ASSUME NEW t \in Threads, NEW c \in Crashes, NEW e \in Excs, Raise(t, c, e) PROVE Marked'
  BY <1>24 DEF Raise, Goto, code_vars, know_vars, exc_vars, locals, flight, bounds
<1>25. ASSUME NEW t \in Threads, NEW c \in Crashes, Propagate(t, c) PROVE Marked'
  BY <1>25 DEF Propagate, Goto, code_vars, know_vars, exc_vars, locals, flight, bounds
<1>26. ASSUME NEW n \in Names, RollbackRuntime(n) PROVE Marked'
  BY <1>26 DEF RollbackRuntime, Goto, code_vars, know_vars, exc_vars, locals, flight, bounds
<1>27. ASSUME RollbackStore PROVE Marked'
  BY <1>27 DEF RollbackStore, Goto, code_vars, know_vars, exc_vars, locals, flight, bounds
<1> QED BY <1>1, <1>2, <1>3, <1>4, <1>5, <1>6, <1>7, <1>8, <1>9, <1>10, <1>11, <1>12, <1>13, <1>14, <1>15, <1>16, <1>17, <1>18, <1>19, <1>20, <1>21, <1>22, <1>23, <1>24, <1>25, <1>26, <1>27
  DEF Next, Handle, Leaving

----------------------------------------------------------------------------
(* The theorems.                                                           *)

LEMMA CountInvariance == Spec => []CountInv
<1>1. Init => CountInv
  BY TypeInit DEF Init, CountInv, OnRecord, CountedIsOnRecord, Marked, NoSpecYet, NotYet,
                  Reused, Deciding
<1>2. CountInv /\ [Next]_vars => CountInv'
  BY TypeNext, OnRecordKept, CountedKept, MarkedKept DEF CountInv
<1> QED BY <1>1, <1>2, PTL DEF Spec

(* A counted patch can be repeated without a new analysis: by signature in *)
(* this process, by fingerprint in the next one.                           *)
THEOREM CountedPatchesAreOnRecord == Spec => []CountedIsOnRecord
<1>1. CountInv => CountedIsOnRecord
  BY DEF CountInv
<1> QED BY <1>1, CountInvariance, PTL

(* An exception is patched once, in however many frames it is seen.        *)
THEOREM ExceptionsCountOnce == Spec => []CountedOnce
<1>1. CountInv => CountedOnce
  BY DEF CountInv, Marked, CountedOnce, Deciding, Reused
<1> QED BY <1>1, CountInvariance, PTL

----------------------------------------------------------------------------
(* What a step of one thread is to the rest: lemmas for both invariants.    *)

Steps(t) ==
  \/ \E f \in Funcs : Call(t, f)
  \/ Return(t)
  \/ \E c \in Crashes, e \in Excs : Raise(t, c, e)
  \/ Handle(t)
  \/ Leaving(t)

Rollback == (\E n \in Names : RollbackRuntime(n)) \/ RollbackStore

(* A code object something refers to is never overwritten.                 *)
LEMMA LiveKept ==
  ASSUME TypeInv, [Next]_vars
  PROVE  /\ \A f \in Funcs : heap'[fcode[f]] = heap[fcode[f]]
         /\ \A k \in Keys : originals[k] # None => heap'[originals[k]] = heap[originals[k]]
         /\ \A u \in Threads : old[u] # None => heap'[old[u]] = heap[old[u]]
         /\ \A u \in Threads : new[u] # None => heap'[new[u]] = heap[new[u]]
         /\ \A u \in Threads : stack[u] # <<>> => heap'[Top(u).code] = heap[Top(u).code]
<1>1. \A x \in LiveCodes \cap Codes : heap'[x] = heap[x]
  <2>1. ASSUME NEW t \in Threads, Synth(t) PROVE \A x \in LiveCodes \cap Codes : heap'[x] = heap[x]
    BY <2>1 DEF Synth, TypeOK
  <2>2. CASE Next /\ ~\E t \in Threads : Synth(t)
    <3>1. UNCHANGED heap
      BY <2>2 DEF Next, Call, Return, Raise, Handle, CheckHandled, Analyze, Attempt, Reuse, Resolve,
         Backup, Persist, Replace, Save, Publish, Count, Repin, Rewind, Fallback, FallbackAgain,
         Leaving, Catch, PassBy, Uncaught, ExceptHook, Propagate, RollbackRuntime, RollbackStore,
         code_vars
    <3> QED BY <3>1
  <2>3. CASE UNCHANGED vars
    BY <2>3 DEF vars, code_vars
  <2> QED BY <2>1, <2>2, <2>3
<1>2. /\ \A f \in Funcs : fcode[f] \in Codes
      /\ \A k \in Keys : originals[k] # None => originals[k] \in Codes
  BY DEF TypeOK
<1>3. \A u \in Threads : (old[u] # None => old[u] \in Codes) /\ (new[u] # None => new[u] \in Codes)
  BY DEF TypeOK
<1>4. ASSUME NEW u \in Threads, stack[u] # <<>> PROVE heap'[Top(u).code] = heap[Top(u).code]
  <2>1. Top(u) = stack[u][1] /\ 1 \in 1 .. Len(stack[u]) /\ Top(u).code \in Codes
    BY <1>4, PopFrame, TopFrame DEF TypeOK, Top
  <2> QED BY <1>1, <2>1, LiveNotFree
<1> QED BY <1>1, <1>2, <1>3, <1>4, LiveNotFree

LEMMA OthersKept ==
  ASSUME TypeInv, NEW t \in Threads, Steps(t), NEW u \in Threads \ {t}
  PROVE  /\ pc'[u] = pc[u] /\ func'[u] = func[u] /\ old'[u] = old[u] /\ new'[u] = new[u]
         /\ stack'[u] = stack[u] /\ crash'[u] = crash[u]
<1> USE DEF TypeOK, Goto, Leave, locals, flight
<1>1. CASE Leaving(t) \/ Return(t)
  BY <1>1 DEF Leaving, Catch, PassBy, Uncaught, ExceptHook, Propagate, ForgetException, Return
<1>2. CASE (\E f \in Funcs : Call(t, f)) \/ (\E c \in Crashes, e \in Excs : Raise(t, c, e))
  BY <1>2 DEF Call, Raise
<1>3. CASE CheckHandled(t) \/ Analyze(t) \/ Attempt(t)
  BY <1>3 DEF CheckHandled, Analyze, Attempt
<1>4. CASE Reuse(t) \/ Resolve(t) \/ Backup(t)
  BY <1>4 DEF Reuse, Resolve, Backup
<1>5. CASE Synth(t) \/ Count(t)
  BY <1>5 DEF Synth, Count
<1>8. CASE Save(t)
  <2>1. UNCHANGED <<stack, crash>> /\ (Leave(t) \/ (Goto(t, "publish") /\ UNCHANGED locals))
    BY <1>8 DEF Save
  <2> QED BY <2>1
<1>6. CASE Persist(t) \/ Replace(t) \/ Publish(t) \/ Repin(t)
  BY <1>6 DEF Persist, Replace, Publish, Repin
<1>7. CASE Rewind(t) \/ Fallback(t) \/ FallbackAgain(t)
  BY <1>7 DEF Rewind, Fallback, FallbackAgain
<1> QED BY <1>1, <1>2, <1>3, <1>4, <1>5, <1>6, <1>7, <1>8 DEF Steps, Handle

(* The stations of the handler from Resolve on. *)
Swapped == HasNew \ {"persist", "replace"}

Onward(t) ==
  \/ Resolve(t)
  \/ /\ pc[t] \in HasOld /\ func'[t] = func[t] /\ old'[t] = old[t]
     /\ \/ Backup(t) /\ pc'[t] = "synth" /\ new'[t] = new[t]
        \/ Synth(t) /\ pc'[t] = "persist" /\ ~Leave(t)
        \/ Persist(t) /\ pc'[t] = "replace" /\ new'[t] = new[t]
        \/ Replace(t) /\ pc'[t] = "save" /\ new'[t] = new[t]
        \/ pc[t] \in Swapped /\ pc'[t] \in Swapped /\ new'[t] = new[t]

LEMMA Transition ==
  ASSUME TypeInv, NEW t \in Threads, Steps(t), pc'[t] \in HasOld
  PROVE  UNCHANGED <<stack, crash>> /\ Onward(t)
<1> USE DEF TypeOK, Goto, Leave, locals, flight, HasOld, HasNew, Swapped, Onward
<1>1. CASE Leaving(t) \/ Return(t)
  BY <1>1 DEF Leaving, Catch, PassBy, Uncaught, ExceptHook, Propagate, Return
<1>2. CASE (\E f \in Funcs : Call(t, f)) \/ (\E c \in Crashes, e \in Excs : Raise(t, c, e))
  BY <1>2 DEF Call, Raise
<1>3. CASE CheckHandled(t) \/ Analyze(t) \/ Attempt(t)
  BY <1>3 DEF CheckHandled, Analyze, Attempt
<1>4. CASE Reuse(t) \/ Resolve(t) \/ Backup(t)
  BY <1>4 DEF Reuse, Resolve, Backup
<1>5. CASE Synth(t)
  BY <1>5 DEF Synth
<1>6. CASE Save(t) \/ Count(t)
  BY <1>6 DEF Save, Count
<1>7. CASE Persist(t) \/ Replace(t) \/ Publish(t) \/ Repin(t)
  BY <1>7 DEF Persist, Replace, Publish, Repin
<1>8. CASE Rewind(t) \/ Fallback(t) \/ FallbackAgain(t)
  BY <1>8 DEF Rewind, Fallback, FallbackAgain
<1> QED BY <1>1, <1>2, <1>3, <1>4, <1>5, <1>6, <1>7, <1>8 DEF Steps, Handle

(* No other function's body can take the place of that of f: nothing is     *)
(* rolled back, or f has names of its own.                                  *)
Sole(f) == \A g \in Funcs : Kin(f, g) => g = f

LEMMA SoleWithoutRollback == ASSUME MaxRollbacks = 0, NEW f \in Funcs PROVE Sole(f)
BY DEF Sole, Kin

LEMMA SoleWithOwnName == ASSUME NEW f \in Funcs, OwnName(f) PROVE Sole(f)
BY DEF Sole, Kin, OwnName

LEMMA SoleBody ==
  ASSUME BodyInv, NEW f \in Funcs, Sole(f)
  PROVE  /\ \A g \in Funcs : heap[fcode[g]].fn = f <=> g = f
         /\ \A x \in Funcs : Kin(x, f) \/ Kin(f, x) => x = f
<1>1. \A x \in Funcs : Kin(x, f) \/ Kin(f, x) => x = f
  BY KinFacts DEF Sole
<1>2. \A g \in Funcs : heap[fcode[g]].fn \in Funcs /\ Kin(heap[fcode[g]].fn, g)
  BY DEF NoDangling, Code, CodeBodies
<1> QED
  BY <1>1, <1>2

(* A handler at work on a frame of f, or on f, has nothing but f in hand.   *)
LEMMA SoleLocals ==
  ASSUME BodyInv, NEW f \in Funcs, Sole(f), NEW t \in Threads, stack[t] # <<>>
  PROVE  /\ Top(t).fn = f <=> Body(Top(t)) = f
         /\ func[t] # None => (func[t] = f <=> Top(t).fn = f)
         /\ old[t] # None => (heap[old[t]].fn = f <=> Top(t).fn = f)
         /\ new[t] # None => (heap[new[t]].fn = f <=> Top(t).fn = f)
<1>1. \A x, y \in Funcs : Kin(x, y) => (x = f <=> y = f)
  BY SoleBody
<1>2. Top(t).fn \in Funcs /\ Body(Top(t)) \in Funcs /\ Kin(Body(Top(t)), Top(t).fn)
  BY TopFrame, TopBody
<1>3. func[t] # None => func[t] \in Funcs /\ Kin(func[t], Top(t).fn)
  BY DEF LocalBodies, LocalBody, TypeOK, Target
<1>4. old[t] # None => heap[old[t]].fn \in Funcs /\ Kin(heap[old[t]].fn, Top(t).fn)
  BY DEF LocalBodies, LocalBody, NoDangling, Code
<1>5. new[t] # None => heap[new[t]].fn \in Funcs /\ Kin(heap[new[t]].fn, Top(t).fn)
  BY DEF LocalBodies, LocalBody, NoDangling, Code
<1> QED
  BY <1>1, <1>2, <1>3, <1>4, <1>5

(* The function get_function_from_frame finds for a frame of f is f, or     *)
(* none when the frame runs superseded code.                                *)
LEMMA SoleFound ==
  ASSUME BodyInv, NEW f \in Funcs, Sole(f), NEW t \in Threads, stack[t] # <<>>, Top(t).fn = f
  PROVE  FunctionsOf(Top(t)) = IF fcode[f] = Top(t).code THEN {f} ELSE {None}
<1>1. heap[Top(t).code].fn = f
  BY SoleLocals DEF Body
<1>2. \A g \in Funcs : fcode[g] = Top(t).code => g = f
  BY <1>1, SoleBody
<1>3. {g \in Funcs : fcode[g] = Top(t).code} = IF fcode[f] = Top(t).code THEN {f} ELSE {}
  BY <1>2
<1> QED
  BY <1>3 DEF FunctionsOf

(* What a rollback is to a function with names of its own.                  *)
LEMMA OwnRollback ==
  ASSUME BodyInv, NEW f \in Funcs, OwnName(f), NEW n \in Names, RollbackRuntime(n)
  PROVE  IF n # Name[f]
         THEN fcode'[f] = fcode[f] /\ originals'[Key(f)] = originals[Key(f)]
         ELSE IF originals[Key(f)] = None
         THEN fcode'[f] = fcode[f] /\ originals'[Key(f)] = None
         ELSE fcode'[f] = originals[Key(f)] /\ originals'[Key(f)] \in {None, originals[Key(f)]}
<1>1. Sole(f) /\ Key(f) \in Keys /\ Key(f)[2] = Name[f]
  BY SoleWithOwnName, KeyOfFunction
<1>2. heap[fcode[f]].fn = f
  BY <1>1, SoleBody
<1>3. ASSUME NEW k \in Keys, originals[k] # None, k[2] = Name[f] PROVE k = Key(f)
  <2>1. PICK g \in Funcs : k = Key(g)
    BY <1>3 DEF CodeBodies
  <2> QED BY <1>3, <2>1, KeyOfFunction DEF OwnName
<1>4. ASSUME NEW g \in Funcs, Name[heap[fcode[g]].fn] = Name[f] PROVE g = f
  <2>1. heap[fcode[g]].fn \in Funcs
    BY DEF NoDangling, Code
  <2>2. heap[fcode[g]].fn = f
    BY <1>4, <2>1 DEF OwnName
  <2> QED BY <1>1, <2>2, SoleBody
<1>5. ASSUME NEW k \in Keys, NEW g \in Funcs, k[2] = n, originals[k] # None,
             Name[heap[fcode[g]].fn] = n, fcode' = [fcode EXCEPT ![g] = originals[k]],
             originals' = [originals EXCEPT ![k] = None]
      PROVE  IF n # Name[f]
             THEN fcode'[f] = fcode[f] /\ originals'[Key(f)] = originals[Key(f)]
             ELSE originals[Key(f)] # None /\ fcode'[f] = originals[Key(f)] /\ originals'[Key(f)] = None
  <2>1. CASE n # Name[f]
    <3>1. g # f /\ k # Key(f)
      BY <1>1, <1>2, <1>5, <2>1
    <3> QED BY <1>1, <1>5, <2>1, <3>1 DEF TypeOK
  <2>2. CASE n = Name[f]
    <3>1. g = f /\ k = Key(f)
      BY <1>3, <1>4, <1>5, <2>2
    <3> QED BY <1>1, <1>5, <2>2, <3>1 DEF TypeOK
  <2> QED BY <2>1, <2>2
<1>6. ASSUME UNCHANGED <<fcode, originals>>, n = Name[f], originals[Key(f)] # None,
             \A k \in Keys, g \in Funcs :
               k[2] = n /\ originals[k] # None /\ Name[heap[fcode[g]].fn] = n
                 => fcode[g] = originals[k]
      PROVE  fcode'[f] = originals[Key(f)]
  BY <1>1, <1>2, <1>6
<1>7. \/ \E k \in Keys, g \in Funcs :
           /\ k[2] = n /\ originals[k] # None /\ Name[heap[fcode[g]].fn] = n
           /\ fcode' = [fcode EXCEPT ![g] = originals[k]]
           /\ originals' = [originals EXCEPT ![k] = None]
      \/ /\ UNCHANGED <<fcode, originals>>
         /\ \A k \in Keys, g \in Funcs :
              k[2] = n /\ originals[k] # None /\ Name[heap[fcode[g]].fn] = n
                => fcode[g] = originals[k]
  BY DEF RollbackRuntime
<1> QED
  BY <1>5, <1>6, <1>7

(* Who changes the code of a function: the three swaps of a thread that     *)
(* handles a crash of it, and a rollback of its name.                       *)
Swap(t, f) ==
  /\ stack[t] # <<>> /\ Top(t).fn = f /\ fcode'[f] = new[t] /\ new[t] # None
  /\ \/ Persist(t) /\ fcode[f] = old[t]
     \/ (Replace(t) \/ Repin(t)) /\ func[t] = f

LEMMA Swaps ==
  ASSUME BodyInv, Next, NEW f \in Funcs, Sole(f), fcode'[f] # fcode[f]
  PROVE  \/ \E t \in Threads : Swap(t, f)
         \/ RollbackRuntime(Name[f])
<1>0. heap[fcode[f]].fn = f
  BY SoleBody
<1>1. ASSUME NEW t \in Threads, Persist(t) PROVE Swap(t, f)
  <2>1. old[t] # None /\ new[t] # None /\ stack[t] # <<>>
    BY <1>1 DEF Persist, Stages, HasOld, HasNew
  <2>2. fcode[f] = old[t] /\ fcode'[f] = new[t]
    BY <1>1 DEF Persist
  <2>3. Top(t).fn = f
    BY <1>0, <2>1, <2>2, SoleLocals
  <2> QED BY <1>1, <2>1, <2>2, <2>3 DEF Swap
<1>2. ASSUME NEW t \in Threads, Replace(t) PROVE Swap(t, f)
  <2>1. new[t] # None /\ func[t] # None /\ stack[t] # <<>>
    BY <1>2 DEF Replace, Stages, HasOld, HasNew
  <2>2. func[t] \in Funcs
    BY <2>1 DEF TypeOK, Target
  <2>3. fcode[f] = fcode[func[t]] /\ fcode'[f] = new[t]
    BY <1>2, <2>1 DEF Replace
  <2>4. func[t] = f
    BY <1>0, <2>2, <2>3, SoleBody
  <2>5. Top(t).fn = f
    BY <2>1, <2>4, SoleLocals
  <2> QED BY <1>2, <2>1, <2>3, <2>4, <2>5 DEF Swap
<1>3. ASSUME NEW t \in Threads, Repin(t) PROVE Swap(t, f)
  <2>1. new[t] # None /\ func[t] # None /\ stack[t] # <<>>
    BY <1>3 DEF Repin, Stages, HasOld, HasNew
  <2>2. fcode'[f] = new[t] /\ func[t] = f
    BY <1>3 DEF Repin, TypeOK
  <2>3. Top(t).fn = f
    BY <2>1, <2>2, SoleLocals
  <2> QED BY <1>3, <2>1, <2>2, <2>3 DEF Swap
<1>4. ASSUME NEW n \in Names, RollbackRuntime(n) PROVE n = Name[f]
  <2>1. PICK h \in Funcs, k \in Keys :
          Name[heap[fcode[h]].fn] = n /\ fcode' = [fcode EXCEPT ![h] = originals[k]]
    BY <1>4 DEF RollbackRuntime
  <2>2. h = f
    BY <2>1 DEF TypeOK
  <2> QED BY <1>0, <2>1, <2>2
<1>5. \/ \E t \in Threads : Persist(t) \/ Replace(t) \/ Repin(t)
      \/ \E n \in Names : RollbackRuntime(n)
  BY DEF Next, Call, Return, Raise, Handle, CheckHandled, Analyze, Attempt, Reuse, Resolve, Backup,
     Synth, Save, Publish, Count, Rewind, Fallback, FallbackAgain, Leaving, Catch, PassBy,
     Uncaught, ExceptHook, Propagate, RollbackStore, code_vars
<1> QED BY <1>1, <1>2, <1>3, <1>4, <1>5

(* A frame was there before, or was just called with the code its function *)
(* has.                                                                     *)
LEMMA FrameOrigin ==
  ASSUME TypeInv, Next, NEW u \in Threads, NEW i \in 1 .. Len(stack'[u])
  PROVE  \/ \E j \in 1 .. Len(stack[u]) : stack'[u][i] = stack[u][j]
         \/ stack'[u][i].code = fcode[stack'[u][i].fn] /\ UNCHANGED fcode
<1>1. stack[u] \in Seq(Frame)
  BY DEF TypeOK
<1>2. ASSUME NEW f \in Funcs, Call(u, f)
      PROVE  \/ \E j \in 1 .. Len(stack[u]) : stack'[u][i] = stack[u][j]
             \/ stack'[u][i].code = fcode[stack'[u][i].fn]
  <2> DEFINE fr == [fn |-> f, code |-> fcode[f]]
  <2>1. fr \in Frame /\ fr.code = fcode[fr.fn]
    BY DEF TypeOK, Frame
  <2>2. stack'[u] = <<fr>> \o stack[u]
    BY <1>2 DEF Call, TypeOK
  <2> HIDE DEF fr
  <2>3. i \in 1 .. Len(<<fr>> \o stack[u])
    BY <2>2
  <2>4. \/ (<<fr>> \o stack[u])[i] = fr
        \/ \E j \in 1 .. Len(stack[u]) : (<<fr>> \o stack[u])[i] = stack[u][j]
    BY <1>1, <2>1, <2>3, PushFrame
  <2> QED BY <2>1, <2>2, <2>4
<1>3. ASSUME stack[u] # <<>>, stack'[u] = Tail(stack[u])
      PROVE  \E j \in 1 .. Len(stack[u]) : stack'[u][i] = stack[u][j]
  BY <1>1, <1>3, PopFrame
<1>4. ASSUME stack'[u] = stack[u] PROVE \E j \in 1 .. Len(stack[u]) : stack'[u][i] = stack[u][j]
  BY <1>4
<1>5. stack'[u] # <<>>
  BY <1>1 DEF TypeOK
<1>6. ASSUME NEW t \in Threads, Steps(t)
      PROVE  \/ (\E f \in Funcs : u = t /\ Call(u, f)) \/ stack'[u] = stack[u]
             \/ stack[u] # <<>> /\ stack'[u] = Tail(stack[u])
  <2>1. CASE u # t
    BY <1>6, <2>1, OthersKept
  <2>2. CASE u = t /\ (Return(t) \/ PassBy(t) \/ \E c \in Crashes : Propagate(t, c))
    <3>1. stack[t] # <<>>
      BY <2>2 DEF Return, PassBy, Propagate, Stages
    <3> QED BY <2>2, <3>1 DEF Return, PassBy, Propagate, TypeOK
  <2>3. CASE u = t /\ Uncaught(t)
    BY <1>5, <2>3 DEF Uncaught, TypeOK
  <2>4. CASE \/ \E c \in Crashes, e \in Excs : Raise(t, c, e)
             \/ Handle(t) \/ Catch(t) \/ ExceptHook(t)
    BY <2>4 DEF Raise, Handle, CheckHandled, Analyze, Attempt, Reuse, Resolve, Backup, Synth, Persist,
       Replace, Save, Publish, Count, Repin, Rewind, Fallback, FallbackAgain, Catch, ExceptHook,
       flight
  <2> QED BY <1>6, <2>1, <2>2, <2>3, <2>4 DEF Steps, Leaving
<1>7. ASSUME NEW f \in Funcs, Call(u, f) PROVE UNCHANGED fcode
  BY <1>7 DEF Call, code_vars
<1>8. CASE Rollback
  <2>1. stack' = stack
    BY <1>8 DEF Rollback, RollbackRuntime, RollbackStore, flight
  <2> QED BY <1>4, <2>1
<1>9. CASE \E t \in Threads : Steps(t)
  BY <1>2, <1>3, <1>4, <1>6, <1>7, <1>9
<1> QED BY <1>8, <1>9 DEF Next, Steps, Rollback

----------------------------------------------------------------------------
(* Patches that stay.  When the crashes of a function have one signature,   *)
(* every patch of the function holds the guard; so, until it is rolled      *)
(* back, the function does from its first patch on, whoever patches it.     *)

OneSignature == \A c, d \in Crashes : At[c] = At[d] => Sig[c] = Sig[d]

(* The code object at an address holds the guards that f needs, or f runs  *)
(* such a one.                                                             *)
Protects(x, f) == \A c \in Crashes : At[c] = f => Sig[c] \in heap[x].guards
Protected(f) == Protects(fcode[f], f)

(* A frame that runs other code than its function was called before the    *)
(* function was patched.                                                   *)
Superseded ==
  \A t \in Threads : \A i \in 1 .. Len(stack[t]), f \in Funcs :
    stack[t][i].fn = f /\ stack[t][i].code # fcode[f] => Protected(f)

(* The thread handles a crash of its frame: it is at work on f. *)
InHandler(t) == pc[t] \notin {"run", "unwind", "hook"}
Working(t, f) == pc[t] \in HasOld /\ Top(t).fn = f

SiteIsTop == \A t \in Threads : InHandler(t) => At[crash[t]] = Body(Top(t))

Patching ==
  \A t \in Threads, f \in Funcs : Working(t, f) =>
    /\ new[t] # None => Protects(new[t], f)
    /\ func[t] = None \/ pc[t] \in Swapped => Protected(f)

CountedIsLive == \A c \in Crashes : applied[c] > 0 => Protected(At[c])

GuardInv == BodyInv /\ Superseded /\ SiteIsTop /\ Patching /\ CountedIsLive


LEMMA GuardInit == Init /\ Fix = At => GuardInv
<1> SUFFICES ASSUME Init, Fix = At PROVE GuardInv
  OBVIOUS
<1>1. BodyInv
  BY BodyInit
<1>2. /\ \A t \in Threads : stack[t] = <<>> /\ pc[t] = "run"
      /\ \A c \in Crashes : applied[c] = 0
  BY DEF Init
<1> QED
  BY <1>1, <1>2 DEF GuardInv, Superseded, SiteIsTop, Patching, CountedIsLive, InHandler, Working,
     HasOld

(* A guarded function stays guarded, and every patch guards it. *)
LEMMA GuardsRemain ==
  ASSUME GuardInv, MaxRollbacks = 0, [Next]_vars, NEW f \in Funcs
  PROVE  Protected(f) \/ fcode'[f] # fcode[f] => Protected(f)'
<1>1. BodyInv
  BY DEF GuardInv
<1>2. CASE fcode'[f] = fcode[f]
  BY <1>1, <1>2, LiveKept DEF Protected, Protects
<1>3. CASE fcode'[f] # fcode[f]
  <2>1. Next
    BY <1>3 DEF vars, code_vars
  <2>2. ~RollbackRuntime(Name[f])
    BY <1>1 DEF RollbackRuntime, TypeOK
  <2>3. PICK t \in Threads : Swap(t, f)
    BY <1>1, <1>3, <2>1, <2>2, Swaps, SoleWithoutRollback
  <2>4. Working(t, f)
    BY <1>1, <2>3 DEF Swap, Working, Persist, Replace, Repin, HasOld
  <2>5. Protects(new[t], f) /\ heap'[new[t]] = heap[new[t]] /\ fcode'[f] = new[t]
    BY <1>1, <2>3, <2>4, LiveKept DEF GuardInv, Patching, Swap
  <2> QED BY <2>5 DEF Protected, Protects
<1> QED BY <1>2, <1>3

LEMMA SupersededKept == GuardInv /\ MaxRollbacks = 0 /\ Next => Superseded'
<1> SUFFICES ASSUME GuardInv, MaxRollbacks = 0, Next,
                    NEW u \in Threads, NEW i \in 1 .. Len(stack'[u]), NEW f \in Funcs,
                    stack'[u][i].fn = f, stack'[u][i].code # fcode'[f]
             PROVE  Protected(f)'
  BY DEF Superseded
<1>1. BodyInv
  BY DEF GuardInv
<1>2. PICK j \in 1 .. Len(stack[u]) : stack'[u][i] = stack[u][j]
  BY <1>1, FrameOrigin
<1>3. stack[u][j].code # fcode[f] => Protected(f)
  BY <1>2 DEF GuardInv, Superseded
<1>4. Protected(f) \/ fcode'[f] # fcode[f] => Protected(f)'
  BY GuardsRemain
<1> QED BY <1>2, <1>3, <1>4

LEMMA SiteKept == TypeInv /\ SiteIsTop /\ Next => SiteIsTop'
<1> SUFFICES ASSUME TypeInv, SiteIsTop, Next, NEW u \in Threads, InHandler(u)'
             PROVE  (At[crash[u]] = Body(Top(u)))'
  BY DEF SiteIsTop
<1>1. ASSUME InHandler(u), crash'[u] = crash[u], stack'[u] = stack[u]
      PROVE  (At[crash[u]] = Body(Top(u)))'
  <2>1. stack[u] # <<>> /\ Top(u)' = Top(u)
    BY <1>1 DEF Stages, InHandler, Top
  <2>2. heap'[Top(u).code] = heap[Top(u).code]
    BY <2>1, LiveKept
  <2> QED BY <1>1, <2>1, <2>2 DEF SiteIsTop, Body
<1>2. ASSUME NEW t \in Threads \ {u}, Steps(t) PROVE (At[crash[u]] = Body(Top(u)))'
  <2>1. pc'[u] = pc[u] /\ crash'[u] = crash[u] /\ stack'[u] = stack[u]
    BY <1>2, OthersKept
  <2> QED BY <1>1, <2>1 DEF InHandler
<1>3. CASE Rollback
  <2>1. pc' = pc /\ crash' = crash /\ stack' = stack
    BY <1>3 DEF Rollback, RollbackRuntime, RollbackStore, flight
  <2> QED BY <1>1, <2>1 DEF InHandler
<1>4. ASSUME NEW c \in Crashes, NEW e \in Excs, Raise(u, c, e)
      PROVE  (At[crash[u]] = Body(Top(u)))'
  BY <1>4 DEF Raise, Top, TypeOK, Body, code_vars
<1>5. ASSUME NEW c \in Crashes, Propagate(u, c) PROVE (At[crash[u]] = Body(Top(u)))'
  <2>1. stack[u] \in Seq(Frame) /\ stack[u] # <<>> /\ Len(stack[u]) > 1
    BY <1>5 DEF Propagate, TypeOK, Stages
  <2>2. Head(Tail(stack[u])) = stack[u][2]
    BY <2>1, PopFrame
  <2> QED BY <1>5, <2>2 DEF Propagate, Top, TypeOK, Body, code_vars
<1>6. CASE Handle(u)
  <2>1. InHandler(u) /\ UNCHANGED <<crash, stack>>
    BY <1>6 DEF Handle, CheckHandled, Analyze, Attempt, Reuse, Resolve, Backup, Synth, Persist,
       Replace, Save, Publish, Count, Repin, Rewind, Fallback, FallbackAgain, InHandler, flight
  <2> QED BY <1>1, <2>1
<1>7. CASE \/ (\E f \in Funcs : Call(u, f)) \/ Return(u)
           \/ Catch(u) \/ PassBy(u) \/ Uncaught(u) \/ ExceptHook(u)
  <2>1. pc'[u] \in {"run", "unwind", "hook"}
    <3>1. CASE (\E f \in Funcs : Call(u, f)) \/ Return(u) \/ PassBy(u)
      BY <3>1 DEF Call, Return, PassBy
    <3>2. CASE Catch(u) \/ Uncaught(u) \/ ExceptHook(u)
      BY <3>2 DEF Catch, Uncaught, ExceptHook, Goto, TypeOK
    <3> QED BY <1>7, <3>1, <3>2
  <2> QED BY <2>1 DEF InHandler
<1> QED BY <1>2, <1>3, <1>4, <1>5, <1>6, <1>7 DEF Next, Steps, Rollback, Leaving

LEMMA PatchingKept ==
  GuardInv /\ OneSignature /\ MaxRollbacks = 0 /\ Next => Patching'
<1> DEFINE good(u, f) == /\ new[u] # None => Protects(new[u], f)
                         /\ func[u] = None \/ pc[u] \in Swapped => Protected(f)
<1> SUFFICES ASSUME GuardInv, OneSignature, MaxRollbacks = 0, Next,
                    NEW u \in Threads, NEW f \in Funcs, Working(u, f)'
             PROVE  good(u, f)'
  BY DEF Patching
<1>1. BodyInv /\ (Working(u, f) => good(u, f))
  BY DEF GuardInv, Patching
<1>2. Protected(f) \/ fcode'[f] # fcode[f] => Protected(f)'
  BY GuardsRemain
<1>3. new[u] # None => heap'[new[u]] = heap[new[u]]
  BY <1>1, LiveKept
<1>4. new[u] # None /\ Protects(new[u], f) /\ new'[u] = new[u] => Protects(new[u], f)'
  BY <1>3 DEF Protects
<1>5. ASSUME pc'[u] = pc[u], func'[u] = func[u], new'[u] = new[u], stack'[u] = stack[u]
      PROVE  good(u, f)'
  <2>1. Working(u, f)
    BY <1>5 DEF Working, Top
  <2> QED BY <1>1, <1>2, <1>4, <1>5, <2>1
<1>6. ASSUME NEW t \in Threads \ {u}, Steps(t) PROVE good(u, f)'
  BY <1>1, <1>5, <1>6, OthersKept
<1>7. CASE Rollback
  BY <1>5, <1>7 DEF Rollback, RollbackRuntime, RollbackStore, flight, locals
<1>8. ASSUME Steps(u) PROVE good(u, f)'
  <2>1. UNCHANGED <<stack, crash>> /\ Onward(u) /\ Top(u).fn = f
    BY <1>1, <1>8, Transition DEF Working, Top
  <2>2. CASE Resolve(u)
    <3>1. new'[u] = None
      BY <1>1, <2>2 DEF Resolve, Stages, HasNew, HasOld
    <3>2. pc'[u] \notin Swapped
      BY <1>1, <2>2 DEF Resolve, Goto, Swapped, HasNew, HasOld, TypeOK
    <3>3. ASSUME func'[u] = None PROVE Protected(f)
      <4>1. stack[u] # <<>> /\ stack[u] \in Seq(Frame)
        BY <1>1, <2>2 DEF Resolve, Stages, TypeOK
      <4>2. Top(u) = stack[u][1] /\ 1 \in 1 .. Len(stack[u])
        BY <4>1, PopFrame DEF Top
      <4>3. spec[u].target = None
        BY <1>1 DEF LocalBodies, LocalBody
      <4>4. None \in FunctionsOf(Top(u))
        BY <1>1, <2>2, <3>3, <4>3 DEF Resolve, TypeOK
      <4>5. fcode[f] # Top(u).code
        BY <1>1, <2>1, <4>1, <4>4, SoleFound, SoleWithoutRollback
      <4> QED BY <2>1, <4>2, <4>5 DEF GuardInv, Superseded
    <3> QED BY <1>2, <3>1, <3>2, <3>3
  <2>3. CASE ~Resolve(u)
    <3>1. pc[u] \in HasOld /\ func'[u] = func[u] /\ Working(u, f) /\ good(u, f)
      BY <1>1, <2>1, <2>3 DEF Onward, Working
    <3>2. ASSUME new'[u] # None PROVE Protects(new[u], f)'
      <4>1. CASE new'[u] = new[u]
        BY <1>4, <3>1, <3>2, <4>1
      <4>2. CASE Synth(u) /\ ~Leave(u)
        <5>1. PICK c \in Codes \ LiveCodes :
                /\ heap' = [heap EXCEPT ![c] =
                              [heap[old[u]] EXCEPT !.guards = @ \cup {Sig[crash[u]]}]]
                /\ new' = [new EXCEPT ![u] = c]
          BY <4>2 DEF Synth
        <5>2. heap[old[u]] \in Code
          BY <1>1, <3>1 DEF Stages, NoDangling
        <5>3. Sig[crash[u]] \in heap'[new'[u]].guards
          BY <1>1, <5>1, <5>2 DEF TypeOK, Code
        <5>4. At[crash[u]] = f /\ crash[u] \in Crashes
          <6>1. InHandler(u)
            BY <3>1 DEF InHandler, HasOld
          <6>2. crash[u] \in Crashes /\ stack[u] # <<>>
            BY <1>1, <6>1 DEF InHandler, Stages, TypeOK
          <6>3. Body(Top(u)) = f
            BY <1>1, <2>1, <6>2, SoleLocals, SoleWithoutRollback
          <6> QED BY <6>1, <6>2, <6>3 DEF GuardInv, SiteIsTop
        <5> QED BY <5>3, <5>4 DEF Protects, OneSignature
      <4> QED BY <2>1, <2>3, <4>1, <4>2 DEF Onward
    <3>3. ASSUME pc'[u] \in Swapped, func[u] # None PROVE Protected(f)'
      <4>1. CASE pc[u] \in Swapped
        BY <1>2, <3>1, <4>1
      <4>2. CASE Replace(u)
        <5>1. func[u] = f
          <6>1. stack[u] # <<>>
            BY <1>1, <4>2 DEF Replace, Stages
          <6> QED BY <1>1, <2>1, <3>3, <6>1, SoleLocals, SoleWithoutRollback
        <5>2. fcode'[f] = new[u]
          BY <3>3, <4>2, <5>1 DEF Replace
        <5>3. new[u] # None
          BY <1>1, <4>2 DEF Replace, Stages, HasNew, HasOld
        <5>4. Protects(new[u], f)
          BY <3>1, <5>3
        <5> QED BY <1>3, <5>2, <5>3, <5>4 DEF Protected, Protects
      <4> QED BY <2>1, <2>3, <3>3, <4>1, <4>2 DEF Onward, Swapped, HasNew, HasOld
    <3> QED BY <1>2, <3>1, <3>2, <3>3
  <2> QED BY <2>2, <2>3
<1> QED BY <1>6, <1>7, <1>8 DEF Next, Steps, Rollback

LEMMA CountedLiveKept == GuardInv /\ MaxRollbacks = 0 /\ Next => CountedIsLive'
<1> SUFFICES ASSUME GuardInv, MaxRollbacks = 0, Next, NEW c \in Crashes, applied'[c] > 0
             PROVE  Protected(At[c])'
  BY DEF CountedIsLive
<1>1. Protected(At[c]) => Protected(At[c])'
  BY GuardsRemain
<1>2. CASE applied'[c] = applied[c]
  BY <1>1, <1>2 DEF GuardInv, CountedIsLive
<1>3. CASE applied'[c] # applied[c]
  <2>1. PICK t \in Threads : Count(t)
    BY <1>3 DEF Next, Call, Return, Raise, Handle, CheckHandled, Analyze, Attempt, Reuse, Resolve,
       Backup, Synth, Persist, Replace, Save, Publish, Repin, Rewind, Fallback, FallbackAgain,
       Leaving, Catch, PassBy, Uncaught, ExceptHook, Propagate, RollbackRuntime, RollbackStore,
       exc_vars
  <2>2. c = crash[t] /\ pc[t] = "count"
    BY <1>3, <2>1 DEF Count, GuardInv, TypeOK
  <2>3. At[c] = Top(t).fn
    <3>1. BodyInv /\ stack[t] # <<>>
      BY <2>2 DEF GuardInv, Stages
    <3>2. Top(t).fn \in Funcs /\ Body(Top(t)) = Top(t).fn
      BY <3>1, TopFrame, SoleLocals, SoleWithoutRollback
    <3> QED BY <2>2, <3>2 DEF GuardInv, SiteIsTop, InHandler
  <2>4. Protected(At[c])
    BY <2>2, <2>3 DEF GuardInv, Patching, Working, Swapped, HasNew, HasOld
  <2> QED BY <1>1, <2>4
<1> QED BY <1>2, <1>3

LEMMA GuardNext ==
  GuardInv /\ Fix = At /\ OneSignature /\ MaxRollbacks = 0 /\ [Next]_vars => GuardInv'
<1> SUFFICES ASSUME GuardInv, Fix = At, OneSignature, MaxRollbacks = 0, [Next]_vars
             PROVE  GuardInv'
  OBVIOUS
<1>1. BodyInv'
  BY BodyNext DEF GuardInv
<1>2. CASE Next
  BY <1>1, <1>2, SupersededKept, SiteKept, PatchingKept, CountedLiveKept DEF GuardInv
<1>3. CASE UNCHANGED vars
  <2>1. UNCHANGED <<code_vars, pc, func, new, stack, crash, applied>>
    BY <1>3 DEF vars, locals, flight, exc_vars
  <2> QED
    BY <1>1, <2>1 DEF GuardInv, Superseded, SiteIsTop, Patching, CountedIsLive, InHandler, Working,
       Top, Body, Protected, Protects, code_vars
<1> QED BY <1>2, <1>3

(* A crash whose patch was counted is guarded in the code the next call     *)
(* will run, however many threads patch the function at once and whichever  *)
(* code their frames still run, as long as the crashes of a function have   *)
(* one signature and nothing is rolled back.                                *)
THEOREM GuardsAreLive ==
  Fix = At /\ OneSignature /\ MaxRollbacks = 0 /\ Spec => []GuardLive
<1>1. ASSUME Fix = At PROVE GuardInv => GuardLive
  BY <1>1 DEF GuardInv, CountedIsLive, Protected, Protects, GuardLive
<1>2. ASSUME Fix = At, OneSignature, MaxRollbacks = 0 PROVE Spec => []GuardLive
  <2>1. Init => GuardInv
    BY <1>2, GuardInit
  <2>2. GuardInv /\ [Next]_vars => GuardInv'
    BY <1>2, GuardNext
  <2>3. GuardInv => GuardLive
    BY <1>1, <1>2
  <2> QED BY <2>1, <2>2, <2>3, PTL DEF Spec
<1> QED BY <1>2


----------------------------------------------------------------------------
(* No two handlers patch the same function (PatchedApart). ApartInv says    *)
(* what each step of a handler leaves for its next one when no other        *)
(* handler of that function gets between them and no rollback does, for a   *)
(* function with names of its own.  One thread is always apart; so are      *)
(* threads that patch different functions, and one that handles a crash of  *)
(* a frame whose code was replaced meanwhile: it finds no function to patch *)
(* (func is None).                                                          *)

(* During a rollback nobody heals. *)
RollingBack ==
  admin # None =>
    Quiet /\ \A f \in Funcs : OwnName(f) /\ Name[f] = admin => heap[fcode[f]].guards = {}

(* The function to patch runs the old code until Persist and the new one    *)
(* from then on; when there is none, its code is not the old one.           *)
Swapping ==
  \A t \in Threads : pc[t] \in HasOld /\ OwnName(Top(t).fn) =>
    /\ func[t] = None => fcode[Top(t).fn] # old[t]
    /\ func[t] # None =>
         /\ fcode[func[t]] = IF pc[t] \in {"backup", "synth", "persist"} THEN old[t] ELSE new[t]
         /\ pc[t] = "backup" <=> originals[Key(func[t])] = None
    /\ pc[t] \in HasNew => heap[old[t]].guards \subseteq heap[new[t]].guards

(* Save makes the store match the new code, or leaves it behind.            *)
InSwap(f) == \E t \in Threads : pc[t] \in {"replace", "save"} /\ func[t] = f
Behind(f) ==
  store[File[f]] # None => /\ store[File[f]].fn = f
                           /\ store[File[f]].guards \subseteq heap[fcode[f]].guards
Level(f) == IF store[File[f]] = None THEN heap[fcode[f]].guards = {}
                                     ELSE store[File[f]] = heap[fcode[f]]
Matching ==
  \A f \in Funcs : OwnName(f) /\ admin # Name[f] =>
    Behind(f) /\ (InSwap(f) \/ File[f] \in unsaved \/ Level(f))

(* Until Persist nothing but the handler that made it knows the new code. *)
Unused ==
  \A t \in Threads : pc[t] = "persist" =>
    /\ \A f \in Funcs : fcode[f] # new[t]
    /\ \A k \in Keys : originals[k] # new[t]
    /\ \A u \in Threads :
         /\ old[u] # new[t] /\ (u # t => new[u] # new[t])
         /\ \A i \in 1 .. Len(stack[u]) : stack[u][i].code # new[t]

ApartInv == BodyInv /\ RollingBack /\ Swapping /\ Matching /\ BackupPristine /\ Unused

LEMMA ApartInit == Init /\ Fix = At => ApartInv
<1> SUFFICES ASSUME Init, Fix = At PROVE ApartInv
  OBVIOUS
<1>1. BodyInv
  BY BodyInit
<1>2. /\ \A f \in Funcs : heap[fcode[f]].guards = {} /\ store[File[f]] = None
      /\ \A k \in Keys : originals[k] = None
  BY DEF Init
<1>3. admin = None /\ \A t \in Threads : pc[t] = "run"
  BY DEF Init
<1>4. RollingBack /\ Swapping /\ Unused
  BY <1>3 DEF RollingBack, Swapping, Unused, HasOld
<1>5. Matching
  BY <1>2 DEF Matching, Behind, Level
<1>6. BackupPristine
  BY <1>2, KeyOfFunction DEF BackupPristine, Restorable
<1> QED
  BY <1>1, <1>4, <1>5, <1>6 DEF ApartInv

(* A handler finds the function as it left it: every swap puts code that    *)
(* holds all the guards of the one it takes away.                           *)
LEMMA ApartSwap ==
  ASSUME ApartInv, NEW t \in Threads, NEW f \in Funcs, OwnName(f), Swap(t, f)
  PROVE  /\ func[t] = f /\ pc[t] \in HasNew /\ originals[Key(f)] # None
         /\ heap[fcode[f]].guards \subseteq heap[new[t]].guards
         /\ Persist(t) \/ fcode[f] = new[t]
<1>1. pc[t] \in HasNew /\ pc[t] \notin {"backup", "synth"} /\ pc[t] \in HasOld
  BY DEF Swap, Persist, Replace, Repin, HasNew, HasOld
<1>0. BodyInv /\ stack[t] # <<>> /\ Top(t).fn = f /\ Sole(f)
  BY SoleWithOwnName DEF ApartInv, Swap
<1>2. func[t] = f
  <2>1. CASE func[t] = None
    BY <1>0, <1>1, <2>1 DEF ApartInv, Swapping, Swap, Replace, Repin, Stages
  <2>2. CASE func[t] # None
    BY <1>0, <2>2, SoleLocals
  <2> QED BY <2>1, <2>2
<1>3. f # None
  OBVIOUS
<1>4. /\ fcode[f] = IF pc[t] = "persist" THEN old[t] ELSE new[t]
      /\ originals[Key(f)] # None
      /\ heap[old[t]].guards \subseteq heap[new[t]].guards
  BY <1>0, <1>1, <1>2, <1>3 DEF ApartInv, Swapping
<1>5. pc[t] = "persist" \/ fcode[f] = new[t]
  BY <1>4
<1>6. pc[t] = "persist" => Persist(t)
  BY DEF Swap, Persist, Replace, Repin
<1> QED BY <1>1, <1>2, <1>4, <1>5, <1>6

(* Only a rollback takes a guard away, and it takes them all. *)
LEMMA GuardsOnlyGrow ==
  ASSUME ApartInv, [Next]_vars, NEW f \in Funcs, OwnName(f)
  PROVE  \/ /\ heap[fcode[f]].guards \subseteq heap'[fcode'[f]].guards
            /\ ~RollbackRuntime(Name[f])
         \/ RollbackRuntime(Name[f]) /\ heap'[fcode'[f]].guards = {}
<1>1. BodyInv /\ Restorable(f) /\ Sole(f) /\ Key(f) \in Keys
  BY SoleWithOwnName, KeyOfFunction DEF ApartInv, BackupPristine
<1>2. /\ heap'[fcode[f]] = heap[fcode[f]]
      /\ originals[Key(f)] # None => heap'[originals[Key(f)]] = heap[originals[Key(f)]]
  BY <1>1, LiveKept
<1>0. originals[Key(f)] # None => heap[originals[Key(f)]].guards = {}
  <2>1. originals[Key(f)] # None => heap[originals[Key(f)]] = [fn |-> f, guards |-> {}]
    BY <1>1 DEF Restorable
  <2> QED BY <2>1
<1>3. CASE RollbackRuntime(Name[f])
  <2>1. IF originals[Key(f)] = None THEN fcode'[f] = fcode[f]
                                    ELSE fcode'[f] = originals[Key(f)]
    BY <1>1, <1>3, OwnRollback
  <2>2. originals[Key(f)] = None => heap[fcode[f]].guards = {}
    BY <1>1 DEF Restorable
  <2> QED BY <1>0, <1>2, <1>3, <2>1, <2>2
<1>4. CASE ~RollbackRuntime(Name[f]) /\ fcode'[f] = fcode[f]
  BY <1>2, <1>4
<1>5. CASE ~RollbackRuntime(Name[f]) /\ fcode'[f] # fcode[f]
  <2>1. Next
    BY <1>5 DEF vars, code_vars
  <2>2. PICK t \in Threads : Swap(t, f)
    BY <1>1, <1>5, <2>1, Swaps
  <2>3. heap[fcode[f]].guards \subseteq heap[new[t]].guards
    BY <2>2, ApartSwap
  <2>4. new[t] # None /\ fcode'[f] = new[t] /\ heap'[new[t]] = heap[new[t]]
    BY <1>1, <2>2, LiveKept DEF Swap
  <2> QED BY <1>5, <2>3, <2>4
<1> QED BY <1>3, <1>4, <1>5

LEMMA RollingKept == ApartInv /\ ~RollbackAnytime /\ Next => RollingBack'
<1> SUFFICES ASSUME ApartInv, ~RollbackAnytime, Next, admin' # None
             PROVE  Quiet' /\ \A f \in Funcs :
                      OwnName(f) /\ Name[f] = admin' => heap'[fcode'[f]].guards = {}
  BY DEF RollingBack, OwnName
<1>1. ASSUME NEW n \in Names, RollbackRuntime(n)
      PROVE  Quiet' /\ \A f \in Funcs :
               OwnName(f) /\ Name[f] = admin' => heap'[fcode'[f]].guards = {}
  <2>1. Quiet' /\ admin' = n
    BY <1>1 DEF RollbackRuntime, Quiet
  <2>2. ASSUME NEW f \in Funcs, OwnName(f), Name[f] = n PROVE heap'[fcode'[f]].guards = {}
    BY <1>1, <2>2, GuardsOnlyGrow
  <2> QED BY <2>1, <2>2
<1>2. ASSUME NEW t \in Threads, Steps(t)
      PROVE  Quiet' /\ \A f \in Funcs :
               OwnName(f) /\ Name[f] = admin' => heap'[fcode'[f]].guards = {}
  <2>1. admin' = admin
    BY <1>2 DEF Steps, Call, Return, Raise, Handle, CheckHandled, Analyze, Attempt, Reuse, Resolve,
       Backup, Synth, Persist, Replace, Save, Publish, Count, Repin, Rewind, Fallback,
       FallbackAgain, Leaving, Catch, PassBy, Uncaught, ExceptHook, Propagate
  <2>2. Quiet /\ \A f \in Funcs : OwnName(f) /\ Name[f] = admin => heap[fcode[f]].guards = {}
    BY <2>1 DEF ApartInv, RollingBack
  <2>3. pc[t] = "run"
    BY <2>2 DEF Quiet
  <2>4. (\E f \in Funcs : Call(t, f)) \/ Return(t)
    BY <1>2, <2>1, <2>3 DEF Steps, Raise, Handle, CheckHandled, Analyze, Attempt, Reuse, Resolve,
       Backup, Synth, Persist, Replace, Save, Publish, Count, Repin, Rewind, Fallback,
       FallbackAgain, Leaving, Catch, PassBy, Uncaught, ExceptHook, Propagate
  <2>5. UNCHANGED <<pc, heap, fcode, admin>>
    BY <2>4 DEF Call, Return, code_vars
  <2> QED BY <2>2, <2>5 DEF Quiet
<1>3. ~RollbackStore
  BY DEF RollbackStore
<1> QED BY <1>1, <1>2, <1>3 DEF Next, Steps

LEMMA PristineKept == ApartInv /\ Next => BackupPristine'
<1> SUFFICES ASSUME ApartInv, Next, NEW f \in Funcs, OwnName(f)
             PROVE  Restorable(f)'
  BY DEF BackupPristine, OwnName
<1>1. BodyInv /\ Restorable(f) /\ Sole(f) /\ Key(f) \in Keys
  BY SoleWithOwnName, KeyOfFunction DEF ApartInv, BackupPristine
<1>2. /\ heap'[fcode[f]] = heap[fcode[f]]
      /\ originals[Key(f)] # None => heap'[originals[Key(f)]] = heap[originals[Key(f)]]
  BY <1>1, LiveKept
<1>0. \A g \in Funcs : Key(g) = Key(f) => g = f
  BY KeyOfFunction DEF OwnName
<1>3. CASE RollbackRuntime(Name[f])
  <2>1. originals'[Key(f)] \in {None, originals[Key(f)]}
    BY <1>1, <1>3, OwnRollback
  <2>2. heap'[fcode'[f]].guards = {}
    BY <1>3, GuardsOnlyGrow
  <2> QED BY <1>1, <1>2, <2>1, <2>2 DEF Restorable, Key
<1>4. ASSUME NEW t \in Threads, Backup(t) PROVE Restorable(f)'
  <2> DEFINE b == Body(Top(t))
  <2>1. func[t] # None /\ pc[t] = "backup" /\ pc[t] \in HasOld /\ stack[t] # <<>>
    BY <1>1, <1>4 DEF Backup, Stages, HasOld
  <2>2. b \in Funcs /\ Key(b) \in Keys
    BY <1>1, <2>1, TopFrame
  <2>3. UNCHANGED <<heap, fcode>> /\ originals' = [originals EXCEPT ![Key(b)] = fcode[func[t]]]
    BY <1>4 DEF Backup
  <2> HIDE DEF b
  <2>4. CASE b = f
    <3>1. Top(t).fn = f /\ func[t] = f
      BY <1>1, <2>1, <2>4, SoleLocals DEF b
    <3>2. originals[Key(f)] = None
      BY <2>1, <3>1 DEF ApartInv, Swapping
    <3>3. originals'[Key(f)] = fcode[f] /\ fcode[f] # None
      BY <1>1, <2>3, <2>4, <3>1 DEF TypeOK
    <3>4. heap[fcode[f]] \in Code /\ heap[fcode[f]].fn = f /\ heap[fcode[f]].guards = {}
      BY <1>1, <3>2, SoleBody DEF NoDangling, Restorable
    <3>5. heap[fcode[f]] = [fn |-> f, guards |-> {}]
      BY <3>4 DEF Code
    <3> QED BY <2>3, <3>3, <3>5 DEF Restorable, Key
  <2>5. CASE b # f
    <3>1. originals'[Key(f)] = originals[Key(f)]
      BY <1>0, <1>1, <2>2, <2>3, <2>5 DEF TypeOK
    <3> QED BY <1>1, <2>3, <3>1 DEF Restorable, Key
  <2> QED BY <2>4, <2>5
<1>5. CASE originals'[Key(f)] = originals[Key(f)] /\ ~RollbackRuntime(Name[f])
  <2>1. CASE fcode'[f] = fcode[f]
    BY <1>1, <1>2, <1>5, <2>1 DEF Restorable, Key
  <2>2. CASE fcode'[f] # fcode[f]
    <3>1. originals[Key(f)] # None
      BY <1>1, <1>5, <2>2, Swaps, ApartSwap
    <3> QED BY <1>1, <1>2, <1>5, <3>1 DEF Restorable, Key
  <2> QED BY <2>1, <2>2
<1>6. \/ originals'[Key(f)] = originals[Key(f)] \/ RollbackRuntime(Name[f])
      \/ \E t \in Threads : Backup(t)
  <2>1. ASSUME NEW n \in Names \ {Name[f]}, RollbackRuntime(n)
        PROVE  originals'[Key(f)] = originals[Key(f)]
    BY <1>1, <2>1, OwnRollback
  <2>2. ASSUME NEW t \in Threads, Steps(t), ~Backup(t) PROVE originals' = originals
    BY <2>2 DEF Steps, Call, Return, Raise, Handle, CheckHandled, Analyze, Attempt, Reuse,
       Resolve, Synth, Persist, Replace, Save, Publish, Count, Repin, Rewind, Fallback,
       FallbackAgain, Leaving, Catch, PassBy, Uncaught, ExceptHook, Propagate, code_vars
  <2>3. RollbackStore => originals' = originals
    BY DEF RollbackStore, code_vars
  <2> QED BY <2>1, <2>2, <2>3 DEF Next, Steps
<1> QED BY <1>3, <1>4, <1>5, <1>6

LEMMA SwappingKept ==
  ApartInv /\ PatchedApart /\ ~RollbackAnytime /\ Next => Swapping'
<1> DEFINE code(t)  == func[t] # None =>
                         fcode[func[t]] = IF pc[t] \in {"backup", "synth", "persist"}
                                          THEN old[t] ELSE new[t]
           none(t)  == func[t] = None => fcode[Top(t).fn] # old[t]
           saved(t) == func[t] # None => (pc[t] = "backup" <=> originals[Key(func[t])] = None)
           grown(t) == pc[t] \in HasNew => heap[old[t]].guards \subseteq heap[new[t]].guards
<1> SUFFICES ASSUME ApartInv, PatchedApart, ~RollbackAnytime, Next, NEW u \in Threads,
                    pc'[u] \in HasOld, OwnName(Top(u).fn)'
             PROVE  (code(u) /\ none(u) /\ saved(u) /\ grown(u))'
  BY DEF Swapping
<1>1. /\ BodyInv
      /\ pc[u] \in HasOld /\ OwnName(Top(u).fn) => code(u) /\ none(u) /\ saved(u) /\ grown(u)
  BY DEF ApartInv, Swapping
<1>2. /\ old[u] # None => heap'[old[u]] = heap[old[u]]
      /\ new[u] # None => heap'[new[u]] = heap[new[u]]
  BY <1>1, LiveKept
<1>3. CASE Rollback
  <2>1. pc[u] # "run" /\ pc' = pc
    BY <1>3 DEF Rollback, RollbackRuntime, RollbackStore, HasOld
  <2>2. FALSE
    BY <1>3, <2>1 DEF Rollback, RollbackRuntime, RollbackStore, Quiet, ApartInv, RollingBack
  <2> QED BY <2>2
<1>4. ASSUME NEW t \in Threads, Steps(t), NEW v \in Threads, NEW g \in Funcs, Swap(v, g)
      PROVE  v = t
  <2>1. pc'[v] # pc[v]
    BY <1>1, <1>4 DEF Swap, Persist, Replace, Repin, Goto, TypeOK
  <2> QED BY <1>1, <1>4, <2>1, OthersKept
<1>5. ASSUME NEW t \in Threads, Steps(t), t # u PROVE (code(u) /\ none(u) /\ saved(u) /\ grown(u))'
  <2>1. /\ pc'[u] = pc[u] /\ func'[u] = func[u] /\ old'[u] = old[u] /\ new'[u] = new[u]
        /\ Top(u)' = Top(u)
    BY <1>1, <1>5, OthersKept DEF Top
  <2>2. /\ pc[u] \in HasOld /\ stack[u] # <<>> /\ OwnName(Top(u).fn)
        /\ code(u) /\ none(u) /\ saved(u) /\ grown(u)
    BY <1>1, <2>1 DEF Stages, HasOld, OwnName
  <2>3. /\ Top(u).fn \in Funcs /\ Sole(Top(u).fn)
        /\ func[u] # None => func[u] = Top(u).fn
    <3>1. Top(u).fn \in Funcs /\ Sole(Top(u).fn)
      BY <1>1, <2>2, TopFrame, SoleWithOwnName
    <3> QED BY <1>1, <2>2, <3>1, SoleLocals
  <2>4. ASSUME fcode'[Top(u).fn] # fcode[Top(u).fn]
        PROVE  fcode'[Top(u).fn] = new[t] /\ func[t] = Top(u).fn /\ Persist(t)
    <3>1. ~RollbackRuntime(Name[Top(u).fn])
      BY <2>2 DEF RollbackRuntime, Quiet, HasOld
    <3>2. PICK v \in Threads : Swap(v, Top(u).fn)
      BY <1>1, <2>3, <2>4, <3>1, Swaps
    <3>3. v = t
      BY <1>4, <1>5, <2>3, <3>2
    <3> QED BY <2>2, <2>3, <2>4, <3>2, <3>3, ApartSwap DEF Swap
  <2>5. code(u)'
    <3> SUFFICES ASSUME func[u] # None PROVE fcode'[func[u]] = fcode[func[u]]
      BY <2>1, <2>2
    <3> QED BY <1>5, <2>3, <2>4 DEF PatchedApart
  <2>6. none(u)'
    <3> SUFFICES ASSUME func[u] = None PROVE fcode'[Top(u).fn] # old[u]
      BY <2>1
    <3>1. Persist(t) => old[u] # new[t]
      BY DEF ApartInv, Unused, Persist
    <3> QED BY <2>2, <2>4, <3>1
  <2>7. saved(u)'
    <3> SUFFICES ASSUME func[u] # None
                 PROVE  originals'[Key(func[u])] = originals[Key(func[u])]
      BY <2>1, <2>2 DEF Key
    <3>1. CASE Backup(t)
      <4>1. func[t] # None /\ stack[t] # <<>>
        BY <1>1, <3>1 DEF Backup, Stages
      <4>2. Top(u).fn = func[u] /\ Body(Top(t)) \in Funcs /\ Body(Top(t)) # func[u]
        <5>1. func[t] # func[u] /\ func[u] = Top(u).fn
          BY <1>5, <2>3, <4>1 DEF PatchedApart
        <5> QED BY <1>1, <2>3, <4>1, <5>1, SoleLocals, TopFrame
      <4>3. Key(Body(Top(t))) # Key(func[u]) /\ Key(func[u]) \in Keys
        BY <2>2, <2>3, <4>2, KeyOfFunction DEF OwnName
      <4> QED BY <1>1, <3>1, <4>3 DEF Backup, TypeOK
    <3>2. CASE ~Backup(t)
      BY <1>5, <3>2 DEF Steps, Call, Return, Raise, Handle, CheckHandled, Analyze, Attempt, Reuse,
         Resolve, Synth, Persist, Replace, Save, Publish, Count, Repin, Rewind, Fallback,
         FallbackAgain, Leaving, Catch, PassBy, Uncaught, ExceptHook, Propagate, code_vars
    <3> QED BY <3>1, <3>2
  <2>8. grown(u)'
    <3>1. /\ old[u] # None
          /\ pc[u] \in HasNew => new[u] # None
      BY <1>1, <2>2 DEF Stages
    <3> QED BY <1>2, <2>1, <2>2, <3>1
  <2> QED BY <2>5, <2>6, <2>7, <2>8
<1>6. ASSUME NEW t \in Threads, Steps(t), t = u PROVE (code(u) /\ none(u) /\ saved(u) /\ grown(u))'
  <2>1. t = u
    BY <1>6
  <2>2. UNCHANGED <<stack, crash>> /\ Onward(u) /\ Top(u)' = Top(u)
    BY <1>1, <1>6, <2>1, Transition DEF Top
  <2>3. CASE Resolve(u)
    <3>1. stack[u] # <<>> /\ Top(u).fn \in Funcs /\ spec[u].target = None
      BY <1>1, <2>3, TopFrame DEF Resolve, Stages, LocalBodies, LocalBody
    <3>0. Sole(Top(u).fn) /\ OwnName(Top(u).fn)
      BY <2>2, <3>1, SoleWithOwnName DEF OwnName
    <3>2. /\ func'[u] \in FunctionsOf(Top(u)) /\ old'[u] = Top(u).code
          /\ UNCHANGED <<fcode, originals>>
          /\ pc'[u] = IF func'[u] # None /\ originals[Key(Body(Top(u)))] = None
                      THEN "backup" ELSE "synth"
      BY <1>1, <2>3, <3>1 DEF Resolve, Goto, TypeOK, code_vars
    <3>3. /\ Body(Top(u)) = Top(u).fn
          /\ IF fcode[Top(u).fn] = Top(u).code THEN func'[u] = Top(u).fn ELSE func'[u] = None
      BY <1>1, <3>0, <3>1, <3>2, SoleFound, SoleLocals
    <3>4. Top(u).fn # None
      BY <3>1
    <3>5. code(u)' /\ none(u)' /\ grown(u)'
      BY <2>2, <3>2, <3>3, <3>4 DEF HasNew
    <3>6. saved(u)'
      BY <2>2, <3>2, <3>3, <3>4 DEF Key
    <3> QED BY <3>5, <3>6
  <2>4. CASE ~Resolve(u)
    <3>1. /\ pc[u] \in HasOld /\ func'[u] = func[u] /\ old'[u] = old[u]
          /\ code(u) /\ none(u) /\ saved(u) /\ grown(u)
      BY <1>1, <2>2, <2>4 DEF Onward, OwnName
    <3>2. /\ old[u] \in Codes /\ heap[old[u]] \in Code /\ heap'[old[u]] = heap[old[u]]
          /\ pc[u] \in HasNew => new[u] \in Codes /\ heap'[new[u]] = heap[new[u]]
      BY <1>1, <1>2, <3>1 DEF Stages, TypeOK, NoDangling
    <3>4. stack[u] # <<>> /\ Top(u).fn \in Funcs /\ Sole(Top(u).fn) /\ OwnName(Top(u).fn)
      <4>1. stack[u] # <<>> /\ Top(u).fn \in Funcs
        BY <1>1, <3>1, TopFrame DEF Stages, HasOld
      <4> QED BY <2>2, <4>1, SoleWithOwnName DEF OwnName
    <3>3. func[u] # None => /\ func[u] = Top(u).fn /\ func[u] \in Funcs
                           /\ Body(Top(u)) = func[u] /\ Key(func[u]) \in Keys
      BY <1>1, <3>4, SoleLocals, KeyOfFunction
    <3>5. ASSUME NEW g \in Funcs, g = Top(u).fn, fcode'[g] # fcode[g]
          PROVE  func[u] = g /\ Persist(u) /\ fcode'[g] = new[u]
      <4>1. ~RollbackRuntime(Name[g])
        <5>1. pc'[u] # pc[u] \/ pc[u] # "run"
          BY <3>1 DEF HasOld
        <5> QED BY <3>1, <5>1 DEF RollbackRuntime, Quiet, HasOld
      <4>2. PICK v \in Threads : Swap(v, g)
        BY <1>1, <3>4, <3>5, <4>1, Swaps
      <4>3. v = u
        BY <1>6, <2>1, <4>2, <1>4
      <4> QED BY <3>4, <3>5, <4>2, <4>3, ApartSwap DEF Swap
    <3>6. CASE Backup(u)
      <4>1. /\ func[u] # None /\ UNCHANGED <<heap, fcode>> /\ pc'[u] = "synth" /\ pc[u] = "backup"
            /\ originals' = [originals EXCEPT ![Key(func[u])] = fcode[func[u]]]
        BY <1>1, <2>2, <3>3, <3>6 DEF Backup, Onward, Stages, HasOld, HasNew, Swapped, Resolve, Synth,
           Persist, Replace, Goto, TypeOK
      <4>2. originals'[Key(func[u])] # None
        BY <1>1, <3>3, <4>1 DEF TypeOK
      <4>3. saved(u)'
        BY <3>1, <4>1, <4>2 DEF Key
      <4> QED BY <2>2, <3>1, <4>1, <4>3 DEF HasNew
    <3>7. CASE Synth(u) /\ ~Leave(u)
      <4>1. PICK c \in Codes \ LiveCodes :
              /\ heap' = [heap EXCEPT ![c] =
                            [heap[old[u]] EXCEPT !.guards = @ \cup {Sig[crash[u]]}]]
              /\ new' = [new EXCEPT ![u] = c] /\ pc' = [pc EXCEPT ![u] = "persist"]
        BY <3>7 DEF Synth, Goto
      <4>2. heap'[new'[u]].guards = heap[old[u]].guards \cup {Sig[crash[u]]}
        BY <1>1, <3>2, <4>1 DEF TypeOK, Code
      <4>3. UNCHANGED <<fcode, originals>> /\ pc[u] = "synth" /\ pc'[u] = "persist"
        BY <1>1, <3>7, <4>1 DEF Synth, TypeOK
      <4> QED BY <2>2, <3>1, <3>2, <4>2, <4>3
    <3>8. CASE Persist(u)
      <4>1. pc[u] = "persist" /\ pc'[u] = "replace" /\ new'[u] = new[u] /\ UNCHANGED <<heap, originals>>
        BY <1>1, <3>8 DEF Persist, Goto, TypeOK, locals
      <4>2. ASSUME func[u] # None PROVE fcode'[func[u]] = new[u]
        BY <3>1, <3>3, <3>8, <4>1, <4>2 DEF Persist
      <4>3. ASSUME func[u] = None PROVE fcode'[Top(u).fn] = fcode[Top(u).fn]
        BY <3>4, <3>5, <4>3
      <4> QED BY <2>2, <3>1, <4>1, <4>2, <4>3 DEF HasNew, HasOld
    <3>9. CASE ~Persist(u) /\ pc'[u] \in HasNew /\ pc[u] \in HasNew \ {"persist"} /\ new'[u] = new[u]
              /\ pc'[u] # "persist" /\ UNCHANGED originals
      <4>1. fcode'[Top(u).fn] = fcode[Top(u).fn]
        BY <3>4, <3>5, <3>9
      <4> QED BY <2>2, <3>1, <3>2, <3>3, <3>9, <4>1 DEF HasNew, HasOld
    <3>10. CASE Replace(u) \/ (pc[u] \in Swapped /\ pc'[u] \in Swapped)
      <4>1. UNCHANGED originals
        BY <1>6, <2>1, <3>10 DEF Steps, Call, Return, Raise, Handle, CheckHandled, Analyze, Attempt, Reuse,
           Resolve, Backup, Synth, Persist, Replace, Save, Publish, Count, Repin, Rewind, Fallback,
           FallbackAgain, Leaving, Catch, PassBy, Uncaught, ExceptHook, Propagate, code_vars,
           Swapped, HasNew, HasOld
      <4>2. new'[u] = new[u] /\ ~Persist(u) /\ pc[u] \in HasNew \ {"persist"}
            /\ pc'[u] \in HasNew \ {"persist"}
        BY <2>2, <2>4, <3>10 DEF Onward, Backup, Synth, Persist, Replace, Swapped, HasNew, HasOld
      <4> QED BY <3>9, <4>1, <4>2
    <3> QED BY <2>2, <2>4, <3>6, <3>7, <3>8, <3>10 DEF Onward
  <2> QED BY <2>3, <2>4
<1> QED BY <1>3, <1>5, <1>6 DEF Next, Steps, Rollback

LEMMA UnusedKept == TypeInv /\ Unused /\ Next => Unused'
<1> DEFINE unused(t) ==
      /\ \A f \in Funcs : fcode[f] # new[t]
      /\ \A k \in Keys : originals[k] # new[t]
      /\ \A u \in Threads :
           /\ old[u] # new[t] /\ (u # t => new[u] # new[t])
           /\ \A i \in 1 .. Len(stack[u]) : stack[u][i].code # new[t]
<1> SUFFICES ASSUME TypeInv, Unused, Next, NEW t \in Threads, pc'[t] = "persist"
             PROVE  unused(t)'
  BY DEF Unused
<1>1. ASSUME NEW u \in Threads, NEW i \in 1 .. Len(stack'[u])
      PROVE  stack'[u][i].code \in Codes /\
             \/ \E j \in 1 .. Len(stack[u]) : stack'[u][i] = stack[u][j]
             \/ \E f \in Funcs : stack'[u][i].code = fcode[f]
  <2>1. stack'[u] \in Seq(Frame)
    BY TypeNext DEF TypeOK
  <2>2. stack'[u][i] \in Frame
    BY <2>1
  <2> QED BY <2>2, FrameOrigin DEF Frame
<1>2. CASE pc[t] = "persist" /\ new'[t] = new[t]
  <2>1. unused(t) /\ new[t] # None
    BY <1>2 DEF Unused, Stages, HasNew, HasOld
  <2>2. \A u \in Threads : \A i \in 1 .. Len(stack'[u]) : stack'[u][i].code # new'[t]
    BY <1>1, <1>2, <2>1
  <2>3. CASE Rollback
    <3>1. UNCHANGED <<old, new>>
      BY <2>3 DEF Rollback, RollbackRuntime, RollbackStore, locals
    <3>2. /\ \A k \in Keys : originals'[k] \in {originals[k], None}
          /\ \A f \in Funcs : fcode'[f] = fcode[f] \/ \E k \in Keys : fcode'[f] = originals[k]
      BY <2>3 DEF Rollback, RollbackRuntime, RollbackStore, code_vars, TypeOK
    <3> QED BY <1>2, <2>1, <2>2, <3>1, <3>2
  <2>4. ASSUME NEW v \in Threads, Steps(v), v # t PROVE unused(t)'
    <3>1. /\ \A f \in Funcs : fcode'[f] \in {fcode[f], new[v]}
          /\ \A k \in Keys : originals'[k] = originals[k] \/ \E g \in Funcs : originals'[k] = fcode[g]
      <4>1. CASE Persist(v) \/ Replace(v)
        <5>1. UNCHANGED originals /\ \A f \in Funcs : fcode'[f] \in {fcode[f], new[v]}
          BY <4>1 DEF Persist, Replace
        <5> QED BY <5>1
      <4>2. CASE Repin(v)
        BY <4>2 DEF Repin, TypeOK
      <4>3. CASE Backup(v)
        <5>1. func[v] \in Funcs
          BY <4>3 DEF Backup, Stages, TypeOK, Target
        <5> QED BY <4>3, <5>1 DEF Backup, TypeOK
      <4>4. CASE ~(Persist(v) \/ Replace(v) \/ Repin(v) \/ Backup(v))
        <5>1. UNCHANGED <<fcode, originals>>
          BY <2>4, <4>4 DEF Steps, Call, Return, Raise, Handle, CheckHandled, Analyze, Attempt, Reuse,
             Resolve, Synth, Save, Publish, Count, Rewind, Fallback, FallbackAgain, Leaving, Catch,
             PassBy, Uncaught, ExceptHook, Propagate, code_vars
        <5> QED BY <5>1
      <4> QED BY <4>1, <4>2, <4>3, <4>4
    <3>2. \A u \in Threads \ {v} : old'[u] = old[u] /\ new'[u] = new[u]
      BY <2>4, OthersKept
    <3>3. old'[v] # new[t]
      <4>1. CASE pc'[v] \notin HasOld
        <5>1. old'[v] = None
          BY <4>1, TypeNext DEF Stages
        <5> QED BY <2>1, <5>1
      <4>2. CASE pc'[v] \in HasOld /\ ~Resolve(v)
        BY <2>1, <2>4, <4>2, Transition DEF Onward
      <4>3. CASE Resolve(v)
        <5>1. stack[v] # <<>> /\ stack[v] \in Seq(Frame)
          BY <4>3 DEF Resolve, Stages, TypeOK
        <5>2. Top(v) = stack[v][1] /\ 1 \in 1 .. Len(stack[v])
          BY <5>1, PopFrame DEF Top
        <5>3. old'[v] = Top(v).code \/ \E f \in Funcs : old'[v] = fcode[f]
          <6>1. spec[v].target \in Target /\ old \in [Threads -> Codes \cup {None}]
            BY DEF TypeOK, Specs
          <6>2. CASE spec[v].target = None
            BY <4>3, <6>1, <6>2 DEF Resolve
          <6>3. CASE spec[v].target # None
            BY <4>3, <6>1, <6>3 DEF Resolve, Target
          <6> QED BY <6>2, <6>3
        <5> QED BY <2>1, <5>2, <5>3
      <4> QED BY <4>1, <4>2, <4>3
    <3>4. new'[v] # new[t]
      <4>1. CASE pc'[v] \notin HasNew
        <5>1. new'[v] = None
          BY <4>1, TypeNext DEF Stages
        <5> QED BY <2>1, <5>1
      <4>2. CASE pc'[v] \in HasNew /\ Synth(v)
        <5>1. PICK c \in Codes \ LiveCodes : new' = [new EXCEPT ![v] = c]
          BY <4>2, TypeNext DEF Synth, Leave, Goto, TypeOK, HasNew, HasOld
        <5>2. new[t] \in LiveCodes
          BY DEF LiveCodes
        <5> QED BY <5>1, <5>2 DEF TypeOK
      <4>3. CASE pc'[v] \in HasNew /\ ~Synth(v)
        <5>1. pc'[v] \in HasOld
          BY <4>3 DEF HasNew
        <5>2. Onward(v)
          BY <2>4, <5>1, Transition
        <5>3. ~Resolve(v)
          BY <4>3 DEF Resolve, Goto, TypeOK, HasNew, HasOld
        <5>4. new'[v] = new[v]
          BY <4>3, <5>2, <5>3 DEF Onward
        <5> QED BY <2>1, <2>4, <5>4
      <4> QED BY <4>1, <4>2, <4>3
    <3>5. new'[t] = new[t] /\ new[v] # new[t]
      BY <1>2, <2>1, <2>4
    <3>6. \A f \in Funcs : fcode'[f] # new[t]
      BY <2>1, <3>1, <3>5
    <3>7. \A k \in Keys : originals'[k] # new[t]
      BY <2>1, <3>1
    <3>8. \A u \in Threads : old'[u] # new[t] /\ (u # t => new'[u] # new[t])
      BY <2>1, <3>2, <3>3, <3>4
    <3> QED BY <2>2, <3>5, <3>6, <3>7, <3>8
  <2>5. ~Steps(t)
    <3>1. pc'[t] \in HasOld
      BY DEF HasOld
    <3> QED BY <1>2, <3>1, Transition DEF Onward, Resolve, Backup, Synth, Persist, Replace, Swapped, HasNew, HasOld
  <2> QED BY <2>3, <2>4, <2>5 DEF Next, Steps, Rollback
<1>3. CASE Synth(t) /\ ~Leave(t)
  <2>1. PICK c \in Codes \ LiveCodes : new' = [new EXCEPT ![t] = c] /\ UNCHANGED <<fcode, originals, old>>
    BY <1>3 DEF Synth
  <2>2. new'[t] = c /\ \A u \in Threads \ {t} : new'[u] = new[u]
    BY <2>1 DEF TypeOK
  <2>3. /\ \A f \in Funcs : fcode[f] # c
        /\ \A k \in Keys : originals[k] # c
        /\ \A u \in Threads : /\ old[u] # c /\ new[u] # c
                              /\ \A i \in 1 .. Len(stack[u]) : stack[u][i].code # c
    BY <2>1, LiveNotFree DEF LiveCodes
  <2>4. \A u \in Threads : \A i \in 1 .. Len(stack'[u]) : stack'[u][i].code # c
    BY <1>1, <2>3
  <2> QED BY <2>1, <2>2, <2>3, <2>4
<1>4. \/ pc[t] = "persist" /\ new'[t] = new[t]
      \/ Synth(t) /\ ~Leave(t)
  <2>1. pc'[t] \in HasOld
    BY DEF HasOld
  <2>2. CASE Steps(t)
    BY <2>1, <2>2, Transition DEF Onward, Resolve, Goto, TypeOK, Backup, Swapped, HasNew, HasOld
  <2>3. ASSUME NEW v \in Threads \ {t}, Steps(v) PROVE pc[t] = "persist" /\ new'[t] = new[t]
    BY <2>3, OthersKept
  <2>4. CASE Rollback
    BY <2>4 DEF Rollback, RollbackRuntime, RollbackStore, locals
  <2> QED BY <2>2, <2>3, <2>4 DEF Next, Steps, Rollback
<1> QED BY <1>2, <1>3, <1>4

LEMMA MatchingKept ==
  ApartInv /\ ~RollbackAnytime /\ Next => Matching'
<1> DEFINE level(f) == InSwap(f) \/ File[f] \in unsaved \/ Level(f)
<1> SUFFICES ASSUME ApartInv, ~RollbackAnytime, Next, NEW f \in Funcs, OwnName(f),
                    admin' # Name[f]
             PROVE  Behind(f)' /\ level(f)'
  BY DEF Matching, OwnName
<1>1. /\ BodyInv /\ Sole(f) /\ File[f] \in Files /\ f # None
      /\ heap[fcode[f]] \in Code /\ heap[fcode[f]].fn = f
      /\ admin # Name[f] => Behind(f) /\ level(f)
  BY SoleWithOwnName, SoleBody DEF ApartInv, Matching, NoDangling
<1>2. heap'[fcode[f]] = heap[fcode[f]]
  BY <1>1, LiveKept
<1>3. ASSUME Behind(f), fcode'[f] = fcode[f], store'[File[f]] = store[File[f]] PROVE Behind(f)'
  BY <1>2, <1>3 DEF Behind
<1>4. ASSUME Level(f), fcode'[f] = fcode[f], store'[File[f]] = store[File[f]] PROVE Level(f)'
  BY <1>2, <1>4 DEF Level
<1>5. ASSUME NEW n \in Names, RollbackRuntime(n) PROVE Behind(f)' /\ level(f)'
  <2>1. n # Name[f] /\ admin = None /\ Quiet /\ UNCHANGED <<store, unsaved>>
    BY <1>5 DEF RollbackRuntime, know_vars
  <2>2. fcode'[f] = fcode[f]
    BY <1>1, <1>5, <2>1, OwnRollback
  <2>3. admin # Name[f] /\ ~InSwap(f)
    BY <2>1 DEF InSwap, Quiet
  <2> QED BY <1>1, <1>3, <1>4, <2>1, <2>2, <2>3
<1>6. CASE RollbackStore
  <2>1. /\ UNCHANGED <<heap, fcode>> /\ admin \in Names
        /\ store' = [l \in Files |-> IF l \in Removes[admin] THEN None ELSE store[l]]
        /\ unsaved' = unsaved \ Removes[admin]
    BY <1>1, <1>6 DEF RollbackStore, code_vars, TypeOK
  <2>2. CASE admin = Name[f]
    <3>1. store'[File[f]] = None
      BY <1>1, <2>1, <2>2 DEF OwnName
    <3>2. heap[fcode[f]].guards = {}
      BY <1>6, <2>2 DEF RollbackStore, ApartInv, RollingBack
    <3> QED BY <2>1, <3>1, <3>2 DEF Behind, Level
  <2>3. CASE admin # Name[f]
    <3>1. File[f] \notin Removes[admin]
      BY <2>1, <2>3 DEF OwnName
    <3>2. store'[File[f]] = store[File[f]] /\ (File[f] \in unsaved => File[f] \in unsaved')
      BY <1>1, <2>1, <3>1
    <3>3. ~InSwap(f)
      BY <1>6 DEF RollbackStore, ApartInv, RollingBack, Quiet, InSwap
    <3> QED BY <1>1, <1>3, <1>4, <2>1, <2>3, <3>2, <3>3
  <2> QED BY <2>2, <2>3
<1>7. ASSUME NEW t \in Threads, Steps(t) PROVE Behind(f)' /\ level(f)'
  <2>1. admin' = admin
    BY <1>7 DEF Steps, Call, Return, Raise, Handle, CheckHandled, Analyze, Attempt, Reuse, Resolve,
       Backup, Synth, Persist, Replace, Save, Publish, Count, Repin, Rewind, Fallback,
       FallbackAgain, Leaving, Catch, PassBy, Uncaught, ExceptHook, Propagate
  <2>2. Behind(f) /\ level(f) /\ ~RollbackRuntime(Name[f])
    BY <1>1, <2>1 DEF RollbackRuntime
  <2>3. ASSUME fcode'[f] # fcode[f]
        PROVE  InSwap(f)' /\ heap[fcode[f]].guards \subseteq heap'[fcode'[f]].guards /\ ~Save(t)
    <3>1. PICK v \in Threads : Swap(v, f)
      BY <1>1, <2>2, <2>3, Swaps
    <3>2. Persist(v) /\ func[v] = f
      BY <2>3, <3>1, ApartSwap DEF Swap
    <3>3. pc'[v] = "replace" /\ func'[v] = f
      BY <1>1, <3>2 DEF Persist, Goto, TypeOK, locals
    <3>4. heap[fcode[f]].guards \subseteq heap'[fcode'[f]].guards
      BY <2>2, GuardsOnlyGrow
    <3>5. ~Save(t)
      BY <2>3 DEF Save, code_vars
    <3> QED BY <3>3, <3>4, <3>5 DEF InSwap
  <2>4. CASE fcode'[f] # fcode[f]
    <3>1. store' = store
      BY <1>7, <2>3, <2>4 DEF Steps, Call, Return, Raise, Handle, CheckHandled, Analyze, Attempt,
         Reuse, Resolve, Backup, Synth, Persist, Replace, Publish, Count, Repin, Rewind, Fallback,
         FallbackAgain, Leaving, Catch, PassBy, Uncaught, ExceptHook, Propagate, know_vars
    <3> QED BY <2>2, <2>3, <2>4, <3>1 DEF Behind
  <2>5. CASE Save(t) /\ func[t] = f /\ fcode'[f] = fcode[f]
    <3>1. pc[t] \in HasOld /\ stack[t] # <<>> /\ pc[t] = "save" /\ new[t] # None
      BY <1>1, <2>5 DEF Save, HasOld, Stages, HasNew
    <3>2. fcode[f] = new[t] /\ UNCHANGED heap
      <4>1. Top(t).fn = f
        BY <1>1, <2>5, <3>1, SoleLocals
      <4> QED BY <1>1, <2>5, <3>1, <4>1 DEF ApartInv, Swapping, Save, code_vars
    <3>3. CASE Saved(f, heap[new[t]])
      <4>1. store'[File[f]] = heap[fcode[f]]
        BY <1>1, <3>2, <3>3 DEF Saved, TypeOK
      <4>2. heap[fcode[f]] # None
        <5>1. \A x \in Code : x # None
          BY NoneIsNoCode DEF Code
        <5> QED BY <1>1, <5>1
      <4> QED BY <1>1, <2>5, <3>2, <4>1, <4>2 DEF Behind, Level
    <3>4. CASE NotSaved(f)
      <4>1. File[f] \in unsaved' /\ store'[File[f]] \in {None, store[File[f]]}
        BY <1>1, <3>4 DEF NotSaved, TypeOK
      <4> QED BY <1>2, <2>2, <2>5, <4>1 DEF Behind
    <3>5. spec[t].target = None
      BY <1>1 DEF LocalBodies, LocalBody
    <3> QED BY <1>1, <2>5, <3>3, <3>4, <3>5 DEF Save
  <2>6. CASE ~(Save(t) /\ func[t] = f) /\ fcode'[f] = fcode[f]
    <3>1. /\ store'[File[f]] = store[File[f]]
          /\ File[f] \in unsaved => File[f] \in unsaved'
      <4>1. CASE Save(t) /\ func[t] # None
        <5>1. func[t] \in Funcs /\ File[func[t]] # File[f]
          BY <1>1, <2>6, <4>1 DEF TypeOK, Target, OwnName
        <5>2. UNCHANGED <<store, unsaved>> \/ Saved(func[t], heap[new[t]]) \/ NotSaved(func[t])
          BY <4>1 DEF Save
        <5> QED BY <1>1, <5>1, <5>2 DEF Saved, NotSaved, TypeOK
      <4>2. CASE Save(t) /\ func[t] = None
        BY <4>2 DEF Save
      <4>3. CASE ~Save(t)
        BY <1>7, <4>3 DEF Steps, Call, Return, Raise, Handle, CheckHandled, Analyze, Attempt, Reuse,
           Resolve, Backup, Synth, Persist, Replace, Publish, Count, Repin, Rewind, Fallback,
           FallbackAgain, Leaving, Catch, PassBy, Uncaught, ExceptHook, Propagate, know_vars
      <4> QED BY <4>1, <4>2, <4>3
    <3>2. InSwap(f) => InSwap(f)'
      <4> SUFFICES ASSUME NEW u \in Threads, pc[u] \in {"replace", "save"}, func[u] = f
                   PROVE  pc'[u] \in {"replace", "save"} /\ func'[u] = f
        BY DEF InSwap
      <4>1. CASE u # t
        BY <1>1, <1>7, <4>1, OthersKept
      <4>2. CASE u = t
        <5>1. Replace(t)
          BY <1>7, <2>6, <4>2 DEF Steps, Call, Return, Raise, Handle, CheckHandled, Analyze, Attempt,
             Reuse, Resolve, Backup, Synth, Persist, Replace, Publish, Count, Repin, Rewind,
             Fallback, FallbackAgain, Leaving, Catch, PassBy, Uncaught, ExceptHook, Propagate
        <5> QED BY <1>1, <4>2, <5>1 DEF Replace, Goto, TypeOK, locals
      <4> QED BY <4>1, <4>2
    <3> QED BY <1>3, <1>4, <2>2, <2>6, <3>1, <3>2
  <2> QED BY <2>4, <2>5, <2>6
<1> QED BY <1>5, <1>6, <1>7 DEF Next, Steps

LEMMA ApartNext ==
  ApartInv /\ Fix = At /\ PatchedApart /\ ~RollbackAnytime /\ [Next]_vars => ApartInv'
<1> SUFFICES ASSUME ApartInv, Fix = At, PatchedApart, ~RollbackAnytime, [Next]_vars
             PROVE  ApartInv'
  OBVIOUS
<1>1. BodyInv'
  BY BodyNext DEF ApartInv
<1>2. CASE Next
  BY <1>1, <1>2, RollingKept, PristineKept, SwappingKept, MatchingKept, UnusedKept DEF ApartInv
<1>3. CASE UNCHANGED vars
  <2>1. UNCHANGED <<code_vars, locals, store, unsaved, stack, pc, admin>>
    BY <1>3 DEF vars, know_vars, flight
  <2>2. RollingBack' /\ Unused'
    BY <2>1 DEF ApartInv, RollingBack, Unused, Quiet, OwnName, code_vars, locals
  <2>3. Swapping'
    BY <2>1 DEF ApartInv, Swapping, Top, OwnName, Key, code_vars, locals
  <2>4. Matching'
    BY <2>1 DEF ApartInv, Matching, InSwap, Behind, Level, OwnName, code_vars, locals
  <2>5. BackupPristine'
    BY <2>1 DEF ApartInv, BackupPristine, Restorable, OwnName, Key, code_vars
  <2> QED
    BY <1>1, <2>2, <2>3, <2>4, <2>5 DEF ApartInv
<1> QED BY <1>2, <1>3

LEMMA ApartInvariance ==
  Fix = At /\ ~RollbackAnytime /\ Spec /\ []PatchedApart => []ApartInv
<1>1. ASSUME Fix = At, ~RollbackAnytime PROVE Spec /\ []PatchedApart => []ApartInv
  <2>1. Init => ApartInv
    BY <1>1, ApartInit
  <2>2. ApartInv /\ PatchedApart /\ [Next]_vars => ApartInv'
    BY <1>1, ApartNext
  <2> QED BY <2>1, <2>2, PTL DEF Spec
<1> QED BY <1>1

(* However many threads heal, as long as no two of them patch the same      *)
(* function at once and rollbacks come while nobody heals, a rollback       *)
(* undoes every patch of a function with names of its own: when it is       *)
(* patched it has a backup, and that is the code the function had in the    *)
(* source, however often it was patched, rolled back and patched again, and *)
(* whatever happens to functions that share their names.                    *)
THEOREM BackupsArePristine ==
  Fix = At /\ ~RollbackAnytime /\ Spec /\ []PatchedApart => []BackupPristine
<1>1. ApartInv => BackupPristine
  BY DEF ApartInv
<1> QED BY <1>1, ApartInvariance, PTL

(* Then a restart changes nothing for such a function, outside of the       *)
(* handlers that patch it and of a rollback of its name: its live code is   *)
(* the one the store would give it, and where a save raised after the swap  *)
(* the store is behind it, never ahead.                                     *)
THEOREM LiveIsStored ==
  Fix = At /\ ~RollbackAnytime /\ Spec /\ []PatchedApart => []LiveMatchesStore
<1>1. ApartInv => LiveMatchesStore
  <2> SUFFICES ASSUME ApartInv, NEW f \in Funcs, OwnName(f), ~Busy(f), admin = None
               PROVE  IF File[f] \in unsaved THEN Behind(f) ELSE Level(f)
    BY DEF LiveMatchesStore, Behind, Level
  <2>1. ~InSwap(f) /\ admin # Name[f]
    BY DEF InSwap, Busy
  <2> QED BY <2>1 DEF ApartInv, Matching
<1> QED BY <1>1, ApartInvariance, PTL

(* And only a rollback takes a guard away from such a function.             *)
THEOREM GuardsAreKept ==
  Fix = At /\ ~RollbackAnytime /\ Spec /\ []PatchedApart => GuardsGrow
<1>1. ApartInv /\ [Next]_vars =>
        [\A f \in Funcs : OwnName(f) /\ admin' = admin =>
           heap[fcode[f]].guards \subseteq (heap[fcode[f]].guards)']_vars
  <2> SUFFICES ASSUME ApartInv, [Next]_vars, NEW f \in Funcs, OwnName(f), admin' = admin
               PROVE  heap[fcode[f]].guards \subseteq heap'[fcode'[f]].guards
    OBVIOUS
  <2>1. ~RollbackRuntime(Name[f])
    BY DEF RollbackRuntime, ApartInv
  <2> QED BY <2>1, GuardsOnlyGrow
<1> QED BY <1>1, ApartInvariance, PTL DEF Spec, GuardsGrow
=============================================================================
