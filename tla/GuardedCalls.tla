---------------------------- MODULE GuardedCalls ----------------------------
(***************************************************************************)
(* What the guards do: a function is called with various arguments, one    *)
(* instruction at a time; where it raises, the engine's analysis           *)
(* (CrashAnalysis) and synthesis (GuardSynthesis) give it a guard, as      *)
(* _handle_exception does; later calls run the guarded code.               *)
(*                                                                         *)
(* The instructions mean what CPython 3.11 makes of them.  Numbers, texts  *)
(* and results are terms: the result of a / b is the term of that quotient.*)
(* A name that is no local variable is a global; the arguments of a call   *)
(* give its value, otherwise it is a builtin function.  A property is      *)
(* evaluated by running its getter.                                        *)
(***************************************************************************)
EXTENDS GuardSynthesis

CONSTANTS
  Sources,              (* Sources[s]: the code of a function s and the     *)
                        (* arguments it is called with                     *)
  IntTexts, DigitTexts, (* texts int() accepts; texts that are digits       *)
                        (* behind any number of minus signs                *)
  Files,                (* paths that exist                                *)
  MaxCalls, MaxPatches                                     (* bounds       *)

ASSUME GuardedCallsAssumption ==
  /\ \A s \in DOMAIN Sources : DOMAIN Sources[s] = {"code", "inputs"}
  /\ {MaxCalls, MaxPatches} \subseteq Nat

VARIABLES
  source,     (* the function under test                                   *)
  code,       (* its code and that of the getter of the property it reads  *)
  args,       (* of the last call: a value for each of its variables       *)
  frames,     (* the running call, innermost frame last                    *)
  phase,      (* "idle", "run", "raised": the tracer's turn, "unwind"      *)
  exc,        (* the exception under way                                   *)
  result,     (* of the last call: <<"value", v>> or <<"raised", exc>>     *)
  patches,    (* what was patched, in order                                *)
  calls,
  plain       (* history: the results of the calls before the first patch  *)

vars == <<source, code, args, frames, phase, exc, result, patches, calls, plain>>

NoExc == <<"none", "none">>
NoResult == <<"none", NoneV>>
GetterCode == <<<<"RESUME", 0>>, LoadFast("self"), <<"LOAD_ATTR", "_value">>, Return>>

Init ==
  /\ source \in DOMAIN Sources
  /\ code = [function |-> Sources[source].code, getter |-> GetterCode]
  /\ args = <<>> /\ frames = <<>> /\ phase = "idle" /\ exc = NoExc
  /\ result = NoResult /\ patches = <<>> /\ calls = 0 /\ plain = {}

----------------------------------------------------------------------------
(* The running frame.                                                      *)

Frame(fn, locals) == [fn |-> fn, code |-> code[fn], pc |-> 1, stack |-> <<>>, locals |-> locals]
Top     == frames[Len(frames)]
Current == Top.code[Top.pc]
Depth   == Len(Top.stack)
Peek(n) == Top.stack[Depth - n]                    (* n below the top      *)
Under(n) == SubSeq(Top.stack, 1, Depth - n)        (* without the top n    *)

Runs(ops) == phase = "run" /\ Op(Current) \in ops
SetTop(f) == frames' = [frames EXCEPT ![Len(frames)] = f]
Moved(f, n, stack) == [f EXCEPT !.pc = n, !.stack = stack]
Continue(stack) == SetTop(Moved(Top, Top.pc + 1, stack))
Push(n, v) == Continue(Append(Under(n), v))        (* v replaces the top n *)
Goal(c, l) == CHOOSE i \in DOMAIN c : c[i] = Label(l)
Target(l) == Goal(Top.code, l)
Raise(e) == phase' = "raised" /\ exc' = e /\ UNCHANGED frames
Running == UNCHANGED <<phase, exc>>
Quiet == UNCHANGED <<source, code, args, result, patches, calls, plain>>

(* The value v, or an exception <<"raise", type, message>>. *)
Deliver(n, v) == IF v[1] = "raise" THEN Raise(<<v[2], v[3]>>) ELSE Push(n, v) /\ Running
Error(type, message) == <<"raise", type, message>>

----------------------------------------------------------------------------
(* External: operations of CPython.                                        *)

Texts == {"str", "text"}
Falsy == {NoneV, IntV(0), BoolV(FALSE), StrV(""), ListV(<<>>), DictV(<<>>)}
Builtin(n) == IF n \in DOMAIN args THEN args[n] ELSE FunV(n)

(* The methods that the models call; any other is missing. *)
MethodsOf(v) == CASE v[1] \in {"dict", "defaultdict"} -> {"get"}
                  [] v[1] \in Texts -> {"upper", "lstrip", "isdigit"}
                  [] v = FunV("os.path") -> {"exists"}
                  [] OTHER -> {}

Attribute(o, a) ==
  CASE o = NoneV -> Error("AttributeError", "None")
    [] o = FunV("os") /\ a = "path" -> FunV("os.path")
    [] a \in MethodsOf(o) -> <<"bound", a, o>>
    [] OTHER -> IF GetAttr(o, a) = NullV THEN Error("AttributeError", "other") ELSE GetAttr(o, a)

Subscript(c, k) ==
  CASE c = NoneV -> Error("TypeError", "subscript")
    [] c[1] \in {"dict", "defaultdict"} ->
         IF k \in DOMAIN c[2] THEN c[2][k]
         ELSE IF c[1] = "defaultdict" THEN c[3] ELSE Error("KeyError", k)
    [] c[1] = "list" /\ k[1] = "int" ->
         LET n == IF k[2] < 0 THEN Len(c[2]) + k[2] + 1 ELSE k[2] + 1 IN
         IF n \in DOMAIN c[2] THEN c[2][n] ELSE Error("IndexError", "range")
    [] OTHER -> Error("TypeError", "other")

Binary(op, a, b) ==
  CASE a[1] \in {"int", "number"} /\ b[1] \in {"int", "number"} ->
         IF op # "+" /\ b = IntV(0) THEN Error("ZeroDivisionError", "") ELSE <<"number", op, a, b>>
    [] op = "+" /\ a[1] \in Texts /\ b[1] \in Texts -> <<"text", "+", a, b>>
    [] op = "+" /\ a[1] \in Texts /\ b[1] \notin Texts -> Error("TypeError", "concat")
    [] OTHER -> Error("TypeError", "other")

Compared(op, a, b) ==
  CASE op = "==" -> BoolV(a = b) [] op = "!=" -> BoolV(a # b)
    [] op = ">=" /\ a[1] = "int" /\ b[1] = "int" -> BoolV(a[2] >= b[2])
    [] op = ">" /\ a[1] = "int" /\ b[1] = "int" -> BoolV(a[2] > b[2])
    [] OTHER -> Error("TypeError", "other")

Called(f, a) ==
  CASE f = FunV("isinstance") ->
         BoolV(\/ a[2] = FunV("dict") /\ a[1][1] \in {"dict", "defaultdict"}
               \/ a[2] = FunV("str") /\ a[1][1] \in Texts)
    [] f = FunV("len") -> IF a[1][1] = "list" THEN IntV(Len(a[1][2]))
                          ELSE IF a[1][1] \in {"dict", "defaultdict"} THEN IntV(Cardinality(DOMAIN a[1][2]))
                          ELSE IF a[1][1] = "str" THEN IntV(Len(a[1][2]))
                          ELSE Error("TypeError", "other")
    [] f \in {FunV("int"), FunV("float")} ->
         IF a[1][1] = "str" /\ a[1][2] \notin IntTexts THEN Error("ValueError", "other")
         ELSE IF a[1] = NoneV THEN Error("TypeError", "other") ELSE <<"number", f[2], a[1]>>
    [] f = FunV("str") -> <<"text", "str", a[1]>>
    [] f = FunV("open") -> IF a[1] \in Files THEN ObjV([path |-> a[1]])
                           ELSE Error("FileNotFoundError", "")
    [] f = NoneV -> Error("TypeError", "callable")
    [] OTHER -> <<"text", "call", f, a>>

CalledMethod(m, self, a) ==
  CASE m = "get" -> IF a[1] \in DOMAIN self[2] THEN self[2][a[1]] ELSE a[2]
    [] m = "exists" -> BoolV(a[1] \in Files)
    [] m = "lstrip" -> <<"text", "lstrip", self>>
    [] m = "isdigit" -> BoolV(self[3][1] = "str" /\ self[3][2] \in DigitTexts)
    [] OTHER -> <<"text", m, self>>

----------------------------------------------------------------------------
(* One action for each kind of instruction.                                *)

Nop == Runs({"RESUME", "PRECALL", "NOP"} \cup Marks) /\ Continue(Top.stack) /\ Running /\ Quiet

Load ==
  /\ Runs({"LOAD_FAST", "LOAD_CONST", "LOAD_GLOBAL"})
  /\ LET name == Name(Current) IN
     CASE Op(Current) = "LOAD_CONST" -> Push(0, Arg(Current)) /\ Running
       [] Op(Current) = "LOAD_FAST" ->
            IF name \in DOMAIN Top.locals THEN Push(0, Top.locals[name]) /\ Running
            ELSE Raise(<<"UnboundLocalError", name>>)
       [] Op(Current) = "LOAD_GLOBAL" ->
            IF Builtin(name) = NullV THEN Raise(<<"NameError", name>>)
            ELSE /\ Continue(Top.stack \o (IF Arg(Current)[1] THEN <<NullV>> ELSE <<>>)
                               \o <<Builtin(name)>>)
                 /\ Running
  /\ Quiet

Store ==
  /\ Runs({"STORE_FAST"})
  /\ SetTop([Moved(Top, Top.pc + 1, Under(1)) EXCEPT
               !.locals = [n \in DOMAIN @ \cup {Arg(Current)} |->
                             IF n = Arg(Current) THEN Peek(0) ELSE @[n]]])
  /\ Running /\ Quiet

(* A property runs its getter in a frame of its own. *)
Attr ==
  /\ \/ /\ Runs({"LOAD_ATTR"}) /\ IsProperty(Peek(0), Arg(Current))
        /\ frames' = Append([frames EXCEPT ![Len(frames)] = Moved(@, Top.pc + 1, Under(1))],
                            Frame("getter", [self |-> ObjV([_value |-> GetAttr(Peek(0), Arg(Current))])]))
        /\ Running
     \/ /\ Runs({"LOAD_ATTR"}) /\ ~IsProperty(Peek(0), Arg(Current))
        /\ Deliver(1, Attribute(Peek(0), Arg(Current)))
     \/ /\ Runs({"LOAD_METHOD"})
        /\ IF Arg(Current) \in MethodsOf(Peek(0))
           THEN Continue(Under(1) \o << <<"method", Arg(Current)>>, Peek(0)>>) /\ Running
           ELSE LET v == Attribute(Peek(0), Arg(Current)) IN
                IF v[1] = "raise" THEN Raise(<<v[2], v[3]>>)
                ELSE Continue(Under(1) \o <<NullV, v>>) /\ Running
     \/ /\ Runs({"STORE_ATTR"})
        /\ IF Peek(0)[1] = "obj" THEN Continue(Under(2)) /\ Running
           ELSE Raise(<<"AttributeError", IF Peek(0) = NoneV THEN "None" ELSE "other">>)
  /\ Quiet

Compute ==
  /\ Runs({"BINARY_SUBSCR", "BINARY_OP", "COMPARE_OP", "IS_OP"})
  /\ LET a == Peek(1) b == Peek(0) op == Arg(Current) IN
     Deliver(2, CASE Op(Current) = "BINARY_SUBSCR" -> Subscript(a, b)
                  [] Op(Current) = "BINARY_OP" -> Binary(op, a, b)
                  [] Op(Current) = "COMPARE_OP" -> Compared(op, a, b)
                  [] Op(Current) = "IS_OP" -> BoolV(a = b))
  /\ Quiet

Arrange ==
  /\ \/ Runs({"PUSH_NULL"}) /\ Push(0, NullV)
     \/ Runs({"COPY"}) /\ Push(0, Peek(0))
     \/ Runs({"POP_TOP"}) /\ Continue(Under(1))
  /\ Running /\ Quiet

Branch ==
  /\ \/ /\ Runs({"JUMP_FORWARD"})
        /\ SetTop(Moved(Top, Target(Arg(Current)), Top.stack))
     \/ /\ Runs(JumpOps)
        /\ LET taken == (Peek(0) \notin Falsy) = (Op(Current) = "POP_JUMP_FORWARD_IF_TRUE") IN
           SetTop(Moved(Top, IF taken THEN Target(Arg(Current)) ELSE Top.pc + 1, Under(1)))
  /\ Running /\ Quiet

(* A call finds a method and its object below the arguments, or nothing     *)
(* and a function.                                                         *)
CallOp ==
  /\ Runs({"CALL"})
  /\ LET n == Arg(Current)
         a == [j \in 1 .. n |-> Peek(n - j)] IN
     Deliver(n + 2, IF Peek(n + 1) = NullV THEN Called(Peek(n), a)
                    ELSE CalledMethod(Peek(n + 1)[2], Peek(n), a))
  /\ Quiet

End(r) ==
  /\ frames' = <<>> /\ phase' = "idle" /\ exc' = NoExc /\ result' = r
  /\ plain' = IF \A p \in ToSet(patches) : p.call = calls THEN plain \cup {<<args, r>>} ELSE plain
  /\ UNCHANGED <<source, code, args, patches, calls>>

ReturnOp ==
  /\ Runs({"RETURN_VALUE"})
  /\ IF Len(frames) = 1 THEN End(<<"value", Peek(0)>>)
     ELSE /\ frames' = [SubSeq(frames, 1, Len(frames) - 1)
                           EXCEPT ![Len(frames) - 1] = Moved(@, @.pc, Append(@.stack, Peek(0)))]
          /\ Running /\ Quiet

----------------------------------------------------------------------------
(* _handle_exception: the tracer sees the frame at the instruction that     *)
(* raised.                                                                 *)

(* compute_fingerprint: the two instructions before and after, with the     *)
(* places that jumps go to.                                                *)
Fingerprint(f, e) ==
  LET ins == Dis(f.code)
      at  == DisIndex(f.code, f.pc)
      Goes(l) == DisIndex(f.code, Goal(f.code, l))
      Shown(i) == IF Op(i) \in JumpOps \cup {"JUMP_FORWARD"} THEN <<Op(i), Goes(Arg(i))>> ELSE i
      window == SubSeq(ins, Max({1, at - 2}), Min({Len(ins), at + 2})) IN
  <<[j \in DOMAIN window |-> Shown(window[j])], e[1]>>

(* A spec is taken from the registry of fingerprints or from the analysis,  *)
(* and replaced by the first one with the same signature.                  *)
Signature(spec, e) == <<spec.var, spec.key, spec.strategy, e[1]>>
Cached(f, e) == {i \in DOMAIN patches : patches[i].fingerprint = Fingerprint(f, e)}
Reusable(spec, e) ==
  {i \in DOMAIN patches : Signature(patches[i].spec, patches[i].exc) = Signature(spec, e)}
Analysis(f, e) ==
  LET names == {Name(i) : i \in {j \in ToSet(f.code) : Op(j) \in Loads \cup {"LOAD_GLOBAL"}}}
      look == [n \in names |-> IF n \in DOMAIN f.locals THEN f.locals[n] ELSE Builtin(n)] IN
  Analyze(Dis(f.code), DisIndex(f.code, f.pc), look, e)
Registered(spec, e) ==
  IF spec # NoSpec /\ Reusable(spec, e) # {} THEN patches[Min(Reusable(spec, e))].spec ELSE spec
SpecFor(f, e) ==
  Registered(IF Cached(f, e) # {} THEN patches[Min(Cached(f, e))].spec ELSE Analysis(f, e), e)

Apply(spec, old, new) ==
  IF spec = NoSpec \/ Len(patches) = MaxPatches \/ new = Rejected THEN UNCHANGED <<code, patches>>
  ELSE /\ code' = [code EXCEPT ![spec.target] = new]
       /\ patches' = Append(patches, [spec |-> spec, fingerprint |-> Fingerprint(Top, exc),
                                      old |-> old, new |-> new, at |-> Top.pc, exc |-> exc, args |-> args,
                                      call |-> calls, fresh |-> spec = Analysis(Top, exc)])

Heal ==
  /\ phase = "raised" /\ phase' = "unwind"
  /\ \E spec \in {SpecFor(Top, exc)} :
       \E old \in {IF spec.target = "getter" THEN code.getter ELSE Top.code} :
         Apply(spec, old, Synthesize(old, spec))
  /\ UNCHANGED <<source, args, frames, exc, result, calls, plain>>

(* The exception goes on, to a handler of the function or out of the call  *)
(* (a getter here never raises).  Whether the engine rewinds the frame or  *)
(* replays the request instead is PatchEngine's and HttpReplay's: here a   *)
(* retry is another call.                                                  *)
Unwind ==
  /\ phase = "unwind"
  /\ LET open == {i \in 1 .. Top.pc : Op(Top.code[i]) = "TRY_BEGIN" /\ exc[1] \in Arg(Top.code[i])[2]
                       /\ \A j \in i .. Top.pc : Op(Top.code[j]) # "TRY_END"} IN
     \/ \E i \in open :
          /\ \A j \in open : j <= i
          /\ SetTop(Moved(Top, Target(Arg(Top.code[i])[1]), <<>>))
          /\ phase' = "run" /\ exc' = NoExc /\ Quiet
     \/ open = {} /\ End(<<"raised", exc>>)

Call(a) ==
  /\ phase = "idle" /\ calls < MaxCalls
  /\ calls' = calls + 1 /\ args' = a
  /\ frames' = <<Frame("function", Restrict(a, DOMAIN a \cap Locals(Sources[source].code)))>>
  /\ phase' = "run"
  /\ UNCHANGED <<source, code, exc, result, patches, plain>>

Step == Nop \/ Load \/ Store \/ Attr \/ Compute \/ Arrange \/ Branch \/ CallOp \/ ReturnOp
          \/ Heal \/ Unwind
Next == Step \/ \E a \in Sources[source].inputs : Call(a)
Spec == Init /\ [][Next]_vars

----------------------------------------------------------------------------
(* The shape of the state: a call runs in a frame of the function, on top   *)
(* of it in one of a property's getter, each at an instruction of its code. *)
TypeOK ==
  /\ source \in DOMAIN Sources
  /\ phase \in {"idle", "run", "raised", "unwind"}
  /\ (phase = "idle") = (frames = <<>>)
  /\ calls \in 0 .. MaxCalls /\ Len(patches) <= MaxPatches
  /\ \A i \in DOMAIN frames : /\ frames[i].fn = IF i = 1 THEN "function" ELSE "getter"
                              /\ frames[i].pc \in DOMAIN frames[i].code

(* What an instruction takes from the stack, gives to it, binds. *)
Takes(i) ==
  CASE Op(i) \in {"BINARY_SUBSCR", "BINARY_OP", "COMPARE_OP", "IS_OP", "STORE_ATTR"} -> 2
    [] Op(i) \in {"STORE_FAST", "LOAD_ATTR", "LOAD_METHOD", "COPY", "POP_TOP", "RETURN_VALUE"}
                 \cup JumpOps -> 1
    [] Op(i) = "CALL" -> Arg(i) + 2
    [] OTHER -> 0
Gives(i) ==
  CASE Op(i) \in {"LOAD_FAST", "LOAD_CONST", "PUSH_NULL", "LOAD_ATTR", "BINARY_SUBSCR",
                  "BINARY_OP", "COMPARE_OP", "IS_OP", "CALL"} -> 1
    [] Op(i) \in {"COPY", "LOAD_METHOD"} -> 2
    [] Op(i) = "LOAD_GLOBAL" -> IF Arg(i)[1] THEN 2 ELSE 1
    [] OTHER -> 0
Binds(i) == IF Op(i) = "STORE_FAST" THEN {Arg(i)} ELSE {}

(* Where control goes from position n of code c, and where an exception     *)
(* raised there may go.                                                    *)
Jumps(i) == Op(i) \in JumpOps \cup {"JUMP_FORWARD"}
HasGoal(c, l) == \E i \in DOMAIN c : \A j \in DOMAIN c : c[j] = Label(l) <=> j = i
Follows(c, n) ==
  (IF Op(c[n]) \in {"RETURN_VALUE", "JUMP_FORWARD"} THEN {} ELSE {n + 1})
    \cup (IF Jumps(c[n]) THEN {Goal(c, Arg(c[n]))} ELSE {})
Handlers(c, n) ==
  {Goal(c, Arg(c[i])[1]) :
     i \in {j \in 1 .. n : Op(c[j]) = "TRY_BEGIN" /\ \A k \in j .. n : Op(c[k]) # "TRY_END"}}

(* ty gives, for every position control can reach, the depth of the stack   *)
(* and the variables bound there, the same on every path.                  *)
IsTyping(c, params, ty) ==
  /\ DOMAIN ty \subseteq DOMAIN c /\ 1 \in DOMAIN ty
  /\ ty[1].depth = 0 /\ ty[1].bound \subseteq params
  /\ \A n \in DOMAIN c : Op(c[n]) = "TRY_BEGIN" => HasGoal(c, Arg(c[n])[1])
  /\ \A n \in DOMAIN ty :
       /\ ty[n].depth \in Nat /\ Takes(c[n]) \in 0 .. ty[n].depth
       /\ Op(c[n]) = "LOAD_FAST" => Arg(c[n]) \in ty[n].bound
       /\ Jumps(c[n]) => HasGoal(c, Arg(c[n]))
       /\ \A m \in Follows(c, n) :
            /\ m \in DOMAIN ty /\ m > n /\ ty[m].depth = ty[n].depth - Takes(c[n]) + Gives(c[n])
            /\ ty[m].bound \subseteq ty[n].bound \cup Binds(c[n])
       /\ \A h \in Handlers(c, n) :
            h \in DOMAIN ty /\ h > n /\ ty[h].depth = 0 /\ ty[h].bound \subseteq ty[n].bound
ReturnsClean(c, ty) == \A n \in DOMAIN ty : Op(c[n]) = "RETURN_VALUE" => ty[n].depth = 1

(* The only one there can be, as jumps go forward: passed on from each      *)
(* position to the ones behind it.                                         *)
Flow(c, params) ==
  LET Pass(ty, n) ==
        LET bound(m) == ty[n].bound \cup IF m \in Handlers(c, n) THEN {} ELSE Binds(c[n]) IN
        [m \in DOMAIN ty \cup Follows(c, n) \cup Handlers(c, n) |->
           IF m \notin Follows(c, n) \cup Handlers(c, n) THEN ty[m]
           ELSE IF m \in DOMAIN ty THEN [ty[m] EXCEPT !.bound = @ \cap bound(m)]
           ELSE [depth |-> IF m \in Handlers(c, n) THEN 0 ELSE ty[n].depth - Takes(c[n]) + Gives(c[n]),
                 bound |-> bound(m)]]
      flow[n \in 0 .. Len(c)] ==
        IF n = 0 THEN [m \in {1} |-> [depth |-> 0, bound |-> params]]
        ELSE LET ty == flow[n - 1] IN IF n \in DOMAIN ty THEN Pass(ty, n) ELSE ty IN
  flow[Len(c)]

(* The variables a function is called with.  A guard at the entry of a      *)
(* function with a try block presumes that its variable is one of them.    *)
Params(fn) == IF fn = "getter" THEN {"self"}
              ELSE {v \in Locals(Sources[source].code) : \A a \in Sources[source].inputs : v \in DOMAIN a}
Presumed == {p.spec.var : p \in {q \in ToSet(patches) : q.spec.strategy \in InlineStrategies
                                                          /\ InsideTryBlock(q.old)}}
Bound(fn) == Params(fn) \cup Presumed

(* No guard is about a variable of an earlier guard.  The last two loads    *)
(* before a crash, which an index guard compares, may be such variables;    *)
(* the guard then goes after their assignment, into the middle of an       *)
(* expression, and returns from there.                                     *)
Neat == \A p \in ToSet(patches) : {p.spec.var, p.spec.list} \cap SynthNames = {}

(* The code, as it was written and with any combination of guards, is sound *)
(* on all its paths, whether a call takes them or not: an instruction finds *)
(* its operands, a local variable is bound where it is loaded, a jump has   *)
(* one target and a function returns with nothing but its result on the    *)
(* stack.  A guard is a list of instructions written by hand, put into code *)
(* that may hold others; validate_patch only looks at the names.           *)
SoundCode(fn) ==
  \E ty \in {Flow(code[fn], Bound(fn))} :
    IsTyping(code[fn], Bound(fn), ty) /\ (Neat => ReturnsClean(code[fn], ty))
CodeFits == phase = "unwind" \/ calls = 0 => \A fn \in {"function", "getter"} : SoundCode(fn)

(* A guard behind position n of code c finds its variables bound, and where *)
(* it returns nothing else is on the stack.                                *)
Behind(c, n, variables, returns, params, rets) ==
  LET ty == Flow(c, params) IN
  n # 0 /\ (n \in DOMAIN ty => /\ variables \subseteq ty[n].bound \cup Binds(c[n])
                               /\ returns => ty[n].depth - Takes(c[n]) + 1 \in rets)

(* Does code c have a place for the guard of a spec?                        *)
HasPlace(c, spec, params, rets) ==
  LET v == spec.var s == spec.strategy
      entry == AfterResume(c)
      Suits(n, variables, returns) == Behind(c, n, variables, returns, params, rets) IN
  CASE s \in InlineStrategies -> InsideTryBlock(c) => Suits(entry, {v}, TRUE)
    [] s = "null_guard" /\ spec.key # <<>> ->
         /\ spec.key \in Seq(ToSet(spec.key))
         /\ Suits(IF LastStore(c, v) > 0 THEN StoreBeforeUse(c, v) ELSE entry, {v}, TRUE)
    [] s = "null_guard" /\ spec.key = <<>> ->
         \/ \E i \in 1 .. Len(c) - 1 : c[i] = LoadConst(NoneV) /\ c[i + 1] = StoreFast(v)
         \/ Suits(IF StoreBeforeUse(c, v) > 0 THEN StoreBeforeUse(c, v) ELSE entry, {v}, FALSE)
    [] s = "index_guard" -> Suits(LastStoreOrResume(c, {v, spec.list}), {v, spec.list}, TRUE)
    [] s \in {"list_bound_guard", "file_guard"} -> Suits(LastStoreOrResume(c, {v}), {v}, TRUE)
    [] s = "str_coerce_guard" -> Suits(LastStoreOrResume(c, {v}), {v}, FALSE)
    [] s = "type_coercion_guard" -> Suits(IF FirstStore(c, v) > 0 THEN FirstStore(c, v) ELSE entry, {v}, FALSE)
    [] OTHER -> s = "return_guard"

(* What the code needs for that: it is sound as it was written, a crash is  *)
(* one of the function, and each guard gets a place where it has what it   *)
(* reads.  Nothing is asked of the guard itself, except of the one for a   *)
(* chain of subscripts, which has to leave the code sound.                 *)
Compiled(c) == /\ c \in Seq(ToSet(c)) /\ c # <<>> /\ Op(c[1]) = "RESUME"
               /\ \A j \in DOMAIN c : Op(c[j]) = "LABEL" => Arg(c[j])[2][1] \in 0 .. Len(c) - 1
GuardsPlaced ==
  /\ calls = 0 => \A fn \in {"function", "getter"} : Compiled(code[fn]) /\ SoundCode(fn)
  /\ phase = "raised" => Top.fn = "function"
  /\ phase = "unwind" /\ patches # <<>> =>
       LET p == patches[Len(patches)] fn == p.spec.target IN
       IF p.spec.strategy = "chain_subscript_guard" /\ ~InsideTryBlock(p.old)
       THEN Compiled(code[fn]) /\ SoundCode(fn)
       ELSE HasPlace(p.old, p.spec, Bound(fn), IF Neat THEN {1} ELSE Nat)

(* The same of each instruction that runs.  A frame runs the code that it   *)
(* was called with, whatever the function gets in the meantime.            *)
RunFits ==
  phase = "run" =>
    /\ Takes(Current) <= Depth
    /\ Op(Current) = "RETURN_VALUE" /\ Neat => Depth = 1
    /\ Op(Current) = "LOAD_FAST" => Arg(Current) \in DOMAIN Top.locals \cup Presumed
    /\ Jumps(Current) => HasGoal(Top.code, Arg(Current))

StackFits == TypeOK /\ GuardsPlaced /\ CodeFits /\ RunFits

(* The same of every local variable and every return; not met.             *)
EveryLocalBound ==
  phase = "run" /\ Op(Current) = "LOAD_FAST" => Arg(Current) \in DOMAIN Top.locals
EveryReturnClean == phase = "run" /\ Op(Current) = "RETURN_VALUE" => Depth = 1

(* Does the guard of a patch test for what crashed, in front of it?  Not    *)
(* when the spec was taken over from another crash with the same           *)
(* fingerprint; an inline guard not in a function with a try block, where  *)
(* only None in the variable is tested at the entry; a division guard only *)
(* in front of a true division; a subscript guard only if the first        *)
(* subscript by the key is the one that crashed; a chain of attributes not *)
(* from a variable that the function assigns; an index only if it is not   *)
(* negative and indexes the very list; a coercion to a number only for the *)
(* text that int() refused, in a parameter.                                *)
Reaches(p) ==
  LET v == p.spec.var s == p.spec.strategy IN
  CASE ~p.fresh \/ (s \in InlineStrategies /\ InsideTryBlock(p.old)) -> FALSE
    [] s = "division_guard" -> p.old[p.at] = <<"BINARY_OP", "/">>
    [] s \in {"subscript_guard", "key_guard"} -> SubscriptSite(p.old, p.spec.key) = p.at
    [] s = "null_guard" -> LastStore(p.old, v) = 0
    [] s = "index_guard" -> /\ v \in DOMAIN p.args /\ p.args[v][2] >= 0
                            /\ p.old[p.at - 2] = LoadFast(p.spec.list)
    [] s = "type_coercion_guard" -> /\ p.spec.default[1] = "int" /\ p.exc[1] = "ValueError"
                                    /\ v \in DOMAIN p.args /\ p.args[v][1] = "str"
    [] OTHER -> TRUE

(* The call that crashed, made again, does not end in the same exception:  *)
(* the guard catches what it was made for, whatever other guards the       *)
(* function has got before and since.                                      *)
GuardStops ==
  phase = "idle" =>
    \A p \in ToSet(patches) :
      Reaches(p) /\ args = p.args /\ p.call < calls => result # <<"raised", p.exc>>

(* The same of every patch the engine reports as applied; not met. *)
EveryGuardStops ==
  phase = "idle" =>
    \A p \in ToSet(patches) : args = p.args /\ p.call < calls => result # <<"raised", p.exc>>

(* May a patch be expected to leave a call alone that never crashed?  Only  *)
(* in code without branches and handlers, as the guards at the entry run   *)
(* on every path and a caught exception is no crash; not for a dictionary  *)
(* that makes its own defaults, which get() does not ask for; and          *)
(*   - file_guard: if the module has imported os;                          *)
(*   - chain_subscript_guard: if every key but the last is a text, as a     *)
(*     list has no get(), and no key is a variable: it becomes a constant; *)
(*   - index_guard: if the index belongs to the list it is compared with;  *)
(*   - the coercions: if the parameter holds what they coerce to, for a     *)
(*     number not with a sign or space that int() takes and isdigit() not. *)
Keeps(p, a) ==
  LET v == p.spec.var k == p.spec.key s == p.spec.strategy plainly == ToSet(Sources[source].code) IN
  /\ \A i \in plainly : Op(i) \notin JumpOps \cup {"TRY_BEGIN"}
  /\ \A n \in DOMAIN a : a[n][1] # "defaultdict"
  /\ CASE s = "file_guard" -> a["os"] # NullV
       [] s = "chain_subscript_guard" -> /\ \A j \in 1 .. Len(k) - 1 : k[j][1] = "str"
                                         /\ \A i \in plainly : Op(i) = "LOAD_FAST" => Arg(i) = v
       [] s = "index_guard" -> p.old[p.at - 2] = LoadFast(p.spec.list)
       [] s = "str_coerce_guard" -> a[v][1] = "str"
       [] s = "type_coercion_guard" -> v \in DOMAIN a /\ (a[v][1] = "str" => a[v][2] \in DigitTexts)
       [] OTHER -> TRUE

(* A call that returned a value without any guard returns the same value    *)
(* once the function has been patched for other calls: a guard acts on     *)
(* nothing but the crash it was made for.                                  *)
CallsPreserved ==
  phase = "idle" =>
    \A r \in plain :
      r[1] = args /\ r[2][1] = "value" /\ (\A p \in ToSet(patches) : p.call = calls \/ Keeps(p, args))
        => result = r[2]

(* The same of every call and every patch; not met. *)
EveryCallPreserved ==
  phase = "idle" => \A r \in plain : r[1] = args /\ r[2][1] = "value" => result = r[2]
=============================================================================
