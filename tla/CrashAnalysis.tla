--------------------------- MODULE CrashAnalysis ---------------------------
(***************************************************************************)
(* analyze_exception (codesuture/pattern_matcher.py): from an exception    *)
(* and the instructions around the one that raised it to a PatchSpec.      *)
(*                                                                         *)
(* Code is a sequence of instructions <<name, argument>> of CPython 3.11   *)
(* as the bytecode library lists them, with labels and the marks of try    *)
(* ranges between them; Dis is what dis shows of it.  An exception is a    *)
(* pair <<type, message>>; of a message only what the analysis looks for   *)
(* is kept ("None", "concat", "range", "key").  Code objects with cells,   *)
(* which co_varnames does not index, are left out, and so is               *)
(* _KNOWN_CALLABLES, whose only entry is a function of the engine: every   *)
(* other callable that is None has no callable_guard.                      *)
(***************************************************************************)
EXTENDS Integers, Sequences, SequencesExt

Op(i)  == i[1]
Arg(i) == i[2]

(* Values, tagged with their kind. *)
NoneV    == <<"none">>
NullV    == <<"null">>                 (* PUSH_NULL's empty place           *)
IntV(n)  == <<"int", n>>
StrV(s)  == <<"str", s>>
FloatV   == <<"float", "0.0">>
BoolV(b) == <<"bool", b>>
DictV(f) == <<"dict", f>>
ListV(s) == <<"list", s>>
ObjV(f)  == <<"obj", f>>               (* its attributes                    *)
PropV(v) == <<"prop", v>>              (* a property that returns v         *)
FunV(n)  == <<"fun", n>>

Has(o, a) == o[1] = "obj" /\ a \in DOMAIN o[2]
IsProperty(o, a) == Has(o, a) /\ o[2][a][1] = "prop"
(* getattr, NullV for an AttributeError. *)
GetAttr(o, a) == IF ~Has(o, a) THEN NullV
                 ELSE IF IsProperty(o, a) THEN o[2][a][2] ELSE o[2][a]

Marks == {"LABEL", "TRY_BEGIN", "TRY_END"}
Real(i) == Op(i) \notin Marks
Dis(code) == SelectSeq(code, Real)
(* The place in Dis(code) of the instruction at position n of code. *)
DisIndex(code, n) == Len(Dis(SubSeq(code, 1, n)))

Loads     == {"LOAD_FAST", "LOAD_DEREF"}
MethodOps == {"LOAD_METHOD", "LOAD_ATTR"}
CallOps   == {"PRECALL", "CALL"}
JumpOps   == {"POP_JUMP_FORWARD_IF_FALSE", "POP_JUMP_FORWARD_IF_TRUE"}
Terminators   == {"RETURN_VALUE", "STORE_FAST"}
StringMethods == {"upper", "split", "strip"}
ListMethods   == {"append", "get", "items"}

(* The variable an instruction loads. *)
Name(i) == IF Op(i) = "LOAD_GLOBAL" THEN Arg(i)[2] ELSE Arg(i)
(* The last of the first n instructions with one of these names, or 0. *)
LastOf(ins, n, ops) == SelectLastInSubSeq(ins, 1, n, LAMBDA i : Op(i) \in ops)
LastNot(ins, n, ops) == SelectLastInSubSeq(ins, 1, n, LAMBDA i : Op(i) \notin ops)

(* A spec; key is the sequence of its keys or attributes, <<>> for None,    *)
(* list its list_len_var, target the function to patch: the one that       *)
(* crashed or the getter of a property.                                    *)
PatchSpec(strategy, var, default, key) ==
  [strategy |-> strategy, var |-> var, default |-> default, key |-> key,
   list |-> "", target |-> "function"]
NoSpec == PatchSpec("none", "", NoneV, <<>>)

----------------------------------------------------------------------------
(* Defaults.  The guesses from a variable's name only choose between empty  *)
(* values and are left out: here every name gets the last one, "".         *)

(* _infer_default: the first telling one of the next ten instructions. *)
InferDefault(ins, at) ==
  LET Telling(i) ==
        \/ Op(i) \in MethodOps /\ Arg(i) \in StringMethods \cup ListMethods
        \/ Op(i) \in JumpOps \cup Terminators \cup {"BINARY_OP", "IS_OP", "BINARY_SUBSCR"}
      n == SelectInSubSeq(ins, at + 1, Min({at + 10, Len(ins)}), Telling)
      i == ins[n] IN
  IF n = 0 THEN StrV("") ELSE
  CASE Op(i) \in MethodOps -> IF Arg(i) \in StringMethods THEN StrV("") ELSE ListV(<<>>)
    [] Op(i) = "BINARY_OP" -> IntV(0)
    [] Op(i) \in JumpOps -> BoolV(FALSE)
    [] Op(i) = "IS_OP" -> NoneV
    [] Op(i) = "BINARY_SUBSCR" -> DictV(<<>>)
    [] OTHER -> StrV("")

InferAttributeDefault(ins, at) ==
  IF Op(ins[at]) \in MethodOps /\ Arg(ins[at]) \in StringMethods
  THEN StrV("") ELSE InferDefault(ins, at)

(* _infer_subscript_default: what is done with the result of the chain of  *)
(* subscripts that at ends.  A call counts as int() or float() only when   *)
(* the function was loaded in the two instructions before it.              *)
InferSubscriptDefault(ins, at) ==
  LET rest == SelectInSubSeq(ins, at + 1, Len(ins),
                 LAMBDA i : Op(i) \notin {"LOAD_CONST", "LOAD_FAST", "BINARY_SUBSCR"})
      Number(j) == \E k \in {n \in {j - 2, j - 1} : n > 0} :
                     Op(ins[k]) = "LOAD_GLOBAL" /\ Arg(ins[k])[2] \in {"int", "float"}
      Passed(j) == \/ Op(ins[j]) \in MethodOps /\ Arg(ins[j]) \notin StringMethods
                   \/ Op(ins[j]) \in CallOps /\ ~Number(j)
      J == {j \in rest .. Min({rest + 3, Len(ins)}) : ~Passed(j)}
      i == ins[Min(J)] IN
  IF rest = 0 \/ J = {} THEN NoneV ELSE
  CASE Op(i) \in MethodOps -> StrV("")
    [] Op(i) \in {"BINARY_OP"} \cup CallOps -> IntV(0)
    [] OTHER -> NoneV

----------------------------------------------------------------------------
(* One specification of the guard for each kind of crash.  ins is Dis of   *)
(* the code, at the place that crashed, look what the names are bound to.  *)

(* AttributeError of None.  The loads and attributes up to the crash form   *)
(* a chain; the guard is for the part of it that is None, or, when that is *)
(* a property's value, for the property's getter.                          *)
NullGuardSpec(ins, at, look) ==
  LET last  == IF Op(ins[at]) \in MethodOps THEN at ELSE at - 1
      root  == LastNot(ins, at - 1, MethodOps)
      name  == Name(ins[root])
      obj   == look[name]
      attrs == [j \in 1 .. last - root |-> StrV(Arg(ins[root + j]))]
      Walk(n) == FoldLeft(LAMBDA o, a : GetAttr(o, a[2]), obj, SubSeq(attrs, 1, n))
      none  == {n \in 1 .. Len(attrs) : Walk(n) = NoneV}
      upto  == SubSeq(attrs, 1, Min(none))
      Guard(var, key) == PatchSpec("null_guard", var, InferAttributeDefault(ins, at), key) IN
  IF Op(ins[at]) \notin MethodOps \cup {"STORE_ATTR"} \/ root = 0 THEN NoSpec
  ELSE IF Op(ins[root]) \notin Loads \cup {"LOAD_GLOBAL"}
       THEN LET var == LastOf(ins, at, Loads) IN
            IF attrs = <<>> /\ var > 0 THEN Guard(Name(ins[var]), <<>>) ELSE NoSpec
  ELSE IF obj = NoneV THEN Guard(name, attrs)
  ELSE IF none = {} THEN Guard(name, <<>>)
  ELSE IF IsProperty(Walk(Min(none) - 1), attrs[Min(none)][2])
       THEN [Guard(name, upto) EXCEPT !.strategy = "return_guard", !.target = "getter"]
       ELSE Guard(name, upto)

(* ZeroDivisionError: any arithmetic with a variable on the right. *)
DivisionGuardSpec(ins, at) ==
  IF Op(ins[at]) = "BINARY_OP" /\ at > 1 /\ Op(ins[at - 1]) \in Loads
  THEN PatchSpec("division_guard", Arg(ins[at - 1]), IntV(1), <<>>) ELSE NoSpec

Key(i) == IF Op(i) = "LOAD_FAST" THEN StrV(Arg(i)) ELSE Arg(i)

(* The number of subscripts in a row that at ends, each with a key of the   *)
(* given kind, 0 if nothing of the given kind stands before the first.     *)
ChainBefore(ins, at, keyOps, roots) ==
  LET Fits(n) == /\ at - 2 * n >= 1 /\ Op(ins[at - 2 * n]) \in roots
                 /\ \A j \in 0 .. n - 1 : /\ Op(ins[at - 2 * j]) = "BINARY_SUBSCR"
                                          /\ Op(ins[at - 2 * j - 1]) \in keyOps
      N == {n \in 1 .. at : Fits(n)} IN
  IF N = {} THEN 0 ELSE Min(N)
(* The number of constant subscripts that follow. *)
ChainAfter(ins, at) ==
  Max({n \in 0 .. Len(ins) : /\ at + 2 * n <= Len(ins)
                             /\ \A j \in 1 .. n : /\ Op(ins[at + 2 * j]) = "BINARY_SUBSCR"
                                                  /\ Op(ins[at + 2 * j - 1]) = "LOAD_CONST"})

ChainSpec(ins, at, keyOps, roots, after) ==
  LET n == ChainBefore(ins, at, keyOps, roots)
      i == ins[at - 2 * n] IN
  IF n = 0 \/ n + after < 2 THEN NoSpec
  ELSE PatchSpec("chain_subscript_guard", Name(i),
                 InferSubscriptDefault(ins, at + 2 * after),
                 [j \in 1 .. n + after |-> Key(ins[at - 2 * n + 2 * j - 1])])

(* _try_chain_subscript: constant keys down to a local variable. *)
TryChain(ins, at) == ChainSpec(ins, at, {"LOAD_CONST"}, Loads, ChainAfter(ins, at))

(* _check_property_origin. *)
PropertyOrigin(ins, at, look) ==
  LET a == LastNot(ins, at - 1, {"LOAD_CONST", "LOAD_FAST", "LOAD_GLOBAL"})
      o == LastNot(ins, a - 1, MethodOps) IN
  /\ a > 1 /\ Op(ins[a]) \in MethodOps
  /\ o > 0 /\ Op(ins[o]) = "LOAD_FAST"
  /\ IsProperty(look[Arg(ins[o])], Arg(ins[a]))

(* A subscript of None.  The variable is the last one loaded; the key is   *)
(* the last constant loaded after the variable before that one, or else    *)
(* that variable.                                                          *)
NoneSubscriptSpec(ins, at, look) ==
  LET chain == TryChain(ins, at)
      var   == LastOf(ins, at - 1, Loads)
      other == LastOf(ins, var - 1, Loads)
      const == LastOf(ins, at - 1, {"LOAD_CONST"})
      key   == IF const > other THEN <<Arg(ins[const])>>
               ELSE IF other > 0 THEN <<StrV(Arg(ins[other]))>> ELSE <<>>
      spec  == PatchSpec("subscript_guard", Arg(ins[var]),
                         InferSubscriptDefault(ins, at), key) IN
  IF Op(ins[at]) # "BINARY_SUBSCR" THEN NoSpec
  ELSE IF chain # NoSpec THEN chain
  ELSE IF var = 0 \/ key = <<>> THEN NoSpec
  ELSE IF PropertyOrigin(ins, at, look)
  THEN [spec EXCEPT !.strategy = "return_guard", !.target = "getter",
                    !.default = DictV(<<>>)]
  ELSE spec

(* IndexError of a list.  A constant index into a variable, a chain that     *)
(* ends in a constant index, or the last two variables loaded, the index   *)
(* first.                                                                  *)
IndexBoundSpec(ins, at) ==
  LET const == at > 1 /\ Op(ins[at - 1]) = "LOAD_CONST"
      chain == ChainSpec(ins, at, {"LOAD_CONST", "LOAD_FAST"}, {"LOAD_FAST", "LOAD_GLOBAL"}, 0)
      idx   == LastOf(ins, at - 1, Loads)
      list  == LastOf(ins, idx - 1, Loads) IN
  IF Op(ins[at]) # "BINARY_SUBSCR" THEN NoSpec
  ELSE IF const /\ at > 2 /\ Arg(ins[at - 1])[1] = "int" /\ Op(ins[at - 2]) \in Loads
  THEN PatchSpec("list_bound_guard", Arg(ins[at - 2]), InferSubscriptDefault(ins, at),
                 <<Arg(ins[at - 1])>>)
  ELSE IF const /\ chain # NoSpec THEN chain
  ELSE IF list = 0 THEN chain
  ELSE [PatchSpec("index_guard", Arg(ins[idx]), InferDefault(ins, at), <<>>)
          EXCEPT !.list = Arg(ins[list])]

(* KeyError.  The message names the key when it is a string; otherwise it  *)
(* has to be a constant.  The variable is the last one loaded.             *)
DictGetSpec(ins, at, missing) ==
  LET chain == TryChain(ins, at)
      var   == LastOf(ins, at - 1, Loads)
      key   == IF missing[1] = "str" THEN <<missing>>
               ELSE IF at > 1 /\ Op(ins[at - 1]) = "LOAD_CONST" THEN <<Arg(ins[at - 1])>>
               ELSE <<>> IN
  IF Op(ins[at]) # "BINARY_SUBSCR" \/ key = <<>> THEN NoSpec
  ELSE IF chain # NoSpec THEN chain
  ELSE IF var = 0 THEN NoSpec
  ELSE PatchSpec("key_guard", Arg(ins[var]), InferSubscriptDefault(ins, at), key)

(* TypeError of a concatenation, with a variable on the right of the plus. *)
StrConcatSpec(ins, at) ==
  IF ins[at] = <<"BINARY_OP", "+">> /\ at > 1 /\ Op(ins[at - 1]) \in Loads
  THEN PatchSpec("str_coerce_guard", Arg(ins[at - 1]), StrV(""), <<>>) ELSE NoSpec

FileGuardSpec(ins, at) ==
  LET var == LastOf(ins, at - 1, Loads) IN
  IF var = 0 THEN NoSpec ELSE PatchSpec("file_guard", Arg(ins[var]), StrV(""), <<>>)

(* Any other TypeError or ValueError: the variable that was loaded last     *)
(* before the nearest call, or before the instruction itself when no call  *)
(* is near.                                                                *)
TypeCoercionSpec(ins, at) ==
  LET near == SelectInSubSeq(ins, Max({1, at - 1}), Min({at + 2, Len(ins)}),
                             LAMBDA i : Op(i) \in CallOps)
      call == IF near = 0 THEN at ELSE near
      var  == LastNot(ins, call - 1, {"LOAD_GLOBAL", "PUSH_NULL"} \cup CallOps)
      fun  == LastOf(ins, call - 1, {"LOAD_GLOBAL"})
      name == IF fun = 0 THEN "" ELSE Name(ins[fun]) IN
  IF var = 0 \/ Op(ins[var]) \notin Loads THEN NoSpec
  ELSE PatchSpec("type_coercion_guard", Arg(ins[var]),
                 CASE name = "float" -> FloatV [] name = "str" -> StrV("")
                   [] OTHER -> IntV(0), <<>>)

(* The second specification where there is no first. *)
OrElse(first, second) == IF first = NoSpec THEN second ELSE first

(* analyze_exception: exc <<type, message>> at the instruction at. *)
Analyze(ins, at, look, exc) ==
  OrElse(
    CASE exc = <<"AttributeError", "None">> -> NullGuardSpec(ins, at, look)
      [] exc[1] = "ZeroDivisionError" -> DivisionGuardSpec(ins, at)
      [] exc = <<"TypeError", "subscript">> -> NoneSubscriptSpec(ins, at, look)
      [] exc = <<"TypeError", "concat">> -> StrConcatSpec(ins, at)
      [] exc[1] = "IndexError" -> IndexBoundSpec(ins, at)
      [] exc[1] = "KeyError" -> DictGetSpec(ins, at, exc[2])
      [] exc[1] = "FileNotFoundError" -> FileGuardSpec(ins, at)
      [] OTHER -> NoSpec,
    IF exc[1] \in {"TypeError", "ValueError"} THEN TypeCoercionSpec(ins, at) ELSE NoSpec)
=============================================================================
