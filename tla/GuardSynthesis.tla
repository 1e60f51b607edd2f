--------------------------- MODULE GuardSynthesis ---------------------------
(***************************************************************************)
(* synthesize_guarded_code (codesuture/guard_synthesizer.py): from the     *)
(* instructions of a function and a PatchSpec to the instructions with the *)
(* guard.  A label is a pair of a name and a number that is new in the     *)
(* code it goes into.  autonomous_rule, which compiles other source, and   *)
(* callable_guard, which only a function of the engine can get, are left   *)
(* out.  So is semantic_diff: the functions here stay below the fifty      *)
(* changed instructions that it always allows.                             *)
(***************************************************************************)
EXTENDS CrashAnalysis

Label(l)      == <<"LABEL", l>>
LoadFast(v)   == <<"LOAD_FAST", v>>
StoreFast(v)  == <<"STORE_FAST", v>>
LoadConst(c)  == <<"LOAD_CONST", c>>
LoadGlobal(n) == <<"LOAD_GLOBAL", <<FALSE, n>>>>
LoadFun(n)    == <<"LOAD_GLOBAL", <<TRUE, n>>>>     (* push_null *)
Compare(op)   == <<"COMPARE_OP", op>>
Method(n)     == <<"LOAD_METHOD", n>>
Subscr        == <<"BINARY_SUBSCR", "">>
Is            == <<"IS_OP", "">>
Copy          == <<"COPY", 1>>
Pop           == <<"POP_TOP", "">>
Return        == <<"RETURN_VALUE", "">>
Jump(l)       == <<"JUMP_FORWARD", l>>
IfTrue(l)     == <<"POP_JUMP_FORWARD_IF_TRUE", l>>
IfFalse(l)    == <<"POP_JUMP_FORWARD_IF_FALSE", l>>
CallOf(n)     == << <<"PRECALL", n>>, <<"CALL", n>> >>

(* For the labels of a guard at place i: code only ever grows. *)
New(code, i) == <<Len(code), i>>

(* co_varnames, as far as the code uses them. *)
Locals(code) == {Arg(i) : i \in {j \in ToSet(code) : Op(j) \in {"LOAD_FAST", "STORE_FAST"}}}

(* Places in the code after which a guard goes. *)
AfterResume(code)      == SelectInSeq(code, LAMBDA i : Op(i) = "RESUME")
FirstStore(code, v)    == SelectInSeq(code, LAMBDA i : i = StoreFast(v))
LastStore(code, v)     == SelectLastInSeq(code, LAMBDA i : i = StoreFast(v))
LastStoreOrResume(code, vars) ==
  LET stores == {LastStore(code, v) : v \in vars} IN
  IF stores = {0} THEN AfterResume(code) ELSE Max(stores)
(* The last store before the first attribute of v, before the end if it has none. *)
StoreBeforeUse(code, v) ==
  LET uses == {i \in 1 .. Len(code) - 1 : code[i] = LoadFast(v) /\ Op(code[i + 1]) \in MethodOps}
      end  == IF uses = {} THEN Len(code) + 1 ELSE Min(uses) IN
  SelectLastInSubSeq(code, 1, end - 1, LAMBDA i : i = StoreFast(v))

Insert(code, n, patch) == SubSeq(code, 1, n) \o patch \o SubSeq(code, n + 1, Len(code))

IfNone(v, l, body) == <<LoadFast(v), LoadConst(NoneV), Is, IfFalse(l)>> \o body \o <<Label(l)>>
ReturnConst(c) == <<LoadConst(c), Return>>
AssignConst(v, c) == <<LoadConst(c), StoreFast(v)>>

----------------------------------------------------------------------------
(* _is_inside_try_block: is there any attribute, subscript or arithmetic   *)
(* in any try range of the code?                                           *)
InTry(code, n) ==
  \E i \in 1 .. n : Op(code[i]) = "TRY_BEGIN" /\ \A j \in i .. n : Op(code[j]) # "TRY_END"
InsideTryBlock(code) ==
  \E n \in DOMAIN code :
    InTry(code, n) /\ Op(code[n]) \in MethodOps \cup {"BINARY_SUBSCR", "BINARY_OP"}

EntryPointNullGuard(code, v, d) ==
  Insert(code, AfterResume(code), IfNone(v, <<"skip", New(code, 0)>>, ReturnConst(d)))

NullGuard(code, v, d) ==
  LET init == {i \in 1 .. Len(code) - 1 : code[i] = LoadConst(NoneV) /\ code[i + 1] = StoreFast(v)}
      at   == StoreBeforeUse(code, v) IN
  IF init # {} THEN [code EXCEPT ![Min(init)] = LoadConst(d)]
  ELSE Insert(code, IF at > 0 THEN at ELSE AfterResume(code),
              IfNone(v, <<"skip", New(code, 0)>>, AssignConst(v, d)))

(* The attributes of a local variable that the function assigns are not    *)
(* looked at: only the variable itself is tested, after its assignment.    *)
StoredRootGuard(code, v, d) ==
  Insert(code, StoreBeforeUse(code, v), IfNone(v, <<"skip", New(code, 0)>>, ReturnConst(d)))

(* Otherwise the whole chain is walked at the entry of the function.       *)
(* A variant of the definition below, with a mistake in it. *)
ChainWalkGuardLeaves(code, v, attrs, d) ==
  LET n == New(code, 0)
      Test == <<Copy, LoadConst(NoneV), Is, IfTrue(<<"default", n>>)>>
      walk == FlattenSeq([j \in DOMAIN attrs |-> Test \o << <<"LOAD_ATTR", attrs[j][2]>> >>]) IN
  Insert(code, AfterResume(code),
    <<LoadFast(v)>> \o walk \o Test \o <<Jump(<<"end", n>>), Label(<<"default", n>>), Pop>>
      \o ReturnConst(d) \o <<Label(<<"end", n>>)>>)
ChainWalkGuard(code, v, attrs, d) ==
  LET n == New(code, 0)
      Test == <<Copy, LoadConst(NoneV), Is, IfTrue(<<"default", n>>)>>
      walk == FlattenSeq([j \in DOMAIN attrs |-> Test \o << <<"LOAD_ATTR", attrs[j][2]>> >>]) IN
  Insert(code, AfterResume(code),
    <<LoadFast(v)>> \o walk \o Test \o <<Pop, Jump(<<"end", n>>), Label(<<"default", n>>), Pop>>
      \o ReturnConst(d) \o <<Label(<<"end", n>>)>>)

AttrNullGuard(code, v, attrs, d) ==
  IF LastStore(code, v) > 0 THEN StoredRootGuard(code, v, d) ELSE ChainWalkGuard(code, v, attrs, d)

(* Every true division of the function, and no other operator. *)
DivisionGuard(code, d) ==
  LET skip(i) == <<"skip", New(code, i)>>
      Guarded(i) == <<Copy, LoadConst(IntV(0)), Compare("!="), IfTrue(skip(i)), Pop, LoadConst(d),
                      Label(skip(i)), code[i]>> IN
  FlattenSeq([i \in DOMAIN code |-> IF code[i] = <<"BINARY_OP", "/">> THEN Guarded(i) ELSE <<code[i]>>])

(* The first subscript whose key is loaded right before it. *)
KeyMatches(i, key) == i = LoadConst(key) \/ (Op(i) = "LOAD_FAST" /\ StrV(Arg(i)) = key)
SubscriptSite(code, key) ==
  LET S == {i \in DOMAIN code :
              Op(code[i]) = "BINARY_SUBSCR"
              /\ (key # <<>> => i > 1 /\ KeyMatches(code[i - 1], key[1]))} IN
  IF S = {} THEN 0 ELSE Min(S)

SafeSubscript(n, d) ==
  LET cont == "_codesuture_cont" key == "_codesuture_key"
      notNone == <<"not_none", n>> dict == <<"dict", n>> end == <<"end", n>> IN
  <<StoreFast(key), StoreFast(cont),
    LoadFast(cont), LoadConst(NoneV), Compare("=="), IfFalse(notNone),
    LoadConst(d), Jump(end),
    Label(notNone), LoadFun("isinstance"), LoadFast(cont), LoadGlobal("dict")>>
    \o CallOf(2) \o <<IfTrue(dict), LoadFast(cont), LoadFast(key), Subscr, Jump(end),
    Label(dict), LoadFast(cont), Method("get"), LoadFast(key), LoadConst(d)>>
    \o CallOf(2) \o <<Label(end)>>

SubscriptGuard(code, key, d) ==
  LET n == SubscriptSite(code, key) IN
  IF n = 0 THEN code
  ELSE SubSeq(code, 1, n - 1) \o SafeSubscript(New(code, n), d) \o SubSeq(code, n + 1, Len(code))

(* Every occurrence of the chain. *)
MatchChain(code, at, root, keys) ==
  /\ at + 2 * Len(keys) <= Len(code)
  /\ Op(code[at]) \in {"LOAD_FAST", "LOAD_GLOBAL"} /\ Name(code[at]) = root
  /\ \A j \in DOMAIN keys : KeyMatches(code[at + 2 * j - 1], keys[j])
                            /\ Op(code[at + 2 * j]) = "BINARY_SUBSCR"

(* Every key but the last is looked up with .get, and the last one too     *)
(* unless it is a number: then it is compared with the length.             *)
ChainGet(code, at, root, keys, d) ==
  LET chain == "_lp_chain"
      n == New(code, at)
      Unless(l) == <<LoadFast(chain), LoadConst(NoneV), Compare("=="), IfTrue(l)>>
      Get(k, default) == <<LoadFast(chain), Method("get"), LoadConst(k), LoadConst(default)>> \o CallOf(2)
      Inner(j) == LET skip == <<"inner", New(code, at + j)>> IN
                  Unless(skip) \o Get(keys[j], NoneV) \o <<StoreFast(chain), Label(skip)>>
      last == keys[Len(keys)]
      end == <<"end", n>> none == <<"none", n>> short == <<"short", n>>
      Final == IF last[1] = "int"
               THEN <<LoadConst(last), LoadFun("len"), LoadFast(chain)>> \o CallOf(1)
                    \o <<Compare(">="), IfTrue(short), LoadFast(chain), LoadConst(last), Subscr,
                         Jump(end), Label(short), LoadConst(d)>>
               ELSE Get(last, d) IN
  <<IF root \in Locals(code) THEN LoadFast(root) ELSE LoadGlobal(root), StoreFast(chain)>>
    \o FlattenSeq([j \in 1 .. Len(keys) - 1 |-> Inner(j)])
    \o Unless(none) \o Final \o <<Jump(end), Label(none), LoadConst(d), Label(end)>>

ChainGuard(code, root, keys, d) ==
  LET starts == {i \in DOMAIN code : MatchChain(code, i, root, keys)}
      Inside(i) == \E s \in starts : i \in s + 1 .. s + 2 * Len(keys) IN
  FlattenSeq([i \in DOMAIN code |->
    IF i \in starts THEN ChainGet(code, i, root, keys, d)
    ELSE IF Inside(i) THEN <<>> ELSE <<code[i]>>])

(* A variant of the definition below, with a mistake in it. *)
IndexGuardPastEnd(code, idx, list, d) ==
  LET skip == <<"skip", New(code, 0)>> IN
  Insert(code, LastStoreOrResume(code, {idx, list}),
    <<LoadFast(idx), LoadFun("len"), LoadFast(list)>> \o CallOf(1)
      \o <<Compare(">"), IfFalse(skip)>> \o ReturnConst(d) \o <<Label(skip)>>)
IndexGuard(code, idx, list, d) ==
  LET skip == <<"skip", New(code, 0)>> IN
  Insert(code, LastStoreOrResume(code, {idx, list}),
    <<LoadFast(idx), LoadFun("len"), LoadFast(list)>> \o CallOf(1)
      \o <<Compare(">="), IfFalse(skip)>> \o ReturnConst(d) \o <<Label(skip)>>)

ListBoundGuard(code, list, index, d) ==
  LET skip == <<"skip", New(code, 0)>> IN
  Insert(code, LastStoreOrResume(code, {list}),
    <<LoadFun("len"), LoadFast(list)>> \o CallOf(1)
      \o <<LoadConst(index), Compare(">"), IfTrue(skip)>> \o ReturnConst(d) \o <<Label(skip)>>)

FileGuard(code, path, d) ==
  LET skip == <<"skip", New(code, 0)>> IN
  Insert(code, LastStoreOrResume(code, {path}),
    <<LoadGlobal("os"), <<"LOAD_ATTR", "path">>, Method("exists"), LoadFast(path)>> \o CallOf(1)
      \o <<IfTrue(skip)>> \o ReturnConst(d) \o <<Label(skip)>>)

IsInstance(v, class) == <<LoadFun("isinstance"), LoadFast(v), LoadGlobal(class)>> \o CallOf(2)

StrCoerceGuard(code, v) ==
  LET skip == <<"skip", New(code, 0)>> IN
  Insert(code, LastStoreOrResume(code, {v}),
    IsInstance(v, "str") \o <<IfTrue(skip), LoadFun("str"), LoadFast(v)>> \o CallOf(1)
      \o <<StoreFast(v), Label(skip)>>)

(* A number is expected: text that is not digits becomes the default; any  *)
(* other default only replaces None.                                       *)
TypeCoercionGuard(code, v, d) ==
  LET at == FirstStore(code, v)
      skip == <<"skip", New(code, 0)>> skip2 == <<"digits", New(code, 0)>> IN
  Insert(code, IF at > 0 THEN at ELSE AfterResume(code),
    IF d[1] = "int"
    THEN IsInstance(v, "str") \o <<IfFalse(skip), LoadFast(v), Method("lstrip"), LoadConst(StrV("-"))>>
         \o CallOf(1) \o <<Method("isdigit")>> \o CallOf(0) \o <<IfTrue(skip2)>>
         \o AssignConst(v, d) \o <<Label(skip2), Label(skip)>>
    ELSE IfNone(v, skip, AssignConst(v, d)))

(* A variant of the definition below, with a mistake in it. *)
ReturnGuardInverted(code, d) ==
  LET Guarded(i) == LET skip == <<"skip", New(code, i)>> IN
        <<Copy, LoadConst(NoneV), Is, IfTrue(skip), Pop, LoadConst(d), Label(skip), code[i]>> IN
  FlattenSeq([i \in DOMAIN code |-> IF Op(code[i]) = "RETURN_VALUE" THEN Guarded(i) ELSE <<code[i]>>])
ReturnGuard(code, d) ==
  LET Guarded(i) == LET skip == <<"skip", New(code, i)>> IN
        <<Copy, LoadConst(NoneV), Is, IfFalse(skip), Pop, LoadConst(d), Label(skip), code[i]>> IN
  FlattenSeq([i \in DOMAIN code |-> IF Op(code[i]) = "RETURN_VALUE" THEN Guarded(i) ELSE <<code[i]>>])

----------------------------------------------------------------------------
InlineStrategies == {"subscript_guard", "key_guard", "division_guard", "chain_subscript_guard"}

SynthNames == {"_codesuture_cont", "_codesuture_key", "_lp_chain"}

Build(code, spec) ==
  LET v == spec.var d == spec.default k == spec.key s == spec.strategy IN
  CASE s \in InlineStrategies /\ InsideTryBlock(code) -> EntryPointNullGuard(code, v, d)
    [] s \in {"subscript_guard", "key_guard"} /\ ~InsideTryBlock(code) -> SubscriptGuard(code, k, d)
    [] s = "chain_subscript_guard" /\ ~InsideTryBlock(code) -> ChainGuard(code, v, k, d)
    [] s = "division_guard" /\ ~InsideTryBlock(code) -> DivisionGuard(code, d)
    [] s = "null_guard" /\ k # <<>> -> AttrNullGuard(code, v, k, d)
    [] s = "null_guard" /\ k = <<>> -> NullGuard(code, v, d)
    [] s = "index_guard" -> IndexGuard(code, v, spec.list, d)
    [] s = "list_bound_guard" -> ListBoundGuard(code, v, k[1], d)
    [] s = "file_guard" -> FileGuard(code, v, d)
    [] s = "str_coerce_guard" -> StrCoerceGuard(code, v)
    [] s = "type_coercion_guard" -> TypeCoercionGuard(code, v, d)
    [] s = "return_guard" -> ReturnGuard(code, d)

(* validate_patch refuses a guard that loads a local the function lacks. *)
Rejected == << >>
Synthesize(code, spec) ==
  LET new == Build(code, spec)
      loads == {Arg(i) : i \in {j \in ToSet(new) : Op(j) = "LOAD_FAST"}} IN
  IF loads \subseteq Locals(code) \cup SynthNames THEN new ELSE Rejected
=============================================================================
