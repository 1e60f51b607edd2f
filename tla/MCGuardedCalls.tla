--------------------------- MODULE MCGuardedCalls ---------------------------
(* An instance of GuardedCalls for TLC: short functions, one or more for    *)
(* each rule of the analysis, as the compiler of Python 3.11 translates    *)
(* them, each with arguments that it takes and arguments it crashes on.    *)
EXTENDS GuardedCalls, TLC

Dict(f) == DictV([k \in {StrV(s) : s \in DOMAIN f} |-> f[k[2]]])
NoItems == DictV([k \in {} |-> NoneV])
Default(f, d) == <<"defaultdict", Dict(f)[2], d>>
Obj(a, v) == ObjV([x \in {a} |-> v])
One == IntV(1)  Zero == IntV(0)

Const(s)  == LoadConst(StrV(s))
LoadAttr(a) == <<"LOAD_ATTR", a>>
Op2(op)   == <<"BINARY_OP", op>>
Body(is)  == << <<"RESUME", 0>> >> \o is
Ret(is)   == Body(is \o <<Return>>)
Sub(k)    == <<LoadConst(k), Subscr>>
Own(name) == <<name, <<0, 0>>>>      (* a label of the function itself *)
Args(names, values) == [n \in ToSet(names) |-> values[SelectInSeq(names, LAMBDA m : m = n)]]
(* A function of some parameters; its inputs, a value for each of them.     *)
Fun(names, body, inputs) == [code |-> body, inputs |-> {Args(names, v) : v \in inputs}]

MCSources ==
  [attr |-> Fun(<<"u">>, Ret(<<LoadFast("u"), LoadAttr("profile"), LoadAttr("bio")>>),
              {<<NoneV>>, <<Obj("profile", NoneV)>>, <<Obj("profile", Obj("bio", One))>>,
               <<Obj("profile", PropV(NoneV))>>, <<Obj("profile", PropV(Obj("bio", One)))>>}),
   late |-> Fun(<<"d">>, Ret(<<LoadFast("d"), StoreFast("u"), LoadFast("u"), LoadAttr("profile"), LoadAttr("bio")>>),
              {<<NoneV>>, <<Obj("profile", NoneV)>>, <<Obj("profile", Obj("bio", One))>>}),
   cond |-> Fun(<<"u", "on">>, Body(<<LoadFast("on"), IfFalse(Own("off")), LoadFast("u"), LoadAttr("name"), Return,
                                     Label(Own("off")), LoadConst(Zero), Return>>),
              {<<NoneV, One>>, <<NoneV, Zero>>, <<Obj("name", One), One>>}),
   init |-> Fun(<<"d", "on">>, Body(<<LoadConst(NoneV), StoreFast("v"), LoadFast("on"), IfFalse(Own("off")),
                                     LoadFast("d"), StoreFast("v"), Label(Own("off")),
                                     LoadFast("v"), LoadAttr("name"), Return>>),
              {<<NoneV, One>>, <<NoneV, Zero>>, <<Obj("name", One), One>>}),
   setlater |-> Fun(<<"d", "on">>, Body(<<LoadConst(NoneV), StoreFast("v"), LoadFast("on"), IfFalse(Own("off")),
                                     LoadFast("d"), StoreFast("v"), Label(Own("off")), LoadConst(One),
                                     LoadFast("v"), <<"STORE_ATTR", "name">>, LoadConst(NoneV), Return>>),
              {<<NoneV, One>>, <<NoneV, Zero>>, <<Obj("name", One), One>>}),
   meth |-> Fun(<<"s">>, Ret(<<LoadFast("s"), Method("upper")>> \o CallOf(0)),
              {<<NoneV>>, <<StrV("x")>>}),
   setattr |-> Fun(<<"u", "v">>, Ret(<<LoadFast("v"), LoadFast("u"), <<"STORE_ATTR", "name">>, LoadConst(NoneV)>>),
              {<<NoneV, One>>, <<Obj("name", One), One>>}),
   ratio |-> Fun(<<"a", "b">>, Ret(<<LoadFast("a"), LoadFast("b"), Op2("/")>>),
              {<<One, Zero>>, <<One, One>>}),
   rest |-> Fun(<<"a", "b">>, Ret(<<LoadFast("a"), LoadFast("b"), Op2("%")>>),
              {<<One, Zero>>, <<One, One>>}),
   half |-> Fun(<<"a", "b">>, Ret(<<LoadFast("a"), LoadFast("b"), Op2("//"), StoreFast("n"),
                                   LoadFast("n"), LoadFast("b"), Op2("/")>>),
              {<<One, Zero>>, <<One, One>>}),
   item |-> Fun(<<"d">>, Ret(<<LoadFast("d")>> \o Sub(StrV("k"))),
              {<<NoneV>>, <<NoItems>>, <<Dict([k |-> One])>>, <<ListV(<<>>)>>, <<Default([a |-> One], Zero)>>}),
   both |-> Fun(<<"a", "b">>, Ret(<<LoadFast("a")>> \o Sub(StrV("k")) \o <<LoadFast("b")>> \o Sub(StrV("k")) \o <<Op2("+")>>),
              {<<NoneV, Dict([k |-> One])>>, <<Dict([k |-> One]), NoneV>>, <<Dict([k |-> One]), NoItems>>,
               <<Dict([k |-> One]), Dict([k |-> One])>>}),
   by |-> Fun(<<"d", "k">>, Ret(<<LoadFast("d"), LoadFast("k"), Subscr>>),
              {<<NoneV, StrV("k")>>, <<NoItems, StrV("k")>>, <<ListV(<<>>), Zero>>, <<ListV(<<One>>), Zero>>,
               <<ListV(<<One>>), IntV(-2)>>}),
   chain |-> Fun(<<"d">>, Ret(<<LoadFast("d")>> \o Sub(StrV("a")) \o Sub(StrV("b"))),
              {<<NoneV>>, <<NoItems>>, <<Dict([a |-> NoneV])>>, <<Dict([a |-> NoItems])>>,
               <<Dict([a |-> Dict([b |-> One])])>>}),
   mixed |-> Fun(<<"d">>, Ret(<<LoadFast("d")>> \o Sub(StrV("a")) \o Sub(Zero) \o Sub(StrV("b"))),
              {<<Dict([a |-> ListV(<<>>)])>>, <<Dict([a |-> NoneV])>>,
               <<Dict([a |-> ListV(<<Dict([b |-> One])>>)])>>}),
   last |-> Fun(<<"d">>, Ret(<<LoadFast("d")>> \o Sub(StrV("a")) \o Sub(Zero)),
              {<<NoneV>>, <<Dict([a |-> ListV(<<>>)])>>, <<Dict([a |-> NoItems])>>, <<Dict([a |-> ListV(<<One>>)])>>}),
   first |-> Fun(<<"xs">>, Ret(<<LoadFast("xs")>> \o Sub(Zero)),
              {<<ListV(<<>>)>>, <<ListV(<<One>>)>>, <<NoneV>>}),
   dki |-> Fun(<<"d", "k">>, Ret(<<LoadFast("d"), LoadFast("k"), Subscr>> \o Sub(Zero)),
              {<<NoItems, StrV("x")>>, <<Dict([x |-> NoneV]), StrV("x")>>, <<Dict([x |-> ListV(<<>>)]), StrV("x")>>,
               <<Dict([x |-> ListV(<<One>>)]), StrV("x")>>}),
   dai |-> Fun(<<"d", "i">>, Ret(<<LoadFast("d")>> \o Sub(StrV("a")) \o <<LoadFast("i"), Subscr>>),
              {<<NoItems, One>>, <<Dict([a |-> NoneV]), One>>, <<Dict([a |-> ListV(<<>>)]), Zero>>,
               <<Dict([a |-> ListV(<<>>)]), One>>, <<Dict([a |-> ListV(<<One, One>>)]), One>>}),
   num |-> Fun(<<"s">>, Ret(<<LoadFun("int"), LoadFast("s")>> \o CallOf(1)),
              {<<StrV("x")>>, <<StrV("+5")>>, <<StrV("5")>>, <<NoneV>>, <<One>>}),
   fl |-> Fun(<<"s">>, Ret(<<LoadFun("float"), LoadFast("s")>> \o CallOf(1)),
              {<<StrV("x")>>, <<StrV("5")>>, <<NoneV>>}),
   cat |-> Fun(<<"x">>, Ret(<<Const("a"), LoadFast("x"), Op2("+")>>),
              {<<NoneV>>, <<One>>, <<StrV("x")>>}),
   cat2 |-> Fun(<<"x", "y">>, Ret(<<LoadFast("y"), IfFalse(Own("no")), Const("a"), LoadFast("x"), Op2("+"),
                                   Jump(Own("end")), Label(Own("no")), LoadFast("x"), Label(Own("end"))>>),
              {<<One, One>>, <<One, Zero>>, <<StrV("x"), One>>}),
   add |-> Fun(<<"a", "b">>, Ret(<<LoadFast("a"), LoadFast("b"), Op2("+")>>),
              {<<One, NoneV>>, <<NoneV, One>>, <<StrV("x"), NoneV>>, <<StrV("x"), StrV("y")>>, <<One, One>>}),
   tr |-> Fun(<<"d">>, Body(<< <<"NOP", "">>, <<"TRY_BEGIN", <<Own("except"), {"ValueError"}>>>>, LoadFast("d")>>
                 \o Sub(StrV("k")) \o << <<"TRY_END", "">>, Return, Label(Own("except")), LoadConst(Zero), Return>>),
              {<<NoneV>>, <<NoItems>>, <<Dict([k |-> One])>>}),
   handled |-> Fun(<<"u">>, Body(<< <<"NOP", "">>, <<"TRY_BEGIN", <<Own("except"), {"AttributeError"}>>>>, LoadFast("u"),
                 LoadAttr("name"), <<"TRY_END", "">>, Return, Label(Own("except")), LoadConst(Zero), Return>>),
              {<<NoneV>>, <<Obj("name", One)>>}),
   inner |-> Fun(<<"d">>, Body(<< <<"NOP", "">>, <<"TRY_BEGIN", <<Own("except"), {"ValueError"}>>>>, LoadFast("d"), StoreFast("x"),
                 LoadFast("x")>> \o Sub(StrV("k")) \o << <<"TRY_END", "">>, Return, Label(Own("except")), LoadConst(Zero), Return>>),
              {<<NoneV>>, <<NoItems>>, <<Dict([k |-> One])>>}),
   open |-> Fun(<<"p", "os">>, Ret(<<LoadFun("open"), LoadFast("p")>> \o CallOf(1)),
              {<<StrV("x"), FunV("os")>>, <<StrV("x"), NullV>>, <<StrV("file"), FunV("os")>>, <<StrV("file"), NullV>>}),
   call |-> Fun(<<"cb", "x">>, Ret(<< <<"PUSH_NULL", "">>, LoadFast("cb"), LoadFast("x")>> \o CallOf(1)),
              {<<NoneV, One>>, <<NoneV, StrV("x")>>, <<FunV("f"), One>>, <<FunV("f"), StrV("x")>>}),
   prop |-> Fun(<<"u">>, Ret(<<LoadFast("u"), LoadAttr("conf")>> \o Sub(StrV("k"))),
              {<<Obj("conf", PropV(NoneV))>>, <<Obj("conf", PropV(NoItems))>>, <<Obj("conf", NoneV)>>,
               <<Obj("conf", PropV(Dict([k |-> One])))>>}),
   total |-> Fun(<<"d">>, Ret(<<LoadFast("d")>> \o Sub(StrV("n")) \o <<LoadConst(One), Op2("+")>>),
              {<<NoneV>>, <<NoItems>>, <<Dict([n |-> One])>>, <<Dict([n |-> NoneV])>>}),
   number |-> Fun(<<"d">>, Ret(<<LoadFun("int"), LoadFast("d")>> \o Sub(StrV("n")) \o CallOf(1)),
              {<<NoneV>>, <<NoItems>>, <<Dict([n |-> One])>>, <<Dict([n |-> NoneV])>>, <<Dict([n |-> StrV("x")])>>}),
   global |-> Fun(<<"cfg">>, Ret(<<LoadGlobal("cfg"), LoadAttr("name")>>),
              {<<NoneV>>, <<Obj("name", One)>>})]

MCIntTexts == {"5", "+5", "-5"}
MCDigitTexts == {"5", "-5"}
MCFiles == {StrV("file")}
=============================================================================
