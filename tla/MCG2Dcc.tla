------------------------------ MODULE MCG2Dcc ------------------------------
(* Small programs for the gen 2 compiler: every construct, every entry of  *)
(* the runtime, programs with errors of every kind, and the ways to call   *)
(* the compiler.                                                           *)
EXTENDS G2DccProps, G0Print

v(x) == EVar(x)
i(n) == EInt(n)
Chars(s) == EStr(s)
ap(f, as) == FoldLeft(EApp, f, as)
op(o, l, r) == EBin(o, l, r)
fn(xs, e) == WrapParams([k \in DOMAIN xs |-> PVar(xs[k])], e)
Def(x, xs, e) == GroupItem(<<FunDef(FALSE, x, [k \in DOMAIN xs |-> PVar(xs[k])], <<>>, e)>>)
DefP(x, ps, e) == GroupItem(<<FunDef(FALSE, x, ps, <<>>, e)>>)
RecDef(x, xs, e) == FunDef(TRUE, x, [k \in DOMAIN xs |-> PVar(xs[k])], <<>>, e)
Rec(x, xs, e) == GroupItem(<<RecDef(x, xs, e)>>)
let(x, rhs, e) == ELet(FALSE, x, rhs, e)
letrec(x, rhs, e) == ELet(TRUE, x, rhs, e)
case(e, brs) == ECase(e, brs)
tup(es) == ETup(es)
list(es) == FoldRight(ConsE, es, NilE)
T == EBool(TRUE)
F == EBool(FALSE)
Cat(h, t) == PCtor("Cons", <<h, t>>)
Empty == PCtor("Nil", <<>>)
pv(x) == PVar(x)
Main(e) == DefP("main", <<EUnit>>, e)
print(e) == EApp(v("print_int"), e)
say(e) == EApp(v("print_string"), e)
(* A sequence of expressions for their effects.                            *)
seq(es) == FoldRight(ESeq, Front(es), Last(es))
prints(es) == seq([k \in DOMAIN es |-> print(es[k])])
IntT == ACon("Int", <<>>)
BoolT == ACon("Bool", <<>>)
as == Chars(<<"a">>)
ab == Chars(<<"a", "b">>)

OptItem == TyDecl("Opt", <<"a">>, <<CtorDecl("None", <<>>), CtorDecl("Some", <<AVar("a")>>)>>)
TreeItem == TyDecl("Tree", <<"a">>,
                   <<CtorDecl("Leaf", <<>>),
                     CtorDecl("Node", <<ACon("Tree", <<AVar("a")>>), AVar("a"), ACon("Tree", <<AVar("a")>>)>>)>>)
SumItem == Rec("sum", <<"l">>, case(v("l"), <<<<Empty, i(0)>>,
                                             <<Cat(pv("h"), pv("t")), op("+", v("h"), ap(v("sum"), <<v("t")>>))>>>>))
BuildItem == Rec("build", <<"n">>, EIf(op("==", v("n"), i(0)), NilE,
                                       op("::", v("n"), ap(v("build"), <<op("-", v("n"), i(1))>>))))
InsItem == Rec("ins", <<"x", "t">>,
    case(v("t"), <<<<PCtor("Leaf", <<>>), ap(v("Node"), <<v("Leaf"), v("x"), v("Leaf")>>)>>,
                   <<PCtor("Node", <<pv("l"), pv("y"), pv("r")>>),
                     EIf(op("<", v("x"), v("y")), ap(v("Node"), <<ap(v("ins"), <<v("x"), v("l")>>), v("y"), v("r")>>),
                         ap(v("Node"), <<v("l"), v("y"), ap(v("ins"), <<v("x"), v("r")>>)>>))>>>>))

-----------------------------------------------------------------------------
(* Programs that are accepted.                                             *)

SomePair(b) == ap(v("Some"), <<tup(<<b, EUnit>>)>>)
Accepted == [
  arith |-> <<
    Def("a", <<>>, op("-", op("+", i(1), op("*", i(2), i(3))), op("-", i(4), op("*", i(5), i(-6))))),
    Main(prints(<<v("a"), op("/", i(-7), i(2)), op("%", i(-7), i(2)), op("/", i(7), i(-2)), op("%", i(7), i(-2)),
                  op("*", i(-300), i(200)), op("-", op("-", i(1), i(2)), i(3)), op("-", i(1), op("-", i(2), i(3))),
                  op("/", i(60000), i(7)), i(-1)>>))>>,
  compares |-> <<
    Def("r", <<>>, tup(<<op("<", i(-1), i(1)), op(">", i(-1), i(1)), op("<=", i(2), i(2)), op(">=", i(1), i(2)),
                         op("==", ab, op("++", as, Chars(<<"b">>))), op("!=", tup(<<i(1), T>>), tup(<<i(1), F>>)),
                         op("==", list(<<i(1), i(2)>>), op("::", i(1), list(<<i(2)>>))), op("==", EUnit, EUnit)>>))>>,
  shortcut |-> <<
    Def("loud", <<"b">>, ESeq(print(i(1)), v("b"))),
    Main(EIf(op("&&", F, ap(v("loud"), <<T>>)), print(i(2)),
             EIf(op("||", op("&&", T, ap(v("loud"), <<F>>)), op("||", T, ap(v("loud"), <<T>>))), print(i(3)), print(i(4)))))>>,
  strings |-> <<
    Def("s", <<>>, op("++", ab, op("++", as, Chars(<<>>)))),
    Main(let("g", ap(v("string_get"), <<v("s")>>),
             ESeq(say(v("s")), prints(<<ap(v("g"), <<i(1)>>), ap(v("g"), <<i(3)>>), ap(v("g"), <<i(-1)>>),
                                        ap(v("string_length"), <<v("s")>>)>>))))>>,
  lists |-> <<
    SumItem, BuildItem,
    Rec("map", <<"f", "l">>, case(v("l"), <<<<Empty, NilE>>,
        <<Cat(pv("h"), pv("t")), op("::", ap(v("f"), <<v("h")>>), ap(v("map"), <<v("f"), v("t")>>))>>>>)),
    Def("l", <<>>, ap(v("map"), <<fn(<<"x">>, op("*", v("x"), v("x"))), ap(v("build"), <<i(3)>>)>>)),
    Main(print(ap(v("sum"), <<v("l")>>)))>>,
  garbage |-> <<
    SumItem, BuildItem,
    Rec("loop", <<"k", "acc">>, EIf(op("==", v("k"), i(0)), v("acc"),
        ap(v("loop"), <<op("-", v("k"), i(1)), ap(v("sum"), <<op("::", v("acc"), ap(v("build"), <<v("k")>>))>>)>>))),
    Main(print(ap(v("loop"), <<i(2), i(0)>>)))>>,
  trees |-> <<
    TreeItem, InsItem,
    Def("t", <<>>, ap(v("ins"), <<i(2), ap(v("ins"), <<i(1), v("Leaf")>>)>>)),
    Main(let("n", ap(v("Node"), <<v("Leaf")>>),
             case(ap(v("n"), <<i(5), v("t")>>),
                  <<<<PCtor("Node", <<PCtor("Node", <<pv("a"), pv("b"), pv("c")>>), pv("d"), pv("e")>>), print(i(0))>>,
                    <<PCtor("Node", <<PCtor("Leaf", <<>>), pv("x"), PCtor("Node", <<pv("a"), pv("y"), pv("b")>>)>>),
                      prints(<<v("x"), v("y")>>)>>,
                    <<pv("z"), print(i(1))>>>>)))>>,
  closures |-> <<
    Def("add", <<"x", "y">>, op("+", v("x"), v("y"))),
    Def("compose", <<"f", "g", "x">>, ap(v("f"), <<ap(v("g"), <<v("x")>>)>>)),
    Def("five", <<>>, ap(v("compose"), <<ap(v("add"), <<i(2)>>), ap(v("add"), <<i(-1)>>), i(4)>>)),
    Def("mix", <<"x">>, let("y", op("*", v("x"), i(2)),
                            fn(<<"z">>, let("w", fn(<<"x">>, op("-", v("x"), v("y"))), ap(v("w"), <<v("z")>>))))),
    Main(print(ap(v("mix"), <<v("five"), i(3)>>)))>>,
  locals |-> <<
    Def("count", <<"m">>,
        letrec("go", fn(<<"n", "acc">>, EIf(op(">=", v("n"), v("m")), v("acc"),
                                            ap(v("go"), <<op("+", v("n"), i(1)), op("+", v("acc"), v("m"))>>))),
               ap(v("go"), <<i(0), i(0)>>))),
    Main(case(tup(<<ap(v("count"), <<i(2)>>), T>>), <<<<PTup(<<pv("a"), pv("b")>>), EIf(v("b"), print(v("a")), EUnit)>>>>))>>,
  groups |-> <<
    GroupItem(<<RecDef("even", <<"n">>, EIf(op("==", v("n"), i(0)), T, ap(v("odd"), <<op("-", v("n"), i(1))>>))),
                RecDef("odd", <<"n">>, EIf(op("==", v("n"), i(0)), F, ap(v("even"), <<op("-", v("n"), i(1))>>)))>>),
    Def("r", <<>>, ap(v("even"), <<i(3)>>))>>,
  patterns |-> <<
    OptItem,
    Def("f", <<"p">>, case(v("p"), <<
        <<PTup(<<i(0), pv("x")>>), v("x")>>,
        <<PTup(<<i(1), PCtor("Some", <<PTup(<<F, pv("x")>>)>>)>>), ap(v("Some"), <<tup(<<T, v("x")>>)>>)>>,
        <<PTup(<<pv("n"), PCtor("Some", <<PTup(<<pv("b"), EUnit>>)>>)>>), ap(v("Some"), <<tup(<<v("b"), EUnit>>)>>)>>,
        <<pv("other"), v("None")>>>>)),
    Def("r", <<>>, list(<<ap(v("f"), <<tup(<<i(0), SomePair(F)>>)>>), ap(v("f"), <<tup(<<i(1), SomePair(F)>>)>>),
                          ap(v("f"), <<tup(<<i(2), SomePair(T)>>)>>), ap(v("f"), <<tup(<<i(3), v("None")>>)>>)>>)),
    Def("which", <<"s">>, case(v("s"), <<<<as, i(1)>>, <<ab, i(2)>>, <<pv("_"), i(3)>>>>)),
    Main(prints(<<ap(v("which"), <<ab>>), ap(v("which"), <<op("++", as, Chars(<<>>))>>), ap(v("which"), <<Chars(<<"b">>)>>)>>))>>,
  params |-> <<
    OptItem,
    DefP("f", <<PTup(<<pv("a"), pv("b")>>)>>, op("-", v("a"), v("b"))),
    DefP("g", <<PCtor("Some", <<pv("x")>>), PTup(<<pv("y"), EUnit>>)>>, tup(<<v("y"), EUnit>>)),
    DefP("h", <<T, pv("x")>>, v("x")),
    Def("r", <<>>, tup(<<ap(v("f"), <<tup(<<i(1), i(2)>>)>>), ap(v("g"), <<ap(v("Some"), <<T>>), tup(<<ab, EUnit>>)>>),
                         ap(v("h"), <<T, i(7)>>)>>)),
    Main(print(ap(v("h"), <<F, i(8)>>)))>>,
  generic |-> <<
    OptItem,
    Def("id", <<"x">>, v("x")),
    Def("k", <<"x">>, let("c", fn(<<"y">>, tup(<<v("x"), v("y")>>)), tup(<<ap(v("c"), <<i(1)>>), ap(v("c"), <<T>>)>>))),
    Def("r", <<>>, tup(<<ap(v("id"), <<i(1)>>), ap(v("id"), <<T>>), ap(v("k"), <<ab>>),
                         ap(ap(v("id"), <<v("id")>>), <<ap(v("Some"), <<EUnit>>)>>)>>))>>,
  annotated |-> <<
    GroupItem(<<FunDef(FALSE, "f", <<pv("x"), pv("y")>>,
                       <<AArrow(IntT, AArrow(AVar("a"), ATup(<<IntT, AVar("a")>>)))>>, tup(<<v("x"), v("y")>>))>>),
    Def("g", <<"h">>, EAnn(ap(v("h"), <<i(1)>>), IntT)),
    GroupItem(<<FunDef(FALSE, "l", <<>>, <<ACon("List", <<AArrow(IntT, BoolT)>>)>>, NilE)>>),
    Def("r", <<>>, tup(<<ap(v("f"), <<i(1), EUnit>>), ap(v("g"), <<EAnn(fn(<<"x">>, v("x")), AArrow(IntT, IntT))>>), v("l")>>))>>,
  nomatch |-> <<OptItem, Main(ESeq(print(i(1)), case(ap(v("Some"), <<i(2)>>), <<<<PCtor("None", <<>>), EUnit>>>>)))>>,
  noparam |-> <<OptItem, DefP("f", <<pv("x"), PCtor("Some", <<pv("y")>>)>>, v("y")),
                Main(ESeq(print(i(1)), print(ap(v("f"), <<EUnit, v("None")>>))))>>,
  zero |-> <<Def("d", <<"x">>, op("/", i(1), v("x"))), Main(ESeq(print(ap(v("d"), <<i(1)>>)), print(op("%", i(1), i(0)))))>>,
  failing |-> <<Def("x", <<>>, EIf(op("==", ab, as), i(1), EApp(v("error"), ab))), Main(print(v("x")))>>,
  functions |-> <<Def("same", <<"f", "g">>, op("==", v("f"), v("g"))),
                  Main(EIf(ap(v("same"), <<fn(<<"x">>, v("x")), fn(<<"x">>, v("x"))>>), EUnit, print(i(1))))>>,
  partial |-> <<Def("twice", <<"f", "x">>, ap(v("f"), <<ap(v("f"), <<v("x")>>)>>)),
                Main(let("p", v("print_int"),
                     ESeq(ap(v("p"), <<ap(v("twice"), <<fn(<<"x">>, op("+", v("x"), v("x"))), i(3)>>)>>),
                     let("c", ap(v("Cons"), <<i(1)>>),
                         case(ap(v("c"), <<list(<<i(2)>>)>>), <<<<Cat(pv("a"), Cat(pv("b"), Empty)), ap(v("p"), <<v("b")>>)>>,
                                                              <<pv("_"), EUnit>>>>)))))>>,
  nested |-> <<Def("x", <<>>, op("+", EIf(T, i(1), i(2)), case(op("::", i(3), NilE), <<<<Cat(pv("h"), pv("t")), v("h")>>,
                                                                                     <<Empty, i(0)>>>>))),
               Def("f", <<"a">>, op("==", op("<", v("a"), i(1)), op("&&", op("||", T, F), op("!=", v("a"), i(0))))),
               Def("y", <<>>, tup(<<ap(v("f"), <<i(0)>>), ap(v("f"), <<i(1)>>),
                                    op("::", op("::", i(1), NilE), NilE), list(<<NilE, op("::", T, NilE)>>),
                                    op("++", op("++", as, as), as)>>))>>]

(* Every two operators on numbers, nested both ways.                       *)
IntOps == <<"+", "-", "*", "/", "%">>
Nested == [o \in ToSet(IntOps) |->
    <<Def("r", <<>>, tup([k \in DOMAIN IntOps |->
        tup(<<op(IntOps[k], op(o, i(7), i(-5)), i(3)), op(o, i(7), op(IntOps[k], i(-5), i(3)))>>)]))>>]

(* What a function may do with its parameter through a local name, sound   *)
(* or not.                                                                 *)
Through == <<v("x"), fn(<<"z">>, v("x")), fn(<<"z">>, v("z")), fn(<<"z">>, EIf(T, v("x"), v("z"))),
             fn(<<"z">>, list(<<v("x"), v("z")>>))>>
Uses == <<op("+", v("y"), i(1)), op("&&", v("y"), T), ap(v("y"), <<i(1)>>), ap(v("y"), <<T>>)>>
Triples == {t \in (1..5) \X (1..4) \X (1..4) : t[2] <= t[3]}
Family == [w \in {ToString(t) : t \in Triples} |->
             LET t == CHOOSE u \in Triples : ToString(u) = w
             IN  <<Def("f", <<"x">>, let("y", Through[t[1]], tup(<<Uses[t[2]], Uses[t[3]]>>))),
                   Def("r", <<>>, ap(v("f"), <<i(1)>>))>>]

-----------------------------------------------------------------------------
(* Programs that are refused, for their types or before.                   *)

Bad(e) == <<Def("f", <<"x">>, e), Main(print(i(1)))>>
Used(e, a) == <<Def("f", <<"x">>, e), Def("r", <<>>, ap(v("f"), <<a>>))>>

Refusals == [
  leaked |-> Used(let("y", v("x"), tup(<<op("+", v("y"), i(1)), op("&&", v("y"), T)>>)), i(1)),
  leakedfun |-> Used(let("g", fn(<<"z">>, EIf(T, v("x"), v("z"))), tup(<<op("+", ap(v("g"), <<i(1)>>), i(1)), ap(v("g"), <<T>>)>>)), i(1)),
  selfapplied |-> Bad(ap(v("x"), <<v("x")>>)),
  unbound |-> Bad(v("y")),
  operand |-> Bad(op("+", v("x"), T)),
  condition |-> Bad(EIf(i(1), v("x"), v("x"))),
  branches |-> Bad(case(v("x"), <<<<i(1), i(1)>>, <<pv("y"), T>>>>)),
  mixedpattern |-> Bad(case(v("x"), <<<<i(1), i(1)>>, <<T, i(1)>>>>)),
  ctorarity |-> <<OptItem>> \o Bad(case(v("x"), <<<<PCtor("Some", <<>>), i(1)>>>>)),
  noctor |-> Bad(case(v("x"), <<<<PCtor("Some", <<pv("y")>>), i(1)>>>>)),
  effect |-> Bad(ESeq(i(1), v("x"))),
  wrongtype |-> Bad(EAnn(v("x"), ACon("Opt", <<>>))),
  wrongarity |-> <<OptItem>> \o Bad(EAnn(v("x"), ACon("Opt", <<IntT, IntT>>))),
  contract |-> <<GroupItem(<<FunDef(FALSE, "f", <<pv("x")>>, <<AArrow(IntT, BoolT)>>, v("x"))>>)>>,
  typetwice |-> <<OptItem, OptItem>>,
  builtintype |-> <<TyDecl("Int", <<>>, <<CtorDecl("None", <<>>)>>)>>,
  freefield |-> <<TyDecl("Opt", <<>>, <<CtorDecl("Some", <<AVar("a")>>)>>)>>,
  twice |-> <<GroupItem(<<RecDef("f", <<>>, i(1)), RecDef("f", <<>>, i(2))>>)>>,
  monorec |-> <<Rec("f", <<"x">>, EIf(ap(v("f"), <<T>>), v("x"), ap(v("f"), <<i(1)>>)))>>,
  nextparam |-> <<GroupItem(<<RecDef("f", <<"a">>, i(1)), RecDef("g", <<"b">>, v("a"))>>)>>,
  localtype |-> Bad(letrec("g", fn(<<"y">>, ap(v("g"), <<v("g")>>)), v("g")))]

(* Texts that are no program.                                              *)
sp == " "
Defining(body) == <<"let", sp, "x", sp, "=", sp>> \o body
Scraps == [
  unclosed |-> Defining(<<Quote, "a">>),
  escape |-> Defining(<<Quote, BadEscape, Quote>>),
  strange |-> Defining(<<"1", "#">>),
  toolarge |-> Defining(<<"999999">>),
  chain |-> Defining(<<"1", "<", "2", "<", "3">>),
  open |-> Defining(<<"(", "1">>),
  bracket |-> Defining(<<"[", "1", ",", "]">>),
  empty |-> Defining(<<>>),
  colon |-> <<"let", sp, "x", ":", "[", "Int", ",", "Int", "]", "=", "1">>,
  tyvars |-> <<"let", sp, "x", ":", "a", sp, "b", "=", "1">>,
  noname |-> <<"let", sp, "=", "1">>,
  noin |-> Defining(<<"let", sp, "y", "=", "1">>),
  noof |-> Defining(<<"case", sp, "1">>),
  nothen |-> Defining(<<"if", sp, "true">>),
  noarrow |-> Defining(<<"fun", sp, "x", sp, "1">>),
  andwithoutrec |-> Defining(<<"1", sp, "and", sp, "y", "=", "1">>),
  notype |-> <<"type", sp, "x">>,
  noctors |-> <<"type", sp, "Opt", "=">>,
  loose |-> <<"1">>,
  argument |-> Defining(<<"case", sp, "x", sp, "of", sp, "Some", sp, "-", "1", "->", "1">>)]

-----------------------------------------------------------------------------

MCTrees == Accepted @@ Nested @@ Refusals @@ Family
MCSources == [x \in DOMAIN MCTrees |-> PrintProgram(MCTrees[x])] @@ Scraps

CallWith(args, x, exe, keep, fixed) == [args |-> args, src |-> x, exe |-> exe, keep |-> keep, fixed |-> fixed]
Call(args, x, exe) == CallWith(args, x, exe, FALSE, {})
Usual == <<"in.dc", "-o", "./out", "--run">>
(* Other arguments, and an older program where the new one goes.           *)
OtherCalls ==
    {Call(args, "groups", exe) :
        args \in {<<>>, <<"in.dc">>, <<"in.dc", "-o">>, <<"-o", "./out">>, <<"in.dc", "in.dc", "-o", "./out">>,
                  <<"in.dc", "-o", "./out">>, <<"--run", "-o", "./out", "in.dc">>, <<"in.dc", "-o", "out", "--run">>,
                  <<"in.dc", "-o", "-o", "./out">>},
        exe \in {"none", "old"}}
    \cup {CallWith(<<"in.dc", "-o", "./out">>, "groups", "old", keep, fixed) :
            keep \in BOOLEAN, fixed \in SUBSET {"obj", "rt"}}
MCCalls == {Call(Usual, x, "none") : x \in DOMAIN MCSources} \cup {Call(Usual, "unbound", "old"), Call(Usual, "zero", "old")}
           \cup OtherCalls

MCBuiltins == <<"print_int", "print_string", "string_length", "str_concat", "string_get", "error">>
MCNumbers == [w \in {ToString(n) : n \in (0..8) \cup {200, 300, 60000, 999999}} |->
                CHOOSE n \in (0..8) \cup {200, 300, 60000, 999999} : ToString(n) = w]
MCUppers == {"Int", "Bool", "List", "Opt", "None", "Some", "Tree", "Leaf", "Node", "Cons"}
MCLowers == {"note", "_", "a", "b", "c", "d", "e", "f", "g", "h", "k", "l", "m", "n", "p", "r", "s", "t", "w", "x", "y", "z",
             "acc", "add", "build", "compose", "count", "even", "five", "go", "id", "ins", "loop", "loud", "main", "map",
             "mix", "odd", "other", "same", "sum", "twice", "which"} \cup ToSet(MCBuiltins)

-----------------------------------------------------------------------------
(* A local name that hides a parameter, and the parameter after it.        *)

ScopeTrees == [shadow |-> <<Def("f", <<"x">>, op("+", let("x", op("+", v("x"), i(1)), v("x")), v("x"))),
                            Main(print(ap(v("f"), <<i(1)>>)))>>]
ScopeSources == [x \in DOMAIN ScopeTrees |-> PrintProgram(ScopeTrees[x])]
ScopeCalls == {Call(Usual, x, "none") : x \in DOMAIN ScopeSources}
=============================================================================
