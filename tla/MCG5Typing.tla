---------------------------- MODULE MCG5Typing ----------------------------
(* Programs: those of gen5/test.sh on inference, some of every construct,  *)
(* small families of record functions, contracts and holes, and pairs of   *)
(* record types for the solver.                                            *)
EXTENDS G5TypingProps

IntT == Base("Int")
BoolT == Base("Bool")
Lam(n, e) == ELam(PVar(n), e)
App(f, as) == FoldLeft(EApp, f, as)
Let(n, e) == DefItem(<<Def(FALSE, n, e)>>)
Rec(n, e) == DefItem(<<Def(TRUE, n, e)>>)
One == EInt(1)
Two == EInt(2)
T == EBool(TRUE)
R(e, l) == EProj(e, l)
XY(a, b) == ERec(<<"x", "y">>, <<a, b>>)
YX(a, b) == ERec(<<"y", "x">>, <<b, a>>)
v(n) == EVar(n)
Id == Lam("z", v("z"))
Main(e) == Let("main", ELam(PWild, e))

Plain == <<
  (* pick, pick2, pick2s, occ, proj, with, missing, duplicate *)
  <<Let("pick", Lam("a", Lam("b", ELet(FALSE, "ax", R(v("a"), "x"),
        ELet(FALSE, "by", R(v("b"), "y"), EIf(EBool(FALSE), v("a"), v("b"))))))),
    Let("bad", App(v("pick"), <<XY(One, Two), ERec(<<"y">>, <<One>>)>>))>>,
  <<Let("pick2", Lam("a", Lam("b", ELet(FALSE, "c", EIf(T, v("a"), v("b")),
        EBin("+", R(v("c"), "x"), R(v("c"), "y")))))),
    Main(App(v("pick2"), <<XY(One, Two), YX(One, Two)>>))>>,
  <<Let("f", Lam("r", ELet(FALSE, "s", ERec(<<"x">>, <<v("r")>>), EIf(T, v("r"), v("s")))))>>,
  <<Let("mk", Lam("x", ERec(<<"value">>, <<v("x")>>))), Let("a", R(EApp(v("mk"), One), "value"))>>,
  <<Let("a", ERec(<<"x">>, <<One>>)), Let("b", EWith(v("a"), "x", T))>>,
  <<Let("a", ERec(<<"x">>, <<One>>)), Let("b", EWith(v("a"), "x", Two)), Let("c", R(v("b"), "x"))>>,
  <<Let("f", Lam("r", R(v("r"), "z"))), Let("a", EApp(v("f"), ERec(<<"x">>, <<One>>)))>>,
  <<Let("a", ERec(<<"x", "x">>, <<One, Two>>))>>,
  (* polymorphism of lets, none of lambdas *)
  <<Let("id", Id), Let("a", ETup(<<EApp(v("id"), One), EApp(v("id"), T)>>))>>,
  <<Let("f", Lam("g", ETup(<<EApp(v("g"), One), EApp(v("g"), T)>>)))>>,
  <<Let("f", Lam("y", ELet(FALSE, "k", Lam("z", v("y")), ETup(<<EApp(v("k"), One), EApp(v("k"), T)>>)))),
    Let("a", EApp(v("f"), Two))>>,
  <<Let("f", Lam("y", ELet(FALSE, "k", v("y"), ETup(<<EApp(v("k"), One), EApp(v("k"), T)>>))))>>,
  <<Let("get", Lam("r", R(v("r"), "x"))),
    Let("a", ETup(<<EApp(v("get"), XY(One, T)), EApp(v("get"), ERec(<<"x">>, <<T>>))>>))>>,
  <<Let("f", Lam("r", ELet(FALSE, "k", Lam("z", EIf(T, v("z"), v("r"))), ETup(<<EApp(v("k"), XY(One, T)), R(v("r"), "x")>>)))),
    Let("a", EApp(v("f"), XY(One, T)))>>,
  <<Let("f", Lam("y", EApp(v("y"), v("y"))))>>,
  (* recursion, groups *)
  <<Rec("len", Lam("l", ECase(v("l"), <<<<PCtor("Nil", <<>>), EInt(0)>>,
        <<PCtor("Cons", <<PWild, PVar("t")>>), EBin("+", One, EApp(v("len"), v("t")))>>>>))),
    Let("a", EApp(v("len"), EBin("::", T, EBin("::", T, v("Nil")))))>>,
  <<DefItem(<<Def(TRUE, "even", Lam("n", EIf(EBin("==", v("n"), EInt(0)), T, EApp(v("odd"), EBin("-", v("n"), One))))),
              Def(TRUE, "odd", Lam("n", EIf(EBin("==", v("n"), EInt(0)), EBool(FALSE), EApp(v("even"), EBin("-", v("n"), One)))))>>),
    Main(EApp(v("even"), EInt(3)))>>,
  <<DefItem(<<Def(TRUE, "f", Lam("n", v("n"))), Def(TRUE, "f", Lam("n", v("n")))>>)>>,
  <<DefItem(<<Def(TRUE, "f", Lam("n", v("n"))), Def(FALSE, "g", Id)>>)>>,
  <<Rec("f", Lam("n", EIf(T, v("n"), EApp(v("f"), T))))>>,
  <<Let("a", ELet(TRUE, "go", Lam("n", EIf(EBin(">", v("n"), EInt(0)), EApp(v("go"), EBin("-", v("n"), One)), v("n"))), EApp(v("go"), Two)))>>,
  (* declared types *)
  <<TypeItem("Opt", <<"a">>, <<Ctor("None", <<>>), Ctor("Some", <<TVar("a")>>)>>),
    Let("get", Lam("o", Lam("d", ECase(v("o"), <<<<PCtor("Some", <<PVar("z")>>), v("z")>>, <<PCtor("None", <<>>), v("d")>>>>)))),
    Let("a", App(v("get"), <<EApp(v("Some"), XY(One, T)), XY(Two, T)>>)), Let("b", v("None"))>>,
  <<TypeItem("Opt", <<"a">>, <<Ctor("None", <<>>), Ctor("Some", <<TVar("a")>>)>>),
    Let("f", Lam("o", ECase(v("o"), <<<<PCtor("Some", <<>>), One>>>>)))>>,
  <<TypeItem("P", <<>>, <<Ctor("A", <<>>), Ctor("B", <<IntT>>)>>),
    Let("f", Lam("o", ECase(v("o"), <<<<PCtor("B", <<PVar("n")>>), v("n")>>>>))), Let("a", EApp(v("f"), v("A")))>>,
  <<TypeItem("P", <<>>, <<Ctor("A", <<TVar("b")>>)>>), Let("a", One)>>,
  <<TypeItem("P", <<>>, <<Ctor("A", <<>>)>>), TypeItem("P", <<>>, <<Ctor("B", <<>>)>>)>>,
  <<TypeItem("P", <<>>, <<Ctor("A", <<TCon("P", <<>>)>>), Ctor("Z", <<>>)>>), Let("a", EApp(v("A"), v("Z")))>>,
  <<TypeItem("P", <<"a">>, <<Ctor("A", <<TRec("x" :> TVar("a"), Closed)>>)>>),
    Let("a", ECase(EApp(v("A"), ERec(<<"x">>, <<T>>)), <<<<PCtor("A", <<PVar("r")>>), R(v("r"), "x")>>>>))>>,
  (* the rest of the expressions *)
  <<Let("a", EAnn(XY(One, T), TRec("x" :> IntT, Open("r")))), Let("b", R(v("a"), "y"))>>,
  <<Let("f", EAnn(Id, Arrow(IntT, IntT))), Let("b", EApp(v("f"), T))>>,
  <<Let("f", Lam("w", EAnn(v("w"), TCon("List", <<IntT, IntT>>))))>>,
  <<Let("f", ELam(PTup(<<PVar("p"), PBool(TRUE)>>), v("p"))), Let("a", EApp(v("f"), ETup(<<Two, T>>)))>>,
  <<Let("f", ELam(PTup(<<PVar("p"), PBool(TRUE)>>), v("p"))), Let("a", EApp(v("f"), ETup(<<Two, EBool(FALSE)>>)))>>,
  <<Let("a", ELet(FALSE, "_", EUnit, EBin("&&", EBin("<", One, Two), EBin("||", T, EBin("!=", Id, Id)))))>>,
  <<Let("a", ELet(FALSE, "_", One, Two))>>,
  <<Let("a", EBin("*", One, T))>>, <<Let("a", EBin("::", One, T))>>, <<Let("a", EIf(One, One, One))>>,
  <<Let("a", EBin("==", XY(One, T), YX(One, T)))>>, <<Let("a", EBin("==", XY(One, T), One))>>,
  <<Let("a", EBin("==", Id, Id))>>, <<Let("a", v("b"))>>, <<Let("a", EApp(One, One))>>,
  <<Let("x", One), Let("x", T), Let("y", EIf(v("x"), One, Two))>>,
  <<Let("s", EStr(<<"a">>)), Let("b", EBin("&&", EBin("<=", One, Two), EBin(">=", One, Two))),
    Let("c", EIf(v("b"), v("s"), EBin("++", v("s"), v("s")))), Let("m", EBin("%", EBin("-", One, EInt(5)), Two))>>,
  <<Let("a", EBin("++", One, Two))>>, <<Let("a", EBin("+", One, EBin("<=", One, Two)))>>, <<Let("a", EBin(">=", T, T))>>,
  (* a name twice in a pattern: the checker takes the first, the last counts *)
  <<Let("f", ELam(PTup(<<PVar("p"), PVar("p")>>), EBin("+", v("p"), One))), Let("a", EApp(v("f"), ETup(<<One, Two>>)))>>,
  <<Let("f", ELam(PTup(<<PVar("p"), PVar("p")>>), EBin("+", v("p"), One))), Let("a", EApp(v("f"), ETup(<<T, Two>>)))>>,
  (* a constructor in a group: nothing after it is evaluated *)
  <<TypeItem("Opt", <<"a">>, <<Ctor("None", <<>>), Ctor("Some", <<TVar("a")>>)>>),
    DefItem(<<Def(TRUE, "f", Id), Def(TRUE, "g", v("Some")), Def(TRUE, "h", EBin("/", One, EInt(0)))>>)>>
>>

-----------------------------------------------------------------------------
(* Families.                                                               *)

(* All sequences that take one member of each.                             *)
Pair(as, bs, Op(_, _)) ==
    [k \in 1 .. Len(as) * Len(bs) |-> Op(as[1 + (k - 1) \div Len(bs)], bs[1 + ((k - 1) % Len(bs))])]

r == v("r")
Bodies == <<
  r, R(r, "x"), EWith(r, "x", One), EWith(r, "x", R(r, "y")), ETup(<<R(r, "x"), R(r, "y")>>),
  EBin("+", R(r, "x"), One), EIf(R(r, "y"), r, r), EIf(T, r, XY(One, T)), EIf(T, XY(One, T), r),
  EIf(T, EWith(r, "x", Two), r), ELet(FALSE, "q", r, EIf(T, v("q"), XY(Two, T))), EBin("==", r, r),
  ERec(<<"x">>, <<r>>), R(R(r, "x"), "y"), EIf(EBin("==", R(r, "x"), R(r, "y")), r, EWith(r, "y", R(r, "x"))),
  ELet(FALSE, "g", Lam("s", EIf(T, v("s"), r)), R(EApp(v("g"), XY(One, T)), "x")),
  ELet(FALSE, "g", Lam("s", R(v("s"), "x")), ETup(<<EApp(v("g"), r), EApp(v("g"), XY(T, T))>>)) >>
Args == << ERec(<<"x">>, <<One>>), XY(One, T), YX(Two, T), XY(Two, Two), XY(XY(One, T), T), One >>

Calls == Pair(Bodies, Args, LAMBDA b, a : <<Let("f", Lam("r", b)), Let("a", EApp(v("f"), a))>>)

A == TVar("a")
B == TVar("b")
Xs(t, tl) == TRec("x" :> t, tl)
XYs(t, u, tl) == TRec("x" :> t @@ "y" :> u, tl)
Row == Open("r")
Fun1(t, u) == [forall |-> {"a", "b", "r"}, ty |-> Arrow(t, u)]
Sigs == <<
  Fun1(A, A), Fun1(A, B), Fun1(A, IntT), Fun1(Xs(IntT, Closed), IntT), Fun1(Xs(A, Row), A), Fun1(Xs(A, Row), B),
  Fun1(Xs(IntT, Row), Xs(IntT, Row)), Fun1(Xs(IntT, Row), Xs(IntT, Closed)), Fun1(XYs(A, B, Row), TCon(",", <<A, B>>)),
  Fun1(XYs(A, A, Row), XYs(A, A, Row)), Fun1(XYs(A, BoolT, Row), XYs(A, BoolT, Row)),
  Fun1(XYs(IntT, BoolT, Closed), XYs(IntT, BoolT, Closed)), Fun1(Xs(Xs(A, Row), Closed), A),
  Fun1(A, Xs(A, Closed)), [forall |-> {}, ty |-> Arrow(A, A)], Fun1(TCon("Gone", <<>>), A) >>

Contracts ==
    Pair(Bodies, Sigs, LAMBDA b, s : <<SigItem("f", s.forall, s.ty), Let("f", Lam("r", b)), Let("a", v("f"))>>)
        \o << <<Let("a", One), SigItem("b", {}, IntT)>>,
              <<SigItem("f", {"a"}, Arrow(A, A)), SigItem("g", {}, BoolT), Let("f", Id), Let("g", EApp(v("f"), T))>> >>

(* Holes, below names of several types, two of them hidden by others.      *)
Contexts == <<
  EAnn(EHole, IntT), EBin("+", EHole, One), R(EHole, "x"), EIf(EHole, One, Two), EApp(EHole, One),
  EApp(EHole, XY(One, T)), ELet(FALSE, "good", T, EIf(EHole, v("good"), v("good"))),
  App(Lam("w", EIf(T, v("w"), EHole)), <<XY(One, T)>>), EBin("::", One, EHole), EWith(EHole, "x", Two),
  ECase(EHole, <<<<PCtor("Cons", <<PVar("h"), PVar("t")>>), v("h")>>, <<PWild, One>>>>),
  ELet(TRUE, "k", Lam("n", EIf(T, EBin("+", v("n"), One), EHole)), EApp(v("k"), Two)),
  ETup(<<EHole, EApp(v("inc"), One)>>), EApp(v("inc"), EApp(v("id"), EHole)), EBin("==", EHole, v("rec")) >>
Below == <<Let("good", One), Let("wrong", T), Let("rec", XY(One, T)), Let("id", Id),
           Let("inc", Lam("n", EBin("+", v("n"), One))), Let("get", Lam("r", R(v("r"), "x")))>>
Holes == Pair(Contexts, <<FALSE, TRUE>>,
              LAMBDA c, hidden : Below \o (IF hidden THEN <<Let("good", T), Let("inc", Id)>> ELSE <<>>)
                                       \o <<Let("a", c)>>)

(* Pairs of records, with another equation tried and a third one solved    *)
(* after.  A row stands beside the same labels wherever it occurs.         *)
Tails == <<Closed, Open(1), Open(2), Open(-1)>>
Fields == << <<>>, "x" :> IntT, "x" :> BoolT, "y" :> TVar(1), "x" :> TVar(2) @@ "y" :> TVar(1), "x" :> Xs(IntT, Open(2)),
             "x" :> IntT @@ "y" :> BoolT >>
Pool == Pair(Fields, Tails, LAMBDA f, tl : TRec(f, tl))
Coherent(a, b) == \A p, q \in Records(a) \cup Records(b) :
                     p.tail = q.tail /\ p.tail # Closed => DOMAIN p.fields = DOMAIN q.fields
Couples == SelectSeq(Pair(Pool, Pool, LAMBDA a, b : <<a, b>>), LAMBDA c : Coherent(c[1], c[2]))
After == Equation(TRec("x" :> IntT @@ "y" :> IntT, Closed), TRec("x" :> TVar(2) @@ "y" :> TVar(1), Closed))
Probes == LET cs == Couples
          IN  [i \in DOMAIN cs |-> <<Equation(cs[i][1], cs[i][2]), Attempt(cs[i][1], cs[Len(cs) + 1 - i][2]), After>>]

MCSomeTypes == {IntT, BoolT, Xs(IntT, Closed)}
MCSomeRows == {<<>>, "x" :> IntT, "y" :> BoolT, "x" :> IntT @@ "y" :> BoolT, "y" :> IntT}
MCPrograms == Plain \o Calls \o Contracts \o Holes \o Probes

(* A row below a constructor is forgotten.                                 *)
MCCtorRows == <<
  <<TypeItem("C", <<>>, <<Ctor("C", <<Xs(IntT, Row)>>)>>),
    Let("get", Lam("c", ECase(v("c"), <<<<PCtor("C", <<PVar("r")>>), R(v("r"), "y")>>>>))),
    Let("a", EApp(v("get"), EApp(v("C"), ERec(<<"x">>, <<One>>))))>>,
  <<TypeItem("C", <<>>, <<Ctor("C", <<Xs(IntT, Closed)>>)>>),
    Let("get", Lam("c", ECase(v("c"), <<<<PCtor("C", <<PVar("r")>>), R(v("r"), "x")>>>>))),
    Let("a", EApp(v("get"), EApp(v("C"), ERec(<<"x">>, <<One>>))))>> >>
=============================================================================
