------------------------------ MODULE MCG5Run ------------------------------
(***************************************************************************)
(* Programs for G5Run: those of gen5/probe_own.dc and others with closures *)
(* that escape, nested matches, blocks and mutual recursion; and all small *)
(* expressions over two parameters.                                        *)
(***************************************************************************)
EXTENDS G5Run

MCFunNames == {"f", "g", "go"}
MCPairNames == {"p", "_p"}

V(x) == EVar(x)
Nil == ECtor("Nil")
Tail2(l, r) == EApp(EApp(ECtor("Cons"), l), r)
App2(f, a, b) == EApp(EApp(f, a), b)
App3(f, a, b, c) == EApp(App2(f, a, b), c)
Def(ps, body) == [ps |-> [i \in DOMAIN ps |-> PVar(ps[i])], body |-> body]
PNil == PCtor("Nil", <<>>)
PCons(h, t) == PCtor("Cons", <<PVar(h), PVar(t)>>)
List(e, none, h, t, some) == ECase(e, <<Br(PNil, none), Br(PCons(h, t), some)>>)

(* probe_own.dc, A to D.                                                   *)
ProbeA == [id |-> Def(<<"x">>, V("x")),
           len |-> Def(<<"xs">>, ECase(V("xs"), <<Br(PNil, EInt),
                      Br(PCtor("Cons", <<PWild, PVar("t")>>), EBin("+", EInt, EApp(V("len"), V("t"))))>>)),
           map |-> Def(<<"f", "xs">>, List(V("xs"), Nil, "h", "t",
                      Tail2(EApp(V("f"), V("h")), App2(V("map"), V("f"), V("t"))))),
           pair |-> Def(<<"x", "y">>, ETup(<<V("x"), V("y")>>))]
ProbeB == [mk |-> Def(<<"n">>, ELet(FALSE, "g", ELam(PVar("x"), EBin("+", V("x"), V("n"))),
                                    ETup(<<V("g"), V("n")>>))),
           sum |-> Def(<<"n">>, ELet(TRUE, "go",
                      ELam(PVar("i"), EIf(EBin("==", V("i"), EInt), V("n"),
                                          EApp(V("go"), EBin("-", V("i"), EInt)))),
                      EApp(V("go"), EInt)))]
ProbeC == [both |-> Def(<<"a", "b">>, EBin("&&", V("a"), EBin(">", V("b"), EInt))),
           id |-> Def(<<"x">>, V("x")),
           add |-> Def(<<"a", "b">>, EBin("+", V("a"), V("b"))),
           use |-> Def(<<"x">>, ETup(<<App2(V("add"), EInt, EInt), EApp(V("add"), EInt)>>)),
           over |-> Def(<<"x">>, App3(V("id"), V("add"), EInt, EInt))]
PPair(a, b) == PTup(<<PVar(a), PVar(b)>>)
ProbeD == [fst2 |-> [ps |-> <<PPair("a", "b")>>, body |-> V("a")],
           swap |-> Def(<<"p">>, ECase(V("p"), <<Br(PPair("a", "b"), ETup(<<V("b"), V("a")>>))>>)),
           keep |-> Def(<<"xs">>, List(V("xs"), V("xs"), "h", "t",
                                       EIf(EBin("==", V("h"), EInt), V("xs"), V("t"))))]

(* What oracle/probe_own.expected prints for probe_own.dc: all signatures   *)
(* and the body of swap.  The modes and the placement of dups, drops and   *)
(* reuse are those of the real pass.                                       *)
ProbeSigs ==
  {[id |-> <<TRUE>>, len |-> <<FALSE>>, map |-> <<FALSE, TRUE>>, pair |-> <<TRUE, TRUE>>],
   [mk |-> <<TRUE>>, sum |-> <<TRUE>>],
   [both |-> <<FALSE, FALSE>>, id |-> <<TRUE>>, add |-> <<FALSE, FALSE>>, use |-> <<FALSE>>, over |-> <<FALSE>>],
   [fst2 |-> <<FALSE>>, swap |-> <<TRUE>>, keep |-> <<TRUE>>]}
SwapBody ==
  LET p == <<"p", 1>> a == <<"a", 2>> b == <<"b", 3>> r == <<"%r", 1>> t == <<"%", 4>> IN
  Case(Var(p), <<Br(PPair(a, b),
      ODup(a, ODup(b, DropReuse(p, r,
        Let(FALSE, t, Alloc("tup", "tup", <<Var(b), Var(a)>>, r), Ret(Var(t)))))))>>)
ProbesAsPrinted ==
  phase = "compiled" =>
    /\ \A printed \in ProbeSigs : DOMAIN printed = DOMAIN prog => sigs = printed
    /\ "swap" \in DOMAIN prog => Program(prog, sigs).swap.body = SwapBody

(* The modes that are inferred are the least consistent ones, and those of *)
(* the golden file.                                                        *)
ModesRight == SigsLeast /\ ProbesAsPrinted

(* Append, reversal, a nested match that rebuilds, a block that holds the  *)
(* last use, a closure returned with what it captured, both uses of a      *)
(* variable in one call, a global, three parameters (no direct entry when  *)
(* MaxDirect is 2), and mutual recursion through which modes travel.       *)
Lists == [app |-> Def(<<"xs", "ys">>, List(V("xs"), V("ys"), "h", "t",
                                           Tail2(V("h"), App2(V("app"), V("t"), V("ys"))))),
          rev |-> Def(<<"xs", "acc">>, List(V("xs"), V("acc"), "h", "t",
                                            App2(V("rev"), V("t"), Tail2(V("h"), V("acc"))))),
          two |-> Def(<<"xs">>, ECase(V("xs"), <<
                    Br(PCtor("Cons", <<PCons("a", "b"), PVar("t")>>), Tail2(V("b"), Tail2(V("a"), V("t")))),
                    Br(PWild, V("xs"))>>))]
Blocks == [pick |-> Def(<<"x", "y">>, ELet(FALSE, "z", List(V("x"), V("y"), "h", "t", V("t")),
                                           Tail2(V("z"), V("z")))),
           last |-> Def(<<"x", "y">>, ELet(FALSE, "z", EIf(EBin("==", V("x"), V("y")), V("x"), Nil),
                                           Tail2(V("z"), V("y")))),
           seq |-> Def(<<"x">>, ELet(FALSE, "_", EApp(V("show"), V("x")), EInt)),
           apply |-> Def(<<"f", "x">>, EApp(V("f"), Tail2(V("x"), V("x")))),
           self |-> Def(<<"f">>, EApp(V("f"), V("f"))),
           alias |-> Def(<<"x">>, ELet(FALSE, "z", V("x"), List(V("z"), V("z"), "h", "t", V("x")))),
           shadow |-> Def(<<"x">>, ELet(FALSE, "x", Tail2(V("x"), V("x")), Tail2(V("x"), Nil))),
           lit |-> Def(<<"x">>, ECase(EInt, <<Br(PWild, V("x"))>>))]
Sizes == [unpair |-> Def(<<"p">>, ECase(V("p"), <<Br(PPair("a", "b"), Tail2(V("a"), V("b")))>>)),
          triple |-> Def(<<"xs">>, List(V("xs"), ETup(<<Nil, Nil, Nil>>), "h", "t", ETup(<<V("t"), V("h"), V("t")>>))),
          box |-> Def(<<"p">>, ECase(V("p"), <<Br(PPair("a", "b"), EApp(ECtor("Box"), V("b")))>>))]
Closures == [k |-> Def(<<"x">>, ELam(PVar("y"), Tail2(V("x"), V("y")))),
             nest |-> Def(<<"x">>, ELam(PVar("y"), ELam(PVar("z"), Tail2(V("x"), Tail2(V("y"), V("z")))))),
             loop |-> Def(<<"n", "xs">>, ELet(TRUE, "go",
                        ELam(PVar("a"), List(V("a"), V("xs"), "h", "t",
                          ELet(FALSE, "g", ELam(PVar("b"), EApp(V("go"), V("t"))), EApp(V("g"), V("h"))))),
                        EApp(V("go"), V("n")))),
             swapf |-> Def(<<"x">>, ELam(PPair("a", "b"), ETup(<<V("b"), V("x"), V("a")>>)))]
Mutual == [one |-> Def(<<"x", "y">>, List(V("x"), Nil, "h", "t", App2(V("other"), V("y"), V("t")))),
           other |-> Def(<<"x", "y">>, List(V("y"), App2(V("third"), V("x"), V("x")), "h", "t",
                                            App2(V("one"), V("x"), V("t")))),
           third |-> Def(<<"x", "y">>, List(V("x"), V("y"), "h", "t", V("h")))]
Globals == [empty |-> Def(<<>>, Tail2(Nil, Nil)),
            user |-> Def(<<"x", "y", "z">>, List(V("x"), Tail2(V("empty"), V("y")), "h", "t",
                       Tail2(App3(V("user"), V("t"), V("z"), V("empty")), V("z")))),
            part |-> Def(<<"x">>, ETup(<<EApp(V("keep"), V("x")), V("x"), V("keep")>>)),
            keep |-> Def(<<"x", "y">>, V("empty"))]

Corpus == {ProbeA, ProbeB, ProbeC, ProbeD, Lists, Blocks, Closures, Sizes, Mutual, Globals}

(* Small expressions over the lists D: constructor, call of mix (owned,    *)
(* borrowed), conditional, match, and a let of each of these or an atom.   *)
Atoms(D) == {V(d) : d \in D} \cup {Nil}
Mix(l, r) == App2(V("mix"), l, r)
Cond(l, r) == EIf(EBin("==", V("x"), V("y")), l, r)
Flat(D) == {Tail2(l, r) : l, r \in Atoms(D)} \cup {Mix(l, r) : l, r \in Atoms(D)}
Match(d, e, s) == List(V(d), e, "h", "t", s)
Matches1(d, D) == {Match(d, e, s) : e \in {V(x) : x \in D}, s \in Atoms({d, "h", "t"}) \cup Flat({d, "h", "t"})}
Conds == {Cond(l, r) : l \in Flat({"x", "y"}), r \in {V("x"), Nil}}
Lets == {ELet(FALSE, "z", e, s) : e \in Matches1("x", {"x", "y"}) \cup Flat({"x", "y"}) \cup Atoms({"x"}),
           s \in {Mix(V("x"), V("z")), Mix(V("z"), V("z")), Tail2(V("z"), V("x"))}}
Small == {[main |-> Def(<<"x", "y">>, e),
           mix |-> Def(<<"a", "b">>, List(V("b"), V("a"), "h", "t", V("a")))] :
             e \in Flat({"x", "y"}) \cup Matches1("x", {"x", "y"}) \cup Conds \cup Lets}
MCPrograms == Corpus \cup Small
OnlyMix == {"mix"}
=============================================================================
