------------------------------- MODULE G5Anf -------------------------------
(***************************************************************************)
(* The ownership IR of gen5/g5_oir.dc and the conversion of a typed source *)
(* expression to it (gen5/g5_own.dc, "ANF conversion").  Evaluation order  *)
(* becomes the order of the bindings, names are resolved and every binder  *)
(* gets a name of its own.                                                 *)
(*                                                                         *)
(* A name of the IR is <<base, number>>.  Literals of every type are one   *)
(* atom, they are never counted.  Type annotations are stripped by every   *)
(* function of the code and do not appear.                                 *)
(***************************************************************************)
EXTENDS Naturals, Sequences, FiniteSets, TLC
LOCAL INSTANCE SequencesExt

CONSTANT MaxDirect  \* g5o_max_direct

NoName == <<"", 0>>

(* Atoms.                                                                  *)
Var(x) == [k |-> "var", x |-> x]
Glob(n) == [k |-> "glob", x |-> <<n, 0>>]
Lit == [k |-> "lit", x |-> NoName]
Null == [k |-> "null", x |-> NoName]
IsVar(a) == a.k = "var"
VarsOf(as) == {as[i].x : i \in {j \in DOMAIN as : IsVar(as[j])}}
Vars(xs) == [i \in DOMAIN xs |-> Var(xs[i])]

(* Primitives; "as" are the atoms in order, for a lambda its captures.     *)
Prim(op, as) == [op |-> op, as |-> as]
Call(f, as) == [op |-> "call", f |-> f, as |-> as]
Alloc(op, c, as, tok) == [op |-> op, c |-> c, as |-> as, tok |-> tok]
Lam(x, body, as) == [op |-> "lam", x |-> x, body |-> body, as |-> as]
Block(body) == [op |-> "block", body |-> body, as |-> <<>>]
IsAlloc(p) == p.op \in {"ctor", "tup"}

(* Expressions.                                                            *)
Ret(a) == [op |-> "ret", a |-> a]
Let(rec, x, p, e) == [op |-> "let", rec |-> rec, x |-> x, p |-> p, e |-> e]
If(a, t, f) == [op |-> "if", a |-> a, t |-> t, f |-> f]
Case(a, brs) == [op |-> "case", a |-> a, brs |-> brs]
ODup(x, e) == [op |-> "dup", x |-> x, e |-> e]
ODrop(x, e) == [op |-> "drop", x |-> x, e |-> e]
DropReuse(x, tok, e) == [op |-> "dropreuse", x |-> x, tok |-> tok, e |-> e]
IsRc(e) == e.op \in {"dup", "drop", "dropreuse"}

(* Patterns; the nullary constructor is "ctor" without sub-patterns.       *)
PVar(x) == [pk |-> "var", x |-> x]
PWild == [pk |-> "wild"]
PCtor(c, ps) == [pk |-> "ctor", c |-> c, ps |-> ps]
PTup(ps) == [pk |-> "tup", c |-> "tup", ps |-> ps]
HasParts(p) == p.pk \in {"ctor", "tup"}

RECURSIVE PVars(_)
PVars(p) == IF p.pk = "var" THEN {p.x}
            ELSE IF HasParts(p) THEN UNION {PVars(p.ps[i]) : i \in DOMAIN p.ps}
            ELSE {}

(* g5o_fv.                                                                 *)
RECURSIVE Fv(_)
FvPrim(p) == VarsOf(p.as)
             \cup (IF IsAlloc(p) THEN {p.tok} \ {NoName} ELSE {})
             \cup (IF p.op = "block" THEN Fv(p.body) ELSE {})
Fv(e) ==
  CASE e.op = "ret" -> VarsOf(<<e.a>>)
    [] e.op = "let" -> (Fv(e.e) \ {e.x})
                       \cup (FvPrim(e.p) \ (IF e.rec THEN {e.x} ELSE {}))
    [] e.op = "if" -> VarsOf(<<e.a>>) \cup Fv(e.t) \cup Fv(e.f)
    [] e.op = "case" -> VarsOf(<<e.a>>)
         \cup UNION {Fv(e.brs[i].e) \ PVars(e.brs[i].p) : i \in DOMAIN e.brs}
    [] e.op = "dropreuse" -> {e.x} \cup (Fv(e.e) \ {e.tok})
    [] OTHER -> {e.x} \cup Fv(e.e)

-----------------------------------------------------------------------------
(* Source expressions (Expr of dcc.dc).                                    *)
EInt == [ex |-> "int"]
EVar(n) == [ex |-> "var", n |-> n]
ECtor(c) == [ex |-> "ctor", c |-> c]
EApp(f, a) == [ex |-> "app", f |-> f, a |-> a]
EIf(c, t, f) == [ex |-> "if", c |-> c, t |-> t, f |-> f]
ECase(s, brs) == [ex |-> "case", s |-> s, brs |-> brs]
Br(p, e) == [p |-> p, e |-> e]
ELet(rec, x, rhs, body) ==
  [ex |-> "let", rec |-> rec, x |-> x, rhs |-> rhs, body |-> body]
ELam(p, body) == [ex |-> "lam", p |-> p, body |-> body]
ETup(es) == [ex |-> "tup", es |-> es]
EBin(op, l, r) == [ex |-> "bin", op |-> op, l |-> l, r |-> r]

ShortCircuit(e) == e.ex = "bin" /\ e.op \in {"&&", "||"}

(* The constructor and builtin tables.                                     *)
CtorArity == [Nil |-> 0, Cons |-> 2, Box |-> 1]
BiArity == [show |-> 1, str_concat |-> 2]

-----------------------------------------------------------------------------
(* A wrapper "OExpr -> OExpr" of the code is the sequence of bindings and  *)
(* matches it puts around its argument, outermost first.                   *)
LetFrame(rec, x, p) == [bind |-> TRUE, rec |-> rec, x |-> x, p |-> p]
MatchFrame(x, p) == [bind |-> FALSE, x |-> x, p |-> p]

RECURSIVE Wrap(_, _)
Wrap(w, e) ==
  IF w = <<>> THEN e
  ELSE LET f == Head(w) r == Wrap(Tail(w), e)
       IN IF f.bind THEN Let(f.rec, f.x, f.p, r) ELSE Case(Var(f.x), <<Br(f.p, r)>>)

Bind(x, p) == <<LetFrame(FALSE, x, p)>>

(* g5o_ren_pat: the renamed pattern, the scope and the next number.        *)
RECURSIVE RenPat(_, _, _), RenPats(_, _, _)
RenPat(p, sc, n) ==
  CASE p.pk = "var" -> [p |-> PVar(<<p.x, n>>), sc |-> p.x :> <<p.x, n>> @@ sc, n |-> n + 1]
    [] HasParts(p) -> LET r == RenPats(p.ps, sc, n)
                      IN [p |-> [p EXCEPT !.ps = r.ps], sc |-> r.sc, n |-> r.n]
    [] OTHER -> [p |-> p, sc |-> sc, n |-> n]
RenPats(ps, sc, n) ==
  IF ps = <<>> THEN [ps |-> <<>>, sc |-> sc, n |-> n]
  ELSE LET h == RenPat(Head(ps), sc, n)
           t == RenPats(Tail(ps), h.sc, h.n)
       IN [ps |-> <<h.p>> \o t.ps, sc |-> t.sc, n |-> t.n]

(* g5o_cv_param: any other pattern is matched by a case of one branch.     *)
CvParam(sc, n, p) ==
  CASE p.pk = "var" -> [x |-> <<p.x, n>>, w |-> <<>>, sc |-> p.x :> <<p.x, n>> @@ sc, n |-> n + 1]
    [] p.pk = "wild" -> [x |-> <<"_", n>>, w |-> <<>>, sc |-> sc, n |-> n + 1]
    [] OTHER -> LET r == RenPat(p, sc, n + 1)
                IN [x |-> <<"_p", n>>, w |-> <<MatchFrame(<<"_p", n>>, r.p)>>,
                    sc |-> r.sc, n |-> r.n]

RECURSIVE CvParams(_, _, _)
CvParams(ps, sc, n) ==
  IF ps = <<>> THEN [xs |-> <<>>, w |-> <<>>, sc |-> sc, n |-> n]
  ELSE LET h == CvParam(sc, n, Head(ps))
           t == CvParams(Tail(ps), h.sc, h.n)
       IN [xs |-> <<h.x>> \o t.xs, w |-> h.w \o t.w, sc |-> t.sc, n |-> t.n]

(* g5o_resolve.                                                            *)
Resolve(sc, name) == IF name \in DOMAIN sc THEN Var(sc[name]) ELSE Glob(name)

RECURSIVE Spine(_, _)
Spine(e, args) == IF e.ex = "app" THEN Spine(e.f, <<e.a>> \o args)
                  ELSE [hd |-> e, args |-> args]

Take(s, k) == SubSeq(s, 1, k)
DropN(s, k) == SubSeq(s, k + 1, Len(s))

(* The conversion: g is the table of the top-level functions' parameter    *)
(* counts, sc the scope, n the next number.  The functions of the code     *)
(* call each other; here they call Cv, which continues with one of them.   *)
RECURSIVE Cv(_, _, _, _, _)
CvTail(g, sc, n, e) == Cv("tail", g, sc, n, e)
CvNamed(g, sc, n, x, e) == Cv("named", g, sc, n, <<x, e>>)
CvAtom(g, sc, n, e) == Cv("atom", g, sc, n, e)
CvAtoms(g, sc, n, es) == Cv("atoms", g, sc, n, es)
CvBranches(g, sc, n, brs) == Cv("branches", g, sc, n, brs)
CvGeneric(g, sc, n, x, fa, args) == Cv("generic", g, sc, n, <<x, fa, args>>)

(* g5o_cv_lam: the captures are the free variables of the body.            *)
CvLam(g, sc, n, p, body) ==
  LET v == CvParam(sc, n, p)
      b == CvTail(g, v.sc, v.n, body)
      e == Wrap(v.w, b.e)
  IN [p |-> Lam(v.x, e, Vars(SetToSeq(Fv(e) \ {v.x}))), n |-> b.n]

(* g5o_cv_let: only "let rec" of a lambda sees itself.                     *)
CvLet(g, sc, n, e) ==
  LET x == <<e.x, n>>
      inner == e.x :> x @@ sc
  IN IF e.rec /\ e.rhs.ex = "lam"
     THEN LET l == CvLam(g, inner, n + 1, e.rhs.p, e.rhs.body)
          IN [w |-> <<LetFrame(TRUE, x, l.p)>>, sc |-> inner, n |-> l.n]
     ELSE LET r == CvNamed(g, sc, n + 1, x, e.rhs)
          IN [w |-> r.w, sc |-> inner, n |-> r.n]

(* g5o_cv_scrut: a literal gets a variable.                                *)
CvScrut(g, sc, n, e) ==
  LET s == CvAtom(g, sc, n, e)
      t == <<"%", s.n>>
  IN IF s.a.k # "lit" THEN s
     ELSE [w |-> s.w \o Bind(t, Prim("atom", <<s.a>>)), a |-> Var(t), n |-> s.n + 1]

(* g5o_cv_rest: a saturated primitive, then the extra arguments one by one *)
CvRest(g, sc, n, x, w, p, rest) ==
  IF rest = <<>> THEN [w |-> w \o Bind(x, p), n |-> n]
  ELSE LET t == <<"%", n>>
           r == CvGeneric(g, sc, n + 1, x, Var(t), rest)
       IN [w |-> w \o Bind(t, p) \o r.w, n |-> r.n]

(* g5o_cv_app: a call of a top-level function, builtin or constructor that *)
(* has all its arguments is direct, everything else goes through closures. *)
CvApp(g, sc, n, x, e) ==
  LET s == Spine(e, <<>>)
      hd == s.hd
      Args(k) == CvAtoms(g, sc, n, Take(s.args, k))
      Direct(k, p) == CvRest(g, sc, Args(k).n, x, Args(k).w, p, DropN(s.args, k))
      known == hd.ex = "var" /\ hd.n \notin DOMAIN sc
      k == IF known /\ hd.n \in DOMAIN g THEN g[hd.n]
           ELSE IF known /\ hd.n \in DOMAIN BiArity THEN BiArity[hd.n]
           ELSE IF hd.ex = "ctor" THEN CtorArity[hd.c] ELSE 0
      full == k >= 1 /\ Len(s.args) >= k
      h == CvAtom(g, sc, n, hd)
      r == CvGeneric(g, sc, h.n, x, h.a, s.args)
  IN CASE full /\ hd.ex = "ctor" -> Direct(k, Alloc("ctor", hd.c, Args(k).as, NoName))
       [] full /\ known /\ hd.n \in DOMAIN g /\ k <= MaxDirect -> Direct(k, Call(hd.n, Args(k).as))
       [] full /\ known /\ hd.n \notin DOMAIN g -> Direct(k, Prim("bi", Args(k).as))
       [] OTHER -> [w |-> h.w \o r.w, n |-> r.n]

(* g5o_cv_generic: the function atom, then each argument in turn. *)
GenericOf(g, sc, n, x, fa, args) ==
  IF args = <<>> THEN [w |-> Bind(x, Prim("atom", <<fa>>)), n |-> n]
  ELSE LET a == CvAtom(g, sc, n, Head(args))
           p == Prim("app", <<fa, a.a>>)
       IN CvRest(g, sc, a.n, x, a.w, p, Tail(args))

(* g5o_cv_atoms: arguments left to right. *)
AtomsOf(g, sc, n, es) ==
  IF es = <<>> THEN [w |-> <<>>, as |-> <<>>, n |-> n]
  ELSE LET h == CvAtom(g, sc, n, Head(es))
           t == CvAtoms(g, sc, h.n, Tail(es))
       IN [w |-> h.w \o t.w, as |-> <<h.a>> \o t.as, n |-> t.n]

BranchesOf(g, sc, n, brs) ==
  IF brs = <<>> THEN [brs |-> <<>>, n |-> n]
  ELSE LET p == RenPat(Head(brs).p, sc, n)
           b == CvTail(g, p.sc, p.n, Head(brs).e)
           t == CvBranches(g, sc, b.n, Tail(brs))
       IN [brs |-> <<Br(p.p, b.e)>> \o t.brs, n |-> t.n]

(* g5o_cv_atom: a non-tail position. *)
AtomOf(g, sc, n, e) ==
  CASE e.ex = "int" -> [w |-> <<>>, a |-> Lit, n |-> n]
    [] e.ex = "var" -> [w |-> <<>>, a |-> Resolve(sc, e.n), n |-> n]
    [] e.ex = "ctor" -> [w |-> <<>>, n |-> n,
                         a |-> IF CtorArity[e.c] = 0 THEN Null ELSE Glob(e.c)]
    [] OTHER -> LET t == <<"%", n>>
                    r == CvNamed(g, sc, n + 1, t, e)
                IN [w |-> r.w, a |-> Var(t), n |-> r.n]

(* g5o_cv_named: x is bound to e; a let is flattened. *)
NamedOf(g, sc, n, x, e) ==
  CASE e.ex = "app" -> CvApp(g, sc, n, x, e)
    [] e.ex \in {"if", "case"} \/ ShortCircuit(e) ->
         LET b == CvTail(g, sc, n, e) IN [w |-> Bind(x, Block(b.e)), n |-> b.n]
    [] e.ex = "bin" /\ ~ShortCircuit(e) ->
         LET s == CvAtoms(g, sc, n, <<e.l, e.r>>)
         IN [w |-> s.w \o Bind(x, Prim("bin", s.as)), n |-> s.n]
    [] e.ex = "let" -> LET l == CvLet(g, sc, n, e)
                           b == CvNamed(g, l.sc, l.n, x, e.body)
                       IN [w |-> l.w \o b.w, n |-> b.n]
    [] e.ex = "lam" -> LET l == CvLam(g, sc, n, e.p, e.body)
                       IN [w |-> Bind(x, l.p), n |-> l.n]
    [] e.ex = "tup" -> LET s == CvAtoms(g, sc, n, e.es)
                       IN [w |-> s.w \o Bind(x, Alloc("tup", "tup", s.as, NoName)), n |-> s.n]
    [] OTHER -> LET a == CvAtom(g, sc, n, e)
                IN [w |-> a.w \o Bind(x, Prim("atom", <<a.a>>)), n |-> a.n]

(* g5o_cv_tail: a tail position. *)
TailOf(g, sc, n, e) ==
  CASE e.ex = "if" ->
         LET c == CvAtom(g, sc, n, e.c)
             t == CvTail(g, sc, c.n, e.t)
             f == CvTail(g, sc, t.n, e.f)
         IN [e |-> Wrap(c.w, If(c.a, t.e, f.e)), n |-> f.n]
    [] e.ex = "case" ->
         LET s == CvScrut(g, sc, n, e.s)
             b == CvBranches(g, sc, s.n, e.brs)
         IN [e |-> Wrap(s.w, Case(s.a, b.brs)), n |-> b.n]
    [] e.ex = "let" ->
         LET l == CvLet(g, sc, n, e)
             b == CvTail(g, l.sc, l.n, e.body)
         IN [e |-> Wrap(l.w, b.e), n |-> b.n]
    [] ShortCircuit(e) ->
         LET l == CvAtom(g, sc, n, e.l)
             r == CvTail(g, sc, l.n, e.r)
         IN [e |-> Wrap(l.w, IF e.op = "&&" THEN If(l.a, r.e, Ret(Lit))
                             ELSE If(l.a, Ret(Lit), r.e)), n |-> r.n]
    [] OTHER -> LET a == CvAtom(g, sc, n, e)
                IN [e |-> Wrap(a.w, Ret(a.a)), n |-> a.n]

Cv(fn, g, sc, n, a) ==
  CASE fn = "tail" -> TailOf(g, sc, n, a)
    [] fn = "named" -> NamedOf(g, sc, n, a[1], a[2])
    [] fn = "atom" -> AtomOf(g, sc, n, a)
    [] fn = "atoms" -> AtomsOf(g, sc, n, a)
    [] fn = "branches" -> BranchesOf(g, sc, n, a)
    [] fn = "generic" -> GenericOf(g, sc, n, a[1], a[2], a[3])

(* g5o_cv_def; a definition is its parameter patterns and its body.        *)
CvDef(g, d) ==
  LET ps == CvParams(d.ps, <<>>, 1)
      b == CvTail(g, ps.sc, ps.n, d.body)
      k == Len(ps.xs)
      direct == k \in 1 .. MaxDirect
  IN [ps |-> ps.xs, body |-> Wrap(ps.w, b.e), direct |-> direct,
      modes |-> [i \in 1 .. k |-> ~direct]]

(* All definitions of a program.                                           *)
CvDefs(prog) == LET g == [f \in DOMAIN prog |-> Len(prog[f].ps)]
                IN [f \in DOMAIN prog |-> CvDef(g, prog[f])]
=============================================================================
