------------------------------ MODULE G5Infer ------------------------------
(***************************************************************************)
(* Type inference of gen5/g5_infer.dc: expressions, patterns, annotations, *)
(* holes with their candidates, type declarations, groups of definitions   *)
(* and sig contracts.                                                      *)
(*                                                                         *)
(* Left out: source positions, the node and symbol tables, warnings, the   *)
(* trace and the texts of errors, none of which the types depend on.       *)
(***************************************************************************)
EXTENDS G5Types, G0Ast

(* What Expr5 has beside the expressions of gen 0; Pat5 has nothing new.   *)
ERec(ls, es) == [k |-> "rec", ls |-> ls, es |-> es]
EProj(e, l) == [k |-> "proj", e |-> e, l |-> l]
EWith(e, l, u) == [k |-> "with", e |-> e, l |-> l, u |-> u]
EHole == [k |-> "hole"]

(* Items.  Written types have names for variables and rows.                *)
TypeItem(name, params, ctors) == [k |-> "type", name |-> name, params |-> params, ctors |-> ctors]
Ctor(c, fs) == [c |-> c, fs |-> fs]
DefItem(ds) == [k |-> "def", ds |-> ds]
Def(isrec, x, e) == [isrec |-> isrec, x |-> x, e |-> e]
SigItem(x, forall, ty) == [k |-> "sig", x |-> x, forall |-> forall, ty |-> ty]

Entry(x, sch) == [x |-> x, sch |-> sch]
Known(env, x) == \E i \in DOMAIN env : env[i].x = x
SchemeOf(env, x) == env[CHOOSE i \in DOMAIN env :
                            env[i].x = x /\ \A j \in DOMAIN env : j < i => env[j].x # x].sch

(* The part of g5_init_env that the programs use; four numbers are gone    *)
(* after it, of which show and error have two.                             *)
Lst(t) == TCon("List", <<t>>)
InitEnv ==
    <<Entry("Nil", Scheme({0}, {}, Lst(TVar(0)), FALSE)),
      Entry("Cons", Scheme({1}, {}, Arrow(TVar(1), Arrow(Lst(TVar(1)), Lst(TVar(1)))), FALSE))>>
InitState == FreshN(NewState, 4)

-----------------------------------------------------------------------------
(* Written types.                                                          *)

Arity == [Int |-> 0, Bool |-> 0, Unit |-> 0, List |-> 1]

RECURSIVE Resolvable(_, _, _, _)
Resolvable(ty, vars, rows, tydefs) ==
    CASE ty.k = "var" -> ty.id \in vars
      [] ty.k = "con" ->
           /\ \/ ty.name \in {"->", ","}
              \/ ty.name \in DOMAIN (Arity @@ tydefs) /\ Len(ty.args) = (Arity @@ tydefs)[ty.name]
           /\ \A i \in DOMAIN ty.args : Resolvable(ty.args[i], vars, rows, tydefs)
      [] ty.k = "rec" -> /\ ToSet(ty.tail) \subseteq rows
                         /\ \A l \in DOMAIN ty.fields : Resolvable(ty.fields[l], vars, rows, tydefs)

(* g5_resolve_ann: variables and rows of an annotation are fresh and       *)
(* flexible.                                                               *)
ResolveAnn(ty, s) ==
    [ok |-> Resolvable(ty, TyVars(ty), RowVars(ty), s.tydefs),
     s |-> FreshRows(FreshN(s, Cardinality(TyVars(ty))), Cardinality(RowVars(ty))),
     t |-> Rename(ty, AsVars(Numbered(TyVars(ty), s.ctr)), Numbered(RowVars(ty), s.rowctr))]

(* A sig's variables are constants nobody else has, its rows are rigid.    *)
Skolem(c) == Base("@sk" \o ToString(c))
ResolveSig(sig, s) ==
    LET vs == TyVars(sig.ty) \cap sig.forall
        rs == RowVars(sig.ty) \cap sig.forall
        sk == Numbered(vs, s.ctr)
        rigid == Numbered(rs, 1)
    IN  [ok |-> Resolvable(sig.ty, vs, rs, s.tydefs), s |-> FreshN(s, Cardinality(vs)),
         t |-> Rename(sig.ty, [v \in vs |-> Skolem(sk[v])], [r \in rs |-> 0 - rigid[r]])]

-----------------------------------------------------------------------------
(* Patterns.  The result: the state and the entries that are bound.        *)

RECURSIVE ArgTypes(_, _)
ArgTypes(t, n) == IF n = 0 THEN <<>> ELSE <<t.args[1]>> \o ArgTypes(t.args[2], n - 1)
RECURSIVE ResultType(_, _)
ResultType(t, n) == IF n = 0 THEN t ELSE ResultType(t.args[2], n - 1)
RECURSIVE Arrows(_, _)
Arrows(ts, t) == IF ts = <<>> THEN t ELSE Arrow(Head(ts), Arrows(Tail(ts), t))
RECURSIVE Depth(_)
Depth(t) == IF t.k = "con" /\ t.name = "->" THEN 1 + Depth(t.args[2]) ELSE 0

FreshVars(s, n) == [i \in 1 .. n |-> TVar(s.ctr + i - 1)]

RECURSIVE InferPat(_, _, _, _), InferPats(_, _, _, _)
Binds(s, bs) == [ok |-> TRUE, s |-> s, binds |-> bs]

(* The first of two patterns is in front: of two equal names it counts.    *)
InferPats(ps, ts, env, s) ==
    IF ps = <<>> THEN Binds(s, <<>>)
    ELSE Then(InferPat(Head(ps), Head(ts), env, s),
              LAMBDA p : Then(InferPats(Tail(ps), Tail(ts), env, p.s),
                              LAMBDA r : [r EXCEPT !.binds = p.binds \o @]))

(* What the pattern wants to match, and the types of its parts.  The       *)
(* constructor's scheme is instantiated and taken apart.                   *)
TakenApart(i, n) == IF Depth(i.t) # n THEN Fail(i.s)
                    ELSE [ok |-> TRUE, s |-> i.s, t |-> ResultType(i.t, n), ts |-> ArgTypes(i.t, n)]
Wanted(p, env, s) ==
    CASE p.k = "lit" -> [ok |-> TRUE, s |-> s, t |-> Base(p.ty), ts |-> <<>>]
      [] p.k = "tup" -> [ok |-> TRUE, s |-> FreshN(s, Len(p.ps)), t |-> TCon(",", FreshVars(s, Len(p.ps))),
                         ts |-> FreshVars(s, Len(p.ps))]
      [] p.k = "ctor" -> IF Known(env, p.c) THEN TakenApart(Instantiate(SchemeOf(env, p.c), s), Len(p.ps))
                         ELSE Fail(s)
Parts(p) == IF p.k = "lit" THEN <<>> ELSE p.ps

InferPat(p, t, env, s) ==
    CASE p.k = "wild" -> Binds(s, <<>>)
      [] p.k = "var" -> Binds(s, <<Entry(p.x, Scheme({}, {}, Apply(s, t), Tainted(t, s)))>>)
      [] OTHER -> Then(Wanted(p, env, s),
                       LAMBDA w : Then(Solve(t, w.t, w.s), LAMBDA r : InferPats(Parts(p), w.ts, env, r.s)))

-----------------------------------------------------------------------------
(* Holes.  A hole remembers its type and the names in scope that fit it,   *)
(* each with its scheme: they are tried one after the other and undone.    *)

MentionsHole(t, s) == Tainted(t, s)

(* Does this scheme fit?  The state afterwards and the answer.             *)
Undo(r, s) == [s |-> Rollback(r.s, Snapshot(s)), fits |-> r.ok]
TrialOf(i, t) == IF MentionsHole(i.t, i.s) THEN [s |-> i.s, fits |-> FALSE]
                 ELSE Undo(Unify(i.t, t, i.s), i.s)
Trial(sch, t, s) == IF sch.partial THEN [s |-> s, fits |-> FALSE] ELSE TrialOf(Instantiate(sch, s), t)

(* The innermost entry of every name counts.  Mutant: every entry.         *)
VisibleAll(env) == [i \in DOMAIN env |-> TRUE]
Visible(env) == [i \in DOMAIN env |-> ~\E j \in 1 .. i - 1 : env[j].x = env[i].x]

(* Every trial uses up numbers, so the state goes from one to the next.    *)
Offered(c, e, r) == [s |-> r.s, cands |-> IF r.fits THEN Append(c.cands, e) ELSE c.cands]
Candidates(env, t, s) ==
    FoldLeft(LAMBDA c, i : Offered(c, env[i], Trial(env[i].sch, t, c.s)), [s |-> s, cands |-> <<>>],
             SelectSeq([i \in DOMAIN env |-> i], LAMBDA i : Visible(env)[i]))

(* g5_refilter_cands; the display limit of 12 is out of the bounds.        *)
Refilter(cands, t, s) == SelectSeq(cands, LAMBDA c : Trial(c.sch, t, s).fits)
RefreshHole(h, t, s) == [t |-> t, cands |-> Refilter(h.cands, t, s)]
RefreshHoles(s) ==
    [s EXCEPT !.holes = [i \in DOMAIN @ |-> RefreshHole(@[i], Apply(s, @[i].t), s)]]

-----------------------------------------------------------------------------
(* Expressions.  The result: the state and the type.                       *)

Typed(s, t) == [ok |-> TRUE, s |-> s, t |-> t]

(* t is the type of what stands if a and b can be made equal.              *)
Equate(a, b, t, s) == Then(Solve(a, b, s), LAMBDA r : Typed(r.s, t))

RECURSIVE Infer(_, _, _), InferSeq(_, _, _), InferBranches(_, _, _, _, _)

InferSeq(es, env, s) ==
    IF es = <<>> THEN [ok |-> TRUE, s |-> s, ts |-> <<>>]
    ELSE Then(Infer(Head(es), env, s),
              LAMBDA r : Then(InferSeq(Tail(es), env, r.s),
                              LAMBDA rest : [rest EXCEPT !.ts = <<r.t>> \o @]))

(* A name whose scheme comes from a hole taints what it is used for.       *)
Use(sch, i) == Typed(IF sch.partial THEN TaintUse(i.t, i.s) ELSE i.s, i.t)
InferVar(e, env, s) ==
    IF Known(env, e.x) THEN Use(SchemeOf(env, e.x), Instantiate(SchemeOf(env, e.x), s)) ELSE Fail(s)

InferLam(e, env, s) ==
    Then(InferPat(e.p, TVar(s.ctr), env, FreshN(s, 1)),
         LAMBDA p : Then(Infer(e.e, p.binds \o env, p.s),
                         LAMBDA b : [b EXCEPT !.t = Arrow(TVar(s.ctr), @)]))

(* Expressions whose operands are all inferred first: the equations of     *)
(* their types ts, the type, and how many new variables and rows there     *)
(* are, of which v and w are the first.                                    *)
Rule(eqs, t, nv, nr) == [eqs |-> eqs, t |-> t, nv |-> nv, nr |-> nr]

InferApp(ts, v) == Rule(<<<<ts[1], Arrow(ts[2], v)>>>>, v, 1, 0)

OperandType(op) == Base(CASE op \in {"&&", "||"} -> "Bool"
                          [] op = "++" -> "String"
                          [] OTHER -> "Int")
Compares(op) == op \in {"<", ">", "<=", ">="}

InferBin(op, ts, v) ==
    CASE op = "::" -> Rule(<<<<ts[1], v>>, <<ts[2], Lst(v)>>>>, Lst(v), 1, 0)
      [] op \in {"==", "!="} -> Rule(<<<<ts[1], ts[2]>>>>, Base("Bool"), 0, 0)
      [] OTHER -> LET t == OperandType(op)
                  IN  Rule(<<<<ts[1], t>>, <<ts[2], t>>>>, IF Compares(op) THEN Base("Bool") ELSE t, 0, 0)

InferProj(l, ts, v, w) == Rule(<<<<ts[1], TRec(l :> v, Open(w))>>>>, v, 1, 1)

(* Mutant: an update may change the type of the field.                     *)
InferWithChange(l, ts, v, w) == Rule(<<<<ts[1], TRec(l :> v, Open(w))>>>>, ts[1], 1, 1)
InferWith(l, ts, v, w) == Rule(<<<<ts[1], TRec(l :> ts[2], Open(w))>>>>, ts[1], 0, 1)

InferTup(ts) == Rule(<<>>, TCon(",", ts), 0, 0)

Operands(e) == CASE e.k = "app" -> <<e.f, e.a>>
                 [] e.k = "bin" -> <<e.l, e.r>>
                 [] e.k = "proj" -> <<e.e>>
                 [] e.k = "with" -> <<e.e, e.u>>
                 [] e.k = "tup" -> e.es
RuleFor(e, ts, v, w) == CASE e.k = "app" -> InferApp(ts, v)
                          [] e.k = "bin" -> InferBin(e.op, ts, v)
                          [] e.k = "proj" -> InferProj(e.l, ts, v, w)
                          [] e.k = "with" -> InferWith(e.l, ts, v, w)
                          [] e.k = "tup" -> InferTup(ts)
Follow(r, s) == Then(SolveAll(r.eqs, FreshRows(FreshN(s, r.nv), r.nr)), LAMBDA q : Typed(q.s, r.t))
InferByRule(e, env, s) ==
    Then(InferSeq(Operands(e), env, s),
         LAMBDA r : Follow(RuleFor(e, r.ts, TVar(r.s.ctr), r.s.rowctr), r.s))

InferIf(e, env, s) ==
    Then(Infer(e.c, env, s),
         LAMBDA c : Then(Solve(c.t, Base("Bool"), c.s),
                         LAMBDA b : Then(InferSeq(<<e.t, e.e>>, env, b.s),
                                         LAMBDA r : Equate(r.ts[1], r.ts[2], r.ts[1], r.s))))

(* st is the type of what is matched, rt that of the branches.             *)
InferBranch(br, st, rt, env, s) ==
    Then(InferPat(br[1], st, env, s),
         LAMBDA p : Then(Infer(br[2], p.binds \o env, p.s), LAMBDA b : Equate(b.t, rt, rt, b.s)))
InferBranches(brs, st, rt, env, s) ==
    IF brs = <<>> THEN Typed(s, rt)
    ELSE Then(InferBranch(Head(brs), st, rt, env, s),
              LAMBDA r : InferBranches(Tail(brs), st, rt, env, r.s))

InferCase(e, env, s) ==
    Then(Infer(e.e, env, s),
         LAMBDA c : InferBranches(e.brs, c.t, TVar(c.s.ctr), env, FreshN(c.s, 1)))

(* The right-hand side, which knows its name if it is recursive.           *)
InferRhs(e, v, env, s) ==
    IF e.isrec
    THEN Then(Infer(e.rhs, <<Entry(e.x, Mono(v))>> \o env, FreshN(s, 1)),
              LAMBDA b : Equate(v, b.t, b.t, b.s))
    ELSE Infer(e.rhs, env, s)
LetBody(e, r, env) ==
    IF e.x = "_" /\ ~e.isrec
    THEN Then(Solve(r.t, Base("Unit"), r.s), LAMBDA u : Infer(e.e, env, u.s))
    ELSE Infer(e.e, <<Entry(e.x, Generalize(env, r.t, r.s))>> \o env, r.s)
InferLet(e, env, s) ==
    Then(InferRhs(e, TVar(s.ctr), env, s), LAMBDA r : LetBody(e, r, env))

InferAnn(e, env, s) ==
    Then(ResolveAnn(e.ty, s),
         LAMBDA a : Then(Infer(e.e, env, a.s), LAMBDA r : Equate(r.t, a.t, a.t, r.s)))

At(l, ls) == CHOOSE i \in DOMAIN ls : ls[i] = l
InferRec(e, env, s) ==
    Then(InferSeq(e.es, env, s),
         LAMBDA r : IF IsInjective(e.ls)
                    THEN Typed(r.s, TRec([l \in ToSet(e.ls) |-> r.ts[At(l, e.ls)]], Closed))
                    ELSE Fail(r.s))

HoleOf(v, c) == Typed([c.s EXCEPT !.holes = Append(@, [t |-> v, cands |-> c.cands])], v)
InferHole(e, env, s) ==
    HoleOf(TVar(s.ctr),
           Candidates(env, TVar(s.ctr), [FreshN(s, 1) EXCEPT !.holevars = Append(@, s.ctr)]))

Infer(e, env, s) ==
    CASE e.k = "lit" -> Typed(s, Base(e.ty))
      [] e.k = "var" -> InferVar(e, env, s)
      [] e.k = "lam" -> InferLam(e, env, s)
      [] e.k = "if" -> InferIf(e, env, s)
      [] e.k = "case" -> InferCase(e, env, s)
      [] e.k = "let" -> InferLet(e, env, s)
      [] e.k = "ann" -> InferAnn(e, env, s)
      [] e.k = "rec" -> InferRec(e, env, s)
      [] e.k = "hole" -> InferHole(e, env, s)
      [] OTHER -> InferByRule(e, env, s)

-----------------------------------------------------------------------------
(* Type declarations, definitions, contracts.                              *)

BuiltinTypes == {"Int", "Bool", "String", "Unit", "List"}

CtorFields(it) == UNION {ToSet(it.ctors[i].fs) : i \in DOMAIN it.ctors}
DeclRows(it) == UNION {RowVars(f) : f \in CtorFields(it)}
Declared(it, s) ==
    [FreshRows(FreshN(s, Len(it.params)), Cardinality(DeclRows(it)))
       EXCEPT !.tydefs = it.name :> Len(it.params) @@ @]

(* g5_ctor_schemes: what is free in a constructor's type is quantified,    *)
(* its rows too.                                                           *)
Quantified(t) == Scheme(TyVars(t), RowVars(t), t, FALSE)
CtorType(c, it, s) ==
    Rename(Arrows(c.fs, TCon(it.name, [i \in DOMAIN it.params |-> TVar(it.params[i])])),
           [v \in ToSet(it.params) |-> TVar(s.ctr - 1 + At(v, it.params))], Numbered(DeclRows(it), s.rowctr))

(* g5_check_tydef: the parameters and the rows written in constructors are *)
(* fresh, the type is declared before its constructors are resolved and    *)
(* stays declared if that fails.                                           *)
CheckTypeDecl(it, s) ==
    CASE it.name \in BuiltinTypes \cup DOMAIN s.tydefs -> Fail(s)
      [] \E f \in CtorFields(it) :
             ~Resolvable(f, ToSet(it.params), DeclRows(it), Declared(it, s).tydefs) -> Fail(Declared(it, s))
      [] OTHER ->
           Binds(Declared(it, s), Reverse([i \in DOMAIN it.ctors |->
               Entry(it.ctors[i].c, Quantified(CtorType(it.ctors[i], it, s)))]))

(* g5_place: the names of recursive definitions, before any body.          *)
Place(ds, env, s) ==
    FoldLeft(LAMBDA p, d : IF d.isrec THEN [env |-> <<Entry(d.x, Mono(TVar(p.s.ctr)))>> \o p.env, s |-> FreshN(p.s, 1)]
                           ELSE p,
             [env |-> env, s |-> s], ds)

(* g5_bodies: the body without its outer annotation, the tie to the name   *)
(* of a recursive definition, then the annotation.                         *)
Tied(d, env, b) == IF d.isrec THEN Equate(SchemeOf(env, d.x).t, b.t, b.t, b.s) ELSE b
Annotated(d, b, s) == IF d.e.k = "ann"
                      THEN Then(ResolveAnn(d.e.ty, s), LAMBDA a : Equate(b.t, a.t, b.t, a.s))
                      ELSE Typed(s, b.t)
InferBody(d, env, s) ==
    Then(Infer(IF d.e.k = "ann" THEN d.e.e ELSE d.e, env, s),
         LAMBDA b : Then(Tied(d, env, b), LAMBDA r : Annotated(d, b, r.s)))

RECURSIVE InferBodies(_, _, _)
InferBodies(ds, env, s) ==
    IF ds = <<>> THEN [ok |-> TRUE, s |-> s, ts |-> <<>>]
    ELSE Then(InferBody(Head(ds), env, s),
              LAMBDA r : Then(InferBodies(Tail(ds), env, r.s),
                              LAMBDA rest : [rest EXCEPT !.ts = <<r.t>> \o @]))

(* g5_infer_def_group: all bodies, then all of them are generalized over   *)
(* the environment outside the group.                                      *)
InferGroup(ds, env, s) ==
    IF ~IsInjective([i \in DOMAIN ds |-> ds[i].x]) \/ (Len(ds) > 1 /\ \E i \in DOMAIN ds : ~ds[i].isrec)
    THEN Fail(s)
    ELSE Then(InferBodies(ds, Place(ds, env, s).env, Place(ds, env, s).s),
              LAMBDA r : Binds(r.s, Reverse([i \in DOMAIN ds |-> Entry(ds[i].x, Generalize(env, r.ts[i], r.s))])))

(* g5_sig_check: the inferred scheme, its variables flexible, must fit the *)
(* declared type, whose variables are not; the trial is undone.            *)
(* Mutant: the variables and rows of a sig are flexible.                   *)
Fits(i, t) == [ok |-> Undo(Unify(i.t, t, i.s), i.s).fits, s |-> Undo(Unify(i.t, t, i.s), i.s).s]
SigCheckFlexible(sig, sch, s) == Then(ResolveAnn(sig.ty, s), LAMBDA d : Fits(Instantiate(sch, d.s), d.t))
SigCheck(sig, sch, s) == Then(ResolveSig(sig, s), LAMBDA d : Fits(Instantiate(sch, d.s), d.t))

(* g5_boundary_item: holes get their final types, the environment is       *)
(* applied and the type bindings are forgotten; the rows stay.             *)
NormEnv(env, s) == [i \in DOMAIN env |-> [env[i] EXCEPT !.sch.t = Apply(s, @)]]
Boundary(s) == [RefreshHoles(s) EXCEPT !.subst = <<>>, !.eqs = <<>>]
=============================================================================
