------------------------------ MODULE G0Infer ------------------------------
(***************************************************************************)
(* gen0-interp-rs/src/infer.rs: type inference by unification.             *)
(*                                                                         *)
(* The state is the Infer object with the answer of the last call: ok, and *)
(* ty if it gave a type.  Base types, functions, tuples and declared types *)
(* are one constructor applied to arguments.  The texts of errors are left *)
(* out.                                                                    *)
(***************************************************************************)
EXTENDS G0Ast

TVar(x) == [k |-> "var", id |-> x]
TCon(n, ts) == [k |-> "con", n |-> n, ts |-> ts]
Base(n) == TCon(n, <<>>)
Fun(t, u) == TCon("->", <<t, u>>)
TTup(ts) == TCon("tuple", ts)
ListTy(t) == TCon("List", <<t>>)

Scheme(q, t) == [q |-> q, ty |-> t]
Mono(t) == Scheme({}, t)

Typed(s, t) == [s EXCEPT !.ty = t]
Refused(s) == [s EXCEPT !.ok = FALSE]
Then(s, F(_)) == IF s.ok THEN F(s) ELSE s

Bind(s, x, sch) == [s EXCEPT !.env = x :> sch @@ @]
BindAll(s, binds) == [s EXCEPT !.env = binds @@ @]
Fresh(s) == Typed([s EXCEPT !.n = @ + 1], TVar(s.n))

-----------------------------------------------------------------------------
(* Unification.  link is what the cells of the variables hold.             *)

RECURSIVE Prune(_, _)
Prune(s, t) == IF t.k = "var" /\ t.id \in DOMAIN s.link THEN Prune(s, s.link[t.id]) ELSE t

RECURSIVE FreeVars(_, _)
FreeVars(s, t) == LET p == Prune(s, t)
                  IN  IF p.k = "var" THEN {p.id}
                      ELSE UNION {FreeVars(s, p.ts[i]) : i \in DOMAIN p.ts}
Occurs(s, x, t) == x \in FreeVars(s, t)

LinkTo(s, x, t) == IF Occurs(s, x, t) THEN Refused(s) ELSE [s EXCEPT !.link = x :> t @@ @]

RECURSIVE Unify(_, _, _), UnifyAll(_, _, _)
UnifyPruned(s, a, b) ==
    CASE a.k = "var" /\ b.k = "var" /\ a.id = b.id -> s
      [] a.k = "var" /\ ~(b.k = "var" /\ a.id = b.id) -> LinkTo(s, a.id, b)
      [] a.k = "con" /\ b.k = "var" -> LinkTo(s, b.id, a)
      [] OTHER -> IF a.n = b.n /\ Len(a.ts) = Len(b.ts) THEN UnifyAll(s, a.ts, b.ts) ELSE Refused(s)
Unify(s, a, b) == UnifyPruned(s, Prune(s, a), Prune(s, b))
UnifyAll(s, as, bs) ==
    IF as = <<>> THEN s
    ELSE Then(Unify(s, Head(as), Head(bs)), LAMBDA u : UnifyAll(u, Tail(as), Tail(bs)))

-----------------------------------------------------------------------------
(* Schemes.                                                                *)

FreeInEnv(s, env) == UNION {FreeVars(s, env[x].ty) \ env[x].q : x \in DOMAIN env}
(* Mutant: the variables of the surroundings are quantified too.           *)
GeneralizeAll(s, env, t) == Scheme(FreeVars(s, t), t)

Generalize(s, env, t) == Scheme(FreeVars(s, t) \ FreeInEnv(s, env), t)

RECURSIVE Copy(_, _, _)
Copy(s, t, f) == LET p == Prune(s, t)
                 IN  IF p.k = "var" THEN IF p.id \in DOMAIN f THEN f[p.id] ELSE p
                     ELSE [p EXCEPT !.ts = [i \in DOMAIN @ |-> Copy(s, @[i], f)]]

(* Fresh variables for the members of S.                                   *)
FreshFor(s, S) == LET q == SetToSeq(S)
                  IN  [x \in S |-> TVar(s.n + (CHOOSE i \in DOMAIN q : q[i] = x))]
Spend(s, S) == [s EXCEPT !.n = @ + 1 + Cardinality(S)]

Instantiate(s, sch) ==
    LET q == sch.q \cap FreeVars(s, sch.ty)
    IN  Typed(Spend(s, q), Copy(s, sch.ty, FreshFor(s, q)))

-----------------------------------------------------------------------------
(* Written types.                                                          *)

Arities(s) == [n \in {"Int", "Bool", "String", "Unit"} |-> 0] @@ s.tydefs

RECURSIVE AnnVars(_), Resolves(_, _, _), Resolve(_, _)
AnnVars(a) == IF a.k = "avar" THEN {a.a} ELSE UNION {AnnVars(a.ts[i]) : i \in DOMAIN a.ts}
Resolves(s, a, names) ==
    CASE a.k = "avar" -> a.a \in names
      [] a.k = "acon" -> /\ a.n \in DOMAIN Arities(s) /\ Arities(s)[a.n] = Len(a.ts)
                         /\ \A i \in DOMAIN a.ts : Resolves(s, a.ts[i], names)
      [] OTHER -> \A i \in DOMAIN a.ts : Resolves(s, a.ts[i], names)
Resolve(a, scope) ==
    LET ts == [i \in DOMAIN a.ts |-> Resolve(a.ts[i], scope)]
    IN  CASE a.k = "avar" -> scope[a.a]
          [] a.k = "acon" -> TCon(a.n, ts)
          [] a.k = "aarrow" -> Fun(ts[1], ts[2])
          [] a.k = "atup" -> TTup(ts)

(* fresh_scope_for_ann and resolve_tyast: its variables are fresh.         *)
AnnType(s, a) == IF Resolves(s, a, AnnVars(a))
                 THEN Typed(Spend(s, AnnVars(a)), Resolve(a, FreshFor(s, AnnVars(a))))
                 ELSE Refused(s)

-----------------------------------------------------------------------------
(* Patterns: the names they bind are added to binds.                       *)

RECURSIVE ArgsOf(_), ResultOf(_)
ArgsOf(t) == IF t.k = "con" /\ t.n = "->" THEN <<t.ts[1]>> \o ArgsOf(t.ts[2]) ELSE <<>>
ResultOf(t) == IF t.k = "con" /\ t.n = "->" THEN ResultOf(t.ts[2]) ELSE t

RECURSIVE PatType(_, _, _), PatTypes(_, _, _)
PatTypes(s, ps, ts) ==
    IF ps = <<>> THEN s
    ELSE Then(PatType(s, Head(ps), Head(ts)), LAMBDA u : PatTypes(u, Tail(ps), Tail(ts)))
PatType(s, p, t) ==
    CASE p.k = "wild" -> s
      [] p.k = "var" -> [s EXCEPT !.binds = p.x :> Mono(t) @@ @]
      [] p.k = "lit" -> Unify(s, t, Base(p.ty))
      [] p.k = "tup" ->
           LET ts == [i \in DOMAIN p.ps |-> TVar(s.n + i)]
           IN  Then(Unify(Spend(s, DOMAIN p.ps), t, TTup(ts)), LAMBDA u : PatTypes(u, p.ps, ts))
      [] p.k = "ctor" ->
           IF p.c \notin DOMAIN s.env THEN Refused(s)
           ELSE Then(Instantiate(s, s.env[p.c]), LAMBDA u :
                     IF Len(ArgsOf(u.ty)) # Len(p.ps) THEN Refused(u)
                     ELSE Then(Unify(u, t, ResultOf(u.ty)),
                               LAMBDA w : PatTypes(w, p.ps, ArgsOf(u.ty))))

-----------------------------------------------------------------------------
(* Expressions.  A let leaves its name in the environment; functions, case *)
(* branches and definitions put the environment back.                      *)

OpType(op) ==
    CASE op \in {"+", "-", "*", "/", "%"} -> [args |-> Base("Int"), result |-> Base("Int")]
      [] op = "++" -> [args |-> Base("String"), result |-> Base("String")]
      [] op \in {"<", ">", "<=", ">="} -> [args |-> Base("Int"), result |-> Base("Bool")]
      [] op \in {"&&", "||"} -> [args |-> Base("Bool"), result |-> Base("Bool")]

BinType(s, op, tl, tr) ==
    CASE op = "::" -> Then(Fresh(s), LAMBDA a :
                      Then(Unify(a, tl, a.ty), LAMBDA u :
                           Typed(Unify(u, tr, ListTy(a.ty)), ListTy(a.ty))))
      [] op \in {"==", "!="} -> Typed(Unify(s, tl, tr), Base("Bool"))
      [] OTHER -> Typed(UnifyAll(s, <<tl, tr>>, <<OpType(op).args, OpType(op).args>>),
                        OpType(op).result)

WithEnv(s, env) == [s EXCEPT !.env = env]

RECURSIVE ExprType(_, _), ExprTypes(_, _, _), BranchTypes(_, _, _, _, _)

(* Then with the types of several expressions, in order.                   *)
ExprTypes(s, es, ts) ==
    IF es = <<>> THEN [s EXCEPT !.tys = ts]
    ELSE Then(ExprType(s, Head(es)), LAMBDA u : ExprTypes(u, Tail(es), Append(ts, u.ty)))

BranchTypes(s, brs, st, result, env) ==
    IF brs = <<>> THEN Typed(s, result)
    ELSE Then(PatType([s EXCEPT !.binds = <<>>], Head(brs)[1], st), LAMBDA p :
         Then(ExprType(BindAll(p, p.binds), Head(brs)[2]), LAMBDA b :
         Then(Unify(WithEnv(b, env), b.ty, result), LAMBDA u :
              BranchTypes(u, Tail(brs), st, result, env))))

(* The right side of a let; a recursive one knows its name.                *)
RhsType(s, e) ==
    IF ~e.isrec THEN ExprType(s, e.rhs)
    ELSE Then(Fresh(s), LAMBDA a :
         Then(ExprType(Bind(a, e.x, Mono(a.ty)), e.rhs), LAMBDA u : Unify(u, u.env[e.x].ty, u.ty)))

ExprType(s, e) ==
    CASE e.k = "lit" -> Typed(s, Base(e.ty))
      [] e.k = "var" -> IF e.x \in DOMAIN s.env THEN Instantiate(s, s.env[e.x]) ELSE Refused(s)
      [] e.k = "lam" ->
           Then(Fresh(s), LAMBDA a :
           Then(PatType([a EXCEPT !.binds = <<>>], e.p, a.ty), LAMBDA p :
           Then(ExprType(BindAll(p, p.binds), e.e), LAMBDA b :
                Typed(WithEnv(b, s.env), Fun(a.ty, b.ty)))))
      [] e.k = "app" ->
           Then(ExprTypes(s, <<e.f, e.a>>, <<>>), LAMBDA u :
           Then(Fresh(u), LAMBDA r : Unify(r, u.tys[1], Fun(u.tys[2], r.ty))))
      [] e.k = "bin" ->
           Then(ExprTypes(s, <<e.l, e.r>>, <<>>), LAMBDA u : BinType(u, e.op, u.tys[1], u.tys[2]))
      [] e.k = "if" ->
           Then(ExprType(s, e.c), LAMBDA c :
           Then(Unify(c, c.ty, Base("Bool")), LAMBDA b :
           Then(ExprTypes(b, <<e.t, e.e>>, <<>>), LAMBDA u :
                Typed(Unify(u, u.tys[1], u.tys[2]), u.tys[1]))))
      [] e.k = "case" ->
           Then(ExprType(s, e.e), LAMBDA c :
           Then(Fresh(c), LAMBDA r : BranchTypes(r, e.brs, c.ty, r.ty, c.env)))
      [] e.k = "let" ->
           Then(RhsType(s, e), LAMBDA u :
                ExprType(Bind(WithEnv(u, s.env), e.x, Generalize(u, s.env, u.ty)), e.e))
      [] e.k = "seq" ->
           Then(ExprType(s, e.l), LAMBDA l :
           Then(Unify(l, l.ty, Base("Unit")), LAMBDA u : ExprType(u, e.r)))
      [] e.k = "tup" -> Then(ExprTypes(s, e.es, <<>>), LAMBDA u : Typed(u, TTup(u.tys)))
      [] e.k = "ann" ->
           Then(AnnType(s, e.ty), LAMBDA a :
           Then(ExprType(a, e.e), LAMBDA u : Typed(Unify(u, u.ty, a.ty), a.ty)))

-----------------------------------------------------------------------------
(* Groups of definitions.  g keeps, for each, the types of its parameters, *)
(* the names they bind and the type of the body.                           *)

RECURSIVE ParamTypes(_, _, _), GroupParams(_, _, _), BodyTypes(_, _, _), AnnTypes(_, _, _)
ParamTypes(s, ps, ts) ==
    IF ps = <<>> THEN [s EXCEPT !.tys = ts]
    ELSE Then(Fresh(s), LAMBDA a :
         Then(PatType(a, Head(ps), a.ty), LAMBDA u : ParamTypes(u, Tail(ps), Append(ts, a.ty))))
GroupParams(s, ds, g) ==
    IF ds = <<>> THEN [s EXCEPT !.g = g]
    ELSE Then(ParamTypes([s EXCEPT !.binds = <<>>], Head(ds).ps, <<>>),
              LAMBDA u : GroupParams(u, Tail(ds), Append(g, [ps |-> u.tys, binds |-> u.binds])))

FullType(m, t) == FoldRight(Fun, m.ps, t)

(* A recursive definition is known by a type of its own while the bodies   *)
(* are inferred.                                                           *)
Placeholders(s, ds) ==
    LET rec == {i \in DOMAIN ds : ds[i].isrec}
        known == [x \in {ds[i].x : i \in rec} |->
                     LET i == CHOOSE j \in rec : ds[j].x = x
                     IN  Mono(FullType(s.g[i], TVar(s.n + i)))]
    IN  IF Len(ds) > 1 /\ rec # DOMAIN ds THEN Refused(s)
        ELSE BindAll(Spend(s, DOMAIN ds), known)

(* Each body sees only its own parameters.                                 *)
VisibleIn(s, i) == s.g[i].binds

BodyTypes(s, ds, i) ==
    IF i > Len(ds) THEN s
    ELSE Then(ExprType(BindAll(s, VisibleIn(s, i)), ds[i].e), LAMBDA b :
         Then(IF ds[i].isrec THEN Unify(b, s.env[ds[i].x].ty, FullType(s.g[i], b.ty)) ELSE b,
              LAMBDA u : BodyTypes([u EXCEPT !.env = s.env, !.g[i] = [body |-> b.ty] @@ @], ds, i + 1)))

AnnTypes(s, ds, i) ==
    IF i > Len(ds) THEN s
    ELSE Then(IF ds[i].ann = <<>> THEN s
              ELSE Then(AnnType(s, ds[i].ann[1]),
                        LAMBDA a : Unify(a, FullType(s.g[i], s.g[i].body), a.ty)),
              LAMBDA u : AnnTypes(u, ds, i + 1))

InferGroup(s, ds) ==
    IF \E i, j \in DOMAIN ds : i < j /\ ds[i].x = ds[j].x THEN Refused(s)
    ELSE Then(GroupParams(s, ds, <<>>), LAMBDA p :
         Then(Placeholders(p, ds), LAMBDA h :
         Then(BodyTypes(h, ds, 1), LAMBDA b :
         Then(AnnTypes(b, ds, 1), LAMBDA u :
              BindAll(WithEnv(u, s.env),
                      [x \in {ds[i].x : i \in DOMAIN ds} |->
                         LET i == CHOOSE j \in DOMAIN ds : ds[j].x = x
                         IN  Generalize(u, s.env, FullType(u.g[i], u.g[i].body))])))))

-----------------------------------------------------------------------------
(* Type declarations and programs.                                         *)

BuiltinTypes == {"Int", "Bool", "String", "Unit", "List"}

(* A constructor's tag is the number of constructors declared before it.   *)
AddCtor(s, c, arity, sch) ==
    [Bind(s, c, sch) EXCEPT !.ctors = c :> [tag |-> s.tags, arity |-> arity] @@ @, !.tags = @ + 1]

CheckTyDef(s, td) ==
    LET scope == FreshFor(s, ToSet(td.params))
        d == [Spend(s, ToSet(td.params)) EXCEPT !.tydefs = td.name :> Len(td.params) @@ @]
        result == TCon(td.name, [i \in DOMAIN td.params |-> scope[td.params[i]]])
        ctorType(cd) == FoldRight(Fun, [i \in DOMAIN cd.fs |-> Resolve(cd.fs[i], scope)], result)
        bad(cd) == \E i \in DOMAIN cd.fs : ~Resolves(d, cd.fs[i], DOMAIN scope)
    IN  IF \/ td.name \in BuiltinTypes \/ td.name \in DOMAIN s.tydefs
           \/ \E i \in DOMAIN td.ctors : bad(td.ctors[i])
        THEN Refused(s)
        ELSE FoldLeft(LAMBDA u, cd : AddCtor(u, cd.c, Len(cd.fs),
                                             Scheme(FreeVars(d, ctorType(cd)), ctorType(cd))),
                      d, td.ctors)

(* Of the builtins those that need nothing from the outside.               *)
InferNew ==
    LET int == Base("Int") str == Base("String") unit == Base("Unit")
        s == [n |-> 3, link |-> <<>>, tydefs |-> "List" :> 1, ctors |-> <<>>, tags |-> 0,
              binds |-> <<>>, tys |-> <<>>, g |-> <<>>, ty |-> unit, ok |-> TRUE,
              env |-> "error" :> Scheme({2}, Fun(str, TVar(2)))
                      @@ "print_int" :> Mono(Fun(int, unit))
                      @@ "print_string" :> Mono(Fun(str, unit))
                      @@ "string_length" :> Mono(Fun(str, int))
                      @@ "string_get" :> Mono(Fun(str, Fun(int, int)))
                      @@ "str_concat" :> Mono(Fun(str, Fun(str, str)))]
        nil == AddCtor(s, "Nil", 0, Scheme({0}, ListTy(TVar(0))))
    IN  AddCtor(nil, "Cons", 2,
                Scheme({1}, Fun(TVar(1), Fun(ListTy(TVar(1)), ListTy(TVar(1))))))

ProcessItem(s, it) == IF it.k = "type" THEN CheckTyDef(s, it) ELSE InferGroup(s, it.ds)
CheckProgram(items) == FoldLeft(LAMBDA s, it : Then(s, LAMBDA u : ProcessItem(u, it)), InferNew, items)
=============================================================================
