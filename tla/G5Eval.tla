------------------------------ MODULE G5Eval ------------------------------
(***************************************************************************)
(* What a checked program does: records are lowered to association lists   *)
(* in the order they are written (gen5/g5_lower.dc), the rest is evaluated *)
(* as gen0-interp-rs/src/eval.rs does.                                     *)
(*                                                                         *)
(* Literals are their own values.  Constructors are told apart by name.    *)
(* An environment maps names to values.  A result is a value or a fault,   *)
(* with what was printed; the fault of a program that gets where only an   *)
(* ill-typed one could get is "stuck".  Integers have no bound.            *)
(***************************************************************************)
EXTENDS G5Infer

VTup(vs) == [k |-> "tup", vs |-> vs]
VAdt(c, vs) == [k |-> "adt", c |-> c, vs |-> vs]
VFun(p, e, env, group) == [k |-> "fun", p |-> p, e |-> e, env |-> env, group |-> group]
VCtor(c, n, vs) == [k |-> "ctor", c |-> c, n |-> n, vs |-> vs]
VBuiltin(b, vs) == [k |-> "builtin", b |-> b, vs |-> vs]
NilV == VAdt("Nil", <<>>)
ConsV(h, t) == VAdt("Cons", <<h, t>>)

Done(v) == [fault |-> "", v |-> v, out |-> <<>>]
Fault(w) == [fault |-> w, out |-> <<>>]
Went(r) == r.fault = ""
Printing(out, r) == [r EXCEPT !.out = out \o @]
AndThen(r, F(_)) == IF Went(r) THEN Printing(r.out, F(r.v)) ELSE r

IsLit(v, ty) == v.k = "lit" /\ v.ty = ty
IsTrue(v) == IsLit(v, "Bool") /\ v.v
IsFalse(v) == IsLit(v, "Bool") /\ ~v.v
AreLits(v, w, ty) == IsLit(v, ty) /\ IsLit(w, ty)

-----------------------------------------------------------------------------
(* Records.                                                                *)

RECURSIVE RecordOf(_, _)
RecordOf(ls, vs) == IF ls = <<>> THEN NilV
                    ELSE ConsV(VTup(<<EStr(Head(ls)), Head(vs)>>), RecordOf(Tail(ls), Tail(vs)))

IsCons(v) == v.k = "adt" /\ v.c = "Cons"
HeadPair(v) == v.vs[1].vs

(* g5_rec_get and g5_rec_with of the prelude.                              *)
RECURSIVE RecGet(_, _)
RecGet(v, l) == CASE ~IsCons(v) -> Fault("unknown record field")
                  [] IsCons(v) /\ HeadPair(v)[1].v = l -> Done(HeadPair(v)[2])
                  [] OTHER -> RecGet(v.vs[2], l)
RECURSIVE RecWith(_, _, _)
RecWith(v, l, u) ==
    CASE ~IsCons(v) -> Fault("unknown record field")
      [] IsCons(v) /\ HeadPair(v)[1].v = l -> Done(ConsV(VTup(<<EStr(l), u>>), v.vs[2]))
      [] OTHER -> AndThen(RecWith(v.vs[2], l, u), LAMBDA w : Done(ConsV(v.vs[1], w)))

-----------------------------------------------------------------------------
(* Patterns: whether the value matches, and the names bound.               *)

NoNames == [x \in {} |-> NilV]
Miss == [hit |-> FALSE, binds |-> NoNames]
Hit(binds) == [hit |-> TRUE, binds |-> binds]

RECURSIVE PatMatch(_, _), PatMatchAll(_, _, _)
PatMatchAll(ps, vs, m) ==
    IF ps = <<>> \/ ~m.hit THEN m
    ELSE PatMatchAll(Tail(ps), Tail(vs),
                     LET h == PatMatch(Head(ps), Head(vs)) IN [h EXCEPT !.binds = @ @@ m.binds])
PatMatch(p, v) ==
    CASE p.k = "wild" -> Hit(NoNames)
      [] p.k = "var" -> Hit(p.x :> v)
      [] p.k = "lit" -> IF IsLit(v, p.ty) /\ v.v = p.v THEN Hit(NoNames) ELSE Miss
      [] p.k \in {"tup", "ctor"} ->
           IF /\ v.k = (IF p.k = "tup" THEN "tup" ELSE "adt") /\ Len(v.vs) = Len(p.ps)
              /\ p.k = "ctor" => v.c = p.c
           THEN PatMatchAll(p.ps, v.vs, Hit(NoNames)) ELSE Miss

-----------------------------------------------------------------------------
(* eq_value, binop and the builtins.                                       *)

IsFunction(v) == v.k \in {"fun", "ctor", "builtin"}

RECURSIVE EqValue(_, _), EqValues(_, _)
EqValues(vs, ws) ==
    IF vs = <<>> \/ ws = <<>> THEN Done(EBool(TRUE))
    ELSE AndThen(EqValue(Head(vs), Head(ws)),
                 LAMBDA b : IF IsTrue(b) THEN EqValues(Tail(vs), Tail(ws)) ELSE Done(b))
EqValue(v, w) ==
    CASE IsFunction(v) \/ IsFunction(w) -> Fault("functions compared")
      [] v.k = "lit" /\ w.k = "lit" -> Done(EBool(v.ty = w.ty /\ v.v = w.v))
      [] v.k = "tup" /\ w.k = "tup" /\ Len(v.vs) = Len(w.vs) -> EqValues(v.vs, w.vs)
      [] v.k = "adt" /\ w.k = "adt" /\ v.c = w.c -> EqValues(v.vs, w.vs)
      [] OTHER -> Done(EBool(FALSE))

(* Division rounds towards zero.                                           *)
Size(n) == IF n < 0 THEN -n ELSE n
Quotient(a, b) == (IF a < 0 <=> b < 0 THEN 1 ELSE -1) * (Size(a) \div Size(b))

IntOp(op, a, b) ==
    CASE op = "+" -> Done(EInt(a + b))
      [] op = "-" -> Done(EInt(a - b))
      [] op = "*" -> Done(EInt(a * b))
      [] op \in {"/", "%"} -> IF b = 0 THEN Fault("division by zero")
                             ELSE Done(EInt(IF op = "/" THEN Quotient(a, b) ELSE a - b * Quotient(a, b)))
      [] op = "<" -> Done(EBool(a < b))
      [] op = ">" -> Done(EBool(a > b))
      [] op = "<=" -> Done(EBool(a <= b))
      [] op = ">=" -> Done(EBool(a >= b))

Binop(op, v, w) ==
    CASE op = "::" -> Done(ConsV(v, w))
      [] op \in {"==", "!="} -> AndThen(EqValue(v, w), LAMBDA b : Done(EBool(IsTrue(b) <=> op = "==")))
      [] op = "++" -> IF AreLits(v, w, "String") THEN Done(EStr(v.v \o w.v)) ELSE Fault("stuck")
      [] OTHER -> IF AreLits(v, w, "Int") THEN IntOp(op, v.v, w.v) ELSE Fault("stuck")

(* Of the builtins those that need nothing from the outside.               *)
BuiltinArity == [b \in {"print_int", "print_string", "string_length", "string_get", "error"} |->
                   IF b = "string_get" THEN 2 ELSE 1]
ByteOf == [a |-> 97, b |-> 98]
StringGet(s, i) == EInt(IF i \in 0..(Len(s) - 1) THEN ByteOf[s[i + 1]] ELSE -1)

(* Printing something of another type prints nothing, the others panic.    *)
CallBuiltin(b, vs) ==
    LET fits == /\ IsLit(vs[1], IF b = "print_int" THEN "Int" ELSE "String")
                /\ b = "string_get" => IsLit(vs[2], "Int")
    IN  CASE ~fits -> IF b \in {"print_int", "print_string"} THEN Done(EUnit) ELSE Fault("stuck")
          [] fits /\ b = "print_int" -> Printing(<<vs[1].v>>, Done(EUnit))
          [] fits /\ b = "print_string" -> Printing(<<vs[1].v>>, Done(EUnit))
          [] fits /\ b = "string_length" -> Done(EInt(Len(vs[1].v)))
          [] fits /\ b = "string_get" -> Done(StringGet(vs[1].v, vs[2].v))
          [] fits /\ b = "error" -> Fault("error")

-----------------------------------------------------------------------------
(* Expressions.                                                            *)

(* The names of a recursive group; its functions know the group.           *)
Knowing(group, v) == IF v.k = "fun" THEN [v EXCEPT !.group = group] ELSE v
Tie(group) == [x \in {group[i].x : i \in DOMAIN group} |->
                   Knowing(group, group[CHOOSE i \in DOMAIN group : group[i].x = x].v)]

RECURSIVE Eval(_, _), EvalSeq(_, _, _), EvalBranches(_, _, _), ApplyFun(_, _)

EvalSeq(es, env, vs) ==
    IF es = <<>> THEN Done(vs)
    ELSE AndThen(Eval(Head(es), env), LAMBDA v : EvalSeq(Tail(es), env, Append(vs, v)))

EvalBranches(brs, v, env) ==
    IF brs = <<>> THEN Fault("no case")
    ELSE LET m == PatMatch(Head(brs)[1], v)
         IN  IF m.hit THEN Eval(Head(brs)[2], m.binds @@ env) ELSE EvalBranches(Tail(brs), v, env)

ApplyFun(f, v) ==
    CASE f.k = "fun" -> EvalBranches(<<<<f.p, f.e>>>>, v, Tie(f.group) @@ f.env)
      [] f.k = "ctor" ->
           LET vs == Append(f.vs, v)
           IN  Done(IF Len(vs) = f.n THEN VAdt(f.c, vs) ELSE [f EXCEPT !.vs = vs])
      [] f.k = "builtin" ->
           LET vs == Append(f.vs, v)
           IN  IF Len(vs) = BuiltinArity[f.b] THEN CallBuiltin(f.b, vs) ELSE Done([f EXCEPT !.vs = vs])
      [] OTHER -> Fault("no function")

(* && and || look at the right operand only if the left leaves it open.    *)
EvalBin(e, env) ==
    IF e.op \in {"&&", "||"}
    THEN AndThen(Eval(e.l, env), LAMBDA l :
             IF IF e.op = "&&" THEN IsFalse(l) ELSE IsTrue(l) THEN Done(l)
             ELSE AndThen(Eval(e.r, env), LAMBDA r : IF IsLit(r, "Bool") THEN Done(r) ELSE Fault("stuck")))
    ELSE AndThen(EvalSeq(<<e.l, e.r>>, env, <<>>), LAMBDA vs : Binop(e.op, vs[1], vs[2]))

EvalIf(e, env) ==
    AndThen(Eval(e.c, env), LAMBDA c : CASE IsTrue(c) -> Eval(e.t, env)
                                         [] IsFalse(c) -> Eval(e.e, env)
                                         [] OTHER -> Fault("stuck"))

(* A recursive local function knows itself; a constructor or a builtin     *)
(* cannot.                                                                 *)
EvalLet(e, env) ==
    AndThen(Eval(e.rhs, env), LAMBDA v :
        IF e.isrec /\ v.k \in {"ctor", "builtin"} THEN Fault("not a function")
        ELSE Eval(e.e, e.x :> (IF e.isrec THEN Knowing(<<[x |-> e.x, v |-> v]>>, v) ELSE v) @@ env))

Eval(e, env) ==
    CASE e.k = "lit" -> Done(e)
      [] e.k = "var" -> IF e.x \in DOMAIN env THEN Done(env[e.x]) ELSE Fault("unbound variable")
      [] e.k = "lam" -> Done(VFun(e.p, e.e, env, <<>>))
      [] e.k = "app" -> AndThen(EvalSeq(<<e.f, e.a>>, env, <<>>), LAMBDA vs : ApplyFun(vs[1], vs[2]))
      [] e.k = "bin" -> EvalBin(e, env)
      [] e.k = "if" -> EvalIf(e, env)
      [] e.k = "case" -> AndThen(Eval(e.e, env), LAMBDA v : EvalBranches(e.brs, v, env))
      [] e.k = "let" -> EvalLet(e, env)
      [] e.k = "seq" -> AndThen(Eval(e.l, env), LAMBDA v : Eval(e.r, env))
      [] e.k = "tup" -> AndThen(EvalSeq(e.es, env, <<>>), LAMBDA vs : Done(VTup(vs)))
      [] e.k = "ann" -> Eval(e.e, env)
      [] e.k = "rec" -> AndThen(EvalSeq(e.es, env, <<>>), LAMBDA vs : Done(RecordOf(e.ls, vs)))
      [] e.k = "proj" -> AndThen(Eval(e.e, env), LAMBDA v : RecGet(v, e.l))
      [] e.k = "with" -> AndThen(EvalSeq(<<e.e, e.u>>, env, <<>>), LAMBDA vs : RecWith(vs[1], e.l, vs[2]))

-----------------------------------------------------------------------------
(* Items.                                                                  *)

(* Constructors: a value, or a function that waits for its arguments.      *)
CtorValues(it) ==
    [c \in {it.ctors[i].c : i \in DOMAIN it.ctors} |->
        LET n == Len((CHOOSE d \in ToSet(it.ctors) : d.c = c).fs)
        IN  IF n = 0 THEN VAdt(c, <<>>) ELSE VCtor(c, n, <<>>)]
InitValues == "Nil" :> NilV @@ "Cons" :> VCtor("Cons", 2, <<>>)
BuiltinValues == [b \in DOMAIN BuiltinArity |-> VBuiltin(b, <<>>)]

(* define_rec_group: every definition is treated like a recursive one, its *)
(* function, wherever that was made, gets the names of the group.  What    *)
(* follows a constructor or a builtin is not evaluated.                    *)
Tieable(v) == IF v.k \in {"ctor", "builtin"} THEN Fault("not a function") ELSE Done(v)
EvalDefs(ds, env) ==
    FoldLeft(LAMBDA r, d : AndThen(r, LAMBDA vs : AndThen(Eval(d.e, env), LAMBDA v :
                           AndThen(Tieable(v), LAMBDA w : Done(Append(vs, w))))),
             Done(<<>>), ds)
DefineGroup(ds, env) ==
    IF \E i, j \in DOMAIN ds : i < j /\ ds[i].x = ds[j].x THEN Fault("duplicate definition")
    ELSE AndThen(EvalDefs(ds, env), LAMBDA vs :
             Done(Tie([i \in DOMAIN ds |-> [x |-> ds[i].x, v |-> vs[i]]]) @@ env))
=============================================================================
