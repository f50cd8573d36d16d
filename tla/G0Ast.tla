------------------------------- MODULE G0Ast -------------------------------
(***************************************************************************)
(* The syntax trees of gen0-interp-rs/src/ast.rs, shared by its parser,    *)
(* type inference and evaluator and by the gen 2 compiler.  Positions are  *)
(* left out.  A constructor in an expression is a variable with its name:  *)
(* the lexer never gives a variable a constructor's name.                  *)
(***************************************************************************)
EXTENDS Integers, SequencesExt

EInt(n) == [k |-> "lit", ty |-> "Int", v |-> n]
EBool(b) == [k |-> "lit", ty |-> "Bool", v |-> b]
EStr(s) == [k |-> "lit", ty |-> "String", v |-> s]
EUnit == [k |-> "lit", ty |-> "Unit", v |-> "unit"]
EVar(x) == [k |-> "var", x |-> x]
ELam(p, e) == [k |-> "lam", p |-> p, e |-> e]
EApp(f, a) == [k |-> "app", f |-> f, a |-> a]
EBin(op, l, r) == [k |-> "bin", op |-> op, l |-> l, r |-> r]
EIf(c, t, e) == [k |-> "if", c |-> c, t |-> t, e |-> e]
ECase(e, brs) == [k |-> "case", e |-> e, brs |-> brs]
ELet(isrec, x, rhs, e) == [k |-> "let", isrec |-> isrec, x |-> x, rhs |-> rhs, e |-> e]
ESeq(l, r) == [k |-> "seq", l |-> l, r |-> r]
ETup(es) == [k |-> "tup", es |-> es]
EAnn(e, ty) == [k |-> "ann", e |-> e, ty |-> ty]

PWild == [k |-> "wild"]
PVar(x) == [k |-> "var", x |-> x]
PLit(e) == e
PBool(b) == EBool(b)
PTup(ps) == [k |-> "tup", ps |-> ps]
PCtor(c, ps) == [k |-> "ctor", c |-> c, ps |-> ps]

(* Written types.                                                          *)
AVar(a) == [k |-> "avar", a |-> a]
ACon(n, ts) == [k |-> "acon", n |-> n, ts |-> ts]
AArrow(t, u) == [k |-> "aarrow", ts |-> <<t, u>>]
ATup(ts) == [k |-> "atup", ts |-> ts]

(* Items.  ann is <<>> or <<type>>; a group of one is not a RecGroup.      *)
FunDef(isrec, x, ps, ann, e) == [isrec |-> isrec, x |-> x, ps |-> ps, ann |-> ann, e |-> e]
GroupItem(ds) == [k |-> "def", ds |-> ds]
TyDecl(name, params, ctors) == [k |-> "type", name |-> name, params |-> params, ctors |-> ctors]
CtorDecl(c, fs) == [c |-> c, fs |-> fs]

(* wrap_params: a definition's parameters become a chain of functions.     *)
WrapParams(ps, body) == FoldRight(LAMBDA p, e : ELam(p, e), ps, body)

(* Lists are written with brackets or with :: and are Cons and Nil.        *)
NilE == EVar("Nil")
ConsE(h, t) == EApp(EApp(EVar("Cons"), h), t)
=============================================================================
