------------------------------- MODULE G0Run -------------------------------
(***************************************************************************)
(* The interpreter as a tool: gen0-interp-rs/src/lib.rs and main.rs.  What *)
(* it leaves behind is its exit code and its output; the values of the     *)
(* definitions are kept to be looked at.                                   *)
(***************************************************************************)
EXTENDS G0Parse

I == INSTANCE G0Infer
E == INSTANCE G5Eval

Outcome(exit, out, env) == [exit |-> exit, out |-> out, env |-> env]
Failed(exit, out) == Outcome(exit, out, <<>>)

Wrapped(ds) == [i \in DOMAIN ds |-> [x |-> ds[i].x, e |-> WrapParams(ds[i].ps, ds[i].e)]]
RunItem(r, it) ==
    E!AndThen(r, LAMBDA env : IF it.k = "type" THEN E!Done(E!CtorValues(it) @@ env)
                              ELSE E!DefineGroup(Wrapped(it.ds), env))
(* A main that is not a function is left alone.                            *)
RunMain(env) ==
    IF "main" \in DOMAIN env /\ E!IsFunction(env["main"])
    THEN E!AndThen(E!ApplyFun(env["main"], EUnit), LAMBDA v : E!Done(env)) ELSE E!Done(env)
RunItems(items) ==
    E!AndThen(FoldLeft(RunItem, E!Done(E!BuiltinValues @@ E!InitValues), items), RunMain)

(* An operand of the wrong type is a panic of the worker thread.           *)
ExitOf(r) == CASE E!Went(r) -> Outcome(0, r.out, r.v)
               [] r.fault = "stuck" -> Failed(101, r.out)
               [] OTHER -> Failed(1, r.out)

RunParsed(p) == IF p.ok /\ I!CheckProgram(p.v).ok THEN ExitOf(RunItems(p.v)) ELSE Failed(1, <<>>)
RunSource(src) == LET t == Lex(src) IN IF t.ok THEN RunParsed(Parse(t.toks)) ELSE Failed(1, <<>>)
=============================================================================
