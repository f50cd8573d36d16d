----------------------------- MODULE G5Typing -----------------------------
(***************************************************************************)
(* A program from its items to its values: g5_run_items (g5_infer.dc) as   *)
(* far as types are concerned, one step for each call it makes on an item, *)
(* then the evaluation of what was accepted.                               *)
(*                                                                         *)
(* A program here is a sequence of type declarations, groups of            *)
(* definitions and sigs; what follows a failed item is G5Items' matter, a  *)
(* program that fails stops as "rejected".  The other kind of program is a *)
(* sequence of equations given to the solver itself, as the unit probes do *)
(* (probe_row_unify.dc); "try" undoes the equation again, as a hole's      *)
(* candidates are.  A partial program is one with a hole: its user puts    *)
(* one of the offered names into the hole and checks again.                *)
(***************************************************************************)
EXTENDS G5Eval

CONSTANT Programs      \* a sequence of programs

VARIABLES prog,        \* the program
          pos,         \* its item at hand
          status,      \* "checking" .. "sigs" .. "rejected" / "partial" / "running" .. a fault / "ran"
          st, env,     \* TIS5 and the environment
          snap,        \* the snapshot taken before the group
          group,       \* the inferred entries of the group, not yet in env
          due,         \* names of the group whose sigs are not yet checked
          verdict,     \* history: the last contract checked
          filled,      \* history: this program was made from a partial one
          vals         \* the globals of the running program

vars == <<prog, pos, status, st, env, snap, group, due, verdict, filled, vals>>
checking == <<st, env, snap, group, due, verdict>>

NoVerdict == <<>>
Equation(a, b) == [k |-> "eq", a |-> a, b |-> b]
Attempt(a, b) == [k |-> "try", a |-> a, b |-> b]
IsProbe(p) == p[1].k \in {"eq", "try"}

(* The probes write variables and rows by hand, below 10.                  *)
ProbeState == [NewState EXCEPT !.ctr = 10, !.rowctr = 10]

Start(p) ==
    /\ prog = p
    /\ pos = 1 /\ status = "checking" /\ group = <<>> /\ due = <<>> /\ verdict = NoVerdict
    /\ st = IF IsProbe(p) THEN ProbeState ELSE InitState
    /\ env = InitEnv /\ snap = Snapshot(st) /\ vals = InitValues

Init == filled = FALSE /\ LET ps == Programs IN \E i \in DOMAIN ps : Start(ps[i])

Turn(k) == status = "checking" /\ pos <= Len(prog) /\ prog[pos].k = k
Item == prog[pos]
SigOf(x) == CHOOSE s \in ToSet(SelectSeq(prog, LAMBDA it : it.k = "sig")) : s.x = x
HasSig(x) == \E i \in DOMAIN prog : prog[i].k = "sig" /\ prog[i].x = x

Reject(s) ==
    /\ status' = "rejected" /\ st' = s /\ group' = <<>> /\ due' = <<>>
    /\ UNCHANGED <<prog, pos, env, snap, filled, vals>>

(* The names enter the environment, the item's bindings are forgotten.     *)
Enter(binds, s) ==
    /\ env' = NormEnv(binds \o env, s) /\ st' = Boundary(s)
    /\ pos' = pos + 1 /\ status' = "checking" /\ group' = <<>>

CheckType ==
    /\ Turn("type")
    /\ UNCHANGED verdict
    /\ LET r == CheckTypeDecl(Item, st)
       IN  IF r.ok THEN Enter(r.binds, r.s) /\ UNCHANGED <<prog, snap, due, filled, vals>>
           ELSE Reject(r.s)

InferDefs ==
    /\ Turn("def")
    /\ UNCHANGED verdict
    /\ LET r == InferGroup(Item.ds, env, st)
           names == [i \in DOMAIN Item.ds |-> Item.ds[i].x]
       IN  IF r.ok
           THEN /\ status' = "sigs" /\ st' = r.s /\ snap' = Snapshot(st)
                /\ group' = r.binds /\ due' = SelectSeq(names, HasSig)
                /\ UNCHANGED <<prog, pos, env, filled, vals>>
           ELSE Reject(Rollback(r.s, Snapshot(st)))

CheckContract ==
    /\ status = "sigs" /\ due # <<>>
    /\ LET sig == SigOf(Head(due))
           sch == SchemeOf(group, Head(due))
           r == SigCheck(sig, sch, st)
       IN  /\ verdict' = [sig |-> sig, sch |-> [sch EXCEPT !.t = Apply(st, @)], ok |-> r.ok]
           /\ IF r.ok THEN /\ due' = Tail(due) /\ st' = r.s
                           /\ UNCHANGED <<prog, pos, status, env, snap, group, filled, vals>>
              ELSE Reject(Rollback(r.s, snap))

Commit ==
    /\ status = "sigs" /\ due = <<>>
    /\ Enter(group, st)
    /\ UNCHANGED <<prog, snap, due, verdict, filled, vals>>

SkipSig ==
    /\ Turn("sig")
    /\ pos' = pos + 1
    /\ UNCHANGED <<prog, status, checking, filled, vals>>

(* g5_finish: sigs need definitions, holes make the program partial.       *)
Finish ==
    /\ status = "checking" /\ pos > Len(prog) /\ ~IsProbe(prog)
    /\ IF \E i \in DOMAIN prog : prog[i].k = "sig" /\ ~Known(env, prog[i].x)
       THEN status' = "rejected" /\ pos' = pos
       ELSE IF st.holes # <<>> THEN status' = "partial" /\ pos' = pos
            ELSE status' = "running" /\ pos' = 1
    /\ UNCHANGED <<prog, checking, filled, vals>>

SolveEquation ==
    /\ Turn("eq")
    /\ UNCHANGED verdict
    /\ LET r == Solve(Item.a, Item.b, st)
       IN  IF r.ok THEN pos' = pos + 1 /\ st' = r.s
                        /\ UNCHANGED <<prog, status, env, snap, group, due, filled, vals>>
           ELSE Reject(Rollback(r.s, Snapshot(st)))

TryEquation ==
    /\ Turn("try")
    /\ pos' = pos + 1
    /\ st' = Rollback(Solve(Item.a, Item.b, st).s, Snapshot(st))
    /\ UNCHANGED <<prog, status, env, snap, group, due, verdict, filled, vals>>

-----------------------------------------------------------------------------
(* Running.                                                                *)

RunItem ==
    /\ status = "running" /\ pos <= Len(prog)
    /\ LET r == CASE Item.k = "def" -> DefineGroup(Item.ds, vals)
                  [] Item.k = "type" -> Done(CtorValues(Item) @@ vals)
                  [] Item.k = "sig" -> Done(vals)
       IN  IF Went(r) THEN vals' = r.v /\ pos' = pos + 1 /\ UNCHANGED status
           ELSE status' = r.fault /\ UNCHANGED <<vals, pos>>
    /\ UNCHANGED <<prog, checking, filled>>

RunMain ==
    /\ status = "running" /\ pos > Len(prog)
    /\ status' = IF "main" \in DOMAIN vals /\ vals["main"].k = "fun"
                 THEN LET r == ApplyFun(vals["main"], EUnit) IN IF Went(r) THEN "ran" ELSE r.fault
                 ELSE "ran"
    /\ UNCHANGED <<prog, pos, checking, filled, vals>>

-----------------------------------------------------------------------------
(* A name for the hole.                                                    *)

RECURSIVE Plug(_, _)
Plug(e, x) ==
    CASE e.k = "hole" -> EVar(x)
      [] e.k \in {"lit", "var"} -> e
      [] e.k \in {"lam", "ann", "proj"} -> [e EXCEPT !.e = Plug(@, x)]
      [] e.k = "app" -> [e EXCEPT !.f = Plug(@, x), !.a = Plug(@, x)]
      [] e.k = "bin" -> [e EXCEPT !.l = Plug(@, x), !.r = Plug(@, x)]
      [] e.k = "if" -> [e EXCEPT !.c = Plug(@, x), !.t = Plug(@, x), !.e = Plug(@, x)]
      [] e.k = "case" -> [e EXCEPT !.e = Plug(@, x),
                                   !.brs = [i \in DOMAIN @ |-> <<@[i][1], Plug(@[i][2], x)>>]]
      [] e.k = "let" -> [e EXCEPT !.rhs = Plug(@, x), !.e = Plug(@, x)]
      [] e.k \in {"tup", "rec"} -> [e EXCEPT !.es = [i \in DOMAIN @ |-> Plug(@[i], x)]]
      [] e.k = "with" -> [e EXCEPT !.e = Plug(@, x), !.u = Plug(@, x)]

FillProgram(p, x) ==
    [i \in DOMAIN p |->
        IF p[i].k = "def" THEN [p[i] EXCEPT !.ds = [j \in DOMAIN @ |-> [@[j] EXCEPT !.e = Plug(@, x)]]]
        ELSE p[i]]

Fill ==
    /\ status = "partial" /\ Len(st.holes) = 1
    /\ \E c \in DOMAIN st.holes[1].cands :
          LET p == FillProgram(prog, st.holes[1].cands[c].x)
          IN  /\ prog' = p /\ filled' = TRUE
              /\ pos' = 1 /\ status' = "checking" /\ group' = <<>> /\ due' = <<>>
              /\ verdict' = NoVerdict /\ st' = InitState /\ env' = InitEnv
              /\ snap' = Snapshot(InitState) /\ vals' = InitValues

Next == \/ CheckType \/ InferDefs \/ CheckContract \/ Commit \/ SkipSig \/ Finish
        \/ SolveEquation \/ TryEquation \/ RunItem \/ RunMain \/ Fill
Spec == Init /\ [][Next]_vars
=============================================================================
