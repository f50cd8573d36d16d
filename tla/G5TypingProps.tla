-------------------------- MODULE G5TypingProps --------------------------
(***************************************************************************)
(* What the inference promises.                                            *)
(***************************************************************************)
EXTENDS G5Typing

CONSTANTS SomeTypes,   \* closed types, for the variables of the probes
          SomeRows     \* rows of closed types, for their row variables

(***************************************************************************)
(* Matching, the reference that unification is compared with: is t an      *)
(* instance of p, with ty and row for the variables and rows of p?  Only   *)
(* p's variables stand for something, the rows of t stand for themselves.  *)
(***************************************************************************)
Nowhere == [ok |-> FALSE, ty |-> <<>>, row |-> <<>>]
Anywhere == [ok |-> TRUE, ty |-> <<>>, row |-> <<>>]

MatchTail(tl, rest, m) ==
    CASE tl = Closed \/ Rigid(tl[1]) -> IF Empty(rest.fields) /\ rest.tail = tl THEN m ELSE Nowhere
      [] OTHER -> IF tl[1] \in DOMAIN m.row
                  THEN IF m.row[tl[1]] = rest THEN m ELSE Nowhere
                  ELSE [m EXCEPT !.row = tl[1] :> rest @@ @]

RECURSIVE Match(_, _, _), MatchAll(_, _, _)
MatchAll(ps, ts, m) ==
    IF ps = <<>> THEN m ELSE MatchAll(Tail(ps), Tail(ts), Match(Head(ps), Head(ts), m))
Match(p, t, m) ==
    CASE ~m.ok -> m
      [] m.ok /\ p.k = "var" ->
           IF p.id \in DOMAIN m.ty THEN IF m.ty[p.id] = t THEN m ELSE Nowhere
           ELSE [m EXCEPT !.ty = p.id :> t @@ @]
      [] m.ok /\ p.k = "con" ->
           IF t.k = "con" /\ t.name = p.name /\ Len(t.args) = Len(p.args)
           THEN MatchAll(p.args, t.args, m) ELSE Nowhere
      [] m.ok /\ p.k = "rec" ->
           IF t.k = "rec" /\ DOMAIN p.fields \subseteq DOMAIN t.fields
           THEN LET ls == SetToSeq(DOMAIN p.fields)
                IN  LET n == MatchAll([i \in DOMAIN ls |-> p.fields[ls[i]]],
                                      [i \in DOMAIN ls |-> t.fields[ls[i]]], m)
                    IN  IF n.ok THEN MatchTail(p.tail, TRec(Only(t.fields, p.fields), t.tail), n)
                        ELSE n
           ELSE Nowhere

-----------------------------------------------------------------------------
(* Variables, rows and records of a probe.                                 *)

RECURSIVE Records(_)
Records(t) == CASE t.k = "var" -> {}
                [] t.k = "con" -> UNION {Records(t.args[i]) : i \in DOMAIN t.args}
                [] t.k = "rec" -> {t} \cup UNION {Records(t.fields[l]) : l \in DOMAIN t.fields}

Sides == UNION {{prog[i].a, prog[i].b} : i \in DOMAIN prog}
ProbeVars == UNION {TyVars(t) : t \in Sides}
ProbeRows == {r \in UNION {RowVars(t) : t \in Sides} : ~Rigid(r)}

(* Everything the variables could stand for, as far as the two universes   *)
(* go; a row never has a label that stands beside it.                      *)
Groundings ==
    {c \in [ty : [ProbeVars -> SomeTypes], row : [ProbeRows -> SomeRows]] :
        \A t \in Sides : \A r \in Records(t) :
            r.tail = Closed \/ Rigid(r.tail[1]) \/ DOMAIN r.fields \cap DOMAIN c.row[r.tail[1]] = {}}

RECURSIVE Ground(_, _)
Ground(t, c) ==
    CASE t.k = "var" -> c.ty[t.id]
      [] t.k = "con" -> [t EXCEPT !.args = [i \in DOMAIN @ |-> Ground(@[i], c)]]
      [] t.k = "rec" ->
           LET fs == [l \in DOMAIN t.fields |-> Ground(t.fields[l], c)]
           IN  IF t.tail = Closed \/ Rigid(t.tail[1]) THEN TRec(fs, t.tail)
               ELSE TRec(fs @@ c.row[t.tail[1]], Closed)

SolvedBy(c, n) == \A i \in 1 .. n : prog[i].k = "eq" => Ground(prog[i].a, c) = Ground(prog[i].b, c)

(* What the state says of every variable and row, and what a choice says.  *)
Told(c) ==
    LET vs == SetToSeq(ProbeVars)
        rs == SetToSeq(ProbeRows)
    IN  MatchAll([i \in DOMAIN vs |-> Apply(st, TVar(vs[i]))] \o [i \in DOMAIN rs |-> Apply(st, TRec(<<>>, Open(rs[i])))],
                 [i \in DOMAIN vs |-> c.ty[vs[i]]] \o [i \in DOMAIN rs |-> TRec(c.row[rs[i]], Closed)],
                 Anywhere)

-----------------------------------------------------------------------------
(* Between items nothing depends on the substitution that the boundary     *)
(* clears: every variable and row of the environment is quantified.        *)
EnvClosed == status = "checking" => EnvTyVars(env, st) = {} /\ EnvRowVars(env, st) = {}

(* The state is well formed, also between items.                           *)
TypeOK ==
    /\ pos \in 1 .. Len(prog) + 1
    /\ status \in {"checking", "sigs", "rejected", "partial", "running", "ran", "stuck", "unbound variable",
                   "unknown record field", "functions compared", "no case", "not a function", "no function"}
    /\ due # <<>> => status = "sigs"
    /\ group # <<>> => status = "sigs"
    /\ \A i \in DOMAIN st.subst : st.subst[i].id \in 0 .. st.ctr - 1
    /\ \A i \in DOMAIN st.rows : st.rows[i].id \in 0 .. st.rowctr - 1
    /\ EnvClosed

(* What unification accepted, it made equal, and later steps leave equal:  *)
(* both sides of every equation since the last boundary are the same type. *)
Solved == \A i \in DOMAIN st.eqs : Apply(st, st.eqs[i][1]) = Apply(st, st.eqs[i][2])

(* Unification neither refuses what has a solution nor asks for more than  *)
(* the equations do: every choice that solves them is an instance of the   *)
(* substitution, trials in between or not, and none solves what was        *)
(* refused.  What was accepted is solved, in every program.                *)
MostGeneral ==
    /\ TypeOK /\ Solved
    /\ IsProbe(prog) =>
        IF status = "rejected" THEN ~\E c \in Groundings : SolvedBy(c, pos)
        ELSE \A c \in Groundings : SolvedBy(c, pos - 1) => Told(c).ok

(* A contract is accepted exactly if it is an instance of the inferred     *)
(* scheme, its own variables and rows taken for constants.                 *)
ContractsExact ==
    verdict # NoVerdict =>
        LET d == ResolveSig(verdict.sig, st)
        IN  verdict.ok <=> d.ok /\ Match(verdict.sch.t, d.t, Anywhere).ok

(* A name that is offered for a hole fits: the program is not refused for  *)
(* it.                                                                     *)
FillsRecheck == filled => status # "rejected"

-----------------------------------------------------------------------------
(* Values of types.  A function may have any arrow type, a variable stands *)
(* for anything.                                                           *)

RECURSIVE Pairs(_)
Pairs(v) == IF IsCons(v) THEN <<v.vs[1].vs>> \o Pairs(v.vs[2]) ELSE <<>>
IsRecordValue(v) == v.k = "adt" /\ v.c \in {"Nil", "Cons"}

RECURSIVE HasType(_, _)
HasType(v, t) ==
    CASE t.k = "var" -> TRUE
      [] t.k = "con" /\ t.name \in {"Int", "Bool", "String", "Unit"} -> IsLit(v, t.name)
      [] t.k = "con" /\ t.name = "->" -> v.k \in {"fun", "ctor"}
      [] t.k = "con" /\ t.name = "," ->
           v.k = "tup" /\ Len(v.vs) = Len(t.args) /\ \A i \in DOMAIN v.vs : HasType(v.vs[i], t.args[i])
      [] t.k = "con" /\ t.name \notin {"Int", "Bool", "String", "Unit", "->", ","} ->
           /\ v.k = "adt" /\ Known(env, v.c)
           /\ LET sch == SchemeOf(env, v.c).t
                  n == Len(v.vs)
                  m == Match(ResultType(sch, n), t, Anywhere)
                  fs == ArgTypes(sch, n)
              IN  m.ok /\ \A i \in DOMAIN v.vs : HasType(v.vs[i], Rename(fs[i], m.ty, <<>>))
      [] t.k = "rec" ->
           /\ IsRecordValue(v)
           /\ LET ps == Pairs(v)
                  labels == {ps[i][1].v : i \in DOMAIN ps}
              IN  /\ DOMAIN t.fields \subseteq labels
                  /\ t.tail = Closed => labels = DOMAIN t.fields
                  /\ \A i \in DOMAIN ps : ps[i][1].v \in DOMAIN t.fields =>
                        HasType(ps[i][2], t.fields[ps[i][1].v])

(* What was accepted runs: it neither gets stuck nor misses a record       *)
(* field, and every global ends up with a value of its inferred type.      *)
RunsAsTyped ==
    /\ status \notin {"stuck", "no function", "unbound variable", "unknown record field"}
    /\ status = "ran" =>
         \A i \in DOMAIN env : env[i].x \in DOMAIN vals => HasType(vals[env[i].x], SchemeOf(env, env[i].x).t)

(* No accepted program asks a record for a field it lacks (test.sh: a      *)
(* missing field is a rejection).  False of records below constructors.    *)
FieldsPresent == status # "unknown record field"
=============================================================================
