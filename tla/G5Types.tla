------------------------------ MODULE G5Types ------------------------------
(***************************************************************************)
(* The solver of gen5/g5_infer.dc: types with rows, the two substitutions, *)
(* the occurs checks, unification, snapshots and rollback, instantiation   *)
(* and generalization.                                                     *)
(*                                                                         *)
(* Base types, functions, tuples and declared types are one constructor    *)
(* applied to arguments.  The fields of a record type are a function from  *)
(* labels: nothing below depends on their order.  A row tail is <<>> when  *)
(* the record is closed and <<r>> when it ends in row r; r < 0 is rigid.   *)
(* Error messages are left out, a failure is a Boolean.                    *)
(***************************************************************************)
EXTENDS Integers, SequencesExt

TVar(x) == [k |-> "var", id |-> x]
TCon(n, ts) == [k |-> "con", name |-> n, args |-> ts]
TRec(fs, tl) == [k |-> "rec", fields |-> fs, tail |-> tl]

Base(n) == TCon(n, <<>>)
Arrow(a, b) == TCon("->", <<a, b>>)

Closed == <<>>
Open(r) == <<r>>
Rigid(r) == r < 0

(* TIS5, as far as the types are concerned.  The code's lists are newest   *)
(* first, these sequences newest last.  eqs is a history: the equations    *)
(* solved since the substitution was last cleared.                         *)
NewState == [subst |-> <<>>, rows |-> <<>>, ctr |-> 0, rowctr |-> 0, holevars |-> <<>>,
             holes |-> <<>>, tydefs |-> <<>>, eqs |-> <<>>]

Bound(b, x) == \E i \in DOMAIN b : b[i].id = x
BindingOf(b, x) ==
    LET i == CHOOSE j \in DOMAIN b : b[j].id = x /\ \A k \in DOMAIN b : k > j => b[k].id # x
    IN  b[i].to

RECURSIVE Chase(_, _)
Chase(s, t) == IF t.k = "var" /\ Bound(s.subst, t.id)
               THEN Chase(s, BindingOf(s.subst, t.id)) ELSE t

(* g5_merge_fields: of two fields with one label the later one counts.     *)
Merge(fs, gs) == gs @@ fs

(* What a tail stands for: the fields bound to it and where they end.      *)
RECURSIVE RowChase(_, _)
RowChase(s, tl) ==
    IF tl = Closed \/ ~Bound(s.rows, tl[1]) THEN TRec(<<>>, tl)
    ELSE LET b == BindingOf(s.rows, tl[1])
             rest == RowChase(s, b.tail)
         IN  TRec(Merge(b.fields, rest.fields), rest.tail)

Flat(s, t) == LET r == RowChase(s, t.tail) IN TRec(Merge(t.fields, r.fields), r.tail)

RECURSIVE Apply(_, _)
Apply(s, t) ==
    LET c == Chase(s, t) IN
    CASE c.k = "var" -> c
      [] c.k = "con" -> [c EXCEPT !.args = [i \in DOMAIN @ |-> Apply(s, @[i])]]
      [] c.k = "rec" -> LET f == Flat(s, c)
                        IN  [f EXCEPT !.fields = [l \in DOMAIN @ |-> Apply(s, @[l])]]

RECURSIVE Occurs(_, _, _)
Occurs(x, t, s) ==
    LET c == Chase(s, t) IN
    CASE c.k = "var" -> c.id = x
      [] c.k = "con" -> \E i \in DOMAIN c.args : Occurs(x, c.args[i], s)
      [] c.k = "rec" -> LET f == Flat(s, c).fields
                        IN  \E l \in DOMAIN f : Occurs(x, f[l], s)

RECURSIVE RowOccurs(_, _, _)
RowOccurs(r, t, s) ==
    LET c == Chase(s, t)
        e == RowChase(s, c.tail)
    IN  CASE c.k = "var" -> FALSE
          [] c.k = "con" -> \E i \in DOMAIN c.args : RowOccurs(r, c.args[i], s)
          [] c.k = "rec" -> \/ \E l \in DOMAIN c.fields : RowOccurs(r, c.fields[l], s)
                            \/ \E l \in DOMAIN e.fields : RowOccurs(r, e.fields[l], s)
                            \/ e.tail = Open(r)

RowOccursIn(r, fs, s) == \E l \in DOMAIN fs : RowOccurs(r, fs[l], s)

(* The variables of a type as it stands; of Apply(s, t) they are the code's *)
(* chased free variables.                                                  *)
RECURSIVE TyVars(_)
TyVars(t) == CASE t.k = "var" -> {t.id}
               [] t.k = "con" -> UNION {TyVars(t.args[i]) : i \in DOMAIN t.args}
               [] t.k = "rec" -> UNION {TyVars(t.fields[l]) : l \in DOMAIN t.fields}
RECURSIVE RowVars(_)
RowVars(t) == CASE t.k = "var" -> {}
                [] t.k = "con" -> UNION {RowVars(t.args[i]) : i \in DOMAIN t.args}
                [] t.k = "rec" -> ToSet(t.tail) \cup UNION {RowVars(t.fields[l]) : l \in DOMAIN t.fields}

-----------------------------------------------------------------------------
(* Allocators, snapshots.                                                  *)

FreshN(s, n) == [s EXCEPT !.ctr = @ + n]
FreshRows(s, n) == [s EXCEPT !.rowctr = @ + n]

(* The snapshot keeps lengths; the counters are never set back.            *)
Snapshot(s) == [subst |-> Len(s.subst), rows |-> Len(s.rows), holevars |-> Len(s.holevars),
                eqs |-> Len(s.eqs)]

(* Mutant: the newest entries are kept instead of the oldest.              *)
RollbackKeepsNew(s, snap) ==
    [s EXCEPT !.subst = SubSeq(@, Len(@) - snap.subst + 1, Len(@)),
              !.rows = SubSeq(@, Len(@) - snap.rows + 1, Len(@)),
              !.holevars = SubSeq(@, 1, snap.holevars), !.eqs = SubSeq(@, 1, snap.eqs)]

Rollback(s, snap) ==
    [s EXCEPT !.subst = SubSeq(@, 1, snap.subst), !.rows = SubSeq(@, 1, snap.rows),
              !.holevars = SubSeq(@, 1, snap.holevars), !.eqs = SubSeq(@, 1, snap.eqs)]

-----------------------------------------------------------------------------
(* Unification.                                                            *)

(* Results have the state, and more if all went well.  Then goes on with   *)
(* the result unless it is a failure.                                      *)
Ok(s) == [ok |-> TRUE, s |-> s]
Fail(s) == [ok |-> FALSE, s |-> s]
Then(r, F(_)) == IF r.ok THEN F(r) ELSE r

Bind(x, t, s) == IF Occurs(x, t, s) THEN Fail(s)
                 ELSE Ok([s EXCEPT !.subst = Append(@, [id |-> x, to |-> t])])

Only(f, g) == [l \in DOMAIN f \ DOMAIN g |-> f[l]]
Empty(fs) == DOMAIN fs = {}
Fixed(tl) == tl = Closed \/ Rigid(tl[1])

RECURSIVE Unify(_, _, _), UnifyAll(_, _, _), BindRows(_, _)

(* Corresponding members of two sequences, until one pair fails.           *)
UnifyAll(as, bs, s) ==
    IF as = <<>> \/ bs = <<>> THEN [ok |-> as = bs, s |-> s]
    ELSE Then(Unify(Head(as), Head(bs), s), LAMBDA r : UnifyAll(Tail(as), Tail(bs), r.s))

Grow(r, fs, tl) == [id |-> r, to |-> TRec(fs, tl)]
BindRow(b, s) ==
    CASE Rigid(b.id) \/ RowOccurs(b.id, b.to, s) -> Fail(s)
      [] OTHER -> IF Bound(s.rows, b.id) THEN Unify(BindingOf(s.rows, b.id), b.to, s)
                  ELSE Ok([s EXCEPT !.rows = Append(@, b)])
BindRows(bs, s) ==
    IF bs = <<>> THEN Ok(s) ELSE Then(BindRow(Head(bs), s), LAMBDA r : BindRows(Tail(bs), r.s))

(* The fields that one side alone has go into the tail of the other; two   *)
(* rows both end in a new one.                                             *)
Growth(only1, only2, tl1, tl2, new) ==
    CASE Fixed(tl1) -> <<Grow(tl2[1], only1, tl1)>>
      [] ~Fixed(tl1) /\ Fixed(tl2) -> <<Grow(tl1[1], only2, tl2)>>
      [] OTHER -> <<Grow(tl1[1], only2, new), Grow(tl2[1], only1, new)>>

Clash(only1, only2, tl1, tl2, s) ==
    \/ Fixed(tl1) /\ (Fixed(tl2) \/ ~Empty(only2))
    \/ Fixed(tl2) /\ ~Empty(only1)
    \/ /\ ~Fixed(tl1) /\ ~Fixed(tl2)
       /\ RowOccursIn(tl1[1], only2, s) \/ RowOccursIn(tl2[1], only1, s)

UnifyTails(only1, only2, tl1, tl2, s) ==
    CASE tl1 = tl2 -> [ok |-> Empty(only1) /\ Empty(only2), s |-> s]
      [] tl1 # tl2 /\ Clash(only1, only2, tl1, tl2, s) -> Fail(s)
      [] OTHER -> BindRows(Growth(only1, only2, tl1, tl2, Open(s.rowctr)),
                           IF Fixed(tl1) \/ Fixed(tl2) THEN s ELSE FreshRows(s, 1))

(* Common labels first; the fields are collected again before the tails,   *)
(* for the common ones may have bound a row.                               *)
UnifyCommon(f1, f2, s) ==
    LET common == SetToSeq(DOMAIN f1 \cap DOMAIN f2)
    IN  UnifyAll([i \in DOMAIN common |-> f1[common[i]]], [i \in DOMAIN common |-> f2[common[i]]], s)
UnifyRest(r1, r2, s) ==
    UnifyTails(Only(r1.fields, r2.fields), Only(r2.fields, r1.fields), r1.tail, r2.tail, s)
UnifyRecs(t1, t2, s) ==
    Then(UnifyCommon(Flat(s, t1).fields, Flat(s, t2).fields, s),
         LAMBDA r : UnifyRest(Flat(r.s, t1), Flat(r.s, t2), r.s))

UnifyChased(t1, t2, s) ==
    CASE t1.k = "var" -> IF t1 = t2 THEN Ok(s) ELSE Bind(t1.id, t2, s)
      [] t1.k # "var" /\ t2.k = "var" -> Bind(t2.id, t1, s)
      [] t1.k = "con" /\ t2.k = "con" ->
           IF t1.name = t2.name THEN UnifyAll(t1.args, t2.args, s) ELSE Fail(s)
      [] t1.k = "rec" /\ t2.k = "rec" -> UnifyRecs(t1, t2, s)
      [] OTHER -> Fail(s)
Unify(a, b, s) == UnifyChased(Chase(s, a), Chase(s, b), s)

(* A unification that the inference asks for, and its history.             *)
Solve(a, b, s) ==
    Then(Unify(a, b, s), LAMBDA r : [r EXCEPT !.s.eqs = Append(@, <<a, b>>)])
RECURSIVE SolveAll(_, _)
SolveAll(eqs, s) ==
    IF eqs = <<>> THEN Ok(s)
    ELSE Then(Solve(eqs[1][1], eqs[1][2], s), LAMBDA r : SolveAll(Tail(eqs), r.s))

-----------------------------------------------------------------------------
(* Schemes.  An environment is a list, newest first, that keeps what is    *)
(* shadowed.                                                               *)

Scheme(q, qr, t, p) == [q |-> q, qr |-> qr, t |-> t, partial |-> p]
Mono(t) == Scheme({}, {}, t, FALSE)

(* Variables and rows replaced, mp giving types and rmp rows.              *)
RECURSIVE Rename(_, _, _)
Rename(t, mp, rmp) ==
    CASE t.k = "var" -> IF t.id \in DOMAIN mp THEN mp[t.id] ELSE t
      [] t.k = "con" -> [t EXCEPT !.args = [i \in DOMAIN @ |-> Rename(@[i], mp, rmp)]]
      [] t.k = "rec" -> TRec([l \in DOMAIN t.fields |-> Rename(t.fields[l], mp, rmp)],
                             IF t.tail # Closed /\ t.tail[1] \in DOMAIN rmp
                             THEN Open(rmp[t.tail[1]]) ELSE t.tail)

(* Consecutive numbers from base for the members of a set.                 *)
Numbered(S, base) == LET q == SetToSeq(S)
                     IN  [x \in S |-> base - 1 + CHOOSE i \in DOMAIN q : q[i] = x]
AsVars(ids) == [x \in DOMAIN ids |-> TVar(ids[x])]

(* The result: the state and the instance.                                 *)
Instantiate(sch, s) ==
    [s |-> FreshRows(FreshN(s, Cardinality(sch.q)), Cardinality(sch.qr)),
     t |-> Rename(Apply(s, sch.t), AsVars(Numbered(sch.q, s.ctr)), Numbered(sch.qr, s.rowctr))]

EnvTyVars(env, s) == UNION {TyVars(Apply(s, env[i].sch.t)) \ env[i].sch.q : i \in DOMAIN env}
EnvRowVars(env, s) == UNION {RowVars(Apply(s, env[i].sch.t)) \ env[i].sch.qr : i \in DOMAIN env}

Tainted(t, s) == TyVars(Apply(s, t)) \cap ToSet(s.holevars) # {}
TaintUse(t, s) ==
    [s EXCEPT !.holevars = @ \o SetToSeq(TyVars(Apply(s, t)) \ ToSet(@))]

Generalize(env, t, s) ==
    Scheme(TyVars(Apply(s, t)) \ EnvTyVars(env, s), RowVars(Apply(s, t)) \ EnvRowVars(env, s),
           t, Tainted(t, s))
=============================================================================
