------------------------------- MODULE G5Own -------------------------------
(***************************************************************************)
(* The ownership pass of gen5/g5_own.dc behind the ANF conversion: borrow  *)
(* inference, the insertion of dup and drop (Perceus), and the pairing of  *)
(* a drop with a later allocation of the same size.                        *)
(*                                                                         *)
(* Lists of variables that the code keeps in some order are sets: the      *)
(* order of two dups or drops of different variables is not told apart.    *)
(***************************************************************************)
EXTENDS G5Anf
LOCAL INSTANCE FiniteSetsExt

(* Words of a block, g5o_ctor_words, g5o_tup_words, g5o_closure_words.     *)
Words(tag, n) == CASE tag = "tup" -> 1 + n [] tag = "clo" -> 3 + n [] OTHER -> 2 + n
AllocWords(p) == Words(p.c, Len(p.as))

(* Mutant: a tuple has a word for a constructor id.                        *)
PatWordsTupId(p) ==
  IF ~HasParts(p) \/ (p.pk = "ctor" /\ p.ps = <<>>) THEN 0 ELSE Words("Cons", Len(p.ps))

(* g5o_pat_words.                                                          *)
PatWords(p) ==
  IF ~HasParts(p) \/ (p.pk = "ctor" /\ p.ps = <<>>) THEN 0 ELSE Words(p.c, Len(p.ps))

(* g5o_find_alloc in two halves: is there an allocation without a token in *)
(* the straight line, and the expression with the token set on the first.  *)
Fit(words, p) == IsAlloc(p) /\ p.tok = NoName /\ AllocWords(p) = words
Straight(e) == e.op = "let" \/ IsRc(e)

RECURSIVE AllocIn(_, _)
AllocIn(words, e) ==
  Straight(e) /\ ((e.op = "let" /\ Fit(words, e.p)) \/ AllocIn(words, e.e))

RECURSIVE SetTok(_, _, _)
SetTok(words, tok, e) ==
  IF e.op = "let" /\ Fit(words, e.p) THEN [e EXCEPT !.p.tok = tok]
  ELSE [e EXCEPT !.e = SetTok(words, tok, @)]

-----------------------------------------------------------------------------
(* Position modes: TRUE where the atom is consumed.  A callee that has no  *)
(* signature, or a shorter one, consumes.                                  *)
Consumes(sigs, p) ==
  [i \in DOMAIN p.as |->
     CASE p.op \in {"bi", "bin"} -> FALSE
       [] p.op = "app" -> i = 2
       [] p.op = "call" -> IF p.f \in DOMAIN sigs /\ i \in DOMAIN sigs[p.f]
                           THEN sigs[p.f][i] ELSE TRUE
       [] OTHER -> TRUE]

(* g5o_case_reusable.                                                      *)
CaseReusable(x, brs) ==
  \E i \in DOMAIN brs : LET w == PatWords(brs[i].p) IN
    w > 0 /\ x \notin Fv(brs[i].e) /\ AllocIn(w, brs[i].e)

(* g5o_cons_e: the variables at consuming positions; lambda bodies are not *)
(* entered.                                                                *)
RECURSIVE Cons(_, _)
ConsPrim(sigs, p) ==
  {p.as[i].x : i \in {j \in DOMAIN p.as : IsVar(p.as[j]) /\ Consumes(sigs, p)[j]}}
  \cup (IF p.op = "block" THEN Cons(sigs, p.body) ELSE {})
Cons(sigs, e) ==
  CASE e.op = "ret" -> VarsOf(<<e.a>>)
    [] e.op = "let" -> ConsPrim(sigs, e.p) \cup Cons(sigs, e.e)
    [] e.op = "if" -> Cons(sigs, e.t) \cup Cons(sigs, e.f)
    [] e.op = "case" -> UNION {Cons(sigs, e.brs[i].e) : i \in DOMAIN e.brs}
         \cup {x \in VarsOf(<<e.a>>) : CaseReusable(x, e.brs)}
    [] OTHER -> Cons(sigs, e.e)

InitSigs(odefs) == [f \in {g \in DOMAIN odefs : odefs[g].direct} |-> odefs[f].modes]

(* Mutant: the modes found by the last turn are not kept.                  *)
InferOnceForgets(odefs, sigs) ==
  [f \in DOMAIN sigs |-> [i \in DOMAIN sigs[f] |->
     ~sigs[f][i] /\ odefs[f].ps[i] \in Cons(sigs, odefs[f].body)]]

(* g5o_infer_once.                                                         *)
InferOnce(odefs, sigs) ==
  [f \in DOMAIN sigs |-> [i \in DOMAIN sigs[f] |->
     sigs[f][i] \/ odefs[f].ps[i] \in Cons(sigs, odefs[f].body)]]

(* The owned parameters; g5o_count_owned is their number.                  *)
Owned(sigs) == UNION {{<<f, i>> : i \in {j \in DOMAIN sigs[f] : sigs[f][j]}} :
                         f \in DOMAIN sigs}

-----------------------------------------------------------------------------
(* Perceus insertion.                                                      *)
RECURSIVE Dups(_, _, _)
Dups(x, n, e) == IF n = 0 THEN e ELSE ODup(x, Dups(x, n - 1, e))

(* count[x] dups of every x in S, and a drop of every x in S, before e.    *)
WrapDups(S, count, e) == FoldSet(LAMBDA x, r : Dups(x, count[x], r), e, S)
WrapDrops(S, e) == FoldSet(LAMBDA x, r : ODrop(x, r), e, S)

(* The variables of p and how often they are consumed and borrowed; self   *)
(* is the binder of a let rec, its own capture is no reference.            *)
Used(p, self) == VarsOf(p.as) \ {self}
Count(sigs, p, x, mode) ==
  Cardinality({i \in DOMAIN p.as : p.as[i] = Var(x) /\ Consumes(sigs, p)[i] = mode})
Borrowed(sigs, p, x) == Count(sigs, p, x, FALSE) > 0

(* Mutant: a variable that is consumed and borrowed counts as consumed.    *)
DupCountAliased(sigs, p, self, last) ==
  [x \in Used(p, self) |->
     IF x \in last /\ Count(sigs, p, x, TRUE) > 0
     THEN Count(sigs, p, x, TRUE) - 1 ELSE Count(sigs, p, x, TRUE)]

(* g5o_occ_split: a variable whose last use is p gives its own reference   *)
(* away, unless p also borrows it: then it is dropped behind p.            *)
DupCount(sigs, p, self, last) ==
  [x \in Used(p, self) |->
     IF x \in last /\ ~Borrowed(sigs, p, x)
     THEN Count(sigs, p, x, TRUE) - 1 ELSE Count(sigs, p, x, TRUE)]

DropsAfter(sigs, p, self, last) ==
  {x \in Used(p, self) \cap last : Borrowed(sigs, p, x)}

(* Mutant: dead variables are dropped at the returns, not at the head.     *)
RECURSIVE DropAtRet(_, _)
DropAtRet(S, e) ==
  CASE S = {} -> e
    [] e.op = "ret" -> WrapDrops(S, e)
    [] e.op = "if" -> [e EXCEPT !.t = DropAtRet(S, @), !.f = DropAtRet(S, @)]
    [] e.op = "case" -> [e EXCEPT !.brs = [i \in DOMAIN @ |->
                           Br(@[i].p, DropAtRet(S, @[i].e))]]
    [] OTHER -> [e EXCEPT !.e = DropAtRet(S, @)]
DropDeadLate(dead, e) == DropAtRet(dead, e)

(* Dead owned variables are dropped where they die.                        *)
DropDead(dead, e) == WrapDrops(dead, e)

(* The pattern variables that a branch of an owned scrutinee uses.         *)
OwnedByMatch(b) == PVars(b.p) \cap Fv(b.e)

(* g5o_own: owned are the variables this scope must consume exactly once.  *)
RECURSIVE OwnE(_, _, _)
OwnLive(sigs, e, owned) ==
  LET last == owned \ Fv(e.e)
      self == IF e.rec THEN e.x ELSE NoName
      p == CASE e.p.op = "lam" -> [e.p EXCEPT !.body = OwnE(sigs, @, {e.p.x})]
             [] e.p.op = "block" -> [e.p EXCEPT !.body = OwnE(sigs, @, last)]
             [] OTHER -> e.p
      rest == OwnE(sigs, e.e, {e.x} \cup (owned \cap Fv(e.e)))
      Branch(b) ==
        IF e.a.x \in owned /\ IsVar(e.a)
        THEN LET used == OwnedByMatch(b)
             IN WrapDups(used, [x \in used |-> 1], OwnE(sigs, b.e, owned \cup used))
        ELSE OwnE(sigs, b.e, owned)
  IN CASE e.op = "ret" -> WrapDups(VarsOf(<<e.a>>) \ owned, [x \in VarsOf(<<e.a>>) |-> 1], e)
       [] e.op = "let" ->
            WrapDups(Used(e.p, self), DupCount(sigs, e.p, self, last),
              Let(e.rec, e.x, p, WrapDrops(DropsAfter(sigs, e.p, self, last), rest)))
       [] e.op = "if" -> If(e.a, OwnE(sigs, e.t, owned), OwnE(sigs, e.f, owned))
       [] e.op = "case" -> Case(e.a, [i \in DOMAIN e.brs |-> Br(e.brs[i].p, Branch(e.brs[i]))])
OwnE(sigs, e, owned) ==
  DropDead(owned \ Fv(e), OwnLive(sigs, e, owned \cap Fv(e)))

-----------------------------------------------------------------------------
(* Reuse pairing; the result carries the number of the next token.         *)
RECURSIVE ReuseHead(_, _, _, _)

(* g5o_reuse_head: past the dups and other drops at the branch head to the *)
(* drop of the scrutinee x.                                                *)
ReuseHead(x, words, e, n) ==
  IF e.op = "drop" /\ e.x = x
  THEN IF AllocIn(words, e.e)
       THEN [e |-> DropReuse(x, <<"%r", n>>, SetTok(words, <<"%r", n>>, e.e)), n |-> n + 1]
       ELSE [e |-> e, n |-> n]
  ELSE IF e.op \in {"dup", "drop"}
  THEN LET r == ReuseHead(x, words, e.e, n) IN [e |-> [e EXCEPT !.e = r.e], n |-> r.n]
  ELSE [e |-> e, n |-> n]

RECURSIVE ReuseE(_, _), ReuseBrs(_, _, _)
ReusePrim(p, n) ==
  IF p.op \in {"lam", "block"}
  THEN LET r == ReuseE(p.body, n) IN [p |-> [p EXCEPT !.body = r.e], n |-> r.n]
  ELSE [p |-> p, n |-> n]
ReuseBrs(a, brs, n) ==
  IF brs = <<>> THEN [brs |-> <<>>, n |-> n]
  ELSE LET b == Head(brs)
           w == PatWords(b.p)
           h == IF IsVar(a) /\ w > 0 THEN ReuseHead(a.x, w, b.e, n) ELSE [e |-> b.e, n |-> n]
           r == ReuseE(h.e, h.n)
           t == ReuseBrs(a, Tail(brs), r.n)
       IN [brs |-> <<Br(b.p, r.e)>> \o t.brs, n |-> t.n]
ReuseE(e, n) ==
  CASE e.op = "ret" -> [e |-> e, n |-> n]
    [] e.op = "let" -> LET p == ReusePrim(e.p, n)
                           r == ReuseE(e.e, p.n)
                       IN [e |-> [e EXCEPT !.p = p.p, !.e = r.e], n |-> r.n]
    [] e.op = "if" -> LET t == ReuseE(e.t, n)
                          f == ReuseE(e.f, t.n)
                      IN [e |-> If(e.a, t.e, f.e), n |-> f.n]
    [] e.op = "case" -> LET r == ReuseBrs(e.a, e.brs, n)
                        IN [e |-> Case(e.a, r.brs), n |-> r.n]
    [] OTHER -> LET r == ReuseE(e.e, n) IN [e |-> [e EXCEPT !.e = r.e], n |-> r.n]

(* g5o_own_def, then g5o_reuse_defs.                                       *)
OwnedParams(d, modes) == {d.ps[i] : i \in {j \in DOMAIN d.ps : modes[j]}}
OwnDef(sigs, d) ==
  LET modes == d.modes IN ReuseE(OwnE(sigs, d.body, OwnedParams(d, modes)), 1).e

(* g5o_apply_sigs.                                                         *)
ApplySigs(odefs, sigs) ==
  [f \in DOMAIN odefs |-> IF f \in DOMAIN sigs THEN [odefs[f] EXCEPT !.modes = sigs[f]]
                          ELSE odefs[f]]

(* g5o_program: every definition with its final body.                      *)
Program(odefs, sigs) ==
  LET ds == ApplySigs(odefs, sigs)
  IN [f \in DOMAIN ds |-> [ds[f] EXCEPT !.body = OwnDef(sigs, ds[f])]]
=============================================================================
