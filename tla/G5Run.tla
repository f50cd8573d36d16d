------------------------------- MODULE G5Run -------------------------------
(***************************************************************************)
(* A program goes through the ownership pass and one of its code entries   *)
(* runs on a counted heap, instruction by instruction as gen5/g5_cg.dc     *)
(* compiles them: the direct entry of a function, the body of a lambda, a  *)
(* curried level or the thunk of a value.  Calls are taken by contract:    *)
(* the callee gives up what it consumes and returns an owned value.  As    *)
(* every entry is run, every callee is checked against that contract too.  *)
(*                                                                         *)
(* Beside env, which maps a variable to a counted value, tree maps it to   *)
(* the value that the source program without counts computes.              *)
(***************************************************************************)
EXTENDS G5Own
LOCAL INSTANCE FiniteSetsExt

CONSTANTS Programs,  \* source programs: name -> [ps |-> patterns, body |-> Expr]
          FunNames,  \* base names of parameters that are closures
          PairNames, \* base names of parameters that are pairs
          Skipped    \* names of definitions whose entries are not run (bound)

VARIABLES prog,   \* the definitions behind the ANF conversion
          sigs,   \* signatures inferred so far
          phase,  \* "infer", "compiled", "run", "done" or "fail"
          code,   \* what the entry still has to execute
          stack,  \* blocks around code: [x |-> binder, e |-> rest]
          env,    \* variable -> value: 0 or the address of a block
          tree,   \* variable -> value of the source program
          heap,   \* address -> [rc, tag, fs, w]
          ext     \* address -> references that are held outside the entry

vars == <<prog, sigs, phase, code, stack, env, tree, heap, ext>>

Result == <<"result", 0>>
IsToken(x) == x[1] = "%r"

-----------------------------------------------------------------------------
(* The heap, rt5.c.  0 stands for immediates and static blocks.            *)
Cell(rc, tag, fs) == [rc |-> rc, tag |-> tag, fs |-> fs, w |-> Words(tag, Len(fs))]

DupH(h, v) == IF v \in DOMAIN h THEN [h EXCEPT ![v].rc = @ + 1] ELSE h

RECURSIVE DropH(_, _), DropAll(_, _)
(* The field of a closure that points to itself is not counted.            *)
Children(h, v) == SelectSeq(h[v].fs, LAMBDA f : f # v)
DropH(h, v) ==
  IF v \notin DOMAIN h THEN h
  ELSE IF h[v].rc > 1 THEN [h EXCEPT ![v].rc = @ - 1]
  ELSE DropAll([a \in DOMAIN h \ {v} |-> h[a]], Children(h, v))
DropAll(h, vs) == IF vs = <<>> THEN h ELSE DropAll(DropH(h, Head(vs)), Tail(vs))

DupAll(h, vs) == [a \in DOMAIN h |->
  [h[a] EXCEPT !.rc = @ + Cardinality({i \in DOMAIN vs : vs[i] = a})]]

(* Addresses are not used twice, a stale pointer stays stale.              *)
Fresh == 1 + Max({9} \cup DOMAIN heap \cup {env[x] : x \in DOMAIN env})

RECURSIVE Decode(_, _)
Decode(h, v) ==
  IF v = 0 THEN <<"Nil", <<>>>>
  ELSE IF v \notin DOMAIN h THEN <<"freed", <<>>>>
  ELSE <<h[v].tag, [i \in DOMAIN h[v].fs |->
           IF h[v].fs[i] = v THEN <<"self", <<>>>> ELSE Decode(h, h[v].fs[i])]>>

RECURSIVE Reach(_, _)
Reach(h, S) ==
  LET next == S \cup UNION {{h[a].fs[i] : i \in DOMAIN h[a].fs} : a \in S \cap DOMAIN h}
  IN IF next = S THEN S \cap DOMAIN h ELSE Reach(h, next)

FieldRefs(h, b) ==
  Cardinality({p \in UNION {{<<a, i>> : i \in DOMAIN h[a].fs} : a \in DOMAIN h} :
                 p[1] # b /\ h[p[1]].fs[p[2]] = b})

-----------------------------------------------------------------------------
(* Entries: code, and the variables that it owns and borrows.              *)
Entry(e, owned, borrowed) == [code |-> e, owned |-> owned, borrowed |-> borrowed]

RECURSIVE Lams(_)
Lams(e) ==
  CASE e.op = "ret" -> {}
    [] e.op = "let" -> Lams(e.e) \cup
         (IF e.p.op = "lam" THEN {e.p} \cup Lams(e.p.body)
          ELSE IF e.p.op = "block" THEN Lams(e.p.body) ELSE {})
    [] e.op = "if" -> Lams(e.t) \cup Lams(e.f)
    [] e.op = "case" -> UNION {Lams(e.brs[i].e) : i \in DOMAIN e.brs}
    [] OTHER -> Lams(e.e)

DupEach(S, e) == WrapDups(S, [x \in S |-> 1], e)

(* Mutant: the last level leaves a borrowed last argument alone.           *)
LevelKeepsLast(f, d, i) ==
  LET k == Len(d.ps)
      r == <<"%l", 0>>
      before == {d.ps[j] : j \in 1 .. i - 1}
      own == {d.ps[j] : j \in {n \in 1 .. k - 1 : d.modes[n]}}
  IN Entry(
       IF i < k
       THEN DupEach(before, Let(FALSE, r, Lam(NoName, Ret(Lit), Vars(SubSeq(d.ps, 1, i))), Ret(Var(r))))
       ELSE DupEach(own, IF d.direct THEN Let(FALSE, r, Call(f, Vars(d.ps)), Ret(Var(r))) ELSE d.body),
       {d.ps[i]}, before)

(* g5cg_emit_level: level i of k.  A level below the last builds the next  *)
(* closure from its environment; the last one calls the direct entry, or   *)
(* runs the body when there are too many parameters for one.               *)
Level(f, d, i) ==
  LET k == Len(d.ps)
      r == <<"%l", 0>>
      before == {d.ps[j] : j \in 1 .. i - 1}
      own == {d.ps[j] : j \in {n \in 1 .. k - 1 : d.modes[n]}}
      after == IF d.modes[k] THEN {} ELSE {d.ps[k]}
  IN Entry(
       IF i < k
       THEN DupEach(before, Let(FALSE, r, Lam(NoName, Ret(Lit), Vars(SubSeq(d.ps, 1, i))), Ret(Var(r))))
       ELSE DupEach(own, IF d.direct
                         THEN Let(FALSE, r, Call(f, Vars(d.ps)), WrapDrops(after, Ret(Var(r))))
                         ELSE d.body),
       {d.ps[i]}, before)

Entries(p) ==
  UNION {
    LET d == p[f]
        own == OwnedParams(d, d.modes)
        all == {d.ps[i] : i \in DOMAIN d.ps}
    IN (IF d.direct \/ d.ps = <<>> THEN {Entry(d.body, own, all \ own)} ELSE {})
       \cup {Entry(l.body, {l.x}, VarsOf(l.as)) : l \in Lams(d.body)}
       \cup {Level(f, d, i) : i \in DOMAIN d.ps}
    : f \in DOMAIN p \ Skipped}

(* Blocks that exist when an entry is called: two lists, a closure and a   *)
(* pair; 8 and 9 are in the global table, a closure and a list.            *)
World == 1 :> Cell(0, "Cons", <<0, 0>>) @@ 2 :> Cell(0, "Cons", <<1, 0>>)
         @@ 3 :> Cell(0, "clo", <<1>>) @@ 4 :> Cell(0, "tup", <<1, 2>>)
         @@ 8 :> Cell(0, "clo", <<>>) @@ 9 :> Cell(0, "Cons", <<0, 0>>)
GlobalBlocks == {8, 9}
ValuesOf(x) == IF x[1] \in FunNames THEN {3} ELSE IF x[1] \in PairNames THEN {4} ELSE {0, 2}

-----------------------------------------------------------------------------
Init ==
  /\ prog \in {CvDefs(p) : p \in Programs}
  /\ sigs = InitSigs(prog)
  /\ phase = "infer"
  /\ code = Ret(Lit) /\ stack = <<>>
  /\ env = <<>> /\ tree = <<>> /\ heap = <<>> /\ ext = <<>>

(* Mutant: one turn is taken for the fixpoint.                             *)
InferStops ==
  /\ phase = "infer"
  /\ sigs' = InferOnce(prog, sigs)
  /\ phase' = "compiled"
  /\ UNCHANGED <<prog, code, stack, env, tree, heap, ext>>

(* One turn of g5o_infer_loop.                                             *)
Infer ==
  /\ phase = "infer"
  /\ sigs' = InferOnce(prog, sigs)
  /\ phase' = IF Cardinality(Owned(sigs')) = Cardinality(Owned(sigs)) THEN "compiled" ELSE "infer"
  /\ UNCHANGED <<prog, code, stack, env, tree, heap, ext>>

(* The caller's side of the contract: a reference for each owned variable, *)
(* and one that outlives the call for what is borrowed.                    *)
Enter ==
  /\ phase = "compiled"
  /\ \E en \in Entries(Program(prog, sigs)) :
     \E val \in [en.owned \cup en.borrowed -> {0, 2, 3, 4}] :
       LET live == Reach(World, {val[x] : x \in DOMAIN val} \cup GlobalBlocks)
           held == {val[x] : x \in en.borrowed} \cup GlobalBlocks
           h == [b \in live |-> World[b]]
       IN /\ \A x \in DOMAIN val : val[x] \in ValuesOf(x)
          /\ \E more \in SUBSET (live \ held) :
               /\ ext' = [b \in live |-> IF b \in held \cup more THEN 1 ELSE 0]
               /\ heap' = [b \in live |-> [h[b] EXCEPT !.rc = ext'[b] + FieldRefs(h, b)
                             + Cardinality({x \in en.owned : val[x] = b})]]
          /\ env' = val
          /\ tree' = [x \in DOMAIN val |-> Decode(h, val[x])]
          /\ code' = en.code
  /\ phase' = "run"
  /\ UNCHANGED <<prog, sigs, stack>>

-----------------------------------------------------------------------------
Running(op) == phase = "run" /\ code.op = op
Binding(ops) == Running("let") /\ code.p.op \in ops

(* An atom's value, and its source value; a global is read with dc_gget.   *)
Global(a) == IF a.x[1] \in DOMAIN prog /\ prog[a.x[1]].ps = <<>> THEN 9 ELSE 8
Val(a) == CASE a.k = "var" -> env[a.x] [] a.k = "glob" -> Global(a) [] OTHER -> 0
Tree(a) == IF a.k = "var" THEN tree[a.x] ELSE Decode(World, Val(a))
Vals(as) == [i \in DOMAIN as |-> Val(as[i])]
Trees(as) == [i \in DOMAIN as |-> Tree(as[i])]

(* g5cg_pre_globs: a global in a consumed position is dup'd.               *)
PreGlobs(h, as, consumed) ==
  DupAll(h, Vals(SelectSeq([i \in DOMAIN as |-> IF consumed[i] THEN as[i] ELSE Lit],
                           LAMBDA a : a.k = "glob")))
Consumed(p) == Consumes(sigs, p)
GlobsDupped == PreGlobs(heap, code.p.as, Consumed(code.p))

(* x = v in the rest.                                                      *)
BindTo(x, v, t, rest) ==
  /\ env' = x :> v @@ env
  /\ tree' = x :> t @@ tree
  /\ code' = rest
Same == UNCHANGED <<prog, sigs, phase, stack, ext>>

RetStep ==
  LET v == Val(code.a) t == Tree(code.a) IN
  /\ Running("ret")
  /\ heap' = PreGlobs(heap, <<code.a>>, <<TRUE>>)
  /\ IF stack = <<>>
     THEN /\ BindTo(Result, v, t, code)
          /\ phase' = "done"
          /\ UNCHANGED stack
     ELSE /\ BindTo(Head(stack).x, v, t, Head(stack).e)
          /\ stack' = Tail(stack)
          /\ UNCHANGED phase
  /\ UNCHANGED <<prog, sigs, ext>>

AtomStep ==
  /\ Binding({"atom"})
  /\ BindTo(code.x, Val(code.p.as[1]), Tree(code.p.as[1]), code.e)
  /\ heap' = GlobsDupped
  /\ Same

(* A call: it returns nothing counted, a new list, one of the arguments    *)
(* that is a list, or, for an unsaturated call of a top-level function,    *)
(* the closure of the next level.                                          *)
GivenUp(p) == LET idx == {i \in DOMAIN p.as : Consumed(p)[i]}
              IN SelectSeq([i \in DOMAIN p.as |-> IF i \in idx THEN Val(p.as[i]) ELSE 0],
                           LAMBDA v : v # 0)
Returned(p) ==
  IF p.op = "app" /\ p.as[1].k = "glob" /\ p.as[1].x[1] \in DOMAIN prog
     /\ Len(prog[p.as[1].x[1]].ps) > 1
  THEN {<<"new", "clo">>}
  ELSE {<<"nothing">>, <<"new", "Cons">>} \cup {<<"arg", i>> : i \in {j \in DOMAIN p.as :
          p.op # "bi" /\ Val(p.as[j]) \in DOMAIN heap /\ heap[Val(p.as[j])].tag = "Cons"}}
CallStep ==
  LET p == code.p IN
  /\ Binding({"app", "call", "bi"})
  /\ \E r \in Returned(p) :
       IF r[1] = "new"
       THEN LET c == Cell(1, r[2], IF r[2] = "Cons" THEN <<0, 0>> ELSE <<>>)
            IN /\ heap' = DropAll(Fresh :> c @@ GlobsDupped, GivenUp(p))
               /\ BindTo(code.x, Fresh, Decode(Fresh :> c, Fresh), code.e)
       ELSE LET a == IF r[1] = "arg" THEN p.as[r[2]] ELSE Lit
                v == Val(a)
                t == Tree(a)
            IN /\ heap' = DropAll(DupH(GlobsDupped, v), GivenUp(p))
               /\ BindTo(code.x, v, t, code.e)
  /\ Same

BinStep ==
  /\ Binding({"bin"})
  /\ BindTo(code.x, 0, Decode(World, 0), code.e)
  /\ UNCHANGED heap /\ Same

(* g5cg_alloc and the stores of the fields: with a token the block is the  *)
(* token's when it has the size, else the token is freed.                  *)
AllocStep ==
  LET p == code.p
      c == Cell(1, p.c, Vals(p.as))
      tok == IF p.tok = NoName THEN 0 ELSE env[p.tok]
      h == GlobsDupped
      reuse == tok # 0 /\ h[tok].w = AllocWords(p)
      h1 == IF tok # 0 /\ ~reuse THEN [a \in DOMAIN h \ {tok} |-> h[a]] ELSE h
      at == IF reuse THEN tok ELSE Fresh
  IN /\ Binding({"ctor", "tup"})
     /\ heap' = at :> c @@ h1
     /\ BindTo(code.x, at, <<p.c, Trees(p.as)>>, code.e)
     /\ Same

LamStep ==
  LET as == code.p.as
      Self(i) == code.rec /\ as[i] = Var(code.x)
      fs == [i \in DOMAIN as |-> IF Self(i) THEN Fresh ELSE Val(as[i])]
      ts == [i \in DOMAIN as |-> IF Self(i) THEN <<"self", <<>>>> ELSE Tree(as[i])]
  IN /\ Binding({"lam"})
     /\ heap' = Fresh :> Cell(1, "clo", fs) @@ heap
     /\ BindTo(code.x, Fresh, <<"clo", ts>>, code.e)
     /\ Same

BlockStep ==
  /\ Binding({"block"})
  /\ stack' = <<[x |-> code.x, e |-> code.e]>> \o stack
  /\ code' = code.p.body
  /\ UNCHANGED <<prog, sigs, phase, env, tree, heap, ext>>

(* Conditions are not modelled, both branches are taken.                   *)
IfStep ==
  /\ Running("if")
  /\ \/ code' = code.t
     \/ code' = code.f
  /\ UNCHANGED <<env, tree, heap>> /\ Same

(* g5cg_cm: the pattern's variables are loaded from the fields, uncounted. *)
RECURSIVE Matches(_, _), Paths(_)
Matches(p, v) ==
  CASE p.pk \in {"var", "wild"} -> TRUE
    [] p.pk = "ctor" /\ p.ps = <<>> -> v = 0
    [] OTHER -> /\ v \in DOMAIN heap /\ heap[v].tag = p.c /\ Len(heap[v].fs) = Len(p.ps)
                /\ \A i \in DOMAIN p.ps : Matches(p.ps[i], heap[v].fs[i])
Paths(p) ==
  CASE p.pk = "var" -> {[x |-> p.x, at |-> <<>>]}
    [] HasParts(p) -> UNION {{[x |-> q.x, at |-> <<i>> \o q.at] : q \in Paths(p.ps[i])} :
                               i \in DOMAIN p.ps}
    [] OTHER -> {}
RECURSIVE ValAt(_, _), TreeAt(_, _)
ValAt(v, at) == IF at = <<>> THEN v ELSE ValAt(heap[v].fs[Head(at)], Tail(at))
TreeAt(t, at) == IF at = <<>> THEN t ELSE TreeAt(t[2][Head(at)], Tail(at))

CaseStep ==
  LET brs == code.brs
      v == Val(code.a)
      hits == {i \in DOMAIN brs : Matches(brs[i].p, v)}
  IN /\ Running("case")
     /\ IF hits = {}
        THEN phase' = "fail" /\ UNCHANGED <<code, env, tree>>
        ELSE LET b == brs[Min(hits)]
                 ps == Paths(b.p)
                 At(x) == (CHOOSE q \in ps : q.x = x).at
             IN /\ env' = [x \in PVars(b.p) |-> ValAt(v, At(x))] @@ env
                /\ tree' = [x \in PVars(b.p) |-> TreeAt(Tree(code.a), At(x))] @@ tree
                /\ code' = b.e
                /\ UNCHANGED phase
     /\ UNCHANGED <<prog, sigs, stack, heap, ext>>

DupStep ==
  /\ Running("dup")
  /\ heap' = DupH(heap, env[code.x])
  /\ code' = code.e
  /\ UNCHANGED <<env, tree>> /\ Same

DropStep ==
  /\ Running("drop")
  /\ heap' = DropH(heap, env[code.x])
  /\ code' = code.e
  /\ UNCHANGED <<env, tree>> /\ Same

(* dc_drop_reuse: the last reference leaves the emptied block as a token.  *)
DropReuseStep ==
  LET v == env[code.x]
      last == v \in DOMAIN heap /\ heap[v].rc = 1
  IN /\ Running("dropreuse")
     /\ heap' = IF last THEN DropAll([heap EXCEPT ![v].tag = "token", ![v].fs = <<>>], Children(heap, v))
                ELSE DropH(heap, v)
     /\ env' = code.tok :> (IF last THEN v ELSE 0) @@ env
     /\ code' = code.e
     /\ UNCHANGED tree /\ Same

Finished == phase \in {"done", "fail"} /\ UNCHANGED vars

Next == \/ Infer \/ Enter
        \/ RetStep \/ AtomStep \/ CallStep \/ BinStep \/ AllocStep \/ LamStep \/ BlockStep
        \/ IfStep \/ CaseStep \/ DupStep \/ DropStep \/ DropReuseStep
        \/ Finished

Spec == Init /\ [][Next]_vars
FairSpec == Spec /\ WF_vars(Infer)

-----------------------------------------------------------------------------
(* Properties.                                                             *)

Pending == {code} \cup {stack[i].e : i \in DOMAIN stack}

TypeOK ==
  /\ phase \in {"infer", "compiled", "run", "done", "fail"}
  /\ DOMAIN tree \subseteq DOMAIN env
  /\ \A f \in DOMAIN sigs : DOMAIN sigs[f] = DOMAIN prog[f].ps
  /\ \A b \in DOMAIN heap : heap[b].rc > 0 /\ heap[b].w >= 2
  /\ phase = "run" => \A e \in Pending : \A x \in Fv(e) \ {s.x : s \in {stack[i] : i \in DOMAIN stack}} :
                          x \in DOMAIN env

(* Every variable that the code still mentions denotes, on the counted     *)
(* heap, the value that the source program gives it: no block is freed     *)
(* before its last use and no reuse overwrites one that is still read.     *)
Faithful ==
  /\ TypeOK
  /\ phase = "run" => \A e \in Pending : \A x \in Fv(e) \cap DOMAIN tree :
                         Decode(heap, env[x]) = tree[x]
  /\ phase = "done" => Decode(heap, env[Result]) = tree[Result]

(* When an entry returns, it has consumed what it owned and nothing else:  *)
(* every count is the number of references from outside, from the result   *)
(* and from live blocks, so there is no leak and no reference too few.     *)
Balanced ==
  phase = "done" =>
    \A b \in DOMAIN heap :
      heap[b].rc = FieldRefs(heap, b) + (IF b \in DOMAIN ext THEN ext[b] ELSE 0)
                   + (IF b = env[Result] THEN 1 ELSE 0)

(* The code without the instructions that the pass inserted.               *)
RECURSIVE Erase(_)
ErasePrim(p) == IF p.op \in {"lam", "block"} THEN [p EXCEPT !.body = Erase(@)]
                ELSE IF IsAlloc(p) THEN [p EXCEPT !.tok = NoName] ELSE p
Erase(e) ==
  CASE e.op = "ret" -> e
    [] e.op = "let" -> [e EXCEPT !.p = ErasePrim(@), !.e = Erase(@)]
    [] e.op = "if" -> [e EXCEPT !.t = Erase(@), !.f = Erase(@)]
    [] e.op = "case" -> [e EXCEPT !.brs = [i \in DOMAIN @ |-> Br(@[i].p, Erase(@[i].e))]]
    [] OTHER -> Erase(e.e)

(* "garbage-free": between two source steps no block is kept that neither  *)
(* the rest of the source program nor the outside can reach.               *)
GarbageFree ==
  phase = "run" /\ ~IsRc(code) =>
    \A b \in DOMAIN heap :
      \/ heap[b].tag = "token"
      \/ b \in Reach(heap, {a \in DOMAIN ext : ext[a] > 0}
                 \cup {env[x] : x \in UNION {Fv(Erase(e)) : e \in Pending} \cap DOMAIN env})

(* A token that reaches its allocation has the size asked for: the pass    *)
(* never pairs two sizes and the fallback of dc_reuse_or_alloc is not      *)
(* taken.                                                                  *)
TokenFits ==
  phase = "run" /\ code.op = "let" /\ IsAlloc(code.p) /\ code.p.tok # NoName
  /\ env[code.p.tok] # 0
    => heap[env[code.p.tok]].w = AllocWords(code.p)

(* The inferred signatures are the least ones under which no function      *)
(* consumes a parameter that it borrows.                                   *)
Closed(s) == InferOnce(prog, s) = s
SigsLeast ==
  phase = "compiled" =>
    /\ Closed(sigs)
    /\ \A small \in SUBSET Owned(sigs) :
         small # Owned(sigs) =>
           ~Closed([f \in DOMAIN sigs |-> [i \in DOMAIN sigs[f] |-> <<f, i>> \in small]])

(* The inference ends.                                                     *)
InferenceEnds == <>(phase # "infer")
=============================================================================
