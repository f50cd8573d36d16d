----------------------------- MODULE G2Codegen -----------------------------
(***************************************************************************)
(* gen2-dcc-rs/src/codegen.rs: from syntax trees to code, data, symbols    *)
(* and relocations.                                                        *)
(*                                                                         *)
(* The generator's state g has the code buffer and the state of the        *)
(* function being generated: its slots and the names in scope.  Data is    *)
(* counted in words of eight bytes; the characters of a string are kept    *)
(* beside them and a constructor's name fits one word.  Symbols are tuples *)
(* of a kind and what tells the symbols of that kind apart.                *)
(***************************************************************************)
EXTENDS G0Ast, G2Encoder, G2Macho

CONSTANT Builtins     \* the names of the builtins, in the order of rt.c

TagString == 1
TagTuple == 2
TagAdt == 3
TagClosure == 4
Hdr(tag, words) == words * 256 + tag

True == 7
False == 3
BoolWord(b) == IF b THEN True ELSE False
IntWord(n) == Word(4 * n + 1)

Rt(name) == <<"rt", name>>
UnitBlock == Rt("dc_unit_block")

(* A step of the generator after another.                                  *)
Do(g, F(_)) == F(g)

-----------------------------------------------------------------------------
(* The generator.  table is the constructors in the order of their tags.   *)

AllocGlobal(g, x) == [g EXCEPT !.globals = x :> g.nglobals @@ @, !.nglobals = @ + 1]

NewCodegen(table) ==
    LET g == NewBuf @@ [names |-> [i \in DOMAIN table |-> table[i].c],
                        ctors |-> [c \in {table[i].c : i \in DOMAIN table} |->
                                     LET i == CHOOSE j \in DOMAIN table : table[j].c = c
                                     IN  [id |-> i - 1, arity |-> table[i].arity]],
                        globals |-> <<>>, nglobals |-> 0, data |-> <<>>, texts |-> <<>>,
                        datasyms |-> <<>>, datarelocs |-> <<>>, labelsyms |-> <<>>,
                        pending |-> <<>>, externs |-> <<>>, strs |-> <<>>, lams |-> 0,
                        nslots |-> 0, scope |-> <<>>, patch |-> 0, thunks |-> <<>>]
        withFields == SelectSeq(g.names, LAMBDA c : g.ctors[c].arity > 0)
    IN  FoldLeft(AllocGlobal, g, Builtins \o withFields)

UseExtern(g, sym) == IF sym \in ToSet(g.externs) THEN g ELSE [g EXCEPT !.externs = Append(@, sym)]
LoadSym(g, r, sym) == LoadAddress(g, r, ToSymbol(sym))
CallRt(g, name) == Emit(LoadSym(UseExtern(g, Rt(name)), R9, Rt(name)), <<Blr(R9)>>)

GetGlobal(g, i) == CallRt(Emit(g, LoadConst(X0, i)), "dc_gget")
FillGlobal(g, i) == CallRt(Emit(g, <<Mov(X1, X0)>> \o LoadConst(X0, i)), "dc_gset")
LoadUnit(g, r) == LoadSym(UseExtern(g, UnitBlock), r, UnitBlock)

-----------------------------------------------------------------------------
(* Static data.                                                            *)

(* A block of words that sym stands for.                                   *)
AddData(g, sym, words) == [g EXCEPT !.data = @ \o words,
                                    !.datasyms = Append(@, [sym |-> sym, off |-> 8 * Len(g.data)])]

StrWords(n) == (n + 7) \div 8
InternStr(g, s) ==
    IF s \in ToSet(g.strs) THEN g
    ELSE [AddData(g, <<"str", Len(g.strs)>>,
                  <<Hdr(TagString, 2 + StrWords(Len(s))), Len(s)>> \o [i \in 1..StrWords(Len(s)) |-> 0])
          EXCEPT !.strs = Append(@, s), !.texts = 8 * Len(g.data) :> s @@ @]
StrSym(g, s) == <<"str", (CHOOSE i \in DOMAIN g.strs : g.strs[i] = s) - 1>>

CtorSym(c) == <<"ctorinst", c>>
InternNullary(g, c) ==
    IF \E i \in DOMAIN g.datasyms : g.datasyms[i].sym = CtorSym(c) THEN g
    ELSE AddData(g, CtorSym(c), <<Hdr(TagAdt, 2), g.ctors[c].id>>)

(* A value that lies in the data section goes into register r.             *)
LoadStr(g, r, s) == Do(InternStr(g, s), LAMBDA h : LoadSym(h, r, StrSym(h, s)))
LoadNullary(g, r, c) == LoadSym(InternNullary(g, c), r, CtorSym(c))

(* The pointers first, then the names they point to.                       *)
CtorNamesTable(g) ==
    LET n == Len(g.names)
        off == 8 * Len(g.data)
    IN  [g EXCEPT !.data = @ \o [i \in 1..(2 * n) |-> 0],
                  !.datasyms = @ \o [i \in 1..n |-> [sym |-> <<"nm", i>>, off |-> off + 8 * (n + i - 1)]]
                                 \o <<[sym |-> <<"dc_ctor_names">>, off |-> off]>>,
                  !.datarelocs = @ \o [i \in 1..n |-> [off |-> off + 8 * (i - 1), sym |-> <<"nm", i>>]]]

-----------------------------------------------------------------------------
(* Frames.  The frame's size is patched in when the body is done, the      *)
(* whole frame is zeroed, and the captured values become the first slots.  *)

Prologue(g, names) ==
    LET at == Len(g.code) + 3
        loop == g.nlabels
        done == g.nlabels + 1
        a == Emit([NewLabels(g, 2) EXCEPT !.patch = at],
                  <<StpFpLr, MovSpFp>> \o LoadConst(R9, 0)
                  \o <<SubSp, AddImm(R10, SP, 0), AddReg(R11, R10, R9, 0)>>)
        b == Emit(BindLabel(a, loop), <<CmpReg(R10, R11), BCond("hs", done), StrZeroPost(R10), B(loop)>>)
    IN  [Emit(BindLabel(b, done),
              FlattenSeq([i \in DOMAIN names |-> <<Ldr(R9, X0, 24 + 8 * (i - 1)), StrSlot(R9, i - 1)>>]))
         EXCEPT !.nslots = Len(names), !.scope = [i \in DOMAIN names |-> [x |-> names[i], s |-> i - 1]]]

MaxFrame == 65520
(* Mutant: the size of a frame is not rounded.                             *)
FrameBytesOdd(n) == (n + 8) * 8

FrameBytes(n) == (((n + 8) * 8 + 15) \div 16) * 16

Epilogue(g) ==
    Emit(PatchMovz(PanicIf(g, FrameBytes(g.nslots) > MaxFrame), g.patch, FrameBytes(g.nslots)),
         LoadConst(R9, FrameBytes(g.nslots)) \o <<AddSp, LdpFpLr, Ret>>)

(* A register is kept in the next slot; the slot is then LastSlot.         *)
Spill(g, r) == Emit([g EXCEPT !.nslots = @ + 1], <<StrSlot(r, g.nslots)>>)
LastSlot(g) == g.nslots - 1
Name(g, x) == [g EXCEPT !.scope = Append(@, [x |-> x, s |-> LastSlot(g)])]

(* The latest entry of a name counts.                                      *)
InScope(g, x) == \E i \in DOMAIN g.scope : g.scope[i].x = x
SlotOf(g, x) == LET i == CHOOSE j \in DOMAIN g.scope : /\ g.scope[j].x = x
                                                       /\ \A l \in DOMAIN g.scope : l > j => g.scope[l].x # x
                IN  g.scope[i].s

-----------------------------------------------------------------------------
(* Blocks on the heap, their address in X0.                                *)

Alloc(g, words) == CallRt(Emit(g, LoadConst(X0, 8 * words)), "dacelo_alloc")
PutConst(v, off) == LoadConst(R9, v) \o <<Str(R9, X0, off)>>
PutSlots(slots, off) ==
    FlattenSeq([j \in DOMAIN slots |-> <<LdrSlot(R9, slots[j]), Str(R9, X0, off + 8 * (j - 1))>>])

(* Code and size, then the captured values.                                *)
ClosureHead(g, label, n) ==
    Do(Emit(Alloc(g, 3 + n), PutConst(Hdr(TagClosure, 3 + n), 0)), LAMBDA a :
       Emit(LoadAddress(a, R9, ToLabel(label)), <<Str(R9, X0, 8)>> \o PutConst(n, 16)))
MakeClosure(g, label) ==
    Emit(ClosureHead(g, label, Len(g.scope)), PutSlots([i \in DOMAIN g.scope |-> g.scope[i].s], 24))

LoadVar(g, x) == CASE InScope(g, x) -> Emit(g, <<LdrSlot(X0, SlotOf(g, x))>>)
                   [] ~InScope(g, x) /\ x \in DOMAIN g.globals -> GetGlobal(g, g.globals[x])
                   [] OTHER -> Panic(g)
LoadCtor(g, c) == IF g.ctors[c].arity = 0 THEN LoadNullary(g, X0, c) ELSE GetGlobal(g, g.globals[c])

(* The function's code gets the closure and the argument.                  *)
Apply == <<Ldr(R9, X0, 8), Blr(R9)>>

-----------------------------------------------------------------------------
(* Patterns.  reg is compared, never changed; what has parts goes into a   *)
(* slot first, because a comparison of strings calls the runtime.          *)

Unless(g, reg, v, fail) == Emit(g, LoadConst(R10, v) \o <<CmpReg(reg, R10), BCond("ne", fail)>>)
IfNot(g, reg, fail) == Emit(g, <<CmpReg(reg, R10), BCond("ne", fail)>>)
UnlessWord(g, sv, off, v, fail) == Unless(Emit(g, <<LdrSlot(R9, sv), Ldr(R9, R9, off)>>), R9, v, fail)

RECURSIVE MatchPat(_, _, _, _), MatchParts(_, _, _, _, _)
MatchParts(g, ps, sv, off, fail) ==
    IF ps = <<>> THEN g
    ELSE MatchParts(MatchPat(Emit(g, <<LdrSlot(R9, sv), Ldr(R9, R9, off)>>), Head(ps), R9, fail),
                    Tail(ps), sv, off + 8, fail)

MatchStr(g, s, reg, fail) ==
    Do(Spill(g, reg), LAMBDA a :
       Emit(CallRt(Emit(LoadStr(a, X0, s), <<LdrSlot(X1, LastSlot(a))>>), "dc_val_eq"),
            <<CmpImm(X0, True), BCond("ne", fail)>>))
MatchTuple(g, ps, reg, fail) ==
    Do(Spill(g, reg), LAMBDA a :
       MatchParts(UnlessWord(a, LastSlot(a), 0, Hdr(TagTuple, 1 + Len(ps)), fail), ps, LastSlot(a), 8, fail))
MatchCtor(g, p, reg, fail) ==
    LET c == g.ctors[p.c] IN
    IF c.arity = 0 THEN IfNot(LoadNullary(g, R10, p.c), reg, fail)
    ELSE Do(Spill(g, reg), LAMBDA a :
         Do(UnlessWord(a, LastSlot(a), 0, Hdr(TagAdt, 2 + c.arity), fail), LAMBDA b :
            MatchParts(UnlessWord(b, LastSlot(a), 8, c.id, fail), p.ps, LastSlot(a), 16, fail)))

MatchPat(g, p, reg, fail) ==
    CASE p.k = "var" -> Name(Spill(g, reg), p.x)
      [] p.k = "lit" /\ p.ty = "Int" -> Unless(g, reg, IntWord(p.v), fail)
      [] p.k = "lit" /\ p.ty = "Bool" -> Unless(g, reg, BoolWord(p.v), fail)
      [] p.k = "lit" /\ p.ty = "String" -> MatchStr(g, p.v, reg, fail)
      [] p.k = "lit" /\ p.ty = "Unit" -> IfNot(LoadUnit(g, R10), reg, fail)
      [] p.k = "tup" -> MatchTuple(g, p.ps, reg, fail)
      [] p.k = "ctor" -> MatchCtor(g, p, reg, fail)

-----------------------------------------------------------------------------
(* Arithmetic on the slots a and b.                                        *)

Unboxed(r, slot) == <<LdrSlot(r, slot), AsrImm(r, r, 2)>>
Box(tag) == <<AddReg(X0, XZR, X0, 2), AddImm(X0, X0, tag)>>
CondOf == [op \in {"<", ">", "<=", ">="} |->
             CASE op = "<" -> "lt" [] op = ">" -> "gt" [] op = "<=" -> "le" [] op = ">=" -> "ge"]

IntArith(g, op, a, b) ==
    LET divisor == Emit(CallRt(Emit(g, <<LdrSlot(X0, b)>>), "dc_div_check"),
                        <<Mov(R10, X0)>> \o Unboxed(X0, a))
    IN  CASE op \in DOMAIN CondOf ->
               Emit(g, Unboxed(X0, a) \o Unboxed(R9, b) \o <<CmpReg(X0, R9), Cset(X0, CondOf[op])>> \o Box(3))
          [] op = "+" -> Emit(g, <<LdrSlot(X0, a), LdrSlot(X1, b), AddReg(X0, X0, X1, 0), SubImm(X0, X0, 1)>>)
          [] op = "-" -> Emit(g, <<LdrSlot(X0, a), LdrSlot(X1, b), SubReg(X0, X0, X1), AddImm(X0, X0, 1)>>)
          [] op = "*" -> Emit(g, Unboxed(X0, a) \o Unboxed(X1, b) \o <<Mul(X0, X0, X1)>> \o Box(1))
          [] op = "/" -> Emit(divisor, <<Sdiv(X0, X0, R10)>> \o Box(1))
          [] op = "%" -> Emit(divisor, <<Sdiv(R11, X0, R10), Msub(X0, R10, R11, X0)>> \o Box(1))

-----------------------------------------------------------------------------
(* Expressions, their value in X0.                                         *)

RECURSIVE ParamsOf(_), BodyOf(_)
ParamsOf(e) == IF e.k = "lam" THEN <<e.p>> \o ParamsOf(e.e) ELSE <<>>
BodyOf(e) == IF e.k = "lam" THEN BodyOf(e.e) ELSE e

(* A function whose code comes later, one label for each parameter.        *)
Defer(g, e, names) ==
    LET labels == [k \in DOMAIN ParamsOf(e) |-> g.nlabels + k - 1]
    IN  [NewLabels(g, Len(labels)) EXCEPT
           !.lams = @ + 1,
           !.labelsyms = [l \in ToSet(labels) |->
                             [sym |-> <<"L", g.lams + 1, l - g.nlabels>>, global |-> FALSE]] @@ @,
           !.pending = Append(@, [labels |-> labels, names |-> names, params |-> ParamsOf(e),
                                  body |-> BodyOf(e)])]
ScopeNames(g) == [i \in DOMAIN g.scope |-> g.scope[i].x]

Lambda(g, e) == Do(Defer(g, e, ScopeNames(g)), LAMBDA h : MakeClosure(h, g.nlabels))

RECURSIVE Expr(_, _), Branches(_, _, _, _)

(* The value of e in a new slot.                                           *)
ToSlot(g, e) == Spill(Expr(g, e), X0)

(* A recursive local function captures itself where its name comes first   *)
(* among the names captured.                                               *)
LocalRecLet(g, e) ==
    LET names == Append(ScopeNames(g), e.x)
        self == CHOOSE i \in DOMAIN names : names[i] = e.x /\ \A j \in 1..(i - 1) : names[j] # e.x
        others == [i \in 1..Len(g.scope) |-> g.scope[i].s]
    IN  IF self # Len(names) \/ e.rhs.k # "lam" THEN Panic(g)
        ELSE Do(ClosureHead(Defer(g, e.rhs, names), g.nlabels, Len(names)), LAMBDA a :
             Do(Emit(a, PutSlots(others, 24) \o <<Str(X0, X0, 24 + 8 * (self - 1))>>), LAMBDA b :
                Expr(Name(Spill(b, X0), e.x), e.e)))

(* The name stays in scope after the let.                                  *)
Let(g, e) == IF e.isrec THEN LocalRecLet(g, e) ELSE Expr(Name(ToSlot(g, e.rhs), e.x), e.e)

Branches(g, brs, sv, end) ==
    IF brs = <<>> THEN g
    ELSE Do(MatchPat(Emit(NewLabels(g, 1), <<LdrSlot(X1, sv)>>), Head(brs)[1], X1, g.nlabels), LAMBDA m :
         Do([Expr(m, Head(brs)[2]) EXCEPT !.scope = g.scope], LAMBDA b :
            Branches(BindLabel(Emit(b, <<B(end)>>), g.nlabels), Tail(brs), sv, end)))
Case(g, e) ==
    Do(NewLabels(ToSlot(g, e.e), 1), LAMBDA a :
    Do(Branches(a, e.brs, LastSlot(a), a.nlabels - 1), LAMBDA b :
       BindLabel(CallRt(Emit(b, <<LdrSlot(X0, LastSlot(a))>>), "dc_match_fail"), a.nlabels - 1)))

(* Two ways that meet: if X0 is (not) true then the second is taken.       *)
Either(g, cond, F(_), S(_)) ==
    LET second == g.nlabels
        end == g.nlabels + 1
    IN  Do(Emit(F(Emit(NewLabels(g, 2), <<CmpImm(X0, True), BCond(cond, second)>>)), <<B(end)>>),
           LAMBDA a : BindLabel(S(BindLabel(a, second)), end))
Const(g, v) == Emit(g, LoadConst(X0, v))

Binary(g, e) ==
    CASE e.op = "&&" -> Either(Expr(g, e.l), "ne", LAMBDA a : Expr(a, e.r), LAMBDA a : Const(a, False))
      [] e.op = "||" -> Either(Expr(g, e.l), "eq", LAMBDA a : Expr(a, e.r), LAMBDA a : Const(a, True))
      [] e.op \in {"==", "!=", "++"} ->
           Do(ToSlot(g, e.l), LAMBDA a :
           Do(CallRt(Emit(Expr(a, e.r), <<Mov(X1, X0), LdrSlot(X0, LastSlot(a))>>),
                     IF e.op = "++" THEN "dc_bi_str_concat" ELSE "dc_val_eq"), LAMBDA b :
              IF e.op # "!=" THEN b
              ELSE Either(b, "eq", LAMBDA c : Const(c, True), LAMBDA c : Const(c, False))))
      [] e.op = "::" ->
           Do(ToSlot(g, e.l), LAMBDA a :
           Do(ToSlot(a, e.r), LAMBDA b :
              Emit(Alloc(b, 4), PutConst(Hdr(TagAdt, 4), 0) \o PutConst(g.ctors["Cons"].id, 8)
                                \o PutSlots(<<LastSlot(a), LastSlot(b)>>, 16))))
      [] OTHER ->
           Do(ToSlot(g, e.l), LAMBDA a :
           Do(ToSlot(a, e.r), LAMBDA b : IntArith(b, e.op, LastSlot(a), LastSlot(b))))

(* The parts of a tuple, each in a slot.                                   *)
RECURSIVE Parts(_, _, _)
Parts(g, es, slots) ==
    IF es = <<>> THEN Emit(Alloc(g, 1 + Len(slots)),
                           PutConst(Hdr(TagTuple, 1 + Len(slots)), 0) \o PutSlots(slots, 8))
    ELSE Do(ToSlot(g, Head(es)), LAMBDA a : Parts(a, Tail(es), Append(slots, LastSlot(a))))

Lit(g, e) == CASE e.ty = "Int" -> Const(g, IntWord(e.v))
               [] e.ty = "Bool" -> Const(g, BoolWord(e.v))
               [] e.ty = "String" -> LoadStr(g, X0, e.v)
               [] e.ty = "Unit" -> LoadUnit(g, X0)

Expr(g, e) ==
    CASE e.k = "lit" -> Lit(g, e)
      [] e.k = "var" -> IF e.x \in DOMAIN g.ctors THEN LoadCtor(g, e.x) ELSE LoadVar(g, e.x)
      [] e.k = "app" ->
           Do(ToSlot(g, e.f), LAMBDA a :
              Emit(Expr(a, e.a), <<Mov(X1, X0), LdrSlot(X0, LastSlot(a))>> \o Apply))
      [] e.k = "bin" -> Binary(g, e)
      [] e.k = "if" -> Either(Expr(g, e.c), "ne", LAMBDA a : Expr(a, e.t), LAMBDA a : Expr(a, e.e))
      [] e.k = "case" -> Case(g, e)
      [] e.k = "let" -> Let(g, e)
      [] e.k = "seq" -> Expr(Expr(g, e.l), e.r)
      [] e.k = "tup" -> Parts(g, e.es, <<>>)
      [] e.k = "ann" -> Expr(g, e.e)
      [] e.k = "lam" -> Lambda(g, e)

-----------------------------------------------------------------------------
(* Deferred functions.  The code of parameter k knows the captured names   *)
(* and the parameters before k that are plain names.                       *)

PlainNames(ps) == [i \in DOMAIN SelectSeq(ps, LAMBDA p : p.k = "var") |->
                     SelectSeq(ps, LAMBDA p : p.k = "var")[i].x]
Level(g, fn, k) ==
    Do(Prologue(NewLabels(BindLabel(g, fn.labels[k]), 1), fn.names \o PlainNames(SubSeq(fn.params, 1, k - 1))),
       LAMBDA a :
    Do(MatchPat(a, fn.params[k], X1, g.nlabels), LAMBDA m :
    Do(IF k < Len(fn.params) THEN MakeClosure(m, fn.labels[k + 1]) ELSE Expr(m, fn.body), LAMBDA b :
       CallRt(Emit(BindLabel(Epilogue(b), g.nlabels), <<Mov(X0, X1)>>), "dc_match_fail"))))

(* The latest deferred function comes first; its code may defer more.      *)
RECURSIVE DrainPending(_)
DrainPending(g) ==
    IF g.pending = <<>> THEN g
    ELSE DrainPending(FoldLeft(LAMBDA h, k : Level(h, Last(g.pending), k),
                               [g EXCEPT !.pending = Front(@)],
                               [k \in DOMAIN Last(g.pending).params |-> k]))

-----------------------------------------------------------------------------
(* Definitions, the initializer, the entry point.                          *)

StartFn(g, sym, global) ==
    [BindLabel(NewLabels(g, 1), g.nlabels)
     EXCEPT !.labelsyms = g.nlabels :> [sym |-> sym, global |-> global] @@ @]

CompileDef(g, d) ==
    Do(Prologue(StartFn(g, <<"thunk", d.x>>, FALSE), <<>>), LAMBDA a :
       [Epilogue(Expr(a, WrapParams(d.ps, d.e))) EXCEPT
          !.thunks = Append(@, [slot |-> g.globals[d.x], label |-> g.nlabels])])

RegisterCtor(g, c) ==
    CallRt(Emit(g, LoadConst(X0, g.ctors[c].id) \o LoadConst(X1, g.ctors[c].arity)), "dc_register_ctor")
InitBuiltin(g, i) ==
    FillGlobal(CallRt(Const(g, i - 1), "dc_mk_partial_builtin"), g.globals[Builtins[i]])
InitCtor(g, c) ==
    IF g.ctors[c].arity = 0 THEN g
    ELSE FillGlobal(CallRt(Const(g, g.ctors[c].id), "dc_mk_partial_ctor"), g.globals[c])
RunThunk(g, t) == FillGlobal(Emit(g, <<Bl(t.label)>>), t.slot)

EmitInit(g) ==
    Do(Prologue(StartFn(g, <<"dc_init">>, TRUE), <<>>), LAMBDA a :
    Do(FoldLeft(RegisterCtor, a, g.names), LAMBDA b :
    Do(FoldLeft(InitBuiltin, b, [i \in DOMAIN Builtins |-> i]), LAMBDA c :
       Epilogue(FoldLeft(RunThunk, FoldLeft(InitCtor, c, g.names), g.thunks)))))

EmitUserMain(g) ==
    Do(Prologue(StartFn(g, <<"dc_user_main">>, TRUE), <<>>), LAMBDA a :
       Epilogue(IF "main" \in DOMAIN g.globals
                THEN Emit(LoadUnit(GetGlobal(a, g.globals["main"]), X1), Apply) ELSE a))

-----------------------------------------------------------------------------
(* The object: defined symbols, then the undefined ones, and a table with  *)
(* the address of everything the code loads.                               *)

TargetOf(g, key) == IF key.k = "L" THEN g.labelsyms[key.sym[2]].sym ELSE key.sym

(* Mutant: they are taken after.                                           *)
ExternsAfterTable(g) == FoldLeft(UseExtern, g, [i \in DOMAIN g.got |-> TargetOf(g, g.got[i])]).externs

(* The symbols to leave undefined are taken before the table makes an      *)
(* extern of every target.                                                 *)
ExternsAtEnd(g) == g.externs

ObjectOf(g) ==
    LET off == 8 * Len(g.data)
        pairs == SelectSeq([i \in DOMAIN g.code |-> i], LAMBDA i : g.code[i].op = "adrp")
        dataSyms == g.datasyms \o (IF g.got = <<>> THEN <<>> ELSE <<[sym |-> <<"dc_got">>, off |-> off]>>)
        textSyms == SelectSeq([l \in 1..g.nlabels |-> l],
                              LAMBDA l : l \in DOMAIN g.labels /\ l \in DOMAIN g.labelsyms)
    IN  [text |-> g.code,
         data |-> g.data \o [i \in DOMAIN g.got |-> 0],
         texts |-> g.texts,
         syms |-> [i \in DOMAIN textSyms |->
                     LET l == g.labelsyms[textSyms[i]]
                     IN  Define(l.sym, "text", g.labels[textSyms[i]], l.global)]
                  \o [i \in DOMAIN ExternsAtEnd(g) |-> Undefined(ExternsAtEnd(g)[i])]
                  \o [i \in DOMAIN dataSyms |-> Define(dataSyms[i].sym, "data", dataSyms[i].off,
                                                       dataSyms[i].sym = <<"dc_ctor_names">>)],
         textrelocs |-> FlattenSeq([i \in DOMAIN pairs |->
                          LET t == TargetOf(g, g.got[g.code[pairs[i]].slot])
                          IN  <<[off |-> 4 * (pairs[i] - 1), sym |-> t, kind |-> "page"],
                                [off |-> 4 * pairs[i], sym |-> t, kind |-> "pageoff"]>>]),
         datarelocs |-> [i \in DOMAIN g.datarelocs |-> g.datarelocs[i] @@ [kind |-> "pointer"]]
                        \o [i \in DOMAIN g.got |-> [off |-> off + 8 * (i - 1),
                                                    sym |-> TargetOf(g, g.got[i]), kind |-> "pointer"]]]

CompileItem(g, it) ==
    IF it.k = "type" THEN g
    ELSE FoldLeft(LAMBDA h, d : CompileDef(AllocGlobal(h, d.x), d), g, it.ds)
CompileProgram(items, table) ==
    Do(FoldLeft(CompileItem, NewCodegen(table), items), LAMBDA a :
    Do(CtorNamesTable(EmitUserMain(EmitInit(DrainPending(a)))), LAMBDA b :
    Do(FinishCode(b), LAMBDA g :
       IF g.panic THEN [ok |-> FALSE] ELSE [ok |-> TRUE, obj |-> ObjectOf(g)])))
=============================================================================
