----------------------------- MODULE G2Machine -----------------------------
(***************************************************************************)
(* What the compiled program runs on: the linker and the processor, known  *)
(* by what gen2-dcc-rs/src/encoder.rs and codegen.rs use of them, and the  *)
(* entries of the runtime gen2-dcc-rs/rt/rt.c.                             *)
(*                                                                         *)
(* A step is a call into the runtime with the instructions from its return *)
(* up to the next call.  In an eager run every call that allocates first   *)
(* collects: what the stack, the globals and the arguments of the call do  *)
(* not reach is gone.  In other runs nothing is ever collected.  What a    *)
(* collection now and then would lose is lost in the eager run, so the two *)
(* stand for all.  An address is never used again, and reading a word that *)
(* nothing was written to ends the run as wild.                            *)
(***************************************************************************)
EXTENDS G2Codegen

VARIABLES image,   \* the linked program
          m        \* the machine

-----------------------------------------------------------------------------
(* Linking.                                                                *)

RtFunctions == <<"dacelo_alloc", "dc_gget", "dc_gset", "dc_register_ctor", "dc_mk_partial_builtin",
                 "dc_mk_partial_ctor", "dc_ctor_step", "dc_builtin_step", "dc_val_eq",
                 "dc_bi_str_concat", "dc_div_check", "dc_match_fail">>
InitDone == 16
MainDone == 24
UnitAt == 64
EntryAt == 128
TextAt == 4096
DataAt == 2^(WordBits - 4)
StackTop == 2^(WordBits - 2)
HeapAt == StackTop

EntryOf(f) == EntryAt + 8 * (CHOOSE i \in DOMAIN RtFunctions : RtFunctions[i] = f)
RtSymbols == {Rt(RtFunctions[i]) : i \in DOMAIN RtFunctions} \cup {UnitBlock}
RtAddress(sym) == IF sym = UnitBlock THEN UnitAt ELSE EntryOf(sym[2])
NeededByRt == {<<"dc_init">>, <<"dc_user_main">>, <<"dc_ctor_names">>}

AddressOf(file, n) ==
    CASE n.sect = "text" -> TextAt + n.value
      [] n.sect = "data" -> DataAt + n.value - file.headers.data.addr
      [] n.sect = "none" -> RtAddress(n.sym)

Exported(file) == SelectSeq(file.symtab, LAMBDA n : n.ext /\ n.sect # "none")
Links(file) ==
    LET names == {Exported(file)[i].sym : i \in DOMAIN Exported(file)}
    IN  /\ Cardinality(names) = Len(Exported(file)) /\ names \cap RtSymbols = {}
        /\ NeededByRt \subseteq names
        /\ \A i \in DOMAIN file.symtab : file.symtab[i].sect = "none" => file.symtab[i].sym \in RtSymbols

Relocated(file, relocs) == [o \in {relocs[i].off : i \in DOMAIN relocs} |->
                              LET i == CHOOSE j \in DOMAIN relocs : relocs[j].off = o
                              IN  AddressOf(file, file.symtab[relocs[i].symnum])]
Symbol(file, sym) == AddressOf(file, CHOOSE n \in ToSet(file.symtab) : n.sym = sym /\ n.ext)

LinkWith(file, textaddrs, dataaddrs) ==
    [code |-> [i \in DOMAIN file.text |-> IF 4 * (i - 1) \in DOMAIN textaddrs
                                          THEN [addr |-> textaddrs[4 * (i - 1)]] @@ file.text[i]
                                          ELSE file.text[i]],
     data |-> [i \in DOMAIN file.data |-> IF 8 * (i - 1) \in DOMAIN dataaddrs
                                          THEN dataaddrs[8 * (i - 1)] ELSE file.data[i]],
     texts |-> file.texts,
     init |-> Symbol(file, <<"dc_init">>), main |-> Symbol(file, <<"dc_user_main">>)]
Linked(file) == LinkWith(file, Relocated(file, file.textrelocs), Relocated(file, file.datarelocs))

-----------------------------------------------------------------------------
(* The processor.  Junk is what a call leaves in a register that it may    *)
(* use: no address and no value.                                           *)

Junk == 6
Registers == {X0, X1, R9, R10, R11, FP, LR}

NoMachine == [status |-> "none"]
Booted(im, eager) ==
    [status |-> "running", code |-> 0, pc |-> im.init, sp |-> StackTop, cmp |-> <<0, 0>>,
     regs |-> [[r \in Registers |-> Junk] EXCEPT ![LR] = InitDone],
     mem |-> UnitAt :> Hdr(5, 1) @@ [a \in {DataAt + 8 * (i - 1) : i \in DOMAIN im.data} |->
                                       im.data[((a - DataAt) \div 8) + 1]],
     chars |-> [a \in {DataAt + o : o \in DOMAIN im.texts} |-> im.texts[a - DataAt]],
     blocks |-> <<>>, next |-> HeapAt, globals |-> <<>>, arities |-> <<>>, out |-> <<>>, eager |-> eager]

Signed(w) == IF w >= Modulus \div 2 THEN w - Modulus ELSE w
Exited(n, code) == [n EXCEPT !.status = "exit", !.code = code]
Fatal(n) == Exited(n, 1)
Wild(n) == [n EXCEPT !.status = "wild"]

Magnitude(x) == IF x < 0 THEN -x ELSE x
DivideSigned(a, b) == CASE b = 0 -> 0
                        [] b # 0 /\ (a < 0 <=> b < 0) -> Magnitude(a) \div Magnitude(b)
                        [] OTHER -> -(Magnitude(a) \div Magnitude(b))

Holds(cmp, cond) == CASE cond = "eq" -> cmp[1] = cmp[2]
                      [] cond = "ne" -> cmp[1] # cmp[2]
                      [] cond = "hs" -> cmp[1] >= cmp[2]
                      [] cond = "lt" -> Signed(cmp[1]) < Signed(cmp[2])
                      [] cond = "gt" -> Signed(cmp[1]) > Signed(cmp[2])
                      [] cond = "le" -> Signed(cmp[1]) <= Signed(cmp[2])
                      [] cond = "ge" -> Signed(cmp[1]) >= Signed(cmp[2])

(* Register 31 is the stack pointer or zero, as the instruction has it.    *)
OrSp(n, r) == IF r = SP THEN n.sp ELSE n.regs[r]
OrZero(n, r) == IF r = XZR THEN 0 ELSE n.regs[r]

Result(n, i) ==
    CASE i.op = "movz" -> i.v * 2^(16 * i.hw)
      [] i.op = "movk" -> n.regs[i.d] + (i.v - Half(n.regs[i.d], i.hw)) * 2^(16 * i.hw)
      [] i.op = "mov" -> n.regs[i.n]
      [] i.op = "add" -> OrZero(n, i.n) + n.regs[i.m] * 2^i.sh
      [] i.op = "addi" -> OrSp(n, i.n) + i.v
      [] i.op = "subi" -> n.regs[i.n] - i.v
      [] i.op = "sub" -> n.regs[i.n] - n.regs[i.m]
      [] i.op = "mul" -> Signed(n.regs[i.n]) * Signed(n.regs[i.m])
      [] i.op = "msub" -> n.regs[i.a] - Signed(n.regs[i.n]) * Signed(n.regs[i.m])
      [] i.op = "sdiv" -> DivideSigned(Signed(n.regs[i.n]), Signed(n.regs[i.m]))
      [] i.op = "asr" -> Signed(n.regs[i.n]) \div 2^i.sh
      [] i.op = "cset" -> IF Holds(n.cmp, i.cond) THEN 1 ELSE 0
      [] i.op = "adrp" -> Junk
      [] i.op = "ldrgot" -> i.addr
Computes == {"movz", "movk", "mov", "add", "addi", "subi", "sub", "mul", "msub", "sdiv", "asr", "cset",
             "adrp", "ldrgot"}

OnStack(n, a) == a >= n.sp /\ a < StackTop
InBlock(n, a) == \E b \in DOMAIN n.blocks : a >= b /\ a < b + 8 * n.blocks[b]
StoreWord(n, a, w) == CASE a \in DOMAIN n.mem -> [n EXCEPT !.mem[a] = w]
                        [] a \notin DOMAIN n.mem /\ (OnStack(n, a) \/ InBlock(n, a)) ->
                             [n EXCEPT !.mem = a :> w @@ @]
                        [] OTHER -> Wild(n)

(* What lies below the stack pointer is lost.                              *)
Popped(n, sp) == [n EXCEPT !.sp = sp, !.mem = [a \in DOMAIN n.mem \ (n.sp..(sp - 1)) |-> n.mem[a]]]

Goto(n, pc) == [n EXCEPT !.pc = pc]
SetReg(n, r, w) == [n EXCEPT !.regs[r] = Word(w)]
OnNext(n) == Goto(n, n.pc + 4)

Instruction(n, i) ==
    CASE i.op \in Computes -> OnNext(SetReg(n, i.d, Result(n, i)))
      [] i.op = "cmpi" -> OnNext([n EXCEPT !.cmp = <<n.regs[i.n], i.v>>])
      [] i.op = "cmp" -> OnNext([n EXCEPT !.cmp = <<n.regs[i.n], n.regs[i.m]>>])
      [] i.op = "ldr" -> IF OrSp(n, i.n) + i.off \in DOMAIN n.mem
                         THEN OnNext(SetReg(n, i.t, n.mem[OrSp(n, i.n) + i.off])) ELSE Wild(n)
      [] i.op = "str" -> OnNext(StoreWord(n, OrSp(n, i.n) + i.off, n.regs[i.t]))
      [] i.op = "strpost" -> OnNext(SetReg(StoreWord(n, n.regs[i.n], 0), i.n, n.regs[i.n] + 8))
      [] i.op = "subsp" -> OnNext([n EXCEPT !.sp = @ - n.regs[R9]])
      [] i.op = "addsp" -> OnNext(Popped(n, n.sp + n.regs[R9]))
      [] i.op = "stp" -> OnNext([n EXCEPT !.sp = @ - 16,
                                          !.mem = n.sp - 16 :> n.regs[FP] @@ n.sp - 8 :> n.regs[LR] @@ @])
      [] i.op = "ldp" -> IF {n.sp, n.sp + 8} \subseteq DOMAIN n.mem
                         THEN OnNext(Popped(SetReg(SetReg(n, FP, n.mem[n.sp]), LR, n.mem[n.sp + 8]), n.sp + 16))
                         ELSE Wild(n)
      [] i.op = "ret" -> Goto(n, n.regs[LR])
      [] i.op = "blr" -> Goto(SetReg(n, LR, n.pc + 4), n.regs[i.n])
      [] i.op = "bl" -> Goto(SetReg(n, LR, n.pc + 4), n.pc + i.dist)
      [] i.op = "b" -> Goto(n, n.pc + i.dist)
      [] i.op = "bcond" -> IF Holds(n.cmp, i.cond) THEN Goto(n, n.pc + i.dist) ELSE OnNext(n)

(* The instructions up to one that leads out of the code, at most 2^k.     *)
InText(code, pc) == pc >= TextAt /\ pc < TextAt + 4 * Len(code)
RECURSIVE Runs(_, _, _), Resumes(_, _, _)
Resumes(n, code, k) == IF n.status = "running" /\ InText(code, n.pc) THEN Runs(n, code, k) ELSE n
Runs(n, code, k) == IF k = 0 THEN Instruction(n, code[((n.pc - TextAt) \div 4) + 1])
                    ELSE Resumes(Runs(n, code, k - 1), code, k - 1)
MaxRun == 12
Exits == {InitDone, MainDone} \cup {EntryOf(RtFunctions[i]) : i \in DOMAIN RtFunctions}
Arrived(n) == IF n.status = "running" /\ n.pc \notin Exits THEN Wild(n) ELSE n
Running(n) == Arrived(Resumes(n, image.code, MaxRun))

-----------------------------------------------------------------------------
(* The collector, as the program sees it.                                  *)

TagOf(h) == h % 128
SizeOf(h) == h \div 256
FirstField == [t \in {TagTuple, TagAdt, TagClosure} |-> CASE t = TagTuple -> 1 [] t = TagAdt -> 2
                                                          [] t = TagClosure -> 3]
WordsIn(n, S) == {n.mem[a] : a \in S \cap DOMAIN n.mem}
FieldsOf(n, b) == IF TagOf(n.mem[b]) = TagString THEN {}
                  ELSE WordsIn(n, {b + 8 * i : i \in FirstField[TagOf(n.mem[b])]..(SizeOf(n.mem[b]) - 1)})

RECURSIVE Marked(_, _, _)
Marked(n, todo, seen) ==
    LET new == (todo \cap DOMAIN n.blocks) \ seen
    IN  IF new = {} THEN seen ELSE Marked(n, UNION {FieldsOf(n, b) : b \in new}, seen \cup new)

Sweep(n, live) ==
    LET dead == DOMAIN n.blocks \ live
        words == UNION {{b + 8 * (i - 1) : i \in 1..n.blocks[b]} : b \in dead}
    IN  [n EXCEPT !.blocks = [b \in live |-> @[b]],
                  !.mem = [a \in DOMAIN @ \ words |-> @[a]], !.chars = [a \in DOMAIN @ \ dead |-> @[a]]]
Collected(n, args) ==
    Sweep(n, Marked(n, args \cup {n.mem[a] : a \in {x \in DOMAIN n.mem : OnStack(n, x)}}
                       \cup {n.globals[i] : i \in DOMAIN n.globals}, {}))

(* A machine about to allocate, the arguments kept by the C code.          *)
Collecting(n, args) == IF n.eager THEN Collected(n, args) ELSE n
=============================================================================
