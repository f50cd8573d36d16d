----------------------------- MODULE G2Encoder -----------------------------
(***************************************************************************)
(* gen2-dcc-rs/src/encoder.rs: the instructions the compiler emits, labels *)
(* and their resolution, and the pairs that load a symbol's address.       *)
(*                                                                         *)
(* An instruction is a record of its operands; how they are packed in its  *)
(* bits is left out.  Instruction i of the code is at byte 4 (i - 1).  A   *)
(* word has WordBits bits; 16 of them go into one move.                    *)
(***************************************************************************)
EXTENDS Integers, SequencesExt

CONSTANT WordBits
ASSUME WordBitsAssumption == WordBits \in 17..30

X0 == 0
X1 == 1
R9 == 9
R10 == 10
R11 == 11
FP == 29
LR == 30
SP == 31
XZR == 31

Modulus == 2^WordBits
Word(n) == n % Modulus

-----------------------------------------------------------------------------
(* Instructions.                                                           *)

Movz(d, v, hw) == [op |-> "movz", d |-> d, v |-> v, hw |-> hw]
Movk(d, v, hw) == [op |-> "movk", d |-> d, v |-> v, hw |-> hw]
Mov(d, n) == [op |-> "mov", d |-> d, n |-> n]
AddReg(d, n, m, sh) == [op |-> "add", d |-> d, n |-> n, m |-> m, sh |-> sh]
AddImm(d, n, v) == [op |-> "addi", d |-> d, n |-> n, v |-> v]
SubImm(d, n, v) == [op |-> "subi", d |-> d, n |-> n, v |-> v]
CmpImm(n, v) == [op |-> "cmpi", n |-> n, v |-> v]
CmpReg(n, m) == [op |-> "cmp", n |-> n, m |-> m]
SubReg(d, n, m) == [op |-> "sub", d |-> d, n |-> n, m |-> m]
Mul(d, n, m) == [op |-> "mul", d |-> d, n |-> n, m |-> m]
Msub(d, n, m, a) == [op |-> "msub", d |-> d, n |-> n, m |-> m, a |-> a]
Sdiv(d, n, m) == [op |-> "sdiv", d |-> d, n |-> n, m |-> m]
AsrImm(d, n, sh) == [op |-> "asr", d |-> d, n |-> n, sh |-> sh]
Cset(d, cond) == [op |-> "cset", d |-> d, cond |-> cond]
Ldr(t, n, off) == [op |-> "ldr", t |-> t, n |-> n, off |-> off]
Str(t, n, off) == [op |-> "str", t |-> t, n |-> n, off |-> off]
StrZeroPost(n) == [op |-> "strpost", n |-> n]
SubSp == [op |-> "subsp"]
AddSp == [op |-> "addsp"]
StpFpLr == [op |-> "stp"]
LdpFpLr == [op |-> "ldp"]
Ret == [op |-> "ret"]
Blr(n) == [op |-> "blr", n |-> n]
Adrp(d, slot) == [op |-> "adrp", d |-> d, slot |-> slot]
LdrGot(d) == [op |-> "ldrgot", d |-> d]
(* Branches have a label until the end and a distance after it.            *)
B(l) == [op |-> "b", l |-> l]
Bl(l) == [op |-> "bl", l |-> l]
BCond(cond, l) == [op |-> "bcond", cond |-> cond, l |-> l]

(* Slot k of the frame.                                                    *)
LdrSlot(t, k) == Ldr(t, SP, 8 * k)
StrSlot(t, k) == Str(t, SP, 8 * k)
MovSpFp == AddImm(FP, SP, 0)

(* load_const_u64: further halves that are zero are not moved.             *)
Half(v, hw) == (v \div 2^(16 * hw)) % 2^16
(* Mutant: the upper half is left out.                                     *)
LoadConstLow(d, v) == <<Movz(d, Half(v, 0), 0)>>

LoadConst(d, v) ==
    <<Movz(d, Half(v, 0), 0)>> \o (IF Half(v, 1) # 0 THEN <<Movk(d, Half(v, 1), 1)>> ELSE <<>>)

-----------------------------------------------------------------------------
(* CodeBuf.  The first eight labels are never given out.  A failed         *)
(* assertion is a panic.                                                   *)

NewBuf == [code |-> <<>>, labels |-> [l \in {} |-> 0], nlabels |-> 8, got |-> <<>>, panic |-> FALSE]

Panic(g) == [g EXCEPT !.panic = TRUE]
PanicIf(g, wrong) == [g EXCEPT !.panic = @ \/ wrong]

MaxOffset == 32760
TooFar(i) == i.op \in {"ldr", "str"} /\ i.off >= MaxOffset
Emit(g, is) == [g EXCEPT !.code = @ \o is, !.panic = @ \/ \E j \in DOMAIN is : TooFar(is[j])]

NewLabels(g, n) == [g EXCEPT !.nlabels = @ + n]
BindLabel(g, l) == [PanicIf(g, l \in DOMAIN g.labels) EXCEPT !.labels = l :> 4 * Len(g.code) @@ @]

ToSymbol(name) == [k |-> "E", sym |-> name]
ToLabel(l) == [k |-> "L", sym |-> <<"label", l>>]

(* The slots of the table of addresses are made as they are met.           *)
InternGotSlot(g, key) == IF key \in ToSet(g.got) THEN g ELSE [g EXCEPT !.got = Append(@, key)]
LoadAddress(g, d, key) ==
    LET h == InternGotSlot(g, key)
    IN  Emit(h, <<Adrp(d, CHOOSE s \in DOMAIN h.got : h.got[s] = key), LdrGot(d)>>)

PatchMovz(g, i, v) == [g EXCEPT !.code[i].v = v]

-----------------------------------------------------------------------------
(* finish: branches get their distances.                                   *)

BCondReach == 2^20
HasLabel(i) == i.op \in {"b", "bl", "bcond"}
Resolved(g, i) ==
    IF ~HasLabel(g.code[i]) THEN g.code[i]
    ELSE [dist |-> g.labels[g.code[i].l] - 4 * (i - 1)] @@ g.code[i]
Unbound(g) == \E i \in DOMAIN g.code : HasLabel(g.code[i]) /\ g.code[i].l \notin DOMAIN g.labels
OutOfReach(i) == i.op = "bcond" /\ (i.dist > BCondReach \/ -i.dist > BCondReach)

FinishCode(g) ==
    IF Unbound(g) THEN Panic(g)
    ELSE LET code == [i \in DOMAIN g.code |-> Resolved(g, i)]
         IN  [PanicIf(g, \E i \in DOMAIN code : OutOfReach(code[i])) EXCEPT !.code = code]
=============================================================================
