------------------------------ MODULE G2Macho ------------------------------
(***************************************************************************)
(* gen2-dcc-rs/src/macho.rs: the object file.                              *)
(*                                                                         *)
(* An object has its code (four bytes an instruction), its data (words of  *)
(* eight), its symbols and its relocations.  The file is the headers with  *)
(* the offsets they state, the symbol table, the relocations with symbols  *)
(* by number, and the places where the parts were written.  Names are not  *)
(* spelled: the string table is left out but for its place.                *)
(***************************************************************************)
EXTENDS Integers, SequencesExt

Define(sym, sect, off, global) == [sym |-> sym, sect |-> sect, off |-> off, global |-> global]
Undefined(sym) == [sym |-> sym, sect |-> "none", off |-> 0, global |-> FALSE]

AlignUp(v, a) == ((v + a - 1) \div a) * a
HeaderSize == 32
SizeofCmds == 72 + 80 * 2 + 24 + 24
TextSize(obj) == 4 * Len(obj.text)
DataSize(obj) == 8 * Len(obj.data)
DataAddr(obj) == AlignUp(TextSize(obj), 8)

(* Locals, then globals, then what is undefined.                           *)
SymbolOrder(syms) == SelectSeq(syms, LAMBDA s : s.sect # "none" /\ ~s.global)
                     \o SelectSeq(syms, LAMBDA s : s.sect # "none" /\ s.global)
                     \o SelectSeq(syms, LAMBDA s : s.sect = "none")

NList(obj, s) == [sym |-> s.sym, sect |-> s.sect, ext |-> s.global \/ s.sect = "none",
                  value |-> s.off + (IF s.sect = "data" THEN DataAddr(obj) ELSE 0)]

(* Of several entries with a name the last one counts.                     *)
KnownSym(nlists, sym) == \E i \in DOMAIN nlists : nlists[i].sym = sym
SymIndex(nlists, sym) == CHOOSE i \in DOMAIN nlists :
                             /\ nlists[i].sym = sym
                             /\ \A j \in DOMAIN nlists : j > i => nlists[j].sym # sym
EncodeRelocs(nlists, relocs) ==
    [i \in DOMAIN relocs |-> [off |-> relocs[i].off, kind |-> relocs[i].kind,
                              symnum |-> SymIndex(nlists, relocs[i].sym)]]

(* A part begins where the last one ends, after padding up to it.          *)
Place(parts, align, size) ==
    LET end == IF parts = <<>> THEN 0 ELSE Last(parts).at + Last(parts).size
    IN  Append(parts, [at |-> AlignUp(end, align), size |-> size])

Section(addr, size, off, reloff, relocs) ==
    [addr |-> addr, size |-> size, off |-> off, nreloc |-> Len(relocs),
     reloff |-> IF relocs = <<>> THEN 0 ELSE reloff]

(* The offsets are computed before anything is written.                    *)
Headers(obj, nlists) ==
    LET textoff == HeaderSize + SizeofCmds
        dataoff == AlignUp(textoff + TextSize(obj), 16)
        reltext == dataoff + DataSize(obj)
        reldata == reltext + 8 * Len(obj.textrelocs)
        symoff == AlignUp(reldata + 8 * Len(obj.datarelocs), 8)
    IN  [vmsize |-> DataAddr(obj) + DataSize(obj),
         text |-> Section(0, TextSize(obj), textoff, reltext, obj.textrelocs),
         data |-> Section(DataAddr(obj), DataSize(obj), dataoff, reldata, obj.datarelocs),
         symoff |-> symoff, nsyms |-> Len(nlists), stroff |-> symoff + 16 * Len(nlists)]

Written(obj, nlists) ==
    LET a == Place(Place(<<>>, 1, HeaderSize + SizeofCmds), 1, TextSize(obj))
        b == Place(Place(a, 16, DataSize(obj)), 1, 8 * Len(obj.textrelocs))
        c == Place(Place(b, 1, 8 * Len(obj.datarelocs)), 8, 16 * Len(nlists))
    IN  Place(c, 1, 0)

FileOf(obj, nlists) ==
    IF \A r \in ToSet(obj.textrelocs \o obj.datarelocs) : KnownSym(nlists, r.sym)
    THEN [ok |-> TRUE, file |-> [headers |-> Headers(obj, nlists), written |-> Written(obj, nlists),
                                 symtab |-> nlists,
                                 text |-> obj.text, data |-> obj.data, texts |-> obj.texts,
                                 textrelocs |-> EncodeRelocs(nlists, obj.textrelocs),
                                 datarelocs |-> EncodeRelocs(nlists, obj.datarelocs)]]
    ELSE [ok |-> FALSE]

Finish(obj) == FileOf(obj, LET syms == SymbolOrder(obj.syms) IN [i \in DOMAIN syms |-> NList(obj, syms[i])])
=============================================================================
