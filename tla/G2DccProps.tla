----------------------------- MODULE G2DccProps -----------------------------
(* What the gen 2 compiler promises: it reads what is written, its types    *)
(* keep programs from going wrong, and the programs it makes do what the    *)
(* interpreter does.                                                        *)
EXTENDS G2Dcc

CONSTANT Trees    \* what the texts that are programs mean, by name
ASSUME TreesAssumption == DOMAIN Trees \subseteq DOMAIN Sources

R == INSTANCE G0Run
E == INSTANCE G5Eval

-----------------------------------------------------------------------------
(* A program is read as what was written: every operator, every pair of    *)
(* parentheses that is needed, every remark, nothing else.                 *)
ReadsBack == call.src \in DOMAIN Trees => /\ said # "syntax"
                                          /\ phase = "check" => made = Trees[call.src]

-----------------------------------------------------------------------------
(* Whether a value of the interpreter is of a type, s being what inference *)
(* knows at the end of the program.                                        *)
RECURSIVE HasType(_, _, _)
ArgTypes(s, c, t) == LET u == I!Instantiate(s, s.env[c])
                         w == I!Unify(u, I!ResultOf(u.ty), t)
                     IN  [ok |-> w.ok, s |-> w, ts |-> I!ArgsOf(u.ty)]
HaveTypes(s, vs, ts) == Len(vs) = Len(ts) /\ \A i \in DOMAIN vs : HasType(s, vs[i], ts[i])
HasType(s, v, t) ==
    LET p == I!Prune(s, t) IN
    CASE p.k = "var" -> FALSE
      [] p.k = "con" /\ v.k = "lit" -> p.n = v.ty
      [] p.k = "con" /\ v.k = "tup" -> p.n = "tuple" /\ HaveTypes(s, v.vs, p.ts)
      [] p.k = "con" /\ v.k = "adt" -> LET a == ArgTypes(s, v.c, p) IN a.ok /\ HaveTypes(a.s, v.vs, a.ts)
      [] OTHER -> p.n = "->"

(* What an accepted program does in the interpreter never needs a value of *)
(* another type than the one there is, or a name that is not bound, and    *)
(* every definition has a value of the type inferred for it: unification,  *)
(* generalization and the environments that definitions, branches and lets *)
(* leave behind are right together (infer.rs against eval.rs).             *)
RunsWell(items, s) ==
    LET r == R!RunItems(items) IN
    /\ r.fault \notin {"stuck", "no function", "unbound variable"}
    /\ r.fault = "" => \A x \in DOMAIN s.env \cap DOMAIN r.v :
                            x \notin DOMAIN E!BuiltinArity => HasType(s, r.v[x], s.env[x].ty)
AcceptedRunsWell == phase = "generate" => RunsWell(made.items, I!CheckProgram(made.items))

-----------------------------------------------------------------------------
(* The object of an accepted program is one that the linker takes: code    *)
(* generation does not panic, every relocated symbol is known, whatever    *)
(* the runtime needs is exported and nothing else is undefined but what    *)
(* the runtime has, pairs of relocations that load one address agree,      *)
(* branches stay in the code, and the parts of the file lie where its      *)
(* headers say (codegen.rs, encoder.rs, macho.rs).                         *)
PairsAgree(file) ==
    \A i \in DOMAIN file.textrelocs :
        LET r == file.textrelocs[i] IN
        IF r.kind = "page"
        THEN /\ file.text[(r.off \div 4) + 1].op = "adrp" /\ file.text[(r.off \div 4) + 2].op = "ldrgot"
             /\ file.textrelocs[i + 1] = [off |-> r.off + 4, kind |-> "pageoff", symnum |-> r.symnum]
        ELSE i > 1 /\ file.textrelocs[i - 1].kind = "page"
BranchesStay(file) ==
    \A i \in DOMAIN file.text :
        file.text[i].op \in {"b", "bl", "bcond"} => 4 * (i - 1) + file.text[i].dist \in 0..(4 * Len(file.text) - 4)
PartsWhereStated(file) ==
    LET h == file.headers
        at(i) == file.written[i].at
    IN  /\ h.text.off = at(2) /\ h.data.off = at(3) /\ h.symoff = at(6) /\ h.stroff = at(7)
        /\ h.text.nreloc > 0 => h.text.reloff = at(4)
        /\ h.data.nreloc > 0 => h.data.reloff = at(5)
        /\ h.text.size <= h.data.addr /\ h.data.addr % 8 = 0 /\ h.vmsize = h.data.addr + h.data.size
LocalsFirst(file) ==
    \A i, j \in DOMAIN file.symtab : ~file.symtab[i].ext /\ file.symtab[j].ext => i < j
ObjectLinks ==
    /\ said \notin {"panic"}
    /\ phase = "write" => /\ Links(made) /\ LocalsFirst(made) /\ PairsAgree(made) /\ BranchesStay(made)
                          /\ PartsWhereStated(made)

-----------------------------------------------------------------------------
(* What a word of the machine stands for, names the constructors by their  *)
(* numbers.                                                                *)
RECURSIVE Meaning(_, _)
Meanings(w, from, names) == [i \in 1..(SizeOf(m.mem[w]) - from) |-> Meaning(m.mem[w + 8 * (from + i - 1)], names)]
Meaning(w, names) ==
    CASE w % 4 = 1 -> EInt(UnboxedInt(w))
      [] w \in {True, False} -> EBool(w = True)
      [] w = UnitAt -> EUnit
      [] OTHER -> LET tag == TagOf(m.mem[w]) IN
                  CASE tag = TagString -> EStr(m.chars[w])
                    [] tag = TagTuple -> E!VTup(Meanings(w, 1, names))
                    [] tag = TagAdt -> E!VAdt(names[m.mem[w + 8] + 1], Meanings(w, 2, names))
                    [] tag = TagClosure -> [k |-> "function"]
RECURSIVE Shown(_)
Shown(v) == CASE E!IsFunction(v) -> [k |-> "function"]
              [] v.k \in {"tup", "adt"} -> [v EXCEPT !.vs = [i \in DOMAIN @ |-> Shown(@[i])]]
              [] OTHER -> v

(* What the interpreter does with each text, and where the definitions of  *)
(* a program are in the compiled one.                                      *)
Each(F(_), f) == [x \in DOMAIN f |-> F(f[x])]
Expected == Each(R!RunSource, Sources)
Tables == Each(LAMBDA items : CtorTable(I!CheckProgram(items).ctors), Trees)
NamesOf(table) == [i \in DOMAIN table |-> table[i].c]
DefinedIn(it) == IF it.k = "type" THEN <<>> ELSE [j \in DOMAIN it.ds |-> it.ds[j].x]
SlotNames == Each(LAMBDA items :
                    LET s == I!CheckProgram(items)
                    IN  Builtins \o NamesOf(SelectSeq(CtorTable(s.ctors), LAMBDA c : c.arity > 0))
                        \o FlattenSeq([i \in DOMAIN items |-> DefinedIn(items[i])]), Trees)
DefinedAlike(names, table, env) ==
    \A i \in DOMAIN names : (\A j \in DOMAIN names : j > i => names[j] # names[i]) /\ names[i] \in DOMAIN env =>
        Meaning(m.globals[i - 1], NamesOf(table)) = Shown(env[names[i]])

(* A compiled program ends as it does in the interpreter: with the same    *)
(* output before the same kind of end, whatever collections there were in  *)
(* between, and its definitions have the same values (test.sh:19, "output  *)
(* must match the reference interpreter"; infer.rs, codegen.rs, encoder.rs *)
(* and the entries of rt.c against eval.rs).                               *)
RunsAsInterpreted ==
    phase = "running" /\ m.status # "running" =>
        /\ m.status = "exit" /\ m.code = Expected[call.src].exit /\ m.out = Expected[call.src].out
        /\ m.code = 0 => DefinedAlike(SlotNames[call.src], Tables[call.src], Expected[call.src].env)

(* The stack is as the callee may expect it, aligned, whenever the runtime *)
(* is entered, and as the caller left it when the program is back.         *)
StackKept == phase = "running" /\ m.status = "running" =>
                 /\ m.sp % 16 = 0
                 /\ m.pc \in {InitDone, MainDone} => m.sp = StackTop /\ m.regs[FP] = Junk

-----------------------------------------------------------------------------
(* Only a program that this call built is run, and a call that ends well   *)
(* leaves the new program, even if an older program has the name, and of   *)
(* the objects only those it was told to keep or could not remove;         *)
(* whatever of reading, writing, compiling the runtime, linking and        *)
(* starting fails (main.rs:91-139).                                        *)
RunsWhatItBuilt == /\ phase = "running" => disk.exe = "new"
                   /\ exit = 0 => disk = [objs |-> KeptObjects \cup call.fixed, exe |-> "new"]
                   /\ said # "" => exit # 0

(* Every call comes to its end.                                            *)
DriverEnds == <>(phase = "done")
=============================================================================
