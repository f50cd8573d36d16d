----------------------------- MODULE G5Loader ------------------------------
(***************************************************************************)
(* From a file of dacelo to a program: g5_visit loads the entry and what   *)
(* it imports, g5_check_files checks every file against its own imports    *)
(* (gen5/g5_driver.dc), and g5cc_main merges the files into one flat       *)
(* namespace and links them (gen5/g5cc_driver.dc).                         *)
(***************************************************************************)
EXTENDS G5Items, SequencesExt

CONSTANTS Projects,      \* what may be on disk: file -> File(...)
          Entry,         \* the file named on the command line
          BuiltinVals,   \* print_int, show, ...
          BuiltinCtors,  \* Nil and Cons, with their number of fields
          Reserved       \* names of the record helpers, g5_is_reserved_nm

(* module: with a header, that exposes exps; sigs: names with a signature; *)
(* records: uses record syntax; locals: names bound inside definitions.    *)
File(module, exps, imports, items) ==
    [module |-> module, exps |-> exps, imports |-> imports, items |-> items,
     sigs |-> <<>>, records |-> FALSE, locals |-> {}]

IsFile(f) ==
    /\ f.imports \in Seq(ToSet(f.imports)) /\ f.items \in Seq(ToSet(f.items))
    /\ \A it \in ToSet(f.items) : IsItem(it)
    /\ {f.module, f.records} \subseteq BOOLEAN

(* Values and constructors are written differently, g5_lex.                *)
ValuesOf(f) == UNION {it.names : it \in {t \in ToSet(f.items) : t.kind = "def"}}
CtorsOf(f) == UNION {DOMAIN it.ctors : it \in ToSet(f.items)}

ASSUME ProjectsAssumption ==
    \A p \in Projects :
      /\ Entry \in DOMAIN p
      /\ \A f \in DOMAIN p : IsFile(p[f])
      /\ \A f, g \in DOMAIN p :
           (BuiltinVals \cup ValuesOf(p[f])) \cap (DOMAIN BuiltinCtors \cup CtorsOf(p[g])) = {}

VARIABLES proj,     \* the files on disk
          phase,    \* load, check, items, checked, linked, refused, cyclic, unreadable
          stack,    \* calls of g5_visit: the file and the imports still to visit
          files,    \* loaded files, the last one first
          queue,    \* files still to check, dependencies first
          chk,      \* the check of the first file in queue
          tables,   \* export table of every checked file
          verdict,  \* checked, partial or invalid, once the check is over
          results,  \* what the check of each file found
          flat      \* files of the linked program in order of initialisation

vars == <<proj, phase, stack, files, queue, chk, tables, verdict, results, flat>>

Idle == Start(Entry, <<>>, {})
Frame(f) == [file |-> f, todo |-> proj[f].imports]

Init ==
    /\ proj \in Projects
    /\ phase = "load" /\ stack = <<[file |-> Entry, todo |-> proj[Entry].imports]>>
    /\ files = <<>> /\ queue = <<>> /\ chk = Idle /\ tables = <<>>
    /\ verdict = "checked" /\ results = <<>> /\ flat = <<>>

-----------------------------------------------------------------------------
(* g5_visit, g5_visit_deps.                                                *)
Top == stack[1]

InStack(f) == \E i \in DOMAIN stack : stack[i].file = f
NextImport == Head(Top.todo)
Popped == [stack EXCEPT ![1].todo = Tail(@)]

Visiting == phase = "load" /\ Top.todo # <<>>
LoadDone == UNCHANGED <<proj, queue, chk, tables, verdict, results, flat>>

Cyclic ==
    /\ Visiting /\ InStack(NextImport)
    /\ phase' = "cyclic"
    /\ UNCHANGED <<stack, files>> /\ LoadDone

(* Mutant: the import is not taken off the list.                           *)
HaveFileKeeps ==
    /\ Visiting /\ ~InStack(NextImport) /\ Contains(files, NextImport)
    /\ UNCHANGED <<phase, stack, files>> /\ LoadDone

HaveFile ==
    /\ Visiting /\ ~InStack(NextImport) /\ Contains(files, NextImport)
    /\ stack' = Popped
    /\ UNCHANGED <<phase, files>> /\ LoadDone

ReadFails ==
    /\ Visiting /\ ~InStack(NextImport) /\ NextImport \notin DOMAIN proj
    /\ phase' = "unreadable"
    /\ UNCHANGED <<stack, files>> /\ LoadDone

(* Mutant: a file is recorded when it is read, not when its imports are.   *)
VisitEarly ==
    /\ Visiting /\ ~InStack(NextImport) /\ ~Contains(files, NextImport)
    /\ NextImport \in DOMAIN proj
    /\ stack' = <<Frame(NextImport)>> \o Popped
    /\ files' = <<NextImport>> \o files
    /\ UNCHANGED phase /\ LoadDone

Visit ==
    /\ Visiting /\ ~InStack(NextImport) /\ ~Contains(files, NextImport)
    /\ NextImport \in DOMAIN proj
    /\ stack' = <<Frame(NextImport)>> \o Popped
    /\ UNCHANGED <<phase, files>> /\ LoadDone

VisitReturns ==
    /\ phase = "load" /\ stack # <<>> /\ Top.todo = <<>>
    /\ files' = <<Top.file>> \o files
    /\ stack' = Tail(stack)
    /\ phase' = IF stack' = <<>> THEN "loaded" ELSE "load"
    /\ LoadDone

-----------------------------------------------------------------------------
(* g5_check_loaded: program-wide checks, then the files, dependencies      *)
(* first.                                                                  *)
Items(f) == ToSet(proj[f].items)
ItemsOf(f, kind) == {it \in Items(f) : it.kind = kind}
DefNames(f) == UNION {it.names : it \in ItemsOf(f, "def")}
TypeNames(f) == UNION {it.names : it \in ItemsOf(f, "type")}
CtorNames(f) == UNION {DOMAIN it.ctors : it \in ItemsOf(f, "type")}
Loaded == ToSet(files)

AnyRecords == \E f \in Loaded : proj[f].records
ReservedName == \E f \in Loaded :
    \/ AnyRecords /\ Reserved \cap DefNames(f) # {}
    \/ proj[f].records /\ Reserved \cap proj[f].locals # {}

(* g5_dup_tydecl_files: types are known by their name.                     *)
DupType == \E f, g \in Loaded : f # g /\ TypeNames(f) \cap TypeNames(g) # {}

CheckLoaded ==
    /\ phase = "loaded"
    /\ IF ReservedName \/ DupType
       THEN phase' = "checked" /\ verdict' = "invalid" /\ UNCHANGED queue
       ELSE phase' = "check" /\ queue' = Reverse(files) /\ UNCHANGED verdict
    /\ UNCHANGED <<proj, stack, files, chk, tables, results, flat>>

(* g5_table_binds puts the names of each import in front of the names of   *)
(* those before it.                                                        *)
Exporting(f, n) == {j \in DOMAIN proj[f].imports : n \in DOMAIN tables[proj[f].imports[j]].binds}
ImportEnv(f) ==
    [n \in UNION {DOMAIN tables[m].binds : m \in ToSet(proj[f].imports)} |->
       tables[proj[f].imports[Max(Exporting(f, n))]].binds[n]]
ImportTypes(f) == UNION {tables[m].types : m \in ToSet(proj[f].imports)}
Builtin == <<"builtin", 0>>
BaseEnv == [n \in BuiltinVals \cup DOMAIN BuiltinCtors |-> Builtin]

DupSig(f) == \E i, j \in DOMAIN proj[f].sigs : i # j /\ proj[f].sigs[i] = proj[f].sigs[j]

StartFile ==
    /\ phase = "check"
    /\ LET f == Head(queue)
       IN IF DupSig(f)
          THEN phase' = "checked" /\ verdict' = "invalid" /\ UNCHANGED chk
          ELSE /\ phase' = "items" /\ UNCHANGED verdict
               /\ chk' = Start(f, Onto(ImportEnv(f), BaseEnv), ImportTypes(f))
    /\ UNCHANGED <<proj, stack, files, queue, tables, results, flat>>

Item ==
    /\ phase = "items" /\ chk.at \in DOMAIN proj[chk.file].items
    /\ chk' = Step(chk, proj[chk.file].items[chk.at])
    /\ UNCHANGED <<proj, phase, stack, files, queue, tables, verdict, results, flat>>

(* g5_table_entry: a file without a header exposes everything.  A type is  *)
(* known to the importer when it or one of its constructors is exposed.    *)
Exposed(f) == IF proj[f].module THEN proj[f].exps ELSE DefNames(f) \cup CtorNames(f)
TableEntry(c) ==
    LET f == c.file IN
    [binds |-> [n \in Exposed(f) \cap DOMAIN c.sums |-> c.sums[n]],
     types |-> UNION {it.names : it \in {t \in ItemsOf(f, "type") :
                        proj[f].module => proj[f].exps \cap (t.names \cup Binds(t)) # {}}}]

Result(v) == [verdict |-> v, diags |-> chk.diags, nodes |-> chk.nodes]

EndFile ==
    LET v == Verdict(chk, proj[chk.file])
    IN  /\ phase = "items" /\ chk.at \notin DOMAIN proj[chk.file].items
        /\ results' = Put(results, chk.file, Result(v))
        /\ tables' = IF v = "checked" \/ (v = "partial" /\ chk.file = Entry)
                     THEN Put(tables, chk.file, TableEntry(chk)) ELSE tables
        /\ queue' = Tail(queue) /\ chk' = Idle
        /\ CASE chk.file = Entry -> phase' = "checked" /\ verdict' = v
             [] chk.file # Entry /\ v = "checked" -> phase' = "check" /\ UNCHANGED verdict
             [] OTHER -> phase' = "checked" /\ verdict' = "invalid"
        /\ UNCHANGED <<proj, stack, files, flat>>

-----------------------------------------------------------------------------
(* g5cc_main: one namespace for the definitions of all files.  Labels are  *)
(* made of names, so the assembler refuses what is defined twice in a file *)
(* and a constructor without fields that is declared twice.                *)
DupAcross == \E f, g \in Loaded : f # g /\ DefNames(f) \cap DefNames(g) # {}
DupExported == \E f, g \in Loaded :
    f # g /\ DOMAIN tables[f].binds \cap DOMAIN tables[g].binds \cap DefNames(f) # {}
SeveralMains == \E f \in Loaded : Cardinality({i \in DOMAIN proj[f].items :
    proj[f].items[i].kind = "def" /\ "main" \in proj[f].items[i].names}) > 1

Places == UNION {{f} \X DOMAIN proj[f].items : f \in Loaded}
ItemAt(p) == proj[p[1]].items[p[2]]
LabelTwice ==
    \/ \E f \in Loaded : \E i, j \in DOMAIN proj[f].items :
         i # j /\ proj[f].items[i].kind = "def" /\ proj[f].items[j].kind = "def"
               /\ proj[f].items[i].names \cap proj[f].items[j].names # {}
    \/ \E p, q \in Places : p # q /\ \E k \in DOMAIN ItemAt(p).ctors \cap DOMAIN ItemAt(q).ctors :
         ItemAt(p).ctors[k] = 0 /\ ItemAt(q).ctors[k] = 0

Refuse ==
    /\ phase = "checked"
    /\ verdict # "checked" \/ DupAcross \/ SeveralMains \/ LabelTwice
    /\ phase' = "refused"
    /\ UNCHANGED <<proj, stack, files, queue, chk, tables, verdict, results, flat>>

(* Mutants: entry first; names that modules hide may be used again.        *)
LinkEntryFirst ==
    /\ phase = "checked" /\ verdict = "checked" /\ ~DupAcross /\ ~SeveralMains /\ ~LabelTwice
    /\ flat' = files
    /\ phase' = "linked"
    /\ UNCHANGED <<proj, stack, files, queue, chk, tables, verdict, results>>

LinkHidden ==
    /\ phase = "checked" /\ verdict = "checked" /\ ~DupExported /\ ~SeveralMains
    /\ flat' = Reverse(files)
    /\ phase' = "linked"
    /\ UNCHANGED <<proj, stack, files, queue, chk, tables, verdict, results>>

Link ==
    /\ phase = "checked" /\ verdict = "checked" /\ ~DupAcross /\ ~SeveralMains /\ ~LabelTwice
    /\ flat' = Reverse(files)
    /\ phase' = "linked"
    /\ UNCHANGED <<proj, stack, files, queue, chk, tables, verdict, results>>

Ended == phase \in {"linked", "refused", "cyclic", "unreadable"} /\ UNCHANGED vars

Next == \/ Cyclic \/ HaveFile \/ ReadFails \/ Visit \/ VisitReturns
        \/ CheckLoaded \/ StartFile \/ Item \/ EndFile
        \/ Refuse \/ Link \/ Ended

Spec == Init /\ [][Next]_vars
FairSpec == Spec /\ WF_vars(Next)

-----------------------------------------------------------------------------
(* Properties.                                                             *)

TypeOK ==
    /\ phase \in {"load", "loaded", "check", "items", "checked", "linked", "refused",
                  "cyclic", "unreadable"}
    /\ Loaded \cup DOMAIN tables \cup DOMAIN results \cup ToSet(queue) \cup ToSet(flat)
         \subseteq DOMAIN proj
    /\ verdict \in {"checked", "partial", "invalid"}
    /\ phase = "load" => stack # <<>>
    /\ phase = "items" => queue # <<>> /\ chk.file = Head(queue)
    /\ chk.at \in 1 .. Len(proj[chk.file].items) + 1

ImportsOf(f) == IF f \in DOMAIN proj THEN ToSet(proj[f].imports) ELSE {}

(* The files that fs reaches: those in every set that contains fs and, with *)
(* a file, its imports.                                                    *)
Known == DOMAIN proj \cup UNION {ImportsOf(f) : f \in DOMAIN proj}
Closed == {S \in SUBSET Known : \A f \in S : ImportsOf(f) \subseteq S}
From(fs) == {f \in Known : \A S \in Closed : fs \subseteq S => f \in S}
HasCycle == \E f \in From({Entry}) : f \in From(ImportsOf(f))

(* A file is loaded once, also when several files import it, and after     *)
(* everything that it imports; it is checked after all of that, too.       *)
LoadOrder ==
    /\ IsInjective(files)
    /\ \A i \in DOMAIN files : \A m \in ImportsOf(files[i]) :
         \E j \in i + 1 .. Len(files) : files[j] = m
    /\ phase = "items" => ImportsOf(chk.file) \subseteq DOMAIN tables

(* The files that are loaded are those that the entry reaches; imports are *)
(* called cyclic exactly when they are.                                    *)
CyclesRefused ==
    /\ phase = "cyclic" => HasCycle
    /\ phase \notin {"load", "cyclic", "unreadable"} =>
         ~HasCycle /\ Loaded = From({Entry})

(* What the loader hands to the checker: exactly the reachable files, each *)
(* after its imports, unless there is a cycle.                             *)
LoadedRight == TypeOK /\ LoadOrder /\ CyclesRefused

(* Whatever the import graph, the loader comes to an end.                  *)
LoadEnds == <>(phase \in {"linked", "refused", "cyclic", "unreadable"})

-----------------------------------------------------------------------------
(* What a file means, from its own text and the texts of its imports.      *)
Bindings(f) == UNION {Binds(it) : it \in Items(f)}
ImportNames(f) == UNION {Exposed(m) \cap Bindings(m) : m \in ImportsOf(f)}
OuterNames(f) == ImportNames(f) \cup BuiltinVals \cup DOMAIN BuiltinCtors
TypesExposed(m) == UNION {it.names : it \in {t \in ItemsOf(m, "type") :
                        proj[m].module => proj[m].exps \cap (t.names \cup Binds(t)) # {}}}
OuterTypes(f) == BuiltinTypes \cup UNION {TypesExposed(m) : m \in ImportsOf(f)}

Earlier(f, i, n) == {j \in 1 .. i - 1 : n \in Binds(proj[f].items[j])}
EarlierType(f, i, t) == {j \in 1 .. i - 1 : proj[f].items[j].kind = "type"
                                            /\ t \in proj[f].items[j].names}

(* Item i has no fault of its own, and what it mentions is bound by items  *)
(* in S or outside of the file.                                            *)
CanPass(f, S, i) ==
  LET it == proj[f].items[i]
      own == IF it.isrec THEN it.names ELSE {}
      types == IF it.kind = "type" THEN it.names ELSE {}
  IN /\ ~it.bad
     /\ \A n \in it.uses \ own : IF Earlier(f, i, n) # {} THEN Max(Earlier(f, i, n)) \in S
                                 ELSE n \in OuterNames(f)
     /\ \A t \in it.tys \ types : t \in OuterTypes(f) \/ EarlierType(f, i, t) \cap S # {}
     /\ \A t \in types : t \notin OuterTypes(f) /\ EarlierType(f, i, t) = {}

(* The items that can pass by means of each other; there is one such set.  *)
The(sets) == CHOOSE S \in sets : TRUE
Good(f) == The({S \in SUBSET DOMAIN proj[f].items :
                  \A i \in DOMAIN proj[f].items : i \in S <=> CanPass(f, S, i)})

(* A file passes exactly when all its items are good, no hole is left and  *)
(* what it exposes or gives a signature exists; with the same answer for   *)
(* every order of its imports and whatever else is loaded.                 *)
FileVerdicts == \A f \in DOMAIN results :
    results[f].verdict = "checked" <=>
      /\ Good(f) = DOMAIN proj[f].items
      /\ \A it \in Items(f) : ~it.hole
      /\ ToSet(proj[f].sigs) \subseteq Bindings(f) \cup OuterNames(f)
      /\ proj[f].module => proj[f].exps \subseteq Bindings(f) \cup OuterNames(f)
                                                  \cup TypeNames(f) \cup OuterTypes(f)

(* A program passes only if all its files do.                              *)
WholeProgramChecked ==
    phase \in {"checked", "linked"} /\ verdict = "checked" =>
      \A f \in Loaded : f \in DOMAIN results /\ results[f].verdict = "checked"

(* No verdict, of a file or of the program, is better or worse than the    *)
(* texts deserve.                                                          *)
VerdictRight == FileVerdicts /\ WholeProgramChecked

(* The items that have nothing to do with an error: they could pass, and   *)
(* mention no name that an earlier item binds which is not one of them,    *)
(* nor a type that it declares or, for a type declaration, mentions.       *)
Spoilt(f, S, i) == UNION {FailedNames(proj[f].items[j]) : j \in (1 .. i - 1) \ S}
Clear(f, S, i) == CanPass(f, S, i) /\ Deps(proj[f].items[i]) \cap Spoilt(f, S, i) = {}
Independent(f) == The({S \in SUBSET DOMAIN proj[f].items :
                         \A i \in DOMAIN proj[f].items : i \in S <=> Clear(f, S, i)})

(* An error does not stop the analysis of the items that have nothing to   *)
(* do with it.                                                             *)
GoodItemsChecked == \A f \in DOMAIN results : Independent(f) \subseteq DOMAIN results[f].nodes

-----------------------------------------------------------------------------
(* The linked program: a value is whatever has its name, a constructor has *)
(* the number of fields of its first declaration.                          *)
Position(f) == CHOOSE k \in DOMAIN flat : flat[k] = f
Before(p, q) == Position(p[1]) < Position(q[1]) \/ (p[1] = q[1] /\ p[2] < q[2])
Defining(n) == {p \in Places : ItemAt(p).kind = "def" /\ n \in ItemAt(p).names}
Declaring(k) == {p \in Places : k \in DOMAIN ItemAt(p).ctors}
FlatValue(n) == IF Defining(n) = {} THEN Builtin ELSE CHOOSE p \in Defining(n) : TRUE
FlatArity(k) == IF k \in DOMAIN BuiltinCtors THEN BuiltinCtors[k]
                ELSE ItemAt(CHOOSE p \in Declaring(k) : \A q \in Declaring(k) : p = q \/ Before(p, q)).ctors[k]
IsCtor(n) == n \in DOMAIN BuiltinCtors \/ Declaring(n) # {}
CheckedArity(b, k) == IF b = Builtin THEN BuiltinCtors[k] ELSE ItemAt(b).ctors[k]

SameMeaning(f, i, n) ==
    LET b == results[f].nodes[i][n]
    IN  IF IsCtor(n) THEN FlatArity(n) = CheckedArity(b, n) ELSE FlatValue(n) = b

(* g5_driver.dc: sibling exports never leak.  Code runs with the           *)
(* definitions that it was checked with, and record syntax with the        *)
(* helpers of the prelude.                                                 *)
RunsAsChecked ==
    phase = "linked" => \A f \in Loaded :
      /\ \A i \in DOMAIN results[f].nodes : \A n \in DOMAIN results[f].nodes[i] : SameMeaning(f, i, n)
      /\ proj[f].records => Reserved \cap (proj[f].locals \cup UNION {DefNames(g) : g \in Loaded}) = {}

(* It holds when no definition takes the name of a builtin and the         *)
(* declarations of a constructor agree on its fields.                      *)
NamesKept ==
    /\ \A f \in Loaded : DefNames(f) \cap BuiltinVals = {}
    /\ \A p \in Places : \A k \in DOMAIN ItemAt(p).ctors : ItemAt(p).ctors[k] = FlatArity(k)
RunsAsCheckedKept == phase = "linked" => (NamesKept => RunsAsChecked)

(* Values are computed in the order of the program: what a definition      *)
(* reads has been initialised, across files too.                           *)
InitOrder ==
    phase = "linked" => (NamesKept =>
      \A p \in Places : \A n \in ItemAt(p).uses :
        LET d == FlatValue(n) IN
        IsCtor(n) \/ d = Builtin \/ Before(d, p) \/ (d = p /\ ItemAt(p).isrec))
=============================================================================
