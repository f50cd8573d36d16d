---------------------------- MODULE G5LinkProofs ----------------------------
(***************************************************************************)
(* Proofs about the programs that G5Loader links: their code runs with the *)
(* definitions that it was checked with, which have been initialised then. *)
(***************************************************************************)
EXTENDS G5CheckProofs

-----------------------------------------------------------------------------
(* What a name stands for where it was checked: a builtin, or an item of a *)
(* file of the program that binds it.                                      *)
Stands(b, n) == FromBuiltins(b, n) \/ (b \in Places /\ n \in Binds(ItemAt(b)))

(* All files of a linked program have passed, with all of their items.     *)
LEMMA LinkedFiles ==
  ASSUME CheckInv, phase = "linked", NEW f \in Loaded
  PROVE  /\ proj \in Projects /\ f \in DOMAIN proj /\ f \in DOMAIN results
         /\ ImportsOf(f) \subseteq Loaded
         /\ DOMAIN results[f].nodes = DOMAIN proj[f].items
         /\ \A i \in DOMAIN proj[f].items : NodeRight(f, i, results[f].nodes[i])
<1>1. proj \in Projects /\ Shape /\ FilesRight(phase, stack, files)
  BY DEF CheckInv, LoadInv, LoadRight, ListsRight, Shape
<1>2. f \in DOMAIN results /\ results[f].verdict = "checked" /\ ResultRight(f, results[f])
  BY DEF CheckInv, AllPassed, Loaded
<1>3. ImportsOf(f) \subseteq Loaded
  <2>1. /\ Len(files) \in Nat /\ Loaded = {files[i] : i \in 1 .. Len(files)}
    BY <1>1, FileList
  <2>2. PICK i \in 1 .. Len(files) : files[i] = f
    BY <2>1
  <2>3. \A m \in ImportsOf(f) : \E j \in i + 1 .. Len(files) : files[j] = m
    BY <1>1, <2>2 DEF FilesRight
  <2>4. \A j \in i + 1 .. Len(files) : j \in 1 .. Len(files)
    BY <2>1, <2>2
  <2> QED BY <2>1, <2>3, <2>4
<1> QED BY <1>1, <1>2, <1>3 DEF ResultRight

LEMMA PlaceIs ==
  ASSUME CheckInv, NEW p \in Places
  PROVE  /\ p[1] \in Loaded /\ p[1] \in DOMAIN proj /\ p[2] \in DOMAIN proj[p[1]].items
         /\ p = <<p[1], p[2]>> /\ p # Builtin
         /\ IsItem(ItemAt(p)) /\ ItemAt(p) \in Items(p[1])
<1>1. PICK f \in Loaded : p \in {f} \X DOMAIN proj[f].items
  BY DEF Places
<1>2. p[1] = f /\ p[2] \in DOMAIN proj[f].items /\ p = <<p[1], p[2]>>
  BY <1>1
<1>3. proj \in Projects /\ Loaded \subseteq DOMAIN proj
  BY FileList DEF CheckInv, LoadInv, LoadRight, ListsRight, Shape
<1>4. p[2] \in 1 .. Len(proj[f].items) /\ Len(proj[f].items) \in Nat
      /\ IsItem(ItemAt(p)) /\ ItemAt(p) \in Items(f)
  BY <1>2, <1>3, ItemList DEF ItemAt
<1>5. p[2] # 0
  BY <1>4
<1>6. p # Builtin
  BY <1>5 DEF Builtin
<1> QED BY <1>2, <1>3, <1>4, <1>6

LEMMA StandsFor ==
  ASSUME CheckInv, phase = "linked", NEW f \in Loaded, NEW K \in SUBSET DOMAIN proj[f].items,
         NEW b, NEW n, Visible(b, n, f, K)
  PROVE  Stands(b, n)
<1>1. ASSUME NEW g \in Loaded, NEW j \in DOMAIN proj[g].items, b = <<g, j>>,
             n \in Binds(proj[g].items[j])
      PROVE  Stands(b, n)
  BY <1>1 DEF Stands, Places, ItemAt
<1>2. ImportsOf(f) \subseteq Loaded
  BY LinkedFiles
<1> QED BY <1>1, <1>2 DEF Visible, Stands, FromImports, BoundBy

(* Values and constructors have different names.                           *)
LEMMA NoValueIsCtor ==
  ASSUME CheckInv, NEW n
  PROVE  /\ IsCtor(n) => n \notin BuiltinVals
         /\ IsCtor(n) => \A p \in Places : ItemAt(p).kind = "def" => n \notin ItemAt(p).names
<1>1. proj \in Projects /\ Entry \in DOMAIN proj
  BY Files DEF CheckInv, LoadInv, LoadRight, ListsRight
<1>2. ASSUME NEW f \in DOMAIN proj, NEW g \in DOMAIN proj
      PROVE  (BuiltinVals \cup ValuesOf(proj[f])) \cap (DOMAIN BuiltinCtors \cup CtorsOf(proj[g])) = {}
  BY <1>1, ProjectsAssumption
<1>3. IsCtor(n) => \E g \in DOMAIN proj : n \in DOMAIN BuiltinCtors \cup CtorsOf(proj[g])
  <2> SUFFICES ASSUME NEW q \in Declaring(n)
               PROVE  \E g \in DOMAIN proj : n \in DOMAIN BuiltinCtors \cup CtorsOf(proj[g])
    BY <1>1 DEF IsCtor
  <2>1. q \in Places /\ n \in DOMAIN ItemAt(q).ctors
    BY DEF Declaring
  <2>2. q[1] \in DOMAIN proj /\ ItemAt(q) \in ToSet(proj[q[1]].items)
    BY <2>1, PlaceIs DEF Items
  <2> QED BY <2>1, <2>2 DEF CtorsOf
<1>4. ASSUME NEW p \in Places, ItemAt(p).kind = "def", n \in ItemAt(p).names
      PROVE  p[1] \in DOMAIN proj /\ n \in ValuesOf(proj[p[1]])
  <2>1. p[1] \in DOMAIN proj /\ ItemAt(p) \in ToSet(proj[p[1]].items)
    BY PlaceIs DEF Items
  <2> QED BY <1>4, <2>1 DEF ValuesOf
<1> QED BY <1>1, <1>2, <1>3, <1>4

(* A linked program has one definition of a name.                          *)
LEMMA OneDefinition ==
  ASSUME CheckInv, phase = "linked", NEW n, NEW p \in Defining(n), NEW q \in Defining(n)
  PROVE  p = q
<1>1. /\ p \in Places /\ ItemAt(p).kind = "def" /\ n \in ItemAt(p).names
      /\ q \in Places /\ ItemAt(q).kind = "def" /\ n \in ItemAt(q).names
  BY DEF Defining
<1>2. n \in DefNames(p[1]) /\ n \in DefNames(q[1])
  BY <1>1, PlaceIs DEF DefNames, ItemsOf
<1>3. p[1] = q[1]
  BY <1>1, <1>2, PlaceIs DEF CheckInv, DupAcross
<1>4. p[2] = q[2]
  BY <1>1, <1>3, PlaceIs, Zenon DEF CheckInv, LabelTwice, ItemAt
<1> QED BY <1>1, <1>3, <1>4, PlaceIs

(* What a name stands for is what runs.                                    *)
LEMMA StandsRuns ==
  ASSUME CheckInv, phase = "linked", NamesKept, NEW b, NEW n, Stands(b, n)
  PROVE  IF IsCtor(n) THEN FlatArity(n) = CheckedArity(b, n) ELSE FlatValue(n) = b
<1>1. CASE FromBuiltins(b, n)
  <2>1. b = Builtin /\ n \in BuiltinVals \cup DOMAIN BuiltinCtors
    BY <1>1 DEF FromBuiltins
  <2>2. CASE IsCtor(n)
    <3>1. n \in DOMAIN BuiltinCtors
      BY <2>1, <2>2, NoValueIsCtor
    <3> QED BY <2>1, <2>2, <3>1 DEF FlatArity, CheckedArity
  <2>3. CASE ~IsCtor(n)
    <3>1. n \in BuiltinVals
      BY <2>1, <2>3 DEF IsCtor
    <3>2. ASSUME NEW p \in Defining(n) PROVE FALSE
      <4>1. p \in Places /\ ItemAt(p).kind = "def" /\ n \in ItemAt(p).names
        BY DEF Defining
      <4>2. n \in DefNames(p[1]) /\ p[1] \in Loaded
        BY <4>1, PlaceIs DEF DefNames, ItemsOf
      <4> QED BY <3>1, <4>2 DEF NamesKept
    <3> QED BY <2>1, <2>3, <3>2 DEF FlatValue
  <2> QED BY <2>2, <2>3
<1>2. CASE b \in Places /\ n \in Binds(ItemAt(b))
  <2>1. b # Builtin /\ IsItem(ItemAt(b))
    BY <1>2, PlaceIs
  <2>2. CASE ItemAt(b).kind = "def"
    <3>1. n \in ItemAt(b).names /\ b \in Defining(n)
      BY <1>2, <2>2 DEF Binds, Defining
    <3>2. ~IsCtor(n)
      BY <1>2, <2>2, <3>1, NoValueIsCtor
    <3>3. \A p \in Defining(n) : p = b
      BY <3>1, OneDefinition
    <3>4. FlatValue(n) = b
      BY <3>1, <3>3 DEF FlatValue
    <3> QED BY <3>2, <3>4
  <2>3. CASE ItemAt(b).kind = "type"
    <3>1. n \in DOMAIN ItemAt(b).ctors
      BY <1>2, <2>3 DEF Binds
    <3>2. IsCtor(n)
      BY <1>2, <3>1 DEF IsCtor, Declaring
    <3>3. ItemAt(b).ctors[n] = FlatArity(n)
      BY <1>2, <3>1 DEF NamesKept
    <3> QED BY <2>1, <3>2, <3>3 DEF CheckedArity
  <2> QED BY <2>1, <2>2, <2>3 DEF IsItem
<1> QED BY <1>1, <1>2 DEF Stands

(* Files are initialised after the files they import.                      *)
LEMMA ImportsFirst ==
  ASSUME CheckInv, phase = "linked", NEW f \in Loaded, NEW m \in ImportsOf(f)
  PROVE  Position(m) < Position(f)
<1>1. /\ FilesRight(phase, stack, files) /\ Shape /\ flat = Reverse(files)
  BY DEF CheckInv, LoadInv, LoadRight, Shape
<1>2. /\ Len(files) \in Nat /\ Loaded = {files[i] : i \in 1 .. Len(files)}
  BY <1>1, FileList
<1>3. DOMAIN flat = 1 .. Len(files)
      /\ \A k \in 1 .. Len(files) : flat[k] = files[(Len(files) - k) + 1]
  BY <1>1 DEF Reverse
<1>4. ASSUME NEW a \in 1 .. Len(files) PROVE Position(files[a]) = Len(files) + 1 - a
  <2> DEFINE k == Len(files) + 1 - a
             g == files[a]
  <2>1. k \in 1 .. Len(files) /\ (Len(files) - k) + 1 = a
    BY <1>2
  <2>2. k \in DOMAIN flat /\ flat[k] = g
    BY <1>3, <2>1
  <2>3. ASSUME NEW l \in DOMAIN flat, flat[l] = g PROVE l = k
    <3>1. (Len(files) - l) + 1 \in 1 .. Len(files) /\ l \in 1 .. Len(files)
      BY <1>2, <1>3
    <3>2. files[(Len(files) - l) + 1] = files[a]
      BY <1>3, <2>3, <3>1
    <3>3. (Len(files) - l) + 1 = a
      BY <1>1, <3>1, <3>2 DEF FilesRight
    <3> QED BY <1>2, <3>1, <3>3
  <2> HIDE DEF k
  <2>4. (CHOOSE x \in DOMAIN flat : flat[x] = g) = k
    BY <2>2, <2>3
  <2> QED BY <2>4 DEF Position, k
<1>5. PICK a \in 1 .. Len(files) : files[a] = f
  BY <1>2
<1>6. PICK c \in a + 1 .. Len(files) : files[c] = m
  BY <1>1, <1>5 DEF FilesRight
<1>7. c \in 1 .. Len(files)
  BY <1>2, <1>6
<1>8. Position(f) = Len(files) + 1 - a /\ Position(m) = Len(files) + 1 - c
  BY <1>4, <1>5, <1>6, <1>7
<1> QED BY <1>2, <1>6, <1>8

(* What item i of file f uses, and what this stood for in the check.       *)
LEMMA UseChecked ==
  ASSUME CheckInv, phase = "linked", NEW f \in Loaded, NEW i \in DOMAIN proj[f].items,
         NEW n \in proj[f].items[i].uses
  PROVE  /\ n \in DOMAIN results[f].nodes[i]
         /\ Visible(results[f].nodes[i][n], n, f, Sees(f, i))
         /\ Stands(results[f].nodes[i][n], n)
<1>1. /\ proj \in Projects /\ f \in DOMAIN proj
      /\ NodeRight(f, i, results[f].nodes[i])
  BY LinkedFiles
<1>2. n \in DOMAIN results[f].nodes[i] /\ Visible(results[f].nodes[i][n], n, f, Sees(f, i))
  BY <1>1 DEF NodeRight
<1>3. Sees(f, i) \subseteq DOMAIN proj[f].items
  <2>1. Len(proj[f].items) \in Nat /\ DOMAIN proj[f].items = 1 .. Len(proj[f].items)
    BY <1>1, ItemList
  <2> QED BY <2>1 DEF Sees
<1> QED BY <1>2, <1>3, StandsFor

-----------------------------------------------------------------------------
(* Theorems.                                                               *)

(* Code runs with the definitions that it was checked with, and record     *)
(* syntax with the helpers of the prelude, unless a definition takes the   *)
(* name of a builtin or the declarations of a constructor disagree:        *)
(* g5_check_files and the merge of g5cc_main.                              *)
THEOREM RunsAsCheckedHolds == Spec => []RunsAsCheckedKept
<1>1. CheckInv => RunsAsCheckedKept
  <2> SUFFICES ASSUME CheckInv, phase = "linked", NamesKept, NEW f \in Loaded
      PROVE  /\ \A i \in DOMAIN results[f].nodes :
                  \A n \in DOMAIN results[f].nodes[i] : SameMeaning(f, i, n)
             /\ proj[f].records =>
                  Reserved \cap (proj[f].locals \cup UNION {DefNames(g) : g \in Loaded}) = {}
    BY DEF RunsAsCheckedKept, RunsAsChecked
  <2>1. ASSUME NEW i \in DOMAIN results[f].nodes, NEW n \in DOMAIN results[f].nodes[i]
        PROVE  SameMeaning(f, i, n)
    <3>1. i \in DOMAIN proj[f].items /\ n \in proj[f].items[i].uses
      BY LinkedFiles DEF NodeRight
    <3>2. Stands(results[f].nodes[i][n], n)
      BY <3>1, UseChecked
    <3> QED BY <3>2, StandsRuns DEF SameMeaning
  <2>2. ~ReservedName
    BY DEF CheckInv
  <2>3. proj[f].records =>
          Reserved \cap (proj[f].locals \cup UNION {DefNames(g) : g \in Loaded}) = {}
    BY <2>2 DEF ReservedName, AnyRecords
  <2> QED BY <2>1, <2>3
<1> QED BY <1>1, CheckInvariant, PTL

(* What a definition reads has been initialised, across files too, when    *)
(* the names of builtins and constructors are kept: g5_visit orders the    *)
(* files, g5_run_items the items.                                          *)
THEOREM InitOrderHolds == Spec => []InitOrder
<1>1. CheckInv => InitOrder
  <2> SUFFICES ASSUME CheckInv, phase = "linked", NamesKept, NEW p \in Places,
                      NEW n \in ItemAt(p).uses, ~IsCtor(n), FlatValue(n) # Builtin
               PROVE  Before(FlatValue(n), p) \/ (FlatValue(n) = p /\ ItemAt(p).isrec)
    BY DEF InitOrder
  <2> DEFINE f == p[1]
             i == p[2]
             b == results[f].nodes[i][n]
  <2>1. /\ f \in Loaded /\ i \in DOMAIN proj[f].items /\ p = <<f, i>>
        /\ f \in DOMAIN proj /\ ItemAt(p) = proj[f].items[i]
    BY PlaceIs DEF ItemAt
  <2>2. Visible(b, n, f, Sees(f, i)) /\ Stands(b, n)
    BY <2>1, UseChecked
  <2> HIDE DEF b
  <2>3. FlatValue(n) = b
    BY <2>2, StandsRuns
  <2>4. CASE FromBuiltins(b, n)
    BY <2>3, <2>4 DEF FromBuiltins
  <2>5. CASE BoundBy(b, n, f, Sees(f, i))
    <3>1. PICK j \in Sees(f, i) : b = <<f, j>>
      BY <2>5 DEF BoundBy
    <3>2. proj \in Projects
      BY DEF CheckInv, LoadInv, LoadRight, ListsRight
    <3>3. i \in Nat
      BY <2>1, <3>2, ItemList
    <3>4. CASE j = i
      <4>1. proj[f].items[i].isrec
        BY <3>1, <3>3, <3>4 DEF Sees
      <4> QED BY <2>1, <2>3, <3>1, <3>4, <4>1
    <3>5. CASE j # i
      <4>1. j < i
        BY <3>1, <3>3, <3>5 DEF Sees
      <4> QED BY <2>3, <3>1, <4>1 DEF Before
    <3> QED BY <3>4, <3>5
  <2>6. CASE FromImports(b, n, f)
    <3>1. PICK m \in ImportsOf(f) : \E j : b = <<m, j>>
      BY <2>6 DEF FromImports, BoundBy
    <3>2. Position(m) < Position(f)
      BY <2>1, ImportsFirst
    <3> QED BY <2>3, <3>1, <3>2 DEF Before
  <2> QED BY <2>2, <2>4, <2>5, <2>6 DEF Visible
<1> QED BY <1>1, CheckInvariant, PTL

=============================================================================
