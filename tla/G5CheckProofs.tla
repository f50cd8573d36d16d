---------------------------- MODULE G5CheckProofs ----------------------------
(***************************************************************************)
(* Proofs about the checks of G5Loader, for every set of projects: which   *)
(* verdict a file gets, which items are checked in spite of errors, and    *)
(* that the linked program means what was checked.                         *)
(***************************************************************************)
EXTENDS G5LoaderProofs

-----------------------------------------------------------------------------
(* The invariant.                                                          *)

(* Where a binding may come from: the builtins, items K of file f, or any  *)
(* item of an import of f.                                                 *)
FromBuiltins(b, x) == b = Builtin /\ x \in BuiltinVals \cup DOMAIN BuiltinCtors
BoundBy(b, x, f, K) == \E j \in K : b = <<f, j>> /\ x \in Binds(proj[f].items[j])
FromImports(b, x, f) == \E m \in ImportsOf(f) \cap DOMAIN proj :
                          BoundBy(b, x, m, DOMAIN proj[m].items)
Visible(b, x, f, K) == FromBuiltins(b, x) \/ BoundBy(b, x, f, K) \/ FromImports(b, x, f)

(* An item that was checked found everything it uses in the items before   *)
(* it, in itself when it is recursive, or outside of the file.             *)
Sees(f, i) == IF proj[f].items[i].isrec THEN 1 .. i ELSE 1 .. i - 1
NodeRight(f, i, node) ==
    /\ DOMAIN node = proj[f].items[i].uses
    /\ \A x \in DOMAIN node : Visible(node[x], x, f, Sees(f, i))

Provided(f, K) == UNION {Binds(proj[f].items[j]) : j \in K}
Declared(f, K) == UNION {proj[f].items[j].names :
                           j \in {k \in K : proj[f].items[k].kind = "type"}}

(* The check of a file before item at: what it has bound and declared is   *)
(* what the items it accepted bind and declare; it accepted all that are   *)
(* independent of errors; its status is "checked" exactly when all items   *)
(* so far are good.                                                        *)
IsCheck(c) == DOMAIN c = {"file", "at", "env", "tydefs", "sums", "failed", "status",
                          "holes", "holevars", "diags", "nodes"}

BindsRight(c) ==
    /\ DOMAIN c.nodes \subseteq 1 .. c.at - 1
    /\ \A i \in DOMAIN c.nodes : NodeRight(c.file, i, c.nodes[i])
    /\ DOMAIN c.env = OuterNames(c.file) \cup Provided(c.file, DOMAIN c.nodes)
    /\ \A x \in DOMAIN c.env : Visible(c.env[x], x, c.file, 1 .. c.at - 1)
    /\ DOMAIN c.sums = Provided(c.file, DOMAIN c.nodes)
    /\ \A x \in DOMAIN c.sums : BoundBy(c.sums[x], x, c.file, 1 .. c.at - 1)

TypesRight(c) ==
    /\ OuterTypes(c.file) \cup Declared(c.file, DOMAIN c.nodes) \subseteq KnownTypes(c)
    /\ KnownTypes(c) \subseteq OuterTypes(c.file) \cup Declared(c.file, 1 .. c.at - 1)

RecoveryRight(c) ==
    /\ Independent(c.file) \cap 1 .. c.at - 1 \subseteq DOMAIN c.nodes
    /\ c.failed \subseteq Spoilt(c.file, Independent(c.file), c.at)

StatusRight(c) ==
    /\ c.status \in {"checked", "partial", "invalid"} /\ c.holes \in BOOLEAN
    /\ c.status = "checked" => /\ c.failed = {} /\ DOMAIN c.nodes = 1 .. c.at - 1
                               /\ 1 .. c.at - 1 \subseteq Good(c.file)
                               /\ c.holes <=> \E i \in 1 .. c.at - 1 : proj[c.file].items[i].hole
    /\ c.status # "checked" => \E i \in 1 .. c.at - 1 : i \notin Good(c.file)

CheckRight(c) ==
    /\ IsCheck(c) /\ c.file \in DOMAIN proj /\ c.at \in 1 .. Len(proj[c.file].items) + 1
    /\ BindsRight(c) /\ TypesRight(c) /\ RecoveryRight(c) /\ StatusRight(c)

(* The result of a file, and the table of one that passed.                 *)
Passes(f) ==
    /\ Good(f) = DOMAIN proj[f].items
    /\ \A it \in Items(f) : ~it.hole
    /\ ToSet(proj[f].sigs) \subseteq Bindings(f) \cup OuterNames(f)
    /\ proj[f].module => proj[f].exps \subseteq Bindings(f) \cup OuterNames(f)
                                                \cup TypeNames(f) \cup OuterTypes(f)

ResultRight(f, r) ==
    /\ f \in DOMAIN proj
    /\ \A i \in DOMAIN r.nodes : i \in DOMAIN proj[f].items /\ NodeRight(f, i, r.nodes[i])
    /\ Independent(f) \subseteq DOMAIN r.nodes
    /\ r.verdict = "checked" <=> Passes(f)
    /\ r.verdict = "checked" => DOMAIN r.nodes = DOMAIN proj[f].items

TableRight(f, t) ==
    /\ DOMAIN t.binds = Exposed(f) \cap Bindings(f)
    /\ \A x \in DOMAIN t.binds : BoundBy(t.binds[x], x, f, DOMAIN proj[f].items)
    /\ t.types = TypesExposed(f)

(* Files still to check: the first ones loaded last.  The others passed.   *)
QueueRight(q, fl, rs, ts) ==
    /\ q \in Seq(DOMAIN proj) /\ Len(q) \in 1 .. Len(fl)
    /\ \A i \in 1 .. Len(q) : q[i] = fl[Len(q) + 1 - i]
    /\ \A i \in Len(q) + 1 .. Len(fl) :
         /\ fl[i] \in DOMAIN rs /\ rs[fl[i]].verdict = "checked"
         /\ fl[i] \in DOMAIN ts /\ TableRight(fl[i], ts[fl[i]])

AllPassed(fl, rs) == \A f \in ToSet(fl) : f \in DOMAIN rs /\ rs[f].verdict = "checked"

CheckInv ==
    /\ LoadInv
    /\ \A f \in DOMAIN results : ResultRight(f, results[f])
    /\ DOMAIN tables \subseteq DOMAIN proj
    /\ queue \in Seq(DOMAIN proj) /\ flat \in Seq(DOMAIN proj)
    /\ verdict \in {"checked", "partial", "invalid"}
    /\ phase \in {"load", "loaded"} => verdict = "checked"
    /\ phase \in {"check", "items"} => /\ QueueRight(queue, files, results, tables)
                                       /\ verdict = "checked" /\ ~ReservedName
    /\ phase = "items" => CheckRight(chk) /\ chk.file = Head(queue)
    /\ phase # "items" => chk = Idle
    /\ phase \in {"checked", "linked"} /\ verdict = "checked" =>
         AllPassed(files, results) /\ ~ReservedName
    /\ phase = "linked" => /\ verdict = "checked" /\ flat = Reverse(files)
                           /\ ~DupAcross /\ ~LabelTwice

-----------------------------------------------------------------------------
(* The texts of the files do not change, nor what is said of them.         *)
LEMMA SameText ==
  ASSUME proj' = proj
  PROVE  /\ \A f : Items(f)' = Items(f)
         /\ \A f, k : ItemsOf(f, k)' = ItemsOf(f, k)
         /\ \A f : DefNames(f)' = DefNames(f) /\ TypeNames(f)' = TypeNames(f)
         /\ \A f : CtorNames(f)' = CtorNames(f) /\ Bindings(f)' = Bindings(f)
         /\ \A f : Exposed(f)' = Exposed(f)
<1>1. \A f : Items(f)' = Items(f)
  BY DEF Items
<1>2. \A f, k : ItemsOf(f, k)' = ItemsOf(f, k)
  BY <1>1 DEF ItemsOf
<1>3. \A f : DefNames(f)' = DefNames(f) /\ TypeNames(f)' = TypeNames(f)
             /\ CtorNames(f)' = CtorNames(f)
  BY <1>2 DEF DefNames, TypeNames, CtorNames
<1>4. \A f : Bindings(f)' = Bindings(f)
  BY <1>1 DEF Bindings
<1>5. \A f : Exposed(f)' = Exposed(f)
  BY <1>3 DEF Exposed
<1> QED BY <1>1, <1>2, <1>3, <1>4, <1>5

LEMMA SameOutside ==
  ASSUME proj' = proj
  PROVE  /\ \A f : OuterNames(f)' = OuterNames(f)
         /\ \A f : TypesExposed(f)' = TypesExposed(f)
         /\ \A f : OuterTypes(f)' = OuterTypes(f)
         /\ \A f, i, n : Earlier(f, i, n)' = Earlier(f, i, n)
         /\ \A f, i, n : EarlierType(f, i, n)' = EarlierType(f, i, n)
<1>1. \A f : ImportsOf(f)' = ImportsOf(f)
  BY SameFiles
<1>2. \A f : OuterNames(f)' = OuterNames(f)
  BY <1>1, SameText DEF OuterNames, ImportNames
<1>3. \A f : TypesExposed(f)' = TypesExposed(f)
  BY SameText DEF TypesExposed
<1>4. \A f : OuterTypes(f)' = OuterTypes(f)
  BY <1>1, <1>3 DEF OuterTypes
<1>5. \A f, i, n : Earlier(f, i, n)' = Earlier(f, i, n)
  BY DEF Earlier
<1>6. \A f, i, n : EarlierType(f, i, n)' = EarlierType(f, i, n)
  BY DEF EarlierType
<1> QED BY <1>2, <1>3, <1>4, <1>5, <1>6

LEMMA SameGood ==
  ASSUME proj' = proj
  PROVE  /\ \A f, S, i : CanPass(f, S, i)' <=> CanPass(f, S, i)
         /\ \A f : Good(f)' = Good(f)
         /\ \A f, S, i : Spoilt(f, S, i)' = Spoilt(f, S, i)
         /\ \A f : Independent(f)' = Independent(f)
<1>1. \A f, S, i : CanPass(f, S, i)' <=> CanPass(f, S, i)
  BY SameOutside DEF CanPass
<1>2. \A f : Good(f)' = Good(f)
  BY <1>1 DEF Good
<1>3. \A f, S, i : Spoilt(f, S, i)' = Spoilt(f, S, i)
  BY DEF Spoilt
<1>4. \A f, S, i : Clear(f, S, i)' <=> Clear(f, S, i)
  BY <1>1, <1>3 DEF Clear
<1>5. \A f : Independent(f)' = Independent(f)
  BY <1>4 DEF Independent
<1> QED BY <1>1, <1>2, <1>3, <1>5

LEMMA SameRight ==
  ASSUME proj' = proj
  PROVE  /\ \A c : CheckRight(c)' <=> CheckRight(c)
         /\ \A f, r : ResultRight(f, r)' <=> ResultRight(f, r)
         /\ \A f, t : TableRight(f, t)' <=> TableRight(f, t)
         /\ \A q, fl, rs, ts : QueueRight(q, fl, rs, ts)' <=> QueueRight(q, fl, rs, ts)
<1>1. \A b, x, f, K : BoundBy(b, x, f, K)' <=> BoundBy(b, x, f, K)
  BY DEF BoundBy
<1>2. \A b, x, f, K : Visible(b, x, f, K)' <=> Visible(b, x, f, K)
  <2>1. \A b, x, f : FromImports(b, x, f)' <=> FromImports(b, x, f)
    BY <1>1, SameFiles DEF FromImports
  <2> QED BY <1>1, <2>1 DEF Visible
<1>3. \A f, i, node : NodeRight(f, i, node)' <=> NodeRight(f, i, node)
  <2>1. \A f, i : Sees(f, i)' = Sees(f, i)
    BY DEF Sees
  <2> QED BY <1>2, <2>1 DEF NodeRight
<1>4. \A f, K : Provided(f, K)' = Provided(f, K)
  BY DEF Provided
<1>5. \A f, K : Declared(f, K)' = Declared(f, K)
  BY DEF Declared
<1>6. \A c : BindsRight(c)' <=> BindsRight(c)
  BY <1>1, <1>2, <1>3, <1>4, SameOutside DEF BindsRight
<1>7. \A c : TypesRight(c)' <=> TypesRight(c)
  BY <1>5, SameOutside DEF TypesRight
<1>8. \A c : RecoveryRight(c)' <=> RecoveryRight(c)
  BY SameGood DEF RecoveryRight
<1>9. \A c : StatusRight(c)' <=> StatusRight(c)
  BY SameGood DEF StatusRight
<1>10. \A c : CheckRight(c)' <=> CheckRight(c)
  BY <1>6, <1>7, <1>8, <1>9 DEF CheckRight
<1>11. \A f : Passes(f)' <=> Passes(f)
  BY SameText, SameOutside, SameGood DEF Passes
<1>12. \A f, r : ResultRight(f, r)' <=> ResultRight(f, r)
  BY <1>3, <1>11, SameGood DEF ResultRight
<1>13. \A f, t : TableRight(f, t)' <=> TableRight(f, t)
  BY <1>1, SameText, SameOutside DEF TableRight
<1>14. \A q, fl, rs, ts : QueueRight(q, fl, rs, ts)' <=> QueueRight(q, fl, rs, ts)
  BY <1>13 DEF QueueRight
<1> QED BY <1>10, <1>12, <1>13, <1>14

-----------------------------------------------------------------------------
(* The sets of items that pass by means of each other.                     *)

(* A condition on a set S and a number i that looks only at the part of S  *)
(* below i is met by exactly the elements of some S.                       *)
LEMMA FixedPoint ==
  ASSUME NEW n \in Nat, NEW R,
         \A S, T \in SUBSET (1 .. n) : \A i \in 1 .. n :
            S \cap 1 .. i - 1 = T \cap 1 .. i - 1 => (<<S, i>> \in R <=> <<T, i>> \in R)
  PROVE  \E S \in SUBSET (1 .. n) : \A i \in 1 .. n : i \in S <=> <<S, i>> \in R
<1> DEFINE Up(k) == \E S \in SUBSET (1 .. n) :
                      \A i \in 1 .. n : i <= k => (i \in S <=> <<S, i>> \in R)
           K == {k \in Nat : Up(k)}
<1>1. 0 \in K
  <2>1. {} \in SUBSET (1 .. n) /\ \A i \in 1 .. n : ~ (i <= 0)
    OBVIOUS
  <2> QED BY <2>1
<1>2. ASSUME NEW k \in K PROVE k + 1 \in K
  <2>1. PICK S \in SUBSET (1 .. n) :
          \A i \in 1 .. n : i <= k => (i \in S <=> <<S, i>> \in R)
    BY <1>2
  <2> DEFINE T == {i \in 1 .. n : IF i <= k THEN i \in S ELSE i = k + 1 /\ <<S, i>> \in R}
  <2>2. T \in SUBSET (1 .. n)
    OBVIOUS
  <2>3. ASSUME NEW i \in 1 .. n, i <= k + 1 PROVE <<S, i>> \in R <=> <<T, i>> \in R
    <3>1. S \cap 1 .. i - 1 = T \cap 1 .. i - 1
      BY <2>3
    <3> HIDE DEF T
    <3> QED BY <2>2, <3>1
  <2>4. ASSUME NEW i \in 1 .. n, i <= k + 1 PROVE i \in T <=> <<T, i>> \in R
    <3>1. i \in T <=> IF i <= k THEN i \in S ELSE i = k + 1 /\ <<S, i>> \in R
      OBVIOUS
    <3> HIDE DEF T
    <3>2. i \in T <=> <<S, i>> \in R
      BY <3>1, <2>1, <2>4
    <3> QED BY <3>2, <2>3, <2>4
  <2> HIDE DEF T
  <2>5. Up(k + 1)
    BY <2>2, <2>4
  <2> QED BY <2>5
<1> HIDE DEF Up
<1>3. K = Nat
  BY <1>1, <1>2, SetInduction
<1>4. Up(n)
  BY <1>3
<1> QED BY <1>4 DEF Up

(* The latest of the items before i that bind n.                           *)
LEMMA Latest ==
  ASSUME NEW f, NEW i \in Nat, NEW n, Earlier(f, i, n) # {}
  PROVE  /\ Max(Earlier(f, i, n)) \in Earlier(f, i, n)
         /\ Max(Earlier(f, i, n)) \in 1 .. i - 1
         /\ n \in Binds(proj[f].items[Max(Earlier(f, i, n))])
<1> DEFINE T == Earlier(f, i, n)
<1>1. T \in SUBSET (1 .. i - 1) /\ \A j \in T : n \in Binds(proj[f].items[j])
  BY DEF Earlier
<1> HIDE DEF T
<1>2. \E m \in T : \A k \in T : k <= m
  <2>1. T \in SUBSET Nat /\ T # {} /\ \A k \in T : k <= i
    BY <1>1 DEF T
  <2> QED BY <2>1, GreatestElement
<1>3. \E m \in T : \A k \in T : m >= k
  BY <1>1, <1>2
<1>4. Max(T) \in T
  BY <1>3 DEF Max
<1> QED BY <1>1, <1>4 DEF T

LEMMA ItemList ==
  ASSUME proj \in Projects, NEW f \in DOMAIN proj
  PROVE  /\ Len(proj[f].items) \in Nat /\ DOMAIN proj[f].items = 1 .. Len(proj[f].items)
         /\ \A i \in DOMAIN proj[f].items : IsItem(proj[f].items[i])
         /\ \A i \in DOMAIN proj[f].items : proj[f].items[i] \in Items(f)
<1>1. proj[f].items \in Seq(ToSet(proj[f].items))
      /\ \A it \in ToSet(proj[f].items) : IsItem(it)
  BY Files DEF IsFile
<1>2. \A i \in DOMAIN proj[f].items : proj[f].items[i] \in ToSet(proj[f].items)
  BY DEF ToSet
<1>3. Len(proj[f].items) \in Nat /\ DOMAIN proj[f].items = 1 .. Len(proj[f].items)
  BY <1>1, LenProperties
<1> QED BY <1>1, <1>2, <1>3 DEF Items

(* Whether an item passes depends on the items before it only.             *)
LEMMA CanPassLocal ==
  ASSUME NEW f, NEW i \in Nat, NEW S, NEW T, S \cap 1 .. i - 1 = T \cap 1 .. i - 1
  PROVE  CanPass(f, S, i) <=> CanPass(f, T, i)
<1>1. \A n : Earlier(f, i, n) # {} =>
        (Max(Earlier(f, i, n)) \in S <=> Max(Earlier(f, i, n)) \in T)
  BY Latest
<1>2. \A t : EarlierType(f, i, t) \cap S = EarlierType(f, i, t) \cap T
  <2>1. \A t : EarlierType(f, i, t) \subseteq 1 .. i - 1
    BY DEF EarlierType
  <2> QED BY <2>1
<1> QED BY <1>1, <1>2 DEF CanPass

LEMMA GoodChosen ==
  ASSUME proj \in Projects, NEW f \in DOMAIN proj
  PROVE  /\ Good(f) \subseteq DOMAIN proj[f].items
         /\ \A i \in DOMAIN proj[f].items : i \in Good(f) <=> CanPass(f, Good(f), i)
<1> DEFINE n == Len(proj[f].items)
           D == SUBSET (1 .. n)
           Sets == {S \in D : \A i \in 1 .. n : i \in S <=> CanPass(f, S, i)}
           R == {p \in D \X (1 .. n) : CanPass(f, p[1], p[2])}
<1>1. n \in Nat /\ DOMAIN proj[f].items = 1 .. n
  BY ItemList
<1>2. \A S \in D : \A i \in 1 .. n : <<S, i>> \in R <=> CanPass(f, S, i)
  OBVIOUS
<1>3. \A S, T \in D : \A i \in 1 .. n :
         S \cap 1 .. i - 1 = T \cap 1 .. i - 1 => (CanPass(f, S, i) <=> CanPass(f, T, i))
  <2>1. \A i \in 1 .. n : i \in Nat
    BY <1>1
  <2> QED BY <2>1, CanPassLocal
<1> HIDE DEF R
<1>4. \E S \in D : \A i \in 1 .. n : i \in S <=> <<S, i>> \in R
  BY <1>1, <1>2, <1>3, FixedPoint
<1>5. Sets # {}
  BY <1>2, <1>4
<1>6. Good(f) = The(Sets)
  BY <1>1 DEF Good
<1> HIDE DEF Sets
<1>7. The(Sets) \in Sets
  BY <1>5 DEF The
<1> QED BY <1>1, <1>6, <1>7 DEF Sets

LEMMA IndependentChosen ==
  ASSUME proj \in Projects, NEW f \in DOMAIN proj
  PROVE  /\ Independent(f) \subseteq DOMAIN proj[f].items
         /\ \A i \in DOMAIN proj[f].items : i \in Independent(f) <=> Clear(f, Independent(f), i)
<1> DEFINE n == Len(proj[f].items)
           D == SUBSET (1 .. n)
           Sets == {S \in D : \A i \in 1 .. n : i \in S <=> Clear(f, S, i)}
           R == {p \in D \X (1 .. n) : Clear(f, p[1], p[2])}
<1>1. n \in Nat /\ DOMAIN proj[f].items = 1 .. n
  BY ItemList
<1>2. \A S \in D : \A i \in 1 .. n : <<S, i>> \in R <=> Clear(f, S, i)
  OBVIOUS
<1>3. \A S, T \in D : \A i \in 1 .. n :
         S \cap 1 .. i - 1 = T \cap 1 .. i - 1 => (Clear(f, S, i) <=> Clear(f, T, i))
  <2> SUFFICES ASSUME NEW S \in D, NEW T \in D, NEW i \in 1 .. n,
                      S \cap 1 .. i - 1 = T \cap 1 .. i - 1
               PROVE  Clear(f, S, i) <=> Clear(f, T, i)
    OBVIOUS
  <2>1. CanPass(f, S, i) <=> CanPass(f, T, i)
    BY <1>1, CanPassLocal
  <2>2. (1 .. i - 1) \ S = (1 .. i - 1) \ T
    OBVIOUS
  <2>3. Spoilt(f, S, i) = Spoilt(f, T, i)
    BY <2>2 DEF Spoilt
  <2> QED BY <2>1, <2>3 DEF Clear
<1> HIDE DEF R
<1>4. \E S \in D : \A i \in 1 .. n : i \in S <=> <<S, i>> \in R
  BY <1>1, <1>2, <1>3, FixedPoint
<1>5. Sets # {}
  BY <1>2, <1>4
<1>6. Independent(f) = The(Sets)
  BY <1>1 DEF Independent
<1> HIDE DEF Sets
<1>7. The(Sets) \in Sets
  BY <1>5 DEF The
<1> QED BY <1>1, <1>6, <1>7 DEF Sets

-----------------------------------------------------------------------------
(* One item.                                                               *)

(* The item passes where the check stands, whatever failed before.         *)
Fits(c, it) ==
    IF it.kind = "def" THEN ~DefFails(c, it)
    ELSE it.names \cap KnownTypes(c) = {} /\ ~it.bad /\ it.tys \subseteq KnownTypes(c) \cup it.names

(* An item that can pass by means of accepted items fits.                  *)
LEMMA CanPassFits ==
  ASSUME proj \in Projects, NEW c, CheckRight(c), c.at \in DOMAIN proj[c.file].items,
         NEW S, S \cap 1 .. c.at - 1 \subseteq DOMAIN c.nodes, CanPass(c.file, S, c.at)
  PROVE  Fits(c, proj[c.file].items[c.at])
<1> DEFINE f == c.file
           n == c.at
           it == proj[f].items[n]
           own == IF it.isrec THEN it.names ELSE {}
           types == IF it.kind = "type" THEN it.names ELSE {}
<1>1. f \in DOMAIN proj /\ n \in Nat /\ BindsRight(c) /\ TypesRight(c) /\ IsItem(it)
  BY ItemList DEF CheckRight
<1>2. /\ ~it.bad
      /\ \A x \in it.uses \ own : IF Earlier(f, n, x) # {} THEN Max(Earlier(f, n, x)) \in S
                                  ELSE x \in OuterNames(f)
      /\ \A t \in it.tys \ types : t \in OuterTypes(f) \/ EarlierType(f, n, t) \cap S # {}
      /\ \A t \in types : t \notin OuterTypes(f) /\ EarlierType(f, n, t) = {}
  BY DEF CanPass
<1>3. ASSUME NEW x \in it.uses \ own PROVE x \in DOMAIN c.env
  <2>1. CASE Earlier(f, n, x) # {}
    <3>1. PICK j \in 1 .. n - 1 : j \in S /\ x \in Binds(proj[f].items[j])
      BY <1>1, <1>2, <1>3, <2>1, Latest
    <3>2. j \in DOMAIN c.nodes
      BY <3>1
    <3>3. x \in Provided(f, DOMAIN c.nodes)
      BY <3>1, <3>2 DEF Provided
    <3> QED BY <3>3, <1>1 DEF BindsRight
  <2>2. CASE Earlier(f, n, x) = {}
    BY <1>1, <1>2, <1>3, <2>2 DEF BindsRight
  <2> QED BY <2>1, <2>2
<1>4. ASSUME NEW t \in it.tys \ types PROVE t \in KnownTypes(c)
  <2>1. CASE t \in OuterTypes(f)
    BY <2>1, <1>1 DEF TypesRight
  <2>2. CASE EarlierType(f, n, t) \cap S # {}
    <3>1. PICK j \in S \cap 1 .. n - 1 : proj[f].items[j].kind = "type" /\ t \in proj[f].items[j].names
      BY <2>2 DEF EarlierType
    <3>2. t \in Declared(f, DOMAIN c.nodes)
      BY <3>1 DEF Declared
    <3> QED BY <3>2, <1>1 DEF TypesRight
  <2> QED BY <1>2, <1>4, <2>1, <2>2
<1>5. ASSUME NEW t \in types PROVE t \notin KnownTypes(c)
  <2>1. t \notin Declared(f, 1 .. n - 1)
    BY <1>2, <1>5 DEF EarlierType, Declared
  <2> QED BY <2>1, <1>1, <1>2, <1>5 DEF TypesRight
<1>6. CASE it.kind = "def"
  <2>1. it.uses \subseteq DOMAIN BodyEnv(c, it)
    <3>1. DOMAIN BodyEnv(c, it) = own \cup DOMAIN c.env
      BY DEF BodyEnv, Onto, Bound
    <3> QED BY <3>1, <1>3, Zenon
  <2>2. it.tys \subseteq KnownTypes(c)
    BY <1>4, <1>6
  <2> QED BY <1>2, <1>6, <2>1, <2>2, Zenon DEF Fits, DefFails
<1>7. CASE it.kind # "def"
  <2>1. it.kind = "type" /\ types = it.names
    BY <1>1, <1>7, SMTT(30) DEF IsItem
  <2> QED BY <2>1, <1>2, <1>4, <1>5, <1>7 DEF Fits
<1> QED BY <1>6, <1>7

(* An item that fits when all before it were accepted can pass.            *)
LEMMA FitsCanPass ==
  ASSUME proj \in Projects, NEW c, CheckRight(c), c.at \in DOMAIN proj[c.file].items,
         NEW S, 1 .. c.at - 1 \subseteq S, DOMAIN c.nodes = 1 .. c.at - 1,
         Fits(c, proj[c.file].items[c.at])
  PROVE  CanPass(c.file, S, c.at)
<1> DEFINE f == c.file
           n == c.at
           it == proj[f].items[n]
           own == IF it.isrec THEN it.names ELSE {}
           types == IF it.kind = "type" THEN it.names ELSE {}
<1>1. f \in DOMAIN proj /\ n \in Nat /\ BindsRight(c) /\ TypesRight(c) /\ IsItem(it)
  BY ItemList DEF CheckRight
<1>2. KnownTypes(c) = OuterTypes(f) \cup Declared(f, 1 .. n - 1)
  BY <1>1 DEF TypesRight
<1>3. ~it.bad
  BY DEF Fits, DefFails
<1>4. ASSUME NEW x \in it.uses \ own
      PROVE  IF Earlier(f, n, x) # {} THEN Max(Earlier(f, n, x)) \in S ELSE x \in OuterNames(f)
  <2>1. it.kind = "def"
    BY <1>1, <1>4 DEF IsItem
  <2>2. x \in DOMAIN c.env
    <3>1. DOMAIN BodyEnv(c, it) = own \cup DOMAIN c.env
      BY DEF BodyEnv, Onto, Bound
    <3> QED BY <2>1, <3>1, <1>4, Zenon DEF Fits, DefFails
  <2>3. CASE Earlier(f, n, x) # {}
    BY <1>1, <2>3, Latest
  <2>4. CASE Earlier(f, n, x) = {}
    <3>1. x \notin Provided(f, 1 .. n - 1)
      BY <2>4 DEF Earlier, Provided
    <3> QED BY <2>2, <2>4, <3>1, <1>1 DEF BindsRight
  <2> QED BY <2>3, <2>4
<1>5. ASSUME NEW t \in it.tys \ types
      PROVE  t \in OuterTypes(f) \/ EarlierType(f, n, t) \cap S # {}
  <2>1. t \in KnownTypes(c)
    BY <1>1, <1>5 DEF Fits, DefFails, IsItem
  <2>2. CASE t \in Declared(f, 1 .. n - 1)
    <3>1. PICK j \in 1 .. n - 1 : proj[f].items[j].kind = "type" /\ t \in proj[f].items[j].names
      BY <2>2 DEF Declared
    <3>2. j \in EarlierType(f, n, t) \cap S
      BY <3>1 DEF EarlierType
    <3> QED BY <3>2
  <2> QED BY <2>1, <2>2, <1>2
<1>6. ASSUME NEW t \in types PROVE t \notin OuterTypes(f) /\ EarlierType(f, n, t) = {}
  <2>1. it.kind = "type" /\ t \in it.names
    BY <1>6
  <2>2. t \notin KnownTypes(c)
    BY <2>1 DEF Fits
  <2>3. t \notin Declared(f, 1 .. n - 1)
    BY <2>2, <1>2
  <2>4. EarlierType(f, n, t) = {}
    BY <2>3 DEF EarlierType, Declared
  <2> QED BY <2>2, <2>4, <1>2
<1> QED BY <1>3, <1>4, <1>5, <1>6 DEF CanPass

(* What is the same in two checks of a file.                               *)
SameBinds(c, d) ==
    /\ d.file = c.file /\ d.env = c.env /\ d.sums = c.sums /\ d.nodes = c.nodes

LEMMA LackingIs ==
  ASSUME NEW c, IsCheck(c)
  PROVE  LET d == Lacking(c) IN
         /\ IsCheck(d) /\ SameBinds(c, d) /\ d.at = c.at + 1 /\ d.tydefs = c.tydefs
         /\ d.failed = c.failed /\ d.status = c.status /\ d.holes = c.holes
BY DEF IsCheck, Lacking, Diag, SameBinds

LEMMA ContinueIs ==
  ASSUME NEW c, NEW it, IsCheck(c)
  PROVE  LET d == Continue(c, it) IN
         /\ IsCheck(d) /\ SameBinds(c, d) /\ d.at = c.at + 1 /\ d.tydefs = c.tydefs
         /\ d.failed = c.failed \cup FailedNames(it) /\ d.status = "invalid" /\ d.holes = c.holes
BY DEF IsCheck, Continue, Diag, SameBinds

LEMMA TentativeIs ==
  ASSUME NEW c, NEW it, IsCheck(c), c.holes \in BOOLEAN, it.hole \in BOOLEAN
  PROVE  LET d == Tentative(c, it) IN
         /\ IsCheck(d) /\ SameBinds(c, d) /\ d.at = c.at + 1 /\ d.tydefs = c.tydefs
         /\ d.failed = c.failed /\ d.holes \in BOOLEAN
         /\ d.status = IF c.status = "invalid" THEN c.status ELSE "partial"
BY DEF IsCheck, Tentative, Diag, SameBinds

LEMMA HoledIs ==
  ASSUME NEW c, NEW it, IsCheck(c), c.holes \in BOOLEAN, it.hole \in BOOLEAN
  PROVE  LET d == [c EXCEPT !.holes = @ \/ it.hole] IN
         /\ IsCheck(d) /\ SameBinds(c, d) /\ d.at = c.at /\ d.tydefs = c.tydefs
         /\ d.failed = c.failed /\ d.status = c.status /\ d.holes \in BOOLEAN
BY DEF IsCheck, SameBinds

LEMMA DeclaredIs ==
  ASSUME NEW c, NEW it, IsCheck(c)
  PROVE  LET d == [c EXCEPT !.tydefs = @ \cup it.names] IN
         /\ IsCheck(d) /\ SameBinds(c, d) /\ d.at = c.at /\ d.tydefs = c.tydefs \cup it.names
         /\ d.failed = c.failed /\ d.status = c.status /\ d.holes = c.holes
BY DEF IsCheck, SameBinds

LEMMA CheckedIs ==
  ASSUME NEW c, NEW it, IsCheck(c), c.holes \in BOOLEAN, it.hole \in BOOLEAN
  PROVE  LET d == Checked(c, it) IN
         /\ IsCheck(d) /\ d.file = c.file /\ d.at = c.at + 1 /\ d.tydefs = c.tydefs
         /\ d.env = Onto(Bound(c, Binds(it)), c.env) /\ d.sums = Onto(Bound(c, Binds(it)), c.sums)
         /\ d.nodes = Put(c.nodes, c.at, [n \in it.uses |-> BodyEnv(c, it)[n]])
         /\ d.failed = c.failed /\ d.status = c.status
         /\ d.holes \in BOOLEAN /\ (d.holes <=> c.holes \/ it.hole)
BY DEF IsCheck, Checked

(* An item that is not accepted.                                           *)
LEMMA NotAccepted ==
  ASSUME proj \in Projects, NEW c, CheckRight(c), c.at \in DOMAIN proj[c.file].items,
         NEW d, IsCheck(d), SameBinds(c, d), d.at = c.at + 1, d.holes \in BOOLEAN,
         KnownTypes(c) \subseteq KnownTypes(d),
         KnownTypes(d) \subseteq KnownTypes(c) \cup Declared(c.file, {c.at}),
         c.at \notin Independent(c.file),
         d.failed \subseteq c.failed \cup FailedNames(proj[c.file].items[c.at]),
         d.status \in {"partial", "invalid"},
         c.at \notin Good(c.file) \/ c.status # "checked"
  PROVE  CheckRight(d)
<1> DEFINE f == c.file
           n == c.at
           I == Independent(f)
<1>1. /\ f \in DOMAIN proj /\ n \in Nat /\ n >= 1 /\ Len(proj[f].items) \in Nat
      /\ n \in 1 .. Len(proj[f].items)
      /\ d.file = f /\ d.at = n + 1 /\ d.nodes = c.nodes /\ d.env = c.env /\ d.sums = c.sums
  BY ItemList DEF CheckRight, SameBinds
<1>2. n + 1 \in 1 .. Len(proj[f].items) + 1 /\ 1 .. n - 1 \subseteq 1 .. (n + 1) - 1
      /\ 1 .. (n + 1) - 1 = 1 .. n - 1 \cup {n}
  BY <1>1
<1>3. BindsRight(d)
  <2>1. \A b, x : BoundBy(b, x, f, 1 .. n - 1) => BoundBy(b, x, f, 1 .. (n + 1) - 1)
    BY <1>2 DEF BoundBy
  <2>2. BindsRight(c)
    BY DEF CheckRight
  <2>3. \A x \in DOMAIN d.env : Visible(d.env[x], x, f, 1 .. (n + 1) - 1)
    BY <1>1, <2>1, <2>2 DEF BindsRight, Visible
  <2>4. \A x \in DOMAIN d.sums : BoundBy(d.sums[x], x, f, 1 .. (n + 1) - 1)
    BY <1>1, <2>1, <2>2 DEF BindsRight
  <2>5. DOMAIN d.nodes \subseteq 1 .. (n + 1) - 1
    BY <1>1, <1>2, <2>2 DEF BindsRight
  <2> QED BY <1>1, <2>2, <2>3, <2>4, <2>5 DEF BindsRight
<1>4. TypesRight(d)
  <2>1. Declared(f, 1 .. (n + 1) - 1) = Declared(f, 1 .. n - 1) \cup Declared(f, {n})
    BY <1>2 DEF Declared
  <2>2. TypesRight(c)
    BY DEF CheckRight
  <2> QED BY <1>1, <2>1, <2>2 DEF TypesRight
<1>5. RecoveryRight(d)
  <2>1. RecoveryRight(c)
    BY DEF CheckRight
  <2>2. I \cap 1 .. (n + 1) - 1 \subseteq DOMAIN d.nodes
    BY <1>1, <1>2, <2>1 DEF RecoveryRight
  <2>3. Spoilt(f, I, n) \cup FailedNames(proj[f].items[n]) \subseteq Spoilt(f, I, n + 1)
    <3>1. (1 .. (n + 1) - 1) \ I = ((1 .. n - 1) \ I) \cup {n}
      BY <1>2
    <3> QED BY <3>1 DEF Spoilt
  <2> QED BY <1>1, <2>1, <2>2, <2>3 DEF RecoveryRight
<1>6. StatusRight(d)
  <2>1. StatusRight(c)
    BY DEF CheckRight
  <2>2. \E i \in 1 .. (n + 1) - 1 : i \notin Good(f)
    BY <1>2, <2>1 DEF StatusRight
  <2> QED BY <1>1, <2>2 DEF StatusRight
<1> QED BY <1>1, <1>2, <1>3, <1>4, <1>5, <1>6 DEF CheckRight

(* An item that is accepted.                                               *)
LEMMA Accepted ==
  ASSUME proj \in Projects, NEW c, CheckRight(c), c.at \in DOMAIN proj[c.file].items,
         Fits(c, proj[c.file].items[c.at]),
         NEW tydefs, c.tydefs \subseteq tydefs,
         (tydefs \cup BuiltinTypes) = KnownTypes(c) \cup Declared(c.file, {c.at}),
         NEW e, IsCheck(e), SameBinds(c, e), e.at = c.at, e.tydefs = tydefs,
         e.failed = c.failed, e.status = c.status, e.holes = c.holes
  PROVE  CheckRight(Checked(e, proj[c.file].items[c.at]))
<1> DEFINE f == c.file
           n == c.at
           it == proj[f].items[n]
           d == Checked(e, it)
           new == Bound(e, Binds(it))
           node == [x \in it.uses |-> BodyEnv(e, it)[x]]
           I == Independent(f)
<1>1. /\ f \in DOMAIN proj /\ n \in Nat /\ n >= 1 /\ Len(proj[f].items) \in Nat
      /\ n \in 1 .. Len(proj[f].items) /\ IsItem(it)
      /\ BindsRight(c) /\ TypesRight(c) /\ RecoveryRight(c) /\ StatusRight(c)
  BY ItemList DEF CheckRight
<1>2. /\ e.file = f /\ e.env = c.env /\ e.sums = c.sums /\ e.nodes = c.nodes
      /\ e.holes \in BOOLEAN /\ it.hole \in BOOLEAN
  BY <1>1 DEF SameBinds, StatusRight, IsItem
<1>3. /\ IsCheck(d) /\ d.file = f /\ d.at = n + 1 /\ d.tydefs = tydefs
      /\ d.env = Onto(new, c.env) /\ d.sums = Onto(new, c.sums) /\ d.nodes = Put(c.nodes, n, node)
      /\ d.failed = c.failed /\ d.status = c.status
      /\ d.holes \in BOOLEAN /\ (d.holes <=> c.holes \/ it.hole)
  <2>1. /\ IsCheck(d) /\ d.file = e.file /\ d.at = e.at + 1 /\ d.tydefs = e.tydefs
        /\ d.env = Onto(new, e.env) /\ d.sums = Onto(new, e.sums)
        /\ d.nodes = Put(e.nodes, e.at, node) /\ d.failed = e.failed /\ d.status = e.status
        /\ d.holes \in BOOLEAN /\ (d.holes <=> e.holes \/ it.hole)
    <3>1. IsCheck(e) /\ e.holes \in BOOLEAN /\ it.hole \in BOOLEAN
      BY <1>2
    <3> HIDE DEF f, n, it
    <3> QED BY <3>1, CheckedIs
  <2> HIDE DEF d, new, node
  <2> QED BY <1>2, <2>1
<1>4. n + 1 \in 1 .. Len(proj[f].items) + 1 /\ 1 .. (n + 1) - 1 = 1 .. n - 1 \cup {n}
      /\ n \notin 1 .. n - 1
  BY <1>1
<1>5. /\ DOMAIN new = Binds(it) /\ \A x \in DOMAIN new : new[x] = <<f, n>>
  BY <1>2 DEF Bound
<1>6. /\ DOMAIN d.env = Binds(it) \cup DOMAIN c.env /\ DOMAIN d.sums = Binds(it) \cup DOMAIN c.sums
      /\ DOMAIN d.nodes = {n} \cup DOMAIN c.nodes
      /\ \A x \in DOMAIN d.env : d.env[x] = IF x \in Binds(it) THEN <<f, n>> ELSE c.env[x]
      /\ \A x \in DOMAIN d.sums : d.sums[x] = IF x \in Binds(it) THEN <<f, n>> ELSE c.sums[x]
      /\ \A i \in DOMAIN d.nodes : d.nodes[i] = IF i = n THEN node ELSE c.nodes[i]
  <2>1. ASSUME NEW old
        PROVE  /\ DOMAIN Onto(new, old) = Binds(it) \cup DOMAIN old
               /\ \A x \in DOMAIN Onto(new, old) :
                    Onto(new, old)[x] = IF x \in Binds(it) THEN <<f, n>> ELSE old[x]
    <3> HIDE DEF new
    <3> QED BY <1>5 DEF Onto
  <2>2. /\ DOMAIN Put(c.nodes, n, node) = {n} \cup DOMAIN c.nodes
        /\ \A i \in DOMAIN Put(c.nodes, n, node) :
             Put(c.nodes, n, node)[i] = IF i = n THEN node ELSE c.nodes[i]
    <3> HIDE DEF node
    <3> QED BY DEF Onto, Put
  <2> HIDE DEF new, node, d
  <2>3. /\ DOMAIN d.env = Binds(it) \cup DOMAIN c.env
        /\ \A x \in DOMAIN d.env : d.env[x] = IF x \in Binds(it) THEN <<f, n>> ELSE c.env[x]
    <3> DEFINE old == c.env
           to == Onto(new, old)
    <3>1. d.env = to
      BY <1>3
    <3>2. /\ DOMAIN to = Binds(it) \cup DOMAIN old
          /\ \A x \in DOMAIN to : to[x] = IF x \in Binds(it) THEN <<f, n>> ELSE old[x]
      <4> HIDE DEF old
      <4> QED BY <2>1
    <3> HIDE DEF to
    <3> QED BY <3>1, <3>2
  <2>4. /\ DOMAIN d.sums = Binds(it) \cup DOMAIN c.sums
        /\ \A x \in DOMAIN d.sums : d.sums[x] = IF x \in Binds(it) THEN <<f, n>> ELSE c.sums[x]
    <3> DEFINE old == c.sums
           to == Onto(new, old)
    <3>1. d.sums = to
      BY <1>3
    <3>2. /\ DOMAIN to = Binds(it) \cup DOMAIN old
          /\ \A x \in DOMAIN to : to[x] = IF x \in Binds(it) THEN <<f, n>> ELSE old[x]
      <4> HIDE DEF old
      <4> QED BY <2>1
    <3> HIDE DEF to
    <3> QED BY <3>1, <3>2
  <2>5. d.nodes = Put(c.nodes, n, node)
    BY <1>3
  <2> QED BY <2>2, <2>3, <2>4, <2>5
<1> HIDE DEF d, new
<1>7. Provided(f, DOMAIN d.nodes) = Provided(f, DOMAIN c.nodes) \cup Binds(it)
  BY <1>6 DEF Provided
<1>8. \A b, x : /\ BoundBy(b, x, f, 1 .. n - 1) => BoundBy(b, x, f, 1 .. (n + 1) - 1)
                /\ x \in Binds(it) => BoundBy(<<f, n>>, x, f, 1 .. (n + 1) - 1)
  BY <1>4 DEF BoundBy
<1>9. NodeRight(f, n, node)
  <2>1. ASSUME NEW x \in it.uses PROVE Visible(node[x], x, f, Sees(f, n))
    <3>1. it.kind = "def" /\ it.uses \subseteq DOMAIN BodyEnv(c, it)
      BY <2>1, <1>1, Zenon DEF IsItem, Fits, DefFails
    <3>2. node[x] = BodyEnv(c, it)[x] /\ BodyEnv(c, it) = BodyEnv(e, it)
      BY <1>2, <2>1, Zenon DEF BodyEnv, Bound, SameBinds
    <3>3. CASE it.isrec /\ x \in it.names
      <4>1. BodyEnv(c, it)[x] = <<f, n>>
        BY <3>3, Zenon DEF BodyEnv, Onto, Bound
      <4>2. x \in Binds(it) /\ n \in Sees(f, n)
        BY <3>1, <3>3, <1>1 DEF Binds, Sees
      <4> QED BY <3>2, <4>1, <4>2, Zenon DEF Visible, BoundBy
    <3>4. CASE ~ (it.isrec /\ x \in it.names)
      <4>1. x \in DOMAIN c.env /\ BodyEnv(c, it)[x] = c.env[x]
        BY <2>1, <3>1, <3>4, Zenon DEF BodyEnv, Onto, Bound
      <4>2. Visible(c.env[x], x, f, 1 .. n - 1)
        BY <4>1, <1>1 DEF BindsRight
      <4>3. 1 .. n - 1 \subseteq Sees(f, n)
        BY <1>1 DEF Sees
      <4> QED BY <3>2, <4>1, <4>2, <4>3, Zenon DEF Visible, BoundBy
    <3> QED BY <3>3, <3>4
  <2> QED BY <2>1, Zenon DEF NodeRight
<1> HIDE DEF node
<1>10. BindsRight(d)
  <2>1. DOMAIN d.nodes \subseteq 1 .. (n + 1) - 1
    BY <1>1, <1>4, <1>6 DEF BindsRight
  <2>2. \A i \in DOMAIN d.nodes : NodeRight(f, i, d.nodes[i])
    BY <1>1, <1>6, <1>9 DEF BindsRight
  <2>3. DOMAIN d.env = OuterNames(f) \cup Provided(f, DOMAIN d.nodes)
    BY <1>1, <1>6, <1>7 DEF BindsRight
  <2>4. \A x \in DOMAIN d.env : Visible(d.env[x], x, f, 1 .. (n + 1) - 1)
    BY <1>1, <1>6, <1>8 DEF BindsRight, Visible
  <2>5. DOMAIN d.sums = Provided(f, DOMAIN d.nodes)
    BY <1>1, <1>6, <1>7 DEF BindsRight
  <2>6. \A x \in DOMAIN d.sums : BoundBy(d.sums[x], x, f, 1 .. (n + 1) - 1)
    BY <1>1, <1>6, <1>8 DEF BindsRight
  <2> QED BY <1>3, <2>1, <2>2, <2>3, <2>4, <2>5, <2>6 DEF BindsRight
<1>11. TypesRight(d)
  <2>1. Declared(f, 1 .. (n + 1) - 1) = Declared(f, 1 .. n - 1) \cup Declared(f, {n})
    BY <1>4 DEF Declared
  <2>2. Declared(f, DOMAIN d.nodes) = Declared(f, DOMAIN c.nodes) \cup Declared(f, {n})
    BY <1>6 DEF Declared
  <2>3. KnownTypes(d) = KnownTypes(c) \cup Declared(f, {n})
    BY <1>3 DEF KnownTypes
  <2> QED BY <1>1, <1>3, <2>1, <2>2, <2>3 DEF TypesRight
<1>12. RecoveryRight(d)
  <2>1. I \cap 1 .. (n + 1) - 1 \subseteq DOMAIN d.nodes
    BY <1>1, <1>4, <1>6 DEF RecoveryRight
  <2>2. Spoilt(f, I, n) \subseteq Spoilt(f, I, n + 1)
    BY <1>4 DEF Spoilt
  <2> QED BY <1>1, <1>3, <2>1, <2>2 DEF RecoveryRight
<1>13. StatusRight(d)
  <2>1. CASE c.status = "checked"
    <3>1. /\ c.failed = {} /\ DOMAIN c.nodes = 1 .. n - 1 /\ 1 .. n - 1 \subseteq Good(f)
          /\ c.holes <=> \E i \in 1 .. n - 1 : proj[f].items[i].hole
      BY <1>1, <2>1 DEF StatusRight
    <3>2. CanPass(f, Good(f), n)
      BY <3>1, FitsCanPass
    <3>3. n \in Good(f)
      BY <1>1, <3>2, GoodChosen
    <3>4. DOMAIN d.nodes = 1 .. (n + 1) - 1 /\ 1 .. (n + 1) - 1 \subseteq Good(f)
      BY <1>4, <1>6, <3>1, <3>3
    <3>5. d.holes <=> \E i \in 1 .. (n + 1) - 1 : proj[f].items[i].hole
      BY <1>3, <1>4, <3>1
    <3> QED BY <1>3, <2>1, <3>1, <3>4, <3>5 DEF StatusRight
  <2>2. CASE c.status # "checked"
    <3>1. \E i \in 1 .. (n + 1) - 1 : i \notin Good(f)
      BY <1>1, <1>4, <2>2 DEF StatusRight
    <3> QED BY <1>1, <1>3, <2>2, <3>1 DEF StatusRight
  <2> QED BY <2>1, <2>2
<1> QED BY <1>1, <1>3, <1>4, <1>10, <1>11, <1>12, <1>13 DEF CheckRight, d

(* An item that does not fit is not good if all before it were accepted,   *)
(* nor independent of errors.                                              *)
LEMMA MisfitNotGood ==
  ASSUME proj \in Projects, NEW c, CheckRight(c), c.at \in DOMAIN proj[c.file].items,
         ~Fits(c, proj[c.file].items[c.at])
  PROVE  /\ c.at \notin Independent(c.file)
         /\ c.at \notin Good(c.file) \/ c.status # "checked"
<1>1. c.file \in DOMAIN proj /\ RecoveryRight(c) /\ StatusRight(c)
  BY DEF CheckRight
<1>2. c.at \notin Independent(c.file)
  <2> SUFFICES ASSUME c.at \in Independent(c.file) PROVE FALSE
    OBVIOUS
  <2>1. CanPass(c.file, Independent(c.file), c.at)
    BY <1>1, IndependentChosen DEF Clear
  <2>2. Independent(c.file) \cap 1 .. c.at - 1 \subseteq DOMAIN c.nodes
    BY <1>1 DEF RecoveryRight
  <2> QED BY <2>1, <2>2, CanPassFits
<1>3. ASSUME c.at \in Good(c.file), c.status = "checked" PROVE FALSE
  <2>1. CanPass(c.file, Good(c.file), c.at)
    BY <1>1, <1>3, GoodChosen
  <2>2. Good(c.file) \cap 1 .. c.at - 1 \subseteq DOMAIN c.nodes
    BY <1>1, <1>3 DEF StatusRight
  <2> QED BY <2>1, <2>2, CanPassFits
<1> QED BY <1>2, <1>3

(* One turn of g5_run_items keeps all of it.                               *)
LEMMA StepRight ==
  ASSUME proj \in Projects, NEW c, CheckRight(c), c.at \in DOMAIN proj[c.file].items
  PROVE  CheckRight(Step(c, proj[c.file].items[c.at]))
<1> DEFINE f == c.file
           n == c.at
           it == proj[f].items[n]
<1>1. /\ f \in DOMAIN proj /\ n \in Nat /\ n >= 1 /\ IsCheck(c) /\ IsItem(it)
      /\ RecoveryRight(c) /\ StatusRight(c) /\ c.holes \in BOOLEAN /\ it.hole \in BOOLEAN
  BY ItemList DEF CheckRight, StatusRight, IsItem
<1>2. Declared(f, {n}) = IF it.kind = "type" THEN it.names ELSE {}
  BY DEF Declared
<1>3. CASE Deps(it) \cap c.failed # {}
  <2> DEFINE d == Lacking(c)
  <2>1. Step(c, it) = d
    BY <1>3 DEF Step
  <2>2. /\ IsCheck(d) /\ SameBinds(c, d) /\ d.at = n + 1 /\ d.tydefs = c.tydefs
        /\ d.failed = c.failed /\ d.status = c.status /\ d.holes = c.holes
    BY <1>1, LackingIs
  <2> HIDE DEF d
  <2>3. KnownTypes(d) = KnownTypes(c)
    BY <2>2 DEF KnownTypes
  <2>4. n \notin Independent(f)
    <3>1. Deps(it) \cap Spoilt(f, Independent(f), n) # {}
      BY <1>1, <1>3 DEF RecoveryRight
    <3> QED BY <1>1, <3>1, IndependentChosen DEF Clear
  <2>5. c.status # "checked" /\ c.status \in {"partial", "invalid"}
    BY <1>1, <1>3 DEF StatusRight
  <2>6. d.failed \subseteq c.failed \cup FailedNames(it)
    BY <2>2
  <2>7. CheckRight(d)
    BY <1>1, <2>2, <2>3, <2>4, <2>5, <2>6, NotAccepted
  <2> QED BY <2>1, <2>7
<1>4. CASE Deps(it) \cap c.failed = {} /\ it.kind = "def"
  <2>1. Step(c, it) = DefChecked(c, it)
    BY <1>4 DEF Step
  <2>2. Fits(c, it) <=> ~DefFails(c, it)
    BY <1>4 DEF Fits
  <2>3. CASE ~DefFails(c, it)
    <3>1. DefChecked(c, it) = Checked(c, it)
      BY <2>3 DEF DefChecked
    <3>2. (c.tydefs \cup BuiltinTypes) = KnownTypes(c) \cup Declared(f, {n})
      BY <1>2, <1>4 DEF KnownTypes
    <3>3. SameBinds(c, c)
      BY DEF SameBinds
    <3> QED BY <1>1, <2>1, <2>2, <2>3, <3>1, <3>2, <3>3, Accepted
  <2>4. CASE DefFails(c, it)
    <3> DEFINE holed == [c EXCEPT !.holes = @ \/ it.hole]
               d == IF it.soft /\ (c.holevars \/ it.hole) THEN Tentative(c, it)
                    ELSE Continue(holed, it)
    <3>1. DefChecked(c, it) = d
      BY <2>4 DEF DefChecked
    <3>2. /\ IsCheck(d) /\ SameBinds(c, d) /\ d.at = n + 1 /\ d.tydefs = c.tydefs
          /\ d.failed \subseteq c.failed \cup FailedNames(it)
          /\ d.status \in {"partial", "invalid"} /\ d.holes \in BOOLEAN
      <4>1. CASE it.soft /\ (c.holevars \/ it.hole)
        BY <1>1, <4>1, TentativeIs
      <4>2. CASE ~ (it.soft /\ (c.holevars \/ it.hole))
        <5>1. /\ IsCheck(holed) /\ SameBinds(c, holed) /\ holed.at = n /\ holed.tydefs = c.tydefs
              /\ holed.failed = c.failed /\ holed.holes \in BOOLEAN
          BY <1>1, HoledIs
        <5> HIDE DEF holed
        <5>2. d = Continue(holed, it)
          BY <4>2
        <5> HIDE DEF d
        <5>3. /\ IsCheck(d) /\ SameBinds(holed, d) /\ d.at = holed.at + 1
              /\ d.tydefs = holed.tydefs /\ d.failed = holed.failed \cup FailedNames(it)
              /\ d.status = "invalid" /\ d.holes = holed.holes
          BY <5>1, <5>2, ContinueIs
        <5>4. SameBinds(c, d)
          BY <5>1, <5>3 DEF SameBinds
        <5> QED BY <5>1, <5>3, <5>4
      <4> QED BY <4>1, <4>2, Zenon
    <3> HIDE DEF d
    <3>3. KnownTypes(d) = KnownTypes(c)
      BY <3>2 DEF KnownTypes
    <3>4. n \notin Independent(f) /\ (n \notin Good(f) \/ c.status # "checked")
      BY <2>2, <2>4, MisfitNotGood
    <3>5. CheckRight(d)
      BY <1>1, <3>2, <3>3, <3>4, NotAccepted
    <3> QED BY <2>1, <3>1, <3>5
  <2> QED BY <2>3, <2>4
<1>5. CASE Deps(it) \cap c.failed = {} /\ it.kind # "def"
  <2> DEFINE declared == [c EXCEPT !.tydefs = @ \cup it.names]
  <2>1. Step(c, it) = TypeChecked(c, it) /\ it.kind = "type"
    BY <1>1, <1>5 DEF Step, IsItem
  <2>2. /\ IsCheck(declared) /\ SameBinds(c, declared) /\ declared.at = n
        /\ declared.tydefs = c.tydefs \cup it.names
        /\ declared.failed = c.failed /\ declared.status = c.status /\ declared.holes = c.holes
    BY <1>1, DeclaredIs
  <2>3. TypeChecked(c, it) =
          IF it.names \cap KnownTypes(c) # {} THEN Continue(c, it)
          ELSE IF it.bad \/ ~ it.tys \subseteq KnownTypes(declared) THEN Continue(declared, it)
          ELSE Checked(declared, it)
    BY DEF TypeChecked
  <2> HIDE DEF declared
  <2>4. KnownTypes(declared) = KnownTypes(c) \cup it.names
    BY <2>2 DEF KnownTypes
  <2>5. Fits(c, it) <=> it.names \cap KnownTypes(c) = {} /\ ~it.bad
                        /\ it.tys \subseteq KnownTypes(declared)
    BY <1>5, <2>4 DEF Fits
  <2>6. CASE Fits(c, it)
    <3>1. TypeChecked(c, it) = Checked(declared, it)
      BY <2>3, <2>5, <2>6, Zenon
    <3>2. (declared.tydefs \cup BuiltinTypes) = KnownTypes(c) \cup Declared(f, {n})
          /\ c.tydefs \subseteq declared.tydefs
      BY <1>2, <2>1, <2>2 DEF KnownTypes
    <3>3. CheckRight(Checked(declared, it))
      BY <1>1, <2>2, <2>6, <3>2, Accepted
    <3> QED BY <2>1, <3>1, <3>3
  <2>7. CASE ~Fits(c, it)
    <3> DEFINE e == IF it.names \cap KnownTypes(c) # {} THEN c ELSE declared
               d == Continue(e, it)
    <3>1. TypeChecked(c, it) = d
      BY <2>3, <2>5, <2>7, Zenon
    <3>2. /\ IsCheck(e) /\ SameBinds(c, e) /\ e.at = n /\ e.failed = c.failed
          /\ e.holes = c.holes /\ (e.tydefs = c.tydefs \/ e.tydefs = c.tydefs \cup it.names)
      BY <1>1, <2>2 DEF SameBinds
    <3> HIDE DEF e
    <3>3. /\ IsCheck(d) /\ SameBinds(e, d) /\ d.at = n + 1 /\ d.tydefs = e.tydefs
          /\ d.failed = c.failed \cup FailedNames(it) /\ d.status = "invalid"
          /\ d.holes = c.holes
      BY <3>2, ContinueIs
    <3>4. SameBinds(c, d)
      BY <3>2, <3>3, Zenon DEF SameBinds
    <3> HIDE DEF d
    <3>5. /\ KnownTypes(c) \subseteq KnownTypes(d)
          /\ KnownTypes(d) \subseteq KnownTypes(c) \cup Declared(f, {n})
      BY <1>2, <2>1, <3>2, <3>3 DEF KnownTypes
    <3>6. n \notin Independent(f) /\ (n \notin Good(f) \/ c.status # "checked")
      BY <2>7, MisfitNotGood
    <3>7. CheckRight(d)
      BY <1>1, <3>3, <3>4, <3>5, <3>6, NotAccepted
    <3> QED BY <2>1, <3>1, <3>7
  <2> QED BY <2>6, <2>7
<1> QED BY <1>3, <1>4, <1>5

-----------------------------------------------------------------------------
(* The start and the end of the check of a file.                           *)

(* What a file sees of its imports is what they expose and bind, whatever  *)
(* their order.                                                            *)
LEMMA ImportsSeen ==
  ASSUME proj \in Projects, NEW f \in DOMAIN proj,
         \A m \in ImportsOf(f) : m \in DOMAIN proj /\ TableRight(m, tables[m])
  PROVE  /\ DOMAIN ImportEnv(f) = ImportNames(f)
         /\ \A x \in DOMAIN ImportEnv(f) : FromImports(ImportEnv(f)[x], x, f)
         /\ ImportTypes(f) = UNION {TypesExposed(m) : m \in ImportsOf(f)}
<1> DEFINE ms == proj[f].imports
           names == UNION {DOMAIN tables[m].binds : m \in ToSet(ms)}
<1>1. /\ ms \in Seq(Known) /\ ImportsOf(f) = ToSet(ms)
      /\ Len(ms) \in Nat /\ DOMAIN ms = 1 .. Len(ms)
  BY ImportsKnown, LenProperties
<1>2. \A m \in ToSet(ms) : /\ m \in DOMAIN proj /\ tables[m].types = TypesExposed(m)
                           /\ DOMAIN tables[m].binds = Exposed(m) \cap Bindings(m)
                           /\ \A x \in DOMAIN tables[m].binds :
                                BoundBy(tables[m].binds[x], x, m, DOMAIN proj[m].items)
  BY <1>1 DEF TableRight
<1>3. /\ DOMAIN ImportEnv(f) = names
      /\ \A x \in names : ImportEnv(f)[x] = tables[ms[Max(Exporting(f, x))]].binds[x]
  BY DEF ImportEnv
<1>4. names = ImportNames(f)
  BY <1>1, <1>2 DEF ImportNames
<1>5. ASSUME NEW x \in names PROVE FromImports(ImportEnv(f)[x], x, f)
  <2> DEFINE T == Exporting(f, x)
  <2>1. T \subseteq 1 .. Len(ms) /\ \A j \in T : x \in DOMAIN tables[ms[j]].binds
    BY <1>1 DEF Exporting
  <2>2. T # {}
    <3>1. PICK j \in DOMAIN ms : x \in DOMAIN tables[ms[j]].binds
      BY <1>5 DEF ToSet
    <3> QED BY <3>1 DEF Exporting
  <2> HIDE DEF T
  <2>3. Max(T) \in T
    <3>1. T \in SUBSET Nat /\ \A k \in T : k <= Len(ms)
      BY <1>1, <2>1
    <3>2. \E m \in T : \A k \in T : k <= m
      BY <1>1, <2>2, <3>1, GreatestElement
    <3>3. \E m \in T : \A k \in T : m >= k
      BY <3>1, <3>2
    <3> QED BY <3>3 DEF Max
  <2> DEFINE m == ms[Max(T)]
  <2>4. m \in ToSet(ms) /\ x \in DOMAIN tables[m].binds
    BY <1>1, <2>1, <2>3 DEF ToSet
  <2>5. ImportEnv(f)[x] = tables[m].binds[x]
    BY <1>3, <1>5 DEF T
  <2> HIDE DEF m
  <2> QED BY <1>1, <1>2, <2>4, <2>5 DEF FromImports
<1>6. ImportTypes(f) = UNION {TypesExposed(m) : m \in ImportsOf(f)}
  <2>1. ImportTypes(f) = UNION {tables[m].types : m \in ToSet(ms)}
    BY DEF ImportTypes
  <2> QED BY <1>1, <1>2, <2>1
<1> QED BY <1>3, <1>4, <1>5, <1>6

LEMMA StartRight ==
  ASSUME proj \in Projects, NEW f \in DOMAIN proj,
         \A m \in ImportsOf(f) : m \in DOMAIN proj /\ TableRight(m, tables[m])
  PROVE  CheckRight(Start(f, Onto(ImportEnv(f), BaseEnv), ImportTypes(f)))
<1> DEFINE env == Onto(ImportEnv(f), BaseEnv)
           c == Start(f, env, ImportTypes(f))
<1>1. /\ DOMAIN ImportEnv(f) = ImportNames(f)
      /\ \A x \in DOMAIN ImportEnv(f) : FromImports(ImportEnv(f)[x], x, f)
      /\ ImportTypes(f) = UNION {TypesExposed(m) : m \in ImportsOf(f)}
  BY ImportsSeen
<1>2. /\ DOMAIN env = OuterNames(f)
      /\ \A x \in DOMAIN env : Visible(env[x], x, f, 1 .. 0)
  <2>1. DOMAIN BaseEnv = BuiltinVals \cup DOMAIN BuiltinCtors
        /\ \A x \in DOMAIN BaseEnv : BaseEnv[x] = Builtin
    BY DEF BaseEnv
  <2>2. DOMAIN env = DOMAIN ImportEnv(f) \cup DOMAIN BaseEnv
        /\ \A x \in DOMAIN env : env[x] = IF x \in DOMAIN ImportEnv(f) THEN ImportEnv(f)[x]
                                          ELSE BaseEnv[x]
    BY DEF Onto
  <2>3. DOMAIN env = OuterNames(f)
    BY <1>1, <2>1, <2>2 DEF OuterNames
  <2> HIDE DEF env
  <2> QED BY <1>1, <2>1, <2>2, <2>3 DEF Visible, FromBuiltins
<1> HIDE DEF env
<1>3. /\ IsCheck(c) /\ c.file = f /\ c.at = 1 /\ c.env = env /\ c.tydefs = ImportTypes(f)
      /\ c.sums = <<>> /\ c.failed = {} /\ c.status = "checked" /\ c.holes = FALSE
      /\ c.nodes = <<>>
  BY DEF Start, IsCheck
<1> HIDE DEF c
<1>4. DOMAIN c.nodes = {} /\ DOMAIN c.sums = {} /\ 1 .. c.at - 1 = {} /\ 1 .. c.at - 1 = 1 .. 0
  BY <1>3
<1>5. 1 \in 1 .. Len(proj[f].items) + 1
  BY ItemList
<1>6. BindsRight(c)
  BY <1>2, <1>3, <1>4 DEF BindsRight, Provided
<1>7. TypesRight(c)
  <2>1. KnownTypes(c) = OuterTypes(f)
    BY <1>1, <1>3 DEF KnownTypes, OuterTypes
  <2>2. Declared(f, {}) = {}
    BY DEF Declared
  <2> QED BY <1>3, <1>4, <2>1, <2>2 DEF TypesRight
<1>8. RecoveryRight(c) /\ StatusRight(c)
  BY <1>3, <1>4 DEF RecoveryRight, StatusRight
<1> QED BY <1>3, <1>5, <1>6, <1>7, <1>8 DEF CheckRight, c, env

(* The verdict at the end of a file is the one its text deserves.          *)
LEMMA EndRight ==
  ASSUME proj \in Projects, CheckRight(chk), chk.at \notin DOMAIN proj[chk.file].items
  PROVE  LET v == Verdict(chk, proj[chk.file]) IN
         /\ v \in {"checked", "partial", "invalid"}
         /\ ResultRight(chk.file, Result(v))
         /\ v = "checked" => TableRight(chk.file, TableEntry(chk))
<1> DEFINE f == chk.file
           its == proj[f].items
           v == Verdict(chk, proj[f])
           K == DOMAIN its
<1>1. /\ f \in DOMAIN proj /\ Len(its) \in Nat /\ K = 1 .. Len(its)
      /\ BindsRight(chk) /\ TypesRight(chk) /\ RecoveryRight(chk) /\ StatusRight(chk)
  BY ItemList DEF CheckRight
<1>2. 1 .. chk.at - 1 = K
  BY <1>1 DEF CheckRight
<1>3. Good(f) \subseteq K /\ Independent(f) \subseteq K
  BY <1>1, GoodChosen, IndependentChosen
<1>4. chk.status = "checked" <=> Good(f) = K
  BY <1>1, <1>2, <1>3 DEF StatusRight
<1>5. /\ Provided(f, K) = Bindings(f) /\ Declared(f, K) = TypeNames(f)
      /\ Items(f) = {its[i] : i \in K}
  BY DEF Provided, Bindings, Items, ToSet, Declared, TypeNames, ItemsOf
<1>6. v \in {"checked", "partial", "invalid"}
  BY <1>1 DEF Verdict, StatusRight
<1>7. ASSUME chk.status = "checked"
      PROVE  /\ DOMAIN chk.nodes = K /\ DOMAIN chk.env = OuterNames(f) \cup Bindings(f)
             /\ KnownTypes(chk) = OuterTypes(f) \cup TypeNames(f)
             /\ DOMAIN chk.sums = Bindings(f)
             /\ chk.holes <=> \E it \in Items(f) : it.hole
  BY <1>1, <1>2, <1>5, <1>7 DEF StatusRight, BindsRight, TypesRight
<1>8. v = "checked" <=>
        /\ chk.status = "checked" /\ ~chk.holes
        /\ \A i \in DOMAIN proj[f].sigs : proj[f].sigs[i] \in DOMAIN chk.env
        /\ proj[f].module => proj[f].exps \subseteq DOMAIN chk.env \cup KnownTypes(chk)
  BY <1>1 DEF Verdict, StatusRight
<1>9. v = "checked" <=> Passes(f)
  BY <1>4, <1>7, <1>8 DEF Passes, ToSet
<1>10. ResultRight(f, Result(v))
  <2>1. Result(v).nodes = chk.nodes /\ Result(v).verdict = v
    BY DEF Result
  <2> HIDE DEF v
  <2>2. \A i \in DOMAIN chk.nodes : i \in K /\ NodeRight(f, i, chk.nodes[i])
    BY <1>1, <1>2 DEF BindsRight
  <2>3. Independent(f) \subseteq DOMAIN chk.nodes
    BY <1>1, <1>2, <1>3 DEF RecoveryRight
  <2> QED BY <1>1, <1>7, <1>8, <1>9, <2>1, <2>2, <2>3 DEF ResultRight
<1>11. ASSUME v = "checked" PROVE TableRight(f, TableEntry(chk))
  <2> DEFINE t == TableEntry(chk)
  <2>1. /\ t.binds = [n \in Exposed(f) \cap DOMAIN chk.sums |-> chk.sums[n]]
        /\ t.types = TypesExposed(f)
    BY DEF TableEntry, TypesExposed
  <2>2. DOMAIN chk.sums = Bindings(f)
    BY <1>7, <1>8, <1>11
  <2>3. \A x \in DOMAIN chk.sums : BoundBy(chk.sums[x], x, f, K)
    BY <1>1, <1>2 DEF BindsRight
  <2> HIDE DEF t
  <2>4. DOMAIN t.binds = Exposed(f) \cap Bindings(f)
        /\ \A x \in DOMAIN t.binds : t.binds[x] = chk.sums[x] /\ x \in DOMAIN chk.sums
    BY <2>1, <2>2
  <2>5. TableRight(f, t)
    BY <2>1, <2>3, <2>4 DEF TableRight
  <2> QED BY <2>5 DEF t
<1> QED BY <1>6, <1>10, <1>11

-----------------------------------------------------------------------------
(* The steps of g5_check_files and of g5cc_main.                           *)

LEMMA SameProgram ==
  ASSUME UNCHANGED <<proj, files>>
  PROVE  /\ Loaded' = Loaded /\ (ReservedName' <=> ReservedName)
         /\ (DupAcross' <=> DupAcross) /\ (LabelTwice' <=> LabelTwice)
<1>1. Loaded' = Loaded
  BY DEF Loaded
<1>2. ReservedName' <=> ReservedName
  BY <1>1, SameText DEF ReservedName, AnyRecords
<1>3. DupAcross' <=> DupAcross
  BY <1>1, SameText DEF DupAcross
<1>4. LabelTwice' <=> LabelTwice
  <2>1. Places' = Places
    BY <1>1 DEF Places
  <2>2. \A p : ItemAt(p)' = ItemAt(p)
    BY DEF ItemAt
  <2> QED BY <1>1, <2>1, <2>2 DEF LabelTwice
<1> QED BY <1>1, <1>2, <1>3, <1>4

LEMMA CheckInit == Init => CheckInv
<1> SUFFICES ASSUME Init PROVE CheckInv
  OBVIOUS
<1>1. /\ phase = "load" /\ queue = <<>> /\ chk = Idle /\ tables = <<>>
      /\ verdict = "checked" /\ results = <<>> /\ flat = <<>>
  BY DEF Init
<1>2. LoadInv
  BY LoadInit
<1>3. DOMAIN tables = {} /\ DOMAIN results = {}
  BY <1>1
<1>4. <<>> \in Seq(DOMAIN proj)
  OBVIOUS
<1> QED BY <1>1, <1>2, <1>3, <1>4 DEF CheckInv

(* While files are loaded nothing else happens.                            *)
LEMMA LoadingCheck ==
  ASSUME CheckInv, LoadInv', LoadDone, phase = "load",
         phase' \in {"load", "loaded", "cyclic", "unreadable"}
  PROVE  CheckInv'
<1>1. UNCHANGED <<proj, queue, chk, tables, verdict, results, flat>>
  BY DEF LoadDone
<1>2. Idle' = Idle
  BY DEF Idle
<1>3. (\A f \in DOMAIN results : ResultRight(f, results[f]))'
  BY <1>1, SameRight DEF CheckInv
<1>4. phase' \notin {"check", "items", "checked", "linked"} /\ chk = Idle
  BY DEF CheckInv
<1> QED BY <1>1, <1>2, <1>3, <1>4 DEF CheckInv

LEMMA CheckLoadedCheck ==
  ASSUME CheckInv, LoadInv', CheckLoaded
  PROVE  CheckInv'
<1>1. /\ UNCHANGED <<proj, stack, files, chk, tables, results, flat>> /\ phase = "loaded"
      /\ IF ReservedName \/ DupType
         THEN phase' = "checked" /\ verdict' = "invalid" /\ queue' = queue
         ELSE phase' = "check" /\ queue' = Reverse(files) /\ verdict' = verdict
  BY DEF CheckLoaded
<1>2. Idle' = Idle /\ chk = Idle
  BY <1>1 DEF Idle, CheckInv
<1>3. (\A f \in DOMAIN results : ResultRight(f, results[f]))'
  BY <1>1, SameRight DEF CheckInv
<1>4. CASE ReservedName \/ DupType
  BY <1>1, <1>2, <1>3, <1>4 DEF CheckInv
<1>5. CASE ~ (ReservedName \/ DupType)
  <2> DEFINE q == Reverse(files)
  <2>1. /\ files \in Seq(DOMAIN proj) /\ Len(files) \in Nat /\ files # <<>>
        /\ \A i \in 1 .. Len(files) : files[i] \in DOMAIN proj
    BY <1>1, FileList DEF CheckInv, LoadInv, LoadRight, ListsRight, FilesRight, Shape
  <2>2. Len(files) \in 1 .. Len(files)
    BY <2>1, EmptySeq
  <2>3. /\ q \in Seq(DOMAIN proj) /\ Len(q) = Len(files)
        /\ \A i \in 1 .. Len(q) : q[i] = files[Len(q) + 1 - i]
    <3>1. q = [i \in 1 .. Len(files) |-> files[(Len(files) - i) + 1]]
      BY DEF Reverse
    <3>2. \A i \in 1 .. Len(files) : (Len(files) - i) + 1 \in 1 .. Len(files)
                                     /\ (Len(files) - i) + 1 = Len(files) + 1 - i
      BY <2>1
    <3>3. \A i \in 1 .. Len(files) : files[(Len(files) - i) + 1] \in DOMAIN proj
      BY <2>1, <3>2
    <3> QED BY <2>1, <3>1, <3>2, <3>3
  <2> HIDE DEF q
  <2>4. QueueRight(q, files, results, tables)
    <3>1. \A i \in Len(q) + 1 .. Len(files) : FALSE
      BY <2>1, <2>3
    <3> QED BY <2>2, <2>3, <3>1 DEF QueueRight
  <2>5. QueueRight(queue, files, results, tables)'
    <3>1. QueueRight(queue', files', results', tables')
      BY <1>1, <1>5, <2>4 DEF q
    <3> QED BY <1>1, <3>1, SameRight
  <2>6. verdict = "checked"
    BY <1>1, SMTT(30) DEF CheckInv
  <2> QED BY <1>1, <1>2, <1>3, <1>5, <2>3, <2>5, <2>6, SameProgram DEF CheckInv, q
<1> QED BY <1>4, <1>5

(* The file that is checked next: its imports have been checked, and it is *)
(* the entry exactly when it is the last one.                              *)
LEMMA QueueHead ==
  ASSUME CheckInv, phase \in {"check", "items"}
  PROVE  /\ queue \in Seq(DOMAIN proj) /\ queue # <<>> /\ Len(queue) \in 1 .. Len(files)
         /\ Head(queue) = files[Len(queue)] /\ Head(queue) \in DOMAIN proj
         /\ Head(queue) = Entry <=> Len(queue) = 1
         /\ \A i \in 1 .. Len(files) : files[i] = files[Len(queue)] => i = Len(queue)
         /\ \A m \in ImportsOf(Head(queue)) :
              m \in DOMAIN proj /\ m \in DOMAIN tables /\ TableRight(m, tables[m])
<1>1. QueueRight(queue, files, results, tables)
  BY DEF CheckInv
<1>2. FilesRight(phase, stack, files) /\ Shape
  BY DEF CheckInv, LoadInv, LoadRight, Shape
<1>3. Len(files) \in Nat /\ \A i \in 1 .. Len(files) : files[i] \in DOMAIN proj
  BY <1>2, FileList
<1>4. queue \in Seq(DOMAIN proj) /\ Len(queue) \in 1 .. Len(files)
      /\ \A i \in 1 .. Len(queue) : queue[i] = files[Len(queue) + 1 - i]
  BY <1>1 DEF QueueRight
<1>5. queue # <<>> /\ 1 \in 1 .. Len(queue) /\ Len(queue) + 1 - 1 = Len(queue)
  BY <1>3, <1>4, EmptySeq
<1>6. Head(queue) = queue[1]
  BY <1>4, <1>5
<1>7. Head(queue) = files[Len(queue)]
  BY <1>4, <1>5, <1>6
<1>8. /\ files # <<>> /\ files[1] = Entry
      /\ \A i, j \in 1 .. Len(files) : files[i] = files[j] => i = j
      /\ \A i \in 1 .. Len(files) : \A m \in ImportsOf(files[i]) :
           \E j \in i + 1 .. Len(files) : files[j] = m
  BY <1>2 DEF FilesRight
<1>9. 1 \in 1 .. Len(files)
  BY <1>3, <1>4
<1>10. Head(queue) = Entry <=> Len(queue) = 1
  BY <1>4, <1>7, <1>8, <1>9
<1>11. ASSUME NEW m \in ImportsOf(Head(queue))
       PROVE  m \in DOMAIN proj /\ m \in DOMAIN tables /\ TableRight(m, tables[m])
  <2>1. PICK j \in Len(queue) + 1 .. Len(files) : files[j] = m
    BY <1>4, <1>7, <1>8
  <2>2. j \in 1 .. Len(files)
    BY <1>3, <1>4, <2>1
  <2>3. files[j] \in DOMAIN tables /\ TableRight(files[j], tables[files[j]])
    BY <1>1, <2>1 DEF QueueRight
  <2> QED BY <1>3, <2>1, <2>2, <2>3
<1> QED BY <1>3, <1>4, <1>5, <1>7, <1>8, <1>10, <1>11

LEMMA StartFileCheck ==
  ASSUME CheckInv, LoadInv', StartFile
  PROVE  CheckInv'
<1> DEFINE f == Head(queue)
           c == Start(f, Onto(ImportEnv(f), BaseEnv), ImportTypes(f))
<1>1. /\ UNCHANGED <<proj, stack, files, queue, tables, results, flat>> /\ phase = "check"
      /\ IF DupSig(f)
         THEN phase' = "checked" /\ verdict' = "invalid" /\ chk' = chk
         ELSE phase' = "items" /\ verdict' = verdict /\ chk' = c
  BY DEF StartFile
<1>2. Idle' = Idle /\ chk = Idle
  BY <1>1 DEF Idle, CheckInv
<1>3. (\A g \in DOMAIN results : ResultRight(g, results[g]))'
  BY <1>1, SameRight DEF CheckInv
<1>4. CASE DupSig(f)
  BY <1>1, <1>2, <1>3, <1>4 DEF CheckInv
<1>5. CASE ~DupSig(f)
  <2>1. proj \in Projects
    BY DEF CheckInv, LoadInv, LoadRight, ListsRight
  <2>2. CheckRight(c)
    BY <1>1, <2>1, QueueHead, StartRight
  <2>3. c.file = f
    BY DEF Start
  <2> HIDE DEF c
  <2>4. CheckRight(chk)'
    <3>1. CheckRight(chk')
      BY <1>1, <1>5, <2>2
    <3> QED BY <1>1, <3>1, SameRight
  <2>5. QueueRight(queue, files, results, tables)'
    <3>1. QueueRight(queue', files', results', tables')
      BY <1>1 DEF CheckInv
    <3> QED BY <1>1, <3>1, SameRight
  <2>6. verdict = "checked" /\ ~ReservedName' /\ phase' = "items" /\ verdict' = verdict
        /\ chk'.file = Head(queue')
    BY <1>1, <1>5, <2>3, SameProgram DEF CheckInv
  <2> QED BY <1>1, <1>3, <2>4, <2>5, <2>6 DEF CheckInv
<1> QED BY <1>4, <1>5

LEMMA StepFile ==
  ASSUME NEW c, IsCheck(c), NEW it
  PROVE  Step(c, it).file = c.file
<1>1. Lacking(c).file = c.file
  BY DEF IsCheck, Lacking, Diag
<1>2. DefChecked(c, it).file = c.file
  <2>1. Checked(c, it).file = c.file
    BY DEF IsCheck, Checked
  <2>2. Tentative(c, it).file = c.file
    BY DEF IsCheck, Tentative, Diag
  <2>3. Continue([c EXCEPT !.holes = @ \/ it.hole], it).file = c.file
    BY DEF IsCheck, Continue, Diag
  <2> QED BY <2>1, <2>2, <2>3 DEF DefChecked
<1>3. TypeChecked(c, it).file = c.file
  <2> DEFINE d == [c EXCEPT !.tydefs = @ \cup it.names]
  <2>1. IsCheck(d) /\ d.file = c.file
    BY DEF IsCheck
  <2> HIDE DEF d
  <2>2. Continue(c, it).file = c.file /\ Continue(d, it).file = c.file
        /\ Checked(d, it).file = c.file
    BY <2>1 DEF IsCheck, Continue, Diag, Checked
  <2>3. TypeChecked(c, it) \in {Continue(c, it), Continue(d, it), Checked(d, it)}
    BY DEF TypeChecked, d
  <2> QED BY <2>2, <2>3
<1> QED BY <1>1, <1>2, <1>3 DEF Step

LEMMA ItemCheck ==
  ASSUME CheckInv, LoadInv', Item
  PROVE  CheckInv'
<1> DEFINE c == Step(chk, proj[chk.file].items[chk.at])
<1>1. /\ UNCHANGED <<proj, phase, stack, files, queue, tables, verdict, results, flat>>
      /\ phase = "items" /\ chk.at \in DOMAIN proj[chk.file].items /\ chk' = c
  BY DEF Item
<1>2. (\A g \in DOMAIN results : ResultRight(g, results[g]))'
  BY <1>1, SameRight DEF CheckInv
<1>3. proj \in Projects /\ CheckRight(chk) /\ chk.file = Head(queue)
  BY <1>1 DEF CheckInv, LoadInv, LoadRight, ListsRight
<1>4. CheckRight(c) /\ c.file = chk.file
  <2>1. IsCheck(chk)
    BY <1>3 DEF CheckRight
  <2> QED BY <1>1, <1>3, <2>1, StepRight, StepFile
<1> HIDE DEF c
<1>5. CheckRight(chk)'
  <2>1. CheckRight(chk')
    BY <1>1, <1>4
  <2> QED BY <1>1, <2>1, SameRight
<1>6. QueueRight(queue, files, results, tables)'
  <2>1. QueueRight(queue', files', results', tables')
    BY <1>1 DEF CheckInv
  <2> QED BY <1>1, <2>1, SameRight
<1>7. verdict = "checked" /\ ~ReservedName' /\ chk'.file = Head(queue')
  BY <1>1, <1>3, <1>4, SameProgram DEF CheckInv
<1> QED BY <1>1, <1>2, <1>5, <1>6, <1>7 DEF CheckInv

LEMMA EndFileCheck ==
  ASSUME CheckInv, LoadInv', EndFile
  PROVE  CheckInv'
<1> DEFINE f == chk.file
           v == Verdict(chk, proj[f])
           rs == Put(results, f, Result(v))
           ts == Put(tables, f, TableEntry(chk))
<1>1. /\ UNCHANGED <<proj, stack, files, flat>> /\ phase = "items"
      /\ chk.at \notin DOMAIN proj[f].items
      /\ results' = rs /\ queue' = Tail(queue) /\ chk' = Idle
      /\ tables' = IF v = "checked" \/ (v = "partial" /\ f = Entry) THEN ts ELSE tables
      /\ \/ f = Entry /\ phase' = "checked" /\ verdict' = v
         \/ f # Entry /\ v = "checked" /\ phase' = "check" /\ verdict' = verdict
         \/ f # Entry /\ v # "checked" /\ phase' = "checked" /\ verdict' = "invalid"
  BY DEF EndFile
<1>2. /\ proj \in Projects /\ CheckRight(chk) /\ f = Head(queue) /\ ~ReservedName
      /\ verdict = "checked" /\ QueueRight(queue, files, results, tables)
      /\ flat \in Seq(DOMAIN proj)
  BY <1>1 DEF CheckInv, LoadInv, LoadRight, ListsRight
<1>3. /\ v \in {"checked", "partial", "invalid"} /\ ResultRight(f, Result(v))
      /\ v = "checked" => TableRight(f, TableEntry(chk))
  BY <1>1, <1>2, EndRight
<1>4. Result(v).verdict = v
  BY DEF Result
<1>5. /\ queue \in Seq(DOMAIN proj) /\ queue # <<>> /\ Len(queue) \in 1 .. Len(files)
      /\ f = files[Len(queue)] /\ f \in DOMAIN proj /\ (f = Entry <=> Len(queue) = 1)
      /\ \A i \in 1 .. Len(files) : files[i] = f => i = Len(queue)
  BY <1>1, <1>2, QueueHead
<1> HIDE DEF v
<1> HIDE DEF f
<1>6. /\ DOMAIN rs = DOMAIN results \cup {f} /\ rs[f] = Result(v)
      /\ \A g \in DOMAIN results : g # f => rs[g] = results[g]
  BY DEF Put, Onto
<1>7. /\ DOMAIN ts = DOMAIN tables \cup {f} /\ ts[f] = TableEntry(chk)
      /\ \A g \in DOMAIN tables : g # f => ts[g] = tables[g]
  BY DEF Put, Onto
<1> HIDE DEF rs, ts
<1>8. (\A g \in DOMAIN results : ResultRight(g, results[g]))'
  <2>1. \A g \in DOMAIN rs : ResultRight(g, rs[g])
    BY <1>3, <1>6 DEF CheckInv
  <2>2. \A g \in DOMAIN results' : ResultRight(g, results'[g])
    BY <1>1, <2>1
  <2> QED BY <1>1, <2>2, SameRight
<1>9. DOMAIN tables' \subseteq DOMAIN proj
  BY <1>1, <1>5, <1>7 DEF CheckInv
<1>10. queue' \in Seq(DOMAIN proj) /\ Idle' = Idle
  BY <1>1, <1>5, HeadTailProperties DEF Idle
<1>11. Len(files) \in Nat
  BY FileList DEF CheckInv, LoadInv, LoadRight, Shape
<1>12. ASSUME v = "checked", NEW i \in Len(queue) .. Len(files)
       PROVE  /\ files[i] \in DOMAIN rs /\ rs[files[i]].verdict = "checked"
              /\ files[i] \in DOMAIN ts /\ TableRight(files[i], ts[files[i]])
  <2>1. CASE i = Len(queue)
    BY <1>3, <1>4, <1>5, <1>6, <1>7, <1>12, <2>1
  <2>2. CASE i # Len(queue)
    <3>1. i \in Len(queue) + 1 .. Len(files) /\ i \in 1 .. Len(files)
      BY <1>5, <1>11, <2>2
    <3>2. files[i] # f
      BY <1>5, <2>2, <3>1
    <3>3. /\ files[i] \in DOMAIN results /\ results[files[i]].verdict = "checked"
          /\ files[i] \in DOMAIN tables /\ TableRight(files[i], tables[files[i]])
      BY <1>2, <3>1 DEF QueueRight
    <3> QED BY <1>6, <1>7, <3>2, <3>3
  <2> QED BY <2>1, <2>2
<1>13. CASE f = Entry
  <2>1. ASSUME v = "checked" PROVE AllPassed(files, rs)
    <3>1. \A i \in 1 .. Len(files) : files[i] \in DOMAIN rs /\ rs[files[i]].verdict = "checked"
      BY <1>5, <1>12, <1>13, <2>1
    <3>2. ToSet(files) = {files[i] : i \in 1 .. Len(files)}
      BY FileList DEF CheckInv, LoadInv, LoadRight, Shape, Loaded
    <3> QED BY <3>1, <3>2 DEF AllPassed
  <2>2. phase' = "checked" /\ verdict' = v
    BY <1>1, <1>13
  <2>3. (verdict = "checked" => AllPassed(files, results) /\ ~ReservedName)'
    BY <1>1, <1>2, <2>1, <2>2, SameProgram DEF AllPassed
  <2> QED BY <1>1, <1>2, <1>3, <1>8, <1>9, <1>10, <2>2, <2>3 DEF CheckInv
<1>14. CASE f # Entry /\ v = "checked"
  <2> DEFINE q == Tail(queue)
  <2>1. Len(queue) >= 2 /\ Len(queue) \in Nat
    <3> DEFINE k == Len(queue)
    <3>1. k # 1
      BY <1>5, <1>14
    <3>2. k \in Nat /\ k >= 1
      BY <1>5, <1>11
    <3> HIDE DEF k
    <3>3. k >= 2 /\ k \in Nat
      BY <3>1, <3>2
    <3> QED BY <3>3 DEF k
  <2>2. /\ q \in Seq(DOMAIN proj) /\ Len(q) = Len(queue) - 1
        /\ \A i \in 1 .. Len(q) : q[i] = queue[i + 1]
    BY <1>5, HeadTailProperties
  <2> HIDE DEF q
  <2>3. Len(q) \in 1 .. Len(files)
    BY <1>5, <1>11, <2>1, <2>2
  <2>4. ASSUME NEW i \in 1 .. Len(q) PROVE q[i] = files[Len(q) + 1 - i]
    <3>1. i + 1 \in 1 .. Len(queue) /\ Len(queue) + 1 - (i + 1) = Len(q) + 1 - i
      BY <2>1, <2>2
    <3>2. queue[i + 1] = files[Len(queue) + 1 - (i + 1)]
      BY <1>2, <3>1 DEF QueueRight
    <3> QED BY <2>2, <3>1, <3>2
  <2>5. \A i \in Len(q) + 1 .. Len(files) : i \in Len(queue) .. Len(files)
    BY <2>1, <2>2
  <2>6. QueueRight(q, files, rs, ts)
    BY <1>12, <1>14, <2>2, <2>3, <2>4, <2>5 DEF QueueRight
  <2>7. QueueRight(queue, files, results, tables)'
    <3>1. QueueRight(queue', files', results', tables')
      BY <1>1, <1>14, <2>6 DEF q
    <3> QED BY <1>1, <3>1, SameRight
  <2>8. phase' = "check" /\ verdict' = verdict /\ ~ReservedName'
    BY <1>1, <1>2, <1>14, SameProgram
  <2> QED BY <1>1, <1>2, <1>8, <1>9, <1>10, <2>7, <2>8 DEF CheckInv
<1>15. CASE f # Entry /\ v # "checked"
  BY <1>1, <1>2, <1>8, <1>9, <1>10, <1>15 DEF CheckInv
<1> QED BY <1>13, <1>14, <1>15

(* The steps after the checks.                                             *)
LEMMA RefuseCheck ==
  ASSUME CheckInv, LoadInv', Refuse
  PROVE  CheckInv'
<1>1. /\ UNCHANGED <<proj, stack, files, queue, chk, tables, verdict, results, flat>>
      /\ phase = "checked" /\ phase' = "refused"
  BY DEF Refuse
<1>2. (\A g \in DOMAIN results : ResultRight(g, results[g]))'
  BY <1>1, SameRight DEF CheckInv
<1>3. Idle' = Idle /\ chk = Idle
  BY <1>1 DEF Idle, CheckInv
<1> QED BY <1>1, <1>2, <1>3 DEF CheckInv

LEMMA LinkCheck ==
  ASSUME CheckInv, LoadInv', Link
  PROVE  CheckInv'
<1>1. /\ UNCHANGED <<proj, stack, files, queue, chk, tables, verdict, results>>
      /\ phase = "checked" /\ phase' = "linked" /\ verdict = "checked"
      /\ ~DupAcross /\ ~LabelTwice /\ flat' = Reverse(files)
  BY DEF Link
<1>2. (\A g \in DOMAIN results : ResultRight(g, results[g]))'
  BY <1>1, SameRight DEF CheckInv
<1>3. Idle' = Idle /\ chk = Idle
  BY <1>1 DEF Idle, CheckInv
<1>4. Reverse(files) \in Seq(DOMAIN proj)
  <2>1. Len(files) \in Nat /\ \A i \in 1 .. Len(files) : files[i] \in DOMAIN proj
    BY FileList DEF CheckInv, LoadInv, LoadRight, Shape
  <2>2. Reverse(files) = [i \in 1 .. Len(files) |-> files[(Len(files) - i) + 1]]
    BY DEF Reverse
  <2>3. \A i \in 1 .. Len(files) : (Len(files) - i) + 1 \in 1 .. Len(files)
    BY <2>1
  <2> QED BY <2>1, <2>2, <2>3
<1>5. (AllPassed(files, results) /\ ~ReservedName)'
  BY <1>1, SameProgram DEF CheckInv, AllPassed
<1>6. ~DupAcross' /\ ~LabelTwice' /\ flat' = Reverse(files')
  BY <1>1, SameProgram
<1> QED BY <1>1, <1>2, <1>3, <1>4, <1>5, <1>6 DEF CheckInv

LEMMA StutterCheck ==
  ASSUME CheckInv, LoadInv', UNCHANGED vars
  PROVE  CheckInv'
<1>1. UNCHANGED <<proj, phase, stack, files, queue, chk, tables, verdict, results, flat>>
  BY DEF vars
<1>2. (\A g \in DOMAIN results : ResultRight(g, results[g]))'
  BY <1>1, SameRight DEF CheckInv
<1>3. Idle' = Idle
  BY <1>1 DEF Idle
<1>4. phase \in {"check", "items"} => QueueRight(queue, files, results, tables)'
  <2>1. phase \in {"check", "items"} => QueueRight(queue', files', results', tables')
    BY <1>1 DEF CheckInv
  <2> QED BY <1>1, <2>1, SameRight
<1>5. phase = "items" => CheckRight(chk)'
  <2>1. phase = "items" => CheckRight(chk')
    BY <1>1 DEF CheckInv
  <2> QED BY <1>1, <2>1, SameRight
<1>6. /\ ReservedName' <=> ReservedName
      /\ AllPassed(files, results)' <=> AllPassed(files, results)
      /\ DupAcross' <=> DupAcross
      /\ LabelTwice' <=> LabelTwice
  BY <1>1, SameProgram DEF AllPassed
<1> QED BY <1>1, <1>2, <1>3, <1>4, <1>5, <1>6 DEF CheckInv

LEMMA CheckStep == CheckInv /\ [Next]_vars => CheckInv'
<1> SUFFICES ASSUME CheckInv, [Next]_vars PROVE CheckInv'
  OBVIOUS
<1>1. LoadInv'
  BY LoadStep DEF CheckInv
<1>2. CASE Cyclic
  <2>1. LoadDone /\ phase = "load" /\ phase' = "cyclic"
    BY <1>2 DEF Cyclic, Visiting
  <2> QED BY <1>1, <2>1, LoadingCheck
<1>3. CASE HaveFile
  <2>1. LoadDone /\ phase = "load" /\ phase' = "load"
    BY <1>3 DEF HaveFile, Visiting
  <2> QED BY <1>1, <2>1, LoadingCheck
<1>4. CASE ReadFails
  <2>1. LoadDone /\ phase = "load" /\ phase' = "unreadable"
    BY <1>4 DEF ReadFails, Visiting
  <2> QED BY <1>1, <2>1, LoadingCheck
<1>5. CASE Visit
  <2>1. LoadDone /\ phase = "load" /\ phase' = "load"
    BY <1>5 DEF Visit, Visiting
  <2> QED BY <1>1, <2>1, LoadingCheck
<1>6. CASE VisitReturns
  <2>1. LoadDone /\ phase = "load" /\ phase' \in {"load", "loaded"}
    BY <1>6 DEF VisitReturns
  <2> QED BY <1>1, <2>1, LoadingCheck
<1>7. CASE CheckLoaded
  BY <1>1, <1>7, CheckLoadedCheck
<1>8. CASE StartFile
  BY <1>1, <1>8, StartFileCheck
<1>9. CASE Item
  BY <1>1, <1>9, ItemCheck
<1>10. CASE EndFile
  BY <1>1, <1>10, EndFileCheck
<1>11. CASE Refuse
  BY <1>1, <1>11, RefuseCheck
<1>12. CASE Link
  BY <1>1, <1>12, LinkCheck
<1>13. CASE Ended \/ UNCHANGED vars
  BY <1>1, <1>13, StutterCheck DEF Ended
<1> QED BY <1>2, <1>3, <1>4, <1>5, <1>6, <1>7, <1>8, <1>9, <1>10, <1>11, <1>12, <1>13 DEF Next

-----------------------------------------------------------------------------
(* Theorems.                                                               *)

LEMMA CheckInvariant == Spec => []CheckInv
<1>1. Init => CheckInv
  BY CheckInit
<1>2. CheckInv /\ [Next]_vars => CheckInv'
  BY CheckStep
<1> QED BY <1>1, <1>2, PTL DEF Spec

(* What the loader hands to the checker: exactly the files that the entry  *)
(* reaches, each once and after its imports, unless the imports are        *)
(* cyclic, and then only then.  g5_visit and g5_check_files.               *)
THEOREM LoadedRightHolds == Spec => []LoadedRight
<1>1. CheckInv => LoadedRight
  <2> SUFFICES ASSUME CheckInv PROVE LoadedRight
    OBVIOUS
  <2>1. /\ LoadInv /\ Shape /\ proj \in Projects /\ phase \in Phases
        /\ FilesRight(phase, stack, files)
    BY DEF CheckInv, LoadInv, LoadRight, Shape, ListsRight
  <2>2. /\ Len(files) \in Nat /\ DOMAIN files = 1 .. Len(files) /\ Loaded \subseteq DOMAIN proj
        /\ Loaded = {files[i] : i \in 1 .. Len(files)}
    BY <2>1, FileList
  <2>3. TypeOK
    <3>1. \A s \in Seq(DOMAIN proj) : ToSet(s) \subseteq DOMAIN proj
      BY DEF ToSet
    <3>2. ToSet(queue) \subseteq DOMAIN proj /\ ToSet(flat) \subseteq DOMAIN proj
      BY <3>1 DEF CheckInv
    <3>3. DOMAIN tables \subseteq DOMAIN proj /\ DOMAIN results \subseteq DOMAIN proj
      BY DEF CheckInv, ResultRight
    <3>4. phase = "load" => stack # <<>>
      BY <2>1 DEF FilesRight
    <3>5. phase = "items" => queue # <<>> /\ chk.file = Head(queue)
      BY QueueHead DEF CheckInv
    <3>6. chk.at \in 1 .. Len(proj[chk.file].items) + 1
      <4>1. CASE phase = "items"
        BY <4>1 DEF CheckInv, CheckRight
      <4>2. CASE phase # "items"
        <5>1. chk.at = 1 /\ chk.file = Entry
          BY <4>2 DEF CheckInv, Idle, Start
        <5>2. Len(proj[Entry].items) \in Nat
          BY <2>1, Files, ItemList
        <5> QED BY <5>1, <5>2
      <4> QED BY <4>1, <4>2
    <3> QED BY <2>1, <2>2, <3>2, <3>3, <3>4, <3>5, <3>6 DEF TypeOK, CheckInv, Phases
  <2>4. LoadOrder
    <3>1. IsInjective(files)
      BY <2>1, <2>2 DEF FilesRight, IsInjective
    <3>2. \A i \in DOMAIN files : \A m \in ImportsOf(files[i]) :
            \E j \in i + 1 .. Len(files) : files[j] = m
      BY <2>1, <2>2 DEF FilesRight
    <3>3. phase = "items" => ImportsOf(chk.file) \subseteq DOMAIN tables
      BY QueueHead DEF CheckInv
    <3> QED BY <3>1, <3>2, <3>3 DEF LoadOrder
  <2>5. CyclesRefused
    BY <2>1, LoadComplete DEF CyclesRefused, FilesRight
  <2> QED BY <2>3, <2>4, <2>5 DEF LoadedRight
<1> QED BY <1>1, CheckInvariant, PTL

(* A file passes exactly when its text and the texts of its imports        *)
(* deserve it, and a program passes only if all its files do.              *)
(* g5_run_items, g5_finish and g5_check_files.                             *)
THEOREM VerdictRightHolds == Spec => []VerdictRight
<1>1. CheckInv => VerdictRight
  <2> SUFFICES ASSUME CheckInv PROVE VerdictRight
    OBVIOUS
  <2>1. FileVerdicts
    BY DEF CheckInv, ResultRight, Passes, FileVerdicts
  <2>2. WholeProgramChecked
    BY DEF CheckInv, AllPassed, WholeProgramChecked, Loaded
  <2> QED BY <2>1, <2>2 DEF VerdictRight
<1> QED BY <1>1, CheckInvariant, PTL

(* Errors do not stop the analysis of the items that have nothing to do    *)
(* with them: g5_continue_item and the rollback of g5_infer_item.          *)
THEOREM GoodItemsCheckedHolds == Spec => []GoodItemsChecked
<1>1. CheckInv => GoodItemsChecked
  BY DEF CheckInv, ResultRight, GoodItemsChecked
<1> QED BY <1>1, CheckInvariant, PTL

=============================================================================
