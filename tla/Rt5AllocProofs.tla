--------------------------- MODULE Rt5AllocProofs ---------------------------
(***************************************************************************)
(* The allocator, proved for every size of memory and every request.  The  *)
(* lists are treated first (which blocks an operation adds and removes),   *)
(* then the words (Layout), then each operation of the code as a move from *)
(* one layout to another; the invariant IInv puts the two together.        *)
(***************************************************************************)
EXTENDS Rt5Alloc, NatLemmas, SequenceTheorems

(* Log2 is the position of the highest bit.                                *)
LEMMA Log2Bounds ==
  ASSUME NEW n \in Nat, n >= 1
  PROVE  Log2(n) \in 0 .. n /\ 2 ^ Log2(n) <= n /\ n < 2 ^ (Log2(n) + 1)
<1> DEFINE T == {k \in Nat : 2 ^ k <= n}
<1>1. \A k \in T : k <= n
  BY PowAbove, PowType
<1>2. 0 \in T
  BY PowType
<1>3. PICK m \in T : \A k \in T : k <= m
  BY <1>1, <1>2, GreatestElement
<1>4. m \in 0 .. n /\ 2 ^ m <= n /\ m + 1 \in Nat
  BY <1>1, <1>3
<1>5. n < 2 ^ (m + 1)
  <2> SUFFICES ASSUME 2 ^ (m + 1) <= n PROVE FALSE
    BY <1>4, PowType
  <2>1. m + 1 \in T
    BY <1>4
  <2> QED BY <1>3, <1>4, <2>1
<1>6. \E k \in 0 .. n : 2 ^ k <= n /\ n < 2 ^ (k + 1)
  BY <1>4, <1>5
<1> QED BY <1>6 DEF Log2

(* The number of sub-classes per power of two is a positive number.        *)
LEMMA SubClassesType == SubClasses \in Nat /\ SubClasses >= 1
  BY AllocAssumption, PowType DEF SubClasses

(* big_class in closed form: k is the position of the highest bit, q the   *)
(* highest SubBits + 1 bits.                                               *)
LEMMA BigClassForm ==
  ASSUME NEW n \in Nat, n > SmallMax
  PROVE  LET k == Log2(n)
             p == 2 ^ (k - SubBits)
             q == n \div p
         IN /\ k \in Nat /\ p \in Nat /\ p >= 1 /\ q \in Nat
            /\ 2 ^ k <= n /\ n < 2 ^ (k + 1)
            /\ SubClasses <= q /\ q < 2 * SubClasses
            /\ BigClass(n) = k * SubClasses + (q - SubClasses)
<1> DEFINE k == Log2(n)
           p == 2 ^ (k - SubBits)
           q == n \div p
           s == SubClasses
<1>1. k \in Nat /\ 2 ^ k <= n /\ n < 2 ^ (k + 1) /\ n >= 2 ^ SubBits
  BY Log2Bounds, AllocAssumption, PowType
<1>2. k >= SubBits
  <2> SUFFICES ASSUME k + 1 <= SubBits PROVE FALSE
    BY <1>1, AllocAssumption
  <2>1. 2 ^ (k + 1) <= 2 ^ SubBits
    BY <1>1, AllocAssumption, PowMonotone
  <2> QED BY <1>1, <2>1, AllocAssumption, PowType
<1>3. k - SubBits \in Nat /\ k = (k - SubBits) + SubBits
  BY <1>1, <1>2, AllocAssumption
<1>4. p \in Nat /\ p >= 1 /\ 2 ^ k = p * s
  BY <1>3, AllocAssumption, PowType, PowSum DEF SubClasses
<1>5. 2 ^ (k + 1) = 2 * (p * s)
  BY <1>1, <1>4, PowNext
<1>6. q \in Nat /\ p * q <= n /\ n < p * q + p
  BY <1>4, DivBounds
<1>7. s \in Nat /\ s >= 1
  BY SubClassesType
<1>8. BigClass(n) = k * s + (q % s)
  BY DEF BigClass
<1> HIDE DEF k, p, q, s
<1>9. s <= q
  <2>1. p * s < p * (q + 1)
    BY <1>1, <1>4, <1>6, <1>7
  <2>2. s < q + 1
    BY <2>1, <1>4, <1>6, <1>7
  <2> QED BY <2>2, <1>6, <1>7
<1>10. q < 2 * s
  <2>1. p * q < p * (2 * s)
    BY <1>1, <1>5, <1>4, <1>6, <1>7
  <2> QED BY <2>1, <1>4, <1>6, <1>7
<1>11. q % s = q - s
  BY <1>6, <1>7, <1>9, <1>10, ModOnce
<1>12. BigClass(n) = k * s + (q - s)
  BY <1>8, <1>11
<1> QED BY <1>1, <1>4, <1>6, <1>9, <1>10, <1>12 DEF k, p, q, s

(* A longer big block is never in a lower class.                           *)
LEMMA BigClassMonotone ==
  ASSUME NEW m \in Nat, NEW n \in Nat, m > SmallMax, m <= n
  PROVE  BigClass(m) \in Nat /\ BigClass(m) <= BigClass(n)
<1> DEFINE s == SubClasses
           km == Log2(m)
           kn == Log2(n)
           pm == 2 ^ (km - SubBits)
           pn == 2 ^ (kn - SubBits)
           qm == m \div pm
           qn == n \div pn
<1>1. /\ km \in Nat /\ pm \in Nat /\ pm >= 1 /\ qm \in Nat
      /\ 2 ^ km <= m /\ m < 2 ^ (km + 1)
      /\ s <= qm /\ qm < 2 * s
      /\ BigClass(m) = km * s + (qm - s)
  BY BigClassForm
<1>2. /\ kn \in Nat /\ pn \in Nat /\ pn >= 1 /\ qn \in Nat
      /\ 2 ^ kn <= n /\ n < 2 ^ (kn + 1)
      /\ s <= qn /\ qn < 2 * s
      /\ BigClass(n) = kn * s + (qn - s)
  <2>1. n > SmallMax
    BY AllocAssumption
  <2> QED BY <2>1, BigClassForm
<1>3. s \in Nat /\ s >= 1
  BY SubClassesType
<1>4. km <= kn
  <2> SUFFICES ASSUME kn + 1 <= km PROVE FALSE
    BY <1>1, <1>2
  <2>1. 2 ^ (kn + 1) <= 2 ^ km
    BY <1>1, <1>2, PowMonotone
  <2> QED BY <1>1, <1>2, <2>1, PowType
<1>5. BigClass(m) \in Nat
  <2> HIDE DEF s, km, qm
  <2>1. km * s \in Nat
    BY <1>1, <1>3
  <2> QED BY <1>1, <1>3, <2>1
<1>6. CASE km = kn
  <2>1. qm <= qn
    <3>1. pm = pn
      BY <1>6
    <3>2. m \div pm <= n \div pm
      BY <1>1, DivMonotone
    <3> QED BY <3>1, <3>2
  <2> HIDE DEF s, km, kn, qm, qn
  <2>2. km * s = kn * s /\ km * s \in Nat
    BY <1>1, <1>3, <1>6
  <2> QED BY <1>1, <1>2, <1>3, <1>5, <2>1, <2>2
<1>7. CASE km < kn
  <2> HIDE DEF s, km, kn, qm, qn
  <2>1. (km + 1) * s <= kn * s
    BY <1>1, <1>2, <1>3, <1>7
  <2>2. km * s + s <= kn * s /\ km * s \in Nat /\ kn * s \in Nat
    BY <1>1, <1>2, <1>3, <2>1
  <2> QED BY <1>1, <1>2, <1>3, <1>5, <2>2
<1> QED BY <1>1, <1>2, <1>4, <1>6, <1>7

-----------------------------------------------------------------------------
Block == [at : Nat, size : Nat]

(* No block twice on a list.                                               *)
Distinct(l) == \A i, j \in DOMAIN l : l[i] = l[j] => i = j

(* A new head adds its block.                                              *)
LEMMA ConsElems ==
  ASSUME NEW l \in Seq(Block), NEW b \in Block, b \notin Elems(l), Distinct(l)
  PROVE  /\ <<b>> \o l \in Seq(Block)
         /\ <<b>> \o l # <<>>
         /\ Elems(<<b>> \o l) = Elems(l) \cup {b}
         /\ Distinct(<<b>> \o l)
<1> DEFINE m == <<b>> \o l
<1>1. /\ m \in Seq(Block) /\ Len(m) = 1 + Len(l) /\ Len(l) \in Nat
      /\ DOMAIN m = 1 .. Len(m) /\ DOMAIN l = 1 .. Len(l)
      /\ m[1] = b
      /\ \A i \in 2 .. Len(m) : m[i] = l[i - 1] /\ i - 1 \in DOMAIN l
  OBVIOUS
<1> HIDE DEF m
<1>2. m # <<>>
  BY <1>1
<1>3. \A j \in DOMAIN l : j + 1 \in DOMAIN m /\ m[j + 1] = l[j]
  BY <1>1
<1>4. Elems(m) \subseteq Elems(l) \cup {b}
  BY <1>1 DEF Elems
<1>5. Elems(l) \cup {b} \subseteq Elems(m)
  BY <1>1, <1>3 DEF Elems
<1>6. Distinct(m)
  <2> SUFFICES ASSUME NEW i \in DOMAIN m, NEW j \in DOMAIN m, m[i] = m[j]
               PROVE  i = j
    BY DEF Distinct
  <2>1. CASE i = 1 /\ j # 1
    BY <1>1, <2>1 DEF Elems
  <2>2. CASE i # 1 /\ j = 1
    BY <1>1, <2>2 DEF Elems
  <2>3. CASE i # 1 /\ j # 1
    <3>1. i \in 2 .. Len(m) /\ j \in 2 .. Len(m)
      BY <1>1, <2>3
    <3>2. /\ i - 1 \in DOMAIN l /\ j - 1 \in DOMAIN l
          /\ l[i - 1] = l[j - 1]
      BY <1>1, <3>1
    <3>3. i - 1 = j - 1
      BY <3>2 DEF Distinct
    <3> QED BY <3>1, <3>3
  <2> QED BY <2>1, <2>2, <2>3
<1> QED BY <1>1, <1>2, <1>4, <1>5, <1>6 DEF m

(* Taking out the block at one position removes exactly that block.        *)
LEMMA WithoutElems ==
  ASSUME NEW l \in Seq(Block), NEW i \in DOMAIN l, Distinct(l)
  PROVE  /\ Without(l, i) \in Seq(Block)
         /\ Elems(Without(l, i)) = Elems(l) \ {l[i]}
         /\ Distinct(Without(l, i))
<1> DEFINE m == Without(l, i)
<1>1. Len(l) \in Nat /\ DOMAIN l = 1 .. Len(l) /\ i \in 1 .. Len(l)
  OBVIOUS
<1>2. /\ m \in Seq(Block) /\ Len(m) = Len(l) - 1
      /\ \A j \in 1 .. Len(l) - 1 :
            m[j] = IF j < i THEN l[j] ELSE l[j + 1]
  <2> DEFINE x == SubSeq(l, 1, i - 1)
             y == SubSeq(l, i + 1, Len(l))
  <2>1. /\ x \in Seq(Block) /\ Len(x) = i - 1
        /\ \A j \in 1 .. i - 1 : x[j] = l[j]
    BY <1>1
  <2>2. /\ y \in Seq(Block) /\ Len(y) = Len(l) - i
        /\ \A j \in 1 .. Len(l) - i : y[j] = l[i + j]
    BY <1>1
  <2> HIDE DEF x, y
  <2>3. /\ x \o y \in Seq(Block) /\ Len(x \o y) = Len(l) - 1
        /\ \A j \in 1 .. Len(l) - 1 :
              (x \o y)[j] = IF j <= i - 1 THEN x[j] ELSE y[j - (i - 1)]
    <3>1. Len(x) + Len(y) = Len(l) - 1
      BY <1>1, <2>1, <2>2
    <3>2. /\ x \o y \in Seq(Block) /\ Len(x \o y) = Len(x) + Len(y)
          /\ \A j \in 1 .. Len(x) + Len(y) :
                (x \o y)[j] = IF j <= Len(x) THEN x[j] ELSE y[j - Len(x)]
      BY <2>1, <2>2, ConcatProperties
    <3> QED BY <2>1, <3>1, <3>2
  <2>4. m = x \o y
    BY DEF Without, x, y
  <2>5. ASSUME NEW j \in 1 .. Len(l) - 1
        PROVE  m[j] = IF j < i THEN l[j] ELSE l[j + 1]
    <3>1. CASE j < i
      BY <1>1, <2>1, <2>3, <2>4, <3>1
    <3>2. CASE j >= i
      <4>1. m[j] = y[j - (i - 1)] /\ j - (i - 1) \in 1 .. Len(l) - i
        BY <1>1, <2>3, <2>4, <3>2
      <4>2. y[j - (i - 1)] = l[i + (j - (i - 1))]
        BY <2>2, <4>1
      <4> QED BY <1>1, <3>2, <4>1, <4>2
    <3> QED BY <1>1, <3>1, <3>2
  <2> QED BY <2>3, <2>4, <2>5
<1>3. DOMAIN m = 1 .. Len(l) - 1
  BY <1>1, <1>2
<1> HIDE DEF m
<1>4. ASSUME NEW j \in DOMAIN m
      PROVE  \E k \in DOMAIN l : k # i /\ m[j] = l[k]
                                 /\ k = IF j < i THEN j ELSE j + 1
  BY <1>1, <1>2, <1>3
<1>5. Elems(m) \subseteq Elems(l) \ {l[i]}
  BY <1>4 DEF Elems, Distinct
<1>6. ASSUME NEW k \in DOMAIN l, k # i
      PROVE  \E j \in DOMAIN m : m[j] = l[k]
  <2>1. CASE k < i
    BY <1>1, <1>2, <1>3, <2>1
  <2>2. CASE k > i
    <3>1. k - 1 \in DOMAIN m /\ m[k - 1] = l[(k - 1) + 1]
      BY <1>1, <1>2, <1>3, <2>2
    <3> QED BY <1>1, <3>1
  <2> QED BY <1>1, <1>6, <2>1, <2>2
<1>7. Elems(l) \ {l[i]} \subseteq Elems(m)
  BY <1>6 DEF Elems
<1>8. Distinct(m)
  BY <1>1, <1>3, <1>4 DEF Distinct
<1> QED BY <1>2, <1>5, <1>7, <1>8 DEF m

(* Taking out the head removes exactly the head.                           *)
LEMMA TailElems ==
  ASSUME NEW l \in Seq(Block), l # <<>>, Distinct(l)
  PROVE  /\ Head(l) \in Elems(l) /\ Tail(l) \in Seq(Block)
         /\ Elems(Tail(l)) = Elems(l) \ {Head(l)}
         /\ Distinct(Tail(l))
<1> DEFINE m == Tail(l)
<1>1. /\ Len(l) \in Nat /\ DOMAIN l = 1 .. Len(l) /\ Len(l) >= 1
      /\ Head(l) = l[1]
      /\ m \in Seq(Block) /\ Len(m) = Len(l) - 1
      /\ DOMAIN m = 1 .. Len(l) - 1
      /\ \A j \in 1 .. Len(l) - 1 : m[j] = l[j + 1]
  OBVIOUS
<1> HIDE DEF m
<1>2. Elems(m) \subseteq Elems(l) \ {l[1]}
  BY <1>1 DEF Elems, Distinct
<1>3. ASSUME NEW k \in DOMAIN l, k # 1
      PROVE  \E j \in DOMAIN m : m[j] = l[k]
  <2>1. k - 1 \in DOMAIN m /\ m[k - 1] = l[(k - 1) + 1]
    BY <1>1, <1>3
  <2> QED BY <1>1, <2>1
<1>4. Elems(l) \ {l[1]} \subseteq Elems(m)
  BY <1>3 DEF Elems
<1>5. Distinct(m)
  BY <1>1, SMTT(30) DEF Distinct
<1>6. l[1] \in Elems(l)
  BY <1>1 DEF Elems
<1> QED BY <1>1, <1>2, <1>4, <1>5, <1>6 DEF m

-----------------------------------------------------------------------------
HeapType ==
  [small : [2 .. SmallMax -> Seq(Block)], big : [Classes -> Seq(Block)],
   bits : SUBSET Classes, bump : Nat, end : Nat, lost : Nat]

(* A heap whose lists hold what they should: every block once, on the list *)
(* of its size or class, and the bits say which classes are not empty.     *)
Sorted(h) ==
  /\ h \in HeapType
  /\ \A n \in 2 .. SmallMax :
        /\ Distinct(h.small[n])
        /\ \A b \in Elems(h.small[n]) : b.size = n
  /\ \A c \in Classes :
        /\ Distinct(h.big[c])
        /\ \A b \in Elems(h.big[c]) : b.size > SmallMax /\ BigClass(b.size) = c
  /\ h.bits = {c \in Classes : h.big[c] # <<>>}

(* FreeBlocks, of any heap.                                                *)
FreeIn(h) == (UNION {Elems(h.small[n]) : n \in 2 .. SmallMax})
             \cup (UNION {Elems(h.big[c]) : c \in Classes})

SamePointers(g, h) == g.bump = h.bump /\ g.end = h.end /\ g.lost = h.lost

(* The heap g is the sorted heap h, with T for its free blocks.            *)
Refiles(g, h, T) == Sorted(g) /\ SamePointers(g, h) /\ FreeIn(g) = T

(* Two heaps with the same lists and bits are sorted alike.                *)
LEMMA SameLists ==
  ASSUME NEW h, Sorted(h), NEW g \in HeapType,
         g.small = h.small, g.big = h.big, g.bits = h.bits
  PROVE  Sorted(g) /\ FreeIn(g) = FreeIn(h)
  BY DEF Sorted, FreeIn

(* Classes are numbers.                                                    *)
LEMMA ClassesType == Classes \subseteq Nat
  BY DEF Classes

(* The elements of a list of blocks are blocks.                            *)
LEMMA ElemsType ==
  ASSUME NEW l \in Seq(Block)
  PROVE  Elems(l) \subseteq Block /\ (l = <<>> <=> Elems(l) = {})
<1>1. Len(l) \in Nat /\ DOMAIN l = 1 .. Len(l) /\ \A i \in DOMAIN l : l[i] \in Block
  OBVIOUS
<1>2. l = <<>> <=> Len(l) = 0
  OBVIOUS
<1>3. Len(l) # 0 => l[1] \in Elems(l)
  BY <1>1 DEF Elems
<1>4. Len(l) = 0 => Elems(l) = {}
  BY <1>1 DEF Elems
<1> QED BY <1>1, <1>2, <1>3, <1>4 DEF Elems

(* In a sorted heap a free block is found on the list of its size.         *)
LEMMA FreeOnItsList ==
  ASSUME NEW h, Sorted(h), NEW b \in FreeIn(h)
  PROVE  /\ b \in Block /\ b.size \in Nat /\ b.size >= 2
         /\ b.size <= SmallMax => b \in Elems(h.small[b.size])
         /\ b.size > SmallMax => /\ BigClass(b.size) \in Classes
                                 /\ b \in Elems(h.big[BigClass(b.size)])
<1>1. CASE \E n \in 2 .. SmallMax : b \in Elems(h.small[n])
  <2>1. PICK n \in 2 .. SmallMax : b \in Elems(h.small[n])
    BY <1>1
  <2>2. b.size = n /\ h.small[n] \in Seq(Block)
    BY <2>1 DEF Sorted, HeapType
  <2> QED BY <2>1, <2>2, ElemsType, AllocAssumption DEF Block
<1>2. CASE \E c \in Classes : b \in Elems(h.big[c])
  <2>1. PICK c \in Classes : b \in Elems(h.big[c])
    BY <1>2
  <2>2. b.size > SmallMax /\ BigClass(b.size) = c /\ h.big[c] \in Seq(Block)
    BY <2>1 DEF Sorted, HeapType
  <2> QED BY <2>1, <2>2, ElemsType, AllocAssumption DEF Block
<1> QED BY <1>1, <1>2 DEF FreeIn

(* The blocks of an exact list are free.                                   *)
LEMMA SmallIsFree ==
  ASSUME NEW h, NEW n \in 2 .. SmallMax
  PROVE  Elems(h.small[n]) \subseteq FreeIn(h)
  BY DEF FreeIn

(* The blocks of a class are free.                                         *)
LEMMA BigIsFree ==
  ASSUME NEW h, NEW c \in Classes
  PROVE  Elems(h.big[c]) \subseteq FreeIn(h)
  BY DEF FreeIn

(* The class of a block that fits in memory is one of the classes.         *)
LEMMA ClassInRange ==
  ASSUME NEW n \in Nat, n > SmallMax, n <= MemWords
  PROVE  BigClass(n) \in Classes
<1>1. BigClass(n) \in Nat /\ BigClass(n) <= BigClass(MemWords)
  BY BigClassMonotone, AllocAssumption
<1>2. BigClass(MemWords) \in Nat
  BY BigClassMonotone, AllocAssumption
<1> QED BY <1>1, <1>2 DEF Classes

(* Replacing one small list replaces its blocks among the free ones.       *)
LEMMA SmallReplaced ==
  ASSUME NEW h, Sorted(h), NEW n \in 2 .. SmallMax, NEW l \in Seq(Block),
         Distinct(l), \A b \in Elems(l) : b.size = n
  PROVE  Refiles([h EXCEPT !.small[n] = l], h,
                 (FreeIn(h) \ Elems(h.small[n])) \cup Elems(l))
<1> DEFINE g == [h EXCEPT !.small[n] = l]
<1>1. /\ g \in HeapType /\ SamePointers(g, h)
      /\ g.big = h.big /\ g.bits = h.bits
      /\ g.small = [h.small EXCEPT ![n] = l]
  BY DEF Sorted, HeapType, SamePointers
<1>2. /\ \A m \in 2 .. SmallMax : g.small[m] = IF m = n THEN l ELSE h.small[m]
  BY <1>1 DEF Sorted, HeapType
<1> HIDE DEF g
<1>3. Sorted(g)
  BY <1>1, <1>2 DEF Sorted
<1>4. ASSUME NEW m \in 2 .. SmallMax, m # n, NEW b \in Elems(h.small[m])
      PROVE  b \notin Elems(h.small[n])
  BY <1>4 DEF Sorted
<1>5. ASSUME NEW c \in Classes, NEW b \in Elems(h.big[c])
      PROVE  b \notin Elems(h.small[n])
  <2>1. b.size > SmallMax
    BY DEF Sorted
  <2>2. b \in Elems(h.small[n]) => b.size = n
    BY DEF Sorted
  <2> QED BY <2>1, <2>2, AllocAssumption
<1>6. FreeIn(g) \subseteq (FreeIn(h) \ Elems(h.small[n])) \cup Elems(l)
  BY <1>1, <1>2, <1>4, <1>5 DEF FreeIn
<1>7. (FreeIn(h) \ Elems(h.small[n])) \cup Elems(l) \subseteq FreeIn(g)
  BY <1>1, <1>2 DEF FreeIn
<1> QED BY <1>1, <1>3, <1>6, <1>7 DEF Refiles, g

(* Replacing one class, with its bit, does the same.                       *)
LEMMA BigReplaced ==
  ASSUME NEW h, Sorted(h), NEW c \in Classes, NEW l \in Seq(Block),
         Distinct(l),
         \A b \in Elems(l) : b.size > SmallMax /\ BigClass(b.size) = c,
         NEW g \in HeapType, SamePointers(g, h), g.small = h.small,
         g.bits = IF l = <<>> THEN h.bits \ {c} ELSE h.bits \cup {c},
         g.big = [h.big EXCEPT ![c] = l]
  PROVE  Refiles(g, h, (FreeIn(h) \ Elems(h.big[c])) \cup Elems(l))
<1>2. \A d \in Classes : g.big[d] = IF d = c THEN l ELSE h.big[d]
  BY DEF Sorted, HeapType
<1>3. Sorted(g)
  <2>1. g.bits = {d \in Classes : g.big[d] # <<>>}
    BY <1>2 DEF Sorted
  <2> QED BY <1>2, <2>1 DEF Sorted
<1>4. ASSUME NEW d \in Classes, d # c, NEW b \in Elems(h.big[d])
      PROVE  b \notin Elems(h.big[c])
  BY <1>4 DEF Sorted
<1>5. ASSUME NEW n \in 2 .. SmallMax, NEW b \in Elems(h.small[n])
      PROVE  b \notin Elems(h.big[c])
  <2>1. b.size = n
    BY DEF Sorted
  <2>2. b \in Elems(h.big[c]) => b.size > SmallMax
    BY DEF Sorted
  <2> QED BY <2>1, <2>2, AllocAssumption
<1>6. FreeIn(g) \subseteq (FreeIn(h) \ Elems(h.big[c])) \cup Elems(l)
  BY <1>2, <1>4, <1>5 DEF FreeIn
<1>7. (FreeIn(h) \ Elems(h.big[c])) \cup Elems(l) \subseteq FreeIn(g)
  BY <1>2 DEF FreeIn
<1> QED BY <1>3, <1>6, <1>7 DEF Refiles

-----------------------------------------------------------------------------
(* push_free adds its block to the free ones and changes nothing else.     *)
LEMMA PushFreeAdds ==
  ASSUME NEW h, Sorted(h), NEW b \in Block, b.size >= 2, b.size <= MemWords,
         b \notin FreeIn(h)
  PROVE  Refiles(PushFree(h, b), h, FreeIn(h) \cup {b})
<1>1. CASE b.size <= SmallMax
  <2> DEFINE n == b.size
             l == <<b>> \o h.small[n]
  <2>1. n \in 2 .. SmallMax
    BY <1>1, AllocAssumption DEF Block
  <2>2. /\ h.small[n] \in Seq(Block) /\ Distinct(h.small[n])
        /\ \A x \in Elems(h.small[n]) : x.size = n
    BY <2>1 DEF Sorted, HeapType
  <2>3. b \notin Elems(h.small[n])
    BY <2>1, SmallIsFree
  <2>4. /\ l \in Seq(Block) /\ Elems(l) = Elems(h.small[n]) \cup {b}
        /\ Distinct(l)
    BY <2>2, <2>3, ConsElems
  <2>5. PushFree(h, b) = [h EXCEPT !.small[n] = l]
    BY <1>1 DEF PushFree
  <2> HIDE DEF n, l
  <2>6. \A x \in Elems(l) : x.size = n
    BY <2>2, <2>4 DEF n
  <2>7. Refiles(PushFree(h, b), h, (FreeIn(h) \ Elems(h.small[n])) \cup Elems(l))
    BY <2>1, <2>4, <2>5, <2>6, SmallReplaced
  <2>8. (FreeIn(h) \ Elems(h.small[n])) \cup Elems(l) = FreeIn(h) \cup {b}
    BY <2>1, <2>4, SmallIsFree
  <2> QED BY <2>7, <2>8
<1>2. CASE b.size > SmallMax
  <2> DEFINE c == BigClass(b.size)
             l == <<b>> \o h.big[c]
             g == PushFree(h, b)
  <2>1. c \in Classes
    BY <1>2, ClassInRange DEF Block
  <2>2. /\ h.big[c] \in Seq(Block) /\ Distinct(h.big[c])
        /\ \A x \in Elems(h.big[c]) : x.size > SmallMax /\ BigClass(x.size) = c
    BY <2>1 DEF Sorted, HeapType
  <2>3. b \notin Elems(h.big[c])
    BY <2>1, BigIsFree
  <2>4. /\ l \in Seq(Block) /\ Elems(l) = Elems(h.big[c]) \cup {b}
        /\ Distinct(l) /\ l # <<>>
    BY <2>2, <2>3, ConsElems
  <2>5. ~ (b.size <= SmallMax)
    BY <1>2, AllocAssumption DEF Block
  <2>6. g = [h EXCEPT !.big[c] = l, !.bits = @ \cup {c}]
    BY <2>5 DEF PushFree
  <2> HIDE DEF c, l, g
  <2>7. /\ g \in HeapType /\ SamePointers(g, h) /\ g.small = h.small
        /\ g.bits = h.bits \cup {c}
        /\ g.big = [h.big EXCEPT ![c] = l]
    BY <2>1, <2>4, <2>6 DEF Sorted, HeapType, SamePointers
  <2>8. \A x \in Elems(l) : x.size > SmallMax /\ BigClass(x.size) = c
    BY <1>2, <2>2, <2>4 DEF c
  <2>9. g.bits = IF l = <<>> THEN h.bits \ {c} ELSE h.bits \cup {c}
    BY <2>4, <2>7
  <2>10. Refiles(g, h, (FreeIn(h) \ Elems(h.big[c])) \cup Elems(l))
    BY <2>1, <2>4, <2>7, <2>8, <2>9, BigReplaced
  <2>11. (FreeIn(h) \ Elems(h.big[c])) \cup Elems(l) = FreeIn(h) \cup {b}
    BY <2>1, <2>4, BigIsFree
  <2> QED BY <2>10, <2>11 DEF g
<1> QED BY <1>1, <1>2, AllocAssumption DEF Block

(* Taking the block at one position of a class off its list, with the bit  *)
(* brought up to date, removes that block from the free ones.              *)
LEMMA ClassLoses ==
  ASSUME NEW h, Sorted(h), NEW c \in Classes, NEW b \in Elems(h.big[c]),
         NEW l \in Seq(Block), Distinct(l), Elems(l) = Elems(h.big[c]) \ {b}
  PROVE  Refiles(ClearBit([h EXCEPT !.big[c] = l], c), h, FreeIn(h) \ {b})
<1> DEFINE f == [h EXCEPT !.big[c] = l]
           g == ClearBit(f, c)
<1>1. /\ h \in HeapType /\ h.big \in [Classes -> Seq(Block)]
      /\ c \in h.bits
      /\ \A x \in Elems(h.big[c]) : x.size > SmallMax /\ BigClass(x.size) = c
  <2>1. h.big[c] # <<>>
    BY ElemsType DEF Sorted, HeapType
  <2> QED BY <2>1 DEF Sorted, HeapType
<1>2. /\ f \in HeapType /\ SamePointers(f, h) /\ f.small = h.small
      /\ f.bits = h.bits
      /\ f.big = [h.big EXCEPT ![c] = l] /\ f.big[c] = l
  BY <1>1 DEF HeapType, SamePointers
<1> HIDE DEF f
<1>3. g = IF l = <<>> THEN [f EXCEPT !.bits = @ \ {c}] ELSE f
  BY <1>2 DEF ClearBit
<1>4. /\ g \in HeapType /\ SamePointers(g, h) /\ g.small = h.small
      /\ g.bits = IF l = <<>> THEN h.bits \ {c} ELSE h.bits \cup {c}
      /\ g.big = [h.big EXCEPT ![c] = l]
  <2>1. CASE l = <<>>
    BY <1>2, <1>3, <2>1 DEF HeapType, SamePointers
  <2>2. CASE l # <<>>
    BY <1>1, <1>2, <1>3, <2>2 DEF HeapType, SamePointers
  <2> QED BY <2>1, <2>2
<1> HIDE DEF g
<1>5. Refiles(g, h, (FreeIn(h) \ Elems(h.big[c])) \cup Elems(l))
  BY <1>1, <1>4, BigReplaced
<1>6. (FreeIn(h) \ Elems(h.big[c])) \cup Elems(l) = FreeIn(h) \ {b}
  BY BigIsFree
<1> QED BY <1>5, <1>6 DEF g, f

(* pop_big takes the first block of a class that is not empty.             *)
LEMMA PopBigTakes ==
  ASSUME NEW h, Sorted(h), NEW c \in h.bits
  PROVE  LET b == Head(h.big[c])
         IN /\ b \in FreeIn(h) /\ b.size > SmallMax /\ BigClass(b.size) = c
            /\ Refiles(PopBig(h, c), h, FreeIn(h) \ {b})
<1>1. /\ c \in Classes /\ h.big[c] # <<>> /\ h.big[c] \in Seq(Block)
      /\ Distinct(h.big[c])
      /\ \A x \in Elems(h.big[c]) : x.size > SmallMax /\ BigClass(x.size) = c
  BY DEF Sorted, HeapType
<1> DEFINE b == Head(h.big[c])
           l == Tail(h.big[c])
<1>2. /\ b \in Elems(h.big[c]) /\ l \in Seq(Block)
      /\ Elems(l) = Elems(h.big[c]) \ {b}
      /\ Distinct(l)
  BY <1>1, TailElems
<1>3. PopBig(h, c) = ClearBit([h EXCEPT !.big[c] = l], c)
  BY DEF PopBig
<1> HIDE DEF l, b
<1>4. Refiles(ClearBit([h EXCEPT !.big[c] = l], c), h, FreeIn(h) \ {b})
  BY <1>1, <1>2, ClassLoses, Zenon
<1> QED BY <1>1, <1>2, <1>3, <1>4, BigIsFree DEF b

(* first_nonempty_class finds a class with a bit, from the given one on.   *)
LEMMA FirstNonemptyFound ==
  ASSUME NEW h, Sorted(h), NEW c \in Nat, NonemptyFrom(h, c) # {}
  PROVE  FirstNonempty(h, c) \in h.bits /\ FirstNonempty(h, c) >= c
<1>1. NonemptyFrom(h, c) \in SUBSET Nat
  BY ClassesType DEF NonemptyFrom, Sorted, HeapType
<1>2. \E k \in NonemptyFrom(h, c) : \A j \in NonemptyFrom(h, c) : k <= j
  BY <1>1, LeastElement
<1>3. FirstNonempty(h, c) \in NonemptyFrom(h, c)
  BY <1>2 DEF FirstNonempty
<1> QED BY <1>3 DEF NonemptyFrom

-----------------------------------------------------------------------------
Apart(S) == \A x, y \in S : x # y => Span(x) \cap Span(y) = {}

(* Where the words are: blocks in use U and free F, the unused part of the *)
(* chunk from p to e, m words from malloc of which z are abandoned.        *)
Layout(U, F, p, e, m, z) ==
  /\ U \subseteq Block /\ F \subseteq Block
  /\ \A x \in U \cup F : x.size >= 1
  /\ U \cap F = {} /\ Apart(U \cup F)
  /\ \A x \in U \cup F : Span(x) \cap (p .. e - 1) = {} /\ Span(x) \subseteq 0 .. m - 1
  /\ p \in Nat /\ e \in Nat /\ m \in Nat /\ z \in Nat /\ p <= e /\ e <= m
  /\ m = Words(U) + Words(F) + (e - p) + z

Cover(S) == UNION {Span(b) : b \in S}

(* A block covers as many words as it is long.                             *)
LEMMA SpanSize ==
  ASSUME NEW b \in Block
  PROVE  IsFiniteSet(Span(b)) /\ Cardinality(Span(b)) = b.size
<1>1. b.at \in Nat /\ b.size \in Nat
  BY DEF Block
<1> DEFINE lo == b.at
           hi == b.at + b.size - 1
<1>2. lo \in Int /\ hi \in Int
  BY <1>1
<1> HIDE DEF lo, hi
<1>3. /\ IsFiniteSet(lo .. hi)
      /\ Cardinality(lo .. hi) = IF lo > hi THEN 0 ELSE hi - lo + 1
  BY <1>2, FS_Interval
<1> QED BY <1>1, <1>3 DEF Span, lo, hi

(* The words of a set of blocks are those it covers.                       *)
LEMMA WordsCover ==
  ASSUME NEW S
  PROVE  Words(S) = Cardinality(Cover(S))
  BY DEF Words, Cover

(* A block apart from all others adds its length to the words covered.     *)
LEMMA WordsAdd ==
  ASSUME NEW S, NEW m \in Nat, \A x \in S : Span(x) \subseteq 0 .. m - 1,
         NEW b \in Block, \A x \in S : Span(x) \cap Span(b) = {}
  PROVE  Words(S) \in Nat /\ Words(S \cup {b}) = Words(S) + b.size
<1>1. IsFiniteSet(0 .. m - 1)
  BY FS_Interval
<1>2. Cover(S) \in SUBSET (0 .. m - 1)
  BY DEF Cover
<1>3. IsFiniteSet(Cover(S)) /\ Cardinality(Cover(S)) \in Nat
  BY <1>1, <1>2, FS_Subset, FS_CardinalityType
<1>4. IsFiniteSet(Span(b)) /\ Cardinality(Span(b)) = b.size
  BY SpanSize
<1>5. Cover(S \cup {b}) = Cover(S) \cup Span(b)
  BY DEF Cover
<1>6. Cover(S) \cap Span(b) = {}
  BY DEF Cover
<1>7. Cardinality(Cover(S) \cup Span(b))
        = Cardinality(Cover(S)) + Cardinality(Span(b)) - 0
  BY <1>3, <1>4, <1>6, FS_Union, FS_EmptySet
<1>8. b.size \in Nat
  BY DEF Block
<1>9. /\ Words(S) = Cardinality(Cover(S))
      /\ Words(S \cup {b}) = Cardinality(Cover(S \cup {b}))
  BY WordsCover
<1>10. Words(S \cup {b}) = Cardinality(Cover(S) \cup Span(b))
  BY <1>5, <1>9, Zenon
<1> HIDE DEF Cover
<1> QED BY <1>3, <1>4, <1>7, <1>8, <1>9, <1>10

(* A block among blocks that are apart takes its length with it.           *)
LEMMA WordsRemove ==
  ASSUME NEW S, NEW m \in Nat, \A x \in S : Span(x) \subseteq 0 .. m - 1,
         Apart(S), NEW b \in S, b \in Block
  PROVE  Words(S \ {b}) \in Nat /\ Words(S) = Words(S \ {b}) + b.size
<1>1. \A x \in S \ {b} : Span(x) \cap Span(b) = {}
  BY DEF Apart
<1>2. \A x \in S \ {b} : Span(x) \subseteq 0 .. m - 1
  OBVIOUS
<1>3. /\ Words(S \ {b}) \in Nat
      /\ Words((S \ {b}) \cup {b}) = Words(S \ {b}) + b.size
  BY <1>1, <1>2, WordsAdd
<1>4. (S \ {b}) \cup {b} = S
  OBVIOUS
<1> QED BY <1>3, <1>4

(* Blocks inside a memory of m words cover a number of words.              *)
LEMMA WordsType ==
  ASSUME NEW S, NEW m \in Nat, \A x \in S : Span(x) \subseteq 0 .. m - 1
  PROVE  Words(S) \in Nat
<1>1. IsFiniteSet(0 .. m - 1)
  BY FS_Interval
<1>2. Cover(S) \in SUBSET (0 .. m - 1)
  BY DEF Cover
<1> QED BY <1>1, <1>2, FS_Subset, FS_CardinalityType, WordsCover

(* The number of words of both parts of a layout.                          *)
LEMMA LayoutWords ==
  ASSUME NEW U, NEW F, NEW p, NEW e, NEW m, NEW z, Layout(U, F, p, e, m, z)
  PROVE  Words(U) \in Nat /\ Words(F) \in Nat
  BY WordsType DEF Layout

(* A free block is put to use.                                             *)
LEMMA LayoutTake ==
  ASSUME NEW U, NEW F, NEW p, NEW e, NEW m, NEW z, Layout(U, F, p, e, m, z),
         NEW b \in F
  PROVE  Layout(U \cup {b}, F \ {b}, p, e, m, z)
<1>1. b \in Block /\ b.size \in Nat
  BY DEF Layout, Block
<1>2. Words(F \ {b}) \in Nat /\ Words(F) = Words(F \ {b}) + b.size
  BY WordsRemove DEF Layout, Apart
<1>3. Words(U) \in Nat /\ Words(U \cup {b}) = Words(U) + b.size
  <2>1. \A x \in U : Span(x) \cap Span(b) = {} /\ Span(x) \subseteq 0 .. m - 1
    BY DEF Layout, Apart
  <2> QED BY <1>1, <2>1, WordsAdd DEF Layout
<1>4. (U \cup {b}) \cup (F \ {b}) = U \cup F
  OBVIOUS
<1>5. (U \cup {b}) \cap (F \ {b}) = {}
  BY DEF Layout
<1>6. m = Words(U \cup {b}) + Words(F \ {b}) + (e - p) + z
  BY <1>1, <1>2, <1>3 DEF Layout
<1> QED BY <1>1, <1>4, <1>5, <1>6 DEF Layout

(* A block in use becomes free.                                            *)
LEMMA LayoutFree ==
  ASSUME NEW U, NEW F, NEW p, NEW e, NEW m, NEW z, Layout(U, F, p, e, m, z),
         NEW b \in U
  PROVE  Layout(U \ {b}, F \cup {b}, p, e, m, z)
<1>1. b \in Block /\ b.size \in Nat
  BY DEF Layout, Block
<1>2. Words(U \ {b}) \in Nat /\ Words(U) = Words(U \ {b}) + b.size
  BY WordsRemove DEF Layout, Apart
<1>3. Words(F) \in Nat /\ Words(F \cup {b}) = Words(F) + b.size
  <2>1. \A x \in F : Span(x) \cap Span(b) = {} /\ Span(x) \subseteq 0 .. m - 1
    BY DEF Layout, Apart
  <2> QED BY <1>1, <2>1, WordsAdd DEF Layout
<1>4. (U \ {b}) \cup (F \cup {b}) = U \cup F
  OBVIOUS
<1>5. (U \ {b}) \cap (F \cup {b}) = {}
  BY DEF Layout
<1>6. m = Words(U \ {b}) + Words(F \cup {b}) + (e - p) + z
  BY <1>1, <1>2, <1>3 DEF Layout
<1> QED BY <1>1, <1>4, <1>5, <1>6 DEF Layout

(* A free block is abandoned.                                              *)
LEMMA LayoutLose ==
  ASSUME NEW U, NEW F, NEW p, NEW e, NEW m, NEW z, Layout(U, F, p, e, m, z),
         NEW b \in F
  PROVE  Layout(U, F \ {b}, p, e, m, z + b.size)
<1>1. b \in Block /\ b.size \in Nat
  BY DEF Layout, Block
<1>2. Words(F \ {b}) \in Nat /\ Words(F) = Words(F \ {b}) + b.size
  BY WordsRemove DEF Layout, Apart
<1>3. m = Words(U) + Words(F \ {b}) + (e - p) + (z + b.size)
  <2>1. Words(U) \in Nat /\ Words(F) \in Nat
    BY LayoutWords
  <2> QED BY <1>1, <1>2, <2>1 DEF Layout
<1>4. U \cup (F \ {b}) \subseteq U \cup F /\ U \cap (F \ {b}) = {}
  BY DEF Layout
<1>5. Apart(U \cup (F \ {b}))
  BY <1>4 DEF Layout, Apart
<1> QED BY <1>1, <1>3, <1>4, <1>5 DEF Layout

(* A free block is split in two.                                           *)
LEMMA LayoutSplit ==
  ASSUME NEW U, NEW F, NEW p, NEW e, NEW m, NEW z, Layout(U, F, p, e, m, z),
         NEW b \in F, NEW n \in Nat, n >= 1, n < b.size
  PROVE  LET x == Blk(b.at, n)
             y == Blk(b.at + n, b.size - n)
         IN /\ Layout(U, ((F \ {b}) \cup {x}) \cup {y}, p, e, m, z)
            /\ x # y /\ x \notin U \cup (F \ {b}) /\ y \notin U \cup (F \ {b})
<1> DEFINE x == Blk(b.at, n)
           y == Blk(b.at + n, b.size - n)
           G == F \ {b}
<1>1. b \in Block /\ b.size \in Nat /\ b.at \in Nat
  BY DEF Layout, Block
<1>2. /\ x \in Block /\ x.at = b.at /\ x.size = n
      /\ y \in Block /\ y.at = b.at + n /\ y.size = b.size - n
      /\ x.size >= 1 /\ y.size >= 1 /\ y.size \in Nat
  BY <1>1 DEF Block, Blk
<1> HIDE DEF x, y
<1>3. /\ Span(b) = Span(x) \cup Span(y) /\ Span(x) \cap Span(y) = {}
      /\ Span(x) # {} /\ Span(y) # {}
  <2>1. /\ Span(b) = b.at .. b.at + b.size - 1
        /\ Span(x) = b.at .. b.at + n - 1
        /\ Span(y) = b.at + n .. b.at + b.size - 1
    BY <1>1, <1>2 DEF Span
  <2>2. b.at \in Span(x) /\ b.at + n \in Span(y)
    BY <1>1, <2>1
  <2>3. Span(x) \cap Span(y) = {}
    BY <1>1, <2>1
  <2>4. Span(b) = Span(x) \cup Span(y)
    BY <1>1, <2>1
  <2> QED BY <2>2, <2>3, <2>4
<1>4. \A w \in U \cup G : Span(w) \cap Span(b) = {}
  BY DEF Layout, Apart
<1>5. x \notin U \cup G /\ y \notin U \cup G /\ x # y
  BY <1>3, <1>4
<1>6. \A w \in U \cup F : Span(w) \subseteq 0 .. m - 1 /\ Span(w) \cap (p .. e - 1) = {}
  BY DEF Layout
<1>7. m \in Nat
  BY DEF Layout
<1>8. Words(G) \in Nat /\ Words(F) = Words(G) + b.size
  BY <1>1, WordsRemove DEF Layout, Apart
<1>9. Words(G \cup {x}) = Words(G) + x.size
  BY <1>2, <1>3, <1>4, <1>6, <1>7, WordsAdd
<1>10. Words((G \cup {x}) \cup {y}) = Words(G \cup {x}) + y.size
  <2>1. \A w \in G \cup {x} : Span(w) \subseteq 0 .. m - 1 /\ Span(w) \cap Span(y) = {}
    BY <1>3, <1>4, <1>6
  <2> QED BY <1>2, <1>7, <2>1, WordsAdd
<1>11. Words((G \cup {x}) \cup {y}) = Words(F)
  BY <1>1, <1>2, <1>8, <1>9, <1>10
<1>12. Apart(U \cup ((G \cup {x}) \cup {y}))
  <2>1. Apart(U \cup G)
    BY DEF Layout, Apart
  <2> QED BY <1>3, <1>4, <2>1 DEF Apart
<1>13. \A w \in U \cup ((G \cup {x}) \cup {y}) :
          /\ w.size >= 1 /\ Span(w) \subseteq 0 .. m - 1
          /\ Span(w) \cap (p .. e - 1) = {}
  <2>1. \A w \in U \cup F : w.size >= 1
    BY DEF Layout
  <2>2. Span(x) \subseteq Span(b) /\ Span(y) \subseteq Span(b)
    BY <1>3
  <2>3. Span(b) \subseteq 0 .. m - 1 /\ Span(b) \cap (p .. e - 1) = {}
    BY <1>6
  <2> QED BY <1>2, <1>6, <2>1, <2>2, <2>3
<1>14. U \cap ((G \cup {x}) \cup {y}) = {} /\ (G \cup {x}) \cup {y} \subseteq Block
  BY <1>2, <1>5 DEF Layout
<1>15. Layout(U, (G \cup {x}) \cup {y}, p, e, m, z)
  BY <1>11, <1>12, <1>13, <1>14 DEF Layout
<1> QED BY <1>5, <1>15 DEF x, y

(* The first words of the unused part of the chunk become a free block.    *)
LEMMA LayoutBump ==
  ASSUME NEW U, NEW F, NEW p, NEW e, NEW m, NEW z, Layout(U, F, p, e, m, z),
         NEW n \in Nat, n >= 1, n <= e - p
  PROVE  /\ Layout(U, F \cup {Blk(p, n)}, p + n, e, m, z)
         /\ Blk(p, n) \notin U \cup F /\ Blk(p, n) \in Block
<1> DEFINE x == Blk(p, n)
<1>1. p \in Nat /\ e \in Nat /\ m \in Nat /\ z \in Nat /\ p <= e /\ e <= m
  BY DEF Layout
<1>2. x \in Block /\ x.at = p /\ x.size = n
  BY <1>1 DEF Block, Blk
<1> HIDE DEF x
<1>3. /\ Span(x) = p .. p + n - 1 /\ p \in Span(x)
      /\ Span(x) \subseteq p .. e - 1 /\ Span(x) \subseteq 0 .. m - 1
      /\ Span(x) \cap (p + n .. e - 1) = {}
      /\ p + n .. e - 1 \subseteq p .. e - 1
  <2>1. Span(x) = p .. p + n - 1
    BY <1>2 DEF Span
  <2> QED BY <1>1, <2>1
<1>4. \A w \in U \cup F : /\ Span(w) \cap (p .. e - 1) = {}
                          /\ Span(w) \subseteq 0 .. m - 1 /\ w.size >= 1
  BY DEF Layout
<1>5. \A w \in U \cup F : Span(w) \cap Span(x) = {}
  BY <1>3, <1>4
<1>6. x \notin U \cup F
  BY <1>3, <1>5
<1>7. Words(F) \in Nat /\ Words(F \cup {x}) = Words(F) + n
  BY <1>1, <1>2, <1>4, <1>5, WordsAdd
<1>8. Words(U) \in Nat
  BY LayoutWords
<1>9. m = Words(U) + Words(F \cup {x}) + (e - (p + n)) + z
  BY <1>1, <1>7, <1>8 DEF Layout
<1>10. Apart(U \cup (F \cup {x}))
  BY <1>5 DEF Layout, Apart
<1>11. \A w \in U \cup (F \cup {x}) :
          /\ w.size >= 1 /\ Span(w) \subseteq 0 .. m - 1
          /\ Span(w) \cap (p + n .. e - 1) = {}
  BY <1>2, <1>3, <1>4
<1>12. U \cap (F \cup {x}) = {} /\ F \cup {x} \subseteq Block
  BY <1>2, <1>6 DEF Layout
<1>13. Layout(U, F \cup {x}, p + n, e, m, z)
  BY <1>1, <1>9, <1>10, <1>11, <1>12 DEF Layout
<1> QED BY <1>2, <1>6, <1>13 DEF x

(* What is left of the chunk is abandoned.                                 *)
LEMMA LayoutAbandon ==
  ASSUME NEW U, NEW F, NEW p, NEW e, NEW m, NEW z, Layout(U, F, p, e, m, z)
  PROVE  Layout(U, F, e, e, m, z + (e - p))
<1>1. p \in Nat /\ e \in Nat /\ m \in Nat /\ z \in Nat /\ p <= e /\ e <= m
  BY DEF Layout
<1>2. e .. e - 1 = {}
  BY <1>1
<1>3. Words(U) \in Nat /\ Words(F) \in Nat
  BY LayoutWords
<1>4. m = Words(U) + Words(F) + (e - e) + (z + (e - p))
  BY <1>1, <1>3 DEF Layout
<1>5. z + (e - p) \in Nat
  BY <1>1
<1> QED BY <1>1, <1>2, <1>4, <1>5 DEF Layout

(* malloc gives a new chunk when the old one is used up.                   *)
LEMMA LayoutGrow ==
  ASSUME NEW U, NEW F, NEW e, NEW m, NEW z, Layout(U, F, e, e, m, z),
         NEW k \in Nat
  PROVE  Layout(U, F, m, m + k, m + k, z)
<1>1. e \in Nat /\ m \in Nat /\ z \in Nat
  BY DEF Layout
<1>2. Words(U) \in Nat /\ Words(F) \in Nat
  BY LayoutWords
<1>3. m + k = Words(U) + Words(F) + ((m + k) - m) + z
  BY <1>1, <1>2 DEF Layout
<1>4. \A w \in U \cup F : Span(w) \subseteq 0 .. m - 1
  BY DEF Layout
<1>5. 0 .. m - 1 \subseteq 0 .. (m + k) - 1 /\ (0 .. m - 1) \cap (m .. (m + k) - 1) = {}
  BY <1>1
<1>6. \A w \in U \cup F : /\ Span(w) \cap (m .. (m + k) - 1) = {}
                          /\ Span(w) \subseteq 0 .. (m + k) - 1
  BY <1>4, <1>5
<1>7. m + k \in Nat /\ m <= m + k
  BY <1>1
<1> QED BY <1>1, <1>3, <1>6, <1>7 DEF Layout

-----------------------------------------------------------------------------
(* A block lies below the end of memory.                                   *)
LEMMA BlockBelow ==
  ASSUME NEW U, NEW F, NEW p, NEW e, NEW m, NEW z, Layout(U, F, p, e, m, z),
         NEW b \in U \cup F
  PROVE  /\ b \in Block /\ b.at \in Nat /\ b.size \in Nat /\ m \in Nat
         /\ b.size >= 1 /\ b.at + b.size <= m
<1>1. b.at \in Nat /\ b.size \in Nat /\ b.size >= 1 /\ m \in Nat /\ b \in Block
  BY DEF Layout, Block
<1>2. Span(b) \subseteq 0 .. m - 1
  BY DEF Layout
<1>3. b.at + b.size - 1 \in Span(b)
  BY <1>1 DEF Span
<1> QED BY <1>1, <1>2, <1>3

(* The block at a, n words long, was taken from the heap: it is in use,    *)
(* the rest of memory is laid out as before.                               *)
Serves(g, U, m, a, n) ==
  /\ Sorted(g)
  /\ Blk(a, n) \notin U
  /\ Layout(U \cup {Blk(a, n)}, FreeIn(g), g.bump, g.end, m, g.lost)

(* carve serves a request from a free block that is long enough.           *)
LEMMA CarveServes ==
  ASSUME NEW h, NEW U, NEW m, m <= MemWords,
         Layout(U, FreeIn(h), h.bump, h.end, m, h.lost),
         NEW b \in FreeIn(h), NEW n \in Nat, n >= 1, n <= b.size,
         NEW f, Refiles(f, h, FreeIn(h) \ {b})
  PROVE  Serves(Carve(f, b, n), U, m, b.at, n)
<1> DEFINE g == Carve(f, b, n)
           F == FreeIn(h)
           x == Blk(b.at, n)
           y == Blk(b.at + n, b.size - n)
<1>1. /\ b \in Block /\ b.at \in Nat /\ b.size \in Nat /\ m \in Nat
      /\ b.size <= m /\ b.size <= MemWords
  BY BlockBelow, AllocAssumption
<1>2. /\ Sorted(f) /\ f.bump = h.bump /\ f.end = h.end /\ f.lost = h.lost
      /\ FreeIn(f) = F \ {b} /\ f \in HeapType /\ f.lost \in Nat
  BY DEF Refiles, SamePointers, Sorted, HeapType
<1>3. ASSUME NEW k \in Nat
      PROVE  LET d == [f EXCEPT !.lost = @ + k]
             IN /\ Sorted(d) /\ FreeIn(d) = FreeIn(f)
                /\ d.bump = f.bump /\ d.end = f.end /\ d.lost = f.lost + k
  <2> DEFINE d == [f EXCEPT !.lost = @ + k]
  <2>1. /\ d \in HeapType /\ d.small = f.small /\ d.big = f.big
        /\ d.bits = f.bits
        /\ d.bump = f.bump /\ d.end = f.end /\ d.lost = f.lost + k
    <3>1. PICK v \in Nat : v = f.lost + k
      BY <1>2
    <3>2. d = [f EXCEPT !.lost = v]
      BY <3>1
    <3> HIDE DEF d
    <3>3. /\ d \in HeapType /\ d.small = f.small /\ d.big = f.big
          /\ d.bits = f.bits
          /\ d.bump = f.bump /\ d.end = f.end /\ d.lost = v
      BY <1>2, <3>2 DEF HeapType
    <3> QED BY <3>1, <3>3
  <2> HIDE DEF d
  <2>2. Sorted(d) /\ FreeIn(d) = FreeIn(f)
    BY <1>2, <2>1, SameLists
  <2> QED BY <2>1, <2>2 DEF d
<1>4. CASE n = b.size
  <2>1. x = b
    BY <1>1, <1>4 DEF Block, Blk
  <2>2. g = [f EXCEPT !.lost = @ + 0]
    BY <1>1, <1>4 DEF Carve
  <2> HIDE DEF g, F, x, y
  <2>3. /\ Sorted(g) /\ FreeIn(g) = F \ {b} /\ g.bump = h.bump
        /\ g.end = h.end /\ g.lost = h.lost
    BY <1>2, <1>3, <2>2
  <2>4. Layout(U \cup {b}, F \ {b}, h.bump, h.end, m, h.lost)
    BY LayoutTake DEF F
  <2>5. b \notin U
    BY DEF Layout
  <2> QED BY <2>1, <2>3, <2>4, <2>5 DEF Serves, g, x
<1>5. CASE n < b.size
  <2> HIDE DEF F, x, y
  <2>1. /\ Layout(U, ((F \ {b}) \cup {x}) \cup {y}, h.bump, h.end, m, h.lost)
        /\ x # y /\ x \notin U \cup (F \ {b}) /\ y \notin U \cup (F \ {b})
    BY <1>5, LayoutSplit DEF F, x, y
  <2>2. Layout(U \cup {x}, (((F \ {b}) \cup {x}) \cup {y}) \ {x},
               h.bump, h.end, m, h.lost)
    BY <2>1, LayoutTake
  <2>3. (((F \ {b}) \cup {x}) \cup {y}) \ {x} = (F \ {b}) \cup {y}
    BY <2>1
  <2>4. Layout(U \cup {x}, (F \ {b}) \cup {y}, h.bump, h.end, m, h.lost)
    BY <2>2, <2>3
  <2>5. y \in Block /\ y.size = b.size - n
    BY <1>1, <1>5 DEF Block, Blk, y
  <2>6. CASE b.size - n < 2
    <3>1. b.size - n = 1 /\ ~ (b.size - n >= 2)
      BY <1>1, <1>5, <2>6
    <3>2. g = [f EXCEPT !.lost = @ + 1]
      BY <3>1 DEF Carve
    <3> HIDE DEF g
    <3>3. /\ Sorted(g) /\ FreeIn(g) = F \ {b} /\ g.bump = h.bump
          /\ g.end = h.end /\ g.lost = h.lost + 1
      BY <1>2, <1>3, <3>2
    <3>4. Layout(U \cup {x}, ((F \ {b}) \cup {y}) \ {y},
                 h.bump, h.end, m, h.lost + 1)
      BY <2>4, <2>5, <3>1, LayoutLose
    <3>5. ((F \ {b}) \cup {y}) \ {y} = F \ {b}
      BY <2>1
    <3> QED BY <2>1, <3>3, <3>4, <3>5 DEF Serves, g, x
  <2>7. CASE b.size - n >= 2
    <3>1. g = PushFree(f, y)
      BY <2>7 DEF Carve, y
    <3> HIDE DEF g
    <3>2. y.size >= 2 /\ y.size <= MemWords
      BY <1>1, <2>5, <2>7, AllocAssumption
    <3>3. y \notin FreeIn(f)
      BY <1>2, <2>1
    <3>4. Refiles(g, f, FreeIn(f) \cup {y})
      BY <1>2, <2>5, <3>1, <3>2, <3>3, PushFreeAdds
    <3>5. /\ Sorted(g) /\ FreeIn(g) = (F \ {b}) \cup {y} /\ g.bump = h.bump
          /\ g.end = h.end /\ g.lost = h.lost
      BY <1>2, <3>4 DEF Refiles, SamePointers
    <3> QED BY <2>1, <2>4, <3>5 DEF Serves, g, x
  <2> QED BY <1>1, <2>6, <2>7
<1> QED BY <1>1, <1>4, <1>5

(* A request served by the first block of the first class that is not      *)
(* empty, from a class on whose blocks are all long enough.                *)
LEMMA NibbleServes ==
  ASSUME NEW h, Sorted(h), NEW U, brk <= MemWords,
         Layout(U, FreeIn(h), h.bump, h.end, brk, h.lost),
         NEW n \in Nat, n >= 1, NEW c \in Nat, NonemptyFrom(h, c) # {},
         \A b \in FreeIn(h) : b.size > SmallMax /\ BigClass(b.size) >= c
                                => n <= b.size
  PROVE  /\ Serves(Nibble(h, c, n).heap, U, brk, Nibble(h, c, n).at, n)
         /\ Nibble(h, c, n).brk = brk
<1> DEFINE k == FirstNonempty(h, c)
           b == Head(h.big[k])
<1>1. k \in h.bits /\ k >= c
  BY FirstNonemptyFound
<1>2. /\ b \in FreeIn(h) /\ b.size > SmallMax /\ BigClass(b.size) = k
      /\ Refiles(PopBig(h, k), h, FreeIn(h) \ {b})
  BY <1>1, PopBigTakes
<1>3. n <= b.size
  BY <1>1, <1>2
<1>4. /\ Nibble(h, c, n).heap = Carve(PopBig(h, k), b, n)
      /\ Nibble(h, c, n).at = b.at /\ Nibble(h, c, n).brk = brk
  BY DEF Nibble, Found
<1> HIDE DEF k, b
<1>5. Serves(Carve(PopBig(h, k), b, n), U, brk, b.at, n)
  BY <1>2, <1>3, CarveServes
<1> QED BY <1>4, <1>5

(* A big request served by a block of its own class.                       *)
LEMMA FirstFitServes ==
  ASSUME NEW h, Sorted(h), NEW U, brk <= MemWords,
         Layout(U, FreeIn(h), h.bump, h.end, brk, h.lost),
         NEW n \in Nat, n > SmallMax, n <= MemWords, Fits(h, n) # {}
  PROVE  /\ Serves(FirstFit(h, n).heap, U, brk, FirstFit(h, n).at, n)
         /\ FirstFit(h, n).brk = brk
<1> DEFINE c == BigClass(n)
           i == CHOOSE i \in Fits(h, n) : \A j \in Fits(h, n) : i <= j
           b == h.big[c][i]
           l == Without(h.big[c], i)
<1>1. c \in Classes
  BY ClassInRange
<1>2. /\ h.big[c] \in Seq(Block) /\ Distinct(h.big[c])
      /\ DOMAIN h.big[c] \subseteq Nat
  BY <1>1 DEF Sorted, HeapType
<1>3. Fits(h, n) \in SUBSET Nat
  BY <1>2 DEF Fits
<1>4. \E k \in Fits(h, n) : \A j \in Fits(h, n) : k <= j
  BY <1>3, LeastElement
<1>5. i \in Fits(h, n)
  BY <1>4
<1>6. /\ FirstFit(h, n).heap = Carve(ClearBit([h EXCEPT !.big[c] = l], c), b, n)
      /\ FirstFit(h, n).at = b.at /\ FirstFit(h, n).brk = brk
  BY DEF FirstFit, Found
<1>7. i \in DOMAIN h.big[c] /\ n <= b.size
  BY <1>5 DEF Fits
<1>8. b \in Elems(h.big[c])
  BY <1>7 DEF Elems
<1>9. l \in Seq(Block) /\ Elems(l) = Elems(h.big[c]) \ {b} /\ Distinct(l)
  <2> HIDE DEF c, i
  <2> QED BY <1>2, <1>7, WithoutElems
<1> HIDE DEF c, i, b, l
<1>10. Refiles(ClearBit([h EXCEPT !.big[c] = l], c), h, FreeIn(h) \ {b})
  BY <1>1, <1>8, <1>9, ClassLoses, Zenon
<1>11. b \in FreeIn(h) /\ n >= 1
  BY <1>1, <1>8, BigIsFree, AllocAssumption
<1>12. Serves(Carve(ClearBit([h EXCEPT !.big[c] = l], c), b, n), U, brk, b.at, n)
  BY <1>7, <1>10, <1>11, CarveServes
<1> QED BY <1>6, <1>12

(* A request for which no chunk word is missing, and one that grows.       *)
LEMMA BumpServes ==
  ASSUME NEW h, Sorted(h), NEW U, brk <= MemWords,
         Layout(U, FreeIn(h), h.bump, h.end, brk, h.lost),
         NEW n \in Nat, n >= 2
  PROVE  LET r == BumpAlloc(h, n)
         IN r.brk \in Nat /\ Serves(r.heap, U, r.brk, r.at, n)
<1> DEFINE grow == Avail(h) < n
           g == IF grow THEN NewChunk(h, n) ELSE h
           m == IF grow THEN brk + ChunkFor(n) ELSE brk
           x == Blk(g.bump, n)
<1>1. /\ h.bump \in Nat /\ h.end \in Nat /\ brk \in Nat /\ h.lost \in Nat
      /\ h.bump <= h.end /\ h.end <= brk
  BY DEF Layout
<1>2. ChunkFor(n) \in Nat /\ ChunkFor(n) >= n
  BY AllocAssumption DEF ChunkFor
<1>3. /\ Sorted(g) /\ m \in Nat /\ n <= g.end - g.bump
      /\ Layout(U, FreeIn(g), g.bump, g.end, m, g.lost)
  <2>1. CASE ~ grow
    <3>1. g = h /\ m = brk
      BY <2>1
    <3>2. n <= h.end - h.bump
      BY <1>1, <2>1 DEF Avail
    <3> QED BY <1>1, <3>1, <3>2
  <2>2. CASE grow
    <3> DEFINE a == Avail(h)
               t == IF a >= 2 THEN PushFree(h, Blk(h.bump, a))
                    ELSE [h EXCEPT !.lost = @ + a]
    <3>1. a = h.end - h.bump /\ a \in Nat
      BY <1>1 DEF Avail
    <3>2. Sorted(t) /\ Layout(U, FreeIn(t), h.end, h.end, brk, t.lost)
      <4>1. CASE a >= 2
        <5> DEFINE y == Blk(h.bump, a)
        <5>1. /\ Layout(U, FreeIn(h) \cup {y}, h.bump + a, h.end, brk, h.lost)
              /\ y \notin U \cup FreeIn(h) /\ y \in Block
          <6> HIDE DEF a
          <6> QED BY <3>1, <4>1, LayoutBump
        <5>2. y.size = a /\ a <= MemWords
          BY <1>1, <3>1, AllocAssumption DEF Blk
        <5>3. t = PushFree(h, y)
          BY <4>1
        <5>4. h.bump + a = h.end
          BY <1>1, <3>1
        <5> HIDE DEF a, t, y
        <5>5. Refiles(t, h, FreeIn(h) \cup {y})
          BY <4>1, <5>1, <5>2, <5>3, PushFreeAdds
        <5>6. Sorted(t) /\ FreeIn(t) = FreeIn(h) \cup {y} /\ t.lost = h.lost
          BY <5>5 DEF Refiles, SamePointers
        <5> QED BY <5>1, <5>4, <5>6
      <4>2. CASE ~ (a >= 2)
        <5>1. PICK v \in Nat : v = h.lost + a
          BY <1>1, <3>1
        <5>2. t = [h EXCEPT !.lost = v]
          BY <4>2, <5>1
        <5> HIDE DEF t
        <5>3. /\ t \in HeapType /\ t.small = h.small /\ t.big = h.big
              /\ t.bits = h.bits /\ t.lost = v
          BY <5>2 DEF Sorted, HeapType
        <5>5. Sorted(t) /\ FreeIn(t) = FreeIn(h)
          BY <5>3, SameLists
        <5>4. Layout(U, FreeIn(h), h.end, h.end, brk, h.lost + (h.end - h.bump))
          BY LayoutAbandon
        <5> QED BY <3>1, <5>1, <5>3, <5>4, <5>5
      <4> QED BY <4>1, <4>2
    <3>3. m = brk + ChunkFor(n) /\ m \in Nat
      BY <1>1, <1>2, <2>2
    <3>4. g = [t EXCEPT !.bump = brk, !.end = m]
      BY <2>2 DEF NewChunk
    <3> HIDE DEF t, g, m
    <3>5. /\ Sorted(g) /\ FreeIn(g) = FreeIn(t)
          /\ g.bump = brk /\ g.end = m /\ g.lost = t.lost
      <4>1. /\ g \in HeapType /\ g.small = t.small /\ g.big = t.big
            /\ g.bits = t.bits
            /\ g.bump = brk /\ g.end = m /\ g.lost = t.lost
        BY <1>1, <3>2, <3>3, <3>4 DEF Sorted, HeapType
      <4> QED BY <3>2, <4>1, SameLists
    <3>6. Layout(U, FreeIn(t), brk, brk + ChunkFor(n), brk + ChunkFor(n), t.lost)
      BY <1>2, <3>2, LayoutGrow
    <3>7. n <= g.end - g.bump
      BY <1>1, <1>2, <3>3, <3>5
    <3> QED BY <3>2, <3>3, <3>5, <3>6, <3>7
  <2> QED BY <2>1, <2>2
<1>4. /\ BumpAlloc(h, n).heap = [g EXCEPT !.bump = @ + n]
      /\ BumpAlloc(h, n).at = g.bump /\ BumpAlloc(h, n).brk = m
  BY DEF BumpAlloc
<1> HIDE DEF g, m
<1>5. /\ Layout(U, FreeIn(g) \cup {x}, g.bump + n, g.end, m, g.lost)
      /\ x \notin U \cup FreeIn(g)
  <2>1. n >= 1
    OBVIOUS
  <2> QED BY <1>3, <2>1, LayoutBump
<1> HIDE DEF x
<1>6. Layout(U \cup {x}, (FreeIn(g) \cup {x}) \ {x}, g.bump + n, g.end, m, g.lost)
  BY <1>5, LayoutTake
<1>7. (FreeIn(g) \cup {x}) \ {x} = FreeIn(g)
  BY <1>5
<1>8. PICK p \in Nat : p = g.bump + n
  BY <1>3 DEF Layout
<1>9. PICK f : f = [g EXCEPT !.bump = g.bump + n]
  OBVIOUS
<1>10. /\ Sorted(f) /\ FreeIn(f) = FreeIn(g)
       /\ f.bump = g.bump + n /\ f.end = g.end /\ f.lost = g.lost
  <2>1. f = [g EXCEPT !.bump = p]
    BY <1>8, <1>9
  <2>2. /\ f \in HeapType /\ f.small = g.small /\ f.big = g.big
        /\ f.bits = g.bits /\ f.bump = p /\ f.end = g.end /\ f.lost = g.lost
    BY <1>3, <2>1 DEF Sorted, HeapType
  <2> QED BY <1>3, <1>8, <2>2, SameLists
<1>11. Serves(f, U, m, g.bump, n)
  BY <1>5, <1>6, <1>7, <1>10 DEF Serves, x
<1> QED BY <1>3, <1>4, <1>9, <1>11

(* The head of an exact list serves a small request.                       *)
LEMMA SmallServes ==
  ASSUME NEW h, Sorted(h), NEW U,
         Layout(U, FreeIn(h), h.bump, h.end, brk, h.lost),
         NEW n \in 2 .. SmallMax, h.small[n] # <<>>
  PROVE  LET g == [h EXCEPT !.small[n] = Tail(@)]
         IN Serves(g, U, brk, Head(h.small[n]).at, n)
<1> DEFINE b == Head(h.small[n])
           l == Tail(h.small[n])
           g == [h EXCEPT !.small[n] = l]
<1>1. /\ h.small[n] \in Seq(Block) /\ Distinct(h.small[n])
      /\ \A x \in Elems(h.small[n]) : x.size = n
  BY DEF Sorted, HeapType
<1>2. /\ b \in Elems(h.small[n]) /\ l \in Seq(Block)
      /\ Elems(l) = Elems(h.small[n]) \ {b} /\ Distinct(l)
  BY <1>1, TailElems
<1>3. \A x \in Elems(l) : x.size = n
  BY <1>1, <1>2
<1> HIDE DEF b, l
<1>4. Refiles(g, h, (FreeIn(h) \ Elems(h.small[n])) \cup Elems(l))
  BY <1>2, <1>3, SmallReplaced, Zenon
<1>5. b \in FreeIn(h)
  BY <1>2, SmallIsFree
<1>6. (FreeIn(h) \ Elems(h.small[n])) \cup Elems(l) = FreeIn(h) \ {b}
  BY <1>2, SmallIsFree
<1>7. Blk(b.at, n) = b /\ b \notin U
  <2>1. b.size = n /\ b \in Block
    BY <1>1, <1>2, ElemsType
  <2>2. b \notin U
    BY <1>5 DEF Layout
  <2> QED BY <2>1, <2>2 DEF Block, Blk
<1> HIDE DEF g
<1>8. /\ Sorted(g) /\ FreeIn(g) = FreeIn(h) \ {b}
      /\ g.bump = h.bump /\ g.end = h.end /\ g.lost = h.lost
  BY <1>4, <1>6 DEF Refiles, SamePointers
<1>9. Layout(U \cup {b}, FreeIn(h) \ {b}, h.bump, h.end, brk, h.lost)
  BY <1>5, LayoutTake
<1>10. Serves(g, U, brk, b.at, n)
  BY <1>7, <1>8, <1>9 DEF Serves
<1> QED BY <1>10 DEF g, b, l

(* dc_alloc_rc serves every request, in memory that malloc gave.           *)
LEMMA AllocServes ==
  ASSUME NEW h, Sorted(h), NEW U, brk <= MemWords,
         Layout(U, FreeIn(h), h.bump, h.end, brk, h.lost),
         NEW n \in Requests
  PROVE  LET r == AllocRc(h, n)
         IN r.brk \in Nat /\ Serves(r.heap, U, r.brk, r.at, n)
<1> DEFINE r == AllocRc(h, n)
<1>1. n \in Nat /\ n >= 2 /\ n >= 1 /\ n <= MemWords /\ brk \in Nat
  BY AllocAssumption DEF Layout
<1>2. SmallMax \in Nat
  BY AllocAssumption
<1>3. CASE n <= SmallMax /\ h.small[n] # <<>>
  <2>1. n \in 2 .. SmallMax
    BY <1>1, <1>3
  <2>2. r = [heap |-> [h EXCEPT !.small[n] = Tail(@)],
             at |-> Head(h.small[n]).at, brk |-> brk]
    BY <1>3 DEF AllocRc, Found
  <2>3. Serves([h EXCEPT !.small[n] = Tail(@)], U, brk, Head(h.small[n]).at, n)
    BY <1>3, <2>1, SmallServes, Zenon
  <2> HIDE DEF r
  <2>4. PICK g : g = [h EXCEPT !.small[n] = Tail(@)]
    OBVIOUS
  <2>5. r.heap = g /\ r.at = Head(h.small[n]).at /\ r.brk = brk
    BY <2>2, <2>4
  <2> QED BY <1>1, <2>3, <2>4, <2>5 DEF r
<1>4. CASE n <= SmallMax /\ h.small[n] = <<>> /\ NonemptyFrom(h, 0) # {}
  <2>1. r = Nibble(h, 0, n)
    BY <1>4 DEF AllocRc
  <2>2. \A b \in FreeIn(h) : b.size > SmallMax => n <= b.size
    <3>1. \A b \in FreeIn(h) : b.size \in Nat
      BY FreeOnItsList
    <3> QED BY <1>1, <1>2, <1>4, <3>1
  <2> HIDE DEF r
  <2>3. Serves(r.heap, U, brk, r.at, n) /\ r.brk = brk
    BY <1>1, <1>4, <2>1, <2>2, NibbleServes
  <2> QED BY <1>1, <2>3 DEF r
<1>5. CASE n > SmallMax /\ Fits(h, n) # {}
  <2>1. r = FirstFit(h, n)
    BY <1>1, <1>2, <1>5 DEF AllocRc
  <2> HIDE DEF r
  <2>2. Serves(r.heap, U, brk, r.at, n) /\ r.brk = brk
    BY <1>1, <1>5, <2>1, FirstFitServes
  <2> QED BY <1>1, <2>2 DEF r
<1>6. CASE /\ n > SmallMax /\ Fits(h, n) = {}
           /\ NonemptyFrom(h, BigClass(n) + 1) # {}
  <2>1. r = Nibble(h, BigClass(n) + 1, n)
    BY <1>1, <1>2, <1>6 DEF AllocRc
  <2>2. BigClass(n) + 1 \in Nat /\ BigClass(n) \in Nat
    BY <1>1, <1>6, BigClassMonotone
  <2>3. ASSUME NEW b \in FreeIn(h), b.size > SmallMax,
               BigClass(b.size) >= BigClass(n) + 1
        PROVE  n <= b.size
    <3>1. b.size \in Nat
      BY FreeOnItsList
    <3>2. SUFFICES ASSUME b.size <= n PROVE FALSE
      BY <1>1, <3>1
    <3>3. BigClass(b.size) \in Nat /\ BigClass(b.size) <= BigClass(n)
      BY <1>1, <2>3, <3>1, <3>2, BigClassMonotone
    <3> QED BY <2>2, <2>3, <3>3
  <2> HIDE DEF r
  <2>4. Serves(r.heap, U, brk, r.at, n) /\ r.brk = brk
    BY <1>1, <1>6, <2>1, <2>2, <2>3, NibbleServes
  <2> QED BY <1>1, <2>4 DEF r
<1>7. CASE \/ n <= SmallMax /\ h.small[n] = <<>> /\ NonemptyFrom(h, 0) = {}
           \/ /\ n > SmallMax /\ Fits(h, n) = {}
              /\ NonemptyFrom(h, BigClass(n) + 1) = {}
  <2>1. r = BumpAlloc(h, n)
    BY <1>1, <1>2, <1>7 DEF AllocRc
  <2> QED BY <1>1, <2>1, BumpServes
<1> QED BY <1>1, <1>2, <1>3, <1>4, <1>5, <1>6, <1>7

-----------------------------------------------------------------------------
(* The inductive invariant: the lists are sorted, and every word of memory *)
(* is in its place.                                                        *)
IInv ==
  /\ Sorted(heap)
  /\ Layout(live, FreeIn(heap), heap.bump, heap.end, brk, heap.lost)
  /\ \A b \in live : b.size \in Requests
  /\ brk <= MemWords
  /\ pc \in {"run", "oom"}

(* The empty heap of a process that starts.                                *)
LEMMA InitIInv == Init => IInv
<1> SUFFICES ASSUME Init PROVE IInv
  OBVIOUS
<1>1. /\ heap \in HeapType
      /\ \A n \in 2 .. SmallMax : heap.small[n] = <<>>
      /\ \A c \in Classes : heap.big[c] = <<>>
      /\ heap.bits = {} /\ heap.bump = 0 /\ heap.end = 0 /\ heap.lost = 0
      /\ live = {} /\ brk = 0 /\ pc = "run"
  BY DEF Init, HeapType
<1>2. Elems(<<>>) = {} /\ Distinct(<<>>)
  BY DEF Elems, Distinct
<1>3. Sorted(heap) /\ FreeIn(heap) = {}
  BY <1>1, <1>2 DEF Sorted, FreeIn
<1>4. Words({}) = 0
  <2>1. Cover({}) = {}
    BY DEF Cover
  <2> QED BY <2>1, WordsCover, FS_EmptySet
<1>5. Layout({}, {}, 0, 0, 0, 0)
  BY <1>4 DEF Layout, Apart
<1> QED BY <1>1, <1>3, <1>5, AllocAssumption DEF IInv

(* dc_alloc_rc keeps the invariant.                                        *)
LEMMA AllocStep ==
  ASSUME IInv, NEW n \in Requests, Alloc(n)
  PROVE  IInv'
<1> DEFINE r == AllocRc(heap, n)
<1>1. r.brk \in Nat /\ Serves(r.heap, live, r.brk, r.at, n)
  BY AllocServes DEF IInv
<1>2. CASE r.brk > MemWords
  <2>1. UNCHANGED <<heap, live, brk>> /\ pc' = "oom"
    BY <1>2 DEF Alloc
  <2> QED BY <2>1 DEF IInv, FreeIn, Sorted
<1>3. CASE ~ (r.brk > MemWords)
  <2>1. /\ heap' = r.heap /\ brk' = r.brk /\ live' = live \cup {Blk(r.at, n)}
        /\ pc' = pc
    BY <1>3 DEF Alloc
  <2> HIDE DEF r
  <2>2. /\ Sorted(heap')
        /\ Layout(live', FreeIn(heap'), heap'.bump, heap'.end, brk', heap'.lost)
    BY <1>1, <2>1 DEF Serves
  <2>3. \A b \in live' : b.size \in Requests
    BY <2>1 DEF IInv, Blk
  <2>4. brk' <= MemWords
    BY <1>1, <1>3, <2>1, AllocAssumption
  <2> QED BY <2>1, <2>2, <2>3, <2>4 DEF IInv
<1> QED BY <1>2, <1>3

(* free_block keeps the invariant.                                         *)
LEMMA FreeStep ==
  ASSUME IInv, NEW b \in live, Free(b)
  PROVE  IInv'
<1>1. /\ heap' = PushFree(heap, b) /\ live' = live \ {b}
      /\ brk' = brk /\ pc' = pc
  BY DEF Free
<1>2. /\ b \in Block /\ b.size >= 2 /\ b.size <= MemWords
      /\ b \notin FreeIn(heap)
  <2>1. b \in Block /\ b \notin FreeIn(heap)
    BY DEF IInv, Layout
  <2>2. b.size \in 2 .. MemWords
    BY AllocAssumption DEF IInv
  <2>3. b.size >= 2 /\ b.size <= MemWords
    BY <2>2
  <2> QED BY <2>1, <2>3
<1>3. Refiles(heap', heap, FreeIn(heap) \cup {b})
  BY <1>1, <1>2, PushFreeAdds DEF IInv
<1>4. Layout(live \ {b}, FreeIn(heap) \cup {b}, heap.bump, heap.end, brk, heap.lost)
  BY LayoutFree DEF IInv
<1>5. /\ Sorted(heap')
      /\ Layout(live', FreeIn(heap'), heap'.bump, heap'.end, brk', heap'.lost)
  BY <1>1, <1>3, <1>4 DEF Refiles, SamePointers
<1> QED BY <1>1, <1>5 DEF IInv

(* Every step keeps the invariant.                                         *)
LEMMA NextIInv == IInv /\ [Next]_vars => IInv'
<1> SUFFICES ASSUME IInv, [Next]_vars PROVE IInv'
  OBVIOUS
<1>1. CASE \E n \in Requests : Alloc(n)
  BY <1>1, AllocStep
<1>2. CASE \E b \in live : Free(b)
  BY <1>2, FreeStep
<1>3. CASE OutOfMemory \/ UNCHANGED vars
  <2>1. UNCHANGED <<heap, live, brk, pc>>
    BY <1>3 DEF OutOfMemory, vars
  <2> QED BY <2>1 DEF IInv
<1> QED BY <1>1, <1>2, <1>3 DEF Next

(* The invariant holds in every state.                                     *)
LEMMA IInvHolds == Spec => []IInv
<1>1. Init => IInv
  BY InitIInv
<1>2. IInv /\ [Next]_vars => IInv'
  BY NextIInv
<1> QED BY <1>1, <1>2, PTL DEF Spec

-----------------------------------------------------------------------------
(* A list without duplicates is as long as the set of its elements.        *)
LEMMA DistinctLength ==
  ASSUME NEW l \in Seq(Block), Distinct(l)
  PROVE  Cardinality(Elems(l)) = Len(l)
<1>1. Len(l) \in Nat /\ DOMAIN l = 1 .. Len(l)
  OBVIOUS
<1>2. IsFiniteSet(1 .. Len(l)) /\ Cardinality(1 .. Len(l)) = Len(l)
  BY <1>1, FS_Interval
<1>3. l \in [1 .. Len(l) -> Elems(l)]
  BY <1>1 DEF Elems
<1>4. l \in Bijection(1 .. Len(l), Elems(l))
  <2>1. l \in Injection(1 .. Len(l), Elems(l))
    BY <1>1, <1>3 DEF Distinct, Injection, IsInjective
  <2>2. l \in Surjection(1 .. Len(l), Elems(l))
    BY <1>1, <1>3 DEF Elems, Surjection
  <2> QED BY <2>1, <2>2 DEF Bijection
<1> QED BY <1>2, <1>4, FS_Bijection DEF ExistsBijection

(* FreeBlocks are the free blocks of the current heap.                     *)
LEMMA FreeBlocksIs == FreeBlocks = FreeIn(heap)
  BY DEF FreeBlocks, FreeIn

(* The invariant says where every word is.                                 *)
LEMMA IInvAccounted == IInv => Accounted
<1> SUFFICES ASSUME IInv PROVE Accounted
  OBVIOUS
<1>1. Sorted(heap) /\ heap \in HeapType
  BY DEF IInv, Sorted
<1>2. /\ heap.bump \in Nat /\ heap.end \in Nat /\ brk \in Nat
      /\ heap.lost \in Nat /\ heap.bump <= heap.end /\ heap.end <= brk
      /\ brk <= MemWords
  BY DEF IInv, Layout
<1>3. Classified
  <2>1. ASSUME NEW n \in Requests, NEW c \in Classes,
               n > SmallMax, c > BigClass(n), NEW b \in Elems(heap.big[c])
        PROVE  b.size >= n
    <3>1. BigClass(b.size) = c /\ b.size > SmallMax /\ b \in FreeIn(heap)
      BY <1>1, BigIsFree DEF Sorted
    <3>2. b.size \in Nat /\ n \in Nat
      BY <1>1, <3>1, FreeOnItsList, AllocAssumption
    <3> SUFFICES ASSUME b.size <= n PROVE FALSE
      BY <3>2
    <3>3. BigClass(b.size) \in Nat /\ BigClass(b.size) <= BigClass(n)
      BY <3>1, <3>2, BigClassMonotone
    <3>4. BigClass(n) \in Nat
      BY <2>1, <3>2, BigClassMonotone
    <3> QED BY <2>1, <3>1, <3>3, <3>4
  <2> QED BY <1>1, <2>1 DEF Classified, Sorted
<1>4. TypeOK
  BY <1>1, <1>2, <1>3 DEF TypeOK, HeapType, Block, IInv, Layout
<1>5. Disjoint
  <2>1. /\ \A c \in Classes : Cardinality(Elems(heap.big[c])) = Len(heap.big[c])
        /\ \A n \in 2 .. SmallMax :
              Cardinality(Elems(heap.small[n])) = Len(heap.small[n])
    BY <1>1, DistinctLength DEF Sorted, HeapType
  <2>2. Layout(live, FreeBlocks, heap.bump, heap.end, brk, heap.lost)
    BY FreeBlocksIs DEF IInv
  <2> QED BY <2>1, <2>2 DEF Disjoint, Layout, Apart, Bump
<1>6. NoMemoryLost
  BY FreeBlocksIs DEF IInv, Layout, NoMemoryLost
<1> QED BY <1>4, <1>5, <1>6 DEF Accounted

(* The allocator accounts for every word: what malloc gave is in a live    *)
(* block, on the list of its size or class, in the unused part of the      *)
(* chunk or among the single words abandoned, and nowhere twice, for every *)
(* size of memory, chunk, class and request (rt5.c push_free, carve,       *)
(* big_alloc, dc_alloc_rc, free_block).                                    *)
THEOREM AccountedHolds == Spec => []Accounted
<1>1. Spec => []IInv
  BY IInvHolds
<1>2. IInv => Accounted
  BY IInvAccounted
<1> QED BY <1>1, <1>2, PTL

-----------------------------------------------------------------------------
(* A request grows memory only when neither its exact list nor a class     *)
(* that is searched for it has a block.                                    *)
LEMMA GrowsMeansBump ==
  ASSUME IInv, NEW n \in Requests, AllocRc(heap, n).brk # brk
  PROVE  \/ n <= SmallMax /\ heap.small[n] = <<>> /\ NonemptyFrom(heap, 0) = {}
         \/ /\ n > SmallMax /\ Fits(heap, n) = {}
            /\ NonemptyFrom(heap, BigClass(n) + 1) = {}
<1>1. n \in Nat /\ SmallMax \in Nat
  BY AllocAssumption
<1>2. \A h, a : Found(h, a).brk = brk
  BY DEF Found
<1>3. CASE n <= SmallMax
  BY <1>1, <1>2, <1>3 DEF AllocRc, Nibble
<1>4. CASE n > SmallMax
  BY <1>1, <1>2, <1>4 DEF AllocRc, Nibble, FirstFit
<1> QED BY <1>1, <1>3, <1>4

(* A step that grows memory did not have to pass over a block.             *)
LEMMA GrowsStep ==
  ASSUME IInv, NEW n \in Requests, Alloc(n), brk' # brk,
         NEW new \in live' \ live, NEW b \in FreeBlocks
  PROVE  IF new.size <= SmallMax
         THEN b.size <= SmallMax /\ b.size # new.size
         ELSE b.size < new.size \/ BigClass(b.size) = BigClass(new.size)
<1>1. Sorted(heap) /\ b \in FreeIn(heap) /\ n \in Nat /\ SmallMax \in Nat
  BY FreeBlocksIs, AllocAssumption DEF IInv
<1>2. /\ b.size \in Nat
      /\ b.size <= SmallMax => b \in Elems(heap.small[b.size])
      /\ b.size > SmallMax => /\ BigClass(b.size) \in Classes
                              /\ b \in Elems(heap.big[BigClass(b.size)])
  BY <1>1, FreeOnItsList
<1>3. new.size = n /\ AllocRc(heap, n).brk # brk
  BY DEF Alloc, Blk
<1>4. b.size > SmallMax => BigClass(b.size) \in heap.bits
  <2> SUFFICES ASSUME b.size > SmallMax PROVE BigClass(b.size) \in heap.bits
    OBVIOUS
  <2> DEFINE c == BigClass(b.size)
  <2>1. c \in Classes /\ heap.big[c] \in Seq(Block) /\ b \in Elems(heap.big[c])
    BY <1>1, <1>2 DEF Sorted, HeapType
  <2>2. heap.big[c] # <<>>
    BY <2>1, ElemsType
  <2> QED BY <1>1, <2>1, <2>2 DEF Sorted
<1>5. CASE n <= SmallMax
  <2>1. heap.small[n] = <<>> /\ NonemptyFrom(heap, 0) = {}
    BY <1>1, <1>3, <1>5, GrowsMeansBump
  <2>2. heap.bits = {}
    <3>1. heap.bits \subseteq Nat
      BY <1>1, ClassesType DEF Sorted
    <3> QED BY <2>1, <3>1 DEF NonemptyFrom
  <2>3. b.size <= SmallMax
    BY <1>1, <1>2, <1>4, <2>2
  <2>4. Elems(<<>>) = {}
    BY DEF Elems
  <2>5. b.size # n
    BY <1>2, <2>1, <2>3, <2>4
  <2> QED BY <1>3, <1>5, <2>3, <2>5
<1>6. CASE n > SmallMax
  <2>1. NonemptyFrom(heap, BigClass(n) + 1) = {}
    BY <1>1, <1>3, <1>6, GrowsMeansBump
  <2>2. BigClass(n) \in Nat
    BY <1>1, <1>6, BigClassMonotone
  <2>3. SUFFICES ASSUME b.size >= n PROVE BigClass(b.size) = BigClass(n)
    BY <1>1, <1>2, <1>3, <1>6
  <2>4. b.size > SmallMax
    BY <1>1, <1>2, <1>6, <2>3
  <2>5. BigClass(n) <= BigClass(b.size) /\ BigClass(b.size) \in Nat
    BY <1>1, <1>2, <1>6, <2>3, <2>4, BigClassMonotone
  <2>6. ~ (BigClass(b.size) >= BigClass(n) + 1)
    BY <1>4, <2>1, <2>4 DEF NonemptyFrom
  <2> QED BY <2>2, <2>5, <2>6
<1> QED BY <1>1, <1>5, <1>6

(* Memory grows only when no free block that the search is bound to look   *)
(* at would do: for a small request the exact list and every class are     *)
(* empty, for a big one every class above its own (dc_alloc_rc, big_alloc).*)
THEOREM GrowsOnlyWhenNeededHolds == Spec => GrowsOnlyWhenNeeded
<1> DEFINE Needed ==
      brk' # brk =>
        \A new \in live' \ live, b \in FreeBlocks :
           IF new.size <= SmallMax
           THEN b.size <= SmallMax /\ b.size # new.size
           ELSE b.size < new.size \/ BigClass(b.size) = BigClass(new.size)
<1>1. IInv /\ [Next]_vars => [Needed]_vars
  <2> SUFFICES ASSUME IInv, [Next]_vars PROVE Needed
    OBVIOUS
  <2>1. CASE \E n \in Requests : Alloc(n)
    BY <2>1, GrowsStep
  <2>2. CASE \E b \in live : Free(b)
    BY <2>2 DEF Free
  <2>3. CASE OutOfMemory \/ UNCHANGED vars
    BY <2>3 DEF OutOfMemory, vars
  <2> QED BY <2>1, <2>2, <2>3 DEF Next
<1>2. Spec => []IInv
  BY IInvHolds
<1> QED BY <1>1, <1>2, PTL DEF Spec, GrowsOnlyWhenNeeded

-----------------------------------------------------------------------------
(* A block that is handed out is a block of the abstract heap that no live *)
(* block overlaps.                                                         *)
LEMMA AllocAbstract ==
  ASSUME IInv, NEW n \in Requests, Alloc(n)
  PROVE  Abstract!Alloc(n) \/ UNCHANGED live
<1> DEFINE r == AllocRc(heap, n)
           x == Blk(r.at, n)
<1>1. r.brk \in Nat /\ Serves(r.heap, live, r.brk, r.at, n)
  BY AllocServes DEF IInv
<1>2. CASE r.brk > MemWords
  BY <1>2 DEF Alloc
<1>3. CASE ~ (r.brk > MemWords)
  <2>1. live' = live \cup {x} /\ r.brk <= MemWords
    BY <1>1, <1>3, AllocAssumption DEF Alloc
  <2> HIDE DEF r
  <2>2. /\ x \notin live /\ x \in Block /\ Span(x) \subseteq 0 .. r.brk - 1
        /\ \A y \in live : Span(y) \cap Span(x) = {}
    BY <1>1 DEF Serves, Layout, Apart
  <2>3. r.at \in Nat /\ n \in Nat /\ n >= 1 /\ MemWords \in Nat
    BY <2>2, AllocAssumption DEF Block, Blk
  <2>4. r.at \in Span(x)
    BY <2>3 DEF Span, Blk
  <2>5. 0 .. r.brk - 1 \subseteq 0 .. MemWords - 1
    BY <1>1, <2>1, <2>3
  <2>6. r.at \in 0 .. MemWords - 1 /\ Span(x) \subseteq 0 .. MemWords - 1
    BY <2>2, <2>4, <2>5
  <2>7. x = [at |-> r.at, size |-> n]
    BY DEF Blk
  <2> HIDE DEF x
  <2> QED BY <2>1, <2>2, <2>6, <2>7 DEF Abstract!Alloc, Abstract!Span, Span
<1> QED BY <1>2, <1>3

(* The allocator implements the heap that the reference counts are built   *)
(* on: a block handed out is as long as requested, lies in memory the      *)
(* process owns and overlaps no live block (dc_alloc_rc, free_block).      *)
THEOREM ImplementsHolds == Spec => Implements
<1>1. Init => Abstract!Init
  BY DEF Init, Abstract!Init
<1>2. IInv /\ [Next]_vars => [Abstract!Next]_live
  <2> SUFFICES ASSUME IInv, [Next]_vars PROVE Abstract!Next \/ UNCHANGED live
    OBVIOUS
  <2>1. CASE \E n \in Requests : Alloc(n)
    BY <2>1, AllocAbstract DEF Abstract!Next
  <2>2. CASE \E b \in live : Free(b)
    BY <2>2 DEF Free, Abstract!Next, Abstract!Free
  <2>3. CASE OutOfMemory \/ UNCHANGED vars
    BY <2>3 DEF OutOfMemory, vars
  <2> QED BY <2>1, <2>2, <2>3 DEF Next
<1>3. Spec => []IInv
  BY IInvHolds
<1> QED BY <1>1, <1>2, <1>3, PTL DEF Spec, Implements, Abstract!Spec
=============================================================================
