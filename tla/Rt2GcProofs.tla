---------------------------- MODULE Rt2GcProofs ----------------------------
(***************************************************************************)
(* The collector of gen2, proved for all chunks, requests and words of the *)
(* stack: what the program can reach stays as it was written, and blocks   *)
(* tile the chunks.  First the bits of a header, then lists and tilings as *)
(* such, then each step of the code as a change of them.                   *)
(***************************************************************************)
EXTENDS Rt2Gc, SequenceTheorems, TLAPS

-----------------------------------------------------------------------------
(* Headers.                                                                *)

(* Marks leave the size and the tag of a header alone.                     *)
LEMMA HeaderParts ==
  ASSUME NEW h \in Nat
  PROVE  /\ SizeOf(h) \in Nat /\ TagOf(h) \in 0 .. 127
         /\ SetMark(h) \in Nat /\ SizeOf(SetMark(h)) = SizeOf(h) /\ TagOf(SetMark(h)) = TagOf(h)
         /\ IsMarked(SetMark(h)) /\ ClearMark(SetMark(h)) = ClearMark(h)
         /\ ClearMark(h) \in Nat /\ SizeOf(ClearMark(h)) = SizeOf(h) /\ TagOf(ClearMark(h)) = TagOf(h)
         /\ ~IsMarked(ClearMark(h)) /\ (~IsMarked(h) => ClearMark(h) = h)
  BY DEF SizeOf, TagOf, SetMark, ClearMark, IsMarked

(* A header as it is made has its size and tag, and no mark.               *)
LEMMA HeaderOf ==
  ASSUME NEW t \in Nat, t < 128, NEW s \in Nat
  PROVE  /\ Header(t, s) \in Nat /\ SizeOf(Header(t, s)) = s /\ TagOf(Header(t, s)) = t
         /\ ~IsMarked(Header(t, s))
  BY DEF SizeOf, TagOf, IsMarked, Header

(* What malloc gave and nobody wrote is a header without a size.           *)
LEMMA NoSize == SizeOf(0) = 0
  BY DEF SizeOf

-----------------------------------------------------------------------------
(* Lists.                                                                  *)

(* An empty free list.                                                     *)
LEMMA ListEmpty ==
  ASSUME NEW N
  PROVE  RunsThrough(0, {}, N)
BY DEF RunsThrough

(* A block in front.                                                       *)
LEMMA ListCons ==
  ASSUME NEW F, NEW f, NEW N, NEW M, NEW r, RunsThrough(f, F, N),
         r \notin F, r # 0, 0 \notin F, M[r] = f, \A b \in F : M[b] = N[b]
  PROVE  RunsThrough(r, F \cup {r}, M)
<1> DEFINE G == F \cup {r}
<1>1. \A b \in F : N[b] # r
  BY DEF RunsThrough
<1>2. \A b \in G : M[b] \in G \cup {0}
  BY DEF RunsThrough
<1>3. ASSUME NEW b \in G PROVE b = r <=> \A d \in G : M[d] # b
  <2>1. CASE b = r
    <3>1. f # r
      BY DEF RunsThrough
    <3> QED BY <1>1, <2>1, <3>1
  <2>2. CASE b # r /\ b = f
    BY <2>2
  <2>3. CASE b # r /\ b # f
    <3>1. PICK d \in F : N[d] = b
      BY <2>3 DEF RunsThrough
    <3> QED BY <2>3, <3>1
  <2> QED BY <2>1, <2>2, <2>3
<1>4. ASSUME NEW b \in G, NEW d \in G, M[b] = M[d], M[b] # 0 PROVE b = d
  <2>1. CASE b \in F /\ d \in F
    BY <1>4, <2>1 DEF RunsThrough
  <2>2. ASSUME NEW e \in F, M[e] = f, f # 0 PROVE FALSE
    BY <2>2 DEF RunsThrough
  <2> QED BY <1>4, <2>1, <2>2
<1>5. ASSUME NEW S \in SUBSET G, S # {} PROVE \E b \in S : M[b] \notin S
  <2>1. CASE S \cap F # {}
    <3>1. PICK b \in S \cap F : N[b] \notin S \cap F
      BY <2>1 DEF RunsThrough
    <3>2. N[b] \in F \cup {0} /\ 0 \notin S
      BY <1>5 DEF RunsThrough
    <3> QED BY <3>1, <3>2
  <2>2. CASE S \cap F = {}
    <3>1. S = {r}
      BY <1>5, <2>2
    <3>2. f # r
      BY DEF RunsThrough
    <3> QED BY <3>1, <3>2
  <2> QED BY <2>1, <2>2
<1> QED BY <1>2, <1>3, <1>4, <1>5 DEF RunsThrough

(* The first block goes.                                                   *)
LEMMA ListTail ==
  ASSUME NEW F, NEW f, NEW N, NEW M, RunsThrough(f, F, N), f \in F, 0 \notin F,
         \A b \in F \ {f} : M[b] = N[b]
  PROVE  RunsThrough(N[f], F \ {f}, M)
<1> DEFINE G == F \ {f}
           n == N[f]
<1>1. n # f /\ n \in G \cup {0}
  BY DEF RunsThrough
<1>2. \A b \in G : M[b] \in G \cup {0}
  BY DEF RunsThrough
<1>3. ASSUME NEW b \in G PROVE b = n <=> \A d \in G : M[d] # b
  <2>1. CASE b = n
    BY <2>1 DEF RunsThrough
  <2>2. CASE b # n
    <3>1. PICK d \in F : N[d] = b
      BY <2>2 DEF RunsThrough
    <3> QED BY <2>2, <3>1
  <2> QED BY <2>1, <2>2
<1>4. ASSUME NEW b \in G, NEW d \in G, M[b] = M[d], M[b] # 0 PROVE b = d
  BY <1>4 DEF RunsThrough
<1>5. ASSUME NEW S \in SUBSET G, S # {} PROVE \E b \in S : M[b] \notin S
  <2>1. PICK b \in S : N[b] \notin S
    BY <1>5 DEF RunsThrough
  <2> QED BY <2>1
<1> QED BY <1>1, <1>2, <1>3, <1>4, <1>5 DEF RunsThrough

(* The block behind a is another one.                                      *)
LEMMA ListApart ==
  ASSUME NEW F, NEW f, NEW N, RunsThrough(f, F, N), NEW a \in F
  PROVE  N[a] # a /\ (f \in F => N[a] # f)
<1>1. N[a] # a
  <2>1. \E b \in {a} : N[b] \notin {a}
    BY DEF RunsThrough
  <2> QED BY <2>1
<1>2. f \in F => N[a] # f
  BY DEF RunsThrough
<1> QED BY <1>1, <1>2

(* The block behind a goes.                                                *)
LEMMA ListCut ==
  ASSUME NEW F, NEW f, NEW N, NEW M, RunsThrough(f, F, N), 0 \notin F,
         NEW a \in F, NEW b \in F, N[a] = b, M[a] = N[b],
         \A d \in F \ {a, b} : M[d] = N[d]
  PROVE  RunsThrough(f, F \ {b}, M)
<1> DEFINE G == F \ {b}
<1>1. a # b /\ f # b /\ N[b] # b
  BY ListApart DEF RunsThrough
<1>2. f \in G \cup {0} /\ \A d \in G : M[d] \in G \cup {0}
  BY <1>1 DEF RunsThrough
<1>3. ASSUME NEW d \in G PROVE d = f <=> \A e \in G : M[e] # d
  <2>1. CASE d = f
    BY <1>1, <2>1 DEF RunsThrough
  <2>2. CASE d # f
    <3>1. PICK e \in F : N[e] = d
      BY <2>2 DEF RunsThrough
    <3> QED BY <1>1, <2>2, <3>1
  <2> QED BY <2>1, <2>2
<1>4. ASSUME NEW d \in G, NEW e \in G, M[d] = M[e], M[d] # 0 PROVE d = e
  <2>1. \A x, y \in F : N[x] = N[y] /\ N[x] # 0 => x = y
    BY DEF RunsThrough
  <2> QED BY <1>1, <1>4, <2>1
<1>5. ASSUME NEW S \in SUBSET G, S # {} PROVE \E d \in S : M[d] \notin S
  <2>1. CASE a \notin S
    <3>1. PICK d \in S : N[d] \notin S
      BY <1>5 DEF RunsThrough
    <3> QED BY <2>1, <3>1
  <2>2. CASE a \in S
    <3> DEFINE T == S \cup {b}
    <3>0. T \in (SUBSET F) \ {{}}
      BY <1>5
    <3>1. PICK d \in T : N[d] \notin T
      BY <3>0 DEF RunsThrough
    <3>2. d # a
      BY <3>1
    <3>3. CASE d = b
      BY <2>2, <3>1, <3>3
    <3>4. CASE d # b
      BY <3>1, <3>2, <3>4
    <3> QED BY <3>3, <3>4
  <2> QED BY <2>1, <2>2
<1> QED BY <1>2, <1>3, <1>4, <1>5 DEF RunsThrough

(* A new block behind a.                                                   *)
LEMMA ListInsert ==
  ASSUME NEW F, NEW f, NEW N, NEW M, RunsThrough(f, F, N), 0 \notin F,
         NEW a \in F, NEW r, r \notin F, r # 0, M[a] = r, M[r] = N[a],
         \A d \in F \ {a} : M[d] = N[d]
  PROVE  RunsThrough(f, F \cup {r}, M)
<1> DEFINE G == F \cup {r}
<1>1. N[a] # a /\ \A d \in F : N[d] # r
  BY ListApart DEF RunsThrough
<1>2. f \in G \cup {0} /\ \A d \in G : M[d] \in G \cup {0}
  BY <1>1 DEF RunsThrough
<1>3. ASSUME NEW d \in G PROVE d = f <=> \A e \in G : M[e] # d
  <2>1. CASE d = f
    <3>1. d # r /\ \A e \in F : N[e] # d
      BY <2>1 DEF RunsThrough
    <3>2. \A e \in G : M[e] = r \/ \E x \in F : M[e] = N[x]
      OBVIOUS
    <3> QED BY <2>1, <3>1, <3>2
  <2>2. CASE d = r
    <3>1. r # f
      BY DEF RunsThrough
    <3> QED BY <2>2, <3>1
  <2>3. CASE d # f /\ d # r
    <3>1. PICK e \in F : N[e] = d
      BY <2>3 DEF RunsThrough
    <3>2. CASE e = a
      BY <2>3, <3>1, <3>2
    <3>3. CASE e # a
      BY <2>3, <3>1, <3>3
    <3> QED BY <3>2, <3>3
  <2> QED BY <2>1, <2>2, <2>3
<1>4. ASSUME NEW d \in G, NEW e \in G, M[d] = M[e], M[d] # 0 PROVE d = e
  <2>1. \A x, y \in F : N[x] = N[y] /\ N[x] # 0 => x = y
    BY DEF RunsThrough
  <2>2. \A x \in F \ {a} : M[x] = N[x] /\ N[x] # r
    BY <1>1
  <2> QED BY <1>1, <1>4, <2>1, <2>2
<1>5. ASSUME NEW S \in SUBSET G, S # {} PROVE \E d \in S : M[d] \notin S
  <2>1. CASE S = {r}
    <3>1. N[a] # r
      BY <1>1
    <3> QED BY <2>1, <3>1
  <2>2. CASE S # {r}
    <3> DEFINE T == S \ {r}
    <3>0. T \in (SUBSET F) \ {{}}
      BY <1>5, <2>2
    <3>1. PICK d \in T : N[d] \notin T
      BY <3>0 DEF RunsThrough
    <3>2. N[d] \notin S
      BY <1>1, <3>0, <3>1
    <3>3. CASE d # a
      BY <3>1, <3>2, <3>3
    <3>4. CASE d = a /\ r \notin S
      BY <3>1, <3>4
    <3>5. CASE d = a /\ r \in S
      BY <3>2, <3>5
    <3> QED BY <3>3, <3>4, <3>5
  <2> QED BY <2>1, <2>2
<1> QED BY <1>2, <1>3, <1>4, <1>5 DEF RunsThrough

-----------------------------------------------------------------------------
(* Chunks and tilings, as sequences of addresses and sets of blocks with   *)
(* their sizes.                                                            *)
ChunkList(cs) == /\ cs \in Seq(Nat) /\ Len(cs) <= MaxChunks
                 /\ \A i \in 1 .. Len(cs) : cs[i] = ChunkAt[Len(cs) + 1 - i]
WordsIn(cs) == UNION {WordsOf(cs[i]) : i \in 1 .. Len(cs)}
EndAt(cs, i) == cs[i] + Word * ChunkWords
BlocksAt(cs, B, i) == {b \in B : b >= cs[i] /\ b < EndAt(cs, i)}
StopsAt(cs, B, L, i) == {cs[i]} \cup {b + Word * L[b] : b \in BlocksAt(cs, B, i)}

(* Blocks with sizes L are within chunks and do not overlap; behind each   *)
(* comes another one or no more in this chunk; bp is behind the last block *)
(* of the first chunk.                                                     *)
Tiled(cs, B, L, bp) ==
    /\ \A b \in B : /\ b \in Nat /\ b % Word = 0 /\ L[b] \in Nat /\ L[b] >= 2
                    /\ \E i \in 1 .. Len(cs) : cs[i] <= b /\ b + Word * L[b] <= EndAt(cs, i)
    /\ \A b, d \in B : b < d => b + Word * L[b] <= d
    /\ \A i \in 1 .. Len(cs) : \A a \in StopsAt(cs, B, L, i) :
         a \in BlocksAt(cs, B, i) \/ \A d \in BlocksAt(cs, B, i) : d < a
    /\ cs # <<>> => bp \in StopsAt(cs, B, L, 1) /\ \A d \in BlocksAt(cs, B, 1) : d < bp

(* The k-th word behind an aligned one, and which word behind it one is.   *)
LEMMA WordBehind ==
  ASSUME NEW c \in Nat, c % Word = 0, NEW k \in Nat
  PROVE  /\ c + Word * k \in Nat /\ (c + Word * k) % Word = 0
         /\ ((c + Word * k) - c) \div Word = k
  BY DEF Word

(* Every aligned address is a number of words away from an earlier one.    *)
LEMMA WordIndex ==
  ASSUME NEW c \in Nat, c % Word = 0, NEW a \in Nat, a % Word = 0, c <= a
  PROVE  (a - c) \div Word \in Nat /\ a = c + Word * ((a - c) \div Word)
  BY DEF Word

(* Chunks are aligned and apart (rt.c:65-75, what malloc promises).        *)
LEMMA ChunksApart ==
  ASSUME NEW cs, ChunkList(cs)
  PROVE  /\ \A i \in 1 .. Len(cs) : cs[i] \in Nat /\ cs[i] # 0 /\ cs[i] % Word = 0 /\ EndAt(cs, i) \in Nat
         /\ \A i, j \in 1 .. Len(cs) : i # j => EndAt(cs, i) <= cs[j] \/ EndAt(cs, j) <= cs[i]
<1>0. Len(cs) \in Nat /\ MaxChunks \in Nat
  BY GcAssumption DEF ChunkList
<1>1. \A i \in 1 .. Len(cs) : Len(cs) + 1 - i \in 1 .. MaxChunks /\ cs[i] = ChunkAt[Len(cs) + 1 - i]
  BY <1>0 DEF ChunkList
<1>2. ASSUME NEW i \in 1 .. Len(cs) PROVE cs[i] \in Nat /\ cs[i] # 0 /\ cs[i] % Word = 0
  BY <1>1, GcAssumption
<1>3. ASSUME NEW i \in 1 .. Len(cs), NEW j \in 1 .. Len(cs), i # j
      PROVE  EndAt(cs, i) <= cs[j] \/ EndAt(cs, j) <= cs[i]
  <2>1. cs[i] # cs[j]
    BY <1>0, <1>1, <1>3, GcAssumption
  <2>2. cs[i] < cs[j] \/ cs[j] < cs[i]
    BY <1>2, <2>1
  <2> QED BY <1>1, <2>2, GcAssumption DEF EndAt
<1>4. ASSUME NEW i \in 1 .. Len(cs) PROVE EndAt(cs, i) \in Nat
  BY <1>2, GcAssumption DEF EndAt, Word
<1> QED BY <1>2, <1>3, <1>4

(* The words of a chunk.                                                   *)
LEMMA WordsInAre ==
  ASSUME NEW cs, ChunkList(cs), NEW a
  PROVE  a \in WordsIn(cs) <=>
           a \in Nat /\ a % Word = 0 /\ \E i \in 1 .. Len(cs) : cs[i] <= a /\ a < EndAt(cs, i)
<1>0. ChunkWords \in Nat /\ \A i \in 1 .. Len(cs) : cs[i] \in Nat /\ cs[i] % Word = 0
  BY ChunksApart, GcAssumption
<1>1. ASSUME NEW i \in 1 .. Len(cs)
      PROVE  a \in WordsOf(cs[i]) <=> a \in Nat /\ a % Word = 0 /\ cs[i] <= a /\ a < EndAt(cs, i)
  <2>1. ASSUME a \in WordsOf(cs[i]) PROVE a \in Nat /\ a % Word = 0 /\ cs[i] <= a /\ a < EndAt(cs, i)
    <3>1. PICK k \in 0 .. ChunkWords - 1 : a = cs[i] + Word * k
      BY <2>1 DEF WordsOf
    <3>2. a \in Nat /\ a % Word = 0
      BY <1>0, <3>1, WordBehind
    <3> QED BY <1>0, <3>1, <3>2 DEF EndAt, Word
  <2>2. ASSUME a \in Nat, a % Word = 0, cs[i] <= a, a < EndAt(cs, i) PROVE a \in WordsOf(cs[i])
    <3> DEFINE k == (a - cs[i]) \div Word
    <3>1. k \in 0 .. ChunkWords - 1 /\ a = cs[i] + Word * k
      <4>1. k \in Nat /\ a = cs[i] + Word * k
        BY <1>0, <2>2, WordIndex
      <4> HIDE DEF k
      <4> QED BY <1>0, <2>2, <4>1 DEF EndAt, Word
    <3> QED BY <3>1 DEF WordsOf
  <2> QED BY <2>1, <2>2
<1>2. a \in WordsIn(cs) <=> \E i \in 1 .. Len(cs) : a \in WordsOf(cs[i])
  BY DEF WordsIn
<1> QED BY <1>1, <1>2

(* What is in chunk i is not in another one.                               *)
LEMMA OneChunk ==
  ASSUME NEW cs, ChunkList(cs), NEW B, NEW L, NEW bp, Tiled(cs, B, L, bp),
         NEW b \in B, NEW i \in 1 .. Len(cs), NEW a \in Nat, cs[i] <= a, a < EndAt(cs, i),
         b <= a, a < b + Word * L[b]
  PROVE  b \in BlocksAt(cs, B, i) /\ b + Word * L[b] <= EndAt(cs, i)
<1>1. PICK j \in 1 .. Len(cs) : cs[j] <= b /\ b + Word * L[b] <= EndAt(cs, j)
  BY DEF Tiled
<1>2. b \in Nat /\ L[b] \in Nat /\ ChunkWords \in Nat /\ cs[i] \in Nat /\ cs[j] \in Nat
  BY ChunksApart, GcAssumption DEF Tiled
<1>3. i = j
  <2>1. cs[j] <= a /\ a < EndAt(cs, j)
    BY <1>1, <1>2 DEF EndAt, Word
  <2>2. i # j => EndAt(cs, i) <= cs[j] \/ EndAt(cs, j) <= cs[i]
    BY ChunksApart
  <2> QED BY <1>2, <2>1, <2>2 DEF EndAt, Word
<1> QED BY <1>1, <1>2, <1>3 DEF BlocksAt, EndAt, Word

(* No block reaches beyond a stop that is above the blocks of its chunk.   *)
LEMMA NoneBeyond ==
  ASSUME NEW cs, ChunkList(cs), NEW B, NEW L, NEW bp, Tiled(cs, B, L, bp),
         NEW i \in 1 .. Len(cs), NEW a \in StopsAt(cs, B, L, i), \A d \in BlocksAt(cs, B, i) : d < a
  PROVE  /\ a \in Nat /\ a % Word = 0 /\ cs[i] <= a /\ a <= EndAt(cs, i)
         /\ \A d \in BlocksAt(cs, B, i) : d + Word * L[d] <= a
         /\ \A x \in Nat : a <= x /\ x < EndAt(cs, i) => ~\E b \in B : b <= x /\ x < b + Word * L[b]
<1>0. cs[i] \in Nat /\ cs[i] % Word = 0 /\ ChunkWords \in Nat
  BY ChunksApart, GcAssumption
<1>1. \A d \in BlocksAt(cs, B, i) : /\ d \in Nat /\ L[d] \in Nat /\ L[d] >= 2 /\ d % Word = 0
                                    /\ d \in B /\ cs[i] <= d /\ d < EndAt(cs, i)
  BY DEF Tiled, BlocksAt
<1>2. a \in Nat /\ a % Word = 0 /\ cs[i] <= a /\ a <= EndAt(cs, i)
  <2>1. CASE a = cs[i]
    BY <1>0, <2>1 DEF EndAt, Word
  <2>2. CASE a # cs[i]
    <3>1. PICK b \in BlocksAt(cs, B, i) : a = b + Word * L[b]
      BY <2>2 DEF StopsAt
    <3>2. b + Word * L[b] <= EndAt(cs, i)
      <4>1. b <= b /\ b < b + Word * L[b]
        BY <1>1 DEF Word
      <4> QED BY <1>1, <4>1, OneChunk
    <3>3. a \in Nat /\ a % Word = 0
      BY <1>1, <3>1, WordBehind
    <3> QED BY <1>0, <1>1, <3>1, <3>2, <3>3 DEF Word
  <2> QED BY <2>1, <2>2
<1>3. ASSUME NEW d \in BlocksAt(cs, B, i) PROVE d + Word * L[d] <= a
  <2>1. d < a
    OBVIOUS
  <2>2. PICK b \in BlocksAt(cs, B, i) : a = b + Word * L[b]
    BY <1>0, <1>1, <2>1 DEF StopsAt
  <2>3. b < d => b + Word * L[b] <= d
    BY <1>1 DEF Tiled
  <2>4. d < b => d + Word * L[d] <= b
    BY <1>1 DEF Tiled
  <2> QED BY <1>1, <2>1, <2>2, <2>3, <2>4 DEF Word
<1>4. ASSUME NEW x \in Nat, a <= x, x < EndAt(cs, i), NEW b \in B, b <= x, x < b + Word * L[b]
      PROVE  FALSE
  <2>1. b \in BlocksAt(cs, B, i)
    BY <1>0, <1>2, <1>4, OneChunk DEF EndAt, Word
  <2> QED BY <1>1, <1>2, <1>3, <1>4, <2>1 DEF Word
<1> QED BY <1>2, <1>3, <1>4

(* A stop above the blocks of the first chunk is bp.                       *)
LEMMA OneEnd ==
  ASSUME NEW cs, ChunkList(cs), NEW B, NEW L, NEW bp, Tiled(cs, B, L, bp), cs # <<>>,
         NEW a \in StopsAt(cs, B, L, 1), \A d \in BlocksAt(cs, B, 1) : d < a
  PROVE  a = bp
<1>0. 1 \in 1 .. Len(cs) /\ cs[1] \in Nat
  <2>1. 1 \in 1 .. Len(cs)
    BY DEF ChunkList
  <2> QED BY <2>1, ChunksApart
<1>1. bp \in StopsAt(cs, B, L, 1) /\ \A d \in BlocksAt(cs, B, 1) : d < bp
  BY DEF Tiled
<1>2. ASSUME NEW x \in StopsAt(cs, B, L, 1), \A d \in BlocksAt(cs, B, 1) : d < x,
             NEW y \in StopsAt(cs, B, L, 1), \A d \in BlocksAt(cs, B, 1) : d < y
      PROVE  y <= x
  <2>1. /\ x \in Nat /\ y \in Nat /\ cs[1] <= x
        /\ \A d \in BlocksAt(cs, B, 1) : d + Word * L[d] <= x
    BY <1>0, <1>2, NoneBeyond
  <2> QED BY <2>1, <1>0, <1>2 DEF StopsAt
<1> QED
  <2>1. a <= bp /\ bp <= a
    BY <1>1, <1>2
  <2>2. a \in Nat /\ bp \in Nat
    BY <1>0, <1>1, NoneBeyond
  <2> QED BY <2>1, <2>2

(* A word is in one block.                                                 *)
LEMMA OneBlock ==
  ASSUME NEW cs, NEW B, NEW L, NEW bp, Tiled(cs, B, L, bp),
         NEW b \in B, NEW d \in B, NEW a \in Nat,
         b <= a, a < b + Word * L[b], d <= a, a < d + Word * L[d]
  PROVE  b = d
<1>1. b \in Nat /\ L[b] \in Nat /\ d \in Nat /\ L[d] \in Nat
  BY DEF Tiled
<1>2. /\ b < d => b + Word * L[b] <= d
      /\ d < b => d + Word * L[d] <= b
  BY DEF Tiled
<1> QED BY <1>1, <1>2 DEF Word

(* A block is split into one of n words and the rest.                      *)
LEMMA TileSplit ==
  ASSUME NEW cs, ChunkList(cs), NEW B, NEW L, NEW bp, Tiled(cs, B, L, bp),
         NEW b \in B, NEW n \in Nat, n >= 2, L[b] >= n + 2,
         NEW M, NEW r, r = b + Word * n, M[b] = n, M[r] = L[b] - n, \A d \in B \ {b} : M[d] = L[d]
  PROVE  r \notin B /\ Tiled(cs, B \cup {r}, M, bp)
<1> DEFINE C == B \cup {r}
           e == b + Word * L[b]
<1>a. b \in Nat /\ b % Word = 0 /\ L[b] \in Nat /\ r \in Nat /\ r % Word = 0
  <2>1. b \in Nat /\ b % Word = 0 /\ L[b] \in Nat
    BY DEF Tiled
  <2> QED BY <2>1, WordBehind
<1>b. b + Word * M[b] = r /\ r + Word * M[r] = e
  BY <1>a DEF Word
<1>0. /\ b \in Nat /\ b % Word = 0 /\ e \in Nat /\ r \in Nat /\ r % Word = 0 /\ b < r /\ r < e
      /\ M[b] \in Nat /\ M[b] >= 2 /\ M[r] \in Nat /\ M[r] >= 2
  BY <1>a DEF Word
<1>1. \A d \in B : /\ d \in Nat /\ d % Word = 0 /\ L[d] \in Nat /\ L[d] >= 2
                   /\ \E i \in 1 .. Len(cs) : cs[i] <= d /\ d + Word * L[d] <= EndAt(cs, i)
  BY DEF Tiled
<1>2. \A d \in B \ {b} : (d < b => d + Word * L[d] <= b) /\ (b < d => e <= d)
  BY DEF Tiled
<1>3. r \notin B
  <2>1. ASSUME r \in B PROVE FALSE
    <3> HIDE DEF e
    <3> QED BY <1>0, <1>2, <2>1
  <2> QED BY <2>1
<1>4. PICK i \in 1 .. Len(cs) : cs[i] <= b /\ e <= EndAt(cs, i)
  BY <1>1
<1>5. cs[i] \in Nat /\ EndAt(cs, i) \in Nat
  BY ChunksApart
<1> HIDE DEF e
<1>6. \A d \in C : /\ d \in Nat /\ d % Word = 0 /\ M[d] \in Nat /\ M[d] >= 2
                   /\ \E j \in 1 .. Len(cs) : cs[j] <= d /\ d + Word * M[d] <= EndAt(cs, j)
  <2>1. cs[i] <= r /\ r + Word * M[r] <= EndAt(cs, i) /\ cs[i] <= b /\ b + Word * M[b] <= EndAt(cs, i)
    BY <1>0, <1>b, <1>4, <1>5
  <2>2. ASSUME NEW d \in B \ {b}
        PROVE  /\ d \in Nat /\ d % Word = 0 /\ M[d] \in Nat /\ M[d] >= 2
               /\ \E j \in 1 .. Len(cs) : cs[j] <= d /\ d + Word * M[d] <= EndAt(cs, j)
    BY <1>1, <2>2
  <2> QED BY <1>0, <2>1, <2>2
<1>7. ASSUME NEW c \in C, NEW d \in C, c < d PROVE c + Word * M[c] <= d
  <2>1. CASE c \in B \ {b} /\ d \in B \ {b}
    BY <1>7, <2>1 DEF Tiled
  <2>2. CASE c \in B \ {b} /\ d \notin B \ {b}
    <3>1. c < b => c + Word * L[c] <= b
      BY <1>2, <2>2
    <3>2. b < c => e <= c
      BY <1>2, <2>2
    <3>3. c \in Nat /\ M[c] = L[c] /\ L[c] \in Nat
      BY <1>1, <2>2
    <3>4. d = b \/ d = r
      BY <2>2
    <3> QED BY <1>0, <1>7, <2>2, <3>1, <3>2, <3>3, <3>4 DEF Word
  <2>3. CASE c \notin B \ {b} /\ d \in B \ {b}
    <3>1. d \in Nat /\ (b < d => e <= d)
      BY <1>1, <1>2, <2>3
    <3>2. c = b \/ c = r
      BY <2>3
    <3> QED BY <1>0, <1>b, <1>7, <3>1, <3>2
  <2>4. CASE c \notin B \ {b} /\ d \notin B \ {b}
    <3>1. c = b /\ d = r
      BY <1>0, <1>7, <2>4
    <3> QED BY <1>0, <1>b, <3>1
  <2> QED BY <2>1, <2>2, <2>3, <2>4
<1>8. /\ BlocksAt(cs, C, i) = BlocksAt(cs, B, i) \cup {r} /\ b \in BlocksAt(cs, B, i)
      /\ StopsAt(cs, C, M, i) = StopsAt(cs, B, L, i) \cup {r}
  <2>1. r >= cs[i] /\ r < EndAt(cs, i) /\ b >= cs[i] /\ b < EndAt(cs, i)
    BY <1>0, <1>4, <1>5
  <2>2. BlocksAt(cs, C, i) = BlocksAt(cs, B, i) \cup {r} /\ b \in BlocksAt(cs, B, i)
    BY <2>1 DEF BlocksAt
  <2>3. \A d \in BlocksAt(cs, B, i) \ {b} : d + Word * M[d] = d + Word * L[d]
    BY DEF BlocksAt
  <2>4. /\ {d + Word * M[d] : d \in BlocksAt(cs, C, i)}
             = {d + Word * M[d] : d \in BlocksAt(cs, B, i) \ {b}} \cup {r, e}
        /\ {d + Word * L[d] : d \in BlocksAt(cs, B, i)}
             = {d + Word * L[d] : d \in BlocksAt(cs, B, i) \ {b}} \cup {e}
    <3> DEFINE D == BlocksAt(cs, B, i) \ {b}
    <3>1. BlocksAt(cs, C, i) = D \cup {b, r} /\ BlocksAt(cs, B, i) = D \cup {b}
      BY <2>2
    <3>2. b + Word * L[b] = e
      BY DEF e
    <3> HIDE DEF D
    <3>3. {d + Word * M[d] : d \in D \cup {b, r}}
            = {d + Word * M[d] : d \in D} \cup {b + Word * M[b], r + Word * M[r]}
      OBVIOUS
    <3>4. {d + Word * L[d] : d \in D \cup {b}} = {d + Word * L[d] : d \in D} \cup {b + Word * L[b]}
      OBVIOUS
    <3> QED BY <1>b, <3>1, <3>2, <3>3, <3>4 DEF D
  <2>5. {d + Word * M[d] : d \in BlocksAt(cs, B, i) \ {b}} = {d + Word * L[d] : d \in BlocksAt(cs, B, i) \ {b}}
    BY <2>3
  <2> QED BY <2>2, <2>4, <2>5 DEF StopsAt
<1>9. ASSUME NEW j \in 1 .. Len(cs), j # i
      PROVE  /\ BlocksAt(cs, C, j) = BlocksAt(cs, B, j) /\ b \notin BlocksAt(cs, B, j)
             /\ StopsAt(cs, C, M, j) = StopsAt(cs, B, L, j)
  <2>1. cs[j] \in Nat /\ EndAt(cs, j) \in Nat /\ (EndAt(cs, i) <= cs[j] \/ EndAt(cs, j) <= cs[i])
    BY <1>9, ChunksApart
  <2>2. ~(r >= cs[j] /\ r < EndAt(cs, j)) /\ ~(b >= cs[j] /\ b < EndAt(cs, j))
    BY <1>0, <1>4, <1>5, <2>1
  <2>3. BlocksAt(cs, C, j) = BlocksAt(cs, B, j) /\ b \notin BlocksAt(cs, B, j)
    BY <2>2 DEF BlocksAt
  <2>4. \A d \in BlocksAt(cs, B, j) : d + Word * M[d] = d + Word * L[d]
    BY <2>3 DEF BlocksAt
  <2> QED BY <2>3, <2>4 DEF StopsAt
<1>10. ASSUME NEW j \in 1 .. Len(cs), NEW a \in StopsAt(cs, C, M, j)
       PROVE  a \in BlocksAt(cs, C, j) \/ \A d \in BlocksAt(cs, C, j) : d < a
  <2>0. \A x \in StopsAt(cs, B, L, j) : x \in BlocksAt(cs, B, j) \/ \A d \in BlocksAt(cs, B, j) : d < x
    BY DEF Tiled
  <2>1. CASE j # i
    BY <1>9, <2>0, <2>1
  <2>2. CASE j = i /\ a = r
    BY <1>8, <2>2
  <2>3. CASE j = i /\ a # r
    <3>1. a \in StopsAt(cs, B, L, i)
      BY <1>8, <2>3
    <3>2. ASSUME \A d \in BlocksAt(cs, B, i) : d < a PROVE r < a
      <4>1. a \in Nat /\ e <= a
        BY <1>8, <3>1, <3>2, NoneBeyond DEF e
      <4> QED BY <1>0, <4>1
    <3> QED BY <1>8, <2>0, <2>3, <3>1, <3>2
  <2> QED BY <2>1, <2>2, <2>3
<1>11. ASSUME cs # <<>> PROVE bp \in StopsAt(cs, C, M, 1) /\ \A d \in BlocksAt(cs, C, 1) : d < bp
  <2>0. 1 \in 1 .. Len(cs) /\ bp \in StopsAt(cs, B, L, 1) /\ \A d \in BlocksAt(cs, B, 1) : d < bp
    BY <1>11 DEF Tiled, ChunkList
  <2>1. CASE i # 1
    BY <1>9, <2>0, <2>1
  <2>2. CASE i = 1
    <3>1. bp \in Nat /\ e <= bp
      BY <1>8, <2>0, <2>2, NoneBeyond DEF e
    <3>2. r < bp
      BY <1>0, <3>1
    <3> QED BY <1>8, <2>0, <2>2, <3>2
  <2> QED BY <2>1, <2>2
<1> QED BY <1>3, <1>6, <1>7, <1>10, <1>11 DEF Tiled

(* A block of n words at bp.                                               *)
LEMMA TileExtend ==
  ASSUME NEW cs, ChunkList(cs), NEW B, NEW L, NEW bp, Tiled(cs, B, L, bp), cs # <<>>,
         NEW n \in Nat, n >= 2, bp + Word * n <= EndAt(cs, 1),
         NEW M, M[bp] = n, \A d \in B : M[d] = L[d]
  PROVE  bp \notin B /\ Tiled(cs, B \cup {bp}, M, bp + Word * n)
<1> DEFINE C == B \cup {bp}
           e == bp + Word * n
<1>0. 1 \in 1 .. Len(cs) /\ cs[1] \in Nat /\ EndAt(cs, 1) \in Nat
  <2>1. 1 \in 1 .. Len(cs)
    BY DEF ChunkList
  <2> QED BY <2>1, ChunksApart
<1>1. bp \in StopsAt(cs, B, L, 1) /\ \A d \in BlocksAt(cs, B, 1) : d < bp
  BY DEF Tiled
<1>2. /\ bp \in Nat /\ bp % Word = 0 /\ cs[1] <= bp /\ e \in Nat /\ bp + 16 <= e
      /\ \A d \in BlocksAt(cs, B, 1) : d + Word * L[d] <= bp
  <2>1. /\ bp \in Nat /\ bp % Word = 0 /\ cs[1] <= bp
        /\ \A d \in BlocksAt(cs, B, 1) : d + Word * L[d] <= bp
    BY <1>0, <1>1, NoneBeyond
  <2> QED BY <2>1 DEF Word
<1>b. bp + Word * M[bp] = e
  OBVIOUS
<1> HIDE DEF e
<1>3. e <= EndAt(cs, 1) /\ bp < EndAt(cs, 1)
  BY <1>0, <1>2 DEF e
<1>4. bp \notin B
  BY <1>1, <1>2, <1>3 DEF BlocksAt
<1>5. \A d \in B : /\ d \in Nat /\ d % Word = 0 /\ L[d] \in Nat /\ L[d] >= 2
                   /\ \E i \in 1 .. Len(cs) : cs[i] <= d /\ d + Word * L[d] <= EndAt(cs, i)
  BY DEF Tiled
<1>6. ASSUME NEW d \in B PROVE d + Word * L[d] <= bp \/ e <= d
  <2>1. CASE d \in BlocksAt(cs, B, 1)
    BY <1>2, <2>1
  <2>2. CASE d \notin BlocksAt(cs, B, 1)
    <3>1. PICK i \in 1 .. Len(cs) : cs[i] <= d /\ d + Word * L[d] <= EndAt(cs, i)
      BY <1>5
    <3>2. d \in Nat /\ L[d] \in Nat /\ d < EndAt(cs, i) /\ cs[i] \in Nat /\ EndAt(cs, i) \in Nat
      <4>1. d \in Nat /\ L[d] \in Nat /\ L[d] >= 2 /\ cs[i] \in Nat /\ EndAt(cs, i) \in Nat
        BY <1>5, ChunksApart
      <4> QED BY <3>1, <4>1 DEF Word
    <3>3. i # 1
      BY <2>2, <3>1, <3>2 DEF BlocksAt
    <3>4. EndAt(cs, i) <= cs[1] \/ EndAt(cs, 1) <= cs[i]
      BY <1>0, <3>3, ChunksApart
    <3>5. d + Word * L[d] \in Nat
      BY <3>2 DEF Word
    <3> QED BY <1>0, <1>2, <1>3, <3>1, <3>2, <3>4, <3>5
  <2> QED BY <2>1, <2>2
<1>7. \A d \in C : /\ d \in Nat /\ d % Word = 0 /\ M[d] \in Nat /\ M[d] >= 2
                   /\ \E i \in 1 .. Len(cs) : cs[i] <= d /\ d + Word * M[d] <= EndAt(cs, i)
  BY <1>0, <1>2, <1>b, <1>3, <1>5
<1>8. ASSUME NEW c \in C, NEW d \in C, c < d PROVE c + Word * M[c] <= d
  <2>1. CASE c \in B /\ d \in B
    BY <1>8, <2>1 DEF Tiled
  <2>2. CASE c \in B /\ d = bp
    <3>1. c \in Nat /\ (c + Word * L[c] <= bp \/ e <= c)
      BY <1>5, <1>6, <2>2
    <3> QED BY <1>2, <1>8, <2>2, <3>1
  <2>3. CASE c = bp /\ d \in B
    <3>1. d \in Nat /\ L[d] \in Nat /\ (d + Word * L[d] <= bp \/ e <= d)
      BY <1>5, <1>6, <2>3
    <3>2. ~(d + Word * L[d] <= bp)
      BY <1>2, <1>8, <2>3, <3>1 DEF Word
    <3> QED BY <1>b, <2>3, <3>1, <3>2
  <2>4. CASE c = bp /\ d = bp
    BY <1>2, <1>8, <2>4
  <2> QED BY <2>1, <2>2, <2>3, <2>4
<1>9. BlocksAt(cs, C, 1) = BlocksAt(cs, B, 1) \cup {bp} /\ StopsAt(cs, C, M, 1) = StopsAt(cs, B, L, 1) \cup {e}
  <2>1. BlocksAt(cs, C, 1) = BlocksAt(cs, B, 1) \cup {bp}
    BY <1>2, <1>3 DEF BlocksAt
  <2>2. \A d \in BlocksAt(cs, B, 1) : d + Word * M[d] = d + Word * L[d]
    BY DEF BlocksAt
  <2>3. {d + Word * M[d] : d \in BlocksAt(cs, C, 1)} = {d + Word * M[d] : d \in BlocksAt(cs, B, 1)} \cup {e}
    <3> DEFINE D == BlocksAt(cs, B, 1)
    <3> HIDE DEF D
    <3>1. {d + Word * M[d] : d \in D \cup {bp}} = {d + Word * M[d] : d \in D} \cup {bp + Word * M[bp]}
      OBVIOUS
    <3> QED BY <1>b, <2>1, <3>1 DEF D
  <2>4. {d + Word * M[d] : d \in BlocksAt(cs, B, 1)} = {d + Word * L[d] : d \in BlocksAt(cs, B, 1)}
    BY <2>2
  <2> QED BY <2>1, <2>3, <2>4 DEF StopsAt
<1>10. ASSUME NEW j \in 1 .. Len(cs), j # 1
       PROVE  BlocksAt(cs, C, j) = BlocksAt(cs, B, j) /\ StopsAt(cs, C, M, j) = StopsAt(cs, B, L, j)
  <2>1. cs[j] \in Nat /\ EndAt(cs, j) \in Nat /\ (EndAt(cs, 1) <= cs[j] \/ EndAt(cs, j) <= cs[1])
    BY <1>0, <1>10, ChunksApart
  <2>2. ~(bp >= cs[j] /\ bp < EndAt(cs, j))
    BY <1>0, <1>2, <1>3, <2>1
  <2>3. BlocksAt(cs, C, j) = BlocksAt(cs, B, j)
    BY <2>2 DEF BlocksAt
  <2>4. \A d \in BlocksAt(cs, B, j) : d + Word * M[d] = d + Word * L[d]
    BY DEF BlocksAt
  <2> QED BY <2>3, <2>4 DEF StopsAt
<1>11. e \in StopsAt(cs, C, M, 1) /\ \A d \in BlocksAt(cs, C, 1) : d < e
  <2>1. \A d \in BlocksAt(cs, B, 1) : d \in Nat
    BY <1>5 DEF BlocksAt
  <2>2. \A d \in BlocksAt(cs, C, 1) : d < e
    BY <1>1, <1>2, <1>9, <2>1
  <2> QED BY <1>9, <2>2
<1>12. ASSUME NEW j \in 1 .. Len(cs), NEW a \in StopsAt(cs, C, M, j)
       PROVE  a \in BlocksAt(cs, C, j) \/ \A d \in BlocksAt(cs, C, j) : d < a
  <2>0. \A x \in StopsAt(cs, B, L, j) : x \in BlocksAt(cs, B, j) \/ \A d \in BlocksAt(cs, B, j) : d < x
    BY DEF Tiled
  <2>1. CASE j # 1
    BY <1>10, <2>0, <2>1
  <2>2. CASE j = 1 /\ a = e
    BY <1>11, <2>2
  <2>3. CASE j = 1 /\ a # e
    <3>1. a \in StopsAt(cs, B, L, 1)
      BY <1>9, <2>3
    <3>2. a \in BlocksAt(cs, B, 1) \/ a = bp
      BY <2>0, <2>3, <3>1, OneEnd
    <3> QED BY <1>9, <2>3, <3>2
  <2> QED BY <2>1, <2>2, <2>3
<1>13. Tiled(cs, C, M, e)
  BY <1>7, <1>8, <1>11, <1>12 DEF Tiled
<1> QED BY <1>4, <1>13 DEF e

(* A new chunk in front.                                                   *)
LEMMA TileChunk ==
  ASSUME NEW cs, ChunkList(cs), NEW c, NEW es, es = <<c>> \o cs, ChunkList(es),
         NEW B, NEW L, NEW bp, Tiled(cs, B, L, bp)
  PROVE  Tiled(es, B, L, c) /\ \A a \in WordsIn(cs) : ~(c <= a /\ a < c + Word * ChunkWords)
<1>0. /\ c \in Nat /\ Len(es) = Len(cs) + 1 /\ es[1] = c /\ Len(cs) \in Nat
      /\ \A i \in 1 .. Len(cs) : es[i + 1] = cs[i] /\ i + 1 \in 1 .. Len(es)
      /\ \A j \in 1 .. Len(es) : j = 1 \/ (j - 1 \in 1 .. Len(cs) /\ es[j] = cs[j - 1])
      /\ ChunkWords \in Nat
  <2>1. es \in Seq(Nat) /\ cs \in Seq(Nat) /\ ChunkWords \in Nat
    BY GcAssumption DEF ChunkList
  <2>2. Len(es) = Len(cs) + 1 /\ \A j \in 1 .. Len(cs) + 1 : es[j] = IF j = 1 THEN c ELSE cs[j - 1]
    BY <2>1
  <2>3. c \in Nat
    BY <2>1, <2>2
  <2> QED BY <2>1, <2>2, <2>3
<1>1. ASSUME NEW i \in 1 .. Len(cs)
      PROVE  cs[i] \in Nat /\ (EndAt(cs, i) <= c \/ c + Word * ChunkWords <= cs[i])
  <2>1. cs[i] = es[i + 1] /\ i + 1 \in 1 .. Len(es) /\ 1 \in 1 .. Len(es) /\ i + 1 # 1
    BY <1>0
  <2>2. EndAt(es, i + 1) <= es[1] \/ EndAt(es, 1) <= es[i + 1]
    BY <2>1, ChunksApart
  <2> QED BY <1>0, <2>1, <2>2, ChunksApart DEF EndAt
<1>2. ASSUME NEW a \in WordsIn(cs) PROVE ~(c <= a /\ a < c + Word * ChunkWords)
  <2>1. PICK i \in 1 .. Len(cs) : a \in Nat /\ cs[i] <= a /\ a < EndAt(cs, i)
    BY WordsInAre
  <2>2. /\ cs[i] \in Nat /\ EndAt(cs, i) \in Nat /\ c + Word * ChunkWords \in Nat
        /\ (EndAt(cs, i) <= c \/ c + Word * ChunkWords <= cs[i])
    BY <1>0, <1>1, ChunksApart DEF Word
  <2> QED BY <1>0, <2>1, <2>2
<1>3. \A d \in B : /\ d \in Nat /\ d % Word = 0 /\ L[d] \in Nat /\ L[d] >= 2
                   /\ \E i \in 1 .. Len(cs) : cs[i] <= d /\ d + Word * L[d] <= EndAt(cs, i)
  BY DEF Tiled
<1>4. \A i \in 1 .. Len(cs) : EndAt(es, i + 1) = EndAt(cs, i) /\ es[i + 1] = cs[i] /\ i + 1 \in 1 .. Len(es)
  BY <1>0 DEF EndAt
<1>5. ASSUME NEW d \in B
      PROVE  \E i \in 1 .. Len(es) : es[i] <= d /\ d + Word * L[d] <= EndAt(es, i)
  <2>1. PICK i \in 1 .. Len(cs) : cs[i] <= d /\ d + Word * L[d] <= EndAt(cs, i)
    BY <1>3
  <2> QED BY <1>4, <2>1
<1>6. BlocksAt(es, B, 1) = {}
  <2>1. ASSUME NEW d \in B, d >= es[1], d < EndAt(es, 1) PROVE FALSE
    <3>1. PICK i \in 1 .. Len(cs) : cs[i] <= d /\ d + Word * L[d] <= EndAt(cs, i)
      BY <1>3
    <3>2. d \in Nat /\ L[d] \in Nat /\ L[d] >= 2
      BY <1>3
    <3>3. /\ cs[i] \in Nat /\ EndAt(cs, i) \in Nat /\ EndAt(es, 1) = c + Word * ChunkWords /\ es[1] = c
          /\ (EndAt(cs, i) <= c \/ c + Word * ChunkWords <= cs[i])
      BY <1>0, <1>1, ChunksApart DEF EndAt
    <3>4. c + Word * ChunkWords \in Nat /\ d + Word * L[d] > d
      BY <1>0, <3>2 DEF Word
    <3>5. d < EndAt(cs, i)
      BY <3>1, <3>2, <3>3 DEF Word
    <3> QED BY <1>0, <2>1, <3>1, <3>2, <3>3, <3>4, <3>5 DEF Word
  <2> QED BY <2>1 DEF BlocksAt
<1>7. StopsAt(es, B, L, 1) = {c}
  BY <1>0, <1>6 DEF StopsAt
<1>8. ASSUME NEW j \in 1 .. Len(es), NEW a \in StopsAt(es, B, L, j)
      PROVE  a \in BlocksAt(es, B, j) \/ \A d \in BlocksAt(es, B, j) : d < a
  <2>1. CASE j = 1
    BY <1>6, <2>1
  <2>2. CASE j # 1
    <3>1. j - 1 \in 1 .. Len(cs) /\ es[j] = cs[j - 1] /\ EndAt(es, j) = EndAt(cs, j - 1)
      BY <1>0, <2>2 DEF EndAt
    <3>2. BlocksAt(es, B, j) = BlocksAt(cs, B, j - 1) /\ StopsAt(es, B, L, j) = StopsAt(cs, B, L, j - 1)
      BY <3>1 DEF BlocksAt, StopsAt
    <3> QED BY <3>1, <3>2 DEF Tiled
  <2> QED BY <2>1, <2>2
<1>9. Tiled(es, B, L, c)
  <2>1. \A b, d \in B : b < d => b + Word * L[b] <= d
    BY DEF Tiled
  <2> QED BY <1>3, <1>5, <1>6, <1>7, <1>8, <2>1 DEF Tiled
<1> QED BY <1>2, <1>9

-----------------------------------------------------------------------------
(* The inductive invariant: whatever holds as long as no word of the       *)
(* program's was struck.                                                   *)
TypeRight ==
    /\ free \in Nat /\ live \in Nat /\ nextGc \in Nat /\ prev \in Nat /\ fb \in Nat
    /\ locals \in [Locals -> Nat] /\ global \in Nat
    /\ pc \in {"run", "search", "clear", "mark", "sweep", "struck", "out of memory"}

ChunksRight ==
    /\ ChunkList(chunks)
    /\ mem \in [WordsIn(chunks) -> Nat]
    /\ bump \in Nat /\ end \in Nat
    /\ IF chunks = <<>> THEN bump = 0 /\ end = 0 ELSE end = EndAt(chunks, 1)

(* What is in no block is zero.                                            *)
Sizes == [b \in blocks |-> SizeOf(mem[b])]
BlocksRight ==
    /\ Tiled(chunks, blocks, Sizes, bump)
    /\ \A b \in blocks : TagOf(mem[b]) <= 4
    /\ \A a \in WordsIn(chunks) : mem[a] = 0 \/ \E b \in blocks : b <= a /\ a < Behind(b)

(* Every block of the program's, whether it can get at it or not, is as it *)
(* wrote it.                                                               *)
Holds(b) ==
    /\ b \in blocks /\ objs[b] \in Seq(Nat)
    /\ Len(objs[b]) >= 2 /\ SizeOf(objs[b][1]) = Len(objs[b])
    /\ TagOf(objs[b][1]) <= 4 /\ ~IsMarked(objs[b][1])
    /\ ClearMark(mem[b]) = objs[b][1]
    /\ \A k \in 2 .. Len(objs[b]) : mem[b + Word * (k - 1)] = objs[b][k]
ObjsRight == \A b \in DOMAIN objs : Holds(b)

(* While the program waits for a block it has only what it can get at.     *)
RequestRight ==
    Pending => /\ request.words \in Seq(Nat) /\ Asked >= 2 /\ request.to \in Locals
               /\ \E t \in 1 .. 4 : request.words[1] = Header(t, Asked)
               /\ DOMAIN objs \subseteq Reachable

ListRight == /\ listed \subseteq blocks /\ listed \cap DOMAIN objs = {}
             /\ pc # "mark" => FreeListRight
SearchRight == pc = "search" => IF prev = 0 THEN fb = free ELSE prev \in listed /\ fb = Link(prev)
Unmarked == pc \notin {"mark", "sweep"} => \A b \in blocks : ~IsMarked(mem[b])

(* A walk is at a stop; IsDone is what it has passed.                      *)
WalkRight == pc \in {"clear", "sweep"} =>
    IF chunks = <<>> THEN ci = 1 /\ p = 0
    ELSE ci \in 1 .. Len(chunks) /\ p \in StopsAt(chunks, blocks, Sizes, ci)
IsDone(b) == \/ \E i \in 1 .. ci - 1 : b \in BlocksAt(chunks, blocks, i)
             \/ b \in BlocksAt(chunks, blocks, ci) /\ b < p

NoneToScan == pc # "mark" => todo = {} /\ fields = {}

(* What a marked block names is marked, or a word yet to be read names it. *)
Traced(b) == \A k \in ValuesAt(objs[b][1]) :
                objs[b][k + 1] \in DOMAIN objs => b + Word * k \in fields \/ IsMarked(mem[objs[b][k + 1]])
MarkRight == pc = "mark" =>
    /\ todo \subseteq DOMAIN mem /\ fields \subseteq DOMAIN mem
    /\ \A w \in Roots \cap DOMAIN objs : IsMarked(mem[w])
    /\ \A b \in DOMAIN objs : IsMarked(mem[b]) => b \in todo \/ Traced(b)

(* What the sweep has not passed is marked if it is the program's; what it *)
(* has passed is not.                                                      *)
SweepRight == pc = "sweep" =>
    /\ \A b \in DOMAIN objs : IsDone(b) \/ IsMarked(mem[b])
    /\ \A b \in blocks : IsDone(b) => ~IsMarked(mem[b])
    /\ \A b \in listed : IsDone(b)

HeapRight == TypeRight /\ ChunksRight /\ BlocksRight /\ ObjsRight
StepRight == /\ RequestRight /\ ListRight /\ SearchRight /\ Unmarked /\ NoneToScan
             /\ WalkRight /\ MarkRight /\ SweepRight
IInv == pc # "struck" => HeapRight /\ StepRight

-----------------------------------------------------------------------------
(* What the invariant says of one block.                                   *)

(* Where the chunks are and what memory is.                                *)
LEMMA ChunksAre ==
  ASSUME ChunksRight
  PROVE  /\ Len(chunks) \in Nat /\ DOMAIN chunks = 1 .. Len(chunks)
         /\ \A i \in 1 .. Len(chunks) : /\ chunks[i] \in Nat /\ ChunkEnd(i) = EndAt(chunks, i)
                                        /\ EndAt(chunks, i) \in Nat
         /\ DOMAIN mem = WordsIn(chunks) /\ \A a \in DOMAIN mem : mem[a] \in Nat
<1>1. \A i \in 1 .. Len(chunks) : chunks[i] \in Nat /\ EndAt(chunks, i) \in Nat
  BY ChunksApart DEF ChunksRight
<1> QED BY <1>1 DEF ChunksRight, ChunkList, ChunkEnd, EndAt

(* A block lies in one chunk, and its header has a size and a tag.         *)
LEMMA BlockIs ==
  ASSUME ChunksRight, BlocksRight, NEW b \in blocks
  PROVE  /\ b \in Nat /\ b # 0 /\ b % Word = 0 /\ b \in DOMAIN mem /\ mem[b] \in Nat
         /\ SizeOf(mem[b]) \in 2 .. MaxBlock /\ TagOf(mem[b]) \in 0 .. 4
         /\ Behind(b) \in Nat /\ b + Word < Behind(b) /\ Sizes[b] = SizeOf(mem[b])
         /\ \E i \in 1 .. Len(chunks) : b \in BlocksAt(chunks, blocks, i)
<1>1. PICK i \in 1 .. Len(chunks) : chunks[i] <= b /\ b + Word * SizeOf(mem[b]) <= EndAt(chunks, i)
  BY DEF BlocksRight, Tiled, Sizes
<1>2. b \in Nat /\ b % Word = 0 /\ SizeOf(mem[b]) \in Nat /\ SizeOf(mem[b]) >= 2
  BY DEF BlocksRight, Tiled, Sizes
<1>3. /\ chunks[i] \in Nat /\ chunks[i] # 0 /\ EndAt(chunks, i) = chunks[i] + Word * ChunkWords
      /\ ChunkWords \in Nat
  BY ChunksApart, GcAssumption DEF EndAt, ChunksRight
<1>4. Behind(b) \in Nat /\ b + Word < Behind(b) /\ b < EndAt(chunks, i) /\ SizeOf(mem[b]) <= ChunkWords
  <2> DEFINE s == SizeOf(mem[b])
  <2> HIDE DEF s
  <2>1. s \in Nat /\ s >= 2 /\ b \in Nat /\ chunks[i] <= b /\ b + Word * s <= chunks[i] + Word * ChunkWords
    BY <1>1, <1>2, <1>3 DEF s
  <2>2. b + Word * s \in Nat /\ b + Word < b + Word * s /\ b < chunks[i] + Word * ChunkWords /\ s <= ChunkWords
    BY <1>3, <2>1 DEF Word
  <2> QED BY <1>3, <2>2 DEF s, Behind
<1>5. b \in DOMAIN mem /\ mem[b] \in Nat
  BY <1>1, <1>2, <1>4, WordsInAre DEF ChunksRight
<1>6. ChunkWords <= MaxBlock /\ ChunkWords \in Nat /\ MaxBlock \in Nat
  BY GcAssumption DEF MaxBlock
<1>7. SizeOf(mem[b]) \in 2 .. MaxBlock
  BY <1>2, <1>4, <1>6
<1>8. TagOf(mem[b]) \in 0 .. 4
  <2> DEFINE t == TagOf(mem[b])
  <2>1. t \in 0 .. 127 /\ t <= 4
    BY <1>5, HeaderParts DEF BlocksRight
  <2> HIDE DEF t
  <2>2. t \in 0 .. 4
    BY <2>1
  <2> QED BY <2>2 DEF t
<1>9. b \in BlocksAt(chunks, blocks, i)
  BY <1>1, <1>4 DEF BlocksAt
<1> QED BY <1>1, <1>2, <1>3, <1>4, <1>5, <1>7, <1>8, <1>9 DEF Sizes

(* Its words are words of memory, and numbers.                             *)
LEMMA BlockWord ==
  ASSUME ChunksRight, BlocksRight, NEW b \in blocks, NEW k \in Nat, k < SizeOf(mem[b])
  PROVE  b + Word * k \in DOMAIN mem /\ mem[b + Word * k] \in Nat
         /\ b <= b + Word * k /\ b + Word * k < Behind(b)
<1>1. b \in Nat /\ b % Word = 0 /\ SizeOf(mem[b]) \in Nat
  BY BlockIs
<1>2. PICK i \in 1 .. Len(chunks) : chunks[i] <= b /\ b + Word * SizeOf(mem[b]) <= EndAt(chunks, i)
  BY DEF BlocksRight, Tiled, Sizes
<1>3. b + Word * k \in Nat /\ (b + Word * k) % Word = 0
  BY <1>1, WordBehind
<1>4. b <= b + Word * k /\ b + Word * k < Behind(b)
  BY <1>1 DEF Behind, Word
<1>5. chunks[i] <= b + Word * k /\ b + Word * k < EndAt(chunks, i)
  BY <1>1, <1>2, <1>3, <1>4, ChunksAre DEF Behind, Word
<1>6. b + Word * k \in WordsIn(chunks)
  BY <1>3, <1>5, WordsInAre DEF ChunksRight
<1> QED BY <1>4, <1>6, ChunksAre

(* A word is in one block only.                                            *)
LEMMA BlocksApart ==
  ASSUME ChunksRight, BlocksRight, NEW b \in blocks, NEW d \in blocks, NEW a \in Nat,
         b <= a, a < Behind(b), d <= a, a < Behind(d)
  PROVE  b = d
BY OneBlock, BlockIs DEF BlocksRight, Behind

(* The link of a block.                                                    *)
LEMMA LinkIs ==
  ASSUME ChunksRight, BlocksRight, NEW b \in blocks
  PROVE  b + Word \in DOMAIN mem /\ Link(b) \in Nat /\ b < b + Word /\ b + Word < Behind(b)
<1>1. SizeOf(mem[b]) \in Nat /\ 1 < SizeOf(mem[b]) /\ b \in Nat
  BY BlockIs
<1>2. b + Word * 1 \in DOMAIN mem /\ mem[b + Word * 1] \in Nat /\ b + Word * 1 < Behind(b)
  BY <1>1, BlockWord
<1> QED BY <1>1, <1>2 DEF Link, Word

(* The header and the words of a block of the program's.                   *)
LEMMA ObjIs ==
  ASSUME ChunksRight, BlocksRight, ObjsRight, NEW b \in DOMAIN objs
  PROVE  /\ b \in blocks /\ Len(objs[b]) = SizeOf(mem[b]) /\ Len(objs[b]) \in Nat
         /\ SizeOf(objs[b][1]) = SizeOf(mem[b]) /\ TagOf(objs[b][1]) = TagOf(mem[b])
         /\ ValuesAt(objs[b][1]) = ValuesAt(mem[b])
         /\ \A k \in ValuesAt(mem[b]) : /\ k \in Nat /\ k < SizeOf(mem[b])
                                        /\ objs[b][k + 1] = mem[b + Word * k]
<1>1. Holds(b) /\ b \in blocks /\ mem[b] \in Nat /\ SizeOf(mem[b]) \in Nat
  <2>1. Holds(b) /\ b \in blocks
    BY DEF ObjsRight, Holds
  <2> QED BY <2>1, BlockIs
<1>2. SizeOf(objs[b][1]) = SizeOf(mem[b]) /\ TagOf(objs[b][1]) = TagOf(mem[b])
  BY <1>1, HeaderParts DEF Holds
<1>3. Len(objs[b]) = SizeOf(mem[b])
  BY <1>1, <1>2 DEF Holds
<1>4. ValuesAt(objs[b][1]) = ValuesAt(mem[b])
  BY <1>2 DEF ValuesAt
<1>5. ASSUME NEW k \in ValuesAt(mem[b])
      PROVE  k \in Nat /\ k < SizeOf(mem[b]) /\ objs[b][k + 1] = mem[b + Word * k]
  <2>1. k \in Nat /\ k >= 1 /\ k < SizeOf(mem[b])
    BY <1>1 DEF ValuesAt
  <2>2. k + 1 \in 2 .. Len(objs[b]) /\ (k + 1) - 1 = k
    BY <1>1, <1>3, <2>1
  <2>3. mem[b + Word * ((k + 1) - 1)] = objs[b][k + 1]
    BY <1>1, <2>2 DEF Holds
  <2> QED BY <2>1, <2>2, <2>3
<1> QED BY <1>1, <1>2, <1>3, <1>4, <1>5

(* A stop of a walk that has a size is a block; at the others the walk is  *)
(* through with the chunk.                                                 *)
LEMMA StopIs ==
  ASSUME ChunksRight, BlocksRight, NEW i \in 1 .. Len(chunks),
         NEW a \in StopsAt(chunks, blocks, Sizes, i)
  PROVE  IF a < ChunkEnd(i) /\ SizeOf(mem[a]) # 0
         THEN a \in BlocksAt(chunks, blocks, i) /\ Behind(a) \in StopsAt(chunks, blocks, Sizes, i)
         ELSE \A b \in BlocksAt(chunks, blocks, i) : b < a
<1>1. a \in BlocksAt(chunks, blocks, i) \/ \A b \in BlocksAt(chunks, blocks, i) : b < a
  BY DEF BlocksRight, Tiled
<1>2. CASE a \in BlocksAt(chunks, blocks, i)
  <2>1. a \in blocks /\ a < EndAt(chunks, i)
    BY <1>2 DEF BlocksAt
  <2>2. SizeOf(mem[a]) # 0 /\ Behind(a) = a + Word * Sizes[a]
    BY <2>1, BlockIs DEF Behind
  <2> QED BY <1>2, <2>1, <2>2, ChunksAre DEF StopsAt
<1>3. CASE a \notin BlocksAt(chunks, blocks, i)
  <2>1. /\ a \in Nat /\ a % Word = 0 /\ chunks[i] <= a
        /\ \A x \in Nat : a <= x /\ x < EndAt(chunks, i) => ~\E b \in blocks : b <= x /\ x < b + Word * Sizes[b]
    BY <1>1, <1>3, NoneBeyond DEF ChunksRight, BlocksRight
  <2>2. ASSUME a < EndAt(chunks, i) PROVE SizeOf(mem[a]) = 0
    <3>1. a \in WordsIn(chunks)
      BY <2>1, <2>2, WordsInAre DEF ChunksRight
    <3>2. ~\E b \in blocks : b <= a /\ a < Behind(b)
      BY <2>1, <2>2 DEF Behind, Sizes
    <3> QED BY <3>1, <3>2, NoSize DEF BlocksRight
  <2> QED BY <1>1, <1>3, <2>2, ChunksAre
<1> QED BY <1>2, <1>3

-----------------------------------------------------------------------------
(* What the program can get at.                                            *)

(* It is what the roots name and what the values of its members name.      *)
LEMMA ReachIs ==
  /\ Reachable \subseteq DOMAIN objs /\ Roots \cap DOMAIN objs \subseteq Reachable
  /\ \A b \in Reachable : ValuesOf(b) \cap DOMAIN objs \subseteq Reachable
<1>1. Reachable \subseteq DOMAIN objs /\ Roots \cap DOMAIN objs \subseteq Reachable
  BY DEF Reachable
<1>2. ASSUME NEW b \in Reachable, NEW v \in ValuesOf(b) \cap DOMAIN objs PROVE v \in Reachable
  BY DEF Reachable, Closed
<1> QED BY <1>1, <1>2

(* A step of the runtime does not change it.                               *)
LEMMA SameReach ==
  ASSUME UNCHANGED <<objs, locals, global>>
  PROVE  Reachable' = Reachable
<1>1. Roots' = Roots
  BY DEF Roots
<1>2. \A b : ValuesOf(b)' = ValuesOf(b)
  BY DEF ValuesOf
<1>3. Closed' = Closed
  BY <1>2 DEF Closed
<1> QED BY <1>1, <1>3 DEF Reachable

(* Without the blocks that it cannot get at it can get at the same ones.   *)
LEMMA AskReach ==
  ASSUME objs' = [b \in Reachable |-> objs[b]], UNCHANGED <<locals, global>>
  PROVE  DOMAIN objs' \subseteq Reachable'
<1>1. DOMAIN objs' = Reachable /\ Roots' = Roots
  BY DEF Roots
<1>2. ASSUME NEW b \in Reachable, NEW S \in Closed', Roots' \cap DOMAIN objs' \subseteq S
      PROVE  b \in S
  <2>1. S \subseteq Reachable
    BY <1>1, <1>2 DEF Closed
  <2>2. ASSUME NEW c \in S PROVE ValuesOf(c) \cap DOMAIN objs \subseteq S
    <3>1. ValuesOf(c)' = ValuesOf(c)
      BY <2>1 DEF ValuesOf
    <3>2. ValuesOf(c) \cap DOMAIN objs \subseteq Reachable
      BY <2>1, ReachIs
    <3>3. ValuesOf(c)' \cap DOMAIN objs' \subseteq S
      BY <1>2 DEF Closed
    <3> QED BY <1>1, <3>1, <3>2, <3>3
  <2>3. S \in Closed
    BY <2>1, <2>2, ReachIs DEF Closed
  <2>4. Roots \cap DOMAIN objs \subseteq S
    BY <1>1, <1>2, ReachIs
  <2> QED BY <2>3, <2>4 DEF Reachable
<1> QED BY <1>1, <1>2 DEF Reachable

(* When nothing is left to be scanned, all of the program's is marked      *)
(* (rt.c:190-194).                                                         *)
LEMMA AllMarked ==
  ASSUME HeapRight, MarkRight, RequestRight, pc = "mark", todo = {}, fields = {}
  PROVE  \A b \in DOMAIN objs : IsMarked(mem[b])
<1> DEFINE S == {b \in DOMAIN objs : IsMarked(mem[b])}
<1>1. Roots \cap DOMAIN objs \subseteq S
  BY DEF MarkRight
<1>2. ASSUME NEW b \in S, NEW v \in ValuesOf(b) \cap DOMAIN objs PROVE v \in S
  <2>1. Traced(b)
    BY DEF MarkRight
  <2>2. PICK k \in ValuesAt(objs[b][1]) : v = objs[b][k + 1]
    BY DEF ValuesOf
  <2> QED BY <2>1, <2>2 DEF Traced
<1>3. S \in Closed
  BY <1>2 DEF Closed
<1>4. DOMAIN objs \subseteq Reachable
  BY DEF RequestRight, Pending
<1> QED BY <1>1, <1>3, <1>4 DEF Reachable

-----------------------------------------------------------------------------
(* Changes of the heap.                                                    *)

(* Neither memory nor what the program has changes.                        *)
LEMMA HeapKept ==
  ASSUME ChunksRight, BlocksRight, ObjsRight, UNCHANGED <<mem, chunks, bump, end, blocks, objs>>
  PROVE  /\ ChunksRight' /\ BlocksRight' /\ ObjsRight' /\ Sizes' = Sizes
         /\ \A b : Link(b)' = Link(b)
<1>1. Sizes' = Sizes /\ \A b : Link(b)' = Link(b) /\ Behind(b)' = Behind(b)
  BY DEF Sizes, Link, Behind
<1>2. ChunksRight'
  BY DEF ChunksRight
<1>3. BlocksRight'
  BY <1>1 DEF BlocksRight
<1>4. ObjsRight'
  BY DEF ObjsRight, Holds
<1> QED BY <1>1, <1>2, <1>3, <1>4

(* The sizes of blocks stay, and so does what is in no block.              *)
LEMMA SizesKept ==
  ASSUME ChunksRight, BlocksRight, UNCHANGED <<chunks, bump, end, blocks>>,
         mem' \in [DOMAIN mem -> Nat],
         \A b \in blocks : SizeOf(mem'[b]) = SizeOf(mem[b]) /\ TagOf(mem'[b]) <= 4,
         \A a \in DOMAIN mem : mem[a] = 0 /\ (\A b \in blocks : ~(b <= a /\ a < Behind(b))) => mem'[a] = 0
  PROVE  ChunksRight' /\ BlocksRight' /\ Sizes' = Sizes
<1>1. Sizes' = Sizes /\ \A b \in blocks : Behind(b)' = Behind(b)
  BY DEF Sizes, Behind
<1>2. ChunksRight'
  BY DEF ChunksRight
<1>3. \A a \in WordsIn(chunks) : mem'[a] = 0 \/ \E b \in blocks : b <= a /\ a < Behind(b)
  BY ChunksAre DEF BlocksRight
<1>4. BlocksRight'
  BY <1>1, <1>3 DEF BlocksRight
<1> QED BY <1>1, <1>2, <1>4

(* A step that writes into no block of the program's.                      *)
LEMMA ObjsKept ==
  ASSUME ChunksRight, BlocksRight, ObjsRight, UNCHANGED objs, blocks \subseteq blocks',
         \A b \in DOMAIN objs : ClearMark(mem'[b]) = ClearMark(mem[b]),
         \A b \in DOMAIN objs : \A a \in DOMAIN mem : b < a /\ a < Behind(b) => mem'[a] = mem[a]
  PROVE  ObjsRight'
<1> SUFFICES ASSUME NEW b \in DOMAIN objs PROVE Holds(b)'
  BY DEF ObjsRight
<1>1. Holds(b)
  BY DEF ObjsRight
<1>2. ASSUME NEW k \in 2 .. Len(objs[b]) PROVE mem'[b + Word * (k - 1)] = objs[b][k]
  <2>1. b \in blocks /\ Len(objs[b]) = SizeOf(mem[b]) /\ Len(objs[b]) \in Nat
    BY ObjIs
  <2>2. b \in Nat /\ k - 1 \in Nat /\ k - 1 >= 1 /\ k - 1 < SizeOf(mem[b])
    BY <2>1, BlockIs
  <2>3. b + Word * (k - 1) \in DOMAIN mem /\ b + Word * (k - 1) < Behind(b) /\ b < b + Word * (k - 1)
    BY <2>1, <2>2, BlockWord DEF Word
  <2> QED BY <1>1, <2>3 DEF Holds
<1> QED BY <1>1, <1>2 DEF Holds

(* Words are marked, none of them within a block of the program's          *)
(* (mark_word, rt.c:125-139).                                              *)
LEMMA Marking ==
  ASSUME ChunksRight, BlocksRight, ObjsRight, NEW W \in SUBSET Nat, ~Strikes(W), Mark(W),
         UNCHANGED <<chunks, bump, end, blocks, objs>>, todo \subseteq DOMAIN mem
  PROVE  /\ ChunksRight' /\ BlocksRight' /\ Sizes' = Sizes /\ ObjsRight'
         /\ DOMAIN mem' = DOMAIN mem /\ todo \subseteq todo' /\ todo' \subseteq DOMAIN mem
         /\ \A b \in DOMAIN objs : /\ b \in W => IsMarked(mem'[b])
                                   /\ IsMarked(mem[b]) => IsMarked(mem'[b])
                                   /\ IsMarked(mem'[b]) => IsMarked(mem[b]) \/ b \in todo'
<1> DEFINE found == {w \in W : Accepts(w)}
<1>1. /\ mem' = [a \in DOMAIN mem |-> IF a \in found THEN SetMark(mem[a]) ELSE mem[a]]
      /\ todo' = todo \cup found
  BY DEF Mark
<1>2. \A a \in DOMAIN mem : mem[a] \in Nat
  BY ChunksAre
<1>3. ASSUME NEW w \in found PROVE w \in DOMAIN mem /\ SizeOf(mem[w]) >= 2 /\ ~Inside(w)
  <2>1. Accepts(w) /\ w \in Nat
    OBVIOUS
  <2>2. ~Inside(w) /\ SizeOf(mem[w]) >= 2
    BY <2>1 DEF Strikes, Accepts, HdrPlausible, LooksLikeHeader
  <2>3. w % Word = 0 /\ \E i \in 1 .. Len(chunks) : chunks[i] <= w /\ w < EndAt(chunks, i)
    BY <2>1, ChunksAre DEF Accepts, InChunk
  <2>4. w \in WordsIn(chunks)
    BY <2>1, <2>3, WordsInAre DEF ChunksRight
  <2> QED BY <2>2, <2>4, ChunksAre
<1> HIDE DEF found
<1>4. \A a \in DOMAIN mem : /\ mem'[a] \in Nat /\ SizeOf(mem'[a]) = SizeOf(mem[a])
                            /\ TagOf(mem'[a]) = TagOf(mem[a]) /\ ClearMark(mem'[a]) = ClearMark(mem[a])
                            /\ (a \in found => IsMarked(mem'[a])) /\ (a \notin found => mem'[a] = mem[a])
  BY <1>1, <1>2, HeaderParts
<1>5. \A a \in DOMAIN mem : mem[a] = 0 => mem'[a] = 0
  BY <1>3, <1>4, NoSize
<1>6. mem' \in [DOMAIN mem -> Nat]
  BY <1>1, <1>4
<1>7. \A b \in blocks : SizeOf(mem'[b]) = SizeOf(mem[b]) /\ TagOf(mem'[b]) <= 4
  BY <1>4, BlockIs DEF BlocksRight
<1>8. ChunksRight' /\ BlocksRight' /\ Sizes' = Sizes
  BY <1>5, <1>6, <1>7, SizesKept
<1>9. ObjsRight'
  <2>1. ASSUME NEW b \in DOMAIN objs PROVE ClearMark(mem'[b]) = ClearMark(mem[b])
    BY <1>4, ObjIs, BlockIs
  <2>2. ASSUME NEW b \in DOMAIN objs, NEW a \in DOMAIN mem, b < a, a < Behind(b) PROVE mem'[a] = mem[a]
    <3>1. Behind(b) = b + Word * Len(objs[b])
      BY ObjIs DEF Behind
    <3>2. Inside(a)
      BY <2>2, <3>1 DEF Inside
    <3> QED BY <1>3, <1>4, <3>2
  <2> QED BY <2>1, <2>2, ObjsKept
<1>10. ASSUME NEW b \in DOMAIN objs
       PROVE  /\ b \in W => IsMarked(mem'[b])
              /\ IsMarked(mem[b]) => IsMarked(mem'[b])
              /\ IsMarked(mem'[b]) => IsMarked(mem[b]) \/ b \in todo'
  <2>1. b \in blocks /\ b \in DOMAIN mem
    BY ObjIs, BlockIs
  <2>2. b \in found => IsMarked(mem'[b]) /\ b \in todo'
    BY <1>1, <1>4, <2>1
  <2>3. b \notin found => mem'[b] = mem[b]
    BY <1>4, <2>1
  <2>4. ASSUME b \in W PROVE b \in found \/ IsMarked(mem[b])
    <3>1. HdrPlausible(mem[b])
      BY <2>1, BlockIs DEF HdrPlausible, LooksLikeHeader
    <3>2. b % Word = 0 /\ InChunk(b)
      BY <2>1, BlockIs, ChunksAre DEF InChunk, BlocksAt
    <3> QED BY <2>4, <3>1, <3>2 DEF found, Accepts
  <2> QED BY <2>2, <2>3, <2>4
<1>11. DOMAIN mem' = DOMAIN mem /\ todo \subseteq todo' /\ todo' \subseteq DOMAIN mem
  BY <1>1, <1>3
<1> QED BY <1>8, <1>9, <1>10, <1>11

-----------------------------------------------------------------------------
(* The steps that leave memory as it is.                                   *)

(* They keep what is said of blocks, and most of the lists and marks.      *)
LEMMA Quiet ==
  ASSUME HeapRight, StepRight, UNCHANGED <<mem, chunks, bump, end, blocks, program>>
  PROVE  /\ ChunksRight' /\ BlocksRight' /\ ObjsRight' /\ Sizes' = Sizes
         /\ Pending => RequestRight'
         /\ UNCHANGED <<free, listed>> /\ pc # "mark" => ListRight'
         /\ pc \notin {"mark", "sweep"} => Unmarked'
         /\ UNCHANGED marking /\ pc # "mark" => NoneToScan'
<1>1. /\ ChunksRight' /\ BlocksRight' /\ ObjsRight' /\ Sizes' = Sizes
      /\ \A b : Link(b)' = Link(b)
  BY HeapKept DEF HeapRight, program
<1>2. ASSUME Pending PROVE RequestRight'
  <2>1. Reachable' = Reachable
    BY SameReach DEF program
  <2> QED BY <1>2, <2>1 DEF StepRight, RequestRight, program, Asked
<1>3. ASSUME UNCHANGED <<free, listed>>, pc # "mark" PROVE ListRight'
  BY <1>1, <1>3 DEF StepRight, ListRight, FreeListRight, program
<1>4. ASSUME pc \notin {"mark", "sweep"} PROVE Unmarked'
  BY <1>4 DEF StepRight, Unmarked
<1>5. ASSUME UNCHANGED marking, pc # "mark" PROVE NoneToScan'
  BY <1>5 DEF StepRight, NoneToScan, marking
<1> QED BY <1>1, <1>2, <1>3, <1>4, <1>5

LEMMA SearchIs ==
  ASSUME HeapRight, ListRight, SearchRight, pc = "search"
  PROVE  /\ fb \in listed \cup {0} /\ free \in listed \cup {0} /\ 0 \notin listed
         /\ \A b \in listed : b \in blocks /\ Link(b) \in listed \cup {0} /\ Link(b) \in Nat
         /\ prev # 0 => prev \in listed /\ fb = Link(prev)
<1>1. listed \subseteq blocks /\ FreeListRight
  BY DEF ListRight
<1>2. \A b \in listed : Link(b) \in listed \cup {0}
  BY <1>1 DEF FreeListRight, RunsThrough
<1>3. free \in listed \cup {0}
  BY <1>1 DEF FreeListRight, RunsThrough
<1>4. \A b \in blocks : b # 0 /\ Link(b) \in Nat
  BY BlockIs, LinkIs DEF HeapRight
<1> QED BY <1>1, <1>2, <1>3, <1>4 DEF SearchRight

LEMMA StepSkip ==
  ASSUME HeapRight, StepRight, Skip
  PROVE  IInv'
<1>1. pc = "search" /\ pc' = "search" /\ fb # 0 /\ prev' = fb /\ fb' = Link(fb)
  BY DEF Skip, Searching
<1>2. UNCHANGED <<mem, chunks, bump, end, blocks, program, marking, free, live, nextGc, listed>>
  BY DEF Skip, heap
<1>3. fb \in listed /\ Link(fb) \in Nat /\ fb \in Nat
  BY <1>1, SearchIs DEF HeapRight, StepRight, TypeRight
<1>4. ChunksRight' /\ BlocksRight' /\ ObjsRight' /\ RequestRight' /\ ListRight' /\ Unmarked' /\ NoneToScan'
  BY <1>1, <1>2, Quiet DEF Pending
<1>5. TypeRight'
  BY <1>1, <1>2, <1>3 DEF HeapRight, TypeRight, program
<1>6. SearchRight'
  BY <1>1, <1>2, <1>3, BlockIs DEF HeapRight, StepRight, ListRight, SearchRight, Link
<1>7. WalkRight' /\ MarkRight' /\ SweepRight'
  BY <1>1 DEF WalkRight, MarkRight, SweepRight
<1> QED BY <1>4, <1>5, <1>6, <1>7 DEF IInv, HeapRight, StepRight

(* A walk begins at the first chunk.                                       *)
LEMMA WalkStarts ==
  ASSUME ChunksRight, StartWalk, UNCHANGED <<chunks, blocks>>, Sizes' = Sizes
  PROVE  WalkRight'
<1>1. CASE chunks = <<>>
  BY <1>1 DEF StartWalk, WalkRight
<1>2. CASE chunks # <<>>
  <2>1. 1 \in 1 .. Len(chunks)
    BY <1>2 DEF ChunksRight, ChunkList
  <2>2. ci' = 1 /\ p' = chunks[1] /\ p' \in StopsAt(chunks, blocks, Sizes, 1)
    BY <1>2 DEF StartWalk, StopsAt
  <2> QED BY <1>2, <2>1, <2>2 DEF WalkRight
<1> QED BY <1>1, <1>2

LEMMA StepCollect ==
  ASSUME HeapRight, StepRight, Collect
  PROVE  IInv'
<1>1. pc = "search" /\ pc' = "clear" /\ StartWalk
  BY DEF Collect, Searching
<1>2. UNCHANGED <<mem, chunks, bump, end, blocks, program, marking, free, live, nextGc, listed, search>>
  BY DEF Collect, heap
<1>3. /\ ChunksRight' /\ BlocksRight' /\ ObjsRight' /\ Sizes' = Sizes
      /\ RequestRight' /\ ListRight' /\ Unmarked' /\ NoneToScan'
  BY <1>1, <1>2, Quiet DEF Pending
<1>4. TypeRight'
  BY <1>1, <1>2 DEF HeapRight, TypeRight, program, search
<1>5. WalkRight'
  BY <1>1, <1>2, <1>3, WalkStarts DEF HeapRight
<1>6. SearchRight' /\ MarkRight' /\ SweepRight'
  BY <1>1 DEF SearchRight, MarkRight, SweepRight
<1> QED BY <1>3, <1>4, <1>5, <1>6 DEF IInv, HeapRight, StepRight

(* At a stop that is no block the walk is through with its chunk, and so   *)
(* with all before it.                                                     *)
LEMMA ChunkDone ==
  ASSUME ChunksRight, BlocksRight, WalkRight, pc \in {"clear", "sweep"}, ~AtBlock
  PROVE  \A b \in BlocksAt(chunks, blocks, ci) : chunks # <<>> => b < p
<1> SUFFICES ASSUME chunks # <<>> PROVE \A b \in BlocksAt(chunks, blocks, ci) : b < p
  OBVIOUS
<1>1. ci \in 1 .. Len(chunks) /\ p \in StopsAt(chunks, blocks, Sizes, ci)
  BY DEF WalkRight
<1>2. ~(p < ChunkEnd(ci) /\ SizeOf(mem[p]) # 0)
  BY <1>1, ChunksAre DEF AtBlock
<1> QED BY <1>1, <1>2, StopIs

(* Where a block is there are chunks, and it is in one of them.            *)
LEMMA DoneAtEnd ==
  ASSUME ChunksRight, BlocksRight, WalkRight, pc \in {"clear", "sweep"}, WalkDone, NEW b \in blocks
  PROVE  IsDone(b)
<1>1. PICK i \in 1 .. Len(chunks) : b \in BlocksAt(chunks, blocks, i)
  BY BlockIs
<1>2. Len(chunks) \in Nat /\ chunks # <<>>
  BY <1>1, ChunksAre DEF ChunksRight, ChunkList
<1>3. ci \in 1 .. Len(chunks) /\ ~AtBlock /\ ci >= Len(chunks)
  BY <1>2 DEF WalkRight, WalkDone
<1>4. i \in 1 .. ci - 1 \/ i = ci
  BY <1>2, <1>3
<1> QED BY <1>1, <1>2, <1>3, <1>4, ChunkDone DEF IsDone

LEMMA StepNextChunk ==
  ASSUME HeapRight, StepRight, NextChunk
  PROVE  IInv'
<1>1. pc \in {"clear", "sweep"} /\ pc' = pc /\ ~AtBlock /\ ci < Len(chunks) /\ ci' = ci + 1 /\ p' = chunks[ci + 1]
  BY DEF NextChunk
<1>2. UNCHANGED <<mem, chunks, bump, end, blocks, program, marking, free, live, nextGc, listed, search>>
  BY DEF NextChunk, heap
<1>3. /\ ChunksRight' /\ BlocksRight' /\ ObjsRight' /\ Sizes' = Sizes
      /\ RequestRight' /\ ListRight' /\ NoneToScan'
  BY <1>1, <1>2, Quiet DEF Pending
<1>4. TypeRight'
  BY <1>1, <1>2 DEF HeapRight, TypeRight, program, search
<1>5. chunks # <<>> /\ Len(chunks) \in Nat /\ ci \in 1 .. Len(chunks)
  <2>1. Len(chunks) \in Nat
    BY ChunksAre DEF HeapRight
  <2>2. IF chunks = <<>> THEN ci = 1 /\ p = 0 ELSE ci \in 1 .. Len(chunks)
    BY <1>1 DEF StepRight, WalkRight
  <2> QED BY <1>1, <2>1, <2>2
<1>6. ci' \in 1 .. Len(chunks)
  BY <1>1, <1>5
<1>7. WalkRight'
  BY <1>1, <1>2, <1>3, <1>5, <1>6 DEF WalkRight, StopsAt
<1>8. SweepRight'
  <2> SUFFICES ASSUME pc = "sweep" PROVE SweepRight'
    BY <1>1 DEF SweepRight
  <2>1. ASSUME NEW b \in blocks PROVE IsDone(b)' <=> IsDone(b)
    <3>1. \A d \in BlocksAt(chunks, blocks, ci) : d < p
      BY <1>1, <1>5, ChunkDone DEF HeapRight, StepRight
    <3>2. \A d \in BlocksAt(chunks, blocks, ci + 1) : d >= chunks[ci + 1] /\ d \in Nat
      BY BlockIs DEF BlocksAt, HeapRight
    <3>3. chunks[ci + 1] \in Nat
      BY <1>1, <1>6, ChunksAre DEF HeapRight
    <3>4. ~(b \in BlocksAt(chunks, blocks, ci + 1) /\ b < chunks[ci + 1])
      BY <3>2, <3>3
    <3>5. 1 .. (ci + 1) - 1 = (1 .. ci - 1) \cup {ci}
      BY <1>5
    <3> QED BY <1>1, <1>2, <3>1, <3>4, <3>5 DEF IsDone
  <2>2. /\ \A b \in DOMAIN objs : b \in blocks /\ (IsDone(b) \/ IsMarked(mem[b]))
        /\ \A b \in blocks : IsDone(b) => ~IsMarked(mem[b])
        /\ \A b \in listed : b \in blocks /\ IsDone(b)
    BY ObjIs DEF HeapRight, StepRight, SweepRight, ListRight
  <2> QED BY <1>2, <2>1, <2>2 DEF SweepRight, program
<1>9. SearchRight' /\ MarkRight' /\ Unmarked'
  BY <1>1, <1>2 DEF SearchRight, MarkRight, Unmarked, StepRight
<1> QED BY <1>3, <1>4, <1>7, <1>8, <1>9 DEF IInv, HeapRight, StepRight

(* Before the marks begin there is none to clear.                          *)
LEMMA StepClearBlock ==
  ASSUME HeapRight, StepRight, ClearBlock
  PROVE  IInv'
<1>1. pc = "clear" /\ pc' = "clear" /\ AtBlock /\ mem' = [mem EXCEPT ![p] = ClearMark(mem[p])] /\ p' = Behind(p)
  BY DEF ClearBlock
<1>2. chunks # <<>> /\ ci \in 1 .. Len(chunks) /\ p \in StopsAt(chunks, blocks, Sizes, ci)
  BY <1>1, ChunksAre DEF AtBlock, StepRight, HeapRight, WalkRight
<1>3. p \in BlocksAt(chunks, blocks, ci) /\ Behind(p) \in StopsAt(chunks, blocks, Sizes, ci)
  BY <1>1, <1>2, StopIs DEF AtBlock, HeapRight
<1>4. p \in blocks /\ mem[p] \in Nat /\ ~IsMarked(mem[p]) /\ p \in DOMAIN mem
  BY <1>1, <1>3, BlockIs DEF BlocksAt, HeapRight, StepRight, Unmarked
<1>5. mem' = mem
  <2>1. ClearMark(mem[p]) = mem[p]
    BY <1>4, HeaderParts
  <2>2. mem = [a \in DOMAIN mem |-> mem[a]]
    BY DEF HeapRight, ChunksRight
  <2> QED BY <1>1, <2>1, <2>2
<1>6. UNCHANGED <<chunks, bump, end, blocks, program, marking, free, live, nextGc, listed, search, ci>>
  BY DEF ClearBlock
<1>7. /\ ChunksRight' /\ BlocksRight' /\ ObjsRight' /\ Sizes' = Sizes
      /\ RequestRight' /\ ListRight' /\ Unmarked' /\ NoneToScan'
  BY <1>1, <1>5, <1>6, Quiet DEF Pending
<1>8. TypeRight'
  BY <1>1, <1>6 DEF HeapRight, TypeRight, program, search
<1>9. WalkRight'
  BY <1>1, <1>2, <1>3, <1>6, <1>7 DEF WalkRight
<1>10. SearchRight' /\ MarkRight' /\ SweepRight'
  BY <1>1 DEF SearchRight, MarkRight, SweepRight
<1> QED BY <1>7, <1>8, <1>9, <1>10 DEF IInv, HeapRight, StepRight

-----------------------------------------------------------------------------
(* The steps of the mark.                                                  *)

LEMMA StepScanRoots ==
  ASSUME HeapRight, StepRight, ScanRoots
  PROVE  IInv'
<1>1. pc = "clear" /\ UNCHANGED <<chunks, bump, end, blocks, program, free, live, nextGc, listed, search, fields>>
  BY DEF ScanRoots, Marks
<1>2. PICK d \in [Leftover -> Written \cup {0}] :
        LET W == Roots \cup {d[i] : i \in Leftover}
        IN  IF Strikes(W) THEN pc' = "struck" /\ UNCHANGED <<mem, todo>> ELSE pc' = "mark" /\ Mark(W)
  BY DEF ScanRoots
<1> DEFINE W == Roots \cup {d[i] : i \in Leftover}
<1>3. CASE Strikes(W)
  BY <1>2, <1>3 DEF IInv
<1>4. CASE ~Strikes(W)
  <2>1. pc' = "mark" /\ Mark(W)
    BY <1>2, <1>4
  <2>2. W \in SUBSET Nat
    <3>1. Roots \subseteq Nat
      BY DEF HeapRight, TypeRight, Roots
    <3>2. DOMAIN mem \subseteq Nat
      BY ChunksAre, WordsInAre DEF HeapRight, ChunksRight
    <3>3. Written \cup {0} \subseteq Nat
      BY <3>2 DEF Written
    <3> QED BY <3>1, <3>3
  <2>3. todo = {} /\ fields = {}
    BY <1>1 DEF StepRight, NoneToScan
  <2> HIDE DEF W
  <2>4. /\ ChunksRight' /\ BlocksRight' /\ Sizes' = Sizes /\ ObjsRight'
        /\ DOMAIN mem' = DOMAIN mem /\ todo' \subseteq DOMAIN mem
        /\ \A b \in DOMAIN objs : /\ b \in W => IsMarked(mem'[b])
                                  /\ IsMarked(mem'[b]) => IsMarked(mem[b]) \/ b \in todo'
    BY <1>1, <1>4, <2>1, <2>2, <2>3, Marking DEF HeapRight, program
  <2>5. TypeRight'
    BY <1>1, <2>1 DEF HeapRight, TypeRight, program, search
  <2>6. RequestRight'
    <3>1. Reachable' = Reachable
      BY <1>1, SameReach DEF program
    <3> QED BY <1>1, <3>1 DEF StepRight, RequestRight, program, Asked, Pending
  <2>7. ListRight'
    BY <1>1, <2>1 DEF StepRight, ListRight, program
  <2>8. MarkRight'
    <3>1. Roots' = Roots /\ Roots \subseteq W
      BY <1>1 DEF Roots, program, W
    <3>2. \A b \in DOMAIN objs : ~IsMarked(mem[b])
      BY <1>1, ObjIs DEF HeapRight, StepRight, Unmarked
    <3> QED BY <1>1, <2>1, <2>3, <2>4, <3>1, <3>2 DEF MarkRight, program
  <2>9. SearchRight' /\ Unmarked' /\ WalkRight' /\ SweepRight' /\ NoneToScan'
    BY <2>1 DEF SearchRight, Unmarked, WalkRight, SweepRight, NoneToScan
  <2> QED BY <2>4, <2>5, <2>6, <2>7, <2>8, <2>9 DEF IInv, HeapRight, StepRight
<1> QED BY <1>3, <1>4

LEMMA StepNextBlock ==
  ASSUME HeapRight, StepRight, NextBlock
  PROVE  IInv'
<1>1. /\ pc = "mark" /\ fields = {}
      /\ UNCHANGED <<mem, chunks, bump, end, blocks, program, free, live, nextGc, listed, search>>
  BY DEF NextBlock, Marks
<1>2. PICK b \in todo : /\ todo' = todo \ {b}
                        /\ IF FieldsOf(b) \subseteq DOMAIN mem
                           THEN fields' = FieldsOf(b) /\ UNCHANGED pc
                           ELSE pc' = "struck" /\ UNCHANGED fields
  BY DEF NextBlock
<1>3. CASE ~(FieldsOf(b) \subseteq DOMAIN mem)
  BY <1>2, <1>3 DEF IInv
<1>4. CASE FieldsOf(b) \subseteq DOMAIN mem
  <2>1. pc' = "mark" /\ fields' = FieldsOf(b)
    BY <1>1, <1>2, <1>4
  <2>2. ChunksRight' /\ BlocksRight' /\ ObjsRight' /\ RequestRight'
    BY <1>1, Quiet DEF Pending
  <2>3. TypeRight'
    BY <1>1, <2>1 DEF HeapRight, TypeRight, program, search
  <2>4. ListRight'
    BY <1>1, <2>1 DEF StepRight, ListRight, program
  <2>5. MarkRight'
    <3>1. /\ todo \subseteq DOMAIN mem /\ \A w \in Roots \cap DOMAIN objs : IsMarked(mem[w])
          /\ \A c \in DOMAIN objs : IsMarked(mem[c]) => c \in todo \/ Traced(c)
      BY <1>1 DEF StepRight, MarkRight
    <3>2. Roots' = Roots
      BY <1>1 DEF Roots, program
    <3>3. ASSUME NEW c \in DOMAIN objs, IsMarked(mem[c]) PROVE c \in todo' \/ Traced(c)'
      <4>1. CASE c = b
        <5>1. \A k \in ValuesAt(objs[c][1]) : c + Word * k \in fields'
          BY <2>1, <4>1, ObjIs DEF FieldsOf, HeapRight
        <5> QED BY <1>1, <5>1 DEF Traced, program
      <4>2. CASE c # b /\ c \in todo
        BY <1>2, <4>2
      <4>3. CASE c # b /\ c \notin todo
        <5>1. Traced(c)
          BY <3>1, <3>3, <4>3
        <5> QED BY <1>1, <5>1 DEF Traced, program
      <4> QED BY <4>1, <4>2, <4>3
    <3> QED BY <1>1, <1>2, <1>4, <2>1, <3>1, <3>2, <3>3 DEF MarkRight, program
  <2>6. SearchRight' /\ Unmarked' /\ WalkRight' /\ SweepRight' /\ NoneToScan'
    BY <2>1 DEF SearchRight, Unmarked, WalkRight, SweepRight, NoneToScan
  <2> QED BY <2>2, <2>3, <2>4, <2>5, <2>6 DEF IInv, HeapRight, StepRight
<1> QED BY <1>3, <1>4

LEMMA StepScanField ==
  ASSUME HeapRight, StepRight, ScanField
  PROVE  IInv'
<1>1. pc = "mark" /\ UNCHANGED <<chunks, bump, end, blocks, program, free, live, nextGc, listed, search>>
  BY DEF ScanField, Marks
<1>2. PICK a \in fields :
        /\ fields' = fields \ {a}
        /\ IF Strikes({mem[a]}) THEN pc' = "struck" /\ UNCHANGED <<mem, todo>>
           ELSE Mark({mem[a]}) /\ UNCHANGED pc
  BY DEF ScanField
<1>3. CASE Strikes({mem[a]})
  BY <1>2, <1>3 DEF IInv
<1>4. CASE ~Strikes({mem[a]})
  <2>0. /\ todo \subseteq DOMAIN mem /\ fields \subseteq DOMAIN mem
        /\ \A w \in Roots \cap DOMAIN objs : IsMarked(mem[w])
        /\ \A b \in DOMAIN objs : IsMarked(mem[b]) => b \in todo \/ Traced(b)
    BY <1>1 DEF StepRight, MarkRight
  <2>1. pc' = "mark" /\ Mark({mem[a]}) /\ {mem[a]} \in SUBSET Nat
    BY <1>1, <1>2, <1>4, <2>0, ChunksAre DEF HeapRight
  <2>2. /\ ChunksRight' /\ BlocksRight' /\ Sizes' = Sizes /\ ObjsRight'
        /\ DOMAIN mem' = DOMAIN mem /\ todo \subseteq todo' /\ todo' \subseteq DOMAIN mem
        /\ \A b \in DOMAIN objs : /\ b \in {mem[a]} => IsMarked(mem'[b])
                                  /\ IsMarked(mem[b]) => IsMarked(mem'[b])
                                  /\ IsMarked(mem'[b]) => IsMarked(mem[b]) \/ b \in todo'
    BY <1>1, <1>4, <2>0, <2>1, Marking DEF HeapRight, program
  <2>3. TypeRight'
    BY <1>1, <2>1 DEF HeapRight, TypeRight, program, search
  <2>4. RequestRight'
    <3>1. Reachable' = Reachable
      BY <1>1, SameReach DEF program
    <3> QED BY <1>1, <3>1 DEF StepRight, RequestRight, program, Asked, Pending
  <2>5. ListRight'
    BY <1>1, <2>1 DEF StepRight, ListRight, program
  <2>6. MarkRight'
    <3>1. Roots' = Roots
      BY <1>1 DEF Roots, program
    <3>2. ASSUME NEW b \in DOMAIN objs, IsMarked(mem'[b]) PROVE b \in todo' \/ Traced(b)'
      <4>1. CASE ~IsMarked(mem[b]) \/ b \in todo
        BY <2>2, <3>2, <4>1
      <4>2. CASE IsMarked(mem[b]) /\ b \notin todo
        <5>1. Traced(b)
          BY <2>0, <4>2
        <5>2. ASSUME NEW k \in ValuesAt(objs[b][1]), objs[b][k + 1] \in DOMAIN objs
              PROVE  b + Word * k \in fields' \/ IsMarked(mem'[objs[b][k + 1]])
          <6>1. objs[b][k + 1] = mem[b + Word * k]
            BY ObjIs DEF HeapRight
          <6>2. CASE b + Word * k = a
            BY <2>2, <5>2, <6>1, <6>2
          <6>3. CASE b + Word * k # a
            BY <1>2, <2>2, <5>1, <5>2, <6>3 DEF Traced
          <6> QED BY <6>2, <6>3
        <5> QED BY <1>1, <5>2 DEF Traced, program
      <4> QED BY <4>1, <4>2
    <3> QED BY <1>1, <1>2, <2>0, <2>1, <2>2, <3>1, <3>2 DEF MarkRight, program
  <2>7. SearchRight' /\ Unmarked' /\ WalkRight' /\ SweepRight' /\ NoneToScan'
    BY <2>1 DEF SearchRight, Unmarked, WalkRight, SweepRight, NoneToScan
  <2> QED BY <2>2, <2>3, <2>4, <2>5, <2>6, <2>7 DEF IInv, HeapRight, StepRight
<1> QED BY <1>3, <1>4

-----------------------------------------------------------------------------
(* The steps of the sweep.                                                 *)

LEMMA StepStartSweep ==
  ASSUME HeapRight, StepRight, StartSweep
  PROVE  IInv'
<1>1. /\ pc = "mark" /\ fields = {} /\ todo = {} /\ pc' = "sweep" /\ free' = 0 /\ listed' = {} /\ live' = 0
      /\ StartWalk
      /\ UNCHANGED <<mem, chunks, bump, end, blocks, program, nextGc, search, marking>>
  BY DEF StartSweep
<1>2. ChunksRight' /\ BlocksRight' /\ ObjsRight' /\ Sizes' = Sizes /\ RequestRight'
  BY <1>1, Quiet DEF Pending
<1>3. TypeRight'
  BY <1>1 DEF HeapRight, TypeRight, program, search
<1>4. WalkRight'
  BY <1>1, <1>2, WalkStarts DEF HeapRight
<1>5. ListRight'
  BY <1>1, ListEmpty DEF ListRight, FreeListRight
<1>6. SweepRight'
  <2>1. \A b \in DOMAIN objs : IsMarked(mem[b])
    BY <1>1, AllMarked DEF StepRight
  <2>2. ASSUME NEW b \in blocks PROVE ~IsDone(b)'
    <3>1. PICK i \in 1 .. Len(chunks) : b \in BlocksAt(chunks, blocks, i)
      BY BlockIs DEF HeapRight
    <3>2. 1 \in 1 .. Len(chunks) /\ chunks # <<>> /\ chunks[1] \in Nat
      BY <3>1, ChunksAre DEF HeapRight, ChunksRight, ChunkList
    <3>3. ci' = 1 /\ p' = chunks[1]
      BY <1>1, <3>2 DEF StartWalk
    <3>4. b \in Nat
      BY BlockIs DEF HeapRight
    <3> QED BY <1>1, <3>2, <3>3, <3>4 DEF IsDone, BlocksAt
  <2> QED BY <1>1, <2>1, <2>2 DEF SweepRight, program
<1>7. SearchRight' /\ Unmarked' /\ MarkRight' /\ NoneToScan'
  BY <1>1 DEF SearchRight, Unmarked, MarkRight, NoneToScan, marking
<1> QED BY <1>2, <1>3, <1>4, <1>5, <1>6, <1>7 DEF IInv, HeapRight, StepRight

LEMMA StepCollected ==
  ASSUME HeapRight, StepRight, Collected
  PROVE  IInv'
<1>1. /\ pc = "sweep" /\ WalkDone /\ nextGc' = LimitAfter(live) /\ pc' = "search" /\ prev' = 0 /\ fb' = free
      /\ UNCHANGED <<mem, chunks, bump, end, free, live, blocks, listed, marking, program>>
  BY DEF Collected, StartSearch
<1>2. ChunksRight' /\ BlocksRight' /\ ObjsRight' /\ RequestRight' /\ ListRight' /\ NoneToScan'
  BY <1>1, Quiet DEF Pending
<1>3. TypeRight'
  <2>1. Asked \in Nat
    BY <1>1 DEF StepRight, RequestRight, Pending, Asked
  <2>2. LimitAfter(live) \in Nat
    <3>1. live \in Nat /\ FirstGc \in Nat
      BY GcAssumption DEF HeapRight, TypeRight
    <3> QED BY <2>1, <3>1 DEF LimitAfter, Word
  <2> QED BY <1>1, <2>2 DEF HeapRight, TypeRight, program
<1>4. Unmarked'
  BY <1>1, DoneAtEnd DEF Unmarked, StepRight, SweepRight, HeapRight
<1>5. SearchRight' /\ WalkRight' /\ MarkRight' /\ SweepRight'
  BY <1>1 DEF SearchRight, WalkRight, MarkRight, SweepRight
<1> QED BY <1>2, <1>3, <1>4, <1>5 DEF IInv, HeapRight, StepRight

(* The word behind a header is that of no other block.                     *)
LEMMA WordsApart ==
  ASSUME ChunksRight, BlocksRight, NEW b \in blocks, NEW d \in blocks, b # d
  PROVE  /\ d # b + Word /\ b + Word # d + Word
         /\ \A a \in Nat : b < a /\ a < Behind(b) => a # d /\ a # d + Word
<1>1. /\ b \in Nat /\ d \in Nat /\ b < b + Word /\ b + Word < Behind(b) /\ d < d + Word /\ d + Word < Behind(d)
      /\ b + Word \in Nat /\ Behind(b) \in Nat /\ Behind(d) \in Nat
  BY BlockIs, LinkIs DEF Word
<1>2. ASSUME NEW a \in Nat, b < a, a < Behind(b) PROVE a # d /\ a # d + Word
  <2>1. b <= a /\ d <= d /\ d < Behind(d) /\ d <= d + Word
    BY <1>1, <1>2 DEF Word
  <2> QED BY <1>1, <1>2, <2>1, BlocksApart
<1> QED BY <1>1, <1>2

LEMMA StepSweep ==
  ASSUME HeapRight, StepRight, Sweep
  PROVE  IInv'
<1>1. /\ pc = "sweep" /\ pc' = "sweep" /\ AtBlock /\ p' = Behind(p)
      /\ listed' = (IF IsMarked(mem[p]) THEN listed ELSE listed \cup {p})
      /\ UNCHANGED <<chunks, bump, end, nextGc, blocks, search, ci, marking, program>>
  BY DEF Sweep
<1>2. IF IsMarked(mem[p])
      THEN mem' = [mem EXCEPT ![p] = ClearMark(mem[p])] /\ free' = free /\ live' = live + Word * SizeOf(mem[p])
      ELSE /\ mem' = [[mem EXCEPT ![p] = Header(0, SizeOf(mem[p]))] EXCEPT ![p + Word] = free]
           /\ free' = p /\ live' = live
  BY DEF Sweep, SweepBlock
<1>3. chunks # <<>> /\ ci \in 1 .. Len(chunks) /\ p \in StopsAt(chunks, blocks, Sizes, ci)
  BY <1>1, ChunksAre DEF AtBlock, StepRight, HeapRight, WalkRight
<1>4. p \in BlocksAt(chunks, blocks, ci) /\ Behind(p) \in StopsAt(chunks, blocks, Sizes, ci)
  BY <1>1, <1>3, StopIs DEF AtBlock, HeapRight
<1>5. /\ p \in blocks /\ p \in Nat /\ mem[p] \in Nat /\ p \in DOMAIN mem /\ SizeOf(mem[p]) \in Nat
      /\ TagOf(mem[p]) <= 4 /\ p + Word \in DOMAIN mem /\ p < p + Word /\ p + Word < Behind(p) /\ Behind(p) \in Nat
      /\ free \in Nat /\ live \in Nat /\ p # 0
  <2>1. p \in blocks /\ free \in Nat /\ live \in Nat
    BY <1>4 DEF BlocksAt, HeapRight, TypeRight
  <2>2. /\ p \in Nat /\ mem[p] \in Nat /\ p \in DOMAIN mem /\ SizeOf(mem[p]) \in 2 .. MaxBlock
        /\ TagOf(mem[p]) \in 0 .. 4 /\ Behind(p) \in Nat /\ p # 0
    BY <2>1, BlockIs DEF HeapRight
  <2>3. p + Word \in DOMAIN mem /\ p < p + Word /\ p + Word < Behind(p)
    BY <2>1, LinkIs DEF HeapRight
  <2>4. MaxBlock \in Nat
    BY DEF MaxBlock
  <2> QED BY <2>1, <2>2, <2>3, <2>4
<1>6. \A b \in blocks : IsDone(b)' <=> IsDone(b) \/ b = p
  <2>1. ASSUME NEW b \in blocks, b \in BlocksAt(chunks, blocks, ci) PROVE b < Behind(p) <=> b < p \/ b = p
    <3>1. p < b => Behind(p) <= b
      BY <1>5 DEF HeapRight, BlocksRight, Tiled, Behind, Sizes
    <3>2. b \in Nat
      BY BlockIs DEF HeapRight
    <3> QED BY <1>5, <3>1, <3>2 DEF Word
  <2> QED BY <1>1, <1>4, <2>1 DEF IsDone
<1>7. ~IsDone(p)
  <2>1. ASSUME NEW i \in 1 .. ci - 1, p \in BlocksAt(chunks, blocks, i) PROVE FALSE
    <3>1. i \in 1 .. Len(chunks) /\ i # ci
      BY <1>3, ChunksAre DEF HeapRight
    <3>2. EndAt(chunks, i) <= chunks[ci] \/ EndAt(chunks, ci) <= chunks[i]
      BY <1>3, <3>1, ChunksApart DEF HeapRight, ChunksRight
    <3> QED BY <1>3, <1>4, <1>5, <2>1, <3>1, <3>2, ChunksAre DEF HeapRight, BlocksAt
  <2> QED BY <1>5, <2>1 DEF IsDone
<1>8. /\ \A b \in DOMAIN objs : b \in blocks /\ (IsDone(b) \/ IsMarked(mem[b]))
      /\ \A b \in blocks : IsDone(b) => ~IsMarked(mem[b])
      /\ \A b \in listed : b \in blocks /\ IsDone(b)
      /\ listed \cap DOMAIN objs = {} /\ FreeListRight /\ 0 \notin listed
  BY <1>1, ObjIs, BlockIs DEF HeapRight, StepRight, SweepRight, ListRight
<1>9. p \notin listed /\ (~IsMarked(mem[p]) => p \notin DOMAIN objs)
  BY <1>7, <1>8
<1>10. /\ mem' \in [DOMAIN mem -> Nat] /\ SizeOf(mem'[p]) = SizeOf(mem[p]) /\ TagOf(mem'[p]) <= 4
       /\ ~IsMarked(mem'[p]) /\ (IsMarked(mem[p]) => ClearMark(mem'[p]) = ClearMark(mem[p]))
       /\ (~IsMarked(mem[p]) => mem'[p + Word] = free)
       /\ \A a \in DOMAIN mem : a # p /\ (IsMarked(mem[p]) \/ a # p + Word) => mem'[a] = mem[a]
  <2>0. mem \in [DOMAIN mem -> Nat]
    BY DEF HeapRight, ChunksRight
  <2>1. CASE IsMarked(mem[p])
    <3>1. /\ ClearMark(mem[p]) \in Nat /\ SizeOf(ClearMark(mem[p])) = SizeOf(mem[p])
          /\ TagOf(ClearMark(mem[p])) = TagOf(mem[p]) /\ ~IsMarked(ClearMark(mem[p]))
          /\ ClearMark(ClearMark(mem[p])) = ClearMark(mem[p])
      BY <1>5, HeaderParts
    <3>2. mem' = [mem EXCEPT ![p] = ClearMark(mem[p])]
      BY <1>2, <2>1
    <3>3. mem'[p] = ClearMark(mem[p])
      BY <1>5, <3>2
    <3> QED BY <1>5, <2>0, <2>1, <3>1, <3>2, <3>3
  <2>2. CASE ~IsMarked(mem[p])
    <3> DEFINE h == Header(0, SizeOf(mem[p]))
    <3>1. h \in Nat /\ SizeOf(h) = SizeOf(mem[p]) /\ TagOf(h) = 0 /\ ~IsMarked(h)
      BY <1>5, HeaderOf
    <3>2. mem' = [[mem EXCEPT ![p] = h] EXCEPT ![p + Word] = free]
      BY <1>2, <2>2
    <3> HIDE DEF h
    <3>3. mem'[p] = h /\ p # p + Word
      BY <1>5, <3>2
    <3> QED BY <1>5, <2>0, <2>2, <3>1, <3>2, <3>3
  <2> QED BY <2>1, <2>2
<1>11. \A b \in blocks : b # p => mem'[b] = mem[b] /\ b + Word \in DOMAIN mem /\ mem'[b + Word] = mem[b + Word]
  <2> SUFFICES ASSUME NEW b \in blocks, b # p
               PROVE  mem'[b] = mem[b] /\ b + Word \in DOMAIN mem /\ mem'[b + Word] = mem[b + Word]
    OBVIOUS
  <2>1. b \in DOMAIN mem /\ b + Word \in DOMAIN mem
    BY BlockIs, LinkIs DEF HeapRight
  <2>2. b # p + Word /\ b + Word # p /\ b + Word # p + Word
    BY <1>5, WordsApart DEF HeapRight
  <2> QED BY <1>10, <2>1, <2>2
<1>12. ChunksRight' /\ BlocksRight' /\ Sizes' = Sizes
  <2>1. \A b \in blocks : SizeOf(mem'[b]) = SizeOf(mem[b]) /\ TagOf(mem'[b]) <= 4
    BY <1>10, <1>11 DEF HeapRight, BlocksRight
  <2>2. ASSUME NEW a \in DOMAIN mem, mem[a] = 0, \A b \in blocks : ~(b <= a /\ a < Behind(b)) PROVE mem'[a] = 0
    <3>1. a # p /\ a # p + Word
      BY <1>5, <2>2 DEF Word
    <3> QED BY <1>10, <2>2, <3>1
  <2> QED BY <1>1, <1>10, <2>1, <2>2, SizesKept DEF HeapRight
<1>13. ObjsRight'
  <2>1. ASSUME NEW b \in DOMAIN objs PROVE ClearMark(mem'[b]) = ClearMark(mem[b])
    BY <1>8, <1>9, <1>10, <1>11
  <2>2. ASSUME NEW b \in DOMAIN objs, NEW a \in DOMAIN mem, b < a, a < Behind(b) PROVE mem'[a] = mem[a]
    <3>1. a \in Nat
      BY ChunksAre, WordsInAre DEF HeapRight, ChunksRight
    <3>2. CASE b = p
      BY <1>5, <1>9, <1>10, <2>2, <3>2
    <3>3. CASE b # p
      <4>1. a # p /\ a # p + Word
        BY <1>5, <1>8, <2>2, <3>1, <3>3, WordsApart DEF HeapRight
      <4> QED BY <1>10, <2>2, <4>1
    <3> QED BY <3>2, <3>3
  <2> QED BY <1>1, <2>1, <2>2, ObjsKept DEF HeapRight, program
<1>14. TypeRight'
  <2>1. live' \in Nat /\ free' \in Nat
    BY <1>2, <1>5 DEF Word
  <2> QED BY <1>1, <2>1 DEF HeapRight, TypeRight, program, search
<1>15. RequestRight'
  <2>1. Reachable' = Reachable
    BY <1>1, SameReach DEF program
  <2> QED BY <1>1, <2>1 DEF StepRight, RequestRight, program, Asked, Pending
<1>16. ListRight'
  <2> DEFINE N == [b \in listed |-> Link(b)]
             M == [b \in listed' |-> Link(b)']
  <2>1. RunsThrough(free, listed, N)
    BY <1>8 DEF FreeListRight
  <2>2. \A b \in listed : Link(b)' = Link(b)
    BY <1>8, <1>9, <1>11 DEF Link
  <2>3. RunsThrough(free', listed', M)
    <3>1. CASE IsMarked(mem[p])
      <4>1. M = N /\ free' = free /\ listed' = listed
        BY <1>1, <1>2, <2>2, <3>1
      <4> QED BY <2>1, <4>1
    <3>2. CASE ~IsMarked(mem[p])
      <4>1. M[p] = free /\ (\A b \in listed : M[b] = N[b]) /\ listed' = listed \cup {p} /\ free' = p
        BY <1>1, <1>2, <1>10, <2>2, <3>2 DEF Link
      <4> HIDE DEF M, N
      <4>2. RunsThrough(p, listed \cup {p}, M)
        BY <1>5, <1>8, <1>9, <2>1, <4>1, ListCons
      <4> QED BY <4>1, <4>2
    <3> QED BY <3>1, <3>2
  <2>4. listed' \subseteq blocks /\ listed' \cap DOMAIN objs = {}
    BY <1>1, <1>5, <1>8, <1>9
  <2> QED BY <1>1, <2>3, <2>4 DEF ListRight, FreeListRight, program
<1>17. WalkRight'
  BY <1>1, <1>3, <1>4, <1>12 DEF WalkRight
<1>18. SweepRight'
  <2>1. \A b \in DOMAIN objs : IsDone(b)' \/ IsMarked(mem'[b])
    BY <1>6, <1>8, <1>11
  <2>2. \A b \in blocks : IsDone(b)' => ~IsMarked(mem'[b])
    BY <1>6, <1>8, <1>10, <1>11
  <2>3. \A b \in listed' : IsDone(b)'
    BY <1>1, <1>5, <1>6, <1>8
  <2> QED BY <1>1, <2>1, <2>2, <2>3 DEF SweepRight, program
<1>19. SearchRight' /\ Unmarked' /\ MarkRight' /\ NoneToScan'
  BY <1>1 DEF SearchRight, Unmarked, MarkRight, NoneToScan, StepRight, marking
<1> QED BY <1>12, <1>13, <1>14, <1>15, <1>16, <1>17, <1>18, <1>19 DEF IInv, HeapRight, StepRight

-----------------------------------------------------------------------------
(* The steps of the program.                                               *)

LEMMA ConcatIs ==
  ASSUME NEW u \in Seq(Nat), NEW v \in Seq(Nat), Len(u) >= 1
  PROVE  u \o v \in Seq(Nat) /\ Len(u \o v) = Len(u) + Len(v) /\ (u \o v)[1] = u[1]
<1>1. 1 \in 1 .. Len(u) + Len(v) /\ 1 <= Len(u)
  OBVIOUS
<1> QED BY <1>1, ConcatProperties

LEMMA StepAsk ==
  ASSUME HeapRight, StepRight, Ask
  PROVE  IInv'
<1>1. /\ pc = "run" /\ pc' = "search" /\ prev' = 0 /\ fb' = free
      /\ objs' = [b \in Reachable |-> objs[b]]
      /\ UNCHANGED <<mem, chunks, bump, end, blocks, free, live, nextGc, listed, marking, locals, global>>
  BY DEF Ask, Running, StartSearch, heap
<1>2. PICK s \in Shapes, to \in Locals : \E vs \in [1..s.values -> Known] :
        request' = [to |-> to, words |-> <<Header(s.tag, 1 + Len(s.raw) + s.values)>> \o s.raw \o vs]
  BY DEF Ask
<1>3. PICK vs \in [1..s.values -> Known] :
        request' = [to |-> to, words |-> <<Header(s.tag, 1 + Len(s.raw) + s.values)>> \o s.raw \o vs]
  BY <1>2
<1>4. Known \subseteq Nat
  BY DEF Known, HeapRight, TypeRight
<1>5. /\ s.tag \in 1 .. 4 /\ s.raw \in Seq(Nat) /\ s.values \in Nat /\ Len(s.raw) + s.values >= 1
      /\ Len(s.raw) \in Nat
  BY GcAssumption
<1>6. /\ request'.words \in Seq(Nat) /\ Len(request'.words) = 1 + Len(s.raw) + s.values
      /\ request'.words[1] = Header(s.tag, 1 + Len(s.raw) + s.values) /\ request'.to \in Locals
  <2> DEFINE h == Header(s.tag, 1 + Len(s.raw) + s.values)
  <2>1. h \in Nat
    <3>1. s.tag \in Nat /\ s.tag < 128 /\ 1 + Len(s.raw) + s.values \in Nat
      BY <1>5
    <3> QED BY <3>1, HeaderOf
  <2>2. vs \in Seq(Nat) /\ Len(vs) = s.values
    <3> DEFINE n == s.values
    <3>1. n \in Nat /\ vs \in [1 .. n -> Nat]
      BY <1>4, <1>5
    <3> HIDE DEF n
    <3>2. vs \in Seq(Nat) /\ Len(vs) = n
      BY <3>1
    <3> QED BY <3>2 DEF n
  <2> HIDE DEF h
  <2>3. /\ <<h>> \o s.raw \o vs \in Seq(Nat) /\ Len(<<h>> \o s.raw \o vs) = 1 + Len(s.raw) + s.values
        /\ (<<h>> \o s.raw \o vs)[1] = h
    <3>1. <<h>> \in Seq(Nat) /\ Len(<<h>>) = 1 /\ <<h>>[1] = h
      BY <2>1
    <3>2. /\ <<h>> \o s.raw \in Seq(Nat) /\ Len(<<h>> \o s.raw) = 1 + Len(s.raw)
          /\ (<<h>> \o s.raw)[1] = h
      BY <1>5, <3>1
    <3> DEFINE t == <<h>> \o s.raw
    <3> HIDE DEF t
    <3>3. t \in Seq(Nat) /\ Len(t) = 1 + Len(s.raw) /\ t[1] = h
      BY <3>2 DEF t
    <3>4. t \o vs \in Seq(Nat) /\ Len(t \o vs) = Len(t) + Len(vs) /\ (t \o vs)[1] = t[1]
      <4>1. Len(t) >= 1 /\ t \in Seq(Nat) /\ vs \in Seq(Nat)
        BY <1>5, <2>2, <3>3
      <4> HIDE <2>2, <3>3
      <4> QED BY <4>1, ConcatIs
    <3> QED BY <1>5, <2>2, <3>3, <3>4 DEF t
  <2> QED BY <1>3, <2>3 DEF h
<1>7. RequestRight'
  <2>1. DOMAIN objs' \subseteq Reachable'
    BY <1>1, AskReach
  <2> QED BY <1>5, <1>6, <2>1 DEF RequestRight, Asked
<1>8. ChunksRight' /\ BlocksRight' /\ ObjsRight' /\ \A b : Link(b)' = Link(b)
  <2>1. Sizes' = Sizes /\ \A b : Link(b)' = Link(b) /\ Behind(b)' = Behind(b)
    BY <1>1 DEF Sizes, Link, Behind
  <2>2. ChunksRight'
    BY <1>1 DEF HeapRight, ChunksRight
  <2>3. BlocksRight'
    BY <1>1, <2>1 DEF HeapRight, BlocksRight
  <2>4. ObjsRight'
    BY <1>1, ReachIs DEF HeapRight, ObjsRight, Holds
  <2> QED BY <2>1, <2>2, <2>3, <2>4
<1>9. TypeRight'
  BY <1>1 DEF HeapRight, TypeRight
<1>10. ListRight'
  BY <1>1, <1>8, ReachIs DEF StepRight, ListRight, FreeListRight
<1>11. SearchRight' /\ Unmarked' /\ NoneToScan' /\ WalkRight' /\ MarkRight' /\ SweepRight'
  BY <1>1 DEF StepRight, SearchRight, Unmarked, NoneToScan, WalkRight, MarkRight, SweepRight, marking
<1> QED BY <1>7, <1>8, <1>9, <1>10, <1>11 DEF IInv, HeapRight, StepRight

LEMMA StepMove ==
  ASSUME HeapRight, StepRight, Forget \/ SetGlobal \/ GetGlobal \/ ReadField
  PROVE  IInv'
<1>1. pc = "run" /\ UNCHANGED <<heap, search, walk, marking, request, pc, objs>>
  BY DEF Forget, SetGlobal, GetGlobal, ReadField, SetLocal, Unmoved, Running
<1>2. locals' \in [Locals -> Nat] /\ global' \in Nat
  <2>0. locals \in [Locals -> Nat] /\ global \in Nat
    BY DEF HeapRight, TypeRight
  <2>1. CASE Forget
    <3>1. PICK i \in Locals, n \in Numbers : SetLocal(i, NumberWord(n))
      BY <2>1 DEF Forget
    <3>2. NumberWord(n) \in Nat
      BY GcAssumption DEF NumberWord
    <3> QED BY <2>0, <3>1, <3>2 DEF SetLocal
  <2>2. CASE SetGlobal
    BY <2>0, <2>2 DEF SetGlobal
  <2>3. CASE GetGlobal
    BY <2>0, <2>3 DEF GetGlobal, SetLocal
  <2>4. CASE ReadField
    <3>1. PICK i \in Locals, j \in Locals : /\ locals[i] \in DOMAIN objs
                                            /\ \E k \in ValuesAt(mem[locals[i]]) : SetLocal(j, mem[locals[i] + Word * k])
      BY <2>4 DEF ReadField
    <3>2. PICK k \in ValuesAt(mem[locals[i]]) : SetLocal(j, mem[locals[i] + Word * k])
      BY <3>1
    <3>3. mem[locals[i] + Word * k] \in Nat
      BY <3>1, ObjIs, BlockWord DEF HeapRight
    <3> QED BY <2>0, <3>2, <3>3 DEF SetLocal
  <2> QED BY <2>1, <2>2, <2>3, <2>4
<1>3. /\ ChunksRight' /\ BlocksRight' /\ ObjsRight' /\ Sizes' = Sizes
      /\ \A b : Link(b)' = Link(b)
  BY <1>1, HeapKept DEF HeapRight, heap
<1>4. TypeRight'
  BY <1>1, <1>2 DEF HeapRight, TypeRight, heap, search
<1>5. ListRight'
  BY <1>1, <1>3 DEF StepRight, ListRight, FreeListRight, heap
<1>6. /\ RequestRight' /\ SearchRight' /\ Unmarked' /\ NoneToScan'
      /\ WalkRight' /\ MarkRight' /\ SweepRight'
  BY <1>1 DEF StepRight, RequestRight, Pending, SearchRight, Unmarked, NoneToScan, WalkRight, MarkRight,
              SweepRight, marking, heap
<1> QED BY <1>3, <1>4, <1>5, <1>6 DEF IInv, HeapRight, StepRight

-----------------------------------------------------------------------------
(* A new chunk.                                                            *)

LEMMA StepAddChunk ==
  ASSUME HeapRight, StepRight, AddChunk
  PROVE  IInv'
<1>1. pc = "search" /\ UNCHANGED <<free, live, nextGc, blocks, listed, walk, marking, program>>
  BY DEF AddChunk, Searching
<1>2. CASE ~(Len(chunks) < MaxChunks)
  <2>1. pc' = "out of memory" /\ UNCHANGED <<mem, chunks, bump, end, search>>
    BY <1>2 DEF AddChunk
  <2>2. /\ ChunksRight' /\ BlocksRight' /\ ObjsRight' /\ RequestRight' /\ ListRight' /\ Unmarked' /\ NoneToScan'
    BY <1>1, <2>1, Quiet DEF Pending
  <2>3. TypeRight'
    BY <1>1, <2>1 DEF HeapRight, TypeRight, program, search
  <2>4. SearchRight' /\ WalkRight' /\ MarkRight' /\ SweepRight'
    BY <2>1 DEF SearchRight, WalkRight, MarkRight, SweepRight
  <2> QED BY <2>2, <2>3, <2>4 DEF IInv, HeapRight, StepRight
<1>3. CASE Len(chunks) < MaxChunks
  <2> DEFINE c == ChunkAt[Len(chunks) + 1]
             es == <<c>> \o chunks
  <2>1. /\ mem' = [a \in DOMAIN mem \cup WordsOf(c) |-> IF a \in DOMAIN mem THEN mem[a] ELSE 0]
        /\ chunks' = es /\ bump' = c /\ end' = c + Word * ChunkWords
        /\ pc' = "search" /\ prev' = 0 /\ fb' = free
    BY <1>3 DEF AddChunk, StartSearch
  <2>2. ChunkList(chunks) /\ chunks \in Seq(Nat) /\ Len(chunks) \in Nat
    BY DEF HeapRight, ChunksRight, ChunkList
  <2>3. c \in Nat /\ ChunkWords \in Nat /\ MaxChunks \in Nat
    BY <1>3, <2>2, GcAssumption
  <2> HIDE DEF c
  <2>4. /\ es \in Seq(Nat) /\ Len(es) = Len(chunks) + 1 /\ es[1] = c
        /\ \A i \in 1 .. Len(chunks) : es[i + 1] = chunks[i]
        /\ \A j \in 1 .. Len(es) : j = 1 \/ (j - 1 \in 1 .. Len(chunks) /\ es[j] = chunks[j - 1])
    BY <2>2, <2>3
  <2> HIDE DEF es
  <2>5. ChunkList(es)
    <3>1. ASSUME NEW j \in 1 .. Len(es) PROVE es[j] = ChunkAt[Len(es) + 1 - j]
      <4>1. CASE j = 1
        <5>1. Len(es) + 1 - j = Len(chunks) + 1
          BY <2>2, <2>4, <4>1
        <5> QED BY <2>4, <4>1, <5>1 DEF c
      <4>2. CASE j # 1
        <5>1. es[j] = chunks[j - 1] /\ chunks[j - 1] = ChunkAt[Len(chunks) + 1 - (j - 1)]
          BY <2>2, <2>4, <4>2 DEF ChunkList
        <5>2. Len(es) + 1 - j = Len(chunks) + 1 - (j - 1)
          BY <2>2, <2>4
        <5> QED BY <5>1, <5>2
      <4> QED BY <4>1, <4>2
    <3> QED BY <1>3, <2>2, <2>3, <2>4, <3>1 DEF ChunkList
  <2>6. Tiled(es, blocks, Sizes, c)
    BY <2>2, <2>5, TileChunk DEF es, HeapRight, BlocksRight
  <2>7. WordsIn(es) = WordsIn(chunks) \cup WordsOf(c)
    <3>1. 1 \in 1 .. Len(es) /\ \A i \in 1 .. Len(chunks) : i + 1 \in 1 .. Len(es)
      BY <2>2, <2>4
    <3>2. ASSUME NEW a \in WordsIn(es) PROVE a \in WordsIn(chunks) \cup WordsOf(c)
      BY <2>4, <3>2 DEF WordsIn
    <3>3. ASSUME NEW a \in WordsIn(chunks) PROVE a \in WordsIn(es)
      BY <2>4, <3>1, <3>3 DEF WordsIn
    <3>4. WordsOf(c) \subseteq WordsIn(es)
      BY <2>4, <3>1 DEF WordsIn
    <3> QED BY <3>2, <3>3, <3>4
  <2>8. DOMAIN mem = WordsIn(chunks) /\ \A a \in DOMAIN mem : mem[a] \in Nat
    BY ChunksAre DEF HeapRight
  <2>9. /\ mem' \in [WordsIn(es) -> Nat] /\ \A a \in DOMAIN mem : mem'[a] = mem[a]
        /\ \A a \in WordsIn(es) \ DOMAIN mem : mem'[a] = 0
    BY <2>1, <2>7, <2>8
  <2>10. ChunksRight'
    <3>1. es # <<>> /\ end' = EndAt(es, 1) /\ end' \in Nat
      BY <2>1, <2>2, <2>3, <2>4 DEF EndAt, Word
    <3> QED BY <2>1, <2>3, <2>5, <2>9, <3>1 DEF ChunksRight
  <2>11. \A b \in blocks : b \in DOMAIN mem /\ mem'[b] = mem[b] /\ Behind(b)' = Behind(b) /\ Link(b)' = Link(b)
    BY <2>9, BlockIs, LinkIs DEF HeapRight, Behind, Link
  <2>12. Sizes' = Sizes
    BY <1>1, <2>11 DEF Sizes
  <2>13. BlocksRight'
    <3>1. \A a \in WordsIn(es) : mem'[a] = 0 \/ \E b \in blocks : b <= a /\ a < Behind(b)'
      BY <2>8, <2>9, <2>11 DEF HeapRight, BlocksRight
    <3> QED BY <1>1, <2>1, <2>6, <2>11, <2>12, <3>1 DEF BlocksRight, HeapRight
  <2>14. ObjsRight'
    <3>1. \A b \in DOMAIN objs : ClearMark(mem'[b]) = ClearMark(mem[b])
      BY <2>11, ObjIs DEF HeapRight
    <3> QED BY <1>1, <2>9, <3>1, ObjsKept DEF HeapRight, program
  <2>15. TypeRight'
    BY <1>1, <2>1 DEF HeapRight, TypeRight, program
  <2>16. RequestRight'
    <3>1. Reachable' = Reachable
      BY <1>1, SameReach DEF program
    <3> QED BY <1>1, <3>1 DEF StepRight, RequestRight, program, Asked, Pending
  <2>17. ListRight'
    <3>1. [b \in listed |-> Link(b)]' = [b \in listed |-> Link(b)]
      BY <1>1, <2>11 DEF StepRight, ListRight
    <3> QED BY <1>1, <3>1 DEF StepRight, ListRight, FreeListRight, program
  <2>18. Unmarked'
    BY <1>1, <2>11 DEF StepRight, Unmarked
  <2>19. SearchRight' /\ NoneToScan' /\ WalkRight' /\ MarkRight' /\ SweepRight'
    BY <1>1, <2>1 DEF StepRight, SearchRight, NoneToScan, WalkRight, MarkRight, SweepRight, marking
  <2> QED BY <2>10, <2>13, <2>14, <2>15, <2>16, <2>17, <2>18, <2>19 DEF IInv, HeapRight, StepRight
<1> QED BY <1>2, <1>3

-----------------------------------------------------------------------------
(* A block is handed out.                                                  *)

LEMMA TileWord ==
  ASSUME NEW cs, ChunkList(cs), NEW B, NEW L, NEW bp, Tiled(cs, B, L, bp),
         NEW b \in B, NEW k \in Nat, k < L[b]
  PROVE  b + Word * k \in WordsIn(cs) /\ b <= b + Word * k /\ b + Word * k < b + Word * L[b]
<1>1. b \in Nat /\ b % Word = 0 /\ L[b] \in Nat
  BY DEF Tiled
<1>2. PICK i \in 1 .. Len(cs) : cs[i] <= b /\ b + Word * L[b] <= EndAt(cs, i)
  BY DEF Tiled
<1>3. b + Word * k \in Nat /\ (b + Word * k) % Word = 0
  BY <1>1, WordBehind
<1>4. cs[i] \in Nat /\ EndAt(cs, i) \in Nat
  BY ChunksApart
<1>5. b <= b + Word * k /\ b + Word * k < b + Word * L[b]
  BY <1>1 DEF Word
<1>6. cs[i] <= b + Word * k /\ b + Word * k < EndAt(cs, i)
  BY <1>1, <1>2, <1>3, <1>4, <1>5 DEF Word
<1> QED BY <1>3, <1>5, <1>6, WordsInAre

LEMMA TileSame ==
  ASSUME NEW cs, NEW B, NEW L, NEW M, NEW bp, Tiled(cs, B, L, bp), \A b \in B : M[b] = L[b]
  PROVE  Tiled(cs, B, M, bp)
<1>1. \A i \in 1 .. Len(cs) : StopsAt(cs, B, M, i) = StopsAt(cs, B, L, i)
  BY DEF StopsAt, BlocksAt
<1>2. StopsAt(cs, B, M, 1) = StopsAt(cs, B, L, 1)
  BY DEF StopsAt, BlocksAt
<1> QED BY <1>1, <1>2 DEF Tiled

(* Which word of a block of n words a word is.                             *)
LEMMA IndexIs ==
  ASSUME NEW b \in Nat, NEW n \in Nat
  PROVE  /\ \A a \in Nat : b <= a /\ a < b + Word * n => ((a - b) \div Word) + 1 \in 1 .. n
         /\ \A k \in 1 .. n : (((b + Word * (k - 1)) - b) \div Word) + 1 = k
BY DEF Word

LEMMA Handing ==
  ASSUME HeapRight, StepRight, pc = "search",
         NEW mm \in [DOMAIN mem -> Nat], NEW b, Handed(mm, b),
         NEW B, blocks' = B, b \in B, NEW L, Tiled(chunks, B, L, bump'), L[b] = Asked,
         \A d \in B \ {b} : SizeOf(mm[d]) = L[d] /\ TagOf(mm[d]) <= 4 /\ ~IsMarked(mm[d]),
         \A a \in DOMAIN mem : mm[a] = 0 \/ \E d \in B : d <= a /\ a < d + Word * L[d],
         \A d \in DOMAIN objs : /\ d \in B \ {b}
                                /\ \A a \in DOMAIN mem : d <= a /\ a < Behind(d) => mm[a] = mem[a],
         bump' \in Nat, free' \in Nat, chunks # <<>>
  PROVE  /\ HeapRight'
         /\ RequestRight' /\ SearchRight' /\ Unmarked' /\ NoneToScan'
         /\ WalkRight' /\ MarkRight' /\ SweepRight'
         /\ \A d \in B \ {b} : d + Word \in DOMAIN mem /\ mem'[d + Word] = mm[d + Word]
         /\ DOMAIN objs' = DOMAIN objs \cup {b} /\ pc' = "run"
<1> DEFINE n == Asked
           ws == request.words
<1>1. /\ mem' = [a \in DOMAIN mem |-> IF a >= b /\ a < b + Word * n THEN ws[((a - b) \div Word) + 1] ELSE mm[a]]
      /\ objs' = [a \in DOMAIN objs \cup {b} |-> IF a = b THEN ws ELSE objs[a]]
      /\ locals' = [locals EXCEPT ![request.to] = b] /\ pc' = "run"
      /\ UNCHANGED <<chunks, end, live, nextGc, global, search, walk, marking>>
  BY DEF Handed
<1>2. ws \in Seq(Nat) /\ n = Len(ws) /\ n \in Nat /\ n >= 2 /\ request.to \in Locals
  BY DEF StepRight, RequestRight, Pending, Asked
<1>3. PICK t \in 1 .. 4 : ws[1] = Header(t, n)
  BY DEF StepRight, RequestRight, Pending
<1>4. /\ ChunkList(chunks) /\ DOMAIN mem = WordsIn(chunks) /\ DOMAIN mem \subseteq Nat
      /\ \A d \in B : d \in Nat /\ d % Word = 0 /\ L[d] \in Nat /\ L[d] >= 2
  BY ChunksAre, WordsInAre DEF HeapRight, ChunksRight, Tiled
<1> HIDE DEF n, ws
<1>5. \A a \in DOMAIN mem : ~(b <= a /\ a < b + Word * n) => mem'[a] = mm[a]
  BY <1>1, <1>4
<1>6. ASSUME NEW k \in 1 .. n PROVE b + Word * (k - 1) \in DOMAIN mem /\ mem'[b + Word * (k - 1)] = ws[k]
  <2>1. k - 1 \in Nat /\ k - 1 < L[b] /\ L[b] = n
    BY <1>2 DEF n
  <2>2. /\ b + Word * (k - 1) \in WordsIn(chunks) /\ b <= b + Word * (k - 1)
        /\ b + Word * (k - 1) < b + Word * L[b]
    BY <1>4, <2>1, TileWord
  <2>3. (((b + Word * (k - 1)) - b) \div Word) + 1 = k
    BY <1>2, <1>4, IndexIs
  <2> QED BY <1>1, <1>4, <2>1, <2>2, <2>3
<1>7. ASSUME NEW d \in B \ {b}, NEW a \in DOMAIN mem, d <= a, a < d + Word * L[d] PROVE mem'[a] = mm[a]
  <2>1. ~(b <= a /\ a < b + Word * n)
    BY <1>4, <1>7, OneBlock DEF n
  <2> QED BY <1>5, <2>1
<1>8. ASSUME NEW d \in B \ {b}
      PROVE  /\ d \in DOMAIN mem /\ mem'[d] = mm[d]
             /\ d + Word \in DOMAIN mem /\ mem'[d + Word] = mm[d + Word]
  <2>1. /\ d + Word * 0 \in WordsIn(chunks) /\ d + Word * 0 < d + Word * L[d]
        /\ d + Word * 1 \in WordsIn(chunks) /\ d + Word * 1 < d + Word * L[d]
    <3>1. 0 < L[d] /\ 1 < L[d]
      BY <1>4
    <3> QED BY <1>4, <3>1, TileWord
  <2>2. d + Word * 0 = d /\ d + Word * 1 = d + Word /\ d <= d + Word /\ d <= d
    BY <1>4 DEF Word
  <2> QED BY <1>4, <1>7, <2>1, <2>2
<1>9. b \in DOMAIN mem /\ mem'[b] = ws[1]
  <2>1. 1 \in 1 .. n /\ b + Word * (1 - 1) = b
    BY <1>2, <1>4 DEF Word
  <2> QED BY <1>6, <2>1
<1>10. SizeOf(ws[1]) = n /\ TagOf(ws[1]) = t /\ TagOf(ws[1]) <= 4 /\ ~IsMarked(ws[1]) /\ ws[1] \in Nat
       /\ ClearMark(ws[1]) = ws[1]
  <2>1. t \in Nat /\ t < 128
    OBVIOUS
  <2>2. SizeOf(ws[1]) = n /\ TagOf(ws[1]) = t /\ ~IsMarked(ws[1]) /\ ws[1] \in Nat
    <3>1. n \in Nat
      BY <1>2
    <3>2. /\ SizeOf(Header(t, n)) = n /\ TagOf(Header(t, n)) = t /\ ~IsMarked(Header(t, n))
          /\ Header(t, n) \in Nat
      BY <2>1, <3>1, HeaderOf
    <3> QED BY <1>3, <3>2
  <2>3. ClearMark(ws[1]) = ws[1]
    BY <2>2, HeaderParts
  <2> QED BY <2>2, <2>3
<1>11. ChunksRight'
  <2>1. ASSUME NEW a \in DOMAIN mem PROVE mem'[a] \in Nat
    <3>1. CASE b <= a /\ a < b + Word * n
      <4>1. ((a - b) \div Word) + 1 \in 1 .. n
        BY <1>2, <1>4, <3>1, IndexIs
      <4> QED BY <1>1, <1>2, <1>4, <3>1, <4>1
    <3>2. CASE ~(b <= a /\ a < b + Word * n)
      BY <1>5, <3>2
    <3> QED BY <3>1, <3>2
  <2> QED BY <1>1, <1>4, <2>1 DEF HeapRight, ChunksRight
<1>12. \A d \in B : SizeOf(mem'[d]) = L[d] /\ TagOf(mem'[d]) <= 4 /\ ~IsMarked(mem'[d])
  BY <1>8, <1>9, <1>10 DEF n
<1>13. BlocksRight'
  <2>1. Tiled(chunks, B, Sizes', bump')
    <3>1. \A d \in B : Sizes'[d] = L[d]
      BY <1>12 DEF Sizes
    <3> QED BY <3>1, TileSame
  <2>2. ASSUME NEW a \in WordsIn(chunks) PROVE mem'[a] = 0 \/ \E d \in B : d <= a /\ a < d + Word * L[d]
    <3>1. CASE b <= a /\ a < b + Word * n
      BY <3>1 DEF n
    <3>2. CASE ~(b <= a /\ a < b + Word * n)
      BY <1>4, <1>5, <3>2
    <3> QED BY <3>1, <3>2
  <2>3. \A d \in B : Behind(d)' = d + Word * L[d]
    BY <1>12 DEF Behind
  <2> QED BY <1>1, <1>12, <2>1, <2>2, <2>3 DEF BlocksRight
<1>14. ObjsRight'
  <2>1. ASSUME NEW d \in DOMAIN objs PROVE Holds(d)'
    <3>1. /\ Holds(d) /\ d \in blocks /\ d \in B \ {b} /\ Len(objs[d]) = SizeOf(mem[d]) /\ Len(objs[d]) \in Nat
          /\ d \in Nat /\ d \in DOMAIN mem /\ d < Behind(d)
      <4>1. Holds(d) /\ d \in blocks /\ d \in B \ {b} /\ Len(objs[d]) = SizeOf(mem[d]) /\ Len(objs[d]) \in Nat
        BY ObjIs DEF HeapRight, ObjsRight
      <4>2. d \in Nat /\ d \in DOMAIN mem /\ d + Word < Behind(d) /\ Behind(d) \in Nat
        BY <4>1, BlockIs DEF HeapRight
      <4> QED BY <4>1, <4>2 DEF Word
    <3>2. mm[d] = mem[d] /\ L[d] = SizeOf(mem[d])
      <4>1. d <= d
        BY <3>1
      <4> QED BY <3>1, <4>1
    <3>3. ASSUME NEW k \in 2 .. Len(objs[d]) PROVE mem'[d + Word * (k - 1)] = objs[d][k]
      <4>1. k - 1 \in Nat /\ k - 1 < SizeOf(mem[d])
        BY <3>1
      <4>2. /\ d + Word * (k - 1) \in DOMAIN mem /\ d <= d + Word * (k - 1)
            /\ d + Word * (k - 1) < Behind(d) /\ d + Word * (k - 1) < d + Word * L[d]
        BY <3>1, <3>2, <4>1, BlockWord DEF HeapRight, Behind
      <4>3. mem'[d + Word * (k - 1)] = mm[d + Word * (k - 1)]
        BY <1>7, <3>1, <4>2
      <4> QED BY <3>1, <4>2, <4>3 DEF Holds
    <3>4. objs'[d] = objs[d] /\ mem'[d] = mem[d]
      BY <1>1, <1>8, <3>1, <3>2
    <3> QED BY <3>1, <3>3, <3>4 DEF Holds
  <2>2. Holds(b)'
    <3>1. objs'[b] = ws
      BY <1>1
    <3>2. \A k \in 2 .. Len(ws) : k \in 1 .. n
      BY <1>2
    <3> QED BY <1>2, <1>6, <1>9, <1>10, <3>1, <3>2 DEF Holds
  <2> QED BY <1>1, <2>1, <2>2 DEF ObjsRight
<1>15. TypeRight'
  <2>1. locals' \in [Locals -> Nat]
    BY <1>1, <1>2, <1>4 DEF HeapRight, TypeRight
  <2> QED BY <1>1, <2>1 DEF HeapRight, TypeRight, search
<1>16. Unmarked'
  BY <1>12 DEF Unmarked
<1>17. RequestRight' /\ SearchRight' /\ NoneToScan' /\ WalkRight' /\ MarkRight' /\ SweepRight'
  BY <1>1 DEF RequestRight, Pending, SearchRight, NoneToScan, WalkRight, MarkRight, SweepRight, marking, StepRight
<1> QED BY <1>1, <1>8, <1>11, <1>13, <1>14, <1>15, <1>16, <1>17 DEF HeapRight

LEMMA StepTakeBump ==
  ASSUME HeapRight, StepRight, TakeBump
  PROVE  IInv'
<1> DEFINE B == blocks \cup {bump}
           L == [d \in B |-> IF d = bump THEN Asked ELSE SizeOf(mem[d])]
<1>1. /\ pc = "search" /\ Handed(mem, bump) /\ bump + Word * Asked <= end
      /\ bump' = bump + Word * Asked /\ blocks' = B /\ UNCHANGED <<free, listed>>
  BY DEF TakeBump, Searching, BumpFits
<1>2. Asked \in Nat /\ Asked >= 2
  BY <1>1 DEF StepRight, RequestRight, Pending, Asked
<1>3. chunks # <<>> /\ end = EndAt(chunks, 1) /\ bump \in Nat
  <2>1. bump \in Nat /\ end \in Nat /\ IF chunks = <<>> THEN bump = 0 /\ end = 0 ELSE end = EndAt(chunks, 1)
    BY DEF HeapRight, ChunksRight
  <2>2. end # 0
    BY <1>1, <1>2, <2>1 DEF Word
  <2> QED BY <2>1, <2>2
<1>4. bump \notin blocks /\ Tiled(chunks, B, L, bump')
  <2>0. ChunkList(chunks) /\ Tiled(chunks, blocks, Sizes, bump)
    BY DEF HeapRight, ChunksRight, BlocksRight
  <2>1. bump \notin blocks
    <3>1. 1 \in 1 .. Len(chunks)
      BY <1>3, <2>0 DEF ChunkList
    <3>2. bump \in StopsAt(chunks, blocks, Sizes, 1) /\ \A d \in BlocksAt(chunks, blocks, 1) : d < bump
      BY <1>3, <2>0 DEF Tiled
    <3>3. chunks[1] <= bump /\ bump < EndAt(chunks, 1)
      <4>1. chunks[1] <= bump
        BY <2>0, <3>1, <3>2, NoneBeyond
      <4>2. end \in Nat
        BY DEF HeapRight, ChunksRight
      <4> QED BY <1>1, <1>2, <1>3, <4>1, <4>2 DEF Word
    <3>4. chunks[1] \in Nat
      BY <3>1, <2>0, ChunksApart
    <3> QED BY <1>3, <3>2, <3>3, <3>4 DEF BlocksAt
  <2>2. L[bump] = Asked /\ \A d \in blocks : L[d] = Sizes[d]
    BY <2>1 DEF Sizes
  <2> HIDE DEF L
  <2>3. Tiled(chunks, blocks \cup {bump}, L, bump + Word * Asked)
    BY <1>1, <1>2, <1>3, <2>0, <2>2, TileExtend
  <2> QED BY <1>1, <2>1, <2>3
<1>5. \A d \in B \ {bump} : SizeOf(mem[d]) = L[d] /\ TagOf(mem[d]) <= 4 /\ ~IsMarked(mem[d])
  BY <1>1 DEF HeapRight, BlocksRight, StepRight, Unmarked
<1>6. \A a \in DOMAIN mem : mem[a] = 0 \/ \E d \in B : d <= a /\ a < d + Word * L[d]
  <2>1. \A d \in blocks : Behind(d) = d + Word * L[d]
    BY <1>4 DEF Behind
  <2> QED BY <2>1, ChunksAre DEF HeapRight, BlocksRight
<1>7. L[bump] = Asked
  OBVIOUS
<1>8. \A d \in DOMAIN objs : d \in B \ {bump}
  BY <1>4, ObjIs DEF HeapRight
<1>9. mem \in [DOMAIN mem -> Nat] /\ bump' \in Nat /\ free' \in Nat
  BY <1>1, <1>2, <1>3 DEF HeapRight, ChunksRight, TypeRight, Word
<1> HIDE DEF L, B
<1>10. /\ HeapRight'
       /\ RequestRight' /\ SearchRight' /\ Unmarked' /\ NoneToScan'
       /\ WalkRight' /\ MarkRight' /\ SweepRight'
       /\ \A d \in B \ {bump} : d + Word \in DOMAIN mem /\ mem'[d + Word] = mem[d + Word]
       /\ DOMAIN objs' = DOMAIN objs \cup {bump} /\ pc' = "run"
  <2>1. bump \in B
    BY DEF B
  <2> QED BY <1>1, <1>3, <1>4, <1>5, <1>6, <1>7, <1>8, <1>9, <2>1, Handing
<1>11. ListRight'
  <2>1. listed \subseteq blocks /\ listed \cap DOMAIN objs = {} /\ FreeListRight
    BY <1>1 DEF StepRight, ListRight
  <2>2. [d \in listed |-> Link(d)]' = [d \in listed |-> Link(d)]
    BY <1>1, <1>4, <1>10, <2>1 DEF Link, B
  <2> QED BY <1>1, <1>4, <1>10, <2>1, <2>2 DEF ListRight, FreeListRight, B
<1> QED BY <1>10, <1>11 DEF IInv, StepRight

(* The first block that suits is cut off the list, or what remains of it   *)
(* takes its place there (rt.c:226-242).                                   *)
LEMMA StepTakeFree ==
  ASSUME HeapRight, StepRight, TakeFree
  PROVE  IInv'
<1> DEFINE n == Asked
           s == SizeOf(mem[fb])
           rest == IF Exact THEN {} ELSE {Rest}
           to == IF Exact THEN Link(fb) ELSE Rest
           base == IF Exact THEN mem ELSE WithRest
           mm == IF prev = 0 THEN base ELSE [base EXCEPT ![prev + Word] = to]
           B == blocks \cup rest
           L == [d \in B |-> IF d = fb THEN n ELSE IF d \in rest THEN s - n ELSE SizeOf(mem[d])]
<1>1. /\ pc = "search" /\ fb # 0 /\ Suits(s, n) /\ Handed(mm, fb)
      /\ free' = (IF prev = 0 THEN to ELSE free)
      /\ blocks' = B /\ listed' = (listed \ {fb}) \cup rest /\ bump' = bump
  BY DEF TakeFree, Searching, Found
<1>2. n \in Nat /\ n >= 2
  BY <1>1 DEF StepRight, RequestRight, Pending, Asked
<1>3. /\ fb \in listed /\ 0 \notin listed /\ listed \subseteq blocks
      /\ \A b \in listed : Link(b) \in listed \cup {0} /\ Link(b) \in Nat
      /\ IF prev = 0 THEN fb = free ELSE prev \in listed /\ fb = Link(prev)
      /\ RunsThrough(free, listed, [b \in listed |-> Link(b)]) /\ listed \cap DOMAIN objs = {}
  <2>1. FreeListRight /\ listed \subseteq blocks /\ listed \cap DOMAIN objs = {}
    BY <1>1 DEF StepRight, ListRight
  <2>2. /\ fb \in listed \cup {0} /\ 0 \notin listed
        /\ \A b \in listed : b \in blocks /\ Link(b) \in listed \cup {0} /\ Link(b) \in Nat
        /\ prev # 0 => prev \in listed /\ fb = Link(prev)
    BY <1>1, SearchIs DEF StepRight
  <2> QED BY <1>1, <2>1, <2>2 DEF FreeListRight, StepRight, SearchRight
<1>4. /\ fb \in Nat /\ fb \in DOMAIN mem /\ Behind(fb) = fb + Word * s /\ Behind(fb) \in Nat
      /\ s \in Nat /\ s >= 2 /\ Sizes[fb] = s /\ fb < Behind(fb) /\ fb \in blocks
  <2>1. fb \in blocks
    BY <1>3
  <2>2. /\ fb \in Nat /\ fb \in DOMAIN mem /\ Behind(fb) \in Nat /\ s \in 2 .. MaxBlock /\ Sizes[fb] = s
        /\ fb + Word < Behind(fb)
    BY <2>1, BlockIs DEF HeapRight
  <2>3. MaxBlock \in Nat
    BY DEF MaxBlock
  <2> QED BY <2>1, <2>2, <2>3 DEF Behind, Word
<1>5. IF Exact THEN s = n ELSE s >= n + 2
  BY <1>1, <1>2, <1>4 DEF Exact, Suits
<1>6. prev # 0 => prev \in blocks /\ prev # fb /\ prev \in Nat /\ prev + Word \in DOMAIN mem
  <2> SUFFICES ASSUME prev # 0 PROVE prev \in blocks /\ prev # fb /\ prev \in Nat /\ prev + Word \in DOMAIN mem
    OBVIOUS
  <2>1. prev \in listed /\ prev \in blocks /\ Link(prev) = fb
    BY <1>3
  <2> DEFINE N == [b \in listed |-> Link(b)]
  <2>2. N[prev] = fb
    BY <2>1
  <2> HIDE DEF N
  <2>3. RunsThrough(free, listed, N)
    BY <1>3 DEF N
  <2>4. N[prev] # prev
    BY <2>1, <2>3, ListApart
  <2> QED BY <2>1, <2>2, <2>4, BlockIs, LinkIs DEF HeapRight
(* The rest is within the block.                                           *)
<1>7. ASSUME ~Exact
      PROVE  /\ Rest \in Nat /\ Rest \in DOMAIN mem /\ Rest + Word \in DOMAIN mem /\ Rest # Rest + Word
             /\ fb < Rest /\ Rest + Word < Behind(fb) /\ fb # Rest + Word
  <2>1. n < s /\ n + 1 < s /\ n \in Nat /\ n + 1 \in Nat
    BY <1>2, <1>4, <1>5, <1>7
  <2>2. /\ fb + Word * n \in DOMAIN mem /\ fb + Word * (n + 1) \in DOMAIN mem
        /\ fb + Word * (n + 1) < Behind(fb)
    BY <1>4, <2>1, BlockWord DEF HeapRight
  <2>3. Rest = fb + Word * n /\ Rest + Word = fb + Word * (n + 1) /\ Rest \in Nat /\ fb < Rest /\ Rest < Rest + Word
    BY <1>2, <1>4 DEF Rest, Word
  <2> QED BY <1>4, <2>2, <2>3 DEF Word
<1>8. ASSUME ~Exact
      PROVE  /\ Header(0, s - n) \in Nat /\ SizeOf(Header(0, s - n)) = s - n
             /\ TagOf(Header(0, s - n)) = 0 /\ ~IsMarked(Header(0, s - n))
  <2>1. s - n \in Nat /\ 0 \in Nat /\ 0 < 128
    BY <1>2, <1>4, <1>5, <1>8
  <2> QED BY <2>1, HeaderOf
(* What has been written before the block is filled.                       *)
<1>9. /\ mm \in [DOMAIN mem -> Nat]
      /\ \A a \in DOMAIN mem : ~(fb <= a /\ a < Behind(fb)) /\ (prev = 0 \/ a # prev + Word) => mm[a] = mem[a]
      /\ ~Exact => mm[Rest] = Header(0, s - n) /\ mm[Rest + Word] = Link(fb)
      /\ prev # 0 => mm[prev + Word] = to
  <2>0. mem \in [DOMAIN mem -> Nat] /\ Link(fb) \in Nat
    BY <1>3 DEF HeapRight, ChunksRight
  <2>1. /\ base \in [DOMAIN mem -> Nat]
        /\ \A a \in DOMAIN mem : ~(fb <= a /\ a < Behind(fb)) => base[a] = mem[a]
        /\ ~Exact => base[Rest] = Header(0, s - n) /\ base[Rest + Word] = Link(fb)
    <3>1. CASE Exact
      BY <2>0, <3>1
    <3>2. CASE ~Exact
      <4>1. base = [[mem EXCEPT ![Rest] = Header(0, s - n)] EXCEPT ![Rest + Word] = Link(fb)]
        BY <3>2 DEF WithRest
      <4>2. /\ Rest \in Nat /\ Rest \in DOMAIN mem /\ Rest + Word \in DOMAIN mem /\ Rest # Rest + Word
            /\ fb <= Rest /\ Rest < Behind(fb) /\ fb <= Rest + Word /\ Rest + Word < Behind(fb)
        BY <1>4, <1>7, <3>2 DEF Word
      <4>3. Header(0, s - n) \in Nat
        BY <1>8, <3>2
      <4> HIDE DEF base, s, n
      <4> QED BY <2>0, <4>1, <4>2, <4>3
    <3> QED BY <3>1, <3>2
  <2> HIDE DEF base
  <2>2. to \in Nat
    BY <1>7, <2>0
  <2>3. ASSUME prev # 0, ~Exact PROVE prev + Word # Rest /\ prev + Word # Rest + Word
    <3>1. /\ Rest \in Nat /\ Rest + Word \in Nat /\ fb < Rest /\ Rest < Behind(fb)
          /\ fb < Rest + Word /\ Rest + Word < Behind(fb)
      BY <1>4, <1>7, <2>3 DEF Word
    <3> QED BY <1>4, <1>6, <2>3, <3>1, WordsApart DEF HeapRight
  <2>4. CASE prev = 0
    BY <2>1, <2>4
  <2>5. CASE prev # 0
    <3>1. mm = [base EXCEPT ![prev + Word] = to] /\ prev + Word \in DOMAIN mem
      BY <1>6, <2>5
    <3> HIDE DEF mm, to, s, n
    <3> QED BY <1>7, <2>1, <2>2, <2>3, <2>5, <3>1
  <2> QED BY <2>4, <2>5
<1> HIDE DEF mm, to, base
<1>10. fb \in B /\ L[fb] = n /\ Tiled(chunks, B, L, bump') /\ (~Exact => Rest \notin blocks)
  <2>0. ChunkList(chunks) /\ Tiled(chunks, blocks, Sizes, bump)
    BY DEF HeapRight, ChunksRight, BlocksRight
  <2>1. CASE Exact
    <3>1. B = blocks /\ \A d \in blocks : L[d] = Sizes[d]
      BY <1>4, <1>5, <2>1 DEF Sizes
    <3> HIDE DEF L, B
    <3>2. Tiled(chunks, blocks, L, bump)
      BY <2>0, <3>1, TileSame
    <3> QED BY <1>1, <1>4, <1>5, <2>1, <3>1, <3>2
  <2>2. CASE ~Exact
    <3>1. B = blocks \cup {Rest} /\ rest = {Rest} /\ fb # Rest /\ L[fb] = n /\ L[Rest] = s - n
      BY <1>4, <1>7, <2>2
    <3>2. Rest \notin blocks
      <4>1. Rest \in Nat /\ fb < Rest /\ Rest < Behind(fb)
        BY <1>4, <1>7, <2>2 DEF Word
      <4> QED BY <1>4, <4>1, WordsApart DEF HeapRight
    <3>3. \A d \in blocks \ {fb} : L[d] = Sizes[d]
      BY <3>1, <3>2 DEF Sizes
    <3>4. Rest = fb + Word * n /\ Sizes[fb] >= n + 2 /\ L[Rest] = Sizes[fb] - n
      BY <1>4, <1>5, <2>2, <3>1 DEF Rest
    <3> HIDE DEF L, B, n, s
    <3>5. Tiled(chunks, blocks \cup {Rest}, L, bump)
      <4>1. /\ L[fb] = n /\ n \in Nat /\ n >= 2 /\ fb \in blocks
            /\ Rest = fb + Word * n /\ Sizes[fb] >= n + 2 /\ L[Rest] = Sizes[fb] - n
            /\ \A d \in blocks \ {fb} : L[d] = Sizes[d]
        BY <1>2, <1>4, <3>1, <3>3, <3>4
      <4> QED BY <2>0, <4>1, TileSplit
    <3> QED BY <1>1, <1>4, <3>1, <3>2, <3>5
  <2> QED BY <2>1, <2>2
<1>11. ASSUME NEW d \in blocks \ {fb}, NEW a \in DOMAIN mem, d <= a, a < Behind(d), prev = 0 \/ a # prev + Word
       PROVE  mm[a] = mem[a]
  <2>1. a \in Nat
    BY ChunksAre, WordsInAre DEF HeapRight, ChunksRight
  <2>2. ~(fb <= a /\ a < Behind(fb))
    BY <1>4, <1>11, <2>1, BlocksApart DEF HeapRight
  <2> QED BY <1>9, <1>11, <2>2
<1>12. ASSUME NEW d \in blocks \ {fb} PROVE mm[d] = mem[d] /\ L[d] = SizeOf(mem[d]) /\ d \in B
  <2>1. d \in DOMAIN mem /\ d \in Nat /\ d <= d /\ d < Behind(d)
    <3>1. d \in DOMAIN mem /\ d \in Nat /\ d + Word < Behind(d) /\ Behind(d) \in Nat
      BY BlockIs DEF HeapRight
    <3> QED BY <3>1 DEF Word
  <2>2. prev = 0 \/ d # prev + Word
    <3>1. ASSUME prev # 0, d = prev PROVE d # prev + Word
      BY <2>1, <3>1 DEF Word
    <3> QED BY <1>6, <3>1, WordsApart DEF HeapRight
  <2> QED BY <1>10, <1>11, <2>1, <2>2
<1>13. \A d \in B \ {fb} : SizeOf(mm[d]) = L[d] /\ TagOf(mm[d]) <= 4 /\ ~IsMarked(mm[d])
  <2>1. ASSUME NEW d \in blocks \ {fb} PROVE SizeOf(mm[d]) = L[d] /\ TagOf(mm[d]) <= 4 /\ ~IsMarked(mm[d])
    BY <1>1, <1>12 DEF HeapRight, BlocksRight, StepRight, Unmarked
  <2>2. ASSUME ~Exact PROVE SizeOf(mm[Rest]) = L[Rest] /\ TagOf(mm[Rest]) <= 4 /\ ~IsMarked(mm[Rest])
    <3>1. L[Rest] = s - n
      BY <1>4, <1>7, <2>2
    <3> QED BY <1>8, <1>9, <2>2, <3>1
  <2> QED BY <2>1, <2>2
<1>14. \A a \in DOMAIN mem : mm[a] = 0 \/ \E d \in B : d <= a /\ a < d + Word * L[d]
  <2> SUFFICES ASSUME NEW a \in DOMAIN mem, mm[a] # 0 PROVE \E d \in B : d <= a /\ a < d + Word * L[d]
    OBVIOUS
  <2>0. a \in Nat
    BY ChunksAre, WordsInAre DEF HeapRight, ChunksRight
  <2>1. CASE fb <= a /\ a < Behind(fb)
    <3>1. CASE Exact
      BY <1>4, <1>5, <1>10, <2>1, <3>1
    <3>2. CASE ~Exact
      <4>1. Rest \in B /\ L[Rest] = s - n /\ Rest = fb + Word * n
        BY <1>4, <1>7, <3>2 DEF Rest
      <4>2. Rest + Word * (s - n) = Behind(fb) /\ Rest \in Nat
        BY <1>2, <1>4, <1>7, <3>2 DEF Rest, Word
      <4> HIDE DEF L, B
      <4> QED BY <1>10, <2>0, <2>1, <4>1, <4>2
    <3> QED BY <3>1, <3>2
  <2>2. CASE ~(fb <= a /\ a < Behind(fb)) /\ prev # 0 /\ a = prev + Word
    <3>1. prev \in blocks \ {fb} /\ prev < prev + Word /\ prev + Word < Behind(prev) /\ prev \in Nat
      BY <1>6, <2>2, LinkIs DEF HeapRight
    <3> QED BY <1>12, <2>0, <2>2, <3>1 DEF Behind, Word
  <2>3. CASE ~(fb <= a /\ a < Behind(fb)) /\ (prev = 0 \/ a # prev + Word)
    <3>1. mem[a] # 0
      BY <1>9, <2>3
    <3>2. PICK d \in blocks : d <= a /\ a < Behind(d)
      BY <3>1, ChunksAre DEF HeapRight, BlocksRight
    <3> QED BY <1>12, <2>3, <3>2 DEF Behind
  <2> QED BY <2>1, <2>2, <2>3
<1>15. \A d \in DOMAIN objs : /\ d \in B \ {fb}
                              /\ \A a \in DOMAIN mem : d <= a /\ a < Behind(d) => mm[a] = mem[a]
  <2> SUFFICES ASSUME NEW d \in DOMAIN objs
               PROVE  d \in B \ {fb} /\ \A a \in DOMAIN mem : d <= a /\ a < Behind(d) => mm[a] = mem[a]
    OBVIOUS
  <2>1. d \in blocks \ {fb} /\ d \notin listed
    BY <1>3, ObjIs DEF HeapRight
  <2>2. ASSUME NEW a \in DOMAIN mem, d <= a, a < Behind(d), prev # 0 PROVE a # prev + Word
    <3>1. prev \in blocks /\ prev # d /\ prev \in Nat /\ prev < prev + Word /\ prev + Word < Behind(prev)
      BY <1>3, <1>6, <2>1, <2>2, LinkIs DEF HeapRight
    <3>2. a \in Nat
      BY ChunksAre, WordsInAre DEF HeapRight, ChunksRight
    <3>3. a = prev + Word => prev <= a /\ a < Behind(prev)
      BY <3>1, <3>2 DEF Word
    <3> QED BY <2>1, <2>2, <3>1, <3>2, <3>3, BlocksApart DEF HeapRight
  <2> QED BY <1>11, <1>12, <2>1, <2>2
<1>16. bump' \in Nat /\ free' \in Nat /\ chunks # <<>>
  <2>1. \E i \in 1 .. Len(chunks) : fb \in BlocksAt(chunks, blocks, i)
    BY <1>4, BlockIs DEF HeapRight
  <2>2. chunks # <<>>
    BY <2>1
  <2>3. to \in Nat
    BY <1>3, <1>7 DEF to
  <2> QED BY <1>1, <2>2, <2>3 DEF HeapRight, ChunksRight, TypeRight
<1> HIDE DEF L, B
<1>17. /\ HeapRight'
       /\ RequestRight' /\ SearchRight' /\ Unmarked' /\ NoneToScan'
       /\ WalkRight' /\ MarkRight' /\ SweepRight'
       /\ \A d \in B \ {fb} : d + Word \in DOMAIN mem /\ mem'[d + Word] = mm[d + Word]
       /\ DOMAIN objs' = DOMAIN objs \cup {fb} /\ pc' = "run"
  BY <1>1, <1>9, <1>10, <1>13, <1>14, <1>15, <1>16, Handing
(* The list.                                                               *)
<1> DEFINE F == listed \ {fb}
           N == [b \in listed |-> Link(b)]
           M == [b \in listed' |-> Link(b)']
<1>a. \A d \in listed' : M[d] = mem'[d + Word]
  BY DEF Link
<1>18. \A d \in F : (prev = 0 \/ d # prev) => M[d] = N[d]
  <2> SUFFICES ASSUME NEW d \in F, prev = 0 \/ d # prev PROVE Link(d)' = Link(d)
    BY <1>1
  <2>1. d \in blocks \ {fb} /\ d \in B
    BY <1>3, <1>12
  <2>2. d + Word \in DOMAIN mem /\ d <= d + Word /\ d + Word < Behind(d)
    <3>1. d + Word \in DOMAIN mem /\ d < d + Word /\ d + Word < Behind(d) /\ d \in Nat
      BY <2>1, LinkIs, BlockIs DEF HeapRight
    <3> QED BY <3>1 DEF Word
  <2>3. prev = 0 \/ d + Word # prev + Word
    BY <1>6, <2>1, WordsApart DEF HeapRight
  <2>4. mm[d + Word] = mem[d + Word]
    BY <1>11, <2>1, <2>2, <2>3
  <2> QED BY <1>17, <2>1, <2>4 DEF Link
<1>19. prev # 0 => prev \in F /\ M[prev] = to /\ N[prev] = fb
  <2> SUFFICES ASSUME prev # 0 PROVE prev \in F /\ M[prev] = to /\ N[prev] = fb
    OBVIOUS
  <2>1. prev \in F /\ prev \in listed' /\ N[prev] = fb /\ prev \in B \ {fb}
    BY <1>1, <1>3, <1>6, <1>12
  <2>2. mem'[prev + Word] = to
    BY <1>9, <1>17, <2>1
  <2> QED BY <1>a, <2>1, <2>2
<1>20. ~Exact => Rest \in listed' /\ M[Rest] = N[fb] /\ Rest \notin listed /\ Rest # 0
  <2> SUFFICES ASSUME ~Exact PROVE Rest \in listed' /\ M[Rest] = N[fb] /\ Rest \notin listed /\ Rest # 0
    OBVIOUS
  <2>1. Rest \in listed' /\ Rest \notin listed /\ Rest # 0 /\ Rest \in B \ {fb}
    BY <1>1, <1>3, <1>4, <1>7, <1>10 DEF B
  <2>2. mem'[Rest + Word] = Link(fb)
    BY <1>9, <1>17, <2>1
  <2> QED BY <1>3, <1>a, <2>1, <2>2
<1>21. N[fb] = Link(fb) /\ RunsThrough(free, listed, N)
  BY <1>3
<1> HIDE DEF M, N
<1>22. RunsThrough(free', listed', M)
  <2>1. CASE prev = 0
    <3>1. fb = free
      BY <1>3, <2>1
    <3>2. RunsThrough(N[fb], F, M)
      BY <1>3, <1>18, <1>21, <2>1, <3>1, ListTail
    <3>3. CASE Exact
      <4>1. free' = N[fb] /\ listed' = F
        BY <1>1, <1>21, <2>1, <3>3 DEF to
      <4> QED BY <3>2, <4>1
    <3>4. CASE ~Exact
      <4>1. free' = Rest /\ listed' = F \cup {Rest}
        BY <1>1, <2>1, <3>4 DEF to
      <4>2. RunsThrough(Rest, F \cup {Rest}, M)
        BY <1>3, <1>20, <3>2, <3>4, ListCons
      <4> QED BY <4>1, <4>2
    <3> QED BY <3>3, <3>4
  <2>2. CASE prev # 0
    <3>0. free' = free
      BY <1>1, <2>2
    <3>1. CASE Exact
      <4>1. listed' = F /\ M[prev] = N[fb]
        BY <1>1, <1>19, <1>21, <2>2, <3>1 DEF to
      <4>2. RunsThrough(free, F, M)
        BY <1>3, <1>18, <1>19, <1>21, <2>2, <4>1, ListCut
      <4> QED BY <3>0, <4>1, <4>2
    <3>2. CASE ~Exact
      <4> DEFINE K == [d \in F |-> IF d = prev THEN N[fb] ELSE N[d]]
      <4>1. listed' = F \cup {Rest} /\ M[prev] = Rest
        BY <1>1, <1>19, <2>2, <3>2 DEF to
      <4>2. K[prev] = N[fb] /\ \A d \in F \ {prev} : K[d] = N[d]
        BY <1>19, <2>2
      <4> HIDE DEF K
      <4>3. RunsThrough(free, F, K)
        BY <1>3, <1>19, <1>21, <2>2, <4>2, ListCut
      <4>4. RunsThrough(free, F \cup {Rest}, M)
        <5>1. 0 \notin F /\ prev \in F /\ Rest \notin F /\ Rest # 0 /\ M[prev] = Rest /\ M[Rest] = K[prev]
          BY <1>3, <1>19, <1>20, <2>2, <3>2, <4>1, <4>2
        <5>2. \A d \in F \ {prev} : M[d] = K[d]
          BY <1>18, <4>2
        <5> QED BY <4>3, <5>1, <5>2, ListInsert
      <4> QED BY <3>0, <4>1, <4>4
    <3> QED BY <3>1, <3>2
  <2> QED BY <2>1, <2>2
<1>23. ListRight'
  <2>1. listed' \subseteq blocks'
    BY <1>1, <1>3 DEF B
  <2>2. listed' \cap DOMAIN objs' = {}
    BY <1>1, <1>3, <1>4, <1>7, <1>10, <1>17, ObjIs DEF HeapRight
  <2> QED BY <1>22, <2>1, <2>2 DEF ListRight, FreeListRight, M
<1> QED BY <1>17, <1>23 DEF IInv, StepRight

-----------------------------------------------------------------------------
(* The invariant holds.                                                    *)

LEMMA InvInit == Init => IInv
<1> SUFFICES ASSUME Init PROVE IInv
  OBVIOUS
<1> USE DEF Init
<1>1. TypeRight
  <2>1. locals \in [Locals -> Nat]
    BY GcAssumption DEF NumberWord
  <2> QED BY <2>1, GcAssumption DEF TypeRight
<1>2. ChunksRight
  <2>1. ChunkList(<<>>) /\ WordsIn(<<>>) = {}
    BY GcAssumption DEF ChunkList, WordsIn
  <2> QED BY <2>1 DEF ChunksRight
<1>3. BlocksRight
  <2>1. WordsIn(<<>>) = {} /\ Len(<<>>) = 0
    BY DEF WordsIn
  <2> QED BY <2>1 DEF BlocksRight, Tiled
<1>4. ObjsRight
  BY DEF ObjsRight
<1>5. ListRight
  BY ListEmpty DEF ListRight, FreeListRight
<1>6. RequestRight /\ SearchRight /\ Unmarked /\ NoneToScan /\ WalkRight /\ MarkRight /\ SweepRight
  BY DEF RequestRight, Pending, SearchRight, Unmarked, NoneToScan, WalkRight, MarkRight, SweepRight
<1> QED BY <1>1, <1>2, <1>3, <1>4, <1>5, <1>6 DEF IInv, HeapRight, StepRight

LEMMA InvNext == IInv /\ [Next]_vars => IInv'
<1> SUFFICES ASSUME IInv, [Next]_vars PROVE IInv'
  OBVIOUS
<1>1. CASE Next
  <2>1. pc # "struck"
    BY <1>1 DEF Next, AllocStep, Gc, Skip, TakeFree, TakeBump, AddChunk, Searching, Collect, NextChunk, ClearBlock,
                ScanRoots, NextBlock, ScanField, StartSweep, Sweep, Collected, Ask, Forget, SetGlobal, GetGlobal,
                ReadField, Running
  <2>2. HeapRight /\ StepRight
    BY <2>1 DEF IInv
  <2>3. CASE Skip
    BY <2>2, <2>3, StepSkip
  <2>4. CASE TakeFree
    BY <2>2, <2>4, StepTakeFree
  <2>5. CASE TakeBump
    BY <2>2, <2>5, StepTakeBump
  <2>6. CASE AddChunk
    BY <2>2, <2>6, StepAddChunk
  <2>7. CASE Collect
    BY <2>2, <2>7, StepCollect
  <2>8. CASE NextChunk
    BY <2>2, <2>8, StepNextChunk
  <2>9. CASE ClearBlock
    BY <2>2, <2>9, StepClearBlock
  <2>10. CASE ScanRoots
    BY <2>2, <2>10, StepScanRoots
  <2>11. CASE NextBlock
    BY <2>2, <2>11, StepNextBlock
  <2>12. CASE ScanField
    BY <2>2, <2>12, StepScanField
  <2>13. CASE StartSweep
    BY <2>2, <2>13, StepStartSweep
  <2>14. CASE Sweep
    BY <2>2, <2>14, StepSweep
  <2>15. CASE Collected
    BY <2>2, <2>15, StepCollected
  <2>16. CASE Ask
    BY <2>2, <2>16, StepAsk
  <2>17. CASE Forget \/ SetGlobal \/ GetGlobal \/ ReadField
    BY <2>2, <2>17, StepMove
  <2> QED BY <1>1, <2>3, <2>4, <2>5, <2>6, <2>7, <2>8, <2>9, <2>10, <2>11, <2>12, <2>13, <2>14, <2>15, <2>16, <2>17
          DEF Next, AllocStep, Gc
<1>2. CASE UNCHANGED vars
  <2> USE <1>2 DEF vars, heap, search, walk, marking, program
  <2>0. CASE pc = "struck"
    BY <2>0 DEF IInv
  <2>1. CASE pc # "struck"
    <3>1. HeapRight /\ StepRight
      BY <2>1 DEF IInv
    <3>2. Sizes' = Sizes /\ Reachable' = Reachable /\ \A b : Behind(b)' = Behind(b) /\ Link(b)' = Link(b)
      BY SameReach DEF Sizes, Behind, Link
    <3>3. HeapRight'
      BY <3>1, <3>2, HeapKept DEF HeapRight, TypeRight
    <3>4. RequestRight' /\ ListRight' /\ SearchRight' /\ Unmarked' /\ NoneToScan' /\ WalkRight'
      BY <3>1, <3>2 DEF StepRight, RequestRight, Pending, Asked, ListRight, FreeListRight, SearchRight, Link,
                        Unmarked, NoneToScan, WalkRight
    <3>5. MarkRight'
      BY <3>1 DEF StepRight, MarkRight, Traced, Roots
    <3>6. SweepRight'
      BY <3>1 DEF StepRight, SweepRight, IsDone
    <3> QED BY <3>3, <3>4, <3>5, <3>6 DEF IInv, StepRight
  <2> QED BY <2>0, <2>1
<1> QED BY <1>1, <1>2

(* As long as no word of the program's was taken for a header: chunks and  *)
(* blocks, free list, walks and marks are as the invariant says, at every  *)
(* step of a search and of a collection (rt.c:141-254).                    *)
THEOREM GcInvariant == Spec => []IInv
<1>1. Init => IInv
  BY InvInit
<1>2. IInv /\ [Next]_vars => IInv'
  BY InvNext
<1> QED BY <1>1, <1>2, PTL DEF Spec

LEMMA InvIntact == IInv => ReachableIntact
<1> SUFFICES ASSUME HeapRight, StepRight, pc # "struck", NEW b \in Reachable PROVE Intact(b)
  BY DEF IInv, ReachableIntact
<1>1. b \in DOMAIN objs /\ Holds(b) /\ b \in blocks /\ Len(objs[b]) \in Nat
  BY ReachIs, ObjIs DEF HeapRight, ObjsRight
<1>2. pc \notin {"mark", "sweep"} => ~IsMarked(mem[b])
  BY <1>1 DEF StepRight, Unmarked
<1>3. DOMAIN objs[b] \ {1} = 2 .. Len(objs[b])
  BY <1>1 DEF Holds
<1> QED BY <1>1, <1>2, <1>3 DEF Holds, Intact

(* Whatever the program can get at is as it wrote it, across collections,  *)
(* splits and new chunks, whatever words are left over on the stack, until *)
(* a word of the program's that looks like a header is taken for one.      *)
THEOREM ReachableIntactHolds == Spec => []ReachableIntact
<1>1. IInv => ReachableIntact
  BY InvIntact
<1> QED BY <1>1, GcInvariant, PTL

LEMMA InvTiles == IInv => BlocksTile
<1> SUFFICES ASSUME HeapRight, StepRight, pc # "struck"
             PROVE  /\ ChunksTiled
                    /\ Reachable \subseteq blocks \ listed /\ listed \subseteq blocks
                    /\ pc # "mark" => FreeListRight
  BY DEF IInv, BlocksTile
<1>1. listed \subseteq blocks /\ listed \cap DOMAIN objs = {} /\ (pc # "mark" => FreeListRight)
  BY DEF StepRight, ListRight
<1>2. Reachable \subseteq blocks \ listed
  BY <1>1, ReachIs, ObjIs DEF HeapRight
<1>3. \A i \in 1 .. Len(chunks) : /\ BlocksIn(i) = BlocksAt(chunks, blocks, i)
                                  /\ Stops(i) = StopsAt(chunks, blocks, Sizes, i)
                                  /\ ChunkEnd(i) = EndAt(chunks, i)
  <2>1. ASSUME NEW i \in 1 .. Len(chunks)
        PROVE  /\ BlocksIn(i) = BlocksAt(chunks, blocks, i) /\ ChunkEnd(i) = EndAt(chunks, i)
               /\ Stops(i) = StopsAt(chunks, blocks, Sizes, i)
    <3>1. BlocksIn(i) = BlocksAt(chunks, blocks, i) /\ ChunkEnd(i) = EndAt(chunks, i)
      BY DEF BlocksIn, BlocksAt, ChunkEnd, EndAt
    <3>2. \A b \in BlocksIn(i) : Behind(b) = b + Word * Sizes[b]
      BY DEF BlocksIn, Behind, Sizes
    <3> QED BY <3>1, <3>2 DEF Stops, StopsAt
  <2> QED BY <2>1
<1>4. DOMAIN chunks = 1 .. Len(chunks) /\ DOMAIN mem = WordsIn(chunks) /\ ChunkList(chunks)
      /\ Tiled(chunks, blocks, Sizes, bump)
  BY ChunksAre DEF HeapRight, ChunksRight, BlocksRight
<1>5. ASSUME NEW b \in blocks PROVE InChunk(b) /\ SizeOf(mem[b]) >= 2
  <2>1. PICK i \in 1 .. Len(chunks) : b \in BlocksAt(chunks, blocks, i)
    BY BlockIs DEF HeapRight
  <2>2. InChunk(b)
    BY <1>3, <1>4, <2>1 DEF InChunk, BlocksAt
  <2>3. SizeOf(mem[b]) \in 2 .. MaxBlock /\ MaxBlock \in Nat
    BY BlockIs DEF HeapRight, MaxBlock
  <2> QED BY <2>2, <2>3
<1>6. ASSUME NEW i \in 1 .. Len(chunks), NEW a \in StopsAt(chunks, blocks, Sizes, i),
             a \notin BlocksAt(chunks, blocks, i)
      PROVE  Unused(i, a)
  <2>1. \A d \in BlocksAt(chunks, blocks, i) : d < a
    BY <1>4, <1>6 DEF Tiled
  <2>2. /\ a <= EndAt(chunks, i)
        /\ \A x \in Nat : a <= x /\ x < EndAt(chunks, i) => ~\E b \in blocks : b <= x /\ x < b + Word * Sizes[b]
    BY <1>4, <2>1, NoneBeyond
  <2>3. ASSUME NEW x \in DOMAIN mem, x >= a, x < EndAt(chunks, i) PROVE mem[x] = 0
    <3>1. x \in Nat
      BY <1>4, WordsInAre
    <3>2. a \in Nat
      BY <1>4, <2>1, NoneBeyond
    <3>3. ~\E b \in blocks : b <= x /\ x < Behind(b)
      BY <2>2, <2>3, <3>1, <3>2 DEF Behind, Sizes
    <3> QED BY <1>4, <3>3 DEF HeapRight, BlocksRight
  <2> QED BY <1>3, <2>2, <2>3 DEF Unused
<1>7. ASSUME chunks # <<>> PROVE bump \in Stops(1) \ BlocksIn(1)
  <2>1. 1 \in 1 .. Len(chunks)
    BY <1>4, <1>7 DEF ChunkList
  <2>2. bump \in StopsAt(chunks, blocks, Sizes, 1) /\ \A d \in BlocksAt(chunks, blocks, 1) : d < bump
    BY <1>4, <1>7 DEF Tiled
  <2>3. bump \in Nat
    BY DEF HeapRight, ChunksRight
  <2> QED BY <1>3, <2>1, <2>2, <2>3
<1> QED BY <1>1, <1>2, <1>3, <1>4, <1>5, <1>6, <1>7 DEF ChunksTiled

(* Blocks tile the chunks, and the free list runs through blocks that are  *)
(* none of the program's, at every step but those of a mark, with the same *)
(* exception.                                                              *)
THEOREM BlocksTileHolds == Spec => []BlocksTile
<1>1. IInv => BlocksTile
  BY InvTiles
<1> QED BY <1>1, GcInvariant, PTL
=============================================================================
