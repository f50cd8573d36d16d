------------------------------ MODULE Rt5Alloc ------------------------------
(***************************************************************************)
(* The allocator of gen5/rt5.c: exact-size lists for small blocks, size    *)
(* classes for big ones with a bit per non-empty class, carving, and bump  *)
(* allocation from chunks.  Everything is measured in words; the constants *)
(* of the code (64, 256, 8 sub-classes, 16, 2^20) are parameters.          *)
(*                                                                         *)
(* A call of the allocator is one step, the runtime has one thread.  Its   *)
(* functions are operators from heap to heap, named as in the code.  A     *)
(* free list is the sequence of its blocks, head first.                    *)
(***************************************************************************)
EXTENDS Integers, Sequences, FiniteSets

CONSTANTS SmallMax,    \* SMALL_MAX
          SubBits,     \* log2 of the sub-classes per power of two (3)
          BigScan,     \* BIG_SCAN
          ChunkWords,  \* CHUNK_WORDS
          MemWords,    \* words that malloc can give in all (bound)
          Requests     \* lengths asked for, in words (bound)

ASSUME AllocAssumption ==
  /\ SubBits \in Nat /\ BigScan \in Nat
  /\ SmallMax \in Nat /\ SmallMax >= 2 /\ SmallMax + 1 >= 2 ^ SubBits
  /\ MemWords \in Nat /\ ChunkWords \in Nat \ {0, 1}
  /\ Requests \subseteq 2 .. MemWords

Log2(n) == CHOOSE k \in 0 .. n : 2 ^ k <= n /\ n < 2 ^ (k + 1)
SubClasses == 2 ^ SubBits

(* big_class: floor(log2 n) and the next SubBits bits.                     *)
BigClass(n) == Log2(n) * SubClasses
               + ((n \div 2 ^ (Log2(n) - SubBits)) % SubClasses)

Classes == 0 .. BigClass(MemWords)

VARIABLES heap,  \* free lists, class bits, bump pointers; lost is a history
                 \* counter of the words abandoned
          live,  \* blocks handed out and not freed
          brk,   \* words malloc has handed out so far (external)
          pc     \* "run", or "oom" after rc_oom

vars == <<heap, live, brk, pc>>

Blk(a, n) == [at |-> a, size |-> n]
Span(b) == b.at .. b.at + b.size - 1

Elems(l) == {l[i] : i \in DOMAIN l}

(* Every block is on the list of its size, the bits tell which classes are *)
(* empty, and "any block of a higher class satisfies a request of a lower  *)
(* one".                                                                   *)
Classified ==
  /\ \A n \in 2 .. SmallMax : \A b \in Elems(heap.small[n]) : b.size = n
  /\ \A c \in Classes : \A b \in Elems(heap.big[c]) :
        b.size > SmallMax /\ BigClass(b.size) = c
  /\ heap.bits = {c \in Classes : heap.big[c] # <<>>}
  /\ \A n \in Requests, c \in Classes : n > SmallMax /\ c > BigClass(n) =>
        \A b \in Elems(heap.big[c]) : b.size >= n

(* Well formed lists, classes and chunk pointers.                          *)
TypeOK ==
  /\ heap.small \in [2 .. SmallMax -> Seq([at : Nat, size : Nat])]
  /\ heap.big \in [Classes -> Seq([at : Nat, size : Nat])]
  /\ heap.bits \subseteq Classes
  /\ heap.bump \in 0 .. brk /\ heap.end \in 0 .. brk /\ heap.lost \in Nat
  /\ live \subseteq [at : Nat, size : Nat]
  /\ brk \in 0 .. MemWords
  /\ pc \in {"run", "oom"}
  /\ Classified

Init ==
  /\ heap = [small |-> [n \in 2 .. SmallMax |-> <<>>],
             big |-> [c \in Classes |-> <<>>],
             bits |-> {}, bump |-> 0, end |-> 0, lost |-> 0]
  /\ live = {} /\ brk = 0 /\ pc = "run"

-----------------------------------------------------------------------------
(* push_free, for blocks of two words or more.                             *)
PushFree(h, b) ==
  IF b.size <= SmallMax
  THEN [h EXCEPT !.small[b.size] = <<b>> \o @]
  ELSE LET c == BigClass(b.size)
       IN [h EXCEPT !.big[c] = <<b>> \o @, !.bits = @ \cup {c}]

(* The bit of class c follows its list after blocks were taken out.        *)
ClearBit(h, c) == IF h.big[c] = <<>> THEN [h EXCEPT !.bits = @ \ {c}] ELSE h

(* Mutant: the search starts one class too high.                           *)
NonemptyAbove(h, c) == {k \in h.bits : k > c}

(* first_nonempty_class: the set bits from class c on.                     *)
NonemptyFrom(h, c) == {k \in h.bits : k >= c}
FirstNonempty(h, c) == CHOOSE k \in NonemptyFrom(h, c) :
                          \A j \in NonemptyFrom(h, c) : k <= j

PopBig(h, c) == ClearBit([h EXCEPT !.big[c] = Tail(@)], c)

(* Mutant: the remainder is measured from the start of the block.          *)
CarveWhole(h, b, n) ==
  LET rem == b.size - n
  IN IF rem >= 2 THEN PushFree(h, Blk(b.at + n, b.size)) ELSE h

(* carve: the rest of b behind its first n words; one word is abandoned.   *)
Carve(h, b, n) ==
  LET rem == b.size - n
  IN IF rem >= 2 THEN PushFree(h, Blk(b.at + n, rem))
     ELSE [h EXCEPT !.lost = @ + rem]

(* The heap after a block was found at a, and how it was found.            *)
Found(h, a) == [heap |-> h, at |-> a, brk |-> brk]

(* A small or big request served by the first block of the first non-empty *)
(* class from c on.                                                        *)
Nibble(h, c, n) ==
  LET k == FirstNonempty(h, c)
      b == Head(h.big[k])
  IN Found(Carve(PopBig(h, k), b, n), b.at)

(* Mutant: the search does not compare the sizes.                          *)
FitsAny(h, n) == LET l == h.big[BigClass(n)]
                 IN {i \in DOMAIN l : i <= BigScan}

(* The positions of the same class that big_alloc looks at and that fit.   *)
Fits(h, n) == LET l == h.big[BigClass(n)]
              IN {i \in DOMAIN l : i <= BigScan /\ l[i].size >= n}

Without(l, i) == SubSeq(l, 1, i - 1) \o SubSeq(l, i + 1, Len(l))

FirstFit(h, n) ==
  LET c == BigClass(n)
      i == CHOOSE i \in Fits(h, n) : \A j \in Fits(h, n) : i <= j
      b == h.big[c][i]
  IN Found(Carve(ClearBit([h EXCEPT !.big[c] = Without(@, i)], c), b, n), b.at)

Avail(h) == h.end - h.bump
ChunkFor(n) == IF n > ChunkWords THEN n ELSE ChunkWords

(* A new chunk; the tail of the old one is recycled, unless it is too      *)
(* short for a free block.                                                 *)
NewChunk(h, n) ==
  LET g == IF Avail(h) >= 2 THEN PushFree(h, Blk(h.bump, Avail(h)))
           ELSE [h EXCEPT !.lost = @ + Avail(h)]
  IN [g EXCEPT !.bump = brk, !.end = brk + ChunkFor(n)]

BumpAlloc(h, n) ==
  LET grow == Avail(h) < n
      g == IF grow THEN NewChunk(h, n) ELSE h
  IN [heap |-> [g EXCEPT !.bump = @ + n], at |-> g.bump,
      brk |-> IF grow THEN brk + ChunkFor(n) ELSE brk]

(* dc_alloc_rc.                                                            *)
AllocRc(h, n) ==
  IF n <= SmallMax
  THEN IF h.small[n] # <<>>
       THEN Found([h EXCEPT !.small[n] = Tail(@)], Head(h.small[n]).at)
       ELSE IF NonemptyFrom(h, 0) # {} THEN Nibble(h, 0, n) ELSE BumpAlloc(h, n)
  ELSE IF Fits(h, n) # {} THEN FirstFit(h, n)
       ELSE IF NonemptyFrom(h, BigClass(n) + 1) # {}
            THEN Nibble(h, BigClass(n) + 1, n)
            ELSE BumpAlloc(h, n)

Alloc(n) ==
  LET r == AllocRc(heap, n) IN
  /\ pc = "run"
  /\ IF r.brk > MemWords
     THEN pc' = "oom" /\ UNCHANGED <<heap, live, brk>>
     ELSE /\ heap' = r.heap /\ brk' = r.brk
          /\ live' = live \cup {Blk(r.at, n)}
          /\ UNCHANGED pc

(* free_block.                                                             *)
Free(b) ==
  /\ pc = "run" /\ b \in live
  /\ heap' = PushFree(heap, b)
  /\ live' = live \ {b}
  /\ UNCHANGED <<brk, pc>>

OutOfMemory == pc = "oom" /\ UNCHANGED vars

Next == \/ \E n \in Requests : Alloc(n)
        \/ \E b \in live : Free(b)
        \/ OutOfMemory

Spec == Init /\ [][Next]_vars

-----------------------------------------------------------------------------
(* Properties.                                                             *)

FreeBlocks == (UNION {Elems(heap.small[n]) : n \in 2 .. SmallMax})
              \cup (UNION {Elems(heap.big[c]) : c \in Classes})
Bump == heap.bump .. heap.end - 1

(* No word is in two places: live blocks, free blocks and the unused part  *)
(* of the chunk never overlap, and no block is on a list twice.            *)
Disjoint ==
  /\ \A x, y \in live \cup FreeBlocks : x # y => Span(x) \cap Span(y) = {}
  /\ live \cap FreeBlocks = {}
  /\ \A x \in live \cup FreeBlocks :
        Span(x) \cap Bump = {} /\ Span(x) \subseteq 0 .. brk - 1
  /\ \A c \in Classes : Cardinality(Elems(heap.big[c])) = Len(heap.big[c])
  /\ \A n \in 2 .. SmallMax :
        Cardinality(Elems(heap.small[n])) = Len(heap.small[n])

(* Memory is never lost, but for the single words that carve and a change  *)
(* of chunks abandon: every word obtained from malloc is in a live block,  *)
(* on a free list or in the unused part of the chunk.                      *)
Words(S) == Cardinality(UNION {Span(b) : b \in S})
NoMemoryLost ==
  brk = Words(live) + Words(FreeBlocks) + (heap.end - heap.bump) + heap.lost

(* Every word that malloc gave is in exactly one place, and every free     *)
(* block in the class that its length and the occupancy bits say.          *)
Accounted == TypeOK /\ Disjoint /\ NoMemoryLost

(* The process asks malloc for a chunk for a small block only when its     *)
(* exact list and all classes are empty, and for a big one only when no    *)
(* block of a higher class is free (in its own class it looks at the first *)
(* BigScan blocks).                                                        *)
GrowsOnlyWhenNeeded ==
  [][brk' # brk =>
       \A new \in live' \ live, b \in FreeBlocks :
          IF new.size <= SmallMax
          THEN b.size <= SmallMax /\ b.size # new.size
          ELSE b.size < new.size \/ BigClass(b.size) = BigClass(new.size)]_vars

(* The allocator implements what Rt5Rc assumes of it.                      *)
Abstract == INSTANCE HeapSpec WITH Addr <- 0 .. MemWords - 1
Implements == Abstract!Spec
=============================================================================
