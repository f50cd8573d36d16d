---------------------------- MODULE Rt5RcProofs ----------------------------
(***************************************************************************)
(* Proofs about Rt5Rc, for every set of blocks, registers and globals and  *)
(* every width of the count.                                               *)
(***************************************************************************)
EXTENDS Rt5Rc, FiniteSetTheorems, TLAPS

(* Counting lemmas: how often a function over a finite set takes a value.  *)

LEMMA OccursNat ==
  ASSUME NEW S, IsFiniteSet(S), NEW f, NEW b
  PROVE  Occurs(f, S, b) \in Nat
<1>1. {s \in S : f[s] = b} \subseteq S
  OBVIOUS
<1> QED BY <1>1, FS_Subset, FS_CardinalityType DEF Occurs

(* A value that is taken somewhere occurs at least once.                   *)
LEMMA OccursPos ==
  ASSUME NEW S, IsFiniteSet(S), NEW f, NEW b, NEW s \in S, f[s] = b
  PROVE  Occurs(f, S, b) >= 1
<1> DEFINE A == {x \in S : f[x] = b}
<1>1. IsFiniteSet(A) /\ s \in A
  BY FS_Subset
<1>2. Cardinality(A) \in Nat /\ Cardinality(A) # 0
  BY <1>1, FS_EmptySet, FS_CardinalityType
<1> QED BY <1>2 DEF Occurs

(* A value that is taken nowhere does not occur.                           *)
LEMMA OccursZero ==
  ASSUME NEW S, NEW f, NEW b, \A s \in S : f[s] # b
  PROVE  Occurs(f, S, b) = 0
<1>1. {s \in S : f[s] = b} = {}
  OBVIOUS
<1> QED BY <1>1, FS_EmptySet DEF Occurs

(* Changing a function at one point moves one occurrence.                  *)
LEMMA OccursUpdate ==
  \A S, f, g, b : \A s \in S :
    IsFiniteSet(S) /\ (\A x \in S : x # s => g[x] = f[x])
    => Occurs(g, S, b) = Occurs(f, S, b) - (IF f[s] = b THEN 1 ELSE 0)
                                         + (IF g[s] = b THEN 1 ELSE 0)
<1> SUFFICES ASSUME NEW S, NEW f, NEW g, NEW b, NEW s \in S, IsFiniteSet(S),
                    \A x \in S : x # s => g[x] = f[x]
             PROVE  Occurs(g, S, b) = Occurs(f, S, b)
                      - (IF f[s] = b THEN 1 ELSE 0) + (IF g[s] = b THEN 1 ELSE 0)
  OBVIOUS
<1> DEFINE A == {x \in S : f[x] = b}
           B == {x \in S : g[x] = b}
<1>1. IsFiniteSet(A) /\ IsFiniteSet(B)
  BY FS_Subset
<1>2. Cardinality(A) \in Nat /\ Cardinality(B) \in Nat
  BY <1>1, FS_CardinalityType
<1>4. Occurs(f, S, b) = Cardinality(A) /\ Occurs(g, S, b) = Cardinality(B)
  BY DEF Occurs
<1>5. CASE f[s] = b /\ g[s] = b
  <2>1. A = B
    BY <1>5
  <2> HIDE DEF A, B
  <2> QED BY <2>1, <1>2, <1>4, <1>5
<1>6. CASE f[s] # b /\ g[s] # b
  <2>1. A = B
    BY <1>6
  <2> HIDE DEF A, B
  <2> QED BY <2>1, <1>2, <1>4, <1>6
<1>7. CASE f[s] = b /\ g[s] # b
  <2>1. B = A \ {s} /\ s \in A
    BY <1>7
  <2>2. Cardinality(B) = Cardinality(A) - 1
    BY <2>1, <1>1, FS_RemoveElement
  <2> HIDE DEF A, B
  <2> QED BY <2>2, <1>2, <1>4, <1>7
<1>8. CASE f[s] # b /\ g[s] = b
  <2>1. B = A \cup {s} /\ s \notin A
    BY <1>8
  <2>2. Cardinality(B) = Cardinality(A) + 1
    BY <2>1, <1>1, FS_AddElement
  <2> HIDE DEF A, B
  <2> QED BY <2>2, <1>2, <1>4, <1>8
<1> QED BY <1>5, <1>6, <1>7, <1>8

-----------------------------------------------------------------------------
(* Type correctness and the use of the control variables.                  *)

LEMMA FirstChildType ==
  \A t \in Tag : FirstChild[t] \in 1 .. MaxSize + 1
BY SizeAssumption DEF FirstChild

LEMMA TypeInit == Init => TypeOK /\ Control
BY BlockAssumption, SizeAssumption
   DEF Init, TypeOK, Control, Tag, HeapTag, Ref, Idx, Running, Aborted, Ended

(* dc_drop keeps the types, whoever calls it.                              *)
LEMMA DcDropType ==
  ASSUME TypeOK, NEW v \in Ref, NEW next \in Running, DcDrop(v, next)
  PROVE  /\ rc' \in [Block -> 0 .. RcImmortal]
         /\ pc' \in Running \cup {"release"} \cup Aborted
         /\ ret' \in Running
         /\ blk' \in Ref
         /\ idx' \in 0 .. MaxSize + 1
         /\ fin' \in {"free", "keep"}
<1>1. CASE Immortal(v)
  BY <1>1 DEF DcDrop, TypeOK
<1>2. CASE ~Immortal(v)
  <2>1. v \in Block
    BY <1>2 DEF Immortal, Ref
  <2>2. FirstChild[tag[v]] \in 0 .. MaxSize + 1
    BY <2>1, FirstChildType, SizeAssumption DEF TypeOK
  <2>3. CASE rc[v] > 1
    <3>1. rc' = [rc EXCEPT ![v] = @ - 1] /\ pc' = next
          /\ UNCHANGED <<ret, blk, idx, fin>>
      BY <1>2, <2>3 DEF DcDrop
    <3>2. rc[v] - 1 \in 0 .. RcImmortal
      BY <2>1, <2>3, SizeAssumption DEF TypeOK
    <3> QED BY <3>1, <3>2 DEF TypeOK
  <2>4. CASE ~(rc[v] > 1)
    <3>1. /\ pc' = CheckedLast(v) /\ ret' = next /\ blk' = v
          /\ idx' = FirstChild[tag[v]] /\ fin' = "free" /\ rc' = rc
      BY <1>2, <2>4 DEF DcDrop
    <3>2. CheckedLast(v) \in {"release"} \cup Aborted
      BY DEF CheckedLast, Aborted
    <3> QED BY <3>1, <3>2, <2>2 DEF TypeOK
  <2> QED BY <2>3, <2>4
<1> QED BY <1>1, <1>2

(* Every step keeps the types.                                             *)
LEMMA TypeStep == TypeOK /\ Control /\ [Next]_vars => TypeOK'
<1> SUFFICES ASSUME TypeOK, Control, [Next]_vars
             PROVE  TypeOK'
  OBVIOUS
<1> USE DEF Ref, Idx
<1>a. \A v \in Ref, next \in Running :
         /\ Checked(v, next) \in Running \cup Aborted
         /\ Checked(v, "fill") \in {"fill"} \cup Aborted
         /\ Checked(v, "release") \in {"release"} \cup Aborted
         /\ CheckedLast(v) \in {"release"} \cup Aborted
  BY DEF Checked, CheckedLast, Aborted
<1>b. \A v \in Block : Dupped(v) \in [Block -> 0 .. RcImmortal]
  BY SizeAssumption DEF Dupped, Immortal, TypeOK
<1>c. \A b \in Block : FirstChild[tag[b]] \in 0 .. MaxSize + 1
  BY FirstChildType, SizeAssumption DEF TypeOK
<1>d. \A s \in Shape : /\ s[1] \in Tag /\ s[2] \in 1 .. MaxSize
                       /\ FirstChild[s[1]] \in 0 .. MaxSize + 1
  BY ShapeAssumption, SizeAssumption, FirstChildType DEF Tag
<1>e. "run" \in Running /\ "shutdown" \in Running
  BY DEF Running
<1>f. pc = "fill" /\ idx < size[blk] => idx + 1 \in 0 .. MaxSize + 1
  BY SizeAssumption DEF TypeOK, Control
<1>1. ASSUME NEW r \in Reg, NEW v \in Block, Dup(r, v) PROVE TypeOK'
  BY <1>1, <1>a, <1>b, <1>e DEF Dup, TypeOK, heap
<1>2. ASSUME NEW r \in Reg, Drop(r) PROVE TypeOK'
  <2>1. reg[r] \in Ref /\ DcDrop(reg[r], "run")
    BY <1>2 DEF Drop, TypeOK
  <2> QED BY <1>2, <1>e, <2>1, DcDropType DEF Drop, TypeOK, heap
<1>3. ASSUME NEW r \in Reg, DropReuse(r) PROVE TypeOK'
  <2>1. reg[r] \in Block
    BY <1>3 DEF DropReuse, TypeOK
  <2>2. CASE rc[reg[r]] # 1
    <3>1. DcDrop(reg[r], "run")
      BY <1>3, <2>2 DEF DropReuse
    <3> QED BY <1>3, <1>e, <2>1, <3>1, DcDropType DEF DropReuse, TypeOK, heap
  <2>3. CASE rc[reg[r]] = 1
    BY <1>3, <1>a, <1>c, <1>e, <2>1, <2>3 DEF DropReuse, TypeOK, heap
  <2> QED BY <2>2, <2>3
<1>4. ASSUME NEW r \in Reg, NEW i \in 1 .. NGlob, Gset(i, r) PROVE TypeOK'
  <2>1. glob[i] \in Ref /\ DcDrop(glob[i], "run")
    BY <1>4 DEF Gset, TypeOK
  <2> QED BY <1>4, <1>e, <2>1, DcDropType DEF Gset, TypeOK, heap
<1>5. ASSUME NEW b \in Block, NEW s \in Shape, Alloc(b, s) PROVE TypeOK'
  <2>1. tag' \in [Block -> Tag] /\ size' \in [Block -> 1 .. MaxSize]
    BY <1>5, <1>d DEF Alloc, TypeOK
  <2>2. rc' \in [Block -> 0 .. RcImmortal] /\ nlive' \in Int
    BY <1>5, SizeAssumption DEF Alloc, TypeOK
  <2> QED BY <1>5, <1>d, <2>1, <2>2 DEF Alloc, StartFill, TypeOK
<1>6. ASSUME NEW t \in toks, NEW s \in Shape, Reuse(t, s) PROVE TypeOK'
  BY <1>6, <1>d, SizeAssumption DEF Reuse, StartFill, TypeOK
<1>7. ASSUME NEW t \in toks, NEW b \in Block, NEW s \in Shape,
             ReuseMiss(t, b, s)
      PROVE TypeOK'
  <2>a. "Freed" \in Tag /\ 1 \in 1 .. MaxSize /\ {0, 1} \subseteq 0 .. RcImmortal
    BY SizeAssumption DEF Tag
  <2>1. tag' \in [Block -> Tag] /\ size' \in [Block -> 1 .. MaxSize]
    BY <1>7, <1>d, <2>a DEF ReuseMiss, TypeOK
  <2>2. rc' \in [Block -> 0 .. RcImmortal]
    BY <1>7, <2>a DEF ReuseMiss, TypeOK
  <2>3. word' \in [Block \X Idx -> Ref]
    BY <1>7 DEF ReuseMiss, TypeOK
  <2> QED BY <1>7, <1>d, <2>1, <2>2, <2>3 DEF ReuseMiss, StartFill, TypeOK
<1>8. CASE Exit
  BY <1>8 DEF Exit, TypeOK, heap, Running
<1>9. ASSUME NEW r \in Reg, FillMove(r) PROVE TypeOK'
  <2>1. idx' \in 0 .. MaxSize + 1
    BY <1>9, <1>f DEF FillMove
  <2>2. word' \in [Block \X Idx -> Ref] /\ reg' \in [Reg -> Ref]
    BY <1>9 DEF FillMove, TypeOK
  <2> QED BY <1>9, <2>1, <2>2 DEF FillMove, TypeOK
<1>10. ASSUME NEW r \in Reg, FillDone(r) PROVE TypeOK'
  BY <1>10, SizeAssumption DEF FillDone, TypeOK, heap, Running
<1>11. ASSUME NEW v \in Block, FillDup(v) PROVE TypeOK'
  <2>1. idx' \in 0 .. MaxSize + 1
    BY <1>11, <1>f DEF FillDup
  <2>2. word' \in [Block \X Idx -> Ref] /\ rc' \in [Block -> 0 .. RcImmortal]
    BY <1>11, <1>b DEF FillDup, TypeOK
  <2>3. pc' \in {"fill"} \cup Aborted
    BY <1>11, <1>a, <1>e DEF FillDup
  <2> QED BY <1>11, <2>1, <2>2, <2>3 DEF FillDup, TypeOK
<1>12. CASE FillSelf
  <2>1. idx' \in 0 .. MaxSize + 1
    BY <1>12, <1>f DEF FillSelf
  <2>2. word' \in [Block \X Idx -> Ref]
    BY <1>12 DEF FillSelf, TypeOK
  <2> QED BY <1>12, <2>1, <2>2 DEF FillSelf, TypeOK
<1>13. CASE ReleaseWord
  <2>1. /\ blk \in Block /\ idx < size[blk] /\ idx' = idx + 1
        /\ idx' \in 0 .. MaxSize + 1 /\ idx \in Idx
    BY <1>13, FirstChildType, SizeAssumption DEF ReleaseWord, TypeOK, Control
  <2>2. word[<<blk, idx>>] \in Ref
    BY <2>1 DEF TypeOK
  <2>3. /\ rc' \in [Block -> 0 .. RcImmortal] /\ wl' \in Seq(Block)
        /\ pc' \in {"release"} \cup Aborted
    <3>1. CASE word[<<blk, idx>>] = blk \/ Immortal(word[<<blk, idx>>])
      BY <1>13, <3>1 DEF ReleaseWord, TypeOK
    <3>2. CASE ~(word[<<blk, idx>>] = blk \/ Immortal(word[<<blk, idx>>]))
      <4>1. word[<<blk, idx>>] \in Block /\ rc[word[<<blk, idx>>]] \in 0 .. RcImmortal
        BY <2>2, <3>2 DEF Immortal, TypeOK
      <4>2. CASE rc[word[<<blk, idx>>]] > 1
        <5>1. rc' = [rc EXCEPT ![word[<<blk, idx>>]] = @ - 1]
              /\ wl' = wl /\ pc' = pc
          BY <1>13, <3>2, <4>2 DEF ReleaseWord
        <5>2. rc[word[<<blk, idx>>]] - 1 \in 0 .. RcImmortal
          BY <4>1, <4>2, SizeAssumption
        <5> QED BY <1>13, <5>1, <5>2 DEF ReleaseWord, TypeOK
      <4>3. CASE ~(rc[word[<<blk, idx>>]] > 1)
        <5>1. /\ wl' = Append(wl, word[<<blk, idx>>]) /\ rc' = rc
              /\ pc' = CheckedLast(word[<<blk, idx>>])
          BY <1>13, <3>2, <4>3 DEF ReleaseWord
        <5>2. pc' \in {"release"} \cup Aborted
          BY <1>a, <1>e, <4>1, <5>1
        <5>3. wl' \in Seq(Block)
          BY <4>1, <5>1 DEF TypeOK
        <5> QED BY <5>1, <5>2, <5>3 DEF TypeOK
      <4> QED BY <4>2, <4>3
    <3> QED BY <3>1, <3>2
  <2> QED BY <1>13, <2>1, <2>3 DEF ReleaseWord, TypeOK, heap
<1>14. CASE ReleaseDoneFree
  BY <1>14, SizeAssumption DEF ReleaseDoneFree, TypeOK, Tag, Control
<1>15. CASE ReleaseDoneKeep
  BY <1>15, SizeAssumption DEF ReleaseDoneKeep, TypeOK, heap
<1>16. CASE DrainPop
  <2>1. wl[Len(wl)] \in Block /\ SubSeq(wl, 1, Len(wl) - 1) \in Seq(Block)
    BY <1>16 DEF DrainPop, TypeOK
  <2> QED BY <1>16, <1>a, <1>c, <2>1 DEF DrainPop, TypeOK, heap
<1>17. CASE DrainDone
  BY <1>17 DEF DrainDone, TypeOK, heap
<1>18. CASE ShutdownDrop
  <2>1. gi \in 1 .. NGlob
    BY <1>18, SizeAssumption DEF ShutdownDrop, TypeOK
  <2>2. glob[gi] \in Ref /\ DcDrop(glob[gi], "shutdown")
    BY <1>18, <2>1 DEF ShutdownDrop, TypeOK
  <2>3. gi + 1 \in 1 .. NGlob + 1
    BY <2>1, SizeAssumption
  <2> QED BY <1>18, <1>e, <2>2, <2>3, DcDropType DEF ShutdownDrop, TypeOK, heap
<1>19. CASE ShutdownCheck
  BY <1>19 DEF ShutdownCheck, TypeOK, heap, Ended
<1>20. CASE UNCHANGED vars
  BY <1>20 DEF vars, TypeOK
<1> QED BY <1>1, <1>2, <1>3, <1>4, <1>5, <1>6, <1>7, <1>8, <1>9, <1>10, <1>11,
           <1>12, <1>13, <1>14, <1>15, <1>16, <1>17, <1>18, <1>19, <1>20
        DEF Next, Program, Fill, Release, Shutdown, Terminated

-----------------------------------------------------------------------------
(* Facts about the owners of a block in one state.                         *)

LEMMA FiniteParts ==
  /\ IsFiniteSet(Reg) /\ IsFiniteSet(1 .. NGlob)
  /\ IsFiniteSet(Block \X Idx)
<1>1. IsFiniteSet(1 .. NGlob) /\ IsFiniteSet(Idx)
  BY SizeAssumption, FS_Interval DEF Idx
<1> QED BY <1>1, BlockAssumption, FS_Product

LEMMA OwnedType == TypeOK => Owned \in [Block \X Idx -> Ref]
BY DEF TypeOK, Owned, Ref

LEMMA OwnersNat ==
  ASSUME NEW b
  PROVE  /\ Occurs(reg, Reg, b) \in Nat
         /\ Occurs(glob, 1 .. NGlob, b) \in Nat
         /\ Occurs(Owned, Block \X Idx, b) \in Nat
BY FiniteParts, OccursNat

(* What a store to one register, global or owning word does to the count   *)
(* of its owners.                                                          *)
LEMMA RegUpdate ==
  ASSUME NEW r \in Reg, \A x \in Reg : x # r => reg'[x] = reg[x], NEW b
  PROVE  Occurs(reg', Reg, b) = Occurs(reg, Reg, b)
           - (IF reg[r] = b THEN 1 ELSE 0) + (IF reg'[r] = b THEN 1 ELSE 0)
BY FiniteParts, OccursUpdate

LEMMA GlobUpdate ==
  ASSUME NEW i \in 1 .. NGlob,
         \A x \in 1 .. NGlob : x # i => glob'[x] = glob[x], NEW b
  PROVE  Occurs(glob', 1 .. NGlob, b) = Occurs(glob, 1 .. NGlob, b)
           - (IF glob[i] = b THEN 1 ELSE 0) + (IF glob'[i] = b THEN 1 ELSE 0)
<1> DEFINE S == 1 .. NGlob
           f == glob
           g == glob'
           k == i
<1>1. IsFiniteSet(S) /\ k \in S /\ \A x \in S : x # k => g[x] = f[x]
  BY FiniteParts
<1> HIDE DEF S, f, g, k
<1>2. Occurs(g, S, b) = Occurs(f, S, b)
        - (IF f[k] = b THEN 1 ELSE 0) + (IF g[k] = b THEN 1 ELSE 0)
  BY <1>1, OccursUpdate
<1> QED BY <1>2 DEF S, f, g, k

LEMMA WordUpdate ==
  ASSUME NEW c \in Block \X Idx,
         \A x \in Block \X Idx : x # c => (Owned')[x] = Owned[x], NEW b
  PROVE  Occurs(Owned', Block \X Idx, b) = Occurs(Owned, Block \X Idx, b)
           - (IF Owned[c] = b THEN 1 ELSE 0) + (IF (Owned')[c] = b THEN 1 ELSE 0)
<1> DEFINE S == Block \X Idx
           f == Owned
           g == Owned'
<1>1. IsFiniteSet(S) /\ c \in S /\ \A x \in S : x # c => g[x] = f[x]
  BY FiniteParts
<1> HIDE DEF S, f, g
<1>2. Occurs(g, S, b) = Occurs(f, S, b)
        - (IF f[c] = b THEN 1 ELSE 0) + (IF g[c] = b THEN 1 ELSE 0)
  BY <1>1, OccursUpdate
<1> QED BY <1>2 DEF S, f, g

(* A block with an owner is not free; the count is 0 only without one.     *)
LEMMA OwnedLive ==
  ASSUME TypeOK, Headers, RcExact, NEW b \in Block, Owners(b) # 0
  PROVE  rc[b] # 0 /\ tag[b] # "Freed"
<1>1. RcImmortal # 0
  BY SizeAssumption
<1>2. rc[b] # RcImmortal => rc[b] = Owners(b)
  BY DEF RcExact
<1>3. rc[b] # 0
  BY <1>1, <1>2
<1> QED BY <1>3 DEF Headers

(* A block that the runtime or a token holds has no other owner.           *)
LEMMA DyingAlone ==
  ASSUME TypeOK, DyingUnowned, RcExact, NEW b \in Block,
         b \in toks \/ Queued(b) \/ b = blk \/ b = keep
  PROVE  /\ rc[b] = 1 /\ Owners(b) = 1
         /\ Occurs(reg, Reg, b) = 0
         /\ Occurs(glob, 1 .. NGlob, b) = 0
         /\ Occurs(Owned, Block \X Idx, b) = 0
<1>1. rc[b] = 1 /\ rc[b] # RcImmortal
  BY SizeAssumption DEF DyingUnowned
<1>2. Owners(b) = 1
  BY <1>1 DEF RcExact
<1> DEFINE R == Occurs(reg, Reg, b)
           G == Occurs(glob, 1 .. NGlob, b)
           W == Occurs(Owned, Block \X Idx, b)
<1>3. R \in Nat /\ G \in Nat /\ W \in Nat
  BY OwnersNat
<1>4. R + G + W + (IF b \in toks THEN 1 ELSE 0) + (IF Queued(b) THEN 1 ELSE 0)
        + (IF b = blk THEN 1 ELSE 0) + (IF b = keep THEN 1 ELSE 0) = 1
  BY <1>2 DEF Owners
<1> HIDE DEF R, G, W
<1>5. R = 0 /\ G = 0 /\ W = 0
  BY <1>3, <1>4
<1> QED BY <1>1, <1>2, <1>5 DEF R, G, W

(* A reference in a register, a global or an owning word refers to a live  *)
(* block that the runtime is not taking apart.                             *)
LEMMA HeldLive ==
  ASSUME IInv, NEW v \in Block,
         \/ \E r \in Reg : reg[r] = v
         \/ \E i \in 1 .. NGlob : glob[i] = v
         \/ \E c \in Block \X Idx : Owned[c] = v
  PROVE  /\ rc[v] # 0 /\ tag[v] # "Freed"
         /\ v \notin toks /\ ~Queued(v) /\ v # blk /\ v # keep
<1>1. \/ Occurs(reg, Reg, v) >= 1
      \/ Occurs(glob, 1 .. NGlob, v) >= 1
      \/ Occurs(Owned, Block \X Idx, v) >= 1
  BY FiniteParts, OccursPos
<1>2. Owners(v) # 0
  <2> DEFINE R == Occurs(reg, Reg, v)
             G == Occurs(glob, 1 .. NGlob, v)
             W == Occurs(Owned, Block \X Idx, v)
  <2>1. R \in Nat /\ G \in Nat /\ W \in Nat
    BY OwnersNat
  <2>2. Owners(v) = R + G + W
          + (IF v \in toks THEN 1 ELSE 0) + (IF Queued(v) THEN 1 ELSE 0)
          + (IF v = blk THEN 1 ELSE 0) + (IF v = keep THEN 1 ELSE 0)
    BY DEF Owners
  <2>3. R >= 1 \/ G >= 1 \/ W >= 1
    BY <1>1
  <2> HIDE DEF R, G, W
  <2> QED BY <2>1, <2>2, <2>3
<1>3. rc[v] # 0 /\ tag[v] # "Freed"
  BY <1>2, OwnedLive DEF IInv
<1>4. ~(v \in toks \/ Queued(v) \/ v = blk \/ v = keep)
  <2>1. Occurs(reg, Reg, v) # 0 \/ Occurs(glob, 1 .. NGlob, v) # 0
        \/ Occurs(Owned, Block \X Idx, v) # 0
    BY <1>1, OwnersNat
  <2> QED BY <2>1, DyingAlone DEF IInv
<1> QED BY <1>3, <1>4

(* The same of every reference the program can borrow.                     *)
LEMMA BorrowLive ==
  ASSUME IInv, pc \in {"run", "fill"}, NEW v \in Borrowable \ {Imm}
  PROVE  /\ v \in Block /\ rc[v] # 0 /\ tag[v] # "Freed"
         /\ v \notin toks /\ ~Queued(v) /\ v # blk /\ v # keep
<1> USE DEF IInv
<1>1. \A x \in RootRefs \ {Imm} :
         /\ x \in Block
         /\ \/ \E r \in Reg : reg[r] = x
            \/ \E i \in 1 .. NGlob : glob[i] = x
  BY DEF RootRefs, TypeOK, Ref
<1>2. CASE v \in RootRefs
  BY <1>1, <1>2, HeldLive
<1>3. CASE v \notin RootRefs
  <2>a. PICK b \in RootRefs \ {Imm} : \E i \in Children(b) : v = word[<<b, i>>]
    BY <1>3 DEF Borrowable
  <2>1. PICK i \in Children(b) : v = word[<<b, i>>]
    BY <2>a
  <2>2. b \in Block /\ b \notin toks /\ b # keep /\ b # blk
    BY <1>1, HeldLive
  <2>3. i \in Idx
    BY <2>2, FirstChildType, SizeAssumption DEF Children, TypeOK, Idx
  <2>4. v \in Block /\ v # b
    BY <1>3, <2>1, <2>2, <2>3 DEF TypeOK, Ref
  <2>5. Owned[<<b, i>>] = v
    BY <2>1, <2>2, <2>3, <2>4 DEF Owned, OwningWord
  <2> QED BY <2>2, <2>3, <2>4, <2>5, HeldLive
<1> QED BY <1>2, <1>3

-----------------------------------------------------------------------------
(* Dropping a reference that has just left its register or global entry.   *)

(* One owner of v, a register or a global entry, has given v up.           *)
GivenUp(v) ==
  \A b \in Block :
    Occurs(reg', Reg, b) + Occurs(glob', 1 .. NGlob, b)
      = Occurs(reg, Reg, b) + Occurs(glob, 1 .. NGlob, b)
        - (IF b = v THEN 1 ELSE 0)

LEMMA PrimedNat ==
  ASSUME NEW b
  PROVE  Occurs(reg', Reg, b) \in Nat /\ Occurs(glob', 1 .. NGlob, b) \in Nat
BY FiniteParts, OccursNat

(* The rest of the invariant when only counts and owners have changed.     *)
LEMMA GivenUpOwned ==
  ASSUME IInv, NEW v \in Block, GivenUp(v)
  PROVE  /\ Owners(v) # 0 /\ rc[v] # 0 /\ tag[v] # "Freed"
         /\ v \notin toks /\ ~Queued(v) /\ v # blk /\ v # keep
<1>1. Occurs(reg, Reg, v) # 0 \/ Occurs(glob, 1 .. NGlob, v) # 0
  BY OwnersNat, PrimedNat DEF GivenUp
<1>2. (\E r \in Reg : reg[r] = v) \/ (\E i \in 1 .. NGlob : glob[i] = v)
  BY <1>1, OccursZero
<1>3. /\ rc[v] # 0 /\ tag[v] # "Freed"
      /\ v \notin toks /\ ~Queued(v) /\ v # blk /\ v # keep
  BY <1>2, HeldLive
<1>4. Owners(v) # 0
  <2> DEFINE R == Occurs(reg, Reg, v)
             G == Occurs(glob, 1 .. NGlob, v)
             W == Occurs(Owned, Block \X Idx, v)
  <2>1. R \in Nat /\ G \in Nat /\ W \in Nat /\ (R # 0 \/ G # 0)
    BY OwnersNat, <1>1
  <2>2. Owners(v) = R + G + W
    BY <1>3, <2>1 DEF Owners
  <2> HIDE DEF R, G, W
  <2> QED BY <2>1, <2>2
<1> QED BY <1>3, <1>4

(* dc_drop of a last reference, and dc_drop_reuse of a unique one, start   *)
(* the release of the block.                                               *)
LEMMA StartRelease ==
  ASSUME IInv, TypeOK', pc \in Running, NEW v \in Block, GivenUp(v),
         rc[v] # RcImmortal, ~(rc[v] > 1),
         pc' = CheckedLast(v), blk' = v, idx' = FirstChild[tag[v]],
         UNCHANGED <<heap, rc, toks, wl, keep>>
  PROVE  IInv'
<1> USE DEF IInv
<1>1. /\ Owners(v) # 0 /\ rc[v] # 0 /\ tag[v] # "Freed"
      /\ v \notin toks /\ ~Queued(v) /\ v # keep
  BY GivenUpOwned
<1>2. rc[v] = 1
  BY <1>1, SizeAssumption DEF TypeOK
<1>3. pc' = "release"
  BY <1>1 DEF CheckedLast
<1>4. wl = <<>> /\ keep = Imm /\ blk = Imm
  BY DEF Control
<1>5. Owned' = Owned
  <2>1. \A c \in Block \X Idx : OwningWord(c)' <=> OwningWord(c)
    <3> SUFFICES ASSUME NEW c \in Block \X Idx
                 PROVE  OwningWord(c)' <=> OwningWord(c)
      OBVIOUS
    <3>1. c[1] # blk
      BY <1>4, BlockAssumption
    <3>2. Children(c[1])' = Children(c[1])
      BY DEF Children, heap
    <3>3. c[1] = v /\ c[2] \in Children(c[1]) => c[2] >= idx'
      BY FirstChildType, SizeAssumption DEF Children, TypeOK
    <3> QED BY <1>3, <3>1, <3>2, <3>3 DEF OwningWord, heap
  <2> QED BY <2>1 DEF Owned, heap
<1>6. \A b \in Block : Owners(b)' = Owners(b)
  <2> SUFFICES ASSUME NEW b \in Block PROVE Owners(b)' = Owners(b)
    OBVIOUS
  <2> DEFINE R == Occurs(reg, Reg, b)
             G == Occurs(glob, 1 .. NGlob, b)
             R1 == Occurs(reg', Reg, b)
             G1 == Occurs(glob', 1 .. NGlob, b)
             W == Occurs(Owned, Block \X Idx, b)
             T == IF b \in toks THEN 1 ELSE 0
             Q == IF Queued(b) THEN 1 ELSE 0
             K == IF b = keep THEN 1 ELSE 0
  <2>1. R \in Nat /\ G \in Nat /\ R1 \in Nat /\ G1 \in Nat /\ W \in Nat
    BY OwnersNat, PrimedNat
  <2>2. Queued(b)' <=> Queued(b)
    BY DEF Queued
  <2>3. Owners(b) = R + G + W + T + Q + 0 + K
    BY <1>4, BlockAssumption DEF Owners
  <2>4. Owners(b)' = R1 + G1 + W + T + Q + (IF b = v THEN 1 ELSE 0) + K
    BY <1>5, <2>2 DEF Owners
  <2>5. R1 + G1 = R + G - (IF b = v THEN 1 ELSE 0)
    BY DEF GivenUp
  <2> HIDE DEF R, G, R1, G1, W, T, Q, K
  <2>6. T \in Nat /\ Q \in Nat /\ K \in Nat
    BY DEF T, Q, K
  <2> QED BY <2>1, <2>3, <2>4, <2>5, <2>6
<1>7. RcExact'
  BY <1>6 DEF RcExact
<1>8. Control'
  BY <1>3, <1>4, FirstChildType DEF Control, Running, Ended, heap, TypeOK
<1>9. Headers'
  BY DEF Headers, heap
<1>10. DyingUnowned'
  BY <1>2, <1>4 DEF DyingUnowned, Queued
<1>11. NoAbort'
  BY <1>3 DEF NoAbort, Aborted
<1> QED BY <1>7, <1>8, <1>9, <1>10, <1>11

(* While no block is being filled or released, steps that leave the heap   *)
(* and the tokens alone leave the owning words alone.                      *)
LEMMA QuietOwned ==
  ASSUME blk = Imm, UNCHANGED <<heap, toks, keep, blk>>
  PROVE  Owned' = Owned
<1>1. \A c \in Block \X Idx : OwningWord(c)' <=> OwningWord(c)
  <2> SUFFICES ASSUME NEW c \in Block \X Idx
               PROVE  OwningWord(c)' <=> OwningWord(c)
    OBVIOUS
  <2>1. c[1] # blk /\ c[1] # blk'
    BY BlockAssumption
  <2>2. Children(c[1])' = Children(c[1])
    BY DEF Children, heap
  <2> QED BY <2>1, <2>2 DEF OwningWord, heap
<1> QED BY <1>1 DEF Owned, heap

LEMMA DcDropInv ==
  ASSUME IInv, TypeOK', pc \in Running, NEW v \in Ref, NEW next \in Running,
         GivenUp(v), DcDrop(v, next), UNCHANGED <<heap, toks, wl, keep>>
  PROVE  IInv'
<1> USE DEF IInv
<1>1. wl = <<>> /\ keep = Imm /\ blk = Imm
  BY DEF Control
<1>2. CASE Immortal(v) \/ rc[v] > 1
  <2>1. pc' = next /\ UNCHANGED <<ret, blk, idx, fin>>
    BY <1>2 DEF DcDrop
  <2>2. Owned' = Owned
    BY <1>1, <2>1, QuietOwned
  <2>3. \A b \in Block : Owners(b)' = Owners(b) - (IF b = v THEN 1 ELSE 0)
    <3> SUFFICES ASSUME NEW b \in Block
                 PROVE  Owners(b)' = Owners(b) - (IF b = v THEN 1 ELSE 0)
      OBVIOUS
    <3> DEFINE R == Occurs(reg, Reg, b)
               G == Occurs(glob, 1 .. NGlob, b)
               R1 == Occurs(reg', Reg, b)
               G1 == Occurs(glob', 1 .. NGlob, b)
               W == Occurs(Owned, Block \X Idx, b)
               T == IF b \in toks THEN 1 ELSE 0
    <3>1. R \in Nat /\ G \in Nat /\ R1 \in Nat /\ G1 \in Nat /\ W \in Nat
      BY OwnersNat, PrimedNat
    <3>2. ~Queued(b) /\ ~Queued(b)' /\ b # blk /\ b # keep
      BY <1>1, BlockAssumption DEF Queued
    <3>3. Owners(b) = R + G + W + T + 0 + 0 + 0
      BY <3>2 DEF Owners
    <3>4. Owners(b)' = R1 + G1 + W + T + 0 + 0 + 0
      BY <2>1, <2>2, <3>2 DEF Owners
    <3>5. R1 + G1 = R + G - (IF b = v THEN 1 ELSE 0)
      BY DEF GivenUp
    <3> HIDE DEF R, G, R1, G1, W, T
    <3>6. T \in Nat
      BY DEF T
    <3> QED BY <3>1, <3>3, <3>4, <3>5, <3>6
  <2>4. CASE Immortal(v)
    <3>1. rc' = rc
      BY <2>4 DEF DcDrop
    <3>2. RcExact'
      <4> SUFFICES ASSUME NEW b \in Block, rc[b] # RcImmortal
                   PROVE  rc[b] = Owners(b)'
        BY <3>1 DEF RcExact
      <4>1. b # v
        BY <2>4, BlockAssumption DEF Immortal
      <4>2. Owners(b)' = Owners(b) - 0 /\ rc[b] = Owners(b) /\ rc[b] \in Int
        BY <2>3, <4>1 DEF RcExact, TypeOK
      <4> QED BY <4>2
    <3>3. Control'
      BY <1>1, <2>1 DEF Control, Running, Ended
    <3>4. Headers' /\ DyingUnowned' /\ NoAbort'
      BY <1>1, <2>1, <3>1
         DEF Headers, DyingUnowned, Queued, NoAbort, heap, Running, Aborted
    <3> QED BY <3>2, <3>3, <3>4
  <2>5. CASE ~Immortal(v)
    <3>1. /\ v \in Block /\ rc[v] > 1 /\ rc[v] # RcImmortal
          /\ rc' = [rc EXCEPT ![v] = @ - 1]
      BY <1>2, <2>5 DEF DcDrop, Immortal, Ref
    <3>2. RcExact'
      <4> SUFFICES ASSUME NEW b \in Block, rc'[b] # RcImmortal
                   PROVE  rc'[b] = Owners(b)'
        BY DEF RcExact
      <4>1. rc[b] # RcImmortal /\ rc[b] = Owners(b) /\ rc[b] \in Int
        BY <3>1 DEF RcExact, TypeOK
      <4>2. rc'[b] = rc[b] - (IF b = v THEN 1 ELSE 0)
        BY <3>1, <4>1 DEF TypeOK
      <4> QED BY <2>3, <4>1, <4>2
    <3>3. Control'
      BY <1>1, <2>1 DEF Control, Running, Ended
    <3>4. Headers'
      <4>1. \A b \in Block : rc'[b] = 0 <=> rc[b] = 0
        BY <3>1 DEF TypeOK
      <4> QED BY <4>1 DEF Headers, heap
    <3>5. DyingUnowned' /\ NoAbort'
      BY <1>1, <2>1, <3>1, GivenUpOwned
         DEF DyingUnowned, Queued, NoAbort, Running, Aborted, TypeOK
    <3> QED BY <3>2, <3>3, <3>4, <3>5
  <2> QED BY <2>4, <2>5
<1>3. CASE ~(Immortal(v) \/ rc[v] > 1)
  <2>1. v \in Block /\ rc[v] # RcImmortal
    BY <1>3 DEF Immortal, Ref
  <2>2. /\ pc' = CheckedLast(v) /\ blk' = v /\ idx' = FirstChild[tag[v]]
        /\ rc' = rc
    BY <1>3 DEF DcDrop
  <2> QED BY <1>3, <2>1, <2>2, StartRelease
<1> QED BY <1>2, <1>3

-----------------------------------------------------------------------------
(* The invariant is kept by each operation of the program.                 *)

(* Clearing a register gives its reference up.                             *)
LEMMA RegGivenUp ==
  ASSUME TypeOK, NEW r \in Reg, reg' = [reg EXCEPT ![r] = Imm], glob' = glob
  PROVE  GivenUp(reg[r])
<1> SUFFICES ASSUME NEW b \in Block
             PROVE  Occurs(reg', Reg, b) + Occurs(glob', 1 .. NGlob, b)
                      = Occurs(reg, Reg, b) + Occurs(glob, 1 .. NGlob, b)
                        - (IF b = reg[r] THEN 1 ELSE 0)
  BY DEF GivenUp
<1>1. /\ IsFiniteSet(Reg) /\ reg'[r] = Imm
      /\ \A x \in Reg : x # r => reg'[x] = reg[x]
  BY FiniteParts DEF TypeOK
<1>2. Occurs(reg', Reg, b) = Occurs(reg, Reg, b)
         - (IF reg[r] = b THEN 1 ELSE 0) + (IF reg'[r] = b THEN 1 ELSE 0)
  BY <1>1, RegUpdate
<1>3. reg'[r] # b
  BY <1>1, BlockAssumption
<1>4. Occurs(reg', Reg, b) + Occurs(glob', 1 .. NGlob, b)
        = Occurs(reg, Reg, b) - (IF reg[r] = b THEN 1 ELSE 0)
          + Occurs(glob, 1 .. NGlob, b)
  BY <1>2, <1>3, OwnersNat
<1> QED BY <1>4, OwnersNat

LEMMA DropInv ==
  ASSUME IInv, TypeOK', NEW r \in Reg, Drop(r)
  PROVE  IInv'
<1>1. GivenUp(reg[r])
  BY RegGivenUp DEF Drop, IInv
<1>2. pc \in Running /\ "run" \in Running /\ reg[r] \in Ref
  BY DEF Drop, Running, IInv, TypeOK
<1> QED BY <1>1, <1>2, DcDropInv DEF Drop

LEMMA DropReuseInv ==
  ASSUME IInv, TypeOK', NEW r \in Reg, DropReuse(r)
  PROVE  IInv'
<1>1. GivenUp(reg[r])
  BY RegGivenUp DEF DropReuse, IInv
<1>2. pc \in Running /\ "run" \in Running /\ reg[r] \in Block
  BY DEF DropReuse, Running, IInv, TypeOK, Ref
<1>3. CASE rc[reg[r]] # 1
  BY <1>1, <1>2, <1>3, DcDropInv DEF DropReuse, Ref
<1>4. CASE rc[reg[r]] = 1
  <2>1. rc[reg[r]] # RcImmortal /\ ~(rc[reg[r]] > 1)
    BY <1>4, SizeAssumption
  <2> QED BY <1>1, <1>2, <1>4, <2>1, StartRelease DEF DropReuse
<1> QED BY <1>3, <1>4

LEMMA GsetInv ==
  ASSUME IInv, TypeOK', NEW r \in Reg, NEW i \in 1 .. NGlob, Gset(i, r)
  PROVE  IInv'
<1>1. GivenUp(glob[i])
  <2> SUFFICES ASSUME NEW b \in Block
               PROVE  Occurs(reg', Reg, b) + Occurs(glob', 1 .. NGlob, b)
                        = Occurs(reg, Reg, b) + Occurs(glob, 1 .. NGlob, b)
                          - (IF b = glob[i] THEN 1 ELSE 0)
    BY DEF GivenUp
  <2>a. /\ IsFiniteSet(Reg) /\ IsFiniteSet(1 .. NGlob)
        /\ reg'[r] = Imm /\ \A x \in Reg : x # r => reg'[x] = reg[x]
        /\ glob'[i] = reg[r]
        /\ \A x \in 1 .. NGlob : x # i => glob'[x] = glob[x]
    BY FiniteParts DEF Gset, IInv, TypeOK
  <2>1. Occurs(reg', Reg, b) = Occurs(reg, Reg, b)
           - (IF reg[r] = b THEN 1 ELSE 0) + (IF reg'[r] = b THEN 1 ELSE 0)
    BY <2>a, RegUpdate
  <2>2. Occurs(glob', 1 .. NGlob, b) = Occurs(glob, 1 .. NGlob, b)
           - (IF glob[i] = b THEN 1 ELSE 0) + (IF glob'[i] = b THEN 1 ELSE 0)
    BY <2>a, GlobUpdate
  <2>3. reg'[r] # b /\ (glob'[i] = b <=> reg[r] = b)
    BY <2>a, BlockAssumption
  <2> QED BY <2>1, <2>2, <2>3, OwnersNat
<1>2. pc \in Running /\ "run" \in Running /\ glob[i] \in Ref
  BY DEF Gset, Running, IInv, TypeOK
<1> QED BY <1>1, <1>2, DcDropInv DEF Gset

LEMMA ShutdownDropInv ==
  ASSUME IInv, TypeOK', ShutdownDrop
  PROVE  IInv'
<1>1. gi \in 1 .. NGlob
  BY SizeAssumption DEF ShutdownDrop, IInv, TypeOK
<1>2. GivenUp(glob[gi])
  <2> SUFFICES ASSUME NEW b \in Block
               PROVE  Occurs(glob', 1 .. NGlob, b) = Occurs(glob, 1 .. NGlob, b)
                        - (IF b = glob[gi] THEN 1 ELSE 0)
    BY OwnersNat, PrimedNat DEF GivenUp, ShutdownDrop
  <2>a. /\ IsFiniteSet(1 .. NGlob) /\ glob'[gi] = Imm
        /\ \A x \in 1 .. NGlob : x # gi => glob'[x] = glob[x]
    BY <1>1, FiniteParts DEF ShutdownDrop, IInv, TypeOK
  <2>1. Occurs(glob', 1 .. NGlob, b) = Occurs(glob, 1 .. NGlob, b)
           - (IF glob[gi] = b THEN 1 ELSE 0) + (IF glob'[gi] = b THEN 1 ELSE 0)
    BY <1>1, <2>a, GlobUpdate
  <2>2. glob'[gi] # b
    BY <2>a, BlockAssumption
  <2> QED BY <2>1, <2>2, OwnersNat
<1>3. pc \in Running /\ "shutdown" \in Running /\ glob[gi] \in Ref
  BY <1>1 DEF ShutdownDrop, Running, IInv, TypeOK
<1> QED BY <1>2, <1>3, DcDropInv DEF ShutdownDrop

LEMMA DupInv ==
  ASSUME IInv, TypeOK', NEW r \in Reg, NEW v \in Block, Dup(r, v)
  PROVE  IInv'
<1> USE DEF IInv
<1>1. /\ rc[v] # 0 /\ tag[v] # "Freed"
      /\ v \notin toks /\ ~Queued(v) /\ v # blk /\ v # keep
  BY BorrowLive DEF Dup
<1>2. /\ wl = <<>> /\ keep = Imm /\ blk = Imm /\ pc = "run" /\ pc' = "run"
      /\ UNCHANGED <<heap, toks, wl, blk, keep>>
  BY <1>1 DEF Dup, Control, Running, Checked
<1>3. Owned' = Owned
  BY <1>2, QuietOwned
<1>4. \A b \in Block : Owners(b)' = Owners(b) + (IF b = v THEN 1 ELSE 0)
  <2> SUFFICES ASSUME NEW b \in Block
               PROVE  Owners(b)' = Owners(b) + (IF b = v THEN 1 ELSE 0)
    OBVIOUS
  <2> DEFINE R == Occurs(reg, Reg, b)
             R1 == Occurs(reg', Reg, b)
             G == Occurs(glob, 1 .. NGlob, b)
             W == Occurs(Owned, Block \X Idx, b)
             T == IF b \in toks THEN 1 ELSE 0
  <2>1. R1 = R - (IF reg[r] = b THEN 1 ELSE 0) + (IF v = b THEN 1 ELSE 0)
    <3>1. /\ IsFiniteSet(Reg) /\ reg'[r] = v
          /\ \A x \in Reg : x # r => reg'[x] = reg[x]
      BY FiniteParts DEF Dup, TypeOK
    <3> QED BY <3>1, RegUpdate
  <2>2. reg[r] # b
    BY BlockAssumption DEF Dup
  <2>3. R \in Nat /\ G \in Nat /\ W \in Nat
    BY OwnersNat
  <2>4. ~Queued(b) /\ ~Queued(b)' /\ b # blk /\ b # keep
    BY <1>2, BlockAssumption DEF Queued
  <2>5. Owners(b) = R + G + W + T + 0 + 0 + 0
    BY <2>4 DEF Owners
  <2>6. Owners(b)' = R1 + G + W + T + 0 + 0 + 0
    BY <1>2, <1>3, <2>4 DEF Owners, Dup
  <2> HIDE DEF R, R1, G, W, T
  <2>7. T \in Nat
    BY DEF T
  <2> QED BY <2>1, <2>2, <2>3, <2>5, <2>6, <2>7
<1>5. rc' = IF rc[v] = RcImmortal THEN rc ELSE [rc EXCEPT ![v] = @ + 1]
  BY BlockAssumption DEF Dup, Dupped, Immortal
<1>6. RcExact'
  <2> SUFFICES ASSUME NEW b \in Block, rc'[b] # RcImmortal
               PROVE  rc'[b] = Owners(b)'
    BY DEF RcExact
  <2>1. rc[b] # RcImmortal /\ rc[b] = Owners(b) /\ rc[b] \in Int
    BY <1>5 DEF RcExact, TypeOK
  <2>2. rc'[b] = rc[b] + (IF b = v THEN 1 ELSE 0)
    BY <1>5, <2>1 DEF TypeOK
  <2> QED BY <1>4, <2>1, <2>2
<1>7. Headers'
  <2>1. \A b \in Block : rc'[b] = 0 <=> rc[b] = 0
    BY <1>1, <1>5 DEF TypeOK
  <2> QED BY <1>2, <2>1 DEF Headers, heap
<1>8. Control' /\ DyingUnowned' /\ NoAbort'
  BY <1>1, <1>2, <1>5
     DEF Control, DyingUnowned, Queued, NoAbort, Running, Aborted, Ended
<1> QED BY <1>6, <1>7, <1>8

(* Steps that only move the control point between calls.                   *)
LEMMA QuietInv ==
  ASSUME IInv, TypeOK', pc \in Running, pc' \in Running \cup Ended,
         UNCHANGED <<heap, rc, reg, toks, glob, wl, blk, keep>>
  PROVE  IInv'
<1> USE DEF IInv
<1>1. wl = <<>> /\ keep = Imm /\ blk = Imm
  BY DEF Control
<1>2. Owned' = Owned
  BY <1>1, QuietOwned
<1>3. \A b \in Block : Owners(b)' = Owners(b)
  BY <1>2 DEF Owners, Queued
<1>4. RcExact'
  BY <1>3 DEF RcExact
<1>5. Control'
  BY <1>1 DEF Control, Running, Ended
<1>6. Headers' /\ DyingUnowned' /\ NoAbort'
  BY DEF Headers, DyingUnowned, Queued, NoAbort, heap, Running, Ended, Aborted
<1> QED BY <1>4, <1>5, <1>6

(* A step after which block b is being filled: b was free or a token, and  *)
(* every other block is as it was, or was a token that is free now.        *)
LEMMA StartFillInv ==
  ASSUME IInv, TypeOK', pc = "run", NEW b \in Block, NEW s \in Shape,
         StartFill(b, s), tag[b] = "Freed" \/ b \in toks,
         tag'[b] = s[1], rc'[b] = 1, b \notin toks',
         \A x \in Block \ {b} :
           \/ /\ tag'[x] = tag[x] /\ size'[x] = size[x] /\ rc'[x] = rc[x]
              /\ x \in toks' <=> x \in toks
              /\ \A i \in Idx : word'[<<x, i>>] = word[<<x, i>>]
           \/ /\ tag'[x] = "Freed" /\ size'[x] = 1 /\ rc'[x] = 0
              /\ x \in toks /\ x \notin toks'
  PROVE  IInv'
<1> USE DEF IInv
<1>1. /\ wl = <<>> /\ keep = Imm /\ blk = Imm
      /\ wl' = <<>> /\ keep' = Imm /\ blk' = b /\ pc' = "fill"
      /\ idx' = FirstChild[s[1]] /\ reg' = reg /\ glob' = glob
  BY DEF Control, StartFill, Running
<1>a. s[1] # "Freed"
  BY ShapeAssumption DEF HeapTag
<1>b. \A x \in Block : /\ tag[x] = "Freed" => Children(x) = {}
                       /\ (tag[x] = "Freed" /\ size[x] = 1)' => Children(x)' = {}
  <2>1. MaxSize > 1 - 1 /\ FirstChild["Freed"] = MaxSize /\ MaxSize \in Nat
    BY SizeAssumption DEF FirstChild, Tag
  <2>2. FirstChild["Freed"] .. 1 - 1 = {}
    BY <2>1
  <2> QED BY <2>2 DEF Children, Headers
<1>2. Owned' = Owned
  <2>1. \A c \in Block \X Idx :
           (IF OwningWord(c) THEN word[c] ELSE Imm)'
             = IF OwningWord(c) THEN word[c] ELSE Imm
    <3> SUFFICES ASSUME NEW x \in Block, NEW i \in Idx
                 PROVE  (IF OwningWord(<<x, i>>) THEN word[<<x, i>>] ELSE Imm)'
                         = IF OwningWord(<<x, i>>) THEN word[<<x, i>>] ELSE Imm
      OBVIOUS
    <3>1. CASE x = b
      <4>1. ~OwningWord(<<x, i>>)
        BY <1>b, <3>1 DEF OwningWord
      <4>2. ~OwningWord(<<x, i>>)'
        <5>1. FirstChild[s[1]] \in Int /\ i \in Int /\ tag'[x] = s[1]
          BY <3>1, <1>a, FirstChildType, ShapeAssumption, SizeAssumption
             DEF Idx, Tag
        <5>2. i \in Children(x)' => ~(i < idx')
          BY <1>1, <5>1 DEF Children, TypeOK
        <5> QED BY <1>1, <3>1, <5>2 DEF OwningWord
      <4> QED BY <4>1, <4>2
    <3>2. CASE x # b /\ tag'[x] = "Freed" /\ size'[x] = 1 /\ x \in toks
      BY <1>b, <3>2 DEF OwningWord
    <3>3. CASE /\ x # b /\ tag'[x] = tag[x] /\ size'[x] = size[x]
               /\ x \in toks' <=> x \in toks
               /\ word'[<<x, i>>] = word[<<x, i>>]
      <4>1. Children(x)' = Children(x)
        BY <3>3 DEF Children
      <4>2. x # blk /\ x # blk' /\ x # keep /\ x # keep'
        BY <1>1, <3>3, BlockAssumption
      <4> QED BY <3>3, <4>1, <4>2 DEF OwningWord
    <3> QED BY <3>1, <3>2, <3>3
  <2> QED BY <2>1 DEF Owned
<1>3. \A x \in Block : tag[x] = "Freed" \/ x \in toks =>
         /\ Occurs(reg, Reg, x) = 0 /\ Occurs(glob, 1 .. NGlob, x) = 0
         /\ Occurs(Owned, Block \X Idx, x) = 0
  <2> SUFFICES ASSUME NEW x \in Block, tag[x] = "Freed" \/ x \in toks
               PROVE  /\ Occurs(reg, Reg, x) = 0
                      /\ Occurs(glob, 1 .. NGlob, x) = 0
                      /\ Occurs(Owned, Block \X Idx, x) = 0
    OBVIOUS
  <2>1. /\ \A r \in Reg : reg[r] # x
        /\ \A i \in 1 .. NGlob : glob[i] # x
        /\ \A c \in Block \X Idx : Owned[c] # x
    BY HeldLive
  <2>2. Occurs(reg, Reg, x) = 0
    BY <2>1, OccursZero
  <2>3. Occurs(glob, 1 .. NGlob, x) = 0
    <3> DEFINE S == 1 .. NGlob
    <3>1. \A i \in S : glob[i] # x
      BY <2>1
    <3> HIDE DEF S
    <3>2. Occurs(glob, S, x) = 0
      BY <3>1, OccursZero
    <3> QED BY <3>2 DEF S
  <2>4. Occurs(Owned, Block \X Idx, x) = 0
    BY <2>1, OccursZero
  <2> QED BY <2>2, <2>3, <2>4
<1>4. RcExact'
  <2> SUFFICES ASSUME NEW x \in Block, rc'[x] # RcImmortal
               PROVE  rc'[x] = Owners(x)'
    BY DEF RcExact
  <2>1. ~Queued(x) /\ ~Queued(x)' /\ x # keep /\ x # keep' /\ x # blk
    BY <1>1, BlockAssumption DEF Queued
  <2> DEFINE R == Occurs(reg, Reg, x)
             G == Occurs(glob, 1 .. NGlob, x)
             W == Occurs(Owned, Block \X Idx, x)
  <2>2. Owners(x) = R + G + W + (IF x \in toks THEN 1 ELSE 0) + 0 + 0 + 0
    BY <2>1 DEF Owners
  <2>3. Owners(x)' = R + G + W + (IF x \in toks' THEN 1 ELSE 0) + 0
                       + (IF x = b THEN 1 ELSE 0) + 0
    BY <1>1, <1>2, <2>1 DEF Owners
  <2>4. R \in Nat /\ G \in Nat /\ W \in Nat
    BY OwnersNat
  <2>5. tag[x] = "Freed" \/ x \in toks => R = 0 /\ G = 0 /\ W = 0
    BY <1>3
  <2>6. rc[x] # RcImmortal => rc[x] = Owners(x)
    BY DEF RcExact
  <2> HIDE DEF R, G, W
  <2>7. CASE x = b
    BY <2>3, <2>5, <2>7
  <2>8. CASE x # b /\ rc'[x] = 0 /\ x \in toks /\ x \notin toks'
    BY <2>3, <2>5, <2>8
  <2>9. CASE x # b /\ rc'[x] = rc[x] /\ (x \in toks' <=> x \in toks)
    BY <2>2, <2>3, <2>4, <2>6, <2>9
  <2> QED BY <2>7, <2>8, <2>9
<1>5. Control'
  <2>1. FirstChild[s[1]] \in Int
    BY FirstChildType, ShapeAssumption, SizeAssumption DEF Tag
  <2> QED BY <1>1, <2>1 DEF Control, Running, Ended
<1>6. Headers'
  BY <1>a DEF Headers
<1>7. DyingUnowned'
  BY <1>1, BlockAssumption DEF DyingUnowned, Queued
<1>8. NoAbort'
  BY <1>1 DEF NoAbort, Aborted
<1> QED BY <1>4, <1>5, <1>6, <1>7, <1>8

LEMMA AllocInv ==
  ASSUME IInv, TypeOK', NEW b \in Block, NEW s \in Shape, Alloc(b, s)
  PROVE  IInv'
<1>1. /\ pc = "run" /\ StartFill(b, s) /\ tag[b] = "Freed"
      /\ tag'[b] = s[1] /\ rc'[b] = 1 /\ toks' = toks
  BY DEF Alloc, IInv, TypeOK
<1>2. b \notin toks
  BY <1>1 DEF IInv, DyingUnowned, Headers
<1>3. \A x \in Block \ {b} :
         /\ tag'[x] = tag[x] /\ size'[x] = size[x] /\ rc'[x] = rc[x]
         /\ \A i \in Idx : word'[<<x, i>>] = word[<<x, i>>]
  BY DEF Alloc, IInv, TypeOK
<1> QED BY <1>1, <1>2, <1>3, StartFillInv

LEMMA ReuseInv ==
  ASSUME IInv, TypeOK', NEW t \in toks, NEW s \in Shape, Reuse(t, s)
  PROVE  IInv'
<1>1. /\ pc = "run" /\ StartFill(t, s) /\ t \in Block
      /\ tag'[t] = s[1] /\ rc'[t] = 1 /\ toks' = toks \ {t}
  BY DEF Reuse, IInv, TypeOK
<1>2. \A x \in Block \ {t} :
         /\ tag'[x] = tag[x] /\ size'[x] = size[x] /\ rc'[x] = rc[x]
         /\ \A i \in Idx : word'[<<x, i>>] = word[<<x, i>>]
  BY DEF Reuse, IInv, TypeOK
<1> QED BY <1>1, <1>2, StartFillInv

LEMMA ReuseMissInv ==
  ASSUME IInv, TypeOK', NEW t \in toks, NEW b \in Block, NEW s \in Shape,
         ReuseMiss(t, b, s)
  PROVE  IInv'
<1>1. /\ pc = "run" /\ StartFill(b, s) /\ t \in Block
      /\ tag[b] = "Freed" \/ b = t
      /\ toks' = toks \ {t}
  BY DEF ReuseMiss, IInv, TypeOK
<1>2. tag'[b] = s[1] /\ rc'[b] = 1
  BY <1>1 DEF ReuseMiss, IInv, TypeOK
<1>3. b \notin toks'
  BY <1>1 DEF IInv, DyingUnowned, Headers
<1>4. \A x \in Block \ {b} :
        IF x = t THEN tag'[x] = "Freed" /\ size'[x] = 1 /\ rc'[x] = 0
        ELSE /\ tag'[x] = tag[x] /\ size'[x] = size[x] /\ rc'[x] = rc[x]
             /\ \A i \in Idx : word'[<<x, i>>] = word[<<x, i>>]
  BY <1>1 DEF ReuseMiss, IInv, TypeOK
<1> QED BY <1>1, <1>2, <1>3, <1>4, StartFillInv

-----------------------------------------------------------------------------
(* The stores that complete a block.                                       *)

(* During a fill step only the word at idx can change its owner status.    *)
LEMMA FillOwned ==
  ASSUME IInv, TypeOK', pc = "fill", pc' = "fill", idx < size[blk],
         idx' = idx + 1, UNCHANGED <<tag, size, toks, keep, blk>>,
         NEW v \in Ref, word' = [word EXCEPT ![<<blk, idx>>] = v]
  PROVE  /\ <<blk, idx>> \in Block \X Idx
         /\ Owned[<<blk, idx>>] = Imm
         /\ (Owned')[<<blk, idx>>] = IF v = blk THEN Imm ELSE v
         /\ \A c \in Block \X Idx : c # <<blk, idx>> => (Owned')[c] = Owned[c]
<1> USE DEF IInv
<1>1. /\ blk \in Block /\ idx \in Idx /\ idx \in Children(blk)
      /\ Children(blk)' = Children(blk)
  BY FirstChildType, SizeAssumption DEF Control, TypeOK, Children, Idx
<1>2. blk \notin toks /\ blk # keep
  <2>1. keep = Imm
    BY DEF Control
  <2>2. rc[blk] = 1 /\ Owners(blk) = 1
    BY <1>1, DyingAlone
  <2>3. blk \notin toks
    <3> DEFINE R == Occurs(reg, Reg, blk)
               G == Occurs(glob, 1 .. NGlob, blk)
               W == Occurs(Owned, Block \X Idx, blk)
    <3>1. R \in Nat /\ G \in Nat /\ W \in Nat
      BY OwnersNat
    <3>2. Owners(blk) = R + G + W + (IF blk \in toks THEN 1 ELSE 0)
             + (IF Queued(blk) THEN 1 ELSE 0) + 1 + (IF blk = keep THEN 1 ELSE 0)
      BY DEF Owners
    <3> HIDE DEF R, G, W
    <3> QED BY <2>2, <3>1, <3>2
  <2> QED BY <1>1, <2>1, <2>3, BlockAssumption
<1>3. ~OwningWord(<<blk, idx>>)
  BY <1>1 DEF OwningWord, Idx
<1>4. word'[<<blk, idx>>] = v
  BY <1>1 DEF TypeOK
<1>5. \A x \in Block, i \in Idx :
         x = blk /\ i = idx => (OwningWord(<<x, i>>)' <=> v # x)
  <2> SUFFICES ASSUME NEW x \in Block, NEW i \in Idx, x = blk, i = idx
               PROVE  OwningWord(<<x, i>>)' <=> v # x
    OBVIOUS
  <2>1. i < idx' /\ blk' = x /\ x # keep' /\ x \notin toks' /\ pc' = "fill"
    BY <1>2 DEF Idx
  <2>2. i \in Children(x)' /\ word'[<<x, i>>] = v
    BY <1>1, <1>4 DEF Children
  <2> QED BY <2>1, <2>2 DEF OwningWord
<1>6. \A c \in Block \X Idx : c # <<blk, idx>> => (Owned')[c] = Owned[c]
  <2> SUFFICES ASSUME NEW x \in Block, NEW i \in Idx, <<x, i>> # <<blk, idx>>
               PROVE  (IF OwningWord(<<x, i>>) THEN word[<<x, i>>] ELSE Imm)'
                       = IF OwningWord(<<x, i>>) THEN word[<<x, i>>] ELSE Imm
    BY DEF Owned
  <2>1. word'[<<x, i>>] = word[<<x, i>>]
    BY <1>1 DEF TypeOK
  <2>2. Children(x)' = Children(x)
    BY DEF Children
  <2>3. x = blk => i # idx /\ (i < idx + 1 <=> i < idx)
    BY <1>1 DEF Idx
  <2> QED BY <2>1, <2>2, <2>3 DEF OwningWord
<1>7. <<blk, idx>> \in Block \X Idx
  BY <1>1
<1>8. Owned[<<blk, idx>>] = Imm
  BY <1>3, <1>7 DEF Owned
<1>9. (Owned')[<<blk, idx>>] = IF v = blk THEN Imm ELSE v
  <2> SUFFICES ASSUME NEW x \in Block, NEW i \in Idx, x = blk, i = idx
               PROVE  (Owned')[<<x, i>>] = IF v = x THEN Imm ELSE v
    BY <1>1
  <2> QED BY <1>4, <1>5 DEF Owned
<1> QED BY <1>6, <1>7, <1>8, <1>9

LEMMA FillCount ==
  ASSUME IInv, TypeOK', pc = "fill", pc' = "fill", idx < size[blk],
         idx' = idx + 1, UNCHANGED <<tag, size, toks, keep, blk>>,
         NEW v \in Ref, word' = [word EXCEPT ![<<blk, idx>>] = v],
         NEW b \in Block
  PROVE  Occurs(Owned', Block \X Idx, b)
           = Occurs(Owned, Block \X Idx, b) + (IF v = b /\ v # blk THEN 1 ELSE 0)
<1>1. /\ <<blk, idx>> \in Block \X Idx
      /\ Owned[<<blk, idx>>] = Imm
      /\ (Owned')[<<blk, idx>>] = IF v = blk THEN Imm ELSE v
      /\ \A c \in Block \X Idx : c # <<blk, idx>> => (Owned')[c] = Owned[c]
  BY FillOwned
<1>2. PICK c \in Block \X Idx : c = <<blk, idx>>
  BY <1>1
<1>3. Occurs(Owned', Block \X Idx, b) = Occurs(Owned, Block \X Idx, b)
        - (IF Owned[c] = b THEN 1 ELSE 0) + (IF (Owned')[c] = b THEN 1 ELSE 0)
  <2>1. \A x \in Block \X Idx : x # c => (Owned')[x] = Owned[x]
    BY <1>1, <1>2
  <2> QED BY <2>1, WordUpdate, Zenon
<1>4. Owned[c] # b /\ ((Owned')[c] = b <=> v = b /\ v # blk)
  BY <1>1, <1>2, BlockAssumption
<1> DEFINE W == Occurs(Owned, Block \X Idx, b)
           W1 == Occurs(Owned', Block \X Idx, b)
<1>5. W \in Nat
  BY OwnersNat DEF IInv
<1>6. W1 = W - 0 + (IF v = b /\ v # blk THEN 1 ELSE 0)
  BY <1>3, <1>4
<1>7. W1 = W + (IF v = b /\ v # blk THEN 1 ELSE 0)
  <2> HIDE DEF W, W1
  <2> QED BY <1>5, <1>6
<1> QED BY <1>7

(* The parts of the invariant that a store leaves alone.                   *)
LEMMA FillRest ==
  ASSUME IInv, TypeOK', pc = "fill", pc' = "fill", idx' = idx + 1,
         UNCHANGED <<tag, size, toks, wl, keep, blk>>,
         \A b \in Block : /\ rc'[b] = 0 <=> rc[b] = 0
                          /\ rc[b] = 1 /\ rc'[b] # 1
                               => /\ b \notin toks /\ ~Queued(b)
                                  /\ b # blk /\ b # keep
  PROVE  Control' /\ Headers' /\ DyingUnowned' /\ NoAbort'
<1> USE DEF IInv
<1>1. Control'
  <2>1. idx >= FirstChild[tag[blk]] /\ blk \in Block /\ FirstChild[tag[blk]] \in Int
    BY FirstChildType, SizeAssumption DEF Control, TypeOK
  <2>2. idx + 1 >= FirstChild[tag[blk]]
    BY <2>1 DEF TypeOK
  <2> QED BY <2>1, <2>2 DEF Control, Running, Ended
<1>2. Headers'
  BY DEF Headers
<1>3. DyingUnowned'
  BY DEF DyingUnowned, Queued
<1>4. NoAbort'
  BY DEF NoAbort, Aborted
<1> QED BY <1>1, <1>2, <1>3, <1>4

LEMMA FillMoveInv ==
  ASSUME IInv, TypeOK', NEW r \in Reg, FillMove(r)
  PROVE  IInv'
<1> USE DEF IInv
<1>1. /\ pc = "fill" /\ pc' = "fill" /\ idx < size[blk] /\ idx' = idx + 1
      /\ UNCHANGED <<tag, size, rc, toks, glob, wl, keep, blk>>
      /\ reg[r] \in Ref /\ word' = [word EXCEPT ![<<blk, idx>>] = reg[r]]
  BY DEF FillMove, TypeOK
<1>2. reg[r] # blk
  <2>1. blk \in Block
    BY <1>1 DEF Control
  <2> QED BY <2>1, HeldLive
<1>3. \A b \in Block : Owners(b)' = Owners(b)
  <2> SUFFICES ASSUME NEW b \in Block PROVE Owners(b)' = Owners(b)
    OBVIOUS
  <2> DEFINE R == Occurs(reg, Reg, b)
             R1 == Occurs(reg', Reg, b)
             G == Occurs(glob, 1 .. NGlob, b)
             W == Occurs(Owned, Block \X Idx, b)
             W1 == Occurs(Owned', Block \X Idx, b)
             T == (IF b \in toks THEN 1 ELSE 0)
             Q == (IF Queued(b) THEN 1 ELSE 0)
             B == (IF b = blk THEN 1 ELSE 0)
             K == (IF b = keep THEN 1 ELSE 0)
  <2>1. R1 = R - (IF reg[r] = b THEN 1 ELSE 0)
    <3>1. /\ reg'[r] = Imm /\ \A x \in Reg : x # r => reg'[x] = reg[x]
      BY DEF FillMove, TypeOK
    <3>2. R1 = R - (IF reg[r] = b THEN 1 ELSE 0) + (IF reg'[r] = b THEN 1 ELSE 0)
      BY <3>1, RegUpdate
    <3>3. reg'[r] # b
      BY <3>1, BlockAssumption
    <3> QED BY <3>2, <3>3, OwnersNat
  <2>2. W1 = W + (IF reg[r] = b /\ reg[r] # blk THEN 1 ELSE 0)
    BY <1>1, FillCount
  <2>3. Owners(b) = R + G + W + T + Q + B + K
    BY DEF Owners
  <2>4. Owners(b)' = R1 + G + W1 + T + Q + B + K
    BY <1>1 DEF Owners, Queued
  <2>5. R \in Nat /\ G \in Nat /\ W \in Nat
    BY OwnersNat
  <2>6. T \in Nat /\ Q \in Nat /\ B \in Nat /\ K \in Nat
    OBVIOUS
  <2> HIDE DEF R, R1, G, W, W1, T, Q, B, K
  <2> QED BY <1>2, <2>1, <2>2, <2>3, <2>4, <2>5, <2>6
<1>4. RcExact'
  BY <1>1, <1>3 DEF RcExact
<1>5. Control' /\ Headers' /\ DyingUnowned' /\ NoAbort'
  BY <1>1, FillRest
<1> QED BY <1>4, <1>5

LEMMA FillDupInv ==
  ASSUME IInv, TypeOK', NEW v \in Block, FillDup(v)
  PROVE  IInv'
<1> USE DEF IInv
<1>1. /\ rc[v] # 0 /\ tag[v] # "Freed"
      /\ v \notin toks /\ ~Queued(v) /\ v # blk /\ v # keep
  BY BorrowLive DEF FillDup
<1>2. /\ pc = "fill" /\ pc' = "fill" /\ idx < size[blk] /\ idx' = idx + 1
      /\ UNCHANGED <<tag, size, reg, toks, glob, wl, keep, blk>>
      /\ v \in Ref /\ word' = [word EXCEPT ![<<blk, idx>>] = v]
  BY <1>1 DEF FillDup, Checked, Ref
<1>3. \A b \in Block : Owners(b)' = Owners(b) + (IF b = v THEN 1 ELSE 0)
  <2> SUFFICES ASSUME NEW b \in Block
               PROVE  Owners(b)' = Owners(b) + (IF b = v THEN 1 ELSE 0)
    OBVIOUS
  <2> DEFINE R == Occurs(reg, Reg, b)
             G == Occurs(glob, 1 .. NGlob, b)
             W == Occurs(Owned, Block \X Idx, b)
             W1 == Occurs(Owned', Block \X Idx, b)
             T == (IF b \in toks THEN 1 ELSE 0)
             Q == (IF Queued(b) THEN 1 ELSE 0)
             B == (IF b = blk THEN 1 ELSE 0)
             K == (IF b = keep THEN 1 ELSE 0)
  <2>1. W1 = W + (IF v = b /\ v # blk THEN 1 ELSE 0)
    BY <1>2, FillCount
  <2>2. Owners(b) = R + G + W + T + Q + B + K
    BY DEF Owners
  <2>3. Owners(b)' = R + G + W1 + T + Q + B + K
    BY <1>2 DEF Owners, Queued
  <2>4. R \in Nat /\ G \in Nat /\ W \in Nat
    BY OwnersNat
  <2>5. T \in Nat /\ Q \in Nat /\ B \in Nat /\ K \in Nat
    OBVIOUS
  <2> HIDE DEF R, G, W, W1, T, Q, B, K
  <2> QED BY <1>1, <2>1, <2>2, <2>3, <2>4, <2>5
<1>4. rc' = IF rc[v] = RcImmortal THEN rc ELSE [rc EXCEPT ![v] = @ + 1]
  BY BlockAssumption DEF FillDup, Dupped, Immortal
<1>5. RcExact'
  <2> SUFFICES ASSUME NEW b \in Block, rc'[b] # RcImmortal
               PROVE  rc'[b] = Owners(b)'
    BY DEF RcExact
  <2>1. rc[b] # RcImmortal /\ rc[b] = Owners(b) /\ rc[b] \in Int
    BY <1>4 DEF RcExact, TypeOK
  <2>2. rc'[b] = rc[b] + (IF b = v THEN 1 ELSE 0)
    BY <1>4, <2>1 DEF TypeOK
  <2> QED BY <1>3, <2>1, <2>2
<1>6. \A b \in Block : /\ rc'[b] = 0 <=> rc[b] = 0
                       /\ b # v => rc'[b] = rc[b]
  BY <1>1, <1>4 DEF TypeOK
<1>7. Control' /\ Headers' /\ DyingUnowned' /\ NoAbort'
  BY <1>1, <1>2, <1>6, FillRest
<1> QED BY <1>5, <1>7

LEMMA FillSelfInv ==
  ASSUME IInv, TypeOK', FillSelf
  PROVE  IInv'
<1> USE DEF IInv
<1>1. /\ pc = "fill" /\ pc' = "fill" /\ idx < size[blk] /\ idx' = idx + 1
      /\ UNCHANGED <<tag, size, rc, reg, toks, glob, wl, keep, blk>>
      /\ blk \in Ref /\ word' = [word EXCEPT ![<<blk, idx>>] = blk]
  BY DEF FillSelf, TypeOK
<1>2. \A b \in Block : Occurs(Owned', Block \X Idx, b)
                         = Occurs(Owned, Block \X Idx, b)
  <2> SUFFICES ASSUME NEW b \in Block
               PROVE  Occurs(Owned', Block \X Idx, b) = Occurs(Owned, Block \X Idx, b)
    OBVIOUS
  <2> DEFINE W == Occurs(Owned, Block \X Idx, b)
             W1 == Occurs(Owned', Block \X Idx, b)
  <2>1. W1 = W + (IF blk = b /\ blk # blk THEN 1 ELSE 0)
    BY <1>1, FillCount
  <2>2. W \in Nat
    BY OwnersNat
  <2>3. W1 = W
    <3> HIDE DEF W, W1
    <3> QED BY <2>1, <2>2
  <2> QED BY <2>3
<1>3. \A b \in Block : Owners(b)' = Owners(b)
  BY <1>1, <1>2 DEF Owners, Queued
<1>4. RcExact'
  BY <1>1, <1>3 DEF RcExact
<1>5. Control' /\ Headers' /\ DyingUnowned' /\ NoAbort'
  BY <1>1, FillRest
<1> QED BY <1>4, <1>5

(* A completed block moves from the filling loop to a register.            *)
LEMMA FillDoneInv ==
  ASSUME IInv, TypeOK', NEW r \in Reg, FillDone(r)
  PROVE  IInv'
<1> USE DEF IInv
<1>1. /\ pc = "fill" /\ blk \in Block /\ idx >= size[blk]
      /\ wl = <<>> /\ keep = Imm /\ reg[r] = Imm
      /\ pc' = "run" /\ blk' = Imm /\ reg' = [reg EXCEPT ![r] = blk]
      /\ UNCHANGED <<heap, rc, toks, glob, wl, keep>>
  BY DEF FillDone, Control
<1>2. Owned' = Owned
  <2>1. \A c \in Block \X Idx : OwningWord(c)' <=> OwningWord(c)
    <3> SUFFICES ASSUME NEW c \in Block \X Idx
                 PROVE  OwningWord(c)' <=> OwningWord(c)
      OBVIOUS
    <3>1. Children(c[1])' = Children(c[1])
      BY <1>1 DEF Children, heap
    <3>2. c[1] = blk /\ c[2] \in Children(c[1]) => c[2] < idx
      BY <1>1, FirstChildType, SizeAssumption DEF Children, TypeOK
    <3>3. c[1] # blk'
      BY <1>1, BlockAssumption
    <3> QED BY <1>1, <3>1, <3>2, <3>3 DEF OwningWord, heap
  <2> QED BY <1>1, <2>1 DEF Owned, heap
<1>3. \A b \in Block : Owners(b)' = Owners(b)
  <2> SUFFICES ASSUME NEW b \in Block PROVE Owners(b)' = Owners(b)
    OBVIOUS
  <2> DEFINE R == Occurs(reg, Reg, b)
             R1 == Occurs(reg', Reg, b)
             G == Occurs(glob, 1 .. NGlob, b)
             W == Occurs(Owned, Block \X Idx, b)
             T == (IF b \in toks THEN 1 ELSE 0)
             Q == (IF Queued(b) THEN 1 ELSE 0)
             B == (IF b = blk THEN 1 ELSE 0)
             K == (IF b = keep THEN 1 ELSE 0)
  <2>1. R1 = R + B
    <3>1. /\ reg'[r] = blk /\ \A x \in Reg : x # r => reg'[x] = reg[x]
      BY <1>1 DEF TypeOK
    <3>2. R1 = R - (IF reg[r] = b THEN 1 ELSE 0) + (IF reg'[r] = b THEN 1 ELSE 0)
      BY <3>1, RegUpdate
    <3>3. reg[r] # b
      BY <1>1, BlockAssumption
    <3>4. R \in Nat
      BY OwnersNat
    <3>5. R1 = R - 0 + B
      BY <3>1, <3>2, <3>3
    <3> QED BY <3>4, <3>5
  <2>2. Owners(b) = R + G + W + T + Q + B + K
    BY DEF Owners
  <2>3. Owners(b)' = R1 + G + W + T + Q + 0 + K
    BY <1>1, <1>2, BlockAssumption DEF Owners, Queued
  <2>4. /\ R \in Nat /\ G \in Nat /\ W \in Nat
        /\ T \in Nat /\ Q \in Nat /\ B \in Nat /\ K \in Nat
    BY OwnersNat
  <2> HIDE DEF R, R1, G, W, T, Q, B, K
  <2> QED BY <2>1, <2>2, <2>3, <2>4
<1>4. RcExact'
  BY <1>1, <1>3 DEF RcExact
<1>5. Control'
  BY <1>1 DEF Control, Running, Ended
<1>6. Headers'
  BY <1>1 DEF Headers, heap
<1>7. DyingUnowned'
  BY <1>1, BlockAssumption DEF DyingUnowned, Queued
<1>8. NoAbort'
  BY <1>1 DEF NoAbort, Aborted
<1> QED BY <1>4, <1>5, <1>6, <1>7, <1>8

-----------------------------------------------------------------------------
(* release_children and the worklist.                                      *)

(* The block being released is referred to by nothing else.                *)
LEMMA ReleasedAlone ==
  ASSUME IInv, pc = "release"
  PROVE  /\ blk \in Block /\ rc[blk] = 1 /\ blk \notin toks
         /\ ~Queued(blk) /\ blk # keep
         /\ Occurs(reg, Reg, blk) = 0
         /\ Occurs(glob, 1 .. NGlob, blk) = 0
         /\ Occurs(Owned, Block \X Idx, blk) = 0
<1> USE DEF IInv
<1>1. blk \in Block
  BY DEF Control
<1>2. /\ rc[blk] = 1 /\ Owners(blk) = 1
      /\ Occurs(reg, Reg, blk) = 0
      /\ Occurs(glob, 1 .. NGlob, blk) = 0
      /\ Occurs(Owned, Block \X Idx, blk) = 0
  BY <1>1, DyingAlone
<1>3. Owners(blk) = 0 + 0 + 0 + (IF blk \in toks THEN 1 ELSE 0)
         + (IF Queued(blk) THEN 1 ELSE 0) + 1 + (IF blk = keep THEN 1 ELSE 0)
  BY <1>2 DEF Owners
<1>4. blk \notin toks /\ ~Queued(blk) /\ blk # keep
  BY <1>2, <1>3
<1> QED BY <1>1, <1>2, <1>4

(* The word that the loop has reached owns its reference.                  *)
LEMMA ReleaseCell ==
  ASSUME IInv, pc = "release", idx < size[blk]
  PROVE  /\ idx \in Idx /\ idx \in Children(blk)
         /\ word[<<blk, idx>>] \in Ref
         /\ Owned[<<blk, idx>>] = IF word[<<blk, idx>>] = blk THEN Imm
                                  ELSE word[<<blk, idx>>]
<1> USE DEF IInv
<1>1. /\ blk \in Block /\ blk \notin toks /\ blk # keep
  BY ReleasedAlone
<1>2. idx \in Idx /\ idx \in Children(blk)
  BY <1>1, FirstChildType, SizeAssumption DEF Control, TypeOK, Children, Idx
<1>3. <<blk, idx>> \in Block \X Idx
  BY <1>1, <1>2
<1>4. OwningWord(<<blk, idx>>) <=> word[<<blk, idx>>] # blk
  BY <1>1, <1>2 DEF OwningWord, Idx
<1>5. word[<<blk, idx>>] \in Ref
  BY <1>3 DEF TypeOK
<1> QED BY <1>2, <1>3, <1>4, <1>5 DEF Owned

(* One turn of the loop takes the reference of that word away and leaves   *)
(* the others alone.                                                       *)
LEMMA ReleaseOwned ==
  ASSUME IInv, TypeOK', pc = "release", pc' = "release", idx < size[blk],
         idx' = idx + 1, UNCHANGED <<heap, toks, keep, blk>>, NEW b \in Block
  PROVE  Occurs(Owned', Block \X Idx, b)
           = Occurs(Owned, Block \X Idx, b)
             - (IF word[<<blk, idx>>] = b /\ word[<<blk, idx>>] # blk
                THEN 1 ELSE 0)
<1> USE DEF IInv
<1>1. /\ blk \in Block /\ idx \in Idx
      /\ Owned[<<blk, idx>>] = IF word[<<blk, idx>>] = blk THEN Imm
                               ELSE word[<<blk, idx>>]
  BY ReleasedAlone, ReleaseCell
<1>2. \A x \in Block, i \in Idx : x = blk /\ i = idx => (Owned')[<<x, i>>] = Imm
  <2> SUFFICES ASSUME NEW x \in Block, NEW i \in Idx, x = blk, i = idx
               PROVE  (Owned')[<<x, i>>] = Imm
    OBVIOUS
  <2>1. ~OwningWord(<<x, i>>)'
    BY DEF OwningWord, Idx
  <2> QED BY <2>1 DEF Owned
<1>3. \A x \in Block, i \in Idx :
         <<x, i>> # <<blk, idx>> => (Owned')[<<x, i>>] = Owned[<<x, i>>]
  <2> SUFFICES ASSUME NEW x \in Block, NEW i \in Idx, <<x, i>> # <<blk, idx>>
               PROVE  (IF OwningWord(<<x, i>>) THEN word[<<x, i>>] ELSE Imm)'
                       = IF OwningWord(<<x, i>>) THEN word[<<x, i>>] ELSE Imm
    BY DEF Owned
  <2>1. Children(x)' = Children(x)
    BY DEF Children, heap
  <2>2. x = blk => i # idx /\ (i >= idx + 1 <=> i >= idx)
    BY <1>1 DEF Idx
  <2> QED BY <2>1, <2>2 DEF OwningWord, heap
<1>4. PICK c \in Block \X Idx : c = <<blk, idx>>
  BY <1>1
<1>5. \A x \in Block \X Idx : x # c => (Owned')[x] = Owned[x]
  BY <1>3, <1>4
<1>6. Occurs(Owned', Block \X Idx, b) = Occurs(Owned, Block \X Idx, b)
        - (IF Owned[c] = b THEN 1 ELSE 0) + (IF (Owned')[c] = b THEN 1 ELSE 0)
  BY <1>5, WordUpdate
<1>7. (Owned')[c] # b
  BY <1>1, <1>2, <1>4, BlockAssumption
<1>8. Owned[c] = b <=> word[<<blk, idx>>] = b /\ word[<<blk, idx>>] # blk
  BY <1>1, <1>4, BlockAssumption
<1> DEFINE W == Occurs(Owned, Block \X Idx, b)
           W1 == Occurs(Owned', Block \X Idx, b)
           D == (IF word[<<blk, idx>>] = b /\ word[<<blk, idx>>] # blk
                 THEN 1 ELSE 0)
<1>9. W1 = W - D + 0 /\ W \in Nat /\ D \in Nat
  BY <1>6, <1>7, <1>8, OwnersNat
<1>10. W1 = W - D
  <2> HIDE DEF W, W1, D
  <2> QED BY <1>9
<1> QED BY <1>10

(* The words of a turn that loses or queues one reference, in terms of the *)
(* owners of each block.                                                   *)
LEMMA ReleaseOwners ==
  ASSUME IInv, TypeOK', pc = "release", pc' = "release", idx < size[blk],
         idx' = idx + 1, UNCHANGED <<heap, reg, toks, glob, keep, blk>>,
         NEW b \in Block
  PROVE  Owners(b)' = Owners(b)
           - (IF word[<<blk, idx>>] = b /\ word[<<blk, idx>>] # blk
              THEN 1 ELSE 0)
           - (IF Queued(b) THEN 1 ELSE 0) + (IF Queued(b)' THEN 1 ELSE 0)
<1> DEFINE R == Occurs(reg, Reg, b)
           G == Occurs(glob, 1 .. NGlob, b)
           W == Occurs(Owned, Block \X Idx, b)
           W1 == Occurs(Owned', Block \X Idx, b)
           D == (IF word[<<blk, idx>>] = b /\ word[<<blk, idx>>] # blk
                 THEN 1 ELSE 0)
           T == (IF b \in toks THEN 1 ELSE 0)
           Q == (IF Queued(b) THEN 1 ELSE 0)
           Q1 == (IF Queued(b)' THEN 1 ELSE 0)
           B == (IF b = blk THEN 1 ELSE 0)
           K == (IF b = keep THEN 1 ELSE 0)
<1>1. W1 = W - D
  BY ReleaseOwned
<1>2. Owners(b) = R + G + W + T + Q + B + K
  BY DEF Owners
<1>3. Owners(b)' = R + G + W1 + T + Q1 + B + K
  BY DEF Owners
<1>4. /\ R \in Nat /\ G \in Nat /\ W \in Nat /\ D \in Nat
      /\ T \in Nat /\ Q \in Nat /\ Q1 \in Nat /\ B \in Nat /\ K \in Nat
  BY OwnersNat
<1> HIDE DEF R, G, W, W1, D, T, Q, Q1, B, K
<1>5. Owners(b)' = Owners(b) - D - Q + Q1
  BY <1>1, <1>2, <1>3, <1>4
<1> QED BY <1>5 DEF D, Q, Q1

LEMMA ReleaseWordInv ==
  ASSUME IInv, TypeOK', ReleaseWord
  PROVE  IInv'
<1> USE DEF IInv
<1>1. /\ pc = "release" /\ idx < size[blk] /\ idx' = idx + 1
      /\ UNCHANGED <<heap, reg, toks, glob, blk, fin, keep>>
      /\ blk \in Block /\ rc[blk] = 1 /\ RcImmortal # 1 /\ RcImmortal # 0
  BY ReleasedAlone, SizeAssumption DEF ReleaseWord
<1> DEFINE w == word[<<blk, idx>>]
<1>2. /\ idx \in Idx /\ w \in Ref
      /\ Owned[<<blk, idx>>] = IF w = blk THEN Imm ELSE w
  BY <1>1, ReleaseCell
<1>3. w \in Block /\ w # blk =>
         /\ rc[w] # 0 /\ tag[w] # "Freed"
         /\ w \notin toks /\ ~Queued(w) /\ w # keep
  BY <1>1, <1>2, HeldLive
<1> DEFINE Skip == w = blk \/ Immortal(w)
<1>4. CASE Skip
  <2>1. rc' = rc /\ wl' = wl /\ pc' = pc
    BY <1>4 DEF ReleaseWord
  <2>2. RcExact'
    <3> SUFFICES ASSUME NEW b \in Block, rc'[b] # RcImmortal
                 PROVE  rc'[b] = Owners(b)'
      BY DEF RcExact
    <3>1. ~(w = b /\ w # blk)
      BY <1>4, <2>1, BlockAssumption DEF Immortal
    <3> DEFINE O == Owners(b)
               O1 == Owners(b)'
               Q == (IF Queued(b) THEN 1 ELSE 0)
               Q1 == (IF Queued(b)' THEN 1 ELSE 0)
               D == (IF w = b /\ w # blk THEN 1 ELSE 0)
    <3>2. O1 = O - D - Q + Q1
      BY <1>1, <2>1, ReleaseOwners
    <3>3. D = 0 /\ Q1 = Q /\ Q \in Nat
      BY <2>1, <3>1 DEF Queued
    <3>4. rc[b] = O /\ rc[b] \in Int /\ rc'[b] = rc[b]
      BY <2>1 DEF RcExact, TypeOK
    <3> HIDE DEF O, O1, Q, Q1, D
    <3>5. O1 = rc[b]
      BY <3>2, <3>3, <3>4
    <3> QED BY <3>4, <3>5 DEF O1
  <2>3. Control'
    BY <1>1, <2>1, FirstChildType, SizeAssumption
       DEF Control, Running, Ended, heap, TypeOK
  <2>4. Headers' /\ DyingUnowned' /\ NoAbort'
    BY <1>1, <2>1 DEF Headers, DyingUnowned, Queued, NoAbort, heap
  <2> QED BY <2>2, <2>3, <2>4
<1>5. CASE ~Skip
  <2>a. w \in Block /\ w # blk /\ rc[w] # RcImmortal
    BY <1>2, <1>5 DEF Immortal, Ref
  <2>b. /\ rc[w] # 0 /\ tag[w] # "Freed" /\ rc[w] \in Nat
        /\ w \notin toks /\ ~Queued(w) /\ w # keep
    BY <1>3, <2>a DEF TypeOK
  <2>c. Control' /\ NoAbort' /\ pc' = "release"
    <3>1. pc' = "release"
      BY <1>1, <1>5, <2>a, <2>b DEF ReleaseWord, CheckedLast
    <3>2. idx >= FirstChild[tag[blk]] /\ FirstChild[tag[blk]] \in Int
      <4>1. tag[blk] \in Tag
        BY <1>1 DEF TypeOK
      <4>2. FirstChild[tag[blk]] \in Int
        BY <4>1, FirstChildType, SizeAssumption
      <4> QED BY <1>1, <4>2 DEF Control
    <3>3. idx + 1 >= FirstChild[tag[blk]]
      BY <1>2, <3>2 DEF Idx
    <3> QED BY <1>1, <3>1, <3>3
            DEF Control, NoAbort, Running, Ended, Aborted, heap
  <2>1. CASE rc[w] > 1
    <3>1. rc' = [rc EXCEPT ![w] = @ - 1] /\ wl' = wl
      BY <1>5, <2>1 DEF ReleaseWord
    <3>2. RcExact'
      <4> SUFFICES ASSUME NEW b \in Block, rc'[b] # RcImmortal
                   PROVE  rc'[b] = Owners(b)'
        BY DEF RcExact
      <4> DEFINE O == Owners(b)
                 O1 == Owners(b)'
                 Q == (IF Queued(b) THEN 1 ELSE 0)
                 Q1 == (IF Queued(b)' THEN 1 ELSE 0)
                 D == (IF w = b /\ w # blk THEN 1 ELSE 0)
      <4>1. O1 = O - D - Q + Q1
        BY <1>1, <2>c, ReleaseOwners
      <4>2. Q1 = Q /\ Q \in Nat /\ D = IF w = b THEN 1 ELSE 0
        BY <2>a, <3>1 DEF Queued
      <4>3. rc[b] # RcImmortal
        BY <2>a, <3>1 DEF TypeOK
      <4>4. rc[b] = O /\ rc[b] \in Int
        BY <4>3 DEF RcExact, TypeOK
      <4>5. rc'[b] = rc[b] - D
        BY <3>1, <4>2, <4>4 DEF TypeOK
      <4> HIDE DEF O, O1, Q, Q1, w
      <4>6. O1 = rc[b] - D
        BY <4>1, <4>2, <4>4
      <4> QED BY <4>5, <4>6 DEF O1
    <3>3. \A b \in Block : /\ rc'[b] = 0 <=> rc[b] = 0
                           /\ b # w => rc'[b] = rc[b]
      <4>1. rc'[w] = rc[w] - 1 /\ \A b \in Block : b # w => rc'[b] = rc[b]
        BY <2>a, <3>1 DEF TypeOK
      <4>2. rc'[w] # 0
        <5> HIDE DEF w
        <5> QED BY <2>1, <2>b, <4>1
      <4> HIDE DEF w
      <4> QED BY <2>b, <4>1, <4>2
    <3>4. Headers'
      BY <1>1, <3>3 DEF Headers, heap
    <3>5. DyingUnowned'
      BY <1>1, <2>a, <2>b, <3>1, <3>3 DEF DyingUnowned, Queued
    <3> QED BY <2>c, <3>2, <3>4, <3>5
  <2>2. CASE ~(rc[w] > 1)
    <3>1. rc' = rc /\ wl' = Append(wl, w) /\ rc[w] = 1
      BY <1>5, <2>2, <2>b DEF ReleaseWord
    <3>2. \A b \in Block : Queued(b)' <=> Queued(b) \/ b = w
      <4>1. wl \in Seq(Block) /\ Len(wl) \in Nat
        BY DEF TypeOK
      <4>2. /\ DOMAIN wl' = 1 .. Len(wl) + 1 /\ DOMAIN wl = 1 .. Len(wl)
            /\ wl'[Len(wl) + 1] = w
            /\ \A i \in DOMAIN wl : wl'[i] = wl[i]
        BY <2>a, <3>1, <4>1
      <4> QED BY <4>1, <4>2 DEF Queued
    <3>3. RcExact'
      <4> SUFFICES ASSUME NEW b \in Block, rc'[b] # RcImmortal
                   PROVE  rc'[b] = Owners(b)'
        BY DEF RcExact
      <4> DEFINE O == Owners(b)
                 O1 == Owners(b)'
                 Q == (IF Queued(b) THEN 1 ELSE 0)
                 Q1 == (IF Queued(b)' THEN 1 ELSE 0)
                 D == (IF w = b /\ w # blk THEN 1 ELSE 0)
      <4>1. O1 = O - D - Q + Q1
        BY <1>1, <2>c, ReleaseOwners
      <4>2. Q1 = Q + D /\ Q \in Nat /\ D \in Nat
        BY <2>a, <2>b, <3>2
      <4>3. rc[b] = O /\ rc[b] \in Int /\ rc'[b] = rc[b]
        BY <3>1 DEF RcExact, TypeOK
      <4> HIDE DEF O, O1, Q, Q1, D
      <4>4. O1 = rc[b]
        BY <4>1, <4>2, <4>3
      <4> QED BY <4>3, <4>4 DEF O1
    <3>4. Headers'
      BY <1>1, <3>1 DEF Headers, heap
    <3>5. DyingUnowned'
      <4>1. \A b \in Block : b \in toks' \/ Queued(b)' \/ b = blk' \/ b = keep'
               => rc'[b] = 1
        BY <1>1, <3>1, <3>2 DEF DyingUnowned
      <4>2. \A i, j \in DOMAIN wl' : wl'[i] = wl'[j] => i = j
        <5>1. wl \in Seq(Block) /\ Len(wl) \in Nat
          BY DEF TypeOK
        <5>2. /\ DOMAIN wl' = 1 .. Len(wl) + 1 /\ DOMAIN wl = 1 .. Len(wl)
              /\ wl'[Len(wl) + 1] = w
              /\ \A i \in DOMAIN wl : wl'[i] = wl[i]
          BY <2>a, <3>1, <5>1
        <5>3. \A i \in DOMAIN wl : wl[i] # w
          BY <2>b DEF Queued
        <5> QED BY <5>1, <5>2, <5>3 DEF DyingUnowned
      <4> QED BY <4>1, <4>2 DEF DyingUnowned
    <3> QED BY <2>c, <3>3, <3>4, <3>5
  <2> QED BY <2>1, <2>2
<1> QED BY <1>4, <1>5

(* free_block: the last owner of the block is the release itself.          *)
LEMMA ReleaseDoneFreeInv ==
  ASSUME IInv, TypeOK', ReleaseDoneFree
  PROVE  IInv'
<1> USE DEF IInv
<1>1. /\ pc = "release" /\ idx >= size[blk] /\ blk' = Imm /\ pc' = "drain"
      /\ UNCHANGED <<reg, toks, glob, wl, keep>>
  BY DEF ReleaseDoneFree
<1>2. /\ blk \in Block /\ rc[blk] = 1 /\ blk \notin toks
      /\ ~Queued(blk) /\ blk # keep
      /\ Occurs(reg, Reg, blk) = 0
      /\ Occurs(glob, 1 .. NGlob, blk) = 0
      /\ Occurs(Owned, Block \X Idx, blk) = 0
  BY <1>1, ReleasedAlone
<1>3. /\ tag'[blk] = "Freed" /\ size'[blk] = 1 /\ rc'[blk] = 0
      /\ \A b \in Block \ {blk} :
            /\ tag'[b] = tag[b] /\ size'[b] = size[b] /\ rc'[b] = rc[b]
            /\ \A i \in Idx : word'[<<b, i>>] = word[<<b, i>>]
  BY <1>2 DEF ReleaseDoneFree, TypeOK
<1>4. Owned' = Owned
  <2>1. \A c \in Block \X Idx :
           (IF OwningWord(c) THEN word[c] ELSE Imm)'
             = IF OwningWord(c) THEN word[c] ELSE Imm
    <3> SUFFICES ASSUME NEW x \in Block, NEW i \in Idx
                 PROVE  (IF OwningWord(<<x, i>>) THEN word[<<x, i>>] ELSE Imm)'
                         = IF OwningWord(<<x, i>>) THEN word[<<x, i>>] ELSE Imm
      OBVIOUS
    <3>1. CASE x = blk
      <4>1. ~OwningWord(<<x, i>>)
        <5>1. i \in Children(x) => ~(i >= idx)
          BY <1>1, <1>2, <3>1, FirstChildType, SizeAssumption
             DEF Children, TypeOK
        <5> QED BY <1>1, <3>1, <5>1 DEF OwningWord
      <4>2. ~OwningWord(<<x, i>>)'
        <5>1. FirstChild["Freed"] = MaxSize /\ MaxSize \in Nat \ {0, 1}
          BY SizeAssumption DEF FirstChild, Tag
        <5>2. FirstChild["Freed"] .. 1 - 1 = {}
          BY <5>1
        <5>3. Children(x)' = {}
          BY <1>3, <3>1, <5>2 DEF Children
        <5> QED BY <5>3 DEF OwningWord
      <4> QED BY <4>1, <4>2
    <3>2. CASE x # blk
      <4>1. Children(x)' = Children(x)
        BY <1>3, <3>2 DEF Children
      <4>2. x # blk'
        BY <1>1, BlockAssumption
      <4> QED BY <1>1, <1>3, <3>2, <4>1, <4>2 DEF OwningWord
    <3> QED BY <3>1, <3>2
  <2> QED BY <2>1 DEF Owned
<1>5. RcExact'
  <2> SUFFICES ASSUME NEW b \in Block, rc'[b] # RcImmortal
               PROVE  rc'[b] = Owners(b)'
    BY DEF RcExact
  <2> DEFINE R == Occurs(reg, Reg, b)
             G == Occurs(glob, 1 .. NGlob, b)
             W == Occurs(Owned, Block \X Idx, b)
             T == (IF b \in toks THEN 1 ELSE 0)
             Q == (IF Queued(b) THEN 1 ELSE 0)
             K == (IF b = keep THEN 1 ELSE 0)
  <2>1. Owners(b)' = R + G + W + T + Q + 0 + K
    BY <1>1, <1>4, BlockAssumption DEF Owners, Queued
  <2>2. CASE b = blk
    <3>1. R = 0 /\ G = 0 /\ W = 0 /\ T = 0 /\ Q = 0 /\ K = 0
      BY <1>2, <2>2
    <3>2. rc'[b] = 0
      BY <1>3, <2>2
    <3> HIDE DEF R, G, W, T, Q, K
    <3> QED BY <2>1, <3>1, <3>2
  <2>3. CASE b # blk
    <3>1. rc'[b] = rc[b] /\ rc[b] = Owners(b)
      BY <1>3, <2>3 DEF RcExact
    <3>2. Owners(b) = R + G + W + T + Q + 0 + K
      BY <2>3 DEF Owners
    <3> QED BY <2>1, <3>1, <3>2
  <2> QED BY <2>2, <2>3
<1>6. Control'
  BY <1>1 DEF Control, Running, Ended
<1>7. Headers'
  BY <1>2, <1>3 DEF Headers
<1>8. DyingUnowned'
  BY <1>1, <1>2, <1>3, BlockAssumption DEF DyingUnowned, Queued
<1>9. NoAbort'
  BY <1>1 DEF NoAbort, Aborted
<1> QED BY <1>5, <1>6, <1>7, <1>8, <1>9

(* dc_drop_reuse keeps the emptied block.                                  *)
LEMMA ReleaseDoneKeepInv ==
  ASSUME IInv, TypeOK', ReleaseDoneKeep
  PROVE  IInv'
<1> USE DEF IInv
<1>1. /\ pc = "release" /\ idx >= size[blk] /\ blk' = Imm /\ pc' = "drain"
      /\ UNCHANGED <<heap, rc, reg, toks, glob, wl>>
      /\ keep' = blk /\ keep = Imm
  BY DEF ReleaseDoneKeep, Control
<1>2. blk \in Block /\ rc[blk] = 1
  BY <1>1, ReleasedAlone
<1>3. Owned' = Owned
  <2>1. \A c \in Block \X Idx : OwningWord(c)' <=> OwningWord(c)
    <3> SUFFICES ASSUME NEW c \in Block \X Idx
                 PROVE  OwningWord(c)' <=> OwningWord(c)
      OBVIOUS
    <3>1. Children(c[1])' = Children(c[1])
      BY <1>1 DEF Children, heap
    <3>2. c[1] = blk /\ c[2] \in Children(c[1]) => ~(c[2] >= idx)
      BY <1>1, <1>2, FirstChildType, SizeAssumption DEF Children, TypeOK
    <3>3. c[1] # blk' /\ c[1] # keep /\ (c[1] = keep' <=> c[1] = blk)
      BY <1>1, BlockAssumption
    <3> QED BY <1>1, <3>1, <3>2, <3>3 DEF OwningWord, heap
  <2> QED BY <1>1, <2>1 DEF Owned, heap
<1>4. \A b \in Block : Owners(b)' = Owners(b)
  <2> SUFFICES ASSUME NEW b \in Block PROVE Owners(b)' = Owners(b)
    OBVIOUS
  <2> DEFINE R == Occurs(reg, Reg, b)
             G == Occurs(glob, 1 .. NGlob, b)
             W == Occurs(Owned, Block \X Idx, b)
             T == (IF b \in toks THEN 1 ELSE 0)
             Q == (IF Queued(b) THEN 1 ELSE 0)
             B == (IF b = blk THEN 1 ELSE 0)
  <2>1. Owners(b) = R + G + W + T + Q + B + 0
    BY <1>1, BlockAssumption DEF Owners
  <2>2. Owners(b)' = R + G + W + T + Q + 0 + B
    BY <1>1, <1>3, BlockAssumption DEF Owners, Queued
  <2>3. R \in Nat /\ G \in Nat /\ W \in Nat /\ T \in Nat /\ Q \in Nat /\ B \in Nat
    BY OwnersNat
  <2> HIDE DEF R, G, W, T, Q, B
  <2> QED BY <2>1, <2>2, <2>3
<1>5. RcExact'
  BY <1>1, <1>4 DEF RcExact
<1>6. Control'
  BY <1>1 DEF Control, Running, Ended
<1>7. Headers' /\ NoAbort'
  BY <1>1 DEF Headers, heap, NoAbort, Aborted
<1>8. DyingUnowned'
  BY <1>1, <1>2, BlockAssumption DEF DyingUnowned, Queued
<1> QED BY <1>5, <1>6, <1>7, <1>8

(* wl_drain takes the top of the worklist and releases it.                 *)
LEMMA DrainPopInv ==
  ASSUME IInv, TypeOK', DrainPop
  PROVE  IInv'
<1> USE DEF IInv
<1> DEFINE v == wl[Len(wl)]
<1>1. /\ pc = "drain" /\ blk = Imm /\ wl # <<>>
      /\ UNCHANGED <<heap, rc, reg, toks, glob, keep>>
      /\ blk' = v /\ idx' = FirstChild[tag[v]] /\ fin' = "free"
      /\ pc' = Checked(v, "release")
      /\ wl' = SubSeq(wl, 1, Len(wl) - 1)
  BY DEF DrainPop, Control
<1>2. /\ wl \in Seq(Block) /\ Len(wl) \in Nat \ {0} /\ v \in Block
      /\ DOMAIN wl = 1 .. Len(wl) /\ DOMAIN wl' = 1 .. Len(wl) - 1
      /\ \A i \in DOMAIN wl' : wl'[i] = wl[i]
  <2>1. wl \in Seq(Block)
    BY DEF TypeOK
  <2>2. Len(wl) \in Nat \ {0} /\ DOMAIN wl = 1 .. Len(wl)
    BY <1>1, <2>1
  <2>3. v \in Block
    BY <2>1, <2>2
  <2>4. /\ DOMAIN SubSeq(wl, 1, Len(wl) - 1) = 1 .. Len(wl) - 1
        /\ \A i \in 1 .. Len(wl) - 1 : SubSeq(wl, 1, Len(wl) - 1)[i] = wl[i]
    BY <2>1, <2>2
  <2>5. DOMAIN wl' = 1 .. Len(wl) - 1 /\ \A i \in DOMAIN wl' : wl'[i] = wl[i]
    BY <1>1, <2>4
  <2> QED BY <2>1, <2>2, <2>3, <2>5
<1>3. Queued(v) /\ rc[v] = 1 /\ tag[v] # "Freed"
  <2>1. Queued(v)
    BY <1>2 DEF Queued
  <2>2. rc[v] = 1
    BY <1>2, <2>1 DEF DyingUnowned
  <2> QED BY <1>2, <2>1, <2>2 DEF Headers
<1>4. pc' = "release"
  BY <1>1, <1>2, <1>3, BlockAssumption DEF Checked
<1>5. \A b \in Block : Queued(b)' <=> Queued(b) /\ b # v
  <2>a. \A i, j \in DOMAIN wl : wl[i] = wl[j] => i = j
    BY DEF DyingUnowned
  <2>b. \A i \in DOMAIN wl : i \in DOMAIN wl' \/ i = Len(wl)
    BY <1>2
  <2>c. \A i \in DOMAIN wl' : wl'[i] # v /\ i \in DOMAIN wl
    BY <1>2, <2>a
  <2> HIDE DEF v
  <2>d. v = wl[Len(wl)]
    BY DEF v
  <2> QED BY <1>2, <2>b, <2>c, <2>d DEF Queued
<1>6. Owned' = Owned
  <2>1. \A c \in Block \X Idx : OwningWord(c)' <=> OwningWord(c)
    <3> SUFFICES ASSUME NEW c \in Block \X Idx
                 PROVE  OwningWord(c)' <=> OwningWord(c)
      OBVIOUS
    <3>1. c[1] # blk
      BY <1>1, BlockAssumption
    <3>2. Children(c[1])' = Children(c[1])
      BY <1>1 DEF Children, heap
    <3>3. c[1] = blk' /\ c[2] \in Children(c[1]) => c[2] >= idx'
      BY <1>1, FirstChildType, SizeAssumption DEF Children, TypeOK
    <3> QED BY <1>1, <1>4, <3>1, <3>2, <3>3 DEF OwningWord, heap
  <2> QED BY <1>1, <2>1 DEF Owned, heap
<1>7. \A b \in Block : Owners(b)' = Owners(b)
  <2> SUFFICES ASSUME NEW b \in Block PROVE Owners(b)' = Owners(b)
    OBVIOUS
  <2> DEFINE R == Occurs(reg, Reg, b)
             G == Occurs(glob, 1 .. NGlob, b)
             W == Occurs(Owned, Block \X Idx, b)
             T == (IF b \in toks THEN 1 ELSE 0)
             Q == (IF Queued(b) THEN 1 ELSE 0)
             Q1 == (IF Queued(b)' THEN 1 ELSE 0)
             B1 == (IF b = v THEN 1 ELSE 0)
             K == (IF b = keep THEN 1 ELSE 0)
  <2>1. Owners(b) = R + G + W + T + Q + 0 + K
    BY <1>1, BlockAssumption DEF Owners
  <2>2. Owners(b)' = R + G + W + T + Q1 + B1 + K
    BY <1>1, <1>6 DEF Owners
  <2>3. R \in Nat /\ G \in Nat /\ W \in Nat /\ T \in Nat /\ K \in Nat
    BY OwnersNat
  <2>4. Q1 + B1 = Q
    BY <1>3, <1>5
  <2>5. Q \in Nat /\ Q1 \in Nat /\ B1 \in Nat
    OBVIOUS
  <2> HIDE DEF R, G, W, T, Q, Q1, B1, K
  <2> QED BY <2>1, <2>2, <2>3, <2>4, <2>5
<1>8. RcExact'
  BY <1>1, <1>7 DEF RcExact
<1>9. Control'
  <2>1. FirstChild[tag[v]] \in Int
    <3>1. tag[v] \in Tag
      BY <1>2 DEF TypeOK
    <3> HIDE DEF v
    <3> QED BY <3>1, FirstChildType, SizeAssumption
  <2> QED BY <1>1, <1>2, <1>4, <2>1 DEF Control, Running, Ended, heap
<1>10. Headers' /\ NoAbort'
  BY <1>1, <1>4 DEF Headers, heap, NoAbort, Aborted
<1>11. DyingUnowned'
  <2>1. \A b \in Block : b \in toks' \/ Queued(b)' \/ b = blk' \/ b = keep'
           => rc'[b] = 1
    BY <1>1, <1>3, <1>5 DEF DyingUnowned
  <2>2. \A i, j \in DOMAIN wl' : wl'[i] = wl'[j] => i = j
    BY <1>2 DEF DyingUnowned
  <2> QED BY <2>1, <2>2 DEF DyingUnowned
<1> QED BY <1>8, <1>9, <1>10, <1>11

(* dc_drop_reuse returns: the kept block becomes a token.                  *)
LEMMA DrainDoneInv ==
  ASSUME IInv, TypeOK', DrainDone
  PROVE  IInv'
<1> USE DEF IInv
<1>1. /\ pc = "drain" /\ blk = Imm /\ blk' = Imm /\ wl = <<>> /\ wl' = <<>>
      /\ UNCHANGED <<heap, rc, reg, glob>>
      /\ toks' = toks \cup ({keep} \ {Imm}) /\ keep' = Imm /\ pc' = ret
      /\ ret \in Running
  BY DEF DrainDone, Control, TypeOK
<1>2. \A b \in Block : b \in toks' <=> b \in toks \/ b = keep
  BY <1>1, BlockAssumption
<1>3. Owned' = Owned
  <2>1. \A c \in Block \X Idx : OwningWord(c)' <=> OwningWord(c)
    <3> SUFFICES ASSUME NEW c \in Block \X Idx
                 PROVE  OwningWord(c)' <=> OwningWord(c)
      OBVIOUS
    <3>1. Children(c[1])' = Children(c[1])
      BY <1>1 DEF Children, heap
    <3>2. c[1] # blk /\ c[1] # blk' /\ c[1] # keep' /\ c[1] \in Block
      BY <1>1, BlockAssumption
    <3> QED BY <1>1, <1>2, <3>1, <3>2 DEF OwningWord, heap
  <2> QED BY <1>1, <2>1 DEF Owned, heap
<1>4. \A b \in Block : Owners(b)' = Owners(b)
  <2> SUFFICES ASSUME NEW b \in Block PROVE Owners(b)' = Owners(b)
    OBVIOUS
  <2> DEFINE R == Occurs(reg, Reg, b)
             G == Occurs(glob, 1 .. NGlob, b)
             W == Occurs(Owned, Block \X Idx, b)
             T == (IF b \in toks THEN 1 ELSE 0)
             T1 == (IF b \in toks' THEN 1 ELSE 0)
             Q == (IF Queued(b) THEN 1 ELSE 0)
             K == (IF b = keep THEN 1 ELSE 0)
  <2>1. Owners(b) = R + G + W + T + Q + 0 + K
    BY <1>1, BlockAssumption DEF Owners
  <2>2. Owners(b)' = R + G + W + T1 + Q + 0 + 0
    BY <1>1, <1>3, BlockAssumption DEF Owners, Queued
  <2>3. /\ R \in Nat /\ G \in Nat /\ W \in Nat
        /\ T \in Nat /\ T1 \in Nat /\ Q \in Nat /\ K \in Nat
    BY OwnersNat
  <2>4. b = keep => Owners(b) = 1
    BY DyingAlone
  <2>5. T + K = 2 => b = keep
    OBVIOUS
  <2>6. T1 = IF T + K = 0 THEN 0 ELSE 1
    BY <1>2
  <2>7. T \in 0 .. 1 /\ K \in 0 .. 1
    OBVIOUS
  <2> HIDE DEF R, G, W, T, T1, Q, K
  <2>8. T + K # 2
    BY <2>1, <2>3, <2>4, <2>5
  <2> QED BY <2>1, <2>2, <2>3, <2>6, <2>7, <2>8
<1>5. RcExact'
  BY <1>1, <1>4 DEF RcExact
<1>6. Control'
  BY <1>1 DEF Control, Running, Ended
<1>7. Headers' /\ NoAbort'
  BY <1>1 DEF Headers, heap, NoAbort, Aborted, Running
<1>8. DyingUnowned'
  BY <1>1, <1>2, BlockAssumption DEF DyingUnowned, Queued
<1> QED BY <1>5, <1>6, <1>7, <1>8

-----------------------------------------------------------------------------
(* The theorems.                                                           *)

LEMMA InvInit == Init => IInv
<1> SUFFICES ASSUME Init PROVE IInv
  OBVIOUS
<1>1. TypeOK /\ Control
  BY TypeInit
<1>2. /\ wl = <<>> /\ keep = Imm /\ blk = Imm /\ toks = {} /\ pc = "run"
      /\ reg = [r \in Reg |-> Imm] /\ glob = [i \in 1 .. NGlob |-> Imm]
      /\ word = [c \in Block \X Idx |-> Imm]
      /\ rc = [b \in Block |-> IF b \in Static THEN RcImmortal ELSE 0]
      /\ tag = [b \in Block |-> IF b \in Static THEN "Unit" ELSE "Freed"]
      /\ size = [b \in Block |-> 1]
  BY DEF Init
<1>3. Headers
  BY <1>2, SizeAssumption DEF Headers
<1>4. DyingUnowned
  BY <1>2, BlockAssumption DEF DyingUnowned, Queued
<1>5. NoAbort
  BY <1>2 DEF NoAbort, Aborted
<1>6. RcExact
  <2> SUFFICES ASSUME NEW b \in Block, rc[b] # RcImmortal
               PROVE  rc[b] = Owners(b)
    BY DEF RcExact
  <2>1. rc[b] = 0
    BY <1>2
  <2>2. b # Imm
    BY BlockAssumption
  <2>3. Occurs(reg, Reg, b) = 0
    BY <1>2, <2>2, OccursZero
  <2>4. Occurs(glob, 1 .. NGlob, b) = 0
    <3> DEFINE S == 1 .. NGlob
    <3>1. \A i \in S : glob[i] # b
      BY <1>2, <2>2
    <3> HIDE DEF S
    <3>2. Occurs(glob, S, b) = 0
      BY <3>1, OccursZero
    <3> QED BY <3>2 DEF S
  <2>5. Occurs(Owned, Block \X Idx, b) = 0
    <3>1. \A c \in Block \X Idx : Owned[c] = Imm
      BY <1>2 DEF Owned
    <3> QED BY <3>1, <2>2, OccursZero
  <2>6. Owners(b) = 0 + 0 + 0 + 0 + 0 + 0 + 0
    BY <1>2, <2>2, <2>3, <2>4, <2>5 DEF Owners, Queued
  <2> QED BY <2>1, <2>6
<1> QED BY <1>1, <1>3, <1>4, <1>5, <1>6 DEF IInv

(* A step that changes nothing keeps the invariant.                        *)
LEMMA StutterInv ==
  ASSUME IInv, UNCHANGED vars
  PROVE  IInv'
<1>1. \A c \in Block \X Idx : OwningWord(c)' <=> OwningWord(c)
  BY DEF vars, OwningWord, Children
<1>2. Owned' = Owned
  BY <1>1 DEF Owned, vars
<1>3. \A b \in Block : Owners(b)' = Owners(b)
  BY <1>2 DEF Owners, Queued, vars
<1>4. RcExact'
  BY <1>3 DEF RcExact, IInv, vars
<1>5. TypeOK' /\ Control' /\ Headers' /\ NoAbort'
  BY DEF IInv, vars, TypeOK, Control, Headers, NoAbort
<1>6. DyingUnowned'
  BY DEF IInv, vars, DyingUnowned, Queued
<1> QED BY <1>4, <1>5, <1>6 DEF IInv

LEMMA InvStep == IInv /\ [Next]_vars => IInv'
<1> SUFFICES ASSUME IInv, [Next]_vars PROVE IInv'
  OBVIOUS
<1>1. TypeOK'
  BY TypeStep DEF IInv
<1>2. CASE Program
  <2>1. ASSUME NEW r \in Reg, NEW v \in Block, Dup(r, v) PROVE IInv'
    BY <1>1, <2>1, DupInv
  <2>2. ASSUME NEW r \in Reg, Drop(r) PROVE IInv'
    BY <1>1, <2>2, DropInv
  <2>3. ASSUME NEW r \in Reg, DropReuse(r) PROVE IInv'
    BY <1>1, <2>3, DropReuseInv
  <2>4. ASSUME NEW r \in Reg, NEW i \in 1 .. NGlob, Gset(i, r) PROVE IInv'
    BY <1>1, <2>4, GsetInv
  <2>5. ASSUME NEW b \in Block, NEW s \in Shape, Alloc(b, s) PROVE IInv'
    BY <1>1, <2>5, AllocInv
  <2>6. ASSUME NEW t \in toks, NEW s \in Shape, Reuse(t, s) PROVE IInv'
    BY <1>1, <2>6, ReuseInv
  <2>7. ASSUME NEW t \in toks, NEW b \in Block, NEW s \in Shape,
               ReuseMiss(t, b, s)
        PROVE IInv'
    BY <1>1, <2>7, ReuseMissInv
  <2>8. CASE Exit
    <3>1. /\ pc \in Running /\ pc' \in Running \cup Ended
          /\ UNCHANGED <<heap, rc, reg, toks, glob, wl, blk, keep>>
      BY <2>8 DEF Exit, Running
    <3> QED BY <1>1, <3>1, QuietInv
  <2> QED BY <1>2, <2>1, <2>2, <2>3, <2>4, <2>5, <2>6, <2>7, <2>8 DEF Program
<1>3. CASE Fill
  <2>1. ASSUME NEW r \in Reg, FillMove(r) PROVE IInv'
    BY <1>1, <2>1, FillMoveInv
  <2>2. ASSUME NEW r \in Reg, FillDone(r) PROVE IInv'
    BY <1>1, <2>2, FillDoneInv
  <2>3. ASSUME NEW v \in Block, FillDup(v) PROVE IInv'
    BY <1>1, <2>3, FillDupInv
  <2>4. CASE FillSelf
    BY <1>1, <2>4, FillSelfInv
  <2> QED BY <1>3, <2>1, <2>2, <2>3, <2>4 DEF Fill
<1>4. CASE Release
  <2>1. CASE ReleaseWord
    BY <1>1, <2>1, ReleaseWordInv
  <2>2. CASE ReleaseDoneFree
    BY <1>1, <2>2, ReleaseDoneFreeInv
  <2>3. CASE ReleaseDoneKeep
    BY <1>1, <2>3, ReleaseDoneKeepInv
  <2>4. CASE DrainPop
    BY <1>1, <2>4, DrainPopInv
  <2>5. CASE DrainDone
    BY <1>1, <2>5, DrainDoneInv
  <2> QED BY <1>4, <2>1, <2>2, <2>3, <2>4, <2>5 DEF Release
<1>5. CASE Shutdown
  <2>1. CASE ShutdownDrop
    BY <1>1, <2>1, ShutdownDropInv
  <2>2. CASE ShutdownCheck
    <3>1. /\ pc \in Running /\ pc' \in Running \cup Ended
          /\ UNCHANGED <<heap, rc, reg, toks, glob, wl, blk, keep>>
      BY <2>2 DEF ShutdownCheck, Running, Ended
    <3> QED BY <1>1, <3>1, QuietInv
  <2> QED BY <1>5, <2>1, <2>2 DEF Shutdown
<1>6. CASE UNCHANGED vars
  BY <1>6, StutterInv
<1> QED BY <1>2, <1>3, <1>4, <1>5, <1>6 DEF Next, Terminated

(* The inductive invariant holds of every behaviour of the runtime.        *)
THEOREM Invariant == Spec => []IInv
<1>1. Init => IInv
  BY InvInit
<1>2. IInv /\ [Next]_vars => IInv'
  BY InvStep
<1> QED BY <1>1, <1>2, PTL DEF Spec

(* Every variable keeps its type.                                          *)
THEOREM TypeCorrect == Spec => []TypeOK
<1>1. IInv => TypeOK
  BY DEF IInv
<1> QED BY <1>1, Invariant, PTL

(* Every reference count is the number of owned references, at every       *)
(* control point of dc_dup, dc_drop, dc_drop_reuse and the worklist, until *)
(* it saturates.                                                           *)
THEOREM CountsExact == Spec => []RcExact
<1>1. IInv => RcExact
  BY DEF IInv
<1> QED BY <1>1, Invariant, PTL

(* rc_use_after_free and the underflow check of rt5.c are never reached.   *)
THEOREM NeverAborts == Spec => []NoAbort
<1>1. IInv => NoAbort
  BY DEF IInv
<1> QED BY <1>1, Invariant, PTL

(* No block is queued twice, and a block that is queued, being released or *)
(* held as a token has exactly one owner.                                  *)
THEOREM DyingBlocksUnowned == Spec => []DyingUnowned
<1>1. IInv => DyingUnowned
  BY DEF IInv
<1> QED BY <1>1, Invariant, PTL

-----------------------------------------------------------------------------
(* Action properties.                                                      *)

(* dc_drop never writes a saturated count.                                 *)
LEMMA DcDropSaturates ==
  ASSUME TypeOK, NEW v \in Ref, NEW next, DcDrop(v, next),
         NEW b \in Block, rc[b] = RcImmortal
  PROVE  rc'[b] = RcImmortal
BY DEF DcDrop, Immortal, TypeOK

LEMMA SaturationStep ==
  ASSUME IInv, [Next]_vars, NEW b \in Block, rc[b] = RcImmortal
  PROVE  rc'[b] = RcImmortal
<1> USE DEF IInv
<1>a. /\ tag[b] # "Freed" /\ b \notin toks /\ rc \in [Block -> 0 .. RcImmortal]
      /\ RcImmortal # 0 /\ RcImmortal # 1
  BY SizeAssumption DEF Headers, DyingUnowned, TypeOK
<1>1. ASSUME NEW r \in Reg, NEW v \in Block, Dup(r, v) PROVE rc'[b] = RcImmortal
  BY <1>1, <1>a DEF Dup, Dupped, Immortal
<1>2. ASSUME NEW r \in Reg, Drop(r) PROVE rc'[b] = RcImmortal
  <2>1. reg[r] \in Ref /\ DcDrop(reg[r], "run")
    BY <1>2 DEF Drop, TypeOK
  <2> QED BY <2>1, DcDropSaturates
<1>3. ASSUME NEW r \in Reg, DropReuse(r) PROVE rc'[b] = RcImmortal
  <2>1. reg[r] \in Ref /\ (DcDrop(reg[r], "run") \/ rc' = rc)
    BY <1>3 DEF DropReuse, TypeOK
  <2> QED BY <2>1, DcDropSaturates
<1>4. ASSUME NEW r \in Reg, NEW i \in 1 .. NGlob, Gset(i, r)
      PROVE  rc'[b] = RcImmortal
  <2>1. glob[i] \in Ref /\ DcDrop(glob[i], "run")
    BY <1>4 DEF Gset, TypeOK
  <2> QED BY <2>1, DcDropSaturates
<1>5. ASSUME NEW x \in Block, NEW s \in Shape, Alloc(x, s)
      PROVE  rc'[b] = RcImmortal
  BY <1>5, <1>a DEF Alloc
<1>6. ASSUME NEW t \in toks, NEW s \in Shape, Reuse(t, s)
      PROVE  rc'[b] = RcImmortal
  BY <1>6, <1>a DEF Reuse
<1>7. ASSUME NEW t \in toks, NEW x \in Block, NEW s \in Shape,
             ReuseMiss(t, x, s)
      PROVE  rc'[b] = RcImmortal
  BY <1>7, <1>a DEF ReuseMiss
<1>8. CASE Exit
  BY <1>8 DEF Exit
<1>9. CASE Fill
  <2>1. ASSUME NEW v \in Block, FillDup(v) PROVE rc'[b] = RcImmortal
    BY <2>1, <1>a DEF FillDup, Dupped, Immortal
  <2> QED BY <1>9, <2>1 DEF Fill, FillMove, FillDone, FillSelf
<1>10. CASE ReleaseWord
  BY <1>10, <1>a DEF ReleaseWord, Immortal
<1>11. CASE ReleaseDoneFree
  <2>1. rc[blk] = 1
    BY <1>11, ReleasedAlone DEF ReleaseDoneFree
  <2> QED BY <1>11, <1>a, <2>1 DEF ReleaseDoneFree
<1>12. CASE ReleaseDoneKeep \/ DrainPop \/ DrainDone
  BY <1>12 DEF ReleaseDoneKeep, DrainPop, DrainDone
<1>13. CASE ShutdownDrop
  <2>1. gi \in 1 .. NGlob
    BY <1>13, SizeAssumption DEF ShutdownDrop, TypeOK
  <2>2. glob[gi] \in Ref /\ DcDrop(glob[gi], "shutdown")
    BY <1>13, <2>1 DEF ShutdownDrop, TypeOK
  <2> QED BY <2>2, DcDropSaturates
<1>14. CASE ShutdownCheck \/ UNCHANGED vars
  BY <1>14 DEF ShutdownCheck, vars
<1> QED BY <1>1, <1>2, <1>3, <1>4, <1>5, <1>6, <1>7, <1>8, <1>9, <1>10,
           <1>11, <1>12, <1>13, <1>14
        DEF Next, Program, Release, Shutdown, Terminated

(* A count that reached RC_IMMORTAL stays there.                           *)
THEOREM CountsSaturate == Spec => Saturation
<1>1. IInv /\ [Next]_vars
        => [\A b \in Block : rc[b] = RcImmortal => rc'[b] = RcImmortal]_vars
  BY SaturationStep
<1> QED BY <1>1, Invariant, PTL DEF Spec, Saturation

(* What a step may do to a block that the program can name.                *)
Untouched(b) == /\ tag'[b] = tag[b] /\ size'[b] = size[b]
                /\ \A i \in Children(b) : word'[<<b, i>>] = word[<<b, i>>]

LEMMA MutationStep ==
  ASSUME IInv, [Next]_vars, NEW b \in Block,
         NamedBy(b) # {}, (NamedBy(b))' # {}
  PROVE  Untouched(b)
<1> USE DEF IInv
<1>1. /\ b \notin toks /\ b # blk /\ tag[b] # "Freed" /\ b # keep
  BY HeldLive DEF NamedBy
<1>2. \A i \in Children(b) : <<b, i>> \in Block \X Idx
  BY FirstChildType, SizeAssumption DEF Children, TypeOK, Idx
<1>3. CASE UNCHANGED heap
  BY <1>3 DEF Untouched, heap
<1>4. ASSUME NEW x \in Block, NEW s \in Shape, Alloc(x, s) PROVE Untouched(b)
  BY <1>1, <1>4 DEF Alloc, Untouched, TypeOK
<1>5. ASSUME NEW t \in toks, NEW s \in Shape, Reuse(t, s) PROVE Untouched(b)
  BY <1>1, <1>5 DEF Reuse, Untouched, TypeOK
<1>6. ASSUME NEW t \in toks, NEW x \in Block, NEW s \in Shape,
             ReuseMiss(t, x, s)
      PROVE  Untouched(b)
  <2>1. b # t /\ b # x
    BY <1>1, <1>6 DEF ReuseMiss
  <2> QED BY <1>2, <1>6, <2>1 DEF ReuseMiss, Untouched, TypeOK
<1>7. CASE Fill
  <2>1. \A i \in Children(b) : <<b, i>> # <<blk, idx>>
    BY <1>1
  <2>2. ASSUME NEW r \in Reg, FillMove(r) PROVE Untouched(b)
    BY <1>2, <2>1, <2>2 DEF FillMove, Untouched, TypeOK
  <2>3. ASSUME NEW v \in Block, FillDup(v) PROVE Untouched(b)
    BY <1>2, <2>1, <2>3 DEF FillDup, Untouched, TypeOK
  <2>4. CASE FillSelf
    BY <1>2, <2>1, <2>4 DEF FillSelf, Untouched, TypeOK
  <2>5. ASSUME NEW r \in Reg, FillDone(r) PROVE Untouched(b)
    BY <1>3, <2>5 DEF FillDone
  <2> QED BY <1>7, <2>2, <2>3, <2>4, <2>5 DEF Fill
<1>8. CASE ReleaseDoneFree
  BY <1>1, <1>2, <1>8 DEF ReleaseDoneFree, Untouched, TypeOK
<1>9. ASSUME NEW r \in Reg, NEW v \in Block, Dup(r, v) PROVE Untouched(b)
  BY <1>3, <1>9 DEF Dup
<1>10. ASSUME NEW r \in Reg, Drop(r) \/ DropReuse(r) PROVE Untouched(b)
  BY <1>3, <1>10 DEF Drop, DropReuse
<1>11. ASSUME NEW r \in Reg, NEW i \in 1 .. NGlob, Gset(i, r)
       PROVE  Untouched(b)
  BY <1>3, <1>11 DEF Gset
<1>12. CASE Exit \/ Shutdown \/ UNCHANGED vars
  BY <1>3, <1>12 DEF Exit, Shutdown, ShutdownDrop, ShutdownCheck, vars, heap
<1>13. CASE ReleaseWord \/ ReleaseDoneKeep \/ DrainPop \/ DrainDone
  BY <1>3, <1>13 DEF ReleaseWord, ReleaseDoneKeep, DrainPop, DrainDone
<1>14. CASE Program
  BY <1>4, <1>5, <1>6, <1>9, <1>10, <1>11, <1>12, <1>14 DEF Program
<1> QED BY <1>7, <1>8, <1>12, <1>13, <1>14 DEF Next, Release, Terminated

(* In-place reuse, the release loop and the allocator never write a block  *)
(* that the program can name before and after the step.                    *)
THEOREM ReuseInvisible == Spec => NoVisibleMutation
<1>1. IInv /\ [Next]_vars
        => [\A b \in Block :
              NamedBy(b) # {} /\ (NamedBy(b))' # {}
                => /\ tag'[b] = tag[b] /\ size'[b] = size[b]
                   /\ \A i \in Children(b) : word'[<<b, i>>] = word[<<b, i>>]]_vars
  BY MutationStep DEF Untouched
<1> QED BY <1>1, Invariant, PTL DEF Spec, NoVisibleMutation
=============================================================================
