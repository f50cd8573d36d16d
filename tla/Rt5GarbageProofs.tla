------------------------- MODULE Rt5GarbageProofs -------------------------
(***************************************************************************)
(* Rt5Rc leaves no garbage behind and its shutdown check is exact, for     *)
(* every set of blocks, registers and globals and every width of the       *)
(* count.  Exact counts alone do not give this: a cycle of owned words     *)
(* keeps itself alive.  The proof adds to IInv that the owned words form   *)
(* no cycle.                                                               *)
(***************************************************************************)
EXTENDS Rt5RcProofs, NatLemmas

-----------------------------------------------------------------------------
(* How a step changes the owned words.                                     *)

(* Every owned word was owned before the step, by the same block.          *)
EdgesKept == \A c \in Block \X Idx : (Owned')[c] \in {Owned[c], Imm}

(* The words of the block c[1] count, as far as the runtime has got.       *)
Counts(c) == /\ c[1] \notin toks /\ c[1] # keep
             /\ c[1] = blk => IF pc = "fill" THEN c[2] < idx ELSE c[2] >= idx

(* A step that leaves the heap alone and counts no new word.               *)
LEMMA HeapSameEdges ==
  ASSUME UNCHANGED heap,
         \A x \in Block, i \in Idx :
            i \in Children(x) /\ Counts(<<x, i>>)' => Counts(<<x, i>>)
  PROVE  EdgesKept
<1> SUFFICES ASSUME NEW x \in Block, NEW i \in Idx
             PROVE  (Owned')[<<x, i>>] \in {Owned[<<x, i>>], Imm}
  BY DEF EdgesKept
<1>1. Children(x)' = Children(x) /\ word' = word
  BY DEF Children, heap
<1>2. OwningWord(<<x, i>>)' => OwningWord(<<x, i>>)
  BY <1>1 DEF OwningWord, Counts
<1> QED BY <1>1, <1>2 DEF Owned

(* The same when no block was being filled or released before.             *)
LEMMA IdleEdges ==
  ASSUME blk = Imm, UNCHANGED heap,
         \A x \in Block : x \in toks \/ x = keep => x \in toks' \/ x = keep'
  PROVE  EdgesKept
<1>1. \A x \in Block, i \in Idx : Counts(<<x, i>>)' => Counts(<<x, i>>)
  BY BlockAssumption DEF Counts
<1> QED BY <1>1, HeapSameEdges

(* A free block has no children.                                           *)
LEMMA FreedChildless ==
  ASSUME Headers, NEW b \in Block, tag[b] = "Freed"
  PROVE  Children(b) = {}
<1>1. size[b] = 1 /\ FirstChild["Freed"] = MaxSize /\ MaxSize \in Nat \ {0, 1}
  BY SizeAssumption DEF Headers, FirstChild, Tag
<1>2. MaxSize .. 1 - 1 = {}
  BY <1>1
<1> QED BY <1>1, <1>2 DEF Children

(* A header store that starts a block, or frees one, owns no new word.     *)
LEMMA HeaderEdges ==
  ASSUME IInv, IInv', NEW b \in Ref, NEW t \in Ref, keep' = keep, blk' \in {b, Imm},
         b = Imm \/ (pc' = "fill" /\ blk' = b /\ idx' = FirstChild[tag'[b]]),
         t = b \/ t = Imm \/ tag'[t] = "Freed",
         toks \subseteq toks' \cup {b, t},
         \A x \in Block : blk = x => x = t,
         \A x \in Block \ {b, t}, i \in Idx :
            /\ tag'[x] = tag[x] /\ size'[x] = size[x]
            /\ word'[<<x, i>>] = word[<<x, i>>]
  PROVE  EdgesKept
<1> SUFFICES ASSUME NEW x \in Block, NEW i \in Idx
             PROVE  (Owned')[<<x, i>>] \in {Owned[<<x, i>>], Imm}
  BY DEF EdgesKept
<1>1. CASE x = b
  <2>1. FirstChild[tag'[x]] \in Int /\ i \in Int
    BY FirstChildType, SizeAssumption DEF IInv, TypeOK, Idx
  <2>2. i \in Children(x)' => ~(i < idx')
    BY <1>1, <2>1, BlockAssumption DEF Children, IInv, TypeOK
  <2>3. ~OwningWord(<<x, i>>)'
    BY <1>1, <2>2, BlockAssumption DEF OwningWord
  <2> QED BY <2>3 DEF Owned
<1>2. CASE x = t /\ x # b
  <2>1. Children(x)' = {}
    <3>1. /\ tag'[x] = "Freed" /\ size'[x] = 1
          /\ FirstChild["Freed"] = MaxSize /\ MaxSize \in Nat \ {0, 1}
      BY <1>2, BlockAssumption, SizeAssumption
         DEF IInv, Headers, FirstChild, Tag
    <3>2. MaxSize .. 1 - 1 = {}
      BY <3>1
    <3> QED BY <3>1, <3>2 DEF Children
  <2>2. ~OwningWord(<<x, i>>)'
    BY <2>1 DEF OwningWord
  <2> QED BY <2>2 DEF Owned
<1>3. CASE x # b /\ x # t
  <2>1. Children(x)' = Children(x) /\ word'[<<x, i>>] = word[<<x, i>>]
    BY <1>3 DEF Children
  <2>2. OwningWord(<<x, i>>)' => OwningWord(<<x, i>>)
    BY <1>3, <2>1, BlockAssumption DEF OwningWord
  <2> QED BY <2>1, <2>2 DEF Owned
<1> QED BY <1>1, <1>2, <1>3


(* The operations of the program run while no block is being filled or     *)
(* released; only an allocation writes the heap.                           *)
LEMMA ProgramEdges ==
  ASSUME IInv, IInv', Program
  PROVE  EdgesKept
<1>1. pc = "run" /\ blk = Imm /\ keep = Imm
  BY DEF Program, Dup, Drop, DropReuse, Gset, Alloc, Reuse, ReuseMiss, Exit,
         IInv, Control, Running
<1>2. ASSUME UNCHANGED <<heap, toks, keep>> PROVE EdgesKept
  BY <1>1, <1>2, IdleEdges
<1>3. ASSUME NEW b \in Block, NEW s \in Shape, Alloc(b, s) PROVE EdgesKept
  <2>1. /\ pc' = "fill" /\ blk' = b /\ idx' = FirstChild[tag'[b]] /\ toks' = toks
        /\ keep' = keep
        /\ \A x \in Block \ {b, b}, i \in Idx :
              /\ tag'[x] = tag[x] /\ size'[x] = size[x]
              /\ word'[<<x, i>>] = word[<<x, i>>]
    BY <1>3 DEF Alloc, StartFill, IInv, TypeOK
  <2> QED BY <1>1, <2>1, BlockAssumption, HeaderEdges DEF Ref
<1>4. ASSUME NEW t \in toks, NEW s \in Shape, Reuse(t, s) PROVE EdgesKept
  <2>1. /\ t \in Block /\ pc' = "fill" /\ blk' = t /\ toks' = toks \ {t}
        /\ idx' = FirstChild[tag'[t]] /\ keep' = keep
        /\ \A x \in Block \ {t, t}, i \in Idx :
              /\ tag'[x] = tag[x] /\ size'[x] = size[x]
              /\ word'[<<x, i>>] = word[<<x, i>>]
    BY <1>4 DEF Reuse, StartFill, IInv, TypeOK
  <2> QED BY <1>1, <2>1, BlockAssumption, HeaderEdges DEF Ref
<1>5. ASSUME NEW t \in toks, NEW b \in Block, NEW s \in Shape,
             ReuseMiss(t, b, s)
      PROVE  EdgesKept
  <2>1. /\ t \in Block /\ pc' = "fill" /\ blk' = b /\ toks' = toks \ {t}
        /\ idx' = FirstChild[tag'[b]] /\ (t = b \/ tag'[t] = "Freed")
        /\ keep' = keep
        /\ \A x \in Block \ {b, t}, i \in Idx :
              /\ tag'[x] = tag[x] /\ size'[x] = size[x]
              /\ word'[<<x, i>>] = word[<<x, i>>]
    BY <1>5 DEF ReuseMiss, StartFill, IInv, TypeOK
  <2> QED BY <1>1, <2>1, BlockAssumption, HeaderEdges DEF Ref
<1>6. CASE \/ \E r \in Reg : \/ \E v \in Block : Dup(r, v)
                             \/ Drop(r) \/ DropReuse(r)
                             \/ \E i \in 1 .. NGlob : Gset(i, r)
           \/ Exit
  BY <1>2, <1>6 DEF Dup, Drop, DropReuse, Gset, Exit
<1> QED BY <1>3, <1>4, <1>5, <1>6 DEF Program

(* The release loop only gives words up.                                   *)
LEMMA ReleaseEdges ==
  ASSUME IInv, IInv', Release
  PROVE  EdgesKept
<1>1. CASE ReleaseWord
  <2>1. /\ pc = "release" /\ idx' = idx + 1 /\ idx \in Int
        /\ UNCHANGED <<heap, toks, keep, blk>>
    BY <1>1 DEF ReleaseWord, IInv, TypeOK
  <2>2. pc' = "release"
    BY <1>1 DEF ReleaseWord, CheckedLast, IInv, NoAbort, Aborted
  <2>3. \A x \in Block, i \in Idx : Counts(<<x, i>>)' => Counts(<<x, i>>)
    BY <2>1, <2>2 DEF Counts, Idx
  <2> QED BY <2>1, <2>3, HeapSameEdges
<1>2. CASE ReleaseDoneFree
  <2>1. /\ blk \in Block /\ blk # keep /\ blk' = Imm /\ toks' = toks
        /\ tag'[blk] = "Freed" /\ keep' = keep
        /\ \A x \in Block \ {blk}, i \in Idx :
              /\ tag'[x] = tag[x] /\ size'[x] = size[x]
              /\ word'[<<x, i>>] = word[<<x, i>>]
    BY <1>2, ReleasedAlone DEF ReleaseDoneFree, IInv, TypeOK
  <2>2. /\ size'[blk] = 1
    BY <1>2, <2>1 DEF IInv, Headers
  <2> QED BY <2>1, BlockAssumption, HeaderEdges DEF Ref
<1>3. CASE ReleaseDoneKeep
  <2>1. \A x \in Block, i \in Idx : Counts(<<x, i>>)' => Counts(<<x, i>>)
    BY <1>3, BlockAssumption
       DEF ReleaseDoneKeep, Counts, IInv, Control
  <2> QED BY <1>3, <2>1, HeapSameEdges DEF ReleaseDoneKeep
<1>4. CASE DrainPop
  BY <1>4, IdleEdges DEF DrainPop, IInv, Control
<1>5. CASE DrainDone
  BY <1>5, IdleEdges, BlockAssumption DEF DrainDone, IInv, Control
<1> QED BY <1>1, <1>2, <1>3, <1>4, <1>5 DEF Release


(* Shutdown, the end of a fill and a stutter own no new word either.       *)
LEMMA OtherEdges ==
  ASSUME IInv, IInv',
         Shutdown \/ (\E r \in Reg : FillDone(r)) \/ UNCHANGED vars
  PROVE  EdgesKept
<1>1. CASE Shutdown
  <2>1. UNCHANGED <<heap, toks, keep>> /\ blk = Imm
    BY <1>1
       DEF Shutdown, ShutdownDrop, ShutdownCheck, IInv, Control, Running
  <2> QED BY <2>1, IdleEdges
<1>2. ASSUME NEW r \in Reg, FillDone(r) PROVE EdgesKept
  <2>1. /\ pc = "fill" /\ idx >= size[blk] /\ blk \in Block
        /\ UNCHANGED <<heap, toks, keep>>
    BY <1>2 DEF FillDone, IInv, Control
  <2>2. \A x \in Block, i \in Idx :
           i \in Children(x) /\ Counts(<<x, i>>)' => Counts(<<x, i>>)
    <3> SUFFICES ASSUME NEW x \in Block, NEW i \in Children(x), i \in Idx,
                        Counts(<<x, i>>)'
                 PROVE  Counts(<<x, i>>)
      OBVIOUS
    <3>1. x = blk => i < idx
      <4>1. FirstChild[tag[blk]] \in Int /\ size[blk] \in Int /\ idx \in Int
        BY <2>1, FirstChildType, SizeAssumption, SMTT(30) DEF IInv, TypeOK
      <4> QED BY <2>1, <4>1 DEF Children
    <3> QED BY <2>1, <3>1 DEF Counts
  <2> QED BY <2>1, <2>2, HeapSameEdges
<1>3. CASE UNCHANGED vars
  <2>1. \A x \in Block, i \in Idx : Counts(<<x, i>>)' => Counts(<<x, i>>)
    BY <1>3 DEF vars, Counts
  <2> QED BY <1>3, <2>1, HeapSameEdges DEF vars, heap
<1> QED BY <1>1, <1>2, <1>3

(* A store into the block being filled adds at most one owned word, from   *)
(* that block, and nothing owns that block yet.                            *)
LEMMA StoreEdges ==
  ASSUME IInv, IInv',
         FillSelf \/ (\E r \in Reg : FillMove(r)) \/ (\E v \in Block : FillDup(v))
  PROVE  /\ blk \in Block
         /\ \A c \in Block \X Idx : /\ (Owned')[c] # blk
                                    /\ c[1] # blk => (Owned')[c] = Owned[c]
<1>1. /\ pc = "fill" /\ idx < size[blk] /\ idx' = idx + 1
      /\ UNCHANGED <<tag, size, toks, keep, blk>>
      /\ \E v \in Ref : word' = [word EXCEPT ![<<blk, idx>>] = v]
  <2>1. ASSUME NEW r \in Reg, FillMove(r)
        PROVE  \E v \in Ref : word' = [word EXCEPT ![<<blk, idx>>] = v]
    BY <2>1 DEF FillMove, IInv, TypeOK
  <2>2. \A v \in Block : v \in Ref
    BY DEF Ref
  <2>3. FillSelf => blk \in Ref
    BY DEF IInv, TypeOK
  <2> QED BY <2>1, <2>2, <2>3 DEF FillSelf, FillMove, FillDup
<1>2. pc' = "fill"
  <2>1. ASSUME NEW v \in Block, FillDup(v) PROVE pc' = "fill"
    BY <2>1, BlockAssumption DEF FillDup, Checked, IInv, NoAbort, Aborted
  <2> QED BY <1>1, <2>1 DEF FillSelf, FillMove
<1>3. PICK v \in Ref : word' = [word EXCEPT ![<<blk, idx>>] = v]
  BY <1>1
<1>4. /\ <<blk, idx>> \in Block \X Idx
      /\ (Owned')[<<blk, idx>>] = IF v = blk THEN Imm ELSE v
      /\ \A c \in Block \X Idx : c # <<blk, idx>> => (Owned')[c] = Owned[c]
  BY <1>1, <1>2, <1>3, FillOwned DEF IInv
<1>5. blk \in Block
  BY <1>1 DEF IInv, Control
<1>6. \A c \in Block \X Idx : Owned[c] # blk
  BY <1>5, HeldLive
<1>7. ASSUME NEW c \in Block \X Idx
      PROVE  (Owned')[c] # blk /\ (c[1] # blk => (Owned')[c] = Owned[c])
  <2>1. CASE c = <<blk, idx>>
    BY <1>4, <1>5, <2>1, BlockAssumption
  <2>2. CASE c # <<blk, idx>>
    BY <1>4, <1>6, <2>2
  <2> QED BY <2>1, <2>2
<1> QED BY <1>5, <1>7

(* No step closes a cycle.                                                 *)
LEMMA AcyclicStep ==
  ASSUME IInv, IInv', [Next]_vars, Acyclic
  PROVE  Acyclic'
<1> SUFFICES ASSUME NEW S \in (SUBSET Block) \ {{}}
             PROVE  \E b \in S : \A c \in Block \X Idx :
                       c[1] \in S => (Owned')[c] # b
  BY DEF Acyclic
<1>1. PICK b \in S : \A c \in Block \X Idx : c[1] \in S => Owned[c] # b
  BY DEF Acyclic
<1>2. CASE EdgesKept
  <2>1. \A c \in Block \X Idx : c[1] \in S => (Owned')[c] # b
    BY <1>1, <1>2, BlockAssumption DEF EdgesKept
  <2> QED BY <2>1
<1>3. CASE FillSelf \/ (\E r \in Reg : FillMove(r)) \/ (\E v \in Block : FillDup(v))
  <2>1. /\ blk \in Block
        /\ \A c \in Block \X Idx : /\ (Owned')[c] # blk
                                   /\ c[1] # blk => (Owned')[c] = Owned[c]
    BY <1>3, StoreEdges
  <2>2. CASE blk \in S
    BY <2>1, <2>2
  <2>3. CASE blk \notin S
    <3>1. \A c \in Block \X Idx : c[1] \in S => (Owned')[c] # b
      BY <1>1, <2>1, <2>3
    <3> QED BY <3>1
  <2> QED BY <2>2, <2>3
<1> QED BY <1>2, <1>3, ProgramEdges, ReleaseEdges, OtherEdges
        DEF Next, Fill, Terminated


-----------------------------------------------------------------------------
(* The other parts of the invariant.                                       *)

(* The blocks of the data segment keep their headers: a block that is      *)
(* written to has a count of 0 or 1.                                       *)
LEMMA StaticStep ==
  ASSUME IInv, IInv', [Next]_vars, NEW b \in Static,
         tag[b] = "Unit", rc[b] = RcImmortal
  PROVE  tag'[b] = "Unit" /\ rc'[b] = RcImmortal
<1>1. b \in Block /\ b \notin toks /\ b # blk
  BY BlockAssumption, SizeAssumption DEF IInv, DyingUnowned
<1>2. rc'[b] = RcImmortal
  BY <1>1, SaturationStep
<1>3. CASE UNCHANGED tag
  BY <1>2, <1>3
<1>4. ASSUME NEW x \in Block, NEW s \in Shape, Alloc(x, s) PROVE tag'[b] = tag[b]
  BY <1>1, <1>4 DEF Alloc, IInv, TypeOK
<1>5. ASSUME NEW t \in toks, NEW s \in Shape, Reuse(t, s) PROVE tag'[b] = tag[b]
  BY <1>1, <1>5 DEF Reuse, IInv, TypeOK
<1>6. ASSUME NEW t \in toks, NEW x \in Block, NEW s \in Shape, ReuseMiss(t, x, s)
      PROVE  tag'[b] = tag[b]
  BY <1>1, <1>6 DEF ReuseMiss, IInv, TypeOK
<1>7. CASE ReleaseDoneFree
  BY <1>1, <1>2, <1>7 DEF ReleaseDoneFree, IInv, TypeOK
<1>8. CASE Program
  BY <1>2, <1>3, <1>4, <1>5, <1>6, <1>8
     DEF Program, Dup, Drop, DropReuse, Gset, Exit, heap
<1>9. CASE Fill \/ Shutdown \/ UNCHANGED vars
  BY <1>3, <1>9
     DEF Fill, FillMove, FillDup, FillSelf, FillDone, Shutdown, ShutdownDrop,
         ShutdownCheck, vars, heap
<1>10. CASE ReleaseWord \/ ReleaseDoneKeep \/ DrainPop \/ DrainDone
  BY <1>3, <1>10 DEF ReleaseWord, ReleaseDoneKeep, DrainPop, DrainDone, heap
<1> QED BY <1>7, <1>8, <1>9, <1>10, <1>2 DEF Next, Release, Terminated

(* The live blocks, which n_live counts.                                   *)
LiveSet == {b \in Block : Live(b)}

LEMMA LiveSetFinite == IsFiniteSet(LiveSet) /\ Cardinality(LiveSet) \in Nat
BY BlockAssumption, FS_Subset, FS_CardinalityType DEF LiveSet

(* n_live follows the allocations and the releases.                        *)
LEMMA CountStep ==
  ASSUME IInv, IInv', [Next]_vars, \A b \in Static : rc[b] = RcImmortal,
         nlive = Cardinality(LiveSet)
  PROVE  nlive' = Cardinality(LiveSet')
<1> USE LiveSetFinite
<1>a. /\ \A t \in toks : t \in LiveSet
      /\ blk \in Block => blk \in LiveSet
  BY SizeAssumption DEF IInv, DyingUnowned, Headers, LiveSet, Live, TypeOK
<1>b. \A s \in Shape : s[1] # "Freed"
  BY ShapeAssumption DEF HeapTag
<1>1. CASE UNCHANGED <<tag, nlive>>
  BY <1>1 DEF LiveSet, Live
<1>2. ASSUME NEW x \in Block, NEW s \in Shape, Alloc(x, s)
      PROVE  nlive' = Cardinality(LiveSet')
  <2>1. LiveSet' = LiveSet \cup {x} /\ x \notin LiveSet /\ nlive' = nlive + 1
    BY <1>b, <1>2 DEF Alloc, LiveSet, Live, IInv, TypeOK
  <2> QED BY <2>1, FS_AddElement
<1>3. ASSUME NEW t \in toks, NEW s \in Shape, Reuse(t, s)
      PROVE  nlive' = Cardinality(LiveSet')
  <2>1. LiveSet' = LiveSet /\ nlive' = nlive
    BY <1>a, <1>b, <1>3 DEF Reuse, LiveSet, Live, IInv, TypeOK
  <2> QED BY <2>1
<1>4. ASSUME NEW t \in toks, NEW x \in Block, NEW s \in Shape, ReuseMiss(t, x, s)
      PROVE  nlive' = Cardinality(LiveSet')
  <2>1. /\ t \in LiveSet /\ nlive' = nlive
        /\ LiveSet' = (LiveSet \ {t}) \cup {x} /\ x \notin LiveSet \ {t}
    BY <1>a, <1>b, <1>4 DEF ReuseMiss, LiveSet, Live, IInv, TypeOK
  <2>2. /\ IsFiniteSet(LiveSet \ {t})
        /\ Cardinality(LiveSet \ {t}) = Cardinality(LiveSet) - 1
    BY <2>1, FS_RemoveElement
  <2>3. Cardinality(LiveSet') = Cardinality(LiveSet \ {t}) + 1
    BY <2>1, <2>2, FS_AddElement
  <2> QED BY <2>1, <2>2, <2>3
<1>5. CASE ReleaseDoneFree
  <2>1. blk \in LiveSet /\ LiveSet' = LiveSet \ {blk} /\ nlive' = nlive - 1
    BY <1>a, <1>5 DEF ReleaseDoneFree, LiveSet, Live, IInv, TypeOK, Control
  <2> QED BY <2>1, FS_RemoveElement
<1>6. CASE Program
  BY <1>1, <1>2, <1>3, <1>4, <1>6
     DEF Program, Dup, Drop, DropReuse, Gset, Exit, heap
<1>7. CASE Fill \/ Shutdown \/ UNCHANGED vars
  BY <1>1, <1>7
     DEF Fill, FillMove, FillDup, FillSelf, FillDone, Shutdown, ShutdownDrop,
         ShutdownCheck, vars, heap
<1>8. CASE ReleaseWord \/ ReleaseDoneKeep \/ DrainPop \/ DrainDone
  BY <1>1, <1>8 DEF ReleaseWord, ReleaseDoneKeep, DrainPop, DrainDone, heap
<1> QED BY <1>5, <1>6, <1>7, <1>8 DEF Next, Release, Terminated

(* What dc_rt_shutdown relies on is kept: the program is over, so only the *)
(* loop of dc_rt_shutdown and the releases it starts run.                  *)
LEMMA ClosingStep ==
  ASSUME IInv, IInv', [Next]_vars, Closing
  PROVE  Closing'
<1>1. CASE Program
  <2>1. gi' = gi /\ pc = "run"
    BY <1>1 DEF Program, Dup, Drop, DropReuse, Gset, Alloc, Reuse, ReuseMiss,
                StartFill, Exit
  <2>2. CASE Exit
    BY <2>1, <2>2 DEF Exit, Closing, Open, Ended, IInv, Control, Running
  <2>3. CASE ~Exit
    <3>1. Open'
      BY <1>1, <2>3
         DEF Program, Dup, Drop, DropReuse, Gset, Alloc, Reuse, ReuseMiss,
             StartFill, DcDrop, CheckedLast, Checked, Open, IInv, NoAbort, Aborted
    <3> QED BY <2>1, <3>1 DEF Closing, Open, Ended
  <2> QED BY <2>2, <2>3
<1>2. CASE Fill
  <2>1. Open' /\ Open /\ gi' = gi
    BY <1>2 DEF Fill, FillMove, FillDup, FillSelf, FillDone, Checked, Open,
                IInv, NoAbort, Aborted
  <2> QED BY <2>1 DEF Closing, Open, Ended
<1>3. CASE Release
  <2>1. /\ UNCHANGED <<reg, glob, gi, ret>> /\ pc \in {"release", "drain"}
        /\ pc' \in {"release", "drain", ret} /\ ret \in Running
    BY <1>3 DEF Release, ReleaseWord, ReleaseDoneFree, ReleaseDoneKeep,
                DrainPop, DrainDone, CheckedLast, Checked, IInv, NoAbort,
                Aborted, TypeOK
  <2>2. CASE ret = "run"
    BY <2>1, <2>2 DEF Closing, Open, Ended
  <2>3. CASE ret = "shutdown"
    <3>1. ~Open /\ ~Open' /\ pc' \notin Ended
      BY <2>1, <2>3 DEF Open, Ended
    <3>2. toks' = {} /\ keep' = Imm /\ (pc' = "release" => fin' = "free")
      BY <1>3, <2>1, <3>1
         DEF Closing, Release, ReleaseWord, ReleaseDoneFree, ReleaseDoneKeep,
             DrainPop, DrainDone
    <3> QED BY <2>1, <3>1, <3>2 DEF Closing
  <2> QED BY <2>1, <2>2, <2>3 DEF Running
<1>4. CASE ShutdownDrop
  <2>1. /\ UNCHANGED <<reg, toks, keep>> /\ gi' = gi + 1 /\ ~Open /\ gi \in 1 .. NGlob
        /\ glob' = [glob EXCEPT ![gi] = Imm]
    BY <1>4, SizeAssumption DEF ShutdownDrop, Open, IInv, TypeOK
  <2>2. /\ ~Open' /\ pc' \notin Ended /\ (pc' = "release" => fin' = "free")
    BY <1>4 DEF ShutdownDrop, DcDrop, CheckedLast, Open, Ended, IInv, NoAbort,
                Aborted
  <2>3. \A i \in 1 .. NGlob : i < gi' => glob'[i] = Imm
    BY <2>1 DEF Closing, IInv, TypeOK
  <2> QED BY <2>1, <2>2, <2>3 DEF Closing
<1>5. CASE ShutdownCheck
  BY <1>5 DEF ShutdownCheck, Closing, Open, Ended
<1>6. CASE UNCHANGED vars
  BY <1>6 DEF vars, Closing, Open
<1> QED BY <1>1, <1>2, <1>3, <1>4, <1>5, <1>6 DEF Next, Shutdown, Terminated


-----------------------------------------------------------------------------
(* Reachability.                                                           *)

(* The blocks owned by the words of the blocks of X.                       *)
Owns(X) == {word[c] : c \in {d \in Block \X Idx : d[1] \in X /\ Owned[d] # Imm}}

LEMMA OwnsBlocks == ASSUME TypeOK, NEW X PROVE Owns(X) \subseteq Block
<1> SUFFICES ASSUME NEW c \in Block \X Idx, Owned[c] # Imm
             PROVE  word[c] \in Block
  BY DEF Owns
<1>1. Owned[c] = word[c]
  BY DEF Owned
<1> QED BY <1>1 DEF TypeOK, Ref

(* The recursive equation of Reach.                                        *)
Grown(X) == X \cup Owns(X)
StepsOf(A, k, g) == g = [n \in 0 .. k |-> IF n = 0 THEN A ELSE Grown(g[n - 1])]

LEMMA StepsEquation ==
  ASSUME NEW A, NEW k \in Nat, NEW g, StepsOf(A, k, g)
  PROVE  g[0] = A /\ \A n \in 1 .. k : g[n] = Grown(g[n - 1])
BY DEF StepsOf

(* The recursive equation has a solution.                                  *)
LEMMA ReachSteps ==
  ASSUME NEW A, NEW k \in Nat
  PROVE  \E g : StepsOf(A, k, g)
<1> DEFINE T == {j \in Nat : \E g : StepsOf(A, j, g)}
<1>1. 0 \in T
  <2> DEFINE g == [n \in 0 .. 0 |-> A]
  <2>1. g = [n \in 0 .. 0 |-> IF n = 0 THEN A ELSE Grown(g[n - 1])]
    OBVIOUS
  <2> HIDE DEF g
  <2>2. StepsOf(A, 0, g)
    BY <2>1 DEF StepsOf
  <2> QED BY <2>2
<1>2. ASSUME NEW j \in T PROVE j + 1 \in T
  <2>1. PICK g : StepsOf(A, j, g)
    OBVIOUS
  <2>j. j \in Nat
    OBVIOUS
  <2>g. g[0] = A /\ \A n \in 1 .. j : g[n] = Grown(g[n - 1])
    <3> HIDE DEF T
    <3> QED BY <2>1, <2>j, StepsEquation
  <2> DEFINE h == [n \in 0 .. j + 1 |-> IF n <= j THEN g[n]
                                        ELSE Grown(g[j])]
             e == [n \in 0 .. j + 1 |-> IF n = 0 THEN A
                                        ELSE Grown(h[n - 1])]
  <2>2. ASSUME NEW n \in 0 .. j + 1 PROVE h[n] = e[n]
    <3>1. CASE n = 0
      <4> QED BY <2>g, <2>j, <3>1
    <3>2. CASE n # 0 /\ n <= j
      <4>1. g[n] = Grown(g[n - 1])
        BY <2>g, <2>j, <3>2
      <4>2. h[n] = g[n] /\ h[n - 1] = g[n - 1]
        BY <2>j, <3>2
      <4>3. e[n] = Grown(h[n - 1])
        <5> HIDE DEF h
        <5> QED BY <3>2
      <4> HIDE DEF h, e
      <4> QED BY <4>1, <4>2, <4>3
    <3>3. CASE n = j + 1
      <4>1. h[n] = Grown(g[j]) /\ h[n - 1] = g[j]
        BY <3>3
      <4>2. e[n] = Grown(h[n - 1])
        <5> HIDE DEF h
        <5> QED BY <3>3
      <4> HIDE DEF h, e
      <4> QED BY <4>1, <4>2
    <3> QED BY <3>1, <3>2, <3>3
  <2>3. h = e
    BY <2>2
  <2> HIDE DEF h
  <2>4. StepsOf(A, j + 1, h)
    BY <2>3 DEF StepsOf
  <2> QED BY <2>4
<1> HIDE DEF T
<1>3. T = Nat
  <2>1. T \in SUBSET Nat
    BY DEF T
  <2> QED BY <1>1, <1>2, <2>1, SetInduction
<1> QED BY <1>3 DEF T

(* Reach(A) holds A and every block owned by a word of one of its blocks:  *)
(* after as many steps as there are blocks nothing more is added.          *)
LEMMA ReachClosed ==
  ASSUME TypeOK, NEW A \in SUBSET Block
  PROVE  A \subseteq Reach(A) /\ Owns(Reach(A)) \subseteq Reach(A)
<1> DEFINE K == Cardinality(Block)
           s == CHOOSE g : StepsOf(A, K, g)
<1>1. K \in Nat
  BY BlockAssumption, FS_CardinalityType
<1>2. StepsOf(A, K, s)
  <2>1. \E g : StepsOf(A, K, g)
    BY <1>1, ReachSteps
  <2> QED BY <2>1
<1>3. Reach(A) = s[K]
  BY DEF Reach, Owns, Grown, StepsOf
<1> HIDE DEF K, s
<1>4. s[0] = A /\ \A n \in 1 .. K : s[n] = Grown(s[n - 1])
  BY <1>1, <1>2, StepsEquation
<1> DEFINE Good(n) == /\ A \subseteq s[n] /\ s[n] \subseteq Block
                      /\ \/ Owns(s[n]) \subseteq s[n]
                         \/ Cardinality(s[n]) >= n
           T == {n \in Nat : n <= K => Good(n)}
<1>5. 0 \in T
  BY <1>4, BlockAssumption, FS_Subset, FS_CardinalityType
<1>6. ASSUME NEW n \in T PROVE n + 1 \in T
  <2> SUFFICES ASSUME n + 1 <= K PROVE Good(n + 1)
    OBVIOUS
  <2>1. n \in Nat /\ n <= K /\ Good(n)
    BY <1>1
  <2>2. s[n + 1] = Grown(s[n])
    <3>1. n + 1 \in 1 .. K /\ (n + 1) - 1 = n
      BY <1>1, <2>1
    <3> QED BY <1>4, <3>1
  <2>3. A \subseteq s[n + 1] /\ s[n + 1] \subseteq Block
    BY <2>1, <2>2, OwnsBlocks DEF Grown
  <2>4. CASE Owns(s[n]) \subseteq s[n]
    <3>1. s[n + 1] = s[n]
      BY <2>2, <2>4 DEF Grown
    <3> QED BY <2>3, <2>4, <3>1
  <2>5. CASE ~(Owns(s[n]) \subseteq s[n])
    <3>1. /\ IsFiniteSet(s[n]) /\ IsFiniteSet(s[n + 1])
          /\ Cardinality(s[n]) \in Nat /\ Cardinality(s[n + 1]) \in Nat
      BY <2>1, <2>3, BlockAssumption, FS_Subset, FS_CardinalityType
    <3>2. s[n] \subseteq s[n + 1] /\ s[n] # s[n + 1]
      BY <2>2, <2>5 DEF Grown
    <3>3. Cardinality(s[n]) < Cardinality(s[n + 1])
      BY <3>1, <3>2, FS_Subset
    <3>4. Cardinality(s[n]) >= n
      BY <2>1, <2>5
    <3> QED BY <2>1, <2>3, <3>1, <3>3, <3>4
  <2> QED BY <2>4, <2>5
<1>7. T = Nat
  <2> HIDE DEF T
  <2>1. T \in SUBSET Nat
    BY DEF T
  <2> QED BY <1>5, <1>6, <2>1, SetInduction
<1>8. Good(K)
  BY <1>1, <1>7
<1>9. CASE Cardinality(s[K]) >= K
  <2>1. s[K] = Block
    BY <1>1, <1>8, <1>9, BlockAssumption, FS_Subset, FS_CardinalityType DEF K
  <2> QED BY <1>3, <1>8, <2>1, OwnsBlocks
<1> QED BY <1>3, <1>8, <1>9


-----------------------------------------------------------------------------
(* The theorems.                                                           *)

LEMMA GInvInit == Init => GInv
<1> SUFFICES ASSUME Init PROVE GInv
  OBVIOUS
<1>1. IInv
  BY InvInit
<1>2. Acyclic
  <2>1. \A c \in Block \X Idx : Owned[c] = Imm
    BY DEF Owned, Init
  <2>2. ASSUME NEW S \in (SUBSET Block) \ {{}}
        PROVE  \E b \in S : \A c \in Block \X Idx : c[1] \in S => Owned[c] # b
    <3>1. PICK b \in S : b # Imm
      BY BlockAssumption
    <3> QED BY <2>1, <3>1
  <2> QED BY <2>2 DEF Acyclic
<1>3. Closing
  BY DEF Init, Closing, Open, Ended
<1>4. \A b \in Static : tag[b] = "Unit" /\ rc[b] = RcImmortal
  BY BlockAssumption DEF Init
<1>5. nlive = Cardinality({b \in Block : Live(b)})
  <2>1. {b \in Block : Live(b)} = {}
    BY DEF Init, Live
  <2> QED BY <2>1, FS_EmptySet DEF Init
<1> QED BY <1>1, <1>2, <1>3, <1>4, <1>5 DEF GInv

LEMMA GInvStep == GInv /\ [Next]_vars => GInv'
<1> SUFFICES ASSUME GInv, [Next]_vars PROVE GInv'
  OBVIOUS
<1>1. IInv'
  BY InvStep DEF GInv
<1>2. Acyclic'
  BY <1>1, AcyclicStep DEF GInv
<1>3. Closing'
  BY <1>1, ClosingStep DEF GInv
<1>4. (\A b \in Static : tag[b] = "Unit" /\ rc[b] = RcImmortal)'
  BY <1>1, StaticStep DEF GInv
<1>5. (nlive = Cardinality({b \in Block : Live(b)}))'
  BY <1>1, CountStep DEF GInv, LiveSet
<1> QED BY <1>1, <1>2, <1>3, <1>4, <1>5 DEF GInv

(* No block is reclaimed late: see GInv, the inductive invariant.          *)
THEOREM GarbageInvariant == Spec => []GInv
BY GInvInit, GInvStep, PTL DEF Spec

(* Between two calls of the runtime, a live block that no word of a live   *)
(* block owns is a token, is saturated, or is held by a register or a      *)
(* global: its count is the number of its owners and is not 0.             *)
LEMMA Unowned ==
  ASSUME GInv, pc \in Running \cup Ended, NEW b \in Block, Live(b), b \notin toks,
         rc[b] # RcImmortal,
         \A c \in Block \X Idx : Live(c[1]) /\ c[1] \notin toks => Owned[c] # b
  PROVE  b \in RootRefs
<1> USE DEF GInv, IInv
<1>1. b # blk /\ b # keep /\ ~Queued(b)
  BY BlockAssumption DEF Control, Queued
<1>2. \A c \in Block \X Idx : Owned[c] # b
  <2> SUFFICES ASSUME NEW x \in Block, NEW i \in Idx, Owned[<<x, i>>] = b
               PROVE  FALSE
    OBVIOUS
  <2>1. i \in Children(x) /\ x \notin toks
    BY BlockAssumption DEF Owned, OwningWord
  <2>2. tag[x] # "Freed"
    BY <2>1, FreedChildless
  <2>3. x \notin Static
    <3> SUFFICES ASSUME x \in Static PROVE FALSE
      OBVIOUS
    <3>1. FirstChild[tag[x]] = MaxSize /\ size[x] <= MaxSize /\ size[x] \in Int
      BY DEF FirstChild, Tag, TypeOK
    <3> QED BY <2>1, <3>1, SizeAssumption DEF Children
  <2> QED BY <2>1, <2>2, <2>3 DEF Live
<1>3. Occurs(Owned, Block \X Idx, b) = 0
  BY <1>2, OccursZero
<1> DEFINE R == Occurs(reg, Reg, b)
           G == Occurs(glob, 1 .. NGlob, b)
<1>4. rc[b] = R + G + 0 + 0 + 0 + 0 + 0 /\ rc[b] # 0
  BY <1>1, <1>3 DEF RcExact, Owners, Headers, Live
<1>5. R # 0 \/ G # 0
  <2> HIDE DEF R, G
  <2> QED BY <1>4
<1>6. (\E r \in Reg : reg[r] = b) \/ (\E i \in 1 .. NGlob : glob[i] = b)
  <2>1. CASE R # 0
    BY <2>1, OccursZero
  <2>2. CASE G # 0
    <3> DEFINE S == 1 .. NGlob
    <3>1. Occurs(glob, S, b) # 0
      BY <2>2
    <3> HIDE DEF S
    <3>2. \E i \in S : glob[i] = b
      BY <3>1, OccursZero
    <3> QED BY <3>2 DEF S
  <2> QED BY <1>5, <2>1, <2>2
<1> QED BY <1>6 DEF RootRefs

LEMMA NothingLost == GInv => NoGarbage
<1> SUFFICES ASSUME GInv PROVE NoGarbage
  OBVIOUS
<1> DEFINE A == (RootRefs \ {Imm}) \cup {x \in Block : rc[x] = RcImmortal}
           Lost == {b \in Block : Live(b) /\ b \notin toks \cup Reach(A)}
<1>1. A \in SUBSET Block
  BY DEF RootRefs, GInv, IInv, TypeOK, Ref
<1> HIDE DEF A
<1>2. A \subseteq Reach(A) /\ Owns(Reach(A)) \subseteq Reach(A)
  BY <1>1, ReachClosed DEF GInv, IInv
<1>3. ASSUME pc \in Running PROVE Lost = {}
  <2> SUFFICES ASSUME Lost # {} PROVE FALSE
    OBVIOUS
  <2>1. PICK b \in Lost : \A c \in Block \X Idx : c[1] \in Lost => Owned[c] # b
    <3>1. Lost \in (SUBSET Block) \ {{}}
      OBVIOUS
    <3> HIDE DEF Lost
    <3> QED BY <3>1 DEF GInv, Acyclic
  <2>2. b \in Block /\ Live(b) /\ b \notin toks /\ b \notin Reach(A)
    OBVIOUS
  <2>3. rc[b] # RcImmortal /\ b \notin RootRefs
    BY <1>2, <2>2, BlockAssumption DEF A
  <2>4. ASSUME NEW c \in Block \X Idx, Live(c[1]), c[1] \notin toks
        PROVE  Owned[c] # b
    <3> SUFFICES ASSUME Owned[c] = b PROVE FALSE
      OBVIOUS
    <3>1. c[1] \in Reach(A)
      BY <2>1, <2>4
    <3>2. Owned[c] # Imm /\ word[c] = b
      BY <2>2, BlockAssumption DEF Owned
    <3>3. b \in Owns(Reach(A))
      BY <3>1, <3>2 DEF Owns
    <3> QED BY <1>2, <2>2, <3>3
  <2> QED BY <1>3, <2>2, <2>3, <2>4, Unowned
<1>4. pc \in Running => \A b \in Block : Live(b) => b \in toks \cup Reach(A)
  BY <1>3
<1> QED BY <1>4 DEF NoGarbage, GInv, A

LEMMA VerdictExact == GInv => ShutdownExact
<1> SUFFICES ASSUME GInv PROVE ShutdownExact
  OBVIOUS
<1>1. IsFiniteSet(LiveSet) /\ nlive = Cardinality(LiveSet)
  BY LiveSetFinite DEF GInv, LiveSet
<1>2. ASSUME pc = "ok" PROVE \A b \in Block : ~Live(b)
  <2>1. LiveSet = {}
    BY <1>1, <1>2, FS_EmptySet DEF GInv, Closing, Ended
  <2> QED BY <2>1 DEF LiveSet
<1>3. ASSUME pc = "leak" PROVE \E b \in Block : Live(b) /\ rc[b] = RcImmortal
  <2> SUFFICES ASSUME \A b \in Block : Live(b) => rc[b] # RcImmortal PROVE FALSE
    OBVIOUS
  <2>1. LiveSet # {}
    BY <1>1, <1>3, FS_EmptySet DEF GInv, Closing, Ended
  <2>2. PICK b \in LiveSet : \A c \in Block \X Idx : c[1] \in LiveSet => Owned[c] # b
    <3>1. LiveSet \in (SUBSET Block) \ {{}}
      BY <2>1 DEF LiveSet
    <3> QED BY <3>1 DEF GInv, Acyclic
  <2>3. b \in Block /\ Live(b) /\ rc[b] # RcImmortal
    BY DEF LiveSet
  <2>4. /\ toks = {} /\ \A r \in Reg : reg[r] = Imm
        /\ \A i \in 1 .. NGlob : glob[i] = Imm
    <3>1. ~Open /\ gi > NGlob /\ gi \in Int
      BY <1>3 DEF GInv, Closing, Open, Ended, IInv, TypeOK
    <3>2. \A i \in 1 .. NGlob : i < gi
      BY <3>1, SizeAssumption
    <3> QED BY <3>1, <3>2 DEF GInv, Closing
  <2>5. b \notin RootRefs
    BY <2>3, <2>4, BlockAssumption DEF RootRefs
  <2>6. b \in RootRefs
    BY <1>3, <2>2, <2>3, <2>4, Unowned DEF LiveSet, Ended
  <2> QED BY <2>5, <2>6
<1> QED BY <1>2, <1>3 DEF ShutdownExact

(* Whenever the program runs, every live block is a reuse token or is      *)
(* reachable from a register, a global or a saturated block, and n_live is *)
(* the number of live blocks.                                              *)
THEOREM Precise == Spec => []NoGarbage
BY NothingLost, GarbageInvariant, PTL

(* dc_rt_shutdown reports a leak exactly when one is left: after "ok" no   *)
(* block is live, after "leak" some live block has a saturated count.      *)
THEOREM LeakCheckExact == Spec => []ShutdownExact
BY VerdictExact, GarbageInvariant, PTL
=============================================================================
