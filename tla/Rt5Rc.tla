------------------------------- MODULE Rt5Rc -------------------------------
(***************************************************************************)
(* The reference counting runtime of gen5/rt5.c: dc_dup, dc_drop,          *)
(* dc_drop_reuse, dc_reuse_or_alloc, the release worklist, the global      *)
(* table and the shutdown leak check, driven by the most general program   *)
(* that keeps the ownership contract stated at the head of rt5.c: it only  *)
(* drops references it owns, only dups references it can borrow, fills     *)
(* every word of a block it allocates, and gives each reuse token back to  *)
(* an allocation.                                                          *)
(*                                                                         *)
(* The loops over child words run one word per step, so that the states    *)
(* between two header writes are states of the model.  Which free block an *)
(* allocation returns is left open here; Rt5Alloc models the choice.       *)
(***************************************************************************)
EXTENDS Integers, Sequences, FiniteSets

CONSTANTS Block,       \* block addresses, static data included
          Static,      \* the blocks of the data segment (HDR_STATIC)
          Reg,         \* references the program can own at once (bound)
          NGlob,       \* entries of dc_global_table in use
          MaxTok,      \* reuse tokens the program holds at once (bound)
          MaxSize,     \* largest block in words, header included (bound)
          Shape,       \* the <<tag, size>> pairs the program allocates
          RcImmortal,  \* RC_IMMORTAL, scaled down so that it is reached
          Imm          \* an immediate, or no value at all (0)

HeapTag == {"String", "Tuple", "ADT", "Closure"}
Tag == HeapTag \cup {"Unit", "Freed"}

(* The index of the first child word of a block, by tag; blocks without    *)
(* children start past their end.                                          *)
FirstChild == [t \in Tag |-> CASE t = "Tuple"   -> 1
                               [] t = "ADT"     -> 2
                               [] t = "Closure" -> 3
                               [] OTHER         -> MaxSize]

ASSUME BlockAssumption == /\ IsFiniteSet(Block) /\ Static \subseteq Block
                          /\ Imm \notin Block /\ IsFiniteSet(Reg)
ASSUME SizeAssumption == /\ NGlob \in Nat /\ MaxTok \in Nat
                         /\ MaxSize \in Nat \ {0, 1}
                         /\ RcImmortal \in Nat \ {0, 1}
ASSUME ShapeAssumption ==
         \A s \in Shape : /\ s \in HeapTag \X (2 .. MaxSize)
                          /\ s[1] # "String" => FirstChild[s[1]] <= s[2]

VARIABLES tag, size, rc,  \* the header of each block
          word,           \* the payload words that may hold references
          reg,            \* references owned by the running program
          toks,           \* blocks the program holds as reuse tokens
          glob,           \* dc_global_table
          wl,             \* the worklist, top of the stack last
          pc,             \* what runs: the program, or a step of the runtime
          ret,            \* where the running dc_drop returns to
          blk, idx,       \* the block being released or filled, next word
          fin,            \* what release_children's caller does with blk
          keep,           \* the block dc_drop_reuse will return
          gi,             \* loop index of dc_rt_shutdown
          nlive           \* n_live

heap == <<tag, size, word>>
vars == <<tag, size, rc, word, reg, toks, glob, wl, pc, ret, blk, idx, fin,
          keep, gi, nlive>>

Ref == Block \cup {Imm}
Idx == 1 .. MaxSize
Running == {"run", "shutdown"}
Aborted == {"use_after_free", "underflow"}
Ended == {"ok", "leak"}

TypeOK ==
  /\ tag \in [Block -> Tag]
  /\ size \in [Block -> 1 .. MaxSize]
  /\ rc \in [Block -> 0 .. RcImmortal]
  /\ word \in [Block \X Idx -> Ref]
  /\ reg \in [Reg -> Ref]
  /\ toks \in SUBSET Block
  /\ glob \in [1 .. NGlob -> Ref]
  /\ wl \in Seq(Block)
  /\ pc \in Running \cup {"fill", "release", "drain"} \cup Aborted \cup Ended
  /\ ret \in Running
  /\ blk \in Ref
  /\ idx \in 0 .. MaxSize + 1
  /\ fin \in {"free", "keep"}
  /\ keep \in Ref
  /\ gi \in 1 .. NGlob + 1
  /\ nlive \in Int

Init ==
  /\ tag = [b \in Block |-> IF b \in Static THEN "Unit" ELSE "Freed"]
  /\ size = [b \in Block |-> 1]
  /\ rc = [b \in Block |-> IF b \in Static THEN RcImmortal ELSE 0]
  /\ word = [c \in Block \X Idx |-> Imm]
  /\ reg = [r \in Reg |-> Imm]
  /\ toks = {}
  /\ glob = [i \in 1 .. NGlob |-> Imm]
  /\ wl = <<>>
  /\ pc = "run" /\ ret = "run"
  /\ blk = Imm /\ idx = 0 /\ fin = "free" /\ keep = Imm
  /\ gi = 1 /\ nlive = 0

-----------------------------------------------------------------------------
(* The counting primitives.                                                *)

Immortal(v) == v = Imm \/ rc[v] = RcImmortal

(* The control point after the runtime looked at the header of v: a freed  *)
(* block or a zero count ends the process.                                 *)
Checked(v, next) == IF v = Imm THEN next
                    ELSE IF tag[v] = "Freed" THEN "use_after_free"
                    ELSE next
CheckedLast(v) == IF tag[v] = "Freed" THEN "use_after_free"
                  ELSE IF rc[v] = 0 THEN "underflow" ELSE "release"

(* Mutant: the count is not compared with RC_IMMORTAL first.               *)
DuppedNoSaturation(v) == IF v = Imm THEN rc ELSE [rc EXCEPT ![v] = @ + 1]

(* dc_dup; the count RcImmortal - 1 saturates to RcImmortal by the same    *)
(* addition.                                                               *)
Dupped(v) == IF Immortal(v) THEN rc ELSE [rc EXCEPT ![v] = @ + 1]

(* Mutant: a saturated count is counted down.                              *)
DcDropSaturated(v, next) ==
  IF v = Imm
  THEN pc' = next /\ UNCHANGED <<rc, ret, blk, idx, fin>>
  ELSE IF rc[v] > 1
  THEN /\ rc' = [rc EXCEPT ![v] = @ - 1]
       /\ pc' = next
       /\ UNCHANGED <<ret, blk, idx, fin>>
  ELSE /\ pc' = CheckedLast(v)
       /\ ret' = next /\ blk' = v /\ idx' = FirstChild[tag[v]]
       /\ fin' = "free"
       /\ UNCHANGED rc

(* dc_drop, up to the release of the block if this was its last reference. *)
DcDrop(v, next) ==
  IF Immortal(v)
  THEN pc' = next /\ UNCHANGED <<rc, ret, blk, idx, fin>>
  ELSE IF rc[v] > 1
  THEN /\ rc' = [rc EXCEPT ![v] = @ - 1]
       /\ pc' = next
       /\ UNCHANGED <<ret, blk, idx, fin>>
  ELSE /\ pc' = CheckedLast(v)
       /\ ret' = next /\ blk' = v /\ idx' = FirstChild[tag[v]]
       /\ fin' = "free"
       /\ UNCHANGED rc

-----------------------------------------------------------------------------
(* What the running program may do.                                        *)

(* References the program can borrow: those it owns, the global table, and *)
(* the fields of a block reached through one of them.                      *)
RootRefs == {reg[r] : r \in Reg} \cup {glob[i] : i \in 1 .. NGlob}
Children(b) == FirstChild[tag[b]] .. size[b] - 1
Borrowable == RootRefs \cup
              UNION {{word[<<b, i>>] : i \in Children(b)} : b \in RootRefs \ {Imm}}

Dup(r, v) ==
  /\ pc = "run" /\ reg[r] = Imm /\ v \in Borrowable \ {Imm}
  /\ pc' = Checked(v, "run")
  /\ rc' = Dupped(v)
  /\ reg' = [reg EXCEPT ![r] = v]
  /\ UNCHANGED <<heap, toks, glob, wl, ret, blk, idx, fin, keep, gi, nlive>>

Drop(r) ==
  /\ pc = "run" /\ reg[r] # Imm
  /\ reg' = [reg EXCEPT ![r] = Imm]
  /\ DcDrop(reg[r], "run")
  /\ UNCHANGED <<heap, toks, glob, wl, keep, gi, nlive>>

(* Mutant: a block with two references is handed back for reuse.           *)
DropReuseShared(r) ==
  /\ pc = "run" /\ reg[r] # Imm /\ Cardinality(toks) < MaxTok
  /\ reg' = [reg EXCEPT ![r] = Imm]
  /\ IF rc[reg[r]] > 2
     THEN DcDrop(reg[r], "run")
     ELSE /\ pc' = CheckedLast(reg[r])
          /\ ret' = "run" /\ blk' = reg[r]
          /\ idx' = FirstChild[tag[reg[r]]] /\ fin' = "keep"
          /\ UNCHANGED rc
  /\ UNCHANGED <<heap, toks, glob, wl, keep, gi, nlive>>

(* dc_drop_reuse: only a block with a count of exactly one is handed back; *)
(* in every other case the reference is dropped and the token is 0.        *)
DropReuse(r) ==
  /\ pc = "run" /\ reg[r] # Imm /\ Cardinality(toks) < MaxTok
  /\ reg' = [reg EXCEPT ![r] = Imm]
  /\ IF rc[reg[r]] # 1
     THEN DcDrop(reg[r], "run")
     ELSE /\ pc' = CheckedLast(reg[r])
          /\ ret' = "run" /\ blk' = reg[r]
          /\ idx' = FirstChild[tag[reg[r]]] /\ fin' = "keep"
          /\ UNCHANGED rc
  /\ UNCHANGED <<heap, toks, glob, wl, keep, gi, nlive>>

(* Mutant: the value that is overwritten is not dropped.                   *)
GsetNoDrop(i, r) ==
  /\ pc = "run"
  /\ glob' = [glob EXCEPT ![i] = reg[r]]
  /\ reg' = [reg EXCEPT ![r] = Imm]
  /\ UNCHANGED <<heap, rc, toks, wl, pc, ret, blk, idx, fin, keep, gi, nlive>>

(* dc_gset: the new value is stored before the old one is dropped.         *)
Gset(i, r) ==
  /\ pc = "run"
  /\ glob' = [glob EXCEPT ![i] = reg[r]]
  /\ reg' = [reg EXCEPT ![r] = Imm]
  /\ DcDrop(glob[i], "run")
  /\ UNCHANGED <<heap, toks, wl, keep, gi, nlive>>

-----------------------------------------------------------------------------
(* Allocation, and the stores that complete a block.                       *)

HasFreeReg == \E r \in Reg : reg[r] = Imm

(* The program writes the header of b and starts on its child words.       *)
StartFill(b, s) ==
  /\ pc' = "fill" /\ blk' = b /\ idx' = FirstChild[s[1]]
  /\ UNCHANGED <<reg, glob, wl, ret, fin, keep, gi>>

(* dc_alloc_rc followed by the header store.                               *)
Alloc(b, s) ==
  /\ pc = "run" /\ HasFreeReg
  /\ b \notin Static /\ tag[b] = "Freed"
  /\ tag' = [tag EXCEPT ![b] = s[1]]
  /\ size' = [size EXCEPT ![b] = s[2]]
  /\ rc' = [rc EXCEPT ![b] = 1]
  /\ nlive' = nlive + 1
  /\ StartFill(b, s)
  /\ UNCHANGED <<word, toks>>

(* dc_reuse_or_alloc with a token of the right size: the block itself, its *)
(* stale words still in place, becomes the new block.                      *)
Reuse(t, s) ==
  /\ pc = "run" /\ HasFreeReg
  /\ t \in toks /\ size[t] = s[2]
  /\ tag' = [tag EXCEPT ![t] = s[1]]
  /\ rc' = [rc EXCEPT ![t] = 1]
  /\ toks' = toks \ {t}
  /\ StartFill(t, s)
  /\ UNCHANGED <<size, word, nlive>>

(* dc_reuse_or_alloc with a token of another size: free_block, whose       *)
(* children are gone already, then dc_alloc_rc, which may return it.       *)
ReuseMiss(t, b, s) ==
  /\ pc = "run" /\ HasFreeReg
  /\ t \in toks /\ size[t] # s[2]
  /\ b \notin Static /\ (tag[b] = "Freed" \/ b = t)
  /\ tag' = [tag EXCEPT ![t] = "Freed", ![b] = s[1]]
  /\ size' = [size EXCEPT ![t] = 1, ![b] = s[2]]
  /\ rc' = [rc EXCEPT ![t] = 0, ![b] = 1]
  /\ word' = [c \in Block \X Idx |-> IF c[1] = t THEN Imm ELSE word[c]]
  /\ toks' = toks \ {t}
  /\ StartFill(b, s)
  /\ UNCHANGED nlive

(* The next word of the block takes over a reference the program owns, or  *)
(* an immediate.                                                           *)
FillMove(r) ==
  /\ pc = "fill" /\ idx < size[blk]
  /\ word' = [word EXCEPT ![<<blk, idx>>] = reg[r]]
  /\ reg' = [reg EXCEPT ![r] = Imm]
  /\ idx' = idx + 1
  /\ UNCHANGED <<tag, size, rc, toks, glob, wl, pc, ret, blk, fin, keep, gi,
                 nlive>>

(* Mutant: the copied argument is not dup'd.                               *)
FillDupUncounted(v) ==
  /\ pc = "fill" /\ idx < size[blk] /\ v \in Borrowable \ {Imm}
  /\ pc' = Checked(v, "fill")
  /\ word' = [word EXCEPT ![<<blk, idx>>] = v]
  /\ idx' = idx + 1
  /\ UNCHANGED <<tag, size, rc, reg, toks, glob, wl, ret, blk, fin, keep, gi,
                 nlive>>

(* dc_ctor_step and dc_builtin_step copy the arguments collected so far    *)
(* out of a closure that keeps its own references.                         *)
FillDup(v) ==
  /\ pc = "fill" /\ idx < size[blk] /\ v \in Borrowable \ {Imm}
  /\ pc' = Checked(v, "fill")
  /\ rc' = Dupped(v)
  /\ word' = [word EXCEPT ![<<blk, idx>>] = v]
  /\ idx' = idx + 1
  /\ UNCHANGED <<tag, size, reg, toks, glob, wl, ret, blk, fin, keep, gi,
                 nlive>>

(* Mutant: the self reference is counted.                                  *)
FillSelfCounted ==
  /\ pc = "fill" /\ idx < size[blk] /\ tag[blk] = "Closure"
  /\ word' = [word EXCEPT ![<<blk, idx>>] = blk]
  /\ rc' = Dupped(blk)
  /\ idx' = idx + 1
  /\ UNCHANGED <<tag, size, reg, toks, glob, wl, pc, ret, blk, fin, keep,
                 gi, nlive>>

(* The environment word of a local `let rec` closure that names the        *)
(* closure itself is stored without a dup.                                 *)
FillSelf ==
  /\ pc = "fill" /\ idx < size[blk] /\ tag[blk] = "Closure"
  /\ word' = [word EXCEPT ![<<blk, idx>>] = blk]
  /\ idx' = idx + 1
  /\ UNCHANGED <<tag, size, rc, reg, toks, glob, wl, pc, ret, blk, fin, keep,
                 gi, nlive>>

FillDone(r) ==
  /\ pc = "fill" /\ idx >= size[blk] /\ reg[r] = Imm
  /\ reg' = [reg EXCEPT ![r] = blk]
  /\ pc' = "run" /\ blk' = Imm /\ idx' = 0
  /\ UNCHANGED <<heap, rc, toks, glob, wl, ret, fin, keep, gi, nlive>>

-----------------------------------------------------------------------------
(* release_children and wl_drain.                                          *)

(* Mutant: a child that is still shared is queued.                         *)
ReleaseWordEarly ==
  LET w == word[<<blk, idx>>] IN
  /\ pc = "release" /\ idx < size[blk]
  /\ idx' = idx + 1
  /\ IF w = blk \/ Immortal(w)
     THEN UNCHANGED <<rc, wl, pc>>
     ELSE IF rc[w] > 2
     THEN rc' = [rc EXCEPT ![w] = @ - 1] /\ UNCHANGED <<wl, pc>>
     ELSE wl' = Append(wl, w) /\ pc' = CheckedLast(w) /\ UNCHANGED rc
  /\ UNCHANGED <<heap, reg, toks, glob, ret, blk, fin, keep, gi, nlive>>

(* Mutant: a skipped word does not advance the index.                      *)
ReleaseWordStuck ==
  LET w == word[<<blk, idx>>] IN
  /\ pc = "release" /\ idx < size[blk]
  /\ IF w = blk \/ Immortal(w)
     THEN UNCHANGED <<rc, wl, pc, idx>>
     ELSE /\ idx' = idx + 1
          /\ IF rc[w] > 1
             THEN rc' = [rc EXCEPT ![w] = @ - 1] /\ UNCHANGED <<wl, pc>>
             ELSE wl' = Append(wl, w) /\ pc' = CheckedLast(w) /\ UNCHANGED rc
  /\ UNCHANGED <<heap, reg, toks, glob, ret, blk, fin, keep, gi, nlive>>

(* One turn of the loop of release_children.                               *)
ReleaseWord ==
  LET w == word[<<blk, idx>>] IN
  /\ pc = "release" /\ idx < size[blk]
  /\ idx' = idx + 1
  /\ IF w = blk \/ Immortal(w)
     THEN UNCHANGED <<rc, wl, pc>>
     ELSE IF rc[w] > 1
     THEN rc' = [rc EXCEPT ![w] = @ - 1] /\ UNCHANGED <<wl, pc>>
     ELSE wl' = Append(wl, w) /\ pc' = CheckedLast(w) /\ UNCHANGED rc
  /\ UNCHANGED <<heap, reg, toks, glob, ret, blk, fin, keep, gi, nlive>>

(* free_block: the header becomes HDR_FREED, with a count of 0.            *)
ReleaseDoneFree ==
  /\ pc = "release" /\ idx >= size[blk] /\ fin = "free"
  /\ tag' = [tag EXCEPT ![blk] = "Freed"]
  /\ size' = [size EXCEPT ![blk] = 1]
  /\ rc' = [rc EXCEPT ![blk] = 0]
  /\ word' = [c \in Block \X Idx |-> IF c[1] = blk THEN Imm ELSE word[c]]
  /\ nlive' = nlive - 1
  /\ pc' = "drain" /\ blk' = Imm /\ idx' = 0
  /\ UNCHANGED <<reg, toks, glob, wl, ret, fin, keep, gi>>

(* dc_drop_reuse keeps the block while the worklist drains.                *)
ReleaseDoneKeep ==
  /\ pc = "release" /\ idx >= size[blk] /\ fin = "keep"
  /\ keep' = blk
  /\ pc' = "drain" /\ blk' = Imm /\ idx' = 0
  /\ UNCHANGED <<heap, rc, reg, toks, glob, wl, ret, fin, gi, nlive>>

DrainPop ==
  /\ pc = "drain" /\ wl # <<>>
  /\ LET b == wl[Len(wl)] IN
       /\ blk' = b /\ idx' = FirstChild[tag[b]] /\ fin' = "free"
       /\ pc' = Checked(b, "release")
  /\ wl' = SubSeq(wl, 1, Len(wl) - 1)
  /\ UNCHANGED <<heap, rc, reg, toks, glob, ret, keep, gi, nlive>>

DrainDone ==
  /\ pc = "drain" /\ wl = <<>>
  /\ toks' = toks \cup ({keep} \ {Imm})
  /\ keep' = Imm
  /\ pc' = ret /\ fin' = "free"
  /\ UNCHANGED <<heap, rc, reg, glob, wl, ret, blk, idx, gi, nlive>>

-----------------------------------------------------------------------------
(* dc_rt_shutdown under DACELO_RC_CHECK.                                   *)

(* The program returns with nothing owned and no token outstanding.        *)
Exit ==
  /\ pc = "run" /\ toks = {} /\ \A r \in Reg : reg[r] = Imm
  /\ pc' = "shutdown"
  /\ UNCHANGED <<heap, rc, reg, toks, glob, wl, ret, blk, idx, fin, keep, gi,
                 nlive>>

(* Mutant: the table is cleared but its entries are not dropped.           *)
ShutdownDropClears ==
  /\ pc = "shutdown" /\ gi <= NGlob
  /\ glob' = [glob EXCEPT ![gi] = Imm]
  /\ gi' = gi + 1
  /\ UNCHANGED <<heap, rc, reg, toks, wl, pc, ret, blk, idx, fin, keep, nlive>>

ShutdownDrop ==
  /\ pc = "shutdown" /\ gi <= NGlob
  /\ glob' = [glob EXCEPT ![gi] = Imm]
  /\ gi' = gi + 1
  /\ DcDrop(glob[gi], "shutdown")
  /\ UNCHANGED <<heap, reg, toks, wl, keep, nlive>>

ShutdownCheck ==
  /\ pc = "shutdown" /\ gi > NGlob
  /\ pc' = IF nlive # 0 THEN "leak" ELSE "ok"
  /\ UNCHANGED <<heap, rc, reg, toks, glob, wl, ret, blk, idx, fin, keep, gi,
                 nlive>>

Terminated == pc \in Ended /\ UNCHANGED vars

-----------------------------------------------------------------------------
Program == \/ \E r \in Reg : \/ \E v \in Block : Dup(r, v)
                             \/ Drop(r)
                             \/ DropReuse(r)
                             \/ \E i \in 1 .. NGlob : Gset(i, r)
           \/ \E b \in Block, s \in Shape : Alloc(b, s)
           \/ \E t \in toks, s \in Shape : Reuse(t, s)
           \/ \E t \in toks, b \in Block, s \in Shape : ReuseMiss(t, b, s)
           \/ Exit

Fill == \/ \E r \in Reg : FillMove(r) \/ FillDone(r)
        \/ \E v \in Block : FillDup(v)
        \/ FillSelf

Release == ReleaseWord \/ ReleaseDoneFree \/ ReleaseDoneKeep
           \/ DrainPop \/ DrainDone

Shutdown == ShutdownDrop \/ ShutdownCheck

Next == Program \/ Fill \/ Release \/ Shutdown \/ Terminated

Spec == Init /\ [][Next]_vars

(* Everything runs on one thread: a call into the runtime that has started *)
(* goes on until it returns.                                               *)
FairSpec == Spec /\ WF_vars(Release) /\ WF_vars(Shutdown)

-----------------------------------------------------------------------------
(* Properties.                                                             *)

Occurs(f, S, b) == Cardinality({s \in S : f[s] = b})

(* A child word owns its reference once it is written, until it is         *)
(* released; the stale words of a reuse token own nothing, and neither     *)
(* does the self reference of a closure.                                   *)
OwningWord(c) ==
  /\ c[2] \in Children(c[1])
  /\ c[1] \notin toks /\ c[1] # keep
  /\ c[1] = blk => IF pc = "fill" THEN c[2] < idx ELSE c[2] >= idx
  /\ word[c] # c[1]

Owned == [c \in Block \X Idx |-> IF OwningWord(c) THEN word[c] ELSE Imm]

Queued(b) == \E i \in DOMAIN wl : wl[i] = b

(* The references to b that some part of the state owns.                   *)
Owners(b) == Occurs(reg, Reg, b)
             + Occurs(glob, 1 .. NGlob, b)
             + Occurs(Owned, Block \X Idx, b)
             + (IF b \in toks THEN 1 ELSE 0)
             + (IF Queued(b) THEN 1 ELSE 0)
             + (IF b = blk THEN 1 ELSE 0)
             + (IF b = keep THEN 1 ELSE 0)

(* The count in a header is exact at every step, also in the middle of a   *)
(* release: it is the number of owned references, until it saturates.      *)
RcExact == \A b \in Block : rc[b] # RcImmortal => rc[b] = Owners(b)

(* The runtime never meets a freed block or a zero count: rc_use_after_free*)
(* and "refcount underflow" are unreachable for generated code that keeps  *)
(* the ownership contract.                                                 *)
NoAbort == pc \notin Aborted

(* A block is on the worklist at most once, and nothing else refers to it; *)
(* the same holds of a block that is being released and of a reuse token   *)
(* (the check of wl_drain: "queued twice: bad count").                     *)
DyingUnowned ==
  /\ \A i, j \in DOMAIN wl : wl[i] = wl[j] => i = j
  /\ \A b \in Block : b \in toks \/ Queued(b) \/ b = blk \/ b = keep => rc[b] = 1

(* Which of the runtime's own variables are in use at which control point. *)
Control ==
  /\ pc \in Running \cup Ended \cup {"fill"} => wl = <<>> /\ keep = Imm
  /\ pc \in Running \cup Ended \cup {"drain"} => blk = Imm
  /\ pc \in {"fill", "release"} => blk \in Block /\ idx >= FirstChild[tag[blk]]
  /\ pc = "release" /\ fin = "keep" => keep = Imm

(* The count of a block is 0 exactly while it is free.                     *)
Headers ==
  \A b \in Block :
     /\ rc[b] = 0 <=> tag[b] = "Freed"
     /\ tag[b] = "Freed" => size[b] = 1

(* The inductive invariant that Rt5RcProofs proves.                        *)
IInv == /\ TypeOK /\ Control /\ Headers /\ DyingUnowned /\ NoAbort
        /\ RcExact

Live(b) == tag[b] # "Freed" /\ b \notin Static

(* Blocks reachable from S in at most n steps.                             *)
Reach(S) ==
  LET step[n \in 0 .. Cardinality(Block)] ==
        IF n = 0 THEN S
        ELSE step[n - 1] \cup
             {word[c] : c \in {d \in Block \X Idx :
                                 d[1] \in step[n - 1] /\ Owned[d] # Imm}}
  IN step[Cardinality(Block)]

(* No set of blocks keeps itself alive: some block of the set is owned by  *)
(* no word of the others.  The self reference of a closure does not count, *)
(* and every other word is stored while nothing refers to its block yet.   *)
Acyclic ==
  \A S \in (SUBSET Block) \ {{}} :
     \E b \in S : \A c \in Block \X Idx : c[1] \in S => Owned[c] # b

(* The program has not returned: dc_rt_shutdown has not started.           *)
Open == \/ pc \in {"run", "fill"}
        \/ pc \in {"release", "drain"} /\ ret = "run"

(* What dc_rt_shutdown relies on: the program holds nothing any more, the  *)
(* table is clear up to its index, and the verdict is that of n_live.      *)
Closing ==
  /\ Open => gi = 1
  /\ ~Open => /\ toks = {} /\ keep = Imm
              /\ \A r \in Reg : reg[r] = Imm
              /\ \A i \in 1 .. NGlob : i < gi => glob[i] = Imm
              /\ pc = "release" => fin = "free"
  /\ pc \in Ended => gi > NGlob /\ (pc = "ok" <=> nlive = 0)

(* The inductive invariant of NoGarbage and ShutdownExact, which           *)
(* Rt5GarbageProofs proves.                                                *)
GInv == /\ IInv /\ Acyclic /\ Closing
        /\ \A b \in Static : tag[b] = "Unit" /\ rc[b] = RcImmortal
        /\ nlive = Cardinality({b \in Block : Live(b)})

(* Precise reclamation: whenever the program runs, a live block is a reuse *)
(* token or is reachable from what the program owns, from the globals or   *)
(* from a saturated block.  Nothing is freed late, and no cycle is left    *)
(* behind by the self references of local recursive closures; and n_live,  *)
(* which the shutdown check believes, counts exactly the live blocks.      *)
NoGarbage ==
  /\ nlive = Cardinality({b \in Block : Live(b)})
  /\ pc \in Running =>
       \A b \in Block : Live(b) =>
          b \in toks \cup Reach((RootRefs \ {Imm})
                                \cup {x \in Block : rc[x] = RcImmortal})

(* dc_rt_shutdown: the report is exact as long as no count saturated.      *)
ShutdownExact ==
  /\ pc = "ok" => \A b \in Block : ~Live(b)
  /\ pc = "leak" => \E b \in Block : Live(b) /\ rc[b] = RcImmortal

(* In-place reuse is invisible: a block the program can name by a register *)
(* or a global before and after a step keeps its header and its words.     *)
NamedBy(b) == {r \in Reg : reg[r] = b} \cup {i \in 1 .. NGlob : glob[i] = b}
NoVisibleMutation ==
  [][\A b \in Block :
       NamedBy(b) # {} /\ (NamedBy(b))' # {}
         => /\ tag'[b] = tag[b] /\ size'[b] = size[b]
            /\ \A i \in Children(b) : word'[<<b, i>>] = word[<<b, i>>]]_vars

(* A count that saturated never changes again.                             *)
Saturation == [][\A b \in Block : rc[b] = RcImmortal => rc'[b] = RcImmortal]_vars

(* Every drop returns, the release of arbitrarily shared structure ends,   *)
(* and the shutdown loop reaches its verdict.                              *)
CallsReturn == /\ pc \in {"release", "drain"} ~> pc \in Running
               /\ pc = "shutdown" ~> pc \in Ended
=============================================================================
