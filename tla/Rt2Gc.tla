------------------------------- MODULE Rt2Gc -------------------------------
(***************************************************************************)
(* The memory of gen2-dcc-rs/rt/rt.c, word for word: chunks, the free list *)
(* that runs through the free blocks, and the collector, which marks from  *)
(* the globals and from every word of the stack and sweeps by the sizes in *)
(* the headers.                                                            *)
(*                                                                         *)
(* Each turn of a loop is a step: of the search through the free list, of  *)
(* the walks that clear marks and sweep, of the scan of a block's words.   *)
(* The program is the most general one: it asks for blocks of the given    *)
(* shapes and fills them, reads, forgets and sets globals.  Words are      *)
(* numbers as in the code: a block is the address of its header, and a     *)
(* number or an address may look like a header.  What malloc gives is zero. *)
(***************************************************************************)
EXTENDS Integers, Sequences, FiniteSetsExt

CONSTANTS ChunkWords,  \* CHUNK_WORDS
          FirstGc,     \* the first next_gc and the least, in bytes
          MaxChunks,   \* chunks that malloc can give (bound)
          ChunkAt,     \* and where they are
          Locals,      \* the words of the stack that the program uses
          Leftover,    \* the words of the stack that nobody uses any more
          Shapes,      \* headers' tags with the raw words before the values, and how many values
          Numbers      \* numbers the program has (bound)

Word == 8
MaxBlock == 2 ^ 26

(* Chunks are aligned and apart.  A block has a header and another word.   *)
ASSUME GcAssumption ==
  /\ ChunkWords \in 2 .. MaxBlock /\ FirstGc \in Nat /\ MaxChunks \in Nat
  /\ ChunkAt \in [1 .. MaxChunks -> Nat \ {0}]
  /\ \A k \in 1 .. MaxChunks : ChunkAt[k] % Word = 0
  /\ \A j, k \in 1 .. MaxChunks :
       ChunkAt[j] < ChunkAt[k] => ChunkAt[j] + Word * ChunkWords <= ChunkAt[k]
  /\ \A j, k \in 1 .. MaxChunks : ChunkAt[j] = ChunkAt[k] => j = k
  /\ Numbers \subseteq Nat
  /\ Shapes \subseteq [tag : 1 .. 4, raw : Seq(Nat), values : Nat]
  /\ \A s \in Shapes : Len(s.raw) + s.values >= 1

VARIABLES mem, chunks, bump, end, free,  \* the heap
          live, nextGc,
          locals, global,  \* the program's words, and one global
          request,         \* the words of the block asked for, and who gets it
          pc,              \* run, search, clear, mark, sweep, struck, out of memory
          prev, fb,        \* the search: the block before fb, 0 for freelist itself
          ci, p,           \* a walk: the chunk and the block
          todo, fields,    \* marking: blocks to be scanned, words to be read of one
          objs,            \* what the program wrote, by block (history)
          blocks, listed   \* all blocks, those on the free list (history)

heap == <<mem, chunks, bump, end, free, live, nextGc, blocks, listed>>
search == <<prev, fb>>
walk == <<ci, p>>
marking == <<todo, fields>>
program == <<locals, global, request, objs>>
vars == <<heap, search, walk, marking, program, pc>>

Header(tag, size) == size * 256 + tag
TagOf(h) == h % 128
SizeOf(h) == h \div 256
IsMarked(h) == (h \div 128) % 2 = 1
SetMark(h) == IF IsMarked(h) THEN h ELSE h + 128
ClearMark(h) == IF IsMarked(h) THEN h - 128 ELSE h
NumberWord(n) == 4 * n + 1

NoRequest == [words |-> <<>>, to |-> 0]

Init == /\ mem = [a \in {} |-> 0] /\ chunks = <<>> /\ bump = 0 /\ end = 0 /\ free = 0
        /\ live = 0 /\ nextGc = FirstGc
        /\ locals \in [Locals -> {NumberWord(n) : n \in Numbers}] /\ global = 0
        /\ request = NoRequest /\ pc = "run"
        /\ prev = 0 /\ fb = 0 /\ ci = 1 /\ p = 0 /\ todo = {} /\ fields = {}
        /\ objs = [a \in {} |-> <<>>] /\ blocks = {} /\ listed = {}

-----------------------------------------------------------------------------
(* The search through the free list.                                       *)

Asked == Len(request.words)
Behind(b) == b + Word * SizeOf(mem[b])
Link(b) == mem[b + Word]

(* Mutant: a block is split whatever remains.                              *)
SuitsIfLarger(size, n) == size >= n

(* A block is split only if at least two words remain.                     *)
Suits(size, n) == size = n \/ size > n + 1

Searching == pc = "search"
Found == fb # 0 /\ Suits(SizeOf(mem[fb]), Asked)
StartSearch(first) == pc' = "search" /\ prev' = 0 /\ fb' = first

Skip == /\ Searching /\ fb # 0 /\ ~Found
        /\ prev' = fb /\ fb' = Link(fb)
        /\ UNCHANGED <<heap, walk, marking, program, pc>>

(* Block b is the program's and filled; mm has the links and headers of    *)
(* the others.                                                             *)
Handed(mm, b) ==
    /\ mem' = [a \in DOMAIN mm |-> IF a >= b /\ a < b + Word * Asked
                                   THEN request.words[((a - b) \div Word) + 1] ELSE mm[a]]
    /\ objs' = [a \in DOMAIN objs \cup {b} |-> IF a = b THEN request.words ELSE objs[a]]
    /\ locals' = [locals EXCEPT ![request.to] = b]
    /\ request' = NoRequest /\ pc' = "run"
    /\ UNCHANGED <<chunks, end, live, nextGc, global, search, walk, marking>>

(* What remains of fb behind the words asked for.                          *)
Rest == fb + Word * Asked
Exact == SizeOf(mem[fb]) = Asked
WithRest == [mem EXCEPT ![Rest] = Header(0, SizeOf(mem[fb]) - Asked), ![Rest + Word] = Link(fb)]

TakeFree ==
    /\ Searching /\ Found
    /\ LET mm == IF Exact THEN mem ELSE WithRest
           to == IF Exact THEN Link(fb) ELSE Rest
       IN  IF prev = 0 THEN Handed(mm, fb) /\ free' = to
           ELSE Handed([mm EXCEPT ![prev + Word] = to], fb) /\ UNCHANGED free
    /\ LET rest == IF Exact THEN {} ELSE {Rest}
       IN  blocks' = blocks \cup rest /\ listed' = (listed \ {fb}) \cup rest
    /\ UNCHANGED bump

BumpFits == bump + Word * Asked <= end
TakeBump == /\ Searching /\ fb = 0 /\ BumpFits
            /\ Handed(mem, bump)
            /\ bump' = bump + Word * Asked /\ blocks' = blocks \cup {bump}
            /\ UNCHANGED <<free, listed>>

Due == live + Word * Asked > nextGc

WordsOf(c) == {c + Word * k : k \in 0 .. ChunkWords - 1}
AddChunk ==
    /\ Searching /\ fb = 0 /\ ~BumpFits /\ ~Due
    /\ IF Len(chunks) < MaxChunks
       THEN LET c == ChunkAt[Len(chunks) + 1]
            IN  /\ mem' = [a \in DOMAIN mem \cup WordsOf(c) |-> IF a \in DOMAIN mem THEN mem[a] ELSE 0]
                /\ chunks' = <<c>> \o chunks /\ bump' = c /\ end' = c + Word * ChunkWords
                /\ StartSearch(free)
       ELSE pc' = "out of memory" /\ UNCHANGED <<mem, chunks, bump, end, search>>
    /\ UNCHANGED <<free, live, nextGc, blocks, listed, walk, marking, program>>

-----------------------------------------------------------------------------
(* gc.  The walks go from chunk to chunk and from header to header, up to  *)
(* a word that has no size.                                                *)
ChunkEnd(i) == chunks[i] + Word * ChunkWords
AtBlock == ci <= Len(chunks) /\ p < ChunkEnd(ci) /\ SizeOf(mem[p]) # 0
StartWalk == ci' = 1 /\ p' = IF chunks = <<>> THEN 0 ELSE chunks[1]
WalkDone == ~AtBlock /\ ci >= Len(chunks)

Collect == /\ Searching /\ fb = 0 /\ ~BumpFits /\ Due
           /\ pc' = "clear" /\ StartWalk
           /\ UNCHANGED <<heap, search, marking, program>>

NextChunk == /\ pc \in {"clear", "sweep"} /\ ~AtBlock /\ ci < Len(chunks)
             /\ ci' = ci + 1 /\ p' = chunks[ci + 1]
             /\ UNCHANGED <<heap, search, marking, program, pc>>

ClearBlock == /\ pc = "clear" /\ AtBlock
              /\ mem' = [mem EXCEPT ![p] = ClearMark(@)] /\ p' = Behind(p)
              /\ UNCHANGED <<chunks, bump, end, free, live, nextGc, blocks, listed,
                             search, ci, marking, program, pc>>

LooksLikeHeader(h) == TagOf(h) <= 4 /\ SizeOf(h) >= 2 /\ SizeOf(h) <= MaxBlock

(* Mutant: every word there is taken for a header.                         *)
AnyHeader(h) == TRUE

HdrPlausible(h) == LooksLikeHeader(h)
InChunk(w) == \E i \in DOMAIN chunks : w >= chunks[i] /\ w < ChunkEnd(i)

Accepts(w) == w % Word = 0 /\ InChunk(w) /\ HdrPlausible(mem[w]) /\ ~IsMarked(mem[w])

(* If a word of the program's that looks like a header is taken for one,   *)
(* it becomes another word, and anything may follow.                       *)
Inside(w) == \E b \in DOMAIN objs : b < w /\ w < b + Word * Len(objs[b])
Strikes(W) == \E w \in W : Accepts(w) /\ LooksLikeHeader(mem[w]) /\ Inside(w)

(* mark_word for all of W.                                                 *)
Mark(W) ==
    LET found == {w \in W : Accepts(w)}
    IN  /\ mem' = [a \in DOMAIN mem |-> IF a \in found THEN SetMark(mem[a]) ELSE mem[a]]
        /\ todo' = todo \cup found

Marks == UNCHANGED <<chunks, bump, end, free, live, nextGc, blocks, listed,
                     search, walk, program>>

(* The roots: beside the words that the program uses the stack may hold    *)
(* the address of any word that was ever written.                          *)
Roots == {global} \cup {locals[i] : i \in Locals}
Written == {a \in DOMAIN mem : mem[a] # 0}
ScanRoots ==
    /\ pc = "clear" /\ WalkDone
    /\ \E d \in [Leftover -> Written \cup {0}] :
         LET W == Roots \cup {d[i] : i \in Leftover}
         IN  IF Strikes(W) THEN pc' = "struck" /\ UNCHANGED <<mem, todo>>
             ELSE pc' = "mark" /\ Mark(W)
    /\ UNCHANGED fields /\ Marks

(* Where a block with header h has values: tuple, adt, closure.            *)
ValuesAt(h) == CASE TagOf(h) = 2 -> 1..(SizeOf(h) - 1)
                 [] TagOf(h) = 3 -> 2..(SizeOf(h) - 1)
                 [] TagOf(h) = 4 -> 3..(SizeOf(h) - 1)
                 [] OTHER -> {}
FieldsOf(b) == {b + Word * k : k \in ValuesAt(mem[b])}

(* A block that was none may reach beyond the memory there is.             *)
NextBlock ==
    /\ pc = "mark" /\ fields = {}
    /\ \E b \in todo : /\ todo' = todo \ {b}
                       /\ IF FieldsOf(b) \subseteq DOMAIN mem
                          THEN fields' = FieldsOf(b) /\ UNCHANGED pc
                          ELSE pc' = "struck" /\ UNCHANGED fields
    /\ UNCHANGED mem /\ Marks

ScanField ==
    /\ pc = "mark"
    /\ \E a \in fields :
         /\ \A x \in fields : a <= x
         /\ fields' = fields \ {a}
         /\ IF Strikes({mem[a]}) THEN pc' = "struck" /\ UNCHANGED <<mem, todo>>
            ELSE Mark({mem[a]}) /\ UNCHANGED pc
    /\ Marks

StartSweep == /\ pc = "mark" /\ fields = {} /\ todo = {}
              /\ pc' = "sweep" /\ free' = 0 /\ listed' = {} /\ live' = 0 /\ StartWalk
              /\ UNCHANGED <<mem, chunks, bump, end, nextGc, blocks, search, marking, program>>

(* Mutant: words are counted, not bytes.                                   *)
SweepBlockWords(h, b) ==
    LET w == h.mem[b]
    IN  IF IsMarked(w) THEN [h EXCEPT !.mem[b] = ClearMark(w), !.live = @ + SizeOf(w)]
        ELSE [h EXCEPT !.mem = [@ EXCEPT ![b] = Header(0, SizeOf(w)), ![b + Word] = h.free], !.free = b]

SweepBlock(h, b) ==
    LET w == h.mem[b]
    IN  IF IsMarked(w) THEN [h EXCEPT !.mem[b] = ClearMark(w), !.live = @ + Word * SizeOf(w)]
        ELSE [h EXCEPT !.mem = [@ EXCEPT ![b] = Header(0, SizeOf(w)), ![b + Word] = h.free], !.free = b]

Sweep == /\ pc = "sweep" /\ AtBlock
         /\ LET h == SweepBlock([mem |-> mem, free |-> free, live |-> live], p)
            IN  mem' = h.mem /\ free' = h.free /\ live' = h.live
         /\ listed' = IF IsMarked(mem[p]) THEN listed ELSE listed \cup {p}
         /\ p' = Behind(p)
         /\ UNCHANGED <<chunks, bump, end, nextGc, blocks, search, ci, marking, program, pc>>

(* Mutant: the limit stays where it was.                                   *)
LimitKept(l) == nextGc

LimitAfter(l) == IF 2 * (l + Word * Asked) < FirstGc THEN FirstGc ELSE 2 * (l + Word * Asked)

Collected == /\ pc = "sweep" /\ WalkDone
             /\ nextGc' = LimitAfter(live) /\ StartSearch(free)
             /\ UNCHANGED <<mem, chunks, bump, end, free, live, blocks, listed, walk, marking, program>>

-----------------------------------------------------------------------------
(* What the program has.                                                   *)

(* The blocks that the program can get at: those in every set that has the *)
(* ones it names and what the values of its members name.                  *)
ValuesOf(b) == {objs[b][k + 1] : k \in ValuesAt(objs[b][1])}
Closed == {S \in SUBSET DOMAIN objs : \A b \in S : ValuesOf(b) \cap DOMAIN objs \subseteq S}
Reachable == {b \in DOMAIN objs : \A S \in Closed : Roots \cap DOMAIN objs \subseteq S => b \in S}

Running == pc = "run"
Known == {locals[i] : i \in Locals} \cup ({global} \ {0})
Ask == /\ Running
       /\ \E s \in Shapes, to \in Locals : \E vs \in [1..s.values -> Known] :
             request' = [to |-> to, words |-> <<Header(s.tag, 1 + Len(s.raw) + s.values)>> \o s.raw \o vs]
       /\ objs' = [b \in Reachable |-> objs[b]]
       /\ StartSearch(free)
       /\ UNCHANGED <<heap, walk, marking, locals, global>>

Unmoved == UNCHANGED <<heap, search, walk, marking, request, pc, objs>>
SetLocal(i, w) == locals' = [locals EXCEPT ![i] = w] /\ Unmoved /\ UNCHANGED global

Forget == Running /\ \E i \in Locals, n \in Numbers : SetLocal(i, NumberWord(n))
SetGlobal == Running /\ \E i \in Locals : global' = locals[i] /\ Unmoved /\ UNCHANGED locals
GetGlobal == Running /\ global # 0 /\ \E i \in Locals : SetLocal(i, global)
ReadField == /\ Running
             /\ \E i, j \in Locals :
                   /\ locals[i] \in DOMAIN objs
                   /\ \E k \in ValuesAt(mem[locals[i]]) : SetLocal(j, mem[locals[i] + Word * k])

Gc == Collect \/ NextChunk \/ ClearBlock \/ ScanRoots \/ NextBlock \/ ScanField
      \/ StartSweep \/ Sweep \/ Collected
AllocStep == Skip \/ TakeFree \/ TakeBump \/ AddChunk \/ Gc
Next == AllocStep \/ Ask \/ Forget \/ SetGlobal \/ GetGlobal \/ ReadField

(* The loop of dacelo_alloc waits for nothing, and there is one thread.   *)
Pending == pc \in {"search", "clear", "mark", "sweep"}

Spec == Init /\ [][Next]_vars
FairSpec == Spec /\ WF_vars(AllocStep)

-----------------------------------------------------------------------------

(* Whatever the program can get at is as it wrote it, across collections,  *)
(* splits and new chunks, whatever left over on the stack points where, as *)
(* long as no word of the program's that a scan comes across looks like a  *)
(* header (rt.c:125-139); only the mark comes and goes.                    *)
Intact(b) == /\ ClearMark(mem[b]) = objs[b][1]
             /\ pc \notin {"mark", "sweep"} => ~IsMarked(mem[b])
             /\ \A k \in DOMAIN objs[b] \ {1} : mem[b + Word * (k - 1)] = objs[b][k]
ReachableIntact == pc # "struck" => \A b \in Reachable : Intact(b)

(* The sizes in the headers lead from the start of a chunk from block to   *)
(* block, up to its end or to where nothing was handed out.                *)
BlocksIn(i) == {b \in blocks : b >= chunks[i] /\ b < ChunkEnd(i)}
Stops(i) == {chunks[i]} \cup {Behind(b) : b \in BlocksIn(i)}
Unused(i, a) == a <= ChunkEnd(i) /\ \A x \in DOMAIN mem : x >= a /\ x < ChunkEnd(i) => mem[x] = 0
ChunksTiled ==
    /\ \A b \in blocks : InChunk(b) /\ SizeOf(mem[b]) >= 2
    /\ \A i \in DOMAIN chunks : \A a \in Stops(i) : a \in BlocksIn(i) \/ Unused(i, a)
    /\ chunks # <<>> => bump \in Stops(1) \ BlocksIn(1)

(* A list from first through the members of F runs through each of them    *)
(* and to none twice: one comes first, every other one is the next of one, *)
(* and there is no cycle.                                                  *)
RunsThrough(first, F, next) ==
    /\ first \in F \cup {0}
    /\ \A b \in F : /\ next[b] \in F \cup {0}
                    /\ b = first <=> \A d \in F : next[d] # b
                    /\ \A d \in F : next[b] = next[d] => b = d \/ next[b] = 0
    /\ \A S \in (SUBSET F) \ {{}} : \E b \in S : next[b] \notin S
FreeListRight == RunsThrough(free, listed, [b \in listed |-> Link(b)])

(* Blocks tile the chunks, and the free list has only blocks, and none of  *)
(* the program's (rt.c:195-216 against the splits in rt.c:229-241).        *)
BlocksTile ==
    pc # "struck" => /\ ChunksTiled
                     /\ Reachable \subseteq blocks \ listed /\ listed \subseteq blocks
                     /\ pc # "mark" => FreeListRight

(* A collection keeps a block that the program cannot get at only because  *)
(* of a word that was left over on the stack: it frees all but what such a *)
(* word leads to, and counts the bytes of what it keeps (rt.c:167-216).    *)
Bytes(b) == Word * SizeOf(mem[b])
BytesOf(S) == MapThenSumSet(Bytes, S)
InUse == blocks \ listed
Values(b) == {mem[a] : a \in FieldsOf(b)} \cap blocks
LedTo(S) == {b \in blocks : \A T \in SUBSET blocks :
                S \subseteq T /\ (\A d \in T : Values(d) \subseteq T) => b \in T}
CollectsGarbage ==
    [][pc = "sweep" /\ pc' = "search" =>
         /\ \E B \in SUBSET blocks : /\ Cardinality(B) <= Cardinality(Leftover)
                                    /\ InUse = LedTo(Reachable \cup B)
         /\ live = BytesOf(InUse)]_vars

(* A request that a chunk can hold is answered, or there is no memory left *)
(* for a chunk: collecting and growing do not go on for ever.              *)
RequestsEnd == (Pending /\ Asked <= ChunkWords) ~> ~Pending

(* A chunk is added only as long as the bytes in use are within the limit  *)
(* ("bytes before first GC", rt.c:60).                                     *)
CollectsInTime == [][chunks' # chunks => BytesOf(InUse) + Word * Asked <= nextGc]_vars
=============================================================================
