--------------------------- MODULE G5LoaderProofs ---------------------------
(***************************************************************************)
(* Proofs about G5Loader, for every set of projects: what is loaded and in *)
(* which order, which verdict a file gets, which items are checked in      *)
(* spite of errors, and that the linked program means what was checked.    *)
(***************************************************************************)
EXTENDS G5Loader, NatLemmas, SequenceTheorems

-----------------------------------------------------------------------------
(* Projects and reachable files.                                           *)

(* Every file on disk is a file as the parser builds it.                   *)
LEMMA Files ==
  ASSUME proj \in Projects
  PROVE  Entry \in DOMAIN proj /\ \A f \in DOMAIN proj : IsFile(proj[f])
BY ProjectsAssumption

(* The imports of a file are a list of known files.                        *)
LEMMA ImportsKnown ==
  ASSUME proj \in Projects, NEW f \in DOMAIN proj
  PROVE  /\ proj[f].imports \in Seq(Known)
         /\ ImportsOf(f) = ToSet(proj[f].imports)
         /\ ImportsOf(f) \subseteq Known
<1>1. ImportsOf(f) = ToSet(proj[f].imports)
  BY DEF ImportsOf
<1>2. ImportsOf(f) \subseteq Known
  BY DEF Known
<1>3. proj[f].imports \in Seq(ToSet(proj[f].imports))
  BY Files DEF IsFile
<1>4. proj[f].imports \in Seq(Known)
  BY <1>1, <1>2, <1>3, SeqMonotonic
<1> QED BY <1>1, <1>2, <1>4

(* What is reached contains where one starts and the imports of what it    *)
(* contains, and is the least such set.                                    *)
LEMMA FromStart ==
  ASSUME NEW fs \in SUBSET Known
  PROVE  fs \subseteq From(fs)
BY DEF From

LEMMA FromClosed ==
  ASSUME NEW fs, NEW f \in From(fs)
  PROVE  ImportsOf(f) \subseteq From(fs)
<1>1. ImportsOf(f) \subseteq Known
  BY DEF Known, ImportsOf
<1>2. \A S \in Closed : fs \subseteq S => ImportsOf(f) \subseteq S
  BY DEF From, Closed
<1> QED BY <1>1, <1>2 DEF From

LEMMA FromLeast ==
  ASSUME NEW fs, NEW S \in SUBSET Known, fs \subseteq S,
         \A f \in S : ImportsOf(f) \subseteq S
  PROVE  From(fs) \subseteq S
<1>1. S \in Closed
  BY DEF Closed
<1> QED BY <1>1 DEF From

LEMMA EntryKnown ==
  ASSUME proj \in Projects
  PROVE  Entry \in Known /\ Entry \in From({Entry})
BY Files, FromStart DEF Known

-----------------------------------------------------------------------------
(* The invariant of the loader.                                            *)

Frames == [file : DOMAIN proj, todo : Seq(Known)]

Phases == {"load", "loaded", "check", "items", "checked", "linked", "refused",
           "cyclic", "unreadable"}

ListsRight(ph, st, fl) ==
    /\ proj \in Projects /\ ph \in Phases
    /\ st \in Seq(Frames) /\ fl \in Seq(DOMAIN proj)

(* The files on the stack are different and not loaded; each was called by *)
(* the next one, and an import that a call has no more to visit is loaded  *)
(* or is being visited.                                                    *)
StackRight(st, fl) ==
    /\ \A i, j \in 1 .. Len(st) : st[i].file = st[j].file => i = j
    /\ \A i \in 1 .. Len(st) : st[i].file \notin ToSet(fl) /\ st[i].file \in From({Entry})
    /\ \A i \in 2 .. Len(st) : st[i - 1].file \in ImportsOf(st[i].file)
    /\ st # <<>> => st[Len(st)].file = Entry
    /\ \A i \in 1 .. Len(st) : ToSet(st[i].todo) \subseteq ImportsOf(st[i].file)
    /\ \A i \in 1 .. Len(st) : \A m \in ImportsOf(st[i].file) :
         m \in ToSet(fl) \/ m \in ToSet(st[i].todo) \/ (i > 1 /\ m = st[i - 1].file)

(* Files come after the files they import, the entry first.                *)
FilesRight(ph, st, fl) ==
    /\ \A i, j \in 1 .. Len(fl) : fl[i] = fl[j] => i = j
    /\ \A i \in 1 .. Len(fl) : \A m \in ImportsOf(fl[i]) :
         \E j \in i + 1 .. Len(fl) : fl[j] = m
    /\ ToSet(fl) \subseteq From({Entry})
    /\ ph = "load" => st # <<>>
    /\ ph \notin {"load", "cyclic", "unreadable"} => fl # <<>> /\ fl[1] = Entry
    /\ ph = "cyclic" => HasCycle

LoadRight(ph, st, fl) == ListsRight(ph, st, fl) /\ StackRight(st, fl) /\ FilesRight(ph, st, fl)
Shape == ListsRight(phase, stack, files)
LoadInv == LoadRight(phase, stack, files)

(* The files on disk do not change, and neither does what they reach.      *)
LEMMA SameFiles ==
  ASSUME proj' = proj
  PROVE  /\ \A f : ImportsOf(f)' = ImportsOf(f)
         /\ Known' = Known /\ Frames' = Frames
         /\ \A fs : From(fs)' = From(fs)
         /\ HasCycle' = HasCycle
<1>1. \A f : ImportsOf(f)' = ImportsOf(f)
  BY DEF ImportsOf
<1>2. Known' = Known
  <2>1. \A x : x \in Known' <=> x \in Known
    BY <1>1 DEF Known
  <2> QED BY <2>1
<1>3. Closed' = Closed
  BY <1>1, <1>2 DEF Closed
<1>4. ASSUME NEW fs PROVE From(fs)' = From(fs)
  BY <1>2, <1>3 DEF From
<1>5. HasCycle' = HasCycle
  <2>1. HasCycle' = \E f \in From({Entry})' : f \in From(ImportsOf(f))'
    BY DEF HasCycle
  <2>2. \A f : From(ImportsOf(f))' = From(ImportsOf(f))
    BY <1>1, <1>2, <1>3 DEF From
  <2> QED BY <1>4, <2>1, <2>2 DEF HasCycle
<1>6. Frames' = Frames
  BY <1>2 DEF Frames
<1> QED BY <1>1, <1>2, <1>4, <1>5, <1>6

(* What is right about the next lists is right in the next state.          *)
LEMMA NextLoad ==
  ASSUME proj' = proj, LoadRight(phase', stack', files')
  PROVE  LoadInv'
<1>1. ListsRight(phase, stack, files)'
  BY SameFiles DEF LoadRight, ListsRight, Phases
<1>2. From({Entry})' = From({Entry})
  BY SameFiles
<1>3. StackRight(stack, files)'
  BY <1>2 DEF LoadRight, StackRight, ImportsOf
<1>4. FilesRight(phase, stack, files)'
  BY <1>2, SameFiles DEF LoadRight, FilesRight, ImportsOf
<1> QED BY <1>1, <1>3, <1>4 DEF LoadInv, LoadRight

(* How the lists of the loader are indexed.                                *)
LEMMA FileList ==
  ASSUME Shape
  PROVE  /\ Len(files) \in Nat /\ DOMAIN files = 1 .. Len(files)
         /\ \A i \in 1 .. Len(files) : files[i] \in DOMAIN proj
         /\ Loaded = {files[i] : i \in 1 .. Len(files)}
         /\ Loaded \subseteq DOMAIN proj
<1>1. Len(files) \in Nat /\ DOMAIN files = 1 .. Len(files)
  BY DEF Shape, ListsRight
<1>2. \A i \in 1 .. Len(files) : files[i] \in DOMAIN proj
  BY DEF Shape, ListsRight
<1>3. Loaded = {files[i] : i \in 1 .. Len(files)}
  BY <1>1 DEF Loaded, ToSet
<1> QED BY <1>1, <1>2, <1>3

LEMMA FrameList ==
  ASSUME Shape
  PROVE  /\ Len(stack) \in Nat /\ DOMAIN stack = 1 .. Len(stack)
         /\ \A i \in 1 .. Len(stack) :
              stack[i] \in Frames /\ stack[i].file \in DOMAIN proj /\ stack[i].todo \in Seq(Known)
         /\ stack # <<>> => Len(stack) >= 1
<1>1. Len(stack) \in Nat /\ DOMAIN stack = 1 .. Len(stack)
  BY DEF Shape, ListsRight
<1>2. \A i \in 1 .. Len(stack) : stack[i] \in Frames
  BY DEF Shape, ListsRight
<1>3. \A fr \in Frames : fr.file \in DOMAIN proj /\ fr.todo \in Seq(Known)
  BY DEF Frames
<1>4. stack # <<>> => Len(stack) >= 1
  BY <1>1, EmptySeq DEF Shape, ListsRight
<1> QED BY <1>1, <1>2, <1>3, <1>4

LEMMA FrameUpdate ==
  ASSUME NEW A, NEW B, NEW t \in [file : A, todo : B], NEW x
  PROVE  [t EXCEPT !.todo = x] = [file |-> t.file, todo |-> x]
OBVIOUS

(* The visit of an import takes it off the list of the file on top.        *)
LEMMA PoppedShape ==
  ASSUME Shape, stack # <<>>, Top.todo # <<>>
  PROVE  /\ Popped \in Seq(Frames) /\ Len(Popped) = Len(stack)
         /\ \A i \in 1 .. Len(stack) : Popped[i].file = stack[i].file
         /\ \A i \in 2 .. Len(stack) : Popped[i].todo = stack[i].todo
         /\ ToSet(Top.todo) = {NextImport} \cup ToSet(Popped[1].todo)
         /\ NextImport \in Known
<1>1. /\ Len(stack) \in Nat /\ DOMAIN stack = 1 .. Len(stack) /\ 1 \in 1 .. Len(stack)
      /\ \A i \in 1 .. Len(stack) :
           stack[i] \in Frames /\ stack[i].file \in DOMAIN proj /\ stack[i].todo \in Seq(Known)
  BY FrameList
<1>2. Top \in Frames /\ Top.todo \in Seq(Known) /\ Top = stack[1]
  BY <1>1 DEF Top
<1>3. /\ NextImport \in Known /\ Tail(Top.todo) \in Seq(Known)
      /\ Len(Tail(Top.todo)) = Len(Top.todo) - 1
      /\ \A i \in 1 .. Len(Tail(Top.todo)) : Tail(Top.todo)[i] = Top.todo[i + 1]
  BY <1>2, HeadTailProperties DEF NextImport
<1> DEFINE fr == [file |-> Top.file, todo |-> Tail(Top.todo)]
<1>4. fr \in Frames
  BY <1>1, <1>2, <1>3 DEF Frames
<1>5. Popped = [stack EXCEPT ![1] = fr]
  <2>1. Top \in [file : DOMAIN proj, todo : Seq(Known)] /\ Top = stack[1]
    BY <1>2 DEF Frames
  <2>2. [Top EXCEPT !.todo = Tail(@)] = fr
    BY <2>1, FrameUpdate
  <2>3. Popped = [stack EXCEPT ![1] = [Top EXCEPT !.todo = Tail(@)]]
    BY <1>1, <2>1 DEF Popped
  <2> QED BY <2>2, <2>3
<1>6. /\ Popped \in Seq(Frames) /\ Len(Popped) = Len(stack)
      /\ \A i \in 1 .. Len(stack) : Popped[i] = IF i = 1 THEN fr ELSE stack[i]
  <2>1. stack \in Seq(Frames)
    BY DEF Shape, ListsRight
  <2> HIDE DEF fr
  <2> QED BY <1>1, <1>4, <1>5, <2>1, ExceptSeq
<1>7. Top.todo[1] = NextImport /\ Len(Top.todo) \in Nat /\ Len(Top.todo) >= 1
      /\ DOMAIN Top.todo = 1 .. Len(Top.todo)
  BY <1>2, EmptySeq, LenProperties DEF NextImport
<1>8. DOMAIN Tail(Top.todo) = 1 .. Len(Top.todo) - 1
  BY <1>3, <1>7, LenProperties
<1>9. ToSet(Top.todo) = {NextImport} \cup ToSet(Tail(Top.todo))
  <2>1. ASSUME NEW i \in 1 .. Len(Top.todo) PROVE Top.todo[i] \in {NextImport} \cup ToSet(Tail(Top.todo))
    <3>1. CASE i = 1
      BY <3>1, <1>7
    <3>2. CASE i # 1
      <4>1. i - 1 \in DOMAIN Tail(Top.todo) /\ Tail(Top.todo)[i - 1] = Top.todo[(i - 1) + 1]
        BY <3>2, <2>1, <1>3, <1>7, <1>8
      <4>2. Tail(Top.todo)[i - 1] = Top.todo[i]
        BY <4>1, <2>1, <1>7
      <4> QED BY <4>1, <4>2 DEF ToSet
    <3> QED BY <3>1, <3>2
  <2>2. ASSUME NEW i \in 1 .. Len(Top.todo) - 1 PROVE Tail(Top.todo)[i] \in ToSet(Top.todo)
    <3>1. i + 1 \in 1 .. Len(Top.todo) /\ Tail(Top.todo)[i] = Top.todo[i + 1]
      BY <2>2, <1>3, <1>7
    <3> QED BY <3>1, <1>7 DEF ToSet
  <2>3. NextImport \in ToSet(Top.todo)
    BY <1>7 DEF ToSet
  <2> QED BY <2>1, <2>2, <2>3, <1>7, <1>8 DEF ToSet
<1>10. Popped[1].todo = Tail(Top.todo)
  <2>1. Popped[1] = fr
    BY <1>1, <1>6
  <2> QED BY <2>1
<1>11. /\ \A i \in 1 .. Len(stack) : Popped[i].file = stack[i].file
       /\ \A i \in 2 .. Len(stack) : Popped[i].todo = stack[i].todo
  BY <1>1, <1>2, <1>6
<1> QED BY <1>3, <1>6, <1>9, <1>10, <1>11

LEMMA LoadInit == Init => LoadInv
<1> SUFFICES ASSUME Init PROVE LoadInv
  OBVIOUS
<1> DEFINE fr == [file |-> Entry, todo |-> proj[Entry].imports]
<1>1. proj \in Projects /\ phase = "load" /\ stack = <<fr>> /\ files = <<>>
  BY DEF Init
<1>2. Entry \in DOMAIN proj
  BY <1>1, Files
<1>3. proj[Entry].imports \in Seq(Known) /\ ImportsOf(Entry) = ToSet(proj[Entry].imports)
  BY <1>1, <1>2, ImportsKnown
<1>4. fr \in Frames /\ fr.file = Entry /\ fr.todo = proj[Entry].imports
  BY <1>2, <1>3 DEF Frames
<1> HIDE DEF fr
<1>5. /\ <<fr>> \in Seq(Frames) /\ Len(<<fr>>) = 1 /\ <<fr>>[1] = fr /\ <<fr>> # <<>>
      /\ <<>> \in Seq(DOMAIN proj)
  BY <1>4
<1>6. ToSet(<<>>) = {} /\ Len(<<>>) = 0
  BY DEF ToSet
<1>7. ListsRight(phase, stack, files)
  BY <1>1, <1>5 DEF ListsRight, Phases
<1>8. Entry \in From({Entry})
  BY <1>1, EntryKnown
<1>9. StackRight(stack, files)
  <2>1. \A i \in 1 .. 1 : <<fr>>[i] = fr
    BY <1>5
  <2> QED BY <2>1, <1>1, <1>3, <1>4, <1>5, <1>6, <1>8 DEF StackRight
<1>10. FilesRight(phase, stack, files)
  BY <1>1, <1>5, <1>6 DEF FilesRight
<1> QED BY <1>7, <1>9, <1>10 DEF LoadInv, LoadRight

(* An import that is being visited closes a cycle.                         *)
LEMMA CycleFound ==
  ASSUME LoadInv, Visiting, InStack(NextImport)
  PROVE  HasCycle
<1>1. Shape /\ StackRight(stack, files) /\ FilesRight(phase, stack, files)
      /\ stack # <<>> /\ Top.todo # <<>>
  BY DEF LoadInv, LoadRight, Shape, Visiting, FilesRight
<1>2. /\ Len(stack) \in Nat /\ DOMAIN stack = 1 .. Len(stack) /\ Len(stack) >= 1
      /\ \A i \in 1 .. Len(stack) : stack[i].file \in DOMAIN proj
  BY <1>1, FrameList
<1> DEFINE f == stack[1].file
<1>3. NextImport \in ToSet(stack[1].todo) /\ NextImport \in ImportsOf(f)
  <2>1. NextImport \in ToSet(Top.todo)
    BY <1>1, PoppedShape
  <2>2. 1 \in 1 .. Len(stack)
    BY <1>2
  <2>3. ToSet(stack[1].todo) \subseteq ImportsOf(stack[1].file)
    BY <2>2, <1>1 DEF StackRight
  <2> QED BY <2>1, <2>3 DEF Top
<1>4. PICK i \in 1 .. Len(stack) : stack[i].file = NextImport
  BY <1>2 DEF InStack
<1>5. ASSUME NEW S \in Closed, ImportsOf(f) \subseteq S PROVE f \in S
  <2> DEFINE T == {n \in Nat : n < i => stack[i - n].file \in S}
  <2>1. 0 \in T
    BY <1>3, <1>4, <1>5
  <2>2. ASSUME NEW n \in T PROVE n + 1 \in T
    <3> SUFFICES ASSUME n + 1 < i PROVE stack[i - (n + 1)].file \in S
      OBVIOUS
    <3>1. i - n \in 2 .. Len(stack) /\ stack[i - n].file \in S
      BY <1>2
    <3>2. stack[(i - n) - 1].file \in ImportsOf(stack[i - n].file)
      BY <3>1, <1>1 DEF StackRight
    <3>3. stack[(i - n) - 1].file \in S
      BY <3>1, <3>2, <1>5 DEF Closed
    <3> QED BY <3>3
  <2> HIDE DEF T
  <2>3. T = Nat
    <3>1. T \in SUBSET Nat
      BY DEF T
    <3> QED BY <3>1, <2>1, <2>2, SetInduction
  <2>4. i - 1 \in T
    BY <2>3
  <2> QED BY <2>4 DEF T
<1>6. f \in Known /\ f \in From({Entry})
  <2>1. 1 \in 1 .. Len(stack)
    BY <1>2
  <2>2. stack[1].file \in DOMAIN proj /\ stack[1].file \in From({Entry})
    BY <2>1, <1>1, <1>2 DEF StackRight
  <2> QED BY <2>2 DEF Known
<1>7. f \in From(ImportsOf(f))
  BY <1>5, <1>6 DEF From
<1> QED BY <1>6, <1>7 DEF HasCycle

LEMMA CyclicLoad ==
  ASSUME LoadInv, Cyclic
  PROVE  LoadInv'
<1>1. HasCycle
  BY CycleFound DEF Cyclic
<1>2. phase' = "cyclic" /\ stack' = stack /\ files' = files /\ proj' = proj
  BY DEF Cyclic, LoadDone
<1>3. LoadRight("cyclic", stack, files)
  BY <1>1 DEF LoadInv, LoadRight, ListsRight, Phases, FilesRight
<1> QED BY <1>2, <1>3, NextLoad

LEMMA ReadFailsLoad ==
  ASSUME LoadInv, ReadFails
  PROVE  LoadInv'
<1>1. phase' = "unreadable" /\ stack' = stack /\ files' = files /\ proj' = proj
  BY DEF ReadFails, LoadDone
<1>2. LoadRight("unreadable", stack, files)
  BY DEF LoadInv, LoadRight, ListsRight, Phases, FilesRight
<1> QED BY <1>1, <1>2, NextLoad

LEMMA HaveFileLoad ==
  ASSUME LoadInv, HaveFile
  PROVE  LoadInv'
<1>1. Shape /\ StackRight(stack, files) /\ FilesRight(phase, stack, files)
      /\ stack # <<>> /\ Top.todo # <<>> /\ phase = "load"
  BY DEF LoadInv, LoadRight, Shape, HaveFile, Visiting, FilesRight
<1>2. /\ Len(stack) \in Nat /\ Len(stack) >= 1 /\ Top = stack[1]
      /\ \A i \in 1 .. Len(stack) : stack[i].file \in DOMAIN proj
  BY <1>1, FrameList DEF Top
<1>3. NextImport \in ToSet(files)
  BY <1>1, FileList DEF HaveFile, Contains, Loaded
<1>4. /\ Popped \in Seq(Frames) /\ Len(Popped) = Len(stack)
      /\ \A i \in 1 .. Len(stack) : Popped[i].file = stack[i].file
      /\ \A i \in 2 .. Len(stack) : Popped[i].todo = stack[i].todo
      /\ ToSet(stack[1].todo) = {NextImport} \cup ToSet(Popped[1].todo)
  BY <1>1, <1>2, PoppedShape
<1>5. Popped # <<>>
  BY <1>2, <1>4, EmptySeq
<1>6. StackRight(Popped, files)
  <2>1. ASSUME NEW i \in 1 .. Len(stack)
        PROVE  /\ ToSet(Popped[i].todo) \subseteq ImportsOf(stack[i].file)
               /\ \A m \in ImportsOf(stack[i].file) :
                    \/ m \in ToSet(files) \/ m \in ToSet(Popped[i].todo)
                    \/ i > 1 /\ m = Popped[i - 1].file
    <3>1. CASE i = 1
      <4>1. ToSet(stack[1].todo) \subseteq ImportsOf(stack[1].file)
        BY <3>1, <2>1, <1>1 DEF StackRight
      <4>2. \A m \in ImportsOf(stack[1].file) :
              m \in ToSet(files) \/ m \in ToSet(stack[1].todo)
        BY <3>1, <2>1, <1>1 DEF StackRight
      <4> QED BY <3>1, <4>1, <4>2, <1>3, <1>4
    <3>2. CASE i # 1
      <4>1. i \in 2 .. Len(stack) /\ i - 1 \in 1 .. Len(stack)
        BY <3>2, <1>2
      <4> QED BY <4>1, <1>1, <1>4 DEF StackRight
    <3> QED BY <3>1, <3>2
  <2>2. /\ \A i \in 2 .. Len(stack) : i - 1 \in 1 .. Len(stack) /\ i \in 1 .. Len(stack)
        /\ Len(stack) \in 1 .. Len(stack)
    BY <1>2
  <2> QED BY <2>1, <2>2, <1>1, <1>2, <1>4 DEF StackRight
<1>7. LoadRight(phase, Popped, files)
  BY <1>1, <1>4, <1>5, <1>6 DEF LoadRight, Shape, ListsRight, FilesRight
<1>8. phase' = phase /\ stack' = Popped /\ files' = files /\ proj' = proj
  BY DEF HaveFile, LoadDone
<1> QED BY <1>7, <1>8, NextLoad

(* One element in front of a sequence.                                     *)
LEMMA InFront ==
  ASSUME NEW S, NEW s \in Seq(S), NEW e \in S
  PROVE  /\ <<e>> \o s \in Seq(S) /\ Len(<<e>> \o s) = Len(s) + 1
         /\ (<<e>> \o s)[1] = e
         /\ \A i \in 2 .. Len(s) + 1 : (<<e>> \o s)[i] = s[i - 1]
         /\ ToSet(<<e>> \o s) = {e} \cup ToSet(s)
         /\ <<e>> \o s # <<>>
<1>1. /\ <<e>> \in Seq(S) /\ Len(<<e>>) = 1 /\ <<e>>[1] = e /\ Len(s) \in Nat
      /\ DOMAIN s = 1 .. Len(s)
  OBVIOUS
<1> DEFINE t == <<e>> \o s
<1>2. /\ t \in Seq(S) /\ Len(t) = 1 + Len(s)
      /\ \A i \in 1 .. 1 + Len(s) : t[i] = IF i <= 1 THEN <<e>>[i] ELSE s[i - 1]
  BY <1>1, ConcatProperties
<1> HIDE DEF t
<1>3. t[1] = e /\ \A i \in 2 .. Len(s) + 1 : t[i] = s[i - 1]
  BY <1>1, <1>2
<1>4. DOMAIN t = 1 .. Len(s) + 1
  BY <1>1, <1>2
<1>5. ToSet(t) = {e} \cup ToSet(s)
  <2>1. ASSUME NEW i \in 1 .. Len(s) + 1 PROVE t[i] \in {e} \cup ToSet(s)
    <3>1. CASE i = 1
      BY <3>1, <1>3
    <3>2. CASE i # 1
      <4>1. i \in 2 .. Len(s) + 1 /\ i - 1 \in 1 .. Len(s)
        BY <3>2, <1>1
      <4> QED BY <4>1, <1>1, <1>3 DEF ToSet
    <3> QED BY <3>1, <3>2
  <2>2. ASSUME NEW i \in 1 .. Len(s) PROVE s[i] \in ToSet(t)
    <3>1. i + 1 \in 2 .. Len(s) + 1 /\ t[i + 1] = s[(i + 1) - 1]
      BY <1>1, <1>3
    <3>2. t[i + 1] = s[i]
      BY <3>1, <1>1
    <3> QED BY <3>1, <3>2, <1>4 DEF ToSet
  <2>3. e \in ToSet(t)
    BY <1>1, <1>3, <1>4 DEF ToSet
  <2> QED BY <2>1, <2>2, <2>3, <1>1, <1>4 DEF ToSet
<1>6. t # <<>>
  BY <1>1, <1>2, EmptySeq
<1> QED BY <1>1, <1>2, <1>3, <1>5, <1>6 DEF t

LEMMA VisitLoad ==
  ASSUME LoadInv, Visit
  PROVE  LoadInv'
<1>1. Shape /\ StackRight(stack, files) /\ FilesRight(phase, stack, files)
      /\ stack # <<>> /\ Top.todo # <<>> /\ phase = "load" /\ proj \in Projects
  BY DEF LoadInv, LoadRight, Shape, ListsRight, Visit, Visiting, FilesRight
<1>2. /\ Len(stack) \in Nat /\ Len(stack) >= 1 /\ Top = stack[1] /\ 1 \in 1 .. Len(stack)
      /\ \A i \in 1 .. Len(stack) : stack[i].file \in DOMAIN proj
      /\ DOMAIN stack = 1 .. Len(stack)
  BY <1>1, FrameList DEF Top
<1> DEFINE m == NextImport
           fr == Frame(m)
<1>3. /\ Popped \in Seq(Frames) /\ Len(Popped) = Len(stack)
      /\ \A i \in 1 .. Len(stack) : Popped[i].file = stack[i].file
      /\ \A i \in 2 .. Len(stack) : Popped[i].todo = stack[i].todo
      /\ ToSet(stack[1].todo) = {m} \cup ToSet(Popped[1].todo)
  BY <1>1, <1>2, PoppedShape
<1>4. /\ m \in DOMAIN proj /\ m \notin ToSet(files)
      /\ \A i \in 1 .. Len(stack) : stack[i].file # m
  BY <1>1, <1>2, FileList DEF Visit, InStack, Contains, Loaded
<1>5. fr \in Frames /\ fr.file = m /\ ToSet(fr.todo) = ImportsOf(m)
  BY <1>1, <1>4, ImportsKnown DEF Frame, Frames
<1>6. ImportsOf(stack[1].file) \subseteq From({Entry}) /\ m \in ImportsOf(stack[1].file)
  <2>1. stack[1].file \in From({Entry}) /\ ToSet(stack[1].todo) \subseteq ImportsOf(stack[1].file)
    BY <1>1, <1>2 DEF StackRight
  <2> QED BY <2>1, <1>3, FromClosed
<1> DEFINE st == <<fr>> \o Popped
<1>7. /\ stack' = st /\ phase' = phase /\ files' = files /\ proj' = proj
  BY DEF Visit, LoadDone
<1> HIDE DEF m, fr
<1>8. /\ st \in Seq(Frames) /\ Len(st) = Len(stack) + 1 /\ st[1] = fr /\ st # <<>>
      /\ \A i \in 2 .. Len(stack) + 1 : st[i] = Popped[i - 1]
  BY <1>3, <1>5, InFront
<1>9. st[1].file = m /\ ToSet(st[1].todo) = ImportsOf(m)
  BY <1>5, <1>8
<1> HIDE DEF st
<1>10. \A i \in 2 .. Len(st) : /\ i - 1 \in 1 .. Len(stack) /\ i \in 1 .. Len(st)
                              /\ st[i].file = stack[i - 1].file
                              /\ st[i].todo = Popped[i - 1].todo
  BY <1>2, <1>3, <1>8
<1>11. \A i \in 1 .. Len(st) : i = 1 \/ i \in 2 .. Len(st)
  BY <1>2, <1>8
<1>12. StackRight(st, files)
  <2>1. \A i, j \in 1 .. Len(st) : st[i].file = st[j].file => i = j
    <3> SUFFICES ASSUME NEW i \in 1 .. Len(st), NEW j \in 1 .. Len(st), st[i].file = st[j].file
                 PROVE  i = j
      OBVIOUS
    <3>1. CASE i = 1
      BY <3>1, <1>4, <1>9, <1>10, <1>11
    <3>2. CASE j = 1
      BY <3>2, <1>4, <1>9, <1>10, <1>11
    <3>3. CASE i # 1 /\ j # 1
      <4>1. i - 1 \in 1 .. Len(stack) /\ j - 1 \in 1 .. Len(stack)
            /\ stack[i - 1].file = stack[j - 1].file
        BY <3>3, <1>10, <1>11
      <4>2. i - 1 = j - 1
        BY <4>1, <1>1 DEF StackRight
      <4> QED BY <4>2
    <3> QED BY <3>1, <3>2, <3>3
  <2>2. \A i \in 1 .. Len(st) : st[i].file \notin ToSet(files) /\ st[i].file \in From({Entry})
    BY <1>1, <1>4, <1>6, <1>9, <1>10, <1>11, Zenon DEF StackRight
  <2>3. \A i \in 2 .. Len(st) : st[i - 1].file \in ImportsOf(st[i].file)
    <3> SUFFICES ASSUME NEW i \in 2 .. Len(st) PROVE st[i - 1].file \in ImportsOf(st[i].file)
      OBVIOUS
    <3>1. CASE i = 2
      BY <3>1, <1>6, <1>9, <1>10
    <3>2. CASE i # 2
      <4>1. i - 1 \in 2 .. Len(st) /\ i - 1 \in 2 .. Len(stack)
        BY <3>2, <1>2, <1>8
      <4>2. st[i].file = stack[i - 1].file /\ st[i - 1].file = stack[(i - 1) - 1].file
        BY <4>1, <1>10
      <4> QED BY <4>1, <4>2, <1>1 DEF StackRight
    <3> QED BY <3>1, <3>2
  <2>4. st[Len(st)].file = Entry
    <3>1. Len(st) \in 2 .. Len(st) /\ Len(st) - 1 = Len(stack)
      BY <1>2, <1>8
    <3> QED BY <3>1, <1>1, <1>10 DEF StackRight
  <2>5. \A i \in 1 .. Len(st) :
          /\ ToSet(st[i].todo) \subseteq ImportsOf(st[i].file)
          /\ \A n \in ImportsOf(st[i].file) :
               n \in ToSet(files) \/ n \in ToSet(st[i].todo) \/ (i > 1 /\ n = st[i - 1].file)
    <3> SUFFICES ASSUME NEW i \in 1 .. Len(st)
                 PROVE  /\ ToSet(st[i].todo) \subseteq ImportsOf(st[i].file)
                        /\ \A n \in ImportsOf(st[i].file) :
                             \/ n \in ToSet(files) \/ n \in ToSet(st[i].todo)
                             \/ i > 1 /\ n = st[i - 1].file
      OBVIOUS
    <3>1. CASE i = 1
      BY <3>1, <1>9
    <3>2. CASE i = 2
      <4>1. st[2].file = stack[1].file /\ st[2].todo = Popped[1].todo
        BY <3>2, <1>8, <1>2, <1>10
      <4>2. /\ ToSet(stack[1].todo) \subseteq ImportsOf(stack[1].file)
            /\ \A n \in ImportsOf(stack[1].file) :
                 n \in ToSet(files) \/ n \in ToSet(stack[1].todo)
        BY <1>1, <1>2 DEF StackRight
      <4> QED BY <3>2, <4>1, <4>2, <1>3, <1>9
    <3>3. CASE i > 2
      <4> DEFINE k == i - 1
      <4>1. k \in 2 .. Len(stack) /\ i \in 2 .. Len(st) /\ k \in 2 .. Len(st)
            /\ k \in 1 .. Len(stack) /\ k - 1 \in 1 .. Len(stack)
        BY <3>3, <1>2, <1>8
      <4>2. st[i].file = stack[k].file /\ st[i].todo = stack[k].todo
        BY <4>1, <1>3, <1>10
      <4>3. st[i - 1].file = stack[k - 1].file
        BY <4>1, <1>10
      <4> HIDE DEF k
      <4>4. /\ ToSet(stack[k].todo) \subseteq ImportsOf(stack[k].file)
            /\ \A n \in ImportsOf(stack[k].file) :
                 n \in ToSet(files) \/ n \in ToSet(stack[k].todo) \/ n = stack[k - 1].file
        BY <4>1, <1>1 DEF StackRight
      <4> QED BY <3>3, <4>2, <4>3, <4>4
    <3> QED BY <3>1, <3>2, <3>3
  <2> QED BY <2>1, <2>2, <2>3, <2>4, <2>5 DEF StackRight
<1>13. LoadRight(phase, st, files)
  BY <1>1, <1>8, <1>12 DEF LoadRight, Shape, ListsRight, FilesRight
<1> QED BY <1>7, <1>13, NextLoad

LEMMA VisitReturnsLoad ==
  ASSUME LoadInv, VisitReturns
  PROVE  LoadInv'
<1>1. Shape /\ StackRight(stack, files) /\ FilesRight(phase, stack, files)
      /\ stack # <<>> /\ Top.todo = <<>> /\ phase = "load"
      /\ proj \in Projects /\ stack \in Seq(Frames) /\ files \in Seq(DOMAIN proj)
  BY DEF LoadInv, LoadRight, Shape, ListsRight, VisitReturns, FilesRight
<1>2. /\ Len(stack) \in Nat /\ Len(stack) >= 1 /\ Top = stack[1] /\ 1 \in 1 .. Len(stack)
      /\ \A i \in 1 .. Len(stack) : stack[i].file \in DOMAIN proj
      /\ Len(files) \in Nat
  BY <1>1, FrameList, FileList DEF Top
<1> DEFINE f == Top.file
           fl == <<f>> \o files
           st == Tail(stack)
<1>3. f \in DOMAIN proj /\ f = stack[1].file /\ f \notin ToSet(files) /\ f \in From({Entry})
  BY <1>1, <1>2 DEF StackRight
<1>4. ImportsOf(f) \subseteq ToSet(files)
  <2>1. ToSet(stack[1].todo) = {}
    BY <1>1, <1>2 DEF ToSet
  <2>2. \A m \in ImportsOf(stack[1].file) : m \in ToSet(files) \/ m \in ToSet(stack[1].todo)
    BY <1>1, <1>2 DEF StackRight
  <2> QED BY <2>1, <2>2, <1>3
<1>5. /\ files' = fl /\ stack' = st /\ phase' = (IF st = <<>> THEN "loaded" ELSE "load")
      /\ proj' = proj
  BY DEF VisitReturns, LoadDone
<1> HIDE DEF f
<1>6. /\ fl \in Seq(DOMAIN proj) /\ Len(fl) = Len(files) + 1 /\ fl[1] = f /\ fl # <<>>
      /\ \A i \in 2 .. Len(files) + 1 : fl[i] = files[i - 1]
      /\ ToSet(fl) = {f} \cup ToSet(files)
  BY <1>1, <1>3, InFront
<1>7. /\ st \in Seq(Frames) /\ Len(st) = Len(stack) - 1
      /\ \A i \in 1 .. Len(st) : st[i] = stack[i + 1]
  BY <1>1, HeadTailProperties
<1> HIDE DEF fl, st
<1>8. \A i \in 1 .. Len(st) : i + 1 \in 2 .. Len(stack) /\ i + 1 \in 1 .. Len(stack)
                              /\ i \in 1 .. Len(stack)
  BY <1>2, <1>7
<1>9. StackRight(st, fl)
  <2>1. \A i, j \in 1 .. Len(st) : st[i].file = st[j].file => i = j
    <3> SUFFICES ASSUME NEW i \in 1 .. Len(st), NEW j \in 1 .. Len(st), st[i].file = st[j].file
                 PROVE  i = j
      OBVIOUS
    <3>1. /\ i + 1 \in 1 .. Len(stack) /\ j + 1 \in 1 .. Len(stack)
          /\ stack[i + 1].file = stack[j + 1].file
      BY <1>7, <1>8
    <3>2. i + 1 = j + 1
      BY <3>1, <1>1 DEF StackRight
    <3> QED BY <3>2
  <2>2. ASSUME NEW i \in 1 .. Len(st)
        PROVE  st[i].file \notin ToSet(fl) /\ st[i].file \in From({Entry})
    <3>1. stack[i + 1].file # stack[1].file
      <4>1. i + 1 # 1
        OBVIOUS
      <4> QED BY <4>1, <1>1, <1>2, <1>8 DEF StackRight
    <3>2. stack[i + 1].file \notin ToSet(files) /\ stack[i + 1].file \in From({Entry})
      BY <1>1, <1>8 DEF StackRight
    <3> QED BY <3>1, <3>2, <1>3, <1>6, <1>7
  <2>3. \A i \in 2 .. Len(st) : st[i - 1].file \in ImportsOf(st[i].file)
    <3> SUFFICES ASSUME NEW i \in 2 .. Len(st) PROVE st[i - 1].file \in ImportsOf(st[i].file)
      OBVIOUS
    <3>1. i + 1 \in 2 .. Len(stack) /\ i - 1 \in 1 .. Len(st) /\ i \in 1 .. Len(st)
          /\ (i + 1) - 1 = (i - 1) + 1
      BY <1>2, <1>7
    <3>2. stack[(i + 1) - 1].file \in ImportsOf(stack[i + 1].file)
      BY <3>1, <1>1 DEF StackRight
    <3> QED BY <3>1, <3>2, <1>7
  <2>4. st # <<>> => st[Len(st)].file = Entry
    <3> SUFFICES ASSUME st # <<>> PROVE st[Len(st)].file = Entry
      OBVIOUS
    <3>1. Len(st) \in 1 .. Len(st) /\ Len(st) + 1 = Len(stack)
      BY <1>2, <1>7, EmptySeq
    <3> QED BY <3>1, <1>1, <1>7 DEF StackRight
  <2>5. ASSUME NEW i \in 1 .. Len(st)
        PROVE  /\ ToSet(st[i].todo) \subseteq ImportsOf(st[i].file)
               /\ \A m \in ImportsOf(st[i].file) :
                    m \in ToSet(fl) \/ m \in ToSet(st[i].todo) \/ (i > 1 /\ m = st[i - 1].file)
    <3> DEFINE k == i + 1
    <3>1. k \in 2 .. Len(stack) /\ k \in 1 .. Len(stack) /\ k > 1 /\ k - 1 = i /\ st[i] = stack[k]
      BY <1>7, <1>8
    <3>2. i > 1 => st[i - 1] = stack[i]
      <4> SUFFICES ASSUME i > 1 PROVE st[i - 1] = stack[i]
        OBVIOUS
      <4>1. i - 1 \in 1 .. Len(st) /\ (i - 1) + 1 = i
        BY <1>2, <1>7
      <4> QED BY <4>1, <1>7
    <3> HIDE DEF k
    <3>3. /\ ToSet(stack[k].todo) \subseteq ImportsOf(stack[k].file)
          /\ \A m \in ImportsOf(stack[k].file) :
               m \in ToSet(files) \/ m \in ToSet(stack[k].todo) \/ m = stack[k - 1].file
      BY <3>1, <1>1 DEF StackRight
    <3>4. i = 1 => stack[k - 1].file = f
      BY <3>1, <1>3
    <3>5. i = 1 \/ i > 1
      BY <1>2, <1>7
    <3> QED BY <3>1, <3>2, <3>3, <3>4, <3>5, <1>6
  <2> QED BY <2>1, <2>2, <2>3, <2>4, <2>5 DEF StackRight
<1>10. \A i \in 1 .. Len(fl) : i = 1 \/ (i \in 2 .. Len(files) + 1 /\ i - 1 \in 1 .. Len(files))
  BY <1>2, <1>6
<1>11. \A i \in 1 .. Len(files) : /\ files[i] \in ToSet(files) /\ files[i] # f
                                  /\ i + 1 \in 1 .. Len(fl) /\ fl[i + 1] = files[i]
  <2>1. \A i \in 1 .. Len(files) : files[i] \in ToSet(files)
    BY <1>1, FileList DEF Loaded
  <2>2. ASSUME NEW i \in 1 .. Len(files) PROVE i + 1 \in 1 .. Len(fl) /\ fl[i + 1] = files[i]
    <3>1. i + 1 \in 2 .. Len(files) + 1 /\ (i + 1) - 1 = i /\ i + 1 \in 1 .. Len(fl)
      BY <1>2, <1>6
    <3>2. fl[i + 1] = files[(i + 1) - 1]
      BY <3>1, <1>6
    <3> QED BY <3>1, <3>2
  <2> QED BY <2>1, <2>2, <1>3
<1>12. \A i, j \in 1 .. Len(fl) : fl[i] = fl[j] => i = j
  <2> SUFFICES ASSUME NEW i \in 1 .. Len(fl), NEW j \in 1 .. Len(fl), fl[i] = fl[j]
               PROVE  i = j
    OBVIOUS
  <2>1. CASE i = 1
    BY <2>1, <1>6, <1>10, <1>11
  <2>2. CASE j = 1
    BY <2>2, <1>6, <1>10, <1>11
  <2>3. CASE i # 1 /\ j # 1
    <3>1. i - 1 \in 1 .. Len(files) /\ j - 1 \in 1 .. Len(files) /\ files[i - 1] = files[j - 1]
      BY <2>3, <1>6, <1>10
    <3>2. i - 1 = j - 1
      BY <3>1, <1>1 DEF FilesRight
    <3> QED BY <3>2
  <2> QED BY <2>1, <2>2, <2>3
<1>13. ASSUME NEW i \in 1 .. Len(fl), NEW m \in ImportsOf(fl[i])
       PROVE  \E j \in i + 1 .. Len(fl) : fl[j] = m
  <2>1. CASE i = 1
    <3>1. PICK k \in 1 .. Len(files) : files[k] = m
      BY <2>1, <1>1, <1>4, <1>6, <1>13, FileList DEF Loaded
    <3>2. k + 1 \in i + 1 .. Len(fl)
      BY <3>1, <2>1, <1>2, <1>6
    <3> QED BY <3>1, <3>2, <1>11
  <2>2. CASE i # 1
    <3>1. i - 1 \in 1 .. Len(files) /\ fl[i] = files[i - 1]
      BY <2>2, <1>6, <1>10
    <3>2. PICK k \in (i - 1) + 1 .. Len(files) : files[k] = m
      BY <3>1, <1>1, <1>13 DEF FilesRight
    <3>3. k \in 1 .. Len(files) /\ k + 1 \in i + 1 .. Len(fl)
      BY <3>1, <3>2, <1>2, <1>6
    <3> QED BY <3>2, <3>3, <1>11
  <2> QED BY <2>1, <2>2
<1>14. st = <<>> => fl[1] = Entry
  <2> SUFFICES ASSUME st = <<>> PROVE fl[1] = Entry
    OBVIOUS
  <2>1. Len(stack) = 1
    BY <1>2, <1>7
  <2> QED BY <2>1, <1>1, <1>3, <1>6 DEF StackRight
<1> DEFINE ph == IF st = <<>> THEN "loaded" ELSE "load"
<1>15. FilesRight(ph, st, fl)
  BY <1>1, <1>3, <1>6, <1>12, <1>13, <1>14 DEF FilesRight
<1>16. LoadRight(ph, st, fl)
  BY <1>1, <1>6, <1>7, <1>9, <1>15 DEF LoadRight, ListsRight, Phases
<1> QED BY <1>5, <1>16, NextLoad

(* After loading nothing changes the lists.                                *)
LEMMA LaterLoad ==
  ASSUME LoadInv, UNCHANGED <<proj, stack, files>>,
         phase \notin {"load", "cyclic", "unreadable"},
         phase' \in Phases \ {"load", "cyclic", "unreadable"}
  PROVE  LoadInv'
<1>1. LoadRight(phase', stack, files)
  BY DEF LoadInv, LoadRight, ListsRight, FilesRight
<1> QED BY <1>1, NextLoad

LEMMA LoadStep ==
  ASSUME LoadInv, [Next]_vars
  PROVE  LoadInv'
<1>1. CASE Cyclic
  BY <1>1, CyclicLoad
<1>2. CASE HaveFile
  BY <1>2, HaveFileLoad
<1>3. CASE ReadFails
  BY <1>3, ReadFailsLoad
<1>4. CASE Visit
  BY <1>4, VisitLoad
<1>5. CASE VisitReturns
  BY <1>5, VisitReturnsLoad
<1>6. CASE CheckLoaded
  BY <1>6, LaterLoad DEF CheckLoaded, Phases
<1>7. CASE StartFile
  BY <1>7, LaterLoad DEF StartFile, Phases
<1>8. CASE Item
  BY <1>8, LaterLoad DEF Item, Phases
<1>9. CASE EndFile
  <2>1. UNCHANGED <<proj, stack, files>> /\ phase = "items" /\ phase' \in {"checked", "check"}
    BY <1>9 DEF EndFile
  <2> QED BY <2>1, LaterLoad DEF Phases
<1>10. CASE Refuse
  BY <1>10, LaterLoad DEF Refuse, Phases
<1>11. CASE Link
  BY <1>11, LaterLoad DEF Link, Phases
<1>12. CASE Ended \/ UNCHANGED vars
  <2>1. phase' = phase /\ stack' = stack /\ files' = files /\ proj' = proj
    BY <1>12 DEF Ended, vars
  <2> QED BY <2>1, NextLoad DEF LoadInv
<1> QED BY <1>1, <1>2, <1>3, <1>4, <1>5, <1>6, <1>7, <1>8, <1>9, <1>10, <1>11, <1>12 DEF Next

(* When all is loaded, that is all the entry reaches, and no file is       *)
(* reached from its imports.                                               *)
LEMMA LoadComplete ==
  ASSUME LoadInv, phase \notin {"load", "cyclic", "unreadable"}
  PROVE  Loaded = From({Entry}) /\ ~HasCycle
<1>1. Shape /\ FilesRight(phase, stack, files) /\ files # <<>> /\ files[1] = Entry
      /\ proj \in Projects /\ files \in Seq(DOMAIN proj)
  BY DEF LoadInv, LoadRight, Shape, ListsRight, FilesRight
<1>2. /\ Len(files) \in Nat /\ Loaded \subseteq DOMAIN proj
      /\ Loaded = {files[i] : i \in 1 .. Len(files)} /\ 1 \in 1 .. Len(files)
  BY <1>1, FileList, EmptySeq
<1>3. Loaded \subseteq From({Entry})
  BY <1>1 DEF FilesRight, Loaded
<1> DEFINE After(i) == {files[j] : j \in i + 1 .. Len(files)}
<1>4. ASSUME NEW i \in 0 .. Len(files)
      PROVE  /\ After(i) \subseteq Known /\ \A f \in After(i) : ImportsOf(f) \subseteq After(i)
  <2>1. \A j \in i + 1 .. Len(files) : j \in 1 .. Len(files)
    BY <1>2
  <2>2. After(i) \subseteq Known
    BY <2>1, <1>2 DEF Known
  <2>3. ASSUME NEW j \in i + 1 .. Len(files), NEW m \in ImportsOf(files[j]) PROVE m \in After(i)
    <3>1. PICK k \in j + 1 .. Len(files) : files[k] = m
      BY <2>1, <2>3, <1>1 DEF FilesRight
    <3>2. k \in i + 1 .. Len(files)
      BY <2>3, <3>1, <1>2
    <3> QED BY <3>1, <3>2
  <2> QED BY <2>2, <2>3
<1>5. Loaded = After(0)
  BY <1>2
<1>6. From({Entry}) \subseteq Loaded
  <2>1. Entry \in After(0) /\ 0 \in 0 .. Len(files)
    BY <1>1, <1>2
  <2> HIDE DEF After
  <2> QED BY <2>1, <1>4, <1>5, FromLeast
<1>7. ~HasCycle
  <2> SUFFICES ASSUME NEW f \in From({Entry}), f \in From(ImportsOf(f)) PROVE FALSE
    BY DEF HasCycle
  <2>1. PICK i \in 1 .. Len(files) : files[i] = f
    BY <1>2, <1>6
  <2>2. ImportsOf(f) \subseteq After(i)
    <3>1. \A m \in ImportsOf(files[i]) : \E j \in i + 1 .. Len(files) : files[j] = m
      BY <1>1 DEF FilesRight
    <3> QED BY <2>1, <3>1
  <2>3. From(ImportsOf(f)) \subseteq After(i)
    <3>1. i \in 0 .. Len(files)
      BY <1>2
    <3> HIDE DEF After
    <3> QED BY <3>1, <2>2, <1>4, FromLeast
  <2>4. PICK j \in i + 1 .. Len(files) : files[j] = f
    BY <2>3
  <2>5. j \in 1 .. Len(files) /\ j # i
    BY <1>2, <2>4
  <2> QED BY <2>1, <2>4, <2>5, <1>1 DEF FilesRight
<1> QED BY <1>3, <1>6, <1>7

=============================================================================
