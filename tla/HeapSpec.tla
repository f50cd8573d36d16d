----------------------------- MODULE HeapSpec ------------------------------
(***************************************************************************)
(* What the rest of rt5.c relies on from dc_alloc_rc and free_block: a     *)
(* block that is handed out is as long as requested, lies in memory the    *)
(* process owns and shares no word with a block that is still live.  Rt5Rc *)
(* rests on this when its Alloc takes any block that is not live.          *)
(***************************************************************************)
EXTENDS Integers

CONSTANTS Addr,      \* word addresses
          Requests   \* block lengths in words that are asked for

VARIABLE live        \* blocks handed out and not freed: [at, size]

Span(b) == b.at .. b.at + b.size - 1

Init == live = {}

Alloc(n) == \E a \in Addr :
              LET b == [at |-> a, size |-> n] IN
              /\ Span(b) \subseteq Addr
              /\ \A x \in live : Span(x) \cap Span(b) = {}
              /\ live' = live \cup {b}

Free(b) == live' = live \ {b}

Next == (\E n \in Requests : Alloc(n)) \/ (\E b \in live : Free(b))

Spec == Init /\ [][Next]_live
=============================================================================
