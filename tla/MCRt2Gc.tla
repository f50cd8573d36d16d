------------------------------- MODULE MCRt2Gc -------------------------------
(* A small instance of Rt2Gc: a constructor with one field, a closure with  *)
(* one word, and a string whose bytes look like the address of a block.     *)
(* The number 128 is a word that looks like a header, and so do the         *)
(* addresses of the chunks.                                                 *)
EXTENDS Rt2Gc
Shape(tag, raw, values) == [tag |-> tag, raw |-> raw, values |-> values]
MCChunkAt == <<512, 1024>>
MCShapes == {Shape(3, <<1>>, 1), Shape(4, <<16, 1>>, 1), Shape(1, <<16, 512, 0, 0>>, 0)}
MCNumbers == {128}
=============================================================================
