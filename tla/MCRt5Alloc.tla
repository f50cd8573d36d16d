----------------------------- MODULE MCRt5Alloc -----------------------------
(* A small instance of Rt5Alloc. *)
EXTENDS Rt5Alloc
MCRequests == {2, 3, 6, 7}
=============================================================================
