------------------------------ MODULE MCRt5Rc ------------------------------
(* Small instances of Rt5Rc. *)
EXTENDS Rt5Rc, TLC

CONSTANTS b1, b2, b3, s1, r1, r2, r3

MCBlock == {b1, b2, b3}
MCBlockStatic == {b1, b2, s1}
MCStatic == {s1}
MCReg == {r1, r2}
MCReg3 == {r1, r2, r3}
MCShape == {<<"Tuple", 3>>, <<"Closure", 4>>}
MCShapeMixed == {<<"Tuple", 3>>, <<"ADT", 3>>, <<"Closure", 4>>, <<"String", 2>>}
None == {}
Symmetry == Permutations({b1, b2, b3}) \cup Permutations(MCReg)
SymmetryStatic == Permutations({b1, b2}) \cup Permutations(MCReg3)
=============================================================================
