SPECIFICATION Spec
CONSTANTS
  b1 = b1  b2 = b2  b3 = b3  s1 = s1  r1 = r1  r2 = r2  r3 = r3
  Block <- MCBlock
  Static <- None
  Reg <- MCReg
  Shape <- MCShape
  NGlob = 1
  MaxTok = 1
  MaxSize = 4
  RcImmortal = 9
  Imm = Imm
SYMMETRY Symmetry
INVARIANTS RcExact NoAbort DyingUnowned NoGarbage
PROPERTIES NoVisibleMutation
