SPECIFICATION FairSpec
CONSTANTS
  b1 = b1  b2 = b2  b3 = b3  s1 = s1  r1 = r1  r2 = r2  r3 = r3
  Block <- MCBlockStatic
  Static <- MCStatic
  Reg <- MCReg3
  Shape <- MCShapeMixed
  NGlob = 1
  MaxTok = 1
  MaxSize = 4
  RcImmortal = 3
  Imm = Imm
INVARIANTS TypeOK GInv ShutdownExact
PROPERTIES Saturation CallsReturn
