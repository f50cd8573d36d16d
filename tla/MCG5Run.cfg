SPECIFICATION FairSpec
CONSTANTS
  MaxDirect = 2
  Programs <- MCPrograms
  FunNames <- MCFunNames
  PairNames <- MCPairNames
  Skipped <- OnlyMix
INVARIANTS Faithful Balanced GarbageFree TokenFits ModesRight
PROPERTIES InferenceEnds
