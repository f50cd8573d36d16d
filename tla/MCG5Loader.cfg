SPECIFICATION FairSpec
CONSTANTS
  Entry = "M"
  BuiltinTypes <- MCBuiltinTypes
  BuiltinVals <- MCBuiltinVals
  BuiltinCtors <- MCBuiltinCtors
  Reserved <- MCReserved
  Projects <- MCProjects
INVARIANTS LoadedRight VerdictRight GoodItemsChecked RunsAsCheckedKept InitOrder
PROPERTIES LoadEnds
