SPECIFICATION Spec
CONSTANTS
  Entry = "M"
  BuiltinTypes <- MCBuiltinTypes
  BuiltinVals <- MCBuiltinVals
  BuiltinCtors <- MCBuiltinCtors
  Reserved <- MCReserved
  Projects <- Captures
INVARIANT RunsAsChecked
