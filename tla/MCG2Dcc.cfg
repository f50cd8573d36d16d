SPECIFICATION Spec
CONSTANTS
  Trees <- MCTrees
  Sources <- MCSources
  Calls <- MCCalls
  Numbers <- MCNumbers
  Uppers <- MCUppers
  Lowers <- MCLowers
  Builtins <- MCBuiltins
  MaxInt = 131071
  WordBits = 20
INVARIANTS
  ReadsBack
  AcceptedRunsWell
  ObjectLinks
  RunsAsInterpreted
  StackKept
  RunsWhatItBuilt
PROPERTY DriverEnds
