SPECIFICATION Spec
CONSTANTS
  Trees <- ScopeTrees
  Sources <- ScopeSources
  Calls <- ScopeCalls
  Numbers <- MCNumbers
  Uppers <- MCUppers
  Lowers <- MCLowers
  Builtins <- MCBuiltins
  MaxInt = 131071
  WordBits = 20
INVARIANT RunsAsInterpreted
