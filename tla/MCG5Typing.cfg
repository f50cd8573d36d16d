SPECIFICATION Spec
CONSTANTS
  Programs <- MCPrograms
  SomeTypes <- MCSomeTypes
  SomeRows <- MCSomeRows
INVARIANTS
  MostGeneral
  ContractsExact
  FillsRecheck
  RunsAsTyped
CHECK_DEADLOCK FALSE
