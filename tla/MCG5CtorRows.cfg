SPECIFICATION Spec
CONSTANTS
  Programs <- MCCtorRows
  SomeTypes <- MCSomeTypes
  SomeRows <- MCSomeRows
INVARIANTS
  FieldsPresent
CHECK_DEADLOCK FALSE
