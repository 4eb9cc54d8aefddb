CONSTANTS
  Bins <- ScopedEnumBins
  NameOrder <- MCNameOrder
  MaxInvocations = 1
INIT Init
NEXT Next
INVARIANT EmittedTypesPortable
