CONSTANTS
  Bins <- OversizeBins
  NameOrder <- MCNameOrder
  MaxInvocations = 1
INIT Init
NEXT Next
INVARIANT FullsizeFillsBudget
