CONSTANTS
  Bins <- MCBins
  NameOrder <- MCNameOrder
  MaxInvocations = 1
INIT Init
NEXT Next
INVARIANT LayoutFaithful
INVARIANT FullsizeFillsBudget
INVARIANT EmittedTypesDeclared
PROPERTY CatalogComplete
