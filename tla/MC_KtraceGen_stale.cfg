CONSTANTS
  Bins <- GoodBins
  NameOrder <- MCNameOrder
  MaxInvocations = 2
INIT Init
NEXT Next
PROPERTY CatalogComplete
