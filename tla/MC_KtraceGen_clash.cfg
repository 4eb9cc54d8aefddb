CONSTANTS
  Bins <- ClashBins
  NameOrder <- MCNameOrder
  MaxInvocations = 1
INIT Init
NEXT Next
PROPERTY TypedefStable
