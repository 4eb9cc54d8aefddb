CONSTANTS
  Bins <- TailPadBins
  NameOrder <- MCNameOrder
  MaxInvocations = 1
INIT Init
NEXT Next
INVARIANT LayoutFaithful
