CONSTANTS
  Bins <- MCBins
  NameOrder <- MCNameOrder
  MaxInvocations = 2
SPECIFICATION FairSpec
INVARIANT DeclaredInv
PROPERTY InvocationEnds
