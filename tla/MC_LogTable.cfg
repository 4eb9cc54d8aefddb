CONSTANTS
  Images <- MCImages
  DictAttrs <- MCDictAttrs
  EnvSet = {TRUE, FALSE}
  MaxArgs = 2
  MaxInvocations = 2
INIT Init
NEXT Next
INVARIANT EnumAligned
PROPERTY WrittenCoversImages
