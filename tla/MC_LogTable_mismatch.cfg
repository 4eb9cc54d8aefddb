CONSTANTS
  Images <- MismatchImages
  DictAttrs <- MCDictAttrs
  EnvSet = {TRUE}
  MaxArgs = 2
  MaxInvocations = 1
INIT Init
NEXT Next
PROPERTY WrittenFromImages
