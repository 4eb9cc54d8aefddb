CONSTANT Dumps <- PrefixDumps
INIT Init
NEXT Next
CHECK_DEADLOCK FALSE
INVARIANT OffsetsFaithful
