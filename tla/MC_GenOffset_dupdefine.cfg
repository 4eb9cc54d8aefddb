CONSTANT Dumps <- GoodDumps
INIT Init
NEXT Next
CHECK_DEADLOCK FALSE
INVARIANT DefinesUnique
