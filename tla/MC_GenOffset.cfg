CONSTANT Dumps <- MCDumps
SPECIFICATION FairSpec
CHECK_DEADLOCK FALSE
INVARIANT OffsetsFaithful
INVARIANT SectionsFromDump
PROPERTY Terminates
PROPERTY AbsSpec
