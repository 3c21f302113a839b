SPECIFICATION Spec
CONSTANTS
    Imports = {i1}
    Readers = {r1}
    Memories <- FewMemories
    LimitSets <- FewLimits
    Unreported = unreported
    MaxBatch = 3
    MaxChanges = 1
INVARIANTS
    OutcomesMatch
    JudgedOnceInOrder
    CheckedBeforeSent
CHECK_DEADLOCK FALSE
