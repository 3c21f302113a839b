SPECIFICATION FairSpec
CONSTANTS
    Calls = {l1, l2, l3}
    MaxMints = 3
INVARIANTS
    IInv
PROPERTIES
    KeepsCustody
    LeasesSettle
    CloseCompletes
CHECK_DEADLOCK FALSE
