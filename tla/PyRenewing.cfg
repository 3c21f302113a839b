SPECIFICATION FairSpec
CONSTANTS
    Calls = {l1, l2, l3}
    MaxMints = 3
INVARIANTS
    IInv
    SkewIsTheClock
PROPERTIES
    KeepsCustody
    LeasesSettle
CHECK_DEADLOCK FALSE
