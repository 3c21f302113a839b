SPECIFICATION FairSpec
CONSTANTS
    Calls = {l1, l2, l3}
    MaxFlights = 2
INVARIANTS
    IInv
    NeverNil
PROPERTIES
    KeepsCustody
    LeasesSettle
    CloseCompletes
CHECK_DEADLOCK FALSE
