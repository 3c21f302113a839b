SPECIFICATION OpenFairSpec
CONSTANTS
    List = list
    Tools = tools
    Start = start
    Uses = {search}
    Calls = {list, tools, start, search}
    MaxMints = 2
    Awaiters = {v, w}
    MaxAttempts = 2
INVARIANTS
    FailedOpenHoldsNothing
    NoStaleRejection
    OneSession
PROPERTIES
    KeyGoesAfterFailure
    AwaitersSettle
CHECK_DEADLOCK FALSE
