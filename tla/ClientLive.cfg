SPECIFICATION FairSpec
CONSTANTS
    s1 = s1
    s2 = s2
    m1 = m1
    m2 = m2
    m3 = m3
    m4 = m4
    alice = alice
    Own = Own
    Sessions = {s1, s2}
    Calls = {m1, m2}
    SessionOf <- EachSessionCalls
    UserOf <- OneUser
    Collectable = {s1}
    MaxKeys = 2
    ApiClient = TRUE
    SkewedClock = TRUE
INVARIANT
    IInv
PROPERTIES
    CloseCompletes
    CallsSettle
    RetiredIsSeenTo
CHECK_DEADLOCK FALSE
