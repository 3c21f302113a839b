SPECIFICATION FairSpec
CONSTANTS
    s1 = s1
    s2 = s2
    m1 = m1
    m2 = m2
    c1 = c1
    alice = alice
    Own = Own
    Sessions = {s1, s2}
    Calls = {m1, m2}
    Closers = {c1}
    SessionOf <- EachSessionCalls
    UserOf <- OneUser
    MaxKeys = 1
    SkewedClock = TRUE
    Unclosed = {s1}
INVARIANT
    IInv
PROPERTIES
    CloseCompletes
    KeepsKeyring
CHECK_DEADLOCK FALSE
