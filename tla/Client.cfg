SPECIFICATION Spec
CONSTANTS
    s1 = s1
    s2 = s2
    m1 = m1
    m2 = m2
    m3 = m3
    m4 = m4
    alice = alice
    Own = Own
    Sessions = {s1}
    Calls = {m1, m2, m3, m4}
    SessionOf <- ThreeAndAnOwnCall
    UserOf <- OneUser
    Collectable = {s1}
    MaxKeys = 3
    ApiClient = TRUE
    SkewedClock = FALSE
INVARIANTS
    NoEndUnderCall
    EndedOneAtATime
    KeysAccountedFor
    DrainIsComplete
PROPERTY
    KeepsKeyring
SYMMETRY Permuted
CHECK_DEADLOCK FALSE
