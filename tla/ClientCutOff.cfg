SPECIFICATION Spec
CONSTANTS
    s1 = s1
    s2 = s2
    m1 = m1
    m2 = m2
    m3 = m3
    m4 = m4
    alice = alice
    Own = Own
    Sessions = {s1, s2}
    Calls = {m1, m2, m3}
    SessionOf <- TwoSessionsCalls
    UserOf <- OneUser
    Collectable = {s1, s2}
    MaxKeys = 3
    ApiClient = FALSE
    SkewedClock = FALSE
INVARIANT
    CallsSurviveClose
CHECK_DEADLOCK FALSE
