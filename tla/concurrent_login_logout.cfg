CONSTANTS
    s1 = s1
    s2 = s2
    s3 = s3
    Sessions = {s1, s2, s3}
    NoSession = NoSession
    t1 = t1
    t2 = t2
    Tabs = {t1, t2}
    Browsed = s1
    SessionOf <- TabsOfBrowsed
    MaxTime = 3
SPECIFICATION Spec

INVARIANTS
    SignedOutIsForgotten
CHECK_DEADLOCK FALSE
