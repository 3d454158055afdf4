CONSTANTS
    u1 = u1
    s1 = s1
    p1 = p1
    Users = {u1}
    SignIns = {s1}
    Reads = {p1}
    Window = 1
    MaxTime = 2
SPECIFICATION Spec
PROPERTIES
    PrunesOnlyTheInactive
