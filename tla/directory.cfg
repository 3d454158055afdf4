CONSTANTS
    u1 = u1
    u2 = u2
    s1 = s1
    s2 = s2
    p1 = p1
    Users = {u1, u2}
    SignIns = {s1, s2}
    Reads = {p1}
    Window = 1
    MaxTime = 2
SPECIFICATION Spec
SYMMETRY Symmetry
INVARIANTS
    TypeOK
    DirectoryIsTrue
    DirectoryInv
