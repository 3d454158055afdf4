CONSTANTS
    u1 = u1
    u2 = u2
    r1 = r1
    r2 = r2
    Users = {u1, u2}
    NoOne = NoOne
    Requests = {r1, r2}
    Kinds <- TakeoverKinds
SPECIFICATION FairSpec
PROPERTIES
    NoSilentTakeover
