CONSTANTS
    u1 = u1
    r1 = r1
    r2 = r2
    Users = {u1}
    NoOne = NoOne
    Requests = {r1, r2}
    Kinds <- LivenessKinds
SPECIFICATION FairSpec
PROPERTIES
    EveryRequestAnswered
