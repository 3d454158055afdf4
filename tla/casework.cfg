CONSTANTS
    u1 = u1
    u2 = u2
    r1 = r1
    r2 = r2
    Users = {u1, u2}
    NoOne = NoOne
    Requests = {r1, r2}
    Kinds <- FormKinds
SPECIFICATION Spec
SYMMETRY Symmetry
INVARIANTS
    TypeOK
    CaseOK
    HandlersOK
    RationaleOnFile
    DecisionStands
    RefusalsAreTrue
    StartIsReported
    NoWorkBeforeStart
    OneWayOn
    DecidedOnce
    SuccessIsTrue
    OffersAreTaken
PROPERTIES
    NeverBackBeforeAssessment
    HolderSeenIsKept
    ImplementsDetermination
    NeverRetries
