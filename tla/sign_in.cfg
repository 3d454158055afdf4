CONSTANTS
    t1 = t1
    t2 = t2
    caseworker = caseworker
    support = support
    Nobody = Nobody
    Tabs = {t1, t2}
    Caseworkers = {caseworker}
    SupportUsers = {support}
    StubModes = {TRUE, FALSE}
    MaxSessions = 3
    MaxNumber = 2
SPECIFICATION Spec
SYMMETRY Symmetry
INVARIANTS
    TypeOK
    OneAccountPerSession
    FiltersOfTheirOwner
    AbandonedPageIsNotReplayed
PROPERTIES
    LandsWhereAdmitted
    IssuedNeverSignedInto
