CONSTANTS
    r1 = r1
    r2 = r2
    Blank = Blank
    Unreal = Unreal
    MaxDay = 5
    SummerDays = {4, 5}
    NewYears = {0, 3}
    YearBefore <- MCYearBefore
    Tabs = {r1, r2}
    Parts = {"deadline", "payment", "codes"}
    Starts <- MCStarts
    Target = 2
    Materials = {"plastic"}
    CodeSets <- MCCodeSets
SPECIFICATION Spec
SYMMETRY Symmetry
INVARIANTS
    TypeOK
    NamedFloorIsAccepted
    BothSidesAgree
PROPERTIES
    DeadlineLandsWhereTyped
    CodesStaySound
    ImplementsCorrections
CHECK_DEADLOCK FALSE
