SPECIFICATION ElectionsSpec
CONSTANTS
    ann = ann
    ben = ben
    s1 = s1
    s2 = s2
    Nil = Nil
    ElectionSessions <- MCSessions
    People <- MCPeople
    Clergy <- MCClergy
    Core <- MCCore
    Seats = {"leader"}
    ProposalIds = {1, 2}
    Scores = {0}
    LastDay = 3
CONSTRAINT SecondOnlyOpened
CONSTRAINT ShortOpenings
SYMMETRY SessionSymmetry
INVARIANTS AppointedOnlyOnAppointed
CHECK_DEADLOCK FALSE
