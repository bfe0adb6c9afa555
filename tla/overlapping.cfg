SPECIFICATION OverlapSpec
CONSTANTS
    v1 = v1  v2 = v2  v3 = v3  r1 = r1  r2 = r2
    Sessions <- MCRequests
    Volunteers <- MCThree
    Members <- MCThree
    Managers <- MCManagers
    SlotIds = {1, 2}
    AssignmentIds = {1, 2}
    SubIds = {1, 2}
    MaxCapacity = 1
    None = None
    ann = ann  ben = ben  s1 = s1  s2 = s2
    ElectionSessions <- MCRequests
    People <- MCPeople
    Clergy <- MCClergy
    Core <- MCCore
    Seats = {"leader"}
    ProposalIds = {1, 2}
    Scores = {0}
    LastDay = 3
    Nil = Nil
CONSTRAINT FewRows
CONSTRAINT SecondOnlyOpened
CONSTRAINT ShortOpenings
SYMMETRY RequestSymmetry
VIEW OverlapView
INVARIANTS CallsFollowRoster OneSlotPerPerson OneOpenPerSeat ScoresAreOfTheRoll AppointedWasNominated
PROPERTIES CallEndsWithItsHolder CallsResolveOnce SignUpWithinCapacity
CHECK_DEADLOCK FALSE
