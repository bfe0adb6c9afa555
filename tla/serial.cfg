SPECIFICATION SerialSpec
CONSTANTS
    clerk = clerk  v1 = v1  v2 = v2  ann = ann  ben = ben
    None = None  Nil = Nil  Null = Null
    Sessions = {clerk}
    Volunteers = {v1, v2}
    Members = {v1, v2}
    Managers = {v1}
    SlotIds = {1, 2}
    AssignmentIds = {1, 2}
    SubIds = {1}
    MaxCapacity = 1
    ElectionSessions = {clerk}
    People = {ann, ben}
    Clergy = {ben}
    Core = {ann}
    Seats = {"leader"}
    ProposalIds = {1, 2}
    Scores = {0, 5}
    LastDay = 3
    AccountSessions = {clerk}
    AccountIds = {1, 2}
    PersonIds = {1, 2}
    Addresses = {"x", "y"}
    LinkIds = {1, 2, 3}
    Openings <- MCOpenings
    MaxRequests = 3
    MaxCandidates = 4
    Stars = {0, 2, 3}
    MaxBallots = 4
    MaxEntries = 12
VIEW SerialView
INVARIANTS AccountsTypeOK CredentialsMatch CapacityRespected OpenCallIsTheHolders BallotsAreWhole OneOutcome BeatenByAllNeverWins NamesDoNotMatter
PROPERTIES LoginsKeepTheirPeople SlotsKeepTheirPeople OwnSlotOnly CancelledIsClosed FrozenOnceVoted ShownTallyIsFinal
CHECK_DEADLOCK FALSE
