CONSTANTS
    Jobs = {1, 2}
    Nightly = {1}
    At <- MCAt
    Every <- MCEvery
    DaySlots = 3
    RetryDelay = 1
    MaxAttempts = 2
    AgeCap = 2
    MaxIncidents = 1
    A = A
    B = B
    Teams = {A, B, C}
    Founded = {A, B}
    TaskForceIds = {M1, M2}
    Occasions = {1, 2}
    People = {1, 2}
    FirstTeam = A
    FirstRoles <- MCRoles
    Requesters = {s1, s2}
    MaxRequests = 3
    Signers = {s1, s2}
    Helpers = {v1, v2}
    Weeks = {1, 2, 3}
    Places = {"lector", "usher"}
    Limited = {"lector"}
    LastStart = 3
    MaxEdits = 1
    NoOne = NoOne
    Null = Null
    Accounts = {a}
    Spends = {m}
    CallTeams = {g}
    Clients = {s1, s2}
    Limit <- MCLimit
    Window <- MCWindow
    Resend = 1
    Ttl = 2
    MaxGuesses = 2
    MaxCodes = 2
    MaxAsks = 7
    Horizon = 2
SPECIFICATION Spec
INVARIANTS TaskForcesHaveTheirEvent FloodBound WaitIsExact TriesPerCodeBounded WaitsLookAhead
PROPERTIES RecordedNightIsOver PacedAcrossRestarts TaskForceEventsSurvive CollaborationLendsNoPeople
CHECK_DEADLOCK FALSE
CONSTRAINT FewServe
CONSTRAINT OneKindOfMail
SYMMETRY Interchangeable
