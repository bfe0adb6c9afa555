CONSTANTS
    p1 = p1  p2 = p2
    Jobs = {1}
    Nightly = {1}
    At <- MCAt
    Every <- MCEvery
    DaySlots = 1
    RetryDelay = 1
    MaxAttempts = 1
    AgeCap = 1
    MaxIncidents = 1
    Events = {"mass"}
    Assignments = {1, 2}
    EventOf <- MCEventOf
    People = {p1, p2}
    Wants <- MCWants
    MaxChanges = 3
    MaxTroubles = 3
    None = None
    Reminders = 1
SPECIFICATION Spec
INVARIANT StampedWasInformed
PROPERTIES NoReminderTwice NothingStaysOwed ImplementsScheduler
CHECK_DEADLOCK FALSE
