CONSTANTS
    v1 = v1  v2 = v2  v3 = v3  r1 = r1  r2 = r2
    Sessions = {r1}
    Volunteers <- MCTwo
    Members <- MCTwo
    Managers <- MCManagers
    SlotIds = {1}
    AssignmentIds = {1}
    SubIds = {1}
    MaxCapacity = 1
    None = None
SPECIFICATION Spec
PROPERTY HandedOverStartsUntold
CHECK_DEADLOCK FALSE
