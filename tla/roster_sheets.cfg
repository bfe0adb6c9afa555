CONSTANTS
    mary = mary  john = john  ann = ann
    home = home  work = work
    People = {1, 2, 3, 4}
    Names = {mary, john, ann}
    Addresses = {home, work}
    Roles = {"leader", "member"}
    Parishes <- MCParishes
    Files = {1, 2, 3}
    TypedRows <- MCTypedRows
    MaxEdits = 2
    MaxMishaps = 1
    Null = Null
SPECIFICATION SheetsSpec
PROPERTIES SheetKeepsToItsTeam SheetSettles
CHECK_DEADLOCK FALSE
