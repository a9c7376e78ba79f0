SPECIFICATION Spec
CHECK_DEADLOCK FALSE
CONSTANTS
    None = None
    Names = {"d", "e", "x", "y", "land", "isle", "firm", "corp", "v", "w", "run1", "run2", "png", "meta", "statuses"}
    MaxDepth = 4
    Ids = {1, 2, 3, 4}
    Users = {"ann", "bob", "adm"}
    Admins = {"adm"}
    Bodies = {1, 2, 3}
    Limit = 5
    Sections = {"FILES"}
    Start <- MCStart
    Requests <- MCRequests
    Archives = {"FILES"}
    Faults <- MCNoFaults
    InFlight <- MCInFlight
    Meta = "meta"
    StatusFile = "statuses"
    Blank = 1
    Garbled = {3}
    MaxRequests = 2
    MaxFaults = 1
INVARIANTS
    DocumentedObjects
