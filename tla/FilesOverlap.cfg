SPECIFICATION Spec
CHECK_DEADLOCK FALSE
CONSTANTS
    None = None
    k1 = k1
    k2 = k2
    k3 = k3
    s1 = s1
    s2 = s2
    Records = {1, 2}
    Keys = {k1, k2, k3}
    Bodies = {1, 2, 3}
    Sessions = {s1, s2}
    Uploads <- TwoUploads
    Renames <- OneRename
    Overwrites = {}
    Deletes = {2}
    Archiving = TRUE
    Reconciling = TRUE
    Threshold = 1
    Overlap = TRUE
    Faults = {}
    MaxRequests = 4
    MaxFaults = 0
INVARIANTS
    TypeOK
    ReadsBack
PROPERTIES
    DriftIsRepaired
