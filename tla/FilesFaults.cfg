SPECIFICATION Spec
CHECK_DEADLOCK FALSE
CONSTANTS
    None = None
    k1 = k1
    k2 = k2
    k3 = k3
    s1 = s1
    s2 = s2
    Records = {1, 2}
    Keys = {k1, k2, k3}
    Bodies = {1, 2, 3}
    Sessions = {s1, s2}
    Uploads <- TwoUploads
    Renames <- OneRename
    Overwrites <- OneOverwrite
    Deletes = {1, 2}
    Archiving = TRUE
    Reconciling = FALSE
    Threshold = 1
    Overlap = FALSE
    Faults = {"abort", "crash"}
    MaxRequests = 4
    MaxFaults = 2
INVARIANTS
    NoBytesLost
    QuotaIsExact
