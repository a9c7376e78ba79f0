SPECIFICATION Spec
CHECK_DEADLOCK FALSE
CONSTANTS
    None = None
    k1 = k1
    k2 = k2
    k3 = k3
    s1 = s1
    s2 = s2
    Records = {1}
    Keys = {k1, k2, k3}
    Bodies = {2}
    Sessions = {s1}
    Uploads <- OneBigUpload
    Renames = {}
    Overwrites = {}
    Deletes = {1}
    Archiving = TRUE
    Reconciling = TRUE
    Threshold = 1
    Overlap = FALSE
    Faults = {}
    MaxRequests = 2
    MaxFaults = 0
INVARIANTS
    QuotaNotNegative
