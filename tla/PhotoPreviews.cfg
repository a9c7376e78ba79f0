SPECIFICATION Spec
CHECK_DEADLOCK FALSE
CONSTANTS
    None = None
    s1 = s1
    s2 = s2
    Photos = {1, 2}
    Size <- MCSize
    Broken = {2}
    Sessions = {s1, s2}
    QuotaLimit = 2
    Faults = {"store", "abort", "crash"}
    MaxFaults = 2
INVARIANTS
    TypeOK
    
    
    
PROPERTIES
    PreviewArrives
