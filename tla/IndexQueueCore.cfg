SPECIFICATION Spec
CHECK_DEADLOCK FALSE
CONSTANTS
    None = None
    Unset = Unset
    k1 = k1
    k2 = k2
    h1 = h1
    h2 = h2
    Files = {1}
    Keys = {k1, k2}
    Contents = {h1}
    RagIds = {1, 2, 3}
    MaxAttempts = 2
    BatchSize = 1
    Uploads <- OneUpload
    Legacy = {}
    Names = {k2}
    Previews = {}
    Unsupported = {}
    Operations = {"rename", "delete", "archive"}
    Notifies = {"delete"}
    Faults = {"down", "lost", "rejected", "garbled", "abort", "crash"}
    MaxRequests = 3
    MaxFaults = 3
INVARIANTS
    TypeOK
    SettledIsGone
    OutOfLibraryOutOfIndex
PROPERTIES
    
    ImplementsSearchIndex
