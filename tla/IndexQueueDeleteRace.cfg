SPECIFICATION Spec
CHECK_DEADLOCK FALSE
CONSTANTS
    None = None
    Unset = Unset
    k1 = k1
    k2 = k2
    h1 = h1
    h2 = h2
    Files = {1}
    Keys = {k1, k2}
    Contents = {h1}
    RagIds = {1, 2}
    MaxAttempts = 2
    BatchSize = 1
    Uploads <- OneUpload
    Legacy = {}
    Names = {k2}
    Previews = {}
    Unsupported = {}
    Operations = {"delete"}
    Notifies = {"create"}
    Faults = {}
    MaxRequests = 1
    MaxFaults = 0
INVARIANTS
    DeletedStaysRemoved
