SPECIFICATION Spec
CHECK_DEADLOCK FALSE
CONSTANTS
    None = None
    Unset = Unset
    k1 = k1
    k2 = k2
    h1 = h1
    h2 = h2
    Files = {1}
    Keys = {k1, k2}
    Contents = {h1}
    RagIds = {1, 2}
    MaxAttempts = 3
    BatchSize = 1
    Uploads <- OneUpload
    Legacy = {}
    Names = {k2}
    Previews = {}
    Unsupported = {}
    Operations = {}
    Notifies = {"create"}
    Faults = {"lost", "garbled", "crash"}
    MaxRequests = 0
    MaxFaults = 2
PROPERTIES
    LostAnswersAreAdopted
    QueueDrains
