SPECIFICATION Spec
CHECK_DEADLOCK FALSE
CONSTANTS
    None = None
    Unset = Unset
    k1 = k1
    k2 = k2
    h1 = h1
    h2 = h2
    Files = {1, 2}
    Keys = {k1, k2}
    Contents = {h1, h2}
    RagIds = {1, 2}
    MaxAttempts = 2
    BatchSize = 2
    Uploads <- NewPhoto
    Legacy <- OldFile
    Names = {}
    Previews = {2}
    Unsupported = {}
    Operations = {"archive", "delete", "backfill"}
    Notifies = {}
    Faults = {}
    MaxRequests = 2
    MaxFaults = 0
PROPERTIES
    QueueDrains
