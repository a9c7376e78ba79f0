SPECIFICATION Spec
CHECK_DEADLOCK FALSE
CONSTANTS
    None = None
    k1 = k1
    k2 = k2
    s1 = s1
    s2 = s2
    Names = {"d", "f", "g", "Keys", "keys"}
    MaxDepth = 2
    Ids = {1, 2, 3}
    Users = {"ann"}
    Admins = {}
    Bodies = {1, 2, 3}
    Limit = 4
    Entries = {1, 2, 3}
    VaultKeys = {k1, k2}
    Owner = "ann"
    Sessions = {s1, s2}
    Ips = {"home"}
    Ip <- OneAddress
    MaxAttempts = 1
    KeysFolder = "Keys"
    KeysFile = "keys"
    NoKeys = 1
    Garbled = {3}
    Asks <- MCAsks
    Passphrases = {k1, k2}
    Faults = {"store", "abort", "crash"}
    MaxWork = 6
    MaxFaults = 1
INVARIANTS
    TypeOK
    
    OneKey
    
PROPERTIES
    LockoutEnds
    PathsAreApart
