SPECIFICATION PFairSpec
CONSTANTS
    Paths = {"f", "g", "d", "self"}
    Ips = {"a", "b"}
    Prefixes <- MCPrefixes
    Tables = {"t"}
    SelfFiles = {"self"}
    SelfDirs = {"d"}
    Files = {y1, y2}
    Docs <- MCDocs
    Absent = absent
    Malformed = malformed
    BadCidr = badcidr
    Refusable <- MCRefusable
    MaxEdits = 2
    MaxEvents = 2
CHECK_DEADLOCK FALSE
INVARIANTS
    SelfKept
    RulesInForce
    EgressOwned
PROPERTY
    ReloadConverges
