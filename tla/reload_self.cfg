SPECIFICATION PSpec
CONSTANTS
    Paths = {"f", "g", "d", "self"}
    Ips = {"a", "b"}
    Prefixes <- MCPrefixes
    Tables = {"t"}
    SelfFiles = {"self"}
    SelfDirs = {"d"}
    Files = {y1}
    Docs <- MCOwnDocs
    Absent = absent
    Malformed = malformed
    BadCidr = badcidr
    Refusable = {}
    MaxEdits = 2
    MaxEvents = 2
CHECK_DEADLOCK FALSE
INVARIANT
    SelfProtected
