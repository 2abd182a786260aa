SPECIFICATION PSpec
CONSTANTS
    Paths = {"f", "g", "d", "self"}
    Ips = {"a", "b"}
    Prefixes <- MCPrefixes
    Tables = {"t"}
    SelfFiles = {"self"}
    SelfDirs = {"d"}
    Files = {y1, y2}
    Docs <- MCNamesDocs
    Absent = absent
    Malformed = malformed
    BadCidr = badcidr
    Refusable = {}
    MaxEdits = 1
    MaxEvents = 1
CHECK_DEADLOCK FALSE
INVARIANT
    DnsBlocked
