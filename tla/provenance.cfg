SPECIFICATION VSpec
CONSTANTS
    Cut <- MCCut
    LongNames = {"l"}
    HashMax = 5
    Tasks = {t1, t2}
    Paths <- MCPaths
    Anon <- MCAnon
    Inodes = {i1, i2}
    NoInode = none
    Shebang = {i1}
    PersistPaths <- MCPersist
    RuleSets <- MCRules
    MatchRules <- MCMatch
    Trees <- MCTrees
    MaxCalls = 3
    MaxEvents = 1
    MaxReclaims = 1
    MaxEvictions = 1
    MaxReloads = 1
SYMMETRY MCSymmetry
CHECK_DEADLOCK FALSE
INVARIANTS
    VTypeOK
    AliasRefused
    ColdRefused
    RulesMatch
