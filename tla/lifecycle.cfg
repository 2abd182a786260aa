SPECIFICATION LSpec
CONSTANTS
    Tids = {t1, t2}
    Pids = {t1, t2}
    Init1 = init
    NoPid = p0
    HostCgroups = {g1}
    NoCgroup = g0
    Ids = {s1, s2}
    Cgroups <- MCCgroups
    NoSession = nil
    SigFlags <- MCEnforce
    PidsMax = 4
    MaxInExec = 2
    KprobeAttached = FALSE
    Handler = handler
    Scanner = scanner
    Sweeper = sweeper
    NoEvent = noevent
    NoScan = noscan
    ManageCgroup = TRUE
    HistoryMax = 1
    RingMax = 2
    ScanProc = {}
    Threaded = TRUE
    ExecSigns <- MCFile
    MaxBirths = 3
    MaxExecs = 2
SYMMETRY MCSymmetry
CHECK_DEADLOCK FALSE
INVARIANTS
    LTypeOK
    ActiveCgroupArmed
    CgroupKeyOwned
    SessionConfined
