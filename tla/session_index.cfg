SPECIFICATION MSpec
CONSTANTS
    Pids = {p1, p2}
    NoPid = p0
    HostCgroups = {g1}
    NoCgroup = g0
    Ids = {s1, s2}
    NoSession = nil
    Handler = handler
    Scanner = scanner
    NoEvent = noevent
    ManageCgroup = TRUE
    HistoryMax = 1
SYMMETRY MCSymmetry
INVARIANTS
    PidIndexLive
    RootIndexLive
    HistoryIsByID
PROPERTY
    EndedIsFinal
