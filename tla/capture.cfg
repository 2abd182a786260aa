SPECIFICATION QSpec
CONSTANTS
    f1 = f1
    f2 = f2
    f3 = f3
    t1 = t1
    t2 = t2
    t3 = t3
    p1 = p1
    p2 = p2
    Procs = {p1, p2}
    Threads = {t1, t2, t3}
    Flows = {f1, f2, f3}
    Goroutines = {f1, f2}
    Tgid <- MCTgid
    Home <- MCHome
    Nowhere = nowhere
    Args = {a1, a2}
    Fds = {1, 2}
    NoFd = 0
    Writers = {detector}
    Workloads <- MCWorkloads
    Lens = {0, 2, 4}
    TlsMax = 4
    StrMax = 4
    MaxCalls = 3
    MaxFlips = 3
    MaxMoves = 2
    NameLen <- MCNameLen
    Longer <- MCLonger
    Enforced = {p1, p2}
    Tables = {"users"}
    Queries <- MCQueries
    Statements <- MCStatements
SYMMETRY MCSymmetry
CHECK_DEADLOCK FALSE
INVARIANTS
    QTypeOK
    DnsOwn
    ReadOwn
    PayloadCarried
    DeniedRefused
    MarkConsumed
    WindowMatched
