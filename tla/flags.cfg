SPECIFICATION FFairSpec
CONSTANTS
    Procs = {p1, p2}
    Root = p1
    Cgroup = c1
    Shifts = {{"sweep", "actions"}, {"sweep", "watcher"}, {"handler", "sweep"}}
    Full = {}
    MaxForks = 1
    MaxReloads = 1
    p1 = p1
    p2 = p2
INVARIANT SecretDenied
PROPERTY WordsConverge
