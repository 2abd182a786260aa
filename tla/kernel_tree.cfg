SPECIFICATION KSpec
CONSTANTS
    Tids = {t1, t2, t3}
    Init1 = init
    Cgroups = {g1}
    SigFlags <- MCEnforce
    PidsMax = 2
    MaxInExec = 2
    KprobeAttached = FALSE
SYMMETRY MCSymmetry
INVARIANTS
    TreeArmed
    OnlyTreeArmed
    KeysBalanced
    NoUnarmedAgentFile
