SPECIFICATION HandoffSpec
CONSTANTS
    Proc = {p1, p2}
    NoProc = NoProc
    Config = {c1, c2}
    MaxPreps = 3
    Content = {sufficient, lacking}
    Sufficient = {sufficient}
    MaxPackage = 4
SYMMETRY Symmetry
INVARIANTS
    UsedNotConfigured
    Resumable
    SupersededStaysStale
PROPERTIES
    ImplementsOneHandoff
    WorkKept
    ReadyQuiet
CHECK_DEADLOCK FALSE
