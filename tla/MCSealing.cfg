SPECIFICATION Spec
SYMMETRY Symmetry
CONSTANTS
    Proc = {p1}
    NoProc = NoProc
    NoTarget = NoTarget
    Target = {NoTarget, t1, t2}
    Unsealable = {2}
    MaxRev = 2
    MaxTouch = 1
    MaxAborts = 1
INVARIANTS
    TypeOK
    LedgerChain
    HistoryGapFree
    AdmittedIsCommitted
    ContentAsPreviewed
PROPERTIES
    ImplementsHistory
