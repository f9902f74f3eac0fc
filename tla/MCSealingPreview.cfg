SPECIFICATION Spec
CONSTANTS
    Proc = {p1}
    NoProc = NoProc
    NoTarget = NoTarget
    Target = {NoTarget}
    Unsealable = {}
    MaxRev = 2
    MaxTouch = 0
    MaxAborts = 1
INVARIANTS
    SealedAsPreviewed
