SPECIFICATION FairSpec
CONSTANTS
    Proc = {p1, p2}
    NoProc = NoProc
    NoTarget = NoTarget
    Target = {NoTarget}
    Unsealable = {}
    MaxRev = 2
    MaxTouch = 0
    MaxAborts = 1
PROPERTIES
    NeverOverwritten
    RequestsProgress
