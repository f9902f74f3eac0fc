SPECIFICATION FairSpec
CONSTANTS
    Proc = {p1, p2}
    NoProc = NoProc
    Config = {c1, c2}
    MaxSends = 3
INVARIANTS
    OnePromptCall
    UsedSessionRefused
    ForeignUntouched
    ReviewedAsRecorded
PROPERTIES
    ImplementsOnePrompt
    SendEnds
CHECK_DEADLOCK FALSE
