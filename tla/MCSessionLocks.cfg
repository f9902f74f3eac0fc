SPECIFICATION CreationSpec
CONSTANTS
    Thread = {t1, t2}
    NoThread = NoThread
    Session = {1, 2}
    Lock = {l1, l2}
    NoLock = NoLock
    MaxRequests = 3
    Upload = {u1, u2}
INVARIANTS
    NoTornRead
    KeptUnlessShared
    ToldIsWhole
    SharedIsNested
PROPERTIES
    ImplementsSerialSessions
    LockReleased
