CONSTANTS
    Proc = {p1, p2, p3}
    Key = {k1, k2}
    Mutex = {m1, m2, m3}
    NoProc = NoProc
    NoMutex = NoMutex
SPECIFICATION FairSpec
INVARIANTS
    TypeOK
    MutualExclusion
    UnlockFindsOwnMutex
PROPERTIES
    StoreOnlyGrows
    ImplementsKeyedLock
    LockReturns
