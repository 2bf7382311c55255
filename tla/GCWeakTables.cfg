SPECIFICATION FairSpec
CONSTANTS
    Tables = {t1}
    Userdatas = {u1}
    Threads = {}
    Closures = {}
    Upvalues = {}
    Main = main
    Reg = {a, b, scratch}
    Scratch = scratch
    Modes <- AllModes
    Keys = {u1}
    Vals = {t1, u1}
    Rootable = {}
    Nil = nil
INVARIANTS NothingReachableIsDestroyed
PROPERTIES
    WeakValuesForgetQueued FinalizedAtMostOnce FinalizedBeforeDestroyed CollectorKeepsStrongEntries
    GarbageIsReclaimed FinalizersAreDelivered
