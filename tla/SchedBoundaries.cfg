CONSTANTS
    Main = Main
    None = None
    A = A
    B = B
    Coroutines = {A, B}
    MaxFinalizers = 1
    MaxDepth = 5
    MaxNest = 4
    MaxAllow = 2
    Program = {"resume", "yield", "pcall", "xpcall", "helper", "metamethod", "upvalue", "collect", "automatic", "error"}
    InFinalizer = {"call", "error", "resume", "upvalue", "yield"}
SPECIFICATION Spec
SYMMETRY Symmetry
INVARIANTS
    TypeOK
    RolesAreNested
    ThreadsFollowActivations
    SuspendedOwnsNoBoundary
    DeliveriesMatch
    NoProtocolError
    YieldBarrier
