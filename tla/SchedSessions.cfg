CONSTANTS
    Main = Main
    None = None
    A = A
    B = B
    Coroutines = {A, B}
    MaxFinalizers = 2
    MaxDepth = 5
    MaxNest = 3
    MaxAllow = 2
    Program = {"call", "resume", "reenter", "yield", "collect", "automatic", "error", "fault"}
    InFinalizer = {"call", "pcall", "collect", "error", "yield"}
SPECIFICATION Spec
SYMMETRY Symmetry
INVARIANTS
    NothingIsLeftRunning
    DrainHasAnOwner
    FinalizerBegunOnce
