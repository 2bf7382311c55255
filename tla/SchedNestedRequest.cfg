CONSTANTS
    Main = Main
    None = None
    A = A
    Coroutines = {A}
    MaxFinalizers = 2
    MaxDepth = 5
    MaxNest = 3
    MaxAllow = 2
    Program = {"pcall", "collect"}
    InFinalizer = {"collect"}
SPECIFICATION Spec
SYMMETRY Symmetry
INVARIANTS
    FinalizerBegunOnce
