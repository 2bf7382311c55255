SPECIFICATION Spec
CONSTANTS
    Tables = {}
    Userdatas = {}
    Threads = {th1}
    Closures = {c1, c2}
    Upvalues = {v1}
    Main = main
    Reg = {a, b, scratch}
    Scratch = scratch
    Modes <- StrongModes
    Keys = {}
    Vals = {th1, c1, c2}
    Rootable = {c1, c2}
    Nil = nil
SYMMETRY Symmetry
INVARIANTS HeapInvariant OpenUpvalueHasItsState
