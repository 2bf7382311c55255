SPECIFICATION Spec
CONSTANTS
    nested = nested
    loop = loop
    sets = sets
    rest = rest
    Functions <- AllFunctions
    Chunks <- MainChunks
    Variadic <- WithDots
    Params <- Parameters
    Room <- Registers
    Code <- Bodies
    Upvalues = {u1, u2}
    Nil = nil
    Fun = fun
    Obj = obj
    Lists <- PassedLists
    MaxCalls = 3
    Spare = 2
    IteratorYields = FALSE
CHECK_DEADLOCK FALSE
PROPERTIES CallsAreActivations
INVARIANTS TypeOK OpenListDescends WindowsNest
