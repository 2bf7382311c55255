SPECIFICATION Spec
CONSTANTS
    string = string
    PosZero = zero
    NegZero = negative_zero
    MaxArrayIndex = 1
    MinCompaction = 2
    MaxInteger = 40
    HashKey <- Keys
    Value = {1, 2}
    Plain = 1
    Nil = nil
    Walks = {pairs}
    Matches = 2
    Modules = {m1, m2}
    Loads = 3
    False = false
    True = true
    Export = {e1, e2}
PROPERTIES TableIsDictionary
INVARIANTS OrderIsIndexed LengthIsBorder SortSorts GsubReplacesEachOnce ModulesAgree
