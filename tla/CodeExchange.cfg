SPECIFICATION Spec
CONSTANTS
    Nil = nil
    False = false
    True = true
    Fun = fun
    Returning = returning
    Junk = junk
    Globals = {"f", "g"}
    Programs <- Exchanges
    Answers <- SomeAnswers
    Written = {3}
    MaxCalls = 4
CHECK_DEADLOCK FALSE
INVARIANT CodeMeansProgram
