CONSTANTS
    c1 = c1
    c2 = c2
    c3 = c3
    f1 = f1
    f2 = f2
    Calls = {c1, c2, c3}
    Functions = {f1, f2}
    FnOf <- MCFnOf
    OutcomesOf <- MCOutcomesOf
    HistoryLimit = 2
    MaxRetries = 1
    NoFunction = NoFunction
SPECIFICATION Spec
INVARIANT TopFunctionsConsistent
CHECK_DEADLOCK FALSE
