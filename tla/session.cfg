\* Two calls of a function, one block of each kind, and a tracker whose cost
\* budget the second answer exceeds.
SPECIFICATION Spec
CONSTANTS
    c1 = c1
    c2 = c2
    iso = iso
    capture = capture
    process = process
    None = None
    Calls = {c1, c2}
    Isolates = {iso}
    Captures = {capture}
    WithCache = {iso}
    Process = process
    MaxRetries = 1
    FnBackends = {"unset", "named"}
    BudgetList <- MCBudgets
SYMMETRY CallSymmetry
CHECK_DEADLOCK FALSE
INVARIANTS
    TypeOK
    SlotsRestored
    CallsUseTheirBlocksCache
    ReportedBackendAnswered
    BudgetsHold
PROPERTY RecordsFollowBlocks
