\* One call over every text, prompt and value of MCPipeline, and three calls over its
\* mock tables.  Calls end, and then nothing is left to do.
SPECIFICATION CSpec
CONSTANTS
    c1 = c1
    c2 = c2
    c3 = c3
    NoJob = NoJob
    Calls = {c1, c2, c3}
    Names = {"x", "y", "z"}
    Scenarios <- MCScenarios
    PyValues <- MCPyValues
    PyTypes <- MCPyTypes
CHECK_DEADLOCK FALSE
INVARIANTS
    TypeOK
    RowsInOrder
    HitsMatchRequests
    ObjectIsFound
    AdaptersAgree
    PlainValuesVerbatim
    RequestIsWhole
    ExplanationTellsAttempts
    CoercionSettles
