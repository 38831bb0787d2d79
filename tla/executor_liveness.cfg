\* Two calls under one trace, one of which may retry; one token is the budget.  Calls end,
\* and then nothing is left to do.
SPECIFICATION TFairSpec
CONSTANTS
    s1 = s1
    a1 = a1
    k1 = k1
    NoAnswer = NoAnswer
    Calls = {s1, a1}
    Keys = {k1}
    Tokens = {1}
    Limit = 1
    CacheMayFail = TRUE
    ModeOf <- MCModeOf
    KeyOf <- MCKeyOf
    OverrideOf <- MCOverrideOf
    FnCacheOf <- MCFnCacheOf
    MaxRetriesOf <- MCMaxRetriesOf
    Traced = {s1, a1}
CHECK_DEADLOCK FALSE
INVARIANTS
    AttemptsUnderTheirCall
    SpansTellOutcome
PROPERTY StartedCallsSettle
