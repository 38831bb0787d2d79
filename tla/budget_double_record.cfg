\* One answer of two tokens breaches a budget of one.
SPECIFICATION Spec
CONSTANTS
    s1 = s1
    s2 = s2
    a1 = a1
    k1 = k1
    NoAnswer = NoAnswer
    Calls = {s1, a1}
    Keys = {k1}
    Tokens = {1, 2}
    Limit = 1
    CacheMayFail = FALSE
    ModeOf <- MCModeOf
    KeyOf <- MCKeyOf
    OverrideOf <- MCOverrideOf
    FnCacheOf <- MCFnCacheOf
    MaxRetriesOf <- MCMaxRetriesOf
INVARIANT OneRecordPerCall
