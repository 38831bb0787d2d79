\* Two full calls and a cache-only one over one key, cache errors, a budget that
\* one answer of two tokens, or two of one, uses up.
SPECIFICATION Spec
CONSTANTS
    s1 = s1
    s2 = s2
    a1 = a1
    k1 = k1
    NoAnswer = NoAnswer
    Calls = {s1, s2, a1}
    Keys = {k1}
    Tokens = {1, 2}
    Limit = 2
    CacheMayFail = TRUE
    ModeOf <- MCModeOf
    KeyOf <- MCKeyOf
    OverrideOf <- MCOverrideOf
    FnCacheOf <- MCFnCacheOf
    MaxRetriesOf <- MCMaxRetriesOf
INVARIANTS
    TypeOK
    AttemptAccounting
    RecordsMatchOutcome
    GrantedWithinLimit
    BudgetMatchesAggregator
    CacheHoldsObtainedAnswers
PROPERTIES
    NoBackendAfterReport
    ImplementsProtocol
