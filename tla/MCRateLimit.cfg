SPECIFICATION Spec
CONSTANTS
    l1 = l1
    v1 = v1
    v2 = v2
    login = login
    verification = verification
    api = api
    Requests = {l1, v1, v2}
    Rules = {login, verification}
    Processes = {api}
    RuleOf <- MCRuleOf
    ProcessOf <- MCProcessOf
    FailClosed = {login}
    Limit <- MCLimit
    Window <- MCWindow
    Cooldown = 2
    MemoryOnly = FALSE
    MaxDelay = 1
    MaxTime = 3
    MaxRuns = 2
    MaxRestarted = 1
    Redis = Redis
    NoCounter = NoCounter
SYMMETRY VerificationSymmetry
INVARIANTS
    CountersKeepTheLimit
    
    RefusalsAreEarned
CHECK_DEADLOCK FALSE
