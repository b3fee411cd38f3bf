CONSTANTS
    Ids = {1, 2}
    Callers = {c1, c2}
    Dispatchers = {d1, d2}
    MaxAttempts = 2
    MaxCalls = 4
    MaxRefusals = 1
    NoRecord = NoRecord
    Calls = {k1, k2, k3}
    Runs = {w1}
    Heads = {h1, h2}
    MaxVersion = 3
    None = None
SPECIFICATION ServicesSpec
INVARIANTS
    AgentTypeOK
    AttemptWithinMax
    NoRunStranded
    StoredStateIsLogged
    PullTypeOK
    OnePrPerHead
    AnswersAreAudited
PROPERTIES
    WaitingRunIsTaken
    ImplementsRegistry
    CallsSettle
CHECK_DEADLOCK FALSE
