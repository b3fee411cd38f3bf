SPECIFICATION StagesSpec
CONSTANTS
    Materials = {"a", "b"}
    Drafts <- MCDrafts
    DraftedPlans <- MCDraftedPlans
    Criteria = {"ac1"}
    PlanIds = {"p1"}
    Commenters = {"c1"}
    MaxGeneration = 3
    MaxLines = 2
    MaxGrants = 1
    Messages = {"m"}
    Sessions = {1, 2}
    Receivers = {"r1", "r2"}
    WindowTicks = 1
    MaxQuestions = 1
    MaxDeliveries = 2
    MaxCrashes = 1
    Breakages <- MCBreakages
    Template <- MCTemplate
    MaxRounds = 5
    SameFingerprintLimit = 3
    CriterionKinds <- MCCriterionKinds
    TaskOrder <- MCTaskOrder
    Stems <- MCStems
    Allowed <- MCAllowed
    Forbidden <- MCForbidden
    Proposals <- MCProposals
    Contents = {"old", "new"}
    BaseFiles <- MCBaseFiles
    MaxWrites = 2
    Heads = {"h1", "h2"}
    Answers <- MCAnswers
    Closers = {"k1", "k2"}
    DismissedBy = {"maintainer"}
    MaxReviews = 2
    MaxCloses = 2
    MaxReviewPushes = 1
    Chains = {"r1", "r2"}
    CheckpointWriters = {"w1", "w2"}
    AuditBounds <- MCAuditBounds
    MaxVerifications = 1
    MaxFaults = 1
    Holder <- MCHolder
    Unlocked = {"u"}
    MaxStarts = 1
    RunOrder <- MCRunOrder
    WithoutPr = {"r2"}
    MaxMoves = 2
    MaxThrows = 2
    Ledgers = {"budget", "quota"}
    Limit <- MCLimit
    Spenders = {"s1", "s2"}
    MaxUnits = 2
    Capacity = 2
    RefillPerTick = 1
    Periods = 2
    MaxClock = 2
    MaxCalls = 3
    Installations = {"i1", "i2"}
    Getters = {"g1", "g2"}
    TtlTicks = 1
    MaxPolicyChanges = 2
INVARIANTS
    TypeOK
    PlansAreJudgedRight
    ApprovalsAreEarned
    RunsFollowTheIssue
    OneIssuePerWindow
    VerdictsFollowTheRounds
    NoWorkLostOrSmuggled
    ClosuresAreAccountedFor
    ChainAndVerdictsAreTrue
    OneHolderNoLostUpdate
    OverrunIsBounded
PROPERTIES
    EverySessionEnds
    WaitersGetTheLock
    LastingDriftIsReported
    StalePolicyIsForgotten
CHECK_DEADLOCK FALSE
