SPECIFICATION MCSpec
CONSTANTS
    Agent = {a1}
    NoAgent = NoAgent
    Models = {"haiku", "sonnet"}
    Ladder <- TwoTiers
    EscalationThresholds <- Thresholds
    Submissions <- PullRequest
    MaxReviewRounds = 5
    Batches <- OneReviewed
    Interventions = {"hold", "release", "supersede", "unblock", "bounce", "blocked", "failed", "superseded", "abandoned", "misuse"}
    MaxInterventions = 4
    MaxTasks = 6
INVARIANTS
    TypeOK
    ApprovedIsUnanimous
    RoundsAreSeparate
PROPERTIES
    HoldFreezes
    OffRampsSurviveVerdicts
CHECK_DEADLOCK FALSE
