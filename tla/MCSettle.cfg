SPECIFICATION MCFairSpec
CONSTANTS
    Agent = {a1}
    NoAgent = NoAgent
    Models = {"haiku", "sonnet"}
    Ladder <- TwoTiers
    EscalationThresholds <- Thresholds
    Submissions <- PullRequest
    MaxReviewRounds = 5
    Batches <- Chain
    Interventions = {"unblock", "bounce"}
    MaxInterventions = 4
    MaxTasks = 12
INVARIANTS
    BuiltOnFinishedWork
    DependentsFollow
PROPERTIES
    WorkSettles
CHECK_DEADLOCK FALSE
