SPECIFICATION MCSpec
CONSTANTS
    Agent = {a1}
    NoAgent = NoAgent
    Models = {"haiku", "sonnet"}
    Ladder <- TwoTiers
    EscalationThresholds <- Thresholds
    Submissions <- PullRequest
    MaxReviewRounds = 5
    Batches <- OneReviewed
    Interventions = {"blocked", "unblock"}
    MaxInterventions = 2
    MaxTasks = 7
PROPERTIES
    DoneIsTerminal
CHECK_DEADLOCK FALSE
