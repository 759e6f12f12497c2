SPECIFICATION MCDepSpec
CONSTANTS
    Agent = {}
    NoAgent = NoAgent
    Models = {"haiku"}
    Ladder <- OneTier
    EscalationThresholds <- Thresholds
    Submissions <- PullRequest
    MaxReviewRounds = 5
    Batches <- Fan
    Interventions = {"supersede"}
    MaxInterventions = 2
    MaxTasks = 4
    Editor = {e1}
INVARIANTS
    Acyclic
CHECK_DEADLOCK FALSE
