SPECIFICATION MCOrderlySpec
CONSTANTS
    Agent = {a1, a2}
    NoAgent = NoAgent
    Models = {"haiku", "sonnet"}
    Ladder <- TwoTiers
    EscalationThresholds <- Thresholds
    Submissions <- PullRequest
    MaxReviewRounds = 5
    Batches <- OneReviewed
    Interventions = {"hold", "release", "supersede", "bounce", "blocked", "failed", "superseded", "abandoned", "misuse"}
    MaxInterventions = 2
    MaxTasks = 7
    Item = {1, 2, 4}
    Juror = {1, 2, 3, 4, 5, 6, 7}
INVARIANTS
    ReadyRowIsFree
    ReworkWithinBudget
    VerdictsAreActedOn
PROPERTIES
    JudgedByItsPanel
    OneHeir
    DoneIsTerminal
    ClaimNeedsNoLiveLease
SYMMETRY AgentSymmetry
CHECK_DEADLOCK FALSE
