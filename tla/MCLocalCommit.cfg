SPECIFICATION MCLocalSpec
CONSTANTS
    Agent = {w1, w2, r1}
    Worker = {w1, w2}
    Reviewer = {r1}
    NoAgent = NoAgent
    Models = {"haiku"}
    Ladder <- OneTier
    EscalationThresholds <- OneRework
    Submissions <- CommitOrNoOp
    MaxReviewRounds = 5
    Batches <- SameTitle
    SlugOf <- Shared
    MaxMishaps = 2
    MaxTasks = 8
INVARIANTS
    LocalTypeOK
    AcceptedWorkIsKept
    ReworkCanResume
    RewritesAreLate
PROPERTIES
    FirstLossIsStale
SYMMETRY WorkerSymmetry
CHECK_DEADLOCK FALSE
