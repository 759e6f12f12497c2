SPECIFICATION MCLandingFairSpec
CONSTANTS
    Agent = {w1, w2, m1, m2}
    Worker = {w1, w2}
    NoAgent = NoAgent
    Models = {"haiku"}
    Ladder <- OneTier
    EscalationThresholds <- OneRework
    Submissions <- PullRequestLink
    MaxReviewRounds = 5
    Batches <- EitherMerge
    Work = {1, 2, 3, 4, 5, 6}
    MaxMishaps = 2
    MaxTasks = 6
INVARIANTS
    LandingTypeOK
PROPERTIES
    ApprovedHeadLands
    RequestBouncesOnce
    DeliversWhatLanded
    ApprovalsAreActedOn
    MergeRowsSettle
    StalePRsClose
CHECK_DEADLOCK FALSE
