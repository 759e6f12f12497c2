SPECIFICATION MCTUIFairSpec
CONSTANTS
    Agent = {a1}
    NoAgent = NoAgent
    Models = {"haiku"}
    Ladder <- OneTier
    EscalationThresholds <- NoThresholds
    Submissions = {{}}
    MaxReviewRounds = 5
    Batches <- NoBatches
    Project <- TwoProjects
    ProjectOf <- ProjectOfRow
    Slot = {1, 2}
    Keys = 3
    MaxMishaps = 1
    Modes = {"normal", "detail", "switch", "bounce", "merge", "archive", "archive project"}
    Columns = {4, 5}
INVARIANTS
    TUITypeOK
    SelectionIsOnTheBoard
PROPERTIES
    ActsAsAsked
    MergesItsOwnPR
    BoardCatchesUp
CHECK_DEADLOCK FALSE
