SPECIFICATION MCSpec
CONSTANTS
    Row = {1, 2, 3, 4}
    Graphs <- LooplessGraphs
INVARIANTS
    SearchIsExact
    RefusalIsExact
    RecursionIsBounded
PROPERTIES
    SearchEnds
CHECK_DEADLOCK FALSE
