SPECIFICATION Spec
CONSTANTS
    Node = {1, 5, 6}
    MaxDepth = 5
    View <- MCView
    M = 2
    EfConstruction = 4
    EfSearch = 2
    TopLayer = 1
    Point <- MCPoint
    MaxNodes = 5
INVARIANTS
    ShortestWithinBound
    ExactUntilCut
    LayersSound
CHECK_DEADLOCK FALSE
