SPECIFICATION GuardSpec
CONSTANTS
    Reading = {64, 65, 70, 79, 80, 84, 85, 89, 90, 94, 95}
    TotalChunks = 4
    PollInterval = 2
INVARIANTS
    OverheatedMeansHeuristicOnly
    AbortWithinOnePoll
PROPERTIES
    TurnsNeedASwing
    CoolPhoneRecovers
CHECK_DEADLOCK FALSE
