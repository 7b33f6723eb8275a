SPECIFICATION Spec
CONSTANTS
    Plain <- MCPlain
    Untrained <- MCPlain
    Text <- MCText
    Level <- MCLevel
INVARIANTS
    PhoneCoversReference
    LoneCueAbstains
    WeakTacticAloneAbstains
    TierZeroIsHeuristic
