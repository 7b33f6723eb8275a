SPECIFICATION Spec
CONSTANTS
    Sender = {s1}
    Thread = {t1, t2}
    Capacity = 1
    Unit = 2
    MaxClock = 2
    MaxMessages = 6
    Plain <- MCPlain
    Untrained = {}
    Turn <- MCTurn
    MaxWindow = 2
    MaxTurns = 4
    BurstWindow = 2
    Gaps <- MCGaps
    MaxRaw = 4
    Phrase <- MCPhrase
    Character = {"a", "b"}
    MaxCues = 3
    MaxText = 4
    Excerpt = {r1, r2}
    MaxChanges = 2
SYMMETRY MCSymmetry
INVARIANTS RateBound PaymentArcSurfaces BurstsRejoined ScansAgree RefusedOrSentForCause
CHECK_DEADLOCK FALSE
