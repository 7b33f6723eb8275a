SPECIFICATION Spec
CONSTANTS
    MaxCtx = 4
    Check = {k1, k2}
    Signal = {w1, w2}
    Caller = {t1}
INVARIANTS
    FallbackOnlyWhileReleasing
    ReadyImpliesResident
    ReloadNotForgotten
    Tier2RunKeepsContext
PROPERTIES
    ReadyScorerKept
    ScorerRestored
