SPECIFICATION Spec
CONSTANTS
    Client = {1, 2, 3}
    Poisoned = {3}
    Raw <- MCRaw
    Poison <- MCPoison
    Noise <- MCNoise
    ClipNorm = 2
    Floor = 2
    TrimDiv = 3
    Mask <- MCMask
    Order = {2, 4}
    LogDelta = 10
    MaxCopies = 2
    MaxRounds = 2
    Device = {1, 2, 3, 4, 5, 6}
    Stratum = {"young", "old"}
    StratumOf <- MCStratumOf
    MinPerStratum = 1
    FractionDiv = 2
    Baseline = 50
    Measured = {47, 48, 60}
    CrashLimit = 2
    MaxReleases = 1
INVARIANTS
    PoisonCannotMoveAggregate
    RegressedSliceCaught
CHECK_DEADLOCK FALSE
