SPECIFICATION ProvisionSpec
CONSTANTS
    Full = 3
    Floor = 2
    Rooms = {2, 5, 10}
    MaxPush = 2
    MaxFaults = 2
INVARIANTS
    PinnedModelOnly
    KilledCopyHarmless
PROPERTIES
    UsableModelKept
    StagingConverges
