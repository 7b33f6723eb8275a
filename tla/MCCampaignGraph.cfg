SPECIFICATION Spec
CONSTANTS
    phone = phone
    wallet = wallet
    script = script
    alice = alice
    bob = bob
    Node = {phone, wallet, script}
    Submission = {alice, bob}
    ReportsOf <- MCReportsOf
    SeedReports <- MCSeedReports
    SeedCount = 2
    Floor = 2
    PruneDays = 1
    Worker = {w1, w2}
    Viewer = {v1}
    MaxIncident = 3
    MaxDay = 1
SYMMETRY MCSymmetry
INVARIANTS
    ServedAboveFloor
    ServedComplete
    EntriesExistWhenUsed
    EveryIncidentCounted
