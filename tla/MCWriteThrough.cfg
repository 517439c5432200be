SPECIFICATION Spec
CONSTANTS
    Requests = {r1, r2, r3}
    Calls <- McCalls
    Stores = {"sqlite", "postgres"}
    Leads = 2
    MaxInFlight = 2
    MaxFailures = 1
    MaxRestarts = 1
SYMMETRY RequestSymmetry
CHECK_DEADLOCK FALSE
INVARIANTS
    TypeOK
    DiskIsPastMemory
    PersistedIsAudited
    TrailMatchesMemory
    SerialAckIsDurable
    SerialDiskIsCurrent
    SeedsComeFirst
