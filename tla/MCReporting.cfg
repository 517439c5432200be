SPECIFICATION ReportSpec
CONSTANTS
    ActorIds = {"mira", "teo"}
    ResourceIds = {"gym", "lounge", "suite"}
    Levels = {"Diamond"}
    PassengerSeeds <- MCPassengers
    ResourceSeeds <- MCResources
    PageLimit = 2
    MaxOffset = 1
    MaxUsage = 4
    MaxRead = 4
INVARIANTS
    ReportsAgree
    TopIsReference
    AccessibleMeansAllowed
    PagesExactUpToCap
