SPECIFICATION WorldSpec
CONSTANTS
    aria = aria
    noor = noor
    jun = jun
    mira = mira
    spa = spa
    PassengerIds <- const_PassengerIds
    ResourceIds <- const_ResourceIds
    ActorIds <- const_ActorIds
    Callers <- const_Callers
    Founders <- const_Founders
    SeedPassengers <- const_SeedPassengers
    SeedResources <- const_SeedResources
    Levels <- const_Levels
    MaxEvents = 7
    MaxUsage = 2
INVARIANTS
    WorldTypeOK
    ExactlyThreeDistinctLeads
    TrailExplainsWorld
    UsageJustifiedByTrail
