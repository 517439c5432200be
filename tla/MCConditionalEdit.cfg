SPECIFICATION EditSpec
CONSTANTS
    p1 = p1
    p2 = p2
    aria = aria
    Ids <- const_Ids
    ActorIds <- const_ActorIds
    Clients <- const_Clients
    Levels <- const_Levels
    Kind = "Passenger"
    MaxEvents = 6
SYMMETRY Symmetry
INVARIANTS
    TypeOK
    ActiveIdsUnique
    TrailReplaysToRoster
    VersionsCountEvents
    DeletionsMatchTrail
    TrailChronological
    LookupIsLatest
    LostOnlyAcrossRecreation
    RefusedOnlyWhenOvertaken
PROPERTIES
    DeletedRecordsAreFinal
    ImplementsDirectory
