SPECIFICATION ServeSpec
CONSTANTS
    Segments = {"aria", "bron", "north", "k"}
    ActorIds <- const_ActorIds
    Ids = {"neo"}
    Attempts = {"first", "joined", "other"}
    Request <- const_Request
    Removers <- const_Removers
    MaxFailures = 1
    MaxEvents = 4
    MaxRestarts = 1
INVARIANTS
    AnswersAreOwn
    KeptKeyIsExactlyOnce
PROPERTIES
    EveryAttemptIsAnswered
    SignalLeadsToStop
CHECK_DEADLOCK FALSE
