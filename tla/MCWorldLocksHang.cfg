SPECIFICATION FairSpec
CONSTANTS
    Requests <- const_Requests
    Plans <- const_Plans
    Writers <- const_Writers
    Readers <- const_Readers
    Workers = 2
    Store = "postgres"
    MaxFailures = 0
CHECK_DEADLOCK FALSE
PROPERTY EveryRequestEnds
