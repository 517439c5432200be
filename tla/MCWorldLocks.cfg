SPECIFICATION FairSpec
CONSTANTS
    Requests <- const_Requests
    Plans <- const_Plans
    Writers <- const_Writers
    Readers <- const_Readers
    Workers = 3
    Store = "sqlite"
    MaxFailures = 1
INVARIANTS
    SomebodyRuns
    AccessSeesOneWorld
    ReadyMeansNoPanicBefore
PROPERTY
    EveryRequestEnds
