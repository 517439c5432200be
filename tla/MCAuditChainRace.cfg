SPECIFICATION ChainSpec
CONSTANTS
    crewLeads = crewLeads
    passengers = passengers
    resources = resources
    verifier = verifier
    Services <- const_Services
    Verifiers <- const_Verifiers
    MaxAppends = 1
INVARIANTS
    VerifyFindsNoBreak
