SPECIFICATION Spec
CONSTANTS
    Requests = {r1, r2}
    Calls <- McCalls
    Stores = {"sqlite"}
    Leads = 2
    MaxInFlight = 1
    MaxFailures = 0
    MaxRestarts = 0
SYMMETRY RequestSymmetry
CHECK_DEADLOCK FALSE
INVARIANTS
    NoHandlerPanics
