SPECIFICATION GSpec
CONSTANTS
    Requests = {r1, r2, r3}
    ActionTypes = {"toggle_delete", "application_delete"}
    MaxRows = 2
    MaxFailures = 1
    None = None
INVARIANTS PTypeOK CleanGateHolds
PROPERTY ImplementsPolicy
SYMMETRY Symmetry
CHECK_DEADLOCK FALSE
