SPECIFICATION Spec
CONSTANTS
    Requester = {"transfer", "schedule"}
    Transfer = "transfer"
    NoOne = "noone"
INVARIANT
    ReportedIsCarriedOut
CHECK_DEADLOCK FALSE
