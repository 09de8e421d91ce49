SPECIFICATION Spec
CONSTANTS
    Requester = {"transfer", "schedule"}
    Transfer = "transfer"
    NoOne = "noone"
INVARIANTS
    TypeOK
    SendsOnlyLive
    AnswerInTime
    ReportedInTime
    StarvationIsLifted
    IInv
PROPERTIES
    WaitsEnd
    ShutdownCompletes
\* A shutdown ends all threads.
CHECK_DEADLOCK FALSE
