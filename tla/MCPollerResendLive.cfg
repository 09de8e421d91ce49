SPECIFICATION FairSpec
CONSTANTS
    Offers <- LiveOffers
    SlotMastId = {}
    VoucherSeparation = FALSE
    Capacity = 1
    MaxBadResend = 1
    MaxTx = 2
    MaxRequests = 1
    MaxChan = 1
    MaxFaults = 1
    MaxCrashes = 0
INVARIANT
    AnswerOnItsWay
PROPERTIES
    EverythingLeaves
    RequestIsAnswered
