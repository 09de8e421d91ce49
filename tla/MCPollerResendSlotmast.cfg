SPECIFICATION Spec
CONSTANTS
    Offers <- SlotmastOffers
    SlotMastId = {m1}
    VoucherSeparation = FALSE
    Capacity = 2
    MaxBadResend = 2
    MaxTx = 2
    MaxRequests = 1
    MaxChan = 2
    MaxFaults = 0
    MaxCrashes = 0
INVARIANT
    AnswerOnItsWay
