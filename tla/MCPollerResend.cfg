SPECIFICATION Spec
CONSTANTS
    Offers <- AllOffers
    SlotMastId = {m1, m2}
    VoucherSeparation = TRUE
    Capacity = 2
    MaxBadResend = 2
    MaxTx = 2
    MaxRequests = 0
    MaxChan = 2
    MaxFaults = 1
    MaxCrashes = 1
SYMMETRY Symmetry
INVARIANTS
    TypeOK
    NothingForgotten
    UniqueIdIsFresh
    PrintedTicketsCounted
    IInv
PROPERTIES
    NotToResendIsNotResent
