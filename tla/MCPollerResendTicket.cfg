SPECIFICATION Spec
CONSTANTS
    Offers <- TicketOffers
    SlotMastId = {}
    VoucherSeparation = FALSE
    Capacity = 2
    MaxBadResend = 2
    MaxTx = 2
    MaxRequests = 0
    MaxChan = 2
    MaxFaults = 1
    MaxCrashes = 0
INVARIANT
    NoTicketForgotten
