SPECIFICATION Spec
CONSTANTS
    t1 = t1
    t2 = t2
    t3 = t3
    t4 = t4
    NoTx = NoTx
    NumBlocks = 2
    MaxPieces = 2
    Id = {1, 2, 3}
    Tx <- MCTx
    IdOf <- MCIdOf
    LenOf <- MCLenOf
    OutOf <- MCOutOf
    WriteResults = {TRUE, FALSE}
INVARIANT
    ConfirmedIsDurable
