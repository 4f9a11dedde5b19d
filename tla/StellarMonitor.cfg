SPECIFICATION FairSpec
CONSTANTS
    p1 = p1
    p2 = p2
    Worker = {w1, w2}
    Payment = {p1}
    Tx <- TwoTransfers
    NoPayment = NoPayment
    NoWorker = NoWorker
    MaxCrash = 1
INVARIANTS
    SettledAtMostOnce
    SettlementIsBacked
    OneConfirmation
PROPERTIES
    ImplementsLife
    OverdueLeavesPending
