SPECIFICATION JobSpec
CONSTANTS
    p1 = p1
    Worker = {w1, w2}
    Payment = {p1}
    Tx <- OneTransfer
    NoPayment = NoPayment
    NoWorker = NoWorker
    MaxCrash = 1
    Event <- Released
    PageLimit = 1
    Window = 1
    MaxLedger = 1
SYMMETRY Replicas
PROPERTY ImplementsLife
