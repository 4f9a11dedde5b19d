SPECIFICATION FairSpec
CONSTANTS
    p1 = p1
    Worker = {w1, w2}
    Payment = {p1}
    Event <- Escrow
    PageLimit = 2
    Window = 2
    MaxLedger = 2
    MaxFaults = 1
INVARIANT ReplaysAreAccounted
PROPERTY LastEventWins
