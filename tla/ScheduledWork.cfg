SPECIFICATION Spec
CONSTANTS
    h1 = h1
    h2 = h2
    r1 = r1
    r2 = r2
    r3 = r3
    r4 = r4
    m1 = m1
    t1 = t1
    t2 = t2
    t3 = t3
    p1 = p1
    p2 = p2
    p3 = p3
    Process = {h1, h2}
    Run = {r1, r2, r3, r4}
    Host <- TwoEach
    MaxCronFaults = 2
    MaxStartFaults = 1
    Poller = {o1, o2}
    Event <- Emitted
    PageLimit = 2
    MaxLedger = 3
    MaxIndexerFaults = 1
    Settlement = {t1, t2, t3}
    Merchant = {m1}
    Owner <- OneMerchant
    Payment = {p1, p2, p3}
    Of <- Linked
    Request = {a1, a2}
    Worker = {w1, w2}
    MaxAttempts = 2
    MaxSettlementFaults = 1
    MaxRetries = 1
INVARIANTS
    AloneUntilTimeout
    CursorIsBacked
    MerchantIsolation
    TransfersAreAccounted
PROPERTIES
    FollowedJobKeepsRunning
    EventsAreHandled
    RejectionReachesPayments

\* The settlement requests and the days may be over.
CHECK_DEADLOCK FALSE
