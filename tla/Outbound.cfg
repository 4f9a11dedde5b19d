SPECIFICATION OutboundSpec
CONSTANTS
    Worker = {w1, w2}
    Event = {e1, e2}
    CircuitAt = 2
    OpenFor = 1
    DeactivateAt = 3
    DefaultMax = 2
    Limit = {1}
    MaxTime = 1
    MaxReplays = 1
    MaxAdmin = 1
    MaxFaults = 1
    p1 = p1
    p2 = p2
    j1 = j1
    j2 = j2
    j3 = j3
    RpcCall = {c1, c2, c3}
    FailureThreshold = 2
    ResetTimeout = 2
    MaxAttempts = 2
    MaxClock = 5
    Process = {p1, p2}
    Job = {j1, j2, j3}
    Home <- Homes
    Invocation = {i1}
    Submission = {s1}
    MaxSends = 2
    MaxTxFaults = 1
    EscrowPayment = {x, y}
    Operation = {o1, o2}
    FirstLedger = 0
    MaxLedger = 4
    Expiries = {1, 2}
    Replica = {r1, r2}
    User = {u1, u2}
    Address = {a1, a2}
    Registered = {r1}
    MaxWalletFaults = 1
SYMMETRY Symmetric
INVARIANTS
    NoEventVanishes
    DuplicatesAreAccounted
    ThresholdDeactivates
    OutcomeIsHonest
    BadSeqNeedsTwoConflicts
    NoRefundOfConfirmed
    AnnouncedIsStored
PROPERTY OpenCircuitIsQuiet

\* Every delivery and every call may be over and every wallet provisioned.
CHECK_DEADLOCK FALSE
