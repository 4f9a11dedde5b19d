SPECIFICATION Spec
CONSTANTS
    d1 = d1
    d2 = d2
    q1 = q1
    q2 = q2
    q3 = q3
    p1 = p1
    p2 = p2
    Dispute = {d1, d2}
    DisputedPayment <- Disputed
    Flag = {g1}
    Reviewer = {v1}
    Filer = {f1, f2}
    EscalationRun = {e1}
    HighValueThreshold = 2
    HighVelocityLimit = 1
    MaxReviewFaults = 1
    AlertOp = {o1, o2}
    Cooldown = 2
    OverdueAge = 1
    MaxOccurrences = 3
    MaxAlertClock = 3
    Request = {q1, q2, q3}
    IdOf <- Ids
    BodyOf <- Bodies
    ServedBy <- Servers
    Limit = 1
    Window = 2
    AnswerTtl = 1
    BreachThreshold = 2
    MaxRequestClock = 2
    MaxRedisFaults = 1
    Creator = creator
    Guest = {u1, u2}
    Edit = {x1, x2}
    InviteCode = {k1}
    MaxMembersRange = {2, 3}
    MaxGroupFaults = 1
    Message = {m1}
    MailWorker = {w1, w2}
    Attempts = 2
    ImportRow = {1, 2}
    Content = {c1, c2}
    MaxVersion = 2
    MaxMailFaults = 3
    EventType = {"payment.confirmed"}
    PaymentStatus <- Statuses
    StatusEvents <- Events
    Updater = {y1, y2}
    Hook = {h1, h2, h3}
    HookCall = {r1, r2, r3}
    MaxPrefFaults = 1
    PageSize = 1
    MaxNotes = 3
    MaxNoteClock = 3
    MerchantCall = {a1, a2}
    ReminderRun = {n1}
    MaxLifetime = 1
    ReminderDays = 1
    MaxDay = 1
    MaxMerchantFaults = 1
    ByteBits = 2
    OctetCount = 2
    OctetNum = {0, 1, 4}
    GroupCount = 2
    GroupValue = {0, 1, 9}
    ApiKeyScope = {"read"}
    MonthStarts <- Starts
    MonthsPerYear = 2
    DefaultDays = 3
    DefaultMonths = 2
    PresetDays = 2
    Owner = {o}
    RowDay = {16}
    RangeInput <- Inputs
    FirstDay = 17
    LastDay = 18
    MaxAsks = 2
    ExportRequest = {z1, z2}
    ExportRun = {l1, l2}
    ExportQuota = 1
    QuotaWindow = 1
    LinkTtl = 1
    MaxExportClock = 2
    MaxExportFaults = 1
    RankedMerchant = {1, 2, 3}
    VolumeUsd = {0, 1, 5}
    ExactVolume = 2
    RankLimit = 1
    RankClient = {j1}
    MaxWalks = 2
    MaxVolumeChanges = 1
    FeeReader = {s1, s2}
    FeeUpdater = {b1, b2}
    MaxFeeFaults = 1
INVARIANTS
    CooldownSpacesNotices
    EachCounterHoldsLimit
    HandledOnceUnlessOverlapping
    CapacityHoldsUpToOverlap
    MailLogIsHonest
    NewestHookStays
    ListingIsComplete
    MarkedIsReminded
    AllowlistIsExact
    AnswersFit
    MailedTokenWorks
    UnchangedIsListedOnce
    FeesAreFresh
PROPERTY ClosedIsEscalatedByOldRunsOnly

\* Every call, job and question may be over.
CHECK_DEADLOCK FALSE
