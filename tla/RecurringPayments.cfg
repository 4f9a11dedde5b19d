SPECIFICATION FairSpec
CONSTANTS
    Sub = {s1}
    Charger = {c1, c2}
    Notifier = {n1}
    Interval = 1
    Lead = 1
    MaxTime = 2
    MaxFaults = 2
    MaxCrashes = 1
    MaxCancels = 1
CHECK_DEADLOCK FALSE
INVARIANTS
    ClaimExcludes
    NotifiedBeforeCharged
PROPERTY EveryCycleIsCharged
