SPECIFICATION WalletSpec
CONSTANTS
    Replica = {r1, r2}
    User = {u1, u2}
    Address = {a1, a2}
    Registered = {r1, r2}
    MaxWalletFaults = 1
INVARIANT SecretsSurviveRotation

\* Every user may have a wallet and every replica its last deployment.
CHECK_DEADLOCK FALSE
