-------------------------- MODULE MCStellarMonitor --------------------------
EXTENDS StellarMonitor, TLC

CONSTANTS p1, p2

\* Two transactions carry the memo of one payment, the first short-paid.
TwoTransfers == <<[memo |-> p1, paid |-> "short"], [memo |-> p1, paid |-> "full"]>>

\* One transfer only.
OneTransfer == <<[memo |-> p1, paid |-> "full"]>>

Replicas == Permutations(Worker)
=============================================================================
