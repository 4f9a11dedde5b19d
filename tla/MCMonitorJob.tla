---------------------------- MODULE MCMonitorJob ----------------------------
EXTENDS MonitorJob, TLC

CONSTANTS p1

OneTransfer == <<[memo |-> p1, paid |-> "full"]>>

\* The escrow contract reports the release of the payment.
Released ==
    <<[topic |-> "release", payment |-> p1, ledger |-> 1, balance |-> "enough"]>>

Replicas == Permutations(Worker)
=============================================================================
