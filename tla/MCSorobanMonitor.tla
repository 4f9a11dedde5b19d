-------------------------- MODULE MCSorobanMonitor --------------------------
EXTENDS SorobanMonitor

CONSTANT p1

Ev(topic, payment, ledgerOf, balance) ==
    [topic |-> topic, payment |-> payment, ledger |-> ledgerOf, balance |-> balance]

\* A topic the monitor does not know, and in the next ledger a short-paid deposit and a
\* refund: a poll that begins after the last ledger leaves the refund behind its page.
Escrow == <<Ev("other", p1, 0, "enough"), Ev("deposit", p1, 1, "short"),
            Ev("refund", p1, 1, "enough")>>
=============================================================================
