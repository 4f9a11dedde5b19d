----------------------------- MODULE MonitorJob -----------------------------
(***************************************************************************)
(* The scan job as one replica runs it: scanPendingPayments                *)
(* (StellarMonitor) whose last call is pollEscrowEvents (SorobanMonitor),  *)
(* both on the same payments table.  StellarMonitorQueueProcessor          *)
(* (src/src/queues/queue.processors.ts) starts the job; each replica runs  *)
(* one at a time, the replicas run concurrently.                           *)
(***************************************************************************)
EXTENDS StellarMonitor

CONSTANTS Event, PageLimit, Window, MaxLedger

VARIABLES ledger, redisCursor, redisIds, spc, loaded, startLedger, ids, batch,
          snap, saves, missed, faults

Escrow == INSTANCE SorobanMonitor WITH MaxFaults <- MaxCrash

\* What SorobanMonitor assumes of its constants.
ASSUME EscrowAssumption ==
    /\ Event \in Seq([topic : Escrow!Topic, payment : Payment, ledger : Nat,
                      balance : {"enough", "short"}])
    /\ \A i, j \in 1..Len(Event) : i < j => Event[i].ledger <= Event[j].ledger
    /\ PageLimit \in Nat \ {0}
    /\ Window \in Nat \ {0}
    /\ MaxLedger \in Nat

scanOnly   == <<lock, settlements, chain, announced, horizon, overdue, pc,
                cursor, page, cur, expired, crashes>>
escrowOnly == <<ledger, redisCursor, redisIds, spc, loaded, startLedger, ids,
                batch, snap, saves, missed, faults>>
jobVars == <<row, scanOnly, escrowOnly>>

JobInit == Init /\ Escrow!InitMonitor

ScanStep(w) == (Scan(w) \/ Handled(w)) /\ UNCHANGED escrowOnly

\* The escrow poll runs while the scan waits for it; a save waits for the row
\* lock of a confirmation in progress.
EscrowStep(w) ==
    /\ pc[w] = "escrow"
    /\ \/ Escrow!LoadState(w)
       \/ Escrow!PollStep(w)
       \/ Escrow!PollRejects(w)
    /\ \A p \in Payment : row'[p] # row[p] => lock[p] = NoWorker
    /\ UNCHANGED scanOnly

\* pollEscrowEvents returns, or rejects, to the scan.
JobDone(w) ==
    /\ PollDone(w)
    /\ Escrow!PollReturns(w)

\* One process, one restart.
JobCrash(w) ==
    /\ Crash(w)
    /\ Escrow!Restart(w)

JobWorld ==
    \/ Environment /\ UNCHANGED escrowOnly
    \/ Escrow!CloseLedger /\ UNCHANGED scanOnly

JobNext ==
    \/ \E w \in Worker : \/ ScanStep(w) \/ EscrowStep(w)
                         \/ JobDone(w) \/ JobCrash(w)
    \/ JobWorld

\* The property of this specification is ImplementsLife, of StellarMonitor: the
\* whole job keeps the promise of PaymentLife although the escrow monitor writes
\* the status of the same rows without a lock and without looking at it.
JobSpec == JobInit /\ [][JobNext]_jobVars
=============================================================================
