--------------------------- MODULE StellarMonitor ---------------------------
(***************************************************************************)
(* StellarMonitorService (src/src/stellar/stellar-monitor.service.ts): the *)
(* Bull job that, on every poll, reads the transactions Horizon has for    *)
(* the deposit address, confirms the pending payments they pay, expires    *)
(* the pending payments that are overdue and hands over to the escrow      *)
(* monitor.  Two replicas of the service run the job on the same database, *)
(* so every await between a read and a write is a point where the other    *)
(* replica may act.                                                        *)
(*                                                                         *)
(* A Horizon transaction is its index in Tx (its paging token); a payment  *)
(* row keeps the two columns the monitors write: status and txHash.        *)
(***************************************************************************)
EXTENDS Integers, Sequences

CONSTANTS
    Worker,      \* the replicas that run the scan job
    Payment,     \* the payments, all created before the first poll
    Tx,          \* what Horizon will list: a sequence of [memo, paid]
    NoPayment,   \* a transaction without a memo of ours
    NoWorker,    \* the owner of a row lock nobody holds
    MaxCrash     \* bound: how many restarts of a replica are explored

ASSUME TxAssumption ==
    Tx \in Seq([memo : Payment \cup {NoPayment}, paid : {"full", "short"}])
ASSUME NoPaymentAssumption == NoPayment \notin Payment
ASSUME NoWorkerAssumption == NoWorker \notin Worker
ASSUME MaxCrashAssumption == MaxCrash \in Nat

VARIABLES
    row,         \* payments table: the committed row of each payment
    lock,        \* who holds the row lock (SELECT ... FOR UPDATE)
    settlements, \* how many settlements were initiated and committed
    chain,       \* contract functions submitted for each payment
    announced,   \* webhook events handed to the delivery queue
    horizon,     \* how many entries of Tx Horizon lists so far
    overdue,     \* payments whose expiresAt has passed
    pc,          \* where each worker is in scanPendingPayments
    cursor,      \* this.cursors: in memory, one per process
    page,        \* last transaction of the page being scanned
    cur,         \* the payment the worker is handling
    expired,     \* rows that expireOldPayments has read and not yet handled
    crashes

vars == <<row, lock, settlements, chain, announced, horizon, overdue,
          pc, cursor, page, cur, expired, crashes>>

db    == <<row, lock, settlements>>
world == <<chain, announced>>
env   == <<horizon, overdue>>
local == <<cursor, page, cur, expired>>

NoTx == 0
TxId == 1..Len(Tx)

\* PaymentStatus, the values that the monitors read or write.
Status == {"pending", "confirmed", "settled", "failed", "expired", "refunded"}
Row == [status : Status, txHash : TxId \cup {NoTx}]

\* repo.save(entity) reads the row again and writes each column in which the
\* entity differs from what it read.  When that read saw the latest row, the
\* entity's own columns replace it; when the row changed after the read, only
\* the column the caller assigned is written.
Saved(entity, now, status) ==
    {[status |-> status, txHash |-> h] : h \in {entity.txHash, now.txHash}}

-----------------------------------------------------------------------------
Init ==
    /\ row = [p \in Payment |-> [status |-> "pending", txHash |-> NoTx]]
    /\ lock = [p \in Payment |-> NoWorker]
    /\ settlements = [p \in Payment |-> 0]
    /\ chain = [p \in Payment |-> {}]
    /\ announced = [p \in Payment |-> {}]
    /\ horizon = 0
    /\ overdue = {}
    /\ pc = [w \in Worker |-> "idle"]
    /\ cursor = [w \in Worker |-> 0]
    /\ page = [w \in Worker |-> 0]
    /\ cur = [w \in Worker |-> NoPayment]
    /\ expired = [w \in Worker |-> {}]
    /\ crashes = 0

Goto(w, from, to) ==
    /\ pc[w] = from
    /\ pc' = [pc EXCEPT ![w] = to]

\* The catch blocks raise an admin alert and the loop goes on; when that call
\* rejects as well, the whole poll ends.
CatchAndAlert(w, to) ==
    \E at \in {to, "idle"} : pc' = [pc EXCEPT ![w] = at]

\* The page of transactions after the in-memory cursor.  A poll that finds the
\* Horizon circuit open, or whose fetch fails, returns and is no step.  The run
\* status and the lag gauge (markRunSuccess, markRunFailure, updateLag) are data
\* for the dashboard and are left out.
PollStart(w) ==
    /\ Goto(w, "idle", "scan")
    /\ page' = [page EXCEPT ![w] = horizon]
    /\ UNCHANGED <<db, world, env, cursor, cur, expired, crashes>>

\* One iteration of the loop up to the lookup of the pending payment.  The
\* cursor moves first, whatever becomes of the transaction afterwards.
ScanNext(w) ==
    /\ pc[w] = "scan"
    /\ cursor[w] < page[w]
    /\ cursor' = [cursor EXCEPT ![w] = @ + 1]
    /\ LET p == Tx[cursor[w] + 1].memo IN
       IF p \in Payment /\ row[p].status = "pending"
         THEN /\ cur' = [cur EXCEPT ![w] = p]
              /\ pc' = [pc EXCEPT ![w] = "matched"]
         ELSE UNCHANGED <<cur, pc>>
    /\ UNCHANGED <<db, world, env, page, expired, crashes>>

\* The lookup itself rejects: the poll ends, with the cursor already moved.
LookupFails(w) ==
    /\ Goto(w, "scan", "idle")
    /\ cursor[w] < page[w]
    /\ cursor' = [cursor EXCEPT ![w] = @ + 1]
    /\ UNCHANGED <<db, world, env, page, cur, expired, crashes>>

\* verifyPayment checks the memo and the asset; the amount is not an argument
\* of the call.  A Horizon error is caught and read as "not verified".
Verify(w) ==
    /\ pc[w] = "matched"
    /\ \E to \in {"verified", "scan"} : pc' = [pc EXCEPT ![w] = to]
    /\ UNCHANGED <<db, world, env, local, crashes>>

\* Mutation: the row is locked by id alone, without status = PENDING.
LockPending_NoRecheck(w) ==
    /\ Goto(w, "verified", "locked")
    /\ lock[cur[w]] = NoWorker
    /\ lock' = [lock EXCEPT ![cur[w]] = w]
    /\ UNCHANGED <<row, settlements, world, env, local, crashes>>

\* Mutation: findOne without the pessimistic_write lock.
LockPending_NoLock(w) ==
    /\ Goto(w, "verified", "locked")
    /\ row[cur[w]].status = "pending"
    /\ lock' = [lock EXCEPT ![cur[w]] = w]
    /\ UNCHANGED <<row, settlements, world, env, local, crashes>>

\* confirmPayment: the SELECT ... FOR UPDATE waits for the lock and then
\* evaluates status = PENDING on the row as it is now.
LockPending(w) ==
    LET p == cur[w] IN
    /\ pc[w] = "verified"
    /\ lock[p] = NoWorker
    /\ IF row[p].status = "pending"
         THEN /\ lock' = [lock EXCEPT ![p] = w]
              /\ pc' = [pc EXCEPT ![w] = "locked"]
         ELSE /\ pc' = [pc EXCEPT ![w] = "scan"]
              /\ UNCHANGED lock
    /\ UNCHANGED <<row, settlements, world, env, local, crashes>>

InvokeConfirm(w) ==
    /\ Goto(w, "locked", "invoked")
    /\ chain' = [chain EXCEPT ![cur[w]] = @ \cup {"confirm"}]
    /\ UNCHANGED <<db, announced, env, local, crashes>>

\* manager.save(locked), the e-mail, the SMS and the webhook all run inside the
\* transaction; the row stays invisible to others until the commit.
DispatchConfirmed(w) ==
    /\ Goto(w, "invoked", "announced")
    /\ announced' = [announced EXCEPT ![cur[w]] = @ \cup {"payment.confirmed"}]
    /\ UNCHANGED <<db, chain, env, local, crashes>>

\* Mutation: the settlement is initiated and committed before the webhook.
CommitConfirmed_BeforeWebhook(w) ==
    LET p == cur[w] IN
    /\ Goto(w, "invoked", "scan")
    /\ row' = [row EXCEPT ![p] = [status |-> "confirmed", txHash |-> cursor[w]]]
    /\ settlements' = [settlements EXCEPT ![p] = @ + 1]
    /\ lock' = [lock EXCEPT ![p] = NoWorker]
    /\ UNCHANGED <<world, env, local, crashes>>

\* initiateSettlement(locked, manager) is the last call of the transaction;
\* its settlement is committed together with the payment row.
CommitConfirmed(w) ==
    LET p == cur[w] IN
    /\ Goto(w, "announced", "scan")
    /\ row' = [row EXCEPT ![p] = [status |-> "confirmed", txHash |-> cursor[w]]]
    /\ settlements' = [settlements EXCEPT ![p] = @ + 1]
    /\ lock' = [lock EXCEPT ![p] = NoWorker]
    /\ UNCHANGED <<world, env, local, crashes>>

\* Any call inside the transaction may reject and the transaction rolls back.
\* A contract call that rejects may have been submitted all the same.
Rollback(w) ==
    LET p == cur[w] IN
    /\ pc[w] \in {"locked", "invoked", "announced"}
    /\ CatchAndAlert(w, "scan")
    /\ lock' = [lock EXCEPT ![p] = NoWorker]
    /\ \/ UNCHANGED chain
       \/ /\ pc[w] = "locked"
          /\ chain' = [chain EXCEPT ![p] = @ \cup {"confirm"}]
    /\ UNCHANGED <<row, settlements, announced, env, cursor, page, cur, expired,
                   crashes>>

\* Mutation: the expiry query asks for the wrong status.
ReadExpired_WrongStatus(w) ==
    /\ Goto(w, "scan", "expire")
    /\ cursor[w] = page[w]
    /\ expired' = [expired EXCEPT
                     ![w] = {p \in overdue : row[p].status = "failed"}]
    /\ cur' = [cur EXCEPT ![w] = NoPayment]
    /\ UNCHANGED <<db, world, env, cursor, page, crashes>>

\* expireOldPayments: one query reads the pending rows that are overdue.
ReadExpired(w) ==
    /\ Goto(w, "scan", "expire")
    /\ cursor[w] = page[w]
    /\ expired' = [expired EXCEPT
                     ![w] = {p \in overdue : row[p].status = "pending"}]
    /\ cur' = [cur EXCEPT ![w] = NoPayment]
    /\ UNCHANGED <<db, world, env, cursor, page, crashes>>

InvokeExpire(w) ==
    /\ Goto(w, "expire", "expiring")
    /\ \E p \in expired[w] :
         /\ cur' = [cur EXCEPT ![w] = p]
         /\ expired' = [expired EXCEPT ![w] = @ \ {p}]
         /\ chain' = [chain EXCEPT ![p] = @ \cup {"expire"}]
    /\ UNCHANGED <<db, announced, env, cursor, page, crashes>>

InvokeExpireFails(w) ==
    /\ pc[w] = "expire"
    /\ CatchAndAlert(w, "expire")
    /\ \E p \in expired[w] :
         /\ expired' = [expired EXCEPT ![w] = @ \ {p}]
         /\ \/ UNCHANGED chain
            \/ chain' = [chain EXCEPT ![p] = @ \cup {"expire"}]
    /\ UNCHANGED <<db, announced, env, cursor, page, cur, crashes>>

\* Mutation: the entity is saved as it was read, without the new status.
SaveExpired_KeepsStatus(w) ==
    /\ Goto(w, "expiring", "expired")
    /\ lock[cur[w]] = NoWorker
    /\ row' = [row EXCEPT ![cur[w]] = [status |-> "pending", txHash |-> NoTx]]
    /\ UNCHANGED <<lock, settlements, world, env, local, crashes>>

\* The UPDATE waits for a row lock, but nothing checks the status again.  The
\* entity was read as a pending row without a transaction.
SaveExpired(w) ==
    LET p == cur[w]
        entity == [status |-> "pending", txHash |-> NoTx] IN
    /\ Goto(w, "expiring", "expired")
    /\ lock[p] = NoWorker
    /\ \E r \in Saved(entity, row[p], "expired") : row' = [row EXCEPT ![p] = r]
    /\ UNCHANGED <<lock, settlements, world, env, local, crashes>>

DispatchExpired(w) ==
    /\ Goto(w, "expired", "expire")
    /\ announced' = [announced EXCEPT ![cur[w]] = @ \cup {"payment.expired"}]
    /\ UNCHANGED <<db, chain, env, local, crashes>>

\* The save or the dispatch rejects.
ExpireFails(w) ==
    /\ pc[w] \in {"expiring", "expired"}
    /\ CatchAndAlert(w, "expire")
    /\ UNCHANGED <<db, world, env, cursor, page, cur, expired, crashes>>

ExpireDone(w) ==
    /\ Goto(w, "expire", "escrow")
    /\ expired[w] = {}
    /\ UNCHANGED <<db, world, env, local, crashes>>

\* sorobanMonitor.pollEscrowEvents() (its steps are in SorobanMonitor) has
\* returned or rejected, and with it the poll; its local variables are gone.
PollDone(w) ==
    /\ Goto(w, "escrow", "idle")
    /\ page' = [page EXCEPT ![w] = 0]
    /\ cur' = [cur EXCEPT ![w] = NoPayment]
    /\ UNCHANGED <<db, world, env, cursor, expired, crashes>>

\* The expiry query rejects.
PollFails(w) ==
    /\ Goto(w, "scan", "idle")
    /\ cursor[w] = page[w]
    /\ UNCHANGED <<db, world, env, local, crashes>>

\* The process stops and is started again: Postgres rolls back its open
\* transaction and the in-memory cursor is lost.
Crash(w) ==
    /\ crashes < MaxCrash
    /\ crashes' = crashes + 1
    /\ pc' = [pc EXCEPT ![w] = "idle"]
    /\ lock' = [p \in Payment |-> IF lock[p] = w THEN NoWorker ELSE lock[p]]
    /\ cursor' = [cursor EXCEPT ![w] = 0]
    /\ page' = [page EXCEPT ![w] = 0]
    /\ cur' = [cur EXCEPT ![w] = NoPayment]
    /\ expired' = [expired EXCEPT ![w] = {}]
    /\ UNCHANGED <<row, settlements, world, env>>

\* External: a customer's transaction reaches a closed ledger.
HorizonLists ==
    /\ horizon < Len(Tx)
    /\ horizon' = horizon + 1
    /\ UNCHANGED <<db, world, overdue, pc, local, crashes>>

\* External: the clock passes a payment's expiresAt.
Overdue(p) ==
    /\ p \notin overdue
    /\ overdue' = overdue \cup {p}
    /\ UNCHANGED <<db, world, horizon, pc, local, crashes>>

Scan(w) ==
    \/ PollStart(w) \/ ScanNext(w) \/ Verify(w) \/ LockPending(w)
    \/ InvokeConfirm(w) \/ DispatchConfirmed(w) \/ CommitConfirmed(w)
    \/ ReadExpired(w) \/ InvokeExpire(w) \/ SaveExpired(w)
    \/ DispatchExpired(w) \/ ExpireDone(w)

Handled(w) ==
    \/ LookupFails(w) \/ Rollback(w) \/ InvokeExpireFails(w)
    \/ ExpireFails(w) \/ PollFails(w)

Environment == HorizonLists \/ \E p \in Payment : Overdue(p)

Next ==
    \/ \E w \in Worker : Scan(w) \/ Handled(w) \/ PollDone(w) \/ Crash(w)
    \/ Environment

Spec == Init /\ [][Next]_vars

\* Bull repeats the scan job every 30 seconds in each replica and retries it
\* when it throws, so a worker always takes its next step.  A database query
\* and a contract call that are tried again and again succeed eventually.
Fairness ==
    \A w \in Worker :
        /\ WF_vars(Scan(w) \/ PollDone(w))
        /\ SF_vars(ReadExpired(w))
        /\ SF_vars(InvokeExpire(w))
        /\ SF_vars(SaveExpired(w))

FairSpec == Spec /\ Fairness

-----------------------------------------------------------------------------
InTransaction == {"locked", "invoked", "announced"}

PC == InTransaction \cup {"idle", "scan", "matched", "verified", "expire",
                          "expiring", "expired", "escrow"}

\* The shape of the state of stellar-monitor.service.ts.
TypeOK ==
    /\ row \in [Payment -> Row]
    /\ lock \in [Payment -> Worker \cup {NoWorker}]
    /\ settlements \in [Payment -> Nat]
    /\ chain \in [Payment -> SUBSET {"confirm", "expire"}]
    /\ announced \in [Payment -> SUBSET {"payment.confirmed", "payment.expired"}]
    /\ horizon \in 0..Len(Tx)
    /\ overdue \in SUBSET Payment
    /\ pc \in [Worker -> PC]
    /\ cursor \in [Worker -> 0..Len(Tx)]
    /\ page \in [Worker -> 0..Len(Tx)]
    /\ cur \in [Worker -> Payment \cup {NoPayment}]
    /\ expired \in [Worker -> SUBSET Payment]
    /\ crashes \in 0..MaxCrash

\* confirmPayment's guard ("Re-fetch with a row-level lock to prevent
\* concurrent double-settlement"): over all replicas, polls, restarts and
\* transactions that carry the same memo, a payment is settled at most once.
SettledAtMostOnce == \A p \in Payment : settlements[p] <= 1

\* A payment that was settled has left "pending" for good, and the contract
\* call and the webhook came before the settlement: confirmPayment commits last.
SettlementIsBacked ==
    \A p \in Payment : settlements[p] > 0 =>
        /\ row[p].status # "pending"
        /\ "confirm" \in chain[p]
        /\ "payment.confirmed" \in announced[p]

\* No two workers are inside confirmPayment's transaction for one payment.
OneConfirmation ==
    \A v, w \in Worker :
        /\ v # w
        /\ pc[v] \in InTransaction
        /\ pc[w] \in InTransaction
        => cur[v] # cur[w]

\* Neither the confirmation, nor the stale save of expireOldPayments, nor a
\* rollback brings a payment back to "pending" once it has left it.
PendingIsLeftForGood ==
    [][\A p \in Payment :
         row[p].status # "pending" => row'[p].status # "pending"]_vars

Life == INSTANCE PaymentLife WITH
    open   <- {p \in Payment : row[p].status = "pending"},
    backed <- {p \in Payment : "confirm" \in chain[p] /\ "payment.confirmed" \in announced[p]}

\* Every behaviour of the monitors is a behaviour of PaymentLife: however
\* confirmations, expiries, rollbacks and restarts interleave, each of their
\* steps closes one open payment, backs one, or changes nothing of a life.
ImplementsLife == Life!Spec

\* What expireOldPayments is for: a pending payment that is overdue does not
\* stay pending, whatever fails or crashes on the way.
OverdueLeavesPending ==
    \A p \in Payment : p \in overdue ~> row[p].status # "pending"
=============================================================================
