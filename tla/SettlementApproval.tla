------------------------- MODULE SettlementApproval -------------------------
(***************************************************************************)
(* The admin decision on a large settlement (approveSettlement and         *)
(* rejectSettlement in src/src/settlements/settlements.service.ts) and the *)
(* job that pays settlements out (SettlementQueueProcessor in              *)
(* src/src/queues/queue.processors.ts).                                    *)
(*                                                                         *)
(* initiateSettlement, executeFiatTransfer and the Redis lock are not in   *)
(* the repository at this commit and are modelled from their callers.      *)
(***************************************************************************)
EXTENDS Integers

CONSTANTS
    Settlement, Merchant, Owner,  \* Owner: the merchant of each settlement
    Payment, Of,                  \* Of: the settlement of each payment
    Request,                      \* concurrent admin requests
    Worker,                       \* processes that run the queue processor
    MaxAttempts,                  \* attempts of a job of the queue (3)
    MaxSettlementFaults,          \* bound: rejected calls and restarts
    MaxRetries                    \* bound: calls of retryFailedJob

Nobody == "nobody"
Dead == "dead"       \* the lock's token belongs to a process that died
NoJob == <<>>

ASSUME SettlementAssumption ==
    /\ Nobody \notin Worker /\ Dead \notin Worker
    /\ Owner \in [Settlement -> Merchant]
    /\ Of \in [Payment -> Settlement]
    /\ MaxAttempts \in Nat \ {0}
    /\ MaxSettlementFaults \in Nat /\ MaxRetries \in Nat

VARIABLES
    row,        \* settlements.status
    payment,    \* payments.status
    queue,      \* waiting jobs of each Bull queue
    failedJobs, \* failed jobs of the 'settlement' queue
    rpc, target, \* each admin request: step, settlement
    todo,       \* payments that a rejecting request has not failed yet
    wpc, job,   \* each worker: step, job
    lock,       \* lock:settlement:merchant:<id>
    lapsed,     \* history: workers whose lock ended while they held it
    transfers,  \* history: fiat transfers made for each settlement
    settlementFaults, retries

settlementVars == <<row, payment, queue, failedJobs, rpc, target, todo, wpc, job, lock,
                    lapsed, transfers, settlementFaults, retries>>
request == <<rpc, target, todo>>
worker == <<wpc, job, lapsed>>
jobs == <<queue, failedJobs>>

QueueName == {"settlement", "settlements"}

\* The queue SettlementsService injects, and the one the processor serves.
DispatchQueue == "settlements"
ProcessorQueue == "settlement"

SettlementInit ==
    /\ row = [s \in Settlement |-> "absent"]
    /\ payment = [p \in Payment |-> "settling"]
    /\ queue = [q \in QueueName |-> {}]
    /\ failedJobs = {}
    /\ rpc = [a \in Request |-> "idle"]
    /\ target = [a \in Request |-> NoJob]
    /\ todo = [a \in Request |-> {}]
    /\ wpc = [w \in Worker |-> "idle"]
    /\ job = [w \in Worker |-> NoJob]
    /\ lock = [m \in Merchant |-> Nobody]
    /\ lapsed = {}
    /\ transfers = [s \in Settlement |-> 0]
    /\ settlementFaults = 0 /\ retries = 0

SettlementFault ==
    /\ settlementFaults < MaxSettlementFaults
    /\ settlementFaults' = settlementFaults + 1

\* External: initiateSettlement.  A large settlement waits for an admin; a small
\* one reaches the processor (no producer of its queue is in the repository).
Initiate(s) ==
    /\ row[s] = "absent"
    /\ \/ row' = [row EXCEPT ![s] = "pending_approval"] /\ UNCHANGED queue
       \/ /\ row' = [row EXCEPT ![s] = "processing"]
          /\ queue' = [queue EXCEPT ![ProcessorQueue] =
                         @ \cup {[settlement |-> s, by |-> "monitor", tries |-> 0]}]
    /\ UNCHANGED <<payment, failedJobs, request, worker, lock, transfers, settlementFaults, retries>>

-----------------------------------------------------------------------------
(* Admin requests *)

\* findOne and the checks: a settlement that is not pending approval is refused.
ReadForDecision(a, s) ==
    /\ rpc[a] = "idle"
    /\ row[s] = "pending_approval"
    /\ \E step \in {"approve", "reject"} : rpc' = [rpc EXCEPT ![a] = step]
    /\ target' = [target EXCEPT ![a] = s]
    /\ UNCHANGED <<row, payment, jobs, todo, worker, lock, transfers,
                   settlementFaults, retries>>

SaveDecision(a, from, status, to) ==
    /\ rpc[a] = from
    /\ rpc' = [rpc EXCEPT ![a] = to]
    /\ row' = [row EXCEPT ![target[a]] = status]
    /\ UNCHANGED <<payment, jobs, target, worker, lock, transfers, settlementFaults, retries>>

SaveApproved(a) ==
    /\ SaveDecision(a, "approve", "processing", "approved")
    /\ UNCHANGED todo

SaveRejected(a) ==
    /\ SaveDecision(a, "reject", "failed", "rejected")
    /\ todo' = [todo EXCEPT ![a] = {p \in Payment : Of[p] = target[a]}]

EndRequest(a) ==
    /\ rpc' = [rpc EXCEPT ![a] = "done"]
    /\ target' = [target EXCEPT ![a] = NoJob]
    /\ todo' = [todo EXCEPT ![a] = {}]

\* writeAuditLog, then queue.add; the notification that follows changes nothing.
EnqueueApproved(a) ==
    /\ rpc[a] = "approved"
    /\ queue' = [queue EXCEPT ![DispatchQueue] =
                   @ \cup {[settlement |-> target[a], by |-> a, tries |-> 0]}]
    /\ EndRequest(a)
    /\ UNCHANGED <<row, payment, failedJobs, worker, lock, transfers,
                   settlementFaults, retries>>

\* Mutation: the loop stops after the first payment.
FailPayment_FirstOnly(a) ==
    /\ rpc[a] = "rejected"
    /\ \E p \in todo[a] : payment' = [payment EXCEPT ![p] = "failed"]
    /\ todo' = [todo EXCEPT ![a] = {}]
    /\ UNCHANGED <<row, jobs, rpc, target, worker, lock, transfers,
                   settlementFaults, retries>>

\* The payments of a rejected settlement are saved one after the other.
FailPayment(a) ==
    /\ rpc[a] = "rejected"
    /\ \E p \in todo[a] :
         /\ payment' = [payment EXCEPT ![p] = "failed"]
         /\ todo' = [todo EXCEPT ![a] = @ \ {p}]
    /\ UNCHANGED <<row, jobs, rpc, target, worker, lock, transfers,
                   settlementFaults, retries>>

RejectDone(a) ==
    /\ rpc[a] = "rejected"
    /\ todo[a] = {}
    /\ EndRequest(a)
    /\ UNCHANGED <<row, payment, jobs, worker, lock, transfers, settlementFaults,
                   retries>>

\* A call rejects, or the process dies: the request ends where it is.
RequestFails(a) ==
    /\ SettlementFault
    /\ rpc[a] \in {"approve", "reject", "approved", "rejected"}
    /\ EndRequest(a)
    /\ UNCHANGED <<row, payment, jobs, worker, lock, transfers, retries>>

-----------------------------------------------------------------------------
(* SettlementQueueProcessor.handle *)

Take(w, j) ==
    /\ wpc[w] = "idle"
    /\ j \in queue[ProcessorQueue]
    /\ queue' = [queue EXCEPT ![ProcessorQueue] = @ \ {j}]

HasPayments(s) == \E p \in Payment : Of[p] = s

\* A settlement without payments: the job completes.
SkipEmpty(w, j) ==
    /\ Take(w, j)
    /\ ~HasPayments(j.settlement)
    /\ UNCHANGED <<row, payment, failedJobs, request, worker, lock, transfers, settlementFaults, retries>>

\* Mutation: the lock is not looked at.
AcquireLock_Always(w, j) ==
    /\ Take(w, j)
    /\ HasPayments(j.settlement)
    /\ lock' = [lock EXCEPT ![Owner[j.settlement]] = w]
    /\ wpc' = [wpc EXCEPT ![w] = "transfer"]
    /\ job' = [job EXCEPT ![w] = j]
    /\ UNCHANGED <<row, payment, failedJobs, request, lapsed, transfers,
                   settlementFaults, retries>>

\* acquireLock returns a token.
AcquireLock(w, j) ==
    /\ Take(w, j)
    /\ HasPayments(j.settlement)
    /\ lock[Owner[j.settlement]] = Nobody
    /\ lock' = [lock EXCEPT ![Owner[j.settlement]] = w]
    /\ wpc' = [wpc EXCEPT ![w] = "transfer"]
    /\ job' = [job EXCEPT ![w] = j]
    /\ UNCHANGED <<row, payment, failedJobs, request, lapsed, transfers,
                   settlementFaults, retries>>

\* Bull runs a job that threw again, or gives it up (attempts: 3).
Again(waiting, j) ==
    LET k == [j EXCEPT !.tries = @ + 1] IN
    IF k.tries < MaxAttempts
    THEN /\ queue' = [queue EXCEPT ![ProcessorQueue] = waiting \cup {k}]
         /\ UNCHANGED failedJobs
    ELSE /\ queue' = [queue EXCEPT ![ProcessorQueue] = waiting]
         /\ failedJobs' = failedJobs \cup {[j EXCEPT !.tries = 0]}

\* ConflictException: another job of the merchant holds the lock.
Conflict(w, j) ==
    /\ wpc[w] = "idle"
    /\ j \in queue[ProcessorQueue]
    /\ HasPayments(j.settlement)
    /\ lock[Owner[j.settlement]] # Nobody
    /\ Again(queue[ProcessorQueue] \ {j}, j)
    /\ UNCHANGED <<row, payment, request, worker, lock, transfers,
                   settlementFaults, retries>>

\* External: executeFiatTransfer resolves.
Transfer(w) ==
    /\ wpc[w] = "transfer"
    /\ wpc' = [wpc EXCEPT ![w] = "paid"]
    /\ transfers' = [transfers EXCEPT ![job[w].settlement] = @ + 1]
    /\ UNCHANGED <<row, payment, jobs, request, job, lock, lapsed, settlementFaults,
                   retries>>

\* External: executeFiatTransfer rejects, before or after the partner has paid.
TransferFails(w) ==
    /\ SettlementFault
    /\ wpc[w] = "transfer"
    /\ wpc' = [wpc EXCEPT ![w] = "thrown"]
    /\ \E n \in {0, 1} :
         transfers' = [transfers EXCEPT ![job[w].settlement] = @ + n]
    /\ UNCHANGED <<row, payment, jobs, request, job, lock, lapsed, retries>>

\* releaseLock removes the lock only if its token is still the worker's.
Unlock(w) ==
    lock' = [m \in Merchant |->
               IF m = Owner[job[w].settlement] /\ lock[m] = w THEN Nobody ELSE lock[m]]

Idle(w) ==
    /\ wpc' = [wpc EXCEPT ![w] = "idle"]
    /\ job' = [job EXCEPT ![w] = NoJob]
    /\ lapsed' = lapsed \ {w}

\* Mutation: the job is run again although the transfer succeeded.
ReleaseLock_RunsAgain(w) ==
    /\ wpc[w] \in {"paid", "thrown"}
    /\ Unlock(w)
    /\ Again(queue[ProcessorQueue], job[w])
    /\ Idle(w)
    /\ UNCHANGED <<row, payment, request, transfers, settlementFaults, retries>>

\* The finally block: a job whose transfer threw is run again.
ReleaseLock(w) ==
    /\ wpc[w] \in {"paid", "thrown"}
    /\ Unlock(w)
    /\ IF wpc[w] = "paid" THEN UNCHANGED jobs
                          ELSE Again(queue[ProcessorQueue], job[w])
    /\ Idle(w)
    /\ UNCHANGED <<row, payment, request, transfers, settlementFaults, retries>>

\* releaseLock rejects: the job throws, the lock stays until it expires.
UnlockFails(w) ==
    /\ SettlementFault
    /\ wpc[w] \in {"paid", "thrown"}
    /\ lock' = [m \in Merchant |-> IF lock[m] = w THEN Dead ELSE lock[m]]
    /\ Again(queue[ProcessorQueue], job[w])
    /\ Idle(w)
    /\ UNCHANGED <<row, payment, request, transfers, retries>>

\* External: the process dies; Bull runs the stalled job again.
WorkerDies(w) ==
    /\ SettlementFault
    /\ wpc[w] # "idle"
    /\ queue' = [queue EXCEPT ![ProcessorQueue] = @ \cup {job[w]}]
    /\ lock' = [m \in Merchant |-> IF lock[m] = w THEN Dead ELSE lock[m]]
    /\ Idle(w)
    /\ UNCHANGED <<row, payment, failedJobs, request, transfers, retries>>

\* The lock's 60 s end, also under a holder whose transfer is still under way:
\* nothing bounds the transfer, and nothing renews the lock.
LockExpires(m) ==
    /\ lock[m] # Nobody
    /\ lock' = [lock EXCEPT ![m] = Nobody]
    /\ lapsed' = lapsed \cup ({lock[m]} \cap Worker)
    /\ UNCHANGED <<row, payment, jobs, request, wpc, job, transfers,
                   settlementFaults, retries>>

\* queue-admin.controller.ts, retryFailedJob
RetryFailedJob(j) ==
    /\ retries < MaxRetries
    /\ retries' = retries + 1
    /\ j \in failedJobs
    /\ failedJobs' = failedJobs \ {j}
    /\ queue' = [queue EXCEPT ![ProcessorQueue] = @ \cup {j}]
    /\ UNCHANGED <<row, payment, request, worker, lock, transfers, settlementFaults>>

RequestStep(a) ==
    \/ SaveApproved(a) \/ SaveRejected(a) \/ EnqueueApproved(a)
    \/ FailPayment(a) \/ RejectDone(a)

WorkerStep(w) ==
    \/ \E j \in queue[ProcessorQueue] : SkipEmpty(w, j) \/ AcquireLock(w, j)
    \/ Transfer(w) \/ ReleaseLock(w)

SettlementNext ==
    \/ \E s \in Settlement : Initiate(s)
    \/ \E a \in Request : \/ RequestStep(a) \/ RequestFails(a)
                          \/ \E s \in Settlement : ReadForDecision(a, s)
    \/ \E w \in Worker : \/ WorkerStep(w) \/ TransferFails(w) \/ UnlockFails(w)
                         \/ WorkerDies(w)
                         \/ \E j \in queue[ProcessorQueue] : Conflict(w, j)
    \/ \E m \in Merchant : LockExpires(m)
    \/ \E j \in failedJobs : RetryFailedJob(j)

SettlementSpec == SettlementInit /\ [][SettlementNext]_settlementVars

\* Requests and jobs that have begun go on, and a lock expires unless it is released.
SettlementFairness ==
    /\ \A a \in Request : WF_settlementVars(RequestStep(a))
    /\ \A w \in Worker : WF_settlementVars(WorkerStep(w))
    /\ \A m \in Merchant : WF_settlementVars(LockExpires(m))

SettlementFairSpec == SettlementSpec /\ SettlementFairness

-----------------------------------------------------------------------------
Job == [settlement : Settlement, by : Request \cup {"monitor"}, tries : 0..MaxAttempts - 1]

\* The shape of the tables, the queues, the requests and the workers.
SettlementTypeOK ==
    /\ row \in [Settlement -> {"absent", "pending_approval", "processing", "failed"}]
    /\ payment \in [Payment -> {"settling", "failed"}]
    /\ \A q \in QueueName : queue[q] \subseteq Job
    /\ failedJobs \subseteq Job
    /\ rpc \in [Request -> {"idle", "approve", "reject", "approved", "rejected", "done"}]
    /\ \A a \in Request : todo[a] \subseteq Payment
    /\ wpc \in [Worker -> {"idle", "transfer", "paid", "thrown"}]
    /\ \A w \in Worker : wpc[w] # "idle" => job[w] \in Job
    /\ lock \in [Merchant -> Worker \cup {Nobody, Dead}]
    /\ lapsed \subseteq Worker
    /\ settlementFaults \in 0..MaxSettlementFaults /\ retries \in 0..MaxRetries

\* queue.processors.ts:66, "Acquire distributed lock for merchant isolation": two
\* settlements of a merchant are paid out at the same time only when the lock has
\* ended under one of the two transfers.  No retry, restart or dead lock is enough,
\* and a worker whose lock has ended does not release that of its successor.
MerchantIsolation ==
    \A v, w \in Worker :
        wpc[v] = "transfer" /\ wpc[w] = "transfer" /\ v # w
          /\ Owner[job[v].settlement] = Owner[job[w].settlement] => v \in lapsed \/ w \in lapsed

\* A settlement is paid out once; each rejected call or restart can cost at most
\* one more transfer (the processor does not look at the status of the row).
TransfersAreAccounted == \A s \in Settlement : transfers[s] <= 1 + settlementFaults

\* A request that has rejected a settlement fails every payment of it, whatever
\* another admin decides meanwhile, unless a call is rejected.
RejectionReachesPayments ==
    \A s \in Settlement :
        (\E a \in Request : rpc[a] = "rejected" /\ target[a] = s) ~>
            (settlementFaults > 0 \/ \A p \in Payment : Of[p] = s => payment[p] = "failed")

=============================================================================
