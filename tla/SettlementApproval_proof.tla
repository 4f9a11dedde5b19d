----------------------- MODULE SettlementApproval_proof -----------------------
(***************************************************************************)
(* The payout of settlements, for any number of merchants, settlements,    *)
(* admin requests and workers and any number of faults and retries: the    *)
(* merchant's lock isolates its transfers until it lapses under one of     *)
(* them, and every transfer beyond the first is paid for by a fault.         *)
(***************************************************************************)
EXTENDS SettlementApproval, TLAPS

Waiting == queue[ProcessorQueue]

\* The steps of a request that has read its settlement.
Deciding == {"approve", "reject", "approved", "rejected"}

Types ==
    /\ row \in [Settlement -> {"absent", "pending_approval", "processing", "failed"}]
    /\ payment \in [Payment -> {"settling", "failed"}]
    /\ queue \in [QueueName -> SUBSET Job]
    /\ failedJobs \in SUBSET Job
    /\ rpc \in [Request -> {"idle", "approve", "reject", "approved", "rejected", "done"}]
    /\ target \in [Request -> Settlement \cup {NoJob}]
    /\ \A a \in Request : rpc[a] \in Deciding => target[a] \in Settlement
    /\ todo \in [Request -> SUBSET Payment]
    /\ wpc \in [Worker -> {"idle", "transfer", "paid", "thrown"}]
    /\ job \in [Worker -> Job \cup {NoJob}]
    /\ \A w \in Worker : wpc[w] # "idle" => job[w] \in Job
    /\ lock \in [Merchant -> Worker \cup {Nobody, Dead}]
    /\ lapsed \in SUBSET Worker
    /\ transfers \in [Settlement -> Nat]
    /\ settlementFaults \in 0..MaxSettlementFaults /\ retries \in 0..MaxRetries

\* A worker that is in executeFiatTransfer owns the lock of the merchant, unless it
\* has lapsed: what acquireLock gave it, neither releaseLock of another worker nor
\* the expiry of another lock takes away.
Holds(w) ==
    wpc[w] = "transfer" => w \in lapsed \/ lock[Owner[job[w].settlement]] = w

Isolation == \A w \in Worker : Holds(w)

\* A settlement has one job at most: it waits, has failed or is with one worker;
\* none exists before initiateSettlement.
OneJob ==
    /\ \A j, k \in Waiting : j.settlement = k.settlement => j = k
    /\ \A j, k \in failedJobs : j.settlement = k.settlement => j = k
    /\ \A j \in Waiting, k \in failedJobs : j.settlement # k.settlement
    /\ \A w \in Worker : wpc[w] # "idle" =>
          \A j \in Waiting \cup failedJobs : j.settlement # job[w].settlement
    /\ \A v, w \in Worker :
          wpc[v] # "idle" /\ wpc[w] # "idle" /\ job[v].settlement = job[w].settlement => v = w
    /\ \A j \in Waiting \cup failedJobs : row[j.settlement] # "absent"
    /\ \A w \in Worker : wpc[w] # "idle" => row[job[w].settlement] # "absent"

\* While the job of a settlement may still transfer, each transfer so far was
\* made in an attempt that a fault ended.
Budget ==
    /\ \A s \in Settlement : transfers[s] <= 1 + settlementFaults
    /\ \A j \in Waiting \cup failedJobs : transfers[j.settlement] <= settlementFaults
    /\ \A w \in Worker : wpc[w] \in {"transfer", "thrown"} =>
          transfers[job[w].settlement] <= settlementFaults
    /\ \A s \in Settlement : row[s] = "absent" => transfers[s] = 0

-----------------------------------------------------------------------------
\* Bull counts the attempts of a job and nothing else of it.
LEMMA SameSettlement ==
    ASSUME NEW j \in Job, NEW n \in 0..MaxAttempts - 1
    PROVE  /\ [j EXCEPT !.tries = n] \in Job
           /\ [j EXCEPT !.tries = n].settlement = j.settlement
           /\ j.settlement \in Settlement /\ j.tries \in 0..MaxAttempts - 1
BY DEF Job

\* What running a job again does: the job, with another count, waits or has failed.
LEMMA AgainMoves ==
    ASSUME Types, NEW j \in Job, NEW waiting \in SUBSET Job, Again(waiting, j)
    PROVE  \E k \in Job :
             /\ k.settlement = j.settlement
             /\ queue' \in [QueueName -> SUBSET Job]
             /\ \/ Waiting' = waiting \cup {k} /\ failedJobs' = failedJobs
                \/ Waiting' = waiting /\ failedJobs' = failedJobs \cup {k}
<1> DEFINE n == j.tries + 1
           k == [j EXCEPT !.tries = n]
           z == [j EXCEPT !.tries = 0]
<1>1. j.tries \in 0..MaxAttempts - 1 /\ MaxAttempts \in Nat \ {0}
  BY SettlementAssumption, SameSettlement DEF Job
<1>2. z \in Job /\ z.settlement = j.settlement
  BY <1>1, SameSettlement
<1>3. k.tries = n
  BY DEF Job
<1>4. n < MaxAttempts => k \in Job /\ k.settlement = j.settlement
  BY <1>1, SameSettlement
<1>5. CASE n < MaxAttempts
  <2>1. queue' = [queue EXCEPT ![ProcessorQueue] = waiting \cup {k}] /\ failedJobs' = failedJobs
    BY <1>3, <1>5 DEF Again
  <2> HIDE DEF k
  <2> QED BY <1>4, <1>5, <2>1 DEF Types, Waiting, ProcessorQueue, QueueName
<1>6. CASE ~(n < MaxAttempts)
  <2>1. queue' = [queue EXCEPT ![ProcessorQueue] = waiting] /\ failedJobs' = failedJobs \cup {z}
    BY <1>3, <1>6 DEF Again
  <2> HIDE DEF z
  <2> QED BY <1>2, <2>1 DEF Types, Waiting, ProcessorQueue, QueueName
<1> QED
  BY <1>5, <1>6

-----------------------------------------------------------------------------
\* The shape of the tables is kept by the steps of the admin requests ...
LEMMA RequestKeepsTypes ==
    ASSUME Types, NEW a \in Request,
           RequestStep(a) \/ RequestFails(a) \/ \E s \in Settlement : ReadForDecision(a, s)
    PROVE  Types'
<1> USE DEF Types, request, worker, jobs, Deciding
<1>1. ASSUME NEW s \in Settlement, ReadForDecision(a, s) PROVE Types'
  BY <1>1 DEF ReadForDecision
<1>2. CASE SaveApproved(a)
  BY <1>2 DEF SaveApproved, SaveDecision
<1>3. CASE SaveRejected(a)
  BY <1>3 DEF SaveRejected, SaveDecision
<1>4. CASE EnqueueApproved(a)
  <2> DEFINE k == [settlement |-> target[a], by |-> a, tries |-> 0]
  <2>1. k \in Job
    BY <1>4, SettlementAssumption DEF EnqueueApproved, Job
  <2>2. queue' = [queue EXCEPT ![DispatchQueue] = @ \cup {k}]
    BY <1>4 DEF EnqueueApproved
  <2> HIDE DEF k
  <2>3. queue' \in [QueueName -> SUBSET Job]
    BY <2>1, <2>2 DEF DispatchQueue, QueueName
  <2> QED BY <1>4, <2>3 DEF EnqueueApproved, EndRequest
<1>5. CASE FailPayment(a)
  BY <1>5 DEF FailPayment
<1>6. CASE RejectDone(a)
  BY <1>6 DEF RejectDone, EndRequest
<1>7. CASE RequestFails(a)
  BY <1>7, SettlementAssumption DEF RequestFails, SettlementFault, EndRequest
<1> QED
  BY <1>1, <1>2, <1>3, <1>4, <1>5, <1>6, <1>7 DEF RequestStep

\* ... and by those of the workers.
LEMMA WorkerKeepsTypes ==
    ASSUME Types, NEW w \in Worker,
           \/ WorkerStep(w) \/ TransferFails(w) \/ UnlockFails(w) \/ WorkerDies(w)
           \/ \E j \in queue[ProcessorQueue] : Conflict(w, j)
    PROVE  Types'
<1> USE DEF Types, request, worker, jobs
<1>0. Waiting \in SUBSET Job
  BY DEF Waiting, ProcessorQueue, QueueName
<1>1. ASSUME NEW j \in Waiting, SkipEmpty(w, j) PROVE Types'
  BY <1>0, <1>1 DEF SkipEmpty, Take, Waiting
<1>2. ASSUME NEW j \in Waiting, AcquireLock(w, j) PROVE Types'
  BY <1>0, <1>2 DEF AcquireLock, Take, Waiting
<1>3. ASSUME NEW j \in Waiting, Conflict(w, j) PROVE Types'
  <2>1. Again(Waiting \ {j}, j)
    BY <1>3 DEF Conflict, Waiting
  <2>2. queue' \in [QueueName -> SUBSET Job] /\ failedJobs' \in SUBSET Job
    BY <1>0, <2>1, AgainMoves
  <2> QED BY <1>3, <2>2 DEF Conflict
<1>4. CASE Transfer(w)
  <2>1. job[w].settlement \in Settlement
    BY <1>4 DEF Transfer, Job
  <2> QED BY <1>4, <2>1 DEF Transfer
<1>5. CASE TransferFails(w)
  <2>1. job[w].settlement \in Settlement
    BY <1>5 DEF TransferFails, Job
  <2> QED BY <1>5, <2>1, SettlementAssumption DEF TransferFails, SettlementFault
<1>6. CASE ReleaseLock(w)
  <2>1. queue' \in [QueueName -> SUBSET Job] /\ failedJobs' \in SUBSET Job
    <3>1. CASE wpc[w] = "paid"
      BY <1>6, <3>1 DEF ReleaseLock
    <3>2. CASE wpc[w] # "paid"
      <4>1. Again(Waiting, job[w]) /\ job[w] \in Job
        BY <1>6, <3>2 DEF ReleaseLock, Waiting
      <4> QED BY <1>0, <4>1, AgainMoves
    <3> QED BY <3>1, <3>2
  <2> QED BY <1>6, <2>1 DEF ReleaseLock, Unlock, Idle
<1>7. CASE UnlockFails(w)
  <2>1. Again(Waiting, job[w]) /\ job[w] \in Job
    BY <1>7 DEF UnlockFails, Waiting
  <2>2. queue' \in [QueueName -> SUBSET Job] /\ failedJobs' \in SUBSET Job
    BY <1>0, <2>1, AgainMoves
  <2> QED BY <1>7, <2>2, SettlementAssumption DEF UnlockFails, SettlementFault, Idle
<1>8. CASE WorkerDies(w)
  <2>1. job[w] \in Job
    BY <1>8 DEF WorkerDies
  <2>2. queue' \in [QueueName -> SUBSET Job]
    BY <1>0, <1>8, <2>1 DEF WorkerDies, Waiting
  <2> QED BY <1>8, <2>2, SettlementAssumption DEF WorkerDies, SettlementFault, Idle
<1> QED
  BY <1>1, <1>2, <1>3, <1>4, <1>5, <1>6, <1>7, <1>8 DEF WorkerStep, Waiting

\* Every operation keeps the types.
LEMMA TypesKept == Types /\ [SettlementNext]_settlementVars => Types'
<1> SUFFICES ASSUME Types, [SettlementNext]_settlementVars PROVE Types'
  OBVIOUS
<1> USE DEF Types, request, worker, jobs
<1>1. ASSUME NEW s \in Settlement, Initiate(s) PROVE Types'
  <2> DEFINE k == [settlement |-> s, by |-> "monitor", tries |-> 0]
  <2>1. k \in Job
    BY SettlementAssumption DEF Job
  <2>2. queue' = queue \/ queue' = [queue EXCEPT ![ProcessorQueue] = @ \cup {k}]
    BY <1>1 DEF Initiate
  <2> HIDE DEF k
  <2>3. queue' \in [QueueName -> SUBSET Job]
    BY <2>1, <2>2 DEF ProcessorQueue, QueueName
  <2> QED BY <1>1, <2>3 DEF Initiate
<1>2. ASSUME NEW m \in Merchant, LockExpires(m) PROVE Types'
  BY <1>2 DEF LockExpires
<1>3. ASSUME NEW j \in failedJobs, RetryFailedJob(j) PROVE Types'
  <2>1. queue' \in [QueueName -> SUBSET Job]
    BY <1>3 DEF RetryFailedJob, ProcessorQueue, QueueName
  <2> QED BY <1>3, <2>1, SettlementAssumption DEF RetryFailedJob
<1>4. CASE UNCHANGED settlementVars
  BY <1>4 DEF settlementVars
<1> QED
  BY <1>1, <1>2, <1>3, <1>4, RequestKeepsTypes, WorkerKeepsTypes DEF SettlementNext

-----------------------------------------------------------------------------
\* No step of another worker, of an admin or of the lock's expiry takes the lock
\* away from a transfer that is under way.
LEMMA IsolationKept == Types /\ Isolation /\ [SettlementNext]_settlementVars => Isolation'
<1> SUFFICES ASSUME Types, Isolation, [SettlementNext]_settlementVars PROVE Isolation'
  OBVIOUS
<1> USE DEF Isolation, Holds, request, worker, jobs
<1>0. \A v \in Worker : wpc[v] # "idle" => Owner[job[v].settlement] \in Merchant
  BY SettlementAssumption DEF Types, Job
<1>1. CASE UNCHANGED <<worker, lock>>
  BY <1>1
<1>2. ASSUME NEW s \in Settlement, Initiate(s) PROVE Isolation'
  BY <1>1, <1>2 DEF Initiate
<1>3. ASSUME NEW a \in Request,
             RequestStep(a) \/ RequestFails(a) \/ \E s \in Settlement : ReadForDecision(a, s)
      PROVE  Isolation'
  <2>1. UNCHANGED <<worker, lock>>
    BY <1>3 DEF RequestStep, RequestFails, ReadForDecision, SaveApproved, SaveRejected,
                SaveDecision, EnqueueApproved, FailPayment, RejectDone
  <2> QED BY <1>1, <2>1
<1>4. ASSUME NEW w \in Worker, NEW j \in queue[ProcessorQueue],
             SkipEmpty(w, j) \/ Conflict(w, j)
      PROVE  Isolation'
  BY <1>1, <1>4 DEF SkipEmpty, Conflict
<1>5. ASSUME NEW w \in Worker, NEW j \in queue[ProcessorQueue], AcquireLock(w, j)
      PROVE  Isolation'
  <2>1. j \in Job /\ Owner[j.settlement] \in Merchant
    BY SettlementAssumption DEF Types, Job, ProcessorQueue, QueueName
  <2>2. ASSUME NEW v \in Worker, wpc'[v] = "transfer"
        PROVE  v \in lapsed' \/ lock'[Owner[job'[v].settlement]] = v
    <3>1. CASE v = w
      BY <1>5, <2>1, <3>1 DEF AcquireLock, Types
    <3>2. CASE v # w
      <4>1. wpc[v] = "transfer" /\ job'[v] = job[v]
        BY <1>5, <2>2, <3>2 DEF AcquireLock, Types
      <4>2. v \in lapsed \/ lock[Owner[job[v].settlement]] = v
        BY <4>1
      <4>3. v # Nobody /\ lapsed' = lapsed
        BY <1>5, SettlementAssumption DEF AcquireLock
      <4> QED BY <1>0, <1>5, <4>1, <4>2, <4>3 DEF AcquireLock, Types
    <3> QED BY <3>1, <3>2
  <2> QED BY <2>2
<1>6. ASSUME NEW w \in Worker, Transfer(w) \/ TransferFails(w)
      PROVE  Isolation'
  BY <1>6 DEF Transfer, TransferFails, Types
<1>7. ASSUME NEW w \in Worker, ReleaseLock(w) \/ UnlockFails(w) \/ WorkerDies(w)
      PROVE  Isolation'
  <2>1. /\ wpc' = [wpc EXCEPT ![w] = "idle"]
        /\ job' = [job EXCEPT ![w] = NoJob]
        /\ lapsed' = lapsed \ {w}
        /\ \A m \in Merchant : lock[m] # w => lock'[m] = lock[m]
    BY <1>7 DEF ReleaseLock, UnlockFails, WorkerDies, Unlock, Idle
  <2> QED BY <1>0, <2>1 DEF Types
<1>8. ASSUME NEW m \in Merchant, LockExpires(m) PROVE Isolation'
  BY <1>0, <1>8, SettlementAssumption DEF LockExpires, Types
<1>9. ASSUME NEW j \in failedJobs, RetryFailedJob(j) PROVE Isolation'
  BY <1>1, <1>9 DEF RetryFailedJob
<1> QED
  BY <1>1, <1>2, <1>3, <1>4, <1>5, <1>6, <1>7, <1>8, <1>9 DEF SettlementNext, WorkerStep, settlementVars

-----------------------------------------------------------------------------
\* Steps that leave the jobs alone: rows go on from "absent" and never back.
LEMMA JobsUntouched ==
    ASSUME Types, OneJob, Budget, Types',
           Waiting' = Waiting, UNCHANGED <<failedJobs, wpc, job, transfers>>,
           \A s \in Settlement : row'[s] = "absent" => row[s] = "absent",
           settlementFaults' >= settlementFaults
    PROVE  OneJob' /\ Budget'
<1>1. /\ Waiting \in SUBSET Job
      /\ \A j \in Job : j.settlement \in Settlement
      /\ \A w \in Worker : wpc[w] # "idle" => job[w].settlement \in Settlement
  BY DEF Types, Waiting, ProcessorQueue, QueueName, Job
<1>2. OneJob'
  BY <1>1 DEF OneJob, Types
<1>3. \A s \in Settlement : transfers[s] \in Nat /\ settlementFaults \in Int /\ settlementFaults' \in Int
  BY SettlementAssumption DEF Types
<1>4. Budget'
  BY <1>1, <1>3 DEF Budget, Types
<1> QED BY <1>2, <1>4

\* A waiting job is taken by a worker, or completes (SkipEmpty).
LEMMA JobTaken ==
    ASSUME Types, OneJob, Budget, Types', NEW w \in Worker, NEW j \in Waiting,
           SkipEmpty(w, j) \/ AcquireLock(w, j)
    PROVE  OneJob' /\ Budget'
<1>1. /\ Waiting \in SUBSET Job
      /\ \A k \in Job : k.settlement \in Settlement
      /\ Waiting' = Waiting \ {j} /\ failedJobs' = failedJobs /\ row' = row
      /\ transfers' = transfers /\ settlementFaults' = settlementFaults
      /\ \/ wpc' = wpc /\ job' = job
         \/ wpc' = [wpc EXCEPT ![w] = "transfer"] /\ job' = [job EXCEPT ![w] = j]
      /\ wpc[w] = "idle"
  BY DEF Types, Waiting, ProcessorQueue, QueueName, Job, SkipEmpty, AcquireLock, Take, worker
<1>2. OneJob'
  BY <1>1 DEF OneJob, Types
<1>3. Budget'
  BY <1>1 DEF Budget, Types
<1> QED BY <1>2, <1>3

\* A job that lost the race for the lock is back in Redis, its attempts counted.
LEMMA JobInConflict ==
    ASSUME Types, OneJob, Budget, Types', NEW w \in Worker, NEW j \in Waiting, Conflict(w, j)
    PROVE  OneJob' /\ Budget'
<1>1. /\ Waiting \in SUBSET Job
      /\ \A k \in Job : k.settlement \in Settlement
      /\ row' = row /\ wpc' = wpc /\ job' = job /\ transfers' = transfers /\ settlementFaults' = settlementFaults
      /\ Again(Waiting \ {j}, j)
  BY DEF Types, Waiting, ProcessorQueue, QueueName, Job, Conflict, worker
<1>2. PICK k \in Job :
        /\ k.settlement = j.settlement
        /\ \/ Waiting' = (Waiting \ {j}) \cup {k} /\ failedJobs' = failedJobs
           \/ Waiting' = Waiting \ {j} /\ failedJobs' = failedJobs \cup {k}
  BY <1>1, AgainMoves
<1>3. OneJob'
  BY <1>1, <1>2 DEF OneJob, Types
<1>4. Budget'
  BY <1>1, <1>2 DEF Budget, Types
<1> QED BY <1>3, <1>4

\* executeFiatTransfer ends: the transfer it made is the one its attempt was
\* entitled to, or the fault that ended it pays for it.
LEMMA JobPaid ==
    ASSUME Types, OneJob, Budget, Types', NEW w \in Worker, Transfer(w) \/ TransferFails(w)
    PROVE  OneJob' /\ Budget'
<1> DEFINE s == job[w].settlement
<1>1. /\ Waiting \in SUBSET Job /\ Waiting' = Waiting /\ failedJobs' = failedJobs
      /\ \A k \in Job : k.settlement \in Settlement
      /\ row' = row /\ job' = job /\ wpc[w] = "transfer" /\ s \in Settlement
      /\ settlementFaults \in Int /\ \A t \in Settlement : transfers[t] \in Nat
  BY SettlementAssumption DEF Types, Waiting, ProcessorQueue, QueueName, Job, Transfer,
     TransferFails, jobs
<1>2. \/ /\ wpc' = [wpc EXCEPT ![w] = "paid"] /\ settlementFaults' = settlementFaults
         /\ transfers' = [transfers EXCEPT ![s] = @ + 1]
      \/ /\ wpc' = [wpc EXCEPT ![w] = "thrown"] /\ settlementFaults' = settlementFaults + 1
         /\ \E n \in {0, 1} : transfers' = [transfers EXCEPT ![s] = @ + n]
  BY DEF Transfer, TransferFails, SettlementFault
<1> HIDE DEF s
<1>3. \A t \in Settlement : t # s => transfers'[t] = transfers[t]
  BY <1>2 DEF Types
<1>4. transfers[s] <= settlementFaults /\ row[s] # "absent"
  BY <1>1 DEF Budget, OneJob, s
<1>5. \/ wpc'[w] = "paid" /\ transfers'[s] <= 1 + settlementFaults'
      \/ wpc'[w] = "thrown" /\ transfers'[s] <= settlementFaults'
  BY <1>1, <1>2, <1>4 DEF Types
<1>6. /\ transfers'[s] <= 1 + settlementFaults' /\ settlementFaults' \in Int /\ settlementFaults' >= settlementFaults
      /\ wpc'[w] = "paid" \/ (wpc'[w] = "thrown" /\ transfers'[s] <= settlementFaults')
  BY <1>1, <1>2, <1>5, SettlementAssumption DEF Types
<1>7. OneJob'
  BY <1>1, <1>2 DEF OneJob, Types
<1>8. \A v \in Worker : v # w /\ wpc[v] # "idle" => job[v].settlement # s /\ wpc'[v] = wpc[v]
                                              /\ job[v].settlement \in Settlement
  BY <1>1, <1>2 DEF OneJob, Types, s
<1>9. \A j \in Waiting \cup failedJobs : j.settlement # s /\ j.settlement \in Settlement
  BY <1>1 DEF OneJob, Types, s
<1>10. \A t \in Settlement : transfers'[t] <= 1 + settlementFaults'
  BY <1>1, <1>3, <1>6 DEF Budget
<1>11. \A j \in Waiting \cup failedJobs : transfers'[j.settlement] <= settlementFaults'
  BY <1>1, <1>3, <1>6, <1>9 DEF Budget
<1>12. \A v \in Worker : wpc'[v] \in {"transfer", "thrown"} => transfers'[job[v].settlement] <= settlementFaults'
  <2> SUFFICES ASSUME NEW v \in Worker, wpc'[v] \in {"transfer", "thrown"}
               PROVE  transfers'[job[v].settlement] <= settlementFaults'
    OBVIOUS
  <2>1. CASE v = w
    BY <1>6, <2>1 DEF s
  <2>2. CASE v # w
    <3>1. wpc[v] = wpc'[v]
      BY <1>2, <2>2 DEF Types
    <3>2. transfers[job[v].settlement] <= settlementFaults
      BY <3>1 DEF Budget
    <3> QED BY <1>1, <1>3, <1>6, <1>8, <2>2, <3>1, <3>2
  <2> QED BY <2>1, <2>2
<1>13. \A t \in Settlement : row[t] = "absent" => transfers'[t] = 0
  BY <1>3, <1>4 DEF Budget
<1>14. Budget'
  BY <1>1, <1>10, <1>11, <1>12, <1>13 DEF Budget
<1> QED BY <1>7, <1>14

\* The worker is done with its job: it completes after a transfer, or is back
\* in Redis after a failed one, after releaseLock rejected or after a restart.
LEMMA JobLeft ==
    ASSUME Types, OneJob, Budget, Types', NEW w \in Worker,
           ReleaseLock(w) \/ UnlockFails(w) \/ WorkerDies(w)
    PROVE  OneJob' /\ Budget'
<1> DEFINE s == job[w].settlement
<1>1. /\ Waiting \in SUBSET Job
      /\ \A k \in Job : k.settlement \in Settlement
      /\ row' = row /\ transfers' = transfers
      /\ job' = [job EXCEPT ![w] = NoJob] /\ wpc' = [wpc EXCEPT ![w] = "idle"]
      /\ wpc[w] # "idle" /\ s \in Settlement /\ job[w] \in Job
      /\ settlementFaults \in Int /\ \A t \in Settlement : transfers[t] \in Nat
  BY SettlementAssumption DEF Types, Waiting, ProcessorQueue, QueueName, Job, ReleaseLock,
     UnlockFails, WorkerDies, Idle
<1>2. /\ wpc[w] # "paid" => transfers[s] <= settlementFaults
      /\ transfers[s] <= 1 + settlementFaults
  BY <1>1 DEF Budget, Types
<1>3. \/ Waiting' = Waiting /\ failedJobs' = failedJobs /\ settlementFaults' = settlementFaults
      \/ /\ \E k \in Job : /\ k.settlement = s
                           /\ \/ Waiting' = Waiting \cup {k} /\ failedJobs' = failedJobs
                              \/ Waiting' = Waiting /\ failedJobs' = failedJobs \cup {k}
         /\ (settlementFaults' = settlementFaults /\ wpc[w] # "paid") \/ settlementFaults' = settlementFaults + 1
  <2>1. CASE ReleaseLock(w)
    <3>1. CASE wpc[w] = "paid"
      BY <2>1, <3>1 DEF ReleaseLock, jobs, Waiting
    <3>2. CASE wpc[w] # "paid"
      <4>1. Again(Waiting, job[w]) /\ settlementFaults' = settlementFaults
        BY <2>1, <3>2 DEF ReleaseLock, Waiting
      <4> QED BY <1>1, <3>2, <4>1, AgainMoves
    <3> QED BY <3>1, <3>2
  <2>2. CASE UnlockFails(w)
    <3>1. Again(Waiting, job[w]) /\ settlementFaults' = settlementFaults + 1
      BY <2>2 DEF UnlockFails, Waiting, SettlementFault
    <3> QED BY <1>1, <3>1, AgainMoves
  <2>3. CASE WorkerDies(w)
    <3>1. /\ Waiting' = Waiting \cup {job[w]} /\ failedJobs' = failedJobs
          /\ settlementFaults' = settlementFaults + 1
      BY <2>3 DEF WorkerDies, Waiting, SettlementFault, Types, ProcessorQueue, QueueName
    <3> QED BY <1>1, <3>1
  <2> QED BY <2>1, <2>2, <2>3
<1>4. settlementFaults' \in Int /\ settlementFaults' >= settlementFaults
  BY <1>1, <1>3
<1>5. CASE Waiting' = Waiting /\ failedJobs' = failedJobs
  <2>1. OneJob'
    BY <1>1, <1>5 DEF OneJob, Types
  <2>2. Budget'
    BY <1>1, <1>4, <1>5 DEF Budget, Types
  <2> QED BY <2>1, <2>2
<1>6. CASE ~(Waiting' = Waiting /\ failedJobs' = failedJobs)
  <2>1. transfers[s] <= settlementFaults'
    BY <1>1, <1>2, <1>3, <1>6
  <2>2. PICK k \in Job : /\ k.settlement = s
                         /\ \/ Waiting' = Waiting \cup {k} /\ failedJobs' = failedJobs
                            \/ Waiting' = Waiting /\ failedJobs' = failedJobs \cup {k}
    BY <1>3, <1>6
  <2>3. OneJob'
    BY <1>1, <2>2 DEF OneJob, Types
  <2>4. Budget'
    BY <1>1, <1>4, <2>1, <2>2 DEF Budget, Types
  <2> QED BY <2>3, <2>4
<1> QED BY <1>5, <1>6

\* A settlement gets its job; an operator puts a failed job back.
LEMMA JobQueued ==
    ASSUME Types, OneJob, Budget, Types',
           \/ \E s \in Settlement : Initiate(s)
           \/ \E j \in failedJobs : RetryFailedJob(j)
    PROVE  OneJob' /\ Budget'
<1>1. /\ Waiting \in SUBSET Job
      /\ \A k \in Job : k.settlement \in Settlement
      /\ wpc' = wpc /\ job' = job /\ transfers' = transfers /\ settlementFaults' = settlementFaults
  BY DEF Types, Waiting, ProcessorQueue, QueueName, Job, Initiate, RetryFailedJob, worker
<1>2. ASSUME NEW s \in Settlement, Initiate(s) PROVE OneJob' /\ Budget'
  <2> DEFINE k == [settlement |-> s, by |-> "monitor", tries |-> 0]
  <2>1. /\ k.settlement = s /\ failedJobs' = failedJobs
        /\ row[s] = "absent" /\ row'[s] # "absent"
        /\ \A t \in Settlement : t # s => row'[t] = row[t]
        /\ Waiting' = Waiting \/ Waiting' = Waiting \cup {k}
    BY <1>2 DEF Initiate, Types, Waiting, ProcessorQueue, QueueName
  <2> HIDE DEF k
  <2>2. transfers[s] = 0 /\ settlementFaults >= 0
    BY <2>1, SettlementAssumption DEF Budget, Types
  <2>3. OneJob'
    BY <1>1, <2>1 DEF OneJob, Types
  <2>4. Budget'
    BY <1>1, <2>1, <2>2 DEF Budget, Types
  <2> QED BY <2>3, <2>4
<1>3. ASSUME NEW j \in failedJobs, RetryFailedJob(j) PROVE OneJob' /\ Budget'
  <2>1. row' = row /\ failedJobs' = failedJobs \ {j} /\ Waiting' = Waiting \cup {j}
    BY <1>3 DEF RetryFailedJob, Types, Waiting, ProcessorQueue, QueueName
  <2>2. OneJob'
    BY <1>1, <2>1 DEF OneJob, Types
  <2>3. Budget'
    BY <1>1, <2>1 DEF Budget, Types
  <2> QED BY <2>2, <2>3
<1> QED BY <1>2, <1>3

\* Every operation keeps one job per settlement, and the budget of its transfers.
LEMMA JobsKept == Types /\ OneJob /\ Budget /\ [SettlementNext]_settlementVars => OneJob' /\ Budget'
<1> SUFFICES ASSUME Types, OneJob, Budget, [SettlementNext]_settlementVars PROVE OneJob' /\ Budget'
  OBVIOUS
<1>0. Types' /\ settlementFaults \in Int
  BY TypesKept, SettlementAssumption DEF Types
<1>1. ASSUME NEW a \in Request,
             RequestStep(a) \/ RequestFails(a) \/ \E s \in Settlement : ReadForDecision(a, s)
      PROVE  OneJob' /\ Budget'
  <2>1. /\ UNCHANGED <<failedJobs, wpc, job, transfers>>
        /\ settlementFaults' = settlementFaults \/ settlementFaults' = settlementFaults + 1
    BY <1>1 DEF RequestStep, RequestFails, ReadForDecision, SaveApproved, SaveRejected,
       SaveDecision, EnqueueApproved, FailPayment, RejectDone, SettlementFault, worker, jobs
  <2>2. Waiting' = Waiting
    BY <1>1 DEF RequestStep, RequestFails, ReadForDecision, SaveApproved, SaveRejected,
       SaveDecision, EnqueueApproved, FailPayment, RejectDone, jobs, Waiting, Types,
       DispatchQueue, ProcessorQueue, QueueName
  <2>3. \A s \in Settlement : row'[s] = "absent" => row[s] = "absent"
    BY <1>1 DEF RequestStep, RequestFails, ReadForDecision, SaveApproved, SaveRejected,
       SaveDecision, EnqueueApproved, FailPayment, RejectDone, Types
  <2> QED BY <1>0, <2>1, <2>2, <2>3, JobsUntouched
<1>2. ASSUME NEW w \in Worker, WorkerStep(w) \/ TransferFails(w) \/ UnlockFails(w)
               \/ WorkerDies(w) \/ \E j \in Waiting : Conflict(w, j)
      PROVE  OneJob' /\ Budget'
  BY <1>0, <1>2, JobTaken, JobInConflict, JobPaid, JobLeft DEF WorkerStep, Waiting
<1>3. ASSUME NEW m \in Merchant, LockExpires(m) PROVE OneJob' /\ Budget'
  <2>1. Waiting' = Waiting /\ UNCHANGED <<failedJobs, wpc, job, transfers, row, settlementFaults>>
    BY <1>3 DEF LockExpires, worker, jobs, Waiting
  <2> QED BY <1>0, <2>1, JobsUntouched
<1>4. CASE UNCHANGED settlementVars
  <2>1. Waiting' = Waiting /\ UNCHANGED <<failedJobs, wpc, job, transfers, row, settlementFaults>>
    BY <1>4 DEF settlementVars, Waiting
  <2> QED BY <1>0, <2>1, JobsUntouched
<1> QED
  BY <1>0, <1>1, <1>2, <1>3, <1>4, JobQueued DEF SettlementNext, Waiting

-----------------------------------------------------------------------------
\* No settlement is under way at the start.
LEMMA InitialState == SettlementInit => Types /\ Isolation /\ OneJob /\ Budget
<1> SUFFICES ASSUME SettlementInit PROVE Types /\ Isolation /\ OneJob /\ Budget
  OBVIOUS
<1>1. Types
  BY SettlementAssumption DEF SettlementInit, Types, Deciding
<1>2. Waiting = {} /\ failedJobs = {} /\ \A w \in Worker : wpc[w] = "idle"
  BY DEF SettlementInit, Waiting, ProcessorQueue, QueueName
<1>3. \A s \in Settlement : transfers[s] = 0 /\ settlementFaults = 0
  BY DEF SettlementInit
<1> QED
  BY <1>1, <1>2, <1>3 DEF Isolation, Holds, OneJob, Budget

\* The tables, queues, requests and workers have the shape SettlementTypeOK gives them.
THEOREM SettlementTypeCorrect == SettlementSpec => []SettlementTypeOK
<1>1. Types => SettlementTypeOK
  BY DEF Types, SettlementTypeOK
<1> QED
  BY <1>1, InitialState, TypesKept, PTL DEF SettlementSpec

\* For any number of merchants, settlements and workers, however long a transfer
\* takes: two settlements of one merchant are in executeFiatTransfer together only
\* when the lock's 60 seconds have ended under one of them (queue.processors.ts,
\* "merchant isolation").
THEOREM LockIsolatesMerchants == SettlementSpec => []MerchantIsolation
<1>1. Types /\ Isolation => MerchantIsolation
  <2> SUFFICES ASSUME Types, Isolation, NEW v \in Worker, NEW w \in Worker,
                      wpc[v] = "transfer", wpc[w] = "transfer", v # w,
                      Owner[job[v].settlement] = Owner[job[w].settlement]
               PROVE  v \in lapsed \/ w \in lapsed
    BY DEF MerchantIsolation
  <2> QED BY DEF Isolation, Holds
<1> QED
  BY <1>1, InitialState, TypesKept, IsolationKept, PTL DEF SettlementSpec

\* However long a transfer takes, however often jobs are retried and whoever decides on
\* a settlement: it is paid out once, and once more for each rejected call or
\* restart at most (SettlementQueueProcessor.handle, Bull's attempts).
THEOREM TransfersNeedFaults == SettlementSpec => []TransfersAreAccounted
<1>1. Budget => TransfersAreAccounted
  BY DEF Budget, TransfersAreAccounted
<1> QED
  BY <1>1, InitialState, TypesKept, JobsKept, PTL DEF SettlementSpec
=============================================================================
