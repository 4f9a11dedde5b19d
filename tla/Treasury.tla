------------------------------ MODULE Treasury ------------------------------
(***************************************************************************)
(* The treasury account's sequence number and everyone who spends it:      *)
(* StellarTxQueueService chains its submissions per process, while         *)
(* StellarService.invokeContract and SorobanService.submitTx load the      *)
(* account themselves and resend a signed transaction when an answer is    *)
(* lost.  The ledger applies a transaction that carries the next number.   *)
(***************************************************************************)
EXTENDS Integers, Sequences

CONSTANTS
    Process,
    Job,            \* submitPayment and submitManageData calls
    Home,           \* the process of each of them
    Invocation,     \* StellarService.invokeContract calls
    Submission,     \* SorobanService.invokeContract calls that submit
    MaxSends,       \* attempts of a resilient call
    MaxTxFaults     \* bound: rejected calls and lost answers

ASSUME TreasuryAssumption ==
    /\ Home \in [Job -> Process]
    /\ Job \cap (Invocation \cup Submission) = {} /\ Invocation \cap Submission = {}
    /\ MaxSends \in Nat \ {0} /\ MaxTxFaults \in Nat

ContractCall == Invocation \cup Submission
Sender == Job \cup ContractCall

VARIABLES
    seq,        \* the account's sequence number on the ledger
    limbo,      \* transactions the network may still apply
    queue,      \* submissionQueues: the chain of each process
    at,         \* the await each sender is in, or its outcome
    snap,       \* the sequence number each sender has loaded
    sends,      \* attempts of sendTransaction
    applied,    \* history: transactions of each sender on the ledger
    conflicts,    \* history: transactions that overtook a job since its first load
    txFaults

treasuryVars == <<seq, limbo, queue, at, snap, sends, applied, conflicts, txFaults>>

TreasuryInit ==
    /\ seq = 0 /\ limbo = {} /\ txFaults = 0
    /\ queue = [p \in Process |-> <<>>]
    /\ at = [s \in Sender |-> "idle"]
    /\ snap = [s \in Sender |-> 0]
    /\ sends = [s \in ContractCall |-> 0]
    /\ applied = [s \in Sender |-> 0]
    /\ conflicts = [j \in Job |-> 0]

Lost ==
    /\ txFaults < MaxTxFaults
    /\ txFaults' = txFaults + 1

Move(s, from, to) ==
    /\ at[s] = from
    /\ at' = [at EXCEPT ![s] = to]

\* A job that has loaded the account and has not ended.
Submitting(s) == s \in Job /\ at[s] \in {"send", "reload", "resend"}

\* A transaction of s that is applied now moves the number under j's submission;
\* one that the chain has under way together with j would not count.
Overtakes(s, j) ==
    /\ Submitting(j) /\ s # j
    /\ ~(Submitting(s) /\ Home[s] = Home[j])

\* The ledger applies a transaction of s.
Land(s) ==
    /\ seq' = seq + 1
    /\ applied' = [applied EXCEPT ![s] = @ + 1]
    /\ conflicts' = [j \in Job |-> IF Overtakes(s, j) THEN conflicts[j] + 1 ELSE conflicts[j]]

NotLanded == UNCHANGED <<seq, applied, conflicts>>

TxOf(s) == [by |-> s, number |-> snap[s] + 1]

\* A transaction whose answer was lost, or that is pending, is applied if it
\* is the account's next one and dropped otherwise.
LedgerCloses(tx) ==
    /\ tx \in limbo
    /\ limbo' = limbo \ {tx}
    /\ IF tx.number = seq + 1 THEN Land(tx.by) ELSE NotLanded
    /\ UNCHANGED <<queue, at, snap, sends, txFaults>>

-----------------------------------------------------------------------------
\* submitFromTreasury chains onto the previous submission of the process.
Enqueue(j) ==
    /\ Move(j, "idle", "queued")
    /\ queue' = [queue EXCEPT ![Home[j]] = Append(@, j)]
    /\ UNCHANGED <<seq, limbo, snap, sends, applied, conflicts, txFaults>>

\* The previous promise of the chain has settled, whatever its outcome.
IsNext(j) == queue[Home[j]] # <<>> /\ Head(queue[Home[j]]) = j

\* Mutation: the submissions of a process are not chained.
LoadAccount_Unchained(j) ==
    /\ at[j] \in {"queued", "reload"}
    /\ at' = [at EXCEPT ![j] = IF @ = "queued" THEN "send" ELSE "resend"]
    /\ snap' = [snap EXCEPT ![j] = seq]
    /\ UNCHANGED <<seq, limbo, queue, sends, applied, conflicts, txFaults>>

LoadAccount(j) ==
    /\ IsNext(j)
    /\ at[j] \in {"queued", "reload"}
    /\ at' = [at EXCEPT ![j] = IF @ = "queued" THEN "send" ELSE "resend"]
    /\ snap' = [snap EXCEPT ![j] = seq]
    /\ UNCHANGED <<seq, limbo, queue, sends, applied, conflicts, txFaults>>

\* The submission at the head of the chain settles.
Settle(j, outcome) ==
    /\ at' = [at EXCEPT ![j] = outcome]
    /\ queue' = [queue EXCEPT ![Home[j]] = Tail(@)]

SubmitTransaction(j) ==
    /\ at[j] \in {"send", "resend"} /\ snap[j] = seq
    /\ Land(j) /\ Settle(j, "ok")
    /\ UNCHANGED <<limbo, snap, sends, txFaults>>

\* Horizon answers tx_bad_seq: the account is loaded again, once.
BadSeq(j) ==
    /\ snap[j] # seq
    /\ \/ Move(j, "send", "reload") /\ UNCHANGED queue
       \/ at[j] = "resend" /\ Settle(j, "badSeq")
    /\ NotLanded
    /\ UNCHANGED <<limbo, snap, sends, txFaults>>

\* Mutation: every rejection of the first submission is retried.
SubmitRejects_Retried(j) ==
    /\ Lost
    /\ \/ Move(j, "send", "reload") /\ UNCHANGED queue
       \/ at[j] \in {"queued", "reload", "resend"} /\ IsNext(j) /\ Settle(j, "failed")
    /\ limbo' \in {limbo, IF at[j] \in {"send", "resend"} THEN limbo \cup {TxOf(j)} ELSE limbo}
    /\ UNCHANGED <<seq, snap, sends, applied, conflicts>>

\* loadAccount or submitTransaction rejects with anything else; a transaction
\* that was sent may still be applied.
SubmitRejects(j) ==
    /\ Lost
    /\ at[j] \in {"queued", "send", "reload", "resend"} /\ IsNext(j)
    /\ Settle(j, "failed")
    /\ limbo' \in {limbo, IF at[j] \in {"send", "resend"} THEN limbo \cup {TxOf(j)} ELSE limbo}
    /\ UNCHANGED <<seq, snap, sends, applied, conflicts>>

-----------------------------------------------------------------------------
\* invokeContract loads the account itself, outside the chain.
LoadSource(s) ==
    /\ Move(s, "idle", "prepare")
    /\ snap' = [snap EXCEPT ![s] = seq]
    /\ UNCHANGED <<seq, limbo, queue, sends, applied, conflicts, txFaults>>

\* simulateTransaction or prepareTransaction, then sign.
Prepare(s) ==
    /\ Move(s, "prepare", "submit")
    /\ UNCHANGED <<seq, limbo, queue, snap, sends, applied, conflicts, txFaults>>

\* Loading, simulating or preparing rejects, or the simulation has an error.
PrepareRejects(s) ==
    /\ Lost
    /\ at[s] \in {"idle", "prepare"}
    /\ at' = [at EXCEPT ![s] = "failed"]
    /\ UNCHANGED <<seq, limbo, queue, snap, sends, applied, conflicts>>

\* What sendTransaction answers: a transaction it knows already is a
\* DUPLICATE while it is pending and an ERROR (bad sequence) once it is applied.
SendStatus(s) ==
    IF TxOf(s) \in limbo THEN "DUPLICATE"
    ELSE IF snap[s] = seq THEN "PENDING" ELSE "ERROR"

\* StellarService takes PENDING alone for a success, SorobanService polls
\* whatever the status is.
SendTransaction(s) ==
    /\ at[s] = "submit"
    /\ limbo' = IF SendStatus(s) = "PENDING" THEN limbo \cup {TxOf(s)} ELSE limbo
    /\ at' = [at EXCEPT ![s] = IF s \in Submission THEN "poll"
                               ELSE IF SendStatus(s) = "PENDING" THEN "ok" ELSE "failed"]
    /\ UNCHANGED <<seq, queue, snap, sends, applied, conflicts, txFaults>>

\* The same signed transaction is sent again, to the same endpoint or to the
\* fallback, until the attempts are used up.
SendLost(s) ==
    /\ Lost
    /\ at[s] = "submit"
    /\ sends' = [sends EXCEPT ![s] = @ + 1]
    /\ limbo' \in {limbo, IF SendStatus(s) = "PENDING" THEN limbo \cup {TxOf(s)} ELSE limbo}
    /\ at' = [at EXCEPT ![s] = IF sends'[s] < MaxSends THEN @ ELSE "failed"]
    /\ UNCHANGED <<seq, queue, snap, applied, conflicts>>

\* pollTransaction: SUCCESS, or another status after five polls.
PollTransaction(s) ==
    /\ Move(s, "poll", IF applied[s] > 0 THEN "ok" ELSE "failed")
    /\ UNCHANGED <<seq, limbo, queue, snap, sends, applied, conflicts, txFaults>>

PollRejects(s) ==
    /\ Lost
    /\ Move(s, "poll", "failed")
    /\ UNCHANGED <<seq, limbo, queue, snap, sends, applied, conflicts>>

TreasuryNext ==
    \/ \E tx \in limbo : LedgerCloses(tx)
    \/ \E j \in Job : \/ Enqueue(j) \/ LoadAccount(j) \/ SubmitTransaction(j)
                      \/ BadSeq(j) \/ SubmitRejects(j)
    \/ \E s \in ContractCall :
          \/ LoadSource(s) \/ Prepare(s) \/ PrepareRejects(s)
          \/ SendTransaction(s) \/ SendLost(s) \/ PollTransaction(s) \/ PollRejects(s)

TreasurySpec == TreasuryInit /\ [][TreasuryNext]_treasuryVars

-----------------------------------------------------------------------------
\* However often answers are lost and transactions resent, one call spends the
\* treasury at most once; a queued submission or a submitTx that resolves has
\* been applied, and one refused for its sequence number has not
\* (stellar-tx-queue.service.ts, soroban.service.ts submitTx).
OutcomeIsHonest ==
    /\ \A s \in Sender : applied[s] <= 1
    /\ \A s \in Job \cup Submission : at[s] = "ok" => applied[s] = 1
    /\ \A j \in Job : at[j] = "badSeq" => applied[j] = 0

\* A queued submission fails for its sequence number only after two other
\* transactions overtook it, one before each try: a contract call, a submission
\* of another process, or a transaction of its own process whose submission had
\* already been given up.  Two submissions of a chain that are both under way
\* never do that to each other (submitFromTreasury's chain and single retry).
BadSeqNeedsTwoConflicts ==
    \A j \in Job : at[j] = "badSeq" => conflicts[j] >= 2
=============================================================================
