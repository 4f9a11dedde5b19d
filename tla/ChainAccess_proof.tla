-------------------------- MODULE ChainAccess_proof --------------------------
(***************************************************************************)
(* What the modules of the chain's access promise, for any number of       *)
(* processes, calls, payments and wallets: the treasury's sequence number, *)
(* the circuit breaker, the mirrored escrow payments and the wallets.      *)
(***************************************************************************)
EXTENDS RpcCircuit, Treasury, EscrowMirror, Wallets, TLAPS

-----------------------------------------------------------------------------
(* Treasury *)

JobStep == {"idle", "queued", "send", "reload", "resend", "ok", "badSeq", "failed"}
CallStep == {"idle", "prepare", "submit", "poll", "ok", "failed"}
Tx == [by : Sender, number : Nat]

TreasuryTypes ==
    /\ seq \in Nat /\ limbo \in SUBSET Tx
    /\ queue \in [Process -> Seq(Job)]
    /\ at \in [Sender -> JobStep \cup CallStep]
    /\ \A j \in Job : at[j] \in JobStep
    /\ \A s \in ContractCall : at[s] \in CallStep
    /\ snap \in [Sender -> Nat]
    /\ applied \in [Sender -> Nat]
    /\ conflicts \in [Job -> Nat]

\* One signed transaction per sender: what may still be applied carries the
\* number the sender has loaded, once it is applied the ledger is past that
\* number, and a sender that has not sent anything has nothing out.
OneTransaction(s) ==
    /\ \A tx \in limbo : tx.by = s => /\ tx.number = snap[s] + 1
                                      /\ at[s] \in {"submit", "poll", "ok", "failed"}
                                      /\ s \in Job => at[s] = "failed"
    /\ applied[s] <= 1 /\ (applied[s] = 1 => seq > snap[s])
    /\ at[s] \notin {"submit", "poll", "ok", "failed"} => applied[s] = 0
    /\ s \in Job \cup Submission /\ at[s] = "ok" => applied[s] = 1

\* The chain lets one submission of a process work at a time, so that every
\* transaction that overtakes it is counted.
Overtaken(j) ==
    /\ Submitting(j) => IsNext(j)
    /\ at[j] = "send" /\ snap[j] # seq => conflicts[j] >= 1
    /\ at[j] \in {"reload", "resend"} => conflicts[j] >= 1
    /\ at[j] = "resend" /\ snap[j] # seq => conflicts[j] >= 2
    /\ at[j] = "badSeq" => conflicts[j] >= 2

\* The inductive invariant.
TreasuryInv ==
    /\ TreasuryTypes
    /\ \A s \in Sender : OneTransaction(s)
    /\ \A j \in Job : Overtaken(j)

\* Jobs and contract calls are different senders.
LEMMA SendersApart ==
    /\ Job \subseteq Sender /\ ContractCall \subseteq Sender /\ Submission \subseteq ContractCall
    /\ Job \cap ContractCall = {}
BY TreasuryAssumption DEF Sender, ContractCall

\* A landed transaction of s overtakes the jobs that are submitting, its own
\* and those behind it in the chain excepted.
LEMMA LandingOvertakes ==
    ASSUME TreasuryInv, NEW s \in Sender, Land(s), NEW j \in Job, j # s, Submitting(j)
    PROVE  conflicts'[j] = conflicts[j] + 1
<1>1. ASSUME Submitting(s), Home[s] = Home[j] PROVE FALSE
  BY <1>1 DEF TreasuryInv, Overtaken, Submitting, IsNext
<1> QED
  BY <1>1 DEF Land, Overtakes

\* A transaction of s is applied: it is the next one of the ledger.
LEMMA LandingTypes ==
    ASSUME TreasuryInv, NEW s \in Sender, Land(s)
    PROVE  /\ seq' = seq + 1 /\ seq' \in Nat /\ applied' \in [Sender -> Nat] /\ conflicts' \in [Job -> Nat]
           /\ applied'[s] = applied[s] + 1
           /\ \A t \in Sender : t # s => applied'[t] = applied[t]
           /\ \A j \in Job : conflicts'[j] >= conflicts[j]
BY DEF TreasuryInv, TreasuryTypes, Land

\* A sender that does not take the step, and a job that is not overtaken by it.
LEMMA SenderUntouched ==
    ASSUME TreasuryInv, TreasuryTypes', NEW t \in Sender, seq' >= seq,
           at'[t] = at[t], snap'[t] = snap[t], applied'[t] = applied[t],
           \A tx \in limbo' : tx.by = t => tx \in limbo
    PROVE  OneTransaction(t)'
BY DEF TreasuryInv, TreasuryTypes, OneTransaction

\* A job that a step leaves in its place is overtaken by no more than before.
LEMMA JobUntouched ==
    ASSUME TreasuryInv, NEW j \in Job, at'[j] = at[j], snap'[j] = snap[j],
           seq' = seq, conflicts'[j] = conflicts[j],
           Submitting(j) => queue'[Home[j]] # <<>> /\ Head(queue'[Home[j]]) = j
    PROVE  Overtaken(j)'
BY DEF TreasuryInv, Overtaken, Submitting, IsNext

\* The network applies a transaction it still had, or drops it.
LEMMA LedgerKeepsAccount ==
    ASSUME TreasuryInv, NEW tx \in limbo, LedgerCloses(tx)
    PROVE  TreasuryInv'
<1> DEFINE s == tx.by
<1>0. /\ s \in Sender /\ OneTransaction(s) /\ limbo' = limbo \ {tx}
      /\ UNCHANGED <<queue, at, snap>>
      /\ tx.number = snap[s] + 1 /\ at[s] \in {"submit", "poll", "ok", "failed"}
      /\ s \in Job => at[s] = "failed"
  BY DEF TreasuryInv, TreasuryTypes, Tx, LedgerCloses, OneTransaction
<1>1. CASE tx.number = seq + 1
  <2>1. Land(s)
    BY <1>1 DEF LedgerCloses
  <2>2. TreasuryTypes'
    BY <1>0, <2>1, LandingTypes DEF TreasuryInv, TreasuryTypes
  <2>3. seq = snap[s] /\ applied[s] = 0 /\ applied'[s] = 1 /\ seq' > snap[s]
    <3>1. seq \in Nat /\ snap[s] \in Nat /\ applied[s] \in Nat
      BY <1>0 DEF TreasuryInv, TreasuryTypes
    <3>2. seq = snap[s]
      BY <1>0, <1>1, <3>1
    <3>3. applied[s] = 0
      BY <1>0, <3>1, <3>2 DEF OneTransaction
    <3> QED BY <1>0, <2>1, <3>1, <3>2, <3>3, LandingTypes
  <2>4. OneTransaction(s)'
    BY <1>0, <2>3 DEF OneTransaction
  <2>5. ASSUME NEW t \in Sender, t # s PROVE OneTransaction(t)'
    <3>1. applied'[t] = applied[t] /\ seq' >= seq
      BY <1>0, <2>1, <2>5, LandingTypes DEF TreasuryInv, TreasuryTypes
    <3> QED BY <1>0, <2>2, <3>1, SenderUntouched
  <2>6. ASSUME NEW j \in Job PROVE Overtaken(j)'
    <3>1. CASE ~Submitting(j)
      <4>1. conflicts'[j] >= conflicts[j] /\ conflicts[j] \in Nat /\ conflicts'[j] \in Nat
        BY <1>0, <2>1, <2>2, LandingTypes DEF TreasuryInv, TreasuryTypes
      <4> QED BY <1>0, <3>1, <4>1 DEF TreasuryInv, Overtaken, Submitting
    <3>2. CASE Submitting(j)
      <4>1. j # s
        BY <1>0, <3>2 DEF Submitting
      <4>2. conflicts'[j] = conflicts[j] + 1 /\ conflicts[j] \in Nat
        BY <1>0, <2>1, <3>2, <4>1, LandingOvertakes DEF TreasuryInv, TreasuryTypes
      <4> QED BY <1>0, <3>2, <4>2 DEF TreasuryInv, Overtaken, Submitting, IsNext
    <3> QED BY <3>1, <3>2
  <2> QED BY <2>2, <2>4, <2>5, <2>6 DEF TreasuryInv
<1>2. CASE tx.number # seq + 1
  <2>1. UNCHANGED <<seq, applied, conflicts>>
    BY <1>2 DEF LedgerCloses, NotLanded
  <2>2. TreasuryTypes'
    BY <1>0, <2>1 DEF TreasuryInv, TreasuryTypes
  <2>3. ASSUME NEW t \in Sender PROVE OneTransaction(t)'
    BY <1>0, <2>1 DEF TreasuryInv, OneTransaction
  <2>4. ASSUME NEW j \in Job PROVE Overtaken(j)'
    BY <1>0, <2>1 DEF TreasuryInv, Overtaken, Submitting, IsNext
  <2> QED BY <2>2, <2>3, <2>4 DEF TreasuryInv
<1> QED BY <1>1, <1>2

\* The calls outside the chain: each sends the one transaction it has signed.
LEMMA CallKeepsAccount ==
    ASSUME TreasuryInv, NEW s \in ContractCall,
           \/ LoadSource(s) \/ Prepare(s) \/ PrepareRejects(s) \/ SendTransaction(s)
           \/ SendLost(s) \/ PollTransaction(s) \/ PollRejects(s)
    PROVE  TreasuryInv'
<1>0. /\ s \in Sender /\ s \notin Job /\ OneTransaction(s)
      /\ snap[s] \in Nat /\ seq \in Nat /\ applied[s] \in Nat /\ at[s] \in CallStep
      /\ TxOf(s) \in Tx /\ TxOf(s).by = s /\ TxOf(s).number = snap[s] + 1
  BY SendersApart DEF TreasuryInv, TreasuryTypes, TxOf, Tx
<1>1. /\ UNCHANGED <<seq, queue, applied, conflicts>>
      /\ \E to \in CallStep : at' = [at EXCEPT ![s] = to]
      /\ snap' = snap \/ snap' = [snap EXCEPT ![s] = seq]
      /\ limbo' = limbo \/ limbo' = limbo \cup {TxOf(s)}
  BY <1>0 DEF LoadSource, Prepare, PrepareRejects, SendTransaction, SendLost, PollTransaction,
     PollRejects, Move, CallStep
<1>2. TreasuryTypes'
  <2>1. at' \in [Sender -> JobStep \cup CallStep] /\ at'[s] \in CallStep
        /\ \A t \in Sender : t # s => at'[t] = at[t]
    BY <1>0, <1>1 DEF TreasuryInv, TreasuryTypes
  <2>2. /\ \A j \in Job : at'[j] \in JobStep
        /\ \A t \in ContractCall : at'[t] \in CallStep
    BY <1>0, <2>1, SendersApart DEF TreasuryInv, TreasuryTypes
  <2>3. snap' \in [Sender -> Nat] /\ limbo' \in SUBSET Tx
    BY <1>0, <1>1 DEF TreasuryInv, TreasuryTypes
  <2> QED BY <1>1, <2>1, <2>2, <2>3 DEF TreasuryInv, TreasuryTypes
<1>3. OneTransaction(s)'
  <2>1. CASE LoadSource(s) \/ Prepare(s) \/ PrepareRejects(s)
    <3>1. /\ at[s] \in {"idle", "prepare"} /\ limbo' = limbo
          /\ at'[s] \in {"prepare", "submit", "failed"}
      BY <1>0, <2>1 DEF LoadSource, Prepare, PrepareRejects, Move, TreasuryInv, TreasuryTypes
    <3>2. applied[s] = 0 /\ \A tx \in limbo : tx.by # s
      BY <1>0, <3>1 DEF OneTransaction
    <3> QED BY <1>1, <3>1, <3>2 DEF OneTransaction
  <2>2. CASE SendTransaction(s) \/ SendLost(s)
    <3>1. /\ at[s] = "submit" /\ snap' = snap
          /\ at'[s] \in {"submit", "poll", "ok", "failed"}
          /\ s \in Submission => at'[s] # "ok"
      BY <1>0, <2>2 DEF SendTransaction, SendLost, TreasuryInv, TreasuryTypes
    <3> QED BY <1>0, <1>1, <3>1 DEF OneTransaction
  <2>3. CASE PollTransaction(s) \/ PollRejects(s)
    <3>1. /\ at[s] = "poll" /\ snap' = snap /\ limbo' = limbo
          /\ at'[s] \in {"ok", "failed"} /\ (at'[s] = "ok" => applied[s] > 0)
      BY <1>0, <2>3 DEF PollTransaction, PollRejects, Move, TreasuryInv, TreasuryTypes
    <3> QED BY <1>0, <1>1, <3>1 DEF OneTransaction
  <2> QED BY <2>1, <2>2, <2>3
<1>4. ASSUME NEW t \in Sender, t # s PROVE OneTransaction(t)'
  <2>1. /\ at'[t] = at[t] /\ snap'[t] = snap[t] /\ applied'[t] = applied[t] /\ seq' >= seq
        /\ \A tx \in limbo' : tx.by = t => tx \in limbo
    BY <1>0, <1>1, <1>4 DEF TreasuryInv, TreasuryTypes
  <2> QED BY <1>2, <2>1, SenderUntouched
<1>5. ASSUME NEW j \in Job PROVE Overtaken(j)'
  <2>1. /\ at'[j] = at[j] /\ snap'[j] = snap[j] /\ conflicts'[j] = conflicts[j]
        /\ Submitting(j) => queue'[Home[j]] # <<>> /\ Head(queue'[Home[j]]) = j
    BY <1>0, <1>1, SendersApart DEF TreasuryInv, TreasuryTypes, Overtaken, IsNext
  <2> QED BY <1>1, <2>1, JobUntouched
<1> QED BY <1>2, <1>3, <1>4, <1>5 DEF TreasuryInv

\* The queue: only the head of a process's chain loads and submits.
LEMMA JobKeepsAccount ==
    ASSUME TreasuryInv, NEW j \in Job,
           Enqueue(j) \/ LoadAccount(j) \/ SubmitTransaction(j) \/ BadSeq(j) \/ SubmitRejects(j)
    PROVE  TreasuryInv'
<1> DEFINE p == Home[j]
<1>0. /\ j \in Sender /\ OneTransaction(j) /\ Overtaken(j) /\ p \in Process
      /\ snap[j] \in Nat /\ seq \in Nat /\ applied[j] \in Nat /\ conflicts[j] \in Nat
      /\ at[j] \in JobStep /\ queue[p] \in Seq(Job)
      /\ TxOf(j) \in Tx /\ TxOf(j).by = j /\ TxOf(j).number = snap[j] + 1
  BY SendersApart, TreasuryAssumption DEF TreasuryInv, TreasuryTypes, TxOf, Tx
\* The head of the chain leaves: no other job of the process was submitting.
<1>1. ASSUME IsNext(j), queue' = [queue EXCEPT ![p] = Tail(@)], NEW k \in Job, k # j, Submitting(k)
      PROVE  queue'[Home[k]] # <<>> /\ Head(queue'[Home[k]]) = k
  <2>1. IsNext(k) /\ Home[k] \in Process
    BY <1>1, TreasuryAssumption DEF TreasuryInv, Overtaken
  <2>2. Home[k] # p
    BY <1>1, <2>1 DEF IsNext
  <2> QED BY <1>1, <2>1, <2>2 DEF IsNext, TreasuryInv, TreasuryTypes
<1>2. IsNext(j) => Tail(queue[p]) \in Seq(Job)
  BY <1>0 DEF IsNext
<1>3. CASE Enqueue(j)
  <2>1. /\ UNCHANGED <<seq, limbo, snap, applied, conflicts>> /\ at[j] = "idle"
        /\ at' = [at EXCEPT ![j] = "queued"]
        /\ queue' = [queue EXCEPT ![p] = Append(@, j)]
    BY <1>3 DEF Enqueue, Move
  <2>2. TreasuryTypes'
    BY <1>0, <2>1, SendersApart DEF TreasuryInv, TreasuryTypes, JobStep
  <2>3. OneTransaction(j)'
    BY <1>0, <2>1, <2>2 DEF OneTransaction, TreasuryInv, TreasuryTypes
  <2>4. Overtaken(j)'
    BY <1>0, <2>1 DEF Overtaken, Submitting, TreasuryInv, TreasuryTypes
  <2>5. ASSUME NEW k \in Job, Submitting(k) PROVE queue'[Home[k]] # <<>> /\ Head(queue'[Home[k]]) = k
    <3>1. IsNext(k) /\ Home[k] \in Process
      BY <2>5, TreasuryAssumption DEF TreasuryInv, Overtaken
    <3>2. CASE Home[k] # p
      BY <2>1, <3>1, <3>2 DEF IsNext, TreasuryInv, TreasuryTypes
    <3>3. CASE Home[k] = p
      <4>1. queue'[p] = Append(queue[p], j) /\ queue[p] # <<>> /\ Head(queue[p]) = k
        BY <1>0, <2>1, <3>1, <3>3 DEF IsNext, TreasuryInv, TreasuryTypes
      <4>2. Append(queue[p], j) # <<>> /\ Head(Append(queue[p], j)) = Head(queue[p])
        BY <1>0, <4>1
      <4> QED BY <3>3, <4>1, <4>2
    <3> QED BY <3>2, <3>3
  <2>6. ASSUME NEW t \in Sender, t # j PROVE OneTransaction(t)'
    BY <2>1, <2>2, <2>6, <1>0, SenderUntouched DEF TreasuryInv, TreasuryTypes
  <2>7. ASSUME NEW k \in Job, k # j PROVE Overtaken(k)'
    BY <2>1, <2>5, <2>7, SendersApart, JobUntouched DEF TreasuryInv, TreasuryTypes
  <2> QED BY <2>2, <2>3, <2>4, <2>6, <2>7 DEF TreasuryInv
<1>4. CASE LoadAccount(j)
  <2>1. /\ UNCHANGED <<seq, limbo, queue, applied, conflicts>> /\ IsNext(j)
        /\ at[j] \in {"queued", "reload"}
        /\ at' = [at EXCEPT ![j] = IF at[j] = "queued" THEN "send" ELSE "resend"]
        /\ snap' = [snap EXCEPT ![j] = seq]
    BY <1>4 DEF LoadAccount
  <2>2. TreasuryTypes'
    BY <1>0, <2>1, SendersApart DEF TreasuryInv, TreasuryTypes, JobStep
  <2>3. OneTransaction(j)'
    BY <1>0, <2>1, <2>2 DEF OneTransaction, TreasuryInv, TreasuryTypes
  <2>4. Overtaken(j)'
    BY <1>0, <2>1 DEF Overtaken, Submitting, IsNext, TreasuryInv, TreasuryTypes
  <2>5. ASSUME NEW t \in Sender, t # j PROVE OneTransaction(t)'
    BY <1>0, <2>1, <2>2, <2>5, SenderUntouched DEF TreasuryInv, TreasuryTypes
  <2>6. ASSUME NEW k \in Job, k # j PROVE Overtaken(k)'
    BY <1>0, <2>1, <2>6, SendersApart, JobUntouched DEF TreasuryInv, TreasuryTypes, Overtaken, IsNext
  <2> QED BY <2>2, <2>3, <2>4, <2>5, <2>6 DEF TreasuryInv
<1>5. CASE SubmitTransaction(j)
  <2>1. /\ UNCHANGED <<limbo, snap>> /\ Land(j) /\ Submitting(j) /\ snap[j] = seq
        /\ at[j] \in {"send", "resend"}
        /\ at' = [at EXCEPT ![j] = "ok"] /\ queue' = [queue EXCEPT ![p] = Tail(@)]
    BY <1>5 DEF SubmitTransaction, Settle, Submitting
  <2>2. IsNext(j)
    BY <1>0, <2>1 DEF Overtaken
  <2>3. TreasuryTypes'
    BY <1>0, <1>2, <2>1, <2>2, SendersApart, LandingTypes DEF TreasuryInv, TreasuryTypes, JobStep
  <2>4. OneTransaction(j)'
    <3>1. applied'[j] = 1 /\ seq' > snap[j] /\ \A tx \in limbo : tx.by # j
      BY <1>0, <2>1, LandingTypes DEF OneTransaction
    <3>2. at'[j] = "ok"
      BY <1>0, <2>1 DEF TreasuryInv, TreasuryTypes
    <3> QED BY <2>1, <3>1, <3>2 DEF OneTransaction
  <2>5. Overtaken(j)'
    BY <1>0, <2>1 DEF Overtaken, Submitting, TreasuryInv, TreasuryTypes
  <2>6. ASSUME NEW t \in Sender, t # j PROVE OneTransaction(t)'
    <3>1. applied'[t] = applied[t] /\ seq' >= seq /\ at'[t] = at[t]
      BY <1>0, <2>1, <2>6, LandingTypes DEF TreasuryInv, TreasuryTypes
    <3> QED BY <2>1, <2>3, <3>1, SenderUntouched
  <2>7. ASSUME NEW k \in Job, k # j PROVE Overtaken(k)'
    <3>1. at'[k] = at[k] /\ snap'[k] = snap[k] /\ Overtaken(k) /\ conflicts[k] \in Nat
      BY <2>1, <2>7, SendersApart DEF TreasuryInv, TreasuryTypes
    <3>2. CASE ~Submitting(k)
      <4>1. conflicts'[k] >= conflicts[k] /\ conflicts'[k] \in Nat
        BY <1>0, <2>1, <2>3, LandingTypes DEF TreasuryTypes
      <4> QED BY <3>1, <3>2, <4>1 DEF Overtaken, Submitting
    <3>3. CASE Submitting(k)
      <4>1. conflicts'[k] = conflicts[k] + 1
        BY <1>0, <2>1, <2>7, <3>3, LandingOvertakes
      <4>2. queue'[Home[k]] # <<>> /\ Head(queue'[Home[k]]) = k
        BY <1>1, <2>1, <2>2, <2>7, <3>3
      <4> QED BY <3>1, <4>1, <4>2 DEF Overtaken, Submitting, IsNext
    <3> QED BY <3>2, <3>3
  <2> QED BY <2>3, <2>4, <2>5, <2>6, <2>7 DEF TreasuryInv
<1>6. CASE BadSeq(j)
  <2>1. /\ UNCHANGED <<seq, limbo, snap, applied, conflicts>> /\ snap[j] # seq
        /\ \/ at[j] = "send" /\ at' = [at EXCEPT ![j] = "reload"] /\ queue' = queue
           \/ /\ at[j] = "resend" /\ at' = [at EXCEPT ![j] = "badSeq"]
              /\ queue' = [queue EXCEPT ![p] = Tail(@)]
    BY <1>6 DEF BadSeq, Settle, Move, NotLanded
  <2>2. IsNext(j)
    BY <1>0, <2>1 DEF Overtaken, Submitting
  <2>3. queue' \in [Process -> Seq(Job)] /\ at' \in [Sender -> JobStep \cup CallStep]
        /\ at'[j] \in {"reload", "badSeq"} /\ \A t \in Sender : t # j => at'[t] = at[t]
    BY <1>0, <1>2, <2>1, <2>2 DEF TreasuryInv, TreasuryTypes, JobStep
  <2>4. TreasuryTypes'
    BY <1>0, <2>1, <2>3, SendersApart DEF TreasuryInv, TreasuryTypes, JobStep
  <2>5. OneTransaction(j)'
    BY <1>0, <2>1, <2>3 DEF OneTransaction
  <2>6. Overtaken(j)'
    <3>1. CASE at[j] = "send"
      BY <1>0, <2>1, <2>2, <3>1 DEF Overtaken, IsNext, TreasuryInv, TreasuryTypes
    <3>2. CASE at[j] = "resend"
      BY <1>0, <2>1, <3>2 DEF Overtaken, Submitting, TreasuryInv, TreasuryTypes
    <3> QED BY <2>1, <3>1, <3>2
  <2>7. ASSUME NEW t \in Sender, t # j PROVE OneTransaction(t)'
    BY <1>0, <2>1, <2>3, <2>4, <2>7, SenderUntouched
  <2>8. ASSUME NEW k \in Job, k # j PROVE Overtaken(k)'
    <3>1. Submitting(k) => queue'[Home[k]] # <<>> /\ Head(queue'[Home[k]]) = k
      BY <1>1, <2>1, <2>2, <2>8 DEF TreasuryInv, Overtaken, IsNext
    <3> QED BY <2>1, <2>3, <2>8, <3>1, SendersApart, JobUntouched
  <2> QED BY <2>4, <2>5, <2>6, <2>7, <2>8 DEF TreasuryInv
<1>7. CASE SubmitRejects(j)
  <2>1. /\ UNCHANGED <<seq, snap, applied, conflicts>> /\ IsNext(j)
        /\ at[j] \in {"queued", "send", "reload", "resend"}
        /\ at' = [at EXCEPT ![j] = "failed"] /\ queue' = [queue EXCEPT ![p] = Tail(@)]
        /\ limbo' = limbo \/ limbo' = limbo \cup {TxOf(j)}
    BY <1>7 DEF SubmitRejects, Settle
  <2>2. queue' \in [Process -> Seq(Job)] /\ at' \in [Sender -> JobStep \cup CallStep]
        /\ at'[j] = "failed" /\ \A t \in Sender : t # j => at'[t] = at[t]
    BY <1>0, <1>2, <2>1 DEF TreasuryInv, TreasuryTypes, JobStep
  <2>3. TreasuryTypes'
    BY <1>0, <2>1, <2>2, SendersApart DEF TreasuryInv, TreasuryTypes, JobStep
  <2>4. OneTransaction(j)'
    <3>1. applied[j] = 0 /\ \A tx \in limbo : tx.by # j
      BY <1>0, <2>1 DEF OneTransaction
    <3>2. \A tx \in limbo' : tx.by = j => tx.number = snap[j] + 1
      BY <1>0, <2>1, <3>1
    <3> QED BY <2>1, <2>2, <3>1, <3>2 DEF OneTransaction
  <2>5. Overtaken(j)'
    BY <2>2 DEF Overtaken, Submitting
  <2>6. ASSUME NEW t \in Sender, t # j PROVE OneTransaction(t)'
    <3>1. \A tx \in limbo' : tx.by = t => tx \in limbo
      BY <1>0, <2>1, <2>6
    <3> QED BY <1>0, <2>1, <2>2, <2>3, <2>6, <3>1, SenderUntouched
  <2>7. ASSUME NEW k \in Job, k # j PROVE Overtaken(k)'
    <3>1. Submitting(k) => queue'[Home[k]] # <<>> /\ Head(queue'[Home[k]]) = k
      BY <1>1, <2>1, <2>7
    <3> QED BY <2>1, <2>2, <2>7, <3>1, SendersApart, JobUntouched
  <2> QED BY <2>3, <2>4, <2>5, <2>6, <2>7 DEF TreasuryInv
<1> QED
  BY <1>3, <1>4, <1>5, <1>6, <1>7

\* Every operation of the transaction queue keeps its inductive invariant.
LEMMA TreasuryInvariant == TreasurySpec => []TreasuryInv
<1>1. TreasuryInit => TreasuryInv
  <2> SUFFICES ASSUME TreasuryInit PROVE TreasuryInv
    OBVIOUS
  <2>1. TreasuryTypes
    BY SendersApart DEF TreasuryInit, TreasuryTypes, JobStep, CallStep
  <2>2. limbo = {} /\ \A s \in Sender : at[s] = "idle" /\ applied[s] = 0
    BY DEF TreasuryInit
  <2>3. \A s \in Sender : OneTransaction(s)
    BY <2>2 DEF OneTransaction
  <2>4. \A j \in Job : Overtaken(j)
    BY <2>2, SendersApart DEF Overtaken, Submitting
  <2> QED BY <2>1, <2>3, <2>4 DEF TreasuryInv
<1>2. TreasuryInv /\ [TreasuryNext]_treasuryVars => TreasuryInv'
  <2> SUFFICES ASSUME TreasuryInv, [TreasuryNext]_treasuryVars PROVE TreasuryInv'
    OBVIOUS
  <2>1. CASE UNCHANGED treasuryVars
    BY <2>1 DEF treasuryVars, TreasuryInv, TreasuryTypes, OneTransaction, Overtaken, Submitting, IsNext
  <2> QED
    BY <2>1, LedgerKeepsAccount, CallKeepsAccount, JobKeepsAccount DEF TreasuryNext
<1> QED
  BY <1>1, <1>2, PTL DEF TreasurySpec

\* For any number of processes and calls and any interleaving of lost answers and
\* resends: one call spends the treasury at most once, a submission that resolves
\* was applied and one refused for its sequence number was not
\* (stellar-tx-queue.service.ts, soroban.service.ts submitTx).
THEOREM OutcomesAreHonest == TreasurySpec => []OutcomeIsHonest
<1>1. TreasuryInv => OutcomeIsHonest
  BY SendersApart DEF TreasuryInv, OneTransaction, OutcomeIsHonest
<1> QED
  BY <1>1, TreasuryInvariant, PTL

\* ... and a queued submission fails for its sequence number only after two
\* transactions from outside its chain overtook it (submitFromTreasury).
THEOREM ChainPreventsConflicts == TreasurySpec => []BadSeqNeedsTwoConflicts
<1>1. TreasuryInv => BadSeqNeedsTwoConflicts
  BY DEF TreasuryInv, Overtaken, BadSeqNeedsTwoConflicts
<1> QED
  BY <1>1, TreasuryInvariant, PTL

-----------------------------------------------------------------------------
(* Circuit breaker *)

CircuitTypes ==
    /\ breaker \in [current : {"closed", "open", "half-open"}, failures : Nat, openedAt : Nat]
    /\ clock \in Nat /\ quietUntil \in Nat

\* The window is the circuit's own: while it lasts the circuit is open, and the
\* timeout is counted from the failure that began the window.
WindowIsTimed ==
    quietUntil > clock => /\ breaker.current = "open"
                          /\ breaker.openedAt + ResetTimeout = quietUntil

\* The inductive invariant.
CircuitInv == CircuitTypes /\ WindowIsTimed

-----------------------------------------------------------------------------
\* Reading the state changes nothing of a circuit within its window.
LEMMA ReadKeepsWindow ==
    ASSUME CircuitInv, breaker' = ReadState(breaker), UNCHANGED <<clock, quietUntil>>
    PROVE  CircuitInv'
<1> USE CircuitAssumption DEF CircuitInv
<1>1. CASE breaker.current = "open" /\ clock - breaker.openedAt >= ResetTimeout
  <2>1. /\ breaker' \in [current : {"closed", "open", "half-open"}, failures : Nat, openedAt : Nat]
    BY <1>1 DEF ReadState, CircuitTypes
  <2>2. ~(quietUntil > clock)
    BY <1>1 DEF WindowIsTimed, CircuitTypes
  <2> QED BY <2>1, <2>2 DEF CircuitTypes, WindowIsTimed
<1>2. CASE ~(breaker.current = "open" /\ clock - breaker.openedAt >= ResetTimeout)
  BY <1>2 DEF ReadState, CircuitTypes, WindowIsTimed
<1> QED
  BY <1>1, <1>2

\* A success ends the window with the circuit.
LEMMA SuccessKeepsWindow ==
    ASSUME CircuitInv, RecordSuccess, UNCHANGED clock
    PROVE  CircuitInv'
<1>1. /\ breaker' \in [current : {"closed", "open", "half-open"}, failures : Nat, openedAt : Nat]
      /\ clock' \in Nat /\ quietUntil' = 0
  BY DEF CircuitInv, CircuitTypes, RecordSuccess
<1> QED
  BY <1>1 DEF CircuitInv, CircuitTypes, WindowIsTimed

\* A failure that trips begins a window; one that does not trip finds a circuit
\* that has none, for an open circuit has reached its threshold.
LEMMA FailureKeepsWindow ==
    ASSUME CircuitInv, RecordFailure, UNCHANGED clock
    PROVE  CircuitInv'
<1> USE CircuitAssumption DEF CircuitInv
<1>1. CASE Trips(breaker)
  <2>1. /\ breaker' = [current |-> "open", failures |-> breaker.failures + 1, openedAt |-> clock]
        /\ quietUntil' = clock + ResetTimeout
    BY <1>1 DEF RecordFailure
  <2> QED BY <2>1 DEF CircuitTypes, WindowIsTimed
<1>2. CASE ~Trips(breaker)
  <2>1. /\ breaker' = [current |-> breaker.current, failures |-> breaker.failures + 1,
                       openedAt |-> breaker.openedAt]
        /\ quietUntil' = quietUntil
    BY <1>2 DEF RecordFailure
  <2> QED BY <2>1 DEF CircuitTypes, WindowIsTimed
<1> QED
  BY <1>1, <1>2

\* Every step keeps the window timed.
LEMMA StepKeepsWindow == CircuitInv /\ [CircuitNext]_circuitVars => CircuitInv'
<1> SUFFICES ASSUME CircuitInv, [CircuitNext]_circuitVars PROVE CircuitInv'
  OBVIOUS
<1>1. CASE UNCHANGED <<breaker, clock, quietUntil>>
  BY <1>1 DEF CircuitInv, CircuitTypes, WindowIsTimed
<1>2. CASE Tick
  BY <1>2 DEF Tick, CircuitInv, CircuitTypes, WindowIsTimed
<1>3. CASE AskState
  BY <1>3, ReadKeepsWindow DEF AskState
<1>4. ASSUME NEW c \in RpcCall, Admit(c) PROVE CircuitInv'
  BY <1>4, ReadKeepsWindow DEF Admit
<1>5. ASSUME NEW c \in RpcCall, CallResolves(c) PROVE CircuitInv'
  BY <1>5, SuccessKeepsWindow DEF CallResolves
<1>6. ASSUME NEW c \in RpcCall, CallFails(c) PROVE CircuitInv'
  BY <1>6, FailureKeepsWindow DEF CallFails
<1>7. ASSUME NEW c \in RpcCall, CallRejected(c) \/ Retry(c) \/ FallBack(c) PROVE CircuitInv'
  BY <1>7, <1>1 DEF CallRejected, Retry, FallBack, NotRecorded
<1>8. CASE UNCHANGED circuitVars
  BY <1>8, <1>1 DEF circuitVars
<1> QED
  BY <1>2, <1>3, <1>4, <1>5, <1>6, <1>7, <1>8 DEF CircuitNext

\* A step that starts a call is Admit, which refuses within the window.
LEMMA StartsAreDue ==
    ASSUME CircuitInv, [CircuitNext]_circuitVars, NEW c \in RpcCall,
           rpc[c] = NoCall, rpc'[c] # NoCall
    PROVE  clock >= quietUntil
<1>1. ASSUME NEW d \in RpcCall, Admit(d) PROVE clock >= quietUntil
  <2>1. ~(breaker.current = "open" /\ ~(clock - breaker.openedAt >= ResetTimeout))
    BY <1>1 DEF Admit, ReadState
  <2> QED BY <2>1, CircuitAssumption DEF CircuitInv, CircuitTypes, WindowIsTimed
<1>2. ASSUME NEW d \in RpcCall, Return(d) PROVE FALSE
  BY <1>2 DEF Return
<1>3. ASSUME NEW d \in RpcCall, InFlight(d), NEW new, rpc' = [rpc EXCEPT ![d] = new] PROVE FALSE
  BY <1>3 DEF InFlight
<1>4. NoCall.endpoint # "primary"
  BY DEF NoCall
<1>5. ASSUME NEW d \in RpcCall, Retry(d) \/ FallBack(d) PROVE FALSE
  BY <1>3, <1>4, <1>5 DEF Retry, FallBack, InFlight
<1>6. CASE Tick \/ AskState \/ UNCHANGED circuitVars
  BY <1>6 DEF Tick, AskState, circuitVars
<1> QED
  BY <1>1, <1>2, <1>5, <1>6 DEF CircuitNext, CallResolves, CallRejected, CallFails

-----------------------------------------------------------------------------
\* For any threshold and reset timeout, with any number of overlapping calls:
\* no call starts within the window that the last tripping failure began, unless
\* a call in flight succeeds meanwhile (CircuitBreaker.execute, recordFailure).
THEOREM CircuitStaysQuiet == CircuitSpec => OpenCircuitIsQuiet
<1>1. CircuitInit => CircuitInv
  <2> SUFFICES ASSUME CircuitInit PROVE CircuitInv
    OBVIOUS
  <2>1. CircuitTypes
    BY DEF CircuitInit, CircuitTypes
  <2>2. quietUntil = 0 /\ clock = 0
    BY DEF CircuitInit
  <2>3. WindowIsTimed
    BY <2>2 DEF WindowIsTimed
  <2> QED BY <2>1, <2>3 DEF CircuitInv
<1>2. CircuitInv /\ [CircuitNext]_circuitVars => CircuitInv'
  BY StepKeepsWindow
<1>3. CircuitInv /\ [CircuitNext]_circuitVars
        => [\A c \in RpcCall : rpc[c] = NoCall /\ rpc'[c] # NoCall
                                 => clock >= quietUntil]_circuitVars
  BY StartsAreDue
<1> QED
  BY <1>1, <1>2, <1>3, PTL DEF CircuitSpec, OpenCircuitIsQuiet

-----------------------------------------------------------------------------
(* Mirrored escrow payments *)

MirrorRow == [status : {"none", "pending", "confirmed", "expired"}, expiryLedger : Nat]

MirrorTypes ==
    /\ currentLedger \in Nat
    /\ mirrored \in [EscrowPayment -> MirrorRow]
    /\ refundOrders \in [EscrowPayment -> Nat]
    /\ rewound \in [EscrowPayment -> BOOLEAN]

\* A payment that still can expire has no order yet, no payment has two, and an
\* ordered payment stays overdue unless the ledger is set back: confirm, which
\* only asks the ledger, keeps refusing it.
OrdersAreFinal(p) ==
    /\ mirrored[p].status \in {"none", "pending"} => refundOrders[p] = 0
    /\ refundOrders[p] <= 1
    /\ refundOrders[p] = 1 /\ ~rewound[p] => /\ mirrored[p].status = "expired"
                                             /\ currentLedger > mirrored[p].expiryLedger

\* The inductive invariant.
MirrorInv == MirrorTypes /\ \A p \in EscrowPayment : OrdersAreFinal(p)

-----------------------------------------------------------------------------
\* The ledger moves on, or is set.
LEMMA LedgerKeepsOrders ==
    ASSUME MirrorInv, NEW ledger \in Nat, SetCurrentLedger(ledger)
                        \/ (AdvanceLedger(ledger))
    PROVE  MirrorInv'
<1> USE DEF MirrorInv
<1>1. CASE SetCurrentLedger(ledger)
  <2>1. MirrorTypes'
    BY <1>1 DEF SetCurrentLedger, MirrorTypes
  <2>2. ASSUME NEW p \in EscrowPayment PROVE OrdersAreFinal(p)'
    <3>1. rewound'[p] = (rewound[p] \/ ledger < currentLedger) /\ OrdersAreFinal(p)
      BY <1>1 DEF SetCurrentLedger
    <3>2. mirrored[p].expiryLedger \in Nat /\ refundOrders[p] \in Nat /\ rewound[p] \in BOOLEAN
      BY DEF MirrorTypes, MirrorRow
    <3>3. ~(ledger < currentLedger) => (currentLedger > mirrored[p].expiryLedger => ledger > mirrored[p].expiryLedger)
      BY <3>2 DEF MirrorTypes
    <3> QED BY <1>1, <3>1, <3>2, <3>3 DEF SetCurrentLedger, OrdersAreFinal
  <2> QED BY <2>1, <2>2
<1>2. CASE AdvanceLedger(ledger)
  <2>1. MirrorTypes' /\ currentLedger' >= currentLedger
    BY <1>2 DEF AdvanceLedger, MirrorTypes
  <2>2. ASSUME NEW p \in EscrowPayment PROVE OrdersAreFinal(p)'
    <3>1. mirrored[p].expiryLedger \in Nat /\ OrdersAreFinal(p)
      BY DEF MirrorTypes, MirrorRow
    <3> QED BY <1>2, <2>1, <3>1 DEF AdvanceLedger, OrdersAreFinal, MirrorTypes
  <2> QED BY <2>1, <2>2
<1> QED
  BY <1>1, <1>2

\* createPayment, confirm and expirePayment of one payment.
LEMMA PaymentKeepsOrders ==
    ASSUME MirrorInv, NEW q \in EscrowPayment,
           (\E d \in Expiries : CreatePayment(q, d)) \/ Confirm(q) \/ ExpirePayment(q)
    PROVE  MirrorInv'
<1> USE DEF MirrorInv
<1>0. mirrored[q] \in MirrorRow /\ refundOrders[q] \in Nat /\ OrdersAreFinal(q)
  BY DEF MirrorTypes
<1>1. ASSUME NEW d \in Expiries, CreatePayment(q, d) PROVE MirrorInv'
  <2> DEFINE row == [status |-> "pending", expiryLedger |-> currentLedger + d]
  <2>1. row \in MirrorRow /\ row.status = "pending"
    BY EscrowAssumption DEF MirrorRow, MirrorTypes
  <2>2. /\ mirrored' = [mirrored EXCEPT ![q] = row]
        /\ refundOrders' = [refundOrders EXCEPT ![q] = 0]
        /\ rewound' = [rewound EXCEPT ![q] = FALSE]
        /\ currentLedger' = currentLedger
    BY <1>1 DEF CreatePayment
  <2> HIDE DEF row
  <2>3. MirrorTypes'
    BY <2>1, <2>2 DEF MirrorTypes
  <2>4. ASSUME NEW p \in EscrowPayment PROVE OrdersAreFinal(p)'
    BY <2>1, <2>2 DEF OrdersAreFinal, MirrorTypes
  <2> QED BY <2>3, <2>4
<1>2. CASE Confirm(q)
  <2> DEFINE row == [mirrored[q] EXCEPT !.status = "confirmed"]
  <2>1. /\ row \in MirrorRow /\ row.status = "confirmed"
        /\ row.expiryLedger = mirrored[q].expiryLedger
    BY <1>0 DEF MirrorRow
  <2>2. /\ mirrored' = [mirrored EXCEPT ![q] = row]
        /\ UNCHANGED <<currentLedger, refundOrders, rewound>>
        /\ ~(currentLedger > mirrored[q].expiryLedger)
    BY <1>2 DEF Confirm, IsExpired
  <2> HIDE DEF row
  <2>3. MirrorTypes'
    BY <2>1, <2>2 DEF MirrorTypes
  <2>4. ASSUME NEW p \in EscrowPayment PROVE OrdersAreFinal(p)'
    BY <1>0, <2>1, <2>2 DEF OrdersAreFinal, MirrorTypes
  <2> QED BY <2>3, <2>4
<1>3. CASE ExpirePayment(q)
  <2> DEFINE row == [mirrored[q] EXCEPT !.status = "expired"]
  <2>1. /\ row \in MirrorRow /\ row.status = "expired"
        /\ row.expiryLedger = mirrored[q].expiryLedger
    BY <1>0 DEF MirrorRow
  <2>2. /\ mirrored' = [mirrored EXCEPT ![q] = row]
        /\ refundOrders' = [refundOrders EXCEPT ![q] = refundOrders[q] + 1]
        /\ UNCHANGED <<currentLedger, rewound>>
        /\ mirrored[q].status = "pending" /\ currentLedger > mirrored[q].expiryLedger
    BY <1>3 DEF ExpirePayment, IsExpired
  <2> HIDE DEF row
  <2>3. MirrorTypes'
    BY <2>1, <2>2 DEF MirrorTypes
  <2>4. refundOrders[q] = 0
    BY <1>0, <2>2 DEF OrdersAreFinal
  <2>5. ASSUME NEW p \in EscrowPayment PROVE OrdersAreFinal(p)'
    BY <1>0, <2>1, <2>2, <2>4 DEF OrdersAreFinal, MirrorTypes
  <2> QED BY <2>3, <2>5
<1> QED
  BY <1>1, <1>2, <1>3

-----------------------------------------------------------------------------
\* For any number of payments and any expiry periods: expirePayment orders one
\* refund at most, and a payment with an order is confirmed only if the ledger
\* was set back in between (PaymentEscrowService.confirm, expirePayment).
THEOREM RefundIsFinal == EscrowSpec => []NoRefundOfConfirmed
<1>1. EscrowInit => MirrorInv
  <2> SUFFICES ASSUME EscrowInit PROVE MirrorInv
    OBVIOUS
  <2>1. NoPayment \in MirrorRow /\ NoPayment.status = "none"
    BY DEF NoPayment, MirrorRow
  <2>2. MirrorTypes
    BY <2>1, EscrowAssumption DEF EscrowInit, MirrorTypes
  <2>3. ASSUME NEW p \in EscrowPayment PROVE OrdersAreFinal(p)
    BY <2>1 DEF EscrowInit, OrdersAreFinal
  <2> QED BY <2>2, <2>3 DEF MirrorInv
<1>2. MirrorInv /\ [EscrowNext]_escrowVars => MirrorInv'
  <2> SUFFICES ASSUME MirrorInv, [EscrowNext]_escrowVars PROVE MirrorInv'
    OBVIOUS
  <2>1. CASE UNCHANGED <<currentLedger, mirrored, refundOrders, rewound>>
    BY <2>1 DEF MirrorInv, MirrorTypes, OrdersAreFinal
  <2>2. ASSUME NEW ledger \in FirstLedger..MaxLedger, SetCurrentLedger(ledger)
        PROVE  MirrorInv'
    BY <2>2, LedgerKeepsOrders, EscrowAssumption
  <2>3. ASSUME NEW delta \in 1..(MaxLedger - FirstLedger), AdvanceLedger(delta)
        PROVE  MirrorInv'
    BY <2>3, LedgerKeepsOrders, EscrowAssumption
  <2>4. ASSUME NEW o \in Operation, BeginOperation(o) \/ EndOperation(o)
        PROVE  MirrorInv'
    BY <2>1, <2>4 DEF BeginOperation, EndOperation
  <2>5. CASE Pause \/ Unpause
    BY <2>1, <2>5 DEF Pause, Unpause
  <2>6. CASE UNCHANGED escrowVars
    BY <2>1, <2>6 DEF escrowVars
  <2> QED
    BY <2>2, <2>3, <2>4, <2>5, <2>6, PaymentKeepsOrders DEF EscrowNext
<1>3. MirrorInv => NoRefundOfConfirmed
  BY DEF MirrorInv, MirrorTypes, OrdersAreFinal, NoRefundOfConfirmed
<1> QED
  BY <1>1, <1>2, <1>3, PTL DEF EscrowSpec

-----------------------------------------------------------------------------
(* Wallets *)

WalletRow == [address : Address \cup {"none"}, secret : Seq({OldKey, NewKey}), keyVersion : Nat]
WalletCall == [user : User \cup {"none"}, replica : Replica \cup {"none"},
               step : {"none", "save", "register"}]

WalletTypes ==
    /\ wallets \in [User -> WalletRow]
    /\ provisioning \in [Address -> WalletCall]
    /\ \A a \in Address : provisioning[a].step # "none" => provisioning[a].user \in User
    /\ syncing \in [Replica -> User \cup {"none"}]
    /\ rotating \in [Replica -> SUBSET User]
    /\ announced \in SUBSET Address

Stored(a) == \E u \in User : wallets[u].address = a

\* Only the call whose insert succeeded gets to registerUser, and neither the
\* balance synchronisation nor the re-encryption changes an address.
WalletInv ==
    /\ WalletTypes
    /\ \A a \in announced : Stored(a)
    /\ \A a \in Address : provisioning[a].step = "register" => Stored(a)

\* What the columns are written with.
LEMMA CipherTypes ==
    ASSUME NEW r, NEW value \in Seq({OldKey, NewKey})
    PROVE  /\ ActiveKey(r) \in {OldKey, NewKey}
           /\ Encrypt(r, value) \in Seq({OldKey, NewKey})
           /\ Write(r, value) \in Seq({OldKey, NewKey})
           /\ Decrypt(value) \in Seq({OldKey, NewKey})
<1>1. ActiveKey(r) \in {OldKey, NewKey}
  BY DEF ActiveKey
<1>2. Encrypt(r, value) \in Seq({OldKey, NewKey})
  BY <1>1 DEF Encrypt
<1>3. Decrypt(value) \in Seq({OldKey, NewKey})
  BY DEF Decrypt, Front
<1> QED BY <1>1, <1>2, <1>3 DEF Write

\* A row saved with another secret and key version keeps its address.
LEMMA RowKeepsAddress ==
    ASSUME NEW row \in WalletRow, NEW secret \in Seq({OldKey, NewKey}), NEW key \in Nat
    PROVE  LET mid == [row EXCEPT !.secret = secret]
               new == [mid EXCEPT !.keyVersion = key]
           IN  /\ mid \in WalletRow /\ mid.address = row.address
               /\ new \in WalletRow /\ new.address = row.address
               /\ new = [row EXCEPT !.secret = secret, !.keyVersion = key]
<1> DEFINE mid == [row EXCEPT !.secret = secret]
           new == [mid EXCEPT !.keyVersion = key]
<1>1. mid \in WalletRow /\ mid.address = row.address
  BY DEF WalletRow
<1>2. new = [row EXCEPT !.secret = secret, !.keyVersion = key]
  BY DEF WalletRow
<1> HIDE DEF mid
<1>3. new \in WalletRow /\ new.address = row.address
  BY <1>1 DEF WalletRow
<1> QED BY <1>1, <1>2, <1>3 DEF mid

\* Rows are saved with another secret; their addresses stay.
LEMMA AddressesStay ==
    ASSUME WalletInv, WalletTypes', announced' = announced, provisioning' = provisioning,
           \A u \in User : wallets'[u].address = wallets[u].address
    PROVE  WalletInv'
BY DEF WalletInv, Stored

\* Every operation of the wallets keeps their inductive invariant.
LEMMA WalletStep == WalletInv /\ [WalletNext]_walletVars => WalletInv'
<1> SUFFICES ASSUME WalletInv, [WalletNext]_walletVars PROVE WalletInv'
  OBVIOUS
<1>0. WalletTypes /\ \A u \in User : wallets[u] \in WalletRow
  BY DEF WalletInv, WalletTypes
<1>1. ASSUME NEW a \in Address, NEW u \in User, NEW r \in Replica, Provision(a, u, r)
      PROVE  WalletInv'
  <2> DEFINE c == [user |-> u, replica |-> r, step |-> "save"]
  <2>1. c \in WalletCall /\ c.step = "save" /\ c.user = u
    BY DEF WalletCall
  <2>2. /\ provisioning' = [provisioning EXCEPT ![a] = c]
        /\ UNCHANGED <<wallets, syncing, rotating, announced>>
    BY <1>1 DEF Provision
  <2> HIDE DEF c
  <2>3. WalletTypes'
    BY <1>0, <2>1, <2>2 DEF WalletTypes
  <2> QED BY <2>1, <2>2, <2>3 DEF WalletInv, WalletTypes, Stored
<1>2. ASSUME NEW a \in Address, SaveWallet(a) PROVE WalletInv'
  <2> DEFINE c == provisioning[a]
             row == [address |-> a, secret |-> Write(c.replica, <<>>),
                     keyVersion |-> ActiveKey(c.replica)]
  <2>0. c \in WalletCall /\ c.step = "save" /\ c.user \in User
    BY <1>0, <1>2 DEF SaveWallet, WalletTypes
  <2>1. CASE Writable(c.replica) /\ wallets[c.user] = NoWallet
    <3>1. /\ wallets' = [wallets EXCEPT ![c.user] = row]
          /\ provisioning' = [provisioning EXCEPT ![a].step = "register"]
          /\ UNCHANGED <<syncing, rotating, announced>>
      BY <1>2, <2>1 DEF SaveWallet
    <3>2. row \in WalletRow /\ row.address = a
      <4>1. <<>> \in Seq({OldKey, NewKey})
        OBVIOUS
      <4>2. Write(c.replica, <<>>) \in Seq({OldKey, NewKey}) /\ ActiveKey(c.replica) \in {OldKey, NewKey}
        BY <4>1, CipherTypes
      <4>3. {OldKey, NewKey} \subseteq Nat
        BY DEF OldKey, NewKey
      <4> QED BY <4>2, <4>3 DEF WalletRow
    <3>3. /\ provisioning' \in [Address -> WalletCall]
          /\ \A b \in Address : b # a => provisioning'[b] = provisioning[b]
          /\ provisioning'[a].user = c.user
      BY <1>0, <2>0, <3>1 DEF WalletTypes, WalletCall
    <3> HIDE DEF row, c
    <3>4. wallets' \in [User -> WalletRow]
      BY <1>0, <2>0, <3>1, <3>2 DEF WalletTypes
    <3>5. WalletTypes'
      BY <1>0, <2>0, <3>1, <3>3, <3>4 DEF WalletTypes
    <3>6. wallets'[c.user].address = a
      BY <1>0, <2>0, <3>1, <3>2 DEF WalletTypes
    <3>7. ASSUME NEW b \in Address, Stored(b) PROVE Stored(b)'
      <4>1. PICK u \in User : wallets[u].address = b
        BY <3>7 DEF Stored
      <4>2. NoWallet.address = "none"
        BY DEF NoWallet
      <4>3. u # c.user
        BY <2>1, <3>7, <4>1, <4>2, WalletAssumption
      <4> QED BY <1>0, <3>1, <4>1, <4>3 DEF Stored, WalletTypes
    <3>8. Stored(a)'
      BY <2>0, <3>6 DEF Stored
    <3> QED BY <1>0, <3>1, <3>3, <3>5, <3>7, <3>8 DEF WalletInv, WalletTypes
  <2>2. CASE ~(Writable(c.replica) /\ wallets[c.user] = NoWallet)
    <3>1. /\ provisioning' = [provisioning EXCEPT ![a] = NoCallOf]
          /\ UNCHANGED <<wallets, syncing, rotating, announced>>
      BY <1>2, <2>2 DEF SaveWallet
    <3>2. NoCallOf \in WalletCall /\ NoCallOf.step = "none"
      BY DEF NoCallOf, WalletCall
    <3>3. WalletTypes'
      BY <1>0, <3>1, <3>2 DEF WalletTypes
    <3> QED BY <3>1, <3>2, <3>3 DEF WalletInv, WalletTypes, Stored
  <2> QED BY <2>1, <2>2
<1>3. ASSUME NEW a \in Address, Announce(a) PROVE WalletInv'
  <2>1. /\ provisioning' = [provisioning EXCEPT ![a] = NoCallOf]
        /\ announced' = announced \cup {a} /\ provisioning[a].step = "register"
        /\ UNCHANGED <<wallets, syncing, rotating>>
    BY <1>3 DEF Announce
  <2>2. NoCallOf \in WalletCall /\ NoCallOf.step = "none"
    BY DEF NoCallOf, WalletCall
  <2>3. WalletTypes'
    BY <1>0, <2>1, <2>2 DEF WalletTypes
  <2> QED BY <2>1, <2>2, <2>3 DEF WalletInv, WalletTypes, Stored
<1>4. ASSUME NEW r \in Replica, SyncSave(r) PROVE WalletInv'
  <2> DEFINE u == syncing[r]
             secret == Write(r, Decrypt(wallets[u].secret))
             new == [wallets[u] EXCEPT !.secret = secret]
  <2>1. u \in User
    BY <1>0, <1>4 DEF SyncSave, WalletTypes
  <2>2. new \in WalletRow /\ new.address = wallets[u].address
    <3>1. wallets[u].secret \in Seq({OldKey, NewKey})
      BY <1>0, <2>1 DEF WalletRow
    <3>2. secret \in Seq({OldKey, NewKey})
      BY <3>1, CipherTypes
    <3> QED BY <1>0, <2>1, <3>2, RowKeepsAddress
  <2>3. /\ wallets' = wallets \/ wallets' = [wallets EXCEPT ![u] = new]
        /\ syncing' = [syncing EXCEPT ![r] = "none"]
        /\ UNCHANGED <<provisioning, rotating, announced>>
    BY <1>4 DEF SyncSave
  <2> HIDE DEF new
  <2>4. wallets' \in [User -> WalletRow] /\ \A v \in User : wallets'[v].address = wallets[v].address
    BY <1>0, <2>1, <2>2, <2>3 DEF WalletTypes
  <2>5. WalletTypes'
    BY <1>0, <2>3, <2>4 DEF WalletTypes
  <2> QED BY <2>3, <2>4, <2>5, AddressesStay
<1>5. ASSUME NEW r \in Replica, NEW u \in User, RotateSave(r, u) PROVE WalletInv'
  <2> DEFINE secret == Write(r, Encrypt(r, <<>>))
             key == ActiveKey(r)
             new == [wallets[u] EXCEPT !.secret = secret, !.keyVersion = key]
  <2>1. secret \in Seq({OldKey, NewKey}) /\ key \in Nat
    <3>1. <<>> \in Seq({OldKey, NewKey})
      OBVIOUS
    <3>2. Encrypt(r, <<>>) \in Seq({OldKey, NewKey})
      BY <3>1, CipherTypes
    <3>3. {OldKey, NewKey} \subseteq Nat
      BY DEF OldKey, NewKey
    <3>4. key \in {OldKey, NewKey}
      BY <3>1, CipherTypes
    <3> QED BY <3>2, <3>3, <3>4, CipherTypes
  <2>2. /\ \/ wallets' = wallets
           \/ wallets' = [wallets EXCEPT ![u] = new]
        /\ rotating' = [rotating EXCEPT ![r] = @ \ {u}]
        /\ UNCHANGED <<provisioning, syncing, announced>>
    BY <1>5 DEF RotateSave
  <2>3. new \in WalletRow /\ new.address = wallets[u].address
    BY <1>0, <2>1, RowKeepsAddress
  <2> HIDE DEF new
  <2>4. wallets' \in [User -> WalletRow] /\ \A v \in User : wallets'[v].address = wallets[v].address
    BY <1>0, <2>2, <2>3 DEF WalletTypes
  <2>5. WalletTypes'
    BY <1>0, <2>2, <2>4 DEF WalletTypes
  <2> QED BY <2>2, <2>4, <2>5, AddressesStay
<1>6. ASSUME NEW r \in Replica, NEW u \in User, SyncRead(r, u) \/ RotateSkips(r, u)
      PROVE  WalletInv'
  <2>1. WalletTypes' /\ UNCHANGED <<wallets, provisioning, announced>>
    BY <1>0, <1>6 DEF SyncRead, RotateSkips, WalletTypes
  <2> QED BY <2>1, AddressesStay
<1>7. ASSUME NEW r \in Replica, SyncRejects(r) \/ Deploy(r) \/ RotateRead(r)
      PROVE  WalletInv'
  <2>1. WalletTypes' /\ UNCHANGED <<wallets, provisioning, announced>>
    BY <1>0, <1>7 DEF SyncRejects, Deploy, RotateRead, WalletTypes
  <2> QED BY <2>1, AddressesStay
<1>8. CASE UNCHANGED walletVars
  <2>1. WalletTypes' /\ UNCHANGED <<wallets, provisioning, announced>>
    BY <1>0, <1>8 DEF walletVars, WalletTypes
  <2> QED BY <2>1, AddressesStay
<1> QED
  BY <1>1, <1>2, <1>3, <1>4, <1>5, <1>6, <1>7, <1>8 DEF WalletNext

\* For any number of users, replicas and overlapping calls of provision, and
\* whatever is synchronised and re-encrypted meanwhile: an address that was
\* registered, funded or announced is the address of a stored wallet.
THEOREM AnnouncedWalletsExist == WalletSpec => []AnnouncedIsStored
<1>1. WalletInit => WalletInv
  <2> SUFFICES ASSUME WalletInit PROVE WalletInv
    OBVIOUS
  <2>1. NoWallet \in WalletRow /\ NoCallOf \in WalletCall /\ NoCallOf.step = "none"
    BY DEF NoWallet, WalletRow, NoCallOf, WalletCall
  <2>2. WalletTypes
    BY <2>1 DEF WalletInit, WalletTypes
  <2> QED BY <2>1, <2>2 DEF WalletInit, WalletInv
<1>2. WalletInv => AnnouncedIsStored
  BY DEF WalletInv, Stored, AnnouncedIsStored
<1> QED
  BY <1>1, <1>2, WalletStep, PTL DEF WalletSpec
=============================================================================
