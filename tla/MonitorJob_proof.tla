-------------------------- MODULE MonitorJob_proof --------------------------
(***************************************************************************)
(* Proofs about StellarMonitor and about the whole scan job, for any       *)
(* number of replicas, payments, transactions, escrow events and restarts. *)
(***************************************************************************)
EXTENDS MonitorJob, FiniteSetTheorems, WellFoundedInduction, TLAPS

\* A worker between the lookup of a payment and the end of its handling knows
\* the payment.
CurIsPayment ==
    \A w \in Worker :
        pc[w] \in InTransaction \cup {"matched", "verified", "expiring", "expired"}
            => cur[w] \in Payment

\* A worker inside the transaction holds the lock of the row it confirms.
TransactionHoldsLock ==
    \A w \in Worker : pc[w] \in InTransaction => lock[cur[w]] = w

\* Nobody changes a row that another worker has locked.
LockedIsPending ==
    \A p \in Payment : lock[p] # NoWorker => row[p].status = "pending"

PendingIsUnsettled ==
    \A p \in Payment : row[p].status = "pending" => settlements[p] = 0

\* How far a confirmation in progress has got.
InFlightIsBacked ==
    \A w \in Worker :
        /\ pc[w] \in {"invoked", "announced"} => "confirm" \in chain[cur[w]]
        /\ pc[w] = "announced" => "payment.confirmed" \in announced[cur[w]]

\* What type correctness needs besides TypeOK.
TypeInv == TypeOK /\ CurIsPayment

\* The transactions of the account are counted.
LEMMA LenTx == Len(Tx) \in Nat
  BY TxAssumption

\* Every state of stellar-monitor.service.ts has the shape that TypeOK gives.
LEMMA TypeInvStep == TypeInv /\ [Next]_vars => TypeInv'
<1> SUFFICES ASSUME TypeInv, [Next]_vars PROVE TypeInv'
  OBVIOUS
<1> USE LenTx, NoPaymentAssumption, NoWorkerAssumption, MaxCrashAssumption
      DEF TypeInv, TypeOK, CurIsPayment, PC, InTransaction, Row, Status, TxId,
          NoTx, vars, db, world, env, local, Goto, CatchAndAlert
<1>1. ASSUME NEW w \in Worker, PollStart(w) PROVE TypeInv'
  BY <1>1 DEF PollStart
<1>2. ASSUME NEW w \in Worker, ScanNext(w) PROVE TypeInv'
  <2>1. cursor[w] + 1 \in 0..Len(Tx)
    BY <1>2 DEF ScanNext
  <2>2. QED
    BY <1>2, <2>1 DEF ScanNext
<1>3. ASSUME NEW w \in Worker, LookupFails(w) PROVE TypeInv'
  <2>1. cursor[w] + 1 \in 0..Len(Tx)
    BY <1>3 DEF LookupFails
  <2>2. QED
    BY <1>3, <2>1 DEF LookupFails
<1>4. ASSUME NEW w \in Worker, Verify(w) PROVE TypeInv'
  BY <1>4 DEF Verify
<1>5. ASSUME NEW w \in Worker, LockPending(w) PROVE TypeInv'
  <2>1. cur[w] \in Payment
    BY <1>5 DEF LockPending
  <2>2. CASE row[cur[w]].status = "pending"
    <3>1. /\ lock' = [lock EXCEPT ![cur[w]] = w]
          /\ pc' = [pc EXCEPT ![w] = "locked"]
          /\ UNCHANGED <<row, settlements, world, env, local, crashes>>
      BY <1>5, <2>2 DEF LockPending
    <3>2. QED
      BY <2>1, <3>1
  <2>3. CASE row[cur[w]].status # "pending"
    <3>1. /\ pc' = [pc EXCEPT ![w] = "scan"]
          /\ UNCHANGED <<lock, row, settlements, world, env, local, crashes>>
      BY <1>5, <2>3 DEF LockPending
    <3>2. QED
      BY <3>1
  <2>4. QED
    BY <2>2, <2>3
<1>6. ASSUME NEW w \in Worker, InvokeConfirm(w) PROVE TypeInv'
  BY <1>6 DEF InvokeConfirm
<1>7. ASSUME NEW w \in Worker, DispatchConfirmed(w) PROVE TypeInv'
  BY <1>7 DEF DispatchConfirmed
<1>8. ASSUME NEW w \in Worker, CommitConfirmed(w) PROVE TypeInv'
  BY <1>8 DEF CommitConfirmed
<1>9. ASSUME NEW w \in Worker, Rollback(w) PROVE TypeInv'
  <2>1. cur[w] \in Payment
    BY <1>9 DEF Rollback
  <2>2. PICK at \in {"scan", "idle"} : pc' = [pc EXCEPT ![w] = at]
    BY <1>9 DEF Rollback
  <2>3. chain' \in [Payment -> SUBSET {"confirm", "expire"}]
    <3>1. CASE UNCHANGED chain
      BY <3>1
    <3>2. CASE chain' = [chain EXCEPT ![cur[w]] = @ \cup {"confirm"}]
      <4>1. chain[cur[w]] \cup {"confirm"} \in SUBSET {"confirm", "expire"}
        BY <2>1
      <4>2. QED
        BY <3>2, <4>1
    <3>3. QED
      BY <1>9, <3>1, <3>2 DEF Rollback
  <2>4. lock' = [lock EXCEPT ![cur[w]] = NoWorker]
    BY <1>9 DEF Rollback
  <2>5. UNCHANGED <<row, settlements, announced, env, cursor, page, cur, expired,
                   crashes>>
    BY <1>9 DEF Rollback
  <2>6. QED
    BY <2>1, <2>2, <2>3, <2>4, <2>5
<1>10. ASSUME NEW w \in Worker, ReadExpired(w) PROVE TypeInv'
  BY <1>10 DEF ReadExpired
<1>11. ASSUME NEW w \in Worker, InvokeExpire(w) PROVE TypeInv'
  BY <1>11 DEF InvokeExpire
<1>12. ASSUME NEW w \in Worker, InvokeExpireFails(w) PROVE TypeInv'
  <2>1. PICK at \in {"expire", "idle"} : pc' = [pc EXCEPT ![w] = at]
    BY <1>12 DEF InvokeExpireFails
  <2>2. PICK p \in expired[w] :
          /\ expired' = [expired EXCEPT ![w] = @ \ {p}]
          /\ \/ UNCHANGED chain
             \/ chain' = [chain EXCEPT ![p] = @ \cup {"expire"}]
    BY <1>12 DEF InvokeExpireFails
  <2>3. chain' \in [Payment -> SUBSET {"confirm", "expire"}]
    <3>1. p \in Payment /\ chain[p] \cup {"expire"} \in SUBSET {"confirm", "expire"}
      OBVIOUS
    <3>2. QED
      BY <2>2, <3>1
  <2>4. UNCHANGED <<db, announced, env, cursor, page, cur, crashes>>
    BY <1>12 DEF InvokeExpireFails
  <2>5. QED
    BY <2>1, <2>2, <2>3, <2>4
<1>13. ASSUME NEW w \in Worker, SaveExpired(w) PROVE TypeInv'
  <2>1. cur[w] \in Payment
    BY <1>13 DEF SaveExpired
  <2>2. row' \in [Payment -> Row]
    <3>1. PICK r \in Saved([status |-> "pending", txHash |-> NoTx],
                           row[cur[w]], "expired") :
              row' = [row EXCEPT ![cur[w]] = r]
      BY <1>13 DEF SaveExpired
    <3>2. r \in Row
      BY <2>1, <3>1 DEF Saved
    <3>3. QED
      BY <3>1, <3>2
  <2>3. /\ pc' = [pc EXCEPT ![w] = "expired"]
        /\ UNCHANGED <<lock, settlements, world, env, local, crashes>>
    BY <1>13 DEF SaveExpired
  <2>4. QED
    BY <2>1, <2>2, <2>3
<1>14. ASSUME NEW w \in Worker, DispatchExpired(w) PROVE TypeInv'
  BY <1>14 DEF DispatchExpired
<1>15. ASSUME NEW w \in Worker, ExpireFails(w) PROVE TypeInv'
  BY <1>15 DEF ExpireFails
<1>16. ASSUME NEW w \in Worker, ExpireDone(w) PROVE TypeInv'
  BY <1>16 DEF ExpireDone
<1>17. ASSUME NEW w \in Worker, PollDone(w) PROVE TypeInv'
  BY <1>17 DEF PollDone
<1>18. ASSUME NEW w \in Worker, PollFails(w) PROVE TypeInv'
  BY <1>18 DEF PollFails
<1>19. ASSUME NEW w \in Worker, Crash(w) PROVE TypeInv'
  BY <1>19 DEF Crash
<1>20. ASSUME Environment PROVE TypeInv'
  BY <1>20 DEF Environment, HorizonLists, Overdue
<1>21. CASE UNCHANGED vars
  BY <1>21
<1>22. QED
  BY <1>1, <1>2, <1>3, <1>4, <1>5, <1>6, <1>7, <1>8, <1>9, <1>10, <1>11,
     <1>12, <1>13, <1>14, <1>15, <1>16, <1>17, <1>18, <1>19, <1>20, <1>21
     DEF Next, Scan, Handled

\* The state of stellar-monitor.service.ts keeps its shape: in particular every
\* worker that handles a payment has a payment to handle, whatever failed before.
THEOREM TypeCorrect == Spec => []TypeOK
<1>1. Init => TypeInv
  BY LenTx, MaxCrashAssumption
     DEF Init, TypeInv, TypeOK, CurIsPayment, PC, InTransaction, Row, Status,
         NoTx, TxId
<1>2. TypeInv => TypeOK
  BY DEF TypeInv
<1>3. QED
  BY <1>1, <1>2, TypeInvStep, PTL DEF Spec

\* The conjuncts of IInv that speak of more than types.
Safe ==
    /\ TransactionHoldsLock
    /\ LockedIsPending
    /\ PendingIsUnsettled
    /\ InFlightIsBacked
    /\ SettledAtMostOnce
    /\ SettlementIsBacked

\* One step of the job keeps the invariant: the row lock is what keeps the
\* confirmation and the stale save of expireOldPayments apart.
LEMMA SafeStep == TypeInv /\ Safe /\ [Next]_vars => Safe'
<1> SUFFICES ASSUME TypeInv, Safe, [Next]_vars PROVE Safe'
  OBVIOUS
<1> USE NoPaymentAssumption, NoWorkerAssumption
      DEF TypeInv, TypeOK, CurIsPayment, PC, InTransaction, Row, Safe,
          TransactionHoldsLock, LockedIsPending, PendingIsUnsettled,
          InFlightIsBacked, SettledAtMostOnce, SettlementIsBacked,
          vars, db, world, env, local, Goto, CatchAndAlert
<1>1. ASSUME NEW w \in Worker, PollStart(w) PROVE Safe'
  BY <1>1 DEF PollStart
<1>2. ASSUME NEW w \in Worker, ScanNext(w) PROVE Safe'
  <2>1. /\ UNCHANGED <<db, world>>
        /\ pc[w] = "scan"
        /\ \A v \in Worker : v # w => cur'[v] = cur[v] /\ pc'[v] = pc[v]
        /\ pc'[w] \in {"scan", "matched"}
    BY <1>2 DEF ScanNext
  <2>2. QED
    BY <2>1
<1>3. ASSUME NEW w \in Worker, LookupFails(w) PROVE Safe'
  BY <1>3 DEF LookupFails
<1>4. ASSUME NEW w \in Worker, Verify(w) PROVE Safe'
  BY <1>4 DEF Verify
<1>5. ASSUME NEW w \in Worker, InvokeConfirm(w) PROVE Safe'
  BY <1>5 DEF InvokeConfirm
<1>6. ASSUME NEW w \in Worker, DispatchConfirmed(w) PROVE Safe'
  BY <1>6 DEF DispatchConfirmed
<1>7. ASSUME NEW w \in Worker, ReadExpired(w) PROVE Safe'
  BY <1>7 DEF ReadExpired
<1>8. ASSUME NEW w \in Worker, InvokeExpire(w) PROVE Safe'
  BY <1>8 DEF InvokeExpire
<1>9. ASSUME NEW w \in Worker, InvokeExpireFails(w) PROVE Safe'
  <2>1. PICK at \in {"expire", "idle"} : pc' = [pc EXCEPT ![w] = at]
    BY <1>9 DEF InvokeExpireFails
  <2>2. \A p \in Payment : chain[p] \subseteq chain'[p]
    BY <1>9 DEF InvokeExpireFails
  <2>3. pc[w] = "expire" /\ UNCHANGED <<db, announced, cur>>
    BY <1>9 DEF InvokeExpireFails
  <2>4. QED
    BY <2>1, <2>2, <2>3
<1>10. ASSUME NEW w \in Worker, DispatchExpired(w) PROVE Safe'
  BY <1>10 DEF DispatchExpired
<1>11. ASSUME NEW w \in Worker, ExpireFails(w) PROVE Safe'
  BY <1>11 DEF ExpireFails
<1>12. ASSUME NEW w \in Worker, ExpireDone(w) PROVE Safe'
  BY <1>12 DEF ExpireDone
<1>13. ASSUME NEW w \in Worker, PollDone(w) PROVE Safe'
  BY <1>13 DEF PollDone
<1>14. ASSUME NEW w \in Worker, PollFails(w) PROVE Safe'
  BY <1>14 DEF PollFails
<1>15. ASSUME NEW w \in Worker, LockPending(w) PROVE Safe'
  BY <1>15 DEF LockPending
<1>16. ASSUME NEW w \in Worker, CommitConfirmed(w) PROVE Safe'
  BY <1>16 DEF CommitConfirmed
<1>17. ASSUME NEW w \in Worker, Rollback(w) PROVE Safe'
  <2>1. /\ pc'[w] \in {"scan", "idle"}
        /\ \A v \in Worker : v # w => pc'[v] = pc[v]
    BY <1>17 DEF Rollback
  <2>2. \A p \in Payment : chain[p] \subseteq chain'[p]
    <3>1. \/ UNCHANGED chain
          \/ chain' = [chain EXCEPT ![cur[w]] = @ \cup {"confirm"}]
      BY <1>17 DEF Rollback
    <3>2. \A p \in Payment : chain'[p] \in {chain[p], chain[p] \cup {"confirm"}}
      BY <3>1
    <3>3. QED
      BY <3>2
  <2>3. /\ pc[w] \in InTransaction
        /\ lock' = [lock EXCEPT ![cur[w]] = NoWorker]
        /\ UNCHANGED <<row, settlements, announced, cur>>
    BY <1>17 DEF Rollback
  <2>4. TransactionHoldsLock'
    BY <2>1, <2>3
  <2>5. (LockedIsPending /\ PendingIsUnsettled /\ SettledAtMostOnce)'
    BY <2>3
  <2>6. (InFlightIsBacked /\ SettlementIsBacked)'
    BY <2>1, <2>2, <2>3
  <2>7. QED
    BY <2>4, <2>5, <2>6
<1>18. ASSUME NEW w \in Worker, SaveExpired(w) PROVE Safe'
  BY <1>18 DEF SaveExpired, Saved
<1>19. ASSUME NEW w \in Worker, Crash(w) PROVE Safe'
  BY <1>19 DEF Crash
<1>20. ASSUME Environment PROVE Safe'
  BY <1>20 DEF Environment, HorizonLists, Overdue
<1>21. CASE UNCHANGED vars
  BY <1>21
<1>22. QED
  BY <1>1, <1>2, <1>3, <1>4, <1>5, <1>6, <1>7, <1>8, <1>9, <1>10, <1>11, <1>12, <1>13, <1>14, <1>15, <1>16, <1>17, <1>18, <1>19, <1>20, <1>21
     DEF Next, Scan, Handled

\* A payment is settled at most once, and only after the contract call and the
\* webhook (confirmPayment), for any number of replicas and restarts.
THEOREM SettledOnce == Spec => [](SettledAtMostOnce /\ SettlementIsBacked)
<1>1. Init => TypeInv /\ Safe
  BY LenTx, MaxCrashAssumption
     DEF Init, TypeInv, TypeOK, CurIsPayment, PC, InTransaction, Row, Status,
         NoTx, TxId, Safe, TransactionHoldsLock, LockedIsPending,
         PendingIsUnsettled, InFlightIsBacked, SettledAtMostOnce,
         SettlementIsBacked
<1>2. Safe => SettledAtMostOnce /\ SettlementIsBacked
  BY DEF Safe
<1>3. QED
  BY <1>1, <1>2, TypeInvStep, SafeStep, PTL DEF Spec

\* A settled payment had its contract call and its webhook (confirmPayment).
COROLLARY SettlementsBacked == Spec => []SettlementIsBacked
<1>1. SettledAtMostOnce /\ SettlementIsBacked => SettlementIsBacked
  OBVIOUS
<1> QED
  BY <1>1, SettledOnce, PTL

\* No two workers are inside the transaction of confirmPayment for one payment.
THEOREM ConfirmationsExclude == Spec => []OneConfirmation
<1>1. Init => TypeInv /\ Safe
  BY LenTx, MaxCrashAssumption
     DEF Init, TypeInv, TypeOK, CurIsPayment, PC, InTransaction, Row, Status,
         NoTx, TxId, Safe, TransactionHoldsLock, LockedIsPending,
         PendingIsUnsettled, InFlightIsBacked, SettledAtMostOnce,
         SettlementIsBacked
<1>2. Safe => OneConfirmation
  BY DEF Safe, TransactionHoldsLock, OneConfirmation
<1>3. QED
  BY <1>1, <1>2, TypeInvStep, SafeStep, PTL DEF Spec

\* No step, stale saves and rollbacks included, makes a payment pending again.
THEOREM PendingLeftForGood == Spec => PendingIsLeftForGood
<1> DEFINE Keeps == \A p \in Payment :
              row[p].status # "pending" => row'[p].status # "pending"
<1>1. TypeInv /\ [Next]_vars => [Keeps]_vars
  <2> SUFFICES ASSUME TypeInv, Next PROVE Keeps
    OBVIOUS
  <2> USE DEF TypeInv, TypeOK, Row, db
  <2>1. CASE \E w \in Worker : CommitConfirmed(w)
    BY <2>1 DEF CommitConfirmed
  <2>2. CASE \E w \in Worker : SaveExpired(w)
    <3>1. PICK w \in Worker : SaveExpired(w)
      BY <2>2
    <3>2. PICK h : row' = [row EXCEPT ![cur[w]] =
                                        [status |-> "expired", txHash |-> h]]
      BY <3>1 DEF SaveExpired, Saved
    <3>3. QED
      BY <3>2
  <2>3. CASE UNCHANGED row
    BY <2>3
  <2>4. QED
    BY <2>1, <2>2, <2>3
       DEF Next, Scan, Handled, Environment, PollStart, ScanNext, LookupFails,
           Verify, LockPending, InvokeConfirm, DispatchConfirmed, Rollback,
           ReadExpired, InvokeExpire, InvokeExpireFails, DispatchExpired,
           ExpireFails, ExpireDone, PollDone, PollFails, Crash, HorizonLists,
           Overdue
<1>2. Init => TypeInv
  BY LenTx, MaxCrashAssumption
     DEF Init, TypeInv, TypeOK, CurIsPayment, PC, InTransaction, Row, Status,
         NoTx, TxId
<1>3. QED
  BY <1>1, <1>2, TypeInvStep, PTL DEF Spec, PendingIsLeftForGood

-----------------------------------------------------------------------------
OpenPayments == {p \in Payment : row[p].status = "pending"}
BackedPayments ==
    {p \in Payment : "confirm" \in chain[p] /\ "payment.confirmed" \in announced[p]}

\* A step on one open payment that at most backs it.
LEMMA BacksOrStutters ==
    ASSUME NEW p \in OpenPayments, UNCHANGED <<row, settlements>>,
           BackedPayments' \in {BackedPayments, BackedPayments \cup {p}}
    PROVE  [Life!Next]_(Life!lifeVars)
<1>1. CASE BackedPayments' = BackedPayments
  BY <1>1 DEF Life!lifeVars, BackedPayments
<1>2. CASE BackedPayments' = BackedPayments \cup {p}
  <2>1. Life!Back(p)
    BY <1>2 DEF Life!Back, BackedPayments, OpenPayments
  <2> QED BY <2>1 DEF Life!Next, OpenPayments
<1> QED
  BY <1>1, <1>2

\* Every step of the monitor is a step of PaymentLife or changes nothing of it.
LEMMA LifeStep == TypeInv /\ Safe /\ [Next]_vars => [Life!Next]_(Life!lifeVars)
<1> SUFFICES ASSUME TypeInv, Safe, [Next]_vars PROVE [Life!Next]_(Life!lifeVars)
  OBVIOUS
<1>a. row \in [Payment -> Row] /\ settlements \in [Payment -> Nat]
  BY DEF TypeInv, TypeOK
<1>b. chain \in [Payment -> SUBSET {"confirm", "expire"}]
        /\ announced \in [Payment -> SUBSET {"payment.confirmed", "payment.expired"}]
  BY DEF TypeInv, TypeOK
<1>0. ASSUME UNCHANGED <<row, settlements>>, BackedPayments' = BackedPayments
      PROVE  [Life!Next]_(Life!lifeVars)
  BY <1>0 DEF Life!lifeVars, BackedPayments
<1>t. ASSUME NEW w \in Worker, pc[w] \in InTransaction
      PROVE  cur[w] \in OpenPayments /\ settlements[cur[w]] = 0
  BY <1>t, NoWorkerAssumption
     DEF TypeInv, CurIsPayment, Safe, TransactionHoldsLock, LockedIsPending,
         PendingIsUnsettled, OpenPayments
<1>1. ASSUME NEW w \in Worker, CommitConfirmed(w) PROVE Life!Next
  <2> DEFINE p == cur[w]
  <2>1. pc[w] = "announced" /\ pc[w] \in InTransaction
    BY <1>1 DEF CommitConfirmed, Goto, InTransaction
  <2>2. p \in Payment /\ p \in OpenPayments /\ settlements[p] = 0
    BY <2>1, <1>t DEF OpenPayments
  <2>3. p \in BackedPayments
    BY <2>1, <2>2 DEF Safe, InFlightIsBacked, BackedPayments
  <2>4. /\ row' = [row EXCEPT ![p] = [status |-> "confirmed", txHash |-> cursor[w]]]
        /\ settlements' = [settlements EXCEPT ![p] = settlements[p] + 1]
        /\ UNCHANGED <<chain, announced>>
    BY <1>1 DEF CommitConfirmed, world
  <2> HIDE DEF p
  <2>5. OpenPayments' = OpenPayments \ {p}
    BY <1>a, <2>2, <2>4 DEF OpenPayments
  <2>6. settlements' = [settlements EXCEPT ![p] = 1]
    BY <2>2, <2>4
  <2>7. Life!Settle(p)
    BY <2>2, <2>3, <2>4, <2>5, <2>6 DEF Life!Settle, OpenPayments, BackedPayments
  <2> QED BY <2>2, <2>7 DEF Life!Next, Life!Settle
<1>2. ASSUME NEW w \in Worker, SaveExpired(w) PROVE [Life!Next]_(Life!lifeVars)
  <2> DEFINE p == cur[w]
  <2>1. p \in Payment
    BY <1>2 DEF SaveExpired, Goto, TypeInv, CurIsPayment
  <2>2. PICK h : row' = [row EXCEPT ![p] = [status |-> "expired", txHash |-> h]]
    BY <1>2 DEF SaveExpired, Saved
  <2>3. UNCHANGED <<settlements, chain, announced>>
    BY <1>2 DEF SaveExpired, world
  <2> HIDE DEF p
  <2>4. OpenPayments' = OpenPayments \ {p}
    BY <1>a, <2>1, <2>2 DEF OpenPayments
  <2>5. CASE p \in OpenPayments
    <3>1. Life!Close(p)
      BY <2>3, <2>4, <2>5 DEF Life!Close, OpenPayments
    <3> QED BY <2>1, <3>1 DEF Life!Next, Life!Close
  <2>6. CASE p \notin OpenPayments
    <3>1. OpenPayments' = OpenPayments
      BY <2>4, <2>6
    <3> QED BY <2>3, <3>1 DEF Life!lifeVars, OpenPayments
  <2> QED BY <2>5, <2>6
<1>3. ASSUME NEW w \in Worker, InvokeConfirm(w) \/ DispatchConfirmed(w) \/ Rollback(w)
      PROVE  [Life!Next]_(Life!lifeVars)
  <2> DEFINE p == cur[w]
  <2>1. p \in OpenPayments /\ p \in Payment
    BY <1>3, <1>t DEF InvokeConfirm, DispatchConfirmed, Rollback, Goto, InTransaction,
                      OpenPayments
  <2>2. UNCHANGED <<row, settlements>>
    BY <1>3 DEF InvokeConfirm, DispatchConfirmed, Rollback, db
  <2>3. /\ chain' \in {chain, [chain EXCEPT ![p] = chain[p] \cup {"confirm"}]}
        /\ announced' \in {announced, [announced EXCEPT ![p] = announced[p] \cup {"payment.confirmed"}]}
    BY <1>3 DEF InvokeConfirm, DispatchConfirmed, Rollback
  <2> HIDE DEF p
  <2>4. \A q \in Payment : q # p => chain'[q] = chain[q] /\ announced'[q] = announced[q]
    BY <1>b, <2>3
  <2>5. chain[p] \subseteq chain'[p] /\ announced[p] \subseteq announced'[p]
    BY <1>b, <2>1, <2>3
  <2>6. BackedPayments' \in {BackedPayments, BackedPayments \cup {p}}
    BY <2>1, <2>4, <2>5 DEF BackedPayments
  <2> QED BY <2>1, <2>2, <2>6, BacksOrStutters
<1>4. ASSUME NEW w \in Worker, InvokeExpire(w) \/ InvokeExpireFails(w)
      PROVE  [Life!Next]_(Life!lifeVars)
  <2>1. UNCHANGED <<row, settlements, announced>>
    BY <1>4 DEF InvokeExpire, InvokeExpireFails, db
  <2>2. PICK p \in expired[w] : chain' \in {chain, [chain EXCEPT ![p] = chain[p] \cup {"expire"}]}
    BY <1>4 DEF InvokeExpire, InvokeExpireFails
  <2>3. \A q \in Payment : "confirm" \in chain'[q] <=> "confirm" \in chain[q]
    BY <1>b, <2>2
  <2>4. BackedPayments' = BackedPayments
    BY <2>1, <2>3 DEF BackedPayments
  <2> QED BY <1>0, <2>1, <2>4
<1>5. ASSUME NEW w \in Worker, DispatchExpired(w) PROVE [Life!Next]_(Life!lifeVars)
  <2>1. /\ UNCHANGED <<row, settlements, chain>>
        /\ announced' = [announced EXCEPT ![cur[w]] = announced[cur[w]] \cup {"payment.expired"}]
    BY <1>5 DEF DispatchExpired, db
  <2>2. \A q \in Payment : "payment.confirmed" \in announced'[q]
                              <=> "payment.confirmed" \in announced[q]
    BY <1>b, <2>1
  <2>3. BackedPayments' = BackedPayments
    BY <2>1, <2>2 DEF BackedPayments
  <2> QED BY <1>0, <2>1, <2>3
<1>6. ASSUME UNCHANGED <<row, settlements, chain, announced>> PROVE [Life!Next]_(Life!lifeVars)
  BY <1>0, <1>6 DEF BackedPayments
<1>7. ASSUME NEW w \in Worker,
             \/ PollStart(w) \/ ScanNext(w) \/ Verify(w) \/ LockPending(w) \/ ReadExpired(w)
             \/ ExpireDone(w) \/ LookupFails(w) \/ ExpireFails(w) \/ PollFails(w)
             \/ PollDone(w) \/ Crash(w)
      PROVE  [Life!Next]_(Life!lifeVars)
  BY <1>6, <1>7 DEF PollStart, ScanNext, Verify, LockPending, ReadExpired, ExpireDone,
                    LookupFails, ExpireFails, PollFails, PollDone, Crash, db, world
<1>8. ASSUME Environment PROVE [Life!Next]_(Life!lifeVars)
  BY <1>6, <1>8 DEF Environment, HorizonLists, Overdue, db, world
<1>9. CASE UNCHANGED vars
  BY <1>6, <1>9 DEF vars
<1> QED
  BY <1>1, <1>2, <1>3, <1>4, <1>5, <1>7, <1>8, <1>9 DEF Next, Scan, Handled

\* StellarMonitor implements PaymentLife, for any number of replicas, payments,
\* transactions and restarts: each payment is closed once, and settled only by
\* closing it, after its contract call and its webhook (confirmPayment,
\* expireOldPayments).
THEOREM MonitorImplementsLife == Spec => ImplementsLife
<1>1. Init => TypeInv /\ Safe
  BY LenTx, MaxCrashAssumption
     DEF Init, TypeInv, TypeOK, CurIsPayment, PC, InTransaction, Row, Status,
         NoTx, TxId, Safe, TransactionHoldsLock, LockedIsPending,
         PendingIsUnsettled, InFlightIsBacked, SettledAtMostOnce,
         SettlementIsBacked
<1>2. Init => Life!Init
  BY DEF Init, Life!Init
<1>3. QED
  BY <1>1, <1>2, TypeInvStep, SafeStep, LifeStep, PTL DEF Spec, ImplementsLife, Life!Spec

-----------------------------------------------------------------------------
(***************************************************************************)
(* The whole job.  The escrow poll writes a row without looking at its     *)
(* status; what it writes comes from mapTopicToStatus and is never         *)
(* "pending", and the row lock keeps it out of a confirmation.             *)
(***************************************************************************)
EventIds == 1..Len(Event)

\* What a poll has fetched are events of the contract, and what it is about to
\* save is a row it has read, with the status of the event.
InHand(at, fetched, rows) ==
    /\ fetched \in Seq(EventIds)
    /\ at \in {"event", "save"} => rows \in [Payment -> Row]
    /\ at = "save" =>
         /\ fetched # <<>>
         /\ Event[Head(fetched)].topic # "other"
         /\ rows[Event[Head(fetched)].payment].status
              = Escrow!mapTopicToStatus[Event[Head(fetched)].topic]

\* What the escrow part of the job adds to the inductive invariant.
EscrowInv ==
    /\ DOMAIN spc = Worker /\ DOMAIN batch = Worker /\ DOMAIN snap = Worker
    /\ \A w \in Worker : InHand(spc[w], batch[w], snap[w])

\* A set of numbers has a least one.
LEMMA LeastExists ==
    ASSUME NEW S \in SUBSET Nat, S # {}
    PROVE  \E x \in S : \A y \in S : x <= y
<1> DEFINE R == {ss \in Nat \X Nat : ss[1] < ss[2]}
<1>1. IsWellFoundedOn(R, Nat)
  BY NatLessThanWellFounded, Zenon DEF OpToRel
<1>2. PICK x \in S : \A y \in S : <<y, x>> \notin R
  <2> HIDE DEF R
  <2> QED BY <1>1, WFMin
<1>3. \A y \in S : ~(y < x)
  BY <1>2
<1> QED
  BY <1>3

\* A set of numbers up to n has a greatest one.
LEMMA GreatestExists ==
    ASSUME NEW n \in Nat, NEW S \in SUBSET (1..n), S # {}
    PROVE  \E x \in S : \A y \in S : x >= y
<1> DEFINE T == {n - x : x \in S}
<1>1. T \in SUBSET Nat /\ T # {}
  <2>1. PICK x \in S : TRUE
    OBVIOUS
  <2>2. n - x \in T
    OBVIOUS
  <2>3. \A y \in S : n - y \in Nat
    OBVIOUS
  <2> QED BY <2>2, <2>3
<1>2. PICK t \in T : \A u \in T : t <= u
  <2> HIDE DEF T
  <2> QED BY <1>1, LeastExists
<1>3. PICK x \in S : t = n - x
  OBVIOUS
<1>4. \A y \in S : n - y \in T
  OBVIOUS
<1>5. \A y \in S : n - x <= n - y
  BY <1>2, <1>3, <1>4
<1> QED
  BY <1>3, <1>5

\* The events of the contract are counted and typed.
LEMMA EventTypes ==
    /\ Len(Event) \in Nat
    /\ \A e \in EventIds : /\ Event[e].topic \in Escrow!Topic
                           /\ Event[e].payment \in Payment
                           /\ Event[e].ledger \in Nat
<1> DEFINE R == [topic : Escrow!Topic, payment : Payment, ledger : Nat,
                 balance : {"enough", "short"}]
<1>1. Event \in Seq(R)
  BY EscrowAssumption, Zenon
<1>2. Len(Event) \in Nat /\ \A e \in EventIds : Event[e] \in R
  <2> HIDE DEF R
  <2> QED BY <1>1 DEF EventIds
<1> QED
  BY <1>2

\* A page (getEvents) holds events of the contract.
LEMMA PageHoldsEvents ==
    ASSUME NEW from
    PROVE  Escrow!getEvents(from) \in Seq(EventIds)
<1> DEFINE S == Escrow!PublicFrom(from)
           a == Escrow!Min(S)
           b == Escrow!Max(S)
           last == Escrow!Min({b, a + PageLimit - 1})
<1>1. S \in SUBSET (1..Len(Event))
  BY DEF Escrow!PublicFrom, Escrow!EventId
<1>2. CASE S = {}
  BY <1>2 DEF Escrow!getEvents
<1>3. CASE S # {}
  <2>1. a \in 1..Len(Event) /\ b \in 1..Len(Event)
    <3> HIDE DEF S
    <3>1. S \in SUBSET Nat
      BY <1>1
    <3>2. a \in S
      BY <1>3, <3>1, LeastExists DEF Escrow!Min
    <3>3. b \in S
      BY <1>1, <1>3, EventTypes, GreatestExists DEF Escrow!Max
    <3> QED BY <1>1, <3>2, <3>3
  <2> HIDE DEF a, b
  <2>2. last \in Int /\ last <= b
    <3>1. PageLimit \in Nat
      BY EscrowAssumption
    <3>2. \E x \in {b, a + PageLimit - 1} : \A y \in {b, a + PageLimit - 1} : x <= y
      BY <2>1, <3>1
    <3>3. last \in {b, a + PageLimit - 1} /\ \A y \in {b, a + PageLimit - 1} : last <= y
      BY <3>2 DEF Escrow!Min
    <3> QED BY <2>1, <3>1, <3>3
  <2> HIDE DEF last
  <2>3. [i \in 1..(last - a + 1) |-> a + i - 1] \in Seq(EventIds)
    <3>1. \A i \in 1..(last - a + 1) : a + i - 1 \in EventIds
      BY <2>1, <2>2, EventTypes DEF EventIds
    <3>2. CASE last - a + 1 \in Nat
      BY <3>1, <3>2
    <3>3. CASE last - a + 1 \notin Nat
      <4>1. 1..(last - a + 1) = {}
        BY <2>1, <2>2, <3>3
      <4>2. [i \in 1..(last - a + 1) |-> a + i - 1] = <<>>
        BY <4>1
      <4>3. <<>> \in Seq(EventIds)
        OBVIOUS
      <4> QED BY <4>2, <4>3, Zenon
    <3> QED BY <3>2, <3>3
  <2> QED BY <1>3, <2>3 DEF Escrow!getEvents, S, a, b, last
<1> QED
  BY <1>2, <1>3

\* An escrow poll that is about to save has an event with a status.
LEMMA HeadHasStatus ==
    ASSUME EscrowInv, NEW w \in Worker, spc[w] = "save"
    PROVE  /\ batch[w] \in Seq(EventIds) /\ batch[w] # <<>>
           /\ Head(batch[w]) \in EventIds
           /\ Event[Head(batch[w])].payment \in Payment
           /\ snap[w] \in [Payment -> Row]
           /\ snap[w][Event[Head(batch[w])].payment].status \in Status \ {"pending"}
<1>1. /\ batch[w] \in Seq(EventIds) /\ batch[w] # <<>>
      /\ snap[w] \in [Payment -> Row]
      /\ Event[Head(batch[w])].topic # "other"
      /\ snap[w][Event[Head(batch[w])].payment].status
           = Escrow!mapTopicToStatus[Event[Head(batch[w])].topic]
  BY DEF EscrowInv, InHand
<1>2. Head(batch[w]) \in EventIds
  BY <1>1
<1>3. Event[Head(batch[w])].topic \in Escrow!Topic \ {"other"}
        /\ Event[Head(batch[w])].payment \in Payment
  BY <1>1, <1>2, EventTypes
<1>4. \A t \in Escrow!Topic \ {"other"} : Escrow!mapTopicToStatus[t] \in Status \ {"pending"}
  BY DEF Escrow!Topic, Escrow!mapTopicToStatus, Status
<1> QED
  BY <1>1, <1>2, <1>3, <1>4

\* The escrow monitor writes one row of the table, under no lock of another
\* worker, with a status that is not "pending".
EscrowWrites ==
    \E p \in Payment, r \in Row :
        /\ row' = [row EXCEPT ![p] = r]
        /\ r.status # "pending"
        /\ row' = row \/ lock[p] = NoWorker
        /\ UNCHANGED scanOnly

\* Every step of the job is a step of the scan, or the escrow monitor's write.
LEMMA JobStepKinds ==
    ASSUME TypeInv, EscrowInv, [JobNext]_jobVars
    PROVE  [Next]_vars \/ EscrowWrites
<1>1. ASSUME NEW w \in Worker, ScanStep(w) \/ JobDone(w) \/ JobCrash(w) PROVE Next
  BY <1>1 DEF ScanStep, JobDone, JobCrash, Next
<1>2. ASSUME UNCHANGED row, UNCHANGED scanOnly PROVE UNCHANGED vars
  BY <1>2 DEF scanOnly, vars
<1>3. CASE JobWorld
  BY <1>2, <1>3 DEF JobWorld, Escrow!CloseLedger, Next
<1>4. CASE UNCHANGED jobVars
  BY <1>2, <1>4 DEF jobVars
<1>5. ASSUME NEW w \in Worker, EscrowStep(w) PROVE UNCHANGED vars \/ EscrowWrites
  <2>1. CASE spc[w] = "save" /\ Escrow!WriteRow(w)
    <3> DEFINE p == Event[Head(batch[w])].payment
    <3>1. spc[w] = "save"
      BY <2>1
    <3>2. p \in Payment /\ snap[w] \in [Payment -> Row]
            /\ snap[w][p].status \in Status \ {"pending"}
      BY <3>1, HeadHasStatus
    <3>3. PICK r \in Escrow!Saved(snap[w][p], row[p], snap[w][p].status) :
              row' = [row EXCEPT ![p] = r]
      BY <2>1 DEF Escrow!WriteRow
    <3> HIDE DEF p
    <3>4. r \in Row /\ r.status # "pending"
      BY <3>2, <3>3 DEF Escrow!Saved, Row, TypeInv, TypeOK
    <3>5. UNCHANGED scanOnly /\ (row'[p] # row[p] => lock[p] = NoWorker)
      BY <1>5, <3>2 DEF EscrowStep
    <3>6. row'[p] = row[p] => row' = row
      BY <3>2, <3>3 DEF TypeInv, TypeOK
    <3> QED BY <3>2, <3>3, <3>4, <3>5, <3>6 DEF EscrowWrites
  <2>2. CASE ~(spc[w] = "save" /\ Escrow!WriteRow(w))
    <3>1. ~Escrow!SaveEvent(w)
      BY <2>2 DEF Escrow!SaveEvent, Escrow!Goto
    <3>2. ASSUME Escrow!PollRejects(w) PROVE UNCHANGED row
      BY <2>2, <3>2 DEF Escrow!PollRejects, Escrow!SaveFails, Escrow!Goto, Escrow!LoadFails,
           Escrow!PersistFails, Escrow!FindFails, Escrow!AlertFails
    <3>3. ASSUME Escrow!LoadState(w) PROVE UNCHANGED row
      BY <3>3 DEF Escrow!LoadState
    <3>4. ASSUME Escrow!PollStep(w) PROVE UNCHANGED row
      BY <3>1, <3>4 DEF Escrow!PollStep,
           Escrow!FetchEvents, Escrow!FetchNothing, Escrow!PersistCursor, Escrow!ReadPayments,
           Escrow!SkipEvent, Escrow!MatchEvent, Escrow!PersistIds
    <3>5. UNCHANGED row
      BY <1>5, <3>2, <3>3, <3>4 DEF EscrowStep
    <3> QED BY <1>2, <1>5, <3>5 DEF EscrowStep
  <2> QED BY <2>1, <2>2
<1> QED
  BY <1>1, <1>3, <1>4, <1>5 DEF JobNext

\* The escrow monitor's write keeps the invariant of the scan, and it closes an
\* open payment or changes nothing of a life.
LEMMA EscrowWriteIsSafe ==
    ASSUME TypeInv, Safe, EscrowWrites
    PROVE  TypeInv' /\ Safe' /\ [Life!Next]_(Life!lifeVars)
<1>1. PICK p \in Payment, r \in Row :
        /\ row' = [row EXCEPT ![p] = r]
        /\ r.status # "pending"
        /\ row' = row \/ lock[p] = NoWorker
        /\ UNCHANGED scanOnly
  BY DEF EscrowWrites
<1>a. row \in [Payment -> Row]
  BY DEF TypeInv, TypeOK
<1>2. row' \in [Payment -> Row]
  BY <1>1, <1>a
<1>3. TypeInv'
  BY <1>1, <1>2 DEF TypeInv, TypeOK, CurIsPayment, scanOnly
<1>4. \A q \in Payment : row'[q].status = "pending" => row[q].status = "pending"
  BY <1>1, <1>a
<1>5. \A q \in Payment : lock[q] # NoWorker => row'[q] = row[q]
  BY <1>1, <1>a
<1>6. Safe'
  BY <1>1, <1>4, <1>5
     DEF Safe, TransactionHoldsLock, LockedIsPending, PendingIsUnsettled,
         InFlightIsBacked, SettledAtMostOnce, SettlementIsBacked, scanOnly
<1>7. UNCHANGED <<settlements, chain, announced>>
  BY <1>1 DEF scanOnly
<1>8. OpenPayments' = OpenPayments \ {p}
  BY <1>1, <1>a DEF OpenPayments
<1>9. CASE p \in OpenPayments
  <2>1. Life!Close(p)
    BY <1>7, <1>8, <1>9 DEF Life!Close, OpenPayments
  <2> QED BY <1>3, <1>6, <2>1 DEF Life!Next
<1>10. CASE p \notin OpenPayments
  <2>1. OpenPayments' = OpenPayments
    BY <1>8, <1>10
  <2> QED BY <1>3, <1>6, <1>7, <2>1 DEF Life!lifeVars, OpenPayments
<1> QED
  BY <1>9, <1>10

\* A step of the poll of one worker.
LEMMA OnePollMoves ==
    ASSUME EscrowInv, NEW w \in Worker,
           \/ UNCHANGED spc
           \/ \E at : spc' = [spc EXCEPT ![w] = at],
           \/ UNCHANGED batch
           \/ \E fetched : batch' = [batch EXCEPT ![w] = fetched],
           \/ UNCHANGED snap
           \/ \E rows : snap' = [snap EXCEPT ![w] = rows],
           InHand(spc'[w], batch'[w], snap'[w])
    PROVE  EscrowInv'
<1>1. DOMAIN spc' = Worker /\ \A v \in Worker : v # w => spc'[v] = spc[v]
  BY DEF EscrowInv
<1>2. DOMAIN batch' = Worker /\ \A v \in Worker : v # w => batch'[v] = batch[v]
  BY DEF EscrowInv
<1>3. DOMAIN snap' = Worker /\ \A v \in Worker : v # w => snap'[v] = snap[v]
  BY DEF EscrowInv
<1>4. \A v \in Worker : InHand(spc'[v], batch'[v], snap'[v])
  BY <1>1, <1>2, <1>3 DEF EscrowInv
<1> QED
  BY <1>1, <1>2, <1>3, <1>4 DEF EscrowInv, InHand

\* Every step of the job keeps what the escrow poll has in hand.
LEMMA EscrowInvStep ==
    ASSUME TypeInv, EscrowInv, [JobNext]_jobVars
    PROVE  EscrowInv'
<1> USE DEF Escrow!Goto
<1>0. DOMAIN spc = Worker /\ DOMAIN batch = Worker /\ DOMAIN snap = Worker
  BY DEF EscrowInv
<1>1. ASSUME UNCHANGED <<spc, batch, snap>> PROVE EscrowInv'
  BY <1>1 DEF EscrowInv, InHand
<1>2. ASSUME NEW w \in Worker, NEW at \in {"idle", "fetch", "persist", "read", "done"},
             spc' = [spc EXCEPT ![w] = at], batch'[w] \in Seq(EventIds),
             \/ UNCHANGED batch
             \/ \E fetched : batch' = [batch EXCEPT ![w] = fetched],
             \/ UNCHANGED snap
             \/ \E rows : snap' = [snap EXCEPT ![w] = rows]
      PROVE  EscrowInv'
  <2>1. InHand(spc'[w], batch'[w], snap'[w])
    BY <1>0, <1>2 DEF InHand
  <2> QED BY <1>2, <2>1, OnePollMoves
<1>3. \A w \in Worker : batch[w] \in Seq(EventIds)
  BY DEF EscrowInv, InHand
<1>4. ASSUME NEW w \in Worker,
             \/ Escrow!LoadState(w) \/ Escrow!FetchNothing(w) \/ Escrow!PersistCursor(w)
             \/ Escrow!PersistIds(w) \/ Escrow!PollReturns(w)
             \/ Escrow!LoadFails(w) \/ Escrow!PersistFails(w)
      PROVE  EscrowInv'
  BY <1>2, <1>3, <1>4 DEF Escrow!LoadState, Escrow!FetchNothing, Escrow!PersistCursor,
                          Escrow!PersistIds, Escrow!PollReturns, Escrow!LoadFails,
                          Escrow!PersistFails
<1>5. ASSUME NEW w \in Worker, Escrow!FetchEvents(w) PROVE EscrowInv'
  <2>1. batch'[w] \in Seq(EventIds)
    BY <1>0, <1>5, PageHoldsEvents DEF Escrow!FetchEvents
  <2> QED BY <1>2, <1>5, <2>1 DEF Escrow!FetchEvents
<1>6. ASSUME NEW w \in Worker,
             \/ Escrow!SaveFails(w) \/ Escrow!FindFails(w) \/ Escrow!AlertFails(w)
             \/ Escrow!Restart(w)
      PROVE  EscrowInv'
  <2>1. batch'[w] = <<>>
    BY <1>0, <1>6 DEF Escrow!SaveFails, Escrow!FindFails, Escrow!AlertFails, Escrow!Restart
  <2>2. <<>> \in Seq(EventIds)
    OBVIOUS
  <2>3. batch'[w] \in Seq(EventIds)
    BY <2>1, <2>2, Zenon
  <2> QED BY <1>2, <1>6, <2>3 DEF Escrow!SaveFails, Escrow!FindFails, Escrow!AlertFails,
                                  Escrow!Restart
<1>7. ASSUME NEW w \in Worker, Escrow!ReadPayments(w) PROVE EscrowInv'
  <2>1. spc'[w] = "event" /\ batch'[w] = batch[w] /\ snap'[w] = row
    BY <1>0, <1>7 DEF Escrow!ReadPayments
  <2>2. InHand(spc'[w], batch'[w], snap'[w])
    BY <1>3, <2>1 DEF InHand, TypeInv, TypeOK
  <2> QED BY <1>7, <2>2, OnePollMoves DEF Escrow!ReadPayments
<1>8. ASSUME NEW w \in Worker, Escrow!SkipEvent(w) \/ Escrow!SaveEvent(w) PROVE EscrowInv'
  <2>1. /\ batch[w] \in Seq(EventIds) /\ spc[w] \in {"event", "save"}
        /\ batch[w] # <<>> /\ snap[w] \in [Payment -> Row]
    BY <1>8 DEF Escrow!SkipEvent, Escrow!SaveEvent, EscrowInv, InHand
  <2>2. spc'[w] = "event" /\ batch'[w] = Tail(batch[w]) /\ snap'[w] = snap[w]
    BY <1>0, <1>8 DEF Escrow!SkipEvent, Escrow!SaveEvent
  <2>3. Tail(batch[w]) \in Seq(EventIds)
    BY <2>1
  <2>4. InHand(spc'[w], batch'[w], snap'[w])
    BY <2>1, <2>2, <2>3 DEF InHand
  <2> QED BY <1>8, <2>4, OnePollMoves DEF Escrow!SkipEvent, Escrow!SaveEvent
<1>9. ASSUME NEW w \in Worker, Escrow!MatchEvent(w) PROVE EscrowInv'
  <2> DEFINE e == Head(batch[w])
             q == Event[e].payment
             t == Escrow!mapTopicToStatus[Event[e].topic]
  <2>1. /\ batch[w] \in Seq(EventIds) /\ batch[w] # <<>>
        /\ spc' = [spc EXCEPT ![w] = "save"]
        /\ snap' = [snap EXCEPT ![w][q].status = t]
        /\ snap[w] \in [Payment -> Row]
        /\ Event[e].topic # "other" /\ UNCHANGED batch
    BY <1>9 DEF Escrow!MatchEvent, EscrowInv, InHand
  <2>2. e \in EventIds
    BY <2>1
  <2>3. q \in Payment /\ Event[e].topic \in Escrow!Topic \ {"other"}
    BY <2>1, <2>2, EventTypes
  <2>4. t \in Status
    BY <2>3 DEF Escrow!Topic, Escrow!mapTopicToStatus, Status
  <2> HIDE DEF q, t, e
  <2>5. snap' = [snap EXCEPT ![w] = [snap[w] EXCEPT ![q] = [snap[w][q] EXCEPT !.status = t]]]
    BY <2>1
  <2>6. [snap[w][q] EXCEPT !.status = t] \in Row /\ [snap[w][q] EXCEPT !.status = t].status = t
    BY <2>1, <2>3, <2>4 DEF Row
  <2>7. snap'[w] \in [Payment -> Row] /\ snap'[w][q].status = t
    BY <1>0, <2>1, <2>3, <2>5, <2>6
  <2>8. spc'[w] = "save" /\ batch'[w] = batch[w]
    BY <1>0, <2>1
  <2>9. InHand(spc'[w], batch'[w], snap'[w])
    BY <2>1, <2>7, <2>8 DEF InHand, q, t, e
  <2> QED BY <2>1, <2>5, <2>9, OnePollMoves
<1>10. ASSUME NEW w \in Worker, EscrowStep(w) PROVE EscrowInv'
  BY <1>4, <1>5, <1>6, <1>7, <1>8, <1>9, <1>10
     DEF EscrowStep, Escrow!PollStep, Escrow!PollRejects
<1>11. CASE JobWorld \/ UNCHANGED jobVars
  BY <1>1, <1>11 DEF JobWorld, Escrow!CloseLedger, jobVars, escrowOnly
<1> QED
  BY <1>1, <1>4, <1>6, <1>10, <1>11 DEF JobNext, ScanStep, JobDone, JobCrash, escrowOnly

\* The invariant of the whole job holds at the start.
LEMMA JobInitSafe == JobInit => TypeInv /\ Safe /\ EscrowInv
<1> SUFFICES ASSUME JobInit PROVE TypeInv /\ Safe /\ EscrowInv
  OBVIOUS
<1>1. TypeInv /\ Safe
  BY LenTx, MaxCrashAssumption
     DEF JobInit, Init, TypeInv, TypeOK, CurIsPayment, PC, InTransaction, Row, Status,
         NoTx, TxId, Safe, TransactionHoldsLock, LockedIsPending,
         PendingIsUnsettled, InFlightIsBacked, SettledAtMostOnce,
         SettlementIsBacked
<1>2. <<>> \in Seq(EventIds)
  OBVIOUS
<1>3. EscrowInv
  BY <1>2 DEF JobInit, Escrow!InitMonitor, EscrowInv, InHand
<1> QED BY <1>1, <1>3

\* The whole job implements PaymentLife, for any number of replicas, payments,
\* transactions, escrow events and restarts, any page limit and any window:
\* pollEscrowEvents writes the rows that confirmPayment and expireOldPayments
\* handle without a lock of its own and without reading them again, and still no
\* payment is settled twice, after it was closed, or before its contract call and
\* its webhook, and none is open again.
THEOREM JobImplementsLife == JobSpec => ImplementsLife
<1>1. TypeInv /\ Safe /\ EscrowInv /\ [JobNext]_jobVars
        => /\ (TypeInv /\ Safe /\ EscrowInv)'
           /\ [Life!Next]_(Life!lifeVars)
  BY JobStepKinds, EscrowWriteIsSafe, EscrowInvStep, TypeInvStep, SafeStep, LifeStep
<1>2. JobInit => Life!Init
  BY DEF JobInit, Init, Life!Init
<1> QED
  BY JobInitSafe, <1>1, <1>2, PTL DEF JobSpec, ImplementsLife, Life!Spec

\* With the escrow monitor on the same table a payment is still settled at most
\* once, after its contract call and its webhook, by no two workers at a time.
THEOREM JobSettlesOnce ==
    JobSpec => [](SettledAtMostOnce /\ SettlementIsBacked /\ OneConfirmation)
<1>1. TypeInv /\ Safe /\ EscrowInv /\ [JobNext]_jobVars => (TypeInv /\ Safe /\ EscrowInv)'
  BY JobStepKinds, EscrowWriteIsSafe, EscrowInvStep, TypeInvStep, SafeStep
<1>2. Safe => SettledAtMostOnce /\ SettlementIsBacked /\ OneConfirmation
  BY DEF Safe, TransactionHoldsLock, OneConfirmation
<1> QED
  BY JobInitSafe, <1>1, <1>2, PTL DEF JobSpec
=============================================================================
