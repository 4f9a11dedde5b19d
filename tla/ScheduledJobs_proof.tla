------------------------- MODULE ScheduledJobs_proof -------------------------
(***************************************************************************)
(* Proofs about RecurringPayments, for any number of subscriptions,        *)
(* overlapping runs, cycles, failures, crashes and cancellations, and      *)
(* about CronJob, which runs its jobs.                                     *)
(***************************************************************************)
EXTENDS RecurringPayments, CronJob, TLAPS

Claiming(c) == cpc[c] \in Claimed

\* Charge times start at day 1; a subscription that is not there has none.
StartsAtOne ==
    \A s \in Sub :
        /\ status[s] = "absent" <=> next[s] = 0
        /\ \A e \in entity[s] : e.next # 0
        /\ status[s] = "absent" => entity[s] = {}

\* A run only holds rows that are there.
RowsExist ==
    /\ \A c \in Charger : \A x \in due[c] : status[x.sub] # "absent"
    /\ \A c \in Charger : Claiming(c) => status[claim[c].sub] # "absent"

\* What type correctness needs besides TypeOK.
TypeInv == TypeOK /\ StartsAtOne /\ RowsExist

\* A claimed cycle lies behind nextChargeAt, no other run has claimed it, and it
\* has no payment until create is called for it.
ClaimIsFresh ==
    \A c \in Charger :
        Claiming(c) /\ rewinds[claim[c].sub] = 0 =>
            /\ cpc[c] = "create" => charges[claim[c].sub][claim[c].at] = 0
            /\ next[claim[c].sub] > claim[c].at
            /\ \A d \in Charger : d # c /\ Claiming(d) => claim[d] # claim[c]

\* A charged cycle lies behind nextChargeAt.
ChargedIsBehind ==
    \A s \in Sub, t \in Day :
        rewinds[s] = 0 /\ charges[s][t] > 0 => charges[s][t] = 1 /\ next[s] > t

Exclusive == ClaimIsFresh /\ ChargedIsBehind

\* A notice was queued for every charge time the table, a stale copy of a row
\* or a run holds as notified.
MarkIsBacked ==
    /\ \A s \in Sub :
         /\ notified[s] # 0 => notified[s] \in ChargeTime /\ notified[s] \in emails[s]
         /\ \A e \in entity[s] :
              e.notified # 0 => e.notified \in ChargeTime /\ e.notified \in emails[s]
    /\ \A n \in Notifier : npc[n] = "mark" => notice[n].at \in emails[notice[n].sub]

ChargeIsBacked ==
    /\ \A c \in Charger : \A x \in due[c] : x.at \in emails[x.sub]
    /\ \A c \in Charger : Claiming(c) => claim[c].at \in emails[claim[c].sub]
    /\ NotifiedBeforeCharged

Backed == MarkIsBacked /\ ChargeIsBacked

-----------------------------------------------------------------------------
\* Every step of the two jobs and of the requests keeps the state in shape.
LEMMA TypeInvStep == TypeInv /\ [Next]_vars => TypeInv'
<1> SUFFICES ASSUME TypeInv, [Next]_vars PROVE TypeInv'
  OBVIOUS
<1> USE RecurringAssumption
      DEF TypeInv, TypeOK, table, charger, notifier, history, budget
<1>1. ASSUME NEW s \in Sub, NEW at \in Day, Create(s, at)
      PROVE  TypeInv'
  <2>1. TableOK'
    BY <1>1 DEF Create, TableOK, ChargerOK, NotifierOK, Claimed, Day,
       ChargeTime
  <2>2. StartsAtOne'
    BY <1>1 DEF Create, TableOK, ChargerOK, StartsAtOne, RowsExist,
       Claiming, Claimed, Day
  <2>3. RowsExist'
    BY <1>1 DEF Create, TableOK, ChargerOK, StartsAtOne, RowsExist,
       Claiming, Claimed, Day
  <2>4. QED
    BY <1>1, <2>1, <2>2, <2>3 DEF Create, ChargerOK, NotifierOK,
       HistoryOK, Claimed
<1>2. ASSUME NEW s \in Sub, CancelRead(s)
      PROVE  TypeInv'
  <2>1. TableOK'
    BY <1>2 DEF CancelRead, TableOK, ChargerOK, NotifierOK, Claimed, Day,
       ChargeTime
  <2>2. HistoryOK'
    BY <1>2 DEF CancelRead, ChargerOK, NotifierOK, HistoryOK, Claimed
  <2>3. StartsAtOne'
    BY <1>2 DEF CancelRead, TableOK, ChargerOK, StartsAtOne, RowsExist,
       Claiming, Claimed, Day
  <2>4. QED
    BY <1>2, <2>1, <2>2, <2>3 DEF CancelRead, ChargerOK, NotifierOK,
       RowsExist, Claimed, Claiming
<1>3. ASSUME NEW s \in Sub, NEW e \in entity[s], CancelSave(s, e)
      PROVE  TypeInv'
  <2>1. TableOK'
    BY <1>3 DEF CancelSave, TableOK, ChargerOK, NotifierOK, Claimed, Day,
       ChargeTime
  <2>2. HistoryOK'
    BY <1>3 DEF CancelSave, ChargerOK, NotifierOK, HistoryOK, Claimed
  <2>3. StartsAtOne'
    BY <1>3 DEF CancelSave, TableOK, ChargerOK, StartsAtOne, RowsExist,
       Claiming, Claimed, Day
  <2>4. RowsExist'
    BY <1>3 DEF CancelSave, TableOK, ChargerOK, StartsAtOne, RowsExist,
       Claiming, Claimed, Day
  <2>5. QED
    BY <1>3, <2>1, <2>2, <2>3, <2>4 DEF CancelSave, ChargerOK, NotifierOK,
       Claimed
<1>4. ASSUME NEW n \in Notifier, NotifyRead(n)
      PROVE  TypeInv'
  <2>1. NotifierOK'
    BY <1>4 DEF NotifyRead, TableOK, NotifierOK, StartsAtOne, ChargeTime
  <2>2. QED
    BY <1>4, <2>1 DEF NotifyRead, TableOK, ChargerOK, HistoryOK,
       StartsAtOne, RowsExist, Claimed, Claiming
<1>5. ASSUME NEW n \in Notifier, NEW x \in upcoming[n], QueueNotice(n, x)
      PROVE  TypeInv'
  <2>1. NotifierOK'
    BY <1>5 DEF QueueNotice, TableOK, NotifierOK, StartsAtOne, ChargeTime
  <2>2. HistoryOK'
    BY <1>5 DEF QueueNotice, ChargerOK, NotifierOK, HistoryOK, Claimed
  <2>3. QED
    BY <1>5, <2>1, <2>2 DEF QueueNotice, TableOK, ChargerOK, StartsAtOne,
       RowsExist, Claimed, Claiming
<1>6. ASSUME NEW n \in Notifier, NEW x \in upcoming[n], QueueNoticeFails(n, x)
      PROVE  TypeInv'
  <2>1. NotifierOK'
    BY <1>6 DEF QueueNoticeFails, Fault, TableOK, NotifierOK, StartsAtOne,
       ChargeTime
  <2>2. HistoryOK'
    BY <1>6 DEF QueueNoticeFails, Fault, ChargerOK, NotifierOK, HistoryOK,
       Claimed
  <2>3. QED
    BY <1>6, <2>1, <2>2 DEF QueueNoticeFails, Fault, TableOK, ChargerOK,
       StartsAtOne, RowsExist, Claimed, Claiming
<1>7. ASSUME NEW n \in Notifier, MarkNotified(n)
      PROVE  TypeInv'
  <2>1. TableOK'
    BY <1>7 DEF MarkNotified, TableOK, ChargerOK, NotifierOK, Claimed,
       Day, ChargeTime
  <2>2. NotifierOK'
    BY <1>7 DEF MarkNotified, TableOK, NotifierOK, StartsAtOne, ChargeTime
  <2>3. QED
    BY <1>7, <2>1, <2>2 DEF MarkNotified, ChargerOK, HistoryOK,
       StartsAtOne, RowsExist, Claimed, Claiming
<1>8. ASSUME NEW n \in Notifier, MarkNotifiedFails(n)
      PROVE  TypeInv'
  <2>1. NotifierOK'
    BY <1>8 DEF MarkNotifiedFails, Fault, TableOK, NotifierOK,
       StartsAtOne, ChargeTime
  <2>2. HistoryOK'
    BY <1>8 DEF MarkNotifiedFails, Fault, ChargerOK, NotifierOK,
       HistoryOK, Claimed
  <2>3. TableOK'
    BY <1>8 DEF MarkNotifiedFails, Fault, TableOK, NotifierOK, ChargeTime
  <2>4. QED
    BY <1>8, <2>1, <2>2, <2>3 DEF MarkNotifiedFails, Fault, ChargerOK,
       StartsAtOne, RowsExist, Claimed, Claiming
<1>9. ASSUME NEW n \in Notifier, NotifyDone(n)
      PROVE  TypeInv'
  <2>1. NotifierOK'
    BY <1>9 DEF NotifyDone, TableOK, NotifierOK, StartsAtOne, ChargeTime
  <2>2. QED
    BY <1>9, <2>1 DEF NotifyDone, TableOK, ChargerOK, HistoryOK,
       StartsAtOne, RowsExist, Claimed, Claiming
<1>10. ASSUME NEW c \in Charger, ChargeRead(c)
      PROVE  TypeInv'
  <2>1. ChargerOK'
    BY <1>10 DEF ChargeRead, IsDue, TableOK, ChargerOK, StartsAtOne,
       Claimed, Day
  <2>2. RowsExist'
    BY <1>10 DEF ChargeRead, IsDue, TableOK, ChargerOK, StartsAtOne,
       RowsExist, Claiming, Claimed, Day
  <2>3. QED
    BY <1>10, <2>1, <2>2 DEF ChargeRead, IsDue, TableOK, NotifierOK,
       HistoryOK, StartsAtOne
<1>11. ASSUME NEW c \in Charger, NEW x \in due[c], Claim(c, x)
      PROVE  TypeInv'
  <2>1. TableOK'
    BY <1>11 DEF Claim, TableOK, ChargerOK, NotifierOK, Claimed, Day,
       ChargeTime
  <2>2. ChargerOK'
    BY <1>11 DEF Claim, TableOK, ChargerOK, StartsAtOne, Claimed, Day
  <2>3. StartsAtOne'
    BY <1>11 DEF Claim, TableOK, ChargerOK, StartsAtOne, RowsExist,
       Claiming, Claimed, Day
  <2>4. RowsExist'
    BY <1>11 DEF Claim, TableOK, ChargerOK, StartsAtOne, RowsExist,
       Claiming, Claimed, Day
  <2>5. QED
    BY <1>11, <2>1, <2>2, <2>3, <2>4 DEF Claim, NotifierOK, HistoryOK
<1>12. ASSUME NEW c \in Charger, NEW x \in due[c], ClaimLost(c, x)
      PROVE  TypeInv'
  <2>1. ChargerOK'
    BY <1>12 DEF ClaimLost, TableOK, ChargerOK, StartsAtOne, Claimed, Day
  <2>2. RowsExist'
    BY <1>12 DEF ClaimLost, TableOK, ChargerOK, StartsAtOne, RowsExist,
       Claiming, Claimed, Day
  <2>3. QED
    BY <1>12, <2>1, <2>2 DEF ClaimLost, TableOK, NotifierOK, HistoryOK,
       StartsAtOne
<1>13. ASSUME NEW c \in Charger, CreatePayment(c)
      PROVE  TypeInv'
  <2>1. ChargerOK'
    BY <1>13 DEF CreatePayment, TableOK, ChargerOK, StartsAtOne, Claimed,
       Day
  <2>2. HistoryOK'
    BY <1>13 DEF CreatePayment, ChargerOK, NotifierOK, HistoryOK, Claimed
  <2>3. RowsExist'
    BY <1>13 DEF CreatePayment, TableOK, ChargerOK, StartsAtOne,
       RowsExist, Claiming, Claimed, Day
  <2>4. QED
    BY <1>13, <2>1, <2>2, <2>3 DEF CreatePayment, TableOK, NotifierOK,
       StartsAtOne
<1>14. ASSUME NEW c \in Charger, CreatePaymentFails(c)
      PROVE  TypeInv'
  <2>1. ChargerOK'
    BY <1>14 DEF CreatePaymentFails, Fault, TableOK, ChargerOK,
       StartsAtOne, Claimed, Day
  <2>2. HistoryOK'
    BY <1>14 DEF CreatePaymentFails, Fault, ChargerOK, NotifierOK,
       HistoryOK, Claimed
  <2>3. RowsExist'
    BY <1>14 DEF CreatePaymentFails, Fault, TableOK, ChargerOK,
       StartsAtOne, RowsExist, Claiming, Claimed, Day
  <2>4. QED
    BY <1>14, <2>1, <2>2, <2>3 DEF CreatePaymentFails, Fault, TableOK,
       NotifierOK, StartsAtOne
<1>15. ASSUME NEW c \in Charger, Release(c)
      PROVE  TypeInv'
  <2>1. /\ claim[c] \in [sub : Sub, at : Day] /\ claim[c].at \in Nat \ {0}
        /\ status[claim[c].sub] # "absent" /\ next[claim[c].sub] \in Nat \ {0}
    BY <1>15 DEF Release, TableOK, ChargerOK, StartsAtOne, RowsExist, Claiming,
       Claimed, Day
  <2>2. \A t \in next[claim[c].sub]..(claim[c].at - 1) : t \in Day
    BY <2>1 DEF Day
  <2>3. TableOK'
    BY <1>15, <2>1 DEF Release, WriteBack, TableOK
  <2>4. ChargerOK'
    BY <1>15, <2>1 DEF Release, WriteBack, ChargerOK, Claimed
  <2>5. HistoryOK'
    BY <1>15, <2>1, <2>2 DEF Release, WriteBack, HistoryOK
  <2>6. StartsAtOne'
    BY <1>15, <2>1 DEF Release, WriteBack, TableOK, StartsAtOne
  <2>7. RowsExist'
    BY <1>15, <2>1 DEF Release, WriteBack, ChargerOK, RowsExist,
       Claiming, Claimed
  <2>8. QED
    BY <1>15, <2>3, <2>4, <2>5, <2>6, <2>7 DEF Release, NotifierOK
<1>16. ASSUME NEW c \in Charger, ReleaseFails(c)
      PROVE  TypeInv'
  <2>1. /\ claim[c] \in [sub : Sub, at : Day] /\ claim[c].at \in Nat \ {0}
        /\ status[claim[c].sub] # "absent" /\ next[claim[c].sub] \in Nat \ {0}
    BY <1>16 DEF ReleaseFails, Fault, TableOK, ChargerOK, StartsAtOne, RowsExist, Claiming,
       Claimed, Day
  <2>2. \A t \in next[claim[c].sub]..(claim[c].at - 1) : t \in Day
    BY <2>1 DEF Day
  <2>3. TableOK'
    BY <1>16, <2>1 DEF ReleaseFails, Fault, WriteBack, TableOK
  <2>4. ChargerOK'
    BY <1>16, <2>1 DEF ReleaseFails, Fault, WriteBack, ChargerOK, Claimed
  <2>5. HistoryOK'
    BY <1>16, <2>1, <2>2 DEF ReleaseFails, Fault, WriteBack, HistoryOK
  <2>6. StartsAtOne'
    BY <1>16, <2>1 DEF ReleaseFails, Fault, WriteBack, TableOK, StartsAtOne
  <2>7. RowsExist'
    BY <1>16, <2>1 DEF ReleaseFails, Fault, WriteBack, ChargerOK, RowsExist,
       Claiming, Claimed
  <2>8. QED
    BY <1>16, <2>3, <2>4, <2>5, <2>6, <2>7 DEF ReleaseFails, Fault, NotifierOK
<1>17. ASSUME NEW c \in Charger, ChargeDone(c)
      PROVE  TypeInv'
  <2>1. ChargerOK'
    BY <1>17 DEF ChargeDone, TableOK, ChargerOK, StartsAtOne, Claimed, Day
  <2>2. RowsExist'
    BY <1>17 DEF ChargeDone, TableOK, ChargerOK, StartsAtOne, RowsExist,
       Claiming, Claimed, Day
  <2>3. QED
    BY <1>17, <2>1, <2>2 DEF ChargeDone, TableOK, NotifierOK, HistoryOK,
       StartsAtOne
<1>18. CASE Crash
  <2>1. ChargerOK'
    BY <1>18 DEF Crash, TableOK, ChargerOK, StartsAtOne, Claimed, Day
  <2>2. NotifierOK'
    BY <1>18 DEF Crash, TableOK, NotifierOK, StartsAtOne, ChargeTime
  <2>3. HistoryOK'
    BY <1>18 DEF Crash, ChargerOK, HistoryOK, Claimed
  <2>4. RowsExist'
    BY <1>18 DEF Crash, TableOK, ChargerOK, StartsAtOne, RowsExist,
       Claiming, Claimed, Day
  <2>5. QED
    BY <1>18, <2>1, <2>2, <2>3, <2>4 DEF Crash, TableOK, StartsAtOne
<1>19. CASE Tick
  <2>1. TableOK'
    BY <1>19 DEF Tick, TableOK, ChargerOK, NotifierOK, Claimed, Day,
       ChargeTime
  <2>2. QED
    BY <1>19, <2>1 DEF Tick, ChargerOK, NotifierOK, HistoryOK,
       StartsAtOne, RowsExist, Claimed, Claiming
<1>20. CASE UNCHANGED vars
  <2>1. QED
    BY <1>20 DEF vars, TableOK, ChargerOK, NotifierOK, HistoryOK,
       StartsAtOne, RowsExist, Claimed, Claiming
<1>21. ASSUME NEW c \in Charger, NEW x \in due[c], ClaimFails(c, x)
       PROVE  TypeInv'
  <2>1. x \in [sub : Sub, at : Day] /\ status[x.sub] # "absent"
    BY <1>21 DEF ChargerOK, RowsExist
  <2>2. TableOK'
    BY <1>21, <2>1 DEF ClaimFails, Fault, TableOK, Day
  <2>3. ChargerOK'
    BY <1>21 DEF ClaimFails, Fault, ChargerOK, Claimed
  <2>4. HistoryOK'
    BY <1>21, <2>1 DEF ClaimFails, Fault, HistoryOK
  <2>5. StartsAtOne'
    BY <1>21, <2>1 DEF ClaimFails, Fault, TableOK, StartsAtOne, Day
  <2>6. RowsExist'
    BY <1>21 DEF ClaimFails, Fault, ChargerOK, RowsExist, Claiming, Claimed
  <2>7. QED
    BY <1>21, <2>2, <2>3, <2>4, <2>5, <2>6 DEF ClaimFails, Fault, NotifierOK
<1>22. QED
  BY <1>1, <1>2, <1>3, <1>4, <1>5, <1>6, <1>7, <1>8, <1>9, <1>10, <1>11,
     <1>12, <1>13, <1>14, <1>15, <1>16, <1>17, <1>18, <1>19, <1>20, <1>21 DEF Next,
     NotifyStep, ChargeStep
-----------------------------------------------------------------------------
\* A step that only gives claims up keeps them exclusive.
LEMMA FewerClaims ==
  ASSUME TypeInv, Exclusive, UNCHANGED <<charges, next, rewinds>>,
         \A d \in Charger : Claiming(d)' => /\ Claiming(d) /\ claim'[d] = claim[d]
                                           /\ cpc'[d] = cpc[d]
  PROVE  Exclusive'
<1>1. ClaimIsFresh'
  BY DEF Exclusive, ClaimIsFresh
<1>2. ChargedIsBehind'
  BY DEF Exclusive, ChargedIsBehind
<1>3. QED
  BY <1>1, <1>2 DEF Exclusive

\* A claim is exclusive until nextChargeAt moves back: the conditional update
\* finds the row unclaimed, and release and cancel count as a rewind.
LEMMA ExclusiveStep == TypeInv /\ Exclusive /\ [Next]_vars => Exclusive'
<1> SUFFICES ASSUME TypeInv, Exclusive, [Next]_vars PROVE Exclusive'
  OBVIOUS
<1> USE RecurringAssumption DEF table, charger, notifier, history, budget
<1>1. ASSUME NEW s \in Sub, NEW at \in Day, Create(s, at) PROVE Exclusive'
  <2>1. /\ next[s] = 0
        /\ \A r \in Sub : r # s => next'[r] = next[r]
        /\ \A c \in Charger : Claiming(c) => claim[c].sub # s
        /\ UNCHANGED <<cpc, claim, charges, rewinds>>
    BY <1>1 DEF Create, TypeInv, TypeOK, TableOK, StartsAtOne, RowsExist
  <2>2. ClaimIsFresh'
    BY <2>1 DEF Exclusive, ClaimIsFresh, Claiming, TypeInv, TypeOK, ChargerOK, Claimed
  <2>3. ChargedIsBehind'
    BY <2>1 DEF Exclusive, ChargedIsBehind, Day
  <2>4. QED
    BY <2>2, <2>3 DEF Exclusive
<1>2. ASSUME NEW s \in Sub, NEW e \in entity[s], CancelSave(s, e) PROVE Exclusive'
  <2>1. /\ next' \in [Sub -> Nat] /\ next \in [Sub -> Nat]
        /\ rewinds \in [Sub -> Nat]
        /\ \A r \in Sub : r # s => next'[r] = next[r] /\ rewinds'[r] = rewinds[r]
        /\ rewinds'[s] = 0 => rewinds[s] = 0 /\ next'[s] >= next[s]
        /\ UNCHANGED <<cpc, claim, charges>>
    BY <1>2 DEF CancelSave, TypeInv, TypeOK, TableOK, HistoryOK
  <2>2. ClaimIsFresh'
    BY <2>1 DEF Exclusive, ClaimIsFresh, Claiming, TypeInv, TypeOK, ChargerOK, Claimed, Day
  <2>3. ChargedIsBehind'
    BY <2>1 DEF Exclusive, ChargedIsBehind, Day
  <2>4. QED
    BY <2>2, <2>3 DEF Exclusive
<1>3. ASSUME NEW c \in Charger, NEW x \in due[c], Claim(c, x) PROVE Exclusive'
  <2>1. /\ x.sub \in Sub /\ x.at \in Day /\ x.at \in Nat
        /\ next \in [Sub -> Nat] /\ next' \in [Sub -> Nat]
        /\ next[x.sub] = x.at /\ next'[x.sub] > x.at
        /\ \A r \in Sub : r # x.sub => next'[r] = next[r]
        /\ cpc'[c] = "create" /\ claim'[c] = x
        /\ \A d \in Charger : d # c => cpc'[d] = cpc[d] /\ claim'[d] = claim[d]
        /\ UNCHANGED <<charges, rewinds>>
    BY <1>3 DEF Claim, TypeInv, TypeOK, TableOK, ChargerOK, Day
  <2>2. ASSUME rewinds[x.sub] = 0
        PROVE  /\ charges[x.sub][x.at] = 0
               /\ \A d \in Charger : Claiming(d) => claim[d] # x
    <3>1. charges[x.sub][x.at] \in Nat
      BY <2>1 DEF TypeInv, TypeOK, HistoryOK
    <3>2. charges[x.sub][x.at] = 0
      BY <2>1, <2>2, <3>1 DEF Exclusive, ChargedIsBehind
    <3>3. ASSUME NEW d \in Charger, Claiming(d), claim[d] = x PROVE FALSE
      <4>1. next[x.sub] > x.at
        BY <2>2, <3>3 DEF Exclusive, ClaimIsFresh
      <4>2. QED
        BY <2>1, <4>1
    <3>4. QED
      BY <3>2, <3>3
  <2>3. ClaimIsFresh'
    <3>1. ASSUME NEW d \in Charger, Claiming(d)', rewinds[claim'[d].sub] = 0
          PROVE  /\ cpc'[d] = "create" => charges[claim'[d].sub][claim'[d].at] = 0
                 /\ next'[claim'[d].sub] > claim'[d].at
                 /\ \A b \in Charger : b # d /\ Claiming(b)' => claim'[b] # claim'[d]
      <4>1. CASE d = c
        BY <2>1, <2>2, <3>1, <4>1 DEF Claiming
      <4>2. CASE d # c
        <5>1. Claiming(d) /\ claim'[d] = claim[d]
          BY <2>1, <3>1, <4>2 DEF Claiming
        <5>2. claim[d].sub \in Sub /\ claim[d].at \in Nat
          BY <5>1 DEF Claiming, TypeInv, TypeOK, ChargerOK, Day
        <5>3. /\ cpc[d] = "create" => charges[claim[d].sub][claim[d].at] = 0
              /\ next[claim[d].sub] > claim[d].at
              /\ \A b \in Charger : b # d /\ Claiming(b) => claim[b] # claim[d]
          BY <3>1, <5>1 DEF Exclusive, ClaimIsFresh
        <5>4. next'[claim[d].sub] > claim[d].at
          BY <2>1, <5>2, <5>3
        <5>5. claim[d] # x
          BY <2>2, <3>1, <5>1
        <5>6. QED
          BY <2>1, <5>1, <5>3, <5>4, <5>5 DEF Claiming
      <4>3. QED
        BY <4>1, <4>2
    <3>2. QED
      BY <2>1, <3>1 DEF ClaimIsFresh
  <2>4. ChargedIsBehind'
    <3>1. \A r \in Sub : next'[r] >= next[r]
      BY <2>1
    <3>2. QED
      BY <2>1, <3>1 DEF Exclusive, ChargedIsBehind, Day
  <2>5. QED
    BY <2>3, <2>4 DEF Exclusive
<1>4. ASSUME NEW c \in Charger, CreatePayment(c) \/ CreatePaymentFails(c)
      PROVE  Exclusive'
  <2> DEFINE s == claim[c].sub
             t == claim[c].at
  <2>1. /\ s \in Sub /\ t \in Day
        /\ charges[s][t] \in Nat /\ charges'[s][t] \in {charges[s][t], charges[s][t] + 1}
        /\ \A r \in Sub, u \in Day : <<r, u>> # <<s, t>> => charges'[r][u] = charges[r][u]
        /\ Claiming(c) /\ cpc[c] = "create" /\ cpc'[c] # "create"
        /\ Claiming(c)' => claim'[c] = claim[c]
        /\ \A d \in Charger : d # c => cpc'[d] = cpc[d] /\ claim'[d] = claim[d]
        /\ UNCHANGED <<next, rewinds>>
    BY <1>4 DEF CreatePayment, CreatePaymentFails, TypeInv, TypeOK, ChargerOK, HistoryOK,
                Claiming, Claimed
  <2>2. ClaimIsFresh'
    <3>1. ASSUME NEW d \in Charger, Claiming(d)', rewinds[claim'[d].sub] = 0
          PROVE  /\ cpc'[d] = "create" => charges'[claim'[d].sub][claim'[d].at] = 0
                 /\ next'[claim'[d].sub] > claim'[d].at
                 /\ \A b \in Charger : b # d /\ Claiming(b)' => claim'[b] # claim'[d]
      <4>1. /\ Claiming(d) /\ claim'[d] = claim[d]
            /\ cpc'[d] = "create" => d # c /\ cpc[d] = "create"
        BY <2>1, <3>1 DEF Claiming
      <4>2. claim[d] \in [sub : Sub, at : Day] /\ claim[c] \in [sub : Sub, at : Day]
        BY <2>1, <4>1 DEF Claiming, TypeInv, TypeOK, ChargerOK
      <4>3. /\ d # c => claim[d] # claim[c]
            /\ cpc[d] = "create" => charges[claim[d].sub][claim[d].at] = 0
            /\ next[claim[d].sub] > claim[d].at
            /\ \A b \in Charger : b # d /\ Claiming(b) => claim[b] # claim[d]
        BY <2>1, <3>1, <4>1 DEF Exclusive, ClaimIsFresh
      <4>4. d # c => <<claim[d].sub, claim[d].at>> # <<s, t>>
        BY <4>2, <4>3
      <4>5. cpc'[d] = "create" => charges'[claim[d].sub][claim[d].at] = 0
        BY <2>1, <4>1, <4>2, <4>3, <4>4
      <4>6. \A b \in Charger : Claiming(b)' => Claiming(b) /\ claim'[b] = claim[b]
        BY <2>1 DEF Claiming
      <4>7. QED
        BY <2>1, <4>1, <4>3, <4>5, <4>6
    <3>2. QED
      BY <2>1, <3>1 DEF ClaimIsFresh
  <2>3. ChargedIsBehind'
    BY <2>1 DEF Exclusive, ClaimIsFresh, ChargedIsBehind
  <2>4. QED
    BY <2>2, <2>3 DEF Exclusive
<1>5. ASSUME NEW c \in Charger, Release(c) \/ ReleaseFails(c), WriteBack(claim[c])
      PROVE  Exclusive'
  <2> DEFINE s == claim[c].sub
  <2>1. /\ s \in Sub /\ claim[c].at \in Day /\ Claiming(c) /\ ~Claiming(c)'
        /\ \A r \in Sub : r # s => next'[r] = next[r] /\ rewinds'[r] = rewinds[r]
        /\ \A d \in Charger : d # c => cpc'[d] = cpc[d] /\ claim'[d] = claim[d]
        /\ rewinds[s] \in Nat
        /\ rewinds'[s] = IF claim[c].at < next[s] THEN rewinds[s] + 1 ELSE rewinds[s]
        /\ UNCHANGED charges
    BY <1>5 DEF Release, ReleaseFails, WriteBack, TypeInv, TypeOK, ChargerOK, TableOK,
                HistoryOK, Claiming, Claimed
  <2>2. rewinds'[s] # 0
    BY <2>1 DEF Exclusive, ClaimIsFresh
  <2>3. \A d \in Charger : Claiming(d)' => /\ d # c /\ Claiming(d)
                                          /\ claim'[d] = claim[d] /\ cpc'[d] = cpc[d]
    BY <2>1 DEF Claiming
  <2>4. ClaimIsFresh'
    BY <2>1, <2>2, <2>3 DEF Exclusive, ClaimIsFresh, Claiming, TypeInv, TypeOK, ChargerOK
  <2>5. ChargedIsBehind'
    BY <2>1, <2>2 DEF Exclusive, ChargedIsBehind
  <2>6. QED
    BY <2>4, <2>5 DEF Exclusive
<1>6. ASSUME NEW c \in Charger,
             \/ ReleaseFails(c) /\ UNCHANGED <<next, rewinds>>
             \/ ChargeRead(c) \/ ChargeDone(c) \/ \E x \in due[c] : ClaimLost(c, x)
      PROVE  Exclusive'
  <2>1. /\ UNCHANGED <<charges, next, rewinds>>
        /\ \A d \in Charger : Claiming(d)' => /\ Claiming(d) /\ claim'[d] = claim[d]
                                              /\ cpc'[d] = cpc[d]
    BY <1>6 DEF ReleaseFails, ChargeRead, ChargeDone, ClaimLost,
                Claiming, Claimed, TypeInv, TypeOK, ChargerOK
  <2>2. QED
    BY <2>1, FewerClaims
<1>7. ASSUME NEW n \in Notifier,
             \/ NotifyStep(n) \/ MarkNotifiedFails(n)
             \/ \E x \in upcoming[n] : QueueNoticeFails(n, x)
      PROVE  Exclusive'
  <2>1. UNCHANGED <<charges, next, rewinds, cpc, claim>>
    BY <1>7 DEF NotifyStep, NotifyRead, QueueNotice, QueueNoticeFails, MarkNotified,
                MarkNotifiedFails, NotifyDone
  <2>2. QED
    BY <2>1, FewerClaims DEF Claiming
<1>8. CASE Crash
  <2>1. /\ UNCHANGED <<charges, next, rewinds>>
        /\ \A d \in Charger : Claiming(d)' => /\ Claiming(d) /\ claim'[d] = claim[d]
                                              /\ cpc'[d] = cpc[d]
    BY <1>8 DEF Crash, Claiming, Claimed, TypeInv, TypeOK, ChargerOK
  <2>2. QED
    BY <2>1, FewerClaims
<1>9. CASE Tick \/ (\E s \in Sub : CancelRead(s)) \/ UNCHANGED vars
  <2>1. UNCHANGED <<charges, next, rewinds, cpc, claim>>
    BY <1>9 DEF Tick, CancelRead, vars
  <2>2. QED
    BY <2>1, FewerClaims DEF Claiming
<1>10. ASSUME NEW c \in Charger, NEW x \in due[c], ClaimFails(c, x)
       PROVE  Exclusive'
  <2>1. /\ UNCHANGED <<charges, rewinds>>
        /\ \A d \in Charger : Claiming(d)' => /\ Claiming(d) /\ claim'[d] = claim[d]
                                              /\ cpc'[d] = cpc[d]
        /\ next \in [Sub -> Nat] /\ next' \in [Sub -> Nat]
        /\ \A r \in Sub : next'[r] >= next[r]
    BY <1>10 DEF ClaimFails, Claiming, Claimed, TypeInv, TypeOK, ChargerOK, TableOK, Day
  <2>2. ClaimIsFresh'
    BY <2>1 DEF Exclusive, ClaimIsFresh, Claiming, TypeInv, TypeOK, ChargerOK, Day
  <2>3. ChargedIsBehind'
    BY <2>1 DEF Exclusive, ChargedIsBehind, Day
  <2>4. QED
    BY <2>2, <2>3 DEF Exclusive
<1>11. ASSUME NEW c \in Charger, Release(c) \/ ReleaseFails(c) PROVE Exclusive'
  BY <1>5, <1>6, <1>11 DEF Release, ReleaseFails
<1>12. QED
  BY <1>1, <1>2, <1>3, <1>4, <1>6, <1>7, <1>8, <1>9, <1>10, <1>11 DEF Next, ChargeStep

-----------------------------------------------------------------------------
\* No step withdraws a notice, and nothing is marked, due or charged without one.
LEMMA BackedStep == TypeInv /\ Backed /\ [Next]_vars => Backed'
<1> SUFFICES ASSUME TypeInv, Backed, [Next]_vars PROVE Backed'
  OBVIOUS
<1> USE RecurringAssumption
      DEF TypeInv, TypeOK, TableOK, ChargerOK, NotifierOK, HistoryOK, Claiming,
          Claimed, Backed, table, charger, notifier, history, budget
<1>1. ASSUME NEW s \in Sub,
             (\E at \in Day : Create(s, at)) \/ CancelRead(s)
               \/ (\E e \in entity[s] : CancelSave(s, e))
      PROVE  Backed'
  <2>1. UNCHANGED <<cpc, due, claim, npc, notice, charges, emails>>
    BY <1>1 DEF Create, CancelRead, CancelSave
  <2>2. \A r \in Sub : notified'[r] = notified[r]
                         \/ \E e \in entity[r] : notified'[r] = e.notified
    BY <1>1 DEF Create, CancelRead, CancelSave
  <2>3. \A r \in Sub : \A e \in entity'[r] : e \in entity[r] \/ e.notified = notified[r]
    <3>1. \/ entity' = entity
          \/ entity' = [entity EXCEPT ![s] =
                          @ \cup {[next |-> next[s], notified |-> notified[s]]}]
          \/ \E e \in entity[s] : entity' = [entity EXCEPT ![s] = @ \ {e}]
      BY <1>1 DEF Create, CancelRead, CancelSave
    <3>2. QED
      BY <3>1
  <2>4. MarkIsBacked'
    BY <2>1, <2>2, <2>3 DEF MarkIsBacked
  <2>5. QED
    BY <2>1, <2>4 DEF ChargeIsBacked, NotifiedBeforeCharged
<1>2. ASSUME NEW n \in Notifier, NEW x \in upcoming[n], QueueNotice(n, x)
      PROVE  Backed'
  <2>1. /\ x.sub \in Sub /\ x.at \in ChargeTime
        /\ emails' = [emails EXCEPT ![x.sub] = @ \cup {x.at}]
        /\ npc'[n] = "mark" /\ notice'[n] = x
        /\ \A m \in Notifier : m # n => npc'[m] = npc[m] /\ notice'[m] = notice[m]
        /\ UNCHANGED <<notified, entity, cpc, due, claim, charges>>
    BY <1>2 DEF QueueNotice
  <2>2. \A s \in Sub, t \in ChargeTime :
          /\ t \in emails[s] => t \in emails'[s]
          /\ s = x.sub /\ t = x.at => t \in emails'[s]
    <3> SUFFICES ASSUME NEW s \in Sub, NEW t \in ChargeTime
                 PROVE  /\ t \in emails[s] => t \in emails'[s]
                        /\ s = x.sub /\ t = x.at => t \in emails'[s]
      OBVIOUS
    <3>1. QED
      BY <2>1
  <2>3. Day \subseteq ChargeTime
    BY DEF Day, ChargeTime
  <2>4. MarkIsBacked'
    <3>1. \A s \in Sub :
            /\ notified[s] # 0 => notified[s] \in ChargeTime /\ notified[s] \in emails'[s]
            /\ \A e \in entity[s] :
                 e.notified # 0 => e.notified \in ChargeTime /\ e.notified \in emails'[s]
      BY <2>2 DEF MarkIsBacked
    <3>2. ASSUME NEW m \in Notifier, npc'[m] = "mark"
          PROVE  notice'[m].at \in emails'[notice'[m].sub]
      <4>1. CASE m = n
        BY <2>1, <2>2, <4>1
      <4>2. CASE m # n
        BY <2>1, <2>2, <3>2, <4>2 DEF MarkIsBacked
      <4>3. QED
        BY <4>1, <4>2
    <3>3. QED
      BY <2>1, <3>1, <3>2 DEF MarkIsBacked
  <2>5. /\ \A c \in Charger : \A y \in due[c] : y.at \in emails'[y.sub]
        /\ \A c \in Charger : Claiming(c) => claim[c].at \in emails'[claim[c].sub]
    BY <2>2, <2>3 DEF ChargeIsBacked
  <2>6. NotifiedBeforeCharged'
    BY <2>1, <2>2, <2>3 DEF ChargeIsBacked, NotifiedBeforeCharged
  <2>7. QED
    BY <2>1, <2>4, <2>5, <2>6 DEF ChargeIsBacked
<1>3. ASSUME NEW n \in Notifier, MarkNotified(n) \/ MarkNotifiedFails(n)
      PROVE  Backed'
  <2>1. /\ UNCHANGED <<cpc, due, claim, charges, emails, entity>>
        /\ notice[n].sub \in Sub /\ notice[n].at \in ChargeTime
        /\ notice[n].at \in emails[notice[n].sub]
        /\ \A s \in Sub : notified'[s] = notified[s]
                            \/ (s = notice[n].sub /\ notified'[s] = notice[n].at)
        /\ \A m \in Notifier : npc'[m] = "mark" => npc[m] = "mark" /\ notice'[m] = notice[m]
    <3>1. npc[n] = "mark" /\ notice[n] \in [sub : Sub, at : ChargeTime]
      BY <1>3 DEF MarkNotified, MarkNotifiedFails
    <3>2. notified' = notified \/ notified' = [notified EXCEPT ![notice[n].sub] = notice[n].at]
      BY <1>3 DEF MarkNotified, MarkNotifiedFails
    <3>3. /\ npc' = [npc EXCEPT ![n] = "loop"]
          /\ notice' = [notice EXCEPT ![n] = None]
          /\ UNCHANGED <<cpc, due, claim, charges, emails, entity>>
      BY <1>3 DEF MarkNotified, MarkNotifiedFails
    <3>4. notice[n].at \in emails[notice[n].sub]
      BY <3>1 DEF MarkIsBacked
    <3>5. \A s \in Sub : notified'[s] = notified[s]
                          \/ (s = notice[n].sub /\ notified'[s] = notice[n].at)
      BY <3>2
    <3>6. \A m \in Notifier : npc'[m] = "mark" => npc[m] = "mark" /\ notice'[m] = notice[m]
      BY <3>3
    <3>7. QED
      BY <3>1, <3>3, <3>4, <3>5, <3>6
  <2>2. MarkIsBacked'
    BY <2>1 DEF MarkIsBacked
  <2>3. QED
    BY <2>1, <2>2 DEF ChargeIsBacked, NotifiedBeforeCharged
<1>4. ASSUME NEW n \in Notifier, NotifyRead(n) \/ NotifyDone(n)
      PROVE  Backed'
  BY <1>4 DEF NotifyRead, NotifyDone, MarkIsBacked, ChargeIsBacked, NotifiedBeforeCharged
<1>5. ASSUME NEW c \in Charger, ChargeRead(c) PROVE Backed'
  <2>1. \A x \in due'[c] : x.at \in emails[x.sub]
    BY <1>5 DEF ChargeRead, IsDue, MarkIsBacked, StartsAtOne
  <2>2. /\ \A d \in Charger : d # c => due'[d] = due[d]
        /\ \A d \in Charger : Claiming(d)' => Claiming(d)
        /\ UNCHANGED <<claim, charges, emails, notified, entity, notifier>>
    BY <1>5 DEF ChargeRead
  <2>3. MarkIsBacked'
    BY <2>2 DEF MarkIsBacked
  <2>4. ChargeIsBacked'
    BY <2>1, <2>2 DEF ChargeIsBacked, NotifiedBeforeCharged
  <2>5. QED
    BY <2>3, <2>4
<1>6. ASSUME NEW c \in Charger, CreatePayment(c) \/ CreatePaymentFails(c)
      PROVE  Backed'
  <2>1. NotifiedBeforeCharged'
    <3>1. /\ claim[c] \in [sub : Sub, at : Day] /\ Claiming(c)
          /\ UNCHANGED emails
          /\ \E k \in {0, 1} :
               charges' = [charges EXCEPT ![claim[c].sub][claim[c].at] = @ + k]
      BY <1>6 DEF CreatePayment, CreatePaymentFails
    <3>2. \A r \in Sub, u \in Day :
            (r = claim[c].sub /\ u = claim[c].at) \/ charges'[r][u] = charges[r][u]
      BY <3>1
    <3>3. QED
      BY <3>1, <3>2 DEF ChargeIsBacked, NotifiedBeforeCharged
  <2>2. /\ UNCHANGED <<due, npc, notice, notified, entity, emails>>
        /\ \A d \in Charger : Claiming(d)' => Claiming(d) /\ claim'[d] = claim[d]
    BY <1>6 DEF CreatePayment, CreatePaymentFails
  <2>3. QED
    BY <2>1, <2>2 DEF MarkIsBacked, ChargeIsBacked
<1>7. ASSUME NEW c \in Charger,
             \/ Release(c) \/ ReleaseFails(c) \/ ChargeDone(c)
             \/ \E x \in due[c] : Claim(c, x) \/ ClaimLost(c, x) \/ ClaimFails(c, x)
      PROVE  Backed'
  <2>1. UNCHANGED <<charges, emails, notified, entity, notifier>>
    BY <1>7 DEF Release, ReleaseFails, ChargeDone, Claim, ClaimLost, ClaimFails
  <2>2. \A d \in Charger : due'[d] \subseteq due[d]
    <3>1. \/ due' = due
          \/ due' = [due EXCEPT ![c] = {}]
          \/ \E x \in due[c] : due' = [due EXCEPT ![c] = @ \ {x}]
      BY <1>7 DEF Release, ReleaseFails, ChargeDone, Claim, ClaimLost, ClaimFails
    <3>2. QED
      BY <3>1
  <2>3. \A d \in Charger : Claiming(d)' =>
          (Claiming(d) /\ claim'[d] = claim[d]) \/ claim'[d] \in due[d]
    <3>1. CASE \E x \in due[c] : Claim(c, x)
      BY <3>1 DEF Claim
    <3>2. CASE ~\E x \in due[c] : Claim(c, x)
      BY <1>7, <3>2 DEF Release, ReleaseFails, ChargeDone, ClaimLost, ClaimFails
    <3>3. QED
      BY <3>1, <3>2
  <2>4. QED
    BY <2>1, <2>2, <2>3 DEF MarkIsBacked, ChargeIsBacked, NotifiedBeforeCharged
<1>8. CASE Crash
  <2>1. UNCHANGED <<charges, emails, notified, entity>>
    BY <1>8 DEF Crash
  <2>2. /\ \A d \in Charger : due'[d] \subseteq due[d]
        /\ \A d \in Charger : Claiming(d)' => Claiming(d) /\ claim'[d] = claim[d]
        /\ \A n \in Notifier : npc'[n] = "mark" => npc[n] = "mark" /\ notice'[n] = notice[n]
    BY <1>8 DEF Crash
  <2>3. QED
    BY <2>1, <2>2 DEF MarkIsBacked, ChargeIsBacked, NotifiedBeforeCharged
<1>9. CASE Tick \/ UNCHANGED vars
  BY <1>9 DEF Tick, vars, MarkIsBacked, ChargeIsBacked, NotifiedBeforeCharged
<1>10. ASSUME NEW n \in Notifier, NEW x \in upcoming[n], QueueNoticeFails(n, x)
       PROVE  Backed'
  <2>1. /\ UNCHANGED <<cpc, due, claim, npc, notice, charges, notified, entity>>
        /\ emails' = emails \/ emails' = [emails EXCEPT ![x.sub] = @ \cup {x.at}]
    BY <1>10 DEF QueueNoticeFails
  <2>2. \A s \in Sub : emails[s] \subseteq emails'[s]
    BY <2>1
  <2>3. MarkIsBacked'
    BY <2>1, <2>2 DEF MarkIsBacked
  <2>4. ChargeIsBacked'
    BY <2>1, <2>2 DEF ChargeIsBacked, NotifiedBeforeCharged
  <2>5. QED
    BY <2>3, <2>4
<1>11. QED
  BY <1>1, <1>2, <1>3, <1>4, <1>5, <1>6, <1>7, <1>8, <1>9, <1>10
     DEF Next, NotifyStep, ChargeStep

\* No occurrence is being charged before the first scan.
LEMMA InitInv == Init => TypeInv /\ Exclusive /\ Backed
<1> SUFFICES ASSUME Init PROVE TypeInv /\ Exclusive /\ Backed
  OBVIOUS
<1> USE RecurringAssumption DEF Init
<1>1. TypeInv
  BY DEF TypeInv, TypeOK, TableOK, ChargerOK, NotifierOK, HistoryOK, Claimed,
         StartsAtOne, RowsExist, Claiming
<1>2. Exclusive
  BY DEF Exclusive, ClaimIsFresh, ChargedIsBehind, Claiming, Claimed
<1>3. Backed
  BY DEF Backed, MarkIsBacked, ChargeIsBacked, NotifiedBeforeCharged, Claiming, Claimed
<1>4. QED
  BY <1>1, <1>2, <1>3

-----------------------------------------------------------------------------
\* The table, the two jobs' locals and the counters keep their shape.
THEOREM TypeCorrect == Spec => []TypeOK
<1>1. Init => TypeInv
  BY InitInv
<1>2. TypeInv /\ [Next]_vars => TypeInv'
  BY TypeInvStep
<1>3. TypeInv => TypeOK
  BY DEF TypeInv
<1>4. QED
  BY <1>1, <1>2, <1>3, PTL DEF Spec

\* The conditional update of chargeDueSubscriptions: without a rewind of
\* nextChargeAt no cycle is charged twice, for any number of overlapping runs.
THEOREM ClaimsExclude == Spec => []ClaimExcludes
<1>1. Init => TypeInv /\ Exclusive
  BY InitInv
<1>2. TypeInv /\ Exclusive /\ [Next]_vars => (TypeInv /\ Exclusive)'
  BY TypeInvStep, ExclusiveStep
<1>3. TypeInv /\ Exclusive => ClaimExcludes
  <2> SUFFICES ASSUME TypeInv, Exclusive, NEW s \in Sub, NEW t \in Day, rewinds[s] = 0
               PROVE  charges[s][t] <= 1
    BY DEF ClaimExcludes
  <2>1. charges[s][t] \in Nat
    BY DEF TypeInv, TypeOK, HistoryOK
  <2>2. QED
    BY <2>1 DEF Exclusive, ChargedIsBehind
<1>4. QED
  BY <1>1, <1>2, <1>3, PTL DEF Spec

\* No payment is created for a charge whose merchant was not notified of it.
THEOREM NoticePrecedesCharge == Spec => []NotifiedBeforeCharged
<1>1. Init => TypeInv /\ Backed
  BY InitInv
<1>2. TypeInv /\ Backed /\ [Next]_vars => (TypeInv /\ Backed)'
  BY TypeInvStep, BackedStep
<1>3. Backed => NotifiedBeforeCharged
  BY DEF Backed, ChargeIsBacked
<1>4. QED
  BY <1>1, <1>2, <1>3, PTL DEF Spec

-----------------------------------------------------------------------------
(***************************************************************************)
(* The runner of the jobs: mutual exclusion of the runs of one job, for    *)
(* any number of processes, slots and faults.                              *)
(***************************************************************************)
\* A run that is going on holds its process's name.  The name of a process whose
\* first log entry was rejected stays held by nobody.
HoldsName == \A r \in Run : pc[r] # "idle" => locked[Host[r]]

\* The inductive invariant.
CronInv == CronTypeOK /\ HoldsName /\ AloneUntilTimeout

-----------------------------------------------------------------------------
\* A step of one run that neither begins nor ends it.
LEMMA RunGoesOn ==
    ASSUME CronInv, NEW r \in Run, pc[r] # "idle",
           NEW to \in {"fn", "completed", "failed"},
           pc' = [pc EXCEPT ![r] = to], UNCHANGED locked
    PROVE  HoldsName' /\ AloneUntilTimeout'
BY DEF CronInv, CronTypeOK, HoldsName, AloneUntilTimeout

\* A step that ends a run: whether the name is removed or stays behind, no other
\* run of the process needs it.
LEMMA RunEnds ==
    ASSUME CronInv, NEW r \in Run, pc[r] # "idle", pc' = [pc EXCEPT ![r] = "idle"],
           \/ UNCHANGED locked
           \/ locked' = [locked EXCEPT ![Host[r]] = FALSE]
    PROVE  HoldsName' /\ AloneUntilTimeout'
<1>1. ASSUME NEW q \in Run, pc'[q] # "idle" PROVE pc[q] # "idle" /\ q # r /\ Host[q] # Host[r]
  BY <1>1 DEF CronInv, CronTypeOK, AloneUntilTimeout
<1>2. \A q \in Run : Host[q] \in Process
  BY CronAssumption
<1>3. HoldsName'
  BY <1>1, <1>2 DEF CronInv, CronTypeOK, HoldsName
<1>4. AloneUntilTimeout'
  BY <1>1 DEF CronInv, AloneUntilTimeout
<1> QED
  BY <1>3, <1>4

\* A run begins only where no other one is going on.
LEMMA BeginIsAlone ==
    ASSUME CronInv, NEW r \in Run, Begin(r)
    PROVE  HoldsName' /\ AloneUntilTimeout'
<1>1. ~locked[Host[r]] /\ pc' = [pc EXCEPT ![r] = "log"]
        /\ locked' = [locked EXCEPT ![Host[r]] = TRUE]
  BY DEF Begin, Goto
<1>2. \A q \in Run : Host[q] = Host[r] => pc[q] = "idle"
  BY <1>1 DEF CronInv, HoldsName
<1>3. \A q \in Run : Host[q] \in Process
  BY CronAssumption
<1>4. HoldsName'
  BY <1>1, <1>3 DEF CronInv, CronTypeOK, HoldsName
<1>5. AloneUntilTimeout'
  BY <1>1, <1>2 DEF CronInv, CronTypeOK, AloneUntilTimeout
<1> QED
  BY <1>4, <1>5

\* A restart empties the process's set and ends all its runs.
LEMMA RestartIsClean ==
    ASSUME CronInv, NEW p \in Process, Restart(p)
    PROVE  HoldsName' /\ AloneUntilTimeout'
<1>1. /\ locked' = [locked EXCEPT ![p] = FALSE]
      /\ pc' = [r \in Run |-> IF Host[r] = p THEN "idle" ELSE pc[r]]
  BY DEF Restart
<1>2. \A q \in Run : pc'[q] # "idle" => pc[q] # "idle" /\ Host[q] # p /\ Host[q] \in Process
  BY <1>1, CronAssumption
<1> QED
  BY <1>1, <1>2 DEF CronInv, CronTypeOK, HoldsName, AloneUntilTimeout

\* Every step keeps the types.
LEMMA StepKeepsTypes ==
    ASSUME CronTypeOK, [CronNext]_cronVars
    PROVE  CronTypeOK'
<1> USE CronAssumption DEF CronTypeOK
<1>1. ASSUME NEW r \in Run, Begin(r) \/ StartLogged(r) \/ FnResolves(r) \/ Timeout(r) PROVE CronTypeOK'
  BY <1>1 DEF Begin, StartLogged, FnResolves, Timeout, Goto
<1>2. ASSUME NEW r \in Run, DetachedEnds(r) \/ Finally(r) PROVE CronTypeOK'
  BY <1>2 DEF DetachedEnds, Finally
<1>3. ASSUME NEW r \in Run, StartLogFails(r) \/ FnRejects(r) \/ SaveRejects(r) PROVE CronTypeOK'
  BY <1>3 DEF StartLogFails, FnRejects, SaveRejects, Goto, CronFault
<1>4. ASSUME NEW p \in Process, Restart(p) PROVE CronTypeOK'
  BY <1>4 DEF Restart, CronFault
<1>5. CASE UNCHANGED cronVars
  BY <1>5 DEF cronVars
<1> QED
  BY <1>1, <1>2, <1>3, <1>4, <1>5 DEF CronNext, Step

-----------------------------------------------------------------------------
\* For any number of processes, slots and faults: two runs that the timeout has
\* not given up on never overlap in one process (CronJobService.run, runningJobs),
\* although a rejected first log entry leaves the name behind and a restart
\* removes it.
THEOREM JobRunsAlone == CronSpec => []AloneUntilTimeout
<1>1. CronInit => CronInv
  <2> SUFFICES ASSUME CronInit PROVE CronInv
    OBVIOUS
  <2>1. CronTypeOK
    BY CronAssumption DEF CronInit, CronTypeOK
  <2>2. HoldsName /\ AloneUntilTimeout
    BY DEF CronInit, HoldsName, AloneUntilTimeout
  <2> QED BY <2>1, <2>2 DEF CronInv
<1>2. CronInv /\ [CronNext]_cronVars => CronInv'
  <2> SUFFICES ASSUME CronInv, [CronNext]_cronVars PROVE CronInv'
    OBVIOUS
  <2>0. CronTypeOK'
    BY StepKeepsTypes DEF CronInv
  <2>1. ASSUME NEW r \in Run, StartLogged(r) \/ FnResolves(r) \/ Timeout(r) \/ FnRejects(r)
                               \/ SaveRejects(r)
        PROVE  HoldsName' /\ AloneUntilTimeout'
    BY <2>1, RunGoesOn DEF StartLogged, FnResolves, Timeout, FnRejects, SaveRejects, Goto
  <2>2. ASSUME NEW r \in Run, StartLogFails(r) \/ Finally(r)
        PROVE  HoldsName' /\ AloneUntilTimeout'
    BY <2>2, RunEnds DEF StartLogFails, Finally, Goto
  <2>3. ASSUME NEW r \in Run, DetachedEnds(r) PROVE HoldsName' /\ AloneUntilTimeout'
    BY <2>3 DEF DetachedEnds, CronInv, HoldsName, AloneUntilTimeout
  <2>4. ASSUME UNCHANGED cronVars PROVE HoldsName' /\ AloneUntilTimeout'
    BY <2>4 DEF cronVars, CronInv, HoldsName, AloneUntilTimeout
  <2>5. HoldsName' /\ AloneUntilTimeout'
    BY <2>1, <2>2, <2>3, <2>4, BeginIsAlone, RestartIsClean DEF CronNext, Step
  <2> QED BY <2>0, <2>5 DEF CronInv
<1>3. CronInv => AloneUntilTimeout
  BY DEF CronInv
<1> QED
  BY <1>1, <1>2, <1>3, PTL DEF CronSpec
=============================================================================
