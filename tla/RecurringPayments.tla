-------------------------- MODULE RecurringPayments --------------------------
(***************************************************************************)
(* RecurringPaymentsService (src/src/recurring-payments): a subscription   *)
(* is charged once per cycle, after its merchant was notified of the       *)
(* charge.  Two cron jobs work on the table: one notifies, one charges.    *)
(*                                                                         *)
(* CronJobService keeps two runs of a job apart only inside one process    *)
(* and only for five minutes (module CronJob), so any number of runs of    *)
(* either job may overlap here.  The unit of time is a day; a charge time  *)
(* names its cycle.                                                        *)
(***************************************************************************)
EXTENDS Integers

CONSTANTS
    Sub,        \* ids of recurring_payments
    Charger,    \* overlapping runs of chargeDueSubscriptions
    Notifier,   \* overlapping runs of notifyUpcomingCharges
    Interval,   \* intervalDays
    Lead,       \* NOTIFY_LEAD_MS (one day in the code)
    MaxTime,    \* bound: the last day
    MaxFaults,  \* bound: rejected calls and crashes together
    MaxCrashes, \* bound: runs that die half way
    MaxCancels  \* bound: calls of cancel

ASSUME RecurringAssumption ==
    /\ Interval \in Nat \ {0}
    /\ Lead \in Nat
    /\ MaxTime \in Nat /\ MaxFaults \in Nat /\ MaxCrashes \in Nat
    /\ MaxCancels \in Nat

VARIABLES
    now,
    status, next, notified,  \* recurring_payments: status, nextChargeAt,
                             \* notifiedForChargeAt (0 is null)
    cpc, due, claim,         \* each charger: step, rows to go, row in hand
    npc, upcoming, notice,   \* each notifier: the same
    entity,                  \* rows that calls of cancel have read, per id
    charges,                 \* history: payments created for each cycle
    emails,                  \* history: charge times a notice was queued for
    rewinds,                 \* history: how often nextChargeAt moved back
    orphaned,                \* history: cycles left behind with no run to charge them
    faults, crashes, cancels

table == <<status, next, notified>>
charger == <<cpc, due, claim>>
notifier == <<npc, upcoming, notice>>
history == <<charges, emails, rewinds, orphaned>>
budget == <<faults, crashes, cancels>>
vars == <<now, table, charger, notifier, entity, history, budget>>

Day == 1..MaxTime
ChargeTime == 1..(MaxTime + Interval + Lead)
None == <<>>

\* A run that holds a claim is at one of these steps.
Claimed == {"create", "release"}

Init ==
    /\ now = 0
    /\ status = [s \in Sub |-> "absent"]
    /\ next = [s \in Sub |-> 0]
    /\ notified = [s \in Sub |-> 0]
    /\ cpc = [c \in Charger |-> "idle"]
    /\ due = [c \in Charger |-> {}]
    /\ claim = [c \in Charger |-> None]
    /\ npc = [n \in Notifier |-> "idle"]
    /\ upcoming = [n \in Notifier |-> {}]
    /\ notice = [n \in Notifier |-> None]
    /\ entity = [s \in Sub |-> {}]
    /\ charges = [s \in Sub |-> [t \in Day |-> 0]]
    /\ emails = [s \in Sub |-> {}]
    /\ rewinds = [s \in Sub |-> 0]
    /\ orphaned = {}
    /\ faults = 0 /\ crashes = 0 /\ cancels = 0

Fault ==
    /\ faults + crashes < MaxFaults
    /\ faults' = faults + 1
    /\ UNCHANGED <<crashes, cancels>>

-----------------------------------------------------------------------------
(* Requests *)

\* create: startAt may lie in the past, now, or in the future.
Create(s, at) ==
    /\ status[s] = "absent"
    /\ status' = [status EXCEPT ![s] = "active"]
    /\ next' = [next EXCEPT ![s] = at]
    /\ UNCHANGED <<now, notified, charger, notifier, entity, history, budget>>

\* cancel: the row is read ...
CancelRead(s) ==
    /\ cancels < MaxCancels
    /\ cancels' = cancels + 1
    /\ status[s] # "absent"
    /\ entity' = [entity EXCEPT ![s] =
                    @ \cup {[next |-> next[s], notified |-> notified[s]]}]
    /\ UNCHANGED <<now, table, charger, notifier, history, faults, crashes>>

\* ... and saved: TypeORM may write the stale columns with it.
CancelSave(s, e) ==
    /\ e \in entity[s]
    /\ entity' = [entity EXCEPT ![s] = @ \ {e}]
    /\ status' = [status EXCEPT ![s] = "cancelled"]
    /\ \E n \in {e.next, next[s]}, m \in {e.notified, notified[s]} :
         /\ next' = [next EXCEPT ![s] = n]
         /\ notified' = [notified EXCEPT ![s] = m]
         /\ rewinds' = [rewinds EXCEPT ![s] = IF n < next[s] THEN @ + 1 ELSE @]
    /\ UNCHANGED <<now, charger, notifier, charges, emails, orphaned, budget>>

-----------------------------------------------------------------------------
(* notifyUpcomingCharges *)

NotifyRead(n) ==
    LET soon == {s \in Sub : /\ status[s] = "active"
                             /\ next[s] <= now + Lead
                             /\ notified[s] # next[s]} IN
    /\ npc[n] = "idle" /\ soon # {}
    /\ npc' = [npc EXCEPT ![n] = "loop"]
    /\ upcoming' = [upcoming EXCEPT ![n] = {[sub |-> s, at |-> next[s]] : s \in soon}]
    /\ UNCHANGED <<now, table, charger, notice, entity, history, budget>>

\* emailService.queue resolves.
QueueNotice(n, x) ==
    /\ npc[n] = "loop" /\ x \in upcoming[n]
    /\ upcoming' = [upcoming EXCEPT ![n] = @ \ {x}]
    /\ npc' = [npc EXCEPT ![n] = "mark"]
    /\ notice' = [notice EXCEPT ![n] = x]
    /\ emails' = [emails EXCEPT ![x.sub] = @ \cup {x.at}]
    /\ UNCHANGED <<now, table, charger, entity, charges, rewinds, orphaned, budget>>

\* The merchant is not found, or a call rejects and the error is logged; the notice
\* may have been queued all the same.
QueueNoticeFails(n, x) ==
    /\ Fault
    /\ npc[n] = "loop" /\ x \in upcoming[n]
    /\ upcoming' = [upcoming EXCEPT ![n] = @ \ {x}]
    /\ emails' \in {emails, [emails EXCEPT ![x.sub] = @ \cup {x.at}]}
    /\ UNCHANGED <<now, table, charger, npc, notice, entity, charges, rewinds,
                   orphaned>>

\* update(id, notifiedForChargeAt), whatever nextChargeAt has become.
MarkNotified(n) ==
    /\ npc[n] = "mark"
    /\ notified' = [notified EXCEPT ![notice[n].sub] = notice[n].at]
    /\ npc' = [npc EXCEPT ![n] = "loop"]
    /\ notice' = [notice EXCEPT ![n] = None]
    /\ UNCHANGED <<now, status, next, charger, upcoming, entity, history, budget>>

\* The update rejects, whether or not it took effect.
MarkNotifiedFails(n) ==
    /\ Fault
    /\ npc[n] = "mark"
    /\ \E mark \in {notified[notice[n].sub], notice[n].at} :
         notified' = [notified EXCEPT ![notice[n].sub] = mark]
    /\ npc' = [npc EXCEPT ![n] = "loop"]
    /\ notice' = [notice EXCEPT ![n] = None]
    /\ UNCHANGED <<now, status, next, charger, upcoming, entity, history>>

NotifyDone(n) ==
    /\ npc[n] = "loop" /\ upcoming[n] = {}
    /\ npc' = [npc EXCEPT ![n] = "idle"]
    /\ UNCHANGED <<now, table, charger, upcoming, notice, entity, history, budget>>

-----------------------------------------------------------------------------
(* chargeDueSubscriptions *)

\* Mutation: the notice of any charge will do.
IsDue_AnyNotice(s) == status[s] = "active" /\ next[s] <= now /\ notified[s] # 0

\* Active, due, and its merchant notified of this charge.
IsDue(s) == status[s] = "active" /\ next[s] <= now /\ notified[s] = next[s]

ChargeRead(c) ==
    LET rows == {s \in Sub : IsDue(s)} IN
    /\ cpc[c] = "idle" /\ rows # {}
    /\ cpc' = [cpc EXCEPT ![c] = "loop"]
    /\ due' = [due EXCEPT ![c] = {[sub |-> s, at |-> next[s]] : s \in rows}]
    /\ UNCHANGED <<now, table, claim, notifier, entity, history, budget>>

\* Mutation: the update does not compare nextChargeAt.
Claim_Unconditional(c, x) ==
    /\ cpc[c] = "loop" /\ x \in due[c]
    /\ due' = [due EXCEPT ![c] = @ \ {x}]
    /\ next' = [next EXCEPT ![x.sub] = x.at + Interval]
    /\ cpc' = [cpc EXCEPT ![c] = "create"]
    /\ claim' = [claim EXCEPT ![c] = x]
    /\ UNCHANGED <<now, status, notified, notifier, entity, history, budget>>

\* The conditional update took the row: its cycle is claimed.
Claim(c, x) ==
    /\ cpc[c] = "loop" /\ x \in due[c]
    /\ next[x.sub] = x.at
    /\ due' = [due EXCEPT ![c] = @ \ {x}]
    /\ next' = [next EXCEPT ![x.sub] = x.at + Interval]
    /\ cpc' = [cpc EXCEPT ![c] = "create"]
    /\ claim' = [claim EXCEPT ![c] = x]
    /\ UNCHANGED <<now, status, notified, notifier, entity, history, budget>>

\* The conditional update affected no row.
ClaimLost(c, x) ==
    /\ cpc[c] = "loop" /\ x \in due[c]
    /\ next[x.sub] # x.at
    /\ due' = [due EXCEPT ![c] = @ \ {x}]
    /\ UNCHANGED <<now, table, cpc, claim, notifier, entity, history, budget>>

\* The update rejects, outside the try block, whether or not it took the row:
\* the error leaves the job and the rest of the batch is left for the next run.
ClaimFails(c, x) ==
    /\ Fault
    /\ cpc[c] = "loop" /\ x \in due[c]
    /\ \/ UNCHANGED <<next, orphaned>>
       \/ /\ next[x.sub] = x.at
          /\ next' = [next EXCEPT ![x.sub] = x.at + Interval]
          /\ orphaned' = orphaned \cup {x}
    /\ cpc' = [cpc EXCEPT ![c] = "idle"]
    /\ due' = [due EXCEPT ![c] = {}]
    /\ UNCHANGED <<now, status, notified, claim, notifier, entity, charges, emails,
                   rewinds>>

\* External: PaymentsService.create resolves.
CreatePayment(c) ==
    /\ cpc[c] = "create"
    /\ charges' = [charges EXCEPT ![claim[c].sub][claim[c].at] = @ + 1]
    /\ cpc' = [cpc EXCEPT ![c] = "loop"]
    /\ claim' = [claim EXCEPT ![c] = None]
    /\ UNCHANGED <<now, table, due, notifier, entity, emails, rewinds, orphaned,
                   budget>>

\* External: it rejects, before or after the payment was written.
CreatePaymentFails(c) ==
    /\ Fault
    /\ cpc[c] = "create"
    /\ \E made \in {0, 1} :
         charges' = [charges EXCEPT ![claim[c].sub][claim[c].at] = @ + made]
    /\ cpc' = [cpc EXCEPT ![c] = "release"]
    /\ UNCHANGED <<now, table, due, claim, notifier, entity, emails, rewinds,
                   orphaned>>

\* Mutation: the claim is kept.
Release_KeepsClaim(c) ==
    /\ cpc[c] = "release"
    /\ cpc' = [cpc EXCEPT ![c] = "loop"]
    /\ claim' = [claim EXCEPT ![c] = None]
    /\ UNCHANGED <<now, table, due, notifier, entity, history, budget>>

\* The unconditional update of a release.  When the release of an earlier cycle
\* was there first, it is written over.
WriteBack(x) ==
    /\ next' = [next EXCEPT ![x.sub] = x.at]
    /\ rewinds' = [rewinds EXCEPT ![x.sub] = IF x.at < next[x.sub] THEN @ + 1 ELSE @]
    /\ orphaned' = orphaned \cup
         {[sub |-> x.sub, at |-> t] : t \in next[x.sub]..(x.at - 1)}

\* The claim is released.
Release(c) ==
    /\ cpc[c] = "release"
    /\ WriteBack(claim[c])
    /\ cpc' = [cpc EXCEPT ![c] = "loop"]
    /\ claim' = [claim EXCEPT ![c] = None]
    /\ UNCHANGED <<now, status, notified, due, notifier, entity, charges, emails,
                   budget>>

\* The release rejects too, whether or not it took effect: the error leaves the
\* job, the rest of the batch is left for the next run.
ReleaseFails(c) ==
    /\ Fault
    /\ cpc[c] = "release"
    /\ \/ WriteBack(claim[c])
       \/ /\ UNCHANGED <<next, rewinds>>
          /\ orphaned' = orphaned \cup {claim[c]}
    /\ cpc' = [cpc EXCEPT ![c] = "idle"]
    /\ due' = [due EXCEPT ![c] = {}]
    /\ claim' = [claim EXCEPT ![c] = None]
    /\ UNCHANGED <<now, status, notified, notifier, entity, charges, emails>>

ChargeDone(c) ==
    /\ cpc[c] = "loop" /\ due[c] = {}
    /\ cpc' = [cpc EXCEPT ![c] = "idle"]
    /\ UNCHANGED <<now, table, due, claim, notifier, entity, history, budget>>

Crash ==
    /\ crashes < MaxCrashes /\ faults + crashes < MaxFaults
    /\ crashes' = crashes + 1
    /\ UNCHANGED <<now, table, entity, charges, emails, rewinds, faults, cancels>>
    /\ \/ \E c \in Charger :
            /\ orphaned' = IF cpc[c] \in Claimed THEN orphaned \cup {claim[c]}
                                                ELSE orphaned
            /\ cpc' = [cpc EXCEPT ![c] = "idle"]
            /\ due' = [due EXCEPT ![c] = {}]
            /\ claim' = [claim EXCEPT ![c] = None]
            /\ UNCHANGED notifier
       \/ \E n \in Notifier :
            /\ npc' = [npc EXCEPT ![n] = "idle"]
            /\ upcoming' = [upcoming EXCEPT ![n] = {}]
            /\ notice' = [notice EXCEPT ![n] = None]
            /\ UNCHANGED <<charger, orphaned>>

Tick ==
    /\ now < MaxTime
    /\ now' = now + 1
    /\ UNCHANGED <<table, charger, notifier, entity, history, budget>>

NotifyStep(n) ==
    \/ NotifyRead(n) \/ MarkNotified(n) \/ NotifyDone(n)
    \/ \E x \in upcoming[n] : QueueNotice(n, x)

ChargeStep(c) ==
    \/ ChargeRead(c) \/ CreatePayment(c) \/ Release(c) \/ ChargeDone(c)
    \/ \E x \in due[c] : Claim(c, x) \/ ClaimLost(c, x)

Next ==
    \/ \E s \in Sub : \/ \E at \in Day : Create(s, at)
                      \/ CancelRead(s)
                      \/ \E e \in entity[s] : CancelSave(s, e)
    \/ \E n \in Notifier : \/ NotifyStep(n) \/ MarkNotifiedFails(n)
                           \/ \E x \in upcoming[n] : QueueNoticeFails(n, x)
    \/ \E c \in Charger : \/ ChargeStep(c) \/ CreatePaymentFails(c)
                          \/ ReleaseFails(c)
                          \/ \E x \in due[c] : ClaimFails(c, x)
    \/ Crash
    \/ Tick

Spec == Init /\ [][Next]_vars

\* Both jobs run every minute in every process, each loop runs to its end unless
\* the process dies, and time passes.
Fairness ==
    /\ \A n \in Notifier : WF_vars(NotifyStep(n))
    /\ \A c \in Charger : WF_vars(ChargeStep(c))
    /\ WF_vars(Tick)

FairSpec == Spec /\ Fairness

-----------------------------------------------------------------------------
TableOK ==
    /\ now \in 0..MaxTime
    /\ status \in [Sub -> {"absent", "active", "cancelled"}]
    /\ next \in [Sub -> Nat]
    /\ notified \in [Sub -> Nat]
    /\ entity \in [Sub -> SUBSET [next : Nat, notified : Nat]]

ChargerOK ==
    /\ cpc \in [Charger -> {"idle", "loop"} \cup Claimed]
    /\ due \in [Charger -> SUBSET [sub : Sub, at : Day]]
    /\ claim \in [Charger -> [sub : Sub, at : Day] \cup {None}]
    /\ \A c \in Charger : cpc[c] \in Claimed => claim[c] \in [sub : Sub, at : Day]

NotifierOK ==
    /\ npc \in [Notifier -> {"idle", "loop", "mark"}]
    /\ upcoming \in [Notifier -> SUBSET [sub : Sub, at : ChargeTime]]
    /\ notice \in [Notifier -> [sub : Sub, at : ChargeTime] \cup {None}]
    /\ \A n \in Notifier : npc[n] = "mark" => notice[n] \in [sub : Sub, at : ChargeTime]

HistoryOK ==
    /\ charges \in [Sub -> [Day -> Nat]]
    /\ emails \in [Sub -> SUBSET ChargeTime]
    /\ rewinds \in [Sub -> Nat]
    /\ orphaned \subseteq [sub : Sub, at : Day]
    /\ faults \in 0..MaxFaults /\ crashes \in 0..MaxCrashes
    /\ cancels \in 0..MaxCancels

\* The shape of recurring_payments and of the two jobs' locals.
TypeOK == TableOK /\ ChargerOK /\ NotifierOK /\ HistoryOK

\* The conditional update is what keeps overlapping runs from charging a cycle
\* twice: as long as no release and no cancel has moved nextChargeAt back, every
\* cycle has at most one payment, whatever runs overlap or die.
ClaimExcludes ==
    \A s \in Sub, t \in Day : rewinds[s] = 0 => charges[s][t] <= 1

\* recurring-payments.service.ts:100: a payment is created for a recurring payment
\* "whose merchant has already been notified": of this very charge, although the
\* notice is marked by another job and a cancel may write the mark back.
NotifiedBeforeCharged ==
    \A s \in Sub, t \in Day : charges[s][t] > 0 => t \in emails[s]

\* recurring-payments.service.ts:129: "Release the claim so the charge is retried
\* on the next run."  No cycle of an active subscription that has come is left
\* out for good, whatever runs overlap and whichever calls of the notice, the
\* charge or the release reject, unless its claim was written and the run that
\* wrote it is gone (it crashed, its release was lost as well, or the answer to
\* the claim itself was), or a later cycle was released over its release.
EveryCycleIsCharged ==
    \A s \in Sub : \A t \in Day :
        (status[s] = "active" /\ next[s] = t) ~>
            \/ charges[s][t] > 0
            \/ status[s] = "cancelled"
            \/ [sub |-> s, at |-> t] \in orphaned

=============================================================================
