----------------------------- MODULE AdminAlerts -----------------------------
(***************************************************************************)
(* AdminAlertService (src/src/alerts/admin-alert.service.ts) for one type  *)
(* and dedupeKey: everyone who raises the alert, the admins who answer it  *)
(* and the job that escalates it read the row, change the entity and save  *)
(* it, which writes every column that differs from the row.                *)
(***************************************************************************)
EXTENDS Integers

CONSTANTS
    AlertOp,               \* operations on the alert that overlap
    Cooldown, OverdueAge,
    MaxOccurrences,        \* bound: raises that are counted
    MaxAlertClock          \* bound: ticks of the clock

ASSUME AlertAssumption ==
    /\ Cooldown \in Nat /\ OverdueAge \in Nat
    /\ MaxOccurrences \in Nat /\ MaxAlertClock \in Nat

VARIABLES
    alert,       \* the row
    op,          \* per operation: its kind, what it read and when
    now,
    lastNotice,  \* history: when a raise last decided to notify; -1: never
    tooSoon,     \* history: two raises notified within a cool-down
    lostUpdate   \* history: a save overwrote another

alertVars == <<alert, op, now, lastNotice, tooSoon, lostUpdate>>

NoAlert == [status |-> "none", occurrences |-> 0, notifiedAt |-> 0, createdAt |-> 0]
NoOp == [kind |-> "none", read |-> NoAlert, time |-> 0]

AlertInit ==
    /\ alert = NoAlert
    /\ op = [o \in AlertOp |-> NoOp]
    /\ now = 0 /\ lastNotice = -1
    /\ tooSoon = FALSE /\ lostUpdate = FALSE

\* Every operation starts by reading the row; the thresholds are met.
ReadAlert(o, kind) ==
    /\ op[o] = NoOp
    /\ kind # "raise" => alert # NoAlert
    /\ kind = "escalate" => alert.status = "open" /\ now - alert.createdAt > OverdueAge
    /\ kind = "raise" => alert.occurrences < MaxOccurrences
    /\ op' = [op EXCEPT ![o] = [kind |-> kind, read |-> alert, time |-> now]]
    /\ UNCHANGED <<alert, now, lastNotice, tooSoon, lostUpdate>>

IsCoolingDown(o) == op[o].time - op[o].read.notifiedAt < Cooldown

Save(o, row) ==
    /\ alert' = row
    /\ op' = [op EXCEPT ![o] = NoOp]
    /\ lostUpdate' = (lostUpdate \/ alert # op[o].read)
    /\ UNCHANGED now

Notice(o) ==
    /\ lastNotice' = op[o].time
    /\ tooSoon' = (tooSoon \/ (lastNotice >= 0 /\ op[o].time - lastNotice < Cooldown))

\* The first raise inserts the row; the unique index rejects a second insert.
RaiseCreates(o) ==
    /\ op[o].kind = "raise" /\ op[o].read = NoAlert
    /\ IF alert = NoAlert
       THEN /\ Save(o, [status |-> "open", occurrences |-> 1,
                        notifiedAt |-> op[o].time, createdAt |-> op[o].time])
            /\ Notice(o)
       ELSE /\ op' = [op EXCEPT ![o] = NoOp]
            /\ UNCHANGED <<alert, now, lastNotice, tooSoon, lostUpdate>>

\* Within the cool-down only the count changes: the status is left as read.
RaiseCounts(o) ==
    /\ op[o].kind = "raise" /\ op[o].read # NoAlert /\ IsCoolingDown(o)
    /\ Save(o, [op[o].read EXCEPT !.occurrences = @ + 1])
    /\ UNCHANGED <<lastNotice, tooSoon>>

\* Mutation: the time of the notice is not stored.
RaiseReopens_KeepsTime(o) ==
    /\ op[o].kind = "raise" /\ op[o].read # NoAlert /\ ~IsCoolingDown(o)
    /\ Save(o, [op[o].read EXCEPT !.occurrences = @ + 1, !.status = "open"])
    /\ Notice(o)

RaiseReopens(o) ==
    /\ op[o].kind = "raise" /\ op[o].read # NoAlert /\ ~IsCoolingDown(o)
    /\ Save(o, [op[o].read EXCEPT !.occurrences = @ + 1, !.status = "open",
                                  !.notifiedAt = op[o].time])
    /\ Notice(o)

\* acknowledge and resolve accept an alert in any status.
Answer(o) ==
    /\ op[o].kind \in {"acknowledged", "resolved"}
    /\ Save(o, [op[o].read EXCEPT !.status = op[o].kind])
    /\ UNCHANGED <<lastNotice, tooSoon>>

\* escalateOverdueAlerts: an open alert is overdue by its creation, not by its
\* re-opening; it is announced again.
Escalate(o) ==
    /\ op[o].kind = "escalate"
    /\ Save(o, [op[o].read EXCEPT !.notifiedAt = op[o].time])
    /\ UNCHANGED <<lastNotice, tooSoon>>

AlertTick ==
    /\ now < MaxAlertClock
    /\ now' = now + 1
    /\ UNCHANGED <<alert, op, lastNotice, tooSoon, lostUpdate>>

AlertNext ==
    \/ AlertTick
    \/ \E o \in AlertOp :
          \/ \E kind \in {"raise", "acknowledged", "resolved", "escalate"} : ReadAlert(o, kind)
          \/ RaiseCreates(o) \/ RaiseCounts(o) \/ RaiseReopens(o)
          \/ Answer(o) \/ Escalate(o)

AlertSpec == AlertInit /\ [][AlertNext]_alertVars

-----------------------------------------------------------------------------
\* However raises, answers and escalations interleave, two raises notify the
\* admins within one cool-down only if a save has overwritten another one that
\* came after its read (raise, isCoolingDown).
CooldownSpacesNotices == tooSoon => lostUpdate
=============================================================================
