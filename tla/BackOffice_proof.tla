-------------------------- MODULE BackOffice_proof --------------------------
(***************************************************************************)
(* The components behind the API that the payment path does not go         *)
(* through.  They share no state; each section states the inductive        *)
(* invariant of one of them, shows that its operations keep it, and        *)
(* concludes the property for every value of the constants.                *)
(***************************************************************************)
EXTENDS AdminAlerts, Fees, Reviews, RequestLimits, Groups, Mail, NotificationPrefs,
        InAppNotifications, Exports, Merchants, Rankings, Access, Reports,
        FiniteSetTheorems, WellFoundedInduction, TLAPS

-----------------------------------------------------------------------------
(***************************************************************************)
(* Admin alerts: the cool-down, for any number of overlapping operations   *)
(* and any lengths of the cool-down and of the overdue age.                *)
(***************************************************************************)
AlertRow == [status : {"none", "open", "acknowledged", "resolved"},
             occurrences : Nat, notifiedAt : Nat, createdAt : Nat]
OpKind == {"none", "raise", "acknowledged", "resolved", "escalate"}

AlertTypes ==
    /\ alert \in AlertRow
    /\ op \in [AlertOp -> [kind : OpKind, read : AlertRow, time : Nat]]
    /\ now \in Nat
    /\ lastNotice \in Nat \cup {-1}
    /\ tooSoon \in BOOLEAN /\ lostUpdate \in BOOLEAN

\* No row is stamped in the future, also not as an operation has read it.
StampsArePast ==
    /\ alert.notifiedAt <= now
    /\ \A o \in AlertOp : op[o].time <= now /\ op[o].read.notifiedAt <= op[o].time

\* Until a save is lost the row knows of the last notice.
RowKnowsNotice ==
    ~lostUpdate => /\ lastNotice <= alert.notifiedAt
                   /\ alert = NoAlert => lastNotice = -1

\* The inductive invariant.
AlertInv == AlertTypes /\ StampsArePast /\ RowKnowsNotice /\ CooldownSpacesNotices

-----------------------------------------------------------------------------
\* A save whose row is stamped no earlier than what its operation read, with the
\* time of the operation or as it was, keeps the stamps in the past.
LEMMA SaveKeepsStamps ==
    ASSUME AlertTypes, StampsArePast, NEW o \in AlertOp, NEW row \in AlertRow,
           row.notifiedAt \in {op[o].read.notifiedAt, op[o].time}, Save(o, row)
    PROVE  /\ alert' = row /\ alert' \in AlertRow
           /\ op' \in [AlertOp -> [kind : OpKind, read : AlertRow, time : Nat]]
           /\ now' = now /\ lostUpdate' \in BOOLEAN
           /\ StampsArePast'
           /\ ~lostUpdate' => ~lostUpdate /\ alert = op[o].read
<1>1. /\ alert' = row /\ alert' \in AlertRow /\ now' = now
      /\ lostUpdate' \in BOOLEAN
      /\ ~lostUpdate' => ~lostUpdate /\ alert = op[o].read
  BY DEF Save, AlertTypes
<1>2. NoOp \in [kind : OpKind, read : AlertRow, time : Nat] /\ NoOp.time = 0
        /\ NoOp.read.notifiedAt = 0
  BY DEF NoOp, NoAlert, OpKind, AlertRow
<1>3. op' \in [AlertOp -> [kind : OpKind, read : AlertRow, time : Nat]]
  BY <1>2 DEF Save, AlertTypes
<1>4. \A q \in AlertOp : op'[q] = op[q] \/ op'[q] = NoOp
  BY DEF Save, AlertTypes
<1>5. row.notifiedAt <= now
  BY DEF StampsArePast, AlertTypes, AlertRow
<1>6. StampsArePast'
  BY <1>1, <1>2, <1>4, <1>5 DEF StampsArePast, AlertTypes
<1> QED
  BY <1>1, <1>3, <1>6

\* What a raise after the cool-down saves.
LEMMA ReopenedRow ==
    ASSUME NEW r \in AlertRow, NEW t \in Nat
    PROVE  LET row == [r EXCEPT !.occurrences = @ + 1, !.status = "open", !.notifiedAt = t]
           IN  row \in AlertRow /\ row.notifiedAt = t /\ row.occurrences # 0
<1> DEFINE counted == [r EXCEPT !.occurrences = @ + 1]
           opened  == [counted EXCEPT !.status = "open"]
           row     == [opened EXCEPT !.notifiedAt = t]
<1>1. counted \in AlertRow /\ counted.occurrences # 0
  BY DEF AlertRow
<1> HIDE DEF counted
<1>2. opened \in AlertRow /\ opened.occurrences # 0
  BY <1>1 DEF AlertRow
<1> HIDE DEF opened
<1>3. row \in AlertRow /\ row.occurrences # 0 /\ row.notifiedAt = t
  BY <1>2 DEF AlertRow
<1> QED
  BY <1>3 DEF counted, opened

\* raise: the row is created, counted or re-opened.
LEMMA RaiseKeepsInv ==
    ASSUME AlertInv, NEW o \in AlertOp, RaiseCreates(o) \/ RaiseCounts(o) \/ RaiseReopens(o)
    PROVE  AlertInv'
<1> USE DEF AlertInv
<1> op[o] \in [kind : OpKind, read : AlertRow, time : Nat]
  BY DEF AlertTypes
<1>1. CASE RaiseCreates(o)
  <2> DEFINE row == [status |-> "open", occurrences |-> 1,
                     notifiedAt |-> op[o].time, createdAt |-> op[o].time]
  <2>1. CASE alert = NoAlert
    <3>1. Save(o, row) /\ Notice(o) /\ row \in AlertRow /\ row.notifiedAt = op[o].time
            /\ row # NoAlert
      BY <1>1, <2>1 DEF RaiseCreates, AlertRow, NoAlert
    <3> HIDE DEF row
    <3>2. /\ alert' = row /\ alert' \in AlertRow
          /\ op' \in [AlertOp -> [kind : OpKind, read : AlertRow, time : Nat]]
          /\ now' = now /\ lostUpdate' \in BOOLEAN
          /\ StampsArePast'
          /\ ~lostUpdate' => ~lostUpdate /\ alert = op[o].read
      BY <3>1, SaveKeepsStamps
    <3>3. AlertTypes'
      BY <3>1, <3>2 DEF AlertTypes, Notice
    <3>4. RowKnowsNotice'
      BY <3>1, <3>2 DEF RowKnowsNotice, Notice, AlertTypes
    <3>5. CooldownSpacesNotices'
      BY <2>1, <3>1, <3>2 DEF CooldownSpacesNotices, RowKnowsNotice, Notice
    <3> QED BY <3>2, <3>3, <3>4, <3>5
  <2>2. CASE alert # NoAlert
    <3>1. op' = [op EXCEPT ![o] = NoOp] /\ UNCHANGED <<alert, now, lastNotice, tooSoon, lostUpdate>>
      BY <1>1, <2>2 DEF RaiseCreates
    <3>2. NoOp \in [kind : OpKind, read : AlertRow, time : Nat] /\ NoOp.time = 0
            /\ NoOp.read.notifiedAt = 0
      BY DEF NoOp, NoAlert, OpKind, AlertRow
    <3>3. AlertTypes' /\ \A q \in AlertOp : op'[q] = op[q] \/ op'[q] = NoOp
      BY <3>1, <3>2 DEF AlertTypes
    <3>4. StampsArePast'
      BY <3>1, <3>2, <3>3 DEF StampsArePast, AlertTypes
    <3> QED BY <3>1, <3>3, <3>4 DEF RowKnowsNotice, CooldownSpacesNotices
  <2> QED BY <2>1, <2>2
<1>2. CASE RaiseCounts(o)
  <2> DEFINE row == [op[o].read EXCEPT !.occurrences = @ + 1]
  <2>1. /\ Save(o, row) /\ UNCHANGED <<lastNotice, tooSoon>> /\ row \in AlertRow
        /\ row.notifiedAt = op[o].read.notifiedAt /\ row.occurrences # 0
    BY <1>2 DEF RaiseCounts, AlertRow
  <2> HIDE DEF row
  <2>2. /\ alert' = row /\ alert' \in AlertRow
        /\ op' \in [AlertOp -> [kind : OpKind, read : AlertRow, time : Nat]]
        /\ now' = now /\ lostUpdate' \in BOOLEAN
        /\ StampsArePast'
        /\ ~lostUpdate' => ~lostUpdate /\ alert = op[o].read
    BY <2>1, SaveKeepsStamps
  <2>3. AlertTypes'
    BY <2>1, <2>2 DEF AlertTypes
  <2>4. RowKnowsNotice'
    BY <2>1, <2>2 DEF RowKnowsNotice, NoAlert
  <2> QED BY <2>1, <2>2, <2>3, <2>4 DEF CooldownSpacesNotices
<1>3. CASE RaiseReopens(o)
  <2> DEFINE row == [op[o].read EXCEPT !.occurrences = @ + 1, !.status = "open",
                                       !.notifiedAt = op[o].time]
  <2>a. Save(o, row) /\ Notice(o) /\ ~IsCoolingDown(o)
    BY <1>3 DEF RaiseReopens
  <2>b. row \in AlertRow /\ row.notifiedAt = op[o].time /\ row.occurrences # 0
    BY ReopenedRow DEF OpKind
  <2> HIDE DEF row
  <2>1. /\ Save(o, row) /\ Notice(o) /\ ~IsCoolingDown(o) /\ row \in AlertRow
        /\ row.notifiedAt = op[o].time /\ row.occurrences # 0
    BY <2>a, <2>b
  <2>2. /\ alert' = row /\ alert' \in AlertRow
        /\ op' \in [AlertOp -> [kind : OpKind, read : AlertRow, time : Nat]]
        /\ now' = now /\ lostUpdate' \in BOOLEAN
        /\ StampsArePast'
        /\ ~lostUpdate' => ~lostUpdate /\ alert = op[o].read
    BY <2>1, SaveKeepsStamps
  <2>3. AlertTypes'
    BY <2>1, <2>2 DEF AlertTypes, Notice
  <2>4. RowKnowsNotice'
    BY <2>1, <2>2 DEF RowKnowsNotice, Notice, NoAlert
  <2>5. ~lostUpdate' => op[o].time - lastNotice >= Cooldown
    BY <2>1, <2>2, AlertAssumption
       DEF IsCoolingDown, RowKnowsNotice, AlertTypes, AlertRow
  <2>6. CooldownSpacesNotices'
    BY <2>1, <2>2, <2>5, AlertAssumption DEF CooldownSpacesNotices, Notice, AlertTypes
  <2> QED BY <2>2, <2>3, <2>4, <2>6
<1> QED
  BY <1>1, <1>2, <1>3

\* acknowledge, resolve and escalateOverdueAlerts: the count of a row that was
\* read is at least one, so that it is no missing row.
LEMMA AnswerKeepsInv ==
    ASSUME AlertInv, NEW o \in AlertOp, Answer(o) \/ Escalate(o)
    PROVE  AlertInv'
<1> USE DEF AlertInv
<1> op[o] \in [kind : OpKind, read : AlertRow, time : Nat]
  BY DEF AlertTypes
<1>1. CASE Answer(o)
  <2> DEFINE row == [op[o].read EXCEPT !.status = op[o].kind]
  <2>1. /\ Save(o, row) /\ UNCHANGED <<lastNotice, tooSoon>> /\ row \in AlertRow
        /\ row.notifiedAt = op[o].read.notifiedAt /\ row.status # "none"
    BY <1>1 DEF Answer, AlertRow
  <2> HIDE DEF row
  <2>2. /\ alert' = row /\ alert' \in AlertRow
        /\ op' \in [AlertOp -> [kind : OpKind, read : AlertRow, time : Nat]]
        /\ now' = now /\ lostUpdate' \in BOOLEAN
        /\ StampsArePast'
        /\ ~lostUpdate' => ~lostUpdate /\ alert = op[o].read
    BY <2>1, SaveKeepsStamps
  <2>3. AlertTypes'
    BY <2>1, <2>2 DEF AlertTypes
  <2>4. RowKnowsNotice'
    BY <2>1, <2>2 DEF RowKnowsNotice, NoAlert
  <2> QED BY <2>1, <2>2, <2>3, <2>4 DEF CooldownSpacesNotices
<1>2. CASE Escalate(o)
  <2> DEFINE row == [op[o].read EXCEPT !.notifiedAt = op[o].time]
  <2>1. /\ Save(o, row) /\ UNCHANGED <<lastNotice, tooSoon>> /\ row \in AlertRow
        /\ row.notifiedAt = op[o].time /\ row.status = op[o].read.status
        /\ row.occurrences = op[o].read.occurrences
        /\ row.createdAt = op[o].read.createdAt
    BY <1>2 DEF Escalate, AlertRow
  <2> HIDE DEF row
  <2>2. /\ alert' = row /\ alert' \in AlertRow
        /\ op' \in [AlertOp -> [kind : OpKind, read : AlertRow, time : Nat]]
        /\ now' = now /\ lostUpdate' \in BOOLEAN
        /\ StampsArePast'
        /\ ~lostUpdate' => ~lostUpdate /\ alert = op[o].read
    BY <2>1, SaveKeepsStamps
  <2>3. AlertTypes'
    BY <2>1, <2>2 DEF AlertTypes
  <2>4. ~lostUpdate' => lastNotice <= op[o].time
    BY <2>2 DEF RowKnowsNotice, StampsArePast, AlertTypes, AlertRow
  <2>5. ~lostUpdate' /\ row = NoAlert => lastNotice = -1
    BY <2>1, <2>2 DEF RowKnowsNotice, NoAlert, AlertRow, AlertTypes, StampsArePast
  <2>6. RowKnowsNotice'
    BY <2>1, <2>2, <2>4, <2>5 DEF RowKnowsNotice
  <2> QED BY <2>1, <2>2, <2>3, <2>6 DEF CooldownSpacesNotices
<1> QED
  BY <1>1, <1>2

\* The first read of an operation, and the clock.
LEMMA ReadKeepsInv ==
    ASSUME AlertInv, AlertTick \/ \E o \in AlertOp, kind \in OpKind \ {"none"} : ReadAlert(o, kind)
    PROVE  AlertInv'
<1> USE DEF AlertInv
<1>1. CASE AlertTick
  <2>1. AlertTypes' /\ now <= now'
    BY <1>1 DEF AlertTick, AlertTypes
  <2>2. StampsArePast'
    BY <1>1, <2>1 DEF AlertTick, StampsArePast, AlertTypes, AlertRow
  <2> QED BY <1>1, <2>1, <2>2 DEF AlertTick, RowKnowsNotice, CooldownSpacesNotices
<1>2. ASSUME NEW o \in AlertOp, NEW kind \in OpKind \ {"none"}, ReadAlert(o, kind)
      PROVE  AlertInv'
  <2>1. AlertTypes'
    BY <1>2 DEF ReadAlert, AlertTypes
  <2>2. StampsArePast'
    BY <1>2 DEF ReadAlert, StampsArePast, AlertTypes, AlertRow
  <2> QED BY <1>2, <2>1, <2>2 DEF ReadAlert, RowKnowsNotice, CooldownSpacesNotices
<1> QED
  BY <1>1, <1>2

-----------------------------------------------------------------------------
\* For any number of overlapping raises, answers and escalations: two raises
\* notify within one cool-down only if a save was lost (AdminAlertService.raise).
THEOREM CooldownHolds == AlertSpec => []CooldownSpacesNotices
<1>1. AlertInit => AlertInv
  <2> SUFFICES ASSUME AlertInit PROVE AlertInv
    OBVIOUS
  <2>1. NoAlert \in AlertRow /\ NoAlert.notifiedAt = 0
    BY DEF NoAlert, AlertRow
  <2>2. NoOp \in [kind : OpKind, read : AlertRow, time : Nat] /\ NoOp.time = 0
          /\ NoOp.read.notifiedAt = 0
    BY DEF NoOp, NoAlert, OpKind, AlertRow
  <2>3. AlertTypes
    BY <2>1, <2>2 DEF AlertInit, AlertTypes
  <2>4. StampsArePast /\ RowKnowsNotice /\ CooldownSpacesNotices
    BY <2>1, <2>2 DEF AlertInit, StampsArePast, RowKnowsNotice, CooldownSpacesNotices
  <2> QED BY <2>3, <2>4 DEF AlertInv
<1>2. AlertInv /\ [AlertNext]_alertVars => AlertInv'
  <2> SUFFICES ASSUME AlertInv, [AlertNext]_alertVars PROVE AlertInv'
    OBVIOUS
  <2>1. CASE UNCHANGED alertVars
    BY <2>1 DEF alertVars, AlertInv, AlertTypes, StampsArePast, RowKnowsNotice,
                CooldownSpacesNotices
  <2>2. CASE AlertNext
    BY <2>2, ReadKeepsInv, RaiseKeepsInv, AnswerKeepsInv DEF AlertNext, OpKind
  <2> QED BY <2>1, <2>2
<1>3. AlertInv => CooldownSpacesNotices
  BY DEF AlertInv
<1> QED
  BY <1>1, <1>2, <1>3, PTL DEF AlertSpec

-----------------------------------------------------------------------------
(***************************************************************************)
(* Global fees: the cached copy, for any number of readers, updates and    *)
(* rejected calls.                                                         *)
(***************************************************************************)
FeeValue == {"none", "initial"} \cup FeeUpdater

FeeTypes ==
    /\ baseFeeRate \in FeeValue /\ feeCache \in FeeValue
    /\ feeReader \in [FeeReader -> [at : {"idle", "fetch", "set", "done"}, value : FeeValue]]
    /\ feeUpdater \in [FeeUpdater -> [at : {"idle", "save", "del", "history", "done"},
                                      previous : FeeValue]]
    /\ feeOverlap \in BOOLEAN /\ feeDelMissed \in BOOLEAN

\* A reader that is about to store what it fetched holds the saved rate, unless
\* a save came in between: this is what a store relies on.
FetchedIsSaved ==
    \A r \in FeeReader :
        feeReader[r].at = "set" => feeReader[r].value = baseFeeRate \/ feeOverlap

\* The inductive invariant.
FeeInv == FeeTypes /\ FetchedIsSaved /\ FeesAreFresh

-----------------------------------------------------------------------------
\* getGlobalFees: a lookup, a fetch, a store, and the expiry of the copy.
LEMMA ReadingKeepsFresh ==
    ASSUME FeeInv, DropFees \/ \E r \in FeeReader : LookupFees(r) \/ FetchFees(r) \/ StoreFees(r)
    PROVE  FeeInv'
<1> USE DEF FeeInv
<1>1. CASE DropFees
  BY <1>1 DEF DropFees, FeeTypes, FeeValue, FetchedIsSaved, FeesAreFresh
<1>2. ASSUME NEW r \in FeeReader, LookupFees(r)
      PROVE  FeeInv'
  <2>1. FeeTypes'
    BY <1>2 DEF LookupFees, FeeTypes
  <2>2. FetchedIsSaved' /\ FeesAreFresh'
    BY <1>2 DEF LookupFees, FeeTypes, FetchedIsSaved, FeesAreFresh
  <2> QED BY <2>1, <2>2
<1>3. ASSUME NEW r \in FeeReader, FetchFees(r)
      PROVE  FeeInv'
  <2>1. FeeTypes'
    BY <1>3 DEF FetchFees, FeeTypes
  <2>2. FetchedIsSaved' /\ FeesAreFresh'
    BY <1>3 DEF FetchFees, FeeTypes, FetchedIsSaved, FeesAreFresh
  <2> QED BY <2>1, <2>2
<1>4. ASSUME NEW r \in FeeReader, StoreFees(r)
      PROVE  FeeInv'
  <2>1. FeeTypes'
    BY <1>4 DEF StoreFees, FeeTypes
  <2>2. FetchedIsSaved' /\ FeesAreFresh'
    BY <1>4 DEF StoreFees, FeeTypes, FetchedIsSaved, FeesAreFresh
  <2> QED BY <2>1, <2>2
<1> QED
  BY <1>1, <1>2, <1>3, <1>4

\* updateGlobalFee: the steps that do not change the row.
LEMMA UpdatingKeepsFresh ==
    ASSUME FeeInv, NEW u \in FeeUpdater,
           FindFee(u) \/ DeleteFees(u) \/ RecordFeeHistory(u) \/ UpdateFeeRejects(u)
    PROVE  FeeInv'
<1> USE DEF FeeInv
<1>1. CASE FindFee(u)
  <2>1. FeeTypes'
    BY <1>1 DEF FindFee, FeeTypes
  <2>2. FetchedIsSaved' /\ FeesAreFresh'
    BY <1>1 DEF FindFee, FeeTypes, FetchedIsSaved, FeesAreFresh
  <2> QED BY <2>1, <2>2
<1>2. CASE DeleteFees(u)
  <2>1. FeeTypes'
    BY <1>2 DEF DeleteFees, FeeTypes, FeeValue
  <2>2. FetchedIsSaved' /\ FeesAreFresh'
    BY <1>2 DEF DeleteFees, FeeTypes, FetchedIsSaved, FeesAreFresh
  <2> QED BY <2>1, <2>2
<1>3. CASE RecordFeeHistory(u)
  <2>1. FeeTypes'
    BY <1>3 DEF RecordFeeHistory, FeeTypes
  <2>2. FetchedIsSaved' /\ FeesAreFresh'
    BY <1>3 DEF RecordFeeHistory, FeeTypes, FetchedIsSaved, FeesAreFresh
  <2> QED BY <2>1, <2>2
<1>4. CASE UpdateFeeRejects(u)
  <2>1. FeeTypes'
    BY <1>4 DEF UpdateFeeRejects, FeeTypes
  <2>2. FetchedIsSaved' /\ FeesAreFresh'
    BY <1>4 DEF UpdateFeeRejects, FeeTypes, FetchedIsSaved, FeesAreFresh
  <2> QED BY <2>1, <2>2
<1> QED
  BY <1>1, <1>2, <1>3, <1>4

\* The save: the copy may be old now, but its deletion is still to come, and a
\* reader that is about to store an old rate has been overtaken.
LEMMA SavingKeepsFresh ==
    ASSUME FeeInv, NEW u \in FeeUpdater, SaveFee(u)
    PROVE  FeeInv'
<1> USE DEF FeeInv, SaveFee
<1>1. FeeTypes'
  BY DEF FeeTypes, FeeValue
<1>2. FetchedIsSaved'
  BY DEF FeeTypes, FetchedIsSaved
<1>3. feeUpdater'[u].at = "del"
  BY DEF FeeTypes
<1> QED
  BY <1>1, <1>2, <1>3 DEF FeesAreFresh

\* A save without an answer: the copy may stay, and that is recorded.
LEMMA LostSaveKeepsFresh ==
    ASSUME FeeInv, NEW u \in FeeUpdater, SaveAnswerLost(u)
    PROVE  FeeInv'
<1> USE DEF FeeInv, SaveAnswerLost
<1>1. FeeTypes'
  BY DEF FeeTypes, FeeValue
<1>2. FetchedIsSaved'
  BY DEF FeeTypes, FetchedIsSaved
<1> QED
  BY <1>1, <1>2 DEF FeesAreFresh

-----------------------------------------------------------------------------
\* For any number of readers and updates on any number of replicas, and any
\* rejected calls: past the deletion of an update the cached copy is the saved
\* rate, unless a fetch was overtaken by the save or no deletion followed a save
\* that took effect (getGlobalFees, updateGlobalFee).
THEOREM FeesStayFresh == FeeSpec => []FeesAreFresh
<1>1. FeeInit => FeeInv
  <2> SUFFICES ASSUME FeeInit PROVE FeeInv
    OBVIOUS
  <2>1. FeeTypes
    BY DEF FeeInit, FeeTypes, FeeValue
  <2>2. FetchedIsSaved /\ FeesAreFresh
    BY DEF FeeInit, FetchedIsSaved, FeesAreFresh
  <2> QED BY <2>1, <2>2 DEF FeeInv
<1>2. FeeInv /\ [FeeNext]_feeVars => FeeInv'
  <2> SUFFICES ASSUME FeeInv, [FeeNext]_feeVars PROVE FeeInv'
    OBVIOUS
  <2>1. CASE UNCHANGED feeVars
    BY <2>1 DEF feeVars, FeeInv, FeeTypes, FetchedIsSaved, FeesAreFresh
  <2>2. CASE FeeNext
    BY <2>2, ReadingKeepsFresh, UpdatingKeepsFresh, SavingKeepsFresh, LostSaveKeepsFresh DEF FeeNext
  <2> QED BY <2>1, <2>2
<1>3. FeeInv => FeesAreFresh
  BY DEF FeeInv
<1> QED
  BY <1>1, <1>2, <1>3, PTL DEF FeeSpec

-----------------------------------------------------------------------------
(***************************************************************************)
(* Disputes and flags: what the escalation jobs may do to a closed case.   *)
(***************************************************************************)
CaseStatus == {"none", "OPEN", "PENDING", "UNDER_REVIEW", "RESOLVED", "CLEARED", "ESCALATED"}
RunRow == [found : SUBSET Case, alert : Case \cup {Nobody}]

ReviewTypes ==
    /\ cases \in [Case -> CaseStatus]
    /\ filing \in [Filer -> Dispute \cup {Nobody}]
    /\ reviewing \in [Reviewer -> (Case \X CaseStatus) \cup {<<Nobody, Nobody>>}]
    /\ escalating \in [EscalationRun -> RunRow]

\* A closed case that a run still holds was closed under that run.
FoundIsListed == \A c \in Case : cases[c] \in Closed /\ Found(c) => c \in listed

\* The inductive invariant.
ReviewInv == ReviewTypes /\ FoundIsListed

-----------------------------------------------------------------------------
\* What a reviewer saves is a status of a case, or there is nothing to save.
LEMMA DecisionShape ==
    ASSUME ReviewTypes, NEW v \in Reviewer, reviewing[v][1] # Nobody
    PROVE  /\ reviewing[v][1] \in Case /\ reviewing[v][2] \in CaseStatus
           /\ reviewing[v] = <<reviewing[v][1], reviewing[v][2]>>
  BY DEF ReviewTypes

\* Disputes and flags come to exist, and their deadlines pass.
LEMMA FilingKeepsInv ==
    ASSUME ReviewInv,
           \/ \E f \in Filer : SaveDispute(f) \/ \E d \in Dispute : RaiseDispute(f, d)
           \/ \E g \in Flag : CreateFlag(g)
           \/ \E c \in Case : DeadlinePasses(c)
    PROVE  ReviewInv'
<1> USE DEF ReviewInv
<1>1. ASSUME NEW f \in Filer, SaveDispute(f)
      PROVE  ReviewInv'
  <2>1. filing[f] \in Dispute
    BY <1>1 DEF SaveDispute, ReviewTypes
  <2>2. ReviewTypes'
    BY <1>1, <2>1 DEF SaveDispute, ReviewTypes, CaseStatus, Case
  <2>3. FoundIsListed'
    BY <1>1, <2>1 DEF SaveDispute, ReviewTypes, FoundIsListed, Found, Closed, Case
  <2> QED BY <2>2, <2>3
<1>2. ASSUME NEW f \in Filer, NEW d \in Dispute, RaiseDispute(f, d)
      PROVE  ReviewInv'
  BY <1>2 DEF RaiseDispute, ReviewTypes, FoundIsListed, Found
<1>3. ASSUME NEW g \in Flag, CreateFlag(g)
      PROVE  ReviewInv'
  <2>1. ReviewTypes'
    BY <1>3 DEF CreateFlag, ReviewTypes, CaseStatus, Case
  <2>2. FoundIsListed'
    BY <1>3 DEF CreateFlag, ReviewTypes, FoundIsListed, Found, Closed, Case
  <2> QED BY <2>1, <2>2
<1>4. ASSUME NEW c \in Case, DeadlinePasses(c)
      PROVE  ReviewInv'
  BY <1>4 DEF DeadlinePasses, ReviewTypes, FoundIsListed, Found
<1> QED
  BY <1>1, <1>2, <1>3, <1>4

\* review: a decision that closes a case a run holds is put on the list.
LEMMA ReviewKeepsInv ==
    ASSUME ReviewInv, NEW v \in Reviewer,
           \/ \E c \in Case : \E d \in Decisions(c) : ReviewReads(v, c, d)
           \/ ReviewSaves(v) \/ ReviewRejects(v)
    PROVE  ReviewInv'
<1> USE DEF ReviewInv
<1>1. ASSUME NEW k \in Case, NEW d \in Decisions(k), ReviewReads(v, k, d)
      PROVE  ReviewInv'
  <2>1. d \in CaseStatus
    BY DEF Decisions, CaseStatus
  <2> QED
    BY <1>1, <2>1 DEF ReviewReads, ReviewTypes, FoundIsListed, Found
<1>2. CASE ReviewSaves(v) \/ ReviewRejects(v)
  <2>1. reviewing[v][1] \in Case /\ reviewing[v][2] \in CaseStatus
    BY <1>2, DecisionShape DEF ReviewSaves, ReviewRejects
  <2>2. /\ reviewing' = [reviewing EXCEPT ![v] = <<Nobody, Nobody>>]
        /\ UNCHANGED <<filing, escalating>>
    BY <1>2 DEF ReviewSaves, ReviewRejects
  <2>3. \/ UNCHANGED <<cases, listed>>
        \/ /\ cases' = [cases EXCEPT ![reviewing[v][1]] = reviewing[v][2]]
           /\ listed \ {reviewing[v][1]} \subseteq listed'
           /\ reviewing[v][2] \in Closed /\ Found(reviewing[v][1]) => reviewing[v][1] \in listed'
    BY <1>2 DEF ReviewSaves, ReviewRejects, Closed
  <2>4. ReviewTypes'
    BY <2>1, <2>2, <2>3 DEF ReviewTypes
  <2>5. FoundIsListed'
    BY <2>1, <2>2, <2>3 DEF ReviewTypes, FoundIsListed, Found
  <2> QED BY <2>4, <2>5
<1> QED
  BY <1>1, <1>2

\* escalateOverdue: a run finds open cases only.
LEMMA EscalationKeepsInv ==
    ASSUME ReviewInv, NEW e \in EscalationRun,
           \/ \E kind \in {Dispute, Flag} : EscalateFinds(e, kind)
           \/ \E c \in Case : EscalateSaves(e, c)
           \/ EscalateAlerts(e) \/ EscalateRejects(e)
    PROVE  ReviewInv'
<1> USE DEF ReviewInv
<1>1. ASSUME NEW kind \in {Dispute, Flag}, EscalateFinds(e, kind)
      PROVE  ReviewInv'
  <2>1. Overdue(kind) \in SUBSET Case
    BY DEF Overdue, Case
  <2>2. ReviewTypes' /\ escalating'[e].found = Overdue(kind)
          /\ \A q \in EscalationRun \ {e} : escalating'[q] = escalating[q]
    BY <1>1, <2>1 DEF EscalateFinds, ReviewTypes, RunRow
  <2>3. FoundIsListed'
    BY <1>1, <2>2 DEF EscalateFinds, FoundIsListed, Found, Overdue, Closed
  <2> QED BY <2>2, <2>3
<1>2. ASSUME NEW c \in Case, EscalateSaves(e, c)
      PROVE  ReviewInv'
  <2>1. escalating[e] \in RunRow
    BY DEF ReviewTypes
  <2>2. escalating' = [escalating EXCEPT ![e] = [found |-> escalating[e].found \ {c}, alert |-> c]]
    BY <1>2 DEF EscalateSaves
  <2>3. [found |-> escalating[e].found \ {c}, alert |-> c] \in RunRow
    BY <2>1 DEF RunRow
  <2>4. ReviewTypes'
    BY <1>2, <2>2, <2>3 DEF EscalateSaves, ReviewTypes, CaseStatus
  <2>5. \A k \in Case : Found(k)' => Found(k)
    BY <2>2 DEF Found, ReviewTypes
  <2>6. FoundIsListed'
    BY <1>2, <2>5 DEF EscalateSaves, FoundIsListed, ReviewTypes, Closed
  <2> QED BY <2>4, <2>6
<1>3. CASE EscalateAlerts(e) \/ EscalateRejects(e)
  <2>1. escalating[e] \in RunRow
    BY DEF ReviewTypes
  <2>2. PICK row \in RunRow : /\ escalating' = [escalating EXCEPT ![e] = row]
                              /\ row.found \subseteq escalating[e].found
    <3>1. CASE EscalateAlerts(e)
      <4>1. /\ escalating' = [escalating EXCEPT ![e] = [escalating[e] EXCEPT !.alert = Nobody]]
            /\ [escalating[e] EXCEPT !.alert = Nobody] \in RunRow
            /\ [escalating[e] EXCEPT !.alert = Nobody].found = escalating[e].found
        BY <3>1, <2>1 DEF EscalateAlerts, RunRow
      <4> QED BY <4>1
    <3>2. CASE EscalateRejects(e)
      <4>1. [found |-> {}, alert |-> Nobody] \in RunRow
        BY DEF RunRow
      <4> QED BY <3>2, <4>1 DEF EscalateRejects
    <3> QED BY <1>3, <3>1, <3>2
  <2>3. UNCHANGED <<cases, filing, reviewing, listed>>
    BY <1>3 DEF EscalateAlerts, EscalateRejects
  <2>4. ReviewTypes'
    BY <2>2, <2>3 DEF ReviewTypes
  <2>5. \A k \in Case : Found(k)' => Found(k)
    BY <2>2 DEF Found, ReviewTypes
  <2> QED BY <2>3, <2>4, <2>5 DEF FoundIsListed
<1> QED
  BY <1>1, <1>2, <1>3

\* The invariant of the reviews, for any number of reviewers and runs.
LEMMA ReviewInvariant == ReviewSpec => []ReviewInv
<1>1. ReviewInit => ReviewInv
  <2> SUFFICES ASSUME ReviewInit PROVE ReviewInv
    OBVIOUS
  <2>1. [found |-> {}, alert |-> Nobody] \in RunRow
    BY DEF RunRow
  <2>2. ReviewTypes
    BY <2>1 DEF ReviewInit, ReviewTypes, CaseStatus
  <2> QED BY <2>2 DEF ReviewInit, ReviewInv, FoundIsListed, Closed
<1>2. ReviewInv /\ [ReviewNext]_reviewVars => ReviewInv'
  <2> SUFFICES ASSUME ReviewInv, [ReviewNext]_reviewVars PROVE ReviewInv'
    OBVIOUS
  <2>1. CASE UNCHANGED reviewVars
    BY <2>1 DEF reviewVars, ReviewInv, ReviewTypes, FoundIsListed, Found
  <2>2. CASE ReviewNext
    BY <2>2, FilingKeepsInv, ReviewKeepsInv, EscalationKeepsInv DEF ReviewNext, FlagHighValue, FlagHighVelocity
  <2> QED BY <2>1, <2>2
<1> QED
  BY <1>1, <1>2, PTL DEF ReviewSpec

\* For any number of cases, reviewers and overlapping runs: a closed case is
\* escalated again only by a reviewer, or by a run that had found it while it
\* was open (DisputesService.escalateOverdue, AmlService.escalateOverdue).
THEOREM ClosedStaysClosed == ReviewSpec => ClosedIsEscalatedByOldRunsOnly
<1> DEFINE Step == \A c \in Case :
          cases[c] \in Closed /\ cases'[c] = "ESCALATED"
             => \/ c \in listed
                \/ \E v \in Reviewer : /\ reviewing[v] = <<c, "ESCALATED">>
                                         /\ reviewing'[v] # reviewing[v]
<1>1. ReviewInv /\ [ReviewNext]_reviewVars => [Step]_reviewVars
  <2> SUFFICES ASSUME ReviewInv, ReviewNext,
                      NEW c \in Case, cases[c] \in Closed, cases'[c] = "ESCALATED"
               PROVE  \/ c \in listed
                      \/ \E v \in Reviewer : /\ reviewing[v] = <<c, "ESCALATED">>
                                             /\ reviewing'[v] # reviewing[v]
    OBVIOUS
  <2> USE DEF ReviewInv
  <2>0. cases[c] # cases'[c] /\ cases \in [Case -> CaseStatus]
    BY DEF Closed, ReviewTypes
  <2>1. ASSUME NEW f \in Filer, SaveDispute(f)
        PROVE  FALSE
    BY <2>0, <2>1 DEF SaveDispute
  <2>2. ASSUME NEW f \in Filer, NEW d \in Dispute, RaiseDispute(f, d)
        PROVE  FALSE
    BY <2>0, <2>2 DEF RaiseDispute
  <2>3. ASSUME NEW g \in Flag, CreateFlag(g)
        PROVE  FALSE
    BY <2>0, <2>3 DEF CreateFlag
  <2>4. ASSUME NEW k \in Case, DeadlinePasses(k)
        PROVE  FALSE
    BY <2>0, <2>4 DEF DeadlinePasses
  <2>5. ASSUME NEW v \in Reviewer, NEW k, NEW d, ReviewReads(v, k, d)
        PROVE  FALSE
    BY <2>0, <2>5 DEF ReviewReads
  <2>6. ASSUME NEW v \in Reviewer, ReviewSaves(v) \/ ReviewRejects(v)
        PROVE  reviewing[v] = <<c, "ESCALATED">> /\ reviewing'[v] # reviewing[v]
    <3>1. reviewing[v][1] \in Case /\ reviewing[v] = <<reviewing[v][1], reviewing[v][2]>>
      BY <2>6, DecisionShape DEF ReviewSaves, ReviewRejects
    <3>2. cases' = cases \/ cases' = [cases EXCEPT ![reviewing[v][1]] = reviewing[v][2]]
      BY <2>6 DEF ReviewSaves, ReviewRejects
    <3>3. reviewing[v][1] = c /\ reviewing[v][2] = "ESCALATED"
      BY <2>0, <3>1, <3>2
    <3>4. reviewing'[v] = <<Nobody, Nobody>>
      BY <2>6 DEF ReviewSaves, ReviewRejects, ReviewTypes
    <3>5. <<Nobody, Nobody>> # <<c, "ESCALATED">>
      BY ReviewAssumption
    <3> QED BY <3>1, <3>3, <3>4, <3>5
  <2>7. ASSUME NEW e \in EscalationRun, NEW k \in Case, EscalateSaves(e, k)
        PROVE  c \in listed
    <3>1. k = c
      BY <2>0, <2>7 DEF EscalateSaves
    <3>2. Found(c)
      BY <2>7, <3>1 DEF EscalateSaves, Found
    <3> QED BY <3>2 DEF FoundIsListed
  <2>8. ASSUME NEW e \in EscalationRun, EscalateAlerts(e) \/ EscalateRejects(e)
        PROVE  FALSE
    BY <2>0, <2>8 DEF EscalateAlerts, EscalateRejects
  <2>9. ASSUME NEW e \in EscalationRun, NEW kind, EscalateFinds(e, kind)
        PROVE  FALSE
    BY <2>0, <2>9 DEF EscalateFinds
  <2> QED
    BY <2>1, <2>2, <2>3, <2>4, <2>5, <2>6, <2>7, <2>8, <2>9 DEF ReviewNext, FlagHighValue, FlagHighVelocity
<1> QED
  BY <1>1, ReviewInvariant, PTL DEF ReviewSpec, ClosedIsEscalatedByOldRunsOnly

-----------------------------------------------------------------------------
(***************************************************************************)
(* Request ids and daily limits.                                           *)
(***************************************************************************)
RequestStage == InFlight \cup {"new", "replayed", "conflict", "answered", "failed", "refused",
                               "breach", "rejected"}
Busy == InFlight \cup {"answered"}

AnswerTypes ==
    /\ stage \in [Request -> RequestStage]
    /\ answers \in [RequestId -> (Request \cup {NoAnswer}) \X Nat]
    /\ replayOf \in [Request -> Request \cup {NoAnswer}]
    /\ handled \subseteq Request
    /\ tick \in Nat

\* A payment was created by a request that holds it, has stored its answer, or
\* has failed to.
HandledIsHeld ==
    \A r \in handled : \/ stage[r] \in {"created", "answered"}
                       \/ stage[r] = "failed" /\ IdOf[r] \in excused

\* Of the requests of one id, one is under way or answered.
OneIsBusy ==
    \A r, s \in Request :
        IdOf[r] = IdOf[s] /\ IdOf[r] \notin excused /\ stage[r] \in Busy /\ stage[s] \in Busy
           => r = s

\* The answer that was stored can still be found.
AnswerIsFound ==
    \A r \in Request : stage[r] = "answered" /\ IdOf[r] \notin excused
                          => answers[IdOf[r]][1] # NoAnswer

ReplaysMatch == \A r \in Request : replayOf[r] # NoAnswer => BodyOf[replayOf[r]] = BodyOf[r]

\* The inductive invariant of IdempotencyInterceptor.
AnswerInv == AnswerTypes /\ HandledIsHeld /\ OneIsBusy /\ AnswerIsFound /\ ReplaysMatch

-----------------------------------------------------------------------------
\* A step of the limit check: a request in flight goes on, or ends unanswered.
LEMMA CheckStepKeepsAnswers ==
    ASSUME AnswerInv, NEW r \in Request, NEW to \in RequestStage \ {"answered"},
           stage' = [stage EXCEPT ![r] = to], stage[r] \in RequestStage \ {"created", "answered", "failed"},
           to \in InFlight => stage[r] \in InFlight,
           UNCHANGED <<answerVars, tick>>
    PROVE  AnswerInv'
<1> USE DEF AnswerInv, answerVars
<1>1. AnswerTypes'
  BY DEF AnswerTypes
<1>2. HandledIsHeld'
  BY DEF AnswerTypes, HandledIsHeld
<1>3. OneIsBusy'
  BY DEF AnswerTypes, OneIsBusy, Busy
<1>4. AnswerIsFound' /\ ReplaysMatch'
  BY DEF AnswerTypes, AnswerIsFound, ReplaysMatch
<1> QED BY <1>1, <1>2, <1>3, <1>4

\* The steps of checkAndIncrement and of the sliding window.
LEMMA ChecksKeepAnswers ==
    ASSUME AnswerInv, NEW r \in Request,
           \/ Trim(r) \/ Count(r) \/ AddEntry(r) \/ SetExpiry(r) \/ FallBackToMemory(r)
           \/ ReadBreaches(r) \/ StoreBreaches(r)
    PROVE  AnswerInv'
<1>1. PICK to \in {"trimmed", "counted", "added", "admitted", "refused", "breach", "rejected"} :
          stage' = [stage EXCEPT ![r] = to] /\ (to \in InFlight => stage[r] \in InFlight)
  BY DEF Trim, Count, AddEntry, SetExpiry, FallBackToMemory, ReadBreaches, StoreBreaches, Goto,
         InFlight
<1>2. stage[r] \in {"handling", "trimmed", "counted", "added", "refused", "breach"}
  BY DEF Trim, Count, AddEntry, SetExpiry, FallBackToMemory, ReadBreaches, StoreBreaches, Goto
<1>3. UNCHANGED <<answerVars, tick>>
  BY DEF Trim, Count, AddEntry, SetExpiry, FallBackToMemory, ReadBreaches, StoreBreaches
<1>4. to \in RequestStage \ {"answered"}
        /\ stage[r] \in RequestStage \ {"created", "answered", "failed"}
  BY <1>2 DEF RequestStage, InFlight
<1> QED
  BY <1>1, <1>3, <1>4, CheckStepKeepsAnswers

\* intercept: the answer that is found, the handler, and the answer it stores.
LEMMA InterceptKeepsAnswers ==
    ASSUME AnswerInv, NEW r \in Request,
           Replay(r) \/ Handle(r) \/ CreatePayment(r) \/ StoreAnswer(r) \/ RequestFails(r)
    PROVE  AnswerInv'
<1> USE DEF AnswerInv
<1>0. IdOf[r] \in RequestId
  BY DEF RequestId
<1>1. CASE Replay(r)
  <2> DEFINE by == answers[IdOf[r]][1]
  <2>1. by \in Request
    BY <1>0, <1>1 DEF Replay, AnswerTypes
  <2> HIDE DEF by
  <2>2. /\ \E to \in {"replayed", "conflict"} : stage' = [stage EXCEPT ![r] = to]
        /\ stage[r] = "new" /\ UNCHANGED <<answers, handled, excused, tick>>
        /\ \/ UNCHANGED replayOf
           \/ replayOf' = [replayOf EXCEPT ![r] = by] /\ BodyOf[by] = BodyOf[r]
    BY <1>1 DEF Replay, Goto, by
  <2>3. AnswerTypes'
    BY <2>1, <2>2 DEF AnswerTypes, RequestStage
  <2>4. HandledIsHeld' /\ AnswerIsFound'
    BY <2>2 DEF AnswerTypes, HandledIsHeld, AnswerIsFound
  <2>5. OneIsBusy'
    BY <2>2 DEF AnswerTypes, OneIsBusy, Busy, InFlight
  <2>6. ReplaysMatch'
    BY <2>1, <2>2 DEF AnswerTypes, ReplaysMatch
  <2> QED BY <2>3, <2>4, <2>5, <2>6
<1>2. CASE Handle(r)
  <2>1. /\ answers[IdOf[r]][1] = NoAnswer /\ stage[r] = "new"
        /\ stage' = [stage EXCEPT ![r] = "handling"]
        /\ excused \subseteq excused' /\ (Overlaps(r) => IdOf[r] \in excused')
        /\ UNCHANGED <<answers, handled, replayOf, tick>>
    BY <1>2 DEF Handle, Goto
  <2>2. AnswerTypes'
    BY <2>1 DEF AnswerTypes, RequestStage, InFlight
  <2>3. HandledIsHeld' /\ AnswerIsFound' /\ ReplaysMatch'
    BY <2>1 DEF AnswerTypes, HandledIsHeld, AnswerIsFound, ReplaysMatch
  <2>4. \A s \in Request : IdOf[s] = IdOf[r] /\ IdOf[r] \notin excused' => stage[s] \notin Busy
    BY <2>1 DEF Overlaps, AnswerIsFound, Busy
  <2>5. OneIsBusy'
    <3> SUFFICES ASSUME NEW a \in Request, NEW b \in Request, IdOf[a] = IdOf[b],
                        IdOf[a] \notin excused', stage'[a] \in Busy, stage'[b] \in Busy
                 PROVE  a = b
      BY DEF OneIsBusy
    <3> QED BY <2>1, <2>4 DEF AnswerTypes, OneIsBusy
  <2> QED BY <2>2, <2>3, <2>5
<1>3. CASE CreatePayment(r)
  <2>1. /\ stage[r] = "admitted" /\ stage' = [stage EXCEPT ![r] = "created"]
        /\ handled' = handled \cup {r} /\ UNCHANGED <<answers, excused, replayOf, tick>>
    BY <1>3 DEF CreatePayment, Goto
  <2>2. AnswerTypes'
    BY <2>1 DEF AnswerTypes, RequestStage, InFlight
  <2>3. HandledIsHeld' /\ AnswerIsFound' /\ ReplaysMatch'
    BY <2>1 DEF AnswerTypes, HandledIsHeld, AnswerIsFound, ReplaysMatch
  <2>4. OneIsBusy'
    BY <2>1 DEF AnswerTypes, OneIsBusy, Busy, InFlight
  <2> QED BY <2>2, <2>3, <2>4
<1>4. CASE StoreAnswer(r)
  <2>1. /\ stage[r] = "created" /\ stage' = [stage EXCEPT ![r] = "answered"]
        /\ answers' = [answers EXCEPT ![IdOf[r]] = <<r, tick>>]
        /\ UNCHANGED <<handled, excused, replayOf, tick>>
    BY <1>4 DEF StoreAnswer, Goto
  <2>2. AnswerTypes'
    BY <1>0, <2>1 DEF AnswerTypes, RequestStage
  <2>3. HandledIsHeld' /\ ReplaysMatch'
    BY <2>1 DEF AnswerTypes, HandledIsHeld, ReplaysMatch
  <2>4. AnswerIsFound'
    BY <1>0, <2>1, RequestAssumption DEF AnswerTypes, AnswerIsFound
  <2>5. OneIsBusy'
    BY <2>1 DEF AnswerTypes, OneIsBusy, Busy, InFlight
  <2> QED BY <2>2, <2>3, <2>4, <2>5
<1>5. CASE RequestFails(r)
  <2>1. /\ stage[r] \in {"new", "admitted", "created"}
        /\ stage' = [stage EXCEPT ![r] = "failed"]
        /\ excused \subseteq excused' /\ (stage[r] = "created" => IdOf[r] \in excused')
        /\ UNCHANGED <<answers, handled, replayOf, tick>>
    BY <1>5 DEF RequestFails
  <2>2. AnswerTypes'
    BY <2>1 DEF AnswerTypes, RequestStage
  <2>3. HandledIsHeld' /\ AnswerIsFound' /\ ReplaysMatch'
    BY <2>1 DEF AnswerTypes, HandledIsHeld, AnswerIsFound, ReplaysMatch
  <2>4. OneIsBusy'
    <3> SUFFICES ASSUME NEW a \in Request, NEW b \in Request, IdOf[a] = IdOf[b],
                        IdOf[a] \notin excused', stage'[a] \in Busy, stage'[b] \in Busy
                 PROVE  a = b
      BY DEF OneIsBusy
    <3>1. stage[a] \in Busy /\ stage[b] \in Busy /\ IdOf[a] \notin excused
      BY <2>1 DEF AnswerTypes, Busy, InFlight
    <3> QED BY <3>1 DEF OneIsBusy
  <2> QED BY <2>2, <2>3, <2>4
<1> QED
  BY <1>1, <1>2, <1>3, <1>4, <1>5

\* An answer that expires excuses its id.
LEMMA ExpiryKeepsAnswers ==
    ASSUME AnswerInv, RequestTick
    PROVE  AnswerInv'
<1> USE DEF AnswerInv
<1>1. PICK stale : /\ answers' = [i \in RequestId |-> IF i \in stale THEN <<NoAnswer, 0>> ELSE answers[i]]
                   /\ excused' = excused \cup stale
                   /\ tick' = tick + 1 /\ UNCHANGED <<stage, handled, replayOf>>
  BY DEF RequestTick
<1>2. AnswerTypes'
  BY <1>1 DEF AnswerTypes
<1>3. HandledIsHeld' /\ ReplaysMatch'
  BY <1>1 DEF HandledIsHeld, ReplaysMatch
<1>5. OneIsBusy'
  <2> SUFFICES ASSUME NEW a \in Request, NEW b \in Request, IdOf[a] = IdOf[b],
                      IdOf[a] \notin excused', stage'[a] \in Busy, stage'[b] \in Busy
               PROVE  a = b
    BY DEF OneIsBusy
  <2> QED BY <1>1 DEF OneIsBusy
<1>4. AnswerIsFound'
  BY <1>1 DEF AnswerIsFound, RequestId
<1> QED BY <1>2, <1>3, <1>4, <1>5

\* For any number of requests under any ids, any time-to-live and any rejected
\* calls: two payments under one X-Request-ID need an overlap, a lost answer or
\* an expired one, and a replayed answer was given to an identical request
\* (IdempotencyInterceptor.intercept).
THEOREM IdHandledOnce == LimitSpec => []HandledOnceUnlessOverlapping
<1>1. LimitInit => AnswerInv
  <2> SUFFICES ASSUME LimitInit PROVE AnswerInv
    OBVIOUS
  <2>1. AnswerTypes
    BY DEF LimitInit, AnswerTypes, RequestStage
  <2>2. \A r \in Request : stage[r] = "new" /\ replayOf[r] = NoAnswer
    BY DEF LimitInit
  <2>3. HandledIsHeld /\ AnswerIsFound /\ ReplaysMatch
    BY <2>2 DEF LimitInit, HandledIsHeld, AnswerIsFound, ReplaysMatch
  <2>4. OneIsBusy
    BY <2>2 DEF OneIsBusy, Busy, InFlight
  <2> QED BY <2>1, <2>3, <2>4 DEF AnswerInv
<1>2. AnswerInv /\ [LimitNext]_limitVars => AnswerInv'
  <2> SUFFICES ASSUME AnswerInv, [LimitNext]_limitVars PROVE AnswerInv'
    OBVIOUS
  <2>1. CASE UNCHANGED limitVars
    BY <2>1 DEF limitVars, AnswerInv, AnswerTypes, HandledIsHeld, OneIsBusy, AnswerIsFound,
                ReplaysMatch
  <2>2. CASE LimitNext
    BY <2>2, ChecksKeepAnswers, InterceptKeepsAnswers, ExpiryKeepsAnswers DEF LimitNext
  <2> QED BY <2>1, <2>2
<1>3. AnswerInv => HandledOnceUnlessOverlapping
  <2> SUFFICES ASSUME AnswerInv PROVE HandledOnceUnlessOverlapping
    OBVIOUS
  <2>1. \A r, s \in handled : r # s /\ IdOf[r] = IdOf[s] => IdOf[r] \in excused
    BY DEF AnswerInv, AnswerTypes, HandledIsHeld, OneIsBusy, Busy, InFlight
  <2> QED BY <2>1 DEF HandledOnceUnlessOverlapping, AnswerInv, ReplaysMatch
<1> QED
  BY <1>1, <1>2, <1>3, PTL DEF LimitSpec

-----------------------------------------------------------------------------
Checking == {"counted", "added"}
Grant == Request \X Nat \X ({"redis"} \cup Server)

WindowTypes ==
    /\ stage \in [Request -> RequestStage] /\ started \in [Request -> Nat]
    /\ zset \in SUBSET (Request \X Nat) /\ IsFiniteSet(zset) /\ zttl \in Nat
    /\ memoryWindows \in [Server -> SUBSET (Request \X Nat)]
    /\ \A p \in Server : IsFiniteSet(memoryWindows[p])
    /\ granted \in SUBSET Grant /\ IsFiniteSet(granted)
    /\ tick \in Nat

\* Scores are taken from the clock; a check that is not slow is still in its second.
ScoresArePast ==
    /\ \A g \in granted : g[2] <= tick
    /\ \A r \in Request : /\ started[r] <= tick
                          /\ stage[r] \in Checking /\ r \notin contended => started[r] = tick

\* The admissions of the current window that nothing excuses.
Recent(where) == {g \in granted : /\ g[3] = where /\ g[1] \notin contended
                                  /\ g[2] > tick - Window}

\* The sorted set and the window of each process hold them, and the sorted set
\* outlives them; so it does with the entry of a check that is not slow.
WindowsRemember ==
    /\ \A g \in Recent("redis") : <<g[1], g[2]>> \in zset /\ g[2] + Window <= zttl
    /\ \A p \in Server : \A g \in Recent(p) : <<g[1], g[2]>> \in memoryWindows[p]
    /\ \A r \in Request : stage[r] = "added" /\ r \notin contended => <<r, started[r]>> \in zset

\* Of the checks that nothing excuses one is under way, and there is room for it.
OneHasRoom ==
    \A r \in Request : stage[r] \in Checking /\ r \notin contended =>
        /\ Cardinality(Recent("redis")) < Limit
        /\ \A s \in Request : stage[s] \in Checking /\ s \notin contended => r = s

Admitted(at, where) == {g \in granted : /\ g[3] = where /\ g[1] \notin contended
                                         /\ g[2] <= at /\ g[2] > at - Window}

\* The inductive invariant of the sliding windows.
WindowInv == WindowTypes /\ ScoresArePast /\ WindowsRemember /\ OneHasRoom /\ EachCounterHoldsLimit

-----------------------------------------------------------------------------
\* Admissions counted in one place are no more than the entries they left there.
LEMMA EntriesCountGrants ==
    ASSUME NEW S \in SUBSET Grant, NEW T, IsFiniteSet(T), NEW where,
           \A g \in S : g[3] = where /\ <<g[1], g[2]>> \in T
    PROVE  IsFiniteSet(S) /\ Cardinality(S) <= Cardinality(T)
<1> DEFINE f == [g \in S |-> <<g[1], g[2]>>]
<1>1. f \in [S -> T]
  OBVIOUS
<1>2. ASSUME NEW g \in S, NEW h \in S, f[g] = f[h]
      PROVE  g = h
  <2>1. g = <<g[1], g[2], g[3]>> /\ h = <<h[1], h[2], h[3]>>
    BY DEF Grant
  <2>2. g[1] = h[1] /\ g[2] = h[2]
    BY <1>2
  <2> QED BY <2>1, <2>2
<1>3. f \in Injection(S, T)
  BY <1>1, <1>2 DEF Injection, IsInjective
<1> QED
  BY <1>3, FS_Injection

\* The shape of an admission.
LEMMA GrantShape ==
    ASSUME WindowTypes, NEW g \in granted
    PROVE  g[1] \in Request /\ g[2] \in Nat /\ g[3] \in {"redis"} \cup Server
  BY DEF WindowTypes, Grant

\* Steps that grant nothing keep the limits when fewer requests are uncontended.
LEMMA LimitsKept ==
    ASSUME WindowTypes, EachCounterHoldsLimit, granted' = granted, contended \subseteq contended'
    PROVE  EachCounterHoldsLimit'
<1> SUFFICES ASSUME NEW at \in 0 .. MaxRequestClock, NEW where \in {"redis"} \cup Server
             PROVE  Cardinality(Admitted(at, where)') <= Limit
  BY DEF EachCounterHoldsLimit, Admitted
<1>1. Admitted(at, where)' \subseteq Admitted(at, where) /\ Admitted(at, where) \subseteq granted
  BY DEF Admitted
<1>2. IsFiniteSet(Admitted(at, where))
  BY <1>1, FS_Subset DEF WindowTypes
<1>3. Cardinality(Admitted(at, where)') <= Cardinality(Admitted(at, where))
  BY <1>1, <1>2, FS_Subset
<1>4. Cardinality(Admitted(at, where)) <= Limit
  BY DEF EachCounterHoldsLimit, Admitted
<1>5. Cardinality(Admitted(at, where)) \in Nat /\ Cardinality(Admitted(at, where)') \in Nat
  BY <1>1, <1>2, FS_Subset, FS_CardinalityType
<1> QED BY <1>3, <1>4, <1>5, RequestAssumption

\* An admission keeps the limits when there was room where it is counted.
LEMMA GrantKeepsLimits ==
    ASSUME WindowTypes, ScoresArePast, EachCounterHoldsLimit, UNCHANGED contended,
           NEW r \in Request, NEW t \in Nat, NEW w \in {"redis"} \cup Server,
           granted' = granted \cup {<<r, t, w>>}, 
           r \notin contended => t = tick /\ Cardinality(Recent(w)) < Limit
    PROVE  EachCounterHoldsLimit'
<1> DEFINE new == <<r, t, w>>
<1> SUFFICES ASSUME NEW at \in 0 .. MaxRequestClock, NEW where \in {"redis"} \cup Server
             PROVE  Cardinality(Admitted(at, where)') <= Limit
  BY DEF EachCounterHoldsLimit, Admitted
<1> DEFINE A == Admitted(at, where)
<1>1. IsFiniteSet(A) /\ Cardinality(A) <= Limit /\ Cardinality(A) \in Nat
  <2>1. A \subseteq granted
    BY DEF Admitted
  <2> QED BY <2>1, FS_Subset, FS_CardinalityType DEF WindowTypes, EachCounterHoldsLimit, Admitted
<1>2. CASE ~(w = where /\ r \notin contended /\ t <= at /\ t > at - Window)
  <2>1. Admitted(at, where)' = A
    BY <1>2 DEF Admitted
  <2> QED BY <1>1, <2>1
<1>3. CASE w = where /\ r \notin contended /\ t <= at /\ t > at - Window
  <2>1. Admitted(at, where)' \subseteq A \cup {new}
    BY DEF Admitted
  <2>2. A \subseteq Recent(w)
    BY <1>3, GrantShape, RequestAssumption DEF Admitted, Recent, WindowTypes
  <2>3. IsFiniteSet(Recent(w))
    <3>1. Recent(w) \subseteq granted
      BY DEF Recent
    <3> QED BY <3>1, FS_Subset DEF WindowTypes
  <2>4. Cardinality(A) <= Cardinality(Recent(w)) /\ Cardinality(Recent(w)) \in Nat
    BY <2>2, <2>3, FS_Subset, FS_CardinalityType
  <2>5. IsFiniteSet(A \cup {new}) /\ Cardinality(A \cup {new}) <= Cardinality(A) + 1
    <3> HIDE DEF A, new
    <3>1. /\ IsFiniteSet(A \cup {new})
          /\ Cardinality(A \cup {new}) = IF new \in A THEN Cardinality(A) ELSE Cardinality(A) + 1
      BY <1>1, FS_AddElement, Zenon
    <3>2. Cardinality(A \cup {new}) \in {Cardinality(A), Cardinality(A) + 1}
      BY <3>1
    <3> QED BY <1>1, <3>1, <3>2
  <2>6. Cardinality(Admitted(at, where)') <= Cardinality(A \cup {new})
    BY <2>1, <2>5, FS_Subset
  <2>7. Cardinality(A \cup {new}) \in Nat /\ Cardinality(Admitted(at, where)') \in Nat
    BY <2>1, <2>5, FS_Subset, FS_CardinalityType
  <2> HIDE DEF A, new
  <2> QED BY <1>1, <1>3, <2>4, <2>5, <2>6, <2>7, RequestAssumption
<1> QED BY <1>2, <1>3

\* Fewer requests are uncontended, or the clock went on: the recent admissions
\* are among those of before.
LEMMA RecentShrinks ==
    ASSUME WindowTypes, granted' = granted, contended \subseteq contended', tick' \in Nat,
           tick <= tick', NEW where
    PROVE  /\ Recent(where)' \subseteq Recent(where) /\ IsFiniteSet(Recent(where))
           /\ Cardinality(Recent(where)') \in Nat /\ Cardinality(Recent(where)) \in Nat
           /\ Cardinality(Recent(where)') <= Cardinality(Recent(where))
<1>1. Recent(where)' \subseteq Recent(where)
  BY GrantShape, RequestAssumption DEF Recent, WindowTypes
<1>2. Recent(where) \subseteq granted
  BY DEF Recent
<1>3. IsFiniteSet(Recent(where))
  BY <1>2, FS_Subset DEF WindowTypes
<1> QED
  BY <1>1, <1>3, FS_Subset, FS_CardinalityType

\* A step outside the window check: a request that is not between its count and
\* its expire goes on to a stage that is not either.
LEMMA OtherStepsKeepWindows ==
    ASSUME WindowInv, NEW r \in Request, NEW to \in RequestStage \ Checking,
           stage' = [stage EXCEPT ![r] = to], UNCHANGED <<started, windowVars, tick>>
    PROVE  WindowInv'
<1> USE DEF WindowInv, windowVars
<1>1. WindowTypes'
  BY DEF WindowTypes
<1>2. \A s \in Request : stage'[s] \in Checking => stage'[s] = stage[s]
  BY DEF WindowTypes
<1>3. \A where : Recent(where)' = Recent(where)
  BY DEF Recent
<1>4. ScoresArePast' 
  BY <1>2 DEF ScoresArePast
<1>5. WindowsRemember'
  BY <1>2, <1>3 DEF WindowsRemember, Checking
<1>6. OneHasRoom'
  BY <1>2, <1>3 DEF OneHasRoom
<1>7. EachCounterHoldsLimit'
  BY LimitsKept
<1> QED BY <1>1, <1>4, <1>5, <1>6, <1>7

\* zremrangebyscore removes what is out of the window only.
LEMMA TrimKeepsWindows ==
    ASSUME WindowInv, NEW r \in Request, Trim(r)
    PROVE  WindowInv'
<1> USE DEF WindowInv
<1>1. /\ stage[r] = "handling" /\ stage' = [stage EXCEPT ![r] = "trimmed"]
      /\ started' = [started EXCEPT ![r] = tick] /\ zset' = InWindow(zset, tick)
      /\ UNCHANGED <<zttl, memoryWindows, granted, contended, tick>>
  BY DEF Trim, Goto
<1>2. zset' \subseteq zset
  BY <1>1 DEF InWindow
<1>3. IsFiniteSet(zset')
  BY <1>2, FS_Subset DEF WindowTypes
<1>4. WindowTypes'
  BY <1>1, <1>2, <1>3 DEF WindowTypes, RequestStage, InFlight
<1>5. \A s \in Request : stage'[s] \in Checking => stage'[s] = stage[s] /\ started'[s] = started[s]
  BY <1>1 DEF WindowTypes, Checking
<1>6. \A where : Recent(where)' = Recent(where)
  BY <1>1 DEF Recent
<1>7. ScoresArePast'
  <2>1. \A s \in Request : started'[s] <= tick'
    BY <1>1 DEF ScoresArePast, WindowTypes
  <2> QED BY <1>1, <1>5, <2>1 DEF ScoresArePast
<1>8. WindowsRemember'
  <2>1. \A g \in Recent("redis")' : <<g[1], g[2]>> \in zset' /\ g[2] + Window <= zttl'
    <3> SUFFICES ASSUME NEW g \in Recent("redis") PROVE <<g[1], g[2]>> \in zset' /\ g[2] + Window <= zttl'
      BY <1>6
    <3>1. <<g[1], g[2]>> \in zset /\ g[2] + Window <= zttl /\ g[2] > tick - Window
      BY DEF WindowsRemember, Recent
    <3> QED BY <1>1, <3>1 DEF InWindow
  <2>2. \A p \in Server : \A g \in Recent(p)' : <<g[1], g[2]>> \in memoryWindows'[p]
    BY <1>1, <1>6 DEF WindowsRemember
  <2>3. ASSUME NEW s \in Request, stage'[s] = "added", s \notin contended'
        PROVE  <<s, started'[s]>> \in zset'
    <3>1. stage[s] = "added" /\ started'[s] = started[s] /\ s \notin contended
      BY <1>1, <1>5, <2>3 DEF Checking
    <3>2. <<s, started[s]>> \in zset /\ started[s] = tick
      BY <3>1 DEF WindowsRemember, ScoresArePast, Checking
    <3>3. tick > tick - Window
      BY RequestAssumption DEF WindowTypes
    <3> QED BY <1>1, <3>1, <3>2, <3>3 DEF InWindow
  <2> QED BY <2>1, <2>2, <2>3 DEF WindowsRemember
<1>9. OneHasRoom'
  BY <1>1, <1>5, <1>6 DEF OneHasRoom
<1>10. EachCounterHoldsLimit'
  BY <1>1, LimitsKept
<1> QED BY <1>4, <1>7, <1>8, <1>9, <1>10

\* zcard: what is counted includes every recent admission.
LEMMA CountKeepsWindows ==
    ASSUME WindowInv, NEW r \in Request, Count(r)
    PROVE  WindowInv'
<1> USE DEF WindowInv
<1>1. /\ stage[r] = "trimmed" /\ UNCHANGED <<started, zset, zttl, memoryWindows, granted, tick>>
      /\ \/ stage' = [stage EXCEPT ![r] = "refused"]
         \/ stage' = [stage EXCEPT ![r] = "counted"] /\ ~(Cardinality(zset) >= Limit)
      /\ contended \subseteq contended' /\ contended' \subseteq contended \cup {r}
      /\ r \notin contended' => started[r] = tick /\ \A s \in Request : stage[s] \notin Checking
  BY DEF Count, Goto, Contended, Checking
<1>2. WindowTypes'
  BY <1>1 DEF WindowTypes, RequestStage, InFlight
<1>3. \A s \in Request : s # r => stage'[s] = stage[s] /\ (s \notin contended' => s \notin contended)
  BY <1>1 DEF WindowTypes
<1>4. \A where : Recent(where)' \subseteq Recent(where)
  BY <1>1 DEF Recent
<1>5. ScoresArePast'
  BY <1>1, <1>3 DEF ScoresArePast
<1>6. stage'[r] # "added"
  BY <1>1 DEF WindowTypes
<1>7. WindowsRemember'
  <2>1. \A s \in Request : stage'[s] = "added" /\ s \notin contended' => <<s, started'[s]>> \in zset'
    BY <1>1, <1>3, <1>6 DEF WindowsRemember
  <2>2. \A g \in Recent("redis")' : <<g[1], g[2]>> \in zset' /\ g[2] + Window <= zttl'
    BY <1>1, <1>4 DEF WindowsRemember
  <2>3. \A p \in Server : \A g \in Recent(p)' : <<g[1], g[2]>> \in memoryWindows'[p]
    BY <1>1, <1>4 DEF WindowsRemember
  <2> QED BY <2>1, <2>2, <2>3 DEF WindowsRemember
<1>8. OneHasRoom'
  <2> SUFFICES ASSUME NEW q \in Request, stage'[q] \in Checking, q \notin contended'
               PROVE  /\ Cardinality(Recent("redis")') < Limit
                      /\ \A s \in Request : stage'[s] \in Checking /\ s \notin contended' => q = s
    BY DEF OneHasRoom
  <2>1. CASE q = r
    <3>1. ~(Cardinality(zset) >= Limit) /\ \A s \in Request : stage[s] \notin Checking
      BY <1>1, <2>1 DEF WindowTypes, Checking
    <3>2. Recent("redis") \in SUBSET Grant
            /\ \A g \in Recent("redis") : g[3] = "redis" /\ <<g[1], g[2]>> \in zset
      BY DEF Recent, WindowTypes, WindowsRemember
    <3>3. IsFiniteSet(Recent("redis")) /\ Cardinality(Recent("redis")) <= Cardinality(zset)
      BY <3>2, EntriesCountGrants DEF WindowTypes
    <3>4. Cardinality(Recent("redis")') <= Cardinality(Recent("redis"))
      BY <1>4, <3>3, FS_Subset
    <3>5. Cardinality(Recent("redis")) \in Nat /\ Cardinality(zset) \in Nat
            /\ Cardinality(Recent("redis")') \in Nat
      BY <1>4, <3>3, FS_Subset, FS_CardinalityType DEF WindowTypes
    <3>6. Cardinality(Recent("redis")') < Limit
      BY <3>1, <3>3, <3>4, <3>5, RequestAssumption
    <3> QED BY <1>3, <2>1, <3>1, <3>6
  <2>2. CASE q # r
    <3>1. stage[q] \in Checking /\ q \notin contended
      BY <1>3, <2>2
    <3>2. r \in contended'
      BY <1>1, <3>1
    <3>3. Cardinality(Recent("redis")) < Limit
      BY <3>1 DEF OneHasRoom
    <3>4. /\ Cardinality(Recent("redis")') \in Nat /\ Cardinality(Recent("redis")) \in Nat
          /\ Cardinality(Recent("redis")') <= Cardinality(Recent("redis"))
      <4>1. tick' \in Nat /\ tick <= tick' /\ granted' = granted /\ contended \subseteq contended'
        BY <1>1 DEF WindowTypes
      <4> QED BY <4>1, RecentShrinks
    <3>5. Cardinality(Recent("redis")') < Limit
      BY <3>3, <3>4, RequestAssumption
    <3> QED BY <1>3, <3>1, <3>2, <3>5 DEF OneHasRoom
  <2> QED BY <2>1, <2>2
<1>9. EachCounterHoldsLimit'
  BY <1>1, LimitsKept
<1> QED BY <1>2, <1>5, <1>7, <1>8, <1>9

\* zadd: the set gains an entry; one that was empty loses its old expiry.
LEMMA AddKeepsWindows ==
    ASSUME WindowInv, NEW r \in Request, AddEntry(r)
    PROVE  WindowInv'
<1> USE DEF WindowInv
<1> DEFINE entry == <<r, started[r]>>
<1>1. /\ stage[r] = "counted" /\ stage' = [stage EXCEPT ![r] = "added"]
      /\ zset' = zset \cup {entry}
      /\ zttl' = (IF zset = {} THEN Never ELSE zttl)
      /\ UNCHANGED <<started, memoryWindows, granted, contended, tick>>
  BY DEF AddEntry, Goto
<1>2. entry \in Request \X Nat
  BY DEF WindowTypes
<1>3. IsFiniteSet(zset')
  <2> HIDE DEF entry
  <2> QED BY <1>1, FS_AddElement DEF WindowTypes
<1>4. WindowTypes'
  <2>1. zttl' \in Nat
    BY <1>1, RequestAssumption DEF WindowTypes, Never
  <2> QED BY <1>1, <1>2, <1>3, <2>1 DEF WindowTypes, RequestStage, InFlight
<1>5. /\ stage'[r] = "added" /\ stage[r] \in Checking
      /\ \A s \in Request : stage'[s] \in Checking <=> stage[s] \in Checking
      /\ \A s \in Request : s # r => stage'[s] = stage[s]
  BY <1>1 DEF WindowTypes, Checking
<1>6. \A where : Recent(where)' = Recent(where)
  BY <1>1 DEF Recent
<1>7. ScoresArePast'
  BY <1>1, <1>5 DEF ScoresArePast
<1>8. WindowsRemember'
  <2>1. \A g \in Recent("redis")' : <<g[1], g[2]>> \in zset' /\ g[2] + Window <= zttl'
    BY <1>1, <1>6 DEF WindowsRemember
  <2>2. \A p \in Server : \A g \in Recent(p)' : <<g[1], g[2]>> \in memoryWindows'[p]
    BY <1>1, <1>6 DEF WindowsRemember
  <2>3. \A s \in Request : stage'[s] = "added" /\ s \notin contended' => <<s, started'[s]>> \in zset'
    BY <1>1, <1>5 DEF WindowsRemember
  <2> QED BY <2>1, <2>2, <2>3 DEF WindowsRemember
<1>9. OneHasRoom'
  BY <1>1, <1>5, <1>6 DEF OneHasRoom
<1>10. EachCounterHoldsLimit'
  BY <1>1, LimitsKept
<1> QED BY <1>4, <1>7, <1>8, <1>9, <1>10

\* expire: the entry of a check that is not slow is still there, and the set is
\* kept for as long as it counts.
LEMMA ExpiryKeepsWindows ==
    ASSUME WindowInv, NEW r \in Request, SetExpiry(r)
    PROVE  WindowInv'
<1> USE DEF WindowInv
<1> DEFINE new == <<r, started[r], "redis">>
<1>1. /\ stage[r] = "added" /\ stage' = [stage EXCEPT ![r] = "admitted"]
      /\ zttl' = (IF zset = {} THEN zttl ELSE tick + Window)
      /\ granted' = granted \cup {new}
      /\ started' = [started EXCEPT ![r] = 0]
      /\ UNCHANGED <<zset, memoryWindows, contended, tick>>
  BY DEF SetExpiry, Goto
<1>2. new \in Grant /\ new[1] = r /\ new[2] = started[r] /\ new[3] = "redis"
  BY DEF WindowTypes, Grant
<1>3. IsFiniteSet(granted')
  <2> HIDE DEF new
  <2> QED BY <1>1, FS_AddElement DEF WindowTypes
<1>4. WindowTypes'
  <2>1. zttl' \in Nat
    BY <1>1, RequestAssumption DEF WindowTypes
  <2> HIDE DEF new
  <2> QED BY <1>1, <1>2, <1>3, <2>1 DEF WindowTypes, RequestStage, InFlight
<1>5. /\ stage'[r] \notin Checking /\ stage[r] \in Checking
      /\ \A s \in Request : stage'[s] \in Checking => stage'[s] = stage[s] /\ started'[s] = started[s]
  BY <1>1 DEF WindowTypes, Checking
<1>6. r \notin contended => started[r] = tick /\ <<r, started[r]>> \in zset
  BY <1>1, <1>5 DEF ScoresArePast, WindowsRemember
<1>7. ScoresArePast'
  <2>1. \A g \in granted' : g[2] <= tick'
    <3> HIDE DEF new
    <3> QED BY <1>1, <1>2 DEF ScoresArePast
  <2>2. \A s \in Request : started'[s] <= tick'
    BY <1>1 DEF ScoresArePast, WindowTypes
  <2> QED BY <1>1, <1>5, <2>1, <2>2 DEF ScoresArePast
<1>8. Recent("redis")' \subseteq Recent("redis") \cup {new}
        /\ (r \in contended => Recent("redis")' = Recent("redis"))
        /\ \A p \in Server : Recent(p)' = Recent(p)
  <2> HIDE DEF new
  <2> QED BY <1>1, <1>2, RequestAssumption DEF Recent
<1>9. WindowsRemember'
  <2>1. ASSUME NEW g \in Recent("redis")'
        PROVE  <<g[1], g[2]>> \in zset' /\ g[2] + Window <= zttl'
    <3>1. CASE g \in Recent("redis")
      <4>1. <<g[1], g[2]>> \in zset /\ g \in granted /\ g[2] \in Nat /\ g[2] <= tick
        BY <3>1, GrantShape DEF WindowsRemember, Recent, ScoresArePast
      <4>2. zttl' = tick + Window
        BY <1>1, <4>1
      <4> QED BY <1>1, <4>1, <4>2, RequestAssumption DEF WindowTypes
    <3>2. CASE g = new /\ r \notin contended
      <4>1. g[1] = r /\ g[2] = tick /\ <<g[1], g[2]>> \in zset
        BY <1>2, <1>6, <3>2
      <4>2. zttl' = tick + Window
        BY <1>1, <4>1
      <4> QED BY <1>1, <4>1, <4>2, RequestAssumption DEF WindowTypes
    <3> QED BY <1>8, <2>1, <3>1, <3>2
  <2>2. \A p \in Server : \A g \in Recent(p)' : <<g[1], g[2]>> \in memoryWindows'[p]
    BY <1>1, <1>8 DEF WindowsRemember
  <2>3. \A s \in Request : stage'[s] = "added" /\ s \notin contended' => <<s, started'[s]>> \in zset'
    BY <1>1, <1>5 DEF WindowsRemember, Checking
  <2> QED BY <2>1, <2>2, <2>3 DEF WindowsRemember
<1>10. OneHasRoom'
  <2> SUFFICES ASSUME NEW q \in Request, stage'[q] \in Checking, q \notin contended'
               PROVE  /\ Cardinality(Recent("redis")') < Limit
                      /\ \A s \in Request : stage'[s] \in Checking /\ s \notin contended' => q = s
    BY DEF OneHasRoom
  <2>1. stage[q] \in Checking /\ q \notin contended /\ q # r
    BY <1>1, <1>5
  <2>2. r \in contended
    BY <1>5, <2>1 DEF OneHasRoom
  <2> QED BY <1>1, <1>5, <1>8, <2>1, <2>2 DEF OneHasRoom
<1>11. EachCounterHoldsLimit'
  <2>1. r \notin contended => started[r] = tick /\ Cardinality(Recent("redis")) < Limit
    BY <1>5, <1>6 DEF OneHasRoom
  <2>2. started[r] \in Nat /\ UNCHANGED contended /\ granted' = granted \cup {<<r, started[r], "redis">>}
    BY <1>1 DEF WindowTypes
  <2> QED BY <2>1, <2>2, GrantKeepsLimits
<1> QED BY <1>4, <1>7, <1>9, <1>10, <1>11

\* The fallback: the process's own window holds its recent admissions.
LEMMA FallbackKeepsWindows ==
    ASSUME WindowInv, NEW r \in Request, FallBackToMemory(r)
    PROVE  WindowInv'
<1> USE DEF WindowInv
<1> DEFINE p == ServedBy[r]
           within == InWindow(memoryWindows[p], tick)
           new == <<r, tick, p>>
           entry == <<r, tick>>
<1>1. p \in Server /\ p # "redis"
  BY RequestAssumption DEF Server
<1>2. /\ UNCHANGED <<started, zset, zttl, contended, tick>>
      /\ \/ /\ Cardinality(within) < Limit
            /\ stage' = [stage EXCEPT ![r] = "admitted"]
            /\ memoryWindows' = [memoryWindows EXCEPT ![p] = within \cup {entry}]
            /\ granted' = granted \cup {new}
         \/ /\ stage' = [stage EXCEPT ![r] = "refused"]
            /\ memoryWindows' = [memoryWindows EXCEPT ![p] = within]
            /\ granted' = granted
  BY DEF FallBackToMemory
<1>3. /\ within \subseteq memoryWindows[p] /\ within \in SUBSET (Request \X Nat)
      /\ entry \in Request \X Nat
  BY <1>1 DEF InWindow, WindowTypes
<1>4. IsFiniteSet(within) /\ IsFiniteSet(within \cup {entry}) /\ IsFiniteSet(granted \cup {new})
  <2>1. IsFiniteSet(within)
    BY <1>1, <1>3, FS_Subset DEF WindowTypes
  <2> HIDE DEF within, entry, new
  <2> QED BY <2>1, FS_AddElement DEF WindowTypes
<1>5. new \in Grant /\ new[1] = r /\ new[2] = tick /\ new[3] = p
  BY <1>1 DEF WindowTypes, Grant
<1>6. \A g \in Recent(p) : <<g[1], g[2]>> \in within
  <2> SUFFICES ASSUME NEW g \in Recent(p) PROVE <<g[1], g[2]>> \in within
    OBVIOUS
  <2>1. <<g[1], g[2]>> \in memoryWindows[p] /\ g[2] > tick - Window
    BY <1>1 DEF WindowsRemember, Recent
  <2> QED BY <2>1 DEF InWindow
<1>7. Recent(p) \in SUBSET Grant /\ \A g \in Recent(p) : g[3] = p
  BY DEF Recent, WindowTypes
<1>8. Cardinality(Recent(p)) <= Cardinality(within) /\ Cardinality(Recent(p)) \in Nat
        /\ Cardinality(within) \in Nat
  <2>1. IsFiniteSet(Recent(p)) /\ Cardinality(Recent(p)) <= Cardinality(within)
    BY <1>4, <1>6, <1>7, EntriesCountGrants
  <2> QED BY <1>4, <2>1, FS_CardinalityType
<1> HIDE DEF within, entry, new
<1>a. PICK window \in {within, within \cup {entry}} :
          memoryWindows' = [memoryWindows EXCEPT ![p] = window]
  BY <1>2
<1>b. /\ memoryWindows' \in [Server -> SUBSET (Request \X Nat)]
      /\ \A q \in Server : IsFiniteSet(memoryWindows'[q])
      /\ \A q \in Server \ {p} : memoryWindows'[q] = memoryWindows[q]
  <2>1. window \in SUBSET (Request \X Nat) /\ IsFiniteSet(window)
    BY <1>3, <1>4
  <2> QED BY <1>1, <1>a, <2>1 DEF WindowTypes
<1>9. WindowTypes'
  <2>1. granted' \in SUBSET Grant /\ IsFiniteSet(granted')
    BY <1>2, <1>4, <1>5 DEF WindowTypes
  <2>2. stage' \in [Request -> RequestStage]
    BY <1>2 DEF WindowTypes, RequestStage, InFlight
  <2> QED BY <1>2, <1>b, <2>1, <2>2 DEF WindowTypes
<1>10. \A s \in Request : stage'[s] \in Checking => stage'[s] = stage[s]
  BY <1>2 DEF WindowTypes, Checking
<1>11. /\ granted' \subseteq granted \cup {new}
       /\ \A where : where # p => Recent(where)' = Recent(where)
       /\ Recent(p)' \subseteq Recent(p) \cup {new}
  BY <1>2, <1>5 DEF Recent
<1>12. ScoresArePast'
  BY <1>2, <1>5, <1>10, <1>11 DEF ScoresArePast, WindowTypes
<1>13. WindowsRemember'
  <2>1. \A g \in Recent("redis")' : <<g[1], g[2]>> \in zset' /\ g[2] + Window <= zttl'
    BY <1>1, <1>2, <1>11 DEF WindowsRemember
  <2>2. \A q \in Server \ {p} : \A g \in Recent(q)' : <<g[1], g[2]>> \in memoryWindows'[q]
    BY <1>b, <1>11 DEF WindowsRemember
  <2>3. ASSUME NEW g \in Recent(p)'
        PROVE  <<g[1], g[2]>> \in memoryWindows'[p]
    <3>1. within \subseteq memoryWindows'[p]
      BY <1>1, <1>2 DEF WindowTypes
    <3>2. CASE g \in Recent(p)
      BY <1>6, <3>1, <3>2
    <3>3. CASE g = new /\ g \notin Recent(p)
      <4>1. memoryWindows' = [memoryWindows EXCEPT ![p] = within \cup {entry}]
        BY <1>2, <2>3, <3>3 DEF Recent
      <4>2. entry \in memoryWindows'[p]
        BY <1>1, <4>1 DEF WindowTypes
      <4> QED BY <1>5, <3>3, <4>2 DEF entry
    <3> QED BY <1>11, <2>3, <3>2, <3>3
  <2>4. \A s \in Request : stage'[s] = "added" /\ s \notin contended' => <<s, started'[s]>> \in zset'
    BY <1>2, <1>10 DEF WindowsRemember, Checking
  <2> QED BY <2>1, <2>2, <2>3, <2>4 DEF WindowsRemember
<1>14. OneHasRoom'
  BY <1>1, <1>2, <1>10, <1>11 DEF OneHasRoom
<1>15. EachCounterHoldsLimit'
  <2>1. CASE granted' = granted
    BY <1>2, <2>1, LimitsKept
  <2>2. CASE granted' = granted \cup {new} /\ Cardinality(within) < Limit
    <3>1. Cardinality(Recent(p)) < Limit
      BY <1>8, <2>2, RequestAssumption
    <3>2. tick \in Nat /\ granted' = granted \cup {<<r, tick, p>>} /\ UNCHANGED contended
      BY <1>2, <2>2 DEF WindowTypes, new
    <3> QED BY <1>1, <3>1, <3>2, GrantKeepsLimits
  <2> QED BY <1>2, <2>1, <2>2
<1> QED BY <1>9, <1>12, <1>13, <1>14, <1>15

\* Time passes: the sorted set expires no earlier than its recent entries, and a
\* check that is under way is slow from now on.
LEMMA TickKeepsWindows ==
    ASSUME WindowInv, RequestTick
    PROVE  WindowInv'
<1> USE DEF WindowInv
<1>1. /\ tick' = tick + 1
      /\ zset' = (IF tick + 1 >= zttl THEN {} ELSE zset)
      /\ zttl' = (IF tick + 1 >= zttl THEN Never ELSE zttl)
      /\ contended' = contended \cup {r \in Request : stage[r] \in Checking}
      /\ UNCHANGED <<stage, started, memoryWindows, granted>>
  BY DEF RequestTick, Checking
<1>2. WindowTypes'
  <2>1. zttl' \in Nat
    BY <1>1, RequestAssumption DEF WindowTypes, Never
  <2>2. zset' \in SUBSET (Request \X Nat) /\ IsFiniteSet(zset')
    BY <1>1, FS_EmptySet DEF WindowTypes
  <2> QED BY <1>1, <2>1, <2>2 DEF WindowTypes
<1>3. \A r \in Request : stage'[r] \in Checking => r \in contended'
  BY <1>1
<1>4. \A where : Recent(where)' \subseteq Recent(where)
  <2>1. tick' \in Nat /\ tick <= tick' /\ granted' = granted /\ contended \subseteq contended'
    BY <1>1 DEF WindowTypes
  <2> QED BY <2>1, RecentShrinks
<1>5. ScoresArePast'
  <2>1. \A g \in granted' : g[2] <= tick'
    BY <1>1, GrantShape DEF ScoresArePast, WindowTypes
  <2> QED BY <1>1, <1>3, <2>1 DEF ScoresArePast, WindowTypes
<1>6. WindowsRemember'
  <2>1. ASSUME NEW g \in Recent("redis")'
        PROVE  <<g[1], g[2]>> \in zset' /\ g[2] + Window <= zttl'
    <3>1. <<g[1], g[2]>> \in zset /\ g[2] + Window <= zttl /\ g \in granted
      BY <1>4, <2>1 DEF WindowsRemember, Recent
    <3>2. g[2] > (tick + 1) - Window
      BY <1>1, <2>1 DEF Recent
    <3>3. ~(tick + 1 >= zttl)
      BY <3>1, <3>2, GrantShape, RequestAssumption DEF WindowTypes
    <3> QED BY <1>1, <3>1, <3>3
  <2>2. \A p \in Server : \A g \in Recent(p)' : <<g[1], g[2]>> \in memoryWindows'[p]
    BY <1>1, <1>4 DEF WindowsRemember
  <2> QED BY <1>3, <2>1, <2>2 DEF WindowsRemember, Checking
<1>7. OneHasRoom'
  BY <1>3 DEF OneHasRoom
<1>8. EachCounterHoldsLimit'
  BY <1>1, LimitsKept
<1> QED BY <1>2, <1>5, <1>6, <1>7, <1>8

\* For any number of requests and processes, any limit and window, and any
\* rejected calls: only a slow or an overlapping check is admitted past the limit
\* (TransactionLimitsService, CacheService.checkSlidingWindowRateLimit).
THEOREM WindowsHold == LimitSpec => []EachCounterHoldsLimit
<1>1. LimitInit => WindowInv
  <2> SUFFICES ASSUME LimitInit PROVE WindowInv
    OBVIOUS
  <2> USE DEF LimitInit
  <2>1. zset = {} /\ granted = {} /\ IsFiniteSet(zset) /\ IsFiniteSet(granted)
          /\ \A p \in Server : IsFiniteSet(memoryWindows[p])
    BY FS_EmptySet
  <2>2. WindowTypes
    BY <2>1, RequestAssumption DEF WindowTypes, RequestStage, Never
  <2>3. \A r \in Request : stage[r] \notin Checking /\ started[r] = 0
    BY DEF Checking
  <2>4. \A where : Recent(where) = {}
    BY <2>1 DEF Recent
  <2>5. ScoresArePast /\ WindowsRemember /\ OneHasRoom
    BY <2>1, <2>3, <2>4 DEF ScoresArePast, WindowsRemember, OneHasRoom, Checking
  <2>6. EachCounterHoldsLimit
    <3>1. \A at \in 0 .. MaxRequestClock, where \in {"redis"} \cup Server :
             {g \in granted : /\ g[3] = where /\ g[1] \notin contended
                              /\ g[2] <= at /\ g[2] > at - Window} = {}
      BY <2>1
    <3>2. Cardinality({}) = 0 /\ 0 <= Limit
      BY FS_EmptySet, RequestAssumption
    <3> QED BY <3>1, <3>2 DEF EachCounterHoldsLimit
  <2> QED BY <2>2, <2>5, <2>6 DEF WindowInv
<1>2. WindowInv /\ [LimitNext]_limitVars => WindowInv'
  <2> SUFFICES ASSUME WindowInv, [LimitNext]_limitVars PROVE WindowInv'
    OBVIOUS
  <2>1. CASE UNCHANGED limitVars
    BY <2>1 DEF limitVars, WindowInv, WindowTypes, ScoresArePast, WindowsRemember, OneHasRoom,
                Recent, EachCounterHoldsLimit
  <2>2. ASSUME NEW r \in Request,
               \/ Replay(r) \/ Handle(r) \/ CreatePayment(r) \/ StoreAnswer(r) \/ RequestFails(r)
               \/ ReadBreaches(r) \/ StoreBreaches(r)
        PROVE  WindowInv'
    <3>1. PICK to \in {"replayed", "conflict", "handling", "created", "answered", "failed",
                       "breach", "rejected"} : stage' = [stage EXCEPT ![r] = to]
      BY <2>2 DEF Replay, Handle, CreatePayment, StoreAnswer, RequestFails, ReadBreaches,
                  StoreBreaches, Goto
    <3>2. UNCHANGED <<started, windowVars, tick>>
      BY <2>2 DEF Replay, Handle, CreatePayment, StoreAnswer, RequestFails, ReadBreaches,
                  StoreBreaches
    <3>3. to \in RequestStage \ Checking
      BY DEF RequestStage, InFlight, Checking
    <3> QED BY <3>1, <3>2, <3>3, OtherStepsKeepWindows
  <2>3. CASE LimitNext
    BY <2>2, <2>3, TrimKeepsWindows, CountKeepsWindows, AddKeepsWindows, ExpiryKeepsWindows,
       FallbackKeepsWindows, TickKeepsWindows DEF LimitNext
  <2> QED BY <2>1, <2>3
<1>3. WindowInv => EachCounterHoldsLimit
  BY DEF WindowInv
<1> QED
  BY <1>1, <1>2, <1>3, PTL DEF LimitSpec

-----------------------------------------------------------------------------
(***************************************************************************)
(* Groups: the limit of members.                                           *)
(***************************************************************************)
GroupRow == [maxMembers : Nat, inviteCode : InviteCode \cup {"none"}, gated : BOOLEAN,
             isPublic : BOOLEAN, deleted : BOOLEAN]
JoinRow == [at : {"idle", "member", "count", "gate", "add"}, maxMembers : Nat, gated : BOOLEAN,
            count : Nat]
Untouched == {[kind |-> "none"], [kind |-> "done"]}
EditRow == [change : Change \cup Untouched, row : GroupRow, members : SUBSET (Guest \cup {Creator})]

GroupTypes ==
    /\ group \in GroupRow
    /\ members \in SUBSET (Guest \cup {Creator}) /\ IsFiniteSet(members)
    /\ joining \in [Guest -> JoinRow] /\ editing \in [Edit -> EditRow]
    /\ largest \in Nat /\ overlapped \in Nat

\* The largest limit bounds the limit of the row, of what a join has read, and of
\* what an edit is about to save; none of them is zero.
LimitsAreKnown ==
    /\ group = NoGroup => largest = 0 /\ members = {}
    /\ group # NoGroup => group.maxMembers \in 1..largest
    /\ \A u \in Guest : joining[u].maxMembers <= largest
    /\ \A e \in Edit : editing[e].change \in Change => editing[e].row.maxMembers \in 1..largest

\* A join that has counted found room.
CountsHadRoom ==
    \A u \in Guest : joining[u].at \in {"gate", "add"} => joining[u].count < joining[u].maxMembers

\* The inductive invariant.
GroupInv == GroupTypes /\ LimitsAreKnown /\ CountsHadRoom /\ CapacityHoldsUpToOverlap

-----------------------------------------------------------------------------
\* The empty rows.
LEMMA EmptyRows ==
    /\ NoGroup \in GroupRow /\ NoGroup.maxMembers = 0
    /\ NoJoin \in JoinRow /\ NoJoin.maxMembers = 0 /\ NoJoin.at = "idle"
    /\ NoEdit \in EditRow /\ NoEdit.change \notin Change
    /\ EditDone \in EditRow /\ EditDone.change \notin Change
<1>1. NoGroup \in GroupRow /\ NoGroup.maxMembers = 0
  BY DEF NoGroup, GroupRow
<1>2. NoJoin \in JoinRow /\ NoJoin.maxMembers = 0 /\ NoJoin.at = "idle"
  BY DEF NoJoin, JoinRow
<1>3. \A c \in Change : c.kind \notin {"none", "done"}
  BY DEF Change
<1>4. NoEdit \in EditRow /\ NoEdit.change = [kind |-> "none"]
  BY <1>1 DEF NoEdit, EditRow, Untouched
<1>5. EditDone \in EditRow /\ EditDone.change = [kind |-> "done"]
  BY <1>4 DEF EditDone, EditRow, Untouched
<1> QED
  BY <1>1, <1>2, <1>3, <1>4, <1>5

\* What a save writes: the limit is the one that was read or one of the DTO's.
LEMMA AppliedRow ==
    ASSUME NEW row \in GroupRow, NEW c \in Change, c.kind # "delete"
    PROVE  /\ Apply(row, c) \in GroupRow
           /\ Apply(row, c).maxMembers = row.maxMembers \/ Apply(row, c).maxMembers \in Nat \ {0}
<1>1. CASE c.kind = "limit"
  <2>1. c.maxMembers \in Nat \ {0}
    BY <1>1, GroupAssumption DEF Change
  <2>2. Apply(row, c) = [row EXCEPT !.maxMembers = c.maxMembers]
    BY <1>1 DEF Apply
  <2> QED BY <2>1, <2>2 DEF GroupRow
<1>2. CASE c.kind = "visibility"
  <2>1. c.isPublic \in BOOLEAN
    BY <1>2 DEF Change
  <2>2. Apply(row, c) = [row EXCEPT !.isPublic = c.isPublic]
    BY <1>2 DEF Apply
  <2> QED BY <2>1, <2>2 DEF GroupRow
<1>3. CASE c.kind = "code"
  <2>1. c.inviteCode \in InviteCode
    BY <1>3 DEF Change
  <2>2. Apply(row, c) = [row EXCEPT !.inviteCode = c.inviteCode]
    BY <1>3 DEF Apply
  <2> QED BY <2>1, <2>2 DEF GroupRow
<1>4. CASE c.kind = "gate"
  <2>1. c.gated \in BOOLEAN
    BY <1>4 DEF Change
  <2>2. Apply(row, c) = [row EXCEPT !.gated = c.gated]
    BY <1>4 DEF Apply
  <2> QED BY <2>1, <2>2 DEF GroupRow
<1>5. c.kind \in {"limit", "visibility", "code", "gate"}
  BY DEF Change
<1> QED BY <1>1, <1>2, <1>3, <1>4, <1>5

\* One member more is one more at most.
LEMMA OneMemberMore ==
    ASSUME GroupTypes, NEW u
    PROVE  /\ IsFiniteSet(members \cup {u}) /\ Cardinality(members) \in Nat
           /\ Cardinality(members \cup {u}) = IF u \in members THEN Cardinality(members)
                                              ELSE Cardinality(members) + 1
  BY FS_AddElement, FS_CardinalityType DEF GroupTypes

\* createGroup: the row is saved, and then the owner is added.
LEMMA CreationKeepsInv ==
    ASSUME GroupInv,
           AddOwner \/ \E m \in MaxMembersRange, code \in InviteCode : CreateGroup(m, code)
    PROVE  GroupInv'
<1> USE DEF GroupInv
<1>1. ASSUME NEW m \in MaxMembersRange, NEW code \in InviteCode, CreateGroup(m, code)
      PROVE  GroupInv'
  <2> DEFINE new == [NoGroup EXCEPT !.maxMembers = m, !.inviteCode = code]
  <2>1. m \in Nat /\ m >= 1
    BY GroupAssumption
  <2>2. new \in GroupRow /\ new.maxMembers = m /\ new # NoGroup
    <3> DEFINE sized == [NoGroup EXCEPT !.maxMembers = m]
    <3>1. sized \in GroupRow /\ sized.maxMembers = m
      BY <2>1, EmptyRows DEF GroupRow
    <3> HIDE DEF sized
    <3>2. [sized EXCEPT !.inviteCode = code] \in GroupRow
            /\ [sized EXCEPT !.inviteCode = code].maxMembers = m
      BY <3>1 DEF GroupRow
    <3>3. new = [sized EXCEPT !.inviteCode = code]
      BY DEF sized
    <3> HIDE DEF new
    <3>4. new \in GroupRow /\ new.maxMembers = m
      BY <3>2, <3>3
    <3> QED BY <2>1, <3>4, EmptyRows
  <2>3. /\ group = NoGroup /\ group' = new /\ largest' = m
        /\ UNCHANGED <<members, joining, editing, overlapped>>
    BY <1>1 DEF CreateGroup
  <2> HIDE DEF new
  <2>4. largest = 0 /\ members = {}
    BY <2>3 DEF LimitsAreKnown
  <2>5. GroupTypes'
    BY <2>1, <2>2, <2>3 DEF GroupTypes
  <2>6. /\ \A u \in Guest : joining[u].maxMembers \in Nat
        /\ \A e \in Edit : editing[e].row.maxMembers \in Nat
    BY DEF GroupTypes, JoinRow, EditRow, GroupRow
  <2>7. LimitsAreKnown'
    BY <2>1, <2>2, <2>3, <2>4, <2>6 DEF LimitsAreKnown
  <2>8. CapacityHoldsUpToOverlap'
    BY <2>1, <2>3, <2>4, FS_EmptySet DEF CapacityHoldsUpToOverlap, GroupTypes
  <2> QED BY <2>3, <2>5, <2>7, <2>8 DEF CountsHadRoom
<1>2. CASE AddOwner
  <2>1. /\ group # NoGroup /\ UNCHANGED <<group, joining, editing, largest>>
        /\ members' = members \cup {Creator} \/ members' = members
        /\ overlapped' = (IF members = {} \/ members' = members THEN overlapped
                          ELSE overlapped + 1)
    BY <1>2 DEF AddOwner
  <2>2. GroupTypes'
    BY <2>1, OneMemberMore DEF GroupTypes
  <2>3. LimitsAreKnown' /\ CountsHadRoom'
    BY <2>1 DEF LimitsAreKnown, CountsHadRoom
  <2>4. CapacityHoldsUpToOverlap'
    <3>1. Cardinality(members) <= largest + overlapped /\ largest >= 1
      BY <2>1 DEF CapacityHoldsUpToOverlap, LimitsAreKnown, GroupTypes
    <3>2. CASE members' = members
      BY <2>1, <3>1, <3>2 DEF CapacityHoldsUpToOverlap
    <3>3. CASE members = {} /\ members' = members \cup {Creator}
      <4>0. Cardinality(members) = 0
        BY <3>3, FS_EmptySet
      <4>1. Cardinality(members') <= 1
        <5>1. Cardinality(members \cup {Creator}) = IF Creator \in members THEN 0 ELSE 1
          BY <4>0, OneMemberMore
        <5> QED BY <3>3, <5>1
      <4> QED BY <2>1, <2>2, <3>1, <4>1, FS_CardinalityType DEF CapacityHoldsUpToOverlap, GroupTypes
    <3>4. CASE members # {} /\ members' = members \cup {Creator} /\ members' # members
      <4>1. Cardinality(members') <= Cardinality(members) + 1 /\ Cardinality(members) \in Nat
              /\ Cardinality(members') \in Nat
        BY <2>2, <3>4, OneMemberMore, FS_CardinalityType DEF GroupTypes
      <4>2. overlapped' = overlapped + 1
        BY <2>1, <3>4
      <4> QED BY <2>1, <3>1, <4>1, <4>2 DEF CapacityHoldsUpToOverlap, GroupTypes
    <3> QED BY <2>1, <3>2, <3>3, <3>4
  <2> QED BY <2>2, <2>3, <2>4
<1> QED BY <1>1, <1>2

\* The steps of a join up to the insert change what the join knows only.
LEMMA JoinStepKeepsInv ==
    ASSUME GroupInv, NEW u \in Guest, NEW row \in JoinRow, joining' = [joining EXCEPT ![u] = row],
           row.maxMembers <= largest, row.at \in {"gate", "add"} => row.count < row.maxMembers,
           UNCHANGED <<group, members, editing, largest, overlapped>>
    PROVE  GroupInv'
<1> USE DEF GroupInv
<1>1. GroupTypes'
  BY DEF GroupTypes
<1>2. \A v \in Guest : joining'[v] = IF v = u THEN row ELSE joining[v]
  BY DEF GroupTypes
<1>3. LimitsAreKnown'
  BY <1>2 DEF LimitsAreKnown
<1>4. CountsHadRoom'
  BY <1>2 DEF CountsHadRoom
<1> QED BY <1>1, <1>3, <1>4 DEF CapacityHoldsUpToOverlap

\* joinByInviteCode and assertCanJoin.
LEMMA JoiningKeepsInv ==
    ASSUME GroupInv, NEW u \in Guest,
           \/ \E code \in InviteCode : FindByInviteCode(u, code)
           \/ IsMember(u) \/ CountMembers(u) \/ VerifyTokenGate(u)
    PROVE  GroupInv'
<1> USE DEF GroupInv
<1>0. /\ joining[u] \in JoinRow /\ joining[u].maxMembers \in Nat /\ joining[u].gated \in BOOLEAN
      /\ joining[u].maxMembers <= largest /\ 0 <= largest /\ largest \in Nat
      /\ Cardinality(members) \in Nat
  BY FS_CardinalityType DEF GroupTypes, LimitsAreKnown, JoinRow
<1>1. ASSUME NEW code \in InviteCode, FindByInviteCode(u, code)
      PROVE  GroupInv'
  <2> DEFINE row == [at |-> "member", maxMembers |-> group.maxMembers, gated |-> group.gated, count |-> 0]
  <2>1. /\ group # NoGroup /\ joining' = [joining EXCEPT ![u] = row]
        /\ UNCHANGED <<group, members, editing, largest, overlapped>>
    BY <1>1 DEF FindByInviteCode, Visible
  <2>2. group.maxMembers \in Nat /\ group.maxMembers <= largest /\ group.gated \in BOOLEAN
    BY <2>1 DEF GroupTypes, GroupRow, LimitsAreKnown
  <2>3. row \in JoinRow /\ row.maxMembers <= largest /\ row.at \notin {"gate", "add"}
    BY <2>2 DEF JoinRow
  <2> HIDE DEF row
  <2> QED BY <2>1, <2>3, JoinStepKeepsInv
<1>2. ASSUME JoinGoes(u, "idle")
      PROVE  GroupInv'
  BY <1>0, <1>2, EmptyRows, JoinStepKeepsInv DEF JoinGoes
<1>3. ASSUME NEW to \in {"count", "add"}, JoinGoes(u, to),
             to = "add" => joining[u].count < joining[u].maxMembers
      PROVE  GroupInv'
  <2> DEFINE row == [joining[u] EXCEPT !.at = to]
  <2>1. /\ row \in JoinRow /\ row.maxMembers = joining[u].maxMembers /\ row.count = joining[u].count
        /\ row.at = to
    BY <1>0 DEF JoinRow
  <2>2. /\ joining' = [joining EXCEPT ![u] = row]
        /\ UNCHANGED <<group, members, editing, largest, overlapped>>
    BY <1>3 DEF JoinGoes
  <2> HIDE DEF row
  <2> QED BY <1>0, <1>3, <2>1, <2>2, JoinStepKeepsInv
<1>4. CASE IsMember(u)
  BY <1>2, <1>3, <1>4 DEF IsMember
<1>5. CASE VerifyTokenGate(u)
  <2>1. joining[u].count < joining[u].maxMembers
    BY <1>5 DEF VerifyTokenGate, CountsHadRoom
  <2> QED BY <1>2, <1>3, <1>5, <2>1 DEF VerifyTokenGate
<1>6. CASE CountMembers(u)
  <2> DEFINE row == [joining[u] EXCEPT !.at = AfterCount(u), !.count = Cardinality(members)]
  <2>1. AfterCount(u) \in {"gate", "add"}
    BY DEF AfterCount
  <2>2. /\ row \in JoinRow /\ row.maxMembers = joining[u].maxMembers
        /\ row.count = Cardinality(members)
    BY <1>0, <2>1 DEF JoinRow
  <2>3. /\ UNCHANGED <<group, members, editing, largest, overlapped>>
        /\ \/ joining' = [joining EXCEPT ![u] = NoJoin]
           \/ joining' = [joining EXCEPT ![u] = row] /\ ~(Cardinality(members) >= joining[u].maxMembers)
    BY <1>6 DEF CountMembers
  <2> HIDE DEF row
  <2>4. CASE joining' = [joining EXCEPT ![u] = NoJoin]
    BY <1>0, <2>3, <2>4, EmptyRows, JoinStepKeepsInv
  <2>5. CASE joining' = [joining EXCEPT ![u] = row] /\ ~(Cardinality(members) >= joining[u].maxMembers)
    <3>1. row.count < row.maxMembers
      BY <1>0, <2>2, <2>5
    <3> QED BY <1>0, <2>2, <2>3, <2>5, <3>1, JoinStepKeepsInv
  <2> QED BY <2>3, <2>4, <2>5
<1> QED BY <1>1, <1>4, <1>5, <1>6

\* addMember: an insert after an up-to-date count finds the room that was counted.
LEMMA AddMemberKeepsInv ==
    ASSUME GroupInv, NEW u \in Guest, AddMember(u)
    PROVE  GroupInv'
<1> USE DEF GroupInv
<1>1. /\ joining[u].at = "add" /\ members' = members \cup {u}
      /\ overlapped' = (IF u \notin members /\ joining[u].count # Cardinality(members)
                        THEN overlapped + 1 ELSE overlapped)
      /\ joining' = [joining EXCEPT ![u] = NoJoin]
      /\ UNCHANGED <<group, editing, largest>>
  BY DEF AddMember
<1>2. /\ joining[u] \in JoinRow /\ joining[u].count \in Nat /\ joining[u].maxMembers \in Nat
      /\ joining[u].count < joining[u].maxMembers /\ joining[u].maxMembers <= largest
  BY <1>1 DEF GroupTypes, JoinRow, CountsHadRoom, LimitsAreKnown
<1>3. GroupTypes'
  BY <1>1, OneMemberMore, EmptyRows DEF GroupTypes
<1>4. group # NoGroup /\ largest >= 1
  BY <1>2 DEF LimitsAreKnown, GroupTypes
<1>5. \A v \in Guest : joining'[v] = joining[v] \/ joining'[v] = NoJoin
  BY <1>1 DEF GroupTypes
<1>6. LimitsAreKnown'
  BY <1>1, <1>4, <1>5, EmptyRows DEF LimitsAreKnown, GroupTypes
<1>7. CountsHadRoom'
  BY <1>5, EmptyRows DEF CountsHadRoom
<1>8. CapacityHoldsUpToOverlap'
  <2>1. /\ Cardinality(members) \in Nat /\ Cardinality(members) <= largest + overlapped
        /\ Cardinality(members') = IF u \in members THEN Cardinality(members)
                                   ELSE Cardinality(members) + 1
    BY <1>1, <1>4, OneMemberMore DEF CapacityHoldsUpToOverlap
  <2>2. Cardinality(members') <= largest + overlapped'
    BY <1>1, <1>2, <2>1 DEF GroupTypes
  <2> QED BY <1>1, <2>2 DEF CapacityHoldsUpToOverlap
<1> QED BY <1>3, <1>6, <1>7, <1>8

\* The owner's edits: what is read, and what is saved.
LEMMA EditingKeepsInv ==
    ASSUME GroupInv, NEW e \in Edit,
           (\E c \in Change : AssertOwnerOrAdmin(e, c)) \/ SaveEdit(e) \/ SoftDeleteGroup(e)
    PROVE  GroupInv'
<1> USE DEF GroupInv
<1>0. /\ editing[e] \in EditRow /\ editing[e].row \in GroupRow
      /\ editing[e].change \in Change \cup Untouched
  BY DEF GroupTypes, EditRow
<1>1. ASSUME NEW c \in Change, AssertOwnerOrAdmin(e, c)
      PROVE  GroupInv'
  <2> DEFINE new == [change |-> c, row |-> group, members |-> members]
  <2>1. /\ group # NoGroup /\ editing' = [editing EXCEPT ![e] = new]
        /\ UNCHANGED <<group, members, joining, largest, overlapped>>
    BY <1>1 DEF AssertOwnerOrAdmin, Visible
  <2>2. new \in EditRow /\ new.row.maxMembers \in 1..largest
    BY <2>1 DEF EditRow, GroupTypes, LimitsAreKnown
  <2> HIDE DEF new
  <2>3. GroupTypes' /\ \A x \in Edit : editing'[x] = IF x = e THEN new ELSE editing[x]
    BY <2>1, <2>2 DEF GroupTypes
  <2>4. LimitsAreKnown'
    BY <2>1, <2>2, <2>3 DEF LimitsAreKnown
  <2> QED BY <2>1, <2>3, <2>4 DEF CountsHadRoom, CapacityHoldsUpToOverlap
<1>2. CASE SaveEdit(e)
  <2> DEFINE c == editing[e].change
             row == Apply(editing[e].row, c)
  <2>1. /\ c.kind \notin {"none", "done", "delete"}
        /\ \/ group' = row /\ largest' = LargestOf(row.maxMembers)
           \/ UNCHANGED <<group, largest>>
        /\ editing' = [editing EXCEPT ![e] = EditDone]
        /\ UNCHANGED <<members, joining, overlapped>>
    BY <1>2 DEF SaveEdit
  <2>2. c \in Change /\ editing[e].row.maxMembers \in 1..largest
    BY <1>0, <2>1 DEF Untouched, LimitsAreKnown
  <2>3. row \in GroupRow /\ row.maxMembers \in Nat /\ row.maxMembers >= 1
    <3>1. /\ row \in GroupRow
          /\ row.maxMembers = editing[e].row.maxMembers \/ row.maxMembers \in Nat \ {0}
      BY <1>0, <2>1, <2>2, AppliedRow
    <3> QED BY <2>2, <3>1 DEF GroupTypes
  <2> HIDE DEF c, row
  <2>4. largest' \in Nat /\ largest <= largest' /\ largest >= 1
          /\ (group' = group \/ (group' = row /\ row.maxMembers <= largest'))
    BY <2>1, <2>2, <2>3 DEF LargestOf, GroupTypes
  <2>5. /\ GroupTypes'
        /\ \A x \in Edit : editing'[x] = editing[x] \/ editing'[x] = EditDone
    BY <1>0, <2>1, <2>3, <2>4, EmptyRows DEF GroupTypes
  <2>6. group # NoGroup /\ group' # NoGroup
    BY <2>3, <2>4, EmptyRows DEF LimitsAreKnown, GroupTypes
  <2>7. LimitsAreKnown'
    <3>1. \A u \in Guest : joining'[u].maxMembers <= largest'
      BY <2>1, <2>4 DEF LimitsAreKnown, GroupTypes, JoinRow
    <3>2. \A x \in Edit : editing'[x].change \in Change => editing'[x].row.maxMembers \in 1..largest'
      BY <2>4, <2>5, EmptyRows DEF LimitsAreKnown, GroupTypes
    <3>3. group'.maxMembers \in 1..largest'
      BY <2>3, <2>4, <2>6 DEF LimitsAreKnown, GroupTypes
    <3> QED BY <2>6, <3>1, <3>2, <3>3 DEF LimitsAreKnown
  <2>8. CapacityHoldsUpToOverlap'
    <3>1. Cardinality(members) \in Nat
      BY FS_CardinalityType DEF GroupTypes
    <3> QED BY <2>1, <2>4, <2>6, <3>1 DEF CapacityHoldsUpToOverlap, GroupTypes
  <2> QED BY <2>1, <2>5, <2>7, <2>8 DEF CountsHadRoom
<1>3. CASE SoftDeleteGroup(e)
  <2> DEFINE row == [group EXCEPT !.deleted = TRUE]
  <2>1. /\ editing[e].change.kind = "delete" /\ group' = row
        /\ editing' = [editing EXCEPT ![e] = EditDone]
        /\ UNCHANGED <<members, joining, largest, overlapped>>
    BY <1>3 DEF SoftDeleteGroup
  <2>2. editing[e].row.maxMembers \in 1..largest
    BY <1>0, <2>1 DEF Untouched, LimitsAreKnown
  <2>3. group # NoGroup /\ group.maxMembers \in 1..largest
    BY <2>2 DEF LimitsAreKnown, GroupTypes
  <2>4. row \in GroupRow /\ row.maxMembers = group.maxMembers
    BY DEF GroupTypes, GroupRow
  <2> HIDE DEF row
  <2>5. row # NoGroup
    BY <2>3, <2>4, EmptyRows DEF GroupTypes
  <2>6. /\ GroupTypes'
        /\ \A x \in Edit : editing'[x] = editing[x] \/ editing'[x] = EditDone
    BY <2>1, <2>4, EmptyRows DEF GroupTypes
  <2>7. LimitsAreKnown'
    BY <2>1, <2>3, <2>4, <2>5, <2>6, EmptyRows DEF LimitsAreKnown
  <2> QED BY <2>1, <2>3, <2>6, <2>7 DEF CountsHadRoom, CapacityHoldsUpToOverlap
<1> QED BY <1>1, <1>2, <1>3

\* For any number of guests, edits and limits: a group has more members than its
\* largest limit only by inserts whose count was outdated (assertCanJoin, addMember).
THEOREM CapacityHolds == GroupSpec => []CapacityHoldsUpToOverlap
<1>1. GroupInit => GroupInv
  <2> SUFFICES ASSUME GroupInit PROVE GroupInv
    OBVIOUS
  <2> USE DEF GroupInit
  <2>1. GroupTypes
    BY EmptyRows, FS_EmptySet DEF GroupTypes
  <2>2. \A u \in Guest : joining[u] = NoJoin
    OBVIOUS
  <2>3. \A e \in Edit : editing[e] = NoEdit
    OBVIOUS
  <2>4. LimitsAreKnown /\ CountsHadRoom /\ CapacityHoldsUpToOverlap
    BY <2>2, <2>3, EmptyRows DEF LimitsAreKnown, CountsHadRoom, CapacityHoldsUpToOverlap
  <2> QED BY <2>1, <2>4 DEF GroupInv
<1>2. GroupInv /\ [GroupNext]_groupVars => GroupInv'
  <2> SUFFICES ASSUME GroupInv, [GroupNext]_groupVars PROVE GroupInv'
    OBVIOUS
  <2>1. CASE UNCHANGED groupVars
    BY <2>1 DEF groupVars, GroupInv, GroupTypes, LimitsAreKnown, CountsHadRoom,
                CapacityHoldsUpToOverlap
  <2>2. CASE GroupNext
    BY <2>2, CreationKeepsInv, JoiningKeepsInv, AddMemberKeepsInv, EditingKeepsInv DEF GroupNext
  <2> QED BY <2>1, <2>2
<1>3. GroupInv => CapacityHoldsUpToOverlap
  BY DEF GroupInv
<1> QED
  BY <1>1, <1>2, <1>3, PTL DEF GroupSpec

-----------------------------------------------------------------------------
(***************************************************************************)
(* E-mail: the delivery log.                                               *)
(***************************************************************************)
MailJobRow == [state : {"none", "rejected", "waiting", "active", "done", "failed"},
               attemptsMade : Nat, stalled : BOOLEAN]
MailWork == [message : Message \cup {NoMail}, locked : BOOLEAN,
             at : {"idle", "attempt", "send", "mark", "finish", "failed"}]

MailTypes ==
    /\ mailLog \in [Message -> {"none", "queued", "sent", "failed"}]
    /\ mailJob \in [Message -> MailJobRow]
    /\ working \in [MailWorker -> MailWork]
    /\ \A w \in MailWorker : working[w].at # "idle" => working[w].message \in Message
    /\ sent \in [Message -> Nat] /\ unnoticed \in [Message -> Nat]

HoldsJob(w) == working[w].locked /\ working[w].at \in {"attempt", "send", "mark", "finish"}

\* Bull's lock: an active job has one holder at most.
LocksHold ==
    \A w \in MailWorker : HoldsJob(w) =>
        /\ mailJob[working[w].message].state = "active"
        /\ \A v \in MailWorker : HoldsJob(v) /\ working[v].message = working[w].message => v = w

\* A job whose attempts are used up, or whose row says failed, has failed for good.
FailedForGood ==
    \A m \in Message : mailJob[m].attemptsMade >= Attempts \/ mailLog[m] = "failed"
                          => mailJob[m].state = "failed"

\* What is marked sent was delivered.
MarkedWasSent ==
    /\ \A w \in MailWorker : working[w].at \in {"mark", "finish"} => sent[working[w].message] > 0
    /\ \A m \in Message : mailLog[m] = "sent" => sent[m] > 0

Sending(w, m) == working[w].message = m /\ working[w].at \in {"attempt", "send"}
Unresolved(m) == mailJob[m].state \notin {"active", "done"}

\* The deliveries of a message that may still come: one of each worker before its
\* delivery, and one for a job that is not under way and not completed.
Pending(m) ==
    {<<"worker", w>> : w \in {v \in MailWorker : Sending(v, m)}}
       \cup {<<"job", k>> : k \in {j \in {m} : Unresolved(j)}}

DeliveriesAdd(m) ==
    IsFiniteSet(Pending(m)) /\ sent[m] + Cardinality(Pending(m)) <= 1 + unnoticed[m]

\* The inductive invariant.
MailInv == /\ MailTypes /\ LocksHold /\ FailedForGood /\ MarkedWasSent
           /\ \A m \in Message : DeliveriesAdd(m)

-----------------------------------------------------------------------------
\* How a finite set shrinks, grows or swaps an element.
LEMMA SetMoves ==
    ASSUME NEW S, IsFiniteSet(S), NEW T
    PROVE  /\ Cardinality(S) \in Nat
           /\ T \subseteq S => IsFiniteSet(T) /\ Cardinality(T) \in Nat /\ Cardinality(T) <= Cardinality(S)
           /\ \A y : T \subseteq S \cup {y} =>
                 IsFiniteSet(T) /\ Cardinality(T) \in Nat /\ Cardinality(T) <= Cardinality(S) + 1
           /\ \A x \in S : T \subseteq S \ {x} =>
                 IsFiniteSet(T) /\ Cardinality(T) \in Nat /\ Cardinality(T) + 1 <= Cardinality(S)
           /\ \A y : \A x \in S : T \subseteq (S \ {x}) \cup {y} =>
                 IsFiniteSet(T) /\ Cardinality(T) \in Nat /\ Cardinality(T) <= Cardinality(S)
<1>1. Cardinality(S) \in Nat
  BY FS_CardinalityType
<1>2. T \subseteq S => IsFiniteSet(T) /\ Cardinality(T) \in Nat /\ Cardinality(T) <= Cardinality(S)
  BY FS_Subset, FS_CardinalityType
<1>3. ASSUME NEW y, T \subseteq S \cup {y}
      PROVE  IsFiniteSet(T) /\ Cardinality(T) \in Nat /\ Cardinality(T) <= Cardinality(S) + 1
  <2>1. /\ IsFiniteSet(S \cup {y})
        /\ Cardinality(S \cup {y}) = IF y \in S THEN Cardinality(S) ELSE Cardinality(S) + 1
    BY FS_AddElement
  <2>2. IsFiniteSet(T) /\ Cardinality(T) <= Cardinality(S \cup {y}) /\ Cardinality(T) \in Nat
    BY <1>3, <2>1, FS_Subset, FS_CardinalityType
  <2> QED BY <1>1, <2>1, <2>2
<1>4. ASSUME NEW x \in S
      PROVE  IsFiniteSet(S \ {x}) /\ Cardinality(S \ {x}) \in Nat
               /\ Cardinality(S \ {x}) + 1 = Cardinality(S)
  <2>1. IsFiniteSet(S \ {x}) /\ Cardinality(S \ {x}) = Cardinality(S) - 1
    BY FS_RemoveElement
  <2>2. Cardinality(S \ {x}) \in Nat
    BY <2>1, FS_CardinalityType
  <2> QED BY <1>1, <2>1, <2>2
<1>5. ASSUME NEW x \in S, T \subseteq S \ {x}
      PROVE  IsFiniteSet(T) /\ Cardinality(T) \in Nat /\ Cardinality(T) + 1 <= Cardinality(S)
  <2> DEFINE R == S \ {x}
  <2>1. IsFiniteSet(R) /\ Cardinality(R) \in Nat /\ Cardinality(R) + 1 = Cardinality(S)
    BY <1>4
  <2>2. IsFiniteSet(T) /\ Cardinality(T) \in Nat /\ Cardinality(T) <= Cardinality(R)
    BY <1>5, <2>1, FS_Subset, FS_CardinalityType
  <2> HIDE DEF R
  <2> QED BY <1>1, <2>1, <2>2
<1>6. ASSUME NEW x \in S, NEW y, T \subseteq (S \ {x}) \cup {y}
      PROVE  IsFiniteSet(T) /\ Cardinality(T) \in Nat /\ Cardinality(T) <= Cardinality(S)
  <2> DEFINE R == S \ {x}
  <2>1. IsFiniteSet(R) /\ Cardinality(R) \in Nat /\ Cardinality(R) + 1 = Cardinality(S)
    BY <1>4
  <2>2. /\ IsFiniteSet(R \cup {y})
        /\ Cardinality(R \cup {y}) = IF y \in R THEN Cardinality(R) ELSE Cardinality(R) + 1
    BY <2>1, FS_AddElement
  <2>3. IsFiniteSet(T) /\ Cardinality(T) <= Cardinality(R \cup {y}) /\ Cardinality(T) \in Nat
    BY <1>6, <2>2, FS_Subset, FS_CardinalityType
  <2> QED BY <1>1, <2>1, <2>2, <2>3
<1> QED
  BY <1>1, <1>2, <1>3, <1>5, <1>6

\* Swapping an element for another never enlarges a set.
LEMMA SetSwap ==
    ASSUME NEW S, IsFiniteSet(S), NEW x \in S, NEW y, NEW T, T \subseteq (S \ {x}) \cup {y}
    PROVE  IsFiniteSet(T) /\ Cardinality(T) \in Nat /\ Cardinality(T) <= Cardinality(S)
  BY SetMoves

\* A delivery uses up one that was pending; a fault that is not noticed pays for
\* one more; everything else replaces one by another.
LEMMA DeliveriesStillAdd ==
    ASSUME MailTypes, MailTypes', NEW m \in Message, DeliveriesAdd(m),
           \/ /\ Pending(m)' \subseteq Pending(m)
              /\ sent'[m] = sent[m] /\ unnoticed'[m] >= unnoticed[m]
           \/ /\ \E x \in Pending(m) : \E y : Pending(m)' \subseteq (Pending(m) \ {x}) \cup {y}
              /\ sent'[m] = sent[m] /\ unnoticed'[m] >= unnoticed[m]
           \/ /\ \E y : Pending(m)' \subseteq Pending(m) \cup {y}
              /\ sent'[m] = sent[m] /\ unnoticed'[m] = unnoticed[m] + 1
           \/ /\ \E x \in Pending(m) : Pending(m)' \subseteq Pending(m) \ {x}
              /\ sent'[m] = sent[m] + 1 /\ unnoticed'[m] = unnoticed[m]
           \/ /\ \E x \in Pending(m) : \E y : Pending(m)' \subseteq (Pending(m) \ {x}) \cup {y}
              /\ sent'[m] = sent[m] + 1 /\ unnoticed'[m] = unnoticed[m] + 1
    PROVE  DeliveriesAdd(m)'
<1> DEFINE S == Pending(m)
           T == Pending(m)'
<1>1. /\ sent[m] \in Nat /\ sent'[m] \in Nat /\ unnoticed[m] \in Nat /\ unnoticed'[m] \in Nat
      /\ IsFiniteSet(S) /\ Cardinality(S) \in Nat /\ sent[m] + Cardinality(S) <= 1 + unnoticed[m]
  BY SetMoves DEF MailTypes, DeliveriesAdd
<1> SUFFICES IsFiniteSet(T) /\ sent'[m] + Cardinality(T) <= 1 + unnoticed'[m]
  BY DEF DeliveriesAdd
<1> HIDE DEF S, T
<1>2. CASE T \subseteq S /\ sent'[m] = sent[m] /\ unnoticed'[m] >= unnoticed[m]
  <2>1. IsFiniteSet(T) /\ Cardinality(T) \in Nat /\ Cardinality(T) <= Cardinality(S)
    BY <1>1, <1>2, SetMoves
  <2> QED BY <1>1, <1>2, <2>1
<1>3. CASE /\ \E x \in S : \E y : T \subseteq (S \ {x}) \cup {y}
           /\ sent'[m] = sent[m] /\ unnoticed'[m] >= unnoticed[m]
  <2>0. PICK x \in S : \E y : T \subseteq (S \ {x}) \cup {y}
    BY <1>3
  <2>1. PICK y : T \subseteq (S \ {x}) \cup {y}
    BY <2>0
  <2>2. IsFiniteSet(T) /\ Cardinality(T) \in Nat /\ Cardinality(T) <= Cardinality(S)
    BY <1>1, <2>1, SetSwap
  <2> QED BY <1>1, <1>3, <2>2
<1>4. CASE /\ \E y : T \subseteq S \cup {y}
           /\ sent'[m] = sent[m] /\ unnoticed'[m] = unnoticed[m] + 1
  <2>1. IsFiniteSet(T) /\ Cardinality(T) \in Nat /\ Cardinality(T) <= Cardinality(S) + 1
    BY <1>1, <1>4, SetMoves
  <2> QED BY <1>1, <1>4, <2>1
<1>5. CASE /\ \E x \in S : T \subseteq S \ {x}
           /\ sent'[m] = sent[m] + 1 /\ unnoticed'[m] = unnoticed[m]
  <2>1. IsFiniteSet(T) /\ Cardinality(T) \in Nat /\ Cardinality(T) + 1 <= Cardinality(S)
    BY <1>1, <1>5, SetMoves
  <2> QED BY <1>1, <1>5, <2>1
<1>6. CASE /\ \E x \in S : \E y : T \subseteq (S \ {x}) \cup {y}
           /\ sent'[m] = sent[m] + 1 /\ unnoticed'[m] = unnoticed[m] + 1
  <2>0. PICK x \in S : \E y : T \subseteq (S \ {x}) \cup {y}
    BY <1>6
  <2>1. PICK y : T \subseteq (S \ {x}) \cup {y}
    BY <2>0
  <2>2. IsFiniteSet(T) /\ Cardinality(T) \in Nat /\ Cardinality(T) <= Cardinality(S)
    BY <1>1, <2>1, SetSwap
  <2> QED BY <1>1, <1>6, <2>2
<1> QED
  BY <1>2, <1>3, <1>4, <1>5, <1>6 DEF S, T

\* What a message's pending deliveries become when one worker or its job moves.
LEMMA PendingMoves ==
    ASSUME MailTypes, MailTypes', NEW m \in Message, NEW w \in MailWorker,
           \A v \in MailWorker \ {w} : working'[v] = working[v]
    PROVE  /\ Pending(m)' \subseteq Pending(m) \cup {<<"worker", w>>} \cup {<<"job", m>>}
           /\ ~Sending(w, m)' => <<"worker", w>> \notin Pending(m)'
           /\ ~Unresolved(m)' => <<"job", m>> \notin Pending(m)'
           /\ Sending(w, m) => <<"worker", w>> \in Pending(m)
           /\ Unresolved(m) => <<"job", m>> \in Pending(m)
<1>1. \A v \in MailWorker \ {w} : Sending(v, m)' <=> Sending(v, m)
  BY DEF Sending
<1> HIDE DEF Sending, Unresolved
<1>2. \A p \in Pending(m)' : \/ p = <<"job", m>> /\ Unresolved(m)'
                             \/ \E v \in MailWorker : p = <<"worker", v>> /\ Sending(v, m)'
  BY DEF Pending
<1>3. /\ \A v \in MailWorker : Sending(v, m) => <<"worker", v>> \in Pending(m)
      /\ Unresolved(m) => <<"job", m>> \in Pending(m)
  BY DEF Pending
<1>4. \A v : <<"worker", v>> # <<"job", m>>
  OBVIOUS
<1>5. \A v : <<"worker", v>> = <<"worker", w>> => v = w
  OBVIOUS
<1>6. Pending(m)' \subseteq Pending(m) \cup {<<"worker", w>>} \cup {<<"job", m>>}
  <2> SUFFICES ASSUME NEW p \in Pending(m)', p # <<"job", m>>, p # <<"worker", w>>
               PROVE  p \in Pending(m)
    OBVIOUS
  <2>1. PICK v \in MailWorker : p = <<"worker", v>> /\ Sending(v, m)'
    BY <1>2
  <2>2. v # w
    BY <2>1
  <2> QED BY <1>1, <1>3, <2>1, <2>2
<1>7. ~Sending(w, m)' => <<"worker", w>> \notin Pending(m)'
  BY <1>2, <1>4, <1>5
<1>8. ~Unresolved(m)' => <<"job", m>> \notin Pending(m)'
  BY <1>2, <1>4
<1> QED BY <1>3, <1>6, <1>7, <1>8

\* Deliveries of a message that no job and no worker of it concern.
LEMMA PendingUntouched ==
    ASSUME MailTypes, NEW m \in Message,
           Unresolved(m)' <=> Unresolved(m), \A v \in MailWorker : Sending(v, m)' <=> Sending(v, m)
    PROVE  Pending(m)' = Pending(m)
  BY DEF Pending

\* A step of one worker with its message's job: what it leaves alone, and the parts
\* of the invariant that follow from what it does.
LEMMA WorkerStepKeepsInv ==
    ASSUME MailInv, NEW w \in MailWorker, NEW m \in Message, MailTypes',
           working[w].message = m \/ working[w].at = "idle",
           working'[w].message = m \/ working'[w].at = "idle",
           \A v \in MailWorker \ {w} : working'[v] = working[v],
           \A k \in Message \ {m} : /\ mailJob'[k] = mailJob[k] /\ mailLog'[k] = mailLog[k]
                                    /\ sent'[k] = sent[k] /\ unnoticed'[k] = unnoticed[k],
           sent'[m] >= sent[m],
           HoldsJob(w)' => mailJob'[m].state = "active"
                             /\ (HoldsJob(w) \/ mailJob[m].state # "active"),
           mailJob'[m].state # mailJob[m].state => HoldsJob(w) \/ mailJob[m].state # "active",
           mailJob'[m].attemptsMade >= Attempts \/ mailLog'[m] = "failed"
              => mailJob'[m].state = "failed",
           working'[w].at \in {"mark", "finish"} => sent'[m] > 0,
           mailLog'[m] = "sent" => sent'[m] > 0,
           DeliveriesAdd(m)'
    PROVE  MailInv'
<1> USE DEF MailInv
<1>1. \A k \in Message : sent[k] \in Nat /\ sent'[k] \in Nat /\ sent'[k] >= sent[k]
  BY DEF MailTypes
<1>2. \A v \in MailWorker : working[v].at # "idle" => working[v].message \in Message
  BY DEF MailTypes
<1>3. LocksHold'
  <2> SUFFICES ASSUME NEW v \in MailWorker, HoldsJob(v)'
               PROVE  /\ mailJob'[working'[v].message].state = "active"
                      /\ \A u \in MailWorker : HoldsJob(u)' /\ working'[u].message = working'[v].message
                                                  => u = v
    BY DEF LocksHold
  <2>1. \A u \in MailWorker \ {w} : HoldsJob(u)' <=> HoldsJob(u)
    BY DEF HoldsJob
  <2>2. \A u \in MailWorker : HoldsJob(u)' => working'[u].at # "idle"
    BY DEF HoldsJob
  <2>3. CASE v = w
    <3>1. working'[v].message = m /\ mailJob'[m].state = "active"
      BY <2>2, <2>3
    <3>2. ASSUME NEW u \in MailWorker, HoldsJob(u)', working'[u].message = m, u # w
          PROVE  FALSE
      <4>1. HoldsJob(u) /\ working[u].message = m
        BY <2>1, <3>2
      <4>2. mailJob[m].state = "active"
        BY <4>1 DEF LocksHold
      <4>3. HoldsJob(w)
        BY <2>3, <4>2
      <4>4. working[w].message = m
        BY <4>3 DEF HoldsJob
      <4> QED BY <3>2, <4>1, <4>3, <4>4 DEF LocksHold
    <3> QED BY <2>3, <3>1, <3>2
  <2>4. CASE v # w
    <3>1. HoldsJob(v) /\ working'[v] = working[v] /\ working[v].message \in Message
      BY <1>2, <2>1, <2>4 DEF HoldsJob
    <3>2. mailJob[working[v].message].state = "active"
      BY <3>1 DEF LocksHold
    <3>3. CASE working[v].message # m
      BY <1>2, <2>1, <2>2, <2>4, <3>1, <3>2, <3>3 DEF LocksHold
    <3>4. CASE working[v].message = m
      <4>1. ~HoldsJob(w)
        <5> SUFFICES ASSUME HoldsJob(w) PROVE FALSE
          OBVIOUS
        <5>1. working[w].message = m
          BY DEF HoldsJob
        <5> QED BY <2>4, <3>1, <3>4, <5>1 DEF LocksHold
      <4>2. mailJob'[m].state = "active" /\ ~HoldsJob(w)'
        BY <3>2, <3>4, <4>1
      <4> QED BY <2>1, <2>4, <3>1, <3>4, <4>2 DEF LocksHold
    <3> QED BY <3>3, <3>4
  <2> QED BY <2>3, <2>4
<1>4. FailedForGood'
  BY DEF FailedForGood
<1>5. MarkedWasSent'
  <2>1. ASSUME NEW v \in MailWorker, working'[v].at \in {"mark", "finish"}
        PROVE  sent'[working'[v].message] > 0
    <3>1. CASE v = w
      BY <2>1, <3>1
    <3>2. CASE v # w
      <4>1. sent[working[v].message] > 0 /\ working[v].message \in Message
              /\ working'[v] = working[v]
        BY <1>2, <2>1, <3>2 DEF MarkedWasSent
      <4> QED BY <1>1, <4>1
    <3> QED BY <3>1, <3>2
  <2>2. \A k \in Message : mailLog'[k] = "sent" => sent'[k] > 0
    BY DEF MarkedWasSent
  <2> QED BY <2>1, <2>2 DEF MarkedWasSent
<1>6. ASSUME NEW k \in Message
      PROVE  DeliveriesAdd(k)'
  <2>1. CASE k # m
    <3>1. \A v \in MailWorker : Sending(v, k)' <=> Sending(v, k)
      BY <2>1 DEF Sending
    <3>2. Unresolved(k)' <=> Unresolved(k)
      BY <2>1 DEF Unresolved
    <3>3. Pending(k)' = Pending(k)
      BY <3>1, <3>2, PendingUntouched
    <3> QED BY <2>1, <3>3 DEF DeliveriesAdd
  <2> QED BY <2>1
<1> QED BY <1>3, <1>4, <1>5, <1>6

\* What a worker knows of itself when its step changes only where it is.
LEMMA WorkerGoes ==
    ASSUME MailTypes, NEW w \in MailWorker, NEW step, working[w].at # "idle",
           step \in {"idle", "send", "mark", "finish", "failed"}, MailStep(w, step)
    PROVE  /\ working' \in [MailWorker -> MailWork]
           /\ \A v \in MailWorker \ {w} : working'[v] = working[v]
           /\ working'[w].at = step
           /\ step # "idle" => /\ working'[w].message = working[w].message
                               /\ working'[w].locked = working[w].locked
           /\ \A v \in MailWorker : working'[v].at # "idle" => working'[v].message \in Message
<1> DEFINE moved == [working[w] EXCEPT !.at = step]
<1>1. working[w] \in MailWork /\ working[w].message \in Message
  BY DEF MailTypes
<1>2. step # "idle" => /\ moved \in MailWork /\ moved.at = step
                       /\ moved.message = working[w].message /\ moved.locked = working[w].locked
  BY <1>1 DEF MailWork
<1>3. Idle \in MailWork /\ Idle.at = "idle"
  BY DEF Idle, MailWork, NoMail
<1>4. working' = [working EXCEPT ![w] = IF step = "idle" THEN Idle ELSE moved]
  BY DEF MailStep
<1> HIDE DEF moved
<1>5. /\ working' \in [MailWorker -> MailWork]
      /\ \A v \in MailWorker \ {w} : working'[v] = working[v]
      /\ working'[w] = IF step = "idle" THEN Idle ELSE moved
  BY <1>2, <1>3, <1>4 DEF MailTypes
<1> QED BY <1>1, <1>2, <1>3, <1>5 DEF MailTypes

\* EmailService.queue: the row, and then the job.
LEMMA QueueKeepsInv ==
    ASSUME MailInv, NEW m \in Message, SaveLog(m) \/ AddJob(m)
    PROVE  MailInv'
<1> USE DEF MailInv
<1>1. CASE SaveLog(m)
  <2>1. /\ mailLog[m] = "none" /\ mailLog' = [mailLog EXCEPT ![m] = "queued"]
        /\ UNCHANGED <<mailJob, working, sent, unnoticed>>
    BY <1>1 DEF SaveLog
  <2>2. MailTypes'
    BY <2>1 DEF MailTypes
  <2>3. FailedForGood' /\ MarkedWasSent' /\ LocksHold'
    BY <2>1 DEF MailTypes, FailedForGood, MarkedWasSent, LocksHold, HoldsJob
  <2>4. \A k \in Message : DeliveriesAdd(k)'
    BY <2>1 DEF DeliveriesAdd, Pending, Sending, Unresolved
  <2> QED BY <2>2, <2>3, <2>4
<1>2. CASE AddJob(m)
  <2>1. mailJob[m] \in MailJobRow /\ mailJob[m].state = "none" /\ mailLog[m] = "queued"
          /\ UNCHANGED <<mailLog, working, sent, unnoticed>>
    BY <1>2 DEF AddJob, MailTypes
  <2>2. PICK s \in {"waiting", "rejected"} :
           mailJob' = [mailJob EXCEPT ![m] = [mailJob[m] EXCEPT !.state = s]]
    BY <1>2 DEF AddJob
  <2> DEFINE row == [mailJob[m] EXCEPT !.state = s]
  <2>3. row \in MailJobRow /\ row.state = s /\ row.attemptsMade = mailJob[m].attemptsMade
    BY <2>1 DEF MailJobRow
  <2>4. /\ mailJob' \in [Message -> MailJobRow] /\ mailJob'[m] = row
        /\ \A k \in Message \ {m} : mailJob'[k] = mailJob[k]
    <3> HIDE DEF row
    <3> QED BY <2>2, <2>3 DEF MailTypes, row
  <2> HIDE DEF row
  <2>5. MailTypes'
    BY <2>1, <2>4 DEF MailTypes
  <2>6. MarkedWasSent'
    BY <2>1 DEF MarkedWasSent
  <2>7. FailedForGood'
    BY <2>1, <2>3, <2>4 DEF FailedForGood
  <2>8. LocksHold'
    <3>1. \A w \in MailWorker : HoldsJob(w) => working[w].message \in Message \ {m}
      BY <2>1 DEF LocksHold, HoldsJob, MailTypes
    <3>2. \A w \in MailWorker : HoldsJob(w)' <=> HoldsJob(w)
      BY <2>1 DEF HoldsJob
    <3> QED BY <2>1, <2>4, <3>1, <3>2 DEF LocksHold
  <2>9. ASSUME NEW k \in Message
        PROVE  DeliveriesAdd(k)'
    <3>1. Unresolved(k)' <=> Unresolved(k)
      BY <2>1, <2>3, <2>4 DEF Unresolved
    <3>2. \A v \in MailWorker : Sending(v, k)' <=> Sending(v, k)
      BY <2>1 DEF Sending
    <3>3. Pending(k)' = Pending(k)
      BY <3>1, <3>2, PendingUntouched
    <3> QED BY <2>1, <3>3 DEF DeliveriesAdd
  <2> QED BY <2>5, <2>6, <2>7, <2>8, <2>9
<1> QED BY <1>1, <1>2

\* Bull hands a waiting job to a worker.
LEMMA TakeKeepsInv ==
    ASSUME MailInv, NEW w \in MailWorker, NEW m \in Message, TakeJob(w, m)
    PROVE  MailInv'
<1> USE DEF MailInv
<1> DEFINE row == [mailJob[m] EXCEPT !.state = "active"]
           work == [message |-> m, at |-> "attempt", locked |-> TRUE]
<1>1. /\ working[w] = Idle /\ mailJob[m].state = "waiting" /\ mailJob[m] \in MailJobRow
      /\ mailJob' = [mailJob EXCEPT ![m] = row] /\ working' = [working EXCEPT ![w] = work]
      /\ UNCHANGED <<mailLog, sent, unnoticed>>
  BY DEF TakeJob, MailTypes
<1>2. row \in MailJobRow /\ row.state = "active" /\ row.attemptsMade = mailJob[m].attemptsMade
  BY <1>1 DEF MailJobRow
<1>3. work \in MailWork /\ work.message = m /\ work.at = "attempt"
  BY DEF MailWork
<1> HIDE DEF row, work
<1>4. /\ mailJob' \in [Message -> MailJobRow] /\ mailJob'[m] = row
      /\ \A k \in Message \ {m} : mailJob'[k] = mailJob[k]
      /\ working' \in [MailWorker -> MailWork] /\ working'[w] = work
      /\ \A v \in MailWorker \ {w} : working'[v] = working[v]
  BY <1>1, <1>2, <1>3 DEF MailTypes
<1>5. MailTypes'
  BY <1>1, <1>3, <1>4 DEF MailTypes
<1>6. DeliveriesAdd(m)'
  <2>1. Unresolved(m) /\ ~Unresolved(m)'
    BY <1>1, <1>2, <1>4 DEF Unresolved
  <2>2. <<"job", m>> \in Pending(m)
          /\ Pending(m)' \subseteq (Pending(m) \ {<<"job", m>>}) \cup {<<"worker", w>>}
    <3>1. /\ Pending(m)' \subseteq Pending(m) \cup {<<"worker", w>>} \cup {<<"job", m>>}
          /\ <<"job", m>> \notin Pending(m)' /\ <<"job", m>> \in Pending(m)
      BY <1>4, <1>5, <2>1, PendingMoves
    <3> QED BY <3>1
  <2>3. sent'[m] = sent[m] /\ unnoticed'[m] >= unnoticed[m]
    BY <1>1 DEF MailTypes
  <2>4. \E x \in Pending(m) : \E y : Pending(m)' \subseteq (Pending(m) \ {x}) \cup {y}
    BY <2>2
  <2> QED BY <1>5, <2>3, <2>4, DeliveriesStillAdd
<1>7. working[w].at = "idle"
  BY <1>1 DEF Idle
<1>8. mailJob'[m].attemptsMade >= Attempts \/ mailLog'[m] = "failed" => mailJob'[m].state = "failed"
  BY <1>1, <1>2, <1>4 DEF FailedForGood
<1>9. mailLog'[m] = "sent" => sent'[m] > 0
  BY <1>1 DEF MarkedWasSent
<1>10. sent'[m] >= sent[m]
  BY <1>1 DEF MailTypes
<1> QED
  BY <1>1, <1>2, <1>3, <1>4, <1>5, <1>6, <1>7, <1>8, <1>9, <1>10, WorkerStepKeepsInv

\* handleSend before and after the delivery, and handleFailed: the pending
\* deliveries stay what they were.
LEMMA MarkingKeepsInv ==
    ASSUME MailInv, NEW w \in MailWorker,
           CountAttempt(w) \/ MarkSent(w) \/ FinishJob(w) \/ HandleFailed(w)
    PROVE  MailInv'
<1> USE DEF MailInv
<1>m. PICK m \in Message : m = working[w].message
  BY DEF CountAttempt, MarkSent, FinishJob, HandleFailed, MailTypes
<1>0. working[w].at # "idle" /\ UNCHANGED <<sent, unnoticed>>
  BY DEF CountAttempt, MarkSent, FinishJob, HandleFailed
<1>1. sent[m] \in Nat /\ unnoticed[m] \in Nat /\ mailJob[m] \in MailJobRow
  BY <1>0 DEF MailTypes
<1>2. ASSUME NEW step \in {"idle", "send", "finish"}, MailStep(w, step), MailTypes',
             mailJob'[m].state = mailJob[m].state
               \/ (HoldsJob(w) /\ step = "idle" /\ mailJob'[m].state \in {"active", "done"}),
             \A k \in Message \ {m} : mailJob'[k] = mailJob[k] /\ mailLog'[k] = mailLog[k],
             mailJob'[m].attemptsMade >= Attempts \/ mailLog'[m] = "failed"
                => mailJob'[m].state = "failed",
             mailLog'[m] = "sent" => sent'[m] > 0,
             step = "finish" => sent[m] > 0 /\ working[w].at = "mark",
             step = "send" => working[w].at = "attempt",
             step = "idle" => working[w].at \in {"finish", "failed"}
      PROVE  MailInv'
  <2>1. /\ \A v \in MailWorker \ {w} : working'[v] = working[v]
        /\ working'[w].at = step
        /\ step # "idle" => working'[w].message = m /\ working'[w].locked = working[w].locked
    BY <1>m, <1>0, <1>2, WorkerGoes
  <2>2. HoldsJob(w)' => HoldsJob(w) /\ mailJob'[m].state = "active"
    <3>1. HoldsJob(w)' => HoldsJob(w) /\ step # "idle"
      BY <1>2, <2>1 DEF HoldsJob
    <3>2. HoldsJob(w) => mailJob[m].state = "active"
      BY <1>m DEF LocksHold
    <3> QED BY <1>2, <3>1, <3>2
  <2>3. Pending(m)' = Pending(m)
    <3>1. Unresolved(m)' <=> Unresolved(m)
      <4>1. HoldsJob(w) => mailJob[m].state = "active"
        BY <1>m DEF LocksHold
      <4> QED BY <1>2, <4>1 DEF Unresolved
    <3>2. \A v \in MailWorker : Sending(v, m)' <=> Sending(v, m)
      BY <1>m, <1>2, <2>1 DEF Sending
    <3> QED BY <1>0, <3>1, <3>2, PendingUntouched
  <2>4. DeliveriesAdd(m)'
    BY <1>0, <2>3 DEF DeliveriesAdd
  <2>5. working'[w].at \in {"mark", "finish"} => sent'[m] > 0
    BY <1>0, <1>2, <2>1
  <2> QED
    BY <1>m, <1>0, <1>1, <1>2, <2>1, <2>2, <2>4, <2>5, WorkerStepKeepsInv
<1>3. mailLog[m] = "sent" => sent[m] > 0
  BY <1>0 DEF MarkedWasSent
<1>4. mailJob[m].attemptsMade >= Attempts \/ mailLog[m] = "failed" => mailJob[m].state = "failed"
  BY <1>0 DEF FailedForGood
<1>5. CASE CountAttempt(w)
  <2>1. working[w].at = "attempt" /\ MailStep(w, "send") /\ UNCHANGED <<mailLog, mailJob>>
    BY <1>5 DEF CountAttempt
  <2>2. MailTypes'
    BY <1>0, <2>1, WorkerGoes DEF MailTypes
  <2> QED BY <1>0, <1>2, <1>3, <1>4, <2>1, <2>2
<1>6. CASE MarkSent(w)
  <2>1. working[w].at = "mark" /\ MailStep(w, "finish") /\ UNCHANGED mailJob
          /\ mailLog' = [mailLog EXCEPT ![m] = "sent"]
    BY <1>m, <1>6 DEF MarkSent
  <2>2. MailTypes'
    BY <1>0, <2>1, WorkerGoes DEF MailTypes
  <2>3. sent[m] > 0
    BY <1>m, <2>1 DEF MarkedWasSent
  <2>4. mailLog'[m] = "sent" /\ \A k \in Message \ {m} : mailLog'[k] = mailLog[k]
    BY <1>0, <2>1 DEF MailTypes
  <2> QED BY <1>0, <1>2, <1>4, <2>1, <2>2, <2>3, <2>4
<1>7. CASE FinishJob(w)
  <2> DEFINE row == [mailJob[m] EXCEPT !.state = "done"]
  <2>1. /\ working[w].at = "finish" /\ MailStep(w, "idle") /\ UNCHANGED mailLog
        /\ mailJob' = IF working[w].locked THEN [mailJob EXCEPT ![m] = row] ELSE mailJob
    BY <1>m, <1>7 DEF FinishJob
  <2>2. row \in MailJobRow /\ row.state = "done" /\ row.attemptsMade = mailJob[m].attemptsMade
    BY <1>1 DEF MailJobRow
  <2> HIDE DEF row
  <2>3. /\ mailJob' \in [Message -> MailJobRow]
        /\ \A k \in Message \ {m} : mailJob'[k] = mailJob[k]
        /\ mailJob'[m] = IF working[w].locked THEN row ELSE mailJob[m]
    BY <1>0, <2>1, <2>2 DEF MailTypes
  <2>4. MailTypes'
    BY <1>0, <2>1, <2>3, WorkerGoes DEF MailTypes
  <2>5. working[w].locked => HoldsJob(w) /\ mailJob[m].state = "active"
    BY <1>m, <2>1 DEF HoldsJob, LocksHold
  <2> QED BY <1>0, <1>2, <1>3, <1>4, <2>1, <2>2, <2>3, <2>4, <2>5
<1>8. CASE HandleFailed(w)
  <2>1. /\ working[w].at = "failed" /\ MailStep(w, "idle") /\ UNCHANGED mailJob
        /\ mailLog' = IF mailJob[m].attemptsMade >= Attempts
                      THEN [mailLog EXCEPT ![m] = "failed"] ELSE mailLog
    BY <1>m, <1>8 DEF HandleFailed
  <2>2. /\ mailLog' \in [Message -> {"none", "queued", "sent", "failed"}]
        /\ \A k \in Message \ {m} : mailLog'[k] = mailLog[k]
        /\ mailLog'[m] = IF mailJob[m].attemptsMade >= Attempts THEN "failed" ELSE mailLog[m]
    BY <1>0, <2>1 DEF MailTypes
  <2>3. MailTypes'
    BY <1>0, <2>1, <2>2, WorkerGoes DEF MailTypes
  <2> QED BY <1>0, <1>2, <1>3, <1>4, <2>1, <2>2, <2>3
<1> QED BY <1>5, <1>6, <1>7, <1>8

\* The delivery itself.
LEMMA SendKeepsInv ==
    ASSUME MailInv, NEW w \in MailWorker, Send(w)
    PROVE  MailInv'
<1> USE DEF MailInv
<1>m. PICK m \in Message : m = working[w].message
  BY DEF Send, MailTypes
<1>1. /\ working[w].at = "send" /\ MailStep(w, "mark")
      /\ sent' = [sent EXCEPT ![m] = sent[m] + 1] /\ UNCHANGED <<mailLog, mailJob, unnoticed>>
  BY <1>m DEF Send
<1>2. /\ working' \in [MailWorker -> MailWork]
      /\ \A v \in MailWorker \ {w} : working'[v] = working[v]
      /\ working'[w].at = "mark" /\ working'[w].message = m
      /\ working'[w].locked = working[w].locked
      /\ \A v \in MailWorker : working'[v].at # "idle" => working'[v].message \in Message
  BY <1>m, <1>1, WorkerGoes
<1>3. /\ sent[m] \in Nat /\ sent'[m] = sent[m] + 1 /\ sent' \in [Message -> Nat]
      /\ \A k \in Message \ {m} : sent'[k] = sent[k]
  BY <1>1 DEF MailTypes
<1>4. MailTypes'
  BY <1>1, <1>2, <1>3 DEF MailTypes
<1>5. DeliveriesAdd(m)'
  <2>1. Sending(w, m) /\ ~Sending(w, m)'
    BY <1>m, <1>1, <1>2 DEF Sending
  <2>2. Unresolved(m)' <=> Unresolved(m)
    BY <1>1 DEF Unresolved
  <2>3. <<"worker", w>> \in Pending(m) /\ Pending(m)' \subseteq Pending(m) \ {<<"worker", w>>}
    <3>1. /\ Pending(m)' \subseteq Pending(m) \cup {<<"worker", w>>} \cup {<<"job", m>>}
          /\ <<"worker", w>> \notin Pending(m)' /\ <<"worker", w>> \in Pending(m)
          /\ <<"job", m>> \in Pending(m)' => <<"job", m>> \in Pending(m)
      BY <1>2, <1>4, <2>1, <2>2, PendingMoves
    <3> QED BY <3>1
  <2>4. \E x \in Pending(m) : Pending(m)' \subseteq Pending(m) \ {x}
    BY <2>3
  <2> QED BY <1>1, <1>3, <1>4, <2>4, DeliveriesStillAdd
<1>6. HoldsJob(w)' => HoldsJob(w) /\ mailJob'[m].state = "active"
  <2>1. HoldsJob(w)' => HoldsJob(w)
    BY <1>1, <1>2 DEF HoldsJob
  <2> QED BY <1>m, <1>1, <2>1 DEF LocksHold
<1>7. mailJob'[m].attemptsMade >= Attempts \/ mailLog'[m] = "failed" => mailJob'[m].state = "failed"
  BY <1>1 DEF FailedForGood
<1>8. sent'[m] >= sent[m] /\ sent'[m] > 0
  BY <1>3
<1> QED
  BY <1>m, <1>1, <1>2, <1>3, <1>4, <1>5, <1>6, <1>7, <1>8, WorkerStepKeepsInv

\* A rejected call: the worker that holds the job gives it back to Bull, and one
\* that was before its delivery leaves the job's delivery pending instead.
LEMMA FailureKeepsInv ==
    ASSUME MailInv, NEW w \in MailWorker, AttemptFails(w)
    PROVE  MailInv'
<1> USE DEF MailInv
<1>m. PICK m \in Message : m = working[w].message
  BY DEF AttemptFails, MailTypes
<1> DEFINE made == mailJob[m].attemptsMade + 1
           row == [mailJob[m] EXCEPT !.attemptsMade = made,
                                     !.state = IF made < Attempts THEN "waiting" ELSE "failed"]
<1>d. PICK done \in BOOLEAN :
         /\ sent' = IF done /\ working[w].at = "send" THEN [sent EXCEPT ![m] = sent[m] + 1] ELSE sent
         /\ mailLog' = IF done /\ working[w].at = "mark"
                       THEN [mailLog EXCEPT ![m] = "sent"] ELSE mailLog
         /\ unnoticed' = IF working[w].at = "mark" \/ (done /\ working[w].at = "send")
                         THEN [unnoticed EXCEPT ![m] = unnoticed[m] + 1] ELSE unnoticed
  BY <1>m DEF AttemptFails
<1>1. /\ working[w].at \in {"attempt", "send", "mark"}
      /\ IF working[w].locked THEN mailJob' = [mailJob EXCEPT ![m] = row] /\ MailStep(w, "failed")
         ELSE UNCHANGED mailJob /\ MailStep(w, "idle")
  BY <1>m DEF AttemptFails
<1>2. /\ sent[m] \in Nat /\ unnoticed[m] \in Nat /\ mailJob[m] \in MailJobRow
      /\ working[w].at # "idle" /\ working[w].locked \in BOOLEAN
  BY <1>1 DEF MailTypes, MailWork
<1>3. /\ row \in MailJobRow /\ row.state \in {"waiting", "failed"}
      /\ row.attemptsMade >= Attempts => row.state = "failed"
  <2> DEFINE counted == [mailJob[m] EXCEPT !.attemptsMade = made]
  <2>1. made \in Nat
    BY <1>2 DEF MailJobRow
  <2> HIDE DEF made
  <2>2. counted \in MailJobRow /\ counted.attemptsMade = made
    BY <1>2, <2>1 DEF MailJobRow
  <2> HIDE DEF counted
  <2>3. row = [counted EXCEPT !.state = IF made < Attempts THEN "waiting" ELSE "failed"]
    BY DEF counted
  <2> HIDE DEF row
  <2>4. row \in MailJobRow /\ row.attemptsMade = made
          /\ row.state = IF made < Attempts THEN "waiting" ELSE "failed"
    BY <2>2, <2>3 DEF MailJobRow
  <2> QED BY <2>1, <2>4, MailAssumption
<1> HIDE DEF row, made
<1>4. /\ working' \in [MailWorker -> MailWork]
      /\ \A v \in MailWorker \ {w} : working'[v] = working[v]
      /\ working'[w].at \in {"failed", "idle"}
      /\ working'[w].message = m \/ working'[w].at = "idle"
      /\ \A v \in MailWorker : working'[v].at # "idle" => working'[v].message \in Message
  BY <1>m, <1>1, <1>2, WorkerGoes
<1>5. /\ mailJob' \in [Message -> MailJobRow]
      /\ \A k \in Message \ {m} : mailJob'[k] = mailJob[k]
      /\ mailJob'[m] = IF working[w].locked THEN row ELSE mailJob[m]
  BY <1>1, <1>3 DEF MailTypes
<1>6. /\ unnoticed' \in [Message -> Nat]
      /\ \A k \in Message \ {m} : unnoticed'[k] = unnoticed[k]
      /\ unnoticed'[m] = IF working[w].at = "mark" \/ (done /\ working[w].at = "send")
                         THEN unnoticed[m] + 1 ELSE unnoticed[m]
  BY <1>d, <1>2 DEF MailTypes
<1>s. /\ sent' \in [Message -> Nat] /\ \A k \in Message \ {m} : sent'[k] = sent[k]
      /\ sent'[m] = IF done /\ working[w].at = "send" THEN sent[m] + 1 ELSE sent[m]
  BY <1>d, <1>2 DEF MailTypes
<1>l. /\ mailLog' \in [Message -> {"none", "queued", "sent", "failed"}]
      /\ \A k \in Message \ {m} : mailLog'[k] = mailLog[k]
      /\ mailLog'[m] = mailLog[m] \/ (working[w].at = "mark" /\ mailLog'[m] = "sent")
  BY <1>d DEF MailTypes
<1>7. MailTypes'
  BY <1>4, <1>5, <1>6, <1>s, <1>l DEF MailTypes
<1>8. working[w].locked => HoldsJob(w) /\ mailJob[m].state = "active"
  BY <1>m, <1>1 DEF HoldsJob, LocksHold
<1>9. ~HoldsJob(w)' /\ ~Sending(w, m)'
  BY <1>4 DEF HoldsJob, Sending
<1>10. DeliveriesAdd(m)'
  <2>1. /\ Pending(m)' \subseteq Pending(m) \cup {<<"worker", w>>} \cup {<<"job", m>>}
        /\ <<"worker", w>> \notin Pending(m)'
        /\ Sending(w, m) => <<"worker", w>> \in Pending(m)
    BY <1>4, <1>7, <1>9, PendingMoves
  <2>2. CASE working[w].at = "mark"
    <3>1. Pending(m)' \subseteq Pending(m) \cup {<<"job", m>>}
      BY <2>1
    <3>2. \E y : Pending(m)' \subseteq Pending(m) \cup {y}
      BY <3>1
    <3>3. sent'[m] = sent[m] /\ unnoticed'[m] = unnoticed[m] + 1
      BY <1>s, <1>6, <2>2
    <3> QED BY <1>7, <3>2, <3>3, DeliveriesStillAdd
  <2>3. CASE working[w].at # "mark"
    <3>1. <<"worker", w>> \in Pending(m)
      BY <1>m, <1>1, <2>1, <2>3 DEF Sending
    <3>2. Pending(m)' \subseteq (Pending(m) \ {<<"worker", w>>}) \cup {<<"job", m>>}
      BY <2>1
    <3>3. \E x \in Pending(m) : \E y : Pending(m)' \subseteq (Pending(m) \ {x}) \cup {y}
      BY <3>1, <3>2
    <3>4. CASE done /\ working[w].at = "send"
      <4>1. sent'[m] = sent[m] + 1 /\ unnoticed'[m] = unnoticed[m] + 1
        BY <1>s, <1>6, <3>4
      <4> QED BY <1>7, <3>3, <4>1, DeliveriesStillAdd
    <3>5. CASE ~(done /\ working[w].at = "send")
      <4>1. sent'[m] = sent[m] /\ unnoticed'[m] >= unnoticed[m]
        BY <1>s, <1>2, <1>6, <2>3, <3>5
      <4> QED BY <1>7, <3>3, <4>1, DeliveriesStillAdd
    <3> QED BY <3>4, <3>5
  <2> QED BY <2>2, <2>3
<1>11. mailJob'[m].attemptsMade >= Attempts \/ mailLog'[m] = "failed" => mailJob'[m].state = "failed"
  BY <1>3, <1>5, <1>8, <1>l DEF FailedForGood
<1>12. mailLog'[m] = "sent" => sent'[m] > 0
  <2>1. mailLog'[m] = "sent" => sent[m] > 0
    BY <1>m, <1>l DEF MarkedWasSent
  <2> QED BY <1>2, <1>s, <2>1
<1>13. sent'[m] >= sent[m] /\ working[w].message = m
  BY <1>m, <1>2, <1>s
<1>14. \A k \in Message \ {m} : /\ mailJob'[k] = mailJob[k] /\ mailLog'[k] = mailLog[k]
                                /\ sent'[k] = sent[k] /\ unnoticed'[k] = unnoticed[k]
  BY <1>5, <1>6, <1>s, <1>l
<1>15. mailJob'[m].state # mailJob[m].state => HoldsJob(w)
  BY <1>5, <1>8
<1>16. working'[w].at \notin {"mark", "finish"}
  BY <1>4
<1> QED
  BY <1>4, <1>7, <1>9, <1>10, <1>11, <1>12, <1>13, <1>14, <1>15, <1>16, WorkerStepKeepsInv

\* A stalled job is run again while its worker may go on: the stall pays for it.
LEMMA StallKeepsInv ==
    ASSUME MailInv, NEW w \in MailWorker, Stall(w)
    PROVE  MailInv'
<1> USE DEF MailInv
<1>m. PICK m \in Message : m = working[w].message
  BY DEF Stall, MailTypes
<1> DEFINE row == [mailJob[m] EXCEPT !.state = IF mailJob[m].stalled THEN "failed" ELSE "waiting",
                                     !.stalled = TRUE]
           still == [working[w] EXCEPT !.locked = FALSE]
<1>1. /\ working[w].at \in {"attempt", "send", "mark"} /\ working[w].locked
      /\ UNCHANGED <<mailLog, sent>> /\ mailJob' = [mailJob EXCEPT ![m] = row]
      /\ unnoticed' = [unnoticed EXCEPT ![m] = unnoticed[m] + 1]
      /\ \E work \in {Idle, still} : working' = [working EXCEPT ![w] = work]
  BY <1>m DEF Stall
<1>2. /\ sent[m] \in Nat /\ unnoticed[m] \in Nat /\ mailJob[m] \in MailJobRow
      /\ working[w] \in MailWork
  BY DEF MailTypes
<1>3. /\ row \in MailJobRow /\ row.state \in {"waiting", "failed"}
      /\ row.attemptsMade = mailJob[m].attemptsMade
  <2> DEFINE s == IF mailJob[m].stalled THEN "failed" ELSE "waiting"
             moved == [mailJob[m] EXCEPT !.state = s]
  <2>1. s \in {"waiting", "failed"}
    OBVIOUS
  <2> HIDE DEF s
  <2>2. moved \in MailJobRow /\ moved.state = s /\ moved.attemptsMade = mailJob[m].attemptsMade
    BY <1>2, <2>1 DEF MailJobRow
  <2> HIDE DEF moved
  <2>3. row = [moved EXCEPT !.stalled = TRUE]
    BY DEF moved, s
  <2> HIDE DEF row
  <2> QED BY <2>1, <2>2, <2>3 DEF MailJobRow
<1>4. /\ still \in MailWork /\ still.message = m /\ still.at = working[w].at /\ ~still.locked
      /\ Idle \in MailWork /\ Idle.at = "idle"
  BY <1>m, <1>2 DEF MailWork, Idle, NoMail
<1> HIDE DEF row, still
<1>5. /\ working' \in [MailWorker -> MailWork] /\ working'[w] \in {Idle, still}
      /\ \A v \in MailWorker \ {w} : working'[v] = working[v]
  BY <1>1, <1>4 DEF MailTypes
<1>6. /\ mailJob' \in [Message -> MailJobRow] /\ mailJob'[m] = row
      /\ \A k \in Message \ {m} : mailJob'[k] = mailJob[k]
      /\ unnoticed' \in [Message -> Nat] /\ unnoticed'[m] = unnoticed[m] + 1
      /\ \A k \in Message \ {m} : unnoticed'[k] = unnoticed[k]
  BY <1>1, <1>2, <1>3 DEF MailTypes
<1>7. MailTypes'
  <2>1. \A v \in MailWorker : working'[v].at # "idle" => working'[v].message \in Message
    BY <1>4, <1>5 DEF MailTypes
  <2> QED BY <1>1, <1>5, <1>6, <2>1 DEF MailTypes
<1>8. HoldsJob(w) /\ mailJob[m].state = "active" /\ ~HoldsJob(w)'
  BY <1>m, <1>1, <1>4, <1>5 DEF HoldsJob, LocksHold
<1>9. DeliveriesAdd(m)'
  <2>1. /\ Pending(m)' \subseteq Pending(m) \cup {<<"worker", w>>} \cup {<<"job", m>>}
        /\ ~Sending(w, m)' => <<"worker", w>> \notin Pending(m)'
        /\ Sending(w, m) => <<"worker", w>> \in Pending(m)
    BY <1>5, <1>7, PendingMoves
  <2>2. Sending(w, m)' => Sending(w, m)
    BY <1>m, <1>4, <1>5 DEF Sending
  <2>3. Pending(m)' \subseteq Pending(m) \cup {<<"job", m>>}
    BY <2>1, <2>2
  <2>4. \E y : Pending(m)' \subseteq Pending(m) \cup {y}
    BY <2>3
  <2>5. sent'[m] = sent[m] /\ unnoticed'[m] = unnoticed[m] + 1
    BY <1>1, <1>6
  <2> QED BY <1>7, <2>4, <2>5, DeliveriesStillAdd
<1>10. mailJob'[m].attemptsMade >= Attempts \/ mailLog'[m] = "failed" => mailJob'[m].state = "failed"
  BY <1>1, <1>3, <1>6, <1>8 DEF FailedForGood
<1>11. mailLog'[m] = "sent" => sent'[m] > 0
  BY <1>1 DEF MarkedWasSent
<1>12. sent'[m] >= sent[m] /\ working[w].message = m
  BY <1>m, <1>1, <1>2
<1>13. \A k \in Message \ {m} : /\ mailJob'[k] = mailJob[k] /\ mailLog'[k] = mailLog[k]
                                /\ sent'[k] = sent[k] /\ unnoticed'[k] = unnoticed[k]
  BY <1>1, <1>6
<1>14. working'[w].at \in {"mark", "finish"} => sent'[m] > 0
  <2>1. working'[w].at \in {"mark", "finish"} => working[w].at = "mark"
    BY <1>1, <1>4, <1>5
  <2> QED BY <1>m, <1>1, <2>1 DEF MarkedWasSent
<1>15. working'[w].message = m \/ working'[w].at = "idle"
  BY <1>4, <1>5
<1> QED
  BY <1>5, <1>7, <1>8, <1>9, <1>10, <1>11, <1>12, <1>13, <1>14, <1>15, WorkerStepKeepsInv

\* For any number of messages and workers, any number of attempts, rejected calls
\* and stalls: an EmailLog never says sent of an undelivered message, and every
\* delivery beyond the first, and every failed entry of a delivered message, is due
\* to a fault after a delivery (EmailProcessor.handleSend, handleFailed).
THEOREM MailLogStaysHonest == MailSpec => []MailLogIsHonest
<1>1. MailInit => MailInv
  <2> SUFFICES ASSUME MailInit PROVE MailInv
    OBVIOUS
  <2> DEFINE job == [state |-> "none", attemptsMade |-> 0, stalled |-> FALSE]
  <2>1. job \in MailJobRow /\ job.state = "none" /\ job.attemptsMade = 0
    BY DEF MailJobRow
  <2>2. Idle \in MailWork /\ Idle.at = "idle"
    BY DEF Idle, MailWork, NoMail
  <2>3. /\ \A w \in MailWorker : working[w] = Idle
        /\ \A m \in Message : /\ mailJob[m] = job /\ mailLog[m] = "none"
                              /\ sent[m] = 0 /\ unnoticed[m] = 0
    BY DEF MailInit
  <2>4. MailTypes
    <3> HIDE DEF job
    <3>1. mailJob \in [Message -> MailJobRow]
      BY <2>1 DEF MailInit, job
    <3>2. working \in [MailWorker -> MailWork]
      BY <2>2 DEF MailInit
    <3> QED BY <2>2, <2>3, <3>1, <3>2 DEF MailInit, MailTypes
  <2> HIDE DEF job
  <2>5. LocksHold /\ MarkedWasSent
    BY <2>2, <2>3 DEF LocksHold, HoldsJob, MarkedWasSent
  <2>6. FailedForGood
    BY <2>1, <2>3, MailAssumption DEF FailedForGood
  <2>7. ASSUME NEW m \in Message
        PROVE  DeliveriesAdd(m)
    <3>1. Pending(m) \subseteq {<<"job", m>>}
      <4>1. \A w \in MailWorker : ~Sending(w, m)
        BY <2>2, <2>3 DEF Sending
      <4> QED BY <4>1 DEF Pending
    <3>2. IsFiniteSet({<<"job", m>>}) /\ Cardinality({<<"job", m>>}) = 1
      BY FS_Singleton
    <3>3. IsFiniteSet(Pending(m)) /\ Cardinality(Pending(m)) <= 1 /\ Cardinality(Pending(m)) \in Nat
      BY <3>1, <3>2, FS_Subset, FS_CardinalityType
    <3> QED BY <2>3, <3>3 DEF DeliveriesAdd
  <2> QED BY <2>4, <2>5, <2>6, <2>7 DEF MailInv
<1>2. MailInv /\ [MailNext]_mailVars => MailInv'
  <2> SUFFICES ASSUME MailInv, [MailNext]_mailVars PROVE MailInv'
    OBVIOUS
  <2>1. CASE UNCHANGED jobVars
    BY <2>1 DEF jobVars, MailInv, MailTypes, LocksHold, HoldsJob, FailedForGood, MarkedWasSent,
                DeliveriesAdd, Pending, Sending, Unresolved
  <2>2. CASE UNCHANGED mailVars
    <3>1. UNCHANGED jobVars
      BY <2>2 DEF mailVars, jobVars
    <3> QED BY <2>1, <3>1
  <2>3. CASE \/ \E c \in Content : CreateTemplate(c) \/ Revise(c)
             \/ \E v \in versions : Rollback(v)
             \/ \E r \in ImportRow : CreateRow(r)
             \/ MailResults \/ ImportStalls
    <3>1. UNCHANGED jobVars
      BY <2>3 DEF CreateTemplate, Revise, Rollback, CreateRow, MailResults, ImportStalls
    <3> QED BY <2>1, <3>1
  <2>4. CASE MailNext
    BY <2>3, <2>4, QueueKeepsInv, TakeKeepsInv, MarkingKeepsInv, SendKeepsInv, FailureKeepsInv,
       StallKeepsInv DEF MailNext
  <2> QED BY <2>2, <2>4
<1>3. MailInv => MailLogIsHonest
  <2> SUFFICES ASSUME MailInv, NEW m \in Message
               PROVE  /\ mailLog[m] = "sent" => sent[m] > 0
                      /\ mailLog[m] = "failed" /\ sent[m] > 0 => unnoticed[m] > 0
                      /\ sent[m] <= 1 + unnoticed[m]
    BY DEF MailLogIsHonest
  <2> USE DEF MailInv
  <2>1. /\ sent[m] \in Nat /\ unnoticed[m] \in Nat /\ IsFiniteSet(Pending(m))
        /\ Cardinality(Pending(m)) \in Nat /\ sent[m] + Cardinality(Pending(m)) <= 1 + unnoticed[m]
    BY FS_CardinalityType DEF MailTypes, DeliveriesAdd
  <2>2. mailLog[m] = "failed" => Cardinality(Pending(m)) # 0
    <3>1. mailLog[m] = "failed" => Unresolved(m)
      BY DEF FailedForGood, Unresolved
    <3>2. Unresolved(m) => Pending(m) # {}
      BY DEF Pending
    <3> QED BY <2>1, <3>1, <3>2, FS_EmptySet
  <2> QED BY <2>1, <2>2 DEF MarkedWasSent
<1> QED
  BY <1>1, <1>2, <1>3, PTL DEF MailSpec

-----------------------------------------------------------------------------
(***************************************************************************)
(* Notification preferences: SMS, and the webhook that updates go to.      *)
(***************************************************************************)
PrefTypes ==
    /\ prefs \in [Pref -> {"unset", "on", "off"}]
    /\ updating \in [Updater -> [at : {"idle", "rows"}, rows : SUBSET (Pref \X {"on", "off"})]]

\* No call of updatePrefs has a row to write that enables SMS.
NoneEnablesSms == \A u \in Updater : ~EnablesSms(updating[u].rows)

HookTypes ==
    /\ issued \subseteq Hook /\ newest \in issued \cup {NoHook}
    /\ hookCall \in [HookCall -> [at : {"idle", "create", "remove", "delete", "done"},
                                  found : issued \cup {NoHook}]]
    /\ hooks \subseteq issued

\* The webhook that a call of register is about to remove is an older one.
OldIsRemoved == \A r \in HookCall : hookCall[r].at = "remove" => hookCall[r].found # newest

\* The inductive invariant of register and remove.
HookInv == HookTypes /\ OldIsRemoved /\ NewestHookStays

-----------------------------------------------------------------------------
\* A webhook that is stored under a new id is newer than all that calls have found.
LEMMA StoringKeepsInv ==
    ASSUME HookInv, NEW r \in HookCall, NEW h \in Hook, NEW to \in {"remove", "done"},
           HookStep(r, "create", to), StoreHook(h), UNCHANGED withdrawn
    PROVE  HookInv'
<1> USE DEF HookInv
<1>1. /\ h \notin issued /\ h # NoHook
      /\ hooks' = hooks \cup {h} /\ issued' = issued \cup {h} /\ newest' = h
      /\ hookCall' = [hookCall EXCEPT ![r].at = to]
  BY PrefAssumption DEF StoreHook, HookStep
<1>2. HookTypes'
  BY <1>1 DEF HookTypes
<1>3. \A q \in HookCall : hookCall'[q].found = hookCall[q].found /\ hookCall[q].found # h
  BY <1>1 DEF HookTypes
<1> QED BY <1>1, <1>2, <1>3 DEF OldIsRemoved, NewestHookStays

\* What a call removes is what it has found.
LEMMA RemovingKeepsInv ==
    ASSUME HookInv, NEW r \in HookCall, UNCHANGED <<issued, newest>>,
           hooks' \in {hooks, hooks \ {hookCall[r].found}},
           \/ HookStep(r, "remove", "done") /\ UNCHANGED withdrawn
           \/ /\ HookStep(r, "delete", "done")
              /\ withdrawn' = withdrawn \cup {hookCall[r].found}
    PROVE  HookInv'
<1> USE DEF HookInv
<1>1. /\ hookCall' = [hookCall EXCEPT ![r].at = "done"] /\ hooks' \subseteq hooks
  BY DEF HookStep
<1>2. HookTypes'
  BY <1>1 DEF HookTypes
<1>3. \A q \in HookCall : /\ hookCall'[q].found = hookCall[q].found
                          /\ hookCall'[q].at = "remove" => hookCall[q].at = "remove"
  BY <1>1 DEF HookTypes
<1>4. NewestHookStays'
  BY DEF OldIsRemoved, NewestHookStays, HookStep
<1> QED BY <1>2, <1>3, <1>4 DEF OldIsRemoved

LEMMA FindingKeepsInv ==
    ASSUME HookInv, NEW r \in HookCall, NEW to \in {"create", "delete"},
           NEW found \in hooks \cup {NoHook}, UNCHANGED <<issued, newest, hooks, withdrawn>>,
           hookCall' = [hookCall EXCEPT ![r] = [at |-> to, found |-> found]]
    PROVE  HookInv'
<1> USE DEF HookInv
<1>1. HookTypes'
  BY DEF HookTypes
<1>2. \A q \in HookCall : hookCall'[q].at = "remove" => hookCall'[q] = hookCall[q]
  BY DEF HookTypes
<1> QED BY <1>1, <1>2 DEF OldIsRemoved, NewestHookStays

\* The webhook that was registered last is not removed by a call of register, for
\* any number of overlapping calls and any of them rejected half-way: a call looks
\* the old webhook up before it creates its own.
THEOREM NewestHookIsKept == PrefSpec => []NewestHookStays
<1>1. PrefInit => HookInv
  BY DEF PrefInit, HookInv, HookTypes, OldIsRemoved, NewestHookStays, NoHookCall
<1>2. HookInv /\ [UpdatesNext \/ HooksNext]_prefVars => HookInv'
  <2> SUFFICES ASSUME HookInv, [UpdatesNext \/ HooksNext]_prefVars PROVE HookInv'
    OBVIOUS
  <2>1. CASE UpdatesNext \/ UNCHANGED prefVars
    <3>1. UNCHANGED hookVars
      BY <2>1 DEF UpdatesNext, UpdatePrefs, WriteRow, UpdateEnds, prefVars, hookVars
    <3> QED BY <3>1 DEF hookVars, HookInv, HookTypes, OldIsRemoved, NewestHookStays
  <2>2. ASSUME NEW r \in HookCall, NEW found \in hooks \cup {NoHook},
               RegisterFinds(r, found) \/ RemoveFinds(r, found)
        PROVE  HookInv'
    BY <2>2, FindingKeepsInv DEF RegisterFinds, RemoveFinds
  <2>3. ASSUME NEW r \in HookCall, NEW h \in Hook, RegisterCreates(r, h)
        PROVE  HookInv'
    BY <2>3, StoringKeepsInv DEF RegisterCreates
  <2>4. ASSUME NEW r \in HookCall, NEW h \in Hook, CreateRejects(r, h)
        PROVE  HookInv'
    <3>1. HookStep(r, "create", "done") /\ UNCHANGED withdrawn
      BY <2>4 DEF CreateRejects
    <3>2. CASE StoreHook(h)
      BY <3>1, <3>2, StoringKeepsInv
    <3>3. CASE UNCHANGED <<hooks, issued, newest>>
      <4>1. hookCall' = [hookCall EXCEPT ![r].at = "done"]
        BY <3>1 DEF HookStep
      <4>2. HookTypes'
        BY <3>3, <4>1 DEF HookInv, HookTypes
      <4>3. \A q \in HookCall : hookCall'[q].at = "remove" => hookCall'[q] = hookCall[q]
        BY <4>1 DEF HookInv, HookTypes
      <4> QED BY <3>1, <3>3, <4>2, <4>3 DEF HookInv, OldIsRemoved, NewestHookStays
    <3> QED BY <2>4, <3>2, <3>3 DEF CreateRejects
  <2>5. ASSUME NEW r \in HookCall, RegisterRemoves(r) \/ RemoveDeletes(r)
        PROVE  HookInv'
    <3>1. UNCHANGED <<issued, newest>> /\ hooks' \in {hooks, hooks \ {hookCall[r].found}}
      BY <2>5 DEF RegisterRemoves, RemoveDeletes, DeleteFound
    <3>2. \/ HookStep(r, "remove", "done") /\ UNCHANGED withdrawn
          \/ HookStep(r, "delete", "done") /\ withdrawn' = withdrawn \cup {hookCall[r].found}
      BY <2>5 DEF RegisterRemoves, RemoveDeletes
    <3> QED BY <3>1, <3>2, RemovingKeepsInv
  <2>6. ASSUME NEW previous \in PaymentStatus, NEW status \in PaymentStatus,
               AfterUpdate(previous, status)
        PROVE  HookInv'
    <3>1. UNCHANGED <<hooks, hookCall, issued, newest, withdrawn>>
      BY <2>6 DEF AfterUpdate, NotifyPayment
    <3> QED BY <3>1 DEF HookInv, HookTypes, OldIsRemoved, NewestHookStays
  <2> QED BY <2>1, <2>2, <2>3, <2>4, <2>5, <2>6 DEF HooksNext
<1>3. HookInv => NewestHookStays
  BY DEF HookInv
<1> QED BY <1>1, <1>2, <1>3, PTL DEF PrefSpec

-----------------------------------------------------------------------------
\* What passes the validation enables no SMS, and only that is written.
LEMMA UpdatesEnableNoSms ==
    ASSUME PrefTypes, NoneEnablesSms, UpdatesNext
    PROVE  PrefTypes' /\ NoneEnablesSms' /\ SmsIsNotSwitchedOn
<1>1. ASSUME NEW u \in Updater, NEW rows \in SUBSET (Pref \X {"on", "off"}),
             NEW number \in {"given", "null", "undefined"}, UpdatePrefs(u, rows, number)
      PROVE  PrefTypes' /\ NoneEnablesSms' /\ SmsIsNotSwitchedOn
  <2>1. /\ prefs' = prefs /\ ~EnablesSms(rows)
        /\ updating' = [updating EXCEPT ![u] = [at |-> "rows", rows |-> rows]]
    BY <1>1 DEF UpdatePrefs, Accepted, SelectsNumber, UpdatesNumber
  <2> QED BY <2>1 DEF PrefTypes, NoneEnablesSms, SmsIsNotSwitchedOn
<1>2. ASSUME NEW u \in Updater, UpdateEnds(u)
      PROVE  PrefTypes' /\ NoneEnablesSms' /\ SmsIsNotSwitchedOn
  <2>1. ~EnablesSms({}) /\ NoUpdate.rows = {}
        /\ NoUpdate \in [at : {"idle", "rows"}, rows : SUBSET (Pref \X {"on", "off"})]
    BY DEF EnablesSms, NoUpdate
  <2>2. prefs' = prefs /\ updating' = [updating EXCEPT ![u] = NoUpdate]
    BY <1>2 DEF UpdateEnds
  <2> QED BY <2>1, <2>2 DEF PrefTypes, NoneEnablesSms, SmsIsNotSwitchedOn
<1>3. ASSUME NEW u \in Updater, NEW r \in updating[u].rows, WriteRow(u, r)
      PROVE  PrefTypes' /\ NoneEnablesSms' /\ SmsIsNotSwitchedOn
  <2>1. /\ r \in Pref \X {"on", "off"}
        /\ prefs' = [prefs EXCEPT ![r[1]] = r[2]]
        /\ updating' = [updating EXCEPT ![u].rows = @ \ {r}]
    BY <1>3 DEF WriteRow, PrefTypes
  <2>2. PrefTypes'
    BY <2>1 DEF PrefTypes
  <2>3. \A q \in Updater : updating'[q].rows \subseteq updating[q].rows
    BY <2>1 DEF PrefTypes
  <2>4. NoneEnablesSms'
    BY <2>3 DEF NoneEnablesSms, EnablesSms
  <2>5. ~(r[1][1] = "sms" /\ r[2] = "on")
    BY <1>3 DEF NoneEnablesSms, EnablesSms
  <2>6. SmsIsNotSwitchedOn
    <3> SUFFICES ASSUME NEW e \in EventType, prefs[<<"sms", e>>] # "on"
                 PROVE  prefs'[<<"sms", e>>] # "on"
      BY DEF SmsIsNotSwitchedOn
    <3>1. <<"sms", e>> \in Pref
      BY DEF Pref, Channel
    <3>2. CASE r[1] = <<"sms", e>>
      BY <2>1, <2>5, <3>1, <3>2 DEF PrefTypes
    <3>3. CASE r[1] # <<"sms", e>>
      BY <2>1, <3>1, <3>3 DEF PrefTypes
    <3> QED BY <3>2, <3>3
  <2> QED BY <2>2, <2>4, <2>6
<1>4. PICK u \in Updater :
         \/ \E e \in EventType, c \in Channel, sms, other \in {"on", "off"},
               number \in {"given", "null", "undefined"} :
               UpdatePrefs(u, {<<<<"sms", e>>, sms>>, <<<<c, e>>, other>>}, number)
         \/ UpdateEnds(u)
         \/ \E r \in updating[u].rows : WriteRow(u, r)
  BY DEF UpdatesNext
<1>5. CASE \E e \in EventType, c \in Channel, sms, other \in {"on", "off"},
            number \in {"given", "null", "undefined"} :
            UpdatePrefs(u, {<<<<"sms", e>>, sms>>, <<<<c, e>>, other>>}, number)
  <2>1. PICK e \in EventType, c \in Channel, sms \in {"on", "off"}, other \in {"on", "off"},
             number \in {"given", "null", "undefined"} :
             UpdatePrefs(u, {<<<<"sms", e>>, sms>>, <<<<c, e>>, other>>}, number)
    BY <1>5
  <2>2. {<<<<"sms", e>>, sms>>, <<<<c, e>>, other>>} \in SUBSET (Pref \X {"on", "off"})
    BY DEF Pref, Channel
  <2> QED BY <1>1, <2>1, <2>2
<1> QED BY <1>2, <1>3, <1>4, <1>5

\* At this commit no call of updatePrefs switches SMS on, whatever overlaps.
THEOREM SmsStaysOff == PrefSpec => [][SmsIsNotSwitchedOn]_prefVars
<1>1. PrefInit => PrefTypes /\ NoneEnablesSms
  <2> SUFFICES ASSUME PrefInit PROVE PrefTypes /\ NoneEnablesSms
    OBVIOUS
  <2>1. ~EnablesSms({}) /\ NoUpdate.rows = {}
        /\ NoUpdate \in [at : {"idle", "rows"}, rows : SUBSET (Pref \X {"on", "off"})]
    BY DEF EnablesSms, NoUpdate
  <2> QED BY <2>1 DEF PrefInit, PrefTypes, NoneEnablesSms
<1>2. PrefTypes /\ NoneEnablesSms /\ [UpdatesNext \/ HooksNext]_prefVars
         => PrefTypes' /\ NoneEnablesSms' /\ [SmsIsNotSwitchedOn]_prefVars
  <2> SUFFICES ASSUME PrefTypes, NoneEnablesSms, [UpdatesNext \/ HooksNext]_prefVars
               PROVE  PrefTypes' /\ NoneEnablesSms' /\ [SmsIsNotSwitchedOn]_prefVars
    OBVIOUS
  <2>1. CASE UpdatesNext
    BY <2>1, UpdatesEnableNoSms
  <2>2. CASE HooksNext \/ UNCHANGED prefVars
    <3>1. UNCHANGED <<prefs, updating>>
      BY <2>2 DEF HooksNext, RegisterFinds, RemoveFinds, RegisterCreates, CreateRejects,
                  RegisterRemoves, RemoveDeletes, AfterUpdate, NotifyPayment, prefVars, updateVars
    <3> QED BY <3>1 DEF PrefTypes, NoneEnablesSms, SmsIsNotSwitchedOn
  <2> QED BY <2>1, <2>2
<1> QED BY <1>1, <1>2, PTL DEF PrefSpec

-----------------------------------------------------------------------------
(***************************************************************************)
(* In-app notifications: pages and cursors.                                *)
(***************************************************************************)
NoteTypes ==
    /\ notes \in Seq(Nat) /\ noteClock \in Nat /\ instantCut \in BOOLEAN
    /\ present \subseteq 1 .. Len(notes)
    /\ paging \in [at : {"idle", "more", "done"}, cursor : 0 .. Len(notes),
                   seen : SUBSET (1 .. Len(notes)), first : SUBSET (1 .. Len(notes))]
    /\ paging.at = "idle" => paging.cursor = 0

\* Between two pages the client has seen all that is not older than its cursor,
\* and if the cursor's row was purged nothing older is left.
SeenDownToCursor ==
    paging.at = "more" /\ ~instantCut =>
        /\ paging.cursor \in 1 .. Len(notes)
        /\ \A i \in paging.first \cap present :
              /\ notes[i] >= notes[paging.cursor] => i \in paging.seen
              /\ paging.cursor \notin present => notes[i] >= notes[paging.cursor]

\* The inductive invariant of the listing.
NoteInv == NoteTypes /\ SeenDownToCursor /\ ListingIsComplete

-----------------------------------------------------------------------------
\* A notification that arrives is newer than what the client began with.
LEMMA CreationKeepsListing ==
    ASSUME NoteInv, CreateNote
    PROVE  NoteInv'
<1> USE DEF NoteInv
<1>1. /\ notes' = Append(notes, noteClock) /\ present' = present \cup {Len(notes) + 1}
      /\ UNCHANGED <<paging, noteClock, instantCut>>
  BY DEF CreateNote
<1>2. /\ notes' \in Seq(Nat) /\ Len(notes) \in Nat /\ Len(notes') = Len(notes) + 1
      /\ notes'[Len(notes) + 1] = noteClock
      /\ \A i \in 1 .. Len(notes) : notes'[i] = notes[i]
  BY <1>1 DEF NoteTypes
<1>3. NoteTypes'
  <2>1. 1 .. Len(notes) \subseteq 1 .. Len(notes') /\ 0 .. Len(notes) \subseteq 0 .. Len(notes')
    BY <1>2
  <2>2. Len(notes) + 1 \in 1 .. Len(notes')
    BY <1>2
  <2>3. present' \subseteq 1 .. Len(notes')
    BY <1>1, <2>1, <2>2 DEF NoteTypes
  <2>4. paging' \in [at : {"idle", "more", "done"}, cursor : 0 .. Len(notes'),
                     seen : SUBSET (1 .. Len(notes')), first : SUBSET (1 .. Len(notes'))]
    BY <1>1, <2>1 DEF NoteTypes
  <2>5. instantCut' \in BOOLEAN /\ noteClock' \in Nat
    BY <1>1 DEF NoteTypes
  <2> QED BY <1>1, <1>2, <2>3, <2>4, <2>5 DEF NoteTypes
<1>5. /\ paging.first \cap present' = paging.first \cap present
      /\ \A i \in paging.first : notes'[i] = notes[i]
      /\ \A i \in 1 .. Len(notes) : notes'[i] = notes[i] /\ (i \in present' <=> i \in present)
      /\ 1 .. Len(notes) \subseteq 1 .. Len(notes')
  BY <1>1, <1>2 DEF NoteTypes
<1>6. SeenDownToCursor'
  BY <1>1, <1>5 DEF SeenDownToCursor
<1>7. ListingIsComplete'
  BY <1>1, <1>5 DEF ListingIsComplete
<1> QED BY <1>3, <1>6, <1>7

\* A purge that takes the cursor's row takes all that is older.
LEMMA PurgeKeepsListing ==
    ASSUME NoteInv, NEW age \in Nat, PurgeOldNotifications(age)
    PROVE  NoteInv'
<1> USE DEF NoteInv
<1>1. /\ present' = {i \in present : notes[i] >= age}
      /\ UNCHANGED <<notes, paging, noteClock, instantCut>>
  BY DEF PurgeOldNotifications
<1>2. NoteTypes'
  BY <1>1 DEF NoteTypes
<1>3. SeenDownToCursor'
  <2>1. SUFFICES ASSUME paging.at = "more", ~instantCut, NEW i \in paging.first \cap present'
                 PROVE  /\ notes[i] >= notes[paging.cursor] => i \in paging.seen
                        /\ paging.cursor \notin present' => notes[i] >= notes[paging.cursor]
    BY <1>1 DEF SeenDownToCursor
  <2>2. /\ paging.cursor \in 1 .. Len(notes) /\ i \in present /\ notes[i] >= age
        /\ notes[i] \in Nat /\ notes[paging.cursor] \in Nat
    BY <1>1, <2>1 DEF SeenDownToCursor, NoteTypes
  <2>3. CASE paging.cursor \in present
    BY <1>1, <2>1, <2>2, <2>3 DEF SeenDownToCursor
  <2>4. CASE paging.cursor \notin present
    BY <2>1, <2>2, <2>4 DEF SeenDownToCursor
  <2> QED BY <2>3, <2>4
<1>4. ListingIsComplete'
  BY <1>1 DEF ListingIsComplete
<1> QED BY <1>2, <1>3, <1>4

\* A page: what is no older than its last row is on it, or was on one before.
LEMMA PageKeepsListing ==
    ASSUME NoteInv, ListForUser
    PROVE  NoteInv'
<1> USE DEF NoteInv
<1> DEFINE rows == Older(paging.cursor)
           first == IF paging.at = "idle" THEN present ELSE paging.first
<1>1. PICK page \in SUBSET rows :
         /\ IsPage(page, rows) /\ instantCut' = (instantCut \/ Cuts(page, rows))
         /\ \E last \in page \cup {0} :
               /\ IF page = rows THEN last = 0
                  ELSE last \in page /\ \A i \in page : notes[last] <= notes[i]
               /\ paging' = [at |-> IF page = rows THEN "done" ELSE "more", cursor |-> last,
                             seen |-> paging.seen \cup page, first |-> first]
  BY DEF ListForUser
<1>2. PICK last \in page \cup {0} :
         /\ IF page = rows THEN last = 0
            ELSE last \in page /\ \A i \in page : notes[last] <= notes[i]
         /\ paging' = [at |-> IF page = rows THEN "done" ELSE "more", cursor |-> last,
                       seen |-> paging.seen \cup page, first |-> first]
  BY <1>1
<1>3. UNCHANGED <<notes, present, noteClock>> /\ paging.at # "done"
  BY DEF ListForUser
<1>4. rows \subseteq present /\ first \in SUBSET (1 .. Len(notes))
  BY DEF Older, NoteTypes
<1>5. ASSUME ~instantCut, NEW i \in first \cap present, i \notin rows
      PROVE  i \in paging.seen
  <2>1. paging.at = "more" /\ i \in paging.first
    BY <1>3, <1>5 DEF NoteTypes, Older
  <2>2. paging.cursor \in 1 .. Len(notes) /\ paging.cursor # 0
    BY <1>5, <2>1 DEF SeenDownToCursor, NoteTypes
  <2>3. notes[i] \in Nat /\ notes[paging.cursor] \in Nat
    BY <1>5, <2>2 DEF NoteTypes
  <2>4. paging.cursor \notin present \/ notes[i] >= notes[paging.cursor]
    BY <1>5, <2>2, <2>3 DEF Older
  <2> QED BY <1>5, <2>1, <2>4 DEF SeenDownToCursor
<1> HIDE DEF rows, first
<1>6. NoteTypes'
  <2>1. last \in 0 .. Len(notes) /\ page \subseteq 1 .. Len(notes)
    BY <1>4 DEF NoteTypes
  <2>2. paging' \in [at : {"more", "done"}, cursor : 0 .. Len(notes),
                     seen : SUBSET (1 .. Len(notes)), first : SUBSET (1 .. Len(notes))]
    BY <1>2, <1>4, <2>1 DEF NoteTypes
  <2>3. instantCut' \in BOOLEAN
    BY <1>1
  <2> QED BY <1>3, <2>2, <2>3 DEF NoteTypes
<1>7. ASSUME ~instantCut'
      PROVE  ~instantCut /\ ~Cuts(page, rows)
  BY <1>1, <1>7
<1>8. ListingIsComplete'
  BY <1>2, <1>3, <1>5, <1>7 DEF ListingIsComplete
<1>9. SeenDownToCursor'
  <2>1. SUFFICES ASSUME page # rows, ~instantCut'
                 PROVE  /\ last \in 1 .. Len(notes) /\ last \in present
                        /\ \A i \in first \cap present :
                              notes[i] >= notes[last] => i \in paging.seen \cup page
    BY <1>2, <1>3 DEF SeenDownToCursor
  <2>2. last \in page /\ last \in present /\ last \in 1 .. Len(notes)
    BY <1>2, <1>4, <2>1 DEF NoteTypes
  <2>3. SUFFICES ASSUME NEW i \in first \cap present, notes[i] >= notes[last], i \in rows, i \notin page
                 PROVE  FALSE
    BY <1>5, <1>7, <2>1, <2>2
  <2>4. notes[last] >= notes[i]
    BY <1>1, <2>2, <2>3 DEF IsPage
  <2>5. i \in 1 .. Len(notes) /\ notes[i] \in Nat /\ notes[last] \in Nat
    BY <2>2, <2>3 DEF NoteTypes
  <2>6. notes[last] = notes[i]
    BY <2>3, <2>4, <2>5
  <2> QED BY <1>7, <2>1, <2>2, <2>3, <2>6 DEF Cuts
<1> QED BY <1>6, <1>7, <1>8, <1>9

\* The pages are complete, for any size of a page, any number of notifications and
\* any interleaving of listForUser with creation, marking and purges.
THEOREM PagesMissNothing == NoteSpec => []ListingIsComplete
<1>1. NoteInit => NoteInv
  <2> SUFFICES ASSUME NoteInit PROVE NoteInv
    OBVIOUS
  <2>1. notes = <<>> /\ Len(notes) = 0 /\ notes \in Seq(Nat)
    BY DEF NoteInit
  <2>2. paging \in [at : {"idle", "more", "done"}, cursor : 0 .. 0,
                    seen : SUBSET (1 .. 0), first : SUBSET (1 .. 0)] /\ paging.cursor = 0
    BY DEF NoteInit, NoPage
  <2>3. NoteTypes
    BY <2>1, <2>2 DEF NoteInit, NoteTypes
  <2> QED
    BY <2>1, <2>3 DEF NoteInit, NoPage, NoteInv, SeenDownToCursor, ListingIsComplete
<1>2. NoteInv /\ [NoteNext]_noteVars => NoteInv'
  <2> SUFFICES ASSUME NoteInv, [NoteNext]_noteVars PROVE NoteInv'
    OBVIOUS
  <2>1. CASE NoteTick
    BY <2>1, NotificationAssumption
       DEF NoteTick, NoteInv, NoteTypes, SeenDownToCursor, ListingIsComplete
  <2>2. CASE (\E i \in unread : MarkRead({i})) \/ MarkRead(unread) \/ UNCHANGED noteVars
    <3>1. UNCHANGED <<notes, present, paging, noteClock, instantCut>>
      BY <2>2 DEF MarkRead, noteVars
    <3> QED BY <3>1 DEF NoteInv, NoteTypes, SeenDownToCursor, ListingIsComplete
  <2> QED
    BY <2>1, <2>2, CreationKeepsListing, PurgeKeepsListing, PageKeepsListing, NotificationAssumption
       DEF NoteNext
<1>3. NoteInv => ListingIsComplete
  BY DEF NoteInv
<1> QED BY <1>1, <1>2, <1>3, PTL DEF NoteSpec

-----------------------------------------------------------------------------
(***************************************************************************)
(* Analytics exports: the tokens that are mailed.                           *)
(***************************************************************************)
ExportStage == {"processing", "build", "save", "mail", "catch", "done"}
ExportEntity == [status : {"none", "queued", "processing", "ready", "failed"},
                 token : ExportRun \cup {"null"}, expiresAt : Nat]
RunOfJob == [at : ExportStage, x : ExportRequest, entity : ExportEntity]

ExportTypes ==
    /\ exportRow \in [ExportRequest -> ExportEntity]
    /\ exporter \in [ExportRequest -> {"idle", "save", "add", "queued", "refused", "rejected"}]
    /\ exportJob \in [ExportRequest -> {"none", "waiting", "active", "over"}]
    /\ runs \in [ExportRun -> {NoRun} \cup RunOfJob]
    /\ tokenMailed \subseteq ExportRun
    /\ exportClock \in Nat

\* Whether run r has taken the job of request x.
Took(r, x) == runs[r] \in RunOfJob /\ runs[r].x = x

\* The job is added once, when the request has saved its row, and only a stall
\* gives it to a second run.
OneRunPerJob ==
    \A x \in ExportRequest :
        /\ exporter[x] \in {"idle", "save", "add"} => exportJob[x] = "none"
        /\ exportJob[x] \in {"none", "waiting"} => \A r \in ExportRun : ~Took(r, x)
        /\ \A q, r \in ExportRun : Took(q, x) /\ Took(r, x) /\ x \notin stalledOnce => q = r

\* A token is of a run of the job whose row or entity holds it.
TokensAreOwn ==
    \A x \in ExportRequest, t \in ExportRun :
        /\ exportRow[x].token = t => Took(t, x)
        /\ \A r \in ExportRun : Took(r, x) /\ runs[r].entity.token = t => Took(t, x)

\* From the save before the mail on the row is what the run wrote.
Announced(r) == runs[r] \in RunOfJob /\ (runs[r].at = "mail" \/ r \in tokenMailed \ mailDoubtful)

LinksHold ==
    \A r \in ExportRun :
        /\ r \in tokenMailed \ mailDoubtful => runs[r] \in RunOfJob /\ runs[r].at = "done"
        /\ runs[r] \in RunOfJob /\ runs[r].at = "save"
             => runs[r].entity.status = "ready" /\ runs[r].entity.token = r
        /\ Announced(r) /\ runs[r].x \notin stalledOnce
             => /\ exportRow[runs[r].x] = runs[r].entity
                /\ runs[r].entity.status = "ready" /\ runs[r].entity.token = r

\* The inductive invariant of the exports.
ExportInv == ExportTypes /\ OneRunPerJob /\ TokensAreOwn /\ LinksHold

-----------------------------------------------------------------------------
\* A row that is announced under a token of its own is what the link finds.
LEMMA LinksWork ==
    ASSUME ExportInv
    PROVE  MailedTokenWorks
<1> USE DEF ExportInv
<1>1. SUFFICES ASSUME NEW r \in tokenMailed, r \notin mailDoubtful, runs[r].x \notin stalledOnce
               PROVE  \/ GetDownloadByToken(r) = "file"
                      \/ GetDownloadByToken(r) = "gone" /\ runs[r].entity.expiresAt < exportClock
  BY DEF MailedTokenWorks
<1>2. r \in ExportRun /\ runs[r] \in RunOfJob /\ Announced(r)
  BY <1>1 DEF LinksHold, ExportTypes, Announced
<1>3. PICK x \in ExportRequest : x = runs[r].x
  BY <1>2 DEF RunOfJob
<1>4. exportRow[x] = runs[r].entity /\ exportRow[x].status = "ready" /\ exportRow[x].token = r
  BY <1>1, <1>2, <1>3 DEF LinksHold
<1>5. {y \in ExportRequest : exportRow[y].token = r} = {x}
  <2>1. \A y \in ExportRequest : exportRow[y].token = r => y = x
    BY <1>2, <1>3 DEF TokensAreOwn, Took
  <2> QED BY <1>4, <2>1
<1> QED BY <1>3, <1>4, <1>5 DEF GetDownloadByToken

\* A request: the quota, the row, the job, or a rejection.  No run has its job yet.
LEMMA RequestsKeepInv ==
    ASSUME ExportInv, NEW x \in ExportRequest,
           CheckQuota(x) \/ SaveQueued(x) \/ AddExportJob(x) \/ RequestRejects(x)
    PROVE  ExportInv'
<1> USE DEF ExportInv
<1>1. UNCHANGED <<runs, stalledOnce, tokenMailed, mailDoubtful, exportClock>>
  BY DEF CheckQuota, SaveQueued, AddExportJob, RequestRejects
<1>2. \A r \in ExportRun, y \in ExportRequest : Took(r, y)' = Took(r, y)
  BY <1>1 DEF Took
<1>3. CASE CheckQuota(x) \/ AddExportJob(x) \/ RequestRejects(x)
  <2>1. exportRow' = exportRow
    BY <1>3 DEF CheckQuota, AddExportJob, RequestRejects
  <2>2. ExportTypes'
    BY <1>1, <1>3, <2>1 DEF CheckQuota, AddExportJob, RequestRejects, ExportTypes
  <2>3. OneRunPerJob'
    BY <1>1, <1>2, <1>3 DEF CheckQuota, AddExportJob, RequestRejects, OneRunPerJob, ExportTypes
  <2>4. TokensAreOwn' /\ LinksHold'
    BY <1>1, <2>1 DEF TokensAreOwn, LinksHold, Announced, Took
  <2> QED BY <2>2, <2>3, <2>4
<1>4. CASE SaveQueued(x)
  <2>1. /\ exportRow' = [exportRow EXCEPT ![x] = [NoRow EXCEPT !.status = "queued"]]
        /\ exportJob' = exportJob /\ exporter' = [exporter EXCEPT ![x] = "add"]
        /\ exporter[x] = "save"
    BY <1>4 DEF SaveQueued
  <2>2. /\ [NoRow EXCEPT !.status = "queued"] \in ExportEntity
        /\ [NoRow EXCEPT !.status = "queued"].token = "null"
    BY DEF NoRow, ExportEntity
  <2>3. ExportTypes'
    BY <1>1, <2>1, <2>2 DEF ExportTypes
  <2>4. \A r \in ExportRun : ~Took(r, x)
    BY <2>1 DEF OneRunPerJob
  <2>5. OneRunPerJob'
    BY <1>1, <1>2, <2>1 DEF OneRunPerJob, ExportTypes
  <2>6. TokensAreOwn'
    <3>1. /\ exportRow'[x].token = "null" /\ "null" \notin ExportRun
          /\ \A y \in ExportRequest \ {x} : exportRow'[y] = exportRow[y]
      BY <2>1, <2>2, ExportAssumption DEF ExportTypes
    <3> QED BY <1>1, <1>2, <3>1 DEF TokensAreOwn
  <2>7. \A r \in ExportRun : runs[r] \in RunOfJob => exportRow'[runs[r].x] = exportRow[runs[r].x]
    BY <2>1, <2>4 DEF Took, ExportTypes, RunOfJob
  <2>8. LinksHold'
    BY <1>1, <2>7 DEF LinksHold, Announced
  <2> QED BY <2>3, <2>5, <2>6, <2>8
<1> QED BY <1>3, <1>4

\* A run takes a job: the first run of it, or a stalled one, which exempts the job.
LEMMA TakeKeepsExports ==
    ASSUME ExportInv, NEW r \in ExportRun, NEW x \in ExportRequest, TakeExportJob(r, x)
    PROVE  ExportInv'
<1> USE DEF ExportInv
<1> DEFINE e == [exportRow[x] EXCEPT !.status = "processing"]
           taken == [at |-> "processing", x |-> x, entity |-> e]
<1>1. e \in ExportEntity /\ e.token = exportRow[x].token
  BY DEF ExportTypes, ExportEntity
<1>2. taken \in RunOfJob /\ taken.x = x /\ taken.at = "processing" /\ taken.entity = e
  BY <1>1 DEF RunOfJob, ExportStage
<1>3. /\ runs[r].at = "idle" /\ runs' = [runs EXCEPT ![r] = taken]
      /\ exportJob' = [exportJob EXCEPT ![x] = "active"]
      /\ UNCHANGED <<exportRow, exporter, tokenMailed, mailDoubtful, exportClock>>
      /\ stalledOnce \subseteq stalledOnce'
      /\ x \in stalledOnce' \/ (exportJob[x] = "waiting" /\ stalledOnce' = stalledOnce)
      /\ exportJob[x] # "none"
  BY DEF TakeExportJob
<1> HIDE DEF e, taken
<1>4. runs[r] \notin RunOfJob /\ r \notin tokenMailed \ mailDoubtful
  <2>1. \A w \in RunOfJob : w.at # "idle"
    BY DEF RunOfJob, ExportStage
  <2> QED BY <1>3, <2>1 DEF LinksHold
<1>5. /\ runs'[r] = taken /\ \A q \in ExportRun : q # r => runs'[q] = runs[q]
  BY <1>3 DEF ExportTypes
<1>6. /\ \A q \in ExportRun, y \in ExportRequest : q # r => (Took(q, y)' = Took(q, y))
      /\ \A y \in ExportRequest : Took(r, y)' = (y = x)
      /\ \A y \in ExportRequest : ~Took(r, y)
  BY <1>2, <1>4, <1>5 DEF Took
<1>7. ExportTypes'
  BY <1>2, <1>3 DEF ExportTypes
<1>8. OneRunPerJob'
  <2>1. SUFFICES ASSUME NEW y \in ExportRequest
                 PROVE  /\ exporter[y] \in {"idle", "save", "add"} => exportJob'[y] = "none"
                        /\ exportJob'[y] \in {"none", "waiting"} => \A q \in ExportRun : ~Took(q, y)'
                        /\ \A p, q \in ExportRun :
                              Took(p, y)' /\ Took(q, y)' /\ y \notin stalledOnce' => p = q
    BY <1>3 DEF OneRunPerJob
  <2>2. CASE y # x
    BY <1>3, <1>6, <2>2 DEF OneRunPerJob, ExportTypes
  <2>3. CASE y = x
    <3>1. exportJob'[x] = "active" /\ exporter[x] \notin {"idle", "save", "add"}
      BY <1>3 DEF OneRunPerJob, ExportTypes
    <3>2. x \notin stalledOnce' => \A q \in ExportRun : q # r => ~Took(q, x)'
      BY <1>3, <1>6 DEF OneRunPerJob
    <3> QED BY <2>3, <3>1, <3>2
  <2> QED BY <2>2, <2>3
<1>9. TokensAreOwn'
  <2>1. \A q \in ExportRun, y \in ExportRequest : Took(q, y) => Took(q, y)'
    BY <1>6
  <2>2. SUFFICES ASSUME NEW y \in ExportRequest, NEW t \in ExportRun
                 PROVE  /\ exportRow[y].token = t => Took(t, y)'
                        /\ \A q \in ExportRun :
                              Took(q, y)' /\ runs'[q].entity.token = t => Took(t, y)'
    BY <1>3 DEF TokensAreOwn
  <2>3. exportRow[y].token = t => Took(t, y)'
    BY <2>1 DEF TokensAreOwn
  <2>4. Took(r, y)' /\ runs'[r].entity.token = t => Took(t, y)'
    BY <1>1, <1>2, <1>5, <1>6, <2>3
  <2>5. \A q \in ExportRun \ {r} : Took(q, y)' /\ runs'[q].entity.token = t => Took(t, y)'
    BY <1>5, <1>6, <2>1 DEF TokensAreOwn
  <2> QED BY <2>3, <2>4, <2>5
<1>10. LinksHold'
  <2>1. SUFFICES ASSUME NEW q \in ExportRun
                 PROVE  /\ q \in tokenMailed \ mailDoubtful => runs'[q] \in RunOfJob /\ runs'[q].at = "done"
                        /\ runs'[q] \in RunOfJob /\ runs'[q].at = "save"
                             => runs'[q].entity.status = "ready" /\ runs'[q].entity.token = q
                        /\ Announced(q)' /\ runs'[q].x \notin stalledOnce'
                             => /\ exportRow[runs'[q].x] = runs'[q].entity
                                /\ runs'[q].entity.status = "ready" /\ runs'[q].entity.token = q
    BY <1>3 DEF LinksHold
  <2>2. CASE q = r
    BY <1>2, <1>3, <1>4, <1>5, <2>2 DEF Announced
  <2>3. CASE q # r
    BY <1>3, <1>5, <2>3 DEF Announced, LinksHold
  <2> QED BY <2>2, <2>3
<1> QED BY <1>7, <1>8, <1>9, <1>10
-----------------------------------------------------------------------------
\* One step of run r of the job of request x: what it has to see to.
LEMMA RunStepKeepsInv ==
    ASSUME ExportInv, NEW r \in ExportRun, NEW x \in ExportRequest, Took(r, x),
           NEW step \in ExportStage, NEW e \in ExportEntity,
           e.token \in {runs[r].entity.token, r},
           runs' = [runs EXCEPT ![r] = [at |-> step, x |-> x, entity |-> e]],
           runs[r].at # "done",
           exportRow' \in {exportRow, [exportRow EXCEPT ![x] = runs[r].entity]},
           exportJob' \in {exportJob, [exportJob EXCEPT ![x] = "over"]},
           UNCHANGED <<exporter, stalledOnce, exportClock>>,
           tokenMailed' \in {tokenMailed, tokenMailed \cup {r}},
           mailDoubtful' \in {mailDoubtful, mailDoubtful \cup {r}},
           step = "save" => e.status = "ready" /\ e.token = r,
           r \in tokenMailed' \ mailDoubtful' => step = "done",
           (step = "mail" \/ r \in tokenMailed' \ mailDoubtful') /\ x \notin stalledOnce
              => exportRow'[x] = e /\ e.status = "ready" /\ e.token = r
    PROVE  ExportInv'
<1> USE DEF ExportInv
<1> DEFINE w == [at |-> step, x |-> x, entity |-> e]
<1>1. w \in RunOfJob /\ w.at = step /\ w.x = x /\ w.entity = e
  BY DEF RunOfJob
<1>2. runs' = [runs EXCEPT ![r] = w]
  OBVIOUS
<1> HIDE DEF w
<1>3. runs'[r] = w /\ \A q \in ExportRun : q # r => runs'[q] = runs[q]
  BY <1>2 DEF ExportTypes
<1>4. \A q \in ExportRun, y \in ExportRequest : Took(q, y)' = Took(q, y)
  <2>1. \A y \in ExportRequest : Took(r, y) <=> y = x
    BY DEF Took
  <2>2. \A y \in ExportRequest : Took(r, y)' <=> y = x
    BY <1>1, <1>3 DEF Took
  <2>3. \A q \in ExportRun, y \in ExportRequest : q # r => (Took(q, y)' <=> Took(q, y))
    BY <1>3 DEF Took
  <2>4. \A q \in ExportRun, y \in ExportRequest : Took(q, y)' \in BOOLEAN /\ Took(q, y) \in BOOLEAN
    BY DEF Took
  <2> QED BY <2>1, <2>2, <2>3, <2>4
<1>5. runs[r] \in RunOfJob /\ runs[r].entity \in ExportEntity
  BY DEF Took, RunOfJob
<1>6. \A y \in ExportRequest : y # x => exportRow'[y] = exportRow[y] /\ exportJob'[y] = exportJob[y]
  BY DEF ExportTypes
<1>7. exportRow'[x] = exportRow[x] \/ exportRow'[x] = runs[r].entity
  BY DEF ExportTypes
<1>8. exportJob'[x] = exportJob[x] \/ exportJob'[x] = "over"
  BY DEF ExportTypes
<1>9. ExportTypes'
  <2>1. exportRow' \in [ExportRequest -> ExportEntity]
    BY <1>5 DEF ExportTypes
  <2>2. runs' \in [ExportRun -> {NoRun} \cup RunOfJob]
    BY <1>1, <1>2 DEF ExportTypes
  <2>3. exportJob' \in [ExportRequest -> {"none", "waiting", "active", "over"}]
    BY DEF ExportTypes
  <2> QED BY <2>1, <2>2, <2>3 DEF ExportTypes
<1>10. OneRunPerJob'
  <2>1. SUFFICES ASSUME NEW y \in ExportRequest
                 PROVE  /\ exporter[y] \in {"idle", "save", "add"} => exportJob'[y] = "none"
                        /\ exportJob'[y] \in {"none", "waiting"} => \A q \in ExportRun : ~Took(q, y)
                        /\ \A p, q \in ExportRun :
                              Took(p, y) /\ Took(q, y) /\ y \notin stalledOnce => p = q
    BY <1>4 DEF OneRunPerJob
  <2>2. CASE y # x
    BY <1>6, <2>2 DEF OneRunPerJob
  <2>3. CASE y = x
    <3>1. exportJob[x] \notin {"none", "waiting"} /\ exporter[x] \notin {"idle", "save", "add"}
      BY DEF OneRunPerJob
    <3> QED BY <1>8, <2>3, <3>1 DEF OneRunPerJob
  <2> QED BY <2>2, <2>3
<1>11. TokensAreOwn'
  <2>1. SUFFICES ASSUME NEW y \in ExportRequest, NEW t \in ExportRun
                 PROVE  /\ exportRow'[y].token = t => Took(t, y)
                        /\ \A q \in ExportRun :
                              Took(q, y) /\ runs'[q].entity.token = t => Took(t, y)
    BY <1>4 DEF TokensAreOwn
  <2>2. exportRow'[y].token = t => Took(t, y)
    BY <1>6, <1>7 DEF TokensAreOwn
  <2>3. Took(r, y) => y = x
    BY DEF Took
  <2>4. Took(r, y) /\ runs'[r].entity.token = t => Took(t, y)
    BY <1>1, <1>3, <2>3 DEF TokensAreOwn
  <2>5. \A q \in ExportRun \ {r} : Took(q, y) /\ runs'[q].entity.token = t => Took(t, y)
    BY <1>3 DEF TokensAreOwn
  <2> QED BY <2>2, <2>4, <2>5
<1>12. LinksHold'
  <2>1. SUFFICES ASSUME NEW q \in ExportRun
                 PROVE  /\ q \in tokenMailed' \ mailDoubtful' => runs'[q] \in RunOfJob /\ runs'[q].at = "done"
                        /\ runs'[q] \in RunOfJob /\ runs'[q].at = "save"
                             => runs'[q].entity.status = "ready" /\ runs'[q].entity.token = q
                        /\ Announced(q)' /\ runs'[q].x \notin stalledOnce
                             => /\ exportRow'[runs'[q].x] = runs'[q].entity
                                /\ runs'[q].entity.status = "ready" /\ runs'[q].entity.token = q
    BY DEF LinksHold
  <2>2. CASE q = r
    BY <1>1, <1>3, <2>2 DEF Announced
  <2>3. CASE q # r
    <3>1. runs'[q] = runs[q] /\ (q \in tokenMailed' \ mailDoubtful' <=> q \in tokenMailed \ mailDoubtful)
      BY <1>3, <2>3
    <3>2. Announced(q)' <=> Announced(q)
      BY <3>1 DEF Announced
    <3>3. ASSUME Announced(q), runs[q].x \notin stalledOnce
          PROVE  exportRow'[runs[q].x] = exportRow[runs[q].x]
      <4>1. runs[q].x \in ExportRequest /\ Took(q, runs[q].x)
        BY <3>3 DEF Announced, RunOfJob, Took
      <4>2. runs[q].x # x
        BY <2>3, <3>3, <4>1 DEF OneRunPerJob
      <4> QED BY <1>6, <4>1, <4>2
    <3> QED BY <3>1, <3>2, <3>3 DEF LinksHold
  <2> QED BY <2>2, <2>3
<1> QED BY <1>9, <1>10, <1>11, <1>12

\* What EXCEPT makes of the record of a run.
LEMMA RunFields ==
    ASSUME ExportTypes, NEW r \in ExportRun, runs[r].at # "idle"
    PROVE  /\ runs[r] \in RunOfJob /\ runs[r].x \in ExportRequest
           /\ runs[r].entity \in ExportEntity /\ runs[r].at \in ExportStage
           /\ \A step : [runs EXCEPT ![r].at = step]
                 = [runs EXCEPT ![r] = [at |-> step, x |-> runs[r].x, entity |-> runs[r].entity]]
<1>1. runs[r] \in RunOfJob
  BY DEF ExportTypes, NoRun
<1>2. runs[r].x \in ExportRequest /\ runs[r].entity \in ExportEntity /\ runs[r].at \in ExportStage
  BY <1>1 DEF RunOfJob
<1>3. \A step : [runs[r] EXCEPT !.at = step] = [at |-> step, x |-> runs[r].x, entity |-> runs[r].entity]
  BY <1>1 DEF RunOfJob
<1>4. \A step : [runs EXCEPT ![r].at = step] = [runs EXCEPT ![r] = [runs[r] EXCEPT !.at = step]]
  BY DEF ExportTypes
<1> QED BY <1>1, <1>2, <1>3, <1>4

\* The steps of generateExport, its catch block and a crash.
LEMMA RunsKeepInv ==
    ASSUME ExportInv, NEW r \in ExportRun,
           \/ SaveProcessing(r) \/ BuildFile(r) \/ SaveReady(r) \/ QueueMail(r)
           \/ RunRejects(r) \/ SaveFailed(r) \/ RunCrashes(r)
    PROVE  ExportInv'
<1>1. ExportTypes /\ LinksHold
  BY DEF ExportInv
<1>2. runs[r].at # "idle" /\ runs[r].at # "done"
  BY DEF SaveProcessing, BuildFile, SaveReady, QueueMail, RunRejects, SaveFailed, RunCrashes
<1>3. PICK x \in ExportRequest : x = runs[r].x
  BY <1>1, <1>2, RunFields
<1>4. PICK e \in ExportEntity : e = runs[r].entity
  BY <1>1, <1>2, RunFields
<1>5. Took(r, x) /\ r \notin tokenMailed \ mailDoubtful
  BY <1>1, <1>2, <1>3, RunFields DEF Took, LinksHold
<1>6. \A step : [runs EXCEPT ![r].at = step]
                  = [runs EXCEPT ![r] = [at |-> step, x |-> x, entity |-> e]]
  BY <1>1, <1>2, <1>3, <1>4, RunFields
<1>7. CASE SaveProcessing(r)
  <2>1. /\ runs' = [runs EXCEPT ![r] = [at |-> "build", x |-> x, entity |-> e]]
        /\ exportRow' = [exportRow EXCEPT ![x] = runs[r].entity]
        /\ UNCHANGED <<exporter, exportJob, stalledOnce, tokenMailed, mailDoubtful, exportClock>>
    BY <1>3, <1>6, <1>7 DEF SaveProcessing, SaveEntity
  <2>2. "build" \in ExportStage
    BY DEF ExportStage
  <2> QED BY <1>2, <1>4, <1>5, <2>1, <2>2, RunStepKeepsInv
<1>8. CASE BuildFile(r)
  <2>1. PICK f \in ExportEntity : f = Ready(r) /\ f.status = "ready" /\ f.token = r
    <3>1. exportClock + LinkTtl \in Nat
      BY <1>1, ExportAssumption DEF ExportTypes
    <3>2. Ready(r) = [status |-> "ready", token |-> r, expiresAt |-> exportClock + LinkTtl]
      BY DEF Ready
    <3>3. Ready(r) \in ExportEntity
      BY <3>1, <3>2 DEF ExportEntity
    <3> QED BY <3>2, <3>3
  <2>2. /\ runs' = [runs EXCEPT ![r] = [at |-> "save", x |-> x, entity |-> f]]
        /\ UNCHANGED <<exportRow, exporter, exportJob, stalledOnce, tokenMailed, mailDoubtful, exportClock>>
    BY <1>1, <1>2, <1>3, <1>8, <2>1, RunFields DEF BuildFile
  <2>3. "save" \in ExportStage
    BY DEF ExportStage
  <2> QED BY <1>2, <1>5, <2>1, <2>2, <2>3, RunStepKeepsInv
<1>9. CASE SaveReady(r)
  <2>1. /\ runs' = [runs EXCEPT ![r] = [at |-> "mail", x |-> x, entity |-> e]]
        /\ exportRow' = [exportRow EXCEPT ![x] = runs[r].entity]
        /\ UNCHANGED <<exporter, exportJob, stalledOnce, tokenMailed, mailDoubtful, exportClock>>
        /\ runs[r].at = "save"
    BY <1>3, <1>6, <1>9 DEF SaveReady, SaveEntity
  <2>2. exportRow'[x] = e /\ e.status = "ready" /\ e.token = r
    BY <1>1, <1>2, <1>4, <2>1, RunFields DEF LinksHold, ExportTypes
  <2>3. "mail" \in ExportStage
    BY DEF ExportStage
  <2> QED BY <1>2, <1>4, <1>5, <2>1, <2>2, <2>3, RunStepKeepsInv
<1>10. CASE QueueMail(r)
  <2>1. /\ runs' = [runs EXCEPT ![r] = [at |-> "done", x |-> x, entity |-> e]]
        /\ exportJob' = [exportJob EXCEPT ![x] = "over"]
        /\ tokenMailed' = tokenMailed \cup {r}
        /\ UNCHANGED <<exportRow, exporter, stalledOnce, mailDoubtful, exportClock>>
        /\ runs[r].at = "mail"
    BY <1>3, <1>6, <1>10 DEF QueueMail, EndJob
  <2>2. x \notin stalledOnce => exportRow'[x] = e /\ e.status = "ready" /\ e.token = r
    BY <1>1, <1>2, <1>3, <1>4, <2>1, RunFields DEF LinksHold, Announced
  <2>3. "done" \in ExportStage
    BY DEF ExportStage
  <2> QED BY <1>2, <1>4, <1>5, <2>1, <2>2, <2>3, RunStepKeepsInv
<1>11. CASE RunRejects(r)
  <2>1. /\ UNCHANGED <<exportRow, exporter, stalledOnce, exportClock>>
        /\ \/ UNCHANGED <<tokenMailed, mailDoubtful>>
           \/ tokenMailed' = tokenMailed \cup {r} /\ mailDoubtful' = mailDoubtful \cup {r}
    BY <1>11 DEF RunRejects
  <2>2. r \notin tokenMailed' \ mailDoubtful'
    BY <1>5, <2>1
  <2>3. {"catch", "done"} \subseteq ExportStage
    BY DEF ExportStage
  <2>4. CASE runs[r].at = "processing"
    <3>1. /\ runs' = [runs EXCEPT ![r] = [at |-> "done", x |-> x, entity |-> e]]
          /\ exportJob' = [exportJob EXCEPT ![x] = "over"]
      BY <1>3, <1>6, <1>11, <2>4 DEF RunRejects, EndJob
    <3> QED BY <1>2, <1>4, <1>5, <2>1, <2>2, <2>3, <3>1, RunStepKeepsInv
  <2>5. CASE runs[r].at # "processing"
    <3>1. PICK f \in ExportEntity : f = [runs[r].entity EXCEPT !.status = "failed"] /\ f.token = e.token
      <4>1. /\ [runs[r].entity EXCEPT !.status = "failed"] \in ExportEntity
            /\ [runs[r].entity EXCEPT !.status = "failed"].token = e.token
        BY <1>4 DEF ExportEntity
      <4> QED BY <4>1
    <3>2. /\ runs' = [runs EXCEPT ![r] = [at |-> "catch", x |-> x, entity |-> f]]
          /\ exportJob' = exportJob
      BY <1>1, <1>2, <1>3, <1>11, <2>5, <3>1, RunFields DEF RunRejects
    <3> QED BY <1>2, <1>4, <1>5, <2>1, <2>2, <2>3, <3>1, <3>2, RunStepKeepsInv
  <2> QED BY <2>4, <2>5
<1>12. CASE SaveFailed(r)
  <2>1. /\ runs' = [runs EXCEPT ![r] = [at |-> "done", x |-> x, entity |-> e]]
        /\ exportRow' = [exportRow EXCEPT ![x] = runs[r].entity]
        /\ exportJob' = [exportJob EXCEPT ![x] = "over"]
        /\ UNCHANGED <<exporter, stalledOnce, tokenMailed, mailDoubtful, exportClock>>
    BY <1>3, <1>6, <1>12 DEF SaveFailed, SaveEntity, EndJob
  <2>2. "done" \in ExportStage
    BY DEF ExportStage
  <2> QED BY <1>2, <1>4, <1>5, <2>1, <2>2, RunStepKeepsInv
<1>13. CASE RunCrashes(r)
  <2>1. /\ runs' = [runs EXCEPT ![r] = [at |-> "done", x |-> x, entity |-> e]]
        /\ UNCHANGED <<exportRow, exporter, exportJob, stalledOnce, tokenMailed, mailDoubtful, exportClock>>
    BY <1>6, <1>13 DEF RunCrashes
  <2>2. "done" \in ExportStage
    BY DEF ExportStage
  <2> QED BY <1>2, <1>4, <1>5, <2>1, <2>2, RunStepKeepsInv
<1> QED BY <1>7, <1>8, <1>9, <1>10, <1>11, <1>12, <1>13

\* A mailed link works until it expires, for any number of requests, runs, faults
\* and crashes: the row is what the run announced, because only a stalled job has
\* a second run that could save over it.
THEOREM MailedTokensWork == ExportSpec => []MailedTokenWorks
<1>1. ExportInit => ExportInv
  <2> SUFFICES ASSUME ExportInit PROVE ExportInv
    OBVIOUS
  <2>1. \A r \in ExportRun : runs[r] = NoRun /\ runs[r] \notin RunOfJob
    <3>1. \A w \in RunOfJob : w.at # "idle"
      BY DEF RunOfJob, ExportStage
    <3> QED BY <3>1 DEF ExportInit, NoRun
  <2>2. NoRow \in ExportEntity /\ NoRow.token = "null"
    BY DEF NoRow, ExportEntity
  <2>3. ExportTypes
    BY <2>2 DEF ExportInit, ExportTypes
  <2>4. OneRunPerJob
    BY <2>1 DEF ExportInit, OneRunPerJob, Took
  <2>5. TokensAreOwn
    BY <2>1, <2>2, ExportAssumption DEF ExportInit, TokensAreOwn, Took
  <2>6. LinksHold
    BY <2>1 DEF ExportInit, LinksHold, Announced
  <2> QED BY <2>3, <2>4, <2>5, <2>6 DEF ExportInv
<1>2. ExportInv /\ [ExportNext]_exportVars => ExportInv'
  <2> SUFFICES ASSUME ExportInv, [ExportNext]_exportVars PROVE ExportInv'
    OBVIOUS
  <2>1. CASE ExportTick \/ UNCHANGED exportVars
    <3>1. /\ UNCHANGED <<exportRow, exporter, exportJob, runs, stalledOnce, tokenMailed, mailDoubtful>>
          /\ exportClock' \in Nat
      BY <2>1 DEF ExportTick, exportVars, ExportInv, ExportTypes
    <3> QED BY <3>1 DEF ExportInv, ExportTypes, OneRunPerJob, TokensAreOwn, LinksHold, Announced, Took
  <2> QED BY <2>1, RequestsKeepInv, TakeKeepsExports, RunsKeepInv DEF ExportNext
<1>3. ExportInv => MailedTokenWorks
  BY LinksWork
<1> QED BY <1>1, <1>2, <1>3, PTL DEF ExportSpec

-----------------------------------------------------------------------------
(***************************************************************************)
(* Merchants: the reminder before an API key expires.                      *)
(***************************************************************************)
MerchantRow ==
    [status : {"pending", "active", "suspended"}, role : {"merchant", "admin", "superadmin"},
     key : Nat, expiresAt : Int, sent : BOOLEAN, deleted : {"no", "soft", "hard"}, profile : Nat,
     allowlist : Nat, fee : Nat, preference : Nat, sandbox : Int, adminIps : Nat,
     totpSecret : Nat, totpEnabled : BOOLEAN]
CallRow == [at : {"idle", "save", "write", "audit", "done"}, read : MerchantRow,
            entity : MerchantRow, base : MerchantRow]

MerchantTypes ==
    /\ merchant \in MerchantRow
    /\ calls \in [MerchantCall -> CallRow]
    /\ reminders \in [ReminderRun -> [at : {"idle", "queue", "mark"}, key : Nat, expiresAt : Int]]
    /\ day \in Nat /\ keysIssued \in Nat /\ overtaken \in BOOLEAN

\* An operation that writes another key or expiry takes the mark away.
MarkFollowsKey(m, e) ==
    \/ e.sent = FALSE
    \/ e.sent = m.sent /\ e.key = m.key /\ e.expiresAt = m.expiresAt

EntitiesFollow ==
    \A c \in MerchantCall :
        calls[c].at \in {"save", "write"} => MarkFollowsKey(calls[c].read, calls[c].entity)

\* A run marks a row only after the mail about what it found.
MailBeforeMark ==
    \A r \in ReminderRun :
        reminders[r].at = "mark" => <<reminders[r].key, reminders[r].expiresAt>> \in remindersSent

\* The inductive invariant of the reminders.
MerchantInv == MerchantTypes /\ EntitiesFollow /\ MailBeforeMark /\ MarkedIsReminded

-----------------------------------------------------------------------------
\* The row a merchant starts with is a row, and is not marked.
LEMMA NewMerchantRow == NewMerchant \in MerchantRow /\ NewMerchant.sent = FALSE
BY DEF NewMerchant, MerchantRow, NoExpiry

\* A key that is issued or extended is not marked.
LEMMA UnmarkedKey ==
    ASSUME NEW m \in MerchantRow, NEW k \in Nat, NEW x \in Int
    PROVE  /\ [m EXCEPT !.expiresAt = x, !.sent = FALSE] \in MerchantRow
           /\ [m EXCEPT !.expiresAt = x, !.sent = FALSE].sent = FALSE
           /\ [m EXCEPT !.key = k, !.expiresAt = x, !.sent = FALSE] \in MerchantRow
           /\ [m EXCEPT !.key = k, !.expiresAt = x, !.sent = FALSE].sent = FALSE
<1>1. ASSUME NEW n \in MerchantRow
      PROVE  /\ [n EXCEPT !.expiresAt = x, !.sent = FALSE] \in MerchantRow
             /\ [n EXCEPT !.expiresAt = x, !.sent = FALSE].sent = FALSE
  <2> DEFINE p == [n EXCEPT !.expiresAt = x]
  <2>1. p \in MerchantRow
    BY DEF MerchantRow
  <2>2. [n EXCEPT !.expiresAt = x, !.sent = FALSE] = [p EXCEPT !.sent = FALSE]
    OBVIOUS
  <2> HIDE DEF p
  <2>3. [p EXCEPT !.sent = FALSE] \in MerchantRow /\ [p EXCEPT !.sent = FALSE].sent = FALSE
    BY <2>1 DEF MerchantRow
  <2> QED BY <2>2, <2>3
<1> DEFINE q == [m EXCEPT !.key = k]
<1>2. q \in MerchantRow
  BY DEF MerchantRow
<1>3. [m EXCEPT !.key = k, !.expiresAt = x, !.sent = FALSE]
        = [q EXCEPT !.expiresAt = x, !.sent = FALSE]
  OBVIOUS
<1> HIDE DEF q
<1> QED BY <1>1, <1>2, <1>3

\* The operations keep the type of the row, and the mark with the key.
LEMMA OperationsFollow ==
    ASSUME NEW m \in MerchantRow, day \in Nat, keysIssued \in Nat,
           NEW e \in UNION {MerchantOperations(m), MerchantAdminOperations(m), AdminOperations(m)}
    PROVE  e \in MerchantRow /\ MarkFollowsKey(m, e)
<1>1. \/ e \in MerchantOperations(m) \/ e \in MerchantAdminOperations(m) \/ e \in AdminOperations(m)
  OBVIOUS
<1>2. CASE e \in MerchantOperations(m)
  <2>1. \/ e \in Update(m) \/ e \in GenerateApiKey(m)
        \/ e \in SetApiKeyIpAllowlist(m) \/ e \in UpdateSettlementPreference(m)
    BY <1>2 DEF MerchantOperations
  <2>2. CASE e \in Update(m)
    BY <2>2 DEF Update, MerchantRow, MarkFollowsKey
  <2>3. CASE e \in GenerateApiKey(m)
    <3>1. PICK x \in Expiries \cup {NoExpiry} :
             e = [m EXCEPT !.key = keysIssued + 1, !.expiresAt = x, !.sent = FALSE]
      BY <2>3 DEF GenerateApiKey
    <3>2. x \in Int /\ keysIssued + 1 \in Nat
      BY MerchantAssumption DEF Expiries, NoExpiry
    <3> QED BY <3>1, <3>2, UnmarkedKey DEF MarkFollowsKey
  <2>4. CASE e \in SetApiKeyIpAllowlist(m)
    BY <2>4 DEF SetApiKeyIpAllowlist, MerchantRow, MarkFollowsKey
  <2>5. CASE e \in UpdateSettlementPreference(m)
    BY <2>5 DEF UpdateSettlementPreference, MerchantRow, MarkFollowsKey
  <2> QED BY <2>1, <2>2, <2>3, <2>4, <2>5
<1>3. CASE e \in MerchantAdminOperations(m)
  <2>1. \/ e \in UpdateMerchantFee(m) \/ e \in ExtendApiKeyExpiry(m)
        \/ e \in UpdateTransactionLimits(m) \/ e \in VerifyMerchant(m)
    BY <1>3 DEF MerchantAdminOperations
  <2>2. CASE e \in UpdateMerchantFee(m)
    BY <2>2 DEF UpdateMerchantFee, MerchantRow, MarkFollowsKey
  <2>3. CASE e \in ExtendApiKeyExpiry(m)
    <3>1. PICK x \in Expiries : e = [m EXCEPT !.expiresAt = x, !.sent = FALSE]
      BY <2>3 DEF ExtendApiKeyExpiry
    <3>2. x \in Int
      BY MerchantAssumption DEF Expiries
    <3> QED BY <3>1, <3>2, UnmarkedKey DEF MarkFollowsKey
  <2>4. CASE e \in UpdateTransactionLimits(m)
    BY <2>4 DEF UpdateTransactionLimits, MarkFollowsKey
  <2>5. CASE e \in VerifyMerchant(m)
    BY <2>5 DEF VerifyMerchant, MerchantRow, MarkFollowsKey
  <2> QED BY <2>1, <2>2, <2>3, <2>4, <2>5
<1>4. CASE e \in AdminOperations(m)
  <2>1. \/ e \in UpdateMerchantStatus(m) \/ e \in UpdateAdminRole(m) \/ e \in SetupAdminTotp(m)
        \/ e \in VerifyAdminTotp(m) \/ e \in UpdateAdminAllowedIps(m) \/ e \in ToggleSandboxMode(m)
    BY <1>4 DEF AdminOperations
  <2>2. CASE e \in UpdateMerchantStatus(m)
    BY <2>2 DEF UpdateMerchantStatus, MerchantRow, MarkFollowsKey
  <2>3. CASE e \in UpdateAdminRole(m)
    BY <2>3 DEF UpdateAdminRole, Admins, MerchantRow, MarkFollowsKey
  <2>4. CASE e \in SetupAdminTotp(m)
    BY <2>4 DEF SetupAdminTotp, MerchantRow, MarkFollowsKey
  <2>5. CASE e \in VerifyAdminTotp(m)
    BY <2>5 DEF VerifyAdminTotp, MerchantRow, MarkFollowsKey
  <2>6. CASE e \in UpdateAdminAllowedIps(m)
    BY <2>6 DEF UpdateAdminAllowedIps, MerchantRow, MarkFollowsKey
  <2>7. CASE e \in ToggleSandboxMode(m)
    BY <2>7 DEF ToggleSandboxMode, MerchantRow, MarkFollowsKey
  <2> QED BY <2>1, <2>2, <2>3, <2>4, <2>5, <2>6, <2>7
<1> QED BY <1>1, <1>2, <1>3, <1>4

\* So do the operations that are not saved through the entity.
LEMMA RecordOperationsFollow ==
    ASSUME NEW m \in MerchantRow, NEW e \in Unsaved(m)
    PROVE  e \in MerchantRow /\ MarkFollowsKey(m, e)
<1>1. e \in DeleteAdmin(m) \/ e \in DeleteRecord(m) \/ e \in RestoreRecord(m)
  BY DEF Unsaved
<1>2. CASE e \in DeleteAdmin(m)
  BY <1>2 DEF DeleteAdmin, MerchantRow, MarkFollowsKey
<1>3. CASE e \in DeleteRecord(m)
  BY <1>3 DEF DeleteRecord, MerchantRow, MarkFollowsKey
<1>4. CASE e \in RestoreRecord(m)
  BY <1>4 DEF RestoreRecord, MerchantRow, MarkFollowsKey
<1> QED BY <1>1, <1>2, <1>3, <1>4

\* A call reads, saves, logs or ends.
LEMMA CallsKeepInv ==
    ASSUME MerchantInv, NEW c \in MerchantCall,
           ReadMerchant(c) \/ ReadRecord(c) \/ SaveSelects(c) \/ WriteAuditLog(c) \/ CallRejects(c)
    PROVE  MerchantInv'
<1> USE DEF MerchantInv
<1>1. UNCHANGED <<merchant, reminders, day, remindersSent, overtaken>>
  BY DEF ReadMerchant, ReadRecord, SaveSelects, WriteAuditLog, CallRejects
<1>2. MailBeforeMark' /\ MarkedIsReminded'
  BY <1>1 DEF MailBeforeMark, MarkedIsReminded
<1>3. ASSUME NEW row \in CallRow, calls' = [calls EXCEPT ![c] = row], keysIssued' \in Nat,
             row.at \in {"save", "write"} => MarkFollowsKey(row.read, row.entity)
      PROVE  MerchantInv'
  <2>1. MerchantTypes'
    BY <1>1, <1>3 DEF MerchantTypes
  <2>2. EntitiesFollow'
    BY <1>3 DEF EntitiesFollow, MerchantTypes
  <2> QED BY <1>2, <2>1, <2>2
<1> HIDE DEF MerchantInv
<1>4. merchant \in MerchantRow /\ calls[c] \in CallRow /\ day \in Nat /\ keysIssued \in Nat
  BY DEF MerchantInv, MerchantTypes
<1>5. CASE ReadMerchant(c)
  <2>1. PICK e \in UNION {MerchantOperations(merchant), MerchantAdminOperations(merchant),
                          AdminOperations(merchant)} :
          /\ calls' = [calls EXCEPT ![c] = [at |-> "save", read |-> merchant, entity |-> e,
                                            base |-> NewMerchant]]
          /\ keysIssued' = IF e.key > keysIssued THEN e.key ELSE keysIssued
    BY <1>5 DEF ReadMerchant
  <2>2. e \in MerchantRow /\ MarkFollowsKey(merchant, e)
    BY <1>4, OperationsFollow
  <2>3. e.key \in Nat
    BY <2>2 DEF MerchantRow
  <2>4. PICK row \in CallRow : row = [at |-> "save", read |-> merchant, entity |-> e, base |-> NewMerchant]
    BY <1>4, <2>2, NewMerchantRow DEF CallRow
  <2>5. row.read = merchant /\ row.entity = e
    BY <2>4
  <2> QED BY <1>3, <1>4, <2>1, <2>2, <2>3, <2>4, <2>5
<1>6. CASE ReadRecord(c)
  <2>1. PICK e \in Unsaved(merchant) :
           calls' = [calls EXCEPT ![c] = [at |-> "write", read |-> merchant, entity |-> e, base |-> merchant]]
    BY <1>6 DEF ReadRecord
  <2>2. e \in MerchantRow /\ MarkFollowsKey(merchant, e) /\ keysIssued' = keysIssued
    BY <1>4, <1>6, RecordOperationsFollow DEF ReadRecord
  <2>3. PICK row \in CallRow : row = [at |-> "write", read |-> merchant, entity |-> e, base |-> merchant]
    BY <1>4, <2>2 DEF CallRow
  <2>4. row.read = merchant /\ row.entity = e
    BY <2>3
  <2> QED BY <1>3, <1>4, <2>1, <2>2, <2>3, <2>4
<1>7. CASE SaveSelects(c)
  <2>1. /\ calls[c].at = "save" /\ keysIssued' = keysIssued
        /\ calls' = [calls EXCEPT ![c] = [at |-> "write", read |-> calls[c].read,
                                          entity |-> calls[c].entity, base |-> merchant]]
    BY <1>7 DEF SaveSelects
  <2>2. PICK row \in CallRow : row = [at |-> "write", read |-> calls[c].read,
                                      entity |-> calls[c].entity, base |-> merchant]
    BY <1>4 DEF CallRow
  <2>3. row.read = calls[c].read /\ row.entity = calls[c].entity
    BY <2>2
  <2>4. MarkFollowsKey(row.read, row.entity)
    BY <2>1, <2>3 DEF EntitiesFollow, MerchantInv
  <2> QED BY <1>3, <1>4, <2>1, <2>2, <2>4
<1>8. CASE WriteAuditLog(c) \/ CallRejects(c)
  <2>1. calls' = [calls EXCEPT ![c] = CallDone] /\ keysIssued' = keysIssued
    BY <1>8 DEF WriteAuditLog, CallRejects
  <2>2. CallDone \in CallRow /\ CallDone.at = "done"
    BY NewMerchantRow DEF CallDone, NoCall, CallRow
  <2> QED BY <1>3, <1>4, <2>1, <2>2
<1> QED BY <1>5, <1>6, <1>7, <1>8

\* save writes the key columns of the entity, or what was in the row.
LEMMA SaveKeepsMark ==
    ASSUME MerchantInv, NEW c \in MerchantCall, SaveUpdates(c)
    PROVE  MerchantInv'
<1> USE DEF MerchantInv
<1> DEFINE read == calls[c].read
           base == calls[c].base
           entity == calls[c].entity
<1>1. /\ read \in MerchantRow /\ base \in MerchantRow /\ entity \in MerchantRow
      /\ merchant \in MerchantRow /\ calls[c].at = "write"
  BY DEF MerchantTypes, CallRow, SaveUpdates
<1>2. MarkFollowsKey(read, entity)
  BY <1>1 DEF EntitiesFollow
<1>3. /\ merchant' = IF base.deleted = "hard" THEN entity
                     ELSE IF merchant.deleted = "hard" THEN merchant
                     ELSE [col \in DOMAIN merchant |->
                              IF entity[col] # base[col] THEN entity[col] ELSE merchant[col]]
      /\ overtaken' = (overtaken \/ \E col \in KeyColumns : {read[col], base[col]} # {merchant[col]})
      /\ calls' = [calls EXCEPT ![c] = [NoCall EXCEPT !.at = "audit"]]
      /\ UNCHANGED <<reminders, day, keysIssued, remindersSent>>
  BY DEF SaveUpdates
<1> HIDE DEF read, base, entity
<1>4. merchant' \in MerchantRow
  <2>1. [col \in DOMAIN merchant |-> IF entity[col] # base[col] THEN entity[col] ELSE merchant[col]]
          \in MerchantRow
    BY <1>1 DEF MerchantRow
  <2> QED BY <1>1, <1>3, <2>1
<1>5. [NoCall EXCEPT !.at = "audit"] \in CallRow /\ [NoCall EXCEPT !.at = "audit"].at = "audit"
  BY NewMerchantRow DEF NoCall, CallRow
<1>6. MerchantTypes'
  BY <1>3, <1>4, <1>5 DEF MerchantTypes
<1>7. EntitiesFollow'
  BY <1>3, <1>5 DEF EntitiesFollow, MerchantTypes
<1>8. MailBeforeMark'
  BY <1>3 DEF MailBeforeMark
<1>9. MarkedIsReminded'
  <2>1. SUFFICES ASSUME merchant'.sent, ~overtaken'
                 PROVE  <<merchant'.key, merchant'.expiresAt>> \in remindersSent
    BY <1>3 DEF MarkedIsReminded
  <2>2. \A col \in KeyColumns : read[col] = merchant[col] /\ base[col] = merchant[col]
    BY <1>3, <2>1
  <2>3. /\ read.key = merchant.key /\ base.key = merchant.key
        /\ read.expiresAt = merchant.expiresAt /\ base.expiresAt = merchant.expiresAt
        /\ read.sent = merchant.sent /\ base.sent = merchant.sent
    BY <2>2 DEF KeyColumns
  <2>4. \/ merchant' = merchant
        \/ /\ merchant'.key = entity.key /\ merchant'.expiresAt = entity.expiresAt
           /\ merchant'.sent = entity.sent
    BY <1>1, <1>3, <2>3 DEF MerchantRow
  <2>5. merchant.sent /\ merchant'.key = merchant.key /\ merchant'.expiresAt = merchant.expiresAt
    BY <1>1, <1>2, <2>1, <2>3, <2>4 DEF MarkFollowsKey
  <2>6. ~overtaken
    BY <1>3, <2>1
  <2> QED BY <2>5, <2>6 DEF MarkedIsReminded
<1> QED BY <1>6, <1>7, <1>8, <1>9

\* sendExpiryReminders: a mail, then the mark of the key it was about.
LEMMA RemindersKeepInv ==
    ASSUME MerchantInv, NEW r \in ReminderRun,
           FindExpiring(r) \/ QueueReminder(r) \/ MarkReminded(r) \/ ReminderRejects(r)
    PROVE  MerchantInv'
<1> USE DEF MerchantInv
<1>1. UNCHANGED <<calls, day, keysIssued>> /\ remindersSent \subseteq remindersSent'
  BY DEF FindExpiring, QueueReminder, MarkReminded, ReminderRejects
<1>2. EntitiesFollow'
  BY <1>1 DEF EntitiesFollow
<1>3. NoReminder \in [at : {"idle", "queue", "mark"}, key : Nat, expiresAt : Int] /\ NoReminder.at = "idle"
  BY DEF NoReminder, NoExpiry
<1>4. merchant.key \in Nat /\ merchant.expiresAt \in Int
  BY DEF MerchantTypes, MerchantRow
<1>5. CASE FindExpiring(r)
  <2>1. UNCHANGED <<merchant, overtaken, remindersSent>>
    BY <1>5 DEF FindExpiring
  <2>2. MerchantTypes' /\ MailBeforeMark'
    BY <1>1, <1>4, <1>5, <2>1 DEF FindExpiring, MerchantTypes, MailBeforeMark
  <2> QED BY <1>2, <2>1, <2>2 DEF MarkedIsReminded
<1>6. CASE QueueReminder(r)
  <2>1. UNCHANGED <<merchant, overtaken>>
    BY <1>6 DEF QueueReminder
  <2>2. MerchantTypes' /\ MailBeforeMark'
    BY <1>1, <1>6, <2>1 DEF QueueReminder, MerchantTypes, MailBeforeMark
  <2> QED BY <1>1, <1>2, <2>1, <2>2 DEF MarkedIsReminded
<1>7. CASE MarkReminded(r)
  <2>1. /\ merchant' \in {merchant, [merchant EXCEPT !.sent = TRUE]}
        /\ overtaken' = (overtaken \/ <<merchant.key, merchant.expiresAt>>
                                         # <<reminders[r].key, reminders[r].expiresAt>>)
        /\ reminders' = [reminders EXCEPT ![r] = NoReminder]
        /\ remindersSent' = remindersSent /\ reminders[r].at = "mark"
    BY <1>7 DEF MarkReminded
  <2>2. /\ merchant' \in MerchantRow /\ merchant'.key = merchant.key
        /\ merchant'.expiresAt = merchant.expiresAt
    BY <2>1 DEF MerchantTypes, MerchantRow
  <2>3. MerchantTypes' /\ MailBeforeMark'
    BY <1>1, <1>3, <2>1, <2>2 DEF MerchantTypes, MailBeforeMark
  <2>4. MarkedIsReminded'
    BY <2>1, <2>2 DEF MarkedIsReminded, MailBeforeMark
  <2> QED BY <1>2, <2>3, <2>4
<1>8. CASE ReminderRejects(r)
  <2>1. UNCHANGED <<merchant, overtaken, remindersSent>>
    BY <1>8 DEF ReminderRejects
  <2>2. MerchantTypes' /\ MailBeforeMark'
    BY <1>1, <1>3, <1>8, <2>1 DEF ReminderRejects, MerchantTypes, MailBeforeMark
  <2> QED BY <1>2, <2>1, <2>2 DEF MarkedIsReminded
<1> QED BY <1>5, <1>6, <1>7, <1>8

\* No key expires without a warning, for any number of calls and runs in any order.
THEOREM KeysAreReminded == MerchantSpec => []MarkedIsReminded
<1>1. MerchantInit => MerchantInv
  <2> SUFFICES ASSUME MerchantInit PROVE MerchantInv
    OBVIOUS
  <2>1. merchant \in MerchantRow /\ merchant.sent = FALSE
    <3>1. PICK ro \in {"merchant", "admin"} :
             merchant = [NewMerchant EXCEPT !.role = ro, !.key = 1, !.expiresAt = 1]
      BY DEF MerchantInit
    <3> DEFINE m1 == [NewMerchant EXCEPT !.role = ro]
               m2 == [m1 EXCEPT !.key = 1]
    <3>2. m1 \in MerchantRow /\ m1.sent = FALSE
      BY NewMerchantRow DEF MerchantRow
    <3>3. merchant = [m2 EXCEPT !.expiresAt = 1]
      BY <3>1
    <3> HIDE DEF m1
    <3>4. m2 \in MerchantRow /\ m2.sent = FALSE
      BY <3>2 DEF MerchantRow
    <3> HIDE DEF m2
    <3> QED BY <3>3, <3>4 DEF MerchantRow
  <2>2. NoCall \in CallRow /\ NoCall.at = "idle"
    BY NewMerchantRow DEF NoCall, CallRow
  <2>3. NoReminder \in [at : {"idle", "queue", "mark"}, key : Nat, expiresAt : Int] /\ NoReminder.at = "idle"
    BY DEF NoReminder, NoExpiry
  <2>4. MerchantTypes
    BY <2>1, <2>2, <2>3 DEF MerchantInit, MerchantTypes
  <2>5. EntitiesFollow /\ MailBeforeMark
    BY <2>2, <2>3 DEF MerchantInit, EntitiesFollow, MailBeforeMark
  <2>6. MarkedIsReminded
    BY <2>1 DEF MarkedIsReminded
  <2> QED BY <2>4, <2>5, <2>6 DEF MerchantInv
<1>2. MerchantInv /\ [MerchantNext]_merchantVars => MerchantInv'
  <2> SUFFICES ASSUME MerchantInv, [MerchantNext]_merchantVars PROVE MerchantInv'
    OBVIOUS
  <2>1. CASE DayPasses \/ UNCHANGED merchantVars
    <3>1. /\ UNCHANGED <<merchant, calls, reminders, keysIssued, remindersSent, overtaken>>
          /\ day' \in Nat
      BY <2>1 DEF DayPasses, merchantVars, MerchantInv, MerchantTypes
    <3> QED BY <3>1 DEF MerchantInv, MerchantTypes, EntitiesFollow, MailBeforeMark, MarkedIsReminded
  <2> QED BY <2>1, CallsKeepInv, SaveKeepsMark, RemindersKeepInv DEF MerchantNext
<1>3. MerchantInv => MarkedIsReminded
  BY DEF MerchantInv
<1> QED BY <1>1, <1>2, <1>3, PTL DEF MerchantSpec

-----------------------------------------------------------------------------
(***************************************************************************)
(* The ranking: a keyset cursor over a strict total order.  That a page    *)
(* has a last row, and that LIMIT cuts the order in two, rests on the      *)
(* well-foundedness of strict inclusion between the finitely many          *)
(* merchants, which stands in for an induction on the number of rows.      *)
(***************************************************************************)
RankCursor == [id : Int, volume : Int]
RankPage == [cursor : RankCursor, rows : SUBSET RankedMerchant, next : RankCursor,
             steady : SUBSET RankedMerchant]
WalkRow == [at : {"idle", "get", "fetch", "set", "over"}, cursor : RankCursor,
            listed : [RankedMerchant -> Int], steady : SUBSET RankedMerchant, exact : BOOLEAN,
            page : RankPage]

RankTypes ==
    /\ volume \in [RankedMerchant -> Int]
    /\ pages \subseteq RankPage
    /\ walk \in [RankClient -> WalkRow]

\* Between exact cursors, a page has the steady merchants of the period that are
\* behind its cursor and not behind the next one, which lies behind its own.
PageFits(p) ==
    ExactCursor(p.cursor) /\ ExactCursor(p.next) =>
      /\ p.next # Start => \/ p.cursor = Start \/ p.next.volume < p.cursor.volume
                           \/ p.next.volume = p.cursor.volume /\ p.next.id > p.cursor.id
      /\ \A m \in p.steady :
            m \in p.rows <=> /\ InPeriod(m) /\ Having(m, p.cursor)
                            /\ (p.next = Start \/ ~Having(m, p.next))

\* A walk over exact cursors has listed the steady merchants of the period that
\* are not behind its cursor, once.
WalkFits(w) ==
    /\ w.at \in {"get", "fetch", "set"} /\ w.exact =>
          /\ ExactCursor(w.cursor)
          /\ \A m \in w.steady : w.listed[m] = IF InPeriod(m) /\ ~Having(m, w.cursor) THEN 1 ELSE 0
    /\ w.at = "over" /\ w.exact =>
          \A m \in w.steady : w.listed[m] = IF InPeriod(m) THEN 1 ELSE 0
    /\ w.at = "set" => PageFits(w.page) /\ w.page.cursor = w.cursor

\* The inductive invariant of the ranking.
RankInv ==
    /\ RankTypes
    /\ \A p \in RankPage : p \in pages => PageFits(p)
    /\ \A c \in RankClient, w \in WalkRow : walk[c] = w => WalkFits(w)

-----------------------------------------------------------------------------
\* The order of a page is total and strict.
LEMMA RankingIsOrder ==
    ASSUME volume \in [RankedMerchant -> Int],
           NEW a \in RankedMerchant, NEW b \in RankedMerchant, NEW c \in RankedMerchant
    PROVE  /\ ~Ranked(a, a)
           /\ Ranked(a, b) => ~Ranked(b, a)
           /\ a # b => Ranked(a, b) \/ Ranked(b, a)
           /\ Ranked(a, b) /\ Ranked(b, c) => Ranked(a, c)
BY RankingAssumption DEF Ranked

\* Merchants that are ranked have a first and a last one.
LEMMA EndsExist ==
    ASSUME volume \in [RankedMerchant -> Int], NEW S \in SUBSET RankedMerchant, S # {}
    PROVE  /\ \E m \in S : \A k \in S : k = m \/ Ranked(m, k)
           /\ \E m \in S : \A k \in S : k = m \/ Ranked(k, m)
<1>1. IsWellFoundedOn(StrictSubsetOrdering(RankedMerchant), SUBSET RankedMerchant)
  BY FS_StrictSubsetOrderingWellFounded, FS_FiniteSubsetsOfFinite, RankingAssumption
<1>2. \E m \in S : \A k \in S : k = m \/ Ranked(m, k)
  <2> DEFINE Before(m) == {k \in S : Ranked(k, m)}
             T == {Before(m) : m \in S}
  <2>1. T \subseteq SUBSET RankedMerchant /\ T # {}
    OBVIOUS
  <2>2. PICK X \in T : \A Y \in T : <<Y, X>> \notin StrictSubsetOrdering(RankedMerchant)
    <3> HIDE DEF T
    <3> QED BY <1>1, <2>1, WFMin
  <2>3. PICK m \in S : X = Before(m)
    OBVIOUS
  <2>4. ASSUME NEW k \in S, Ranked(k, m)
        PROVE  FALSE
    <3>1. Before(k) \subseteq Before(m) /\ k \in Before(m) /\ k \notin Before(k)
      BY <2>4, RankingIsOrder
    <3>2. <<Before(k), X>> \in StrictSubsetOrdering(RankedMerchant)
      BY <2>3, <3>1 DEF StrictSubsetOrdering
    <3> QED BY <2>2, <3>2
  <2> QED BY <2>4, RankingIsOrder
<1>3. \E m \in S : \A k \in S : k = m \/ Ranked(k, m)
  <2> DEFINE After(m) == {k \in S : Ranked(m, k)}
             T == {After(m) : m \in S}
  <2>1. T \subseteq SUBSET RankedMerchant /\ T # {}
    OBVIOUS
  <2>2. PICK X \in T : \A Y \in T : <<Y, X>> \notin StrictSubsetOrdering(RankedMerchant)
    <3> HIDE DEF T
    <3> QED BY <1>1, <2>1, WFMin
  <2>3. PICK m \in S : X = After(m)
    OBVIOUS
  <2>4. ASSUME NEW k \in S, Ranked(m, k)
        PROVE  FALSE
    <3>1. After(k) \subseteq After(m) /\ k \in After(m) /\ k \notin After(k)
      BY <2>4, RankingIsOrder
    <3>2. <<After(k), X>> \in StrictSubsetOrdering(RankedMerchant)
      BY <2>3, <3>1 DEF StrictSubsetOrdering
    <3> QED BY <2>2, <3>2
  <2> QED BY <2>4, RankingIsOrder
<1> QED BY <1>2, <1>3

\* LIMIT keeps what ranks before a row it keeps, keeps the first row, and keeps
\* all rows if it could have kept more.
LEMMA LimitKeepsFirst ==
    ASSUME volume \in [RankedMerchant -> Int], NEW S \in SUBSET RankedMerchant, NEW n \in Nat \ {0}
    PROVE  /\ Limited(S, n) \subseteq S
           /\ \A m \in S : \A k \in Limited(S, n) : Ranked(m, k) => m \in Limited(S, n)
           /\ S # {} => Limited(S, n) # {}
           /\ Cardinality(Limited(S, n)) < n => Limited(S, n) = S
<1> DEFINE Before(m) == {k \in S : Ranked(k, m)}
<1>1. IsFiniteSet(S) /\ \A m \in S : IsFiniteSet(Before(m)) /\ Cardinality(Before(m)) \in Nat
  <2>1. IsFiniteSet(S)
    BY FS_Subset, RankingAssumption
  <2>2. \A m \in S : IsFiniteSet(Before(m))
    BY <2>1, FS_Subset
  <2> QED BY <2>1, <2>2, FS_CardinalityType
<1>2. Limited(S, n) = {m \in S : Cardinality(Before(m)) < n}
  BY DEF Limited
<1>3. ASSUME NEW m \in S, NEW k \in Limited(S, n), Ranked(m, k)
      PROVE  m \in Limited(S, n)
  <2>1. k \in S /\ Cardinality(Before(k)) < n
    BY <1>2
  <2>2. Before(m) \subseteq Before(k)
    BY <1>3, <2>1, RankingIsOrder
  <2>3. Cardinality(Before(m)) <= Cardinality(Before(k))
    BY <1>1, <2>1, <2>2, FS_Subset
  <2> HIDE DEF Before
  <2>4. Cardinality(Before(m)) < n
    BY <1>1, <2>1, <2>3
  <2> QED BY <1>2, <2>4
<1>4. ASSUME S # {}
      PROVE  Limited(S, n) # {}
  <2>1. PICK m \in S : \A k \in S : k = m \/ Ranked(m, k)
    BY <1>4, EndsExist
  <2>2. Before(m) = {}
    BY <2>1, RankingIsOrder
  <2>3. Cardinality(Before(m)) = 0
    BY <2>2, FS_EmptySet
  <2> HIDE DEF Before
  <2> QED BY <1>2, <2>3
<1>5. ASSUME Cardinality(Limited(S, n)) < n, Limited(S, n) # S
      PROVE  FALSE
  <2>1. S \ Limited(S, n) # {}
    BY <1>2, <1>5
  <2>2. PICK m \in S \ Limited(S, n) : \A k \in S \ Limited(S, n) : k = m \/ Ranked(m, k)
    BY <2>1, EndsExist
  <2>3. Before(m) \subseteq Limited(S, n)
    BY <2>2, RankingIsOrder
  <2>4. IsFiniteSet(Limited(S, n)) /\ Cardinality(Limited(S, n)) \in Nat
    BY <1>1, <1>2, FS_Subset, FS_CardinalityType
  <2>5. Cardinality(Before(m)) <= Cardinality(Limited(S, n))
    BY <2>3, <2>4, FS_Subset
  <2>6. ~(Cardinality(Before(m)) < n)
    BY <1>2, <2>2
  <2>7. Cardinality(Before(m)) \in Nat
    BY <1>1, <2>2
  <2> HIDE DEF Before
  <2> QED BY <1>5, <2>4, <2>5, <2>6, <2>7
<1> QED BY <1>2, <1>3, <1>4, <1>5

\* What is behind the exact cursor of a row ranks after the row.
LEMMA BehindIsRankedAfter ==
    ASSUME volume \in [RankedMerchant -> Int], NEW last \in RankedMerchant
    PROVE  /\ [id |-> last, volume |-> volume[last]] \in RankCursor
           /\ [id |-> last, volume |-> volume[last]] # Start
           /\ ExactCursor([id |-> last, volume |-> volume[last]]) =>
                \A m \in RankedMerchant :
                  Having(m, [id |-> last, volume |-> volume[last]]) <=> Ranked(last, m)
<1> DEFINE next == [id |-> last, volume |-> volume[last]]
<1>1. last \in Nat /\ volume[last] \in Int
  BY RankingAssumption
<1>2. next \in RankCursor
  BY <1>1 DEF RankCursor
<1>3. next.id = last /\ next.volume = volume[last] /\ Start.id = -1
  BY DEF Start
<1> HIDE DEF next
<1>4. next # Start
  BY <1>1, <1>3
<1>5. ASSUME ExactCursor(next)
      PROVE  \A m \in RankedMerchant : Having(m, next) <=> Ranked(last, m)
  <2>1. ParseFloat(next.volume) = volume[last]
    BY <1>3, <1>4, <1>5 DEF ExactCursor
  <2> QED BY <1>1, <1>3, <1>4, <2>1, RankingAssumption DEF Having, Ranked
<1> QED BY <1>2, <1>4, <1>5 DEF next

\* A page that is fetched fits.
LEMMA FetchFits ==
    ASSUME volume \in [RankedMerchant -> Int], NEW cursor \in RankCursor
    PROVE  /\ FetchTopMerchants(cursor) \in RankPage
           /\ FetchTopMerchants(cursor).cursor = cursor
           /\ PageFits(FetchTopMerchants(cursor))
<1> DEFINE A == {m \in RankedMerchant : InPeriod(m) /\ Having(m, cursor)}
           rows == Limited(A, RankLimit + 1)
           hasMore == Cardinality(rows) > RankLimit
           pageRows == IF hasMore THEN Limited(rows, RankLimit) ELSE rows
           last == CHOOSE m \in pageRows : \A k \in pageRows : k = m \/ Ranked(k, m)
           next == IF hasMore THEN [id |-> last, volume |-> volume[last]] ELSE Start
<1>1. FetchTopMerchants(cursor)
        = [cursor |-> cursor, rows |-> pageRows, steady |-> RankedMerchant, next |-> next]
  BY DEF FetchTopMerchants
<1>2. RankLimit \in Nat \ {0} /\ RankLimit + 1 \in Nat \ {0} /\ A \in SUBSET RankedMerchant
  BY RankingAssumption
<1>3. \A m \in RankedMerchant : m \in A <=> InPeriod(m) /\ Having(m, cursor)
  OBVIOUS
<1> HIDE DEF A
<1>4. /\ rows \subseteq A
      /\ \A m \in A : \A k \in rows : Ranked(m, k) => m \in rows
      /\ Cardinality(rows) < RankLimit + 1 => rows = A
  BY <1>2, LimitKeepsFirst
<1>5. IsFiniteSet(rows) /\ Cardinality(rows) \in Nat /\ rows \in SUBSET RankedMerchant
  <2>1. rows \in SUBSET RankedMerchant
    BY <1>2, <1>4
  <2> QED BY <2>1, FS_Subset, FS_CardinalityType, RankingAssumption
<1> HIDE DEF rows
<1>6. /\ Limited(rows, RankLimit) \subseteq rows
      /\ \A m \in rows : \A k \in Limited(rows, RankLimit) :
           Ranked(m, k) => m \in Limited(rows, RankLimit)
      /\ rows # {} => Limited(rows, RankLimit) # {}
  BY <1>2, <1>5, LimitKeepsFirst
<1>7. /\ pageRows \subseteq RankedMerchant /\ next \in RankCursor
      /\ ExactCursor(cursor) /\ ExactCursor(next) =>
           /\ next # Start => \/ cursor = Start \/ next.volume < cursor.volume
                              \/ next.volume = cursor.volume /\ next.id > cursor.id
           /\ \A m \in RankedMerchant :
                m \in pageRows <=> /\ InPeriod(m) /\ Having(m, cursor)
                                   /\ (next = Start \/ ~Having(m, next))
  <2>1. CASE ~hasMore
    <3>1. Cardinality(rows) < RankLimit + 1
      BY <1>2, <1>5, <2>1
    <3>2. pageRows = A /\ next = Start
      BY <1>4, <2>1, <3>1
    <3>3. Start \in RankCursor
      BY DEF Start, RankCursor
    <3> HIDE DEF pageRows, next
    <3> QED BY <1>2, <1>3, <3>2, <3>3
  <2>2. CASE hasMore
    <3>1. rows # {}
      <4>1. Cardinality(rows) # 0
        BY <1>2, <1>5, <2>2
      <4> QED BY <4>1, FS_EmptySet
    <3>2. pageRows = Limited(rows, RankLimit)
      BY <2>2
    <3>3. pageRows # {} /\ pageRows \subseteq rows /\ pageRows \in SUBSET RankedMerchant
      BY <1>5, <1>6, <3>1, <3>2
    <3>4. next = [id |-> last, volume |-> volume[last]]
      BY <2>2
    <3> HIDE DEF pageRows, next
    <3>5. last \in pageRows /\ \A k \in pageRows : k = last \/ Ranked(k, last)
      BY <3>3, EndsExist
    <3> HIDE DEF last
    <3>6. last \in RankedMerchant /\ last \in rows /\ last \in A
      BY <1>4, <3>3, <3>5
    <3>7. /\ next \in RankCursor /\ next # Start
          /\ ExactCursor(next) => \A m \in RankedMerchant : Having(m, next) <=> Ranked(last, m)
      BY <3>4, <3>6, BehindIsRankedAfter
    <3>8. ASSUME ExactCursor(cursor), ExactCursor(next)
          PROVE  /\ \/ cursor = Start \/ next.volume < cursor.volume
                    \/ next.volume = cursor.volume /\ next.id > cursor.id
                 /\ \A m \in RankedMerchant :
                      m \in pageRows <=> InPeriod(m) /\ Having(m, cursor) /\ ~Having(m, next)
      <4>1. \/ cursor = Start \/ next.volume < cursor.volume
            \/ next.volume = cursor.volume /\ next.id > cursor.id
        BY <1>3, <3>4, <3>6, <3>8 DEF Having, ExactCursor
      <4>2. ASSUME NEW m \in RankedMerchant, m \in pageRows
            PROVE  InPeriod(m) /\ Having(m, cursor) /\ ~Having(m, next)
        <5>1. m \in A
          BY <1>4, <3>3, <4>2
        <5>2. ~Ranked(last, m)
          BY <3>5, <3>6, <4>2, RankingIsOrder
        <5> QED BY <1>3, <3>7, <3>8, <5>1, <5>2
      <4>3. ASSUME NEW m \in RankedMerchant, InPeriod(m), Having(m, cursor), ~Having(m, next)
            PROVE  m \in pageRows
        <5>1. m \in A /\ ~Ranked(last, m)
          BY <1>3, <3>7, <3>8, <4>3
        <5>2. m = last \/ Ranked(m, last)
          BY <3>6, <5>1, RankingIsOrder
        <5>3. CASE Ranked(m, last)
          BY <1>4, <1>6, <3>2, <3>5, <3>6, <5>1, <5>3
        <5> QED BY <3>5, <5>2, <5>3
      <4> QED BY <4>1, <4>2, <4>3
    <3> QED BY <3>3, <3>7, <3>8
  <2> QED BY <2>1, <2>2
<1> HIDE DEF pageRows, next
<1>8. PICK p : p = [cursor |-> cursor, rows |-> pageRows, steady |-> RankedMerchant, next |-> next]
  OBVIOUS
<1>9. p \in RankPage /\ p.cursor = cursor /\ p.rows = pageRows /\ p.next = next
      /\ p.steady = RankedMerchant
  BY <1>7, <1>8 DEF RankPage
<1>10. PageFits(p)
  BY <1>7, <1>9 DEF PageFits
<1> QED BY <1>1, <1>8, <1>9, <1>10

\* A walk that turns a page that fits still fits.
LEMMA TurnFits ==
    ASSUME RankTypes, NEW c \in RankClient, WalkFits(walk[c]), walk[c].at \in {"get", "fetch", "set"},
           NEW p \in RankPage, PageFits(p), p.cursor = walk[c].cursor
    PROVE  Turn(c, p) \in WalkRow /\ WalkFits(Turn(c, p))
<1>1. PICK w \in WalkRow : w = walk[c]
  BY DEF RankTypes
<1>2. PICK t : t = Turn(c, p)
  OBVIOUS
<1>3. /\ t.at = IF p.next = Start THEN "over" ELSE "get"
      /\ t.cursor = p.next /\ t.steady = w.steady \cap p.steady
      /\ t.exact = (w.exact /\ ExactCursor(p.next))
      /\ \A m \in RankedMerchant : t.listed[m] = IF m \notin p.rows THEN w.listed[m]
                                                ELSE IF w.listed[m] = 0 THEN 1 ELSE 2
  BY <1>1, <1>2 DEF Turn
<1>4. t \in WalkRow
  <2>1. (w.exact /\ ExactCursor(p.next)) \in BOOLEAN
    OBVIOUS
  <2>2. p.next \in RankCursor /\ p.steady \subseteq RankedMerchant
    BY DEF RankPage
  <2> QED BY <1>1, <1>2, <2>1, <2>2 DEF Turn, WalkRow
<1>5. w.exact => /\ ExactCursor(w.cursor)
                 /\ \A m \in w.steady :
                      w.listed[m] = IF InPeriod(m) /\ ~Having(m, w.cursor) THEN 1 ELSE 0
  BY <1>1 DEF WalkFits
<1>6. ASSUME w.exact, ExactCursor(p.next), NEW m \in t.steady
      PROVE  t.listed[m] = IF InPeriod(m) /\ (p.next = Start \/ ~Having(m, p.next)) THEN 1 ELSE 0
  <2>1. m \in RankedMerchant /\ m \in w.steady /\ m \in p.steady /\ w.listed[m] \in Int
    BY <1>3 DEF WalkRow, RankPage
  <2>2. ExactCursor(p.cursor) /\ p.cursor = w.cursor
    BY <1>1, <1>5, <1>6
  <2>3. m \in p.rows <=> /\ InPeriod(m) /\ Having(m, w.cursor)
                         /\ (p.next = Start \/ ~Having(m, p.next))
    BY <1>6, <2>1, <2>2 DEF PageFits
  <2>4. p.next # Start /\ Having(m, p.next) => Having(m, w.cursor)
    <3>1. \/ p.next = Start \/ p.cursor = Start \/ p.next.volume < p.cursor.volume
          \/ p.next.volume = p.cursor.volume /\ p.next.id > p.cursor.id
      BY <1>6, <2>2 DEF PageFits
    <3>2. /\ p.next.volume \in Int /\ p.next.id \in Int /\ p.cursor.volume \in Int
          /\ p.cursor.id \in Int /\ m \in Int /\ volume[m] \in Int
      BY <2>1, RankingAssumption DEF RankPage, RankCursor, RankTypes
    <3> QED BY <1>6, <2>2, <3>1, <3>2 DEF Having, ExactCursor
  <2>5. t.listed[m] = IF m \notin p.rows THEN w.listed[m] ELSE IF w.listed[m] = 0 THEN 1 ELSE 2
    BY <1>3, <2>1
  <2>6. w.listed[m] = IF InPeriod(m) /\ ~Having(m, w.cursor) THEN 1 ELSE 0
    BY <1>5, <1>6, <2>1
  <2> QED BY <2>3, <2>4, <2>5, <2>6
<1>7. WalkFits(t)
  BY <1>3, <1>6 DEF WalkFits, ExactCursor
<1> QED BY <1>2, <1>4, <1>7

\* While no volume changes, what fits goes on fitting.
LEMMA FitsNeedVolume ==
    ASSUME UNCHANGED volume
    PROVE  /\ \A p : PageFits(p)' <=> PageFits(p)
           /\ \A w : WalkFits(w)' <=> WalkFits(w)
<1>1. /\ \A m, cursor : Having(m, cursor)' <=> Having(m, cursor)
      /\ \A m : InPeriod(m)' <=> InPeriod(m)
      /\ \A cursor : ExactCursor(cursor)' <=> ExactCursor(cursor)
  BY DEF Having, InPeriod, ExactCursor
<1>2. \A p : PageFits(p)' <=> PageFits(p)
  BY <1>1 DEF PageFits
<1> QED BY <1>1, <1>2 DEF WalkFits

\* A step of one walk keeps the invariant if the walk and the pages fit after it.
LEMMA OneWalk ==
    ASSUME RankInv, UNCHANGED volume, NEW c \in RankClient, NEW w \in WalkRow, WalkFits(w),
           walk' = [walk EXCEPT ![c] = w], pages' \subseteq RankPage,
           \A p \in RankPage : p \in pages' => PageFits(p)
    PROVE  RankInv'
<1>1. RankTypes'
  BY DEF RankInv, RankTypes
<1>2. ASSUME NEW p \in RankPage, p \in pages'
      PROVE  PageFits(p)'
  BY <1>2, FitsNeedVolume
<1>3. ASSUME NEW d \in RankClient, NEW x \in WalkRow, walk'[d] = x
      PROVE  WalkFits(x)'
  <2>1. walk'[d] = IF d = c THEN w ELSE walk[d]
    BY DEF RankInv, RankTypes
  <2>2. WalkFits(x)
    BY <1>3, <2>1 DEF RankInv
  <2> QED BY <2>2, FitsNeedVolume
<1> QED BY <1>1, <1>2, <1>3 DEF RankInv

\* The states the ranking starts in.
LEMMA RankStarts == RankInit => RankInv
<1> SUFFICES ASSUME RankInit
             PROVE  RankInv
  OBVIOUS
<1>1. NoWalk \in WalkRow /\ NoWalk.at = "idle"
  BY DEF NoWalk, WalkRow, RankPage, RankCursor, Start
<1>2. WalkFits(NoWalk)
  BY <1>1 DEF WalkFits
<1>3. RankTypes
  <2>1. VolumeUsd \cup {NoPayment} \subseteq Int
    BY RankingAssumption DEF NoPayment
  <2>2. volume \in [RankedMerchant -> Int]
    BY <2>1 DEF RankInit
  <2> QED BY <1>1, <2>2 DEF RankInit, RankTypes
<1> QED BY <1>1, <1>2, <1>3 DEF RankInv, RankInit

\* A client starts at the first page with nothing listed.
LEMMA StartWalkKeeps ==
    ASSUME RankInv, NEW c \in RankClient, StartWalk(c)
    PROVE  RankInv'
<1>1. PICK w : w = [NoWalk EXCEPT !.at = "get"]
  OBVIOUS
<1>2. w \in WalkRow /\ w.at = "get" /\ w.cursor = Start /\ w.listed = [m \in RankedMerchant |-> 0]
      /\ w.steady = RankedMerchant
  <2>1. NoWalk \in WalkRow
    BY DEF NoWalk, WalkRow, RankPage, RankCursor, Start
  <2>2. NoWalk.cursor = Start /\ NoWalk.listed = [m \in RankedMerchant |-> 0]
        /\ NoWalk.steady = RankedMerchant
    BY DEF NoWalk
  <2> HIDE DEF NoWalk
  <2> QED BY <1>1, <2>1, <2>2 DEF WalkRow
<1>3. WalkFits(w)
  BY <1>2 DEF WalkFits, Having, ExactCursor
<1> QED BY <1>1, <1>2, <1>3, OneWalk DEF StartWalk, RankInv, RankTypes

\* A page is found in the cache, or will be fetched.
LEMMA PageLookupKeeps ==
    ASSUME RankInv, NEW c \in RankClient, PageLookup(c)
    PROVE  RankInv'
<1> DEFINE hit == {p \in pages : p.cursor = walk[c].cursor}
<1>1. PICK w \in WalkRow : w = walk[c] /\ WalkFits(w) /\ w.at = "get"
  BY DEF RankInv, RankTypes, PageLookup
<1>2. CASE hit = {}
  <2>1. PICK x : x = [w EXCEPT !.at = "fetch"]
    OBVIOUS
  <2>2. x \in WalkRow /\ x.at = "fetch" /\ x.cursor = w.cursor /\ x.listed = w.listed
        /\ x.steady = w.steady /\ x.exact = w.exact
    BY <2>1 DEF WalkRow
  <2>3. WalkFits(x)
    BY <1>1, <2>2 DEF WalkFits
  <2>4. walk' = [walk EXCEPT ![c] = x]
    BY <1>1, <1>2, <2>1 DEF PageLookup
  <2> QED BY <2>2, <2>3, <2>4, OneWalk DEF PageLookup, RankInv, RankTypes
<1>3. CASE hit # {}
  <2>1. PICK p : p = CHOOSE q \in hit : TRUE
    OBVIOUS
  <2>2. p \in hit
    BY <1>3, <2>1
  <2>3. p \in RankPage /\ PageFits(p) /\ p.cursor = walk[c].cursor
    BY <2>2 DEF RankInv, RankTypes
  <2>4. Turn(c, p) \in WalkRow /\ WalkFits(Turn(c, p))
    BY <1>1, <2>3, TurnFits DEF RankInv
  <2>5. PICK x : x = Turn(c, p)
    OBVIOUS
  <2>6. walk' = [walk EXCEPT ![c] = x]
    BY <1>3, <2>1, <2>5 DEF PageLookup
  <2> QED BY <2>4, <2>5, <2>6, OneWalk DEF PageLookup, RankInv, RankTypes
<1> QED BY <1>2, <1>3

\* A page is fetched for the cursor of the walk.
LEMMA PageFetchKeeps ==
    ASSUME RankInv, NEW c \in RankClient, PageFetch(c)
    PROVE  RankInv'
<1>1. PICK w \in WalkRow : w = walk[c] /\ WalkFits(w) /\ w.at = "fetch"
  BY DEF RankInv, RankTypes, PageFetch
<1>2. w.cursor \in RankCursor
  BY DEF WalkRow
<1>3. PICK p \in RankPage : p = FetchTopMerchants(w.cursor) /\ p.cursor = w.cursor /\ PageFits(p)
  BY <1>2, FetchFits DEF RankInv, RankTypes
<1> DEFINE s == [w EXCEPT !.at = "set"]
           x == [s EXCEPT !.page = p]
<1>4. s \in WalkRow /\ s.at = "set" /\ s.cursor = w.cursor /\ s.listed = w.listed
      /\ s.steady = w.steady /\ s.exact = w.exact
  BY DEF WalkRow
<1>5. walk' = [walk EXCEPT ![c] = x]
  BY <1>1, <1>3 DEF PageFetch
<1> HIDE DEF s
<1>6. x \in WalkRow /\ x.at = "set" /\ x.cursor = w.cursor /\ x.listed = w.listed
      /\ x.steady = w.steady /\ x.exact = w.exact /\ x.page = p
  BY <1>4 DEF WalkRow
<1> HIDE DEF x
<1>7. WalkFits(x)
  BY <1>1, <1>3, <1>6 DEF WalkFits
<1> QED BY <1>5, <1>6, <1>7, OneWalk DEF PageFetch, RankInv, RankTypes

\* The page is stored under its cursor and turned.
LEMMA PageStoreKeeps ==
    ASSUME RankInv, NEW c \in RankClient, PageStore(c)
    PROVE  RankInv'
<1>1. PICK w \in WalkRow : w = walk[c] /\ WalkFits(w) /\ w.at = "set"
  BY DEF RankInv, RankTypes, PageStore
<1>2. PICK p \in RankPage : p = w.page /\ PageFits(p) /\ p.cursor = w.cursor
  BY <1>1 DEF WalkRow, WalkFits
<1>3. Turn(c, p) \in WalkRow /\ WalkFits(Turn(c, p))
  BY <1>1, <1>2, TurnFits DEF RankInv
<1>4. PICK x : x = Turn(c, p)
  OBVIOUS
<1>5. walk' = [walk EXCEPT ![c] = x] /\ pages' = {q \in pages : q.cursor # p.cursor} \cup {p}
  BY <1>1, <1>2, <1>4 DEF PageStore
<1>6. pages' \subseteq RankPage /\ \A q \in RankPage : q \in pages' => PageFits(q)
  BY <1>2, <1>5 DEF RankInv, RankTypes
<1> QED BY <1>3, <1>4, <1>5, <1>6, OneWalk DEF PageStore

\* A page drops out of the cache.
LEMMA PageExpiresKeeps ==
    ASSUME RankInv, NEW q \in pages, PageExpires(q)
    PROVE  RankInv'
<1>1. UNCHANGED <<volume, walk>> /\ pages' \subseteq pages
  BY DEF PageExpires
<1>2. RankTypes'
  BY <1>1 DEF RankInv, RankTypes
<1> QED BY <1>1, <1>2, FitsNeedVolume DEF RankInv

\* A merchant stays where it is, in the period and behind a cursor or not.
KeepsRank(k) ==
    /\ InPeriod(k)' <=> InPeriod(k)
    /\ \A cursor : Having(k, cursor)' <=> Having(k, cursor)

\* The volume of a merchant says nothing of the others.
LEMMA OthersKeepRank ==
    ASSUME volume \in [RankedMerchant -> Int], NEW m \in RankedMerchant, NEW v \in Int,
           volume' = [volume EXCEPT ![m] = v]
    PROVE  \A k \in RankedMerchant \ {m} : KeepsRank(k)
<1> TAKE k \in RankedMerchant \ {m}
<1>1. volume'[k] = volume[k]
  OBVIOUS
<1>2. InPeriod(k)' <=> InPeriod(k)
  BY <1>1 DEF InPeriod
<1>3. ASSUME NEW cursor
      PROVE  Having(k, cursor)' <=> Having(k, cursor)
  BY <1>1 DEF Having
<1> QED BY <1>2, <1>3 DEF KeepsRank

\* A page without the merchant whose volume changes fits as before.
LEMMA PageForgets ==
    ASSUME volume \in [RankedMerchant -> Int], NEW m \in RankedMerchant, NEW v \in Int,
           volume' = [volume EXCEPT ![m] = v], NEW p \in RankPage
    PROVE  \A q : q = Unsteady(p, m) =>
             /\ q \in RankPage /\ q.cursor = p.cursor
             /\ PageFits(p) => PageFits(q)'
<1> TAKE q
<1> HAVE q = Unsteady(p, m)
<1>1. q \in RankPage /\ q.cursor = p.cursor /\ q.rows = p.rows /\ q.next = p.next
      /\ q.steady = p.steady \ {m} /\ p.steady \subseteq RankedMerchant
  BY DEF RankPage, Unsteady
<1>2. \A k \in RankedMerchant \ {m} : KeepsRank(k)
  BY OthersKeepRank
<1>3. PageFits(p) => PageFits(q)'
  BY <1>1, <1>2 DEF PageFits, KeepsRank, ExactCursor
<1> QED BY <1>1, <1>3

\* Pages and walks under way forget the merchant whose volume changes.
LEMMA VolumeChangesKeeps ==
    ASSUME RankInv, NEW m \in RankedMerchant, NEW v \in VolumeUsd \cup {NoPayment},
           VolumeChanges(m, v)
    PROVE  RankInv'
<1>1. /\ volume \in [RankedMerchant -> Int] /\ v \in Int /\ volume' = [volume EXCEPT ![m] = v]
      /\ pages \subseteq RankPage /\ walk \in [RankClient -> WalkRow]
  BY RankingAssumption DEF RankInv, RankTypes, VolumeChanges, NoPayment
<1>2. \A k \in RankedMerchant \ {m} : KeepsRank(k)
  BY <1>1, OthersKeepRank
<1>3. ASSUME NEW c \in RankClient
      PROVE  \E x \in WalkRow : walk'[c] = x /\ WalkFits(x)'
  <2>1. PICK w \in WalkRow : w = walk[c] /\ WalkFits(w)
    BY <1>1 DEF RankInv
  <2>2. PICK p : p = w.page
    OBVIOUS
  <2>3. PICK q : q = Unsteady(p, m)
    OBVIOUS
  <2>4. p \in RankPage
    BY <2>2 DEF WalkRow
  <2>5. q \in RankPage /\ q.cursor = p.cursor /\ (PageFits(p) => PageFits(q)')
    BY <1>1, <2>3, <2>4, PageForgets
  <2> DEFINE s == Unsteady(w, m)
             x == [s EXCEPT !.page = q]
  <2>6. walk'[c] = x
    BY <2>1, <2>2, <2>3 DEF VolumeChanges
  <2>7. s \in WalkRow /\ s.at = w.at /\ s.cursor = w.cursor /\ s.listed = w.listed
        /\ s.steady = w.steady \ {m} /\ s.exact = w.exact
    BY DEF WalkRow, Unsteady
  <2> HIDE DEF s
  <2>8. x \in WalkRow /\ x.at = w.at /\ x.cursor = w.cursor /\ x.listed = w.listed
        /\ x.steady = w.steady \ {m} /\ x.exact = w.exact /\ x.page = q
    BY <2>5, <2>7 DEF WalkRow
  <2>9. PICK y \in WalkRow : y = x
    BY <2>8
  <2> HIDE DEF x
  <2>10. w.steady \subseteq RankedMerchant
    BY DEF WalkRow
  <2>11. y.at \in {"get", "fetch", "set"} /\ y.exact =>
           /\ ExactCursor(y.cursor)'
           /\ \A k \in y.steady :
                y.listed[k] = IF InPeriod(k)' /\ ~Having(k, y.cursor)' THEN 1 ELSE 0
    BY <1>2, <2>1, <2>8, <2>9, <2>10 DEF WalkFits, KeepsRank, ExactCursor
  <2>12. y.at = "over" /\ y.exact =>
           \A k \in y.steady : y.listed[k] = IF InPeriod(k)' THEN 1 ELSE 0
    BY <1>2, <2>1, <2>8, <2>9, <2>10 DEF WalkFits, KeepsRank
  <2>13. y.at = "set" => PageFits(y.page)' /\ y.page.cursor = y.cursor
    <3> SUFFICES ASSUME y.at = "set"
                 PROVE  PageFits(y.page)' /\ y.page.cursor = y.cursor
      OBVIOUS
    <3>1. PageFits(p) /\ p.cursor = w.cursor
      BY <2>1, <2>2, <2>8, <2>9 DEF WalkFits
    <3> QED BY <2>5, <2>8, <2>9, <3>1
  <2>14. WalkFits(y)'
    BY <2>11, <2>12, <2>13 DEF WalkFits
  <2> QED BY <2>6, <2>9, <2>14
<1>4. ASSUME NEW q \in pages'
      PROVE  q \in RankPage /\ PageFits(q)'
  <2>1. PICK p \in pages : q = Unsteady(p, m)
    BY <1>4 DEF VolumeChanges
  <2>2. p \in RankPage /\ PageFits(p)
    BY <1>1 DEF RankInv
  <2>3. PICK y : y = q
    OBVIOUS
  <2> QED BY <1>1, <2>1, <2>2, PageForgets
<1>5. walk' \in [RankClient -> WalkRow]
  <2>1. walk' = [c \in RankClient |-> walk'[c]]
    BY DEF VolumeChanges
  <2>2. \A c \in RankClient : walk'[c] \in WalkRow
    BY <1>3
  <2> QED BY <2>1, <2>2
<1>6. RankTypes'
  BY <1>1, <1>4, <1>5 DEF RankTypes
<1> QED BY <1>3, <1>4, <1>6 DEF RankInv

\* What getTopMerchants and the volumes do keeps the invariant.
LEMMA RankStep == RankInv /\ [RankNext]_rankVars => RankInv'
<1> SUFFICES ASSUME RankInv, [RankNext]_rankVars
             PROVE  RankInv'
  OBVIOUS
<1>1. CASE \E c \in RankClient : StartWalk(c) \/ PageLookup(c) \/ PageFetch(c) \/ PageStore(c)
  BY <1>1, StartWalkKeeps, PageLookupKeeps, PageFetchKeeps, PageStoreKeeps
<1>2. CASE \E p \in pages : PageExpires(p)
  BY <1>2, PageExpiresKeeps
<1>3. CASE \E m \in RankedMerchant, v \in VolumeUsd \cup {NoPayment} : VolumeChanges(m, v)
  BY <1>3, VolumeChangesKeeps
<1>4. CASE UNCHANGED rankVars
  <2>1. UNCHANGED <<volume, pages, walk>>
    BY <1>4 DEF rankVars
  <2>2. RankTypes'
    BY <2>1 DEF RankInv, RankTypes
  <2> QED BY <2>1, <2>2, FitsNeedVolume DEF RankInv
<1> QED BY <1>1, <1>2, <1>3, <1>4 DEF RankNext

\* A walk of getTopMerchants to the last page lists every merchant that stays in
\* the period with its volume exactly once, and none that stays out of it: for any
\* volumes and ties between them, any page size, any clients, whoever enters or
\* leaves, and whichever pages come from the cache, unless the volume of one of
\* its cursors is not a number of JavaScript.
THEOREM RankingIsComplete == RankSpec => []UnchangedIsListedOnce
<1>1. RankInv => UnchangedIsListedOnce
  BY DEF RankInv, RankTypes, WalkFits, UnchangedIsListedOnce
<1> QED BY <1>1, RankStarts, RankStep, PTL DEF RankSpec

-----------------------------------------------------------------------------
(***************************************************************************)
(* Access: the allowlists, for every width of addresses, bytes and groups. *)
(* The guards compare bytes, masks and ranges; the property compares the   *)
(* leading bits of two numbers.  Between them stands the arithmetic of     *)
(* positional numbers, by induction in the form of a least exception.      *)
(***************************************************************************)

\* A set of naturals that is not empty has a least element: the induction over a
\* recursive definition is the argument that a least exception cannot be.
LEMMA LeastExists ==
    ASSUME NEW S \in SUBSET Nat, S # {}
    PROVE  \E x \in S : \A y \in S : x <= y
<1> DEFINE R == {ss \in Nat \X Nat : ss[1] < ss[2]}
<1>1. IsWellFoundedOn(R, Nat)
  BY NatLessThanWellFounded, Zenon DEF OpToRel
<1>2. PICK x \in S : \A y \in S : <<y, x>> \notin R
  <2> HIDE DEF R
  <2> QED BY <1>1, WFMin
<1>3. \A y \in S : ~(y < x)
  BY <1>2
<1> QED BY <1>3

\* g holds the powers of two up to the m-th.
IsPow(g, m) ==
    /\ g \in [0..m -> Nat]
    /\ g[0] = 1
    /\ \A i \in 1..m : g[i] = 2 * g[i - 1]

\* Such a function exists for every m: a least m without one would extend that of m - 1.
LEMMA PowsExist == \A m \in Nat : \E g : IsPow(g, m)
<1> DEFINE Bad == {m \in Nat : ~ \E g : IsPow(g, m)}
<1> SUFFICES ASSUME Bad # {} PROVE FALSE
  OBVIOUS
<1>1. PICK m \in Bad : \A x \in Bad : m <= x
  <2>1. Bad \in SUBSET Nat
    OBVIOUS
  <2> HIDE DEF Bad
  <2> QED BY <2>1, LeastExists
<1>2. CASE m = 0
  <2> DEFINE g == [i \in 0..0 |-> 1]
  <2>1. g \in [0..0 -> Nat] /\ g[0] = 1 /\ \A i \in 1..0 : FALSE
    OBVIOUS
  <2>2. IsPow(g, 0)
    <3> HIDE DEF g
    <3> QED BY <2>1 DEF IsPow
  <2> QED BY <1>2, <2>2
<1>3. CASE m # 0
  <2>1. m \in Nat /\ m - 1 \in Nat /\ m - 1 \notin Bad
    BY <1>1, <1>3
  <2>2. PICK h : IsPow(h, m - 1)
    BY <2>1
  <2> DEFINE g == [i \in 0..m |-> IF i = m THEN 2 * h[m - 1] ELSE h[i]]
  <2>3. h \in [0..(m - 1) -> Nat] /\ h[0] = 1 /\ \A i \in 1..(m - 1) : h[i] = 2 * h[i - 1]
    BY <2>2 DEF IsPow
  <2>4. g \in [0..m -> Nat] /\ g[0] = 1
    BY <1>3, <2>1, <2>3
  <2>5. \A i \in 1..m : g[i] = 2 * g[i - 1]
    BY <2>1, <2>3
  <2>6. IsPow(g, m)
    <3> HIDE DEF g
    <3> QED BY <2>4, <2>5 DEF IsPow
  <2> QED BY <2>6
<1> QED BY <1>2, <1>3

\* Two of them agree as far as both reach.
LEMMA PowsAgree ==
    ASSUME NEW m \in Nat, NEW n \in Nat, NEW g, NEW h, IsPow(g, m), IsPow(h, n)
    PROVE  \A i \in Nat : i <= m /\ i <= n => g[i] = h[i]
<1> DEFINE Bad == {i \in Nat : i <= m /\ i <= n /\ g[i] # h[i]}
<1> SUFFICES ASSUME Bad # {} PROVE FALSE
  OBVIOUS
<1>1. PICK i \in Bad : \A x \in Bad : i <= x
  <2>1. Bad \in SUBSET Nat
    OBVIOUS
  <2> HIDE DEF Bad
  <2> QED BY <2>1, LeastExists
<1>2. CASE i = 0
  BY <1>2 DEF IsPow
<1>3. CASE i # 0
  <2>1. i - 1 \in Nat /\ i - 1 \notin Bad /\ i \in 1..m /\ i \in 1..n
    BY <1>1, <1>3
  <2>2. g[i - 1] = h[i - 1]
    BY <2>1
  <2> QED BY <2>1, <2>2 DEF IsPow
<1> QED BY <1>2, <1>3

\* The recursive definition of Pow2 has the function it defines: 1, and twice the one before.
LEMMA PowFacts ==
    /\ Pow2[0] = 1
    /\ \A n \in Nat : Pow2[n] \in Nat /\ Pow2[n + 1] = 2 * Pow2[n]
<1> DEFINE Body(f) == [n \in Nat |-> IF n = 0 THEN 1 ELSE 2 * f[n - 1]]
           G(m) == CHOOSE g : IsPow(g, m)
           p == [n \in Nat |-> G(n)[n]]
<1>1. \A m \in Nat : IsPow(G(m), m)
  BY PowsExist
<1> HIDE DEF G
<1>2. p \in [Nat -> Nat] /\ p[0] = 1
  BY <1>1 DEF IsPow
<1>3. ASSUME NEW n \in Nat, n # 0 PROVE p[n] = 2 * p[n - 1]
  <2>1. n - 1 \in Nat /\ n \in 1..n /\ n - 1 <= n /\ n - 1 <= n - 1
    BY <1>3
  <2>2. G(n)[n] = 2 * G(n)[n - 1]
    BY <1>1, <2>1 DEF IsPow
  <2>3. G(n)[n - 1] = G(n - 1)[n - 1]
    BY <1>1, <2>1, PowsAgree
  <2> QED BY <2>1, <2>2, <2>3
<1>4. p = Body(p)
  <2>1. \A n \in Nat : p[n] = IF n = 0 THEN 1 ELSE 2 * p[n - 1]
    BY <1>2, <1>3
  <2>2. p = [n \in Nat |-> p[n]]
    OBVIOUS
  <2> HIDE DEF p
  <2> QED BY <2>1, <2>2
<1>5. Pow2 = CHOOSE f : f = Body(f)
  BY DEF Pow2
<1>6. Pow2 = Body(Pow2)
  <2> HIDE DEF p, Body
  <2> QED BY <1>4, <1>5
<1>7. \A n \in Nat : Pow2[n] = IF n = 0 THEN 1 ELSE 2 * Pow2[n - 1]
  <2> DEFINE q == Pow2
  <2>1. q = Body(q)
    BY <1>6
  <2> HIDE DEF q
  <2>2. \A n \in Nat : q[n] = IF n = 0 THEN 1 ELSE 2 * q[n - 1]
    BY <2>1
  <2> QED BY <2>2 DEF q
<1>8. \A n \in Nat : Pow2[n] \in Nat
  <2> DEFINE q == Pow2
  <2>1. \A n \in Nat : q[n] = IF n = 0 THEN 1 ELSE 2 * q[n - 1]
    BY <1>7
  <2> HIDE DEF q
  <2> DEFINE Bad == {n \in Nat : q[n] \notin Nat}
  <2>2. ASSUME Bad # {} PROVE FALSE
    <3>1. PICK n \in Bad : \A x \in Bad : n <= x
      <4>1. Bad \in SUBSET Nat
        OBVIOUS
      <4> HIDE DEF Bad
      <4> QED BY <2>2, <4>1, LeastExists
    <3>2. n # 0
      BY <2>1
    <3>3. n - 1 \in Nat /\ n - 1 \notin Bad
      BY <3>1, <3>2
    <3>4. q[n] = 2 * q[n - 1] /\ q[n - 1] \in Nat
      BY <2>1, <3>2, <3>3
    <3> QED BY <3>4
  <2> QED BY <2>2 DEF q
<1> QED
  <2> DEFINE q == Pow2
  <2>1. \A n \in Nat : q[n] = IF n = 0 THEN 1 ELSE 2 * q[n - 1]
    BY <1>7
  <2>2. \A n \in Nat : q[n] \in Nat
    BY <1>8
  <2> HIDE DEF q
  <2>3. q[0] = 1 /\ \A n \in Nat : q[n + 1] = 2 * q[n]
    BY <2>1
  <2> QED BY <2>2, <2>3 DEF q

\* A number has one quotient and one remainder.
LEMMA Euclid ==
    ASSUME NEW B \in Nat, NEW a \in Int, NEW c \in Int, NEW r \in Int, NEW s \in Int,
           0 <= r, r < B, 0 <= s, s < B, a * B + r = c * B + s
    PROVE  a = c /\ r = s
<1>1. ASSUME NEW x \in Int, NEW y \in Int, NEW p \in Int, NEW q \in Int,
             p < B, 0 <= q, x < y
      PROVE  x * B + p < y * B + q
  <2>1. y - x >= 1
    BY <1>1
  <2>2. (y - x) * B >= B
    BY <2>1
  <2>3. y * B = x * B + (y - x) * B
    OBVIOUS
  <2> QED BY <1>1, <2>2, <2>3
<1>2. ~(a < c) /\ ~(c < a)
  BY <1>1
<1>3. a = c
  BY <1>2
<1> QED BY <1>3

\* The quotient of a multiple and a remainder is the factor.
LEMMA DivIs ==
    ASSUME NEW B \in Nat, B > 0, NEW a \in Int, NEW r \in Int, 0 <= r, r < B
    PROVE  (a * B + r) \div B = a
OBVIOUS

\* The remainder of a multiple and a remainder is the remainder.
LEMMA ModIs ==
    ASSUME NEW B \in Nat, B > 0, NEW a \in Int, NEW r \in Int, 0 <= r, r < B
    PROVE  (a * B + r) % B = r
OBVIOUS

\* Quotient and remainder are naturals that give the number back.
LEMMA DivMod ==
    ASSUME NEW B \in Nat, B > 0, NEW z \in Nat, NEW q, NEW r, q = z \div B, r = z % B
    PROVE  q \in Nat /\ r \in Nat /\ r < B /\ z = q * B + r
<1>1. q \in Int /\ q * B <= z /\ z < q * B + B /\ q >= 0
  OBVIOUS
<1> DEFINE s == z - q * B
<1>2. s \in Int /\ 0 <= s /\ s < B /\ q * B + s = z
  BY <1>1
<1> HIDE DEF s
<1>3. (q * B + s) % B = s
  BY <1>1, <1>2, ModIs
<1>4. r = s
  BY <1>2, <1>3, Zenon
<1> QED BY <1>1, <1>2, <1>4

\* A digit below the base, followed by a number below the power, stays below their product.
LEMMA Small ==
    ASSUME NEW x \in Nat, NEW B \in Nat, NEW P \in Nat, NEW r \in Nat, x < B, r < P
    PROVE  x * P + r < B * P
<1>1. B - x >= 1 
  OBVIOUS
<1>2. (B - x) * P >= P
  BY <1>1
<1>3. B * P = x * P + (B - x) * P
  OBVIOUS
<1> QED BY <1>2, <1>3

\* A product distributed over the digits of a number.
LEMMA Regroup ==
    ASSUME NEW z \in Int, NEW u \in Int, NEW t \in Int, NEW x \in Int, NEW B \in Int, NEW P \in Int, NEW r \in Int,
           z = u * P + r, u = t * B + x
    PROVE  z = t * (B * P) + (x * P + r)
OBVIOUS

\* A power of two is a positive natural.
LEMMA PowPositive == \A n \in Nat : Pow2[n] \in Nat /\ Pow2[n] >= 1
<1> DEFINE q == Pow2
<1>1. q[0] = 1 /\ \A n \in Nat : q[n] \in Nat /\ q[n + 1] = 2 * q[n]
  BY PowFacts
<1> HIDE DEF q
<1> DEFINE Bad == {n \in Nat : ~(q[n] >= 1)}
<1>2. ASSUME Bad # {} PROVE FALSE
  <2>1. PICK n \in Bad : \A x \in Bad : n <= x
    <3>1. Bad \in SUBSET Nat
      OBVIOUS
    <3> HIDE DEF Bad
    <3> QED BY <1>2, <3>1, LeastExists
  <2>2. n # 0
    BY <1>1
  <2>3. n - 1 \in Nat /\ n - 1 \notin Bad
    BY <2>1, <2>2
  <2>4. q[(n - 1) + 1] = 2 * q[n - 1] /\ q[n - 1] >= 1 /\ q[n - 1] \in Nat
    BY <1>1, <2>3
  <2>5. (n - 1) + 1 = n
    OBVIOUS
  <2> QED BY <2>4, <2>5
<1> QED BY <1>1, <1>2 DEF q

\* The power of a sum is the product of the powers.
LEMMA PowAdd == \A a, b \in Nat : Pow2[a + b] = Pow2[a] * Pow2[b]
<1> DEFINE q == Pow2
<1>1. q[0] = 1 /\ \A n \in Nat : q[n] \in Nat /\ q[n + 1] = 2 * q[n]
  BY PowFacts
<1> HIDE DEF q
<1> SUFFICES ASSUME NEW a \in Nat PROVE \A b \in Nat : q[a + b] = q[a] * q[b]
  BY DEF q
<1> DEFINE Bad == {b \in Nat : q[a + b] # q[a] * q[b]}
<1>2. ASSUME Bad # {} PROVE FALSE
  <2>1. PICK b \in Bad : \A x \in Bad : b <= x
    <3>1. Bad \in SUBSET Nat
      OBVIOUS
    <3> HIDE DEF Bad
    <3> QED BY <1>2, <3>1, LeastExists
  <2>2. b # 0
    BY <1>1
  <2>3. b - 1 \in Nat /\ b - 1 \notin Bad
    BY <2>1, <2>2
  <2>4. q[(b - 1) + 1] = 2 * q[b - 1] /\ q[(a + (b - 1)) + 1] = 2 * q[a + (b - 1)]
    BY <1>1, <2>3
  <2>5. (b - 1) + 1 = b /\ (a + (b - 1)) + 1 = a + b
    OBVIOUS
  <2>6. q[a + (b - 1)] = q[a] * q[b - 1]
    BY <2>3
  <2>7. q[a] \in Nat /\ q[b - 1] \in Nat
    BY <1>1, <2>3
  <2>8. q[a + b] = 2 * (q[a] * q[b - 1]) /\ q[b] = 2 * q[b - 1]
    BY <2>4, <2>5, <2>6
  <2>9. q[a + b] = q[a] * q[b]
    BY <2>7, <2>8
  <2> QED BY <2>9
<1> QED BY <1>2

\* The widths of addresses, groups and bytes.
LEMMA WidthFacts ==
    /\ ByteBits \in Nat /\ ByteBits > 0 /\ GroupCount \in Nat /\ GroupCount > 0
    /\ Bits4 \in Nat /\ Bits4 > 0 /\ Pow2[ByteBits] \in Nat /\ Pow2[ByteBits] >= 1
<1>1. /\ ByteBits \in Nat /\ ByteBits > 0 /\ GroupCount \in Nat /\ GroupCount > 0
      /\ OctetCount \in Nat /\ OctetCount > 0
  BY AccessAssumption
<1>2. Bits4 \in Nat /\ Bits4 > 0
  BY <1>1 DEF Bits4
<1> QED BY <1>1, <1>2, PowPositive

\* u counts in the digits x.
Counts(u, x, n) ==
    /\ n \in Nat
    /\ x \in [1..n -> Nat] /\ \A i \in 1..n : x[i] < Pow2[ByteBits]
    /\ u \in [0..n -> Nat] /\ u[0] = 0
    /\ \A i \in 1..n : u[i] = u[i - 1] * Pow2[ByteBits] + x[i]

\* Two counts have reached the same number iff their digits so far are the same.
LEMMA SameDigits ==
    ASSUME NEW n, NEW u, NEW x, NEW v, NEW y, Counts(u, x, n), Counts(v, y, n)
    PROVE  \A i \in 0..n : u[i] = v[i] <=> \A j \in 1..i : x[j] = y[j]
<1> DEFINE Bad == {i \in 0..n : ~(u[i] = v[i] <=> \A j \in 1..i : x[j] = y[j])}
<1>0. n \in Nat
  BY DEF Counts
<1> SUFFICES ASSUME Bad # {} PROVE FALSE
  OBVIOUS
<1>1. PICK i \in Bad : \A k \in Bad : i <= k
  <2>1. Bad \in SUBSET Nat
    BY <1>0
  <2> HIDE DEF Bad
  <2> QED BY <2>1, LeastExists
<1>2. CASE i = 0
  <2>1. u[i] = v[i]
    BY <1>2 DEF Counts
  <2>2. \A j \in 1..i : FALSE
    BY <1>2
  <2> QED BY <2>1, <2>2
<1>3. CASE i # 0
  <2>1. i \in Nat /\ i - 1 \in 0..n /\ i - 1 \notin Bad /\ i \in 1..n
    BY <1>0, <1>1, <1>3
  <2>2. u[i - 1] = v[i - 1] <=> \A j \in 1..(i - 1) : x[j] = y[j]
    BY <2>1
  <2> DEFINE B == Pow2[ByteBits]
  <2>3. /\ u[i] = u[i - 1] * B + x[i] /\ v[i] = v[i - 1] * B + y[i] /\ B \in Nat
        /\ u[i - 1] \in Nat /\ v[i - 1] \in Nat
        /\ x[i] \in Nat /\ y[i] \in Nat /\ x[i] < B /\ y[i] < B
    BY <2>1, WidthFacts DEF Counts
  <2> HIDE DEF B
  <2>4. u[i] = v[i] <=> u[i - 1] = v[i - 1] /\ x[i] = y[i]
    <3> DEFINE a == u[i - 1]
               c == v[i - 1]
               r == x[i]
               s == y[i]
    <3>1. a \in Int /\ c \in Int /\ r \in Int /\ s \in Int /\ 0 <= r /\ r < B /\ 0 <= s /\ s < B
      BY <2>3
    <3> HIDE DEF a, c, r, s
    <3>2. a * B + r = c * B + s => a = c /\ r = s
      BY <2>3, <3>1, Euclid
    <3> QED BY <2>3, <3>2 DEF a, c, r, s
  <2>5. (\A j \in 1..i : x[j] = y[j]) <=> (\A j \in 1..(i - 1) : x[j] = y[j]) /\ x[i] = y[i]
    <3>1. i \in 1..i /\ \A j \in 1..i : j = i \/ j \in 1..(i - 1)
      BY <2>1
    <3>2. \A j \in 1..(i - 1) : j \in 1..i
      BY <2>1
    <3> QED BY <3>1, <3>2
  <2> QED BY <2>2, <2>4, <2>5
<1> QED BY <1>2, <1>3

\* Without its k low digits a count is what is left after the remainder of their bits.
LEMMA LeadingDigits ==
    ASSUME NEW n, NEW u, NEW x, Counts(u, x, n)
    PROVE  \A k \in 0..n : \E r \in Nat :
             r < Pow2[ByteBits * k] /\ u[n] = u[n - k] * Pow2[ByteBits * k] + r
<1> DEFINE Good(k) == \E r \in Nat : r < Pow2[ByteBits * k] /\ u[n] = u[n - k] * Pow2[ByteBits * k] + r
           Bad == {k \in 0..n : ~Good(k)}
<1>0. n \in Nat
  BY DEF Counts
<1> SUFFICES ASSUME Bad # {} PROVE FALSE
  OBVIOUS
<1>1. PICK k \in Bad : \A m \in Bad : k <= m
  <2>1. Bad \in SUBSET Nat
    BY <1>0
  <2> HIDE DEF Bad
  <2> QED BY <2>1, LeastExists
<1>2. CASE k = 0
  <2>1. Pow2[0] = 1 /\ ByteBits * 0 = 0 /\ n - 0 = n
    BY <1>0, WidthFacts, PowFacts
  <2>2. u[n] \in Nat
    BY <1>0 DEF Counts
  <2>3. 0 < Pow2[ByteBits * 0] /\ u[n] = u[n - 0] * Pow2[ByteBits * 0] + 0
    BY <2>1, <2>2
  <2> QED BY <1>2, <2>3
<1>3. CASE k # 0
  <2> DEFINE m == k - 1
  <2>1. m \in 0..n /\ m \notin Bad /\ m \in Nat /\ n - m \in 1..n /\ (n - m) - 1 = n - k
    BY <1>0, <1>1, <1>3
  <2>2. Good(m)
    BY <2>1
  <2>3. PICK r \in Nat : r < Pow2[ByteBits * m] /\ u[n] = u[n - m] * Pow2[ByteBits * m] + r
    BY <2>2
  <2> DEFINE P == Pow2[ByteBits * m]
             B == Pow2[ByteBits]
             d == x[n - m]
             a == u[n - k]
             b == u[n - m]
  <2>4. ByteBits * m \in Nat /\ P \in Nat /\ B \in Nat
    BY <2>1, WidthFacts, PowPositive
  <2>5. d \in Nat /\ d < B /\ a \in Nat /\ b = a * B + d /\ u[n] \in Nat /\ b \in Nat
    <3>1. n - m \in 0..n /\ n - k \in 0..n
      BY <1>0, <2>1
    <3> HIDE DEF m
    <3> QED BY <1>0, <2>1, <3>1 DEF Counts
  <2>6. Pow2[ByteBits * k] = B * P
    <3>1. ByteBits * k = ByteBits + ByteBits * m
      BY <1>0, <2>1, WidthFacts
    <3> HIDE DEF m
    <3> QED BY WidthFacts, <2>4, <3>1, PowAdd
  <2> DEFINE z == u[n]
  <2>7. z = b * P + r /\ r < P
    BY <2>3
  <2> HIDE DEF P, B, d, a, b, z
  <2>8. z = a * (B * P) + (d * P + r) /\ d * P + r < B * P /\ d * P + r \in Nat
    BY <2>4, <2>5, <2>7, Regroup, Small DEF z
  <2>9. Good(k)
    BY <2>6, <2>8 DEF z, a
  <2> QED BY <2>9
<1> QED BY <1>2, <1>3

\* A prefix of bits is whole bytes and some bits of the next.
LEMMA SplitBits ==
    ASSUME NEW w \in Nat, w > 0, NEW bits \in Nat
    PROVE  \E full, rem \in Nat :
             full = bits \div w /\ rem = bits % w /\ rem < w /\ bits = full * w + rem
<1> DEFINE full == bits \div w
           rem == bits % w
<1>1. full = bits \div w /\ rem = bits % w
  OBVIOUS
<1> HIDE DEF full, rem
<1>2. full \in Nat /\ rem \in Nat /\ rem < w /\ bits = full * w + rem
  BY <1>1, DivMod
<1> QED BY <1>1, <1>2

\* The leading bits of a number are its leading digits and the leading bits of the next digit.
LEMMA LeadingBits ==
    ASSUME NEW n, NEW u, NEW x, Counts(u, x, n),
           NEW bits \in Nat, bits <= ByteBits * n, NEW full \in Nat, NEW rem \in Nat, rem < ByteBits,
           bits = full * ByteBits + rem
    PROVE  /\ full \in 0..n /\ rem \in 0..(ByteBits - 1)
           /\ rem = 0 => u[n] \div Pow2[ByteBits * n - bits] = u[full]
           /\ rem # 0 =>
                /\ full + 1 \in 1..n
                /\ High(x[full + 1], ByteBits - rem) \in Nat
                /\ High(x[full + 1], ByteBits - rem) < Pow2[rem]
                /\ u[n] \div Pow2[ByteBits * n - bits] = u[full] * Pow2[rem] + High(x[full + 1], ByteBits - rem)
<1>1. n \in Nat /\ ByteBits \in Nat /\ ByteBits > 0
  BY WidthFacts DEF Counts
<1>2. full \in Nat /\ rem \in Nat /\ rem < ByteBits /\ bits = full * ByteBits + rem
  OBVIOUS
<1>3. full <= n
  <2>1. ASSUME full >= n + 1 PROVE FALSE
    <3>1. (full - n - 1) * ByteBits >= 0
      BY <1>1, <1>2, <2>1
    <3>2. full * ByteBits >= ByteBits * n + ByteBits
      BY <1>1, <1>2, <3>1
    <3> QED BY <1>1, <1>2, <3>2
  <2> QED BY <1>1, <1>2, <2>1
<1>4. ASSUME rem = 0 PROVE u[n] \div Pow2[ByteBits * n - bits] = u[full]
  <2> DEFINE k == n - full
             P == Pow2[ByteBits * k]
             a == u[full]
             z == u[n]
  <2>1. k \in 0..n /\ n - k = full /\ ByteBits * k \in Nat /\ ByteBits * n - bits = ByteBits * k
    BY <1>1, <1>2, <1>3, <1>4
  <2>2. PICK r \in Nat : r < Pow2[ByteBits * k] /\ u[n] = u[n - k] * Pow2[ByteBits * k] + r
    <3>1. \A i \in 0..n : \E r \in Nat : r < Pow2[ByteBits * i] /\ u[n] = u[n - i] * Pow2[ByteBits * i] + r
      BY LeadingDigits
    <3> HIDE DEF k
    <3> QED BY <2>1, <3>1
  <2>3. P \in Nat /\ P >= 1 /\ a \in Nat
    <3>1. a \in Nat
      <4>1. full \in 0..n
        BY <1>1, <1>2, <1>3
      <4> QED BY <4>1 DEF Counts
    <3> QED BY <2>1, <3>1, PowPositive
  <2>4. z = a * P + r /\ r < P
    BY <2>1, <2>2
  <2> HIDE DEF P, a, z
  <2>5. z \div P = a
    BY <2>3, <2>4, DivIs
  <2> QED BY <2>1, <2>5 DEF z, P, a
<1>5. ASSUME rem # 0
      PROVE  /\ full + 1 \in 1..n
             /\ High(x[full + 1], ByteBits - rem) \in Nat
             /\ High(x[full + 1], ByteBits - rem) < Pow2[rem]
             /\ u[n] \div Pow2[ByteBits * n - bits] = u[full] * Pow2[rem] + High(x[full + 1], ByteBits - rem)
  <2> DEFINE low == ByteBits - rem
             k == n - full - 1
             P == Pow2[ByteBits * k]
             L == Pow2[low]
             R == Pow2[rem]
             a == u[full]
             b == u[full + 1]
             d == x[full + 1]
             h == High(d, low)
             z == u[n]
  <2>1. full < n
    <3>1. ASSUME full = n PROVE FALSE
      BY <1>1, <1>2, <1>5, <3>1
    <3> QED BY <1>1, <1>2, <1>3, <3>1
  <2>2. full + 1 \in 1..n /\ (full + 1) - 1 = full /\ k \in 0..n /\ n - k = full + 1 /\ low \in Nat /\ ByteBits * k \in Nat
    BY <1>1, <1>2, <2>1
  <2>3. ByteBits * n - bits = low + ByteBits * k /\ ByteBits = rem + low
    BY <1>1, <1>2
  <2>4. PICK r \in Nat : r < Pow2[ByteBits * k] /\ u[n] = u[n - k] * Pow2[ByteBits * k] + r
    <3>1. \A i \in 0..n : \E r \in Nat : r < Pow2[ByteBits * i] /\ u[n] = u[n - i] * Pow2[ByteBits * i] + r
      BY LeadingDigits
    <3> HIDE DEF k
    <3> QED BY <2>2, <3>1
  <2>5. /\ P \in Nat /\ P >= 1 /\ L \in Nat /\ L >= 1 /\ R \in Nat /\ R >= 1
        /\ Pow2[ByteBits * n - bits] = L * P /\ Pow2[ByteBits] = R * L
    <3> HIDE DEF low, k
    <3> QED BY <1>1, <1>2, <2>2, <2>3, PowPositive, PowAdd
  <2>6. a \in Nat /\ b \in Nat /\ d \in Nat /\ d < Pow2[ByteBits] /\ b = a * Pow2[ByteBits] + d /\ z \in Nat
    <3>1. full \in 0..n /\ full + 1 \in 0..n /\ n \in 0..n
      BY <1>1, <1>2, <2>1
    <3>2. u[full + 1] = u[(full + 1) - 1] * Pow2[ByteBits] + x[full + 1]
      BY <2>2 DEF Counts
    <3> QED BY <2>2, <3>1, <3>2 DEF Counts
  <2>7. z = b * P + r /\ r < P
    BY <2>2, <2>4
  <2> HIDE DEF P, L, R, a, b, z, k, low
  <2>8. PICK l \in Nat : h \in Nat /\ l < L /\ d = h * L + l
    <3>1. h = d \div L
      BY DEF High, L
    <3>2. L > 0
      BY <2>5
    <3> HIDE DEF h, d
    <3> QED BY <2>5, <2>6, <3>1, <3>2, SplitBits
  <2> HIDE DEF d, h
  <2>9. h < R
    <3>1. ASSUME h >= R PROVE FALSE
      <4>1. (h - R) * L >= 0
        BY <2>5, <2>8, <3>1
      <4>2. h * L >= R * L
        BY <2>5, <2>8, <4>1
      <4> QED BY <2>5, <2>6, <2>8, <4>2
    <3> QED BY <2>5, <2>8, <3>1
  <2> DEFINE c == a * R + h
             s == l * P + r
  <2>10. b = c * L + l
    BY <2>5, <2>6, <2>8
  <2>11. c \in Nat /\ s \in Nat /\ s < L * P /\ L * P \in Nat /\ L * P >= 1
    <3>1. l * P + r < L * P
      BY <2>5, <2>7, <2>8, Small
    <3>2. l * P \in Nat /\ a * R \in Nat /\ L * P \in Nat
      BY <2>5, <2>6, <2>8
    <3> QED BY <2>8, <3>1, <3>2
  <2> HIDE DEF c
  <2>12. z = c * (L * P) + s
    BY <2>5, <2>6, <2>7, <2>8, <2>10, <2>11, Regroup
  <2> HIDE DEF s
  <2> DEFINE M == L * P
  <2>13. z \div M = c
    <3>1. M \in Nat /\ M > 0 /\ s < M /\ z = c * M + s
      BY <2>11, <2>12
    <3> HIDE DEF M
    <3> QED BY <2>11, <3>1, DivIs
  <2> QED BY <2>2, <2>5, <2>8, <2>9, <2>13 DEF z, c, a, h, d, low, R
<1> QED BY <1>1, <1>2, <1>3, <1>4, <1>5

\* Two numbers have the same leading bits iff their leading digits are the same, and
\* the leading bits of the next ones.
LEMMA SameLeadingBits ==
    ASSUME NEW n, NEW u, NEW x, NEW v, NEW y,
           Counts(u, x, n), Counts(v, y, n),
           NEW bits \in Nat, bits <= ByteBits * n, NEW full \in Nat, NEW rem \in Nat, rem < ByteBits,
           bits = full * ByteBits + rem
    PROVE  u[n] \div Pow2[ByteBits * n - bits] = v[n] \div Pow2[ByteBits * n - bits] <=>
             /\ \A i \in 1..full : x[i] = y[i]
             /\ rem # 0 => High(x[full + 1], ByteBits - rem) = High(y[full + 1], ByteBits - rem)
<1> DEFINE p == u[n] \div Pow2[ByteBits * n - bits]
           q == v[n] \div Pow2[ByteBits * n - bits]
           g == High(x[full + 1], ByteBits - rem)
           h == High(y[full + 1], ByteBits - rem)
<1>1. /\ full \in 0..n /\ rem \in 0..(ByteBits - 1)
      /\ rem = 0 => p = u[full]
      /\ rem # 0 => g \in Nat /\ g < Pow2[rem] /\ p = u[full] * Pow2[rem] + g
  BY LeadingBits
<1>2. /\ rem = 0 => q = v[full]
      /\ rem # 0 => h \in Nat /\ h < Pow2[rem] /\ q = v[full] * Pow2[rem] + h
  BY LeadingBits
<1> HIDE DEF p, q, g, h
<1>3. u[full] = v[full] <=> \A i \in 1..full : x[i] = y[i]
  BY <1>1, SameDigits
<1>4. p = q <=> u[full] = v[full] /\ (rem # 0 => g = h)
  <2>1. CASE rem = 0
    BY <1>1, <1>2, <2>1
  <2>2. CASE rem # 0
    <3> DEFINE a == u[full]
               c == v[full]
               R == Pow2[rem]
    <3>1. a \in Int /\ c \in Int
      BY <1>1 DEF Counts
    <3>2. R \in Nat
      BY <1>1, PowPositive
    <3>3. p = a * R + g /\ q = c * R + h /\ g \in Int /\ h \in Int /\ 0 <= g /\ 0 <= h /\ g < R /\ h < R
      BY <1>1, <1>2, <2>2
    <3> HIDE DEF a, c, R
    <3>4. a * R + g = c * R + h => a = c /\ g = h
      BY <3>1, <3>2, <3>3, Euclid
    <3>5. p = q <=> a = c /\ g = h
      BY <3>3, <3>4
    <3> QED BY <2>2, <3>5 DEF a, c
  <2> QED BY <2>1, <2>2
<1> QED BY <1>3, <1>4 DEF p, q, g, h


\* Every sequence of digits has its count: a least length without one would extend the one before.
LEMMA CountsExist ==
    ASSUME NEW n \in Nat, NEW x \in [1..n -> Nat], \A i \in 1..n : x[i] < Pow2[ByteBits]
    PROVE  \E u : Counts(u, x, n)
<1> DEFINE B == Pow2[ByteBits]
           Upto(u, m) == /\ u \in [0..m -> Nat] /\ u[0] = 0
                         /\ \A i \in 1..m : u[i] = u[i - 1] * B + x[i]
           Bad == {m \in 0..n : ~ \E u : Upto(u, m)}
<1>1. B \in Nat
  BY WidthFacts
<1> HIDE DEF B, Upto
<1>2. Bad = {}
  <2> SUFFICES ASSUME Bad # {} PROVE FALSE
    OBVIOUS
  <2>1. PICK m \in Bad : \A k \in Bad : m <= k
    <3>1. Bad \in SUBSET Nat
      OBVIOUS
    <3> HIDE DEF Bad
    <3> QED BY <3>1, LeastExists
  <2>2. CASE m = 0
    <3> DEFINE u == [i \in 0..0 |-> 0]
    <3>1. u \in [0..0 -> Nat] /\ u[0] = 0 /\ \A i \in 1..0 : FALSE
      OBVIOUS
    <3>2. Upto(u, 0)
      <4> HIDE DEF u
      <4> QED BY <3>1 DEF Upto
    <3> QED BY <2>2, <3>2
  <2>3. CASE m # 0
    <3>1. m \in 1..n /\ m - 1 \in 0..n /\ m - 1 \notin Bad
      BY <2>1, <2>3
    <3>2. PICK v : Upto(v, m - 1)
      BY <3>1
    <3> DEFINE a == v[m - 1]
               d == x[m]
               e == a * B + d
               u == [i \in 0..m |-> IF i = m THEN e ELSE v[i]]
    <3>3. a \in Nat /\ d \in Nat /\ a = v[m - 1] /\ d = x[m]
      <4>1. m - 1 \in 0..(m - 1)
        BY <3>1
      <4> QED BY <3>1, <3>2, <4>1 DEF Upto
    <3> HIDE DEF a, d
    <3>4. a * B \in Nat
      BY <1>1, <3>3
    <3>5. e \in Nat /\ e = v[m - 1] * B + x[m]
      BY <3>3, <3>4
    <3> HIDE DEF e
    <3>6. u \in [0..m -> Nat] /\ u[0] = 0
      BY <3>1, <3>2, <3>5 DEF Upto
    <3>7. ASSUME NEW i \in 1..m PROVE u[i] = u[i - 1] * B + x[i]
      <4>1. CASE i = m
        <5>1. u[m] = e /\ u[m - 1] = v[m - 1]
          BY <3>1
        <5> QED BY <3>5, <4>1, <5>1
      <4>2. CASE i # m
        <5>1. i \in 1..(m - 1) /\ u[i] = v[i] /\ u[i - 1] = v[i - 1]
          BY <3>1, <4>2
        <5>2. v[i] = v[i - 1] * B + x[i]
          BY <3>2, <5>1 DEF Upto
        <5> QED BY <5>1, <5>2
      <4> QED BY <4>1, <4>2
    <3>8. Upto(u, m)
      <4> HIDE DEF u
      <4> QED BY <3>6, <3>7 DEF Upto
    <3> QED BY <3>8
  <2> QED BY <2>2, <2>3
<1>3. n \in 0..n
  OBVIOUS
<1>4. PICK u : Upto(u, n)
  BY <1>2, <1>3
<1> QED BY <1>4 DEF Counts, Upto, B

\* The value of the bytes of an address is the last of its count.
LEMMA ValueFacts ==
    ASSUME NEW n \in Nat, NEW x \in [1..n -> Nat], \A i \in 1..n : x[i] < Pow2[ByteBits]
    PROVE  \E u : Counts(u, x, n) /\ BytesValue(x) = u[n]
<1> DEFINE B == Pow2[ByteBits]
           Body(f) == [i \in 0..n |-> IF i = 0 THEN 0 ELSE f[i - 1] * B + x[i]]
           g == CHOOSE f : f = Body(f)
<1>1. PICK v : Counts(v, x, n)
  BY CountsExist
<1>2. v = Body(v)
  <2>1. /\ v \in [0..n -> Nat] /\ v[0] = 0
        /\ \A i \in 1..n : v[i] = v[i - 1] * B + x[i]
    BY <1>1 DEF Counts
  <2> HIDE DEF B
  <2>2. \A i \in 0..n : v[i] = IF i = 0 THEN 0 ELSE v[i - 1] * B + x[i]
    BY <2>1
  <2>3. v = [i \in 0..n |-> v[i]]
    BY <2>1
  <2> QED BY <2>2, <2>3
<1>3. g = Body(g)
  <2> HIDE DEF Body
  <2> QED BY <1>2
<1>4. Len(x) = n
  OBVIOUS
<1>5. BytesValue(x) = g[n]
  <2>1. BytesValue(x) = (CHOOSE f : f = [i \in 0..Len(x) |-> IF i = 0 THEN 0 ELSE f[i - 1] * B + x[i]])[Len(x)]
    BY DEF BytesValue
  <2> HIDE DEF B
  <2> QED BY <1>4, <2>1
<1> HIDE DEF g
<1>6. DOMAIN g = 0..n /\ \A i \in 0..n : g[i] = IF i = 0 THEN 0 ELSE g[i - 1] * B + x[i]
  <2> HIDE DEF B
  <2>1. g = [i \in 0..n |-> IF i = 0 THEN 0 ELSE g[i - 1] * B + x[i]]
    BY <1>3
  <2> DEFINE E(i) == IF i = 0 THEN 0 ELSE g[i - 1] * B + x[i]
  <2>2. g = [i \in 0..n |-> E(i)]
    BY <2>1
  <2> HIDE DEF E
  <2>3. DOMAIN g = 0..n /\ \A i \in 0..n : g[i] = E(i)
    BY <2>2
  <2> QED BY <2>3 DEF E
\* The recursion has one solution.
<1> DEFINE Bad == {i \in 0..n : g[i] # v[i]}
<1>7. ASSUME Bad # {} PROVE FALSE
  <2>1. PICK i \in Bad : \A k \in Bad : i <= k
    <3>1. Bad \in SUBSET Nat
      OBVIOUS
    <3> HIDE DEF Bad
    <3> QED BY <1>7, <3>1, LeastExists
  <2>2. CASE i = 0
    BY <1>1, <1>6, <2>2 DEF Counts
  <2>3. CASE i # 0
    <3>1. i \in 1..n /\ i - 1 \in 0..n /\ i - 1 \notin Bad
      BY <2>1, <2>3
    <3>2. g[i - 1] = v[i - 1]
      BY <3>1
    <3>3. g[i] = g[i - 1] * B + x[i] /\ v[i] = v[i - 1] * B + x[i]
      BY <1>1, <1>6, <2>3, <3>1 DEF Counts
    <3> QED BY <3>2, <3>3
  <2> QED BY <2>2, <2>3
<1>8. n \in 0..n
  OBVIOUS
<1>9. g[n] = v[n]
  BY <1>7, <1>8
<1> QED BY <1>1, <1>5, <1>9


\* The groups of a text are a sequence.
LEMMA GroupSeqFacts ==
    ASSUME NEW q \in GroupSeqs(GroupCount)
    PROVE  q \in Seq(GroupValue)
<1>1. PICK k \in 0..GroupCount : q \in [1..k -> GroupValue]
  BY DEF GroupSeqs
<1>2. k \in Nat
  BY <1>1, WidthFacts
<1> QED BY <1>1, <1>2

\* ipv6ToBytes expands a text that parses to exactly the groups of an address, :: filled with zeroes.
LEMMA GroupsFacts ==
    ASSUME NEW t \in V6Text, Parses(t)
    PROVE  /\ Ipv6ToGroups(t) \in Seq(0..(Pow2[2 * ByteBits] - 1))
           /\ Len(Ipv6ToGroups(t)) = GroupCount
<1> DEFINE G == 0..(Pow2[2 * ByteBits] - 1)
           h == t.head
           l == t.tail
<1>1. h \in Seq(GroupValue) /\ l \in Seq(GroupValue) /\ (~t.gap => l = <<>>) /\ t.gap \in BOOLEAN
  <2>1. CASE t \in [v : {6}, head : GroupSeqs(GroupCount), gap : {FALSE}, tail : {<<>>}]
    <3>1. h \in GroupSeqs(GroupCount) /\ t.gap = FALSE /\ l = <<>>
      BY <2>1
    <3>2. <<>> \in Seq(GroupValue)
      OBVIOUS
    <3> QED BY <3>1, <3>2, GroupSeqFacts
  <2>2. CASE t \in [v : {6}, head : GroupSeqs(GroupCount), gap : {TRUE}, tail : GroupSeqs(GroupCount)]
    <3>1. h \in GroupSeqs(GroupCount) /\ t.gap = TRUE /\ l \in GroupSeqs(GroupCount)
      BY <2>2
    <3> QED BY <3>1, GroupSeqFacts
  <2> QED BY <2>1, <2>2 DEF V6Text
<1>2. GroupValue \subseteq G /\ 0 \in G
  <2>1. 2 * ByteBits \in Nat
    BY WidthFacts
  <2>2. Pow2[2 * ByteBits] \in Nat /\ Pow2[2 * ByteBits] >= 1
    BY <2>1, PowPositive
  <2>3. GroupValue \subseteq 0 .. Pow2[2 * ByteBits] - 1
    BY AccessAssumption
  <2> QED BY <2>2, <2>3
<1> HIDE DEF G
<1>3. h \in Seq(G) /\ l \in Seq(G)
  <2> HIDE DEF h, l
  <2> QED BY <1>1, <1>2
<1>4. Len(Explicit(t)) = Len(h) + Len(l) /\ Len(h) \in Nat /\ Len(l) \in Nat
  <2>1. Explicit(t) = h \o l
    BY DEF Explicit
  <2> HIDE DEF h, l
  <2> QED BY <1>3, <2>1
<1>5. CASE t.gap
  <2> DEFINE m == GroupCount - Len(Explicit(t))
             z == [i \in 1..m |-> 0]
  <2>1. m \in Nat /\ GroupCount = Len(h) + m + Len(l)
    <3>1. Len(Explicit(t)) < GroupCount
      BY <1>5 DEF Parses
    <3> DEFINE e == Len(Explicit(t))
               a == Len(h)
               b == Len(l)
    <3>2. e = a + b /\ a \in Nat /\ b \in Nat /\ e < GroupCount
      BY <1>4, <3>1
    <3> HIDE DEF e, a, b
    <3>3. GroupCount - e \in Nat /\ GroupCount = a + (GroupCount - e) + b
      BY <3>2, WidthFacts
    <3> QED BY <3>3 DEF e, a, b
  <2>2. z \in Seq(G) /\ Len(z) = m
    <3> HIDE DEF m
    <3> QED BY <1>2, <2>1
  <2>3. Ipv6ToGroups(t) = h \o z \o l
    BY <1>5 DEF Ipv6ToGroups
  <2> HIDE DEF z, h, l, m
  <2>4. h \o z \in Seq(G) /\ Len(h \o z) = Len(h) + m
    BY <1>3, <2>2
  <2>5. h \o z \o l \in Seq(G) /\ Len(h \o z \o l) = Len(h) + m + Len(l)
    <3> DEFINE y == h \o z
    <3>1. y \in Seq(G) /\ Len(y) = Len(h) + m
      BY <2>4
    <3> HIDE DEF y
    <3>2. y \o l \in Seq(G) /\ Len(y \o l) = Len(y) + Len(l)
      BY <1>3, <3>1
    <3> QED BY <3>1, <3>2 DEF y
  <2> QED BY <2>1, <2>3, <2>5 DEF G
<1>6. CASE ~t.gap
  <2>1. Ipv6ToGroups(t) = h
    BY <1>6 DEF Ipv6ToGroups
  <2>2. Len(l) = 0
    BY <1>1, <1>6
  <2>3. Len(h) = GroupCount
    BY <1>4, <1>6, <2>2, WidthFacts DEF Parses
  <2> QED BY <1>3, <2>1, <2>3 DEF G
<1> QED BY <1>1, <1>5, <1>6

\* The bytes of a text that parses are as many as an address has, each of them below the base.
LEMMA BytesFacts ==
    ASSUME NEW t \in V6Text, Parses(t)
    PROVE  /\ Ipv6ToBytes(t) \in [1..(2 * GroupCount) -> Nat]
           /\ \A i \in 1..(2 * GroupCount) : Ipv6ToBytes(t)[i] < Pow2[ByteBits]
<1> DEFINE n == 2 * GroupCount
           B == Pow2[ByteBits]
           groups == Ipv6ToGroups(t)
           g(i) == groups[(i + 1) \div 2]
           byte(i) == IF i % 2 = 1 THEN g(i) \div B ELSE g(i) % B
<1>1. B \in Nat /\ B >= 1 /\ Pow2[2 * ByteBits] = B * B
  <2>1. 2 * ByteBits = ByteBits + ByteBits
    BY WidthFacts
  <2> QED BY <2>1, WidthFacts, PowAdd
<1>2. groups \in Seq(0..(Pow2[2 * ByteBits] - 1)) /\ Len(groups) = GroupCount
  BY GroupsFacts
<1>3. Ipv6ToBytes(t) = [i \in 1..n |-> byte(i)]
  BY DEF Ipv6ToBytes
<1> HIDE DEF B, groups
<1>4. ASSUME NEW i \in 1..n PROVE byte(i) \in Nat /\ byte(i) < B
  <2>1. (i + 1) \div 2 \in 1..GroupCount
    BY WidthFacts
  <2>2. g(i) \in Nat /\ g(i) < B * B
    <3> DEFINE j == (i + 1) \div 2
    <3>1. j \in 1..GroupCount
      BY <2>1
    <3> HIDE DEF j
    <3>2. groups[j] \in 0..(Pow2[2 * ByteBits] - 1)
      <4> DEFINE G == 0..(Pow2[2 * ByteBits] - 1)
      <4>1. groups \in Seq(G)
        BY <1>2
      <4> HIDE DEF G
      <4>2. groups[j] \in G
        BY <1>2, <3>1, <4>1
      <4> QED BY <4>2 DEF G
    <3>3. groups[j] \in Nat /\ groups[j] < B * B
      <4> DEFINE P == Pow2[2 * ByteBits]
                 M == B * B
                 y == groups[j]
      <4>1. P = M /\ M \in Nat /\ y \in 0..(P - 1)
        BY <1>1, <3>2
      <4> HIDE DEF P, M, y
      <4>2. y \in Nat /\ y < M
        BY <4>1
      <4> QED BY <4>2 DEF M, y
    <3> QED BY <3>3 DEF j
  <2> DEFINE x == g(i)
  <2>3. x \in Nat /\ x < B * B
    BY <2>2
  <2> HIDE DEF x
  <2>4. PICK q \in Nat, r \in Nat : q = x \div B /\ r = x % B /\ r < B /\ x = q * B + r
    BY <1>1, <2>3, SplitBits
  <2>5. q < B
    <3>1. ASSUME q >= B PROVE FALSE
      <4>1. (q - B) * B >= 0
        BY <1>1, <3>1
      <4>2. q * B >= B * B
        BY <1>1, <4>1
      <4> QED BY <1>1, <2>3, <2>4, <4>2
    <3> QED BY <1>1, <3>1
  <2>6. byte(i) = q \/ byte(i) = r
    BY <2>4 DEF x
  <2> HIDE DEF byte
  <2> QED BY <2>4, <2>5, <2>6
<1> HIDE DEF byte
<1> QED BY <1>3, <1>4 DEF B


\* The bits of an IPv6 address.
Width6 == 2 * ByteBits * GroupCount

\* ipv6InCidr, whole bytes and the masked byte after them, compares exactly the leading bits
\* of the two addresses as numbers, for every prefix length.
LEMMA Ipv6Exact ==
    ASSUME NEW ip \in V6Text, NEW range \in V6Text, Parses(ip), Parses(range),
           NEW bits \in 0..Width6
    PROVE  Ipv6InCidr(ip, range, bits) <=>
             Value(ip) \div Pow2[Width6 - bits] = Value(range) \div Pow2[Width6 - bits]
<1> DEFINE n == 2 * GroupCount
           x == Ipv6ToBytes(ip)
           y == Ipv6ToBytes(range)
<1>1. ip.v = 6 /\ range.v = 6
  BY DEF V6Text
<1>2. n \in Nat /\ Width6 = ByteBits * n /\ bits \in Nat /\ bits <= ByteBits * n
  BY WidthFacts DEF Width6
<1>3. /\ x \in [1..n -> Nat] /\ \A i \in 1..n : x[i] < Pow2[ByteBits]
      /\ y \in [1..n -> Nat] /\ \A i \in 1..n : y[i] < Pow2[ByteBits]
  BY BytesFacts
<1>4. Value(ip) = BytesValue(x) /\ Value(range) = BytesValue(y)
  BY <1>1 DEF Value
<1>5. PICK full \in Nat, rem \in Nat :
        full = bits \div ByteBits /\ rem = bits % ByteBits /\ rem < ByteBits
          /\ bits = full * ByteBits + rem
  BY <1>2, WidthFacts, SplitBits
<1>6. Ipv6InCidr(ip, range, bits) <=>
        /\ \A i \in 1..full : x[i] = y[i]
        /\ rem # 0 => High(x[full + 1], ByteBits - rem) = High(y[full + 1], ByteBits - rem)
  BY <1>1, <1>5, Zenon DEF Ipv6InCidr, Width6
<1> HIDE DEF n, x, y
<1>7. PICK u : Counts(u, x, n) /\ BytesValue(x) = u[n]
  BY <1>2, <1>3, ValueFacts
<1>8. PICK v : Counts(v, y, n) /\ BytesValue(y) = v[n]
  BY <1>2, <1>3, ValueFacts
<1>9. u[n] \div Pow2[ByteBits * n - bits] = v[n] \div Pow2[ByteBits * n - bits] <=>
        /\ \A i \in 1..full : x[i] = y[i]
        /\ rem # 0 => High(x[full + 1], ByteBits - rem) = High(y[full + 1], ByteBits - rem)
  BY <1>2, <1>5, <1>7, <1>8, SameLeadingBits
<1>10. Value(ip) \div Pow2[Width6 - bits] = Value(range) \div Pow2[Width6 - bits] <=>
         u[n] \div Pow2[ByteBits * n - bits] = v[n] \div Pow2[ByteBits * n - bits]
  BY <1>2, <1>4, <1>7, <1>8, Zenon
<1> QED BY <1>6, <1>9, <1>10, Zenon

\* The fields of an IPv4 text.
LEMMA V4Facts ==
    ASSUME NEW t \in V4Text PROVE t.v = 4 /\ t = [v |-> 4, octets |-> t.octets]
BY DEF V4Text

\* The octets of an IPv4 address spell a number, the same for both guards.
LEMMA OctetFacts ==
    ASSUME NEW t \in V4Text, IsIp(t)
    PROVE  LET x == [i \in 1..OctetCount |-> t.octets[i].num] IN
           /\ x \in [1..OctetCount -> Nat] /\ \A i \in 1..OctetCount : x[i] < Pow2[ByteBits]
           /\ t.octets = [i \in 1..OctetCount |-> [num |-> x[i], plain |-> TRUE]]
           /\ IpToBigInt(t) = BytesValue(x) /\ ToInt(t) = BytesValue(x)
           /\ IpToBigInt(t) \in Nat /\ InRange(t)
<1> DEFINE n == OctetCount
           x == [i \in 1..n |-> t.octets[i].num]
           z == [i \in 1..n |->
                   IF \A j \in i..n : WellFormed(t.octets[j]) THEN t.octets[i].num ELSE 0]
<1>1. n \in Nat /\ OctetNum \subseteq Nat /\ t.v = 4 /\ 4 # 6
  BY AccessAssumption, V4Facts
<1>2. Len(t.octets) = n /\ ~Malformed(t)
  BY <1>1 DEF IsIp
<1>3. t.octets \in [1..n -> Octet]
  <2>1. PICK k \in {n - 1, n} : t.octets \in [1..k -> Octet]
    BY DEF V4Text
  <2>2. k \in Nat
    BY <2>1, AccessAssumption
  <2>3. Len(t.octets) = k
    BY <2>1, <2>2
  <2> QED BY <1>2, <2>1, <2>3
<1>4. \A i \in 1..n : WellFormed(t.octets[i])
  BY <1>2, <1>3 DEF Malformed
<1>5. \A i \in 1..n : /\ t.octets[i].num \in Nat /\ t.octets[i].num < Pow2[ByteBits]
                      /\ t.octets[i] = [num |-> t.octets[i].num, plain |-> TRUE]
  BY <1>1, <1>3, <1>4 DEF Octet, WellFormed
<1>6. x \in [1..n -> Nat] /\ \A i \in 1..n : x[i] < Pow2[ByteBits]
  BY <1>5
<1>7. t.octets = [i \in 1..n |-> [num |-> x[i], plain |-> TRUE]]
  <2>1. t.octets = [i \in 1..n |-> t.octets[i]]
    BY <1>3
  <2>2. \A i \in 1..n : t.octets[i] = [num |-> x[i], plain |-> TRUE]
    BY <1>5
  <2> HIDE DEF x
  <2> QED BY <2>1, <2>2
<1>8. z = x
  <2>1. \A i \in 1..n : \A j \in i..n : j \in 1..n
    BY <1>1
  <2>2. \A i \in 1..n : \A j \in i..n : WellFormed(t.octets[j])
    BY <1>4, <2>1, Zenon
  <2> QED BY <2>2, Zenon
<1>9. IpToBigInt(t) = BytesValue(x) /\ ToInt(t) = BytesValue(x)
  <2>1. IpToBigInt(t) = BytesValue(x)
    BY Zenon DEF IpToBigInt
  <2>2. ToInt(t) = BytesValue(z)
    BY Zenon DEF ToInt
  <2> HIDE DEF x, z
  <2> QED BY <1>8, <2>1, <2>2
<1>10. BytesValue(x) \in Nat
  <2> HIDE DEF x
  <2>1. PICK u : Counts(u, x, n) /\ BytesValue(x) = u[n]
    BY <1>1, <1>6, ValueFacts
  <2> QED BY <1>1, <2>1 DEF Counts
<1>11. InRange(t)
  BY <1>2, <1>5 DEF InRange
<1> HIDE DEF x
<1>12. /\ IpToBigInt(t) = BytesValue(x) /\ ToInt(t) = BytesValue(x)
       /\ IpToBigInt(t) \in Nat /\ InRange(t)
  BY <1>9, <1>10, <1>11
<1> QED BY <1>6, <1>7, <1>12, Zenon DEF x

\* An IPv4 address has one spelling.
LEMMA OneSpelling ==
    ASSUME NEW s \in V4Text, NEW t \in V4Text, IsIp(s), IsIp(t), IpToBigInt(s) = IpToBigInt(t)
    PROVE  s = t
<1> DEFINE n == OctetCount
           x == [i \in 1..n |-> s.octets[i].num]
           y == [i \in 1..n |-> t.octets[i].num]
<1>1. n \in Nat /\ n \in 0..n
  BY AccessAssumption
<1>2. /\ x \in [1..n -> Nat] /\ \A i \in 1..n : x[i] < Pow2[ByteBits]
      /\ s.octets = [i \in 1..n |-> [num |-> x[i], plain |-> TRUE]]
      /\ IpToBigInt(s) = BytesValue(x)
  BY OctetFacts, Zenon
<1>3. /\ y \in [1..n -> Nat] /\ \A i \in 1..n : y[i] < Pow2[ByteBits]
      /\ t.octets = [i \in 1..n |-> [num |-> y[i], plain |-> TRUE]]
      /\ IpToBigInt(t) = BytesValue(y)
  BY OctetFacts, Zenon
<1> HIDE DEF x, y
<1>4. PICK u : Counts(u, x, n) /\ BytesValue(x) = u[n]
  BY <1>1, <1>2, ValueFacts
<1>5. PICK v : Counts(v, y, n) /\ BytesValue(y) = v[n]
  BY <1>1, <1>3, ValueFacts
<1>6. u[n] = v[n]
  BY <1>2, <1>3, <1>4, <1>5
<1>7. \A i \in 1..n : x[i] = y[i]
  BY <1>1, <1>4, <1>5, <1>6, SameDigits
<1>8. s.octets = t.octets
  BY <1>2, <1>3, <1>7
<1> QED BY <1>8, V4Facts, Zenon

\* The family of an IPv6 text.
LEMMA V6Facts == \A t \in V6Text : t.v = 6
BY DEF V6Text

\* The address and the prefix length of an entry.
LEMMA EntryFacts ==
    ASSUME NEW entry \in Entries
    PROVE  /\ entry.addr \in V4Text \/ entry.addr \in V6Text
           /\ entry.bits \in Int /\ (entry.bits = NoPrefix \/ entry.bits \in Nat)
           /\ entry.bits = NoPrefix => entry.exact
<1>1. ASSUME NEW texts, NEW k \in Nat, entry \in Entry(texts, k)
      PROVE  /\ entry.addr \in texts
             /\ entry.bits \in Int /\ (entry.bits = NoPrefix \/ entry.bits \in Nat)
             /\ entry.bits = NoPrefix => entry.exact
  <2>1. CASE entry \in [addr : texts, bits : {NoPrefix}, exact : {TRUE}]
    <3>1. entry.addr \in texts /\ entry.bits = NoPrefix /\ entry.exact = TRUE
      BY <2>1
    <3>2. NoPrefix \in Int
      BY DEF NoPrefix
    <3> QED BY <3>1, <3>2
  <2>2. CASE entry \in [addr : texts, bits : 0 .. k + 1, exact : BOOLEAN]
    <3>1. entry.addr \in texts /\ entry.bits \in 0 .. k + 1
      BY <2>2
    <3>2. \A b \in 0 .. k + 1 : b \in Nat /\ b \in Int /\ b # -1
      OBVIOUS
    <3> QED BY <3>1, <3>2 DEF NoPrefix
  <2> QED BY <1>1, <2>1, <2>2 DEF Entry
<1>2. CASE entry \in Entry(V4Text, Bits4)
  <2>1. Bits4 \in Nat
    BY WidthFacts
  <2> QED BY <1>1, <1>2, <2>1
<1>3. CASE entry \in Entry(V6Text, 2 * ByteBits * GroupCount)
  <2>1. 2 * ByteBits * GroupCount \in Nat
    BY WidthFacts
  <2> QED BY <1>1, <1>3, <2>1
<1> QED BY <1>2, <1>3 DEF Entries

\* What a guard answers for an entry is right, up to the entries that are coerced
\* and those that admit less.
Exact(entry, ip, admits) ==
    /\ admits => Coerced(entry) \/ Covers(entry, ip)
    /\ Covers(entry, ip) /\ ~Narrow(entry, ip) => admits

\* A bare entry.
LEMMA BareExact ==
    ASSUME NEW ip \in V4Text \cup V6Text, IsIp(ip), NEW entry \in Entries, entry.bits = NoPrefix
    PROVE  Exact(entry, ip, ip = entry.addr)
<1>1. ASSUME ip = entry.addr PROVE Covers(entry, ip)
  <2>1. IsIp(entry.addr) /\ entry.exact
    BY <1>1, EntryFacts
  <2>2. entry.bits <= (IF entry.addr.v = 4 THEN Bits4 ELSE 2 * ByteBits * GroupCount)
    <3>1. 2 * ByteBits * GroupCount \in Nat /\ Bits4 \in Nat /\ -1 <= Bits4
      BY WidthFacts
    <3>2. -1 <= 2 * ByteBits * GroupCount
      BY <3>1
    <3> QED BY <3>1, <3>2 DEF NoPrefix
  <2> QED BY <1>1, <2>1, <2>2 DEF IsValidIpOrCidr, Covers
<1>2. ASSUME Covers(entry, ip), ~Narrow(entry, ip) PROVE ip = entry.addr
  <2>1. /\ entry.addr.v = ip.v /\ (entry.addr.v # 6 \/ entry.addr = ip)
        /\ IsIp(entry.addr)
    BY <1>2 DEF Covers, Narrow, IsValidIpOrCidr
  <2>2. CASE entry.addr \in V6Text
    BY <2>1, <2>2, V6Facts
  <2>3. CASE entry.addr \in V4Text
    <3>1. entry.addr.v = 4 /\ ip.v = 4
      BY <2>1, <2>3, V4Facts
    <3>2. ip \in V4Text
      BY <3>1, V6Facts
    <3>3. Bits4 - Bits4 = 0 /\ Pow2[0] = 1
      BY WidthFacts, PowFacts
    <3> DEFINE a == IpToBigInt(ip)
               b == IpToBigInt(entry.addr)
    <3>4. a \div Pow2[Bits4 - Bits4] = b \div Pow2[Bits4 - Bits4]
      BY <1>2, <3>1 DEF Covers, Value
    <3>5. a \in Nat /\ b \in Nat
      BY <2>1, <2>3, <3>2, OctetFacts, Zenon
    <3>6. a \div 1 = b \div 1
      BY <3>3, <3>4
    <3> HIDE DEF a, b
    <3>7. a = b
      BY <3>5, <3>6
    <3> QED BY <2>1, <2>3, <3>2, <3>7, OneSpelling DEF a, b
  <2> QED BY <2>2, <2>3, EntryFacts
<1> QED BY <1>1, <1>2 DEF Exact

\* An entry with an address of the right length that is none is coerced.
LEMMA NoAddressIsCoerced ==
    ASSUME NEW entry, entry.addr.v = 4, ~IsIp(entry.addr), Len(entry.addr.octets) = OctetCount
    PROVE  Coerced(entry)
<1>1. 4 # 6
  OBVIOUS
<1> QED BY <1>1 DEF IsIp, Coerced

\* ipInCidr.
LEMMA CidrExact ==
    ASSUME NEW ip \in V4Text \cup V6Text, IsIp(ip), NEW entry \in Entries
    PROVE  Exact(entry, ip, IpInCidr(ip, entry))
<1> DEFINE a == entry.addr
           bits == entry.bits
<1>1. (a \in V4Text \/ a \in V6Text) /\ bits \in Int /\ (bits = NoPrefix \/ bits \in Nat)
  BY EntryFacts
<1>2. CASE bits = NoPrefix
  BY <1>2, BareExact DEF IpInCidr
<1>3. CASE bits # NoPrefix /\ (ip.v = 6 \/ a.v = 6)
  <2>1. bits \in Nat /\ (IpInCidr(ip, entry) <=> Ipv6InCidr(ip, a, bits))
    BY <1>1, <1>3 DEF IpInCidr
  <2>2. CASE ip.v = 6 /\ a.v = 6
    <3>1. ip \in V6Text /\ a \in V6Text /\ Parses(ip)
      BY <1>1, <2>2, V4Facts DEF IsIp
    <3>2. Width6 \in Nat /\ Width6 = 2 * ByteBits * GroupCount
      BY WidthFacts DEF Width6
    <3>0. 6 # 4
      OBVIOUS
    <3>3. IsValidIpOrCidr(entry) <=> Parses(a) /\ entry.exact /\ bits <= Width6
      BY <2>2, <3>0, <3>2, Zenon DEF IsValidIpOrCidr, IsIp
    <3>4. Covers(entry, ip) <=>
            /\ IsValidIpOrCidr(entry)
            /\ Value(ip) \div Pow2[Width6 - bits] = Value(a) \div Pow2[Width6 - bits]
      BY <1>3, <2>2, <3>0, <3>2, Zenon DEF Covers
    <3>5. Ipv6InCidr(ip, a, bits) => Parses(a) /\ bits \in 0..Width6
      BY <3>2, Zenon DEF Ipv6InCidr
    <3>6. Parses(a) /\ bits \in 0..Width6 =>
            (Ipv6InCidr(ip, a, bits)
               <=> Value(ip) \div Pow2[Width6 - bits] = Value(a) \div Pow2[Width6 - bits])
      BY <3>1, Ipv6Exact
    <3>7. bits \in 0..Width6 <=> bits <= Width6
      BY <2>1, <3>2
    <3>8. ~entry.exact => Coerced(entry)
      BY DEF Coerced
    <3> QED BY <2>1, <3>3, <3>4, <3>5, <3>6, <3>7, <3>8, Zenon DEF Exact
  <2>3. CASE ~(ip.v = 6 /\ a.v = 6)
    <3>1. ~Ipv6InCidr(ip, a, bits)
      BY <2>3 DEF Ipv6InCidr
    <3>2. ~Covers(entry, ip)
      BY <1>3, <2>3 DEF Covers
    <3> QED BY <2>1, <3>1, <3>2 DEF Exact
  <2> QED BY <2>2, <2>3
<1>4. CASE bits # NoPrefix /\ ~(ip.v = 6 \/ a.v = 6)
  <2>1. ip \in V4Text /\ a \in V4Text /\ bits \in Nat
    BY <1>1, <1>4, V6Facts
  <2> DEFINE x == ToInt(ip)
             y == ToInt(a)
  <2>2. ip.v = 4 /\ a.v = 4 /\ 4 # 6
    BY <2>1, V4Facts
  <2>3. IpInCidr(ip, entry) <=>
          /\ bits \in 0..Bits4
          /\ Len(ip.octets) = OctetCount /\ Len(a.octets) = OctetCount
          /\ High(x, Shift(bits)) = High(y, Shift(bits))
    BY <1>4 DEF IpInCidr
  <2>4. IsValidIpOrCidr(entry) <=> IsIp(a) /\ entry.exact /\ bits <= Bits4
    BY <2>2, Zenon DEF IsValidIpOrCidr
  <2>5. CASE ~IsIp(a)
    <3>1. ~Covers(entry, ip)
      BY <2>4, <2>5 DEF Covers
    <3>2. IpInCidr(ip, entry) => Coerced(entry)
      BY <2>2, <2>3, <2>5, NoAddressIsCoerced
    <3> QED BY <3>1, <3>2 DEF Exact
  <2>6. CASE IsIp(a)
    <3>1. x \in Nat /\ y \in Nat /\ Value(ip) = x /\ Value(a) = y
      BY <2>1, <2>2, <2>6, OctetFacts, Zenon DEF Value
    <3>2. Len(ip.octets) = OctetCount /\ Len(a.octets) = OctetCount
      BY <2>2, <2>6 DEF IsIp
    <3>3. Covers(entry, ip) <=>
            /\ IsValidIpOrCidr(entry)
            /\ x \div Pow2[Bits4 - bits] = y \div Pow2[Bits4 - bits]
      BY <1>4, <2>2, <3>1, Zenon DEF Covers
    <3>4. bits \in 0..Bits4 <=> bits <= Bits4
      BY <2>1, WidthFacts
    <3>5. ~entry.exact => Coerced(entry)
      BY DEF Coerced
    <3> HIDE DEF x, y
    <3>6. CASE bits = 0
      <4>1. Shift(bits) = 0
        BY <3>6, WidthFacts DEF Shift
      <4>2. High(x, 0) = x /\ High(y, 0) = y
        <5>1. Pow2[0] = 1
          BY PowFacts
        <5>2. x \div 1 = x /\ y \div 1 = y
          BY <3>1
        <5> QED BY <5>1, <5>2, Zenon DEF High
      <4>3. IpInCidr(ip, entry) => x = y
        BY <2>3, <4>1, <4>2, Zenon
      <4>4. x = y /\ IsValidIpOrCidr(entry) => Covers(entry, ip)
        BY <3>3, Zenon
      <4>5. Narrow(entry, ip)
        BY <2>2, <3>6 DEF Narrow
      <4> QED BY <2>3, <2>4, <2>6, <3>4, <3>5, <4>3, <4>4, <4>5, Zenon DEF Exact
    <3>7. CASE bits # 0
      <4>1. bits <= Bits4 => Shift(bits) = Bits4 - bits
        <5>1. ASSUME bits <= Bits4 PROVE (Bits4 - bits) % Bits4 = Bits4 - bits
          <6> DEFINE r == Bits4 - bits
          <6>1. r \in Int /\ 0 <= r /\ r < Bits4 /\ 0 * Bits4 + r = r
            BY <2>1, <3>7, <5>1, WidthFacts
          <6> HIDE DEF r
          <6>2. (0 * Bits4 + r) % Bits4 = r
            BY <6>1, WidthFacts, ModIs
          <6> QED BY <6>1, <6>2, Zenon DEF r
        <5> QED BY <5>1 DEF Shift
      <4>2. bits <= Bits4 =>
              (High(x, Shift(bits)) = High(y, Shift(bits))
                 <=> x \div Pow2[Bits4 - bits] = y \div Pow2[Bits4 - bits])
        BY <4>1, Zenon DEF High
      <4> QED BY <2>3, <2>4, <2>6, <3>2, <3>3, <3>4, <3>5, <4>2, Zenon DEF Exact
    <3> QED BY <3>6, <3>7
  <2> QED BY <2>5, <2>6
<1> QED BY <1>2, <1>3, <1>4

\* The range of a network of the metrics.
LEMMA RangeIsPrefix ==
    ASSUME NEW s \in Nat, s >= 1, NEW x \in Nat, NEW y \in Nat
    PROVE  x \in ((y \div s) * s) .. ((y \div s) * s + s - 1) <=> x \div s = y \div s
<1> DEFINE q == y \div s
           p == x \div s
<1>1. q \in Nat
  BY SplitBits
<1>2. PICK pp \in Nat, r \in Nat : pp = x \div s /\ r = x % s /\ r < s /\ x = pp * s + r
  BY SplitBits
<1>3. p = pp
  BY <1>2, Zenon
<1> HIDE DEF q, p
<1>4. p \in Nat /\ r < s /\ x = p * s + r
  BY <1>2, <1>3, Zenon
<1>5. ASSUME x \in (q * s) .. (q * s + s - 1) PROVE p = q
  <2> DEFINE c == x - q * s
  <2>1. c \in Int /\ 0 <= c /\ c < s /\ x = q * s + c
    BY <1>1, <1>5
  <2> HIDE DEF c
  <2>2. p * s + r = q * s + c
    BY <1>4, <2>1, Zenon
  <2> QED BY <1>1, <1>4, <2>1, <2>2, Euclid
<1>6. ASSUME p = q PROVE x \in (q * s) .. (q * s + s - 1)
  <2>1. q * s \in Nat
    BY <1>1
  <2> QED BY <1>1, <1>4, <1>6, <2>1
<1>7. x \in (q * s) .. (q * s + s - 1) <=> p = q
  BY <1>5, <1>6
<1> QED BY <1>7, Zenon DEF q, p

\* An entry of the metrics' list, as MetricsGuard compares it.
MetricsAdmits(ip, entry) ==
    IF entry.bits = NoPrefix THEN ip = entry.addr ELSE InNetwork(ip, entry)

\* An entry of the metrics' list, for an IPv4 address or a bare entry.
LEMMA NetworkExact ==
    ASSUME NEW ip \in V4Text \cup V6Text, IsIp(ip), NEW entry \in Entries
    PROVE  /\ MetricsAdmits(ip, entry) => Coerced(entry) \/ Covers(entry, ip)
           /\ ip.v # 6 => Exact(entry, ip, MetricsAdmits(ip, entry))
<1> DEFINE a == entry.addr
           bits == entry.bits
<1>1. (a \in V4Text \/ a \in V6Text) /\ bits \in Int /\ (bits = NoPrefix \/ bits \in Nat)
  BY EntryFacts
<1>2. CASE bits = NoPrefix
  <2>1. MetricsAdmits(ip, entry) <=> ip = entry.addr
    BY <1>2 DEF MetricsAdmits
  <2>2. Exact(entry, ip, ip = entry.addr)
    BY <1>2, BareExact
  <2> QED BY <2>1, <2>2 DEF Exact
<1>3. CASE bits # NoPrefix /\ ~(ip.v = 4 /\ a.v = 4)
  <2>1. ~MetricsAdmits(ip, entry)
    BY <1>3 DEF MetricsAdmits, InNetwork
  <2>2. ip.v # 6 => ~Covers(entry, ip)
    <3>1. ip.v # 6 => ip.v = 4
      BY V4Facts, V6Facts
    <3> QED BY <1>3, <3>1 DEF Covers
  <2> QED BY <2>1, <2>2 DEF Exact
<1>4. CASE bits # NoPrefix /\ ip.v = 4 /\ a.v = 4
  <2>1. ip \in V4Text /\ a \in V4Text /\ bits \in Nat
    BY <1>1, <1>4, V6Facts
  <2> DEFINE x == IpToBigInt(ip)
             y == IpToBigInt(a)
             s == Pow2[Bits4 - bits]
  <2>2. 4 # 6
    OBVIOUS
  <2>3. IsValidIpOrCidr(entry) <=> IsIp(a) /\ entry.exact /\ bits <= Bits4
    BY <1>4, <2>2, Zenon DEF IsValidIpOrCidr
  <2>4. MetricsAdmits(ip, entry) <=>
          /\ bits \in 0..Bits4 /\ InRange(ip) /\ InRange(a)
          /\ x \in ((y \div s) * s) .. ((y \div s) * s + s - 1)
    BY <1>4, Zenon DEF MetricsAdmits, InNetwork
  <2>5. CASE ~IsIp(a)
    <3>1. ~Covers(entry, ip)
      BY <2>3, <2>5 DEF Covers
    <3>2. InRange(a) => Coerced(entry)
      BY <1>4, <2>5, NoAddressIsCoerced DEF InRange
    <3> QED BY <2>4, <3>1, <3>2, Zenon DEF Exact
  <2>6. CASE IsIp(a)
    <3>1. x \in Nat /\ y \in Nat /\ InRange(ip) /\ InRange(a)
      BY <2>1, <2>6, OctetFacts, Zenon
    <3>2. Covers(entry, ip) <=> IsValidIpOrCidr(entry) /\ x \div s = y \div s
      BY <1>4, Zenon DEF Covers, Value
    <3>3. bits \in 0..Bits4 <=> bits <= Bits4
      BY <2>1, WidthFacts
    <3>4. ~entry.exact => Coerced(entry)
      BY DEF Coerced
    <3>5. ASSUME bits <= Bits4
          PROVE  x \in ((y \div s) * s) .. ((y \div s) * s + s - 1) <=> x \div s = y \div s
      <4>1. s \in Nat /\ s >= 1
        <5>1. Bits4 - bits \in Nat
          BY <2>1, <3>5, WidthFacts
        <5> QED BY <5>1, PowPositive
      <4> HIDE DEF s, x, y
      <4> QED BY <3>1, <4>1, RangeIsPrefix
    <3> HIDE DEF x, y, s
    <3> QED BY <2>3, <2>4, <2>6, <3>1, <3>2, <3>3, <3>4, <3>5, Zenon DEF Exact
  <2> QED BY <2>5, <2>6
<1> QED BY <1>2, <1>3, <1>4

\* A list as MetricsGuard reads it.
OnMetricsList(entries, ip) == \E e \in entries : MetricsAdmits(ip, e)
AnyCoerced(entries) == \E e \in entries : Coerced(e)

\* A list is as exact as its entries.
LEMMA AdmitsExact ==
    ASSUME NEW L \in SUBSET Entries, NEW ip \in V4Text \cup V6Text, IsIp(ip)
    PROVE  /\ Admits(L, ip) => Covered(L, ip) \/ AnyCoerced(L)
           /\ Covered(L, ip) /\ ~AnyNarrow(L, ip) => Admits(L, ip)
           /\ OnMetricsList(L, ip) => Covered(L, ip) \/ AnyCoerced(L)
           /\ Covered(L, ip) /\ ~AnyNarrow(L, ip) /\ ip.v # 6 => OnMetricsList(L, ip)
<1>1. \A e \in L : Exact(e, ip, IpInCidr(ip, e))
  BY CidrExact
<1>2. \A e \in L : /\ MetricsAdmits(ip, e) => Coerced(e) \/ Covers(e, ip)
                   /\ ip.v # 6 => Exact(e, ip, MetricsAdmits(ip, e))
  BY NetworkExact
<1> QED
  BY <1>1, <1>2, Zenon DEF Exact, Admits, Covered, AnyNarrow, OnMetricsList, AnyCoerced

\* The entries of a key's list are not coerced.
LEMMA StoredIsExact == \A L \in SUBSET Storable : L \in SUBSET Entries /\ ~AnyCoerced(L)
<1>1. ASSUME NEW e \in Storable PROVE e \in Entries /\ ~Coerced(e)
  <2>1. 4 # 6
    OBVIOUS
  <2> QED BY <2>1 DEF Storable, IsValidIpOrCidr, IsIp, Coerced
<1> QED BY <1>1, Zenon DEF AnyCoerced

\* The requests that are explored.
Carried(r) ==
    /\ r.route \in AdminRoutes \cup {"api", "metrics"}
    /\ r.ip \in ClientIps /\ ExtractClientIp(r) \in V4Text \cup V6Text
    /\ r.allowlist \in SUBSET Storable /\ r.adminIps \in SUBSET Entries
    /\ r.roles \subseteq BypassRoles
    /\ r.authType \in {"apiKey", "jwt", "none"}

\* An address whose octets are all 0, or all 1.
LEMMA HostFacts == \A num \in {0, 1} : Host(num) \in V4Text /\ Host(num).v = 4 /\ IsIp(Host(num))
<1> SUFFICES ASSUME NEW num \in {0, 1} PROVE Host(num) \in V4Text /\ Host(num).v = 4 /\ IsIp(Host(num))
  OBVIOUS
<1> DEFINE o == [num |-> num, plain |-> TRUE]
           q == [i \in 1..OctetCount |-> o]
<1>1. Host(num) = [v |-> 4, octets |-> q]
  BY DEF Host
<1>2. OctetCount \in Nat /\ num \in OctetNum /\ num \in Nat
  BY AccessAssumption
<1>3. num < Pow2[ByteBits]
  <2>1. ByteBits - 1 \in Nat /\ (ByteBits - 1) + 1 = ByteBits
    BY WidthFacts
  <2>2. Pow2[(ByteBits - 1) + 1] = 2 * Pow2[ByteBits - 1] /\ Pow2[ByteBits - 1] \in Nat
        /\ Pow2[ByteBits - 1] >= 1
    BY <2>1, PowFacts, PowPositive
  <2> QED BY <1>2, <2>1, <2>2
<1>4. o \in Octet /\ WellFormed(o)
  BY <1>2, <1>3 DEF Octet, WellFormed
<1> HIDE DEF o
<1>5. q \in [1..OctetCount -> Octet] /\ Len(q) = OctetCount
  BY <1>2, <1>4
<1>6. \A i \in DOMAIN q : WellFormed(q[i])
  BY <1>4
<1> HIDE DEF q
<1>7. Host(num) \in V4Text
  BY <1>1, <1>5 DEF V4Text
<1>8. Host(num).v = 4 /\ Host(num).octets = q /\ 4 # 6
  BY <1>1
<1> QED BY <1>5, <1>6, <1>7, <1>8 DEF IsIp, Malformed

\* Every request that is explored has an address and entries of the forms above.
LEMMA RequestsCarry == ASSUME AccessInit PROVE Carried(request)
<1> DEFINE r == request
<1>1. ListsOf(Storable) \subseteq SUBSET Storable /\ ListsOf(Entries) \subseteq SUBSET Entries
  BY DEF ListsOf
<1>2. ClientIps \subseteq V4Text \cup V6Text /\ Host(0) \in ClientIps /\ Host(1) \in ClientIps
  BY HostFacts DEF ClientIps
<1>3. r.ip \in V4Text \cup V6Text /\ r.forwarded \in {NoHeader} \cup V4Text \cup V6Text
        => ExtractClientIp(r) \in V4Text \cup V6Text
  BY Zenon DEF ExtractClientIp
<1>4. CASE Addressed
  <2>1. /\ r.route \in {"api", "templates", "metrics"} /\ r.ip \in ClientIps \cup {Host(0)}
        /\ r.forwarded \in {NoHeader} \cup V4Text \cup V6Text
        /\ r.allowlist \in ListsOf(Storable) \cup {{}} /\ r.adminIps \in ListsOf(Entries) \cup {{}}
        /\ r.roles = {"admin"} /\ r.authType = "apiKey"
    BY <1>4 DEF Addressed
  <2> QED BY <1>1, <1>2, <1>3, <2>1 DEF Carried, AdminRoutes, BypassRoles
<1>5. CASE Credentialed
  <2> DEFINE e == [addr |-> Host(0), bits |-> Bits4, exact |-> TRUE]
  <2>1. /\ r.route \in AdminRoutes \cup {"api"} /\ r.ip \in {Host(0), Host(1)}
        /\ r.forwarded = NoHeader
        /\ r.allowlist \in ListsOf({e}) /\ r.adminIps \in ListsOf({e})
        /\ r.roles \subseteq BypassRoles /\ r.authType \in {"apiKey", "jwt", "none"}
    BY <1>5 DEF Credentialed, BypassRoles
  <2>2. e \in Entries
    <3>1. Host(0) \in V4Text /\ Bits4 \in 0 .. Bits4 + 1
      BY HostFacts, WidthFacts
    <3> QED BY <3>1 DEF Entries, Entry
  <2>3. IsValidIpOrCidr(e)
    BY HostFacts, WidthFacts DEF IsValidIpOrCidr
  <2>4. e \in Storable
    BY <2>2, <2>3 DEF Storable
  <2> HIDE DEF e
  <2>5. r.allowlist \in SUBSET Storable /\ r.adminIps \in SUBSET Entries
    BY <2>1, <2>2, <2>4 DEF ListsOf
  <2> QED BY <1>2, <1>3, <2>1, <2>5 DEF Carried
<1> QED BY <1>4, <1>5 DEF AccessInit

\* The verdict is that of a guard that refuses, or there is none.
LEMMA FirstRefusal ==
    ASSUME CanActivate, NEW n \in Nat, DOMAIN Guards(request) = 1..n
    PROVE  \/ verdict' = "admitted" /\ \A i \in 1..n : Guards(request)[i] = "ok"
           \/ \E i \in 1..n : Guards(request)[i] # "ok" /\ verdict' = Guards(request)[i]
<1> DEFINE given == Guards(request)
           refusals == {i \in DOMAIN given : given[i] # "ok"}
           first == CHOOSE i \in refusals : \A j \in refusals : i <= j
<1>1. verdict' = IF refusals = {} THEN "admitted" ELSE given[first]
  BY DEF CanActivate
<1>2. refusals # {} => first \in refusals
  <2> SUFFICES ASSUME refusals # {} PROVE first \in refusals
    OBVIOUS
  <2>1. refusals \in SUBSET Nat
    OBVIOUS
  <2> HIDE DEF refusals
  <2>2. \E i \in refusals : \A j \in refusals : i <= j
    BY <2>1, LeastExists
  <2> QED BY <2>2
<1> HIDE DEF first
<1> QED BY <1>1, <1>2

\* What JwtAuthGuard says of the key and of its list.
LEMMA JwtAnswers ==
    ASSUME NEW r, Carried(r)
    PROVE  /\ JwtAuth(r) = "ok" => \/ r.authType = "jwt"
                                   \/ r.authType = "apiKey" /\ r.allowlist = {}
                                   \/ r.authType = "apiKey" /\ Admits(r.allowlist, r.ip)
                                   \/ Bypasses(r)
           /\ JwtAuth(r) = "IP_NOT_ALLOWED" =>
                r.authType = "apiKey" /\ r.allowlist # {} /\ ~Admits(r.allowlist, r.ip)
           /\ Bypasses(r) => r.allowlist # {} /\ ~Admits(r.allowlist, r.ip)
           /\ JwtAuth(r) \notin {"admitted", "IP not in allowlist", "denied"}
<1>1. r.authType \in {"apiKey", "jwt", "none"}
  BY DEF Carried
<1>2. Bypasses(r) => r.allowlist # {} /\ ~Admits(r.allowlist, r.ip)
  BY DEF Bypasses
<1> QED BY <1>1, <1>2 DEF JwtAuth

\* What the verdict says of the guards of the route.
Decided(r, answer) ==
    /\ answer = "admitted" =>
          /\ r.route # "metrics" => JwtAuth(r) = "ok"
          /\ r.route \in ConfiguredRoutes => IpAllowlist(r) = "ok"
          /\ r.route \in TwoFactorRoutes => AdminTwoFactor(r) = "ok"
          /\ r.route \in AdminRoutes => RolesAllowed(r) = "ok"
          /\ r.route = "metrics" => MetricsAllowed(r) = "ok"
    /\ answer = "IP_NOT_ALLOWED" => r.route # "metrics" /\ JwtAuth(r) = answer
    /\ answer = "IP not in allowlist" => r.route \in ConfiguredRoutes /\ IpAllowlist(r) = answer
    /\ answer = "denied" => r.route = "metrics" /\ MetricsAllowed(r) = answer

LEMMA GuardsDecide ==
    ASSUME Carried(request), CanActivate PROVE Decided(request, verdict')
<1>0. JwtAuth(request) \notin {"admitted", "IP not in allowlist", "denied"}
  BY JwtAnswers
<1> DEFINE ip == IpAllowlist(request)
           jwt == JwtAuth(request)
           two == AdminTwoFactor(request)
           roles == RolesAllowed(request)
           metrics == MetricsAllowed(request)
           given == Guards(request)
           route == request.route
<1>1. /\ ip \in {"ok", "IP not in allowlist"} /\ metrics \in {"ok", "denied"}
      /\ two \in {"ok", "two-factor session required"} /\ roles \in {"ok", "Insufficient permissions"}
  BY DEF IpAllowlist, AdminTwoFactor, RolesAllowed, MetricsAllowed
<1>2. jwt \notin {"admitted", "IP not in allowlist", "denied"}
  BY <1>0
<1>3. /\ route \in {"admin", "templates", "queues", "aml", "api", "metrics"}
      /\ route = "api" => given = <<jwt>>
      /\ route = "admin" => given = <<ip, jwt, two, roles>>
      /\ route = "templates" => given = <<ip, jwt, roles>>
      /\ route = "queues" => given = <<jwt, two, roles>>
      /\ route = "aml" => given = <<jwt, roles>>
      /\ route = "metrics" => given = <<metrics>>
  BY DEF Carried, AdminRoutes, Guards
<1>4. \A n \in Nat : DOMAIN given = 1..n =>
        \/ verdict' = "admitted" /\ \A i \in 1..n : given[i] = "ok"
        \/ \E i \in 1..n : given[i] # "ok" /\ verdict' = given[i]
  BY FirstRefusal
<1> HIDE DEF ip, jwt, two, roles, metrics, given
<1>5. 1..1 = {1} /\ 1..2 = {1, 2} /\ 1..3 = {1, 2, 3} /\ 1..4 = {1, 2, 3, 4}
  OBVIOUS
<1>a. 1 \in Nat /\ 2 \in Nat /\ 3 \in Nat /\ 4 \in Nat
  OBVIOUS
<1>b. Decided(request, verdict') <=>
        /\ verdict' = "admitted" =>
             /\ route # "metrics" => jwt = "ok"
             /\ route \in {"admin", "templates"} => ip = "ok"
             /\ route \in {"admin", "queues"} => two = "ok"
             /\ route \in {"admin", "templates", "queues", "aml"} => roles = "ok"
             /\ route = "metrics" => metrics = "ok"
        /\ verdict' = "IP_NOT_ALLOWED" => route # "metrics" /\ jwt = verdict'
        /\ verdict' = "IP not in allowlist" => route \in {"admin", "templates"} /\ ip = verdict'
        /\ verdict' = "denied" => route = "metrics" /\ metrics = verdict'
  BY Zenon DEF Decided, ConfiguredRoutes, TwoFactorRoutes, AdminRoutes, ip, jwt, two, roles, metrics
<1>c. CASE route = "metrics"
  <2>1. DOMAIN given = 1..1 /\ given[1] = metrics
    BY <1>3, <1>c
  <2>2. \/ verdict' = "admitted" /\ \A i \in {1} : given[i] = "ok"
        \/ \E i \in {1} : given[i] # "ok" /\ verdict' = given[i]
    BY <1>4, <1>5, <1>a, <2>1, Zenon
  <2>3. (verdict' = "admitted" /\ metrics = "ok") \/ (verdict' = metrics /\ metrics # "ok")
    BY <2>1, <2>2, Zenon
  <2> QED BY <1>1, <1>b, <1>c, <2>3
<1>6. CASE route = "api"
  <2>1. DOMAIN given = 1..1 /\ given[1] = jwt
    BY <1>3, <1>6
  <2>2. \/ verdict' = "admitted" /\ \A i \in {1} : given[i] = "ok"
        \/ \E i \in {1} : given[i] # "ok" /\ verdict' = given[i]
    BY <1>4, <1>5, <1>a, <2>1, Zenon
  <2>3. (verdict' = "admitted" /\ jwt = "ok") \/ (verdict' = jwt /\ jwt # "ok")
    BY <2>1, <2>2, Zenon
  <2> QED BY <1>2, <1>6, <1>b, <2>3
<1>7. CASE route = "admin"
  <2>1. DOMAIN given = 1..4 /\ given[1] = ip /\ given[2] = jwt /\ given[3] = two /\ given[4] = roles
    BY <1>3, <1>7
  <2>2. \/ verdict' = "admitted" /\ ip = "ok" /\ jwt = "ok" /\ two = "ok" /\ roles = "ok"
        \/ \E g \in {ip, jwt, two, roles} : g # "ok" /\ verdict' = g
    BY <1>4, <1>5, <1>a, <2>1
  <2> QED BY <1>1, <1>2, <1>7, <2>2, <1>b
<1>8. CASE route = "templates"
  <2>1. DOMAIN given = 1..3 /\ given[1] = ip /\ given[2] = jwt /\ given[3] = roles
    BY <1>3, <1>8
  <2>2. \/ verdict' = "admitted" /\ ip = "ok" /\ jwt = "ok" /\ roles = "ok"
        \/ \E g \in {ip, jwt, roles} : g # "ok" /\ verdict' = g
    BY <1>4, <1>5, <1>a, <2>1
  <2> QED BY <1>1, <1>2, <1>8, <2>2, <1>b
<1>9. CASE route = "queues"
  <2>1. DOMAIN given = 1..3 /\ given[1] = jwt /\ given[2] = two /\ given[3] = roles
    BY <1>3, <1>9
  <2>2. \/ verdict' = "admitted" /\ jwt = "ok" /\ two = "ok" /\ roles = "ok"
        \/ \E g \in {jwt, two, roles} : g # "ok" /\ verdict' = g
    BY <1>4, <1>5, <1>a, <2>1
  <2> QED BY <1>1, <1>2, <1>9, <2>2, <1>b
<1>10. CASE route = "aml"
  <2>1. DOMAIN given = 1..2 /\ given[1] = jwt /\ given[2] = roles
    BY <1>3, <1>10
  <2>2. \/ verdict' = "admitted" /\ jwt = "ok" /\ roles = "ok"
        \/ \E g \in {jwt, roles} : g # "ok" /\ verdict' = g
    BY <1>4, <1>5, <1>a, <2>1
  <2> QED BY <1>1, <1>2, <1>10, <2>2, <1>b
<1> QED BY <1>3, <1>6, <1>7, <1>8, <1>9, <1>10, <1>c

\* The lists against the verdict.
LEMMA VerdictIsExact ==
    ASSUME Carried(request), CanActivate PROVE AllowlistIsExact'
<1>0. /\ JwtAuth(request) = "ok" =>
           \/ request.authType = "jwt"
           \/ request.authType = "apiKey" /\ request.allowlist = {}
           \/ request.authType = "apiKey" /\ Admits(request.allowlist, request.ip)
           \/ Bypasses(request)
      /\ JwtAuth(request) = "IP_NOT_ALLOWED" => ~Admits(request.allowlist, request.ip)
      /\ Bypasses(request) => ~Admits(request.allowlist, request.ip)
  BY JwtAnswers
<1> DEFINE r == request
           claimed == IF r.route = "metrics" THEN ExtractClientIp(r) ELSE r.ip
<1>1. /\ request' = r
      /\ bypassLogged' => r.route # "metrics" /\ Bypasses(r)
      /\ r.route # "metrics" /\ Bypasses(r) /\ (r.route \in ConfiguredRoutes => IpAllowlist(r) = "ok")
           => bypassLogged'
  BY DEF CanActivate
<1>2. Decided(r, verdict')
  BY GuardsDecide
<1>3. /\ r.ip \in V4Text \cup V6Text /\ IsIp(r.ip) /\ claimed \in V4Text \cup V6Text
      /\ r.route # "metrics" => claimed = r.ip
      /\ r.allowlist \in SUBSET Entries /\ ~AnyCoerced(r.allowlist) /\ r.adminIps \in SUBSET Entries
  BY StoredIsExact DEF Carried, ClientIps
<1>4. /\ Admits(r.allowlist, r.ip) => Covered(r.allowlist, r.ip)
      /\ Covered(r.allowlist, r.ip) /\ ~AnyNarrow(r.allowlist, r.ip) => Admits(r.allowlist, r.ip)
  BY <1>3, AdmitsExact
<1>5. IsIp(claimed) =>
        /\ Admits(r.adminIps, claimed) => Covered(r.adminIps, claimed) \/ AnyCoerced(r.adminIps)
        /\ Covered(r.adminIps, claimed) /\ ~AnyNarrow(r.adminIps, claimed) => Admits(r.adminIps, claimed)
        /\ OnMetricsList(r.adminIps, claimed) => Covered(r.adminIps, claimed) \/ AnyCoerced(r.adminIps)
        /\ Covered(r.adminIps, claimed) /\ ~AnyNarrow(r.adminIps, claimed) /\ claimed.v # 6
             => OnMetricsList(r.adminIps, claimed)
  BY <1>3, AdmitsExact
<1>6. r.route = "metrics" =>
        /\ MetricsAllowed(r) = "ok" => OnMetricsList(r.adminIps, claimed)
        /\ MetricsAllowed(r) = "denied" => ~OnMetricsList(r.adminIps, claimed)
  BY DEF MetricsAllowed, OnMetricsList, MetricsAdmits
<1>7. /\ IpAllowlist(r) = "ok" => r.devBypass \/ Admits(r.adminIps, r.ip)
      /\ IpAllowlist(r) = "IP not in allowlist" => ~Admits(r.adminIps, r.ip)
  BY DEF IpAllowlist
<1>8. /\ RolesAllowed(r) = "ok" => r.role \in r.roles \cap BypassRoles
      /\ AdminTwoFactor(r) = "ok" => r.authType = "jwt" /\ r.admin2fa
  <2>1. r.roles \subseteq BypassRoles
    BY DEF Carried
  <2> QED BY <2>1 DEF AdminTwoFactor, RolesAllowed
<1>9. ASSUME verdict' = "admitted", r.route # "metrics", r.authType = "apiKey", r.allowlist # {}
      PROVE  Covered(r.allowlist, r.ip) \/ bypassLogged'
  <2>1. JwtAuth(r) = "ok" /\ (r.route \in ConfiguredRoutes => IpAllowlist(r) = "ok")
    BY <1>2, <1>9 DEF Decided
  <2>2. Admits(r.allowlist, r.ip) \/ Bypasses(r)
    BY <1>0, <1>9, <2>1
  <2> QED BY <1>1, <1>4, <1>9, <2>1, <2>2
<1>10. ASSUME verdict' = "admitted", IsIp(claimed),
              r.route = "metrics" \/ (r.route \in ConfiguredRoutes /\ ~r.devBypass)
       PROVE  Covered(r.adminIps, claimed) \/ AnyCoerced(r.adminIps)
  <2>1. CASE r.route = "metrics"
    BY <1>2, <1>5, <1>6, <1>10, <2>1 DEF Decided
  <2>2. CASE r.route # "metrics"
    BY <1>2, <1>3, <1>5, <1>7, <1>10, <2>2 DEF Decided
  <2> QED BY <2>1, <2>2
<1>11. verdict' = "admitted" =>
         /\ r.route \in AdminRoutes => r.role \in r.roles \cap BypassRoles
         /\ r.route \in TwoFactorRoutes => r.authType = "jwt" /\ r.admin2fa
  BY <1>2, <1>8 DEF Decided
<1>12. verdict' = "IP_NOT_ALLOWED" \/ bypassLogged' =>
         ~Covered(r.allowlist, r.ip) \/ AnyNarrow(r.allowlist, r.ip)
  BY <1>0, <1>1, <1>2, <1>4 DEF Decided
<1>13. ASSUME verdict' \in {"IP not in allowlist", "denied"}, IsIp(claimed),
              ~(r.route = "metrics" /\ claimed.v = 6)
       PROVE  ~Covered(r.adminIps, claimed) \/ AnyNarrow(r.adminIps, claimed)
  <2>1. CASE verdict' = "denied"
    BY <1>2, <1>5, <1>6, <1>13, <2>1 DEF Decided
  <2>2. CASE verdict' = "IP not in allowlist"
    <3>1. r.route # "metrics" /\ ~Admits(r.adminIps, r.ip)
      BY <1>2, <1>7, <2>2 DEF Decided, ConfiguredRoutes
    <3> QED BY <1>3, <1>5, <1>13, <3>1
  <2> QED BY <1>13, <2>1, <2>2
<1>14. AnyCoerced(r.adminIps) <=> \E e \in r.adminIps : Coerced(e)
  BY DEF AnyCoerced
<1> HIDE DEF r
<1> QED
  BY <1>1, <1>9, <1>10, <1>11, <1>12, <1>13, <1>14, Zenon DEF AllowlistIsExact, r

\* The invariant: the request keeps its form, and the verdict is exact.
AccessInv == Carried(request) /\ AllowlistIsExact

\* A key's allowlist admits exactly the addresses that share the prefix of an entry, the
\* configured lists no others unless an entry is coerced, and the metrics' so for the address
\* the client claims, but for the entries that admit less, whatever the widths of addresses,
\* bytes and groups are (ipInCidr, ipv6ToBytes, IpAllowlistGuard, MetricsGuard).
THEOREM AllowlistsExact == AccessSpec => []AllowlistIsExact
<1>1. AccessInit => AccessInv
  <2> SUFFICES ASSUME AccessInit PROVE AccessInv
    OBVIOUS
  <2>1. Carried(request)
    BY RequestsCarry
  <2>2. verdict = "none"
    BY DEF AccessInit
  <2> QED BY <2>1, <2>2 DEF AccessInv, AllowlistIsExact
<1>2. AccessInv /\ [AccessNext]_accessVars => AccessInv'
  <2> SUFFICES ASSUME AccessInv, [AccessNext]_accessVars PROVE AccessInv'
    OBVIOUS
  <2>1. CASE CanActivate
    <3>1. Carried(request) /\ request' = request
      BY <2>1 DEF AccessInv, CanActivate
    <3>2. Carried(request)'
      BY <3>1 DEF Carried, ExtractClientIp
    <3>3. AllowlistIsExact'
      BY <2>1, <3>1, VerdictIsExact
    <3> QED BY <3>2, <3>3 DEF AccessInv
  <2>2. CASE UNCHANGED accessVars
    <3>1. request' = request /\ verdict' = verdict /\ bypassLogged' = bypassLogged
      BY <2>2 DEF accessVars
    <3>2. Carried(request)'
      BY <3>1 DEF AccessInv, Carried, ExtractClientIp
    <3>3. AllowlistIsExact'
      BY <3>1, Zenon DEF AccessInv, AllowlistIsExact
    <3> QED BY <3>2, <3>3 DEF AccessInv
  <2> QED BY <2>1, <2>2 DEF AccessNext
<1>3. AccessInv => AllowlistIsExact
  BY DEF AccessInv
<1> QED BY <1>1, <1>2, <1>3, PTL DEF AccessSpec

-----------------------------------------------------------------------------
(***************************************************************************)
(* Reports: the answers of the analytics, for every calendar.  First the   *)
(* calendar and the ranges, then the keys of the cache, then the requests. *)
(***************************************************************************)
\* The months of the calendar.
Months == Len(MonthStarts)

\* The first days of the months: natural numbers, from day 0, ascending.
LEMMA StartFacts ==
    /\ Months \in Nat /\ Months >= 1 /\ DOMAIN MonthStarts = 1..Months
    /\ \A i \in 1..Months : MonthStarts[i] \in Nat
    /\ MonthStarts[1] = 0
    /\ \A i, j \in 1..Months : i < j => MonthStarts[i] < MonthStarts[j]
    /\ \A i, j \in 1..Months : i <= j => MonthStarts[i] <= MonthStarts[j]
<1>1. MonthStarts \in Seq(Nat) /\ MonthStarts # <<>> /\ MonthStarts[1] = 0
  BY CalendarAssumption
<1>2. Months \in Nat /\ DOMAIN MonthStarts = 1..Months
  BY <1>1 DEF Months
<1>3. Months >= 1
  BY <1>1, <1>2 DEF Months
<1>4. \A i \in 1..Months : MonthStarts[i] \in Nat
  BY <1>1, <1>2
<1>5. \A i, j \in 1..Months : i < j => MonthStarts[i] < MonthStarts[j]
  BY <1>2, CalendarAssumption
<1>6. \A i, j \in 1..Months : i <= j => MonthStarts[i] <= MonthStarts[j]
  BY <1>2, <1>4, <1>5
<1> QED BY <1>1, <1>2, <1>3, <1>4, <1>5, <1>6

\* A day has one month: the last that has begun.
LEMMA MonthFacts ==
    ASSUME NEW d \in Nat
    PROVE  /\ MonthOf(d) \in 1..Months /\ MonthStarts[MonthOf(d)] <= d
           /\ \A k \in 1..Months : MonthOf(d) < k => d < MonthStarts[k]
           /\ \A i \in 1..Months : MonthStarts[i] <= d /\ (i = Months \/ d < MonthStarts[i + 1]) => i = MonthOf(d)
           /\ \A i \in 1..Months : MonthStarts[i] <= d => i <= MonthOf(d)
<1> DEFINE P(i) == MonthStarts[i] <= d /\ (i = Months \/ d < MonthStarts[i + 1])
           S == {i \in 1..Months : i = Months \/ d < MonthStarts[i + 1]}
<1>1. S \in SUBSET Nat /\ S # {}
  BY StartFacts
<1>2. PICK m \in S : \A y \in S : m <= y
  <2> HIDE DEF S
  <2> QED BY <1>1, LeastExists
<1>3. P(m)
  <2>1. CASE m = 1
    BY <1>2, <2>1, StartFacts
  <2>2. CASE m # 1
    <3>1. m - 1 \in 1..Months /\ (m - 1) + 1 = m /\ m - 1 # Months
      BY <1>2, <2>2, StartFacts
    <3>2. m - 1 \notin S
      BY <1>2, <3>1
    <3>3. ~(d < MonthStarts[m])
      BY <3>1, <3>2
    <3> QED BY <1>2, <3>3, StartFacts
  <2> QED BY <2>1, <2>2
<1>4. \E i \in DOMAIN MonthStarts : P(i)
  BY <1>2, <1>3, StartFacts
<1>5. MonthOf(d) = CHOOSE i \in DOMAIN MonthStarts : P(i)
  BY DEF MonthOf, Months
<1>6. MonthOf(d) \in 1..Months /\ P(MonthOf(d))
  <2> DEFINE c == CHOOSE i \in DOMAIN MonthStarts : P(i)
  <2>1. c \in DOMAIN MonthStarts /\ P(c)
    BY <1>4
  <2> HIDE DEF c
  <2> QED BY <1>5, <2>1, StartFacts DEF c
<1>7. \A i, j \in 1..Months : P(i) /\ MonthStarts[j] <= d => j <= i
  <2> SUFFICES ASSUME NEW i \in 1..Months, NEW j \in 1..Months, P(i), MonthStarts[j] <= d, i < j PROVE FALSE
    BY StartFacts
  <2>1. i + 1 \in 1..Months /\ i + 1 <= j /\ d < MonthStarts[i + 1]
    BY StartFacts
  <2>2. MonthStarts[i + 1] <= MonthStarts[j]
    BY <2>1, StartFacts
  <2> QED BY <2>1, <2>2, StartFacts
<1> HIDE DEF S
<1>8. \A i \in 1..Months : P(i) => i = MonthOf(d)
  BY <1>6, <1>7, StartFacts
<1>9. \A k \in 1..Months : MonthOf(d) < k => d < MonthStarts[k]
  BY <1>6, <1>7, StartFacts
<1> QED BY <1>6, <1>7, <1>8, <1>9

\* A day of a month, the order of the months, and the first day of a month.
LEMMA MonthOrder ==
    /\ \A d, e \in Nat : d <= e => MonthOf(d) <= MonthOf(e)
    /\ \A i \in 1..Months : MonthOf(MonthStarts[i]) = i
    /\ \A i \in 1..Months, j \in 1..Months, d \in Nat :
          MonthStarts[i] <= d /\ d < MonthStarts[j] => MonthOf(d) \in i..(j - 1)
    /\ \A j \in 2..Months : MonthStarts[j] - 1 \in Nat /\ MonthOf(MonthStarts[j] - 1) = j - 1
<1>1. ASSUME NEW d \in Nat, NEW e \in Nat, d <= e PROVE MonthOf(d) <= MonthOf(e)
  <2>1. MonthOf(d) \in 1..Months /\ MonthStarts[MonthOf(d)] <= d
    BY MonthFacts
  <2>2. MonthStarts[MonthOf(d)] <= e
    BY <1>1, <2>1, StartFacts
  <2> QED BY <2>1, <2>2, MonthFacts
<1>2. ASSUME NEW i \in 1..Months PROVE MonthOf(MonthStarts[i]) = i
  <2>1. MonthStarts[i] \in Nat /\ MonthStarts[i] <= MonthStarts[i]
    BY StartFacts
  <2>2. i = Months \/ MonthStarts[i] < MonthStarts[i + 1]
    BY StartFacts
  <2> QED BY <2>1, <2>2, MonthFacts
<1>3. ASSUME NEW i \in 1..Months, NEW j \in 1..Months, NEW d \in Nat,
             MonthStarts[i] <= d, d < MonthStarts[j]
      PROVE  MonthOf(d) \in i..(j - 1)
  <2>1. /\ MonthOf(d) \in 1..Months /\ MonthStarts[MonthOf(d)] <= d
        /\ i <= MonthOf(d)
    BY <1>3, MonthFacts
  <2>2. ~(j <= MonthOf(d))
    BY <1>3, <2>1, StartFacts
  <2> QED BY <2>1, <2>2, StartFacts
<1>4. ASSUME NEW j \in 2..Months
      PROVE  MonthStarts[j] - 1 \in Nat /\ MonthOf(MonthStarts[j] - 1) = j - 1
  <2>1. j \in 1..Months /\ j - 1 \in 1..Months /\ j - 1 < j
    BY StartFacts
  <2>2. MonthStarts[j] \in Nat /\ MonthStarts[j - 1] \in Nat /\ MonthStarts[j - 1] < MonthStarts[j]
    BY <2>1, StartFacts
  <2>3. MonthStarts[j] - 1 \in Nat /\ MonthStarts[j - 1] <= MonthStarts[j] - 1 /\ MonthStarts[j] - 1 < MonthStarts[j]
    BY <2>2
  <2> DEFINE d == MonthStarts[j] - 1
  <2>4. d \in Nat /\ MonthOf(d) \in (j - 1)..(j - 1)
    BY <1>3, <2>1, <2>3
  <2> QED BY <2>1, <2>4
<1> QED BY <1>1, <1>2, <1>3, <1>4

\* A span of days has a bucket for each of them.
LEMMA DailyBuckets ==
    ASSUME NEW a \in Int, NEW b \in Int, a < b
    PROVE  /\ BucketsOf("daily", Span(a, b)) = a..(b - 1)
           /\ Cardinality(BucketsOf("daily", Span(a, b))) = b - a
<1>1. BucketsOf("daily", Span(a, b)) = a..(b - 1)
  BY DEF BucketsOf, DaysOf, Span, Label
<1>2. b - 1 \in Int /\ ~(a > b - 1)
  OBVIOUS
<1>3. Cardinality(a..(b - 1)) = (b - 1) - a + 1
  BY <1>2, FS_Interval
<1> QED BY <1>1, <1>3

\* A span of whole months has a bucket for each of them, named by its first day.
LEMMA MonthlyBuckets ==
    ASSUME NEW i \in 1..Months, NEW j \in 1..Months, i < j,
           NEW a, NEW b, a = MonthStarts[i], b = MonthStarts[j]
    PROVE  /\ BucketsOf("monthly", Span(a, b)) = {MonthStarts[k] : k \in i..(j - 1)}
           /\ Cardinality(BucketsOf("monthly", Span(a, b))) = j - i
           /\ a \in Nat /\ b \in Nat /\ a < b /\ b - 1 \in Nat
           /\ Label("monthly", a) = a /\ Label("monthly", b) = b
           /\ Label("monthly", b - 1) = MonthStarts[j - 1]
<1> DEFINE K == i..(j - 1)
           T == {MonthStarts[k] : k \in K}
<1>0. /\ i \in Int /\ j \in Int /\ j \in 2..Months /\ K \subseteq 1..Months
      /\ a \in Nat /\ b \in Nat /\ a < b /\ b - 1 \in Nat
  BY StartFacts
<1>1. \A d \in Nat : Label("monthly", d) = MonthStarts[MonthOf(d)]
  BY DEF Label, StartOfUtcMonth
<1>2. /\ Label("monthly", a) = a /\ Label("monthly", b) = b
      /\ Label("monthly", b - 1) = MonthStarts[j - 1]
  BY <1>0, <1>1, MonthOrder
<1>3. BucketsOf("monthly", Span(a, b)) = T
  <2>1. BucketsOf("monthly", Span(a, b)) = {Label("monthly", d) : d \in a..(b - 1)}
    BY DEF BucketsOf, DaysOf, Span
  <2>2. ASSUME NEW d \in a..(b - 1) PROVE Label("monthly", d) \in T
    <3>1. d \in Nat /\ MonthStarts[i] <= d /\ d < MonthStarts[j]
      BY <1>0
    <3>2. MonthOf(d) \in K
      BY <3>1, MonthOrder
    <3> QED BY <1>1, <3>1, <3>2
  <2>3. ASSUME NEW k \in K PROVE \E d \in a..(b - 1) : MonthStarts[k] = Label("monthly", d)
    <3>1. k \in 1..Months /\ i <= k /\ k < j /\ k \in Int
      BY <1>0
    <3>2. MonthStarts[k] \in Nat /\ MonthStarts[i] <= MonthStarts[k] /\ MonthStarts[k] < MonthStarts[j]
      BY <3>1, StartFacts
    <3>3. MonthStarts[k] \in a..(b - 1)
      BY <1>0, <3>2
    <3>4. Label("monthly", MonthStarts[k]) = MonthStarts[k]
      BY <1>1, <3>1, <3>2, MonthOrder
    <3> QED BY <3>3, <3>4
  <2> QED BY <2>1, <2>2, <2>3
<1>4. Cardinality(T) = j - i
  <2> DEFINE f == [k \in K |-> MonthStarts[k]]
  <2>1. f \in Injection(K, T)
    <3>1. f \in [K -> T]
      OBVIOUS
    <3>2. \A k, l \in K : f[k] = f[l] => k = l
      <4>1. \A k, l \in 1..Months : MonthStarts[k] = MonthStarts[l] => k = l
        BY StartFacts
      <4>2. \A k \in K : k \in 1..Months /\ f[k] = MonthStarts[k]
        BY <1>0
      <4> HIDE DEF f, K
      <4> QED BY <4>1, <4>2, Zenon
    <3> QED BY <3>1, <3>2, Zenon DEF Injection, IsInjective
  <2>2. f \in Surjection(K, T)
    BY DEF Surjection
  <2>3. ExistsBijection(K, T)
    BY <2>1, <2>2 DEF ExistsBijection, Bijection
  <2>4. IsFiniteSet(K) /\ Cardinality(K) = (j - 1) - i + 1
    <3>1. j - 1 \in Int /\ ~(i > j - 1)
      BY <1>0
    <3> QED BY <1>0, <3>1, FS_Interval
  <2> HIDE DEF K, T
  <2>5. Cardinality(T) = Cardinality(K)
    BY <2>3, <2>4, FS_Bijection
  <2> QED BY <1>0, <2>4, <2>5
<1> QED BY <1>0, <1>2, <1>3, <1>4

\* A row's bucket is one of a span of whole buckets iff its day is of the span.
LEMMA LabelInSpan ==
    ASSUME NEW i \in 1..Months, NEW j \in 1..Months, NEW d \in Nat
    PROVE  /\ MonthStarts[i] <= d => MonthStarts[i] <= Label("monthly", d)
           /\ d < MonthStarts[j] => Label("monthly", d) < MonthStarts[j]
           /\ Label("monthly", d) \in Nat
           /\ Label("monthly", Label("monthly", d)) = Label("monthly", d)
<1>1. /\ MonthOf(d) \in 1..Months /\ MonthStarts[MonthOf(d)] <= d
      /\ MonthStarts[i] <= d => i <= MonthOf(d)
  BY MonthFacts
<1>2. Label("monthly", d) = MonthStarts[MonthOf(d)]
  BY DEF Label, StartOfUtcMonth
<1>3. MonthStarts[MonthOf(d)] \in Nat /\ MonthOf(MonthStarts[MonthOf(d)]) = MonthOf(d)
  BY <1>1, StartFacts, MonthOrder
<1>4. Label("monthly", Label("monthly", d)) = Label("monthly", d)
  BY <1>2, <1>3 DEF Label, StartOfUtcMonth
<1> QED BY <1>1, <1>2, <1>3, <1>4, StartFacts

\* The constants as the lemmas below use them.
LEMMA ReportConstants ==
    /\ MonthsPerYear \in Nat /\ MonthsPerYear > 0 /\ DefaultDays \in Nat /\ DefaultDays > 0
    /\ DefaultMonths \in Nat /\ DefaultMonths > 0 /\ PresetDays \in Nat /\ PresetDays > 0
    /\ FirstDay..LastDay \subseteq Nat /\ FirstDay \in FirstDay..LastDay
  BY ReportAssumption

\* The year to date.
LEMMA YearDays ==
    ASSUME NEW asOf \in Nat
    PROVE  /\ StartOfYear(asOf) \in Nat /\ StartOfYear(asOf) <= asOf
           /\ {d \in 0..asOf : StartOfYear(d) = StartOfYear(asOf)} = StartOfYear(asOf)..asOf
<1> DEFINE Y == MonthsPerYear
           first(m, k) == k \in Nat /\ k * Y + 1 \in 1..Months /\ k * Y + 1 <= m /\ m < k * Y + 1 + Y
<1>0. Y \in Nat /\ Y > 0
  BY ReportConstants
<1>1. ASSUME NEW m \in 1..Months
      PROVE  first(m, (m - 1) \div Y)
  <2> DEFINE k == (m - 1) \div Y
  <2>1. m - 1 \in Nat /\ m \in Int /\ Months \in Nat /\ m <= Months
    BY StartFacts
  <2>2. k \in Nat /\ k * Y <= m - 1 /\ m - 1 < k * Y + Y
    BY <1>0, <2>1
  <2>3. k * Y \in Nat
    BY <1>0, <2>2
  <2> HIDE DEF k
  <2> QED BY <1>0, <2>1, <2>2, <2>3 DEF k
<1>2. ASSUME NEW m \in 1..Months, NEW k, first(m, k)
      PROVE  (m - 1) \div Y = k
  <2> DEFINE r == m - 1 - k * Y
  <2>1. k * Y \in Nat /\ m \in Int
    BY <1>0, <1>2, StartFacts
  <2>2. k \in Int /\ r \in Int /\ 0 <= r /\ r < Y /\ m - 1 = k * Y + r
    BY <1>0, <1>2, <2>1
  <2> HIDE DEF r
  <2>3. (k * Y + r) \div Y = k
    BY <1>0, <2>2, DivIs
  <2> QED BY <2>2, <2>3
<1>3. ASSUME NEW d \in Nat
      PROVE  \E k : first(MonthOf(d), k) /\ StartOfYear(d) = MonthStarts[k * Y + 1]
                    /\ StartOfYear(d) \in Nat /\ StartOfYear(d) <= d
  <2> DEFINE m == MonthOf(d)
             k == (m - 1) \div Y
  <2>1. m \in 1..Months /\ MonthStarts[m] <= d
    BY MonthFacts
  <2> HIDE DEF m
  <2>2. first(m, k)
    BY <1>1, <2>1
  <2>3. StartOfYear(d) = MonthStarts[k * Y + 1]
    BY DEF StartOfYear, m
  <2> HIDE DEF k
  <2> DEFINE i == k * Y + 1
  <2>4. i \in 1..Months /\ i <= m
    BY <2>2
  <2> HIDE DEF i
  <2>5. MonthStarts[i] \in Nat /\ MonthStarts[i] <= MonthStarts[m]
    BY <2>1, <2>4, StartFacts
  <2>6. MonthStarts[i] <= d
    BY <2>1, <2>5, StartFacts
  <2>7. StartOfYear(d) \in Nat /\ StartOfYear(d) <= d
    BY <2>3, <2>5, <2>6 DEF i
  <2> QED BY <2>2, <2>3, <2>7 DEF m
<1>4. PICK k : /\ first(MonthOf(asOf), k) /\ StartOfYear(asOf) = MonthStarts[k * Y + 1]
               /\ StartOfYear(asOf) \in Nat /\ StartOfYear(asOf) <= asOf
  BY <1>3
<1>5. ASSUME NEW d \in 0..asOf, StartOfYear(d) = StartOfYear(asOf) PROVE d \in StartOfYear(asOf)..asOf
  <2>1. d \in Nat
    OBVIOUS
  <2>2. StartOfYear(d) \in Nat /\ StartOfYear(d) <= d
    BY <1>3, <2>1
  <2> QED BY <1>5, <2>2
<1>6. ASSUME NEW d \in StartOfYear(asOf)..asOf PROVE d \in 0..asOf /\ StartOfYear(d) = StartOfYear(asOf)
  <2>1. d \in Nat /\ d <= asOf /\ StartOfYear(asOf) <= d
    BY <1>4
  <2> DEFINE i == k * Y + 1
  <2>2. i \in 1..Months /\ MonthStarts[i] <= d
    BY <1>4, <2>1
  <2>3. i <= MonthOf(d) /\ MonthOf(d) <= MonthOf(asOf) /\ MonthOf(d) \in 1..Months /\ MonthOf(asOf) \in 1..Months
    BY <2>1, <2>2, MonthFacts, MonthOrder
  <2>4. first(MonthOf(d), k)
    <3>1. MonthOf(d) < k * Y + 1 + Y
      <4>1. k * Y \in Nat
        BY <1>0, <1>4
      <4>2. MonthOf(asOf) < k * Y + 1 + Y
        BY <1>4
      <4> QED BY <1>0, <2>3, <4>1, <4>2
    <3> QED BY <1>4, <2>2, <2>3, <3>1
  <2>5. (MonthOf(d) - 1) \div Y = k
    BY <1>2, <2>3, <2>4
  <2>6. StartOfYear(d) = MonthStarts[k * Y + 1]
    BY <2>5 DEF StartOfYear
  <2> QED BY <1>4, <2>1, <2>6
<1> QED BY <1>4, <1>5, <1>6

\* A window that is not refused.
Windowed(input, asOf, s, e) ==
    /\ s \in Nat /\ e \in Nat /\ s < e /\ e <= MonthStarts[Months]
    /\ MonthOf(e - 1) + 1 < 2 * MonthOf(s)
    /\ ResolveAnalyticsWindow(input, asOf) = Span(s, e)
    /\ \A q : q.input = input => DaysAsked(q, asOf) = s..(e - 1)

\* resolveAnalyticsWindow: a window is exactly the days that were asked about, whatever the preset.
LEMMA WindowFacts ==
    ASSUME NEW input \in RangeInput, NEW asOf \in FirstDay..LastDay,
           ResolveAnalyticsWindow(input, asOf) # Rejected
    PROVE  \/ input = NoInput /\ ResolveAnalyticsWindow(input, asOf) = Undefined
           \/ input # NoInput /\ \E s, e : Windowed(input, asOf, s, e)
<1> DEFINE w == ResolveAnalyticsWindow(input, asOf)
<1>0. /\ asOf \in Nat /\ PresetDays \in Nat /\ PresetDays > 0
      /\ input \in [preset : {"none", "today", "days", "ytd", "custom"}, from : {-1} \cup Nat, to : {-1} \cup Nat]
  BY ReportConstants, ReportAssumption
<1>1. CASE input = NoInput
  <2>1. input.preset = "none" /\ input.from = -1 /\ input.to = -1
    BY <1>1 DEF NoInput
  <2> QED BY <1>1, <2>1 DEF ResolveAnalyticsWindow
<1>2. CASE input # NoInput
  <2>0. ~(input.preset = "none" /\ input.from = -1 /\ input.to = -1)
    BY <1>0, <1>2 DEF NoInput
  <2>1. ASSUME NEW s \in Int, NEW e \in Int, s < e, w = Span(s, e),
               \A q : q.input = input => DaysAsked(q, asOf) = s..(e - 1)
        PROVE  Windowed(input, asOf, s, e)
    <3>1. w # Undefined /\ w.start = s /\ w.endExclusive = e
      BY <2>1 DEF Span, Undefined
    <3>2. /\ 0 <= w.start /\ w.endExclusive <= MonthStarts[Len(MonthStarts)]
          /\ MonthOf(w.endExclusive - 1) + 1 < 2 * MonthOf(w.start)
      BY <3>1, CalendarReaches
    <3> QED BY <2>1, <3>1, <3>2 DEF Windowed, Months
  <2>2. CASE input.preset \in {"today", "days", "ytd"}
    <3> DEFINE s == CASE input.preset = "today" -> asOf
                      [] input.preset = "days" -> asOf - (PresetDays - 1)
                      [] OTHER -> StartOfYear(asOf)
    <3>1. w = IF input.from # -1 \/ input.to # -1 THEN Rejected ELSE Span(s, asOf + 1)
      BY <2>0, <2>2 DEF ResolveAnalyticsWindow
    <3>2. w = Span(s, asOf + 1)
      BY <3>1
    <3>3. s \in Int /\ s <= asOf
      BY <1>0, <2>2, YearDays
    <3>4. ASSUME NEW q, q.input = input PROVE DaysAsked(q, asOf) = s..asOf
      <4>1. CASE input.preset = "today"
        BY <1>0, <3>4, <4>1 DEF DaysAsked
      <4>2. CASE input.preset = "days"
        <5>1. DaysAsked(q, asOf) = {asOf - n : n \in 0..(PresetDays - 1)}
          BY <3>4, <4>2 DEF DaysAsked
        <5>2. \A x \in (asOf - (PresetDays - 1))..asOf : asOf - x \in 0..(PresetDays - 1) /\ x = asOf - (asOf - x)
          BY <1>0
        <5>3. {asOf - n : n \in 0..(PresetDays - 1)} = (asOf - (PresetDays - 1))..asOf
          BY <1>0, <5>2
        <5> QED BY <4>2, <5>1, <5>3
      <4>3. CASE input.preset = "ytd"
        <5>1. DaysAsked(q, asOf) = {d \in 0..asOf : StartOfYear(d) = StartOfYear(asOf)}
          BY <3>4, <4>3 DEF DaysAsked
        <5> QED BY <1>0, <4>3, <5>1, YearDays
      <4> QED BY <2>2, <4>1, <4>2, <4>3
    <3> HIDE DEF s
    <3>5. asOf + 1 \in Int /\ s < asOf + 1 /\ (asOf + 1) - 1 = asOf
      BY <1>0, <3>3
    <3>6. Windowed(input, asOf, s, asOf + 1)
      BY <2>1, <3>2, <3>3, <3>4, <3>5
    <3> QED BY <1>2, <3>6
  <2>3. CASE input.preset \notin {"today", "days", "ytd"}
    <3> DEFINE s == input.from
               e == IF input.to = -1 THEN asOf + 1 ELSE input.to + 1
    <3>1. w = IF input.from = -1 \/ s >= e \/ e > AddUtcYears(s, 1) THEN Rejected ELSE Span(s, e)
      BY <2>0, <2>3 DEF ResolveAnalyticsWindow
    <3>2. w = Span(s, e) /\ s # -1 /\ ~(s >= e)
      BY <3>1
    <3>3. s \in Int /\ e \in Int /\ s < e
      BY <1>0, <3>2
    <3>4. ASSUME NEW q, q.input = input PROVE DaysAsked(q, asOf) = s..(e - 1)
      <4>1. DaysAsked(q, asOf) = input.from..(IF input.to = -1 THEN asOf ELSE input.to)
        BY <2>3, <3>4 DEF DaysAsked
      <4>2. (IF input.to = -1 THEN asOf ELSE input.to) = e - 1
        BY <1>0
      <4> QED BY <4>1, <4>2
    <3> HIDE DEF s, e
    <3>5. Windowed(input, asOf, s, e)
      BY <2>1, <3>2, <3>3, <3>4
    <3> QED BY <1>2, <3>5
  <2> QED BY <2>2, <2>3
<1> QED BY <1>1, <1>2

\* A span of whole buckets.
Whole(period, span, a, b) ==
    /\ a \in Int /\ b \in Int /\ a < b /\ span = Span(a, b)
    /\ period = "monthly" =>
          \E i, j \in 1..Months : i < j /\ a = MonthStarts[i] /\ b = MonthStarts[j]

\* The span before another has as many buckets.
Precedes(period, prev, cur) ==
    /\ prev.endExclusive = cur.start
    /\ Cardinality(BucketsOf(period, prev)) = Cardinality(BucketsOf(period, cur))
    /\ Label(period, prev.start) = prev.start

\* The days of the buckets that meet a window.
MetDays(period, s, e) ==
    {d \in 0..(MonthStarts[Months] - 1) : Label(period, d) \in {Label(period, a) : a \in s..(e - 1)}}

\* From the first day of the first month to the last of the last: the days of the months that a window meets.
LEMMA MonthsMet ==
    ASSUME NEW s \in Nat, NEW e \in Nat, s < e, e <= MonthStarts[Months],
           NEW i, NEW j, i = MonthOf(s), j = MonthOf(e - 1) + 1
    PROVE  /\ i \in 1..Months /\ j \in 1..Months /\ i < j
           /\ MonthStarts[i]..(MonthStarts[j] - 1) = MetDays("monthly", s, e)
<1>1. e - 1 \in Nat /\ s <= e - 1 /\ Months \in 1..Months /\ MonthStarts[Months] \in Nat
  BY StartFacts
<1>2. e - 1 < MonthStarts[Months] /\ MonthStarts[1] <= e - 1 /\ 1 \in 1..Months
  BY <1>1, StartFacts
<1>3. MonthOf(e - 1) \in 1..(Months - 1)
  <2> DEFINE d == e - 1
             m == Months
  <2>1. d \in Nat /\ MonthStarts[1] <= d /\ d < MonthStarts[m] /\ 1 \in 1..Months /\ m \in 1..Months
    BY <1>1, <1>2
  <2> HIDE DEF d, m
  <2>2. MonthOf(d) \in 1..(m - 1)
    BY <2>1, MonthOrder
  <2> QED BY <2>2 DEF d, m
<1>4. i \in 1..Months /\ i <= MonthOf(e - 1)
  BY <1>1, MonthFacts, MonthOrder
<1>5. i \in 1..Months /\ j \in 1..Months /\ i < j /\ j - 1 = MonthOf(e - 1) /\ i \in Int /\ j \in Int
  <2> DEFINE m == MonthOf(e - 1)
  <2>1. m \in 1..(Months - 1) /\ j = m + 1 /\ i \in 1..Months /\ i <= m /\ Months \in Nat
    BY <1>3, <1>4, StartFacts
  <2> HIDE DEF m
  <2>2. j \in 1..Months /\ i < j /\ j - 1 = m /\ i \in Int /\ j \in Int
    BY <2>1
  <2> QED BY <2>1, <2>2 DEF m
<1>6. \A d \in Nat : Label("monthly", d) = MonthStarts[MonthOf(d)]
  BY DEF Label, StartOfUtcMonth
<1>7. ASSUME NEW d \in MonthStarts[i]..(MonthStarts[j] - 1) PROVE d \in MetDays("monthly", s, e)
  <2>1. d \in Nat /\ MonthStarts[i] <= d /\ d < MonthStarts[j] /\ MonthStarts[j] <= MonthStarts[Months]
    BY <1>1, <1>5, StartFacts
  <2>2. d \in 0..(MonthStarts[Months] - 1)
    BY <1>1, <1>5, <2>1, StartFacts
  <2> DEFINE k == MonthOf(d)
  <2>3. k \in 1..Months /\ k \in i..(j - 1) /\ k \in Int
    BY <1>5, <2>1, MonthOrder, MonthFacts
  <2>4. \E a \in s..(e - 1) : a \in Nat /\ MonthOf(a) = k
    <3>1. CASE k = i
      BY <1>1, <3>1
    <3>2. CASE k # i
      <4>1. i < k /\ k <= MonthOf(e - 1)
        BY <1>5, <2>3, <3>2
      <4> HIDE DEF k
      <4>2. MonthStarts[k] \in Nat /\ s < MonthStarts[k]
        BY <2>3, <4>1, MonthFacts, StartFacts
      <4>3. MonthStarts[k] <= MonthStarts[MonthOf(e - 1)] /\ MonthStarts[MonthOf(e - 1)] <= e - 1
            /\ MonthStarts[MonthOf(e - 1)] \in Nat
        <5>1. MonthOf(e - 1) \in 1..Months
          BY <1>1, MonthFacts
        <5> QED BY <1>1, <2>3, <4>1, <5>1, MonthFacts, StartFacts
      <4>4. MonthStarts[k] \in s..(e - 1)
        BY <1>1, <4>2, <4>3
      <4>5. MonthOf(MonthStarts[k]) = k
        BY <2>3, MonthOrder
      <4> QED BY <4>2, <4>4, <4>5
    <3> QED BY <3>1, <3>2
  <2>5. PICK a \in s..(e - 1) : a \in Nat /\ MonthOf(a) = k
    BY <2>4
  <2>6. Label("monthly", d) = Label("monthly", a)
    BY <1>6, <2>1, <2>5
  <2> QED BY <2>2, <2>5, <2>6 DEF MetDays
<1>8. ASSUME NEW d \in MetDays("monthly", s, e) PROVE d \in MonthStarts[i]..(MonthStarts[j] - 1)
  <2>1. PICK a \in s..(e - 1) : Label("monthly", d) = Label("monthly", a)
    BY <1>8 DEF MetDays
  <2>2. d \in Nat /\ a \in Nat /\ s <= a /\ a <= e - 1
    BY <1>1, <1>8 DEF MetDays
  <2>3. MonthOf(a) \in i..(j - 1) /\ MonthOf(a) \in 1..Months
    <3>1. MonthOf(s) <= MonthOf(a) /\ MonthOf(a) <= MonthOf(e - 1) /\ MonthOf(a) \in 1..Months
      BY <1>1, <2>2, MonthOrder, MonthFacts
    <3> QED BY <1>5, <3>1
  <2> DEFINE k == MonthOf(d)
  <2>4. k \in 1..Months /\ MonthStarts[k] <= d /\ (k < j => d < MonthStarts[j])
    BY <1>5, <2>2, MonthFacts
  <2>5. MonthStarts[k] = MonthStarts[MonthOf(a)]
    BY <1>6, <2>1, <2>2
  <2>6. k = MonthOf(a)
    BY <2>3, <2>4, <2>5, StartFacts
  <2>7. i <= k /\ k < j
    BY <1>5, <2>3, <2>6
  <2> HIDE DEF k
  <2>8. MonthStarts[i] <= MonthStarts[k] /\ MonthStarts[i] \in Nat /\ MonthStarts[k] \in Nat /\ MonthStarts[j] \in Nat
    BY <1>5, <2>4, <2>7, StartFacts
  <2> QED BY <2>2, <2>4, <2>7, <2>8
<1> QED BY <1>5, <1>7, <1>8

\* resolveWindowPeriods.
LEMMA WindowPeriods ==
    ASSUME NEW s \in Nat, NEW e \in Nat, s < e, e <= MonthStarts[Months],
           MonthOf(e - 1) + 1 < 2 * MonthOf(s), NEW period \in {"daily", "monthly"}
    PROVE  LET r == ResolveWindowPeriods(period, Span(s, e)) IN
           /\ \E a, b : Whole(period, r.current, a, b) /\ a..(b - 1) = MetDays(period, s, e)
           /\ Precedes(period, r.previous, r.current)
<1> DEFINE r == ResolveWindowPeriods(period, Span(s, e))
<1>1. CASE period = "daily"
  <2>1. r = [current |-> Span(s, e), previous |-> Span(s - (e - s), s)]
    BY <1>1 DEF ResolveWindowPeriods, Span
  <2> DEFINE p == s - (e - s)
  <2>2. p \in Int /\ p < s /\ s - p = e - s
    OBVIOUS
  <2> HIDE DEF p
  <2>3. /\ Cardinality(BucketsOf("daily", Span(s, e))) = e - s
        /\ Cardinality(BucketsOf("daily", Span(p, s))) = s - p
    BY <2>2, DailyBuckets
  <2>4. Precedes("daily", Span(p, s), Span(s, e))
    BY <2>2, <2>3 DEF Precedes, Span, Label
  <2>5. s..(e - 1) = MetDays("daily", s, e)
    BY StartFacts DEF MetDays, Label
  <2>6. Whole("daily", Span(s, e), s, e)
    BY DEF Whole
  <2> QED BY <1>1, <2>1, <2>4, <2>5, <2>6 DEF p
<1>2. CASE period = "monthly"
  <2> DEFINE i == MonthOf(s)
             j == MonthOf(e - 1) + 1
             h == 2 * i - j
  <2>1. /\ i \in 1..Months /\ j \in 1..Months /\ i < j
        /\ MonthStarts[i]..(MonthStarts[j] - 1) = MetDays("monthly", s, e)
    BY MonthsMet
  <2>2. e - 1 \in Nat /\ MonthOf(e - 1) \in 1..Months
    BY MonthFacts
  <2>3. MonthOf(MonthStarts[MonthOf(e - 1)]) = MonthOf(e - 1)
    BY <2>2, MonthOrder
  <2>4. /\ MonthOf(MonthStarts[i]) = i /\ MonthOf(MonthStarts[j]) = j
        /\ MonthStarts[i] \in Nat /\ MonthStarts[j] \in Nat /\ MonthStarts[i] < MonthStarts[j]
    BY <2>1, MonthOrder, StartFacts
  <2>5. Span(s, e).start = s /\ Span(s, e).endExclusive = e
    BY DEF Span
  <2>6. r.current = Span(MonthStarts[i], MonthStarts[j])
    BY <1>2, <2>3, <2>5 DEF ResolveWindowPeriods, StartOfUtcMonth, AddUtcMonths
  <2>7. h \in 1..Months /\ h < i /\ i - h = j - i /\ i \in Int /\ j \in Int /\ h \in Int
        /\ i + (i - j) = h
    <3>1. i \in Nat /\ j \in Nat /\ j < 2 * i /\ i <= Months /\ Months \in Nat
      BY <2>1, StartFacts
    <3> HIDE DEF i, j
    <3> QED BY <2>1, <3>1
  <2>8. r.previous = Span(MonthStarts[h], MonthStarts[i])
    <3> DEFINE c == Span(MonthStarts[i], MonthStarts[j])
    <3>1. c.start = MonthStarts[i] /\ c.endExclusive = MonthStarts[j]
      BY DEF Span
    <3>2. r.previous = Span(AddUtcMonths(r.current.start, MonthOf(r.current.start) - MonthOf(r.current.endExclusive)),
                            r.current.start)
      BY <1>2 DEF ResolveWindowPeriods
    <3>3. r.previous = Span(AddUtcMonths(MonthStarts[i], MonthOf(MonthStarts[i]) - MonthOf(MonthStarts[j])), MonthStarts[i])
      BY <2>6, <3>1, <3>2
    <3> HIDE DEF i, j, h, r
    <3>4. AddUtcMonths(MonthStarts[i], i - j) = MonthStarts[h]
      BY <2>4, <2>7 DEF AddUtcMonths
    <3> QED BY <2>4, <3>3, <3>4
  <2> DEFINE a == MonthStarts[i]
             b == MonthStarts[j]
             p == MonthStarts[h]
  <2> HIDE DEF i, j, h, r
  <2>9. /\ Cardinality(BucketsOf("monthly", Span(a, b))) = j - i
        /\ Cardinality(BucketsOf("monthly", Span(p, a))) = i - h
        /\ Label("monthly", p) = p
    BY <2>1, <2>7, MonthlyBuckets
  <2>10. Precedes("monthly", Span(p, a), Span(a, b))
    BY <2>7, <2>9 DEF Precedes, Span
  <2>11. Whole("monthly", Span(a, b), a, b)
    BY <2>1, <2>4 DEF Whole
  <2> QED BY <1>2, <2>1, <2>6, <2>8, <2>10, <2>11 DEF r
<1> QED BY <1>1, <1>2

\* The last buckets up to that of a day.
Latest(period, span, asOf, n) ==
    /\ Label(period, span.endExclusive - 1) = Label(period, asOf)
    /\ span.start = Label(period, span.start)
    /\ span.endExclusive = Label(period, span.endExclusive)
    /\ Cardinality(BucketsOf(period, span)) = n

\* The last n days, and the n days before them.
LEMMA LastDays ==
    ASSUME NEW asOf \in Int, NEW n \in Nat, n > 0, NEW a, NEW p, a = asOf - (n - 1), p = a - n
    PROVE  /\ Whole("daily", Span(a, asOf + 1), a, asOf + 1)
           /\ Latest("daily", Span(a, asOf + 1), asOf, n)
           /\ Precedes("daily", Span(p, a), Span(a, asOf + 1))
<1>1. a \in Int /\ p \in Int /\ p < a /\ a < asOf + 1 /\ asOf + 1 \in Int /\ (asOf + 1) - a = n /\ a - p = n
      /\ (asOf + 1) - 1 = asOf
  OBVIOUS
<1> DEFINE b == asOf + 1
<1>2. a \in Int /\ p \in Int /\ b \in Int /\ p < a /\ a < b /\ b - a = n /\ a - p = n /\ b - 1 = asOf
  BY <1>1
<1> HIDE DEF b
<1>3. /\ Cardinality(BucketsOf("daily", Span(a, b))) = n
      /\ Cardinality(BucketsOf("daily", Span(p, a))) = n
  BY <1>2, DailyBuckets
<1>4. Whole("daily", Span(a, b), a, b)
  BY <1>2 DEF Whole
<1>5. Latest("daily", Span(a, b), asOf, n)
  BY <1>2, <1>3 DEF Latest, Label, Span
<1>6. Precedes("daily", Span(p, a), Span(a, b))
  BY <1>2, <1>3 DEF Precedes, Label, Span
<1> QED BY <1>4, <1>5, <1>6 DEF b

\* The last n months, and the n months before them.
LEMMA LastMonths ==
    ASSUME NEW asOf \in Nat, NEW n \in Nat, n > 0, NEW m, m = MonthOf(asOf), 2 * n <= m, m <= Months - 1,
           NEW i, NEW h, i = m - (n - 1), h = i - n,
           NEW a, NEW b, NEW p, a = MonthStarts[i], b = MonthStarts[m + 1], p = MonthStarts[h]
    PROVE  /\ Whole("monthly", Span(a, b), a, b)
           /\ Latest("monthly", Span(a, b), asOf, n)
           /\ Precedes("monthly", Span(p, a), Span(a, b))
<1> DEFINE j == m + 1
<1>1. m \in 1..Months /\ Months \in Nat
  BY MonthFacts, StartFacts
<1>2. /\ i \in 1..Months /\ h \in 1..Months /\ j \in 1..Months /\ h < i /\ i < j
      /\ j - i = n /\ i - h = n /\ j - 1 = m
  BY <1>1
<1> HIDE DEF j
<1>3. b = MonthStarts[j]
  BY DEF j
<1>4. /\ Cardinality(BucketsOf("monthly", Span(a, b))) = j - i
      /\ a \in Nat /\ b \in Nat /\ a < b
      /\ Label("monthly", a) = a /\ Label("monthly", b) = b
      /\ Label("monthly", b - 1) = MonthStarts[j - 1]
  <2>1. i \in 1..Months /\ j \in 1..Months /\ i < j /\ a = MonthStarts[i] /\ b = MonthStarts[j]
    BY <1>2, <1>3
  <2> QED BY <2>1, MonthlyBuckets
<1>5. Cardinality(BucketsOf("monthly", Span(p, a))) = i - h /\ Label("monthly", p) = p
  <2>1. h \in 1..Months /\ i \in 1..Months /\ h < i /\ p = MonthStarts[h] /\ a = MonthStarts[i]
    BY <1>2
  <2> QED BY <2>1, MonthlyBuckets
<1>6. Label("monthly", asOf) = MonthStarts[m]
  BY DEF Label, StartOfUtcMonth
<1>7. Whole("monthly", Span(a, b), a, b)
  BY <1>2, <1>3, <1>4 DEF Whole
<1>8. Latest("monthly", Span(a, b), asOf, n)
  BY <1>2, <1>4, <1>6 DEF Latest, Span
<1>9. Precedes("monthly", Span(p, a), Span(a, b))
  BY <1>2, <1>4, <1>5 DEF Precedes, Span
<1> QED BY <1>7, <1>8, <1>9

\* How many buckets a default range has.
DefaultCount(period) == IF period = "daily" THEN DefaultDays ELSE DefaultMonths

\* The defaults: resolveDateRange, resolveRevenueRanges, periodBounds, trailing.
LEMMA DefaultRanges ==
    ASSUME NEW asOf \in FirstDay..LastDay, NEW period \in {"daily", "monthly"}
    PROVE  /\ \E a, b : Whole(period, ResolveDateRange(period, asOf), a, b)
           /\ Latest(period, ResolveDateRange(period, asOf), asOf, DefaultCount(period))
           /\ LET r == ResolveRevenueRanges(period, asOf) IN
              /\ \E a, b : Whole(period, r.current, a, b)
              /\ Latest(period, r.current, asOf, DefaultCount(period))
              /\ Precedes(period, r.previous, r.current)
           /\ LET r == PeriodBounds(period, asOf) IN
              /\ \E a, b : Whole(period, r.current, a, b)
              /\ Latest(period, r.current, asOf, 1)
              /\ Precedes(period, r.previous, r.current)
<1>0. asOf \in Nat /\ asOf \in Int
  BY ReportConstants
<1>1. CASE period = "daily"
  <2> DEFINE n == DefaultDays
             a == asOf - (n - 1)
             p == a - n
  <2>1. n \in Nat /\ n > 0
    BY ReportConstants
  <2>2. ResolveDateRange("daily", asOf) = Span(a, asOf + 1)
    BY DEF ResolveDateRange
  <2>3. /\ ResolveRevenueRanges("daily", asOf).current = Span(a, asOf + 1)
        /\ ResolveRevenueRanges("daily", asOf).previous = Span(p, a)
    <3>1. a - (asOf - a + 1) = p
      BY <1>0, <2>1
    <3> QED BY <3>1 DEF ResolveRevenueRanges
  <2>4. /\ PeriodBounds("daily", asOf).current = Span(asOf, asOf + 1)
        /\ PeriodBounds("daily", asOf).previous = Span(asOf - 1, asOf)
    BY DEF PeriodBounds
  <2> HIDE DEF n
  <2>5. /\ Whole("daily", Span(a, asOf + 1), a, asOf + 1)
        /\ Latest("daily", Span(a, asOf + 1), asOf, n)
        /\ Precedes("daily", Span(p, a), Span(a, asOf + 1))
    BY <1>0, <2>1, LastDays
  <2>6. /\ Whole("daily", Span(asOf, asOf + 1), asOf, asOf + 1)
        /\ Latest("daily", Span(asOf, asOf + 1), asOf, 1)
        /\ Precedes("daily", Span(asOf - 1, asOf), Span(asOf, asOf + 1))
    <3>1. 1 \in Nat /\ 1 > 0 /\ asOf = asOf - (1 - 1)
      BY <1>0
    <3> QED BY <1>0, <3>1, LastDays
  <2>7. DefaultCount("daily") = n
    BY DEF DefaultCount, n
  <2> HIDE DEF a, p
  <2> QED BY <1>1, <2>2, <2>3, <2>4, <2>5, <2>6, <2>7
<1>2. CASE period = "monthly"
  <2> DEFINE n == DefaultMonths
             m == MonthOf(asOf)
             i == m - (n - 1)
             h == i - n
             a == MonthStarts[i]
             b == MonthStarts[m + 1]
             p == MonthStarts[h]
  <2>1. n \in Nat /\ n > 0 /\ m \in (2 * n)..(Months - 1) /\ Months \in Nat
    BY ReportConstants, CalendarReaches, StartFacts DEF Months
  <2>2. /\ m \in 1..Months /\ i \in 1..Months /\ h \in 1..Months /\ m - 1 \in 1..Months
        /\ m + (-(n - 1)) = i /\ m + (-1) = m - 1 /\ i + (-(m - i + 1)) = h /\ 2 * 1 <= m
    <3> HIDE DEF n, m
    <3> QED BY <2>1
  <2>3. MonthOf(MonthStarts[m]) = m /\ MonthOf(MonthStarts[i]) = i
    BY <2>2, MonthOrder
  <2>4. /\ AddUtcMonths(asOf, -(n - 1)) = a /\ AddUtcMonths(asOf, 1) = b /\ StartOfUtcMonth(asOf) = MonthStarts[m]
        /\ AddUtcMonths(MonthStarts[m], -(n - 1)) = a /\ AddUtcMonths(MonthStarts[m], 1) = b
        /\ AddUtcMonths(a, -(m - i + 1)) = p /\ AddUtcMonths(asOf, -1) = MonthStarts[m - 1]
    <3>1. \A d, k : AddUtcMonths(d, k) = MonthStarts[MonthOf(d) + k]
      BY DEF AddUtcMonths
    <3>2. StartOfUtcMonth(asOf) = MonthStarts[m]
      BY DEF StartOfUtcMonth
    <3>3. MonthOf(asOf) = m
      OBVIOUS
    <3> HIDE DEF n, m, i, h
    <3> QED BY <2>2, <2>3, <3>1, <3>2, <3>3
  <2>5. ResolveDateRange("monthly", asOf) = Span(a, b)
    BY <2>4 DEF ResolveDateRange
  <2>6. /\ ResolveRevenueRanges("monthly", asOf).current = Span(a, b)
        /\ ResolveRevenueRanges("monthly", asOf).previous = Span(p, a)
    <3> DEFINE end == StartOfUtcMonth(asOf)
               start == AddUtcMonths(end, -(DefaultMonths - 1))
    <3>1. end = MonthStarts[m] /\ start = a
      BY <2>4
    <3>2. ResolveRevenueRanges("monthly", asOf) =
            [current |-> Span(start, AddUtcMonths(end, 1)),
             previous |-> Span(AddUtcMonths(start, -(MonthOf(end) - MonthOf(start) + 1)), start)]
      BY DEF ResolveRevenueRanges
    <3>3. MonthOf(end) = m /\ MonthOf(start) = i
      BY <2>3, <3>1
    <3> HIDE DEF end, start
    <3> QED BY <2>4, <3>1, <3>2, <3>3
  <2>7. /\ PeriodBounds("monthly", asOf).current = Span(MonthStarts[m], b)
        /\ PeriodBounds("monthly", asOf).previous = Span(MonthStarts[m - 1], MonthStarts[m])
    BY <2>4 DEF PeriodBounds
  <2>8. DefaultCount("monthly") = n
    BY DEF DefaultCount
  <2> HIDE DEF n
  <2>9. /\ Whole("monthly", Span(a, b), a, b)
        /\ Latest("monthly", Span(a, b), asOf, n)
        /\ Precedes("monthly", Span(p, a), Span(a, b))
    <3>1. 2 * n <= m /\ m <= Months - 1
      BY <2>1
    <3> QED BY <1>0, <2>1, <3>1, LastMonths
  <2>10. /\ Whole("monthly", Span(MonthStarts[m], b), MonthStarts[m], b)
         /\ Latest("monthly", Span(MonthStarts[m], b), asOf, 1)
         /\ Precedes("monthly", Span(MonthStarts[m - 1], MonthStarts[m]), Span(MonthStarts[m], b))
    <3>1. 2 * 1 <= m /\ m <= Months - 1 /\ 1 \in Nat /\ 1 > 0 /\ m = m - (1 - 1)
      BY <2>1, <2>2
    <3> QED BY <1>0, <2>1, <3>1, LastMonths
  <2> HIDE DEF a, b, p
  <2> QED BY <1>2, <2>5, <2>6, <2>7, <2>8, <2>9, <2>10
<1> QED BY <1>1, <1>2

\* The fields of a question.
LEMMA QuestionFacts ==
    ASSUME NEW q \in Question
    PROVE  /\ q.endpoint \in {"volume", "revenue", "comparison", "networks", "merchants"}
           /\ q.period \in {"daily", "monthly"}
           /\ q.endpoint # "merchants" => q.input \in RangeInput
           /\ q.endpoint = "merchants" => q.input = NoInput /\ q.period = "daily"
<1>1. q \in ScopedQuestion \/ q \in MerchantQuestion \/ q \in SignupQuestion
  BY DEF Question
<1> QED BY <1>1 DEF ScopedQuestion, MerchantQuestion, SignupQuestion, Questions

\* The window of a question that is answered.
LEMMA QuestionWindow ==
    ASSUME NEW q \in Question, NEW asOf \in FirstDay..LastDay, Ranges(q, asOf).current # Rejected,
           NEW w, w = ResolveAnalyticsWindow(q.input, asOf)
    PROVE  /\ w # Rejected
           /\ \/ q.input = NoInput /\ w = Undefined
              \/ /\ q.input # NoInput /\ q.endpoint # "merchants" /\ w # Undefined
                 /\ \E s, e : Windowed(q.input, asOf, s, e)
<1>1. w # Rejected
  BY DEF Ranges, Alone
<1>2. CASE q.endpoint = "merchants"
  <2>1. q.input = NoInput
    BY <1>2, QuestionFacts
  <2>2. w = Undefined
    BY <2>1 DEF ResolveAnalyticsWindow, NoInput
  <2> QED BY <1>1, <2>1, <2>2
<1>3. CASE q.endpoint # "merchants"
  <2>1. q.input \in RangeInput
    BY <1>3, QuestionFacts
  <2>2. \/ q.input = NoInput /\ w = Undefined
        \/ q.input # NoInput /\ \E s, e : Windowed(q.input, asOf, s, e)
    BY <1>1, <2>1, WindowFacts
  <2>3. ASSUME NEW s, NEW e, Windowed(q.input, asOf, s, e) PROVE w # Undefined
    <3>1. s \in Nat /\ e \in Nat /\ s < e /\ w = Span(s, e)
      BY <2>3 DEF Windowed
    <3> QED BY <3>1 DEF Span, Undefined
  <2> QED BY <1>1, <1>3, <2>2, <2>3
<1> QED BY <1>2, <1>3

\* The spans of an answer.
LEMMA RangesFit ==
    ASSUME NEW q \in Question, NEW asOf \in FirstDay..LastDay, Ranges(q, asOf).current # Rejected,
           NEW r, r = Ranges(q, asOf)
    PROVE  /\ SpanFits(q, r.current, asOf)
           /\ r.current.start \in Int /\ r.current.endExclusive \in Int
           /\ q.endpoint # "networks" => \E a, b : Whole(q.period, r.current, a, b)
           /\ q.endpoint \in {"revenue", "comparison"} => Precedes(q.period, r.previous, r.current)
<1> DEFINE w == ResolveAnalyticsWindow(q.input, asOf)
           period == q.period
<1>0. \A span, a, b : Whole(period, span, a, b) => span.start \in Int /\ span.endExclusive \in Int
  BY DEF Whole, Span
<1>1. w # Rejected
  BY QuestionWindow
<1>2. /\ q.endpoint \in {"volume", "revenue", "comparison", "networks", "merchants"}
      /\ period \in {"daily", "monthly"}
  BY QuestionFacts
<1>3. CASE q.input = NoInput
  <2>1. w = Undefined
    BY <1>3, QuestionWindow
  <2>2. ASSUME NEW span, NEW n, Latest(period, span, asOf, n), q.endpoint # "networks",
               n = IF q.endpoint = "comparison" THEN 1 ELSE DefaultCount(period)
        PROVE  SpanFits(q, span, asOf)
    BY <1>3, <2>2 DEF SpanFits, Latest, DefaultCount
  <2>3. CASE q.endpoint = "networks"
    <3>1. r.current = Undefined
      BY <1>1, <2>1, <2>3 DEF Ranges, Alone
    <3> QED BY <1>3, <2>3, <3>1 DEF SpanFits, Undefined, Span
  <2>4. CASE q.endpoint = "volume"
    <3>1. r.current = ResolveDateRange(period, asOf)
      BY <1>1, <2>1, <2>4 DEF Ranges, VolumeRanges, Alone
    <3>2. (\E a, b : Whole(period, r.current, a, b)) /\ Latest(period, r.current, asOf, DefaultCount(period))
      BY <1>2, <3>1, DefaultRanges
    <3>3. SpanFits(q, r.current, asOf)
      BY <2>2, <2>4, <3>2
    <3> QED BY <1>0, <2>4, <3>2, <3>3
  <2>5. CASE q.endpoint = "revenue"
    <3>1. r = ResolveRevenueRanges(period, asOf)
      BY <1>1, <2>1, <2>5 DEF Ranges, RevenueRanges
    <3>2. /\ \E a, b : Whole(period, r.current, a, b)
          /\ Latest(period, r.current, asOf, DefaultCount(period))
          /\ Precedes(period, r.previous, r.current)
      BY <1>2, <3>1, DefaultRanges
    <3>3. SpanFits(q, r.current, asOf)
      BY <2>2, <2>5, <3>2
    <3> QED BY <1>0, <3>2, <3>3
  <2>6. CASE q.endpoint = "comparison"
    <3>1. r = PeriodBounds(period, asOf)
      BY <1>1, <2>1, <2>6 DEF Ranges, ComparisonRanges
    <3>2. /\ \E a, b : Whole(period, r.current, a, b)
          /\ Latest(period, r.current, asOf, 1)
          /\ Precedes(period, r.previous, r.current)
      BY <1>2, <3>1, DefaultRanges
    <3>3. SpanFits(q, r.current, asOf)
      BY <2>2, <2>6, <3>2
    <3> QED BY <1>0, <3>2, <3>3
  <2>7. CASE q.endpoint = "merchants"
    <3>0. period = "daily"
      BY <2>7, QuestionFacts
    <3>1. r.current = ResolveDateRange(period, asOf)
      BY <1>1, <2>1, <2>7, <3>0 DEF Ranges, Trailing, Alone, ResolveDateRange
    <3>2. (\E a, b : Whole(period, r.current, a, b)) /\ Latest(period, r.current, asOf, DefaultCount(period))
      BY <1>2, <3>1, DefaultRanges
    <3>3. SpanFits(q, r.current, asOf)
      BY <2>2, <2>7, <3>2
    <3> QED BY <1>0, <2>7, <3>2, <3>3
  <2> QED BY <1>2, <2>3, <2>4, <2>5, <2>6, <2>7
<1>4. CASE q.input # NoInput
  <2>1. PICK s, e : Windowed(q.input, asOf, s, e)
    BY <1>4, QuestionWindow
  <2>2. /\ s \in Nat /\ e \in Nat /\ s < e /\ e <= MonthStarts[Months]
        /\ MonthOf(e - 1) + 1 < 2 * MonthOf(s)
        /\ w = Span(s, e) /\ DaysAsked(q, asOf) = s..(e - 1)
    BY <2>1 DEF Windowed
  <2>3. w # Undefined /\ q.endpoint # "merchants"
    BY <1>4, QuestionWindow
  <2> DEFINE z == ResolveWindowPeriods(period, Span(s, e))
  <2>4. /\ \E a, b : Whole(period, z.current, a, b) /\ a..(b - 1) = MetDays(period, s, e)
        /\ Precedes(period, z.previous, z.current)
    BY <1>2, <2>2, WindowPeriods
  <2>5. CASE q.endpoint = "networks"
    <3>1. r.current = Span(s, e)
      BY <1>1, <2>2, <2>5 DEF Ranges, Alone
    <3>2. DaysOf(Span(s, e)) = s..(e - 1) /\ Span(s, e).start = s /\ Span(s, e).endExclusive = e
      BY DEF DaysOf, Span
    <3>3. SpanFits(q, Span(s, e), asOf)
      BY <1>4, <2>2, <2>5, <3>2 DEF SpanFits
    <3> QED BY <2>2, <2>5, <3>1, <3>2, <3>3
  <2>6. ASSUME q.endpoint # "networks", r.current = z.current PROVE SpanFits(q, r.current, asOf)
    <3>1. PICK a, b : Whole(period, z.current, a, b) /\ a..(b - 1) = MetDays(period, s, e)
      BY <2>4
    <3>2. DaysOf(r.current) = MetDays(period, s, e)
      <4>1. z.current = Span(a, b)
        BY <3>1 DEF Whole
      <4>2. DaysOf(Span(a, b)) = a..(b - 1)
        BY DEF DaysOf, Span
      <4> QED BY <2>6, <3>1, <4>1, <4>2
    <3>3. MetDays(period, s, e) =
            {d \in 0 .. MonthStarts[Len(MonthStarts)] - 1 :
                Label(period, d) \in {Label(period, a_1) : a_1 \in DaysAsked(q, asOf)}}
      BY <2>2, Zenon DEF MetDays, Months
    <3> HIDE DEF z
    <3> QED BY <1>4, <2>6, <3>2, <3>3, Zenon DEF SpanFits
  <2> HIDE DEF z
  <2>7. CASE q.endpoint = "volume"
    <3>1. r.current = z.current
      BY <1>1, <2>2, <2>3, <2>7 DEF Ranges, VolumeRanges, Alone, z
    <3> QED BY <1>0, <2>4, <2>6, <2>7, <3>1
  <2>8. CASE q.endpoint = "revenue"
    <3>1. r = z
      BY <1>1, <2>2, <2>3, <2>8 DEF Ranges, RevenueRanges, z
    <3> QED BY <1>0, <2>4, <2>6, <2>8, <3>1
  <2>9. CASE q.endpoint = "comparison"
    <3>1. r = z
      BY <1>1, <2>2, <2>3, <2>9 DEF Ranges, ComparisonRanges, z
    <3> QED BY <1>0, <2>4, <2>6, <2>9, <3>1
  <2> QED BY <1>2, <2>3, <2>5, <2>7, <2>8, <2>9
<1> QED BY <1>3, <1>4

\* A comparison without a window takes its bounds from the clock of the fetch.
ByClock(q) == q.endpoint = "comparison" /\ q.input = NoInput

\* The spans that an answer is fetched with, by the day of the question and that of the fetch.
SpansOf(q, asOf, on) == Ranges(q, IF ByClock(q) THEN on ELSE asOf)

\* The questions under one key have the same scope, endpoint, period and spans.
LEMMA KeyDecides ==
    ASSUME NEW q \in Question, NEW u \in Question, NEW m \in FirstDay..LastDay, NEW n \in FirstDay..LastDay,
           Ranges(q, m).current # Rejected, Ranges(u, n).current # Rejected,
           AnalyticsCacheKey(q, m) = AnalyticsCacheKey(u, n), NEW on
    PROVE  /\ q.scope = u.scope /\ q.endpoint = u.endpoint /\ q.period = u.period
           /\ ByClock(q) <=> ByClock(u)
           /\ SpansOf(q, m, on) = SpansOf(u, n, on)
<1> DEFINE part(x, k) == CASE x.endpoint = "volume" -> <<Ranges(x, k).current>>
                           [] x.endpoint = "revenue" -> <<Ranges(x, k).current, Ranges(x, k).previous>>
                           [] x.endpoint = "merchants" -> <<Span(k, k)>>
                           [] OTHER -> <<ResolveAnalyticsWindow(x.input, k)>>
           wq == ResolveAnalyticsWindow(q.input, m)
           wu == ResolveAnalyticsWindow(u.input, n)
<1>1. \A x, k : AnalyticsCacheKey(x, k) = <<x.scope, x.endpoint, x.period, part(x, k)>>
  BY DEF AnalyticsCacheKey
<1>2. q.scope = u.scope /\ q.endpoint = u.endpoint /\ q.period = u.period /\ part(q, m) = part(u, n)
  <2> DEFINE a == part(q, m)
             b == part(u, n)
  <2>1. <<q.scope, q.endpoint, q.period, a>> = <<u.scope, u.endpoint, u.period, b>>
    BY <1>1
  <2> HIDE DEF a, b
  <2>2. q.scope = u.scope /\ q.endpoint = u.endpoint /\ q.period = u.period /\ a = b
    BY <2>1
  <2> QED BY <2>2 DEF a, b
<1>3. /\ wq # Rejected /\ wu # Rejected
      /\ q.input = NoInput <=> wq = Undefined
      /\ u.input = NoInput <=> wu = Undefined
  BY QuestionWindow
<1>4. q.endpoint \in {"volume", "revenue", "comparison", "networks", "merchants"}
  BY QuestionFacts
<1>5. CASE q.endpoint = "volume"
  <2>1. Ranges(q, m) = Alone(Ranges(q, m).current) /\ Ranges(u, n) = Alone(Ranges(u, n).current)
    BY <1>2, <1>3, <1>5 DEF Ranges, VolumeRanges, Alone
  <2> DEFINE a == Ranges(q, m).current
             b == Ranges(u, n).current
  <2>2. part(q, m) = <<a>> /\ part(u, n) = <<b>>
    BY <1>2, <1>5
  <2>3. <<a>> = <<b>>
    BY <1>2, <2>2
  <2>4. Ranges(q, m) = Alone(a) /\ Ranges(u, n) = Alone(b)
    BY <2>1
  <2> HIDE DEF a, b, part
  <2>5. a = b
    BY <2>3
  <2>6. ~ByClock(q) /\ ~ByClock(u)
    BY <1>2, <1>5 DEF ByClock
  <2> QED BY <1>2, <2>4, <2>5, <2>6 DEF SpansOf
<1>6. CASE q.endpoint = "revenue"
  <2> DEFINE a == Ranges(q, m)
             b == Ranges(u, n)
  <2>1. /\ a = [current |-> a.current, previous |-> a.previous]
        /\ b = [current |-> b.current, previous |-> b.previous]
    <3>1. /\ a = RevenueRanges(q.period, wq, m) /\ b = RevenueRanges(u.period, wu, n)
      BY <1>2, <1>3, <1>6 DEF Ranges
    <3>2. \A p, k : ResolveWindowPeriods(p, k) =
             [current |-> ResolveWindowPeriods(p, k).current, previous |-> ResolveWindowPeriods(p, k).previous]
      BY DEF ResolveWindowPeriods
    <3>3. \A p, k : ResolveRevenueRanges(p, k) =
             [current |-> ResolveRevenueRanges(p, k).current, previous |-> ResolveRevenueRanges(p, k).previous]
      BY DEF ResolveRevenueRanges
    <3> HIDE DEF a, b, wq, wu
    <3> QED BY <3>1, <3>2, <3>3 DEF RevenueRanges
  <2>2. part(q, m) = <<a.current, a.previous>> /\ part(u, n) = <<b.current, b.previous>>
    BY <1>2, <1>6
  <2>3. <<a.current, a.previous>> = <<b.current, b.previous>>
    BY <1>2, <2>2
  <2> DEFINE a1 == a.current
             a2 == a.previous
             b1 == b.current
             b2 == b.previous
  <2>4. <<a1, a2>> = <<b1, b2>>
    BY <2>3
  <2> HIDE DEF a1, a2, b1, b2
  <2>5. a1 = b1 /\ a2 = b2
    BY <2>4
  <2> HIDE DEF a, b, part
  <2>6. a = b
    BY <2>1, <2>5 DEF a1, a2, b1, b2
  <2>7. ~ByClock(q) /\ ~ByClock(u)
    BY <1>2, <1>6 DEF ByClock
  <2> QED BY <1>2, <2>6, <2>7 DEF SpansOf, a, b
<1>7. CASE q.endpoint = "merchants"
  <2>1. part(q, m) = <<Span(m, m)>> /\ part(u, n) = <<Span(n, n)>>
    BY <1>2, <1>7
  <2>2. <<Span(m, m)>> = <<Span(n, n)>>
    BY <1>2, <2>1
  <2>3. m = n
    BY <2>2 DEF Span
  <2>4. Ranges(q, m) = Trailing(m) /\ Ranges(u, n) = Trailing(n)
    BY <1>2, <1>3, <1>7 DEF Ranges
  <2>5. ~ByClock(q) /\ ~ByClock(u)
    BY <1>2, <1>7 DEF ByClock
  <2> HIDE DEF part
  <2> QED BY <1>2, <2>3, <2>4, <2>5 DEF SpansOf
<1>8. CASE q.endpoint \in {"comparison", "networks"}
  <2>1. part(q, m) = <<wq>> /\ part(u, n) = <<wu>>
    BY <1>2, <1>8
  <2>2. <<wq>> = <<wu>>
    BY <1>2, <2>1
  <2> HIDE DEF part
  <2>3. wq = wu
    <3> HIDE DEF wq, wu
    <3> QED BY <2>2
  <2>4. ByClock(q) <=> ByClock(u)
    <3>1. q.input = NoInput <=> u.input = NoInput
      BY <1>3, <2>3
    <3> QED BY <1>2, <3>1 DEF ByClock
  <2>5. CASE q.endpoint = "networks"
    <3>1. Ranges(q, m) = Alone(wq) /\ Ranges(u, n) = Alone(wu) /\ ~ByClock(q) /\ ~ByClock(u)
      BY <1>2, <1>3, <2>5 DEF Ranges, ByClock
    <3> QED BY <1>2, <2>3, <3>1 DEF SpansOf
  <2>6. CASE q.endpoint = "comparison" /\ ByClock(q)
    <3>1. q.input = u.input
      BY <2>4, <2>6 DEF ByClock
    <3>2. Ranges(q, on) = Ranges(u, on)
      BY <1>2, <3>1 DEF Ranges
    <3> QED BY <1>2, <2>4, <2>6, <3>2 DEF SpansOf
  <2>7. CASE q.endpoint = "comparison" /\ ~ByClock(q)
    <3>1. wq # Undefined /\ wu # Undefined
      BY <1>3, <2>3, <2>7 DEF ByClock
    <3>2. /\ Ranges(q, m) = ResolveWindowPeriods(q.period, wq)
          /\ Ranges(u, n) = ResolveWindowPeriods(u.period, wu)
      BY <1>2, <1>3, <2>7, <3>1 DEF Ranges, ComparisonRanges
    <3> QED BY <1>2, <2>3, <2>4, <2>7, <3>2 DEF SpansOf
  <2> QED BY <1>2, <1>8, <2>4, <2>5, <2>6, <2>7
<1> QED BY <1>4, <1>5, <1>6, <1>7, <1>8

\* The form of an answer.
IsValue(v) ==
    v \in [on : FirstDay..LastDay, spans : {v.spans}, before : SUBSET Row, rows : SUBSET Row,
           current : SUBSET Row, previous : SUBSET Row, series : {v.series}]

\* The rows that a query is about, and where a row of a breakdown is.
Due(q, v, span) == {row \in v.before : InScope(q, row) /\ InSpan(row.day, span)}
Place(q, row) == IF q.endpoint = "revenue" THEN Label(q.period, row.day) ELSE row.day

\* A part of an answer that was read.
Read(q, v, part) ==
    /\ part = "rows" => /\ Due(q, v, v.spans.current) \subseteq v.rows
                        /\ \A row \in v.rows : InSpan(Place(q, row), v.spans.current)
    /\ part = "current" => Due(q, v, v.spans.current) \subseteq v.current
    /\ part = "previous" => Due(q, v, v.spans.previous) \subseteq v.previous

Own(q, v) == \A row \in v.rows \cup v.current \cup v.previous : InScope(q, row)

\* An answer that is put together.
Finished(q, v) ==
    /\ Own(q, v)
    /\ \A part \in Queries(q) : Read(q, v, part)
    /\ "rows" \in Queries(q) =>
          /\ UNION {v.series[b] : b \in DOMAIN v.series} = v.rows
          /\ v.spans.current # Undefined => DOMAIN v.series = BucketsOf(q.period, v.spans.current)

\* A question that passed the resolution of its ranges, and spans taken for it.
Asked(q, on) == q \in Question /\ on \in FirstDay..LastDay /\ Ranges(q, on).current # Rejected

\* AnswersFit, of one answer.
Fits(q, on, v) ==
    LET cur == v.spans.current
        prev == v.spans.previous
    IN  /\ \A row \in v.rows \cup v.current \cup v.previous : InScope(q, row)
        /\ SpanFits(q, cur, IF ByClock(q) THEN v.on ELSE on)
        /\ v.on \in {on - 1, on, on + 1}
        /\ q.endpoint \in {"revenue", "comparison"} => Precedes(q.period, prev, cur)
        /\ "rows" \in Queries(q) =>
             /\ UNION {v.series[b] : b \in DOMAIN v.series} = v.rows
             /\ cur # Undefined => DOMAIN v.series = BucketsOf(q.period, cur)
             /\ Due(q, v, cur) \subseteq v.rows
        /\ "current" \in Queries(q) => Due(q, v, cur) \subseteq v.current
        /\ "previous" \in Queries(q) => Due(q, v, prev) \subseteq v.previous

\* It is what the invariant of the answers says of the one that is served.
LEMMA AnswersAre ==
    AnswersFit <=> (asker.at = "served" => Fits(asker.q, asker.on, asker.value))
  BY Zenon DEF AnswersFit, Fits, Due, ByClock, Precedes

\* The day of a row.
LEMMA RowFacts == \A row \in Row : row.day \in Nat
  BY ReportAssumption DEF Row

\* The spans of an answer that is under way are those of the lemma above.
LEMMA SpansFit ==
    ASSUME NEW q, NEW on, Asked(q, on), NEW clock \in FirstDay..LastDay, NEW r, r = SpansOf(q, on, clock)
    PROVE  /\ SpanFits(q, r.current, IF ByClock(q) THEN clock ELSE on)
           /\ r.current.start \in Int /\ r.current.endExclusive \in Int
           /\ q.endpoint # "networks" => \E a, b : Whole(q.period, r.current, a, b)
           /\ q.endpoint \in {"revenue", "comparison"} => Precedes(q.period, r.previous, r.current)
<1>1. CASE ~ByClock(q)
  <2>1. r = Ranges(q, on) /\ q \in Question /\ on \in FirstDay..LastDay /\ Ranges(q, on).current # Rejected
    BY <1>1 DEF SpansOf, Asked
  <2> QED BY <1>1, <2>1, RangesFit
<1>2. CASE ByClock(q)
  <2>1. q \in Question /\ q.endpoint = "comparison" /\ q.input = NoInput /\ q.period \in {"daily", "monthly"}
    BY <1>2, QuestionFacts DEF Asked, ByClock
  <2>2. r = Ranges(q, clock)
    BY <1>2 DEF SpansOf
  <2>3. ResolveAnalyticsWindow(NoInput, clock) = Undefined
    BY DEF ResolveAnalyticsWindow, NoInput
  <2>4. Undefined # Rejected
    BY DEF Undefined, Rejected, Span
  <2>5. r = PeriodBounds(q.period, clock)
    BY <2>1, <2>2, <2>3, <2>4 DEF Ranges, ComparisonRanges
  <2>6. PICK a, b : Whole(q.period, r.current, a, b)
    BY <2>1, <2>5, DefaultRanges
  <2>7. r.current # Rejected
    BY <2>6 DEF Whole, Rejected, Span
  <2>8. Ranges(q, clock).current # Rejected
    BY <2>2, <2>7
  <2> QED BY <1>2, <2>1, <2>2, <2>8, RangesFit
<1> QED BY <1>1, <1>2

\* A whole span that has a day has the day's bucket.
LEMMA PlaceInSpan ==
    ASSUME NEW period \in {"daily", "monthly"}, NEW span, NEW a, NEW b, Whole(period, span, a, b), NEW d \in Nat,
           InSpan(d, span)
    PROVE  InSpan(Label(period, d), span)
<1>1. a \in Int /\ b \in Int /\ a < b /\ span = Span(a, b) /\ span.start = a /\ span.endExclusive = b
  BY DEF Whole, Span
<1>2. span # Undefined
  BY <1>1 DEF Undefined, Span
<1>3. a <= d /\ d < b
  BY <1>1, <1>2 DEF InSpan
<1>4. CASE period = "daily"
  BY <1>4 DEF Label
<1>5. CASE period = "monthly"
  <2>1. PICK i \in 1..Months, j \in 1..Months : i < j /\ a = MonthStarts[i] /\ b = MonthStarts[j]
    BY <1>5 DEF Whole
  <2>2. a <= Label("monthly", d) /\ Label("monthly", d) < b
    BY <1>3, <2>1, LabelInSpan
  <2> QED BY <1>1, <1>5, <2>2 DEF InSpan
<1> QED BY <1>4, <1>5

\* buildSeries: every row has its bucket.
LEMMA SeriesFits ==
    ASSUME NEW q \in Question, NEW span, span.start \in Int, span.endExclusive \in Int,
           q.endpoint # "networks" => \E a, b : Whole(q.period, span, a, b),
           NEW rows \in SUBSET Row, \A row \in rows : InSpan(Place(q, row), span),
           NEW f, f = BuildSeries(q, span, rows)
    PROVE  /\ UNION {f[b] : b \in DOMAIN f} = rows
           /\ span # Undefined => DOMAIN f = BucketsOf(q.period, span)
<1> DEFINE C == Cursors(q, span, rows)
           at(b) == {row \in rows : Label(q.period, row.day) = b}
<1>1. f = [b \in C |-> at(b)]
  BY DEF BuildSeries
<1>2. span # Undefined => C = BucketsOf(q.period, span)
  BY DEF Cursors, BucketsOf, DaysOf
<1>3. ASSUME NEW row \in rows PROVE Label(q.period, row.day) \in C
  <2>0. row.day \in Nat /\ q.period \in {"daily", "monthly"}
    BY RowFacts, QuestionFacts
  <2>1. CASE span = Undefined
    BY <2>1 DEF Cursors
  <2>2. CASE span # Undefined /\ Place(q, row) = row.day
    <3>1. InSpan(row.day, span)
      BY <2>2
    <3>2. span.start <= row.day /\ row.day < span.endExclusive
      BY <2>2, <3>1 DEF InSpan
    <3>3. row.day \in span.start..(span.endExclusive - 1)
      BY <2>0, <3>2
    <3> QED BY <2>2, <3>3 DEF Cursors
  <2>3. CASE span # Undefined /\ Place(q, row) # row.day
    <3>1. q.endpoint = "revenue" /\ q.period = "monthly" /\ Place(q, row) = Label("monthly", row.day)
      BY <2>0, <2>3 DEF Place, Label
    <3> DEFINE l == Label("monthly", row.day)
    <3>2. InSpan(l, span)
      BY <3>1
    <3>3. l \in Nat /\ Label("monthly", l) = l
      BY <2>0, LabelInSpan, StartFacts
    <3> HIDE DEF l
    <3>4. span.start <= l /\ l < span.endExclusive
      BY <2>3, <3>2 DEF InSpan
    <3>5. l \in span.start..(span.endExclusive - 1)
      BY <3>3, <3>4
    <3>6. l \in C
      BY <2>3, <3>1, <3>3, <3>5 DEF Cursors
    <3> QED BY <3>1, <3>6 DEF l
  <2> QED BY <2>1, <2>2, <2>3
<1> HIDE DEF C
<1>4. DOMAIN f = C /\ \A b \in C : f[b] = at(b)
  BY <1>1
<1>5. UNION {f[b] : b \in DOMAIN f} = rows
  <2>1. \A row \in rows : row \in f[Label(q.period, row.day)]
    BY <1>3, <1>4
  <2>2. \A b \in DOMAIN f : f[b] \subseteq rows
    BY <1>4
  <2>3. \A row \in rows : Label(q.period, row.day) \in DOMAIN f
    BY <1>3, <1>4
  <2> HIDE DEF at
  <2> QED BY <2>1, <2>2, <2>3
<1> QED BY <1>2, <1>4, <1>5

\* An answer that is put together for a question fits it.
LEMMA FinishedFits ==
    ASSUME NEW q, NEW on, NEW v, Asked(q, on), IsValue(v), v.spans = SpansOf(q, on, v.on),
           Finished(q, v), v.on \in {on - 1, on, on + 1}
    PROVE  Fits(q, on, v)
<1>1. v.on \in FirstDay..LastDay
  BY DEF IsValue
<1>2. /\ SpanFits(q, v.spans.current, IF ByClock(q) THEN v.on ELSE on)
      /\ q.endpoint \in {"revenue", "comparison"} => Precedes(q.period, v.spans.previous, v.spans.current)
  BY <1>1, SpansFit
<1> QED BY <1>2, Zenon DEF Fits, Finished, Own, Read

\* An answer found under the key of another question fits that one.
LEMMA FoundFits ==
    ASSUME NEW q, NEW on, Asked(q, on), NEW u, NEW n, Asked(u, n),
           AnalyticsCacheKey(q, on) = AnalyticsCacheKey(u, n),
           NEW v, IsValue(v), v.spans = SpansOf(u, n, v.on), Finished(u, v), v.on \in {on - 1, on, on + 1}
    PROVE  Fits(q, on, v)
<1>1. /\ q.scope = u.scope /\ q.endpoint = u.endpoint /\ q.period = u.period
      /\ SpansOf(q, on, v.on) = SpansOf(u, n, v.on)
  BY KeyDecides DEF Asked
<1>2. Finished(q, v)
  <2>1. \A row : InScope(q, row) <=> InScope(u, row)
    BY <1>1 DEF InScope
  <2>2. Queries(q) = Queries(u)
    BY <1>1 DEF Queries
  <2>3. \A row : Place(q, row) = Place(u, row)
    BY <1>1 DEF Place
  <2>4. \A span : Due(q, v, span) = Due(u, v, span)
    BY <2>1, Zenon DEF Due
  <2>5. \A part : Read(q, v, part) <=> Read(u, v, part)
    BY <2>3, <2>4, Zenon DEF Read
  <2>6. Own(q, v)
    BY <2>1, Zenon DEF Own, Finished
  <2> QED BY <1>1, <2>2, <2>5, <2>6, Zenon DEF Finished
<1>3. v.spans = SpansOf(q, on, v.on)
  BY <1>1
<1> QED BY <1>2, <1>3, FinishedFits

\* A cached answer was put together for a question with its key, today or yesterday.
Kept(a, date) ==
    /\ IsValue(a.value) /\ a.value.on \in {date - 1, date}
    /\ \E u, n : /\ Asked(u, n) /\ a.key = AnalyticsCacheKey(u, n)
                 /\ a.value.spans = SpansOf(u, n, a.value.on) /\ Finished(u, a.value)

\* The rows that a question is about, by the view and the tables.
SourceOf(q, view, rows) == IF q.endpoint = "volume" /\ q.period = "daily" THEN view ELSE rows

\* A request k that has resolved its ranges, one that reads, one that has read, one that is served.
Resolved(k, date) ==
    Asked(k.q, k.on) /\ k.key = AnalyticsCacheKey(k.q, k.on) /\ k.on \in {date - 1, date}
Holding(k, date) ==
    /\ IsValue(k.value) /\ k.value.spans = SpansOf(k.q, k.on, k.value.on)
    /\ k.value.on \in {date - 1, date} /\ k.value.on \in {k.on, k.on + 1}
Reading(k, view, rows) ==
    /\ k = [at |-> k.at, q |-> k.q, on |-> k.on, key |-> k.key, todo |-> k.todo, value |-> k.value]
    /\ k.todo \subseteq Queries(k.q) /\ k.todo # {}
    /\ k.value.before \subseteq SourceOf(k.q, view, rows)
    /\ Own(k.q, k.value) /\ \A part \in Queries(k.q) \ k.todo : Read(k.q, k.value, part)

WorkFits(k, date, view, rows) ==
    /\ k.at \in {"idle", "get", "fetch", "set", "served"}
    /\ k.at \in {"get", "fetch", "set"} => Resolved(k, date)
    /\ k.at \in {"fetch", "set"} => Holding(k, date)
    /\ k.at = "fetch" => Reading(k, view, rows)
    /\ k.at = "set" => Finished(k.q, k.value)
    /\ k.at = "served" => Fits(k.q, k.on, k.value)

\* The invariant.
ReportInv ==
    /\ today \in FirstDay..LastDay /\ settled \in SUBSET Row /\ mvDaily \in SUBSET settled
    /\ \A a \in cachedReports : Kept(a, today)
    /\ WorkFits(asker, today, mvDaily, settled)

\* A row that settles and a refresh only add to what a request reads.
LEMMA GrowthKeeps ==
    ASSUME NEW k, NEW date, NEW V, NEW R, NEW V2, NEW R2, WorkFits(k, date, V, R), V \subseteq V2, R \subseteq R2
    PROVE  WorkFits(k, date, V2, R2)
<1>1. SourceOf(k.q, V, R) \subseteq SourceOf(k.q, V2, R2)
  BY DEF SourceOf
<1>2. k.at = "fetch" => Reading(k, V2, R2)
  BY <1>1, Zenon DEF WorkFits, Reading
<1> QED BY <1>2, Zenon DEF WorkFits

\* Midnight: what was of today is of yesterday.
LEMMA NextDayKeeps ==
    ASSUME ReportInv, NextDay PROVE ReportInv'
<1>1. /\ today \in Nat /\ today < LastDay /\ today' = today + 1 /\ LastDay \in Nat /\ FirstDay \in Nat
      /\ today \in FirstDay..LastDay
      /\ settled' = settled /\ mvDaily' = mvDaily /\ cachedReports' = cachedReports /\ asker' = asker
  BY ReportConstants, ReportAssumption DEF ReportInv, NextDay
<1>2. today' \in FirstDay..LastDay
  BY <1>1
<1>3. \A a \in cachedReports : Kept(a, today + 1)
  <2> SUFFICES ASSUME NEW a \in cachedReports PROVE Kept(a, today + 1)
    OBVIOUS
  <2>1. a.value.on = today /\ Kept(a, today)
    BY DEF NextDay, ReportInv
  <2>2. today \in {(today + 1) - 1, today + 1}
    BY <1>1
  <2> QED BY <2>1, <2>2, Zenon DEF Kept
<1>4. WorkFits(asker, today + 1, mvDaily, settled)
  <2>1. WorkFits(asker, today, mvDaily, settled)
    BY DEF ReportInv
  <2>2. asker.at \in {"get", "fetch", "set"} => asker.on = today
    BY DEF NextDay
  <2>3. asker.at \in {"get", "fetch", "set"} => Resolved(asker, today + 1)
    <3>1. today \in {(today + 1) - 1, today + 1}
      BY <1>1
    <3> QED BY <2>1, <2>2, <3>1, Zenon DEF WorkFits, Resolved
  <2>4. asker.at \in {"fetch", "set"} => Holding(asker, today + 1)
    <3> SUFFICES ASSUME asker.at \in {"fetch", "set"} PROVE Holding(asker, today + 1)
      OBVIOUS
    <3>1. Holding(asker, today) /\ asker.on = today
      BY <2>1, <2>2 DEF WorkFits
    <3>2. asker.value.on \in {today - 1, today} /\ asker.value.on \in {today, today + 1}
      BY <3>1 DEF Holding
    <3>3. asker.value.on \in {(today + 1) - 1, today + 1}
      BY <1>1, <3>2
    <3> QED BY <3>1, <3>3, Zenon DEF Holding
  <2> QED BY <2>1, <2>3, <2>4, Zenon DEF WorkFits
<1> QED BY <1>1, <1>2, <1>3, <1>4 DEF ReportInv

\* A question, refused or under way.
LEMMA AskKeeps ==
    ASSUME ReportInv, NEW q \in Question, Ask(q) PROVE ReportInv'
<1>1. /\ today' = today /\ settled' = settled /\ mvDaily' = mvDaily /\ cachedReports' = cachedReports
      /\ asker' = IF Ranges(q, today).current = Rejected THEN Idling
                  ELSE [at |-> "get", q |-> q, on |-> today, key |-> AnalyticsCacheKey(q, today)]
  BY DEF Ask
<1>2. today \in FirstDay..LastDay
  BY DEF ReportInv
<1>3. WorkFits(asker', today, mvDaily, settled)
  <2>1. CASE Ranges(q, today).current = Rejected
    <3>1. asker'.at = "idle"
      BY <1>1, <2>1 DEF Idling
    <3> QED BY <3>1 DEF WorkFits
  <2>2. CASE Ranges(q, today).current # Rejected
    <3>1. asker'.at = "get" /\ asker'.q = q /\ asker'.on = today /\ asker'.key = AnalyticsCacheKey(q, today)
      BY <1>1, <2>2
    <3>2. Resolved(asker', today)
      BY <1>2, <2>2, <3>1 DEF Resolved, Asked
    <3> QED BY <3>1, <3>2 DEF WorkFits
  <2> QED BY <2>1, <2>2
<1> QED BY <1>1, <1>3 DEF ReportInv

\* The lookup: an answer under the same key fits, whichever question it was fetched for.
LEMMA GetKeeps ==
    ASSUME ReportInv, CacheGet PROVE ReportInv'
<1> DEFINE q == asker.q
           on == asker.on
           hit == \E a \in cachedReports : a.key = asker.key
           found == CHOOSE a \in cachedReports : a.key = asker.key
           start == [on |-> today, spans |-> Ranges(q, IF ByClock(q) THEN today ELSE on), before |-> Source(q),
                     rows |-> {}, current |-> {}, previous |-> {}, series |-> <<>>]
<1>1. /\ today' = today /\ settled' = settled /\ mvDaily' = mvDaily /\ cachedReports' = cachedReports
      /\ asker.at = "get"
      /\ asker' = IF hit THEN Serve(found.value)
                  ELSE [at |-> "fetch", q |-> q, on |-> on, key |-> asker.key, todo |-> Queries(q), value |-> start]
  BY DEF CacheGet, ByClock
<1>2. /\ today \in FirstDay..LastDay /\ today \in Int /\ settled \subseteq Row /\ mvDaily \subseteq settled
      /\ Asked(q, on) /\ asker.key = AnalyticsCacheKey(q, on) /\ on \in {today - 1, today} /\ on \in Int
  <2>1. Resolved(asker, today) /\ today \in FirstDay..LastDay /\ settled \subseteq Row /\ mvDaily \subseteq settled
    BY <1>1 DEF ReportInv, WorkFits
  <2>2. today \in Int
    BY <2>1
  <2> QED BY <2>1, <2>2 DEF Resolved
<1>3. CASE hit
  <2>1. found \in cachedReports /\ found.key = asker.key
    BY <1>3
  <2> DEFINE v == found.value
  <2>2. Kept(found, today)
    BY <2>1 DEF ReportInv
  <2> HIDE DEF found, hit
  <2>3. PICK u, n : /\ Asked(u, n) /\ found.key = AnalyticsCacheKey(u, n)
                    /\ v.spans = SpansOf(u, n, v.on) /\ Finished(u, v)
    BY <2>2 DEF Kept
  <2>4. IsValue(v) /\ v.on \in {today - 1, today}
    BY <2>2 DEF Kept
  <2>5. v.on \in {on - 1, on, on + 1}
    BY <1>2, <2>4
  <2>6. AnalyticsCacheKey(q, on) = AnalyticsCacheKey(u, n)
    BY <1>2, <2>1, <2>3
  <2>7. asker' = [at |-> "served", q |-> q, on |-> on, value |-> v]
    BY <1>1, <1>3 DEF Serve
  <2> HIDE DEF v
  <2>8. Fits(q, on, v)
    BY <1>2, <2>3, <2>4, <2>5, <2>6, FoundFits
  <2> HIDE DEF q, on
  <2>9. asker'.at = "served" /\ asker'.q = q /\ asker'.on = on /\ asker'.value = v
    BY <2>7
  <2>10. WorkFits(asker', today, mvDaily, settled)
    BY <2>8, <2>9, Zenon DEF WorkFits
  <2> QED BY <1>1, <2>10 DEF ReportInv
<1>4. CASE ~hit
  <2>1. asker' = [at |-> "fetch", q |-> q, on |-> on, key |-> asker.key, todo |-> Queries(q), value |-> start]
    BY <1>1, <1>4
  <2>2. Source(q) = SourceOf(q, mvDaily, settled) /\ Source(q) \in SUBSET Row
    BY <1>2 DEF Source, SourceOf
  <2>3. start.spans = SpansOf(q, on, today) /\ start.on = today /\ start.before = Source(q)
        /\ start.rows = {} /\ start.current = {} /\ start.previous = {}
    BY DEF SpansOf
  <2>4. IsValue(start)
    <3> DEFINE sp == Ranges(q, IF ByClock(q) THEN today ELSE on)
               so == Source(q)
    <3>1. so \in SUBSET Row /\ {} \in SUBSET Row
      BY <2>2
    <3>2. start = [on |-> today, spans |-> sp, before |-> so, rows |-> {}, current |-> {}, previous |-> {}, series |-> <<>>]
      OBVIOUS
    <3> HIDE DEF start, sp, so
    <3> QED BY <1>2, <3>1, <3>2 DEF IsValue
  <2>5. Queries(q) # {}
    BY DEF Queries
  <2> DEFINE todo == Queries(q)
             key == asker.key
  <2>6. asker' = [at |-> "fetch", q |-> q, on |-> on, key |-> key, todo |-> todo, value |-> start]
    BY <2>1
  <2> HIDE DEF start, hit, found, q, on, todo, key
  <2>7. /\ asker'.at = "fetch" /\ asker'.q = q /\ asker'.on = on /\ asker'.key = key /\ asker'.todo = todo
        /\ asker'.value = start
        /\ asker' = [at |-> asker'.at, q |-> asker'.q, on |-> asker'.on, key |-> asker'.key,
                     todo |-> asker'.todo, value |-> asker'.value]
    BY <2>6
  <2>8. Resolved(asker', today)
    BY <1>2, <2>7 DEF Resolved, key
  <2>9. Holding(asker', today)
    <3>1. today \in {today - 1, today} /\ today \in {on, on + 1}
      BY <1>2
    <3> QED BY <2>3, <2>4, <2>7, <3>1 DEF Holding
  <2>10. Reading(asker', mvDaily, settled)
    <3>1. Own(q, start)
      BY <2>3 DEF Own
    <3>2. todo \ todo = {} /\ todo = Queries(q) /\ todo # {}
      BY <2>5 DEF todo
    <3> QED BY <2>2, <2>3, <2>7, <3>1, <3>2 DEF Reading
  <2>11. WorkFits(asker', today, mvDaily, settled)
    BY <2>7, <2>8, <2>9, <2>10 DEF WorkFits
  <2> QED BY <1>1, <2>11 DEF ReportInv
<1> QED BY <1>3, <1>4

\* The answer is stored and served.
LEMMA SetKeeps ==
    ASSUME ReportInv, CacheSet PROVE ReportInv'
<1> DEFINE q == asker.q
           on == asker.on
           v == asker.value
           new == [key |-> asker.key, value |-> v]
<1>1. /\ today' = today /\ settled' = settled /\ mvDaily' = mvDaily /\ asker.at = "set"
      /\ cachedReports' = {a \in cachedReports : a.key # asker.key} \cup {new}
      /\ asker' = [at |-> "served", q |-> q, on |-> on, value |-> v]
  BY DEF CacheSet, Serve
<1>2. /\ today \in FirstDay..LastDay /\ today \in Int /\ on \in Int
      /\ Asked(q, on) /\ asker.key = AnalyticsCacheKey(q, on) /\ on \in {today - 1, today}
      /\ IsValue(v) /\ v.spans = SpansOf(q, on, v.on) /\ v.on \in {today - 1, today} /\ v.on \in {on, on + 1}
      /\ Finished(q, v)
  <2>1. /\ Resolved(asker, today) /\ Holding(asker, today) /\ Finished(q, v) /\ today \in FirstDay..LastDay
    BY <1>1 DEF ReportInv, WorkFits
  <2>2. today \in Int
    BY <2>1
  <2> QED BY <2>1, <2>2 DEF Resolved, Holding
<1>3. Kept(new, today)
  <2>1. new.key = AnalyticsCacheKey(q, on) /\ new.value = v
    BY <1>2
  <2> HIDE DEF new, q, on, v
  <2> QED BY <1>2, <2>1, Zenon DEF Kept
<1>4. Fits(q, on, v)
  <2>1. v.on \in {on - 1, on, on + 1}
    BY <1>2
  <2> HIDE DEF q, on, v
  <2> QED BY <1>2, <2>1, FinishedFits
<1> HIDE DEF q, on, v, new
<1>5. asker'.at = "served" /\ asker'.q = q /\ asker'.on = on /\ asker'.value = v
  BY <1>1
<1>6. WorkFits(asker', today, mvDaily, settled)
  BY <1>4, <1>5, Zenon DEF WorkFits
<1>7. \A a \in cachedReports' : Kept(a, today)
  BY <1>1, <1>3 DEF ReportInv
<1> QED BY <1>1, <1>6, <1>7 DEF ReportInv

\* The parts of an answer.
QueryParts == {"rows", "current", "previous"}

\* What a query of a part finds among the rows src.
FoundIn(q, spans, part, src) ==
    CASE part = "rows" -> {row \in src : InScope(q, row) /\ InSpan(Place(q, row), spans.current)}
      [] part = "current" -> {row \in src : InScope(q, row) /\ InSpan(row.day, spans.current)}
      [] OTHER -> {row \in src : InScope(q, row) /\ InSpan(row.day, spans.previous)}

\* Nothing due is missed by the breakdown of the revenue, which is cut by buckets.
LEMMA DueIsPlaced ==
    ASSUME NEW q, NEW on, NEW v, Asked(q, on), IsValue(v), v.spans = SpansOf(q, on, v.on)
    PROVE  \A row \in Row : InSpan(row.day, v.spans.current) => InSpan(Place(q, row), v.spans.current)
<1> SUFFICES ASSUME NEW row \in Row, InSpan(row.day, v.spans.current)
             PROVE  InSpan(Place(q, row), v.spans.current)
  OBVIOUS
<1>1. row.day \in Nat /\ q.period \in {"daily", "monthly"} /\ v.on \in FirstDay..LastDay
  BY RowFacts, QuestionFacts DEF Asked, IsValue
<1>2. CASE q.endpoint = "revenue"
  <2>1. PICK a, b : Whole(q.period, v.spans.current, a, b)
    BY <1>1, <1>2, SpansFit
  <2>2. InSpan(Label(q.period, row.day), v.spans.current)
    BY <1>1, <2>1, PlaceInSpan
  <2> QED BY <1>2, <2>2 DEF Place
<1>3. CASE q.endpoint # "revenue"
  BY <1>3 DEF Place
<1> QED BY <1>2, <1>3

\* An answer v under way over the rows src, and v2 with one part more.
Readable(q, on, v, src) ==
    /\ Asked(q, on) /\ IsValue(v) /\ v.spans = SpansOf(q, on, v.on)
    /\ src \in SUBSET Row /\ v.before \subseteq src /\ Own(q, v)
WithPart(q, v, part, src) == [v EXCEPT ![part] = FoundIn(q, v.spans, part, src)]
ReadsOn(q, v, part, v2) ==
    /\ IsValue(v2) /\ v2.spans = v.spans /\ v2.on = v.on /\ v2.before = v.before
    /\ Own(q, v2) /\ Read(q, v2, part)
    /\ \A p \in QueryParts : Read(q, v, p) => Read(q, v2, p)

\* A query adds its part, complete and of its scope, and leaves the others as they are.
LEMMA QueryReads ==
    ASSUME NEW q, NEW on, NEW v, NEW src, NEW part \in QueryParts, Readable(q, on, v, src)
    PROVE  ReadsOn(q, v, part, WithPart(q, v, part, src))
<1> DEFINE found == FoundIn(q, v.spans, part, src)
           v2 == WithPart(q, v, part, src)
<1>0. /\ Asked(q, on) /\ IsValue(v) /\ v.spans = SpansOf(q, on, v.on)
      /\ src \in SUBSET Row /\ v.before \subseteq src /\ Own(q, v)
  BY DEF Readable
<1>v. v2 = [v EXCEPT ![part] = found]
  BY DEF WithPart
<1> HIDE DEF v2
<1> SUFFICES ReadsOn(q, v, part, v2)
  BY DEF v2
<1>1. /\ v = [on |-> v.on, spans |-> v.spans, before |-> v.before, rows |-> v.rows, current |-> v.current,
              previous |-> v.previous, series |-> v.series]
      /\ v.on \in FirstDay..LastDay /\ v.before \in SUBSET Row /\ v.rows \in SUBSET Row
      /\ v.current \in SUBSET Row /\ v.previous \in SUBSET Row
  BY <1>0 DEF IsValue
<1>2. found \in SUBSET Row /\ \A row \in found : InScope(q, row)
  BY <1>0 DEF FoundIn, QueryParts
<1>3. \A row \in Row : InSpan(row.day, v.spans.current) => InSpan(Place(q, row), v.spans.current)
  BY <1>0, DueIsPlaced
<1>4. \A span : Due(q, v, span) = {row \in v.before : InScope(q, row) /\ InSpan(row.day, span)}
  BY DEF Due
<1>5. CASE part = "rows"
  <2>1. found = {row \in src : InScope(q, row) /\ InSpan(Place(q, row), v.spans.current)}
    BY <1>5 DEF FoundIn
  <2>2. Due(q, v, v.spans.current) \subseteq found /\ \A row \in found : InSpan(Place(q, row), v.spans.current)
    BY <1>0, <1>1, <1>3, <1>4, <2>1
  <2> HIDE DEF found
  <2>3. v2 = [on |-> v.on, spans |-> v.spans, before |-> v.before, rows |-> found, current |-> v.current,
              previous |-> v.previous, series |-> v.series]
    BY <1>1, <1>v, <1>5 DEF found
  <2>4. /\ v2.on = v.on /\ v2.spans = v.spans /\ v2.before = v.before /\ v2.rows = found
        /\ v2.current = v.current /\ v2.previous = v.previous
    BY <2>3
  <2>5. IsValue(v2)
    BY <1>1, <1>2, <2>3 DEF IsValue
  <2>6. Own(q, v2)
    BY <1>0, <1>2, <2>4 DEF Own
  <2>7. \A span : Due(q, v2, span) = Due(q, v, span)
    BY <2>4 DEF Due
  <2>8. Read(q, v2, "rows")
    BY <2>2, <2>4, <2>7 DEF Read
  <2>9. \A p \in QueryParts : Read(q, v, p) => Read(q, v2, p)
    BY <2>4, <2>7, <2>8 DEF Read, QueryParts
  <2> QED BY <1>5, <2>4, <2>5, <2>6, <2>8, <2>9, Zenon DEF ReadsOn
<1>6. CASE part = "current"
  <2>1. found = {row \in src : InScope(q, row) /\ InSpan(row.day, v.spans.current)}
    BY <1>6 DEF FoundIn
  <2>2. Due(q, v, v.spans.current) \subseteq found
    BY <1>0, <1>4, <2>1
  <2> HIDE DEF found
  <2>3. v2 = [on |-> v.on, spans |-> v.spans, before |-> v.before, rows |-> v.rows, current |-> found,
              previous |-> v.previous, series |-> v.series]
    BY <1>1, <1>v, <1>6 DEF found
  <2>4. /\ v2.on = v.on /\ v2.spans = v.spans /\ v2.before = v.before /\ v2.rows = v.rows
        /\ v2.current = found /\ v2.previous = v.previous
    BY <2>3
  <2>5. IsValue(v2)
    BY <1>1, <1>2, <2>3 DEF IsValue
  <2>6. Own(q, v2)
    BY <1>0, <1>2, <2>4 DEF Own
  <2>7. \A span : Due(q, v2, span) = Due(q, v, span)
    BY <2>4 DEF Due
  <2>8. Read(q, v2, "current")
    BY <2>2, <2>4, <2>7 DEF Read
  <2>9. \A p \in QueryParts : Read(q, v, p) => Read(q, v2, p)
    BY <2>4, <2>7, <2>8 DEF Read, QueryParts
  <2> QED BY <1>6, <2>4, <2>5, <2>6, <2>8, <2>9, Zenon DEF ReadsOn
<1>7. CASE part = "previous"
  <2>1. found = {row \in src : InScope(q, row) /\ InSpan(row.day, v.spans.previous)}
    BY <1>7 DEF FoundIn
  <2>2. Due(q, v, v.spans.previous) \subseteq found
    BY <1>0, <1>4, <2>1
  <2> HIDE DEF found
  <2>3. v2 = [on |-> v.on, spans |-> v.spans, before |-> v.before, rows |-> v.rows, current |-> v.current,
              previous |-> found, series |-> v.series]
    BY <1>1, <1>v, <1>7 DEF found
  <2>4. /\ v2.on = v.on /\ v2.spans = v.spans /\ v2.before = v.before /\ v2.rows = v.rows
        /\ v2.current = v.current /\ v2.previous = found
    BY <2>3
  <2>5. IsValue(v2)
    BY <1>1, <1>2, <2>3 DEF IsValue
  <2>6. Own(q, v2)
    BY <1>0, <1>2, <2>4 DEF Own
  <2>7. \A span : Due(q, v2, span) = Due(q, v, span)
    BY <2>4 DEF Due
  <2>8. Read(q, v2, "previous")
    BY <2>2, <2>4, <2>7 DEF Read
  <2>9. \A p \in QueryParts : Read(q, v, p) => Read(q, v2, p)
    BY <2>4, <2>7, <2>8 DEF Read, QueryParts
  <2> QED BY <1>7, <2>4, <2>5, <2>6, <2>8, <2>9, Zenon DEF ReadsOn
<1> QED BY <1>5, <1>6, <1>7 DEF QueryParts

\* The last query, with the series.
LEMMA LastQueryFinishes ==
    ASSUME NEW q, NEW on, NEW v, Asked(q, on), IsValue(v), v.spans = SpansOf(q, on, v.on), Own(q, v),
           \A part \in Queries(q) : Read(q, v, part),
           NEW v3, v3 = [v EXCEPT !.series = BuildSeries(q, v.spans.current, v.rows)]
    PROVE  IsValue(v3) /\ v3.spans = v.spans /\ v3.on = v.on /\ Finished(q, v3)
<1> DEFINE f == BuildSeries(q, v.spans.current, v.rows)
<1>1. /\ v = [on |-> v.on, spans |-> v.spans, before |-> v.before, rows |-> v.rows, current |-> v.current,
              previous |-> v.previous, series |-> v.series]
      /\ v.on \in FirstDay..LastDay /\ v.before \in SUBSET Row /\ v.rows \in SUBSET Row
      /\ v.current \in SUBSET Row /\ v.previous \in SUBSET Row
  BY DEF IsValue
<1>2. "rows" \in Queries(q) =>
        /\ UNION {f[b] : b \in DOMAIN f} = v.rows
        /\ v.spans.current # Undefined => DOMAIN f = BucketsOf(q.period, v.spans.current)
  <2> SUFFICES ASSUME "rows" \in Queries(q)
               PROVE  /\ UNION {f[b] : b \in DOMAIN f} = v.rows
                      /\ v.spans.current # Undefined => DOMAIN f = BucketsOf(q.period, v.spans.current)
    OBVIOUS
  <2>1. \A row \in v.rows : InSpan(Place(q, row), v.spans.current)
    BY DEF Read
  <2>2. /\ v.spans.current.start \in Int /\ v.spans.current.endExclusive \in Int
        /\ q.endpoint # "networks" => \E a, b : Whole(q.period, v.spans.current, a, b)
    BY <1>1, SpansFit
  <2>3. q \in Question
    BY DEF Asked
  <2> QED BY <1>1, <2>1, <2>2, <2>3, SeriesFits
<1> HIDE DEF f
<1>3. v3 = [on |-> v.on, spans |-> v.spans, before |-> v.before, rows |-> v.rows, current |-> v.current,
            previous |-> v.previous, series |-> f]
  BY <1>1 DEF f
<1>4. /\ v3.on = v.on /\ v3.spans = v.spans /\ v3.before = v.before /\ v3.rows = v.rows
      /\ v3.current = v.current /\ v3.previous = v.previous /\ v3.series = f
  BY <1>3
<1>5. IsValue(v3)
  BY <1>1, <1>3 DEF IsValue
<1>6. \A span : Due(q, v3, span) = Due(q, v, span)
  BY <1>4 DEF Due
<1>7. \A part \in Queries(q) : Read(q, v3, part)
  BY <1>4, <1>6, Zenon DEF Read
<1>8. Own(q, v3)
  BY <1>4, Zenon DEF Own
<1>9. Finished(q, v3)
  <2>1. "rows" \in Queries(q) =>
          /\ UNION {v3.series[b] : b \in DOMAIN v3.series} = v3.rows
          /\ v3.spans.current # Undefined => DOMAIN v3.series = BucketsOf(q.period, v3.spans.current)
    BY <1>2, <1>4
  <2> QED BY <1>7, <1>8, <2>1, Zenon DEF Finished
<1> QED BY <1>4, <1>5, <1>9

\* A query of a request, the last one or another.
LEMMA QueryKeeps ==
    ASSUME ReportInv, NEW part \in QueryParts, RunQuery(part) PROVE ReportInv'
<1> DEFINE q == asker.q
           on == asker.on
           v == asker.value
           src == SourceOf(q, mvDaily, settled)
           got == CASE part = "rows" -> GetRows(q, v.spans.current)
                    [] part = "current" -> GetTotal(q, v.spans.current)
                    [] OTHER -> GetTotal(q, v.spans.previous)
           w1 == [v EXCEPT ![part] = got]
           v2 == [v EXCEPT ![part] = FoundIn(q, v.spans, part, src)]
           v3 == [v2 EXCEPT !.series = BuildSeries(q, v.spans.current, v2.rows)]
           last == asker.todo = {part}
           at2 == IF last THEN "set" ELSE "fetch"
           todo2 == asker.todo \ {part}
           w == IF last THEN v3 ELSE v2
<1>1. /\ today' = today /\ settled' = settled /\ mvDaily' = mvDaily /\ cachedReports' = cachedReports
      /\ asker.at = "fetch" /\ part \in asker.todo
  BY DEF RunQuery
<1>2. /\ today \in FirstDay..LastDay /\ settled \in SUBSET Row /\ mvDaily \in SUBSET settled
      /\ Resolved(asker, today) /\ Holding(asker, today) /\ Reading(asker, mvDaily, settled)
  BY <1>1 DEF ReportInv, WorkFits
<1>3. got = FoundIn(q, v.spans, part, src)
  <2>1. Source(q) = src
    BY DEF Source, SourceOf
  <2>2. \A span : GetRows(q, span) = {row \in src : InScope(q, row) /\ InSpan(Place(q, row), span)}
    BY <2>1, Zenon DEF GetRows, Place
  <2>3. \A span : GetTotal(q, span) = {row \in src : InScope(q, row) /\ InSpan(row.day, span)}
    BY <2>1, Zenon DEF GetTotal
  <2> HIDE DEF src
  <2>4. CASE part = "rows"
    BY <2>2, <2>4 DEF FoundIn
  <2>5. CASE part = "current"
    BY <2>3, <2>5 DEF FoundIn
  <2>6. CASE part = "previous"
    BY <2>3, <2>6 DEF FoundIn
  <2> QED BY <2>4, <2>5, <2>6 DEF QueryParts
<1>4. asker' = [asker EXCEPT !.todo = @ \ {part}, !.at = at2, !.value = w]
  <2>1. asker' = [asker EXCEPT !.todo = @ \ {part}, !.at = at2,
                    !.value = IF last THEN [w1 EXCEPT !.series = BuildSeries(q, v.spans.current, w1.rows)] ELSE w1]
    BY Zenon DEF RunQuery
  <2>2. w1 = v2
    BY <1>3
  <2> HIDE DEF w1, v2, got, src
  <2> QED BY <2>1, <2>2
<1>5. /\ Asked(q, on) /\ IsValue(v) /\ v.spans = SpansOf(q, on, v.on) /\ v.before \subseteq src /\ Own(q, v)
      /\ src \in SUBSET Row
  BY <1>2 DEF Resolved, Holding, Reading, SourceOf
<1>6. asker = [at |-> asker.at, q |-> q, on |-> on, key |-> asker.key, todo |-> asker.todo, value |-> v]
  BY <1>2 DEF Reading
<1>7. asker' = [at |-> at2, q |-> q, on |-> on, key |-> asker.key, todo |-> todo2, value |-> w]
  <2> HIDE DEF at2, w, v2, v3, src
  <2> QED BY <1>4, <1>6
<1> HIDE DEF src
<1>8. /\ IsValue(v2) /\ v2.spans = v.spans /\ v2.on = v.on /\ v2.before = v.before
      /\ Own(q, v2) /\ Read(q, v2, part)
      /\ \A p \in QueryParts : Read(q, v, p) => Read(q, v2, p)
  <2>1. v2 = WithPart(q, v, part, src)
    BY DEF WithPart
  <2> HIDE DEF q, on, v, v2
  <2>2. Readable(q, on, v, src)
    BY <1>5, Zenon DEF Readable
  <2>3. ReadsOn(q, v, part, v2)
    BY <2>1, <2>2, QueryReads
  <2> QED BY <2>3, Zenon DEF ReadsOn
<1> HIDE DEF v2
<1>9. Queries(q) \subseteq QueryParts /\ asker.todo \subseteq Queries(q)
      /\ \A p \in Queries(q) \ asker.todo : Read(q, v, p)
  BY <1>2 DEF Queries, QueryParts, Reading
<1>10. \A p \in Queries(q) \ todo2 : Read(q, v2, p)
  <2> HIDE DEF q, v
  <2> QED BY <1>8, <1>9
<1>11. last => IsValue(v3) /\ v3.spans = v.spans /\ v3.on = v.on /\ Finished(q, v3)
  <2> SUFFICES ASSUME last PROVE IsValue(v3) /\ v3.spans = v.spans /\ v3.on = v.on /\ Finished(q, v3)
    OBVIOUS
  <2>1. todo2 = {}
    OBVIOUS
  <2>2. \A p \in Queries(q) : Read(q, v2, p)
    BY <1>10, <2>1
  <2>3. v3 = [v2 EXCEPT !.series = BuildSeries(q, v2.spans.current, v2.rows)]
    BY <1>8
  <2>4. v2.spans = SpansOf(q, on, v2.on)
    BY <1>5, <1>8
  <2> HIDE DEF q, on, v, v3, last, todo2
  <2> QED BY <1>5, <1>8, <2>2, <2>3, <2>4, LastQueryFinishes
<1> HIDE DEF v3
<1>12. IsValue(w) /\ w.spans = v.spans /\ w.on = v.on /\ (last => Finished(q, w)) /\ (~last => w = v2)
  BY <1>8, <1>11
<1>13. ~last => todo2 # {} /\ todo2 \subseteq Queries(q)
  BY <1>1, <1>9
<1>14. on \in {today - 1, today} /\ asker.key = AnalyticsCacheKey(q, on)
       /\ v.on \in {today - 1, today} /\ v.on \in {on, on + 1}
  BY <1>2 DEF Resolved, Holding
<1> DEFINE key == asker.key
<1>15. key = AnalyticsCacheKey(q, on) /\ asker' = [at |-> at2, q |-> q, on |-> on, key |-> key, todo |-> todo2, value |-> w]
  BY <1>7, <1>14
<1> HIDE DEF q, on, v, w, key, todo2, at2
<1>16. /\ asker'.at = at2 /\ asker'.q = q /\ asker'.on = on /\ asker'.key = key /\ asker'.todo = todo2
       /\ asker'.value = w
       /\ asker' = [at |-> asker'.at, q |-> asker'.q, on |-> asker'.on, key |-> asker'.key,
                    todo |-> asker'.todo, value |-> asker'.value]
  BY <1>15
<1>17. Resolved(asker', today)
  BY <1>5, <1>14, <1>15, <1>16 DEF Resolved
<1>18. Holding(asker', today)
  BY <1>5, <1>12, <1>14, <1>16 DEF Holding
<1>19. ~last => Reading(asker', mvDaily, settled)
  <2> SUFFICES ASSUME ~last PROVE Reading(asker', mvDaily, settled)
    OBVIOUS
  <2>1. w = v2 /\ w.before \subseteq SourceOf(q, mvDaily, settled)
    BY <1>5, <1>8, <1>12 DEF src
  <2> HIDE DEF last
  <2> QED BY <1>8, <1>10, <1>13, <1>16, <2>1 DEF Reading
<1>20. at2 = IF last THEN "set" ELSE "fetch"
  BY DEF at2
<1> HIDE DEF last
<1>21. WorkFits(asker', today, mvDaily, settled)
  BY <1>12, <1>16, <1>17, <1>18, <1>19, <1>20 DEF WorkFits
<1> QED BY <1>1, <1>2, <1>21 DEF ReportInv

\* An answer of the analytics, fetched or found in the cache, counts rows of its own scope, over the
\* spans of the question, and misses no row that was there when the fetch began, for every calendar
\* that reaches far enough, every preset and range, and any number of questions, rows and midnights
\* (AnalyticsService, MerchantAnalyticsService, date-range.util).
THEOREM ReportsFit == ReportSpec => []AnswersFit
<1>1. ReportInit => ReportInv
  <2> SUFFICES ASSUME ReportInit PROVE ReportInv
    OBVIOUS
  <2>1. asker.at = "idle"
    BY DEF ReportInit, Idling
  <2>2. WorkFits(asker, today, mvDaily, settled)
    BY <2>1 DEF WorkFits
  <2> QED BY <2>2, ReportConstants DEF ReportInit, ReportInv
<1>2. ReportInv /\ [ReportNext]_reportVars => ReportInv'
  <2> SUFFICES ASSUME ReportInv, [ReportNext]_reportVars PROVE ReportInv'
    OBVIOUS
  <2>1. CASE \E row \in Row : SettleRow(row)
    <3>1. PICK row \in Row : SettleRow(row)
      BY <2>1
    <3>2. /\ today' = today /\ mvDaily' = mvDaily /\ cachedReports' = cachedReports /\ asker' = asker
          /\ settled' = settled \cup {row}
      BY <3>1 DEF SettleRow
    <3>3. WorkFits(asker, today, mvDaily, settled')
      BY <3>2, GrowthKeeps DEF ReportInv
    <3> QED BY <3>2, <3>3 DEF ReportInv
  <2>2. CASE Refresh
    <3>1. /\ today' = today /\ settled' = settled /\ cachedReports' = cachedReports /\ asker' = asker
          /\ mvDaily' = settled /\ mvDaily \subseteq settled
      BY <2>2 DEF Refresh, ReportInv
    <3>2. WorkFits(asker, today, mvDaily', settled)
      BY <3>1, GrowthKeeps DEF ReportInv
    <3> QED BY <3>1, <3>2 DEF ReportInv
  <2>3. CASE NextDay
    BY <2>3, NextDayKeeps
  <2>4. CASE \E a \in cachedReports : AnswerExpires(a)
    BY <2>4 DEF AnswerExpires, ReportInv
  <2>5. CASE \E q \in Question : Ask(q)
    BY <2>5, AskKeeps
  <2>6. CASE CacheGet
    BY <2>6, GetKeeps
  <2>7. CASE \E part \in {"rows", "current", "previous"} : RunQuery(part)
    BY <2>7, QueryKeeps DEF QueryParts
  <2>8. CASE CacheSet
    BY <2>8, SetKeeps
  <2>9. CASE UNCHANGED reportVars
    BY <2>9 DEF reportVars, ReportInv
  <2> QED BY <2>1, <2>2, <2>3, <2>4, <2>5, <2>6, <2>7, <2>8, <2>9 DEF ReportNext
<1>3. ReportInv => AnswersFit
  BY AnswersAre DEF ReportInv, WorkFits
<1> QED BY <1>1, <1>2, <1>3, PTL DEF ReportSpec
=============================================================================
