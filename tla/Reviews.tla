------------------------------- MODULE Reviews -------------------------------
(***************************************************************************)
(* Cases that people review under a deadline: payment disputes             *)
(* (DisputesService) and AML flags (AmlService).  Both are rows that       *)
(* reviewers and a cron job read, change and save; a case the job          *)
(* escalates raises an admin alert or an e-mail.                           *)
(***************************************************************************)
EXTENDS Integers, FiniteSets

CONSTANTS
    Dispute, Flag,       \* rows that may come to exist
    DisputedPayment,     \* the payment of each dispute
    Reviewer,            \* concurrent calls of review
    Filer,               \* concurrent calls of DisputesService.raise
    EscalationRun,       \* concurrent runs of escalateOverdue
    HighValueThreshold, HighVelocityLimit,
    MaxReviewFaults      \* bound: rejected calls

Case == Dispute \cup Flag
Nobody == "nobody"

ASSUME ReviewAssumption ==
    /\ Dispute \cap Flag = {} /\ Nobody \notin Case
    /\ DOMAIN DisputedPayment = Dispute
    /\ MaxReviewFaults \in Nat

VARIABLES
    cases,       \* the status of each row
    late,        \* cases whose slaDeadline has passed
    filing,      \* the dispute each call of raise is about to save
    reviewing,   \* the case and the decision each reviewer is about to save
    escalating,  \* per run: the cases it found, and the one whose alert it raises
    resumed,     \* payments whose settlement was resumed
    listed,      \* history: closed cases that a run had already found
    reviewFaults

reviewVars ==
    <<cases, late, filing, reviewing, escalating, resumed, listed, reviewFaults>>

Closed == {"RESOLVED", "CLEARED"}

ReviewInit ==
    /\ cases = [c \in Case |-> "none"]
    /\ late = {} /\ resumed = {} /\ listed = {}
    /\ filing = [f \in Filer |-> Nobody]
    /\ reviewing = [v \in Reviewer |-> <<Nobody, Nobody>>]
    /\ escalating = [e \in EscalationRun |-> [found |-> {}, alert |-> Nobody]]
    /\ reviewFaults = 0

ReviewFault ==
    /\ reviewFaults < MaxReviewFaults
    /\ reviewFaults' = reviewFaults + 1

OpenDisputes(p) == {d \in Dispute : DisputedPayment[d] = p /\ cases[d] = "OPEN"}

\* raise: no OPEN dispute of the payment is found ...
RaiseDispute(f, d) ==
    /\ filing[f] = Nobody /\ cases[d] = "none"
    /\ \A g \in Filer : filing[g] # d
    /\ OpenDisputes(DisputedPayment[d]) = {}
    /\ filing' = [filing EXCEPT ![f] = d]
    /\ UNCHANGED <<cases, late, reviewing, escalating, resumed, listed, reviewFaults>>

\* ... and another may have been saved when this one is.
SaveDispute(f) ==
    /\ filing[f] # Nobody
    /\ cases' = [cases EXCEPT ![filing[f]] = "OPEN"]
    /\ filing' = [filing EXCEPT ![f] = Nobody]
    /\ UNCHANGED <<late, reviewing, escalating, resumed, listed, reviewFaults>>

\* createFlag saves a row of its own and e-mails.
CreateFlag(g) ==
    /\ cases[g] = "none"
    /\ cases' = [cases EXCEPT ![g] = "PENDING"]
    /\ UNCHANGED <<late, filing, reviewing, escalating, resumed, listed, reviewFaults>>

\* checkAndFlag has two checks, which both may flag the payment: its amount, and
\* then, unless a call was rejected before, the day's count of the merchant.
FlagHighValue(g, amountUsd) == amountUsd >= HighValueThreshold /\ CreateFlag(g)

FlagHighVelocity(g, dailyCount) == dailyCount > HighVelocityLimit /\ CreateFlag(g)

DeadlinePasses(c) ==
    /\ cases[c] # "none" /\ c \notin late
    /\ late' = late \cup {c}
    /\ UNCHANGED <<cases, filing, reviewing, escalating, resumed, listed, reviewFaults>>

Decisions(c) ==
    IF c \in Dispute THEN {"UNDER_REVIEW", "RESOLVED", "ESCALATED", "OPEN"}
    ELSE {"CLEARED", "ESCALATED", "PENDING"}

\* review reads the row whatever its status is.
ReviewReads(v, c, decision) ==
    /\ reviewing[v] = <<Nobody, Nobody>>
    /\ cases[c] # "none"
    /\ reviewing' = [reviewing EXCEPT ![v] = <<c, decision>>]
    /\ UNCHANGED <<cases, late, filing, escalating, resumed, listed, reviewFaults>>

Found(c) == \E e \in EscalationRun : c \in escalating[e].found

\* The decision is saved, and a resolved dispute resumes the settlement.
ReviewSaves(v) ==
    LET c == reviewing[v][1]
        decision == reviewing[v][2] IN
    /\ c # Nobody
    /\ cases' = [cases EXCEPT ![c] = decision]
    /\ listed' = IF decision \in Closed /\ Found(c) THEN listed \cup {c}
                 ELSE IF decision \in Closed THEN listed \ {c} ELSE listed
    /\ resumed' = IF decision = "RESOLVED" THEN resumed \cup {DisputedPayment[c]} ELSE resumed
    /\ reviewing' = [reviewing EXCEPT ![v] = <<Nobody, Nobody>>]
    /\ UNCHANGED <<late, filing, escalating, reviewFaults>>

\* The save, or resumeAfterDisputeResolution after it, rejects.
ReviewRejects(v) ==
    LET c == reviewing[v][1]
        decision == reviewing[v][2] IN
    /\ ReviewFault
    /\ c # Nobody
    /\ \/ UNCHANGED <<cases, listed>>
       \/ /\ decision = "RESOLVED"
          /\ cases' = [cases EXCEPT ![c] = decision]
          /\ listed' = IF Found(c) THEN listed \cup {c} ELSE listed \ {c}
    /\ reviewing' = [reviewing EXCEPT ![v] = <<Nobody, Nobody>>]
    /\ UNCHANGED <<late, filing, escalating, resumed>>

IdleRun(e) == escalating[e] = [found |-> {}, alert |-> Nobody]

\* Mutation: the query asks for the deadline only.
Overdue_AnyStatus(kind) == {c \in kind \cap late : cases[c] # "none"}

\* find: OPEN disputes or PENDING flags whose deadline has passed.
Overdue(kind) == {c \in kind \cap late : cases[c] \in {"OPEN", "PENDING"}}

EscalateFinds(e, kind) ==
    /\ IdleRun(e) /\ Overdue(kind) # {}
    /\ escalating' = [escalating EXCEPT ![e].found = Overdue(kind)]
    /\ UNCHANGED <<cases, late, filing, reviewing, resumed, listed, reviewFaults>>

\* The status that was read is overwritten, whatever the row says by now.
EscalateSaves(e, c) ==
    /\ escalating[e].alert = Nobody
    /\ c \in escalating[e].found
    /\ cases' = [cases EXCEPT ![c] = "ESCALATED"]
    /\ escalating' = [escalating EXCEPT ![e] = [found |-> @.found \ {c}, alert |-> c]]
    /\ UNCHANGED <<late, filing, reviewing, resumed, listed, reviewFaults>>

\* adminAlerts.raise, or the e-mail to the superadmin.
EscalateAlerts(e) ==
    /\ escalating[e].alert # Nobody
    /\ escalating' = [escalating EXCEPT ![e].alert = Nobody]
    /\ UNCHANGED <<cases, late, filing, reviewing, resumed, listed, reviewFaults>>

\* A rejected call ends the run: the cases that are left wait for the next
\* one, and an escalated case whose alert was rejected is never announced.
EscalateRejects(e) ==
    /\ ReviewFault
    /\ ~IdleRun(e)
    /\ escalating' = [escalating EXCEPT ![e] = [found |-> {}, alert |-> Nobody]]
    /\ UNCHANGED <<cases, late, filing, reviewing, resumed, listed>>

ReviewNext ==
    \/ \E f \in Filer : SaveDispute(f) \/ \E d \in Dispute : RaiseDispute(f, d)
    \/ \E g \in Flag :
          \/ \E amount \in {HighValueThreshold - 1, HighValueThreshold} : FlagHighValue(g, amount)
          \/ \E count \in {HighVelocityLimit, HighVelocityLimit + 1} : FlagHighVelocity(g, count)
    \/ \E c \in Case : DeadlinePasses(c)
    \/ \E v \in Reviewer :
          \/ \E c \in Case : \E d \in Decisions(c) : ReviewReads(v, c, d)
          \/ ReviewSaves(v) \/ ReviewRejects(v)
    \/ \E e \in EscalationRun :
          \/ \E kind \in {Dispute, Flag} : EscalateFinds(e, kind)
          \/ \E c \in Case : EscalateSaves(e, c)
          \/ EscalateAlerts(e) \/ EscalateRejects(e)

ReviewSpec == ReviewInit /\ [][ReviewNext]_reviewVars

-----------------------------------------------------------------------------
\* A dispute that was resolved, or a flag that was cleared, is escalated again
\* by escalateOverdue only in a run that had found it before it was closed:
\* only then can the settlement it released be held back once more.
ClosedIsEscalatedByOldRunsOnly ==
    [][\A c \in Case :
          cases[c] \in Closed /\ cases'[c] = "ESCALATED"
             => \/ c \in listed
                \/ \E v \in Reviewer : /\ reviewing[v] = <<c, "ESCALATED">>
                                         /\ reviewing'[v] # reviewing[v]]_reviewVars
=============================================================================
