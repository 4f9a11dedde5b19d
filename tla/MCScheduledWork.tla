--------------------------- MODULE MCScheduledWork ---------------------------
(***************************************************************************)
(* What runs on a schedule or from a queue: the cron runner, the event     *)
(* indexer and the settlement jobs.  They share no state, so that a        *)
(* behaviour follows one of them and leaves the others in their initial    *)
(* states: nothing is lost but the product of their state spaces.          *)
(***************************************************************************)
EXTENDS CronJob, SorobanIndexer, SettlementApproval, TLC

CONSTANTS h1, h2, r1, r2, r3, r4, m1, t1, t2, t3, p1, p2, p3

\* Two replicas with two slots each.
TwoEach == r1 :> h1 @@ r2 :> h1 @@ r3 :> h2 @@ r4 :> h2

Ev(ledgerOf, kind) == [ledger |-> ledgerOf, kind |-> kind]

\* A ledger that is split over two pages, one that begins with a malformed event
\* and one with an event of another topic.
Emitted == <<Ev(1, "known"), Ev(1, "malformed"), Ev(1, "known"),
             Ev(2, "other"), Ev(2, "known"), Ev(3, "malformed")>>

\* One merchant; a settlement with two payments, one with one and one with none.
OneMerchant == [s \in Settlement |-> m1]
Linked == p1 :> t1 @@ p2 :> t1 @@ p3 :> t2

VARIABLE focus

vars == <<focus, cronVars, indexerVars, settlementVars>>

Init ==
    /\ focus \in {"cron", "indexer", "settlement"}
    /\ CronInit /\ IndexerInit /\ SettlementInit

Next ==
    /\ UNCHANGED focus
    /\ \/ /\ focus = "cron" /\ CronNext
          /\ UNCHANGED <<indexerVars, settlementVars>>
       \/ /\ focus = "indexer" /\ IndexerNext
          /\ UNCHANGED <<cronVars, settlementVars>>
       \/ /\ focus = "settlement" /\ SettlementNext
          /\ UNCHANGED <<cronVars, indexerVars>>

\* The fairness of each component's specification, while it is followed.
Fairness ==
    /\ \A r \in Run :
         /\ WF_cronVars(/\ focus = "cron"
                        /\ \/ Begin(r) \/ StartLogged(r) \/ FnResolves(r)
                           \/ Timeout(r) \/ Finally(r))
         /\ WF_cronVars(focus = "cron" /\ DetachedEnds(r))
    /\ \A p \in Poller : WF_indexerVars(focus = "indexer" /\ PollStep(p))
    /\ \A a \in Request : WF_settlementVars(focus = "settlement" /\ RequestStep(a))
    /\ \A w \in Worker : WF_settlementVars(focus = "settlement" /\ WorkerStep(w))
    /\ \A m \in Merchant : WF_settlementVars(focus = "settlement" /\ LockExpires(m))

Spec == Init /\ [][Next]_vars /\ Fairness

\* In a behaviour that follows the cron runner, JobKeepsRunning: a process whose
\* first log entries are saved calls the job's function again and again.
FollowedJobKeepsRunning == focus = "cron" => JobKeepsRunning
=============================================================================
