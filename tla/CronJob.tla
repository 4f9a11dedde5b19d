------------------------------- MODULE CronJob -------------------------------
(***************************************************************************)
(* CronJobService.run (src/src/cron/cron-job.service.ts) for one job name: *)
(* a set in the memory of the process keeps two runs of the job apart, and *)
(* a five-minute timer gives up on a run that is still going on.           *)
(***************************************************************************)
EXTENDS Integers

CONSTANTS
    Process,
    Run,           \* slots for runs that are alive at the same time
    Host,          \* the process of each slot
    MaxCronFaults,     \* bound: rejections inside the try block, and restarts
    MaxStartFaults \* bound: rejections of the first log entry

ASSUME CronAssumption ==
    /\ Host \in [Run -> Process]
    /\ MaxCronFaults \in Nat /\ MaxStartFaults \in Nat

VARIABLES
    locked,    \* runningJobs.has(jobName), per process
    pc,        \* where each run is
    detached,  \* runs whose function goes on after the timeout
    cronFaults, startFaults

cronVars == <<locked, pc, detached, cronFaults, startFaults>>

CronInit ==
    /\ locked = [p \in Process |-> FALSE]
    /\ pc = [r \in Run |-> "idle"]
    /\ detached = {}
    /\ cronFaults = 0 /\ startFaults = 0

Goto(r, from, to) ==
    /\ pc[r] = from
    /\ pc' = [pc EXCEPT ![r] = to]

CronFault ==
    /\ cronFaults < MaxCronFaults
    /\ cronFaults' = cronFaults + 1

\* Mutation: the name is added once the log entry is saved.
Begin_LocksLate(r) ==
    /\ ~locked[Host[r]]
    /\ r \notin detached
    /\ Goto(r, "idle", "log")
    /\ UNCHANGED <<locked, detached, cronFaults, startFaults>>

\* The check and the add are one step: there is no await between them.  A run
\* that finds the name returns at once and changes nothing here.
Begin(r) ==
    /\ ~locked[Host[r]]
    /\ r \notin detached
    /\ Goto(r, "idle", "log")
    /\ locked' = [locked EXCEPT ![Host[r]] = TRUE]
    /\ UNCHANGED <<detached, cronFaults, startFaults>>

StartLogged(r) ==
    /\ Goto(r, "log", "fn")
    /\ UNCHANGED <<locked, detached, cronFaults, startFaults>>

\* The first save is before the try block: the name is not removed.
StartLogFails(r) ==
    /\ startFaults < MaxStartFaults
    /\ startFaults' = startFaults + 1
    /\ Goto(r, "log", "idle")
    /\ UNCHANGED <<locked, detached, cronFaults>>

FnResolves(r) ==
    /\ Goto(r, "fn", "completed")
    /\ UNCHANGED <<locked, detached, cronFaults, startFaults>>

FnRejects(r) ==
    /\ CronFault
    /\ Goto(r, "fn", "failed")
    /\ UNCHANGED <<locked, detached, startFaults>>

\* The timer wins the race; nothing stops the function.
Timeout(r) ==
    /\ Goto(r, "fn", "failed")
    /\ detached' = detached \cup {r}
    /\ UNCHANGED <<locked, cronFaults, startFaults>>

DetachedEnds(r) ==
    /\ detached' = detached \ {r}
    /\ r \in detached
    /\ UNCHANGED <<locked, pc, cronFaults, startFaults>>

\* logRepo.save(COMPLETED) rejects inside the try block.
SaveRejects(r) ==
    /\ CronFault
    /\ Goto(r, "completed", "failed")
    /\ UNCHANGED <<locked, detached, startFaults>>

\* Mutation: the name is removed on success only.
Finally_OnSuccess(r) ==
    /\ pc[r] \in {"completed", "failed"}
    /\ pc' = [pc EXCEPT ![r] = "idle"]
    /\ locked' = [locked EXCEPT ![Host[r]] = (pc[r] = "failed")]
    /\ UNCHANGED <<detached, cronFaults, startFaults>>

\* The last log entry is saved (or its save rejects in the catch block): the
\* finally block removes the name.
Finally(r) ==
    /\ pc[r] \in {"completed", "failed"}
    /\ pc' = [pc EXCEPT ![r] = "idle"]
    /\ locked' = [locked EXCEPT ![Host[r]] = FALSE]
    /\ UNCHANGED <<detached, cronFaults, startFaults>>

Restart(p) ==
    /\ CronFault
    /\ locked' = [locked EXCEPT ![p] = FALSE]
    /\ pc' = [r \in Run |-> IF Host[r] = p THEN "idle" ELSE pc[r]]
    /\ detached' = {r \in detached : Host[r] # p}
    /\ UNCHANGED startFaults

Step(r) ==
    \/ Begin(r) \/ StartLogged(r) \/ FnResolves(r) \/ Timeout(r)
    \/ DetachedEnds(r) \/ Finally(r)

CronNext ==
    \/ \E r \in Run : Step(r) \/ StartLogFails(r) \/ FnRejects(r) \/ SaveRejects(r)
    \/ \E p \in Process : Restart(p)

CronSpec == CronInit /\ [][CronNext]_cronVars

\* The schedule fires again and again, every call returns, every function ends.
CronFairness ==
    \A r \in Run :
        /\ WF_cronVars(Begin(r) \/ StartLogged(r) \/ FnResolves(r) \/ Timeout(r)
                          \/ Finally(r))
        /\ WF_cronVars(DetachedEnds(r))

CronFairSpec == CronSpec /\ CronFairness

-----------------------------------------------------------------------------
\* The shape of the service's state.
CronTypeOK ==
    /\ locked \in [Process -> BOOLEAN]
    /\ pc \in [Run -> {"idle", "log", "fn", "completed", "failed"}]
    /\ detached \subseteq Run
    /\ cronFaults \in 0..MaxCronFaults /\ startFaults \in 0..MaxStartFaults

\* In one process two runs of a job overlap only when the first has timed out:
\* the finally block of an old run never removes the name of a newer one.
AloneUntilTimeout ==
    \A r, q \in Run :
        Host[r] = Host[q] /\ pc[r] # "idle" /\ pc[q] # "idle" => r = q

RunsInFn(p) == \E r \in Run : Host[r] = p /\ pc[r] = "fn"

\* Whatever the function does, whatever the last log entry costs and whoever
\* restarts, a process whose first log entries are saved calls the function of
\* the job again and again.
JobKeepsRunning ==
    <>(startFaults > 0) \/ \A p \in Process : []<>RunsInFn(p)
=============================================================================
