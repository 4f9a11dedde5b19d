------------------------------ MODULE Exports ------------------------------
(***************************************************************************)
(* AnalyticsExportService: requests within a quota, a Bull job per export  *)
(* that a worker may lose to another when it stalls or its process dies,   *)
(* and the token that is mailed in a link and later presented.  Every save *)
(* writes the entity the worker read when it began.                        *)
(***************************************************************************)
EXTENDS Integers, FiniteSets

CONSTANTS
    ExportRequest,     \* requests of one merchant
    ExportRun,         \* runs of the job handler
    ExportQuota,       \* 5
    QuotaWindow,       \* 24 hours
    LinkTtl,           \* 24 hours
    MaxExportClock,    \* bound: the clock
    MaxExportFaults    \* bound: rejected calls

ASSUME ExportAssumption ==
    /\ ExportQuota \in Nat \ {0} /\ QuotaWindow \in Nat /\ LinkTtl \in Nat
    /\ MaxExportClock \in Nat /\ MaxExportFaults \in Nat
    /\ "null" \notin ExportRun    \* a run names the token it draws

VARIABLES
    exportRow,     \* the rows of analytics_exports
    exporter,      \* where each request is
    quotaHits,     \* when the requests were granted
    exportJob,     \* the jobs: none, waiting, active, over
    runs,          \* the runs of the handler
    stalledOnce,   \* the jobs a second worker took
    tokenMailed,    \* the tokens of the mails queued
    mailDoubtful,  \* tokens mailed although the call was rejected
    exportClock,
    exportFaults

exportVars == <<exportRow, exporter, quotaHits, exportJob, runs, stalledOnce,
                tokenMailed, mailDoubtful, exportClock, exportFaults>>

NoRow == [status |-> "none", token |-> "null", expiresAt |-> 0]
NoRun == [at |-> "idle"]

ExportInit ==
    /\ exportRow = [x \in ExportRequest |-> NoRow]
    /\ exporter = [x \in ExportRequest |-> "idle"]
    /\ quotaHits = {}
    /\ exportJob = [x \in ExportRequest |-> "none"]
    /\ runs = [r \in ExportRun |-> NoRun]
    /\ stalledOnce = {} /\ tokenMailed = {} /\ mailDoubtful = {}
    /\ exportClock = 0 /\ exportFaults = 0

ExportFault == exportFaults < MaxExportFaults /\ exportFaults' = exportFaults + 1

ExportTick ==
    /\ exportClock < MaxExportClock
    /\ exportClock' = exportClock + 1
    /\ UNCHANGED <<exportRow, exporter, quotaHits, exportJob, runs, stalledOnce,
                   tokenMailed, mailDoubtful, exportFaults>>

----------------------------------------------------------------------------
\* requestExport

\* The sliding window of CacheService; a refused request leaves no trace.
CheckQuota(x) ==
    /\ exporter[x] = "idle"
    /\ LET recent == {h \in quotaHits : h[2] > exportClock - QuotaWindow}
           allowed == Cardinality(recent) < ExportQuota
       IN  /\ exporter' = [exporter EXCEPT ![x] = IF allowed THEN "save" ELSE "refused"]
           /\ quotaHits' = IF allowed THEN recent \cup {<<x, exportClock>>} ELSE quotaHits
    /\ UNCHANGED <<exportRow, exportJob, runs, stalledOnce, tokenMailed, mailDoubtful,
                   exportClock, exportFaults>>

SaveQueued(x) ==
    /\ exporter[x] = "save"
    /\ exportRow' = [exportRow EXCEPT ![x] = [NoRow EXCEPT !.status = "queued"]]
    /\ exporter' = [exporter EXCEPT ![x] = "add"]
    /\ UNCHANGED <<quotaHits, exportJob, runs, stalledOnce, tokenMailed, mailDoubtful,
                   exportClock, exportFaults>>

AddExportJob(x) ==
    /\ exporter[x] = "add"
    /\ exportJob' = [exportJob EXCEPT ![x] = "waiting"]
    /\ exporter' = [exporter EXCEPT ![x] = "queued"]
    /\ UNCHANGED <<exportRow, quotaHits, runs, stalledOnce, tokenMailed, mailDoubtful,
                   exportClock, exportFaults>>

\* A rejected save or add: the quota is spent, the row may stay QUEUED.
RequestRejects(x) ==
    /\ exporter[x] \in {"save", "add"} /\ ExportFault
    /\ exporter' = [exporter EXCEPT ![x] = "rejected"]
    /\ UNCHANGED <<exportRow, quotaHits, exportJob, runs, stalledOnce, tokenMailed,
                   mailDoubtful, exportClock>>

----------------------------------------------------------------------------
\* generateExport

\* A job whose worker does not renew its lock is given to another, once.
TakeExportJob(r, x) ==
    /\ runs[r].at = "idle"
    /\ \/ exportJob[x] = "waiting" /\ UNCHANGED stalledOnce
       \/ /\ exportJob[x] = "active" /\ x \notin stalledOnce
          /\ stalledOnce' = stalledOnce \cup {x}
    /\ exportJob' = [exportJob EXCEPT ![x] = "active"]
    /\ runs' = [runs EXCEPT ![r] = [at |-> "processing", x |-> x,
                                    entity |-> [exportRow[x] EXCEPT !.status = "processing"]]]
    /\ UNCHANGED <<exportRow, exporter, quotaHits, tokenMailed, mailDoubtful, exportClock, exportFaults>>

\* save writes the columns in which the entity differs from the row.
SaveEntity(r) == exportRow' = [exportRow EXCEPT ![runs[r].x] = runs[r].entity]

SaveProcessing(r) ==
    /\ runs[r].at = "processing"
    /\ SaveEntity(r)
    /\ runs' = [runs EXCEPT ![r].at = "build"]
    /\ UNCHANGED <<exporter, quotaHits, exportJob, stalledOnce, tokenMailed, mailDoubtful,
                   exportClock, exportFaults>>

\* A fresh token for every run, good for LinkTtl.
Ready(r) == [status |-> "ready", token |-> r, expiresAt |-> exportClock + LinkTtl]

\* buildMetrics and the file of the requested format.
BuildFile(r) ==
    /\ runs[r].at = "build"
    /\ runs' = [runs EXCEPT ![r] = [at |-> "save", x |-> @.x, entity |-> Ready(r)]]
    /\ UNCHANGED <<exportRow, exporter, quotaHits, exportJob, stalledOnce, tokenMailed,
                   mailDoubtful, exportClock, exportFaults>>

\* Mutation: the mail is queued before the row is READY.
SaveReady_AfterMail(r) ==
    /\ runs[r].at = "save"
    /\ tokenMailed' = tokenMailed \cup {r}
    /\ runs' = [runs EXCEPT ![r].at = "mail"]
    /\ UNCHANGED <<exportRow, exporter, quotaHits, exportJob, stalledOnce, mailDoubtful,
                   exportClock, exportFaults>>

SaveReady(r) ==
    /\ runs[r].at = "save"
    /\ SaveEntity(r)
    /\ runs' = [runs EXCEPT ![r].at = "mail"]
    /\ UNCHANGED <<exporter, quotaHits, exportJob, stalledOnce, tokenMailed, mailDoubtful,
                   exportClock, exportFaults>>

EndJob(r) == exportJob' = [exportJob EXCEPT ![runs[r].x] = "over"]

\* Of the link, only the token matters to the download.
QueueMail(r) ==
    /\ runs[r].at = "mail"
    /\ tokenMailed' = tokenMailed \cup {r}
    /\ runs' = [runs EXCEPT ![r].at = "done"]
    /\ EndJob(r)
    /\ UNCHANGED <<exportRow, exporter, quotaHits, stalledOnce, mailDoubtful, exportClock, exportFaults>>

\* A rejection before the try block fails the job at once, one inside it goes
\* to the catch block; the mail may have been queued all the same.
RunRejects(r) ==
    /\ runs[r].at \in {"processing", "build", "save", "mail"} /\ ExportFault
    /\ IF runs[r].at = "processing"
       THEN runs' = [runs EXCEPT ![r].at = "done"] /\ EndJob(r)
       ELSE /\ runs' = [runs EXCEPT ![r] =
                   [at |-> "catch", x |-> @.x, entity |-> [@.entity EXCEPT !.status = "failed"]]]
            /\ UNCHANGED exportJob
    /\ \/ UNCHANGED <<tokenMailed, mailDoubtful>>
       \/ /\ runs[r].at = "mail"
          /\ tokenMailed' = tokenMailed \cup {r} /\ mailDoubtful' = mailDoubtful \cup {r}
    /\ UNCHANGED <<exportRow, exporter, quotaHits, stalledOnce, exportClock>>

SaveFailed(r) ==
    /\ runs[r].at = "catch"
    /\ SaveEntity(r)
    /\ runs' = [runs EXCEPT ![r].at = "done"]
    /\ EndJob(r)
    /\ UNCHANGED <<exporter, quotaHits, stalledOnce, tokenMailed, mailDoubtful,
                   exportClock, exportFaults>>

\* The process dies: the job stays active until it is found stalled.
RunCrashes(r) ==
    /\ runs[r].at \notin {"idle", "done"} /\ ExportFault
    /\ runs' = [runs EXCEPT ![r].at = "done"]
    /\ UNCHANGED <<exportRow, exporter, quotaHits, exportJob, stalledOnce, tokenMailed,
                   mailDoubtful, exportClock>>

ExportNext ==
    \/ ExportTick
    \/ \E x \in ExportRequest : CheckQuota(x) \/ SaveQueued(x) \/ AddExportJob(x) \/ RequestRejects(x)
    \/ \E r \in ExportRun, x \in ExportRequest : TakeExportJob(r, x)
    \/ \E r \in ExportRun :
          \/ SaveProcessing(r) \/ BuildFile(r) \/ SaveReady(r) \/ QueueMail(r)
          \/ RunRejects(r) \/ SaveFailed(r) \/ RunCrashes(r)

ExportSpec == ExportInit /\ [][ExportNext]_exportVars

----------------------------------------------------------------------------

\* getDownloadByToken: 200, 404 or 410.
GetDownloadByToken(token) ==
    LET found == {x \in ExportRequest : exportRow[x].token = token}
    IN  IF found = {} \/ \E x \in found : exportRow[x].status # "ready" THEN "not found"
        ELSE IF \E x \in found : exportRow[x].expiresAt < exportClock THEN "gone"
        ELSE "file"

\* A token that was mailed is answered with the file, or with 410 once it has
\* expired, never with 404: generateExport saves the row before it queues the mail
\* and marks it FAILED only when no mail went out.  Exempt are the jobs a
\* second worker took over, whose last save decides, and the mails that were
\* queued although the call was rejected.  This is about getDownloadByToken: the
\* address in the mail is req.baseUrl, which is empty, and /export/download/, and
\* so lacks the prefix of the route that leads there.
MailedTokenWorks ==
    \A r \in tokenMailed :
        \/ GetDownloadByToken(r) = "file"
        \/ GetDownloadByToken(r) = "gone" /\ runs[r].entity.expiresAt < exportClock
        \/ r \in mailDoubtful
        \/ runs[r].x \in stalledOnce
=============================================================================
