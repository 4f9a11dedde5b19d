-------------------------------- MODULE Mail --------------------------------
(***************************************************************************)
(* E-mail (src/src/email): EmailService.queue, the Bull job and            *)
(* EmailProcessor with its EmailLog row; the editable templates a mail is  *)
(* rendered from; and PaymentImportProcessor, a job that creates payments  *)
(* row by row and mails its result.  Bull is external: a failed attempt is *)
(* counted and retried, a stalled job is run again once without being      *)
(* counted, and the stalled worker may still be running it.                *)
(***************************************************************************)
EXTENDS Integers, FiniteSets

CONSTANTS
    Message,             \* calls of EmailService.queue
    MailWorker,
    Attempts,            \* RetryConfigService.email.maxAttempts + 1
    ImportRow,           \* rows of the import, as numbers
    Content,             \* subjects and bodies of a template
    MaxVersion,          \* bound: edits of the template
    MaxMailFaults        \* bound: rejected calls and stalls

ASSUME MailAssumption ==
    /\ Attempts \in Nat \ {0} /\ MaxVersion \in Nat /\ MaxMailFaults \in Nat
    /\ ImportRow \subseteq Nat /\ IsFiniteSet(ImportRow)

VARIABLES
    mailLog,     \* EmailLog.status
    mailJob,     \* the Bull job: state, attemptsMade, whether it has stalled
    working,     \* per worker: the message, the step, whether it holds the job's lock
    template,    \* the row: version and content; version 0: none
    versions,    \* the snapshots, as pairs of version and content
    import,      \* the import job: rows left, whether it runs again
    mailFaults,
    sent,        \* history: deliveries of each message
    unnoticed,   \* history: stalls, and rejections of an accepted mail or after it
    rowPayments  \* history: payments created per row

mailVars == <<mailLog, mailJob, working, template, versions, import, mailFaults,
              sent, unnoticed, rowPayments>>
jobVars == <<mailLog, mailJob, working, sent, unnoticed>>

NoMail == "none"
Idle == [message |-> NoMail, at |-> "idle", locked |-> FALSE]

MailInit ==
    /\ mailLog = [m \in Message |-> "none"]
    /\ mailJob = [m \in Message |-> [state |-> "none", attemptsMade |-> 0, stalled |-> FALSE]]
    /\ working = [w \in MailWorker |-> Idle]
    /\ template = [version |-> 0, content |-> NoMail] /\ versions = {}
    /\ import = [rows |-> ImportRow, at |-> "new", runs |-> 0]
    /\ mailFaults = 0
    /\ sent = [m \in Message |-> 0] /\ unnoticed = [m \in Message |-> 0]
    /\ rowPayments = [r \in ImportRow |-> 0]

MailFault ==
    /\ mailFaults < MaxMailFaults
    /\ mailFaults' = mailFaults + 1

MailStep(w, step) ==
    /\ working' = [working EXCEPT ![w] = IF step = "idle" THEN Idle ELSE [@ EXCEPT !.at = step]]
    /\ UNCHANGED <<template, versions, import, rowPayments>>

\* EmailService.queue: the log entry is saved before the job is added.
SaveLog(m) ==
    /\ mailLog[m] = "none"
    /\ mailLog' = [mailLog EXCEPT ![m] = "queued"]
    /\ UNCHANGED <<mailJob, working, template, versions, import, mailFaults, sent,
                   unnoticed, rowPayments>>

\* The add may be rejected: the entry stays queued for good.
AddJob(m) ==
    /\ mailLog[m] = "queued" /\ mailJob[m].state = "none"
    /\ \/ /\ mailJob' = [mailJob EXCEPT ![m].state = "waiting"]
          /\ UNCHANGED mailFaults
       \/ /\ MailFault
          /\ mailJob' = [mailJob EXCEPT ![m].state = "rejected"]
    /\ UNCHANGED <<mailLog, working, template, versions, import, sent, unnoticed, rowPayments>>

TakeJob(w, m) ==
    /\ working[w] = Idle /\ mailJob[m].state = "waiting"
    /\ mailJob' = [mailJob EXCEPT ![m].state = "active"]
    /\ working' = [working EXCEPT ![w] = [message |-> m, at |-> "attempt", locked |-> TRUE]]
    /\ UNCHANGED <<mailLog, template, versions, import, mailFaults, sent, unnoticed, rowPayments>>

\* Mutation: the row is marked sent before the mail is delivered.
CountAttempt_MarksSent(w) ==
    /\ working[w].at = "attempt"
    /\ mailLog' = [mailLog EXCEPT ![working[w].message] = "sent"]
    /\ MailStep(w, "send")
    /\ UNCHANGED <<mailJob, mailFaults, sent, unnoticed>>

\* handleSend: attemptCount is stored, ...
CountAttempt(w) ==
    /\ working[w].at = "attempt"
    /\ MailStep(w, "send")
    /\ UNCHANGED <<mailLog, mailJob, mailFaults, sent, unnoticed>>

\* ... NodemailerService.send renders and delivers, ...
Send(w) ==
    /\ working[w].at = "send"
    /\ sent' = [sent EXCEPT ![working[w].message] = @ + 1]
    /\ MailStep(w, "mark")
    /\ UNCHANGED <<mailLog, mailJob, mailFaults, unnoticed>>

\* ... and the row is marked sent.
MarkSent(w) ==
    /\ working[w].at = "mark"
    /\ mailLog' = [mailLog EXCEPT ![working[w].message] = "sent"]
    /\ MailStep(w, "finish")
    /\ UNCHANGED <<mailJob, mailFaults, sent, unnoticed>>

\* Bull completes the job, unless the worker has lost it.
FinishJob(w) ==
    LET m == working[w].message IN
    /\ working[w].at = "finish"
    /\ mailJob' = IF working[w].locked THEN [mailJob EXCEPT ![m].state = "done"] ELSE mailJob
    /\ MailStep(w, "idle")
    /\ UNCHANGED <<mailLog, mailFaults, sent, unnoticed>>

\* A call of handleSend rejects: the attempt has failed, unless the worker has
\* lost the job.  The mail server may have accepted the mail, and the row may be
\* marked, although the answer never came.
AttemptFails(w) ==
    LET m == working[w].message
        made == mailJob[m].attemptsMade + 1 IN
    /\ MailFault
    /\ working[w].at \in {"attempt", "send", "mark"}
    /\ \E done \in BOOLEAN :
          /\ sent' = IF done /\ working[w].at = "send" THEN [sent EXCEPT ![m] = @ + 1] ELSE sent
          /\ mailLog' = IF done /\ working[w].at = "mark"
                        THEN [mailLog EXCEPT ![m] = "sent"] ELSE mailLog
          /\ unnoticed' = IF working[w].at = "mark" \/ (done /\ working[w].at = "send")
                          THEN [unnoticed EXCEPT ![m] = @ + 1] ELSE unnoticed
    /\ IF working[w].locked
       THEN /\ mailJob' = [mailJob EXCEPT ![m].attemptsMade = made,
                              ![m].state = IF made < Attempts THEN "waiting" ELSE "failed"]
            /\ MailStep(w, "failed")
       ELSE MailStep(w, "idle") /\ UNCHANGED mailJob

\* handleFailed, on Bull's event: only the last attempt is written to the row.
HandleFailed(w) ==
    LET m == working[w].message IN
    /\ working[w].at = "failed"
    /\ mailLog' = IF mailJob[m].attemptsMade >= Attempts
                  THEN [mailLog EXCEPT ![m] = "failed"] ELSE mailLog
    /\ MailStep(w, "idle")
    /\ UNCHANGED <<mailJob, mailFaults, sent, unnoticed>>

\* The worker stops renewing its lock: the job is run once more, uncounted; the
\* second time it fails for good, with attempts left and so without handleFailed's
\* update.  The worker may have died or may go on.
Stall(w) ==
    LET m == working[w].message IN
    /\ MailFault
    /\ working[w].at \in {"attempt", "send", "mark"} /\ working[w].locked
    /\ mailJob' = [mailJob EXCEPT ![m].state = IF mailJob[m].stalled THEN "failed" ELSE "waiting",
                                  ![m].stalled = TRUE]
    /\ unnoticed' = [unnoticed EXCEPT ![m] = @ + 1]
    /\ \E still \in {Idle, [working[w] EXCEPT !.locked = FALSE]} :
          working' = [working EXCEPT ![w] = still]
    /\ UNCHANGED <<mailLog, sent, template, versions, import, rowPayments>>

-----------------------------------------------------------------------------
\* NotificationTemplateService: create once; update and rollback lock the row and
\* run in one transaction, which makes each of them one step.
CreateTemplate(c) ==
    /\ template.version = 0
    /\ template' = [version |-> 1, content |-> c]
    /\ UNCHANGED <<versions, jobVars, import, mailFaults, rowPayments>>

\* snapshot, then the edit under the next number; the unique index on template and
\* version rejects the transaction if that snapshot exists.
Revise(c) ==
    /\ template.version \in 1 .. MaxVersion
    /\ \A v \in versions : v[1] # template.version
    /\ versions' = versions \cup {<<template.version, template.content>>}
    /\ template' = [version |-> template.version + 1, content |-> c]
    /\ UNCHANGED <<jobVars, import, mailFaults, rowPayments>>

Rollback(v) == v \in versions /\ Revise(v[2])

-----------------------------------------------------------------------------
\* PaymentImportProcessor.process: a rejected row is reported, never retried.
CreateRow(r) ==
    /\ import.at \in {"new", "rows"} /\ r \in import.rows
    /\ \A s \in import.rows : r <= s
    /\ \/ rowPayments' = [rowPayments EXCEPT ![r] = @ + 1] /\ UNCHANGED mailFaults
       \/ MailFault /\ UNCHANGED rowPayments
    /\ import' = [import EXCEPT !.rows = @ \ {r},
                                !.at = IF import.rows = {r} THEN "mail" ELSE "rows"]
    /\ UNCHANGED <<jobVars, template, versions>>

\* The result is mailed; a rejection fails the job.
MailResults ==
    /\ import.at = "mail"
    /\ import' = [import EXCEPT !.at = "done"]
    /\ UNCHANGED mailFaults \/ MailFault
    /\ UNCHANGED <<jobVars, template, versions, rowPayments>>

\* A stalled import starts again from its first row.
ImportStalls ==
    /\ MailFault
    /\ import.at \in {"rows", "mail"} /\ import.runs = 0
    /\ import' = [rows |-> ImportRow, at |-> "new", runs |-> 1]
    /\ UNCHANGED <<jobVars, template, versions, rowPayments>>

MailNext ==
    \/ \E m \in Message : SaveLog(m) \/ AddJob(m) \/ \E w \in MailWorker : TakeJob(w, m)
    \/ \E w \in MailWorker : \/ CountAttempt(w) \/ Send(w) \/ MarkSent(w) \/ FinishJob(w)
                             \/ AttemptFails(w) \/ HandleFailed(w) \/ Stall(w)
    \/ \E c \in Content : CreateTemplate(c) \/ Revise(c)
    \/ \E v \in versions : Rollback(v)
    \/ \E r \in ImportRow : CreateRow(r)
    \/ MailResults \/ ImportStalls

MailSpec == MailInit /\ [][MailNext]_mailVars

-----------------------------------------------------------------------------
\* An EmailLog says sent only of a message that was delivered, says failed of a
\* delivered one only if its worker stalled, or the delivery or a call after it was
\* rejected although the server had accepted the mail, and each delivery beyond the
\* first is due to one of those, however two workers interleave on one job
\* (handleSend, handleFailed).
MailLogIsHonest ==
    \A m \in Message :
        /\ mailLog[m] = "sent" => sent[m] > 0
        /\ mailLog[m] = "failed" /\ sent[m] > 0 => unnoticed[m] > 0
        /\ sent[m] <= 1 + unnoticed[m]
=============================================================================
