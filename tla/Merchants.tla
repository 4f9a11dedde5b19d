------------------------------ MODULE Merchants ------------------------------
(***************************************************************************)
(* One row of merchants, and the calls that change it: every operation of  *)
(* MerchantsService and AdminService reads the row, changes the entity and *)
(* saves it.  save selects the row once more and updates the columns in    *)
(* which the entity differs, so that it also writes what others changed    *)
(* since the first read.  ApiKeyExpiryService mails a reminder before an   *)
(* API key expires, and marks the row by an update of one column.          *)
(***************************************************************************)
EXTENDS Integers

CONSTANTS
    MerchantCall,        \* calls of a service, each made once
    ReminderRun,         \* runs of sendExpiryReminders
    MaxLifetime,         \* MAX_EXPIRY_MS, in days
    ReminderDays,        \* REMINDER_DAYS
    MaxDay,              \* bound: days
    MaxMerchantFaults    \* bound: rejected calls

ASSUME MerchantAssumption ==
    /\ MaxLifetime \in Nat \ {0} /\ ReminderDays \in Nat
    /\ MaxDay \in Nat /\ MaxMerchantFaults \in Nat

VARIABLES
    merchant,        \* the row
    calls,           \* per call: its step, what it read, its entity, what save read
    reminders,       \* per run: its step, and the key and the expiry it found
    day, merchantFaults,
    keysIssued,      \* API keys are numbered
    remindersSent,   \* history: pairs of key and expiry that were mailed
    overtaken        \* history: a key, an expiry or a mark was written by a call
                     \* that had read an older one

merchantVars ==
    <<merchant, calls, reminders, day, merchantFaults, keysIssued, remindersSent, overtaken>>

NoExpiry == -1

NewMerchant ==
    [status |-> "pending", role |-> "merchant", key |-> 0, expiresAt |-> NoExpiry,
     sent |-> FALSE, deleted |-> "no", profile |-> 0, allowlist |-> 0, fee |-> 0,
     preference |-> 0, sandbox |-> 0, adminIps |-> 0, totpSecret |-> 0, totpEnabled |-> FALSE]

NoCall == [at |-> "idle", read |-> NewMerchant, entity |-> NewMerchant, base |-> NewMerchant]
CallDone == [NoCall EXCEPT !.at = "done"]
NoReminder == [at |-> "idle", key |-> 0, expiresAt |-> NoExpiry]

MerchantInit ==
    /\ \E r \in {"merchant", "admin"} :
          merchant = [NewMerchant EXCEPT !.role = r, !.key = 1, !.expiresAt = 1]
    /\ calls = [c \in MerchantCall |-> NoCall]
    /\ reminders = [r \in ReminderRun |-> NoReminder]
    /\ day = 0 /\ merchantFaults = 0 /\ keysIssued = 1
    /\ remindersSent = {} /\ overtaken = FALSE

MerchantFault ==
    /\ merchantFaults < MaxMerchantFaults
    /\ merchantFaults' = merchantFaults + 1

-----------------------------------------------------------------------------
(***************************************************************************)
(* The operations, as the entities each may save after it has read m: none *)
(* if it throws.                                                           *)
(***************************************************************************)
Update(m) == {[m EXCEPT !.profile = 1]}

SetApiKeyIpAllowlist(m) == {[m EXCEPT !.allowlist = 1]}

UpdateMerchantFee(m) == {[m EXCEPT !.fee = 1]}

\* The two limits are no columns of the entity: save leaves them out.
UpdateTransactionLimits(m) == {m}

VerifyMerchant(m) == {[m EXCEPT !.status = "active"]}

UpdateSettlementPreference(m) == {[m EXCEPT !.preference = 1]}

\* The dates that are accepted: in the future, and at most a year away.
Expiries == day + 1 .. day + MaxLifetime

\* Mutation: a new key keeps the mark of the old one.
GenerateApiKey_KeepsMark(m) ==
    {[m EXCEPT !.key = keysIssued + 1, !.expiresAt = x] : x \in Expiries \cup {NoExpiry}}

GenerateApiKey(m) ==
    {[m EXCEPT !.key = keysIssued + 1, !.expiresAt = x, !.sent = FALSE] :
        x \in Expiries \cup {NoExpiry}}

ExtendApiKeyExpiry(m) == {[m EXCEPT !.expiresAt = x, !.sent = FALSE] : x \in Expiries}

\* bulkUpdateMerchantStatus makes one such call after the other, whatever the
\* ones before it did.
UpdateMerchantStatus(m) == {[m EXCEPT !.status = s] : s \in {"active", "suspended", "pending"}}

Admins == {"admin", "superadmin"}

\* The actor is a SUPERADMIN, else the call throws before it reads.
UpdateAdminRole(m) == IF m.role \in Admins THEN {[m EXCEPT !.role = r] : r \in Admins} ELSE {}

\* A new secret leaves totpEnabled as it is.
SetupAdminTotp(m) == {[m EXCEPT !.totpSecret = m.totpSecret + 1]}

\* The token fits the secret that was read; otherwise nothing is saved.
VerifyAdminTotp(m) == IF m.totpSecret = 0 THEN {} ELSE {[m EXCEPT !.totpEnabled = TRUE]}

UpdateAdminAllowedIps(m) == {[m EXCEPT !.adminIps = 1]}

ToggleSandboxMode(m) == {[m EXCEPT !.sandbox = 1 - @]}

\* softRemove and softDelete write deletedAt alone; delete removes the row.
DeleteAdmin(m) == IF m.role = "admin" THEN {[m EXCEPT !.deleted = "soft"]} ELSE {}
DeleteRecord(m) == {[m EXCEPT !.deleted = d] : d \in {"soft", "hard"}}
RestoreRecord(m) == IF m.deleted = "soft" THEN {[m EXCEPT !.deleted = "no"]} ELSE {}

\* What a merchant does to its own row, an administrator to a merchant's keys
\* and fees, and an administrator to any row.  No controller calls
\* updateTransactionLimits and verifyMerchant.
MerchantOperations(m) ==
    UNION {Update(m), GenerateApiKey(m), SetApiKeyIpAllowlist(m), UpdateSettlementPreference(m)}

MerchantAdminOperations(m) ==
    UNION {UpdateMerchantFee(m), ExtendApiKeyExpiry(m), UpdateTransactionLimits(m), VerifyMerchant(m)}

AdminOperations(m) ==
    UNION {UpdateMerchantStatus(m), UpdateAdminRole(m), SetupAdminTotp(m), VerifyAdminTotp(m),
           UpdateAdminAllowedIps(m), ToggleSandboxMode(m)}

Unsaved(m) == DeleteAdmin(m) \cup DeleteRecord(m) \cup RestoreRecord(m)

-----------------------------------------------------------------------------
\* findOne does not see a deleted row.
ReadMerchant(c) ==
    /\ calls[c].at = "idle" /\ merchant.deleted = "no"
    /\ \E e \in UNION {MerchantOperations(merchant), MerchantAdminOperations(merchant),
                       AdminOperations(merchant)} :
          /\ calls' = [calls EXCEPT ![c] = [at |-> "save", read |-> merchant, entity |-> e,
                                            base |-> NewMerchant]]
          /\ keysIssued' = IF e.key > keysIssued THEN e.key ELSE keysIssued
    /\ UNCHANGED <<merchant, reminders, day, merchantFaults, remindersSent, overtaken>>

\* The operations that update what they change, after a read with deleted rows.
ReadRecord(c) ==
    /\ calls[c].at = "idle" /\ merchant.deleted # "hard"
    /\ \E e \in Unsaved(merchant) :
          calls' = [calls EXCEPT ![c] = [at |-> "write", read |-> merchant, entity |-> e, base |-> merchant]]
    /\ UNCHANGED <<merchant, reminders, day, merchantFaults, keysIssued, remindersSent, overtaken>>

\* save selects the row, deleted or not ...
SaveSelects(c) ==
    /\ calls[c].at = "save"
    /\ calls' = [calls EXCEPT ![c] = [at |-> "write", read |-> @.read, entity |-> @.entity,
                                      base |-> merchant]]
    /\ UNCHANGED <<merchant, reminders, day, merchantFaults, keysIssued, remindersSent, overtaken>>

KeyColumns == {"key", "expiresAt", "sent"}

\* ... and updates the columns that differ, or inserts the row that is gone.
SaveUpdates(c) ==
    LET base == calls[c].base
        entity == calls[c].entity IN
    /\ calls[c].at = "write"
    /\ merchant' = IF base.deleted = "hard" THEN entity
                   ELSE IF merchant.deleted = "hard" THEN merchant
                   ELSE [col \in DOMAIN merchant |->
                            IF entity[col] # base[col] THEN entity[col] ELSE merchant[col]]
    /\ overtaken' = (overtaken \/ \E col \in KeyColumns :
                         {calls[c].read[col], base[col]} # {merchant[col]})
    /\ calls' = [calls EXCEPT ![c] = [NoCall EXCEPT !.at = "audit"]]
    /\ UNCHANGED <<reminders, day, merchantFaults, keysIssued, remindersSent>>

\* The entry of the audit log, or the cached count that is dropped.
WriteAuditLog(c) ==
    /\ calls[c].at = "audit"
    /\ calls' = [calls EXCEPT ![c] = CallDone]
    /\ UNCHANGED <<merchant, reminders, day, merchantFaults, keysIssued, remindersSent, overtaken>>

\* A rejected step ends the call: a change may stay without its entry.
CallRejects(c) ==
    /\ MerchantFault
    /\ calls[c].at \in {"save", "write", "audit"}
    /\ calls' = [calls EXCEPT ![c] = CallDone]
    /\ UNCHANGED <<merchant, reminders, day, keysIssued, remindersSent, overtaken>>

-----------------------------------------------------------------------------
\* sendExpiryReminders: a key that expires within the window and is not marked.
Expiring == merchant.deleted = "no" /\ ~merchant.sent
            /\ merchant.expiresAt \in day .. day + ReminderDays

FindExpiring(r) ==
    /\ reminders[r].at = "idle" /\ Expiring
    /\ reminders' = [reminders EXCEPT ![r] =
           [at |-> "queue", key |-> merchant.key, expiresAt |-> merchant.expiresAt]]
    /\ UNCHANGED <<merchant, calls, day, merchantFaults, keysIssued, remindersSent, overtaken>>

QueueReminder(r) ==
    /\ reminders[r].at = "queue"
    /\ remindersSent' = remindersSent \cup {<<reminders[r].key, reminders[r].expiresAt>>}
    /\ reminders' = [reminders EXCEPT ![r].at = "mark"]
    /\ UNCHANGED <<merchant, calls, day, merchantFaults, keysIssued, overtaken>>

\* The row is marked by its id, whatever key it has by now.
MarkReminded(r) ==
    /\ reminders[r].at = "mark"
    /\ merchant' = IF merchant.deleted = "hard" THEN merchant ELSE [merchant EXCEPT !.sent = TRUE]
    /\ overtaken' = (overtaken \/ <<merchant.key, merchant.expiresAt>>
                                     # <<reminders[r].key, reminders[r].expiresAt>>)
    /\ reminders' = [reminders EXCEPT ![r] = NoReminder]
    /\ UNCHANGED <<calls, day, merchantFaults, keysIssued, remindersSent>>

\* The error is logged and the next merchant is tried: a mail without its mark
\* is sent again by the next run.
ReminderRejects(r) ==
    /\ MerchantFault
    /\ reminders[r].at \in {"queue", "mark"}
    /\ reminders' = [reminders EXCEPT ![r] = NoReminder]
    /\ UNCHANGED <<merchant, calls, day, keysIssued, remindersSent, overtaken>>

DayPasses ==
    /\ day < MaxDay
    /\ day' = day + 1
    /\ UNCHANGED <<merchant, calls, reminders, merchantFaults, keysIssued, remindersSent, overtaken>>

MerchantNext ==
    \/ \E c \in MerchantCall : \/ ReadMerchant(c) \/ ReadRecord(c) \/ SaveSelects(c)
                               \/ SaveUpdates(c) \/ WriteAuditLog(c) \/ CallRejects(c)
    \/ \E r \in ReminderRun : \/ FindExpiring(r) \/ QueueReminder(r) \/ MarkReminded(r)
                              \/ ReminderRejects(r)
    \/ DayPasses

MerchantSpec == MerchantInit /\ [][MerchantNext]_merchantVars

-----------------------------------------------------------------------------
\* A row marked as reminded has been mailed about the key and the expiry it holds
\* now: issuing or extending a key, restoring or deleting the row and saving a
\* setting never leave a key that expires without a warning, unless a call wrote
\* over a key, an expiry or a mark newer than the one it had read
\* (generateApiKey, extendApiKeyExpiry, sendExpiryReminders).
MarkedIsReminded ==
    merchant.sent /\ ~overtaken => <<merchant.key, merchant.expiresAt>> \in remindersSent
=============================================================================
