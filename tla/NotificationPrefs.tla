-------------------------- MODULE NotificationPrefs --------------------------
(***************************************************************************)
(* A merchant's notification preferences per channel and event             *)
(* (NotificationPrefsService) and the webhook that payment updates are     *)
(* forwarded to (NotificationWebhookService).                              *)
(***************************************************************************)
EXTENDS Integers, FiniteSets

CONSTANTS
    EventType,
    StatusEvents,        \* the payment statuses that have an event, with it
    PaymentStatus,
    Updater,             \* concurrent calls of updatePrefs
    Hook,                \* ids of notification webhooks
    HookCall,            \* concurrent calls of register and remove
    MaxPrefFaults        \* bound: rejected calls

\* "webhook" stands for e-mail, push and webhook: on unless switched off.
Channel == {"webhook", "sms", "in_app"}
Pref == Channel \X EventType
NoHook == "none"

ASSUME PrefAssumption == MaxPrefFaults \in Nat /\ NoHook \notin Hook

VARIABLES
    prefs,       \* the stored rows: "unset", "on" or "off"
    updating,    \* per call of updatePrefs: the rows it is about to write
    hooks,       \* the merchant's notification webhooks
    hookCall,    \* per call: the step, the webhook it found
    forwarded,   \* events handed to the delivery queue, with the webhook
    prefFaults,
    issued,      \* history: the webhooks ever created
    newest,      \* history: the one created last
    withdrawn    \* history: the webhooks that remove was to delete

prefVars == <<prefs, updating, hooks, hookCall, forwarded, prefFaults, issued, newest,
              withdrawn>>
hookVars == <<hooks, hookCall, forwarded, issued, newest, withdrawn>>
updateVars == <<prefs, updating>>

NoUpdate == [at |-> "idle", rows |-> {}]
NoHookCall == [at |-> "idle", found |-> NoHook]

DefaultEnabled(c) == c # "sms"

\* isEnabled and getPrefs: in_app always, else the row, else the channel's default.
IsEnabled(c, e) ==
    \/ c = "in_app"
    \/ prefs[<<c, e>>] = "on"
    \/ prefs[<<c, e>>] = "unset" /\ DefaultEnabled(c)

\* createDefaults, in the transaction that inserts the merchant: the code's
\* defaults, or whatever RuntimeConfig lists, SMS included.
PrefInit ==
    /\ prefs \in {[p \in Pref |-> IF p[1] = c THEN "on" ELSE "unset"] : c \in {"webhook", "sms"}}
    /\ updating = [u \in Updater |-> NoUpdate]
    /\ hooks = {} /\ hookCall = [r \in HookCall |-> NoHookCall]
    /\ forwarded = {} /\ prefFaults = 0
    /\ issued = {} /\ newest = NoHook /\ withdrawn = {}

PrefFault ==
    /\ prefFaults < MaxPrefFaults
    /\ prefFaults' = prefFaults + 1

-----------------------------------------------------------------------------
EnablesSms(rows) == \E r \in rows : r[1][1] = "sms" /\ r[2] = "on"

\* Merchant has no property smsPhoneNumber: TypeORM throws when it is selected,
\* to enable SMS without a new number, and when it is to be updated.
SelectsNumber(rows, number) == EnablesSms(rows) /\ number # "given"
UpdatesNumber(number) == number # "undefined"

\* What passes the validation of updatePrefs and the update of the number.
Accepted(rows, number) ==
    /\ \A r \in rows : r[1][1] = "in_app" => r[2] = "on"
    /\ ~SelectsNumber(rows, number) /\ ~UpdatesNumber(number)

UpdatePrefs(u, rows, number) ==
    /\ updating[u] = NoUpdate
    /\ Accepted(rows, number)
    /\ updating' = [updating EXCEPT ![u] = [at |-> "rows", rows |-> rows]]
    /\ UNCHANGED <<prefs, hookVars, prefFaults>>

\* One upsert per row, in an order of the client's.
WriteRow(u, r) ==
    /\ updating[u].at = "rows" /\ r \in updating[u].rows
    /\ prefs' = [prefs EXCEPT ![r[1]] = r[2]]
    /\ updating' = [updating EXCEPT ![u].rows = @ \ {r}]
    /\ UNCHANGED <<hookVars, prefFaults>>

\* All rows are written, and getPrefs, which selects the number, throws; or an
\* upsert rejects half-way.  Either way the rows stay.
UpdateEnds(u) ==
    /\ updating[u].at # "idle"
    /\ (updating[u].rows = {} /\ UNCHANGED prefFaults) \/ PrefFault
    /\ updating' = [updating EXCEPT ![u] = NoUpdate]
    /\ UNCHANGED <<prefs, hookVars>>

-----------------------------------------------------------------------------
\* The first notification webhook that the query returns, if there is one.
FindHook(found) == IF hooks = {} THEN found = NoHook ELSE found \in hooks

HookStep(r, from, to) ==
    /\ hookCall[r].at = from
    /\ hookCall' = [hookCall EXCEPT ![r].at = to]

\* register: find the old webhook, create the new one, remove the old one.
RegisterFinds(r, found) ==
    /\ hookCall[r] = NoHookCall /\ FindHook(found)
    /\ hookCall' = [hookCall EXCEPT ![r] = [at |-> "create", found |-> found]]
    /\ UNCHANGED <<updateVars, hooks, forwarded, prefFaults, issued, newest, withdrawn>>

StoreHook(h) ==
    /\ h \notin issued
    /\ hooks' = hooks \cup {h}
    /\ issued' = issued \cup {h} /\ newest' = h

RegisterCreates(r, h) ==
    /\ HookStep(r, "create", "remove")
    /\ StoreHook(h)
    /\ UNCHANGED <<updateVars, forwarded, prefFaults, withdrawn>>

\* create rejects; the insert may have been committed.
CreateRejects(r, h) ==
    /\ PrefFault
    /\ HookStep(r, "create", "done")
    /\ StoreHook(h) \/ UNCHANGED <<hooks, issued, newest>>
    /\ UNCHANGED <<updateVars, forwarded, withdrawn>>

\* Mutation: the old webhook is looked up after the new one is created.
RegisterRemoves_FindsLate(r) ==
    /\ HookStep(r, "remove", "done")
    /\ \E found \in hooks : hooks' = hooks \ {found}
    /\ UNCHANGED <<updateVars, forwarded, prefFaults, issued, newest, withdrawn>>

\* Deleting a row that is gone is no error; a rejected delete may have worked.
DeleteFound(r) ==
    \/ hooks' = hooks \ {hookCall[r].found} /\ UNCHANGED prefFaults
    \/ PrefFault /\ hooks' \in {hooks, hooks \ {hookCall[r].found}}

RegisterRemoves(r) ==
    /\ HookStep(r, "remove", "done")
    /\ DeleteFound(r)
    /\ UNCHANGED <<updateVars, forwarded, issued, newest, withdrawn>>

\* remove: find, then delete.
RemoveFinds(r, found) ==
    /\ hookCall[r] = NoHookCall /\ FindHook(found) /\ found # NoHook
    /\ hookCall' = [hookCall EXCEPT ![r] = [at |-> "delete", found |-> found]]
    /\ UNCHANGED <<updateVars, hooks, forwarded, prefFaults, issued, newest, withdrawn>>

RemoveDeletes(r) ==
    /\ HookStep(r, "delete", "done")
    /\ DeleteFound(r)
    /\ withdrawn' = withdrawn \cup {hookCall[r].found}
    /\ UNCHANGED <<updateVars, forwarded, issued, newest>>

\* Whichever webhook the query returns first, if the preference allows it.
NotifyPayment(e) ==
    /\ \E h \in hooks :
          /\ IsEnabled("webhook", e)
          /\ forwarded' = forwarded \cup {<<e, h>>}
    /\ UNCHANGED <<updateVars, hooks, hookCall, prefFaults, issued, newest, withdrawn>>

\* The subscriber of payment updates.  A rejection of notify is logged: the
\* payment's update must not be rolled back.
AfterUpdate(previous, status) ==
    /\ status # previous
    /\ status \in DOMAIN StatusEvents
    /\ NotifyPayment(StatusEvents[status])

UpdatesNext ==
    \E u \in Updater :
       \/ \E e \in EventType, c \in Channel, sms, other \in {"on", "off"},
             number \in {"given", "null", "undefined"} :
             UpdatePrefs(u, {<<<<"sms", e>>, sms>>, <<<<c, e>>, other>>}, number)
       \/ UpdateEnds(u)
       \/ \E r \in updating[u].rows : WriteRow(u, r)

HooksNext ==
    \/ \E r \in HookCall :
          \/ \E found \in hooks \cup {NoHook} : RegisterFinds(r, found) \/ RemoveFinds(r, found)
          \/ \E h \in Hook : RegisterCreates(r, h) \/ CreateRejects(r, h)
          \/ RegisterRemoves(r) \/ RemoveDeletes(r)
    \/ \E previous, status \in PaymentStatus : AfterUpdate(previous, status)

PrefSpec == PrefInit /\ [][UpdatesNext \/ HooksNext]_prefVars

-----------------------------------------------------------------------------
\* However calls of register overlap and wherever one is rejected, the webhook
\* that was created last is still there unless remove was to delete it: no call
\* removes the webhook that another has just put in its place, and the merchant
\* is not left without one (register).
NewestHookStays == newest # NoHook => newest \in hooks \cup withdrawn

\* At this commit no request switches SMS on: the number it would need can
\* neither be read nor stored (updatePrefs).
SmsIsNotSwitchedOn ==
    \A e \in EventType : prefs[<<"sms", e>>] # "on" => prefs'[<<"sms", e>>] # "on"
=============================================================================
