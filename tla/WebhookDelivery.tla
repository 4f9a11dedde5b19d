--------------------------- MODULE WebhookDelivery ---------------------------
(***************************************************************************)
(* Delivery of one merchant webhook: WebhooksService (dispatch, replay,    *)
(* remove, resetCircuit, updateRetryConfig), WebhookDeliveryService (the   *)
(* Bull job) and WebhookDeliveryProcessor (POST, retry, circuit breaker,   *)
(* deactivation), in src/src/webhooks.                                     *)
(*                                                                         *)
(* An event stands for one body: the body carries the time of its dispatch *)
(* so no two dispatches share one.  A job's id is made of webhook, event,  *)
(* attempt number and body, that is [event, attempt].                      *)
(***************************************************************************)
EXTENDS Integers, FiniteSets

CONSTANTS
    Worker,       \* the processes that run WebhookDeliveryProcessor
    Event,
    CircuitAt,    \* WEBHOOK_CIRCUIT_FAILURE_THRESHOLD (5 in the code)
    OpenFor,      \* WEBHOOK_CIRCUIT_OPEN_MS (24 h in the code)
    DeactivateAt, \* failures that deactivate the webhook (10 in the code)
    DefaultMax,   \* WEBHOOK_RETRY_COUNT (5 in the code)
    Limit,        \* the maxAttempts a merchant may configure (1..10)
    MaxTime,      \* bound: the last instant
    MaxReplays,   \* bound: calls of replay
    MaxAdmin,     \* bound: calls of remove, resetCircuit, updateRetryConfig
    MaxFaults     \* bound: rejected calls, lost answers and restarts

ASSUME WebhookAssumption ==
    /\ CircuitAt \in Nat \ {0} /\ OpenFor \in Nat \ {0}
    /\ DeactivateAt \in Nat \ {0}
    /\ DefaultMax \in Nat \ {0} /\ Limit \subseteq Nat \ {0}
    /\ MaxTime \in Nat /\ MaxReplays \in Nat /\ MaxAdmin \in Nat
    /\ MaxFaults \in Nat

VARIABLES
    hook,      \* the webhooks row: [present, active, failures, until]
    limit,     \* merchant.webhookRetryConfig?.maxAttempts, 0 when unset
    found,     \* events a dispatch or replay has matched and not yet enqueued
    waiting,   \* jobs in Redis that wait (for a worker or for their delay)
    failed,    \* jobs in Redis that failed (removeOnFail: false)
    pc, job, max, readBack, \* each worker: step, job, maxAttempts, webhook it read
    entity,    \* the webhook resetCircuit has read
    logged,    \* webhook_delivery_logs: the events with an entry
    now,
    sent,      \* history: events dispatched
    received,  \* history: how often the endpoint accepted each event
    fate,      \* history: why the delivery of an event was given up
    unanswered, \* history: deliveries accepted although the POST rejected
    admin, replays, faults

vars == <<hook, limit, found, waiting, failed, pc, job, max, readBack, entity,
          logged, now, sent, received, fate, unanswered, admin, replays,
          faults>>
local == <<pc, job, max, readBack>>
redis == <<waiting, failed>>
history == <<sent, received, fate>>
budget == <<admin, replays, faults, unanswered>>

DeliveryJob == [event : Event, attempt : Nat]
None == <<>>
Live == waiting \cup failed \cup ({job[w] : w \in Worker} \ {None})

Init ==
    /\ hook = [present |-> TRUE, active |-> TRUE, failures |-> 0, until |-> 0]
    /\ limit = 0
    /\ found = {} /\ waiting = {} /\ failed = {}
    /\ pc = [w \in Worker |-> "idle"]
    /\ job = [w \in Worker |-> None]
    /\ max = [w \in Worker |-> 0]
    /\ readBack = [w \in Worker |-> None]
    /\ entity = None
    /\ logged = {} /\ now = 0
    /\ sent = {}
    /\ received = [e \in Event |-> 0]
    /\ fate = [e \in Event |-> {}]
    /\ admin = 0 /\ replays = 0 /\ faults = 0 /\ unanswered = 0

Fault ==
    /\ faults + unanswered < MaxFaults
    /\ faults' = faults + 1
    /\ UNCHANGED unanswered

-----------------------------------------------------------------------------
(* WebhooksService *)

\* dispatch: the active webhooks are read, each gets the event afterwards.
Dispatch(e) ==
    /\ e \notin sent
    /\ sent' = sent \cup {e}
    /\ \/ /\ hook.present /\ hook.active
          /\ found' = found \cup {e} /\ UNCHANGED fate
       \/ /\ ~(hook.present /\ hook.active)
          /\ fate' = [fate EXCEPT ![e] = {"inactive"}] /\ UNCHANGED found
    /\ UNCHANGED <<hook, limit, redis, local, entity, logged, now, received,
                   budget>>

\* replay: a logged delivery of an active webhook is enqueued again.
Replay(e) ==
    /\ replays < MaxReplays
    /\ replays' = replays + 1
    /\ hook.present /\ hook.active
    /\ e \in logged
    /\ found' = found \cup {e}
    /\ UNCHANGED <<hook, limit, redis, local, entity, logged, now, history,
                   admin, faults, unanswered>>

\* enqueueDelivery: a job whose id Redis holds already is not added again.
EnqueueDelivery(e) ==
    /\ e \in found
    /\ found' = found \ {e}
    /\ waiting' = waiting \cup ({[event |-> e, attempt |-> 1]} \ Live)
    /\ UNCHANGED <<hook, limit, failed, local, entity, logged, now, history,
                   budget>>

\* enqueueDelivery: assertSafeUrl refuses (the host does not resolve).
Refuse(e) ==
    /\ e \in found
    /\ found' = found \ {e}
    /\ fate' = [fate EXCEPT ![e] = @ \cup {"refused"}]
    /\ UNCHANGED <<hook, limit, redis, local, entity, logged, now, sent,
                   received, budget>>

\* enqueueDelivery: queue.add rejects, and with it the dispatch or replay.
EnqueueFails(e) ==
    /\ Fault
    /\ e \in found
    /\ found' = found \ {e}
    /\ fate' = [fate EXCEPT ![e] = @ \cup {"rejected"}]
    /\ UNCHANGED <<hook, limit, redis, local, entity, logged, now, sent,
                   received, admin, replays>>

Admin ==
    /\ admin < MaxAdmin
    /\ admin' = admin + 1

\* updateRetryConfig
UpdateRetryConfig ==
    /\ Admin
    /\ limit' \in Limit \ {limit}
    /\ UNCHANGED <<hook, found, redis, local, entity, logged, now, history,
                   replays, faults, unanswered>>

\* remove: the jobs of the webhook stay in the queue.
RemoveHook ==
    /\ Admin
    /\ hook.present
    /\ hook' = [hook EXCEPT !.present = FALSE]
    /\ UNCHANGED <<limit, found, redis, local, entity, logged, now, history,
                   replays, faults, unanswered>>

\* resetCircuit: the webhook is read ...
ResetRead ==
    /\ Admin
    /\ hook.present /\ entity = None
    /\ entity' = hook
    /\ UNCHANGED <<hook, limit, found, redis, local, logged, now, history,
                   replays, faults, unanswered>>

\* ... and saved: TypeORM may write the stale isActive with it, and inserts the
\* row again if it has been removed.
ResetSave ==
    /\ entity # None
    /\ entity' = None
    /\ \E a \in {entity.active, hook.active} :
         hook' = [present |-> TRUE, failures |-> 0, until |-> 0,
                  active |-> IF hook.present THEN a ELSE entity.active]
    /\ UNCHANGED <<limit, found, redis, local, logged, now, history, budget>>

-----------------------------------------------------------------------------
(* WebhookDeliveryProcessor *)

Goto(w, from, to) ==
    /\ pc[w] = from
    /\ pc' = [pc EXCEPT ![w] = to]

\* The worker is done with its job.
Idle(w) ==
    /\ pc' = [pc EXCEPT ![w] = "idle"]
    /\ job' = [job EXCEPT ![w] = None]
    /\ max' = [max EXCEPT ![w] = 0]
    /\ readBack' = [readBack EXCEPT ![w] = None]

Open(h) == h.until > now

\* process: the circuit of the webhook is closed (or the webhook is gone).
TakeJob(w, j) ==
    /\ j \in waiting
    /\ Goto(w, "idle", "post")
    /\ ~(hook.present /\ Open(hook))
    /\ waiting' = waiting \ {j}
    /\ job' = [job EXCEPT ![w] = j]
    /\ UNCHANGED <<hook, limit, found, failed, max, readBack, entity, logged, now,
                   history, budget>>

\* process: the circuit is open, the job completes without a delivery.
SkipJob(w, j) ==
    /\ j \in waiting
    /\ pc[w] = "idle"
    /\ hook.present /\ Open(hook)
    /\ waiting' = waiting \ {j}
    /\ fate' = [fate EXCEPT ![j.event] = @ \cup {"circuit"}]
    /\ UNCHANGED <<hook, limit, found, failed, local, entity, logged, now, sent,
                   received, budget>>

\* process: the webhook cannot be read, the job fails and is kept.
ReadFails(w, j) ==
    /\ Fault
    /\ j \in waiting
    /\ pc[w] = "idle"
    /\ waiting' = waiting \ {j}
    /\ failed' = failed \cup {j}
    /\ UNCHANGED <<hook, limit, found, local, entity, logged, now, history,
                   admin, replays>>

\* Mutation: an accepted delivery is taken for a failed one.
PostOk_TakenForFailure(w) ==
    /\ Goto(w, "post", "logFail")
    /\ received' = [received EXCEPT ![job[w].event] = @ + 1]
    /\ max' = [max EXCEPT ![w] = DefaultMax]
    /\ UNCHANGED <<hook, limit, found, redis, job, readBack, entity, logged, now,
                   sent, fate, budget>>

\* axios.post resolves.
PostOk(w) ==
    /\ Goto(w, "post", "logOk")
    /\ received' = [received EXCEPT ![job[w].event] = @ + 1]
    /\ UNCHANGED <<hook, limit, found, redis, job, max, readBack, entity, logged,
                   now, sent, fate, budget>>

\* axios.post rejects and the endpoint has not accepted the body.  maxAttempts is the merchant's, or the default one when
\* it is unset or the merchant cannot be read.
PostFails(w) ==
    /\ Goto(w, "post", "logFail")
    /\ \E n \in {limit, 0} : max' = [max EXCEPT ![w] = IF n = 0 THEN DefaultMax ELSE n]
    /\ UNCHANGED <<hook, limit, found, redis, job, readBack, entity, logged, now,
                   sent, received, fate, budget>>

\* axios.post rejects although the endpoint accepted the body: its answer came
\* after the 15 s timeout, or was lost.
PostUnanswered(w) ==
    /\ faults + unanswered < MaxFaults
    /\ unanswered' = unanswered + 1
    /\ Goto(w, "post", "logFail")
    /\ received' = [received EXCEPT ![job[w].event] = @ + 1]
    /\ \E n \in {limit, 0} : max' = [max EXCEPT ![w] = IF n = 0 THEN DefaultMax ELSE n]
    /\ UNCHANGED <<hook, limit, found, redis, job, readBack, entity, logged, now,
                   sent, fate, admin, replays, faults>>

\* logDelivery("success")
LogSuccess(w) ==
    /\ Goto(w, "logOk", "markOk")
    /\ logged' = logged \cup {job[w].event}
    /\ UNCHANGED <<hook, limit, found, redis, job, max, readBack, entity, now,
                   history, budget>>

\* markWebhookSuccess: one atomic update, then the job completes.
MarkSuccess(w) ==
    /\ pc[w] = "markOk"
    /\ hook' = [hook EXCEPT !.failures = 0, !.until = 0]
    /\ Idle(w)
    /\ UNCHANGED <<limit, found, redis, entity, logged, now, history, budget>>

\* A call rejects after the POST succeeded: the catch block treats the delivery
\* as failed.
SuccessRejected(w) ==
    /\ Fault
    /\ pc[w] \in {"logOk", "markOk"}
    /\ pc' = [pc EXCEPT ![w] = "logFail"]
    /\ \E n \in {limit, 0} : max' = [max EXCEPT ![w] = IF n = 0 THEN DefaultMax ELSE n]
    /\ UNCHANGED <<hook, limit, found, redis, job, readBack, entity, logged, now,
                   history, admin, replays>>

\* logDelivery("failure")
LogFailure(w) ==
    /\ Goto(w, "logFail", "increment")
    /\ logged' = logged \cup {job[w].event}
    /\ UNCHANGED <<hook, limit, found, redis, job, max, readBack, entity, now,
                   history, budget>>

\* markWebhookFailure: the atomic increment; nothing more for a removed webhook.
Increment(w) ==
    /\ Goto(w, "increment", IF hook.present THEN "readBack" ELSE "retry")
    /\ hook' = IF hook.present THEN [hook EXCEPT !.failures = @ + 1] ELSE hook
    /\ UNCHANGED <<limit, found, redis, job, max, readBack, entity, logged, now,
                   history, budget>>

\* Mutation: the webhook is deactivated one failure too late.
ReadBack_Above(w) ==
    /\ Goto(w, "readBack", IF ~hook.present THEN "retry"
                           ELSE IF hook.failures > DeactivateAt /\ hook.active
                                THEN "deactivate" ELSE "circuit")
    /\ readBack' = [readBack EXCEPT ![w] = IF hook.present THEN hook ELSE None]
    /\ UNCHANGED <<hook, limit, found, redis, job, max, entity, logged, now,
                   history, budget>>

\* markWebhookFailure: the webhook is read back.
ReadBack(w) ==
    /\ Goto(w, "readBack", IF ~hook.present THEN "retry"
                           ELSE IF hook.failures >= DeactivateAt /\ hook.active
                                THEN "deactivate" ELSE "circuit")
    /\ readBack' = [readBack EXCEPT ![w] = IF hook.present THEN hook ELSE None]
    /\ UNCHANGED <<hook, limit, found, redis, job, max, entity, logged, now,
                   history, budget>>

Deactivate(w) ==
    /\ Goto(w, "deactivate", "circuit")
    /\ hook' = [hook EXCEPT !.active = FALSE]
    /\ UNCHANGED <<limit, found, redis, job, max, readBack, entity, logged, now,
                   history, budget>>

\* openCircuitIfNeeded decides on the webhook that was read back.  (The alert to
\* the merchant before it, notifyIfNeeded, only logs.)
ToOpen(w) == readBack[w].failures >= CircuitAt /\ ~Open(readBack[w])

\* openCircuitIfNeeded writes circuitOpenUntil ...
OpenCircuit(w) ==
    /\ Goto(w, "circuit", "alert")
    /\ ToOpen(w)
    /\ hook' = [hook EXCEPT !.until = now + OpenFor]
    /\ UNCHANGED <<limit, found, redis, job, max, readBack, entity, logged, now, history,
                   budget>>

\* ... and alerts the admins and the merchant: no retry is scheduled.
AlertOpened(w) ==
    /\ pc[w] = "alert"
    /\ fate' = [fate EXCEPT ![job[w].event] = @ \cup {"circuit"}]
    /\ Idle(w)
    /\ UNCHANGED <<hook, limit, found, redis, entity, logged, now, sent, received,
                   budget>>

LeaveCircuit(w) ==
    /\ Goto(w, "circuit", "retry")
    /\ ~ToOpen(w)
    /\ UNCHANGED <<hook, limit, found, redis, job, max, readBack, entity, logged,
                   now, sent, received, fate, budget>>

\* Mutation: the id of the retry does not contain the attempt number, so it is
\* the id of the job that is running.
ScheduleRetry_SameId(w) ==
    /\ pc[w] = "retry"
    /\ job[w].attempt < max[w]
    /\ waiting' = waiting
    /\ Idle(w)
    /\ UNCHANGED <<hook, limit, found, failed, entity, logged, now, history,
                   budget>>

\* The next attempt is queued, under an id of its own.
ScheduleRetry(w) ==
    /\ pc[w] = "retry"
    /\ job[w].attempt < max[w]
    /\ waiting' = waiting \cup
                    ({[event |-> job[w].event, attempt |-> job[w].attempt + 1]} \ Live)
    /\ Idle(w)
    /\ UNCHANGED <<hook, limit, found, failed, entity, logged, now, history,
                   budget>>

Exhausted(w) ==
    /\ pc[w] = "retry"
    /\ job[w].attempt >= max[w]
    /\ fate' = [fate EXCEPT ![job[w].event] = @ \cup {"exhausted"}]
    /\ Idle(w)
    /\ UNCHANGED <<hook, limit, found, redis, entity, logged, now, sent,
                   received, budget>>

\* A call rejects in the catch block, an alert after the circuit was opened
\* included: the job fails and is kept.
JobFails(w) ==
    /\ Fault
    /\ pc[w] \in {"logFail", "increment", "readBack", "deactivate", "circuit",
                 "alert", "retry"}
    /\ failed' = failed \cup {job[w]}
    /\ Idle(w)
    /\ UNCHANGED <<hook, limit, found, waiting, entity, logged, now, history,
                   admin, replays>>

\* External: the process dies and Bull gives its stalled job to another worker.
Restart(w) ==
    /\ Fault
    /\ pc[w] # "idle"
    /\ waiting' = waiting \cup {job[w]}
    /\ Idle(w)
    /\ UNCHANGED <<hook, limit, found, failed, entity, logged, now, history,
                   admin, replays>>

\* queue-admin.controller.ts, retryFailedJob
RetryFailedJob(j) ==
    /\ Admin
    /\ j \in failed
    /\ failed' = failed \ {j}
    /\ waiting' = waiting \cup {j}
    /\ UNCHANGED <<hook, limit, found, local, entity, logged, now, history,
                   replays, faults, unanswered>>

HookTick ==
    /\ now < MaxTime
    /\ now' = now + 1
    /\ UNCHANGED <<hook, limit, found, redis, local, entity, logged, history,
                   budget>>

WorkerStep(w) ==
    \/ \E j \in waiting : TakeJob(w, j) \/ SkipJob(w, j)
    \/ PostOk(w) \/ PostFails(w) \/ LogSuccess(w) \/ MarkSuccess(w)
    \/ LogFailure(w) \/ Increment(w) \/ ReadBack(w) \/ Deactivate(w)
    \/ OpenCircuit(w) \/ AlertOpened(w) \/ LeaveCircuit(w) \/ ScheduleRetry(w) \/ Exhausted(w)

Next ==
    \/ \E e \in Event : Dispatch(e) \/ Replay(e) \/ EnqueueDelivery(e) \/ Refuse(e)
                       \/ EnqueueFails(e)
    \/ UpdateRetryConfig \/ RemoveHook \/ ResetRead \/ ResetSave
    \/ \E w \in Worker : WorkerStep(w) \/ PostUnanswered(w) \/ SuccessRejected(w)
                           \/ JobFails(w) \/ Restart(w) \/ \E j \in waiting : ReadFails(w, j)
    \/ \E j \in failed : RetryFailedJob(j)
    \/ HookTick

Spec == Init /\ [][Next]_vars

-----------------------------------------------------------------------------
Row == [present : BOOLEAN, active : BOOLEAN, failures : Nat, until : Nat]

\* The shape of the webhooks row, the queue and each processor's locals.
TypeOK ==
    /\ hook \in Row
    /\ limit \in Limit \cup {0}
    /\ found \subseteq Event /\ logged \subseteq Event /\ sent \subseteq Event
    /\ waiting \subseteq DeliveryJob /\ failed \subseteq DeliveryJob
    /\ \A w \in Worker :
         /\ pc[w] \in {"idle", "post", "logOk", "markOk", "logFail", "increment",
                       "readBack", "deactivate", "circuit", "alert", "retry"}
         /\ pc[w] = "idle" <=> job[w] = None
         /\ job[w] # None => job[w] \in DeliveryJob
         /\ readBack[w] # None => readBack[w] \in Row
         /\ pc[w] \in {"deactivate", "circuit"} => readBack[w] # None
    /\ entity # None => entity \in Row
    /\ now \in 0..MaxTime
    /\ admin \in 0..MaxAdmin /\ replays \in 0..MaxReplays
    /\ faults \in 0..MaxFaults /\ unanswered \in 0..MaxFaults

Jobs(e) == {j \in Live : j.event = e}

\* A dispatched event never vanishes: the endpoint got it, a job for it is in
\* Redis, or delivery was given up for a reason the code names.  A retry that
\* Bull ignored because of its jobId would break this.
NoEventVanishes ==
    \A e \in sent :
        e \in found \/ received[e] > 0 \/ Jobs(e) # {} \/ fate[e] # {}

\* The endpoint gets a body once, whatever the two workers, the circuit and the
\* retries do; each replay, each accepted POST that rejects (its answer came after
\* the 15 s timeout or was lost), and each rejected call or restart can add one more
\* delivery at most.
DuplicatesAreAccounted ==
    \A e \in Event : received[e] <= 1 + replays + unanswered + faults

\* webhook-delivery.processor.ts:192: concurrent deliveries cannot "under-count
\* towards the auto-deactivation threshold": a webhook that has reached it is
\* inactive as soon as no failing delivery is under way.
ThresholdDeactivates ==
    hook.present /\ hook.failures >= DeactivateAt /\ faults = 0 =>
        \/ ~hook.active
        \/ \E w \in Worker : pc[w] \in {"readBack", "deactivate"}
=============================================================================
