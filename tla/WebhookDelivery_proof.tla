------------------------ MODULE WebhookDelivery_proof ------------------------
(***************************************************************************)
(* Delivery of a webhook for any number of events, workers, retries,       *)
(* replays and faults: no event vanishes, no delivery is repeated without  *)
(* a cause and no failure escapes the deactivation threshold.              *)
(***************************************************************************)
EXTENDS WebhookDelivery, FiniteSetTheorems, TLAPS

\* The steps of the catch block, in which the delivery counts as failed.
Catching == {"logFail", "increment", "readBack", "deactivate", "circuit", "alert",
             "retry"}

\* Why a delivery is given up.
Reason == {"inactive", "refused", "rejected", "circuit", "exhausted"}

Types ==
    /\ hook \in Row /\ (entity # None => entity \in Row)
    /\ found \in SUBSET Event /\ sent \in SUBSET Event
    /\ waiting \in SUBSET DeliveryJob /\ failed \in SUBSET DeliveryJob
    /\ pc \in [Worker -> {"idle", "post", "logOk", "markOk"} \cup Catching]
    /\ job \in [Worker -> DeliveryJob \cup {None}]
    /\ \A w \in Worker : pc[w] = "idle" <=> job[w] = None
    /\ received \in [Event -> Nat]
    /\ fate \in [Event -> SUBSET Reason]
    /\ now \in Nat /\ faults \in Nat /\ replays \in Nat /\ unanswered \in Nat

\* No job is taken for the absence of one.
LEMMA NoneIsNoJob == None \notin DeliveryJob
<1> SUFFICES ASSUME None \in DeliveryJob PROVE FALSE
  OBVIOUS
<1>1. DOMAIN None = {"event", "attempt"}
  BY DEF DeliveryJob
<1>2. DOMAIN None = {}
  BY DEF None
<1> QED BY <1>1, <1>2

\* A job of the queue is an attempt at an event.
LEMMA JobShape ==
    ASSUME NEW j \in DeliveryJob
    PROVE  j.event \in Event /\ j.attempt \in Nat
BY DEF DeliveryJob

-----------------------------------------------------------------------------
\* The shape of the tables is kept by WebhooksService and the queue ...
LEMMA ServiceKeepsTypes ==
    ASSUME Types,
           \/ \E e \in Event : Dispatch(e) \/ Replay(e) \/ EnqueueDelivery(e) \/ Refuse(e) \/ EnqueueFails(e)
           \/ UpdateRetryConfig \/ RemoveHook \/ ResetRead \/ ResetSave \/ HookTick
           \/ \E j \in failed : RetryFailedJob(j)
    PROVE  Types'
<1> USE DEF Types, redis, local, history, budget, Reason
<1>1. ASSUME NEW e \in Event, Dispatch(e) PROVE Types'
  BY <1>1 DEF Dispatch
<1>2. ASSUME NEW e \in Event, Replay(e) PROVE Types'
  BY <1>2 DEF Replay
<1>3. ASSUME NEW e \in Event, EnqueueDelivery(e) PROVE Types'
  <2>1. [event |-> e, attempt |-> 1] \in DeliveryJob
    BY DEF DeliveryJob
  <2> QED BY <1>3, <2>1 DEF EnqueueDelivery
<1>4. ASSUME NEW e \in Event, Refuse(e) PROVE Types'
  BY <1>4 DEF Refuse
<1>5. ASSUME NEW e \in Event, EnqueueFails(e) PROVE Types'
  BY <1>5 DEF EnqueueFails, Fault
<1>6. CASE UpdateRetryConfig \/ ResetRead \/ HookTick
  BY <1>6 DEF UpdateRetryConfig, ResetRead, HookTick
<1>7. CASE RemoveHook
  BY <1>7 DEF RemoveHook, Row
<1>8. CASE ResetSave
  <2>1. hook' \in Row
    BY <1>8 DEF ResetSave, Row
  <2> QED BY <1>8, <2>1 DEF ResetSave
<1>9. ASSUME NEW j \in failed, RetryFailedJob(j) PROVE Types'
  BY <1>9 DEF RetryFailedJob
<1> QED
  BY <1>1, <1>2, <1>3, <1>4, <1>5, <1>6, <1>7, <1>8, <1>9

\* ... and by the processor.
LEMMA WorkerKeepsTypes ==
    ASSUME Types, NEW w \in Worker,
           \/ WorkerStep(w) \/ PostUnanswered(w) \/ SuccessRejected(w) \/ JobFails(w)
           \/ Restart(w)
           \/ \E j \in waiting : ReadFails(w, j)
    PROVE  Types'
<1> USE DEF Types, redis, local, history, budget, Reason, Catching
<1>0. /\ pc[w] # "idle" => job[w] \in DeliveryJob /\ job[w].event \in Event /\ job[w].attempt \in Nat
      /\ \A j \in waiting : j # None /\ j.event \in Event
  BY JobShape, NoneIsNoJob
<1>1. ASSUME NEW j \in waiting, TakeJob(w, j) PROVE Types'
  BY <1>0, <1>1 DEF TakeJob, Goto
<1>2. ASSUME NEW j \in waiting, SkipJob(w, j) \/ ReadFails(w, j) PROVE Types'
  BY <1>0, <1>2 DEF SkipJob, ReadFails, Fault
<1>3. CASE PostOk(w) \/ PostUnanswered(w)
  BY <1>0, <1>3 DEF PostOk, PostUnanswered, Goto
<1>4. CASE PostFails(w) \/ LogSuccess(w) \/ LogFailure(w)
  BY <1>4 DEF PostFails, LogSuccess, LogFailure, Goto
<1>5. CASE SuccessRejected(w)
  BY <1>5 DEF SuccessRejected, Fault
<1>6. CASE MarkSuccess(w)
  <2>1. hook' \in Row
    BY <1>6 DEF MarkSuccess, Row
  <2> QED BY <1>6, <2>1 DEF MarkSuccess, Idle
<1>7. CASE Increment(w)
  <2>1. hook' \in Row
    BY <1>7 DEF Increment, Row
  <2> QED BY <1>7, <2>1 DEF Increment, Goto
<1>8. CASE ReadBack(w) \/ LeaveCircuit(w)
  BY <1>8 DEF ReadBack, LeaveCircuit, Goto
<1>9. CASE Deactivate(w)
  <2>1. hook' \in Row
    BY <1>9 DEF Deactivate, Row
  <2> QED BY <1>9, <2>1 DEF Deactivate, Goto
<1>10. CASE OpenCircuit(w)
  <2>1. hook' \in Row
    BY <1>10, WebhookAssumption DEF OpenCircuit, Row
  <2> QED BY <1>10, <2>1 DEF OpenCircuit, Goto
<1>11. CASE ScheduleRetry(w)
  <2> DEFINE k == [event |-> job[w].event, attempt |-> job[w].attempt + 1]
  <2>1. k \in DeliveryJob
    BY <1>0, <1>11 DEF DeliveryJob, ScheduleRetry
  <2>2. waiting' \in SUBSET DeliveryJob
    BY <1>11, <2>1 DEF ScheduleRetry
  <2> QED BY <1>11, <2>2 DEF ScheduleRetry, Idle
<1>12. CASE Exhausted(w) \/ AlertOpened(w)
  BY <1>0, <1>12 DEF Exhausted, AlertOpened, Idle
<1>13. CASE JobFails(w) \/ Restart(w)
  BY <1>0, <1>13 DEF JobFails, Restart, Idle, Fault
<1> QED
  BY <1>1, <1>2, <1>3, <1>4, <1>5, <1>6, <1>7, <1>8, <1>9, <1>10, <1>11, <1>12, <1>13
  DEF WorkerStep

\* Every operation keeps the types.
LEMMA TypesKept == Types /\ [Next]_vars => Types'
<1> SUFFICES ASSUME Types, [Next]_vars PROVE Types'
  OBVIOUS
<1>1. CASE UNCHANGED vars
  BY <1>1 DEF Types, vars
<1> QED
  BY <1>1, ServiceKeepsTypes, WorkerKeepsTypes DEF Next

-----------------------------------------------------------------------------
\* Where an event is that has neither been accepted nor been given up.
Queued(e) ==
    \/ e \in found
    \/ \E j \in waiting \cup failed : j.event = e
    \/ \E w \in Worker : pc[w] # "idle" /\ job[w].event = e

\* A worker past the POST works for an event the endpoint has accepted; so a
\* job may complete then without a trace in Redis.
Traced ==
    /\ \A w \in Worker : pc[w] \in {"logOk", "markOk"} => received[job[w].event] > 0
    /\ \A e \in sent : Queued(e) \/ received[e] > 0 \/ fate[e] # {}

\* WebhooksService and the queue administration lose no event: a job id that
\* Redis knows is not added again, but then its job is still there.
LEMMA ServiceKeepsTraces ==
    ASSUME Types, Traced,
           \/ \E e \in Event : Dispatch(e) \/ Replay(e) \/ EnqueueDelivery(e) \/ Refuse(e) \/ EnqueueFails(e)
           \/ UpdateRetryConfig \/ RemoveHook \/ ResetRead \/ ResetSave \/ HookTick
           \/ \E j \in failed : RetryFailedJob(j)
    PROVE  Traced'
<1> USE DEF Traced, redis, local, history, budget
<1>1. ASSUME NEW e \in Event, Dispatch(e) PROVE Traced'
  <2>1. /\ UNCHANGED <<waiting, failed, pc, job, received>>
        /\ sent' = sent \cup {e} /\ found \subseteq found'
        /\ \A d \in Event : fate[d] # {} => fate'[d] # {}
        /\ e \in found' \/ fate'[e] # {}
    BY <1>1 DEF Dispatch, Types
  <2>2. \A d \in sent : Queued(d) => Queued(d)'
    BY <2>1 DEF Queued
  <2>3. e \in found' => Queued(e)'
    BY DEF Queued
  <2> QED BY <2>1, <2>2, <2>3 DEF Types
<1>2. ASSUME NEW e \in Event, Replay(e) PROVE Traced'
  BY <1>2 DEF Replay, Queued
<1>3. ASSUME NEW e \in Event, EnqueueDelivery(e) PROVE Traced'
  <2> DEFINE k == [event |-> e, attempt |-> 1]
  <2>1. k.event = e /\ k # None
    BY <1>3, NoneIsNoJob DEF DeliveryJob
  <2>2. waiting' = waiting \cup ({k} \ Live) /\ found' = found \ {e}
    BY <1>3 DEF EnqueueDelivery
  <2>3. UNCHANGED <<failed, pc, job, received, fate, sent>>
    BY <1>3 DEF EnqueueDelivery
  <2> HIDE DEF k
  <2>4. Queued(e)'
    BY <2>1, <2>2, <2>3 DEF Queued, Live, Types
  <2>5. \A d \in sent : d # e /\ Queued(d) => Queued(d)'
    BY <2>2, <2>3 DEF Queued
  <2> QED BY <2>3, <2>4, <2>5
<1>4. ASSUME NEW e \in Event, Refuse(e) \/ EnqueueFails(e) PROVE Traced'
  <2>1. UNCHANGED <<waiting, failed, pc, job, received, sent>> /\ found' = found \ {e}
    BY <1>4 DEF Refuse, EnqueueFails
  <2>2. fate'[e] # {} /\ \A d \in Event : fate[d] # {} => fate'[d] # {}
    BY <1>4 DEF Refuse, EnqueueFails, Types
  <2>3. \A d \in sent : d # e /\ Queued(d) => Queued(d)'
    BY <2>1 DEF Queued
  <2> QED BY <2>1, <2>2, <2>3 DEF Types
<1>5. CASE UpdateRetryConfig \/ RemoveHook \/ ResetRead \/ ResetSave \/ HookTick
  <2>1. UNCHANGED <<found, waiting, failed, pc, job, received, fate, sent>>
    BY <1>5 DEF UpdateRetryConfig, RemoveHook, ResetRead, ResetSave, HookTick
  <2> QED BY <2>1 DEF Queued
<1>6. ASSUME NEW j \in failed, RetryFailedJob(j) PROVE Traced'
  <2>1. /\ UNCHANGED <<found, pc, job, received, fate, sent>>
        /\ waiting' \cup failed' = waiting \cup failed
    BY <1>6 DEF RetryFailedJob
  <2>2. \A d \in sent : Queued(d) => Queued(d)'
    BY <2>1 DEF Queued
  <2> QED BY <2>1, <2>2
<1> QED
  BY <1>1, <1>2, <1>3, <1>4, <1>5, <1>6

\* The processor ends a job only for an event that was accepted, is given up for
\* a named reason, or goes on as another job.
LEMMA WorkerKeepsTraces ==
    ASSUME Types, Traced, NEW w \in Worker,
           \/ WorkerStep(w) \/ PostUnanswered(w) \/ SuccessRejected(w) \/ JobFails(w)
           \/ Restart(w)
           \/ \E j \in waiting : ReadFails(w, j)
    PROVE  Traced'
<1> USE DEF Traced, redis, local, history, budget
<1>0. /\ pc[w] # "idle" => job[w] \in DeliveryJob /\ job[w].event \in Event /\ job[w].attempt \in Nat
      /\ \A j \in waiting : j # None /\ j.event \in Event
      /\ \A e \in sent : e \in Event /\ received[e] \in Nat
  BY JobShape, NoneIsNoJob DEF Types
<1>1. ASSUME NEW j \in waiting, TakeJob(w, j) PROVE Traced'
  <2>1. /\ UNCHANGED <<found, failed, received, fate, sent>> /\ pc[w] = "idle"
        /\ pc' = [pc EXCEPT ![w] = "post"] /\ job' = [job EXCEPT ![w] = j]
        /\ waiting' = waiting \ {j}
    BY <1>1 DEF TakeJob, Goto
  <2>2. \A e \in sent : Queued(e) => Queued(e)'
    BY <2>1 DEF Queued, Types
  <2> QED BY <2>1, <2>2 DEF Types
<1>2. ASSUME NEW j \in waiting, SkipJob(w, j) PROVE Traced'
  <2>1. /\ UNCHANGED <<found, failed, pc, job, received, sent>>
        /\ waiting' = waiting \ {j} /\ fate'[j.event] # {}
        /\ \A d \in Event : fate[d] # {} => fate'[d] # {}
    BY <1>0, <1>2 DEF SkipJob, Types
  <2>2. \A e \in sent : e # j.event /\ Queued(e) => Queued(e)'
    BY <2>1 DEF Queued
  <2> QED BY <1>0, <2>1, <2>2
<1>3. ASSUME NEW j \in waiting, ReadFails(w, j) PROVE Traced'
  <2>1. /\ UNCHANGED <<found, pc, job, received, fate, sent>>
        /\ waiting' \cup failed' = waiting \cup failed
    BY <1>3 DEF ReadFails
  <2>2. \A e \in sent : Queued(e) => Queued(e)'
    BY <2>1 DEF Queued
  <2> QED BY <2>1, <2>2
<1>4. CASE PostOk(w) \/ PostUnanswered(w)
  <2>1. /\ UNCHANGED <<found, waiting, failed, job, fate, sent>> /\ pc[w] = "post"
        /\ \E to \in {"logOk", "logFail"} : pc' = [pc EXCEPT ![w] = to]
        /\ received' = [received EXCEPT ![job[w].event] = @ + 1]
    BY <1>4 DEF PostOk, PostUnanswered, Goto
  <2>2. /\ received'[job[w].event] > 0
        /\ \A d \in Event : received[d] > 0 => received'[d] > 0
    BY <1>0, <2>1 DEF Types
  <2>3. \A e \in sent : Queued(e) => Queued(e)'
    BY <2>1 DEF Queued, Types
  <2>4. \A v \in Worker : pc[v] # "idle" => job[v].event \in Event
    BY JobShape, NoneIsNoJob DEF Types
  <2> QED BY <1>0, <2>1, <2>2, <2>3, <2>4 DEF Types
<1>5. CASE PostFails(w) \/ LogSuccess(w) \/ LogFailure(w) \/ SuccessRejected(w)
           \/ Increment(w) \/ ReadBack(w) \/ Deactivate(w) \/ OpenCircuit(w)
           \/ LeaveCircuit(w)
  <2>1. /\ UNCHANGED <<found, waiting, failed, job, received, fate, sent>> /\ pc[w] # "idle"
        /\ \E to \in Catching \cup {"markOk"} :
              pc' = [pc EXCEPT ![w] = to] /\ (to = "markOk" => pc[w] = "logOk")
    BY <1>5 DEF PostFails, LogSuccess, LogFailure, SuccessRejected, Increment, ReadBack,
       Deactivate, OpenCircuit, LeaveCircuit, Goto, Catching
  <2>2. \A e \in sent : Queued(e) => Queued(e)'
    BY <2>1 DEF Queued, Types, Catching
  <2> QED BY <2>1, <2>2 DEF Types, Catching
<1>6. CASE MarkSuccess(w)
  <2>1. /\ UNCHANGED <<found, waiting, failed, received, fate, sent>> /\ pc[w] = "markOk"
        /\ pc' = [pc EXCEPT ![w] = "idle"] /\ job' = [job EXCEPT ![w] = None]
    BY <1>6 DEF MarkSuccess, Idle
  <2>2. \A e \in sent : e # job[w].event /\ Queued(e) => Queued(e)'
    BY <2>1 DEF Queued, Types
  <2> QED BY <2>1, <2>2 DEF Types
<1>7. CASE AlertOpened(w) \/ Exhausted(w)
  <2>1. /\ UNCHANGED <<found, waiting, failed, received, sent>> /\ pc[w] # "idle"
        /\ pc' = [pc EXCEPT ![w] = "idle"] /\ job' = [job EXCEPT ![w] = None]
    BY <1>7 DEF AlertOpened, Exhausted, Idle
  <2>2. fate'[job[w].event] # {} /\ \A d \in Event : fate[d] # {} => fate'[d] # {}
    BY <1>0, <1>7 DEF AlertOpened, Exhausted, Types
  <2>3. \A e \in sent : e # job[w].event /\ Queued(e) => Queued(e)'
    BY <2>1 DEF Queued, Types
  <2> QED BY <1>0, <2>1, <2>2, <2>3 DEF Types
<1>8. CASE ScheduleRetry(w)
  <2> DEFINE k == [event |-> job[w].event, attempt |-> job[w].attempt + 1]
  <2>1. /\ UNCHANGED <<found, failed, received, fate, sent>> /\ pc[w] = "retry"
        /\ pc' = [pc EXCEPT ![w] = "idle"] /\ job' = [job EXCEPT ![w] = None]
        /\ waiting' = waiting \cup ({k} \ Live)
    BY <1>8 DEF ScheduleRetry, Idle
  <2>2. k \in DeliveryJob /\ k # None /\ k.event = job[w].event /\ k # job[w]
    <3>1. k \in DeliveryJob /\ k.event = job[w].event /\ k.attempt # job[w].attempt
      BY <1>0, <2>1 DEF DeliveryJob
    <3> QED BY <3>1, NoneIsNoJob
  <2> HIDE DEF k
  <2>3. ASSUME NEW e \in Event, e = job[w].event PROVE Queued(e)'
    <3>1. CASE k \in waiting \cup failed
      BY <2>1, <2>2, <2>3, <3>1 DEF Queued
    <3>2. CASE k \notin Live
      BY <2>1, <2>2, <2>3, <3>2 DEF Queued
    <3>3. ASSUME NEW v \in Worker, job[v] = k PROVE Queued(e)'
      <4>1. v # w /\ pc[v] # "idle"
        BY <2>2, <3>3 DEF Types
      <4>2. pc'[v] # "idle" /\ job'[v] = k
        BY <2>1, <3>3, <4>1 DEF Types
      <4> QED BY <2>2, <2>3, <4>2 DEF Queued
    <3> QED BY <3>1, <3>2, <3>3 DEF Live
  <2>4. \A e \in sent : e # job[w].event /\ Queued(e) => Queued(e)'
    BY <2>1 DEF Queued, Types
  <2> QED BY <1>0, <2>1, <2>3, <2>4 DEF Types
<1>9. CASE JobFails(w) \/ Restart(w)
  <2>1. /\ UNCHANGED <<found, received, fate, sent>> /\ pc[w] # "idle"
        /\ pc' = [pc EXCEPT ![w] = "idle"] /\ job' = [job EXCEPT ![w] = None]
        /\ waiting' \cup failed' = waiting \cup failed \cup {job[w]}
    BY <1>9 DEF JobFails, Restart, Idle
  <2>2. \A e \in sent : Queued(e) => Queued(e)'
    BY <2>1 DEF Queued, Types
  <2> QED BY <2>1, <2>2 DEF Types
<1> QED
  BY <1>1, <1>2, <1>3, <1>4, <1>5, <1>6, <1>7, <1>8, <1>9 DEF WorkerStep

\* No step loses the trace of a dispatched event.
LEMMA TracesKept == Types /\ Traced /\ [Next]_vars => Traced'
<1> SUFFICES ASSUME Types, Traced, [Next]_vars PROVE Traced'
  OBVIOUS
<1>1. CASE UNCHANGED vars
  BY <1>1 DEF Traced, Queued, vars
<1> QED
  BY <1>1, ServiceKeepsTraces, WorkerKeepsTraces DEF Next

-----------------------------------------------------------------------------
\* The threshold is noticed whichever of several failing workers reads it back.
LEMMA ThresholdKept == Types /\ ThresholdDeactivates /\ [Next]_vars => ThresholdDeactivates'
<1> SUFFICES ASSUME Types, ThresholdDeactivates, [Next]_vars PROVE ThresholdDeactivates'
  OBVIOUS
<1> USE DEF ThresholdDeactivates, redis, local, history, budget
<1>0. hook \in Row /\ faults \in Nat /\ DeactivateAt \in Nat \ {0}
  BY WebhookAssumption DEF Types
<1>1. CASE faults' # 0
  BY <1>1
<1>2. CASE hook' = hook /\ pc' = pc /\ faults' = faults
  BY <1>2
<1>3. ASSUME NEW e \in Event, Dispatch(e) \/ Replay(e) \/ EnqueueDelivery(e) \/ Refuse(e) \/ EnqueueFails(e)
      PROVE  ThresholdDeactivates'
  <2>1. (hook' = hook /\ pc' = pc /\ faults' = faults) \/ faults' = faults + 1
    BY <1>3 DEF Dispatch, Replay, EnqueueDelivery, Refuse, EnqueueFails, Fault
  <2> QED BY <1>0, <1>1, <1>2, <2>1
<1>4. CASE UpdateRetryConfig \/ ResetRead \/ HookTick \/ \E j \in failed : RetryFailedJob(j)
  BY <1>2, <1>4 DEF UpdateRetryConfig, ResetRead, HookTick, RetryFailedJob
<1>5. CASE RemoveHook
  BY <1>0, <1>5 DEF RemoveHook, Row
<1>6. CASE ResetSave
  <2>1. hook'.failures = 0
    BY <1>6 DEF ResetSave
  <2> QED BY <1>0, <2>1
<1>7. ASSUME NEW w \in Worker, WorkerStep(w) PROVE ThresholdDeactivates'
  <2>1. ASSUME NEW j \in waiting, TakeJob(w, j) \/ SkipJob(w, j) PROVE ThresholdDeactivates'
    BY <2>1 DEF TakeJob, SkipJob, Goto, Types
  <2>2. CASE PostOk(w) \/ PostFails(w) \/ LogSuccess(w) \/ LogFailure(w) \/ LeaveCircuit(w)
    BY <2>2 DEF PostOk, PostFails, LogSuccess, LogFailure, LeaveCircuit, Goto, Types
  <2>3. CASE MarkSuccess(w)
    <3>1. hook'.failures = 0
      BY <1>0, <2>3 DEF MarkSuccess, Row
    <3> QED BY <1>0, <3>1
  <2>4. CASE Increment(w)
    <3>1. CASE hook.present
      BY <2>4, <3>1 DEF Increment, Goto, Types
    <3>2. CASE ~hook.present
      BY <2>4, <3>2 DEF Increment
    <3> QED BY <3>1, <3>2
  <2>5. CASE ReadBack(w)
    BY <1>0, <2>5 DEF ReadBack, Goto, Types, Row
  <2>6. CASE Deactivate(w)
    <3>1. ~hook'.active
      BY <1>0, <2>6 DEF Deactivate, Row
    <3> QED BY <3>1
  <2>7. CASE OpenCircuit(w)
    <3>1. /\ hook'.present = hook.present /\ hook'.active = hook.active
          /\ hook'.failures = hook.failures /\ faults' = faults
      BY <1>0, <2>7 DEF OpenCircuit, Row
    <3>2. pc[w] = "circuit" /\ \A v \in Worker : v # w => pc'[v] = pc[v]
      BY <2>7 DEF OpenCircuit, Goto, Types
    <3> QED BY <3>1, <3>2
  <2>8. CASE ScheduleRetry(w) \/ Exhausted(w) \/ AlertOpened(w)
    BY <2>8 DEF ScheduleRetry, Exhausted, AlertOpened, Idle, Types
  <2> QED BY <1>7, <2>1, <2>2, <2>3, <2>4, <2>5, <2>6, <2>7, <2>8 DEF WorkerStep
<1>8. ASSUME NEW w \in Worker, SuccessRejected(w) \/ JobFails(w) \/ Restart(w)
               \/ \E j \in waiting : ReadFails(w, j)
      PROVE  ThresholdDeactivates'
  BY <1>0, <1>1, <1>8 DEF SuccessRejected, JobFails, Restart, ReadFails, Fault
<1>9. CASE UNCHANGED vars
  BY <1>2, <1>9 DEF vars
<1>10. ASSUME NEW w \in Worker, PostUnanswered(w) PROVE ThresholdDeactivates'
  BY <1>10 DEF PostUnanswered, Goto, Types
<1> QED
  BY <1>3, <1>4, <1>5, <1>6, <1>7, <1>8, <1>9, <1>10 DEF Next

-----------------------------------------------------------------------------
(* How many deliveries of an event are still to come *)

\* Every chance the endpoint has to get the event once more, one element each.
Chances(e) ==
    {<<"found", d>> : d \in found \cap {e}}
    \cup {<<"waiting", j>> : j \in {i \in waiting : i.event = e}}
    \cup {<<"failed", j>> : j \in {i \in failed : i.event = e}}
    \cup {<<"worker", w>> : w \in {v \in Worker : /\ pc[v] \in Catching \cup {"post"}
                                                  /\ job[v].event = e}}

\* What can make a delivery be repeated.
Causes == faults + unanswered + replays

Accounted(e) ==
    /\ IsFiniteSet(Chances(e))
    /\ received[e] + Cardinality(Chances(e)) <= 1 + Causes

\* Only dispatched events are anywhere in the system.
OnlySent ==
    /\ found \subseteq sent /\ logged \subseteq sent
    /\ \A j \in waiting \cup failed : j.event \in sent
    /\ \A w \in Worker : pc[w] # "idle" => job[w].event \in sent
    /\ \A e \in Event \ sent : received[e] = 0

\* A chance is gone, moved or new: what that does to their number.
LEMMA ChancesCounted ==
    ASSUME NEW S, IsFiniteSet(S), NEW T
    PROVE  /\ T \subseteq S => IsFiniteSet(T) /\ Cardinality(T) <= Cardinality(S)
           /\ \A y : T \subseteq S \cup {y} =>
                 IsFiniteSet(T) /\ Cardinality(T) <= Cardinality(S) + 1
           /\ \A x \in S : T \subseteq S \ {x} =>
                 IsFiniteSet(T) /\ Cardinality(T) <= Cardinality(S) - 1
           /\ \A y : \A x \in S : T \subseteq (S \ {x}) \cup {y} =>
                 IsFiniteSet(T) /\ Cardinality(T) <= Cardinality(S)
           /\ IsFiniteSet(T) => Cardinality(T) \in Nat
           /\ Cardinality(S) \in Nat
<1>1. ASSUME NEW U, IsFiniteSet(U), T \subseteq U
      PROVE  IsFiniteSet(T) /\ Cardinality(T) <= Cardinality(U)
  BY <1>1, FS_Subset
<1>2. Cardinality(S) \in Nat /\ (IsFiniteSet(T) => Cardinality(T) \in Nat)
  BY FS_CardinalityType
<1>3. ASSUME NEW U, IsFiniteSet(U), NEW y
      PROVE  IsFiniteSet(U \cup {y}) /\ Cardinality(U \cup {y}) <= Cardinality(U) + 1
  <2>1. Cardinality(U) \in Nat
    BY <1>3, FS_CardinalityType
  <2>2. /\ IsFiniteSet(U \cup {y})
        /\ Cardinality(U \cup {y}) = IF y \in U THEN Cardinality(U) ELSE Cardinality(U) + 1
    BY <1>3, FS_AddElement
  <2> QED BY <2>1, <2>2
<1>4. ASSUME NEW x \in S
      PROVE  IsFiniteSet(S \ {x}) /\ Cardinality(S \ {x}) = Cardinality(S) - 1
  BY FS_RemoveElement
<1>5. ASSUME NEW y, T \subseteq S \cup {y}
      PROVE  IsFiniteSet(T) /\ Cardinality(T) <= Cardinality(S) + 1
  <2>1. IsFiniteSet(S \cup {y}) /\ Cardinality(S \cup {y}) <= Cardinality(S) + 1
    BY <1>3
  <2>2. Cardinality(S \cup {y}) \in Nat
    BY <2>1, FS_CardinalityType
  <2>3. IsFiniteSet(T) /\ Cardinality(T) <= Cardinality(S \cup {y})
    BY <1>1, <1>5, <2>1
  <2>4. Cardinality(T) \in Nat
    BY <1>2, <2>3
  <2> QED BY <1>2, <2>1, <2>2, <2>3, <2>4
<1>6. ASSUME NEW x \in S, NEW y, T \subseteq (S \ {x}) \cup {y}
      PROVE  IsFiniteSet(T) /\ Cardinality(T) <= Cardinality(S)
  <2> DEFINE R == S \ {x}
  <2>1. IsFiniteSet(R) /\ Cardinality(R) = Cardinality(S) - 1
    BY <1>4
  <2>2. IsFiniteSet(R \cup {y}) /\ Cardinality(R \cup {y}) <= Cardinality(R) + 1
    BY <1>3, <2>1
  <2>3. IsFiniteSet(T) /\ Cardinality(T) <= Cardinality(R \cup {y})
    BY <1>1, <1>6, <2>2
  <2>4. Cardinality(T) \in Nat /\ Cardinality(R \cup {y}) \in Nat
    BY <1>2, <2>2, <2>3, FS_CardinalityType
  <2> QED BY <1>2, <2>1, <2>2, <2>3, <2>4
<1>7. ASSUME NEW x \in S, T \subseteq S \ {x}
      PROVE  IsFiniteSet(T) /\ Cardinality(T) <= Cardinality(S) - 1
  BY <1>1, <1>4, <1>7
<1> QED
  BY <1>1, <1>2, <1>5, <1>6, <1>7

\* What may happen to an event in a step: a chance fades or moves, a fault or a
\* replay pays for a new one, or a delivery uses one up.
Pays(e) ==
    \/ /\ received'[e] = received[e] /\ Causes' >= Causes
       /\ \/ Chances(e)' \subseteq Chances(e)
          \/ \E x \in Chances(e) : \E y : Chances(e)' \subseteq (Chances(e) \ {x}) \cup {y}
    \/ /\ received'[e] = received[e] /\ Causes' = Causes + 1
       /\ \E y : Chances(e)' \subseteq Chances(e) \cup {y}
    \/ /\ received'[e] = received[e] + 1 /\ Causes' = Causes
       /\ \E x \in Chances(e) : Chances(e)' \subseteq Chances(e) \ {x}
    \/ /\ received'[e] = received[e] + 1
       /\ Causes' = Causes + 1
       /\ Chances(e)' \subseteq Chances(e)

\* Causes are counted before and after a step.
LEMMA CausesCounted == ASSUME Types, Types' PROVE Causes \in Nat /\ Causes' \in Nat
<1>1. faults \in Nat /\ unanswered \in Nat /\ replays \in Nat
  BY DEF Types
<1>2. faults' \in Nat /\ unanswered' \in Nat /\ replays' \in Nat
  BY DEF Types
<1>3. Causes \in Nat
  BY <1>1 DEF Causes
<1>4. Causes' = faults' + unanswered' + replays'
  BY DEF Causes
<1>5. \A a, b, c \in Nat : a + b + c \in Nat
  OBVIOUS
<1>6. Causes' \in Nat
  BY <1>2, <1>4, <1>5, Zenon
<1> QED BY <1>3, <1>6

\* A step that pays for what it does to an event leaves it accounted for.
LEMMA PaidIsAccounted ==
    ASSUME Types, Types', NEW e \in Event, Accounted(e), Pays(e)
    PROVE  Accounted(e)'
<1> DEFINE S == Chances(e)
           T == Chances(e)'
           n == Cardinality(S)
           m == Cardinality(T)
<1>1. /\ received[e] \in Nat /\ received'[e] \in Nat
      /\ Causes \in Nat /\ Causes' \in Nat
  <2>1. received[e] \in Nat /\ received'[e] \in Nat
    BY DEF Types
  <2> QED BY <2>1, CausesCounted
<1>2. IsFiniteSet(S) /\ n \in Nat /\ received[e] + n <= 1 + Causes
  BY ChancesCounted DEF Accounted
<1>3. \/ /\ received'[e] = received[e] /\ Causes' >= Causes
         /\ IsFiniteSet(T) /\ m <= n
      \/ /\ received'[e] = received[e] /\ Causes' = Causes + 1
         /\ IsFiniteSet(T) /\ m <= n + 1
      \/ /\ received'[e] = received[e] + 1 /\ Causes' = Causes
         /\ IsFiniteSet(T) /\ m <= n - 1
      \/ /\ received'[e] = received[e] + 1
         /\ Causes' = Causes + 1
         /\ IsFiniteSet(T) /\ m <= n
  <2> HIDE DEF S, T
  <2>1. \/ /\ received'[e] = received[e] /\ Causes' >= Causes
           /\ \/ T \subseteq S
              \/ \E x \in S : \E y : T \subseteq (S \ {x}) \cup {y}
        \/ /\ received'[e] = received[e] /\ Causes' = Causes + 1
           /\ \E y : T \subseteq S \cup {y}
        \/ /\ received'[e] = received[e] + 1 /\ Causes' = Causes
           /\ \E x \in S : T \subseteq S \ {x}
        \/ /\ received'[e] = received[e] + 1
           /\ Causes' = Causes + 1
           /\ T \subseteq S
    BY DEF Pays, S, T
  <2> QED BY <1>2, <2>1, ChancesCounted
<1>4. IsFiniteSet(T) /\ m \in Nat
  BY <1>2, <1>3, ChancesCounted
<1>5. received'[e] + m <= 1 + Causes'
  <2> HIDE DEF m, n
  <2> QED BY <1>1, <1>2, <1>3, <1>4
<1> QED BY <1>4, <1>5 DEF Accounted

\* Only dispatched events travel.
LEMMA OnlySentKept == Types /\ OnlySent /\ [Next]_vars => OnlySent'
<1> SUFFICES ASSUME Types, OnlySent, [Next]_vars PROVE OnlySent'
  OBVIOUS
<1> USE DEF OnlySent, redis, local, history, budget
<1>1. ASSUME NEW e \in Event, Dispatch(e) \/ Replay(e) \/ Refuse(e) \/ EnqueueFails(e)
      PROVE  OnlySent'
  BY <1>1 DEF Dispatch, Replay, Refuse, EnqueueFails, Types
<1>2. ASSUME NEW e \in Event, EnqueueDelivery(e) PROVE OnlySent'
  BY <1>2 DEF EnqueueDelivery
<1>3. CASE UpdateRetryConfig \/ RemoveHook \/ ResetRead \/ ResetSave \/ HookTick
           \/ \E j \in failed : RetryFailedJob(j)
  BY <1>3 DEF UpdateRetryConfig, RemoveHook, ResetRead, ResetSave, HookTick, RetryFailedJob
<1>4. ASSUME NEW w \in Worker, NEW j \in waiting,
             TakeJob(w, j) \/ SkipJob(w, j) \/ ReadFails(w, j)
      PROVE  OnlySent'
  BY <1>4 DEF TakeJob, SkipJob, ReadFails, Goto, Types
<1>5. ASSUME NEW w \in Worker, PostOk(w) \/ PostUnanswered(w) PROVE OnlySent'
  BY <1>5 DEF PostOk, PostUnanswered, Goto, Types
<1>6. ASSUME NEW w \in Worker,
             PostFails(w) \/ LogSuccess(w) \/ LogFailure(w) \/ SuccessRejected(w)
               \/ Increment(w) \/ ReadBack(w) \/ Deactivate(w) \/ OpenCircuit(w)
               \/ LeaveCircuit(w)
      PROVE  OnlySent'
  BY <1>6 DEF PostFails, LogSuccess, LogFailure, SuccessRejected, Increment, ReadBack,
     Deactivate, OpenCircuit, LeaveCircuit, Goto, Types
<1>7. ASSUME NEW w \in Worker, MarkSuccess(w) \/ AlertOpened(w) \/ Exhausted(w)
               \/ JobFails(w) \/ Restart(w)
      PROVE  OnlySent'
  <2>1. /\ UNCHANGED <<found, logged, received, sent>> /\ pc[w] # "idle"
        /\ pc' = [pc EXCEPT ![w] = "idle"] /\ job' = [job EXCEPT ![w] = None]
        /\ waiting' \cup failed' \subseteq waiting \cup failed \cup {job[w]}
    BY <1>7 DEF MarkSuccess, AlertOpened, Exhausted, JobFails, Restart, Idle
  <2> QED BY <2>1 DEF Types
<1>8. ASSUME NEW w \in Worker, ScheduleRetry(w) PROVE OnlySent'
  <2> DEFINE k == [event |-> job[w].event, attempt |-> job[w].attempt + 1]
  <2>1. /\ UNCHANGED <<found, failed, logged, received, sent>> /\ pc[w] # "idle"
        /\ pc' = [pc EXCEPT ![w] = "idle"] /\ job' = [job EXCEPT ![w] = None]
        /\ waiting' \subseteq waiting \cup {k} /\ k.event = job[w].event
    BY <1>8 DEF ScheduleRetry, Idle
  <2> HIDE DEF k
  <2> QED BY <2>1 DEF Types
<1>9. CASE UNCHANGED vars
  BY <1>9 DEF vars
<1> QED
  BY <1>1, <1>2, <1>3, <1>4, <1>5, <1>6, <1>7, <1>8, <1>9 DEF Next, WorkerStep

\* Dispatch, replay and enqueueing: the first chance of an event is free, each
\* further one is a replay.
LEMMA ServicePays ==
    ASSUME Types, OnlySent, Types', NEW e \in Event, Accounted(e),
           \/ \E d \in Event : Dispatch(d) \/ Replay(d) \/ EnqueueDelivery(d) \/ Refuse(d) \/ EnqueueFails(d)
           \/ UpdateRetryConfig \/ RemoveHook \/ ResetRead \/ ResetSave \/ HookTick
           \/ \E j \in failed : RetryFailedJob(j)
    PROVE  Accounted(e)'
<1> USE DEF redis, local, history, budget
<1>0. faults \in Nat /\ unanswered \in Nat /\ replays \in Nat
  BY DEF Types
<1>1. ASSUME NEW d \in Event, Dispatch(d) PROVE Accounted(e)'
  <2>1. /\ UNCHANGED <<waiting, failed, pc, job, received, faults, unanswered, replays>>
        /\ found' \subseteq found \cup {d} /\ d \notin sent
    BY <1>1 DEF Dispatch
  <2>2. CASE e = d
    <3>1. Chances(e) = {} /\ received[e] = 0
      <4>1. /\ \A j \in waiting \cup failed : j.event # e
            /\ \A w \in Worker : pc[w] \in Catching \cup {"post"} => job[w].event # e
            /\ e \notin found /\ received[e] = 0
        BY <2>1, <2>2 DEF OnlySent, Catching
      <4> QED BY <4>1 DEF Chances
    <3>2. Chances(e)' \subseteq Chances(e) \cup {<<"found", e>>}
      BY <2>1, <2>2 DEF Chances
    <3>3. IsFiniteSet({}) /\ Cardinality({}) = 0
      BY FS_EmptySet
    <3>4. IsFiniteSet(Chances(e)') /\ Cardinality(Chances(e)') <= 1 /\ Cardinality(Chances(e)') \in Nat
      <4> DEFINE T == Chances(e)'
      <4>1. T \subseteq {} \cup {<<"found", e>>}
        BY <3>1, <3>2
      <4> HIDE DEF T
      <4>2. IsFiniteSet(T) /\ Cardinality(T) <= 0 + 1 /\ Cardinality(T) \in Nat
        BY <3>3, <4>1, ChancesCounted
      <4> QED BY <4>2 DEF T
    <3> DEFINE n == Cardinality(Chances(e)')
    <3>5. received'[e] + n <= 1 + Causes'
      <4>1. received'[e] = 0 /\ Causes' \in Nat /\ n \in Nat /\ n <= 1
        BY <1>0, <2>1, <3>1, <3>4 DEF Causes
      <4>2. \A c, f \in Nat : c <= 1 => 0 + c <= 1 + f
        OBVIOUS
      <4> QED BY <4>1, <4>2
    <3> QED BY <3>4, <3>5 DEF Accounted
  <2>3. CASE e # d
    <3>1. Chances(e)' \subseteq Chances(e)
      BY <2>1, <2>3 DEF Chances
    <3> QED BY <1>0, <2>1, <3>1, PaidIsAccounted DEF Pays, Causes
  <2> QED BY <2>2, <2>3
<1>2. ASSUME NEW d \in Event, Replay(d) PROVE Accounted(e)'
  <2>1. /\ UNCHANGED <<waiting, failed, pc, job, received, faults, unanswered>>
        /\ found' = found \cup {d} /\ replays' = replays + 1
    BY <1>2 DEF Replay
  <2>2. Chances(e)' \subseteq Chances(e) \cup {<<"found", e>>}
    BY <2>1 DEF Chances
  <2> QED BY <1>0, <2>1, <2>2, PaidIsAccounted DEF Pays, Causes
<1>3. ASSUME NEW d \in Event, EnqueueDelivery(d) PROVE Accounted(e)'
  <2> DEFINE k == [event |-> d, attempt |-> 1]
  <2>1. /\ UNCHANGED <<failed, pc, job, received, faults, unanswered, replays>> /\ k.event = d
        /\ found' = found \ {d} /\ waiting' \subseteq waiting \cup {k} /\ d \in found
    BY <1>3 DEF EnqueueDelivery
  <2> HIDE DEF k
  <2>2. CASE e = d
    <3>1. <<"found", e>> \in Chances(e)
      BY <2>1, <2>2 DEF Chances
    <3>2. Chances(e)' \subseteq (Chances(e) \ {<<"found", e>>}) \cup {<<"waiting", k>>}
      BY <2>1, <2>2 DEF Chances
    <3>3. \E x \in Chances(e) : \E y : Chances(e)' \subseteq (Chances(e) \ {x}) \cup {y}
      BY <3>1, <3>2
    <3> QED BY <1>0, <2>1, <3>3, PaidIsAccounted DEF Pays, Causes
  <2>3. CASE e # d
    <3>1. Chances(e)' \subseteq Chances(e)
      BY <2>1, <2>3 DEF Chances
    <3> QED BY <1>0, <2>1, <3>1, PaidIsAccounted DEF Pays, Causes
  <2> QED BY <2>2, <2>3
<1>4. ASSUME NEW d \in Event, Refuse(d) \/ EnqueueFails(d) PROVE Accounted(e)'
  <2>1. /\ UNCHANGED <<waiting, failed, pc, job, received, unanswered, replays>>
        /\ found' \subseteq found /\ (faults' = faults \/ faults' = faults + 1)
    BY <1>4 DEF Refuse, EnqueueFails, Fault
  <2>2. Chances(e)' \subseteq Chances(e)
    BY <2>1 DEF Chances
  <2> QED BY <1>0, <2>1, <2>2, PaidIsAccounted DEF Pays, Causes
<1>5. CASE UpdateRetryConfig \/ RemoveHook \/ ResetRead \/ ResetSave \/ HookTick
  <2>1. UNCHANGED <<found, waiting, failed, pc, job, received, faults, unanswered, replays>>
    BY <1>5 DEF UpdateRetryConfig, RemoveHook, ResetRead, ResetSave, HookTick
  <2>2. Chances(e)' \subseteq Chances(e)
    BY <2>1 DEF Chances
  <2> QED BY <1>0, <2>1, <2>2, PaidIsAccounted DEF Pays, Causes
<1>6. ASSUME NEW j \in failed, RetryFailedJob(j) PROVE Accounted(e)'
  <2>1. /\ UNCHANGED <<found, pc, job, received, faults, unanswered, replays>>
        /\ failed' = failed \ {j} /\ waiting' = waiting \cup {j}
    BY <1>6 DEF RetryFailedJob
  <2>2. CASE e = j.event
    <3>1. <<"failed", j>> \in Chances(e)
      BY <2>2 DEF Chances
    <3>2. Chances(e)' \subseteq (Chances(e) \ {<<"failed", j>>}) \cup {<<"waiting", j>>}
      BY <2>1, <2>2 DEF Chances
    <3> QED BY <1>0, <2>1, <3>1, <3>2, PaidIsAccounted DEF Pays, Causes
  <2>3. CASE e # j.event
    <3>1. Chances(e)' \subseteq Chances(e)
      BY <2>1, <2>3 DEF Chances
    <3> QED BY <1>0, <2>1, <3>1, PaidIsAccounted DEF Pays, Causes
  <2> QED BY <2>2, <2>3
<1> QED
  BY <1>1, <1>2, <1>3, <1>4, <1>5, <1>6

\* The processor: a POST that is accepted uses up the worker's chance, and only
\* a fault brings back a chance for an event that was accepted.
LEMMA WorkerPays ==
    ASSUME Types, Types', NEW e \in Event, Accounted(e), NEW w \in Worker,
           \/ WorkerStep(w) \/ PostUnanswered(w) \/ SuccessRejected(w) \/ JobFails(w)
           \/ Restart(w)
           \/ \E j \in waiting : ReadFails(w, j)
    PROVE  Accounted(e)'
<1> USE DEF redis, local, history, budget
<1>0. faults \in Nat /\ unanswered \in Nat /\ replays \in Nat
  BY DEF Types
<1>1. ASSUME NEW j \in waiting, TakeJob(w, j) PROVE Accounted(e)'
  <2>1. /\ UNCHANGED <<found, failed, received, faults, unanswered, replays>>
        /\ pc' = [pc EXCEPT ![w] = "post"] /\ job' = [job EXCEPT ![w] = j]
        /\ waiting' = waiting \ {j}
    BY <1>1 DEF TakeJob, Goto
  <2>2. CASE e = j.event
    <3>1. <<"waiting", j>> \in Chances(e)
      BY <2>2 DEF Chances
    <3>2. Chances(e)' \subseteq (Chances(e) \ {<<"waiting", j>>}) \cup {<<"worker", w>>}
      BY <2>1, <2>2 DEF Chances, Types
    <3> QED BY <1>0, <2>1, <3>1, <3>2, PaidIsAccounted DEF Pays, Causes
  <2>3. CASE e # j.event
    <3>1. Chances(e)' \subseteq Chances(e)
      BY <2>1, <2>3 DEF Chances, Types
    <3> QED BY <1>0, <2>1, <3>1, PaidIsAccounted DEF Pays, Causes
  <2> QED BY <2>2, <2>3
<1>2. ASSUME NEW j \in waiting, SkipJob(w, j) PROVE Accounted(e)'
  <2>1. /\ UNCHANGED <<found, failed, pc, job, received, faults, unanswered, replays>>
        /\ waiting' \subseteq waiting
    BY <1>2 DEF SkipJob
  <2>2. Chances(e)' \subseteq Chances(e)
    BY <2>1 DEF Chances
  <2> QED BY <1>0, <2>1, <2>2, PaidIsAccounted DEF Pays, Causes
<1>3. ASSUME NEW j \in waiting, ReadFails(w, j) PROVE Accounted(e)'
  <2>1. /\ UNCHANGED <<found, pc, job, received, unanswered, replays>> /\ faults' = faults + 1
        /\ waiting' \subseteq waiting /\ failed' = failed \cup {j}
    BY <1>3 DEF ReadFails, Fault
  <2>2. Chances(e)' \subseteq Chances(e) \cup {<<"failed", j>>}
    BY <2>1 DEF Chances
  <2> QED BY <1>0, <2>1, <2>2, PaidIsAccounted DEF Pays, Causes
<1>4. CASE PostOk(w)
  <2>1. /\ UNCHANGED <<found, waiting, failed, job, faults, unanswered, replays>> /\ pc[w] = "post"
        /\ pc' = [pc EXCEPT ![w] = "logOk"]
        /\ received' = [received EXCEPT ![job[w].event] = @ + 1]
    BY <1>4 DEF PostOk, Goto
  <2>2. CASE e = job[w].event
    <3>1. <<"worker", w>> \in Chances(e)
      BY <2>1, <2>2 DEF Chances
    <3>2. Chances(e)' \subseteq Chances(e) \ {<<"worker", w>>}
      BY <2>1, <2>2 DEF Chances, Types, Catching
    <3>3. received'[e] = received[e] + 1
      BY <2>1, <2>2 DEF Types
    <3> QED BY <1>0, <2>1, <3>1, <3>2, <3>3, PaidIsAccounted DEF Pays, Causes
  <2>3. CASE e # job[w].event
    <3>1. Chances(e)' \subseteq Chances(e)
      BY <2>1, <2>3 DEF Chances, Types
    <3>2. received'[e] = received[e]
      BY <2>1, <2>3 DEF Types
    <3> QED BY <1>0, <2>1, <3>1, <3>2, PaidIsAccounted DEF Pays, Causes
  <2> QED BY <2>2, <2>3
<1>5. CASE PostFails(w) \/ LogSuccess(w) \/ LogFailure(w) \/ Increment(w) \/ ReadBack(w)
           \/ Deactivate(w) \/ OpenCircuit(w) \/ LeaveCircuit(w)
  <2>1. /\ UNCHANGED <<found, waiting, failed, job, received, faults, unanswered, replays>>
        /\ \E to \in Catching \cup {"markOk"} :
              pc' = [pc EXCEPT ![w] = to]
              /\ (to # "markOk" => pc[w] \in Catching \cup {"post"})
    BY <1>5 DEF PostFails, LogSuccess, LogFailure, Increment, ReadBack,
       Deactivate, OpenCircuit, LeaveCircuit, Goto, Catching
  <2>2. Chances(e)' \subseteq Chances(e)
    BY <2>1 DEF Chances, Types, Catching
  <2> QED BY <1>0, <2>1, <2>2, PaidIsAccounted DEF Pays, Causes
<1>6. CASE SuccessRejected(w)
  <2>1. /\ UNCHANGED <<found, waiting, failed, job, received, unanswered, replays>>
        /\ faults' = faults + 1 /\ pc' = [pc EXCEPT ![w] = "logFail"]
    BY <1>6 DEF SuccessRejected, Fault
  <2>2. Chances(e)' \subseteq Chances(e) \cup {<<"worker", w>>}
    BY <2>1 DEF Chances, Types
  <2> QED BY <1>0, <2>1, <2>2, PaidIsAccounted DEF Pays, Causes
<1>7. CASE MarkSuccess(w) \/ AlertOpened(w) \/ Exhausted(w)
  <2>1. /\ UNCHANGED <<found, waiting, failed, received, faults, unanswered, replays>>
        /\ pc' = [pc EXCEPT ![w] = "idle"] /\ job' = [job EXCEPT ![w] = None]
    BY <1>7 DEF MarkSuccess, AlertOpened, Exhausted, Idle
  <2>2. Chances(e)' \subseteq Chances(e)
    BY <2>1 DEF Chances, Types, Catching
  <2> QED BY <1>0, <2>1, <2>2, PaidIsAccounted DEF Pays, Causes
<1>8. CASE ScheduleRetry(w)
  <2> DEFINE k == [event |-> job[w].event, attempt |-> job[w].attempt + 1]
  <2>1. /\ UNCHANGED <<found, failed, received, faults, unanswered, replays>> /\ pc[w] = "retry"
        /\ pc' = [pc EXCEPT ![w] = "idle"] /\ job' = [job EXCEPT ![w] = None]
        /\ waiting' \subseteq waiting \cup {k} /\ k.event = job[w].event
    BY <1>8 DEF ScheduleRetry, Idle
  <2> HIDE DEF k
  <2>2. CASE e = job[w].event
    <3>1. <<"worker", w>> \in Chances(e)
      BY <2>1, <2>2 DEF Chances, Catching
    <3>2. Chances(e)' \subseteq (Chances(e) \ {<<"worker", w>>}) \cup {<<"waiting", k>>}
      BY <2>1, <2>2 DEF Chances, Types, Catching
    <3>3. \E x \in Chances(e) : \E y : Chances(e)' \subseteq (Chances(e) \ {x}) \cup {y}
      BY <3>1, <3>2
    <3> QED BY <1>0, <2>1, <3>3, PaidIsAccounted DEF Pays, Causes
  <2>3. CASE e # job[w].event
    <3>1. Chances(e)' \subseteq Chances(e)
      BY <2>1, <2>3 DEF Chances, Types, Catching
    <3> QED BY <1>0, <2>1, <3>1, PaidIsAccounted DEF Pays, Causes
  <2> QED BY <2>2, <2>3
<1>9. CASE JobFails(w) \/ Restart(w)
  <2>1. /\ UNCHANGED <<found, received, unanswered, replays>> /\ faults' = faults + 1
        /\ pc' = [pc EXCEPT ![w] = "idle"] /\ job' = [job EXCEPT ![w] = None]
        /\ \/ waiting' = waiting /\ failed' = failed \cup {job[w]}
           \/ waiting' = waiting \cup {job[w]} /\ failed' = failed
    BY <1>9 DEF JobFails, Restart, Idle, Fault
  <2>2. \E y : Chances(e)' \subseteq Chances(e) \cup {y}
    <3>1. CASE waiting' = waiting
      <4>1. Chances(e)' \subseteq Chances(e) \cup {<<"failed", job[w]>>}
        BY <2>1, <3>1 DEF Chances, Types, Catching
      <4> QED BY <4>1
    <3>2. CASE failed' = failed
      <4>1. Chances(e)' \subseteq Chances(e) \cup {<<"waiting", job[w]>>}
        BY <2>1, <3>2 DEF Chances, Types, Catching
      <4> QED BY <4>1
    <3> QED BY <2>1, <3>1, <3>2
  <2> QED BY <1>0, <2>1, <2>2, PaidIsAccounted DEF Pays, Causes
<1>10. CASE PostUnanswered(w)
  <2>1. /\ UNCHANGED <<found, waiting, failed, job, faults, replays>> /\ pc[w] = "post"
        /\ pc' = [pc EXCEPT ![w] = "logFail"] /\ unanswered' = unanswered + 1
        /\ received' = [received EXCEPT ![job[w].event] = @ + 1]
    BY <1>10 DEF PostUnanswered, Goto
  <2>2. Chances(e)' \subseteq Chances(e)
    BY <2>1 DEF Chances, Types, Catching
  <2>3. received'[e] = received[e] + 1 \/ received'[e] = received[e]
    BY <2>1 DEF Types
  <2> QED BY <1>0, <2>1, <2>2, <2>3, PaidIsAccounted DEF Pays, Causes
<1> QED
  BY <1>1, <1>2, <1>3, <1>4, <1>5, <1>6, <1>7, <1>8, <1>9, <1>10 DEF WorkerStep

\* Every step pays.
LEMMA AccountsKept ==
    Types /\ OnlySent /\ (\A e \in Event : Accounted(e)) /\ [Next]_vars
      => \A e \in Event : Accounted(e)'
<1> SUFFICES ASSUME Types, OnlySent, [Next]_vars, NEW e \in Event, Accounted(e)
             PROVE  Accounted(e)'
  OBVIOUS
<1>0. Types'
  BY TypesKept
<1>1. CASE UNCHANGED vars
  BY <1>1 DEF vars, Accounted, Chances, Causes
<1> QED
  BY <1>0, <1>1, ServicePays, WorkerPays DEF Next

-----------------------------------------------------------------------------
\* Nothing has been published or sent at the start.
LEMMA InitialState ==
    Init => Types /\ Traced /\ ThresholdDeactivates /\ OnlySent /\ \A e \in Event : Accounted(e)
<1> SUFFICES ASSUME Init
             PROVE  Types /\ Traced /\ ThresholdDeactivates /\ OnlySent /\ \A e \in Event : Accounted(e)
  OBVIOUS
<1>1. Types
  BY DEF Init, Types, Row
<1>2. Traced /\ OnlySent
  BY DEF Init, Traced, OnlySent
<1>3. ThresholdDeactivates
  BY WebhookAssumption DEF Init, ThresholdDeactivates
<1>4. ASSUME NEW e \in Event PROVE Accounted(e)
  <2>1. Chances(e) = {} /\ received[e] = 0 /\ faults = 0 /\ unanswered = 0 /\ replays = 0
    BY DEF Init, Chances, Catching
  <2> QED BY <2>1, FS_EmptySet DEF Accounted, Causes
<1> QED BY <1>1, <1>2, <1>3, <1>4

\* For any number of events, workers, retries and faults: a dispatched event was
\* accepted by the endpoint, is on its way, or was given up for a reason the code
\* names (enqueueDelivery's jobId, WebhookDeliveryProcessor.process).
THEOREM EventsAreTraced == Spec => []NoEventVanishes
<1>1. Types /\ Traced => NoEventVanishes
  <2> SUFFICES ASSUME Types, Traced, NEW e \in sent, Queued(e), e \notin found
               PROVE  Jobs(e) # {}
    BY DEF NoEventVanishes, Traced
  <2>1. ASSUME NEW j \in waiting \cup failed, j.event = e PROVE Jobs(e) # {}
    BY <2>1 DEF Jobs, Live
  <2>2. ASSUME NEW w \in Worker, pc[w] # "idle", job[w].event = e PROVE Jobs(e) # {}
    BY <2>2 DEF Jobs, Live, Types
  <2> QED BY <2>1, <2>2 DEF Queued
<1> QED
  BY <1>1, InitialState, TypesKept, TracesKept, PTL DEF Spec

\* ... and the endpoint gets it once, and once more at most for each replay, each
\* accepted POST whose answer came too late, and each rejected call or restart,
\* whatever jobs are merged, moved or retried meanwhile.
THEOREM DuplicatesNeedCauses == Spec => []DuplicatesAreAccounted
<1> DEFINE Accounts == \A e \in Event : Accounted(e)
<1>1. Types /\ Accounts => DuplicatesAreAccounted
  <2> SUFFICES ASSUME Types, NEW e \in Event, Accounted(e)
               PROVE  received[e] <= 1 + replays + unanswered + faults
    BY DEF DuplicatesAreAccounted
  <2>1. Cardinality(Chances(e)) \in Nat /\ received[e] \in Nat /\ faults \in Nat /\ replays \in Nat
        /\ unanswered \in Nat
    BY FS_CardinalityType DEF Accounted, Types
  <2> QED BY <2>1 DEF Accounted, Causes
<1>2. Types /\ OnlySent /\ Accounts /\ [Next]_vars => Accounts'
  BY AccountsKept
<1>3. Init => Accounts
  BY InitialState
<1> HIDE DEF Accounts
<1> QED
  BY <1>1, <1>2, <1>3, InitialState, TypesKept, OnlySentKept, PTL DEF Spec

\* For any thresholds and any number of failing workers: a webhook whose failures
\* have reached the threshold is inactive, or a worker is about to deactivate it
\* (markWebhookFailure's increment and read-back).
THEOREM ThresholdIsNotMissed == Spec => []ThresholdDeactivates
BY InitialState, TypesKept, ThresholdKept, PTL DEF Spec
=============================================================================
