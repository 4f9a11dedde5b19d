--------------------------- MODULE SorobanMonitor ---------------------------
(***************************************************************************)
(* SorobanMonitorService (src/src/stellar/soroban-monitor.service.ts):     *)
(* polls the escrow contract's events through Soroban RPC and maps each to *)
(* a payment status.  The cursor and the window of processed event ids     *)
(* live in memory and are copied to Redis, which every replica shares.     *)
(*                                                                         *)
(* An escrow event is its index in Event; its ledger is public once it has *)
(* closed, with all the events in it.                                      *)
(***************************************************************************)
EXTENDS Integers, Sequences, SequencesExt, FiniteSetsExt

CONSTANTS
    Worker,
    Payment,
    Event,       \* a sequence of [topic, payment, ledger, balance]
    PageLimit,   \* pagination.limit of getEvents (200 in the code)
    Window,      \* size of the de-dup window (10 000 in the code)
    MaxLedger,   \* bound: the last ledger that closes
    MaxFaults    \* bound: how many restarts and rejected calls are explored

Topic == {"deposit", "release", "refund", "expired", "dispute", "other"}

ASSUME EventAssumption ==
    /\ Event \in Seq([topic : Topic, payment : Payment, ledger : Nat,
                      balance : {"enough", "short"}])
    /\ \A i, j \in 1..Len(Event) : i < j => Event[i].ledger <= Event[j].ledger
ASSUME LimitAssumption ==
    /\ PageLimit \in Nat \ {0}
    /\ Window \in Nat \ {0}
    /\ MaxLedger \in Nat
    /\ MaxFaults \in Nat

VARIABLES
    row,         \* payments table (shared with StellarMonitor)
    ledger,      \* the last ledger that has closed
    redisCursor, \* soroban:monitor:last-ledger
    redisIds,    \* soroban:monitor:processed-event-ids
    spc,         \* where each worker is in pollEscrowEvents
    loaded,      \* stateLoaded
    startLedger,
    ids,         \* processedEventIds, in insertion order
    batch,       \* the events fetched and not yet handled
    snap,        \* payments: the rows as paymentsRepo.find() returned them
    saves,       \* history: how often each process saved each event
    missed,      \* history: the events a full page left behind, for each process
    faults

vars == <<row, ledger, redisCursor, redisIds, spc, loaded, startLedger, ids,
          batch, snap, saves, missed, faults>>
redis == <<redisCursor, redisIds>>

NoRows == <<>>
EventId == 1..Len(Event)
Status == {"pending", "confirmed", "settled", "failed", "expired", "refunded"}

\* mapTopicToStatus; extractTopic has turned every unknown topic into null.
mapTopicToStatus ==
    [deposit |-> "confirmed", release |-> "settled", refund |-> "refunded",
     expired |-> "expired", dispute |-> "failed"]

PublicFrom(from) ==
    {e \in EventId : from <= Event[e].ledger /\ Event[e].ledger <= ledger}

\* getEvents: the first page of the public events from the start ledger on, which
\* are consecutive: the contract's events are numbered in the order of ledgers.
getEvents(from) ==
    LET public == PublicFrom(from)
        last   == Min({Max(public), Min(public) + PageLimit - 1})
    IN  IF public = {} THEN <<>>
        ELSE [i \in 1..(last - Min(public) + 1) |-> Min(public) + i - 1]

\* repo.save(entity): see StellarMonitor.
Saved(entity, now, status) ==
    {[status |-> status, txHash |-> h] : h \in {entity.txHash, now.txHash}}

-----------------------------------------------------------------------------
\* The payments table is initialised by whoever owns it.
InitMonitor ==
    /\ ledger = 0
    /\ redisCursor = 0
    /\ redisIds = <<>>
    /\ spc = [w \in Worker |-> "idle"]
    /\ loaded = [w \in Worker |-> FALSE]
    /\ startLedger = [w \in Worker |-> 0]
    /\ ids = [w \in Worker |-> <<>>]
    /\ batch = [w \in Worker |-> <<>>]
    /\ snap = [w \in Worker |-> NoRows]
    /\ saves = [w \in Worker |-> [e \in EventId |-> 0]]
    /\ missed = [w \in Worker |-> {}]
    /\ faults = 0

Init ==
    /\ row = [p \in Payment |-> [status |-> "pending", txHash |-> 0]]
    /\ InitMonitor

Fault ==
    /\ faults < MaxFaults
    /\ faults' = faults + 1

Goto(w, from, to) ==
    /\ spc[w] = from
    /\ spc' = [spc EXCEPT ![w] = to]

\* The loop of loadState: every id read is added to the set, which keeps the order
\* of insertion and no id twice.
AddAll(known, read) ==
    LET added[n \in 0..Len(read)] ==
          IF n = 0 THEN known
          ELSE IF read[n] \in ToSet(added[n - 1]) THEN added[n - 1]
          ELSE Append(added[n - 1], read[n])
    IN  added[Len(read)]

\* loadState: once per process, the cursor first and then the ids.
LoadState(w) ==
    /\ Goto(w, "idle", "fetch")
    /\ IF loaded[w] THEN UNCHANGED <<loaded, startLedger, ids>>
       ELSE /\ startLedger' = [startLedger EXCEPT
                                 ![w] = IF redisCursor > @ THEN redisCursor ELSE @]
            /\ loaded' = [loaded EXCEPT ![w] = TRUE]
            /\ ids' = [ids EXCEPT ![w] = AddAll(@, redisIds)]
    /\ UNCHANGED <<row, ledger, redis, batch, snap, saves, missed, faults>>

\* One of the two reads rejects: the error is logged, the poll goes on with what the
\* process has in memory, and the next one loads again.
LoadFails(w) ==
    /\ Fault
    /\ ~loaded[w]
    /\ Goto(w, "idle", "fetch")
    /\ \/ UNCHANGED startLedger
       \/ startLedger' = [startLedger EXCEPT
                            ![w] = IF redisCursor > @ THEN redisCursor ELSE @]
    /\ UNCHANGED <<row, ledger, redis, loaded, ids, batch, snap, saves, missed>>

\* getEvents: the cursor moves to the latest ledger before any event is looked at,
\* also when the page is full and there are more events behind it.
FetchEvents(w) ==
    LET events == getEvents(startLedger[w]) IN
    /\ Goto(w, "fetch", "persist")
    /\ events # <<>>
    /\ batch' = [batch EXCEPT ![w] = events]
    /\ startLedger' = [startLedger EXCEPT ![w] = ledger]
    /\ missed' = [missed EXCEPT ![w] =
                    (@ \cup PublicFrom(startLedger[w])) \ ToSet(events)]
    /\ UNCHANGED <<row, ledger, redis, loaded, ids, snap, saves, faults>>

\* An error, or a page without events, ends the poll.
FetchNothing(w) ==
    /\ Goto(w, "fetch", "done")
    /\ UNCHANGED <<row, ledger, redis, loaded, startLedger, ids, batch, snap,
                   saves, missed, faults>>

\* cacheSet(CURSOR_KEY).
PersistCursor(w) ==
    /\ Goto(w, "persist", "read")
    /\ redisCursor' = startLedger[w]
    /\ UNCHANGED <<row, ledger, redisIds, loaded, startLedger, ids, batch, snap,
                   saves, missed, faults>>

\* paymentsRepo.find(): the rows all the events of the page are matched with.  (An
\* empty table ends the poll: there is nothing that an event could be matched with.)
ReadPayments(w) ==
    /\ Goto(w, "read", "event")
    /\ snap' = [snap EXCEPT ![w] = row]
    /\ UNCHANGED <<row, ledger, redis, loaded, startLedger, ids, batch, saves, missed,
                   faults>>

\* find() rejects, and the error leaves pollEscrowEvents with the cursor moved.
FindFails(w) ==
    /\ Fault
    /\ Goto(w, "read", "done")
    /\ batch' = [batch EXCEPT ![w] = <<>>]
    /\ UNCHANGED <<row, ledger, redis, loaded, startLedger, ids, snap, saves, missed>>

\* Mutation: the id never enters the window.
Remember_Nothing(w, e) == ids[w]

\* The id enters the window before the event is processed; the oldest id
\* leaves a window that has become too large.
Remember(w, e) ==
    LET longer == Append(ids[w], e) IN
    IF Len(longer) > Window THEN Tail(longer) ELSE longer

\* Mutation: only a pending payment takes the status of an event.
AlreadyHas_Closed(w, e) == snap[w][Event[e].payment].status # "pending"

\* The payment has the status of the event in the rows the poll has read.
AlreadyHas(w, e) ==
    snap[w][Event[e].payment].status = mapTopicToStatus[Event[e].topic]

\* What processEscrowEvent will not save: an unknown topic, a short-paid
\* deposit, a status the payment has already in the snapshot.
Ignored(w, e) ==
    \/ Event[e].topic = "other"
    \/ Event[e].topic = "deposit" /\ Event[e].balance = "short"
    \/ Event[e].topic # "other" /\ AlreadyHas(w, e)

\* An event that is skipped: processed before, or ignored.
SkipEvent(w) ==
    LET e == Head(batch[w]) IN
    /\ spc[w] = "event"
    /\ batch[w] # <<>>
    /\ batch' = [batch EXCEPT ![w] = Tail(@)]
    /\ \/ e \in ToSet(ids[w]) /\ UNCHANGED ids
       \/ /\ e \notin ToSet(ids[w])
          /\ Ignored(w, e)
          /\ ids' = [ids EXCEPT ![w] = Remember(w, e)]
    /\ UNCHANGED <<row, ledger, redis, spc, loaded, startLedger, snap, saves, missed,
                   faults>>

\* The balance query (for a deposit) is over: the balance is enough, or it
\* could not be read and the code goes on all the same.
MatchEvent(w) ==
    LET e == Head(batch[w]) IN
    /\ batch[w] # <<>>
    /\ Goto(w, "event", "save")
    /\ e \notin ToSet(ids[w])
    /\ Event[e].topic # "other"
    /\ ~AlreadyHas(w, e)
    /\ ids' = [ids EXCEPT ![w] = Remember(w, e)]
    /\ snap' = [snap EXCEPT ![w][Event[e].payment].status =
                              mapTopicToStatus[Event[e].topic]]
    /\ UNCHANGED <<row, ledger, redis, loaded, startLedger, batch, saves, missed, faults>>

\* paymentsRepo.save(matched) takes effect: no status check, and every stale column of
\* the snapshot may be written with it.
WriteRow(w) ==
    LET e == Head(batch[w])
        p == Event[e].payment IN
    /\ \E r \in Saved(snap[w][p], row[p], snap[w][p].status) :
         row' = [row EXCEPT ![p] = r]
    /\ saves' = [saves EXCEPT ![w][e] = @ + 1]

SaveEvent(w) ==
    /\ Goto(w, "save", "event")
    /\ WriteRow(w)
    /\ batch' = [batch EXCEPT ![w] = Tail(@)]
    /\ UNCHANGED <<ledger, redis, loaded, startLedger, ids, snap, missed, faults>>

\* The save rejects, whether it took effect or not, and the error leaves
\* pollEscrowEvents: the rest of the page is dropped, with the cursor moved and the
\* event's id in the window.
SaveFails(w) ==
    /\ Fault
    /\ Goto(w, "save", "done")
    /\ WriteRow(w) \/ UNCHANGED <<row, saves>>
    /\ batch' = [batch EXCEPT ![w] = <<>>]
    /\ UNCHANGED <<ledger, redis, loaded, startLedger, ids, snap, missed>>

\* The alert about a short-paid deposit rejects: as above, but nothing was to be saved.
AlertFails(w) ==
    LET e == Head(batch[w]) IN
    /\ Fault
    /\ batch[w] # <<>>
    /\ Goto(w, "event", "done")
    /\ e \notin ToSet(ids[w])
    /\ Event[e].topic = "deposit" /\ Event[e].balance = "short"
    /\ ids' = [ids EXCEPT ![w] = Remember(w, e)]
    /\ batch' = [batch EXCEPT ![w] = <<>>]
    /\ UNCHANGED <<row, ledger, redis, loaded, startLedger, snap, saves, missed>>

\* cacheSet(PROCESSED_IDS_KEY).
PersistIds(w) ==
    /\ Goto(w, "event", "done")
    /\ batch[w] = <<>>
    /\ redisIds' = ids[w]
    /\ UNCHANGED <<row, ledger, redisCursor, loaded, startLedger, ids, batch,
                   snap, saves, missed, faults>>

\* A Redis error of either cacheSet is logged and ignored.
PersistFails(w) ==
    /\ Fault
    /\ \/ Goto(w, "persist", "read")
       \/ Goto(w, "event", "done") /\ batch[w] = <<>>
    /\ UNCHANGED <<row, ledger, redis, loaded, startLedger, ids, batch, snap, saves,
                   missed>>

\* The poll returns; the rows it has read are gone.
PollReturns(w) ==
    /\ Goto(w, "done", "idle")
    /\ snap' = [snap EXCEPT ![w] = NoRows]
    /\ UNCHANGED <<row, ledger, redis, loaded, startLedger, ids, batch, saves, missed,
                   faults>>

Restart(w) ==
    /\ Fault
    /\ spc' = [spc EXCEPT ![w] = "idle"]
    /\ loaded' = [loaded EXCEPT ![w] = FALSE]
    /\ startLedger' = [startLedger EXCEPT ![w] = 0]
    /\ ids' = [ids EXCEPT ![w] = <<>>]
    /\ batch' = [batch EXCEPT ![w] = <<>>]
    /\ snap' = [snap EXCEPT ![w] = NoRows]
    /\ UNCHANGED <<row, ledger, redis, saves, missed>>

\* External: a ledger closes.
CloseLedger ==
    /\ ledger < MaxLedger
    /\ ledger' = ledger + 1
    /\ UNCHANGED <<row, redis, spc, loaded, startLedger, ids, batch, snap, saves, missed,
                   faults>>

PollStep(w) ==
    \/ FetchEvents(w) \/ FetchNothing(w) \/ PersistCursor(w)
    \/ ReadPayments(w) \/ SkipEvent(w) \/ MatchEvent(w) \/ SaveEvent(w)
    \/ PersistIds(w)

\* The rejected calls: those of Redis are ignored, the others end the poll.
PollRejects(w) ==
    \/ LoadFails(w) \/ PersistFails(w)
    \/ FindFails(w) \/ AlertFails(w) \/ SaveFails(w)

Next ==
    \/ \E w \in Worker : \/ LoadState(w) \/ PollStep(w) \/ PollReturns(w)
                         \/ PollRejects(w) \/ Restart(w)
    \/ CloseLedger

Spec == Init /\ [][Next]_vars

\* The scan job repeats in every replica; a getEvents call that is tried again
\* and again succeeds eventually; ledgers keep closing.
Fairness ==
    /\ \A w \in Worker :
         /\ WF_vars(LoadState(w) \/ PollStep(w) \/ PollReturns(w))
         /\ SF_vars(FetchEvents(w))
    /\ WF_vars(CloseLedger)

FairSpec == Spec /\ Fairness

-----------------------------------------------------------------------------
\* The shape of the state of soroban-monitor.service.ts.
TypeOK ==
    /\ \A p \in Payment : row[p].status \in Status
    /\ ledger \in 0..MaxLedger
    /\ redisCursor \in 0..MaxLedger
    /\ redisIds \in Seq(EventId)
    /\ spc \in [Worker -> {"idle", "fetch", "persist", "read", "event", "save",
                          "done"}]
    /\ loaded \in [Worker -> BOOLEAN]
    /\ startLedger \in [Worker -> 0..MaxLedger]
    /\ \A w \in Worker : ids[w] \in Seq(EventId) /\ batch[w] \in Seq(EventId)
    /\ \A w \in Worker : snap[w] # NoRows =>
         \A p \in Payment : snap[w][p].status \in Status
    /\ saves \in [Worker -> [EventId -> Nat]]
    /\ missed \in [Worker -> SUBSET EventId]
    /\ faults \in 0..MaxFaults

\* A process saves an escrow event at most once, although the page from the start
\* ledger on is fetched again on every poll; each restart and each rejected call can
\* add at most one save.  The Redis copies of the cursor and the ids, which the other
\* replicas overwrite, do not add any.
ReplaysAreAccounted ==
    \A w \in Worker, e \in EventId : saves[w][e] <= 1 + faults

\* docs/soroban-integration.md: "Persisted cursors and transaction/event IDs prevent
\* replay", of the two replicas of infra/k8s/deployment.yaml: an escrow event changes
\* a payment at most once more than there were faults.
ReplayIsPrevented ==
    \A e \in EventId :
        MapThenSumSet(LAMBDA w : saves[w][e], Worker) <= 1 + faults

\* The events of a payment that have a status, and those of them that are sure to be
\* applied: a short-paid deposit is, when its balance cannot be read.
EventsOf(p) ==
    {e \in EventId : Event[e].payment = p /\ Event[e].topic \in DOMAIN mapTopicToStatus}
Deciding(p) ==
    {e \in EventsOf(p) : ~(Event[e].topic = "deposit" /\ Event[e].balance = "short")}

\* The payment has the status of an event behind which it has none that no process
\* missed; or all its events were missed.
FollowsEvents(p) ==
    LET lost == UNION {missed[w] : w \in Worker}
    IN  \/ Deciding(p) \subseteq lost
        \/ \E e \in EventsOf(p) :
              /\ row[p].status = mapTopicToStatus[Event[e].topic]
              /\ \A f \in Deciding(p) : f > e => f \in lost

\* Every event of the contract reaches its payment and in the contract's order,
\* whichever replica handles it: each payment ends with the status of its last event,
\* unless a restart or a rejected call loses one (the cursor is persisted before the
\* events are processed) or a full page leaves one behind, past which the cursor
\* moves all the same.
LastEventWins == \A p \in Payment : <>(faults > 0) \/ <>[]FollowsEvents(p)
=============================================================================
