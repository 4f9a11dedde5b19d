--------------------------- MODULE SorobanIndexer ---------------------------
(***************************************************************************)
(* SorobanEventIndexer.pollEvents (src/src/stellar/                        *)
(* soroban-event-indexer.service.ts): reads the events of the contract     *)
(* behind a cursor kept in Redis, page by page, dispatches each to its     *)
(* listener or adds it to the dead-letter queue, and saves the cursor when *)
(* the last page is done.  The polling flag and CronJobService keep two    *)
(* polls of one process apart only until the five-minute timeout, so a     *)
(* poller is a poll of any replica, or one that goes on after it.          *)
(***************************************************************************)
EXTENDS Integers, Sequences, FiniteSets

CONSTANTS
    Poller,
    Event,             \* what the contract emits: a sequence of [ledger, kind]
    PageLimit,         \* PAGE_LIMIT (200 in the code)
    MaxLedger,         \* bound: the last ledger that closes
    MaxIndexerFaults   \* bound: rejected calls and restarts

EventId == DOMAIN Event
Kind == {"known", "malformed", "other"}

ASSUME IndexerAssumption ==
    /\ Event \in Seq([ledger : Nat \ {0}, kind : Kind])
    /\ PageLimit \in Nat \ {0} /\ MaxLedger \in Nat /\ MaxIndexerFaults \in Nat

ASSUME LedgersAreOrdered ==
    \A d, e \in EventId : d <= e => Event[d].ledger <= Event[e].ledger

VARIABLES
    ledger,      \* the last closed ledger
    stored,      \* soroban:indexer:last-ledger in Redis, 0 when absent
    ppc,
    lastLedger, cursorLedger, pageCursor, \* locals of each poll
    batch, full, \* events of the page still to do; was the page full?
    dispatched,  \* history: events handed to their listener
    deadLettered,\* history: events added to the dead-letter queue
    indexerFaults

indexerVars == <<ledger, stored, ppc, lastLedger, cursorLedger, pageCursor, batch, full,
                dispatched, deadLettered, indexerFaults>>
local == <<lastLedger, cursorLedger, pageCursor, batch, full>>
indexed == <<dispatched, deadLettered>>

IndexerInit ==
    /\ ledger = 0 /\ stored = 0
    /\ ppc = [p \in Poller |-> "idle"]
    /\ lastLedger = [p \in Poller |-> 0]
    /\ cursorLedger = [p \in Poller |-> 0]
    /\ pageCursor = [p \in Poller |-> 0]
    /\ batch = [p \in Poller |-> {}]
    /\ full = [p \in Poller |-> FALSE]
    /\ dispatched = {} /\ deadLettered = {}
    /\ indexerFaults = 0

IndexerFault ==
    /\ indexerFaults < MaxIndexerFaults
    /\ indexerFaults' = indexerFaults + 1

Max2(a, b) == IF a >= b THEN a ELSE b

\* The poll ends; its locals are forgotten.
EndPoll(p) ==
    /\ ppc' = [ppc EXCEPT ![p] = "idle"]
    /\ lastLedger' = [lastLedger EXCEPT ![p] = 0]
    /\ cursorLedger' = [cursorLedger EXCEPT ![p] = 0]
    /\ pageCursor' = [pageCursor EXCEPT ![p] = 0]
    /\ batch' = [batch EXCEPT ![p] = {}]
    /\ full' = [full EXCEPT ![p] = FALSE]

\* The cursor is read; the first page starts behind it.
PollStart(p) ==
    /\ ppc[p] = "idle"
    /\ ppc' = [ppc EXCEPT ![p] = "fetch"]
    /\ lastLedger' = [lastLedger EXCEPT ![p] = stored]
    /\ cursorLedger' = [cursorLedger EXCEPT ![p] = stored]
    /\ UNCHANGED <<ledger, stored, pageCursor, batch, full, indexed, indexerFaults>>

\* The events behind the cursor of the poll and of the last page.
Available(p) ==
    {e \in EventId : /\ Event[e].ledger > lastLedger[p]
                     /\ Event[e].ledger <= ledger
                     /\ e > pageCursor[p]}

\* External: the RPC answers with the first PageLimit of the events.
IsPageOf(page, events) ==
    /\ \A d \in events, e \in page : d < e => d \in page
    /\ Cardinality(page) <= PageLimit
    /\ page = events \/ Cardinality(page) = PageLimit

FetchPage(p) ==
    /\ ppc[p] = "fetch"
    /\ \E page \in SUBSET Available(p) :
         /\ page # {}
         /\ IsPageOf(page, Available(p))
         /\ batch' = [batch EXCEPT ![p] = page]
         /\ full' = [full EXCEPT ![p] = Cardinality(page) = PageLimit]
         /\ \E e \in page :
              /\ \A d \in page : d <= e
              /\ pageCursor' = [pageCursor EXCEPT ![p] = e]
    /\ ppc' = [ppc EXCEPT ![p] = "event"]
    /\ UNCHANGED <<ledger, stored, lastLedger, cursorLedger, indexed, indexerFaults>>

\* An empty page: everything up to latestLedger has been indexed.
FetchEmpty(p) ==
    /\ ppc[p] = "fetch"
    /\ Available(p) = {}
    /\ cursorLedger' = [cursorLedger EXCEPT ![p] = Max2(@, ledger)]
    /\ ppc' = [ppc EXCEPT ![p] = "save"]
    /\ UNCHANGED <<ledger, stored, lastLedger, pageCursor, batch, full, indexed,
                   indexerFaults>>

IsNext(p, e) ==
    /\ ppc[p] = "event"
    /\ e \in batch[p]
    /\ \A d \in batch[p] : e <= d
    /\ batch' = [batch EXCEPT ![p] = @ \ {e}]

\* parseEvent returns null.
IgnoreEvent(p, e) ==
    /\ IsNext(p, e)
    /\ Event[e].kind = "other"
    /\ UNCHANGED <<ledger, stored, ppc, lastLedger, cursorLedger, pageCursor, full,
                   indexed, indexerFaults>>

\* emitAsync resolves: only then does the cursor move.
DispatchEvent(p, e) ==
    /\ IsNext(p, e)
    /\ Event[e].kind = "known"
    /\ dispatched' = dispatched \cup {e}
    /\ cursorLedger' = [cursorLedger EXCEPT ![p] = Max2(@, Event[e].ledger)]
    /\ UNCHANGED <<ledger, stored, ppc, lastLedger, pageCursor, full, deadLettered,
                   indexerFaults>>

\* Mutation: a malformed event ends the poll.
DeadLetter_Aborts(p, e) ==
    /\ ppc[p] = "event"
    /\ e \in batch[p]
    /\ \A d \in batch[p] : e <= d
    /\ Event[e].kind = "malformed"
    /\ deadLettered' = deadLettered \cup {e}
    /\ EndPoll(p)
    /\ UNCHANGED <<ledger, stored, dispatched, indexerFaults>>

\* parseEvent throws: the event goes to the dead-letter queue, the cursor stays.
DeadLetter(p, e) ==
    /\ IsNext(p, e)
    /\ Event[e].kind = "malformed"
    /\ deadLettered' = deadLettered \cup {e}
    /\ UNCHANGED <<ledger, stored, ppc, lastLedger, cursorLedger, pageCursor, full,
                   dispatched, indexerFaults>>

\* The listener rejects: likewise.
DispatchFails(p, e) ==
    /\ IndexerFault
    /\ IsNext(p, e)
    /\ Event[e].kind = "known"
    /\ deadLettered' = deadLettered \cup {e}
    /\ UNCHANGED <<ledger, stored, ppc, lastLedger, cursorLedger, pageCursor, full,
                   dispatched>>

\* Mutation: only the first page is read.
PageDone_FirstPageOnly(p) ==
    /\ ppc[p] = "event"
    /\ batch[p] = {}
    /\ ppc' = [ppc EXCEPT ![p] = "save"]
    /\ UNCHANGED <<ledger, stored, local, indexed, indexerFaults>>

\* A full page may not be the last one.
PageDone(p) ==
    /\ ppc[p] = "event"
    /\ batch[p] = {}
    /\ ppc' = [ppc EXCEPT ![p] = IF full[p] THEN "fetch" ELSE "save"]
    /\ UNCHANGED <<ledger, stored, local, indexed, indexerFaults>>

SaveCursor(p) ==
    /\ ppc[p] = "save"
    /\ stored' = IF cursorLedger[p] > lastLedger[p] THEN cursorLedger[p] ELSE stored
    /\ EndPoll(p)
    /\ UNCHANGED <<ledger, indexed, indexerFaults>>

\* getEvents, dlq.add or cache.set rejects, or the process dies: the cursor is
\* not saved, the finally block (or the restart) clears the polling flag.
PollFails(p) ==
    /\ IndexerFault
    /\ ppc[p] # "idle"
    /\ EndPoll(p)
    /\ UNCHANGED <<ledger, stored, indexed>>

\* External: a ledger closes.
CloseLedger ==
    /\ ledger < MaxLedger
    /\ ledger' = ledger + 1
    /\ UNCHANGED <<stored, ppc, local, indexed, indexerFaults>>

PollStep(p) ==
    \/ PollStart(p) \/ FetchPage(p) \/ FetchEmpty(p)
    \/ \E e \in EventId : IgnoreEvent(p, e) \/ DispatchEvent(p, e) \/ DeadLetter(p, e)
    \/ PageDone(p) \/ SaveCursor(p)

IndexerNext ==
    \/ \E p \in Poller : \/ PollStep(p) \/ PollFails(p)
                         \/ \E e \in EventId : DispatchFails(p, e)
    \/ CloseLedger

IndexerSpec == IndexerInit /\ [][IndexerNext]_indexerVars

\* pollEvents is called every five seconds, and every call it makes returns.
IndexerFairness == \A p \in Poller : WF_indexerVars(PollStep(p))

IndexerFairSpec == IndexerSpec /\ IndexerFairness

-----------------------------------------------------------------------------
\* The shape of the cursor and of each poll's locals.
IndexerTypeOK ==
    /\ ledger \in 0..MaxLedger
    /\ stored \in 0..MaxLedger
    /\ ppc \in [Poller -> {"idle", "fetch", "event", "save"}]
    /\ lastLedger \in [Poller -> 0..MaxLedger]
    /\ cursorLedger \in [Poller -> 0..MaxLedger]
    /\ pageCursor \in [Poller -> Nat]
    /\ batch \in [Poller -> SUBSET EventId]
    /\ full \in [Poller -> BOOLEAN]
    /\ dispatched \subseteq EventId /\ deadLettered \subseteq EventId
    /\ indexerFaults \in 0..MaxIndexerFaults

Handled(e) == Event[e].kind = "other" \/ e \in dispatched \cup deadLettered

\* No event is skipped: whatever polls overlap, fail or restart, and wherever a
\* page ends, every event up to the cursor in Redis has been dispatched or is in
\* the dead-letter queue.
CursorIsBacked ==
    \A e \in EventId : Event[e].ledger <= stored => Handled(e)

\* Every event of a closed ledger is dispatched or dead-lettered in the end, also
\* one behind a malformed event that is fetched again on every poll (once the
\* last ledger is closed none is left over).
EventsAreHandled ==
    <>[](\A e \in EventId : Event[e].ledger <= ledger => Handled(e))
=============================================================================
