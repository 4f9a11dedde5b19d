------------------------ MODULE SorobanIndexer_proof ------------------------
(***************************************************************************)
(* No event of the contract is skipped by the indexer, for any number of   *)
(* pollers, events, page sizes and faults.                                 *)
(***************************************************************************)
EXTENDS SorobanIndexer, SequenceTheorems, TLAPS

\* A poll has handled what its pages held, except what is left of the batch; when
\* a page is not full, no event behind it is as old as one on it or as the cursor.
PagesAreHandled(p) ==
    \A e \in EventId :
        Event[e].ledger <= lastLedger[p] \/ e <= pageCursor[p]
          => Handled(e) \/ e \in batch[p]

LastPageIsLast(p) ==
    ppc[p] = "event" /\ ~full[p] =>
        \A e \in EventId : e > pageCursor[p] =>
            \/ Event[e].ledger <= lastLedger[p]
            \/ /\ Event[e].ledger > cursorLedger[p]
               /\ \A d \in batch[p] : Event[e].ledger > Event[d].ledger

SaveIsBacked(p) ==
    ppc[p] = "save" =>
        \A e \in EventId : Event[e].ledger <= cursorLedger[p] => Handled(e)

CursorsAreClosed(p) ==
    /\ cursorLedger[p] <= ledger
    /\ \A e \in batch[p] : Event[e].ledger <= ledger
    /\ ppc[p] # "event" => batch[p] = {}

\* The inductive invariant.
IInv ==
    /\ IndexerTypeOK
    /\ stored <= ledger
    /\ CursorIsBacked
    /\ \A p \in Poller : /\ PagesAreHandled(p) /\ LastPageIsLast(p)
                         /\ SaveIsBacked(p) /\ CursorsAreClosed(p)

-----------------------------------------------------------------------------
(* What the assumptions on the constants give. *)

\* Event ids, ledgers and kinds have their types.
LEMMA EventTypes ==
    \A e \in EventId : e \in Nat \ {0} /\ Event[e].ledger \in Nat \ {0}
                          /\ Event[e].kind \in Kind
<1> TAKE e \in EventId
<1>1. e \in 1..Len(Event) /\ Len(Event) \in Nat
  BY IndexerAssumption DEF EventId
<1>2. Event[e] \in [ledger : Nat \ {0}, kind : Kind]
  BY <1>1, IndexerAssumption, ElementOfSeq
<1> QED
  BY <1>1, <1>2

\* The larger of two numbers (Math.max in pollEvents).
LEMMA Max2Facts ==
    ASSUME NEW a \in Nat, NEW b \in Nat
    PROVE  Max2(a, b) \in Nat /\ a <= Max2(a, b) /\ b <= Max2(a, b)
             /\ Max2(a, b) \in {a, b}
BY DEF Max2

\* A handled event stays handled: the two histories only grow.
LEMMA HandledGrows ==
    ASSUME [IndexerNext]_indexerVars, NEW e \in EventId, Handled(e)
    PROVE  Handled(e)'
<1>1. dispatched \subseteq dispatched' /\ deadLettered \subseteq deadLettered'
  BY DEF IndexerNext, indexerVars, PollStep, PollStart, FetchPage, FetchEmpty, IgnoreEvent,
         DispatchEvent, DeadLetter, DispatchFails, PageDone, SaveCursor, PollFails,
         CloseLedger, indexed
<1> QED
  BY <1>1 DEF Handled

\* The initial state satisfies the invariant: no event is that old.
LEMMA InitInv == IndexerInit => IInv
<1> SUFFICES ASSUME IndexerInit PROVE IInv
  OBVIOUS
<1>1. IndexerTypeOK
  BY IndexerAssumption DEF IndexerInit, IndexerTypeOK
<1> QED
  BY <1>1, EventTypes
  DEF IndexerInit, IInv, CursorIsBacked, PagesAreHandled, LastPageIsLast, SaveIsBacked,
      CursorsAreClosed

\* The step lemmas: each part of the invariant, action by action.
-----------------------------------------------------------------------------
\* The locals of the poll and the cursor keep their types and stay behind the last
\* closed ledger (Math.max never takes a ledger that has not closed).
LEMMA TypeStep ==
    ASSUME IInv, [IndexerNext]_indexerVars
    PROVE  IndexerTypeOK'
<1>0. IndexerTypeOK /\ MaxLedger \in Nat /\ MaxIndexerFaults \in Nat
  BY IndexerAssumption DEF IInv
<1> USE <1>0 DEF IndexerTypeOK, local, indexed, IndexerFault
<1>1. ASSUME NEW p \in Poller, PollStart(p) PROVE IndexerTypeOK'
  BY <1>1 DEF PollStart
<1>2. ASSUME NEW p \in Poller, FetchPage(p) PROVE IndexerTypeOK'
  <2>1. PICK page \in SUBSET Available(p) : \E e \in page :
          /\ batch' = [batch EXCEPT ![p] = page]
          /\ full' = [full EXCEPT ![p] = Cardinality(page) = PageLimit]
          /\ pageCursor' = [pageCursor EXCEPT ![p] = e]
    BY <1>2 DEF FetchPage
  <2>2. page \in SUBSET EventId /\ EventId \subseteq Nat
    BY <2>1, EventTypes DEF Available
  <2>3. full' \in [Poller -> BOOLEAN]
    <3>1. full' = [full EXCEPT ![p] = Cardinality(page) = PageLimit]
      BY <2>1
    <3>2. full \in [Poller -> BOOLEAN]
      OBVIOUS
    <3> HIDE <1>0 DEF IndexerTypeOK
    <3> QED
      BY <3>1, <3>2, Zenon
  <2>4. batch' \in [Poller -> SUBSET EventId] /\ pageCursor' \in [Poller -> Nat]
    BY <2>1, <2>2
  <2> QED
    BY <1>2, <2>3, <2>4 DEF FetchPage
<1>3. ASSUME NEW p \in Poller, FetchEmpty(p) PROVE IndexerTypeOK'
  <2>1. Max2(cursorLedger[p], ledger) \in 0..MaxLedger
    BY DEF Max2
  <2> QED
    BY <1>3, <2>1 DEF FetchEmpty
<1>4. ASSUME NEW p \in Poller, NEW e \in EventId, IgnoreEvent(p, e) PROVE IndexerTypeOK'
  BY <1>4 DEF IgnoreEvent, IsNext
<1>5. ASSUME NEW p \in Poller, NEW e \in EventId, DispatchEvent(p, e) PROVE IndexerTypeOK'
  <2>1. Event[e].ledger \in 0..MaxLedger
    BY <1>5, EventTypes DEF DispatchEvent, IsNext, IInv, CursorsAreClosed
  <2>2. Max2(cursorLedger[p], Event[e].ledger) \in 0..MaxLedger
    BY <2>1 DEF Max2
  <2> QED
    BY <1>5, <2>2 DEF DispatchEvent, IsNext
<1>6. ASSUME NEW p \in Poller, NEW e \in EventId, DeadLetter(p, e) PROVE IndexerTypeOK'
  BY <1>6 DEF DeadLetter, IsNext
<1>7. ASSUME NEW p \in Poller, PageDone(p) PROVE IndexerTypeOK'
  BY <1>7 DEF PageDone
<1>8. ASSUME NEW p \in Poller, SaveCursor(p) PROVE IndexerTypeOK'
  BY <1>8 DEF SaveCursor, EndPoll
<1>9. ASSUME NEW p \in Poller, PollFails(p) PROVE IndexerTypeOK'
  BY <1>9 DEF PollFails, EndPoll
<1>10. ASSUME NEW p \in Poller, NEW e \in EventId, DispatchFails(p, e) PROVE IndexerTypeOK'
  BY <1>10 DEF DispatchFails, IsNext
<1>11. CASE CloseLedger
  BY <1>11 DEF CloseLedger
<1>12. CASE UNCHANGED indexerVars
  BY <1>12 DEF indexerVars
<1> QED
  BY <1>1, <1>2, <1>3, <1>4, <1>5, <1>6, <1>7, <1>8, <1>9, <1>10, <1>11, <1>12
  DEF IndexerNext, PollStep

\* No cursor and no page runs ahead of the last closed ledger.
LEMMA ClosedStep ==
    ASSUME IInv, [IndexerNext]_indexerVars
    PROVE  stored' <= ledger' /\ \A q \in Poller : CursorsAreClosed(q)'
<1>0. IndexerTypeOK /\ MaxLedger \in Nat /\ stored <= ledger
      /\ \A q \in Poller : CursorsAreClosed(q)
  BY IndexerAssumption DEF IInv
<1> USE <1>0, EventTypes DEF IndexerTypeOK, CursorsAreClosed, local, indexed
<1> DEFINE Goal == stored' <= ledger' /\ \A q \in Poller : CursorsAreClosed(q)'
<1>1. ASSUME NEW p \in Poller, PollStart(p) PROVE Goal
  BY <1>1 DEF PollStart
<1>2. ASSUME NEW p \in Poller, FetchPage(p) PROVE Goal
  BY <1>2 DEF FetchPage, Available
<1>3. ASSUME NEW p \in Poller, FetchEmpty(p) PROVE Goal
  <2>1. Max2(cursorLedger[p], ledger) <= ledger
    BY DEF Max2
  <2> QED
    BY <1>3, <2>1 DEF FetchEmpty
<1>4. ASSUME NEW p \in Poller, NEW e \in EventId, IgnoreEvent(p, e) PROVE Goal
  BY <1>4 DEF IgnoreEvent, IsNext
<1>5. ASSUME NEW p \in Poller, NEW e \in EventId, DispatchEvent(p, e) PROVE Goal
  <2>1. Max2(cursorLedger[p], Event[e].ledger) <= ledger
    BY <1>5 DEF DispatchEvent, IsNext, Max2
  <2> QED
    BY <1>5, <2>1 DEF DispatchEvent, IsNext
<1>6. ASSUME NEW p \in Poller, NEW e \in EventId, DeadLetter(p, e) PROVE Goal
  BY <1>6 DEF DeadLetter, IsNext
<1>7. ASSUME NEW p \in Poller, PageDone(p) PROVE Goal
  BY <1>7 DEF PageDone
<1>8. ASSUME NEW p \in Poller, SaveCursor(p) PROVE Goal
  BY <1>8 DEF SaveCursor, EndPoll
<1>9. ASSUME NEW p \in Poller, PollFails(p) PROVE Goal
  BY <1>9 DEF PollFails, EndPoll
<1>10. ASSUME NEW p \in Poller, NEW e \in EventId, DispatchFails(p, e) PROVE Goal
  BY <1>10 DEF DispatchFails, IsNext
<1>11. CASE CloseLedger
  BY <1>11 DEF CloseLedger
<1>12. CASE UNCHANGED indexerVars
  BY <1>12 DEF indexerVars
<1> QED
  BY <1>1, <1>2, <1>3, <1>4, <1>5, <1>6, <1>7, <1>8, <1>9, <1>10, <1>11, <1>12
  DEF IndexerNext, PollStep

\* A poll that is not the one that steps keeps its part of the invariant: its
\* locals stay, and what is handled stays handled.
LEMMA OtherPolls ==
    ASSUME IInv, [IndexerNext]_indexerVars, NEW q \in Poller,
           ppc'[q] = ppc[q], lastLedger'[q] = lastLedger[q],
           cursorLedger'[q] = cursorLedger[q], pageCursor'[q] = pageCursor[q],
           batch'[q] = batch[q], full'[q] = full[q]
    PROVE  PagesAreHandled(q)' /\ LastPageIsLast(q)' /\ SaveIsBacked(q)'
BY HandledGrows DEF IInv, PagesAreHandled, LastPageIsLast, SaveIsBacked

\* A poll that ends leaves nothing to show.
LEMMA EndedPoll ==
    ASSUME IInv, NEW p \in Poller, EndPoll(p)
    PROVE  PagesAreHandled(p)' /\ LastPageIsLast(p)' /\ SaveIsBacked(p)'
BY EventTypes DEF IInv, IndexerTypeOK, EndPoll, PagesAreHandled, LastPageIsLast, SaveIsBacked

\* Only the poll that takes a step changes its locals.
LEMMA OneStepsAtATime ==
    ASSUME IndexerTypeOK, [IndexerNext]_indexerVars, NEW q \in Poller
    PROVE  \/ PollStep(q) \/ PollFails(q) \/ \E e \in EventId : DispatchFails(q, e)
           \/ /\ ppc'[q] = ppc[q] /\ lastLedger'[q] = lastLedger[q]
              /\ cursorLedger'[q] = cursorLedger[q] /\ pageCursor'[q] = pageCursor[q]
              /\ batch'[q] = batch[q] /\ full'[q] = full[q]
<1> DEFINE Same == /\ ppc'[q] = ppc[q] /\ lastLedger'[q] = lastLedger[q]
                   /\ cursorLedger'[q] = cursorLedger[q]
                   /\ pageCursor'[q] = pageCursor[q]
                   /\ batch'[q] = batch[q] /\ full'[q] = full[q]
<1>1. CASE UNCHANGED indexerVars \/ CloseLedger
  BY <1>1 DEF indexerVars, CloseLedger, local
<1>2. ASSUME NEW p \in Poller, p # q,
             PollStart(p) \/ FetchEmpty(p) \/ PageDone(p) \/ SaveCursor(p) \/ PollFails(p)
      PROVE  Same
  BY <1>2 DEF IndexerTypeOK, PollStart, FetchEmpty, PageDone, SaveCursor, PollFails, EndPoll, local
<1>3. ASSUME NEW p \in Poller, p # q, FetchPage(p)
      PROVE  Same
  BY <1>3 DEF IndexerTypeOK, FetchPage
<1>4. ASSUME NEW p \in Poller, p # q, NEW e \in EventId,
             IgnoreEvent(p, e) \/ DispatchEvent(p, e) \/ DeadLetter(p, e)
               \/ DispatchFails(p, e)
      PROVE  Same
  BY <1>4 DEF IndexerTypeOK, IgnoreEvent, DispatchEvent, DeadLetter, DispatchFails, IsNext
<1> QED
  BY <1>1, <1>2, <1>3, <1>4 DEF IndexerNext, PollStep

\* Each poll keeps its part of the invariant.
LEMMA PollsStep ==
    ASSUME IInv, [IndexerNext]_indexerVars, NEW q \in Poller
    PROVE  PagesAreHandled(q)' /\ LastPageIsLast(q)' /\ SaveIsBacked(q)'
<1> DEFINE Goal == PagesAreHandled(q)' /\ LastPageIsLast(q)' /\ SaveIsBacked(q)'
<1>0. /\ IndexerTypeOK /\ CursorIsBacked /\ PagesAreHandled(q) /\ LastPageIsLast(q)
      /\ SaveIsBacked(q) /\ CursorsAreClosed(q)
  BY DEF IInv
<1>a. \A e \in EventId : Handled(e) => Handled(e)'
  BY HandledGrows
<1> USE <1>0, <1>a, EventTypes
<1>1. CASE PollStart(q)
  <2>1. ppc'[q] = "fetch" /\ lastLedger'[q] = stored
    BY <1>1 DEF PollStart, IndexerTypeOK
  <2>2. pageCursor' = pageCursor /\ batch' = batch
    BY <1>1 DEF PollStart
  <2> QED
    BY <2>1, <2>2 DEF PagesAreHandled, LastPageIsLast, SaveIsBacked, CursorIsBacked
<1>2. CASE FetchPage(q)
  <2>1. PICK page \in SUBSET Available(q) :
          /\ IsPageOf(page, Available(q))
          /\ batch'[q] = page
          /\ full'[q] = (Cardinality(page) = PageLimit)
          /\ \E m \in page : (\A d \in page : d <= m) /\ pageCursor'[q] = m
    BY <1>2 DEF FetchPage, IndexerTypeOK
  <2>2. PICK m \in page : (\A d \in page : d <= m) /\ pageCursor'[q] = m
    BY <2>1
  <2>3. /\ ppc'[q] = "event" /\ lastLedger' = lastLedger /\ cursorLedger' = cursorLedger
        /\ batch[q] = {}
    BY <1>2 DEF FetchPage, IndexerTypeOK, CursorsAreClosed
  <2>4. /\ m \in EventId /\ Event[m].ledger <= ledger /\ m > pageCursor[q]
        /\ \A d \in page : d \in EventId /\ Event[d].ledger <= ledger
    BY <2>1, <2>2 DEF Available
  <2>5. ledger \in Nat /\ lastLedger[q] \in Nat /\ cursorLedger[q] \in Nat
        /\ pageCursor[q] \in Nat /\ cursorLedger[q] <= ledger
    BY DEF IndexerTypeOK, CursorsAreClosed
  <2>6. ASSUME NEW e \in EventId, Event[e].ledger <= lastLedger[q] \/ e <= m
        PROVE  Handled(e) \/ e \in page
    <3>1. CASE Event[e].ledger <= lastLedger[q] \/ e <= pageCursor[q]
      BY <3>1, <2>3 DEF PagesAreHandled
    <3>2. CASE Event[e].ledger > lastLedger[q] /\ e > pageCursor[q] /\ e <= m
      <4>1. Event[e].ledger <= ledger
        BY <3>2, <2>4, <2>5, LedgersAreOrdered
      <4>2. e \in Available(q)
        BY <4>1, <3>2 DEF Available
      <4> QED
        BY <4>2, <3>2, <2>1, <2>2, <2>4 DEF IsPageOf
    <3> QED
      BY <3>1, <3>2, <2>5, <2>6
  <2>7. PagesAreHandled(q)'
    BY <2>1, <2>2, <2>3, <2>6 DEF PagesAreHandled
  <2>8. ASSUME ~full'[q], NEW e \in EventId, e > m, Event[e].ledger > lastLedger[q]
        PROVE  Event[e].ledger > ledger
    <3>1. Cardinality(page) # PageLimit
      BY <2>1, <2>8
    <3>2. page = Available(q)
      BY <3>1, <2>1 DEF IsPageOf
    <3>3. e \notin Available(q)
      BY <2>2, <2>4, <2>8, <3>2
    <3> QED
      BY <3>3, <2>4, <2>5, <2>8 DEF Available
  <2>9. LastPageIsLast(q)'
    BY <2>1, <2>2, <2>3, <2>4, <2>5, <2>8 DEF LastPageIsLast
  <2> QED
    BY <2>3, <2>7, <2>9 DEF SaveIsBacked
<1>3. CASE FetchEmpty(q)
  <2>1. /\ ppc'[q] = "save" /\ lastLedger' = lastLedger /\ pageCursor' = pageCursor
        /\ batch' = batch /\ batch[q] = {} /\ Available(q) = {}
        /\ cursorLedger'[q] = Max2(cursorLedger[q], ledger)
    BY <1>3 DEF FetchEmpty, IndexerTypeOK, CursorsAreClosed
  <2>2. ledger \in Nat /\ lastLedger[q] \in Nat /\ pageCursor[q] \in Nat
        /\ cursorLedger[q] \in Nat
    BY DEF IndexerTypeOK
  <2>3. cursorLedger'[q] = ledger
    BY <2>1, <2>2 DEF Max2, CursorsAreClosed
  <2>4. ASSUME NEW e \in EventId, Event[e].ledger <= ledger
        PROVE  Handled(e)
    <3>1. Event[e].ledger <= lastLedger[q] \/ e <= pageCursor[q]
      BY <2>1, <2>2, <2>4 DEF Available
    <3> QED
      BY <3>1, <2>1 DEF PagesAreHandled
  <2> QED
    BY <2>1, <2>3, <2>4 DEF PagesAreHandled, LastPageIsLast, SaveIsBacked
<1>4. ASSUME NEW e \in EventId,
             IgnoreEvent(q, e) \/ DeadLetter(q, e) \/ DispatchFails(q, e)
      PROVE  Goal
  <2>1. /\ ppc' = ppc /\ lastLedger' = lastLedger /\ pageCursor' = pageCursor
        /\ full' = full /\ cursorLedger' = cursorLedger /\ ppc[q] = "event"
    BY <1>4 DEF IgnoreEvent, DeadLetter, DispatchFails, IsNext
  <2>2. batch'[q] = batch[q] \ {e}
    BY <1>4 DEF IgnoreEvent, DeadLetter, DispatchFails, IsNext, IndexerTypeOK
  <2>3. Handled(e)'
    BY <1>4 DEF IgnoreEvent, DeadLetter, DispatchFails, Handled
  <2> QED
    BY <2>1, <2>2, <2>3 DEF PagesAreHandled, LastPageIsLast, SaveIsBacked
<1>5. ASSUME NEW e \in EventId, DispatchEvent(q, e)
      PROVE  Goal
  <2>1. /\ ppc' = ppc /\ lastLedger' = lastLedger /\ pageCursor' = pageCursor
        /\ full' = full /\ ppc[q] = "event" /\ e \in batch[q]
    BY <1>5 DEF DispatchEvent, IsNext
  <2>2. /\ batch'[q] = batch[q] \ {e}
        /\ cursorLedger'[q] = Max2(cursorLedger[q], Event[e].ledger)
    BY <1>5 DEF DispatchEvent, IsNext, IndexerTypeOK
  <2>3. Handled(e)'
    BY <1>5 DEF DispatchEvent, Handled
  <2>4. PagesAreHandled(q)'
    BY <2>1, <2>2, <2>3 DEF PagesAreHandled
  <2>5. cursorLedger'[q] \in {cursorLedger[q], Event[e].ledger}
    BY <2>2 DEF Max2
  <2>6. LastPageIsLast(q)'
    BY <2>1, <2>2, <2>5 DEF LastPageIsLast
  <2> QED
    BY <2>1, <2>4, <2>6 DEF SaveIsBacked
<1>6. CASE PageDone(q)
  <2>1. /\ lastLedger' = lastLedger /\ pageCursor' = pageCursor /\ full' = full
        /\ cursorLedger' = cursorLedger /\ batch' = batch
        /\ ppc[q] = "event" /\ batch[q] = {}
        /\ ppc'[q] = IF full[q] THEN "fetch" ELSE "save"
    BY <1>6 DEF PageDone, local, IndexerTypeOK
  <2>2. ASSUME ~full[q], NEW e \in EventId, Event[e].ledger <= cursorLedger[q]
        PROVE  Handled(e)
    <3>1. Event[e].ledger <= lastLedger[q] \/ e <= pageCursor[q]
      <4>1. cursorLedger[q] \in Nat /\ pageCursor[q] \in Nat /\ lastLedger[q] \in Nat
        BY DEF IndexerTypeOK
      <4> QED
        BY <2>1, <2>2, <4>1 DEF LastPageIsLast
    <3> QED
      BY <3>1, <2>1 DEF PagesAreHandled
  <2> QED
    BY <2>1, <2>2 DEF PagesAreHandled, LastPageIsLast, SaveIsBacked
<1>7. CASE SaveCursor(q) \/ PollFails(q)
  BY <1>7, EndedPoll DEF SaveCursor, PollFails
<1>8. CASE /\ ppc'[q] = ppc[q] /\ lastLedger'[q] = lastLedger[q]
           /\ cursorLedger'[q] = cursorLedger[q] /\ pageCursor'[q] = pageCursor[q]
           /\ batch'[q] = batch[q] /\ full'[q] = full[q]
  BY <1>8, OtherPolls
<1> QED
  BY <1>1, <1>2, <1>3, <1>4, <1>5, <1>6, <1>7, <1>8, OneStepsAtATime DEF PollStep

\* The cursor in Redis only takes values that a finished poll stands for.
LEMMA StoredStep ==
    ASSUME IInv, [IndexerNext]_indexerVars
    PROVE  CursorIsBacked'
<1>0. \A e \in EventId : Handled(e) => Handled(e)'
  BY HandledGrows
<1>1. stored' = stored \/ \E p \in Poller : ppc[p] = "save" /\ stored' = cursorLedger[p]
  BY DEF IndexerNext, indexerVars, PollStep, PollStart, FetchPage, FetchEmpty, IgnoreEvent,
         DispatchEvent, DeadLetter, DispatchFails, PageDone, SaveCursor, PollFails,
         CloseLedger
<1> QED
  BY <1>0, <1>1 DEF IInv, CursorIsBacked, SaveIsBacked

\* The invariant is inductive.
LEMMA Inductive == IInv /\ [IndexerNext]_indexerVars => IInv'
<1> SUFFICES ASSUME IInv, [IndexerNext]_indexerVars PROVE IInv'
  OBVIOUS
<1> QED
  BY TypeStep, ClosedStep, PollsStep, StoredStep DEF IInv

\* The cursor and the locals of pollEvents keep their types.
THEOREM TypeCorrect == IndexerSpec => []IndexerTypeOK
<1>1. IInv => IndexerTypeOK
  BY DEF IInv
<1> QED
  BY <1>1, InitInv, Inductive, PTL DEF IndexerSpec

\* The cursor pollEvents saves never passes an event that was neither dispatched
\* nor dead-lettered.
THEOREM NothingIsSkipped == IndexerSpec => []CursorIsBacked
<1>1. IInv => CursorIsBacked
  BY DEF IInv
<1> QED
  BY <1>1, InitInv, Inductive, PTL DEF IndexerSpec
=============================================================================
