------------------------------ MODULE Rankings ------------------------------
(***************************************************************************)
(* AdminService.getTopMerchants: clients page through the merchants that   *)
(* have payments in the period, by settled volume with a keyset cursor,    *)
(* while merchants and volumes change, and pages are cached under their    *)
(* cursor for ten minutes.                                                 *)
(***************************************************************************)
EXTENDS Integers, FiniteSets

CONSTANTS
    RankedMerchant,    \* ids, ordered as numbers
    VolumeUsd,         \* the volumes there are, in units of the last decimal
    ExactVolume,       \* the volumes up to here are numbers of JavaScript
    RankLimit,         \* the page size
    RankClient,        \* the clients that page
    MaxWalks,          \* bound: walks
    MaxVolumeChanges   \* bound: changes of a volume

ASSUME RankingAssumption ==
    /\ RankedMerchant \subseteq Nat /\ IsFiniteSet(RankedMerchant) /\ VolumeUsd \subseteq Nat
    /\ ExactVolume \in Nat
    /\ RankLimit \in Nat \ {0} /\ MaxWalks \in Nat /\ MaxVolumeChanges \in Nat

VARIABLES
    volume,         \* what each merchant settled in the period; -1 without a payment in it
    pages,          \* the cached pages
    walk,           \* the clients' walks
    walks,
    volumeChanges

rankVars == <<volume, pages, walk, walks, volumeChanges>>

NoPayment == -1

\* The query joins and groups payments: a merchant with one in the period has a
\* row, whatever the payment's status.
InPeriod(m) == volume[m] # NoPayment

\* A cursor is the id and the volume of the last row; -1 stands for none.
Start == [id |-> -1, volume |-> -1]

NoWalk == [at |-> "idle", cursor |-> Start, listed |-> [m \in RankedMerchant |-> 0],
           steady |-> RankedMerchant, exact |-> TRUE,
           page |-> [cursor |-> Start, rows |-> {}, next |-> Start, steady |-> RankedMerchant]]

RankInit ==
    /\ volume \in [RankedMerchant -> VolumeUsd \cup {NoPayment}]
    /\ pages = {} /\ walk = [c \in RankClient |-> NoWalk]
    /\ walks = 0 /\ volumeChanges = 0

----------------------------------------------------------------------------
\* fetchTopMerchants

\* parseFloat of a numeric(18,6): of the numbers above the exact ones every
\* second is a double, and one between two goes to the multiple of four.
ParseFloat(v) ==
    IF v <= ExactVolume \/ v % 2 = 0 THEN v ELSE IF v % 4 = 1 THEN v - 1 ELSE v + 1

\* Mutation: a row with the volume of the cursor is left out whatever its id.
Having_VolumeOnly(m, cursor) == cursor = Start \/ volume[m] < ParseFloat(cursor.volume)

Having(m, cursor) ==
    \/ cursor = Start
    \/ volume[m] < ParseFloat(cursor.volume)
    \/ volume[m] = ParseFloat(cursor.volume) /\ m > cursor.id

\* ORDER BY volume DESC, merchantId ASC
Ranked(m, k) == volume[m] > volume[k] \/ (volume[m] = volume[k] /\ m < k)

Limited(rows, n) == {m \in rows : Cardinality({k \in rows : Ranked(k, m)}) < n}

FetchTopMerchants(cursor) ==
    LET rows == Limited({m \in RankedMerchant : InPeriod(m) /\ Having(m, cursor)}, RankLimit + 1)
        hasMore == Cardinality(rows) > RankLimit
        pageRows == IF hasMore THEN Limited(rows, RankLimit) ELSE rows
        last == CHOOSE m \in pageRows : \A k \in pageRows : k = m \/ Ranked(k, m)
    IN  [cursor |-> cursor, rows |-> pageRows, steady |-> RankedMerchant,
         next |-> IF hasMore THEN [id |-> last, volume |-> volume[last]] ELSE Start]

----------------------------------------------------------------------------
\* getTopMerchants through cache.getOrSet

ExactCursor(cursor) == cursor = Start \/ ParseFloat(cursor.volume) = cursor.volume

\* The rows of a page are counted (2 stands for more), and its cursor is followed.
Turn(c, page) ==
    LET w == walk[c]
    IN  [at |-> IF page.next = Start THEN "over" ELSE "get", cursor |-> page.next,
         listed |-> [m \in RankedMerchant |-> IF m \notin page.rows THEN w.listed[m]
                                              ELSE IF w.listed[m] = 0 THEN 1 ELSE 2],
         steady |-> w.steady \cap page.steady, exact |-> w.exact /\ ExactCursor(page.next),
         page |-> w.page]

StartWalk(c) ==
    /\ walk[c].at \in {"idle", "over"} /\ walks < MaxWalks
    /\ walk' = [walk EXCEPT ![c] = [NoWalk EXCEPT !.at = "get"]]
    /\ walks' = walks + 1
    /\ UNCHANGED <<volume, pages, volumeChanges>>

PageLookup(c) ==
    /\ walk[c].at = "get"
    /\ LET hit == {p \in pages : p.cursor = walk[c].cursor}
       IN  walk' = [walk EXCEPT ![c] = IF hit = {} THEN [@ EXCEPT !.at = "fetch"]
                                       ELSE Turn(c, CHOOSE p \in hit : TRUE)]
    /\ UNCHANGED <<volume, pages, walks, volumeChanges>>

PageFetch(c) ==
    /\ walk[c].at = "fetch"
    /\ walk' = [walk EXCEPT ![c] = [@ EXCEPT !.at = "set", !.page = FetchTopMerchants(walk[c].cursor)]]
    /\ UNCHANGED <<volume, pages, walks, volumeChanges>>

PageStore(c) ==
    /\ walk[c].at = "set"
    /\ LET page == walk[c].page
       IN  /\ pages' = {p \in pages : p.cursor # page.cursor} \cup {page}
           /\ walk' = [walk EXCEPT ![c] = Turn(c, page)]
    /\ UNCHANGED <<volume, walks, volumeChanges>>

PageExpires(p) ==
    /\ pages' = pages \ {p}
    /\ UNCHANGED <<volume, walk, walks, volumeChanges>>

\* A page or a walk without m among its steady merchants.
Unsteady(row, m) == [row EXCEPT !.steady = @ \ {m}]

\* A payment is created or settled, or falls out of the period.  The merchant is
\* not steady any more for the pages fetched and the walks begun before.
VolumeChanges(m, v) ==
    /\ volumeChanges < MaxVolumeChanges /\ v # volume[m]
    /\ volumeChanges' = volumeChanges + 1
    /\ volume' = [volume EXCEPT ![m] = v]
    /\ pages' = {Unsteady(p, m) : p \in pages}
    /\ walk' = [c \in RankClient |->
                  [Unsteady(walk[c], m) EXCEPT !.page = Unsteady(walk[c].page, m)]]
    /\ UNCHANGED walks

RankNext ==
    \/ \E c \in RankClient : StartWalk(c) \/ PageLookup(c) \/ PageFetch(c) \/ PageStore(c)
    \/ \E p \in pages : PageExpires(p)
    \/ \E m \in RankedMerchant, v \in VolumeUsd \cup {NoPayment} : VolumeChanges(m, v)

RankSpec == RankInit /\ [][RankNext]_rankVars

----------------------------------------------------------------------------

\* A walk to the last page lists a merchant that has payments in the period once,
\* and one that has none not at all, if neither that nor its volume changed since
\* the oldest of the walk's pages was fetched: whatever the others do, whoever
\* enters or leaves, and whichever pages came from the cache.  The exception is a
\* walk with a cursor whose volume parseFloat rounds: rows are repeated or lost.
UnchangedIsListedOnce ==
    \A c \in RankClient :
        walk[c].at = "over" /\ walk[c].exact =>
            \A m \in walk[c].steady : walk[c].listed[m] = IF InPeriod(m) THEN 1 ELSE 0
=============================================================================
