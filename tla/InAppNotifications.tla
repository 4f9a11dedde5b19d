----------------------- MODULE InAppNotifications -----------------------
(***************************************************************************)
(* NotificationService: a client pages through a merchant's in-app list    *)
(* while notifications are added, read and purged.                         *)
(***************************************************************************)
EXTENDS Integers, Sequences, FiniteSets

CONSTANTS
    PageSize,
    MaxNotes,            \* bound: notifications
    MaxNoteClock         \* bound: distinct createdAt values

ASSUME NotificationAssumption ==
    /\ PageSize \in Nat \ {0} /\ MaxNotes \in Nat /\ MaxNoteClock \in Nat

VARIABLES
    notes,       \* createdAt of the notifications, oldest first
    present,     \* the positions that have not been purged
    unread,      \* those without readAt
    paging,      \* the client: cursor, what it has seen, what there was at the start
    noteClock,
    instantCut   \* history: a page ended between two notifications of one instant

noteVars == <<notes, present, unread, paging, noteClock, instantCut>>

NoPage == [at |-> "idle", cursor |-> 0, seen |-> {}, first |-> {}]

NoteInit ==
    /\ notes = <<>> /\ present = {} /\ unread = {}
    /\ paging = NoPage /\ noteClock = 0 /\ instantCut = FALSE

CreateNote ==
    /\ Len(notes) < MaxNotes
    /\ notes' = Append(notes, noteClock)
    /\ present' = present \cup {Len(notes) + 1}
    /\ unread' = unread \cup {Len(notes) + 1}
    /\ UNCHANGED <<paging, noteClock, instantCut>>

NoteTick ==
    /\ noteClock < MaxNoteClock
    /\ noteClock' = noteClock + 1
    /\ UNCHANGED <<notes, present, unread, paging, instantCut>>

\* purgeOldNotifications deletes everything up to some age; the cursor's row
\* may be among it.
PurgeOldNotifications(age) ==
    /\ \E i \in present : notes[i] < age
    /\ present' = {i \in present : notes[i] >= age}
    /\ unread' = unread \cap present'
    /\ UNCHANGED <<notes, paging, noteClock, instantCut>>

\* The rows below the cursor's createdAt; a purged cursor row has none.
Older(cursor) ==
    IF cursor = 0 THEN present
    ELSE {i \in present : cursor \in present /\ notes[i] < notes[cursor]}

\* Newest first; rows of one instant come in any order.
IsPage(page, rows) ==
    /\ page \subseteq rows
    /\ Cardinality(page) = IF Cardinality(rows) > PageSize THEN PageSize ELSE Cardinality(rows)
    /\ \A i \in page, j \in rows \ page : notes[i] >= notes[j]

Cuts(page, rows) == \E i \in page, j \in rows \ page : notes[i] = notes[j]

\* Mutation: the cursor is the extra row that shows there are more.
ListForUser_SkipsOne ==
    LET rows == Older(paging.cursor) IN
    /\ paging.at # "done"
    /\ \E page \in SUBSET rows :
          /\ IsPage(page, rows)
          /\ \E last \in rows \cup {0} :
                /\ IF page = rows THEN last = 0
                   ELSE last \in rows \ page /\ \A i \in rows \ page : notes[i] <= notes[last]
                /\ paging' = [at |-> IF page = rows THEN "done" ELSE "more", cursor |-> last,
                              seen |-> paging.seen \cup page,
                              first |-> IF paging.at = "idle" THEN present ELSE paging.first]
          /\ instantCut' = (instantCut \/ Cuts(page, rows))
    /\ UNCHANGED <<notes, present, unread, noteClock>>

\* listForUser: one page, and the last row of it as the next cursor if there are more.
ListForUser ==
    LET rows == Older(paging.cursor) IN
    /\ paging.at # "done"
    /\ \E page \in SUBSET rows :
          /\ IsPage(page, rows)
          /\ \E last \in page \cup {0} :
                /\ IF page = rows THEN last = 0
                   ELSE last \in page /\ \A i \in page : notes[last] <= notes[i]
                /\ paging' = [at |-> IF page = rows THEN "done" ELSE "more", cursor |-> last,
                              seen |-> paging.seen \cup page,
                              first |-> IF paging.at = "idle" THEN present ELSE paging.first]
          /\ instantCut' = (instantCut \/ Cuts(page, rows))
    /\ UNCHANGED <<notes, present, unread, noteClock>>

\* markRead of one, and markAllRead.
MarkRead(read) ==
    /\ read \subseteq unread /\ read # {}
    /\ unread' = unread \ read
    /\ UNCHANGED <<notes, present, paging, noteClock, instantCut>>

NoteNext ==
    \/ CreateNote \/ NoteTick \/ ListForUser
    \/ \E age \in 1 .. MaxNoteClock : PurgeOldNotifications(age)
    \/ \E i \in unread : MarkRead({i})
    \/ MarkRead(unread)

NoteSpec == NoteInit /\ [][NoteNext]_noteVars

-----------------------------------------------------------------------------
\* A client that follows the cursors to the end has seen every notification there
\* was when it began and that still exists, unless a page ended between two of one
\* instant.  A purge between two pages does no harm although the cursor's row may
\* be gone: whatever is older went with it (listForUser, purgeOldNotifications).
ListingIsComplete ==
    paging.at = "done" /\ ~instantCut => paging.first \cap present \subseteq paging.seen
=============================================================================
