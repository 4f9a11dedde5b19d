------------------------------- MODULE Groups -------------------------------
(***************************************************************************)
(* One group (src/src/groups): its creation, joins by invite code, and the *)
(* owner's edits, which read the group with its members, change the entity *)
(* and save it.  The save writes every column that differs from the row;   *)
(* it cascades to the members, so that a member added since the read would *)
(* lose its groupId, which is not nullable: the save is rejected.          *)
(***************************************************************************)
EXTENDS Integers, FiniteSets

CONSTANTS
    Creator, Guest,      \* the user who creates the group, and the others
    Edit,                \* edits, each made once
    InviteCode,          \* codes that generateCode may return
    MaxMembersRange,     \* limits that the DTOs accept
    MaxGroupFaults       \* bound: rejected calls

ASSUME GroupAssumption ==
    /\ Creator \notin Guest /\ IsFiniteSet(Guest)
    /\ MaxMembersRange \subseteq Nat \ {0} /\ MaxGroupFaults \in Nat

VARIABLES
    group,        \* the row; maxMembers = 0: it does not exist
    members,      \* user ids in group_members
    owned,        \* the creator was added as OWNER
    joining,      \* per guest: the step, the limit, the gate and the count it read
    editing,      \* per edit: the entity and the members that were read, the change
    groupFaults,
    largest,      \* history: the largest limit the group has had
    overlapped    \* history: inserts after a count that was outdated

groupVars == <<group, members, owned, joining, editing, groupFaults, largest, overlapped>>

NoGroup == [maxMembers |-> 0, inviteCode |-> "none", gated |-> FALSE, isPublic |-> TRUE,
            deleted |-> FALSE]
NoJoin == [at |-> "idle", maxMembers |-> 0, gated |-> FALSE, count |-> 0]
NoEdit == [change |-> [kind |-> "none"], row |-> NoGroup, members |-> {}]
EditDone == [NoEdit EXCEPT !.change = [kind |-> "done"]]

GroupInit ==
    /\ group = NoGroup /\ members = {} /\ owned = FALSE
    /\ joining = [u \in Guest |-> NoJoin]
    /\ editing = [e \in Edit |-> NoEdit]
    /\ groupFaults = 0 /\ largest = 0 /\ overlapped = 0

GroupFault ==
    /\ groupFaults < MaxGroupFaults
    /\ groupFaults' = groupFaults + 1

LargestOf(m) == IF m > largest THEN m ELSE largest

\* createGroup: the on-chain record is best effort, the group is saved first ...
CreateGroup(m, code) ==
    /\ group = NoGroup
    /\ group' = [NoGroup EXCEPT !.maxMembers = m, !.inviteCode = code]
    /\ largest' = m
    /\ UNCHANGED <<members, owned, joining, editing, groupFaults, overlapped>>

\* ... and its owner added afterwards: if that is rejected, nobody can edit it.
AddOwner ==
    /\ group # NoGroup /\ ~owned /\ Creator \notin members
    /\ \/ members' = members \cup {Creator} /\ UNCHANGED groupFaults
       \/ GroupFault /\ UNCHANGED members
    /\ owned' = TRUE
    /\ overlapped' = IF members = {} \/ members' = members THEN overlapped ELSE overlapped + 1
    /\ UNCHANGED <<group, joining, editing, largest>>

-----------------------------------------------------------------------------
Visible(row) == row # NoGroup /\ ~row.deleted

\* joinByInviteCode: the group with that code.
FindByInviteCode(u, code) ==
    /\ joining[u].at = "idle"
    /\ Visible(group) /\ group.inviteCode = code
    /\ joining' = [joining EXCEPT ![u] =
           [at |-> "member", maxMembers |-> group.maxMembers, gated |-> group.gated, count |-> 0]]
    /\ UNCHANGED <<group, members, owned, editing, groupFaults, largest, overlapped>>

JoinGoes(u, to) ==
    /\ joining' = [joining EXCEPT ![u] = IF to = "idle" THEN NoJoin ELSE [@ EXCEPT !.at = to]]
    /\ UNCHANGED <<group, members, owned, editing, groupFaults, largest, overlapped>>

\* assertCanJoin: already a member?
IsMember(u) ==
    /\ joining[u].at = "member"
    /\ JoinGoes(u, IF u \in members THEN "idle" ELSE "count")

AfterCount(u) == IF joining[u].gated THEN "gate" ELSE "add"

\* Mutation: a full group takes one more.
CountMembers_OneMore(u) ==
    LET full == Cardinality(members) > joining[u].maxMembers IN
    /\ joining[u].at = "count"
    /\ joining' = [joining EXCEPT ![u] = IF full THEN NoJoin
                      ELSE [@ EXCEPT !.at = AfterCount(u), !.count = Cardinality(members)]]
    /\ UNCHANGED <<group, members, owned, editing, groupFaults, largest, overlapped>>

\* The members are counted against the limit that was read with the code.
CountMembers(u) ==
    LET full == Cardinality(members) >= joining[u].maxMembers IN
    /\ joining[u].at = "count"
    /\ joining' = [joining EXCEPT ![u] = IF full THEN NoJoin
                      ELSE [@ EXCEPT !.at = AfterCount(u), !.count = Cardinality(members)]]
    /\ UNCHANGED <<group, members, owned, editing, groupFaults, largest, overlapped>>

\* getWallet and verifyTokenGate: any balance; a rejected call forbids the join.
VerifyTokenGate(u) ==
    /\ joining[u].at = "gate"
    /\ JoinGoes(u, "add") \/ JoinGoes(u, "idle")

\* addMember: the unique index is all that is checked here.
AddMember(u) ==
    /\ joining[u].at = "add"
    /\ members' = members \cup {u}
    /\ overlapped' = IF u \notin members /\ joining[u].count # Cardinality(members)
                     THEN overlapped + 1 ELSE overlapped
    /\ joining' = [joining EXCEPT ![u] = NoJoin]
    /\ UNCHANGED <<group, owned, editing, groupFaults, largest>>

-----------------------------------------------------------------------------
\* updateGroup, generateInviteCode, setTokenGate, removeTokenGate, as the change
\* each makes to the entity.  The address and the balance of a removed gate are
\* set to undefined, which the save ignores: only isTokenGated counts.
Change ==
    [kind : {"limit"}, maxMembers : MaxMembersRange] \cup [kind : {"visibility"}, isPublic : BOOLEAN]
    \cup [kind : {"code"}, inviteCode : InviteCode] \cup [kind : {"gate"}, gated : BOOLEAN]
    \cup [kind : {"delete"}]

Apply(row, c) ==
    CASE c.kind = "limit" -> [row EXCEPT !.maxMembers = c.maxMembers]
      [] c.kind = "visibility" -> [row EXCEPT !.isPublic = c.isPublic]
      [] c.kind = "code" -> [row EXCEPT !.inviteCode = c.inviteCode]
      [] c.kind = "gate" -> [row EXCEPT !.gated = c.gated]

\* assertOwnerOrAdmin: the group and its members are read, and the role checked.
AssertOwnerOrAdmin(e, c) ==
    /\ editing[e] = NoEdit
    /\ Visible(group) /\ Creator \in members
    /\ editing' = [editing EXCEPT ![e] = [change |-> c, row |-> group, members |-> members]]
    /\ UNCHANGED <<group, members, owned, joining, groupFaults, largest, overlapped>>

\* save: a join or a deletion since the read decides what it does.
SaveEdit(e) ==
    LET c == editing[e].change
        row == Apply(editing[e].row, c) IN
    /\ c.kind \notin {"none", "done", "delete"}
    /\ IF editing[e].members = members
       THEN /\ group' = row
            /\ largest' = LargestOf(row.maxMembers)
       ELSE UNCHANGED <<group, largest>>
    /\ editing' = [editing EXCEPT ![e] = EditDone]
    /\ UNCHANGED <<members, owned, joining, groupFaults, overlapped>>

SoftDeleteGroup(e) ==
    /\ editing[e].change.kind = "delete"
    /\ group' = [group EXCEPT !.deleted = TRUE]
    /\ editing' = [editing EXCEPT ![e] = EditDone]
    /\ UNCHANGED <<members, owned, joining, groupFaults, largest, overlapped>>

-----------------------------------------------------------------------------
GroupNext ==
    \/ \E m \in MaxMembersRange, code \in InviteCode : CreateGroup(m, code)
    \/ AddOwner
    \/ \E u \in Guest :
          \/ \E code \in InviteCode : FindByInviteCode(u, code)
          \/ IsMember(u) \/ CountMembers(u) \/ VerifyTokenGate(u) \/ AddMember(u)
    \/ \E e \in Edit :
          \/ \E c \in Change : AssertOwnerOrAdmin(e, c)
          \/ SaveEdit(e) \/ SoftDeleteGroup(e)

GroupSpec == GroupInit /\ [][GroupNext]_groupVars

-----------------------------------------------------------------------------
\* Every member beyond the largest limit the group has had is due to an insert
\* whose count was outdated by another insert (assertCanJoin and addMember): edits
\* of the limit, the gate and the code in between never let a group overflow.
CapacityHoldsUpToOverlap == group # NoGroup => Cardinality(members) <= largest + overlapped
=============================================================================
