------------------------------- MODULE Fees -------------------------------
(***************************************************************************)
(* AdminService's global fees: read through the cache, changed by          *)
(* read-modify-save followed by the deletion of the cached copy, with a    *)
(* history entry per change.  Readers and updaters run on two replicas.    *)
(***************************************************************************)
EXTENDS Integers, Sequences

CONSTANTS
    FeeReader,       \* calls of getGlobalFees
    FeeUpdater,      \* calls of updateGlobalFee; each sets a rate of its own
    MaxFeeFaults     \* bound: rejected calls

ASSUME FeeAssumption == MaxFeeFaults \in Nat

VARIABLES
    baseFeeRate,     \* the row of fee_configs
    feeCache,        \* the cached copy
    feeReader,       \* the readers: where, and what they fetched
    feeUpdater,      \* the updaters: where, and the value they read
    feeHistory,      \* the rows of fee_history
    feeOverlap,      \* history: a fetch was overtaken by a save
    feeDelMissed,  \* history: a save took effect and the deletion of the copy did not follow
    feeFaults

feeVars == <<baseFeeRate, feeCache, feeReader, feeUpdater, feeHistory, feeOverlap,
             feeDelMissed, feeFaults>>

FeeInit ==
    /\ baseFeeRate = "initial" /\ feeCache = "none"
    /\ feeReader = [r \in FeeReader |-> [at |-> "idle", value |-> "none"]]
    /\ feeUpdater = [u \in FeeUpdater |-> [at |-> "idle", previous |-> "none"]]
    /\ feeHistory = <<>>
    /\ feeOverlap = FALSE /\ feeDelMissed = FALSE /\ feeFaults = 0

FeeFault == feeFaults < MaxFeeFaults /\ feeFaults' = feeFaults + 1

----------------------------------------------------------------------------
\* getGlobalFees

LookupFees(r) ==
    /\ feeReader[r].at = "idle"
    /\ feeReader' = [feeReader EXCEPT ![r] =
          IF feeCache # "none" THEN [at |-> "done", value |-> feeCache]
          ELSE [at |-> "fetch", value |-> "none"]]
    /\ UNCHANGED <<baseFeeRate, feeCache, feeUpdater, feeHistory, feeOverlap, feeDelMissed, feeFaults>>

FetchFees(r) ==
    /\ feeReader[r].at = "fetch"
    /\ feeReader' = [feeReader EXCEPT ![r] = [at |-> "set", value |-> baseFeeRate]]
    /\ UNCHANGED <<baseFeeRate, feeCache, feeUpdater, feeHistory, feeOverlap, feeDelMissed, feeFaults>>

StoreFees(r) ==
    /\ feeReader[r].at = "set"
    /\ feeCache' = feeReader[r].value
    /\ feeReader' = [feeReader EXCEPT ![r].at = "done"]
    /\ UNCHANGED <<baseFeeRate, feeUpdater, feeHistory, feeOverlap, feeDelMissed, feeFaults>>

\* The time to live runs out, or an administrator flushes the cache.
DropFees ==
    /\ feeCache # "none"
    /\ feeCache' = "none"
    /\ UNCHANGED <<baseFeeRate, feeReader, feeUpdater, feeHistory, feeOverlap, feeDelMissed, feeFaults>>

----------------------------------------------------------------------------
\* updateGlobalFee

FindFee(u) ==
    /\ feeUpdater[u].at = "idle"
    /\ feeUpdater' = [feeUpdater EXCEPT ![u] = [at |-> "save", previous |-> baseFeeRate]]
    /\ UNCHANGED <<baseFeeRate, feeCache, feeReader, feeHistory, feeOverlap, feeDelMissed, feeFaults>>

\* Mutation: the copy is deleted before the row is saved, not after it.
SaveFee_AfterDelete(u) ==
    /\ feeUpdater[u].at = "save"
    /\ baseFeeRate' = u
    /\ feeUpdater' = [feeUpdater EXCEPT ![u].at = "history"]
    /\ feeOverlap' = (feeOverlap \/ \E r \in FeeReader : feeReader[r].at = "set")
    /\ UNCHANGED <<feeCache, feeReader, feeHistory, feeDelMissed, feeFaults>>

SaveFee(u) ==
    /\ feeUpdater[u].at = "save"
    /\ baseFeeRate' = u
    /\ feeUpdater' = [feeUpdater EXCEPT ![u].at = "del"]
    /\ feeOverlap' = (feeOverlap \/ \E r \in FeeReader : feeReader[r].at = "set")
    /\ UNCHANGED <<feeCache, feeReader, feeHistory, feeDelMissed, feeFaults>>

DeleteFees(u) ==
    /\ feeUpdater[u].at = "del"
    /\ feeCache' = "none"
    /\ feeUpdater' = [feeUpdater EXCEPT ![u].at = "history"]
    /\ UNCHANGED <<baseFeeRate, feeReader, feeHistory, feeOverlap, feeDelMissed, feeFaults>>

RecordFeeHistory(u) ==
    /\ feeUpdater[u].at = "history"
    /\ feeHistory' = Append(feeHistory, [previousValue |-> feeUpdater[u].previous, newValue |-> u])
    /\ feeUpdater' = [feeUpdater EXCEPT ![u].at = "done"]
    /\ UNCHANGED <<baseFeeRate, feeCache, feeReader, feeOverlap, feeDelMissed, feeFaults>>

\* A rejected call ends the update where it is: a saved rate may stay cached
\* in its old value, or without its history entry.
UpdateFeeRejects(u) ==
    /\ feeUpdater[u].at \in {"save", "del", "history"} /\ FeeFault
    /\ feeUpdater' = [feeUpdater EXCEPT ![u].at = "done"]
    /\ feeDelMissed' = (feeDelMissed \/ feeUpdater[u].at = "del")
    /\ UNCHANGED <<baseFeeRate, feeCache, feeReader, feeHistory, feeOverlap>>

\* The same for a save that was committed and whose answer was lost.
SaveAnswerLost(u) ==
    /\ feeUpdater[u].at = "save" /\ FeeFault
    /\ baseFeeRate' = u
    /\ feeUpdater' = [feeUpdater EXCEPT ![u].at = "done"]
    /\ feeOverlap' = (feeOverlap \/ \E r \in FeeReader : feeReader[r].at = "set")
    /\ feeDelMissed' = TRUE
    /\ UNCHANGED <<feeCache, feeReader, feeHistory>>

FeeNext ==
    \/ \E r \in FeeReader : LookupFees(r) \/ FetchFees(r) \/ StoreFees(r)
    \/ DropFees
    \/ \E u \in FeeUpdater :
          \/ FindFee(u) \/ SaveFee(u) \/ DeleteFees(u) \/ RecordFeeHistory(u)
          \/ UpdateFeeRejects(u) \/ SaveAnswerLost(u)

FeeSpec == FeeInit /\ [][FeeNext]_feeVars

----------------------------------------------------------------------------

\* Once an update of a fee is past its deletion of the cached copy, the copy
\* is the saved rate or there is none, unless a reader had fetched the rate
\* before the save and stored it after (getOrSet keeps it for the whole time
\* to live), or the deletion did not follow: it was rejected, or the save was
\* committed and its answer lost.
FeesAreFresh ==
    \/ feeCache \in {"none", baseFeeRate}
    \/ \E u \in FeeUpdater : feeUpdater[u].at = "del"
    \/ feeOverlap \/ feeDelMissed
=============================================================================
