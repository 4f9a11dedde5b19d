---------------------------- MODULE EscrowMirror ----------------------------
(***************************************************************************)
(* PaymentEscrowService (src/src/blockchain-wallet/payment-escrow.service.ts) *)
(* in one process: the payments it mirrors with their ledger-based expiry, *)
(* the pause switch, and the guarded operations that await the contract.   *)
(***************************************************************************)
EXTENDS Integers

CONSTANTS
    EscrowPayment,
    Operation,       \* deposit, release and refund calls
    FirstLedger, MaxLedger,
    Expiries         \* the expiryLedgers arguments

ASSUME EscrowAssumption ==
    /\ FirstLedger \in Nat /\ MaxLedger \in Nat /\ FirstLedger <= MaxLedger
    /\ Expiries \subseteq Nat

VARIABLES
    currentLedger,
    mirrored,     \* the payments map
    refundOrders, \* history: PaymentExpired events since the payment's creation
    rewound,      \* history: the ledger was set back since the payment's creation
    paused, locked,
    pauses,       \* ContractPaused minus ContractUnpaused events
    running       \* operations that await the contract

escrowVars ==
    <<currentLedger, mirrored, refundOrders, rewound, paused, locked, pauses, running>>

NoPayment == [status |-> "none", expiryLedger |-> 0]

EscrowInit ==
    /\ currentLedger = FirstLedger
    /\ mirrored = [p \in EscrowPayment |-> NoPayment]
    /\ refundOrders = [p \in EscrowPayment |-> 0]
    /\ rewound = [p \in EscrowPayment |-> FALSE]
    /\ paused = FALSE /\ locked = FALSE /\ pauses = 0
    /\ running = {}

SetCurrentLedger(ledger) ==
    /\ currentLedger' = ledger
    /\ rewound' = [p \in EscrowPayment |-> rewound[p] \/ ledger < currentLedger]
    /\ UNCHANGED <<mirrored, refundOrders, paused, locked, pauses, running>>

AdvanceLedger(delta) ==
    /\ currentLedger + delta <= MaxLedger
    /\ currentLedger' = currentLedger + delta
    /\ UNCHANGED <<mirrored, refundOrders, rewound, paused, locked, pauses, running>>

\* An id that is in the map already is overwritten.
CreatePayment(p, expiryLedgers) ==
    /\ mirrored' = [mirrored EXCEPT ![p] = [status |-> "pending",
                                            expiryLedger |-> currentLedger + expiryLedgers]]
    /\ refundOrders' = [refundOrders EXCEPT ![p] = 0]
    /\ rewound' = [rewound EXCEPT ![p] = FALSE]
    /\ UNCHANGED <<currentLedger, paused, locked, pauses, running>>

IsExpired(p) == mirrored[p] # NoPayment /\ currentLedger > mirrored[p].expiryLedger

\* confirm looks at the ledger only, never at the status.
Confirm(p) ==
    /\ mirrored[p] # NoPayment /\ ~IsExpired(p)
    /\ mirrored' = [mirrored EXCEPT ![p].status = "confirmed"]
    /\ UNCHANGED <<currentLedger, refundOrders, rewound, paused, locked, pauses, running>>

\* Mutation: the payment expires with its last ledger, not after it.
ExpirePayment_AtExpiry(p) ==
    /\ mirrored[p].status = "pending"
    /\ currentLedger >= mirrored[p].expiryLedger
    /\ mirrored' = [mirrored EXCEPT ![p].status = "expired"]
    /\ refundOrders' = [refundOrders EXCEPT ![p] = @ + 1]
    /\ UNCHANGED <<currentLedger, rewound, paused, locked, pauses, running>>

\* A confirmed payment, one that is not overdue and one that has expired
\* already return null.
ExpirePayment(p) ==
    /\ mirrored[p].status = "pending" /\ IsExpired(p)
    /\ mirrored' = [mirrored EXCEPT ![p].status = "expired"]
    /\ refundOrders' = [refundOrders EXCEPT ![p] = @ + 1]
    /\ UNCHANGED <<currentLedger, rewound, paused, locked, pauses, running>>

Pause ==
    /\ ~paused /\ paused' = TRUE /\ pauses' = pauses + 1
    /\ UNCHANGED <<currentLedger, mirrored, refundOrders, rewound, locked, running>>

Unpause ==
    /\ paused /\ paused' = FALSE /\ pauses' = pauses - 1
    /\ UNCHANGED <<currentLedger, mirrored, refundOrders, rewound, locked, running>>

\* requireNotPaused and acquireLock: both refuse before the contract is called.
BeginOperation(o) ==
    /\ ~paused /\ ~locked
    /\ locked' = TRUE /\ running' = running \cup {o}
    /\ UNCHANGED <<currentLedger, mirrored, refundOrders, rewound, paused, pauses>>

\* The contract call resolves or rejects: the finally block frees the lock.
\* A pause meanwhile does not stop the operation.
EndOperation(o) ==
    /\ o \in running
    /\ locked' = FALSE /\ running' = running \ {o}
    /\ UNCHANGED <<currentLedger, mirrored, refundOrders, rewound, paused, pauses>>

EscrowNext ==
    \/ \E ledger \in FirstLedger..MaxLedger : SetCurrentLedger(ledger)
    \/ \E delta \in 1..(MaxLedger - FirstLedger) : AdvanceLedger(delta)
    \/ \E p \in EscrowPayment :
          \/ \E d \in Expiries : CreatePayment(p, d)
          \/ Confirm(p) \/ ExpirePayment(p)
    \/ Pause \/ Unpause
    \/ \E o \in Operation : BeginOperation(o) \/ EndOperation(o)

EscrowSpec == EscrowInit /\ [][EscrowNext]_escrowVars

-----------------------------------------------------------------------------
\* A payment whose refund was ordered by a PaymentExpired event is confirmed
\* only if the ledger was set back, and no payment gets two orders: confirm,
\* which ignores the status, and expirePayment never share a ledger.
NoRefundOfConfirmed ==
    \A p \in EscrowPayment :
       /\ refundOrders[p] <= 1
       /\ refundOrders[p] = 1 /\ mirrored[p].status = "confirmed" => rewound[p]
=============================================================================
