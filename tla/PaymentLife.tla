----------------------------- MODULE PaymentLife -----------------------------
(***************************************************************************)
(* What the monitors promise of a payment, whoever confirms, expires or    *)
(* updates it: it is closed once, by a settlement that the contract call   *)
(* and the payment.confirmed event came before, or without one; a closed   *)
(* payment is never settled and never open again.                          *)
(***************************************************************************)
EXTENDS Naturals

CONSTANT Payment

VARIABLES
    open,       \* payments that may still be confirmed
    backed,     \* payments whose confirmation is on the chain and announced
    settlements

lifeVars == <<open, backed, settlements>>

Init ==
    /\ open = Payment /\ backed = {}
    /\ settlements = [p \in Payment |-> 0]

\* A confirmation that is announced may still be rolled back.
Back(p) ==
    /\ p \in open /\ backed' = backed \cup {p}
    /\ UNCHANGED <<open, settlements>>

Settle(p) ==
    /\ p \in open /\ p \in backed
    /\ open' = open \ {p}
    /\ settlements' = [settlements EXCEPT ![p] = 1]
    /\ UNCHANGED backed

\* Expiry, or an event of the escrow contract.
Close(p) ==
    /\ p \in open /\ open' = open \ {p}
    /\ UNCHANGED <<backed, settlements>>

Next == \E p \in Payment : Back(p) \/ Settle(p) \/ Close(p)

Spec == Init /\ [][Next]_lifeVars
=============================================================================
