----------------------------- MODULE MCOutbound -----------------------------
(***************************************************************************)
(* What the application sends out: webhooks to merchants and transactions  *)
(* and queries to the chain, with the wallets that sign.  The components   *)
(* share no state, so that a behaviour follows one of them and leaves the  *)
(* others in their initial states: nothing is lost but the product of      *)
(* their state spaces.                                                     *)
(***************************************************************************)
EXTENDS WebhookDelivery, RpcCircuit, Treasury, EscrowMirror, Wallets, TLC

CONSTANTS p1, p2, j1, j2, j3

\* Two submissions in one process and one in the other.
Homes == j1 :> p1 @@ j2 :> p1 @@ j3 :> p2

VARIABLE focus

chainVars == <<circuitVars, treasuryVars, escrowVars, walletVars>>
outboundVars == <<focus, vars, chainVars>>

OutboundInit ==
    /\ focus \in {"webhooks", "circuit", "treasury", "escrow", "wallets"}
    /\ Init /\ CircuitInit /\ TreasuryInit /\ EscrowInit /\ WalletInit
    /\ focus # "circuit" => mode = "execute"

OutboundNext ==
    /\ UNCHANGED focus
    /\ \/ focus = "webhooks" /\ Next /\ UNCHANGED chainVars
       \/ /\ focus = "circuit" /\ CircuitNext
          /\ UNCHANGED <<vars, treasuryVars, escrowVars, walletVars>>
       \/ /\ focus = "treasury" /\ TreasuryNext
          /\ UNCHANGED <<vars, circuitVars, escrowVars, walletVars>>
       \/ /\ focus = "escrow" /\ EscrowNext
          /\ UNCHANGED <<vars, circuitVars, treasuryVars, walletVars>>
       \/ /\ focus = "wallets" /\ WalletNext
          /\ UNCHANGED <<vars, circuitVars, treasuryVars, escrowVars>>

OutboundSpec == OutboundInit /\ [][OutboundNext]_outboundVars

\* The workers and the events of the webhook are interchangeable.
Symmetric == Permutations(Worker) \cup Permutations(Event)
=============================================================================
