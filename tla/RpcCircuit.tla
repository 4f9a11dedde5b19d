----------------------------- MODULE RpcCircuit -----------------------------
(***************************************************************************)
(* One CircuitBreaker and the calls that go through it: Horizon calls by   *)
(* CircuitBreaker.execute, Soroban RPC calls by SorobanRpcResilience.call, *)
(* which retries, falls back to a second endpoint and records the outcome. *)
(* Calls overlap: one admitted before the circuit opened may end later.    *)
(***************************************************************************)
EXTENDS Integers

CONSTANTS
    RpcCall,           \* calls in flight at the same time
    FailureThreshold, ResetTimeout, MaxAttempts,
    MaxClock           \* bound: ticks of the clock

ASSUME CircuitAssumption ==
    /\ FailureThreshold \in Nat \ {0}
    /\ ResetTimeout \in Nat /\ MaxAttempts \in Nat \ {0}
    /\ MaxClock \in Nat

VARIABLES
    mode,        \* "execute", "primary only" or "with fallback"
    breaker,     \* current, consecutiveFailures and openedAt
    rpc,         \* the endpoint and the attempt of each call in flight
    alerted,     \* onStateChange or onCircuitOpen has raised its (deduplicated) alert
    clock,
    quietUntil   \* history: no call is due before this time

circuitVars == <<mode, breaker, rpc, alerted, clock, quietUntil>>

NoCall == [endpoint |-> "none", attempt |-> 0]

CircuitInit ==
    /\ mode \in {"execute", "primary only", "with fallback"}
    /\ breaker = [current |-> "closed", failures |-> 0, openedAt |-> 0]
    /\ rpc = [c \in RpcCall |-> NoCall]
    /\ alerted = FALSE /\ clock = 0 /\ quietUntil = 0

\* The state getter: reading an open circuit after the timeout half-opens it.
ReadState(b) ==
    IF b.current = "open" /\ clock - b.openedAt >= ResetTimeout
    THEN [b EXCEPT !.current = "half-open"] ELSE b

RecordSuccess ==
    /\ breaker' = [breaker EXCEPT !.failures = 0, !.current = "closed"]
    /\ quietUntil' = 0
    /\ UNCHANGED alerted

Trips(b) == b.current = "half-open" \/ b.failures + 1 >= FailureThreshold

\* Both circuits raise an admin alert when they open; its key deduplicates it.
RaiseAlert ==
    alerted' = (alerted \/ (Trips(breaker) /\ breaker.current # "open"))

\* Mutation: a failure of a circuit that is open already is not timed.
RecordFailure_KeepsOpenedAt ==
    /\ breaker' = [current |-> IF Trips(breaker) THEN "open" ELSE breaker.current,
                   failures |-> breaker.failures + 1,
                   openedAt |-> IF Trips(breaker) /\ breaker.current # "open"
                                THEN clock ELSE breaker.openedAt]
    /\ quietUntil' = IF Trips(breaker) THEN clock + ResetTimeout ELSE quietUntil
    /\ RaiseAlert

\* A trial that fails re-opens the circuit; a late failure restarts its window.
RecordFailure ==
    /\ breaker' = [current |-> IF Trips(breaker) THEN "open" ELSE breaker.current,
                   failures |-> breaker.failures + 1,
                   openedAt |-> IF Trips(breaker) THEN clock ELSE breaker.openedAt]
    /\ quietUntil' = IF Trips(breaker) THEN clock + ResetTimeout ELSE quietUntil
    /\ RaiseAlert

NotRecorded == UNCHANGED <<breaker, quietUntil, alerted>>

InFlight(c) == rpc[c] # NoCall

Return(c) == rpc' = [rpc EXCEPT ![c] = NoCall]

\* execute and call both begin with isOpen(); a half-open circuit admits any
\* number of calls.
Admit(c) ==
    /\ ~InFlight(c)
    /\ ReadState(breaker).current # "open"
    /\ breaker' = ReadState(breaker)
    /\ rpc' = [rpc EXCEPT ![c] = [endpoint |-> "primary", attempt |-> 1]]
    /\ UNCHANGED <<mode, alerted, clock, quietUntil>>

\* isCircuitOpen and isHorizonCircuitOpen, and a call that is refused.
AskState ==
    /\ breaker' = ReadState(breaker)
    /\ UNCHANGED <<mode, rpc, alerted, clock, quietUntil>>

CallResolves(c) ==
    /\ InFlight(c)
    /\ RecordSuccess /\ Return(c)
    /\ UNCHANGED <<mode, clock>>

\* An error that is not worth retrying is rethrown and is no failure.
CallRejected(c) ==
    /\ InFlight(c)
    /\ Return(c) /\ NotRecorded
    /\ UNCHANGED <<mode, clock>>

\* withBackoff: another attempt on the same endpoint.
Retry(c) ==
    /\ InFlight(c) /\ mode # "execute"
    /\ rpc[c].attempt < MaxAttempts
    /\ rpc' = [rpc EXCEPT ![c].attempt = @ + 1]
    /\ NotRecorded
    /\ UNCHANGED <<mode, clock>>

LastAttempt(c) == mode = "execute" \/ rpc[c].attempt = MaxAttempts

FallBack(c) ==
    /\ mode = "with fallback"
    /\ rpc[c].endpoint = "primary" /\ LastAttempt(c)
    /\ rpc' = [rpc EXCEPT ![c] = [endpoint |-> "fallback", attempt |-> 1]]
    /\ NotRecorded
    /\ UNCHANGED <<mode, clock>>

\* The last attempt on the last endpoint fails with a transient error.
CallFails(c) ==
    /\ InFlight(c) /\ LastAttempt(c)
    /\ mode = "with fallback" => rpc[c].endpoint = "fallback"
    /\ RecordFailure /\ Return(c)
    /\ UNCHANGED <<mode, clock>>

Tick ==
    /\ clock < MaxClock
    /\ clock' = clock + 1
    /\ UNCHANGED <<mode, breaker, rpc, alerted, quietUntil>>

CircuitNext ==
    \/ Tick \/ AskState
    \/ \E c \in RpcCall :
          \/ Admit(c) \/ CallResolves(c) \/ CallRejected(c)
          \/ Retry(c) \/ FallBack(c) \/ CallFails(c)

CircuitSpec == CircuitInit /\ [][CircuitNext]_circuitVars

-----------------------------------------------------------------------------
\* After a failure that opens the circuit, or that ends while it is open, no
\* call is started for the reset timeout unless a call that was already in
\* flight succeeds meanwhile (circuit-breaker.ts, recordFailure and state).
OpenCircuitIsQuiet ==
    [][\A c \in RpcCall : rpc[c] = NoCall /\ rpc'[c] # NoCall
                             => clock >= quietUntil]_circuitVars
=============================================================================
