---------------------------- MODULE RequestLimits ----------------------------
(***************************************************************************)
(* A merchant's POST requests: IdempotencyInterceptor around a handler     *)
(* that asks TransactionLimitsService, whose counter is the sliding window *)
(* of CacheService: a Redis sorted set, and one window per process when    *)
(* Redis rejects.  Every call of Redis is a step of its own.               *)
(***************************************************************************)
EXTENDS Integers, FiniteSets

CONSTANTS
    Request,             \* every request is sent once; retries are requests
    IdOf, BodyOf,        \* X-Request-ID and request hash of each request
    ServedBy,            \* the process that serves it
    Limit, Window,       \* requests per window, in ticks
    AnswerTtl,           \* IDEMPOTENCY_TTL
    BreachThreshold,     \* BREACH_ALERT_THRESHOLD
    MaxRequestClock,     \* bound: ticks
    MaxRedisFaults       \* bound: rejected calls

NoAnswer == "none"
RequestId == {IdOf[r] : r \in Request}
Server == {ServedBy[r] : r \in Request}

ASSUME RequestAssumption ==
    /\ IsFiniteSet(Request) /\ NoAnswer \notin Request
    /\ DOMAIN IdOf = Request /\ DOMAIN BodyOf = Request /\ DOMAIN ServedBy = Request
    /\ Limit \in Nat \ {0} /\ Window \in Nat \ {0} /\ AnswerTtl \in Nat \ {0}
    /\ "redis" \notin Server
    /\ BreachThreshold \in Nat /\ MaxRequestClock \in Nat /\ MaxRedisFaults \in Nat

VARIABLES
    stage,       \* where each request waits
    started,     \* when its sliding-window check began
    zset, zttl,  \* the sorted set, as pairs of request and score, and its expiry
    memoryWindows,
    answers,     \* per id: whose answer is cached, and when
    breaches, breachRead, breachAlert,
    tick, redisFaults,
    granted,     \* history: admissions, as request, score and where it was counted
    contended,   \* history: requests whose check was not over in the second in which
                 \* it began, or counted while another was between count and expire
    handled,     \* history: requests whose payment was created
    excused,     \* history: ids whose answer could not be found by a retry
    replayOf     \* history: the request whose answer each request was given

limitVars == <<stage, started, zset, zttl, memoryWindows, answers, breaches, breachRead,
               breachAlert, tick, redisFaults, granted, contended, handled, excused, replayOf>>
windowVars == <<zset, zttl, memoryWindows, granted, contended>>
breachVars == <<breaches, breachRead, breachAlert>>
answerVars == <<answers, handled, excused, replayOf>>

Never == MaxRequestClock + Window + 1

LimitInit ==
    /\ stage = [r \in Request |-> "new"]
    /\ started = [r \in Request |-> 0]
    /\ zset = {} /\ zttl = Never
    /\ memoryWindows = [p \in Server |-> {}]
    /\ answers = [i \in RequestId |-> <<NoAnswer, 0>>]
    /\ breaches = 0 /\ breachRead = [r \in Request |-> 0] /\ breachAlert = FALSE
    /\ tick = 0 /\ redisFaults = 0
    /\ granted = {} /\ contended = {} /\ handled = {} /\ excused = {}
    /\ replayOf = [r \in Request |-> NoAnswer]

RedisFault ==
    /\ redisFaults < MaxRedisFaults
    /\ redisFaults' = redisFaults + 1

Goto(r, from, to) == stage[r] = from /\ stage' = [stage EXCEPT ![r] = to]

-----------------------------------------------------------------------------
\* intercept: a cached answer is replayed to an identical request.
Replay(r) ==
    LET by == answers[IdOf[r]][1] IN
    /\ by # NoAnswer
    /\ IF BodyOf[by] = BodyOf[r]
       THEN Goto(r, "new", "replayed") /\ replayOf' = [replayOf EXCEPT ![r] = by]
       ELSE Goto(r, "new", "conflict") /\ UNCHANGED replayOf
    /\ UNCHANGED <<started, windowVars, breachVars, tick, redisFaults, answers, handled, excused>>

InFlight == {"handling", "trimmed", "counted", "added", "admitted", "created"}

Overlaps(r) == \E s \in Request : IdOf[s] = IdOf[r] /\ stage[s] \in InFlight

\* Mutation: only the answer to an identical request is found under the id.
Handle_ByHash(r) ==
    LET by == answers[IdOf[r]][1] IN
    /\ IF by = NoAnswer THEN TRUE ELSE BodyOf[by] # BodyOf[r]
    /\ Goto(r, "new", "handling")
    /\ excused' = IF Overlaps(r) THEN excused \cup {IdOf[r]} ELSE excused
    /\ UNCHANGED <<started, windowVars, breachVars, tick, redisFaults, answers, handled, replayOf>>

\* No answer yet: the handler runs, whoever else is running it.
Handle(r) ==
    /\ answers[IdOf[r]][1] = NoAnswer
    /\ Goto(r, "new", "handling")
    /\ excused' = IF Overlaps(r) THEN excused \cup {IdOf[r]} ELSE excused
    /\ UNCHANGED <<started, windowVars, breachVars, tick, redisFaults, answers, handled, replayOf>>

\* PaymentsService.create, which is not in the repository, resolves.
CreatePayment(r) ==
    /\ Goto(r, "admitted", "created")
    /\ handled' = handled \cup {r}
    /\ UNCHANGED <<started, windowVars, breachVars, tick, redisFaults, answers, excused, replayOf>>

StoreAnswer(r) ==
    /\ Goto(r, "created", "answered")
    /\ answers' = [answers EXCEPT ![IdOf[r]] = <<r, tick>>]
    /\ UNCHANGED <<started, windowVars, breachVars, tick, redisFaults, handled, excused, replayOf>>

\* The look-up, the handler or the store rejects: the client sees an error and
\* nothing is stored, also when the payment exists.
RequestFails(r) ==
    /\ RedisFault
    /\ stage[r] \in {"new", "admitted", "created"}
    /\ stage' = [stage EXCEPT ![r] = "failed"]
    /\ excused' = IF stage[r] = "created" THEN excused \cup {IdOf[r]} ELSE excused
    /\ UNCHANGED <<started, windowVars, breachVars, tick, answers, handled, replayOf>>

-----------------------------------------------------------------------------
InWindow(s, now) == {g \in s : g[2] > now - Window}

\* zremrangebyscore, with the time at which the check began.
Trim(r) ==
    /\ Goto(r, "handling", "trimmed")
    /\ started' = [started EXCEPT ![r] = tick]
    /\ zset' = InWindow(zset, tick)
    /\ UNCHANGED <<zttl, memoryWindows, granted, contended, breachVars, answerVars, tick, redisFaults>>

Contended(r) ==
    started[r] # tick \/ \E s \in Request : stage[s] \in {"counted", "added"}

\* Mutation: the limit itself is still admitted.
Count_AtLimit(r) ==
    /\ Goto(r, "trimmed", IF Cardinality(zset) > Limit THEN "refused" ELSE "counted")
    /\ contended' = IF Contended(r) THEN contended \cup {r} ELSE contended
    /\ UNCHANGED <<started, zset, zttl, memoryWindows, granted, breachVars, answerVars,
                   tick, redisFaults>>

\* zcard: the decision is made here, the entry is added later.
Count(r) ==
    /\ Goto(r, "trimmed", IF Cardinality(zset) >= Limit THEN "refused" ELSE "counted")
    /\ contended' = IF Contended(r) THEN contended \cup {r} ELSE contended
    /\ UNCHANGED <<started, zset, zttl, memoryWindows, granted, breachVars, answerVars,
                   tick, redisFaults>>

AddEntry(r) ==
    /\ Goto(r, "counted", "added")
    /\ zset' = zset \cup {<<r, started[r]>>}
    /\ zttl' = IF zset = {} THEN Never ELSE zttl
    /\ UNCHANGED <<started, memoryWindows, granted, contended, breachVars, answerVars,
                   tick, redisFaults>>

SetExpiry(r) ==
    /\ Goto(r, "added", "admitted")
    /\ zttl' = IF zset = {} THEN zttl ELSE tick + Window
    /\ granted' = granted \cup {<<r, started[r], "redis">>}
    /\ started' = [started EXCEPT ![r] = 0]
    /\ UNCHANGED <<zset, memoryWindows, contended, breachVars, answerVars,
                   tick, redisFaults>>

\* Any of the four calls rejects: the process's own window decides, at once.
FallBackToMemory(r) ==
    LET p == ServedBy[r]
        within == InWindow(memoryWindows[p], tick)
        allowed == Cardinality(within) < Limit IN
    /\ RedisFault
    /\ stage[r] \in {"handling", "trimmed", "counted", "added"}
    /\ stage' = [stage EXCEPT ![r] = IF allowed THEN "admitted" ELSE "refused"]
    /\ memoryWindows' = [memoryWindows EXCEPT ![p] =
                            IF allowed THEN within \cup {<<r, tick>>} ELSE within]
    /\ granted' = IF allowed THEN granted \cup {<<r, tick, p>>} ELSE granted
    /\ UNCHANGED <<started, zset, zttl, contended, breachVars, answerVars, tick>>

\* checkAndIncrement after a refusal: the day's breaches are read ...
ReadBreaches(r) ==
    /\ Goto(r, "refused", "breach")
    /\ breachRead' = [breachRead EXCEPT ![r] = breaches]
    /\ UNCHANGED <<started, windowVars, breaches, breachAlert, answerVars, tick, redisFaults>>

\* ... and stored with one more, an alert is raised, and the request is rejected.
StoreBreaches(r) ==
    /\ Goto(r, "breach", "rejected")
    /\ breaches' = breachRead[r] + 1
    /\ breachAlert' = (breachAlert \/ breachRead[r] + 1 >= BreachThreshold)
    /\ breachRead' = [breachRead EXCEPT ![r] = 0]
    /\ UNCHANGED <<started, windowVars, answerVars, tick, redisFaults>>

\* Time passes: the sorted set and the cached answers expire.
RequestTick ==
    LET stale == {i \in RequestId : /\ answers[i][1] # NoAnswer
                                    /\ tick + 1 >= answers[i][2] + AnswerTtl} IN
    /\ tick < MaxRequestClock
    /\ tick' = tick + 1
    /\ zset' = IF tick + 1 >= zttl THEN {} ELSE zset
    /\ zttl' = IF tick + 1 >= zttl THEN Never ELSE zttl
    /\ answers' = [i \in RequestId |-> IF i \in stale THEN <<NoAnswer, 0>> ELSE answers[i]]
    /\ excused' = excused \cup stale
    /\ contended' = contended \cup {r \in Request : stage[r] \in {"counted", "added"}}
    /\ UNCHANGED <<stage, started, memoryWindows, granted, breachVars,
                   handled, replayOf, redisFaults>>

LimitNext ==
    \/ RequestTick
    \/ \E r \in Request :
          \/ Replay(r) \/ Handle(r) \/ CreatePayment(r) \/ StoreAnswer(r) \/ RequestFails(r)
          \/ Trim(r) \/ Count(r) \/ AddEntry(r) \/ SetExpiry(r) \/ FallBackToMemory(r)
          \/ ReadBreaches(r) \/ StoreBreaches(r)

LimitSpec == LimitInit /\ [][LimitNext]_limitVars

-----------------------------------------------------------------------------
\* In any window, each counter admits at most Limit requests, the sorted set and
\* the memory of each process alike, leaving out those whose check took longer than
\* the second in which it began and those counted while another was between its
\* zcard and its expire.  Together they admit more than Limit, then, for three
\* reasons only: an overlapping check; a slow one (if the set expires between its
\* zadd and its expire, the entry is gone and the request is admitted all the
\* same); and rejected calls of Redis, for which every process that falls back
\* has a Limit of its own (checkSlidingWindowRateLimit).
EachCounterHoldsLimit ==
    \A now \in 0 .. MaxRequestClock, where \in {"redis"} \cup Server :
        Cardinality({g \in granted : /\ g[3] = where /\ g[1] \notin contended
                                     /\ g[2] <= now /\ g[2] > now - Window}) <= Limit

\* What TransactionLimitsService says of itself: the limit holds across instances.
\* It does not even while Redis answers every call, because zcard decides before
\* zadd writes.
LimitsHoldAcrossInstances ==
    \A now \in 0 .. MaxRequestClock :
        Cardinality({g \in granted : g[2] <= now /\ g[2] > now - Window}) <= Limit

\* Two requests with one X-Request-ID both create a payment only if they
\* overlapped, the answer could not be stored, or it had expired; and an answer
\* is replayed to an identical request only (intercept).
HandledOnceUnlessOverlapping ==
    /\ \A r, s \in handled : r # s /\ IdOf[r] = IdOf[s] => IdOf[r] \in excused
    /\ \A r \in Request : replayOf[r] # NoAnswer => BodyOf[replayOf[r]] = BodyOf[r]

\* What the glossary says of an idempotency key: retrying a create request with it
\* never creates a duplicate payment.  intercept looks the answer up before the
\* handler runs and stores it after, so that a retry in between creates another.
RetryNeverDuplicates ==
    \A r, s \in handled : r # s => IdOf[r] # IdOf[s]
=============================================================================
