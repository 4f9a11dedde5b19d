------------------------------ MODULE Reports ------------------------------
(***************************************************************************)
(* AnalyticsService and MerchantAnalyticsService: a question is resolved   *)
(* to date ranges, looked up in the cache under a key made of them, and    *)
(* answered by one or more queries that each see the database at a moment  *)
(* of their own.  Days are numbers; the calendar is the list of first days *)
(* of its months, so that months and years differ in length.  A row stands *)
(* for a payment, a settlement or a registration of an owner on a day.     *)
(***************************************************************************)
EXTENDS Integers, Sequences, FiniteSets

CONSTANTS
    MonthStarts,       \* the first days of the months, ascending
    MonthsPerYear,
    DefaultDays,       \* 30
    DefaultMonths,     \* 12
    PresetDays,        \* '7d', '30d', '90d'
    Owner,             \* merchants
    RowDay,            \* the days on which there are rows
    RangeInput,        \* the range inputs that are asked with
    FirstDay, LastDay, \* bound: the days on which questions are asked
    MaxAsks            \* bound: questions

ASSUME ReportAssumption ==
    /\ FirstDay \in Nat /\ LastDay \in Nat /\ FirstDay <= LastDay /\ MaxAsks \in Nat
    /\ {MonthsPerYear, DefaultDays, DefaultMonths, PresetDays} \subseteq Nat \ {0}
    /\ RowDay \subseteq Nat
    /\ RangeInput \subseteq [preset : {"none", "today", "days", "ytd", "custom"},
                             from : {-1} \cup Nat, to : {-1} \cup Nat]

ASSUME CalendarAssumption ==
    /\ MonthStarts \in Seq(Nat) /\ MonthStarts # <<>> /\ MonthStarts[1] = 0
    /\ \A i, j \in DOMAIN MonthStarts : i < j => MonthStarts[i] < MonthStarts[j]

VARIABLES
    today,
    settled,     \* the rows that are settled, completed, registered
    mvDaily,     \* what mv_daily_payment_volume shows of them
    cachedReports, \* the cached answers, by key
    asker,       \* the request that is being served
    asks

reportVars == <<today, settled, mvDaily, cachedReports, asker, asks>>

Row == [owner : Owner, day : RowDay]
Span(a, b) == [start |-> a, endExclusive |-> b]
Undefined == Span(0, 0)
Rejected == Span(1, 0)
InSpan(d, s) == s = Undefined \/ (s.start <= d /\ d < s.endExclusive)

----------------------------------------------------------------------------
\* common/date-range.util.ts

MonthOf(d) ==
    CHOOSE i \in DOMAIN MonthStarts :
        /\ MonthStarts[i] <= d
        /\ i = Len(MonthStarts) \/ d < MonthStarts[i + 1]
StartOfUtcMonth(d) == MonthStarts[MonthOf(d)]
AddUtcMonths(d, n) == MonthStarts[MonthOf(d) + n]
\* Date.UTC carries a day the month does not have into the next month.
AddUtcYears(d, n) == AddUtcMonths(d, n * MonthsPerYear) + d - StartOfUtcMonth(d)
StartOfYear(d) == MonthStarts[((MonthOf(d) - 1) \div MonthsPerYear) * MonthsPerYear + 1]

ResolveAnalyticsWindow(input, now) ==
    LET start == input.from
        end == IF input.to = -1 THEN now + 1 ELSE input.to + 1
    IN  CASE input.preset = "none" /\ input.from = -1 /\ input.to = -1 -> Undefined
          [] input.preset \in {"today", "days", "ytd"} ->
               IF input.from # -1 \/ input.to # -1 THEN Rejected
               ELSE Span(CASE input.preset = "today" -> now
                           [] input.preset = "days" -> now - (PresetDays - 1)
                           [] OTHER -> StartOfYear(now), now + 1)
          [] OTHER ->
               IF input.from = -1 \/ start >= end \/ end > AddUtcYears(start, 1)
               THEN Rejected ELSE Span(start, end)

\* Without dates, as its callers in AnalyticsService reach it.
ResolveDateRange(period, now) ==
    IF period = "daily" THEN Span(now - (DefaultDays - 1), now + 1)
    ELSE Span(AddUtcMonths(now, -(DefaultMonths - 1)), AddUtcMonths(now, 1))

\* The calendar of a date library has no ends: the months of every range that is
\* asked for, those of the range before it and the month after it are on the list.
ASSUME CalendarReaches ==
    \A now \in FirstDay .. LastDay :
        /\ MonthOf(now) \in 2 * DefaultMonths .. Len(MonthStarts) - 1
        /\ \A input \in RangeInput :
              LET w == ResolveAnalyticsWindow(input, now) IN
              w \notin {Undefined, Rejected} =>
                  /\ 0 <= w.start /\ w.endExclusive <= MonthStarts[Len(MonthStarts)]
                  /\ MonthOf(w.endExclusive - 1) + 1 < 2 * MonthOf(w.start)

----------------------------------------------------------------------------
\* The ranges of the endpoints.

ResolveWindowPeriods(period, w) ==
    LET current ==
            IF period = "daily" THEN w
            ELSE Span(StartOfUtcMonth(w.start),
                      AddUtcMonths(StartOfUtcMonth(w.endExclusive - 1), 1))
        previousStart ==
            IF period = "daily" THEN current.start - (current.endExclusive - current.start)
            ELSE AddUtcMonths(current.start, MonthOf(current.start) - MonthOf(current.endExclusive))
    IN  [current |-> current, previous |-> Span(previousStart, current.start)]

ResolveRevenueRanges(period, now) ==
    LET end == IF period = "daily" THEN now ELSE StartOfUtcMonth(now)
        start == IF period = "daily" THEN end - (DefaultDays - 1)
                 ELSE AddUtcMonths(end, -(DefaultMonths - 1))
    IN  IF period = "daily"
        THEN [current |-> Span(start, end + 1), previous |-> Span(start - (end - start + 1), start)]
        ELSE [current |-> Span(start, AddUtcMonths(end, 1)),
              previous |-> Span(AddUtcMonths(start, -(MonthOf(end) - MonthOf(start) + 1)), start)]

\* getPeriodBounds asks for the process's local time.  The image and the manifests
\* set no TZ, so that local days are UTC days.
PeriodBounds(period, now) ==
    IF period = "daily" THEN [current |-> Span(now, now + 1), previous |-> Span(now - 1, now)]
    ELSE [current |-> Span(StartOfUtcMonth(now), AddUtcMonths(now, 1)),
          previous |-> Span(AddUtcMonths(now, -1), StartOfUtcMonth(now))]

Alone(span) == [current |-> span, previous |-> Undefined]

\* MerchantAnalyticsService: the sign-up series and the funnel of the last days.
Trailing(now) == Alone(Span(now - (DefaultDays - 1), now + 1))

VolumeRanges(period, w, now) ==
    IF w # Undefined THEN Alone(ResolveWindowPeriods(period, w).current)
    ELSE Alone(ResolveDateRange(period, now))
RevenueRanges(period, w, now) ==
    IF w # Undefined THEN ResolveWindowPeriods(period, w) ELSE ResolveRevenueRanges(period, now)
ComparisonRanges(period, w, now) ==
    IF w # Undefined THEN ResolveWindowPeriods(period, w) ELSE PeriodBounds(period, now)

Ranges(q, now) ==
    LET w == ResolveAnalyticsWindow(q.input, now)
    IN  IF w = Rejected THEN Alone(Rejected)
        ELSE CASE q.endpoint = "volume" -> VolumeRanges(q.period, w, now)
               [] q.endpoint = "revenue" -> RevenueRanges(q.period, w, now)
               [] q.endpoint = "comparison" -> ComparisonRanges(q.period, w, now)
               [] q.endpoint = "networks" -> Alone(w)
               [] q.endpoint = "merchants" -> Trailing(now)

\* Mutation: the period is not part of the key.
AnalyticsCacheKey_NoPeriod(q, now) ==
    LET r == Ranges(q, now)
    IN  <<q.scope, q.endpoint, "daily",
          CASE q.endpoint = "volume" -> <<r.current>>
            [] q.endpoint = "revenue" -> <<r.current, r.previous>>
            [] q.endpoint = "merchants" -> <<Span(now, now)>>
            [] OTHER -> <<ResolveAnalyticsWindow(q.input, now)>> >>

\* The ranges are in the key of volume and revenue, the window (or 'default')
\* in that of the others, the day in that of the sign-ups.
AnalyticsCacheKey(q, now) ==
    LET r == Ranges(q, now)
    IN  <<q.scope, q.endpoint, q.period,
          CASE q.endpoint = "volume" -> <<r.current>>
            [] q.endpoint = "revenue" -> <<r.current, r.previous>>
            [] q.endpoint = "merchants" -> <<Span(now, now)>>
            [] OTHER -> <<ResolveAnalyticsWindow(q.input, now)>> >>

----------------------------------------------------------------------------
\* The queries and the series.

NoInput == [preset |-> "none", from |-> -1, to |-> -1]

\* The questions of the controllers: an administrator's is about every merchant.
Questions(endpoints, scopes, inputs) ==
    [endpoint : endpoints, scope : scopes, period : {"daily", "monthly"}, input : inputs]
ScopedQuestion == Questions({"volume", "revenue"}, Owner \cup {"admin"}, RangeInput)
MerchantQuestion == Questions({"comparison", "networks"}, Owner, RangeInput)
SignupQuestion ==
    {q \in Questions({"merchants"}, {"admin"}, {NoInput}) : q.period = "daily"}
Question == ScopedQuestion \cup MerchantQuestion \cup SignupQuestion

InScope(q, row) == q.scope \in {"admin", row.owner}

\* Daily volume is read from the materialized view, the rest from the tables.
Source(q) == IF q.endpoint = "volume" /\ q.period = "daily" THEN mvDaily ELSE settled

Label(period, d) == IF period = "daily" THEN d ELSE StartOfUtcMonth(d)

GetRows(q, span) ==
    {row \in Source(q) : InScope(q, row) /\
        InSpan(IF q.endpoint = "revenue" THEN Label(q.period, row.day) ELSE row.day, span)}
GetTotal(q, span) == {row \in Source(q) : InScope(q, row) /\ InSpan(row.day, span)}

\* The queries of an endpoint; those of one question are under way together.
Queries(q) ==
    CASE q.endpoint = "revenue" -> {"rows", "current", "previous"}
      [] q.endpoint = "comparison" -> {"current", "previous"}
      [] q.endpoint = "networks" -> {"rows", "current"}
      [] OTHER -> {"rows"}

\* The steps of the cursor from the first bucket of the range to its last; the
\* trend of the networks has a bucket for each of its rows.
Cursors(q, span, rows) ==
    {Label(q.period, d) : d \in IF span = Undefined THEN {row.day : row \in rows}
                                ELSE span.start .. span.endExclusive - 1}

BuildSeries(q, span, rows) ==
    [b \in Cursors(q, span, rows) |-> {row \in rows : Label(q.period, row.day) = b}]

----------------------------------------------------------------------------

Idling == [at |-> "idle"]

ReportInit ==
    /\ today = FirstDay /\ settled = {} /\ mvDaily = {} /\ cachedReports = {}
    /\ asker = Idling /\ asks = 0

SettleRow(row) ==
    /\ row \notin settled /\ row.day <= today
    /\ settled' = settled \cup {row}
    /\ UNCHANGED <<today, mvDaily, cachedReports, asker, asks>>

\* A refresh that is rejected leaves the view as it is and raises an alert.
Refresh ==
    /\ mvDaily' = settled
    /\ UNCHANGED <<today, settled, cachedReports, asker, asks>>

\* A TTL is a few minutes and so is a request: neither lasts two midnights.
NextDay ==
    /\ today < LastDay
    /\ \A a \in cachedReports : a.value.on = today
    /\ asker.at \notin {"idle", "served"} => asker.on = today
    /\ today' = today + 1
    /\ UNCHANGED <<settled, mvDaily, cachedReports, asker, asks>>

AnswerExpires(a) ==
    /\ cachedReports' = cachedReports \ {a}
    /\ UNCHANGED <<today, settled, mvDaily, asker, asks>>

\* The ranges are resolved; a range that is rejected ends the request.
Ask(q) ==
    /\ asker.at \in {"idle", "served"} /\ asks < MaxAsks
    /\ asks' = asks + 1
    /\ asker' = IF Ranges(q, today).current = Rejected THEN Idling
                ELSE [at |-> "get", q |-> q, on |-> today, key |-> AnalyticsCacheKey(q, today)]
    /\ UNCHANGED <<today, settled, mvDaily, cachedReports>>

Serve(value) == [at |-> "served", q |-> asker.q, on |-> asker.on, value |-> value]

\* cache.getOrSet: the lookup, and on a miss the start of the queries.  The
\* bounds of a comparison without a window are taken from the clock only now.
CacheGet ==
    /\ asker.at = "get"
    /\ LET default == asker.q.endpoint = "comparison" /\ asker.q.input = NoInput
           r == Ranges(asker.q, IF default THEN today ELSE asker.on)
       IN  asker' =
             IF \E a \in cachedReports : a.key = asker.key
             THEN Serve((CHOOSE a \in cachedReports : a.key = asker.key).value)
             ELSE [at |-> "fetch", q |-> asker.q, on |-> asker.on, key |-> asker.key,
                   todo |-> Queries(asker.q),
                   value |-> [on |-> today, spans |-> r, before |-> Source(asker.q),
                              rows |-> {}, current |-> {}, previous |-> {}, series |-> <<>>]]
    /\ UNCHANGED <<today, settled, mvDaily, cachedReports, asks>>

\* One of the queries is answered; with the last the answer is put together.
RunQuery(part) ==
    /\ asker.at = "fetch" /\ part \in asker.todo
    /\ LET q == asker.q
           spans == asker.value.spans
           found == CASE part = "rows" -> GetRows(q, spans.current)
                      [] part = "current" -> GetTotal(q, spans.current)
                      [] OTHER -> GetTotal(q, spans.previous)
           value == [asker.value EXCEPT ![part] = found]
       IN  asker' =
             [asker EXCEPT !.todo = @ \ {part},
                !.at = IF asker.todo = {part} THEN "set" ELSE "fetch",
                !.value = IF asker.todo = {part}
                          THEN [value EXCEPT !.series = BuildSeries(q, spans.current, value.rows)]
                          ELSE value]
    /\ UNCHANGED <<today, settled, mvDaily, cachedReports, asks>>

CacheSet ==
    /\ asker.at = "set"
    /\ cachedReports' = {a \in cachedReports : a.key # asker.key} \cup {[key |-> asker.key, value |-> asker.value]}
    /\ asker' = Serve(asker.value)
    /\ UNCHANGED <<today, settled, mvDaily, asks>>

ReportNext ==
    \/ \E row \in Row : SettleRow(row)
    \/ Refresh
    \/ NextDay
    \/ \E a \in cachedReports : AnswerExpires(a)
    \/ \E q \in Question : Ask(q)
    \/ CacheGet
    \/ \E part \in {"rows", "current", "previous"} : RunQuery(part)
    \/ CacheSet

ReportSpec == ReportInit /\ [][ReportNext]_reportVars

----------------------------------------------------------------------------

DaysOf(span) == span.start .. span.endExclusive - 1
BucketsOf(period, span) == {Label(period, d) : d \in DaysOf(span)}

\* The days the user asked about, for the ranges that are asked with dates.
DaysAsked(q, now) ==
    LET i == q.input
    IN  CASE i.preset = "today" -> {now}
          [] i.preset = "days" -> {now - n : n \in 0 .. PresetDays - 1}
          [] i.preset = "ytd" -> {d \in 0 .. now : StartOfYear(d) = StartOfYear(now)}
          [] OTHER -> i.from .. (IF i.to = -1 THEN now ELSE i.to)

\* The current span is whole buckets: those that meet the days asked about,
\* or the default number of them up to the day of the question.
SpanFits(q, span, now) ==
    CASE q.endpoint = "networks" ->
             IF q.input = NoInput THEN span = Undefined ELSE DaysOf(span) = DaysAsked(q, now)
      [] q.endpoint # "networks" /\ q.input # NoInput ->
             DaysOf(span) = {d \in 0 .. MonthStarts[Len(MonthStarts)] - 1 :
                                Label(q.period, d) \in {Label(q.period, a) : a \in DaysAsked(q, now)}}
      [] OTHER ->
             /\ Label(q.period, span.endExclusive - 1) = Label(q.period, now)
             /\ span.start = Label(q.period, span.start)
             /\ span.endExclusive = Label(q.period, span.endExclusive)
             /\ Cardinality(BucketsOf(q.period, span)) =
                  IF q.endpoint = "comparison" THEN 1
                  ELSE IF q.period = "daily" THEN DefaultDays ELSE DefaultMonths

\* An answer, whether fetched or found in the cache, is the answer to the
\* question that was asked: it counts rows of the asker's scope alone; its
\* current span is that of the question on the day it was asked (on the day
\* before, for a default range cached shortly before midnight), the previous
\* span ends where the current one starts and has as many buckets; every row
\* of the breakdown is in one of its buckets; and no part of it misses a row
\* that was there when the fetch began, although the parts are read by
\* separate queries (getVolume, getRevenue, getComparison,
\* getNetworkBreakdown, getMetrics).
AnswersFit ==
    asker.at = "served" =>
        LET q == asker.q
            a == asker.value
            cur == a.spans.current
            prev == a.spans.previous
            complete(part, span) ==
                {row \in a.before : InScope(q, row) /\ InSpan(row.day, span)} \subseteq part
        IN  /\ \A row \in a.rows \cup a.current \cup a.previous : InScope(q, row)
            /\ SpanFits(q, cur, IF q.endpoint = "comparison" /\ q.input = NoInput THEN a.on ELSE asker.on)
            /\ a.on \in {asker.on - 1, asker.on, asker.on + 1}
            /\ q.endpoint \in {"revenue", "comparison"} =>
                 /\ prev.endExclusive = cur.start
                 /\ Cardinality(BucketsOf(q.period, prev)) = Cardinality(BucketsOf(q.period, cur))
                 /\ Label(q.period, prev.start) = prev.start
            /\ "rows" \in Queries(q) =>
                 /\ UNION {a.series[b] : b \in DOMAIN a.series} = a.rows
                 /\ cur # Undefined => DOMAIN a.series = BucketsOf(q.period, cur)
                 /\ complete(a.rows, cur)
            /\ "current" \in Queries(q) => complete(a.current, cur)
            /\ "previous" \in Queries(q) => complete(a.previous, prev)
=============================================================================
