# TLA+ model of the DupDub payment backend

The backend takes payments in USDC on Stellar and pays merchants in fiat. It is
a NestJS program over Postgres, Redis and Bull queues, deployed with two
replicas (`src/infra/k8s/deployment.yaml:8`). Nearly everything that is hard
about it happens between an `await` and the next: two replicas, two Bull
workers, or a cron job and a request, work on the same row, and any call may
reject or any process stop in between. The modules here model that core call by
call, with TLC runs on small instances and TLAPS proofs of the main guards.

## 1. Inventory

| Component | State | Operations | Hard behaviour |
|---|---|---|---|
| Stellar monitor (`stellar/stellar-monitor.service.ts`) | payments rows, row locks, in-memory cursor | `scanPendingPayments`, `confirmPayment`, `expireOldPayments` | two replicas confirm or expire the same payment; side effects inside a transaction that can roll back; stale saves |
| Soroban escrow monitor (`stellar/soroban-monitor.service.ts`) | in-memory cursor and id window, copies in Redis, payments rows | `pollEscrowEvents`, `processEscrowEvent`, `loadState` | overlapping pages, window eviction, restart between two Redis writes |
| Soroban event indexer (`stellar/soroban-event-indexer.service.ts`) | cursor in Redis, dead-letter queue | `pollEvents` | paging inside a ledger, malformed events, overlapping polls |
| Webhook delivery (`webhooks/`) | webhooks row, Bull jobs, delivery log | `dispatch`, `replay`, `remove`, `resetCircuit`, `updateRetryConfig`, `process` | job ids that Bull ignores, failures counted by concurrent workers, retries after an accepted POST |
| Recurring payments (`recurring-payments/`) | `nextChargeAt`, `notifiedForChargeAt`, status | `create`, `cancel`, notify job, charge job | claim and release of a cycle by overlapping runs |
| Cron job runner (`cron/cron-job.service.ts`) | in-memory set of running jobs, log rows | `run` | timeout while the function goes on; a lock that is never removed |
| Settlement approval and payout (`settlements/`, `queues/`) | settlements and payments rows, Bull queues, merchant lock | `approveSettlement`, `rejectSettlement`, `SettlementQueueProcessor` | two admins, merchant lock, retries after a transfer |
| RPC resilience, circuit breaker (`common/circuit-breaker.ts`, `stellar/soroban-rpc-resilience.ts`) | state of the circuit, failures, opening time | `execute`, `call`, `recordSuccess`, `recordFailure`, `state` | calls admitted before the circuit opened end after it |
| Stellar and Soroban clients, transaction queue (`stellar/`, `soroban/`) | the treasury's sequence number, a promise chain per process | `submitFromTreasury`, `invokeContract`, `submitTx` | one sequence number for two replicas and three senders; lost answers |
| Wallets, escrow mirror, field encryption (`blockchain-wallet/`, `security/`) | wallet rows, mirrored payments, pause and lock flags | `provision`, `syncBalance`, `reencryptWallets`, `createPayment`, `confirm`, `expirePayment`, `pause` | overlapping provisioning, a ledger that is set back, key rotation |
| Disputes, AML flags (`payments/disputes.service.ts`, `aml/`) | case rows | `raise`, `checkAndFlag`, `review`, `escalateOverdue` | a job that saves rows it read before earlier awaits |
| Admin alerts (`alerts/`) | one row per type and key | `raise`, `acknowledge`, `resolve`, `escalateOverdueAlerts` | concurrent saves of one row, cool-down |
| Idempotency, daily limits, sliding window (`payments/`, `cache/`) | cached answers, sorted sets, in-memory windows | `intercept`, `checkAndIncrement`, `checkSlidingWindowRateLimit` | check-then-act in four Redis calls, fallback to memory |
| Groups (`groups/`) | group and member rows | `createGroup`, `joinByInviteCode`, edits, deletion | members counted before a network call |
| E-mail, templates, payment import (`email/`, `payments/payment-import.queue.ts`) | Bull jobs, e-mail log, template versions | `queue`, `handleSend`, `handleFailed`, `update`, `rollback`, `process` | a job fails or stalls after the mail went out |
| Notifications (`notifications/`, `webhooks/notification-webhook.service.ts`) | preferences, in-app list, webhook | `updatePrefs`, `listForUser`, purge, `register` | writes one by one, a cursor that is a time |
| Merchants and API keys (`merchants/`, `cron/api-key-expiry.service.ts`) | the merchant row | every operation that saves it, reminder job | a stale entity is saved over a new key |
| Guards (`auth/guards/`, `security/ip-allowlist.guard.ts`, `prometheus/metrics.guard.ts`) | none | `canActivate`, `ipInCidr`, `ipv6ToBytes` | arithmetic on addresses, order of the checks |
| Analytics and exports (`analytics/`) | cached answers, export rows, files | ranges, series, `requestExport`, `generateExport`, `getDownloadByToken` | calendar arithmetic, queries at several moments, a job run twice |
| Administration (`admin/`) | cached pages, global fees | `getTopMerchants`, `getGlobalFees`, `updateGlobalFee` | keyset paging over changing volumes, a cache filled with an old value |
| Settlement fees, rates, configuration, observability, schema, shell | | | not modelled; PROJECT.json gives the reason for each |

How they interact: Bull starts the scan job in each replica; its last call is
the escrow poll, on the same payments table. A confirmed payment initiates a
settlement in the same transaction and dispatches a webhook event. Settlements
above a threshold wait for an admin, then for a job of the settlement queue.
Calls of Horizon and of the Soroban RPC go through a circuit; whatever spends the
treasury's sequence number competes with the contract calls. The components
behind the API (from disputes to administration in the table) use the same
Postgres and Redis; they write rows of their own and meet the payment path
through the payments they create or hold and the e-mails, alerts and webhooks
they send. Cron jobs (indexer, recurring payments, reminders) run through
`CronJobService.run`, whose lock is per process and ends after five minutes: for
the modules of those jobs this means that runs may overlap.

At this commit `payments.service.ts`, `auth.service.ts`, `main.ts` and some
others are empty files, and several methods that are called are not in the
repository (`initiateSettlement`, `executeFiatTransfer`,
`CacheService.acquireLock`, `PaymentsService.create`, ...). They are modelled
from their callers and marked external.

## 2. Modules and the code

Conventions. A worker's `pc` names the await it is at. Everything between two
awaits is one action, because a Node process runs it without interruption. A
rejected call and a restart are actions of their own, drawn from a budget
(`MaxFaults`, `MaxCrash`, ...). `repository.save(entity)` of TypeORM reads the
row again and writes the columns in which the entity differs from it; when the
row changes between this read and the write, only the assigned columns are
written. `Saved` gives both outcomes, and the write waits for a row lock.
History variables (`settlements`, `charges`, `transfers`, `received`, ...) count
effects outside the process. An operator `X_Bug` is a mutated form of `X`; no
specification uses it.

| Module | Models | Correspondence |
|---|---|---|
| `StellarMonitor` | `scanPendingPayments` by several replicas | `cursor`/`page` are the loop over Horizon's transactions, `lock` is `pessimistic_write`, `cur` the payment in hand, `expired` the stale list of `expireOldPayments`. `LockPending` … `CommitConfirmed` are `confirmPayment`, `Rollback` its rejections. |
| `SorobanMonitor` | `pollEscrowEvents` | `ids` is `processedEventIds`, `snap` the rows of `find()` read once per poll, `redisCursor`/`redisIds` the two Redis keys, shared by the replicas and written at different moments (`PersistCursor`, `PersistIds`). `LoadState` may have the cursor and then fail on the ids. `missed` holds the events that a full page or a fault left behind the cursor. |
| `MonitorJob` | both on one table | Extends `StellarMonitor` and instantiates `SorobanMonitor` as `Escrow`. The escrow poll runs while the scan waits for it; one restart stops both. |
| `SorobanIndexer` | `pollEvents` | `stored` is the Redis cursor, `batch` the rest of the page. The cursor moves on dispatch or on an empty page and is saved at the end. |
| `WebhookDelivery` | one webhook, its jobs and workers | A Bull job is `[event, attempt]`, its id; adding an id that is live is ignored. A POST may reject although the endpoint accepted it (`unanswered`). `Increment`, `ReadBack`, `Deactivate`, `OpenCircuit` are the awaits of `markWebhookFailure`. |
| `RecurringPayments` | both cron jobs and `cancel` | `Claim` is the conditional update, `Release` the unconditional one, `entity` the rows `cancel` has read. |
| `CronJob` | `CronJobService.run` for one job name | `locked` is membership in `runningJobs`, `detached` the functions that go on after the timer. |
| `SettlementApproval` | approval, rejection, payout job | `Request` is an admin call, `Worker` a queue processor; `queue` has one entry per Bull queue name, because the service and the processor use different ones; `lapsed` are the workers whose 60 s lock has ended under their transfer. |
| `PaymentLife` | abstract: what the monitors promise of a payment | `open` is "pending", `backed` that the contract call and the webhook went out. `StellarMonitor` and `MonitorJob` implement it. |
| `RpcCircuit` | one circuit and the calls through it | `breaker` is the object's fields, `mode` which of the two wrappers uses it, `quietUntil` the end of the window. |
| `Treasury` | everyone who spends the sequence number | `queue` is the promise chain, `snap` the number an account was loaded with, `limbo` transactions whose answer was lost. |
| `EscrowMirror` | `PaymentEscrowService` | `mirrored` is its map; `running` the operations that await the contract. |
| `Wallets` | provisioning, balances, re-encryption | a secret is the sequence of keys it is encrypted under. |
| `Reviews` | disputes and AML flags, one flag row per reason | `listed` is what an escalation run has found, `reviewing` what a reviewer has read. |
| `AdminAlerts` | `AdminAlertService` for one key | `op` is what each overlapping operation has read and when. |
| `RequestLimits` | interceptor, daily limit, sliding window | a request's `stage` names the Redis call it is at; `granted` records which counter admitted it. |
| `Groups` | one group | `joining` and `editing` hold what was read before the awaits. |
| `Mail` | mail job, templates, import | a Bull job with its attempts and one stall; `unnoticed` counts deliveries whose call rejected; a template version is a row. |
| `NotificationPrefs`, `InAppNotifications` | preferences and webhook; the list | the rows are written in the order of the code; `hookCall` is what `register` or `remove` found; a page is fetched by its cursor. |
| `Merchants` | the merchant row | an operation is a function from the row it read to the entities it may save; `MerchantOperations`, `MerchantAdminOperations` and `AdminOperations` list them by controller. |
| `Access` | guards and CIDR arithmetic | IPv4 octets and IPv6 groups with small widths (`ByteBits`, `OctetCount`, `GroupCount`), malformed octets, the same coercions, shifts and masks; `Guards` lists the guards of each kind of controller, whose roles are in the request. |
| `Reports` | analytics | days are numbers, a calendar is the list of its month starts; `VolumeRanges`, `RevenueRanges`, ... are the windows of the endpoints. |
| `Exports` | export job and mailed token | `runs` are executions of the handler, `exportRow` the row each of them saves whole. |
| `Rankings`, `Fees` | paged ranking; cached fees | `InPeriod` is the join with the payments of the period, `Having` and `Ranked` are the SQL of the page; `LookupFees`, `FetchFees`, `StoreFees` the awaits of `getOrSet`. |
| `*_proof` | theorems | see section 5 |
| `MC*` | constants for TLC | `MCScheduledWork`, `MCOutbound` and `MCBackOffice` put components that share no state into one run |

## 3. Runs

Seven runs must pass. Three of them hold several components that share no state:
`focus` picks one of them in the initial state and the others stand still, so that
such a run is the union of state spaces, not their product.

- `stellar_monitor` (83 000 states): two replicas, one payment with two
  transactions, any call failing, one restart. The row lock and the status
  re-check keep the payment from being settled twice (`SettledAtMostOnce`,
  `OneConfirmation`), a settled payment had its contract call and webhook
  (`SettlementIsBacked`), every step is one of the abstract payment's life
  (`ImplementsLife`: no stale save opens a payment again), and an overdue payment
  leaves pending whatever fails (`OverdueLeavesPending`).
- `soroban_monitor` (533 000 states): two replicas that share the Redis copies, pages
  of two events and a window of two ids, with one fault. A poll that begins late
  gets a full page and leaves an event behind it. Each process saves an event once
  plus at most once per fault (`ReplaysAreAccounted`), and without a fault each
  payment ends with the status of its last event that no full page left behind
  (`LastEventWins`).
- `monitor_job` (946 000 states): the whole job, with the escrow poll writing
  the same rows without looking at their status, implements `PaymentLife`
  (`ImplementsLife`). It does because no escrow event maps to pending and an
  escrow write waits for the row lock.
- `recurring_payments` (602 000 states): two charge runs and a notify run with two
  rejected calls, or one and a crash, and a cancel; a claim may be rejected before or
  after it was written. A cycle is charged once unless `nextChargeAt` was moved back
  (`ClaimExcludes`), never without its notice (`NotifiedBeforeCharged`), and never
  lost while the subscription is active, unless its claim was written and the run
  that wrote it is gone, or a later cycle was released over its release
  (`EveryCycleIsCharged`).
- `scheduled_work` (307 000 states):
  - cron runner: in one process two runs overlap only after a timeout
    (`AloneUntilTimeout`), and the job runs again and again unless the save of a
    first log entry was rejected; that one leaves the name locked
    (`FollowedJobKeepsRunning`);
  - event indexer: two overlapping polls, a ledger split over two pages, malformed
    and unknown events, a fault. Every event up to the saved cursor was dispatched
    or dead-lettered (`CursorIsBacked`), and every event is in the end
    (`EventsAreHandled`), also behind a malformed event of the newest ledger that
    is fetched again on every poll;
  - settlements: two payouts of a merchant overlap only when the 60 s lock has ended
    under one of the transfers, which nothing in the code bounds
    (`MerchantIsolation`), each fault costs at most one extra transfer
    (`TransfersAreAccounted`), and an uninterrupted rejection fails every payment of
    the settlement (`RejectionReachesPayments`).
- `outbound` (4.0 million states):
  - webhooks: two workers, two events, a fault, a replay, an admin call. No
    dispatched event vanishes without a reason the code names (`NoEventVanishes`);
    each duplicate costs a fault, a replay, or a POST that rejected after the
    endpoint had accepted it, as one does after 15 s (`DuplicatesAreAccounted`); a
    webhook at the threshold ends inactive (`ThresholdDeactivates`);
  - circuit: after a tripping failure no call starts within the reset timeout,
    unless one in flight succeeds (`OpenCircuitIsQuiet`), with three overlapping
    calls, retries and a fallback endpoint;
  - treasury: three queued submissions of two replicas, a contract call and a
    `submitTx` on one sequence number with a lost answer. One call spends at most
    once and outcomes are what the ledger says (`OutcomeIsHonest`); a queued
    submission fails for its number only after two other transactions overtook it:
    of a contract call, of another process, or of its own process after their
    submission had been given up (`BadSeqNeedsTwoConflicts`);
  - escrow mirror: no confirmed payment has a refund order unless the ledger was
    set back (`NoRefundOfConfirmed`);
  - wallets: only a stored address is registered and announced
    (`AnnouncedIsStored`).
- `back_office` (3.3 million states): the components behind the API, each with
  overlapping requests, jobs or workers, rejected calls and, where it matters, a
  clock.
  - `ClosedIsEscalatedByOldRunsOnly`: a closed dispute or flag is escalated only
    by a run that listed it before;
  - `CooldownSpacesNotices`: two notices within a cool-down need a lost save;
  - `EachCounterHoldsLimit`: the sorted set and the memory of each process admit at
    most the limit in a window, not counting requests whose check another check or
    a tick overtook. Each counter has a limit of its own: processes that fall back
    to memory admit more together, and so do overlapping checks (run `limits`);
  - `HandledOnceUnlessOverlapping`: two requests with one key are both handled only
    if they overlapped, the answer could not be stored or it had expired (run
    `idempotency`);
  - `CapacityHoldsUpToOverlap`: a group exceeds its capacity by overlapping joins
    only, and by no more than those;
  - `MailLogIsHonest`: the log says sent of delivered mails only; a mail is delivered
    again, or logged as failed although delivered, only after a stall or a call that
    was rejected after the server had accepted the mail;
  - `NewestHookStays`: overlapping registrations of the notification webhook leave
    the one that was created last;
  - `ListingIsComplete`: paging by time misses nothing unless a page ends between
    two notifications of one instant; a purge between two pages does no harm;
  - `MarkedIsReminded`: a key about to expire is never left without a reminder,
    unless a stale save overwrote a newer one;
  - `AllowlistIsExact`: for every address, entry and prefix of the small widths a
    key's list admits what the prefix says, with two kinds of entries that admit
    less; the configured lists admit no more unless an entry is coerced; what holds
    of the metrics holds of the address in the client's header; routes behind the
    two-factor guard take no key;
  - `AnswersFit`: an answer of the analytics, cached or not, covers the window
    asked for, its previous window fits, and separate queries lose no row;
  - `MailedTokenWorks`: the download answers a mailed token with the file until it
    expires, unless a second worker took the job over or the mail's call rejected;
  - `UnchangedIsListedOnce`: paging lists a merchant whose volume did not change
    once, if it has payments in the period, whoever else enters or leaves, unless
    `parseFloat` rounds a cursor;
  - `FeesAreFresh`: a cached fee is stale only through a reader that overlapped
    the save, or because no deletion followed a save that took effect.

Properties with an exception say what the code guarantees, not what one would
wish: the exception is the race the code leaves open, and the property is that
nothing else leads there.

Five runs show a disagreement between the code and what the repository says of it.

- `recurring_double`: a late, unconditional release moves `nextChargeAt` back to
  a cycle that was charged, and it is charged again.
- `key_rotation`: the rotation procedure of `backup/RECOVERY_DRILL.md` encrypts a
  wallet's secret twice, because the column transformer looks for another prefix
  than `encrypt` writes; with the previous key removed the wallet reads as a
  ciphertext. The run presumes that the encryption service is registered with the
  transformer, as `encrypted-column.transformer.ts:9-14` describes; at this commit
  only a spec calls `setEncryptionServiceInstance`, and `Registered` says in which
  processes it was called.
- `escrow_replay`: with no fault both replicas save one escrow event, although
  `docs/soroban-integration.md:127` says that replay is prevented.
- `limits`: with no fault the daily limit of one merchant is exceeded by two
  overlapping requests, although `transaction-limits.service.ts:12` says that it
  holds across instances.
- `idempotency`: with no fault a retry that overlaps its first request creates a
  second payment, although `docs/glossary.md:29` says that a key never does.

Disagreements met while modelling that no run states:

- `expireOldPayments` saves a stale entity over a row that another replica has
  confirmed and settled, and announces `payment.expired`
  (`stellar-monitor.service.ts:333`, `README.md:363`).
- An approved settlement is added to the queue `settlements`, which no module
  registers and no processor serves (`settlements.service.ts:81`).
- `RuntimeConfigService.get` never reads the database: the cache answers null
  and the test is `!== undefined` (`runtime-config.service.ts:31`).
- `isValidIpOrCidr` accepts an IPv4 `/0` entry, which then matches only its own
  address, and an IPv6 address in a non-canonical spelling, which never
  matches. `MetricsGuard` knows no IPv6 networks; IPv4-mapped client addresses
  match no IPv4 entry.
- An IPv4 entry with a malformed octet does match: a NaN inside `reduce` becomes 0
  in the next shift (`ip-allowlist.guard.ts:124`), and `parseInt` ignores what
  follows a number. Keys' lists are validated, the configured ones are not; the
  comment at line 140 says that such entries would never match.
- `MetricsGuard` takes the client's address from the `X-Forwarded-For` header, which
  the client sends (`metrics.guard.ts:46`). `getClientIp` says that `main.ts`
  configures the trusted proxy; the file is empty.
- Administrators of mail, AML, merchants, disputes and sign-ups need no two-factor
  session, and no list applies to several of the others (`Guards`).
- The cron admin routes use the admin guard without an authentication guard and
  always answer 403 (`cron-admin.controller.ts:43`).
- `updateTransactionLimits` writes columns that the merchant entity does not
  have.
- The funnel endpoint passes an object as `from` and always answers 400
  (`analytics.controller.ts:120`); `getVolume` with `dateTo` alone throws; monthly
  exports mix month and day labels, and every export's file name ends in `.pdf`.
- `smsPhoneNumber` is no column of the merchant entity. Every query that selects or
  updates it rejects: SMS cannot be switched on, and `updatePrefs` always rejects,
  after it has written its rows, in the query of `getPrefs`; the comment at
  `notification-prefs.service.ts:123` says that a rejected request leaves no
  partial state.
- The address that an export's token is mailed in begins with `req.baseUrl`, which is
  empty, and so lacks the prefix of the route (`analytics-export.controller.ts:54`,
  `openapi.json:2659`): the token works, the link does not.
- The ranking's cursor goes through `parseFloat` (`admin.service.ts:914`): volumes
  above some 8.6 billion USD with six decimals are rounded, and a row at such a
  page end is listed again or its ties are lost.
- `getPeriodBounds` uses local time where the other ranges use UTC. The image sets no
  time zone, so that both agree, and `Reports` models UTC days.
- A stale save of a group revives one that was deleted meanwhile; a stale save of
  a merchant restores an old key, status or a deleted row; `createGroup` leaves
  a group without an owner when `addMember` rejects.
- `flushCache` leaves `admin:analytics:*`; the geographic distribution takes 50
  rows before it sorts them.
- The comment of `email/email.processor.ts:16` says that the legacy processor was
  removed; `notifications/email.processor.ts` is there.
- `payment.confirmed` is announced before the transaction commits, and a
  rejected `initiateSettlement` rolls the row back
  (`stellar-monitor.service.ts:247` says the opposite).
- A transfer of any amount confirms a payment (`docs/glossary.md:20`).
- An escrow event replayed after a restart moves a settled payment back to
  confirmed; loading ids from Redis late makes the window larger than its bound.
- A delivery that fails when the circuit opens, or comes up while it is open, is
  dropped (`README.md:494` promises the retry). Two increments before a
  read-back step over an alert threshold. The circuit can open after the streak
  was reset.
- Two replicas may both e-mail the notice of an upcoming charge
  (`recurring-payments.service.ts:52` says once); every replica runs every cron
  job.
- Two admins who read a settlement as pending both decide; a transfer longer
  than 60 s does not exclude the merchant's next one.
- A poll of the escrow that gets a full page moves its start to the newest ledger and
  leaves the rest of the events behind (`soroban-monitor.service.ts:107`).

### Bounds

Two of each actor is enough for every race here: each guard is about one row, so
a violation needs one actor that acts and one that acts in between. One payment,
subscription or webhook suffices for the same reason; the settlements are three of
one merchant, because they share a lock. Two transactions with one memo and two
webhook events make double handling possible. Thresholds and page sizes are scaled
down so that they are reached and exceeded (`PageLimit = 2` for three events;
`CircuitAt = 2`, `DeactivateAt = 3` with up to three attempts). Fault budgets of one
to three let a failure happen at every await; the properties that count faults
compare with the budget used, not with its bound. `MaxTime`, `MaxLedger`,
`MaxReplays`, `MaxAdmin`, `MaxRetries` and `MaxCancels` bound the environment. In
`outbound` and `back_office` cool-downs and times to live are one or two ticks and the
clocks one to five, so that each of them runs out within a behaviour; the daily
limit's window is two ticks of a clock that has three instants, so that it slides
over an entry; the calendar has years of two months of unequal length, addresses
have a few bits, page sizes are one, and volumes above 2 lose their last bit. AML has
one flag row, which either reason may write; the two rows of one payment never meet.
Symmetry is used only in runs without liveness. Deadlock checking is off only where
every actor may have finished within the bounds.

### Fairness

Weak fairness of a worker's step: Bull and cron start the job again and again,
and every call the code awaits returns. Strong fairness in `StellarMonitor`
(`ReadExpired`, `InvokeExpire`, `SaveExpired`) and `SorobanMonitor`
(`FetchEvents`): a query or contract call that is repeated on every poll
succeeds in the end. The rejected calls themselves have no fairness. The
environment is fair only where a property is about its progress: ledgers close
and days pass.

## 4. Hazards

PROJECT.json lists each at its line with the properties that would catch it going
wrong. Three more are real but have no guard in the code that a property could be
about: `verifyPayment` is called without the amount
(`stellar-monitor.service.ts:124`), two increments may step over an alert
threshold (`webhook-failure-alert.service.ts:22`), and two replicas may e-mail
one notice twice (`recurring-payments.service.ts:89`).

## 5. Proofs

All theorems hold for every value of the constants that the named assumptions
allow: any number of replicas, payments, transactions, polls, events and faults.
The assumptions are the types of the constants, that the "nobody" and "null" values
are not members, that event ids are ordered by ledger, that the ranked merchants
are finitely many, that addresses, bytes and groups have at least one bit, and that
the calendar reaches around every range a request can ask for
(`CalendarReaches`). Each is an `ASSUME` of the module that declares the
constants and is evaluated by the runs.

- `MonitorJob_proof`: for the scan, `TypeCorrect`, `SettledOnce` and `SettlementsBacked`
  (`SettledAtMostOnce`, `SettlementIsBacked`), `ConfirmationsExclude`,
  `PendingLeftForGood`, and the refinement `MonitorImplementsLife`: a commit maps
  to `Settle`, a save of an expiry to `Close` or to a stutter, and the calls inside
  the transaction to `Back` or to a stutter, because they hold the lock of a
  pending row.
  `SettledAtMostOnce` is not inductive: the invariant adds that a worker in the
  transaction holds the lock of its row (`TransactionHoldsLock`), that a locked
  row is pending (`LockedIsPending`), that a pending payment has no settlement
  (`PendingIsUnsettled`), and how far a confirmation has got
  (`InFlightIsBacked`). A commit then finds `settlements = 0` and leaves the row
  non-pending, and nothing makes it pending again.
  For the whole job, `JobImplementsLife` and `JobSettlesOnce`: the same invariant
  holds with the escrow poll writing the rows beside it. What a poll has fetched
  are events of the contract, and what it is about to save carries the status of
  its event (`InHand`, `EscrowInv`), which is never pending; the write waits for
  the row lock. An escrow write is therefore a `Close` or a stutter and undoes no
  conjunct of the invariant.
- `SorobanMonitor_proof`: `ReplaysBounded`, that `ReplaysAreAccounted` holds for any
  number of replicas, any page limit and whatever the replicas leave in Redis, if the
  window of ids has room for the events of any one ledger (`WindowFits`; 10 000 ids
  in the code). Without `WindowFits` it is false: the newest ledger is fetched again
  on every poll, and an id that fell out of the window while its ledger is still the
  newest is handled twice. Call an event spent for a process that has saved it as
  often as the faults allow. The invariant (`ReplayInv`, `PollInv`) says that a spent
  event that waits in the page or can be fetched again is in the window and will not
  be pushed out before it is looked at (`SpentIsKnown`), that the page is an
  increasing list up to the start ledger, cut or not (`PageShape`), and that what
  is about to be saved entered the window last and is not spent (`SaveIsFirst`). A
  process that polls without its state loaded has had a fault of its own (`Limit`), which
  pays for what a late `loadState` does to the order of the window.
- `SorobanIndexer_proof`: `TypeCorrect`, `NothingIsSkipped` (`CursorIsBacked`).
  The invariant `IInv` describes each poll: events up to the page cursor that
  are not in the batch are handled; when the last page was not full there is
  nothing behind it up to the poll's own cursor; a poll about to save has
  handled everything up to what it saves; cursors never pass the last closed
  ledger, so that no event appears behind them later. Polls do not disturb each
  other, because the set of handled events only grows.
- `ScheduledJobs_proof`: for the recurring payments, `TypeCorrect`, `ClaimsExclude`,
  `NoticePrecedesCharge`. `Exclusive` says that a claimed cycle lies behind
  `nextChargeAt`, has no payment and no second claim, and that a charged cycle
  lies behind `nextChargeAt`, all while `nextChargeAt` was never moved back.
  `Backed` says that every mark in the table, in a stale copy that `cancel`
  holds, or in a run's hand has its notice: a stale copy can only write back
  marks that were true.
  For the cron runner, `JobRunsAlone`: a run that is going on holds its process's
  name (`HoldsName`); a name left behind by a rejected first log entry is held by
  nobody and only keeps runs out.
- `SettlementApproval_proof`: `SettlementTypeCorrect`, `LockIsolatesMerchants`
  (`MerchantIsolation`), `TransfersNeedFaults` (`TransfersAreAccounted`). Isolation
  needs that a worker in `executeFiatTransfer` owns the merchant's lock until the lock
  ends under it (`Holds`), and that a worker whose lock has ended leaves that of its
  successor alone; transfers take as long as they like. A settlement has one job,
  which waits, has failed or is with one worker (`OneJob`), and as long as that job
  may transfer again each transfer so far was ended by a fault (`Budget`).
- `WebhookDelivery_proof`: `EventsAreTraced` (`NoEventVanishes`),
  `DuplicatesNeedCauses` (`DuplicatesAreAccounted`), `ThresholdIsNotMissed`
  (`ThresholdDeactivates`). `Traced`: a worker past the POST works for an event the
  endpoint has, so its job may vanish. Duplicates are counted by potential: what
  the endpoint received plus the chances it still has to get the event
  (`Chances`: it is about to be enqueued, waits, has failed or is with a worker)
  never exceeds one plus the faults, the replays and the accepted POSTs that were not
  answered (`Accounted`); each action moves a chance, spends it, or adds one that one
  of those pays for (`Pays`).
- `ChainAccess_proof`, the four modules of chain access:
  - `OutcomesAreHonest`, `ChainPreventsConflicts` (treasury): what a sender has out
    carries the number it loaded, and once it is applied the ledger is past that
    number (`OneTransaction`), so no resend spends twice; the promise chain lets
    one submission of a process work at a time, so whatever overtakes it is
    counted (`Overtaken`).
  - `CircuitStaysQuiet`: while the window lasts, the circuit is open and its
    timeout counts from the failure that began the window (`WindowIsTimed`);
    reading the state therefore cannot half-open it.
  - `RefundIsFinal`: a payment that can still expire has no order, and an ordered
    payment stays overdue unless the ledger is set back (`OrdersAreFinal`), so that
    `confirm`, which asks only the ledger, refuses it.
  - `AnnouncedWalletsExist`: only the call whose insert succeeded gets to
    `registerUser`, and nothing changes an address afterwards (`WalletInv`).
- `BackOffice_proof`, one section for each component behind the API:
  - `CooldownHolds`: no stamp is in the future, and until a save is lost the row
    knows the last notice (`RowKnowsNotice`).
  - `FeesStayFresh`: a reader about to store a fetched rate holds the saved one
    unless it overlapped a save (`FetchedIsSaved`); a save whose answer is lost is
    counted among those that no deletion followed.
  - `ClosedStaysClosed`: a closed case that a run still holds was closed under that
    run (`FoundIsListed`).
  - `IdHandledOnce`: of the requests of one id one is under way or answered
    (`OneIsBusy`), a created payment is held by the request that made it
    (`HandledIsHeld`), and its answer can still be found (`AnswerIsFound`), all
    unless the id is excused.
  - `WindowsHold`: the sorted set and each process's window hold every admission of
    the current window, and the set outlives them (`WindowsRemember`); a check
    that nothing excuses is alone and has room (`OneHasRoom`). A past window only
    shrinks as admissions become excused.
  - `CapacityHolds`: limits that were read are not above the largest so far
    (`LimitsAreKnown`) and a join that has counted found room (`CountsHadRoom`).
  - `MailLogStaysHonest`: an active job has one holder (`LocksHold`), used-up
    attempts are final (`FailedForGood`), and deliveries plus those that may still
    come are at most one plus the unnoticed failures (`DeliveriesAdd`).
  - `NewestHookIsKept`: what a call found before it created its own webhook is older
    than the newest (`OldIsRemoved`), because ids are new when they are stored.
    `SmsStaysOff`: no call that is accepted has a row that switches SMS on.
  - `PagesMissNothing`: between two pages the client has seen all that is not older
    than its cursor (`SeenDownToCursor`), because no page ended within an instant, and
    a purge takes everything that is older than what it takes.
  - `MailedTokensWork`: a job is run once unless it stalls (`OneRunPerJob`), tokens
    belong to the run that made them (`TokensAreOwn`), and from the save before the
    mail on the row is what that run wrote (`LinksHold`).
  - `KeysAreReminded`: an entity that a call will save keeps the mark only with the
    key and expiry it read (`EntitiesFollow`), and a run marks after it mailed
    (`MailBeforeMark`).
  - `RankingIsComplete`: a page holds the steady merchants behind its cursor that
    are not behind the next one (`PageFits`), also when it comes from the cache
    and whoever enters or leaves,
    and a walk has listed those that are not behind its cursor once (`WalkFits`), as
    long as `ParseFloat` leaves its cursors as they are.
    That a page has a last row, and that `LIMIT` cuts the order in two, is derived
    from the well-foundedness of strict inclusion between finite sets.
  - `AllowlistsExact`: the byte masks, shifts and ranges of the CIDR code admit what
    the reference definition does, the leading bits of two numbers being equal.
    `SameLeadingBits` says so of one byte or word, `Ipv6Exact` of a sequence of
    bytes, `CidrExact` of an entry whose text is not coerced; `AccessInv` carries it
    over the requests and the chains of guards.
  - `ReportsFit`: every window of every preset is a range of whole days inside the
    calendar (`WindowFacts`, the presets that no run asks for included), an
    endpoint's current and previous ranges fit it (`RangesFit`), requests with one
    cache key ask for the same spans (`KeyDecides`), and so an answer fits its
    request whether it was computed or found in the cache (`ReportInv`).

The library's induction theorems take an operator as a parameter and cannot be used.
Where a proof needs an induction (a page of events, the merge of the ids from Redis,
powers of two, the months of a calendar) it assumes a counterexample and takes the
least one, which exists because the order of the naturals is well founded
(`LeastExists`).

Where the proof and the code's behaviour disagreed the model was wrong once: the
daily limit's sorted set can expire between a slow check's `zadd` and its `expire`
(limit 2, window 2, four requests; out of the reach of the run's bounds), so that
`EachCounterHoldsLimit` was false as first stated. A check that a tick overtakes now
counts as overlapped, like one that another check overtakes. Two proofs made the
model more precise: `loadState` reads two keys and may have the first when the
second fails, and the windows of `Reports` had overlapping `CASE` guards, of which
TLC takes the first.

The type invariants are proved (`TypeCorrect`, `SettlementTypeCorrect`, and the
`...Types` conjuncts of the inductive invariants) rather than checked by a run of
their own.

Only model-checked are the liveness properties (`OverdueLeavesPending`,
`LastEventWins`, `EventsAreHandled`, `EveryCycleIsCharged`, `FollowedJobKeepsRunning`,
`RejectionReachesPayments`), because fairness and `ENABLED` are out of the prover's
reach, and the five runs that show a violation. Every invariant and every action
property of the passing runs is stated by a theorem, on its own or, in
`ReplaysAreAccounted`, under `WindowFits`.

## 6. Plan

Done: the payment path, the jobs, chain access, the components behind the API, one
abstract specification (`PaymentLife`) that the scan and the whole monitor job are
proved to implement, and the proofs above. Worth adding:

1. An abstract specification of at-least-once delivery that `SorobanIndexer` and
   `WebhookDelivery` implement.
2. The pure algorithms that no state depends on (fee tiers, slippage) against
   reference definitions.
3. The payments, authentication and settlement services, once they have code.

## 7. Not modelled

Read-only queries of the dashboards (funnel, cohorts, table browsing),
observability, migrations and backups, authentication and the payments service
(empty files at this commit), rendering of e-mails, notifications and export
files (text), rates, runtime configuration, audit and the security headers
(single reads and writes). Inside the modelled components: run status and lag
gauges, alert texts, signatures, URL checks and delays of webhooks (a delay is
that a job waits), encoding of contract values, profile columns of a merchant that
nothing reads, and the indexer's count of skipped polls, which only feeds an
alert.
