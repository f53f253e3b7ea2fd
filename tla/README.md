# PayKit in TLA+

PayKit stands between MTN MoMo and merchants: it takes payment webhooks, checks
them, stores them, and tells each merchant's app. These modules model the part
of the Go program that carries that promise, as `src/` has it at this commit,
check it with TLC on small instances, and prove its safety with TLAPS for every
value of the constants. `PROJECT.json` maps each definition to the lines it
stands for, and lists the runs, the mutants, the hazards and the findings.

## 1. The system

| component | state | operations | talks to |
|---|---|---|---|
| webhook ingestion (`webhook/handler.go`, `payments/parser.go`) | none of its own: local variables of a request | `HandleMoMoWebhook` | verifier, store, notifier (`go`) |
| tier enforcement (`auth/quota.go`) | none | `TierEnforcement`, a middleware before the handler; hands it the merchant it read | store |
| verifier (`auth/verifier.go`) | secret | `CheckTimestamp`, `verifySignature`, `checkReplay` | store |
| store (`storage/`) | tables `transactions`, `merchants`, `delivery_logs`, `delivery_dlq` | one statement per method, no transactions | Postgres |
| notifier (`payments/notifier.go`) | local variables of a goroutine | `NotifyMerchant`: three POSTs, a log row each, a dead letter after the last | merchant's app, store |
| dead letter queue (`webhook/dlq_admin.go`) | none | `RetryDLQ` and the goroutine it starts, `ListDLQ` | store, notifier |
| registration and operator API (`webhook/merchant.go`) | none | create, set URL, (de)activate, set quota, list, login | store |
| API keys (`auth/middleware.go`, `apikey.go`) | none | `RequireAPIKey` | store |
| IP whitelist (`auth/ipwhistelist.go`) | list of networks, from the environment | `IPWhitelist`, a middleware before the tiers | - |
| rate limiter (`ratelimit/limiter.go`) | map of clients under a mutex | `GetLimiter`, cleanup, `Middleware`; no route uses it | - |
| reads (`handler.go`, `dlq_admin.go`) | none | one transaction, transactions by page or by order, deliveries, dead letters by page, metrics, health | store |
| portals (`web/`) | browser storage | pages over the API; `dlq.html` polls a retry | API |

All shared state is in Postgres, and no two statements are in one database
transaction. Every request and every notification is a goroutine, so what is
hard in this program is what happens between two statements: another
goroutine's statement, a change made by an operator, an error, or a restart.
Notifications are kept nowhere but in their goroutines.

What makes each part correct:

* ingestion: a payment is stored once, from a signed webhook; billed at most
  once; announced at most once and as it was stored; answered 200 only if
  stored; and, with MTN repeating, stored in the end;
* tiers: a merchant does not go past its limit (it does, and by how much is
  what we check);
* notifier: an attempt is logged, and a payment that could not be delivered is
  in the dead letter queue;
* dead letter queue: RESOLVED means received; a retry reaches the owner of the
  payment; a row in the queue can be retried, once at a time;
* whitelist: once set, an address of none of its networks gets no further, and a
  list whose entries do not parse lets nobody in;
* rate limiter: a key is served its rate and a burst, whatever the cleanup of
  idle entries does between a request's lookup and its token, and no more than
  what a deleted bucket still lacked besides;
* reads: a merchant sees its own rows, all of them when it turns pages while
  rows arrive, and nothing older than its question;
* the whole: an app hears only of payments that MTN signed, that are stored and
  are its merchant's, and each such payment is heard of or quarantined.

## 2. The modules

| module | what it is |
|---|---|
| `Store` | the rows and the queries that more than one module uses, as operators over the tables' contents |
| `PaymentLedger` | the abstract specification: entries recorded, announced, acknowledged, with none of the machinery |
| `DeadLetters` | the abstract specification: payments tried, heard of, and quarantined when three tries were spent |
| `Ingestion` | the webhook route with its middleware and handler, and the operations that change a merchant's row |
| `Delivery` | `NotifyMerchant` and `RetryDLQ` |
| `Paykit` | `Ingestion` and `Delivery` composed: one store, one process, the webhook's handler launching the notifier |
| `TokenBucket` | the abstract specification of a limiter: a bucket for each key, remembered as long as it is used |
| `RateLimiter` | the registry of buckets, the middleware, the cleanup |
| `Reads` | the merchants' reads of payments, orders, deliveries, dead letters and metrics |
| `MCIngestion`, `MCDelivery`, `MCPaykit`, `MCRateLimiter`, `MCReads` | values of the constants for TLC |
| `IngestionProofs` | typing and the inductive invariant of `Ingestion`, and the invariants it gives |
| `BillingProofs` | `NeverOvercharged`, on top of the typing invariant |
| `LedgerProofs` | `Ingestion` implements `PaymentLedger`; who makes orphans |
| `DeliveryProofs` | typing and the inductive invariant of `Delivery`; whom a payment reaches, what RESOLVED means |
| `AuditProofs` | what `Delivery` keeps a record of: attempts and failed notifications; it implements `DeadLetters` |
| `PaykitProofs` | the composition: the inductive invariants side by side and what ties them; the properties end to end, and that `Paykit` implements both abstract specifications |
| `RateLimiterProofs` | typing, the inductive invariant and the rate of `RateLimiter`; it implements `TokenBucket` |
| `ReadsProofs` | typing and the inductive invariant of `Reads`; pages, tenants, and the age of replies |

### Ingestion

One handler of `Handlers` is one request in flight. Its `pc` is the next
statement it sends, so that everything between two statements is one step:

| `pc` | action | code |
|---|---|---|
| `idle` | `Send` | MTN posts one of `Payloads` (any of them, at any time, again) |
| `tier` | `TierEnforcement` | `ipwhistelist.go:17-65`: 403; `quota.go:13-51`: 400, 404, 429, or keep the merchant read |
| `check` | `CheckRequest` | `handler.go:50-78`: JSON, timestamp, signature; no statement is sent |
| `replay` | `CheckReplay` | `verifier.go:102-116` (`Exists`), then `FromWebhook`: 500, 200, 422, or go on |
| `insert` | `Insert` | `handler.go:114`: the row, or 500 |
| `count` | `IncrementMerchantCallCount` | `handler.go:121`: its error is logged only |
| `launch` | `Launch` | `handler.go:126`: the goroutine is started with the merchant read at `tier` |
| `reply` | `Respond` | the reply arrives or is lost |

A table is the sequence of its rows. `jobs` is what `NotifyMerchant` was called
with, in order. A payload has no bytes: its `defects` say which checks would
refuse it, and the checks look at them in the order of the code. A statement
that fails may have been committed or not (`Insert`, the counter); both are
disjuncts. `Crash` ends all goroutines at any step. `faults` counts database
errors, lost replies and crashes, and `MaxFaults` bounds it. Two history
variables: `granted` is the largest limit a merchant has had, and `abandoned` has
the payments whose handler a crash stopped between their row and their launch.
`jobs` only grows, so that a notification which a crash loses after its launch is
the concern of `Delivery` and `Paykit`. `Fresh` leaves out that the difference of
two times saturates, which takes a timestamp 292 years ahead.

The IP whitelist comes first on the route. It sends no statement, so it is part
of the `tier` step, where 403 comes before every other reply. `AllowedIPs` is a
set of networks and a network the set of its addresses: the empty list lets
everyone in, an entry that does not parse is a network without addresses, and a
caller's address that does not parse is in none.

Merchants are not deleted and transactions not updated: the code has no
statement for either.

### Delivery

A worker is either the notification of a payment or a slot for retry requests.
`Begin`, `Post`, `LogAttempt` and `EnqueueDLQ` are `NotifyMerchant`; `Request`,
`GetDLQ`, `MarkDLQRequeued`, `LoadMerchant`, `LoadTransaction`, then
`NotifyMerchant`'s steps and `ResolveDLQ` are a retry with its goroutine. The
sleep between attempts needs no step, since anything can come between any two
steps. `Launch` is given the URL that `TierEnforcement` read, which may not be
the merchant's URL any more; a transaction that `Insert` gave no id has `NoId`.
`Post` covers a 2xx, another answer, and no answer within 10 s; in the
last two the app may have taken the payment.

Three lines of the program keep its two delivery tables empty, or out of reach:

* `Store.Insert` has no `RETURNING id`, so the webhook path's transaction has
  ID 0 and every row that names it breaks a foreign key;
* `NotifyMerchant`'s log row has no `MerchantID`, with the same effect;
* `GetDLQ` scans `resolved_at` into a `time.Time`, which fails on NULL, the
  value in every row that is not RESOLVED.

With them the retry code can hardly be reached, though it is written and
documented. The variable `build` is the set of these lines that are corrected:
`{}` is the program as it is. `Delivery` checks both builds side by side, and
the findings say which build shows them.

### Paykit

`Paykit` extends `Ingestion` and has an instance of `Delivery` whose payments
are the rows a webhook can make (`provider_tx_id` makes a stored one unique),
whose merchants' URLs and activity are the columns of `Ingestion`'s table, and
which shares the counter of faults. `Notify` joins the two at the one place
where the program does: `Ingestion!Launch` and `Delivery!Launch` in one step,
with the row that the handler stored and the URL it was given. `Stop` is a crash
of both at once. Every other action is one component's, the other unchanged.
Merchants have registered before the first webhook.

### RateLimiter

A request is two steps, as in the code: `GetLimiter` looks its bucket up under
the registry's mutex, `Allow` takes a token of the bucket it holds when the
mutex is free again. `Cleanup` deletes idle entries at any moment, `Restart`
loses them all. `limiters` has every `rate.Limiter` made, so that a request can
hold one that is no longer registered. `rate.Limiter` is a library: its bucket
refills one token per unit of time, which is 1 / rps. `clock` is the time, and
no request takes longer than `MaxHold` from lookup to token. Of `MaxHold`, the
time between two adjacent statements, `TimingAssumption` says that it is at most
the idle timeout, which `NewRegistry` fixes at 1 h. Nothing is assumed of `rps`
and `burst`, which it does not compare with that hour: with one request a minute
and a burst of 90 an entry is deleted before its bucket is full. What a key can
get by it is `Windfall`, the most that a bucket can lack after `Patience`, the
idle timeout less `MaxHold`; `lapses` counts the deletions. In `TokenBucket` a
bucket is filled at once by a restart, one for each of `RateLimiter`'s, and by a
`Lapse`, which asks that no request of the key has been served for longer than
`Patience`; otherwise only by time.

### Reads

Reads change nothing, so one client of `Clients` at a time is enough: it turns
pages of payments or of dead letters, as `transactions.html` does, or looks
things up. Around it rows are added, delivery logs written, dead letters change
their status, and the merchant is switched. `RequireAPIKey` is a statement and
step of its own, and `GetDeliveryLogs` has a second one after the owner check.
`NewestFirst` gives every order Postgres may return for `ORDER BY created_at
DESC`: rows of one instant come in any order. A row becomes visible when its
statement commits, with a `created_at` that may be older than rows already
there. A list that breaks off without an error of `Query` is a short page,
since `rows.Err()` is looked at nowhere.

Three lines make reads fail, or find nothing, that should not: `GetByID` does not
select `merchant_id`, so the owner of a payment is told 404; `ListDLQ` scans
`resolved_at` as `GetDLQ` does; and the log row without a merchant is refused, so
that there are no deliveries to read. `build` has the same part here as in
`Delivery`, and `known` is a history variable: what the tables held about a
request when it was sent.

## 3. The runs

| run | expects | instance |
|---|---|---|
| `IngestionSafety` | pass | 2 handlers (symmetric), 7 payloads of 3 payments of one merchant (repeated, re-reported with another status, forged, without an id, from an address that is not allowed; the third payment unfit for its column), one network and one entry that does not parse, limits 1 and 2, 1 fault |
| `IngestionLiveness` | pass | 2 handlers, 2 payloads (one of them sent too early), 2 URLs, a clock of 2 instants, 1 fault, fairness |
| `Paykit` | pass | 1 handler, 2 merchants, 1 payment reported for both and forged for one, 2 URLs, 1 retry slot, 1 retry, 1 fault, the repaired build, fairness |
| `Delivery` | pass | 1 payment, 2 merchants, 2 retry slots, 2 retry requests, 2 URLs, 1 fault, both builds, fairness |
| `RateLimiter` | pass | 2 requests (symmetric) of 3 callers, two of them of one key, a burst of 3, an idle timeout of 2, a request of 1 unit of time at most, 3 units of time, 1 restart |
| `Reads` | pass | 4 payments of 2 merchants and 2 orders, 3 dead letters, pages of 1 and 2 rows, with and without a filter, 3 instants, 1 fault, both builds |
| `QuotaRace` | violation | 2 handlers, 2 payments, no fault |
| `DuplicateRefused` | violation | 1 handler, 1 payment, no fault |
| `FrozenStatus` | violation | 1 handler, PENDING then SUCCESSFUL, no fault |
| `Unquarantined` | violation | the program as it is, no fault |
| `ConcurrentRetry` | violation | corrected build, 2 slots, no fault |
| `StuckRequeued` | violation | corrected build, 2 slots, 1 retry, no fault |

Why the bounds are enough. Two handlers give each race in this code: each of
them is between one handler that has read and one that has written, and the
theorems of section 5 hold for any number. Two payments are needed to go past a
limit of 1. One fault at any step is enough to separate what a fault does from
what two do together only by repetition; no code path counts faults. Two retry
slots and one dead letter are the smallest instance of two retries of one row,
and a failed retry adds a second row. `Window = 0` and a clock of two instants
make a payload early, fresh and stale. `Paykit` has one handler: races of
handlers are in `IngestionSafety` and proved for any number; what is new in the
composition is between one handler, a notifier, a retry and the operator. The
limiter's clock lets an entry be made, used, found idle, deleted with two of its
three tokens and made again. The property on rates is exact as long as nothing is
deleted; a deletion gives a token less than `Windfall` here, where time is in whole
units, and up to `Windfall` in fractions of them. Three dead letters and pages
of one row let a row arrive between any two pages, before and behind them.

Deadlock is not checked: a system with nothing to do, all bounds used up, stops.

### What the passing runs show

`QuotaOvershootBounded`: with *n* handlers a merchant can go past the largest
limit it has had by at most *n - 1* calls; with one handler never.
`NeverOvercharged`: calls counted, plus the ones about to be, are at most the
rows stored, whatever MTN repeats and whatever fails. `AcknowledgedIsRecorded`,
`OneNotificationPerTransaction`: as their names say, under races of duplicates.
`OrphanedByFaultOnly`: a recorded payment that nobody will announce comes only
from a crash that stops the handler which holds it, or from an INSERT whose
commit is not heard of; a handler that survives goes on to the launch, with an
error of the counter too. `RefinesLedger`: `Ingestion` implements
`PaymentLedger`. `EventuallyAcknowledged`: a payload that stays acceptable
(signed, fresh, its merchant active and below its limit) is answered 200 in the
end, which needs the replay check's 200 when the first answer was lost.
`RecordedIsAnnounced`: a handler that has stored a payment gets to its launch, an
error of the counter notwithstanding, unless a crash stops that handler.
`ResolvedWasReceived`: no interleaving of two retries, late answer, crash or
failed statement marks a payment RESOLVED that its app never got.
`DeliveredToOwner`: whoever asks for which row. `AttemptsAudited`,
`FailedIsQuarantinedOnceRepaired`, `ReceivedOrQuarantined`: once the lines above
are corrected, every attempt is logged and every failed notification is in the
queue, but for faults. `RefinesDeadLetters`: the notifier, its retries and their
faults together do what README.md:54 says in a sentence. A dead letter has cost
three POSTs that no other dead letter has cost, however many goroutines post the
same payment; it is RESOLVED only when one arrived, though `MarkDLQRequeued` may
reopen it later.

`HeardIsGenuine`, from one end to the other: what an app was told is stored,
SUCCESSFUL, its merchant's, and came signed, though the row is checked in one
module and posted in the other, and a forgery and another status for the other
merchant are around. `HeardIsBilled`: no payment is heard of that is not
counted, but for faults. `StoredIsSettled`: a stored SUCCESSFUL payment reaches the app or the queue,
unless there was no URL when it came in, or a fault.

`HeldIsRegistered`: the cleanup never takes the bucket from under a request.
`BurstPlusRate`: the rate holds from the start to any moment, with one more
burst for each restart, since buckets live in memory, and one windfall for each
deletion of the key's entry, of which there is at most one in each idle timeout.
`RefinesTokenBucket`: nobody can tell that entries are deleted and made again,
but by a bucket that is full although the key was unused for only `Patience`.

`PagingComplete`: pages that count from a moving start still show every row
that was there at the beginning, because rows are never deleted and new ones
only push old ones to later pages; the exceptions are rows of one instant, whose
order is not determined, and a page an error cut short. `OwnRowsOnly`:
isolation of tenants. `ReplyIsCurrent`: no reply is older than its question.
`OwnerCanReadOnceRepaired`: who asks for an order that it has a payment of is not
told 404, and, with `merchant_id` selected, neither is who asks for its own
payment or for its deliveries, though there are none yet.

### Findings

| run | the code | the documentation |
|---|---|---|
| `QuotaRace` | the limit is read at the door and raised four statements later | README.md:286, ingestion is paused at 100% |
| `DuplicateRefused` | a duplicate is answered 429 once its merchant is at its limit | PROJECT_OVERVIEW.md:85, duplicates are answered 200 |
| `FrozenStatus` | a transaction keeps its first status; SUCCESSFUL after PENDING is answered 200 and dropped | USAGE_GUIDE.md:323, a notification after every successful payment |
| `Unquarantined` | the dead letter of a webhook's notification breaks a foreign key | README.md:71, failed deliveries are quarantined |
| `ConcurrentRetry` | two retries of one row run together | dlq_admin.go:91, marked so that it is not retried concurrently |
| `StuckRequeued` | a row marked REQUEUED whose merchant could not be loaded stays so, and the portal offers no retry | README.md:71, retryable from the portal |

`StuckRequeued` has no fault in it: an operator's deactivation is enough. A crash
or a database error after `MarkDLQRequeued` leaves the row in the same way.

Other disagreements met on the way, with no run: the comment at store.go:336
says `MarkDLQRequeued` moves a row "back into PENDING", and the statement writes
REQUEUED (no statement of the program writes PENDING into the queue, so that
`DLQRow` of `Delivery` and `DLQStatus` of `Reads` are without it); the comment at
dlq_admin.go:113 says a retry makes no new dead letter, and `NotifyMerchant`
makes one; an order shows its latest payment, so that one that was paid reads
`paid: false` after a later attempt failed; `GetByID` does not read `merchant_id`, so an owner gets 404 for
`/transactions/:id`, which handler.go:140 says is scoped to it
(`OwnerCanReadOnceRepaired` names the repair); the order search of
transactions.html expects a list under `data` and is sent one object, so it
shows no transaction; the README speaks of `/admin/dlq` and the routes are
`/dlq`; nothing resets the counters TERMS.md:39 says a job resets;
`DLQRetriesTotal{success}` is raised before the outcome is known, and
`DLQEnqueuesTotal` whether or not the row was stored.

## 4. Fairness

`Ingestion!FairSpec`: each handler is weakly fair, since a goroutine that can
run does; a fault takes one of the steps a statement may end in. `Send` is
strongly fair for each payload not answered 200: MTN repeats it (handler.go:86),
and it can do so whenever a handler is free, again and again but not always.
`Delivery!FairSpec`: each worker's goroutine is weakly fair.
`Paykit!FairPaykit`: each handler and each worker is weakly fair, and MTN need
not send anything, since the promise begins with a stored payment. `RateLimiter`
and `Reads` have safety properties only. Nothing is assumed of operators, of the
clock, of merchants' apps, of retry requests, or of faults, which are bounded by
`MaxFaults`.

## 5. The proofs

### Ingestion

For any constants that meet `PayloadsAssumption`, `BoundsAssumption` and
`HandlersAssumption` (a finite, non-empty set of handlers; a limit of at least
one, as the binding `min=1` in merchant.go and the default of 1000 give).

* `TypeCorrect`: `TypeOK`, by way of `TypeInv`, which adds that a handler past
  `Send` holds a payload and one past `tier` holds an id of a registered merchant.
* `NotifiedOnce`, `AcknowledgedRecorded`: from `IInv`, the conjunction of
  `TypeInv` and `SafetyInv`. Neither is inductive as it stands:
  * two notifications of one transaction are excluded because its row is there
    from `Insert` on and unique, so only one handler can be between `Insert` and
    `Launch` for it, and none once it is in `jobs`: `SafetyInv` says so;
  * a 200 in a handler's hands is only there for a stored transaction
    (`Established`), so that its arrival is covered.
* `QuotaOvershoot`: from `TypeInv` and `QuotaInv`, which adds that `granted`
  bounds every limit in force. Admitting a handler finds the counter below the
  limit; the bound counts admitted handlers with the calls already counted, so
  that counting a call leaves the sum alone.
* `BilledOnce`: `NeverOvercharged` counts the calls about to be counted with the
  calls counted, and is inductive given `TypeInv`: `Insert` adds one to both
  sides, `IncrementMerchantCallCount` adds one at most where it takes one away.
  `TypeInv` is needed for a new merchant: no handler can be counting for it.
* `ImplementsLedger`: `Spec => RefinesLedger`; `Insert` is `Record`, `Launch` is
  `Announce`, a 200 that arrives is `Acknowledge`, and all else stutters. It uses
  `IInv` for `Announce`, whose entry must be in the table and not announced, and
  `AllowedInv`, that a request past the door came from an allowed address.
* `OrphansComeFromFaults`: the action property, one case per action; `Insert`
  adds an orphan when its commit is not heard of, and `Crash` makes orphans of the
  payments it writes into `abandoned`. The counter's step adds none, whether its
  statement fails or not.

### Delivery

For any constants that meet `PaymentsAssumption` and `SettingsAssumption` (a
finite set of retry slots, none of them a payment), any set of builds, any
number of faults. `DeliveryProofs!IInv` ties what a worker holds to the payment
it delivers (`WorkerInv`): a job belongs to the owner of its payment and is
stored under that payment's id or none; a retry past `GetDLQ` has a row of the
queue that is the asking merchant's and whose payment its job has; a worker that
takes a POST for answered has reached the app. The queue's rows belong to the
owners of their payments (`QueueInv`) and only change their status
(`QueueEvolves`), so a step of one worker leaves the others' part alone
(`WorkerKept`). None of the properties is inductive without it: `ResolveDLQ`
marks a row that `GetDLQ` found four statements earlier.

* `DeliveryTypeCorrect`, `OnlyOwnersHear`, `ResolvedMeansReceived`: conjuncts of
  `IInv`.
* `QuarantinedOnceRepaired`: inductive given `IInv`, which says that the row's id
  is the payment's, and that a notification can only end by a 2xx, by not being
  due, or by `EnqueueDLQ`.
* `EveryAttemptAudited`: POSTs made are rows plus workers about to log; a POST
  adds a worker to the second, a log row moves it to the first.
* `OnlyLaunchedHeard`: whatever an app hears of was launched by a webhook's
  handler and is SUCCESSFUL. It needs `LaunchedInv`, since a retry gets its
  payment from the queue: what workers hold and what the queue names has been
  launched.
* `ImplementsDeadLetters`: `Post` is `Try`, a row of `EnqueueDLQ` is
  `Quarantine`, `MarkDLQRequeued` is `Reopen`, `ResolveDLQ` is `Resolve`, and all
  else stutters. `Quarantine` asks for three tries that no other dead letter has
  used, which no single worker can tell. `PaidInv` counts them: the POSTs of a
  payment are at least three for each of its rows, plus the ones that each
  worker has made towards a row of its own. A POST adds one to both sides,
  `EnqueueDLQ` trades a worker's three for a row's three, and a crash, a 2xx or a
  refused row only gives up what was paid.

### RateLimiter

For any constants that meet `CallersAssumption` and `TimingAssumption`. `IInv`
says that a request holds the registered bucket of its key, seen since the
request came, and came at most `MaxHold` ago (`HeldInv`); that no two keys have
one bucket (`OneBucketEach`); and that a bucket was used at most `MaxHold` after
its entry was last seen (`LastUse`), so that when the entry is idle nobody has
used it for longer than `Patience`, and it lacks `Windfall` at most.

* `LimiterTypeCorrect`, `HeldStaysRegistered`: from `IInv`.
* `ImplementsTokenBucket`: `GetLimiter` leaves every level as it was, `Allow`
  takes one token of one key, `Tick` refills, `Cleanup` is a `Lapse` of the idle
  keys, `Restart` a restart.
* `RateKept`: inductive given what the steps do to a key's level; `LapseInv`, an
  entry was last seen no earlier than as many idle timeouts as its key has
  lapses, bounds the deletions.
* `QuickBucketsGiveNothingAway`: if `MaxHold + Burst <= IdleTimeout`, `Windfall`
  is 0, and the burst and the rate are all that a key gets.

### Paykit

For constants that meet the assumptions of `Ingestion` and `NotifierAssumption`
(a finite set of retry slots that are not payments, builds out of the three
repairs), any number of handlers, merchants, payments and retries.
`PaykitProofs` extends the proofs of `Ingestion` and has an instance of those of
`Delivery`: a step of `Paykit` is a step of one component and, for the other, a
step of its environment, which may change the merchants' columns and the counter
of faults and nothing else (`Environment`). `PaykitInv` is the two inductive
invariants and what ties them:

* `LinkInv`: a goroutine that has been used belongs to a job that a handler has
  launched, and every job is of a signed webhook;
* `CountedInv`: for each merchant, the jobs launched or about to be are at most
  the calls counted plus the faults. `Launch` turns a handler into a job, and
  only a failed `IncrementMerchantCallCount` brings one to `launch` uncounted.

From it:

* that the composition never refuses a launch (`AtLaunch`): had the goroutine
  been used, the transaction would be in `jobs`, which `SafetyInv` excludes at
  `launch`.
* `HeardGenuine` (`HeardIsGenuine`): what was heard of was launched
  (`LaunchedInv`), so it is a job (`LinkInv`), so it is signed and stored.
* `HeardBilled` (`HeardIsBilled`): deliveries map one to one to jobs, and jobs
  are counted.
* `PaykitBilledOnce`, `PaykitDelivers`: `NeverOvercharged`, `ResolvedWasReceived`
  and `DeliveredToOwner` hold of the composition too.
* `PaykitImplementsLedger`, `PaykitImplementsDeadLetters`: it implements both
  abstract specifications; a step of the notifiers leaves the ledger alone, and
  a step of the handlers leaves the queue alone. That it implements `Delivery`
  itself would be false: a fault of the webhook path counts in the shared
  counter and is no step of `Delivery`.

### Reads

For constants that meet `RowsAssumption` (the rows of a table have different ids,
a payment one of the statuses of `TxStatus`, a dead letter the FAILED that
`EnqueueDLQ` writes; `ListDLQ` has no filter), any rows, even infinitely many that
may become visible one by one, in any order; any instants, clients, page sizes,
faults and builds.

* `TenantsIsolated`, `RepliesAreCurrent`, `OwnerReads`, `ReadsTypeCorrect`: from
  `RequestInv` (a request is at a statement of its own handler, and has no reply
  before the last), `ShownInv` (what was listed is there and the client's),
  `KnownInv` (what was there when the question was asked still is) and
  `ReplyInv`. An order with a payment has a latest one (`LatestExists`), by the
  well-foundedness of strict inclusion among the finite sets of later ones.
* `PagingIsComplete`: the list is the merchant's rows in an order that Postgres
  is free to choose among rows of one instant, and every statement may choose
  anew. So the proof does not follow positions but counts: a row that shares its
  instant with no other stands behind exactly the rows newer than it
  (`Position`). `AheadInv` says of each row that the client has still to be
  shown that at least as many are newer as the pages turned have held; newer rows
  are only added (`RowsEvolve`), so the row is on this page or a later one,
  never on one that is over. A page that is short reaches the last row, and
  nothing is left.

### What is only model-checked

The four liveness properties (`EventuallyAcknowledged`, `RecordedIsAnnounced`,
`StoredIsSettled`, `ReceivedOrQuarantined`): they need fairness and ENABLED, which
are out of the prover's reach. Every safety property, action property and
refinement that a passing run checks is stated by a theorem. Nothing in the proof
modules or the modules below them is recursive.

## 6. Not modelled

Header parsing, the generation of keys, `Login`, the operator's list of merchants
and the health check (they change nothing), metrics, logs, the parsing of
settings, what the pages show, `main` (not in the tree), and `GetDueDLQ` (no
caller). Wording of
replies, the 80% warning, and amounts are data that no decision reads.
Postgres is external: a statement is atomic, and may fail before or after its
commit. So are MTN, the clock, and merchants' apps.

## 7. Plan

1. Done: the modules above, their runs and their theorems.
2. Done: `Paykit` and `Reads` proved, `Delivery` shown to implement
   `DeadLetters`.
3. A second retry in `Paykit`'s run, if its state space allows.
4. An abstract specification of what `Reads` shows (a page that is a moving
   window), if it says more than `PagingComplete` does.
