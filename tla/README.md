# Verification of StellarGate

StellarGate is a payment gateway for the Stellar network. A merchant creates a
payment *intent* over HTTP; background tasks watch the gateway account's
payment history on Horizon, credit what arrives to the intent its memo names,
complete or expire the intent, and tell the merchant by a signed webhook. All
durable state is in one SQLite database; several tokio tasks and any number of
HTTP handlers work on it concurrently, with no transaction around most of their
read-then-write sequences. That is where the difficulty is, and what these
modules are about.

Paths below are relative to the repository (`src/` is its Rust crate).

## Inventory

| Component | State | Operations | Interacts with | Correct when |
|---|---|---|---|---|
| Poller, stream, reconcile (`src/horizon.rs`) | cursor in `kv_state`, page and record in memory, SSE connection | start, fetch a page, reconcile a record, checkpoint; connect, receive, drop | ledger, payments, webhook rows; each other through the database | each transaction credited once, nothing skipped, completed only when funded, one outcome per intent |
| Expiry sweeper (`src/expiry.rs`) | intents retired and not yet told | sweep a batch, tell | races settlement for the status | overdue intents end; no intent ends twice |
| Ledger and payments (`src/db.rs`) | `payments`, `processed_transactions` | guarded updates, insert-or-ignore, sum, backfill at start | everything | guards make concurrent writers safe |
| Webhooks (`src/webhook.rs`) | `webhook_deliveries`, senders' copies of a row | dispatch with inline retries, redrive, manual redelivery, requeue | receiver, retention | nothing stranded, nothing forged, senders kept apart |
| Retention (`src/retention.rs`) | batch progress | prune, compact | delivery rows, idempotency keys | no evidence of a lost event destroyed |
| Creation (`src/api/payments.rs`) | `idempotency_keys`, memo index | look up, reserve, wait, draw memo, mint | retention, settlement (memos) | one intent per key, unique memos, nobody waits for ever |
| API keys (`src/api/mod.rs`, `src/db.rs`) | `merchants`, `api_keys` | provision, issue, revoke, authenticate | every handler | no merchant locked out, revocation immediate |
| Supervisor (`src/supervise.rs`, `src/lib.rs`) | worker, delay, `TaskHealth` | spawn, join, back off, restart, drain | every background task, `/health`, `main` | failed workers replaced, clean exit, honest probe |
| Readiness (`src/api/mod.rs`, `src/horizon.rs`) | time of the last poll or stream record, the poller's delay | poll, fail, back off, beat, answer `/ready` | supervisor, Horizon's `Retry-After` | a healthy poller is ready, an outage heals |
| Rate limits (`src/api/mod.rs`) | a limiter for each bucket and client in a cache | find the client, look up, admit or reject, expire, evict | every request, trusted proxies | each client pays for its own requests, the headers tell the truth |
| Listings (`src/api/payments.rs`, `src/db.rs`) | cursor in the client's hands | page by cursor or offset, count, filter | inserts, settlements, retention | nothing skipped, repeated or leaked |
| Probes and metrics (`src/lib.rs`, `src/metrics.rs`) | five maps behind mutexes, a histogram of atomics | mark, snapshot, scrape | supervisors, deliveries | no deadlock, figures that fit together |
| Start (`src/main.rs`, `src/config.rs`, `src/db.rs`) | the database file and the environment | validate, migrate, pin issuers | everything afterwards | a half-done migration is completed, nothing undone |
| StrKey (`src/strkey.rs`) | none | validate an account address | configuration | a typing error is refused |
| Money (`src/money.rs`) | none | parse, format | creation, reconciliation, answers | a text is the amount it denotes |
| Dashboard (`static/`) | browser | | API | not modelled |

What is hard here: two reconcilers on one record; values read before an await
and written after it (a total, a count, a delivery's attempts); a process that
dies between two statements; statements that fail and are only logged; time
windows that have to outlast other time windows; waiting for somebody who died;
figures read one by one while they change; a page boundary among rows that move.
`PROJECT.json` lists each such place at its line under `hazards`.

## Modules

| Module | Models | Notes |
|---|---|---|
| `HorizonPayments` | records, intents, `verify`, the ledger's insert and sum | constants and pure operators shared by settlement and its proofs |
| `Settlement` | poller, stream, sweeper, restart over the database | EXTENDS `HorizonPayments` |
| `IntentLifecycle` | abstract specification: an intent is decided at most once, and told that outcome at most once | `Settlement` refines it (`ImplementsLifecycle`) |
| `WebhookDelivery` | dispatch, redrive, manual redelivery, requeue, retention | time in ticks |
| `PaymentCreation` | `POST /payments` after validation | |
| `ApiKeys` | provisioning, rotation, authentication | |
| `SupervisedTasks` | the tasks main spawns, which of them are required or have nothing to do | constants shared by `Supervisor` and `Probes` |
| `Supervisor` | `supervise_with`, `TaskHealth`, `/health`, shutdown | EXTENDS `SupervisedTasks` |
| `Readiness` | `run_poller`'s delays, the heartbeat, `/ready` | EXTENDS `Supervisor`: the poller is one of its workers |
| `Probes` | `/health` and `/metrics`, mutex by mutex and atomic by atomic | EXTENDS `SupervisedTasks` |
| `Listing` | the three paginated listings | |
| `RateLimit` | `rate_limit_middleware` | governor and moka are external |
| `Startup` | `Config::from_env`, `migrate`, `backfill_asset_issuers` | takes `ValidAccountId` as a constant |
| `StrKey` | `validate_account_id` | `MCStartup` gives it to `Startup` |
| `Money` | `parse_stroops`, `stroops_to_string` | checked against `Denotes` |
| `SettlementProofs`, `WebhookDeliveryProofs`, `PaymentCreationProofs`, `ApiKeysProofs`, `ReadinessProofs`, `RateLimitProofs`, `StartupProofs`, `ListingProofs` | theorems about the module each is named after, and, in `ReadinessProofs`, about `Supervisor` and `Probes` | each EXTENDS what it is about; see Proofs |
| `MC*` | TLC instances | |

Definitions named "Mutant" are deliberate mistakes, one per property, that show
the property can fail; no specification uses them.

### Settlement

Every SQLite statement is one atomic step. A worker's program counter walks
through `reconcile_payment`: `lookup` (`find_pending_by_memo` and `verify`),
`record` (`record_processed_tx`), `sum` (`sum_processed_stroops`), `settle`
(`update_payment_status`), `dispatch` (the insertion of the delivery row).
Between any two of these another task may move. The poller wraps this in
`PollStart`, `PollBaseline` and `PollKeep` (the three awaits of
`starting_cursor`), `PollFetch`, `PollRecord`, `PollCheckpoint`; the stream in
`StreamConnect`, `StreamRecord`, `StreamDrop`; the sweeper is `ExpireOverdue`
and one `DispatchExpired` per retired intent. `ReconcileError`,
`CursorError`, `PollOutage` and `ExpiredNoticeError` are the failing
statements and requests the code logs and survives. `Restart` is the death of
the process: memory is lost, and `migrate` runs its backfill again. The payers
(`Land`) and the clock (`Tick`) are the environment. Two history variables say
where polling began: `baseline.first` at the very first poll, and
`baseline.kept` at the cycle that saved the first cursor. They differ when an
account was empty at first: its cycle begins at "0" without saving that.

Abstractions: amounts are stroops; a record is its fields as `verify` reads
them; every intent has a webhook URL (without one nothing is recorded); a
record always has a transaction hash; the stream is enabled beside the poller,
which is the configuration with the most interleavings. A worker is done once
the delivery row is inserted: what becomes of the row is `WebhookDelivery`.
Memos of open intents are assumed distinct; `MemosDistinct` of
`PaymentCreation` is what discharges that.

### WebhookDelivery

`Dispatch` inserts the row and starts a job; jobs go through resolution of the
target, the request and, inline, the sleep before the next attempt, each with
its longest duration. `RedriveList` applies the window of
`list_redrivable_deliveries`, any jitter allowed. `Update` writes by id alone,
as the code does. The configuration's own validation (`validate_timing`) is
`ValidTiming`, assumed of the constants, so that the runs check configurations the program accepts.
An attempt the SSRF guard blocks writes its row too, and like the code ignores
whether that succeeds.
`EmptyAccepted` says whether the receiver answers 2xx to an empty body. Idle
time and age saturate at the largest value the code compares them with. The
redrive interval is not modelled: a pass may come at any time.

### PaymentCreation

A request is identified with the UUID it draws. A key stands for a merchant and
an `Idempotency-Key`. `Drop` is a request that fails or is cancelled at an
await, `Crash` the end of all of them. `PruneKey` waits until no request of the
key is active, since retention works in days and a request lasts seconds.

### ApiKeys

Operators and clients each run one call at a time per member of `Operators` and
`Clients`, and may be dropped. The merchant-and-first-key transaction is one
step. `used` records that `last_used_at` was set; its throttling to one write a
minute is not visible to any property. `GET /payments/:id` is here because it
authenticates by itself: `GetPayment` reads the row, `LookUp` the key, and only
then does `Serve` choose between the full and the public view, so that a
revocation can fall in between. `ViewUnknown` is a payment that does not exist.

### Supervisor

The test of the shutdown flag and the spawn are two steps, so that the signal
can fall between them; the select is biased as in the code (signal, stability
timer, join). `Disabled` are the workers the configuration gives nothing to do.
`fatal` is allowed for every worker, though only the stream listener returns it
today.

### Readiness

Composes the supervisor with the poller's loop: a cycle runs only while the
poller's worker is alive, a panic ends the cycle, a restart begins with a sleep.
After a failure the delay is what Horizon's `Retry-After` says, or any value the
jittered backoff can give. The stream's records beat as well, while its worker
lives or, where that worker is not among `Tasks`, as in the run, at any time. The age of the heartbeat saturates just past the window, and the
supervisor's own delays are not timed: a restart may take any number of ticks.
The pings of the database and of Horizon are taken to succeed.
Nothing is assumed about the length of a cycle: it may issue 25 requests of up
to 30 seconds each, against a window of 30 seconds by default. `Overlong` is a
cycle that has taken longer than the window less one interval.

### Probes

`Supervisor` changes its health map in one step; here each statement takes the
mutex it needs, and an accessor of `TaskHealth` takes several, one by one, in
the order of the code. A handler is the list of accessors it calls, a request
the number of them it has done. A delivery bumps the histogram's atomics, least
first, and a scrape loads them in program order. The
code asks for relaxed ordering only, so the histogram's property is about the
order the code is written in, not about the memory model. `quiet` records that
no delivery touched the histogram during a request: only such a scrape has to be
exact. `Report` is what a supervisor tells `TaskHealth`, statement by statement.

### Listing

Ids are ranks, because the code compares the texts of random UUIDs; `created_at`
has whole seconds and is stamped before the insert, so that a new row may land
anywhere in the order, also behind the cursor. The page and the optional total
are two statements. A walk is one client going through one listing to its end, by cursor or by offset; `steady` is the set of
rows that matched from its first page to its last. The cursor is modelled by its
parts and by how `decode_cursor` takes them apart.

### RateLimit

Time is counted in ticks, a limiter is the debt governor's algorithm keeps. No
await lies between the lookup of a limiter and its check, so they are one step;
idle expiry and eviction can come between any two requests. The client writes
what it likes into the forwarding headers; the request then reaches the gateway
directly, through one proxy or two that append to `X-Forwarded-For`, through one
that adds a header line of its own (the code reads the first line only), or
through one that sets `X-Real-IP` alone. `passedOn` marks a request whose written
header arrives where `client_ip_key` looks first, and `strayed` the keys such
requests touched, until their debts have decayed.

### Startup

The database begins as one of the earlier schemas left it. Each statement of
`migrate`, each row of the ledger's backfill and each entry of the issuer
backfill is a step, and the process may die before any of them. Timestamps are
their forms: with a space, with a `T` and no `Z`, and RFC 3339. The migration
rewrites the first into the last and leaves the second alone, which still sorts
by date; indexes are left out. `sound` stands for the configuration checks about other variables. While
the process serves, it creates intents and merchants and revokes keys, so that
the next start finds rows written by this version too.

### StrKey and Money

Pure algorithms. An address is its base32 digits and has eight characters
instead of 56: the code paths (five bits into eight, checksum over the payload,
little-endian comparison) are the same. `MCStartup` mistypes a valid address in
every way that changes one character or swaps two neighbours, and no such slip
may ever be served. `Money` types every text character by
character and compares parser, stored row and formatter with `Denotes`, a
definition of the amount that does not follow the parser.

## Runs

| Run | Shows | Bounds and why they suffice |
|---|---|---|
| `settle_races` | nothing is credited twice, completed below its price, decided or told twice; a restart credits nothing; only a failing statement lets the cursor pass a payment, and without failures every race settles what the ledger covers; the inductive invariant of the proofs; refinement of `IntentLifecycle` | one intent of price 3 paid 1+3+2: under, over and late; one crash, one failing statement and one outage, each at any point; page limit 2, so that three records need two pages |
| `settle_live` | payments and nothing else are credited, funded intents decided, overdue ones retired | two intents, sweeps of one; another issuer's token and an operation that is no payment before the two parts of the price; pages of one record and one page a cycle, so that the backlog takes several cycles; one outage; no crash, since a crash really can leave a funded intent open (see below) |
| `settle_first` (violation) | an account that was empty at the first poll: after an outage before the first checkpoint the next cycle begins past the payment that came meanwhile | pages of one record, one outage, nothing else goes wrong |
| `webhook_senders` | no pending row is stranded; the grace window keeps dispatch and redrive apart; a row that kept its payload is delivered only if heard; what retention deletes was heard, acted on or compacted; every recorded delivery is delivered or runs out of attempts | one delivery, all three senders, requeue and retention, every disturbance once; grace above the worst case plus a resolution; rows age out within a few ticks and the receiver accepts empty bodies, the case the exception for compacted rows is about. Deliveries share only the redrive permit and the batches; the safety properties are proved for any number of them |
| `create_races` | unique memos; one intent per key while its mapping stands; a dead request does not wedge its key; every request ends | three requests, each with or without the key; two memos, so that draws collide; one prune |
| `keys_races` | a key is reported revoked once and admits nobody afterwards; the full view of a payment goes to its merchant; revocations that do not overlap leave a key | two merchants, four keys, two operators, a client |
| `tasks` | a clean exit leaves no worker; the liveness map is right; a poller that succeeds is ready but while a cycle is overlong; faults are repaired, `/health` recovers from a crash loop and `/ready` from failed polls, shutdown drains | the poller and a disabled task; two faults and a crash-loop threshold of two, so that the loop is reached and left; a window of two intervals and cycles of up to two ticks, so that overlong ones happen; a `Retry-After` longer than the window, two failed cycles |
| `probes` | no cycle of waits for the mutexes; the counts of one answer fit together and the undisturbed scrape is cumulative | two tasks, one disabled; two requests, either handler; one delivery and one bucket bound, so that a latency falls on each side |
| `list_walks` | a walk returns the caller's rows only, every row that stayed, none twice by cursor; a total covers its page | three ids over two seconds, so that ties occur and a page ends within one; limits of 0, 3 and none against a maximum of 2, so that clamping happens at both ends; two changes, so that a row fails, then leaves the filter or is pruned |
| `limits` | every request is charged to the client that sent it unless a proxy passed its header on; `Retry-After` and `X-RateLimit-Reset` hold | two clients in one bucket and one of them in a second; headers that are absent or name the other client, the proxy and no address; a configured rate of 0; a cache of two keys and an idle time just above the time a full debt decays in |
| `startup` | what serves is fully migrated and serves the account that was meant; pinned issuers and revocations are not undone; a start gets through in the end | a fresh database and earlier ones in each form of timestamps; two deaths, so that a recovery dies too; one change of the environment; allow-lists that are empty, repeat an asset, lack an issuer, or change it |
| `values` | every text is accepted exactly if it denotes an amount, and stored and shown as that amount | texts of up to seven characters, two decimals, a largest value of 9190 that such a text can name exactly: overflow of the whole part, of the product and of the sum all happen, and the limit itself |

Every bound of a module is a constant with "bound" in its comment. The fault
budgets are small because each fault may come at any point of every
interleaving; a second fault of the same kind meets the states the first left,
which is why two are allowed where recovery itself can fail (`tasks`,
`startup`).

Deadlock is checked in every run. Settlement, delivery, key administration and
rate limiting never stop because their actors keep coming; the others have an
explicit final stutter (`AllServed`, `Over`, `Idle`, `Quiescent`, `Full`).

### Where the code and what is said of it part

Places met while modelling where a comment or document promises more than the
code keeps. The first is shown by a violation run. For each a property of a
passing run states the promise with the exact exception, so that the run shows
the exception is the only one.

| Place | The code | Said | Property |
|---|---|---|---|
| `src/horizon.rs:464` | on an empty account the cycle begins at "0" without saving it; an outage or a death before the first checkpoint makes the next cycle baseline past a payment that came meanwhile | "the first payment that ever arrives is still captured", `src/horizon.rs:429-430` | `FirstPaymentIsCaptured` is violated (`settle_first`); `OnlyErrorsSkip` from the first cursor kept |
| `src/horizon.rs:510` | a record whose reconciliation fails is passed by the saved cursor | "no record is ever skipped", `src/horizon.rs:480-482` | `OnlyErrorsSkip` |
| `src/horizon.rs:591` | a crash between recording a transaction and settling leaves a funded intent open: the retry finds the hash recorded and returns | "re-reading the unfinished page is harmless", `src/horizon.rs:522-524` | `RacesSettle` |
| `src/db.rs:1314` | a compacted delivery is sent again with an empty body, by hand or by the redrive worker, recorded as delivered, and may then be pruned | "Clearing it keeps the row (and therefore the answer to 'did this event ever get through?')", `src/db.rs:1308-1310` | `DeliveredWasHeard`, `LostIsKept` |
| `src/api/payments.rs:304` | the key's mapping is removed under a slow winner, and two intents are minted for one key | "can't both create payments", `src/api/payments.rs:317-319` | `SerialisedByKey` |
| `src/api/mod.rs:441` | two overlapping revocations leave a merchant without a key | "Refuses to revoke a merchant's last active key", `src/api/mod.rs:427` | `OnlyOverlapLocksOut` |
| `src/api/mod.rs:909` | a cycle that succeeds but outlasts the window less one interval turns `/ready` red; the defaults allow it | "a healthy poller ... always clears it", `src/api/mod.rs:903-905`; "only trips when the poller died or the stream wedged", `README.md:309` | `HealthyIsReady` |
| `src/api/mod.rs:670` | behind a trusted proxy that sets `X-Real-IP` alone, or adds a second `X-Forwarded-For` line, the header the client wrote decides which limiter is charged | "preserves per-client attribution ... without letting the proxy chain be forged", `src/api/mod.rs:651-652` | `ChargedForItsOwn` |

Smaller ones:

- two part payments may settle with totals in the wrong order, so that
  `paid_amount` of an underpaid intent lags the ledger (`src/horizon.rs:595-597`);
- a sweep may retire an intent whose price was recorded a moment before
  (`src/db.rs:690`);
- the second payment operation of one transaction is not credited (`src/db.rs:286`);
- `worst_case_inline_delivery_secs` leaves out the three seconds a resolution may
  take, so a grace window at the accepted minimum is too short (`src/config.rs:535`);
- a fatal exit is counted as a clean stop (`src/supervise.rs:155`);
- `POST /v1/payments` and `POST /merchants/:id/keys` are charged to the generous
  default bucket (`src/api/mod.rs:588`), where "write and sensitive routes get the
  base rate" (`README.md:440`);
- legacy timestamps with a `T` and no `Z`, which `src/db.rs:8` names, are not
  rewritten (`src/db.rs:336`), where the migration is said to skip "rows that are
  already RFC 3339" (`src/db.rs:321`);
- Horizon's `Retry-After` is honoured without a ceiling (`src/horizon.rs:714`),
  so the poller sleeps, and `/ready` stays red, for as long as Horizon says;
- a disabled task reads as dead between the end of its worker and its being
  marked disabled (`src/lib.rs:137-138`);
- a scrape that races deliveries may show buckets that are not cumulative, by at
  most the deliveries in flight.

### Fairness

`Settlement`: weak fairness of each task, because its loop wakes on a timer and
the supervisor restarts it; none for payers or the clock. `WebhookDelivery`:
time passes, requests end since every phase has a timeout, and the redrive
worker wakes. `PaymentCreation`: tokio polls a live request. `Supervisor`:
supervisors are polled, timers fire, workers react to the signal; a worker is
never obliged to fail, and the server never obliged to stop. `Readiness`: time
passes, and a cycle that is due runs and ends, since its requests have timeouts;
cycles may fail only as often as the bound says, which stands for an outage that
ends. `Startup`: the init system starts the process again and a start goes on
(`Boot`); deaths and edits are never obliged. The other modules state safety only.

## Proofs

TLC checks the instances above; the theorems below hold for every value of the
constants, that is for any number of intents, deliveries, requests, keys, tasks,
clients or rows and any budget of crashes and failures, under the assumptions
each module names. Every theorem has the same shape: an inductive invariant is
shown to hold initially and to be preserved by each action, one lemma per action
or per part of the invariant, and the property follows from it. No property is
inductive by itself; what has to be added is where the argument is.

| Theorem | Property | Inductive invariant |
|---|---|---|
| `SettlementProofs!Types`, `CreditedOnce`, `NeverUnderfunded`, `ToldOnce`, `RestartCreditsNothing`, `OnlyGenuineCredit`, `Final` | the safety of settlement, decided rows never change | `SettlementInv` |
| `SettlementProofs!Refinement` | `ImplementsLifecycle` | `SettlementInv` |
| `SettlementProofs!CursorIsSafe` | `OnlyErrorsSkip` | `SettlementInv` and `PollerSound` |
| `SettlementProofs!RacesAreSettled` | `RacesSettle` | `SettlementInv` and `SettlerSound` |
| `WebhookDeliveryProofs!NoRowIsStranded`, `DeliveredIsTrue`, `RetentionKeepsEvidence` | `DeliveryInv`, `DeliveredWasHeard`, `LostIsKept` | `DeliveryInd` |
| `WebhookDeliveryProofs!RedriveWaitsForDispatch` (under `GraceIsEnough`) | `GraceKeepsApart` | `DeliveryInd` and `GraceInd` |
| `PaymentCreationProofs!CreationIsSound`, `OneIntentPerKey` | `CreationInv`, `SerialisedByKey` | `CreationInd` |
| `ApiKeysProofs!KeysAreSound`, `NobodyLockedOut` | `KeysInv`, `OnlyOverlapLocksOut` | `KeysInd`, `KeptKeys` |
| `ReadinessProofs!ProbesAreHonest` | `ReadinessInv` | `ReadyInd` |
| `ReadinessProofs!ProbesNeverDeadlock`, `AnswersAreConsistent` | `ProbesInv`, `AnswersHold` | `ProbesInd` |
| `RateLimitProofs!LimiterIsSound`, `PromisesHold` | `LimiterInv`, `PromisesAreKept` | `LimiterInd` |
| `StartupProofs!ServesOnlyMigrated`, `StartsOnlyAdd` | `StartupInv`, `NothingIsUndone` | `StartupInd` |
| `ListingProofs!OnlyTheCallersRows`, `NothingIsSkipped`, `NothingIsRepeated` | `ListingInv`, `WalkIsComplete`, `WalkNeverRepeats` | `ListingInd` |

**Settlement.** `reconcile_payment` carries values across awaits. `SettlementInv`
adds what a reconciler may rely on meanwhile (`WorkerSound`: its record landed
and pays, its transaction is in the ledger once recorded, the total it read is
at most the ledger's, which only grows), the tables' agreement (`LedgerSound`:
the row's hash is in the ledger, so the backfill finds it there), and who owes a
notice (`NoticeSound`: exactly one task holds the right to tell an outcome not
yet told). Frame lemmas say which actions touch which variable. The refinement
maps each action to a decision, a notice or a stutter of `IntentLifecycle`.
For the cursor, `PollerSound` says that, unless a statement failed, every payment
between where the cycle that kept the first cursor began (`baseline.kept`) and
the poller's cursor is in the ledger or in the poller's hand, so that saving the
cursor is safe. Before a cursor is kept nothing of the kind holds (see above). For races, `SettlerSound` says that as long as nothing failed, an
open intent whose ledger covers the price has a reconciler that has yet to sum
it, or has read a sum that covers the price and has yet to write.

**Webhooks.** Senders write back a copy of the row they read earlier. `DeliveryInd`
bounds what such a copy may say: which attempt it makes, that its body is empty
only if the row has been compacted by now, and that an acceptance it is about to
write was one of the event or of an empty body.
That the redrive never sends what the dispatching task still sends is about
time: `GraceInd` bounds, for each phase of `dispatch()`, how long ago its row was
written: the one resolution, the timeouts and delays of the attempts behind it,
and the time the current phase has taken. The delays are recursive functions of
the attempt; what is needed of their sums is shown by a least counterexample
among the naturals (`Numbers`). The theorem's hypothesis `GraceIsEnough`, that
one resolution and `WorstCaseInline` are less than the window, is stronger than
what the configuration enforces (see above) and holds of the defaults (3 + 45
against 60 seconds). It is exact: with a window equal to that sum TLC finds both
sending.

**Creation.** `CreationInd` relates each request's position to its key's row: a
request that met no other has the mapping to itself (`Alone`), and while the
mapping of a key was never deleted it is what every request with that key goes
by (`Serialised`).

**API keys.** `KeysInd` says what a call in flight has read and that a key was
reported revoked once exactly if it is. For lockouts `KeptKeys` is added: a
merchant whose revocations never overlapped has a spare key while a call is past
the count, and there is at most one such call.

**Readiness.** `ReadyInd` is about the supervisor (its step, its worker and the
map agree) and about time: in a healthy stretch the age of the heartbeat plus
what is left of the sleep, and of the cycle still to come, is at most one
interval plus one cycle. The age is then at most one interval plus what the
cycle under way has taken, and past the window only if that cycle is overlong,
whatever the interval, the multiple and the length of cycles.

**Probes.** Two arguments, both for any number of tasks, requests, deliveries and
buckets. Deadlock: the mutexes have ranks, each accessor takes its own in
ascending rank (`LocksAscend`), so a request holds nothing above what it waits
for; of all requests the one that waits for the highest rank waits for a mutex
whose holder, if there were one, would wait for a higher. Answers: what a
request has been told bounds what is true now and later (`ToldOfTasks`; tasks
are disabled for good, so fewer and fewer are expected), and each atomic counts
the deliveries that have come to it, for some assignment of latencies to
deliveries (`HistogramCounts`), which makes the buckets nested sets whenever
nobody is in the middle of recording. `PanicsCounted` adds that a failure
streak outruns the restarts by at most the one about to be counted.

**Rate limits.** The main lemma is that the key the gateway derives from the
peer and the hops is the client's, whatever the client wrote into the header,
unless a proxy passed that on. A key such a request touched is excused as long as
it, or its client, still owes; after that its debt is again what its own client
was admitted to. `LimiterInd` adds that a debt decays with time and what a promise still to be
kept implies about the watched debt.

**Start.** `StartupInd` says which statements have run (`DoneBefore`) when the
start stands at a given one; every step keeps what earlier ones established,
which is also why a start that died may be repeated.

**Listings.** First the order of rows, for any set of rows and times: ranks, that
the rows of rank below `o` are `o` rows or all, and that a full page leaves
exactly the rows past its cursor. `Position` then says where a walk stands: what
was seen is not past the cursor, what stayed and is not past it was seen, and,
where rows cannot leave, the offset is no further than the rows passed. A cursor
with a tie of `created_at` in the middle of a page is inside this argument.

Assumptions: each module's own, which give types to the constants and keep
markers outside the sets they mark. Those that say more: `MemoUnique` of
`HorizonPayments`, from the unique index on memos (`MemosDistinct` of
`PaymentCreation` is the same fact proved of the creating handler);
`TimingAssumption` of `WebhookDelivery`, which the configuration enforces, and
that there are finitely many deliveries; `DecayAssumption` of `RateLimit`, that a
tick divides the interval and an idle limiter is kept for longer than a full
burst takes to decay;
`ProbesAssumption` of `Probes`, finitely many required tasks and deliveries and
ascending bucket bounds, as `LATENCY_BUCKETS_MS` has them.

Only model-checked, and why:

- liveness: every property with `~>` or fairness, which the prover does not do;
- `ServesAsMeant`: what matters is that a mistyped key fails the checksum, and
  `StrKey` takes an exclusive or from a library module the prover cannot use;
- `AmountsSurvive`: what `Money`'s recursive functions compute for every text
  needs induction over texts and facts about powers of ten that the provers
  do not have.

## Plan

1. Done: settlement, webhook delivery and retention, payment creation, API keys,
   supervision, readiness composed with the supervisor, probes and metrics under
   concurrent updates, listings, rate limiting, start and migration, StrKey,
   money, reading a payment while its key is revoked.
2. Done: theorems for every safety property of the passing runs but
   `AmountsSurvive` and `ServesAsMeant`, and the refinement of `IntentLifecycle`.
3. Open: a requeue that a stale redrive overwrites (whether a requeued delivery
   is always sent again); an abstract specification of a delivery (recorded,
   then resolved once) refined by `WebhookDelivery`; the supervisor composed
   with the settlement tasks, so that a panic is the crash of one task alone.

## Not modelled

- Syntax with no state behind it: the webhook URL's scheme and length checks,
  the SSE byte parser, most environment variables, CORS and deprecation headers.
- Payload layout and signing, and the text of the metrics page: no property is
  about wording. Counters that only grow are left out of `Probes` for the same
  reason; the histogram is in, because its parts must fit together.
- The SSRF guard's table of address ranges: a constant predicate. What it does to
  a delivery, blocking an attempt without counting it, is in `WebhookDelivery`.
- The creation of indexes and the trustline report at start: neither changes
  what is read later.
- Connection pool, HTTP clients, TLS and the tokio runtime: libraries.
- The dashboard: browser code and assets that only call the API.
