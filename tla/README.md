# A verification development of the wallet system

TLA+ models of the four Go services of this repository, TLC configurations that
check them on small instances, and TLAPS proofs of their main properties for
every value of the constants. Every definition is written from the source;
`PROJECT.json` maps each one to the lines it stands for. Paths below are relative
to `src/`.

Run everything from this directory: `tlc -config X.cfg M` with the pairs of the
table "Runs", `tlapm M.tla` for each `*Proofs` module.

## 1. Inventory

### The system

    client --HTTP--> gw-currency-wallet --SQL--> PostgreSQL (users, balances)
                        |        \--gRPC--> gw-exchanger --SQL--> PostgreSQL (exchange_rates)
                        |
                        \--Kafka wallet.operations-------> gw-analytics ----> Elasticsearch
                         \-Kafka wallet.large-operations-> gw-notification -> MongoDB

| component | state it keeps | operations | what is hard about it |
|---|---|---|---|
| wallet storage, `gw-currency-wallet/internal/storages/postgres` | rows of `balances` and `users`; connections, row locks and open transactions | `Deposit`, `Withdraw`, `Exchange`, `GetBalances`, `CreateUser`, `GetUserCredentialsByUsername` | concurrent transactions on the same rows, lock order, every statement can fail, a COMMIT whose answer is lost, the pool's limit, unique indexes that make one signup wait for another |
| wallet use cases, `internal/usecase` | one goroutine for each request, one more for its events | `Deposit`, `Withdraw`, `Exchange`, `GetBalance`, `Register`, `Login`, `checkAndPublish` | the event is published by a goroutine nobody waits for, with the error the deferred closure captured |
| rates cache, `internal/usecase/helpers.go` | `ratesCache`, `ratesCachedAt` under an RWMutex | `setRatesCache`, `cachedRate` | an answer is stored some time after it was read; answers overtake each other; the TTL |
| HTTP handlers, `internal/transport/http` | none | the requests; `amountToMinor`; `writeError` | arithmetic on amounts; what a status claims about the operation |
| event publisher, `internal/clients/events` | two Kafka writers | `PublishOperation`, `PublishLargeOperation`, `Close` | fails with or without having written |
| wallet process, `internal/app` | running, shutting down, down | `Run`, `Close` | the order of closing, the ten seconds of `Shutdown`, crashes |
| log-in, `internal/usecase/auth.go`, `internal/auth` | the token a client holds | `Login`, `Generate`, `Parse` in `AuthMiddleware` | a log-in beside signups for the same name; the end of a token |
| conversion, `convertMinor` and the rates' way to it | none | an exchange's credit, an event's worth in roubles | decimals become float64, float32, float64 again and then an int64 |
| exchanger, `gw-exchanger` | table `exchange_rates` | `GetExchangeRates`, `GetExchangeRateForCurrency` | the table is edited while it is read |
| exchanger's process, `gw-exchanger/internal/app` | serving, draining, stopped, down; the pool, connections, handlers | `Run`, `Close` | calls still come in while connections drain; handlers outlive their clients; `GracefulStop` waits without a limit |
| analytics, `gw-analytics` | committed offset, current batch, Elasticsearch documents | `Run`: fetch, handle, save, commit | redelivery, partial bulk failures, late requests, rebalances, restarts |
| notification, `gw-notification` | committed offset, current batch, MongoDB collection | the same | the same, and errors of an unordered `InsertMany` that mix causes |
| configuration, loggers, generated protobuf code, Swagger docs, mocks | none that a property depends on | | not modelled (section 7) |

The components interact by calls (handler, use case, storage; use case, gRPC
client, exchanger), through shared state (row locks, the pool, the rates cache),
by a deferred function that starts a goroutine (use case, publisher) and by
messages (publisher, Kafka, consumers). What makes each component correct is the
list of its properties in section 4; the places where the code could go wrong
are the `hazards` of `PROJECT.json`, each at its line.

## 2. Modules

| module | models | with |
|---|---|---|
| `WalletOps` | an operation of the storage, its arguments' errors and what it changes | |
| `Ledger` | **abstract**: an operation takes effect at one instant or not at all, and its reply says which; an operation may stay in doubt | `WalletOps` |
| `WalletStore` | `storages/postgres/methods.go` statement by statement, the pool, row locks | `WalletOps`; implements `Ledger` |
| `WalletService` | handlers, use cases, publishing goroutines, process life cycle | composes with `Ledger` |
| `Rates` | rates cache, gRPC client, exchanger and its table, in discrete time | |
| `ExchangerServer` | the exchanger's process: accepting, handling, stopping, crashing, starting, calls of other clients | extends `Rates` |
| `Registration` | `Register` and `CreateUser` with the unique indexes | |
| `Accounts` | `Login`, the tokens and their lifetime | extends `Registration` |
| `Amounts` | `amountToMinor` with integers of `Width` bits | |
| `Conversion` | prices, rates and `convertMinor` with floats of `Single` and `Double` bits | extends `Amounts` |
| `Delivery` | **abstract**: at-least-once processing of a topic | |
| `BatchConsumer` | `transport/kafka/consumer.go`, the same in both services | |
| `Analytics`, `Notification` | the consumer over Elasticsearch, over MongoDB | extend `BatchConsumer`; implement `Delivery` |
| `EndToEnd` | the wallet, its two topics and both consumers | extends `WalletService`; two instances of `Delivery` |
| `MC*` | small instances for TLC | |
| `*Proofs` | theorems (section 5) | |

Operators whose comment begins "A defect" are not part of a model. Each is the
form a definition would take if the code had a plausible bug; `mutants` in
`PROJECT.json` names for every checked property a defect that violates it.

### How states and actions correspond to the code

**WalletStore.** `pc[t]` is the statement goroutine `t` is about to send inside
one call: `begin`, `lock` (the `SELECT ... FOR UPDATE`), `update`, `read` (the
`SELECT` of `getBalancesTx`, or all of `GetBalances`), `commit`, `rollback` (the
deferred function). `outcome[t]` is `err`. `owner` holds PostgreSQL's row locks:
one `FOR UPDATE` of two rows takes them one after the other, in the order of
`ORDER BY currency_code`. `pend[s]` is what an uncommitted transaction changed.
A session whose client is gone stays in `dying` (can only abort) or `doubt` (its
COMMIT was sent) and keeps its locks until it settles. When PostgreSQL itself
reports an error it releases the locks at once; the model releases them at the
`ROLLBACK` that follows, which is later by one step of the same caller.

**Ledger.** `Invoke`, then one of `Apply`, `Refuse`, `Fail`, then `Acknowledge`.
A reply carries the new amounts of the rows the operation touched, or a reason
that was true at that instant, or an error. `Fail` may leave an operation in a
doubt slot, and `Settle` ends the doubt by applying or dropping it.

**WalletService.** One handler is `StartOperation`, `RateForExchange`,
`StoreCall`, `Store...`, `StoreReturns`, `Respond`. `Return` is the moment when
the deferred closure runs: it hands the returned error to the goroutine `job[i]`.
The variables `effects` and `doubtOf` count what became of each operation; they
are history and guide nothing. `server` follows `App.Run` and `App.Close`:
running, draining (`Shutdown`), closing (storage), unwired (exchanger client
closed), silent (publisher closed), down. `Faults` selects what may go wrong.

**Rates.** `past` remembers every table with its instants, `used` the last rate a
goroutine got. `Tick` does not pass a call's timeout, as `context.WithTimeout`
does not.

**Registration.** A signup is one request, one connection, one transaction; an
INSERT enters the indexes one column after another and waits while another
transaction that may still commit holds an equal value.

**ExchangerServer.** `handling` are the wallet's goroutines whose call has a handler;
`others` counts the handlers of other clients of the published port and those whose
wallet gave up or went down. Only the wallet's calls have a deadline
(`clients/exchanger/client.go:71`). `server` follows `App.Run` and `App.Close`:
serving, draining (`GracefulStop`), stopped, down. `admitting` says that calls are
still taken: `GracefulStop` announces the end on every connection, and calls that come
before the client has seen it are served; `GoAway` is the instant after the last.
`pool` is closed by `CloseStorage`, after `GracefulStop` has returned. What the calls
ask and are answered is `Rates`, unchanged.

**Accounts.** `login[l]` is one request from the moment its name, blanks included,
and its password reach `Login`; `members` is history: who had been told "created" by
then. A token is a user, the instant it was issued and `Expiry`, a whole second.

**Conversion.** An accepted amount is exchanged (`Exchange`, refused when nothing is
left of it) or reported (`Report`, `amountRubMinor`, which checks nothing) at one
of `Quotes`: the quotient of two prices that were sent as float32, as the cache has
them, or the exchanger's quotient sent as float32. An int64 of a float out of its
range is the smallest integer on amd64, the largest on arm64; the model has both.

**EndToEnd.** `operationsLog` and `largeLog` are the topics in the order of their
offsets; a step of the wallet that writes an event appends it. Each consumer is the
abstraction its detailed model implements, with the events its `Validate` refuses
as `Junk`: `documents` is what gw-analytics has recorded, `settled` what
gw-notification is done with, saved in MongoDB or swallowed as in finding 3. Their
offsets play no part here (`acked` is zero), so nothing about them is claimed.

**Consumers.** `position` is the reader, `batch` the offsets in hand, `todo` the
items of the request the storage has not carried out, `late` those of requests
nobody waits for any more. `faults` counts everything that went wrong: crash,
rebalance, item error, failed commit, and a bulk that the Elasticsearch client sends
again by itself (`ClientRepeats`, counted in `repeats` as well): its default after 502,
503, 504 or a network error, which `gw-analytics/internal/storages/elastic/elastic.go:18`
leaves as it is. The client stops after three times; the model only at `MaxFaults`.
`swallowed` is history: the events that were
not inserted when a duplicate key in the same `InsertMany` made its error a success,
which is finding 3. What `Notification` promises is stated for all other events.

## 3. Plan

In order, the most important behaviour first; the parts written so far are marked.

1. [done] Storage against the abstract ledger; deadlock, pool, leaks. Proofs of all
   safety properties and of the refinement.
2. [done] Consumers against at-least-once delivery. Proofs of both refinements.
3. [done] Rates cache and exchanger. Proofs of freshness and consistency.
4. [done] Service over the ledger: answers, events, shutdown.
5. [done] Signing up. Proofs of all safety properties.
6. [done] Amounts. Proof that `amountToMinor` is exact for every width.
7. [done] Proofs about `WalletService`, from an invariant that ties `effects`,
   `doubtOf`, `call`, `answer` and the events of one operation together.
8. [done] End to end: the events `WalletService` writes as the logs the consumers
   read, and what their documents say beside the balances. Proof of `BooksBalance`.
9. [done] The conversion between currencies with its rounding.
10. [done] Log-in against signing up, and tokens. [done] The exchanger's process.
   Proofs of their safety properties from those of the parts they are built on.
11. [done] Proofs about the counters of gw-analytics.
12. [done] An error analysis of `convertMinor` for floats of any precision: a proof
   of `ConversionsAreClose`.

Left are results no prover used here can reach (section 6), and what section 7 names.

## 4. Runs

| run | module, cfg | shows |
|---|---|---|
| `store` | `MCWalletStore`, `WalletStore` | `NoDeadlock`: row locks never form a cycle. `CheckNeverFires`: the CHECK of the table never has to stop an overdraft. `NoLeak`: no path keeps a connection or a transaction. `StoreInv`: the inductive invariant. `ImplementsLedger`: the refinement, unknown users and bad arguments included |
| `store_live` | `MCWalletStore`, `WalletStoreLive` | `CallsReturn`: crossing exchanges, and deposits between them, all return |
| `service_safe` | `MCWalletService`, `ServiceSafe` | `AtMostOnce`, `AnswersTellTheTruth`, `EventsTellTheTruth`, `ShutdownIsGraceful` under all faults |
| `end_to_end` | `MCEndToEnd`, `EndToEnd` | `BooksBalance`: whenever nothing is under way, the balances are what the operations that gw-analytics holds as successes add up to, but for those it holds as errors. `EveryOperationRecorded`: each operation, refused or failed too, gets its document with the outcome the client was told. `LargeOnesConfirmed`: every large event gw-notification is done with, gw-analytics comes to hold as a success |
| `service_skips` | `MCWalletService`, `ServiceSkips` | **violation**, finding 1 |
| `rates_safe` | `MCRates`, `RatesSafe` | `FreshRate`, `OneSnapshot`, and `RatesInv`, the inductive invariant, while both processes come and go; `PoolOutlivesHandlers`: the exchanger's stop closes the pool only when no handler is left and no connection can bring another call |
| `accounts` | `MCAccounts`, `Accounts` | `UsersAreUnique`, `AllOrNothing`, `AnswersTellTheTruth`, `RegistrationInv` (inductive), and `SignupsAreAnswered`: signups that wait for each other end. `CreatedCanLogIn`, `TokensNameOwners`, `TokenLifetime`: a log-in at any moment of them |
| `amounts_exact` | `MCAmounts`, `AmountsExact` | `ConvertsAmounts` against the number's value; `ConversionsAreClose`: what becomes of it in another currency against the exact quotient of the prices |
| `amounts_wrap` | `MCAmounts`, `AmountsWrap` | **violation**, finding 2 |
| `analytics` | `MCAnalytics`, `Analytics` | `NoEventLost`; the counters against the copies in the topic, `EveryCopyCounted` from below and `OverCountNeedsFault` from above; `ImplementsDelivery`; and after the faults `EventuallyRecorded`, `CatchesUp` |
| `notif` | `MCNotification`, `Notification` | with every kind of write error: `LostOnlyBesideDuplicate`, `ImplementsDelivery`, `EventuallySaved`, `CatchesUp` |
| `notif_mixed` | `MCNotification`, `NotificationMixed` | **violation**, finding 3 |

### Findings

1. `checkAndPublish` drops the event of an operation in USD or EUR when no rate
   to roubles can be had, although Kafka works
   (`usecase/notifications.go:29`); `gw-currency-wallet/README.md:225` says that
   events of all money operations are published.
2. `amountToMinor` computes `whole*100 + cents` without an overflow check
   (`transport/http/handler.go:599`): a number of about 1.8e17 units is accepted as
   a small amount, where `gw-currency-wallet/README.md:42-45` has
   amount times one hundred.
3. `SaveLargeOperations` takes any error that contains a duplicate key for
   success (`gw-notification/internal/storages/mongo/methods.go:36`); when another
   document of the same `InsertMany` failed for another reason, its event is
   acknowledged and lost. `PROJECT.json` quotes the sentence it contradicts.

Four more facts, met on the way:

- An operation whose worth is rounded to zero roubles is published, and
  gw-analytics drops it as invalid (`gw-analytics/internal/domain/event.go:71`);
  `EveryOperationRecorded` excepts it.
- A product beyond 2^63 is refused on amd64 as too small an amount, and credited as
  the largest integer on arm64. The event of such an operation has a negative worth
  on amd64: it is not announced as large, and gw-analytics drops it.
  `ConversionsAreClose` excepts it.
- A token ends up to a second before its lifetime, never after it.
- A copy of an event may be counted more often than once more for each fault. After a
  rebalance a batch may hold one offset twice, and when the client sends that bulk
  again, having lost the answer to the first, the event is counted four times after
  two faults. So `OverCountNeedsFault` multiplies the deliveries of a copy, one more
  than the faults outside the client, by the bulks that each may have been sent in.

### Bounds, and why they are enough

- Storage: two callers, two currencies, one registered and one unknown user,
  amounts up to 1. Rows of different users are independent, a lock cycle or a
  lost update needs two transactions, and one unit of money distinguishes enough
  from not enough. Withdrawals are of one row only: the other meets the same
  rivals. There are three sessions, so that an abandoned backend holds locks
  against two living callers. Two connections suffice for two callers; a call
  that needed a second one while it holds the first would still hang, which is
  the defect the liveness run is tested with. That run leaves out reads and
  withdrawals, which add no new way of waiting. The theorems lift all of these
  for the safety properties.
- Service: two operations in two handlers and their goroutines, prices 1 and 3, so
  that the same amount is large at one rate, small at another, and converts to
  nothing at a third. `MaxOps` bounds the operations; each property speaks of one
  operation, or of two that compete for one balance.
- End to end: two operations, one after the other, each with its own publishing
  goroutine, so that their events overtake each other in either topic. Two
  handlers at once are in `service_safe`; what the readers see of them is the
  order of the events, which one handler's goroutines already mix. Its `Faults` are
  none: a crash loses events by design. The storage still refuses and fails.
- Rates: two goroutines, two prices, one edit, a lifetime and a timeout of one
  instant, four instants: enough for an answer to be read before an edit, stored
  after it, and used when it is about to expire. Lifted by the theorems. Goroutines,
  currencies and prices are symmetric: no definition tells two of them apart. One
  handler that nobody in the wallet waits for (`MaxOthers`) keeps a stop waiting when
  all of the wallet's are done; more are lifted by the theorem.
- Accounts: two signups over two names and two addresses, which gives the crosswise
  conflict, and one log-in that meets them at every stage. Two currencies give the
  failure between two balance rows. Any number of signups is covered by the
  theorems. A second has two instants, so that a token may be issued between two
  seconds; it lives one second, and `MaxTime` lies beyond the end of the latest.
- Amounts: 12-bit integers; the whole parts cover zero to three times the largest
  amount, where sums wrap around to negative and to positive, and the limit of
  `ParseInt`. A float64 of 10 bits is, as in the program, shorter than an integer,
  and a float32 of 5 bits has half as many. The prices are below and above one, are
  not floats for the most part, and their quotients reach from products that round
  to zero to products far out of range.
- Consumers: batches of two over three messages, two events, which gives batches
  with a duplicate and with a broken message, an event in two batches, a batch
  cut short by the wait. Three faults (`MaxFaults`) give a loss during the recovery
  from a loss. The safety theorems lift them.

`CHECK_DEADLOCK FALSE` stands in a configuration only where clients, producers or
signups come to an end by a bound, with a comment that says so.

### Fairness, and why the code justifies it

- A goroutine that waits for nothing goes on (weak fairness): Go's scheduler.
- `Begin`, `Lock`, `Update` of the storage and `InsertUser` of a signup are
  strongly fair: pgxpool and PostgreSQL serve those who wait in the order they
  came. A request's context may end any wait earlier; the model has it as a
  failure, and no failure is fair.
- A backend notices that its client is gone (TCP keepalive): weak fairness of the
  settle actions.
- In the service, calls of the storage return, which is `CallsReturn` of
  `WalletStore`; calls of Kafka and of the exchanger have timeouts.
- In the consumers, the process is restarted (`restart: unless-stopped`), and
  Kafka and the storages answer. Faults end because `MaxFaults` bounds them, which
  is what "eventually works long enough" means for a retry by restart.

- In `EndToEnd`, each consumer records every event of its topic in the end: the
  properties `EventuallyRecorded` and `EventuallySaved` of its own model.

## 5. Theorems

For every number of callers, sessions, connections, users, messages, batch sizes,
prices, lifetimes, widths and so on, under the assumptions each module names
(`StoreAssumption`, `ServiceAssumption`, `ConsumerAssumption`, ...):

| module | theorems | argument |
|---|---|---|
| `WalletStoreProofs` | `TypeCorrect`, `StoreInvariant`, `DebitsStayCovered`, `NothingLeaks`, `NoLockCycle` | `StoreInv` is inductive given types: connections and open sessions match one to one (`ConnInv`), a transaction locks its own rows, the lower code first, and all before it changes any (`LockInv`), an uncommitted change sits on a locked row and keeps it in range (`WriteInv`). A lock cycle would need an infinite ascent of codes |
| | `StoreImplementsLedger` | with `AnswerInv`: a reason about to be given is still true because the rows that show it are locked. The COMMIT, or the settling of a doubt, is the instant of the effect |
| `WalletServiceProofs` | `TypeCorrect`, `NoOperationTwice`, `AnswersAreTrue`, `EventsAreTrue`, `ShutdownFailsNothing` | `ServiceInv`: where a handler is, what its call of the storage is, what its operation has come to and what its goroutine was handed agree; an operation belongs to one handler, and to one doubt at most, and then has had no effect |
| | `ServiceUsesLedger` | every step of the service is a step of `Ledger` or none of the storage's: with `StoreImplementsLedger`, the service rests on the storage as it is written |
| | `BalancesAreSums`, `SystemHasTheService`, `BooksBalanceForGood` | the balances are the sum of the operations that took effect, by induction over the set of them; with every operation's event written, gw-analytics knows the outcome of all that are not in doubt |
| `AnalyticsProofs`, `NotificationProofs` | `TypeCorrect` of each; `NothingLost`, `AnalyticsDelivers`; `LossNeedsDuplicate`, `NotificationDelivers` | `EventsKept`: all that is committed is recorded, and every event behind the reader is recorded or in the batch. The lemmas about the shared consumer are in `ConsumerProofs` |
| `AnalyticsProofs` | `CopiesCounted` | `CountInv`: the counter covers the copies that the reader has passed and that no request still has to write, and those committed |
| | `OverCountsAreFaults` | `CopiesInv`: what is counted, and what late requests, the batch and the rest of the topic will add if nothing else fails, is at most the number of copies times `Rounds`, which is one more than the repeats times one more than the other faults. A fault outside the client adds the copies once for every bulk a delivery may be sent in (`repeats + 1`), a repeat adds them once for every delivery of the batch so far |
| `RatesProofs` | `TypeCorrect`, `AgesKnown`, `RatesAreFresh`, `RatesAreConsistent` | `RatesInv`: an answer under way was in force since its call began, the cached rates at most a timeout before they were stored |
| | `SystemHasRates`, `StoppingFailsNoCall` | `ServerInv`: a process that has stopped admits no call and has no handler, and the pool is closed only then or when the process is gone |
| `RegistrationProofs` | `TypeCorrect`, `RegistrationInvariant`, `NoTwoUsersAlike`, `WholeUsers`, `TruthfulAnswers` | `RegistrationInv`: a value stands at most once in an index, in-progress rows included, and a transaction that may have committed has entered everything |
| | `SystemHasRegistration`, `MembersCanLogIn`, `TokensAreOwners`, `TokensExpire` | `LoginInv`: who had been told "created" is still a user, and the credentials a log-in has read are a user's whose password it checked; that there is no other with that name is `NoTwoUsersAlike` |
| `AmountsProofs` | `SystemHasAmounts`, `TypeCorrect`, `AmountsAreConverted` | a sum that fits does not wrap around, and an integer is the value of at most one reading of the digits |
| | `ConversionsStayClose` | rounding to `p` bits errs by one part in `2^p + 1` at most (`RoundingError`, `FloatFacts`), wherever the binary point is. `Near(a, b, x)`, a relative error of `x` eighths of `2^-Double`, may be multiplied, cancelled and chained: five roundings to a float64 and two to a float32 lead from the prices to the product (`CachedNear`, `GetRateNear`, `ProductNear`), and `math.Round` adds half a unit. `ConvertedInv`: what was credited, reported or refused is what the integer type holds of that |

The invariants are needed because the properties are not inductive: that a debit
is covered when its UPDATE runs, for instance, follows only from who holds the
lock since the comparison, and that a counter covers the committed copies only
from what the batch and the late requests still have to do. `StoreInv`, `RatesInv`
and `RegistrationInv` are properties of their components' runs; `ServiceInv`,
`CountInv`, `CopiesInv`, `LoginInv`, `ServerInv` and `ConvertedInv` stand in the modules that use
them. The theorems `SystemHas...` state that a composition does nothing to a part
that the part's own module does not allow, so what is proved of the part
holds of the composition.

One theorem has a hypothesis beyond the modules' assumptions: `BooksBalanceForGood`
assumes `Faults \subseteq {"slow"}`, as a crash, or a publisher that fails, loses
events by design. The storage may still refuse, fail and leave operations in doubt.
`LossNeedsDuplicate` and `NotificationDelivers` hold for every set of write errors, of
all events but the swallowed ones; that acknowledged events are saved in MongoDB
without exception is not a theorem, as finding 3 refutes it.

`PrecisionAssumption` of `Conversion` asks for a float64 of 6 bits and a float32 of 4, so
that the products of two errors are below what `RelativeError` leaves for them, and
for amounts and prices of no more than twice the bits of a float64, up to which
`Bits` counts: an int64 has 63, `NUMERIC(24, 4)` gives a price 80, and a float64 has 53.
TLC evaluates it in the runs of `MCAmounts`.

`RequestsAssumption` says that `Ops`, the operations the storage is called with,
holds those the requests become; TLC evaluates it in every run of the service.

The proof of `TypeCorrect` of `WalletServiceProofs` did not go through at first for a
good reason: a handler whose process had crashed could still get its rate, or be
refused. `RejectExchange`, `RateForExchange` and `RateForExchangeFails` now have
the guard that the process is up, as the other steps of a handler had.

The bounds `MaxTime`, `MaxChanges`, `MaxLog`, `MaxFaults`, `MaxOps` and `MaxOthers`
stay in the guards but are arbitrary, so the theorems do not depend on them.

The library's induction theorems take a predicate as a parameter, which none of
the provers used here can instantiate. Where a proof needs induction, it is over a
set that is named: `SubsetInduction` and `NatSetInduction` of `WalletServiceProofs`,
from the library's minimal elements of well-founded sets, carry the sums of
balances; powers of two, in `AmountsProofs`, are numbers of subsets, and what holds of their sums
of exponents is shown for the smallest counterexample.

## 6. Only model-checked

- Liveness (`CallsReturn`, `EveryOperationRecorded`, `LargeOnesConfirmed`,
  `SignupsAreAnswered`, `EventuallyRecorded`, `EventuallySaved`, `CatchesUp`): out of TLAPS's reach here,
  as it concerns fairness and ENABLED.
- That a number of more than two decimals has the value `Digits` gives it: the
  definition recurses over the digits, and `AmountsAreConverted` needs its value
  for two digits at most, as longer fractions are refused whatever they are.

The type invariants of the consumers, the cache and the signups are theorems and not
properties of a run: TLC checks there what could be wrong beside the types.

## 7. Not modelled, and what the models leave out

- Configuration, loggers, generated code, mocks, Swagger documents: they hold no
  state that a property is about.
- What bcrypt and JWT promise: that a password matches only its own hash and that a
  token with the service's signature was issued by it. The router, the decoding of
  JSON, and the handlers that only read balances or rates.
- Balances: `MaxBalance` stands for the largest `BIGINT`; an UPDATE that leaves the range is an
  error of the statement. Other SQL errors are one nondeterministic failure.
- Floating point is modelled in `Conversion` only: in `WalletService` prices are whole
  numbers and their quotient is exact. The range of a float32 (1e38) is left out:
  `units_per_usd` has 20 digits before the point. Amounts in replies are divided by
  100 as float64 and printed by `encoding/json`; that is left out too.
- How long a stop of the exchanger lasts: `GracefulStop` has no limit
  (`gw-exchanger/internal/app/app.go:99`), and calls that other clients send, such as the
  `grpcurl` calls of `gw-exchanger/README.md:137-145`, have no deadline. No property
  bounds it; a process that is killed meanwhile is `Crash`.
- Retries inside the Kafka producer: a retried event is the same event, which the
  consumers' logs contain twice.
- The consumers claim that events are recorded and that they catch up with the
  topic, not that the committed offset reaches its end: a failed last commit is
  only covered by the next message's, and a rebalance may commit an older offset again.
- A crash loses the events that were not yet published. The code has no outbox,
  so `EveryOperationRecorded` is claimed only for a process that keeps running.
- Two spellings of one e-mail address are two addresses, as they are to the index.
