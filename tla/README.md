# Wallet system: TLA+ models and proofs

A NestJS service that keeps wallets in PostgreSQL. Requests to deposit, withdraw and transfer are
put on a RabbitMQ queue and handled in the background. Requests to create a wallet and to read a
balance are answered directly. Two caches stand in front of the wallets. This directory models that
core, checks it with TLC on small instances, and proves its safety with TLAPS for every instance.
Paths below are under `src/src/`.

## 1. The system

| Component | State | Operations | Hard behaviour | What makes it correct |
|---|---|---|---|---|
| `modules/wallet/wallet.service.ts` | tables `wallets`, `transactions` (an open transaction per handler), the two caches, local wallets | `deposit`, `withdraw`, `transfer` (consumers), `createWallet`, `getBalance` (controller) | every `await` is a point where other handlers, a fault or a crash come in; retries | balances and rows change together, nothing goes negative, a reference counts once, a transfer conserves money, handlers end |
| wallet cache, balance cache (`common/types/index.ts`, `app.module.ts`) | `wallet:user:currency`, `wallet:balance:id`, 300 s | get, set, del, expiry | stale entries, entries of rolled back rows, strings and unrounded sums | only what a wallet's rows account for, eventually the current balance |
| `modules/queue/queue.service.ts`, `modules/queue/processors/transaction.processor.ts` | queue, dead-letter queue, unacked copies, sockets, retry counts | publish, deliver, ack, retry, dead-letter | lost connections and crashes between two frames, redelivery, `prefetch(1)` | nothing lost, nothing dead-lettered early, one outcome per message |
| `modules/transaction/transaction.service.ts`, history in the wallet service | cached pages, lists and rows, never invalidated | three reads | a commit between two awaits of a read, stale pages | an answer was true of one moment, a committed row is found, the caches agree with the table in the end |
| `modules/middleware/rate-limit.middleware.ts` | times per address in each process | `use` | window and limit boundaries, what is forgotten | no window above the limit, no refusal below it |
| controller, DTOs, `common/pipes/currency-validation.pipe.ts`, `ValidationPipe` of `main.ts` | the channel to the broker | validation, queueing | three lists of currencies, a closed channel | only well-formed requests of known clients are queued |
| `modules/user`, `modules/auth` | table `users`, tokens | register, login, token check | check then insert, an insert reported as failed | one row per e-mail, one winner per race, tokens name their owners |
| health, filters, interceptors, configuration | none | I/O, wiring | none | not modelled |

Interaction: the controller validates a request and calls `queueDeposit`, `queueWithdraw` or
`queueTransfer`, which call `QueueService.addToQueue`. `TransactionProcessor` consumes the same
queue over the same channel and awaits `WalletService.deposit`, `withdraw` or `transfer`. A handler
that returns is acked; one that throws is republished with a count, three times, and then
dead-lettered. Handlers of different processes meet only in the database, and in the cache
when that is shared. `PROJECT.json` lists the hazards line by line.

## 2. Modules

| Module | Contents |
|---|---|
| `WalletService` | the handlers, tables and caches, one action per `await` |
| `WalletProperties` | what is claimed of them |
| `MCWallet` | values for TLC: users, wallets, the messages of each run |
| `AccountBook` | abstract: balances and a book of whole postings; `WalletService` implements it |
| `TransactionQueue` | the broker's queues and the processes' channels, with its properties |
| `MCQueue` | its symmetry for TLC |
| `WalletSystem` | queue and service together, with the connection pool that a process's handler and its HTTP requests share |
| `AtLeastOnce` | abstract: what queue and service promise of a request; `WalletSystem` implements it |
| `MCSystem` | its messages for TLC |
| `RateLimiter` | the limiter of each process |
| `UserRegistration` | users, logins, tokens |
| `Api` | a request on its way: limiter, guards, validation, controller; extends the two before |
| `MCApi` | its requests for TLC |
| `TransactionHistory`, `MCHistory` | the cached reads of the transactions table |
| `WalletServiceProofs` | type correctness; keys are used once, balances never go below zero |
| `WalletTablesProofs` | returned means recorded, cached balances are accounted for, one wallet per user and name |
| `WalletBookProofs` | `WalletService` implements `AccountBook`; statements and transfers |
| `QueueProofs` | the queue: types, no loss, dead letters, outcomes |
| `SystemProofs` | queue and service together: effects are bounded, `AtLeastOnce` is implemented, connections suffice; what each part promises holds of the whole |
| `HistoryProofs` | answers, totals and lookups of the history |
| `RateLimiterProofs` | the bound of a window |
| `ApiProofs` | users, tokens, queued messages and refusals of the API |

### WalletService

A `Consumer` is a process's handler slot: `prefetch(1)` gives a process one delivery at a time. `pc`
is the statement the handler awaits next; `msg`, `src` and `dst` are its local message, `wallet`
(`fromWallet`) and `toWallet`. The code between two awaits belongs to the step of the first one.

| Code | Actions |
|---|---|
| `deposit`, `getOrCreateWallet` | `DepositCheckKey`, `DepositReadCache`, `DepositFindWallet`, `DepositCreateWallet`, `DepositFillCache`, `DepositUpdate` |
| `withdraw`, `getWallet` | `WithdrawReadCache`, `WithdrawFindWallet`, `WithdrawFillCache`, `WithdrawCheckKey`, `WithdrawUpdate` |
| `transfer`, `getWalletById` | `TransferReadFrom`, `TransferReadTo`, `TransferCheckKey`, `TransferDebit`, `TransferCredit` |
| `manager.save`, `commitTransaction`, the cache afterwards | `InsertRows`, `Commit`, `Refresh` |
| `handleTransaction`, ack or retry | `Deliver`, `Settle` |
| catch blocks | `Throw`, in the action that fails; `AwaitFails` for a rejected await; `DeadlockVictim`; `Crash` |
| `createWallet` from the controller | `CreateCheck`, `CreateSave`, `CreateFillCache` |
| `getBalance` | `ReadBalance`, `LookUpBalance`, `FillBalance` |
| time to live | `ExpireWallet`, `ExpireBalance` |

The database is PostgreSQL at READ COMMITTED, which is what a `QueryRunner` gets when no isolation
level is named. `pend[c]` and `rows[c]` are the uncommitted writes of c's transaction; `Visible` is what a statement reads;
an update waits while another transaction has written its row (`Locked`), an insert while an
in-flight row has its unique value (`WalletInFlight`, `KeyInFlight`); a cycle of waits has a victim
(`WaitsFor`, `DeadlockVictim`). The key checks use the repository, not the transaction's manager, so
they read committed rows.

Kept as the code has them: absolute writes computed from a local copy, the wallet cached before its
insert commits, the wallet cache that nothing invalidates, `??` for the key of an outgoing row and
`||` for an incoming one, a deposit without a currency (any wallet matches, a new one gets the column's
default and the name `undefined Wallet`), the version a deposit appends a digit to, a self-transfer
that reads and writes its wallet twice.

What is cached under `wallet:balance:id` is not what the column holds. `getBalance` caches the column's value as
`pg` returns it, a string (`AsString`), and answers a later request with it. `deposit` caches its sum as the double
it is (`AsNumber`), while `update` and `save` round it to the column's two decimals: 0.1 + 0.2 is cached as
0.30000000000000004 and stored as 0.30. `Drifting` is the set of sums with such an error, any set in the theorems and
two small sums in the runs. No handler reads this cache, so the error reaches answers and no row.

Abstracted: amounts are whole cents (positive integers; the DTOs' minimum is one cent, but they limit no decimals:
see section 5), descriptions
and times are absent, an automatic name is the currency it is made from, uuids are elements of
`WalletId` never drawn twice. `isActive` is always true: the only route that changes it rejects every
request in its pipe (`wallet.controller.ts:79`). `app.module.ts:41` asks for one Redis store under the
option `store`; the locked cache module (`@nestjs/cache-manager` 3) takes its stores under `stores`,
and falls back on memory. `StoreOf` says which store an actor uses, so both builds are instances: one store for all, or one
per process. The difference matters: in a shared store the first deposit of a user shows the other process a wallet
it has not committed, and that process's deposit updates a row it does not see. Its row stands, its money reaches no
balance, and neither a fault nor a retry is needed; TLC finds this with two first deposits by one user and `SharedStore`.
So `ImplementsAccountBook` and `StatementMatchesBalance` are claimed of processes with stores of their own, which
is what the locked versions build, and of a single process. Entries may expire at any moment, which covers the 300 seconds and the loss of a process's memory.

`Deliver` hands any message to any idle consumer, `MaxAttempts` times: more than the
broker would, since it also covers a redelivery while the first handler still runs after a lost connection.

`AccountBook` is what a reader of the two tables may rely on. A step of it opens an empty account or
posts one entry (deposit, withdrawal) or two of one amount (transfer): the entries and the balances
they state appear together, no key twice, no balance below zero. The mapping shows it the committed
rows only, so that the handlers' statements, rollbacks, waits and caches are stutters. It does not say
that an entry starts from the balance before it, because it does not (`LedgerChains`), and it lets an
entry name an account nobody opened (`RowHasWallet`).

### TransactionQueue

A frame written to a socket (`wire`) reaches the broker later, in order, or never. `Start` is
`onModuleInit` of both services. The error of `startProcessing` is swallowed, but `prefetch` and `consume` only reject
when the channel or its connection has closed, so that branch leaves a process that serves requests and can
publish none: it counts as a loss. `HandlerReturns`
and `HandlerThrows` are `processMessage` with its ack or `handleProcessingError`; on a closed channel
they end the process, because the second throw is in a promise nobody awaits (`DieUnhandled`).
`ConnectionLost` leaves the process serving with a dead channel, as the `close` handler only logs. A
handler is a single step here. `QueueService.disconnect` is left out: only `onModuleDestroy` calls it,
and `main.ts` neither enables shutdown hooks nor closes the application, so no process runs it.

### WalletSystem

`TransactionQueue` is instantiated over `WalletService`'s consumers. A delivered copy starts a handler
(`Begin`), whose steps are the service's (`Run`), and whose end is the queue's `HandlerReturns` or
`HandlerThrows` together with the service's `Settle` (`Acknowledge`, `Retry`). A lost connection leaves
the handler running, and the broker gives its message to another process meanwhile. `Die` kills the
process with its handler and its pool.

A handler holds one connection from `connect` to `release`; its key check takes a second one, as it goes
through the repository. Both calls before the `try` may fail (`BeginFails`), and when it is
`startTransaction` the connection is leaked. The same pool serves the process's HTTP requests: the token check,
registration and login, `createWallet`, `getBalance` and the history take a connection for a statement or a save
(`Borrow`, `lent`) and give it back when that ends (`GiveBack`). The pool serves who waits in order, so a request
does not take the last connection from a handler that waits. `connect` waits without a timeout. A handler may thus find
the pool empty with nothing leaked, and then waits for requests. `ConnectionsSuffice` says that this wait ends: somebody who
will give a connection back holds one, as long as all but one have not leaked, and the waiting handler holds no row that
the request in turn could wait for (an insert of `createWallet` waits for a handler's uncommitted wallet). A pool needs one
connection more than its leaks for a handler and one more again for its key check: with `PoolSize` 2
and one leak, a handler of a referenced message waits for ever, holding the only connection left. A failed begin
uses up an attempt as a delivery does, so `MaxAttempts` bounds both.

`AtLeastOnce` says: a request is finished only after it took effect, a keyed request takes effect once
however many messages carry the key, an unkeyed one at least once per finish, and only accepted requests
take effect or are given up. `applied` is a history variable: it counts for each message the commits that put
rows of a handler of it into the ledger, and no step reads it.

### RateLimiter, UserRegistration, Api

`use` does not await, so it is one step: `Admit` or `Refuse`. The model keeps every time it let a request
through (`admitted`) beside the middleware's list (`requests`, the places of those it still has), so that
the properties can speak of what the code has forgotten. `Date.now()` is assumed never to run back. The
entries of addresses that never return stay in the map; it has no bound.

`Arrive` is the middleware; then come the guards (`LoginGuard`, `JwtGuard`), `Validate` for the bodies of
registrations and logins, `CreateCheck` and `CreateSave`, `Login`, or `Handle` for the wallet routes with
validation and pipes. `DatabaseFails` fails any statement, and an insert may have committed
then. `HashOf` maps passwords to what bcrypt takes of them, their first 72 bytes of the 100 the DTO allows. Rows
and the JWT secret never change; a guard may refuse any token, since it may have expired.

Kept as the code has them: a full limiter answers 400; the loser of a race for an e-mail gets 500, not
the documented 409 (`auth.controller.ts:28`), when both lookups found none; deposits and new wallets
take CAD, withdrawals and transfers do not; `update` rejects every body; a
request accepted on a channel that is open may still be lost (`AcceptedSettles`). `queueTransfer` is given
`user.sub` of a row that has no `sub`, so a message's `userId` is undefined; `transfer` does not read it.
`Handle` answers a creation with any status its own component may give it.

### TransactionHistory

The three reads, each await a step. `began` is the order in which the transactions start, which
`createdAt` shows (`now()` of PostgreSQL is the start of a transaction), `commits` the order in which rows become visible: a row
may appear behind rows that were there before it. The two rows of a transfer tie, and the database lists
ties either way each time (`Listings`). `findAndCount` counts in a second statement, unless the page
came back short (`Total`). One store is assumed: with one store per process each is such a cache. Page and
limit are positive integers, though the DTO also lets fractions through. A lookup that finds nothing answers 200 without a body, where `transaction.controller.ts:49`
documents 404.

## 3. Runs

All runs of `MCWallet` have three users (Carol has no row in `users`), three wallet ids, two
references besides the empty and the absent one, and balances small enough that the column's limit
(`MaxBalance`) and the version's (`MaxVersion`) are reached.

| Run | Instance | Shows |
|---|---|---|
| `one_consumer` | 1 process, 5 messages twice, 1 fault | `TypeOK`, `BalanceNonNegative`, `ReturnedMeansRecorded`, `StatementMatchesBalance`, `ImplementsAccountBook`, `TransferConserves` |
| `new_wallets` | 1 process, 2 messages twice, a creation request and a balance reader, 1 fault | `OneWalletPerUser`, `ReturnedMeansRecorded`, `StatementMatchesBalance`, `CachedBalanceWasHeld`, `BalanceCacheSettles` |
| `two_consumers` | 2 processes with a cache each, 4 messages, 1 fault | `BalanceNonNegative`, `KeyUsedOnce`, `CachedBalanceWasHeld`, `ImplementsAccountBook`, `HandlersFinish` |
| `queue_losses` | 2 processes, 2 messages, 2 losses | `TypeOK`, `NoMessageLost`, `DeadLettersEarned`, `OutcomesBounded` |
| `wallet_system` | 2 processes with 3 connections each, a transfer and a referenced deposit, 1 loss, 1 fault, requests at one process that hold 1 connection at a time | `AppliedBounded`, `ConnectionsSuffice`, `ImplementsAtLeastOnce`, `MessagesSettle` |
| `api` | 1 process, 2 addresses, 4 clients with one of eleven requests each (seven of them a wallet request or ill-formed), limit 2, window 2, 1 database error, 1 closed channel | `WindowBound`, `OneUserPerEmail`, `ExactlyOneRegisters`, `TokenNamesItsOwner`, `QueuedWellFormed`, `RefusalsEarned`, `RegisteredCanLogIn` |
| `history` | 2 requests in flight, 4 queries, 2 transactions with 3 rows | `AnswerWasTrue`, `TotalCoversPage`, `CommittedIsFound`, `HistorySettles` |
| `stale_wallet_cache` | 2 withdrawals, 1 process, no fault | `LedgerChains` is violated |
| `lost_transfer` | 2 transfers, 2 processes, no fault | `TransferConserves` is violated |
| `referenced_transfer` | 1 referenced transfer, 1 process, no fault | `TransferRecorded` is violated |
| `rolled_back_wallet` | 1 first deposit, 1 process, 1 fault | `RowHasWallet` is violated |
| `accepted_settles` | 1 process, 1 message, 1 loss | `AcceptedSettles` is violated |

The four violations of the wallet service need no unusual schedule. A wallet's cached copy keeps the
balance it was cached with, so the second of two withdrawals undoes the first; two processes' transfers
overwrite each other; a referenced transfer gives both its rows one unique key, so it is dead-lettered;
and a first deposit that fails after caching its new wallet is retried into a wallet no table has. The
fifth is a request that was answered with success and lost with its socket: the process starts, answers, and dies before
the broker reads the frame.

With one process `TransferConserves` holds, since transfers bypass the cache. `StatementMatchesBalance`
holds even with stale wallets and lost updates: a handler records the balance it writes, and holds the row's lock
until both are committed.

`CHECK_DEADLOCK FALSE`: the messages and faults of a run are finite, and once they are used up the
system rests. That no handler is stuck half way is `HandlersFinish`; that no message is, `MessagesSettle`.

**Bounds.** `MaxAttempts` 2 gives a retry that meets the first attempt's effects (`referenced_transfer`
has 4, the code's number). One fault is enough for each failure the properties tell apart, as a second
one finds the handler rolled back and its message redelivered, a state the first one already leads
to. Two processes give every pair of conflicting statements; a third would add longer lock cycles
only. Two lost connections in the queue let a message be lost, requeued and lost again at each cut.
Wallet ids bound how many wallets a run may insert, rolled back ones included; a creation that finds none left
waits, which only leaves behaviours out. In `wallet_system` one loss gives a message two handlers at once or
one after the other, and one fault a retry, a leak, or an effect whose handler throws after its commit. A crash of a running handler is
both a loss and a fault, so `AppliedBounded` counts it twice and is one looser than need be for it. HTTP requests reach one of its two processes
(`Serving`) and hold one connection at a time (`MaxLent`), enough for the handler of a referenced message to find the pool of three
empty after one leak; the theorems have any numbers. `MaxAttempts`,
`MaxBalance` and `MaxVersion` are larger than any behaviour of it needs. In `api` a window of two with a clock of
three values has requests inside, at the edge of and outside it; two uuids are the ones two rivals draw. In
`history` two pages of two rows hold the three rows, so a page may be full, short and empty.

**Fairness.** `FairSpec` gives weak fairness to a handler's own steps, as Node runs every ready continuation and the
database answers or aborts; to a balance request's steps; and to expiry, as every entry has a time to
live. Faults, crashes, client requests and deliveries have none. `DeliveringSpec` adds delivery,
for `TransferRecorded`. In the queue, the broker reads its sockets and delivers, handlers end
(`HandlersFinish`), and a dead process is restarted; nothing reopens a channel, as nothing in the code does.
`WalletSystem` assumes less than its components: of everything that lets some process go on (a frame at the broker,
a delivery, the next step of its handler, its restart) one is taken when there is one, and `MessagesSettle`
asks for a consumer that keeps consuming. A request gives its connection back, as its statement ends. It assumes nothing of expiry; the victim of a lock
cycle is aborted as a step of its own process. In `TransactionHistory` answers are sent and entries expire, as every entry
has a time to live; clients and handlers need not go on.

## 4. Proofs

Every invariant of the passing runs, the action properties `TransferConserves`, `RefusalsEarned` and
`RegisteredCanLogIn`, and the refinements of `AccountBook` and of `AtLeastOnce` are theorems: for every set of processes,
requests, messages, stores and queries, every opening table, pool size and bound. They rest on the named assumptions of the
modules, all evaluated by TLC in the runs, and on two hypotheses that the theorems state:

- `SeparateStores` (`BookImplemented`, `StatementsMatchBalances`, `SystemKeepsBook`): no two processes share a cache store. One process
  satisfies it, and so does the build of the lock file. Without it both properties are false (section 2).
- `OneConsumer` (`TransfersConserve`): one process. `lost_transfer` shows that two break it.

The assumptions say what the code's types say: bounds are numbers, requests are well-formed, the opening table obeys
its unique columns. `HistoryAssumption` has the DTO's `@Min(1)` for page and limit, and finitely many rows per
transaction. `SystemAssumption` has a pool with a connection, and the mark for nothing is no reference and no copy. `DataAssumption` has a rounding error for any
set of sums (`Drifting`). `ApiAssumption` says who may send what, and that the marks for no answer and no currency are not one; the two lists of
currencies are the code's.

**Wallet service.** All proofs go by an inductive invariant, one step per action.

- `TypeCorrect`. `TypeOK` is not inductive: `DepositUpdate` would be ill-typed before a wallet is loaded. `IInv` adds
  `Loaded`: at each location the handler's message has the right type and the local wallets it will use are rows.
- `KeysUsedOnce`. Also the uncommitted rows of a transaction have distinct keys, none of them in the ledger, and no two
  transactions hold one key. `InsertRows` establishes it, `Commit` moves the keys over.
- `BalancesStayNonNegative`. The invariant extends to every copy (uncommitted rows, cached and local wallets) and
  to the funds check: past it the local copy covers the amount. A stale copy can make a balance wrong, never negative.
- `ReturnsAreRecorded`. From the insert on, the message's key is in the handler's rows; from the commit on, or
  after a positive key check, in the ledger, which only grows.
- `CachedBalancesWereHeld`. A string in the cache, or on its way there, is a balance the wallet had: a reader took it from a committed
  row, whose balance the statement or the opening has. A number is the sum of a deposit whose row is in the ledger, since the handler that caches it
  has committed. The theorem does not say that the sum is what the column holds, which is false.
- `WalletsAreUnique`. The rows and the in-flight rows of all transactions together have distinct users and names,
  except that one transaction may rewrite a row of the table.
- `BookImplemented`. Five shapes (`Quiet`, `Updates`, `Inserts`, `Saves`, `Commit`) cover every step, and only `Commit` and
  `Saves` concern the book. Four invariants say what they commit. `UpdatesApplied`: at each location the transaction's writes
  are those that its rows will state. `CopiesSettled`, where `SeparateStores` comes in: no handler works with a wallet
  that another transaction has yet to commit. `RowsSettled`: a row whose wallet was rolled back stays without one.
  `LastRowsStand`: a wallet's last row states its balance, of which `StatementsMatchBalances` is a corollary.
- `TransfersConserve`. With one process nothing commits between a transfer's reads and its commit (`TransfersFresh`).

**Queue.** `QInv` must say why an ack in flight is safe: what replaces the copy it is for has been handled, is
ahead of it on the same wire, or has reached the broker. The replacement is asked to have *more retries* than the
copy. Without that two acks under way could each rest on the other's copy, and the invariant would not be inductive.
`CountsEarned` relates a copy's retries to the handlers that threw. `OutcomesAreBounded` counts the outcomes a
message has had together with those it may still have, one for each copy to be accepted, queued, on a wire, dead-lettered, or
with a handler; a requeue adds one, for which the lost connection pays. No set of processes or messages needs to be finite.

**Queue and service together.** `SystemInvariant` says of the composition:

- `QP!QInv`, the queue's invariant. `QueueProofs` is instantiated over the service's consumers, and every step of the system is one of
  the queue or leaves it alone (`QueueStep`), so its theorems hold as they stand (`SystemLosesNothing`).
- `ServiceInv`, the service's. All steps but one are the service's own or a stutter of it. `BeginFails` is neither, since it
  throws before anything is awaited, and is shown to keep the invariant for itself (`SystemKeepsTables`). With
  `SeparateStores` every step is one of the book too (`SystemKeepsBook`).
- `HandlersAwaited`: a handler that runs is the one its process awaits for the copy it was delivered.
- `Sums`. `Committed(m)` are the handlers of `m` past their commit. For every message `applied <= returns + Committed + faults`:
  an effect whose handler is gone without a return has a fault behind it. For an unreferenced one also
  `returns + Committed <= applied`: no return, past or coming, without an effect of its own.

`EffectsAreBounded` adds the first sum to the queue's count of outcomes: a handler past its commit holds a copy, a copy is an
outcome still to come, and returns and outcomes to come are one more than the losses at most. Neither component's invariant has it
alone: the service does not know how often a message comes, and the queue does not know what a return did.

`AtLeastOnceImplemented` maps every step. `Commit` is `Apply`: the message is accepted because
its copy is (`CountsEarned`), and its key is not on record because uncommitted keys never are (`KeysInv`). `Acknowledge` is `Finish`: by the second sum
for an unreferenced message, and for a referenced one by `OnRecord` and `RefsInv`, which says that the references of the ledger
are those of the messages applied. A frame that reaches the dead-letter queue is `Refuse`, a publish is `Accept`.

`ConnectionsAlwaysSuffice`: free, lent, leaked and held connections add up to the pool, and one is held exactly while a handler is between its
begin and its end (`ConnectionsInv`). So with none free and none lent, the handler's own is the last one not leaked. That a waiting
handler has written no row of `wallets` is what `WalletTablesProofs` says of each location (`Written`): the key checks come before the first write.

**History.** `HInv` says that what a request holds and what is cached was a listing of the table after some number of commits,
with a total that covers it; that a lookup by id that found nothing read the table no earlier than it began; and that a cached
lookup found its row.

**Limiter and API.** `WindowsBounded`: the property speaks of all times, the code has a part of them, so the invariant says what
may be missing: only times that are out of the window already, and stay out because the clock never runs back. `WindowsOfApiBounded`
carries it over to `ApiSpec`, whose steps are the limiter's or leave it alone. `EmailsAreUnique` and
`TokensNameTheirOwners`: every step leaves the users table alone or adds one row whose e-mail is free; rows stay, so
tokens stay right. `OneRegistrationSucceeds` adds that without a fault rows come from registrations answered
201, and that a registration that fails past validation leaves a row of its e-mail behind. `RegisteredAlwaysLogIn`
and `RefusalsAreEarned` are proved of the steps these invariants allow, `QueuedMessagesWellFormed` from the route each place belongs to: what the DTO admits, what its pipe lets through, and whose token it came with.

**Only model-checked.** Liveness (`HandlersFinish`, `BalanceCacheSettles`, `MessagesSettle`, `HistorySettles`), which rests on fairness and
is out of the prover's reach. The five violated properties are TLC's by nature. The theorems speak of the model: that a
definition says what its lines do is for the reader, with the lines in `PROJECT.json`.

## 5. Not modelled

- `updateWallet`: no request gets past its route's pipe, which takes strings only.
- `ThrottlerGuard` on the transaction routes: the library's own counter.
- Health checks, configuration, filters, interceptors, Swagger: no state, wording only. `GET /users/profile` and
  `GET /wallet/:walletId` only read a row.
- Fractions of a cent. `@IsNumber` and `@Min(0.01)` let them through (`transfer.dto.ts:18-21`), and each column rounds for itself: `TransferConserves` and the
  account book are claimed of whole cents only.
- Descriptions, metadata, names of users, token contents beyond subject and e-mail.
- A currency sent as null, which an optional field may be: the model has the absent one.
- Two pages of different moments together: nobody promises that they fit.

## 6. Left open

- Wallet creation and balance requests read and write in `WalletService`'s own runs. In `WalletSystem` the HTTP requests only take connections and
  give them back: handlers meet them in the pool there, and in the tables and caches here.
- The controller's channel (`Api`) and the queue's (`TransactionQueue`) are two models of one object. `Api` ends where `addToQueue` is
  called, with a channel that is open or closed.
- Quantitative liveness, as how long a stale balance is served, is not stated; the time to live is only that an entry goes at some time.
