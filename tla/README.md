# Formal models of py_wallet

py_wallet is a FastAPI service that shows the balances of EVM, Solana and
manually kept wallets. It stores users, wallets, groups and balances in
PostgreSQL, reads chains over RPC, leaves the collection of snapshots to an
external snapshot service, asks another service for the holdings at an exchange,
and sends daily digests through a Telegram bot. This directory holds TLA+ models
of it, the TLC configurations that check them, and proofs that TLAPS checks.

All line numbers refer to the files under `src/`. `PROJECT.json` names, for
every definition, the lines it stands for, and for every hazard the properties
that are about it.

## 1. Inventory

| Component | State | Operations | Meets |
|---|---|---|---|
| Telegram daily digest (`services/telegram_daily_balance.py`, `jobs/`) | `telegram_digest_deliveries`, row locks | one invocation per scheduler tick: select, claim, send, record | other invocations (rows, locks), Bot API, settings |
| Telegram settings and webhook (`routers/telegram.py`) | `telegram_notification_settings` | GET, PATCH, `/start` webhook | digest |
| Live assets lookup (`routes.py`) | `_assets_cache`, `_assets_inflight`, `_assets_lookup_slots` | GET `/assets` | chain collection in a thread |
| Wallets (`routers/wallets.py`) | `wallets`, advisory lock per owner | create, change, delete, restore | groups, snapshot runs, metrics |
| Wallet groups (`routers/wallet_groups.py`) | `wallet_groups` | create, rename, order, delete | wallets (`ON DELETE SET NULL`) |
| Accounts (`routers/auth.py`, `core/security.py`, `services/telegram_auth.py`, `deps.py`) | `users`, `telegram_accounts` | register, login, change password, Telegram login, link e-mail | wallets (cascade of a deleted user) |
| Snapshot jobs (`services/snapshot_jobs.py`, `routers/snapshot_jobs.py`, `routers/snapshots.py`, scheduler in `main.py`) | the counters; jobs live in the external service | refresh, retry, first snapshot of a wallet, scheduler tick | external snapshot service, wallets |
| CoinGecko price cache (`connectors/price/coingecko.py`) | price and time per coin, a thread lock | get price | threads of the pool, provider |
| Manual balances (`services/manual_balance.py`, `services/asset.py`) | `manual_balances`, `assets` | PUT, DELETE | other requests (row locks, unique constraints) |
| Allocation targets (`routers/portfolio.py`) | `allocation_targets` | PUT | other requests |
| Wallet view (`services/wallet_view.py`) | none, reads snapshots | latest assets, value, health of a wallet | snapshot rows, wallets |
| Portfolio health (`services/portfolio_health.py`) | none | one verdict on all wallets, merged with the exchange | wallet view |
| Portfolio endpoints (`routers/portfolio.py`) | none but the targets | summary, 24 h change, history, allocation, rebalancing | wallet view, health, exchange |
| Exchange portfolio (`services/exchange_portfolio.py`) | none | read of an external service, classification of its answers | portfolio endpoints, prices |
| Chain collection (`services/portfolio.py`, `connectors/`) | none | one pass over the RPC endpoints | assets lookup |
| Legacy snapshots, admin promotion, configuration, logging, metrics, migrations, scripts | various | not on the path of requests that change state together | - |

### What is hard, and what makes each component correct

*Daily digest.* The scheduler starts an invocation whatever the previous one
does. Invocations overlap, wait for each other's row locks, die between the
committed claim and the recorded outcome, hear of a failure for a message that
was accepted, and outlive their lease. Correct means: an attempt belongs to one
invocation; an attempt puts at most one message into the chat; a row is
re-claimed only if the rules allow it at the moment of the write; `sent` is
never claimed without a message; no delivery is parked for good while it is due;
without a fault there is one message at most.

*Assets lookup.* Many requests share one task per address behind
`asyncio.shield`; a timeout of the queue for a slot races the hand-over of
the slot; tasks outlive their clients. Correct means: slots neither leak nor
multiply; one task per address; an answer was not out of date when it was asked
for; every request is answered.

*Wallets and groups.* Every request reads, checks and writes at the end; only
creates of one owner are serialised, and the activation is counted after the commit
and an awaited refresh. Correct means: no duplicate active address, at most one
activation event, group references to own groups only, a lock that is
always given back, and a view that shows the assets of the present address.

*Accounts.* Sign-in paths count, check and hash before they write, and PostgreSQL
checks only the unique columns. Correct means: a replaced password does not come back
unless an outdated hash of it was being upgraded, the merge of a Telegram user takes no
data its caller had, identities are unique and lead to their users.

*Snapshot jobs.* The service may do the work and the answer be lost; whoever asks
again is told of the same run. A retry is decided from a status that was read
earlier. The scheduler makes one call after the other. Correct means: new work is
counted once; every run is founded on a request of its owner; one refused call
does not cost the users after it their turn.

*Price cache.* Threads read a price and its stamp in two steps without the lock
while another one writes them in two steps; one lock for all coins is held during
a fetch (with a timeout of 15 seconds for each read of the socket). Correct means: an
expired price is fetched once, an answer is never older than what the cache held, an
expired price is an answer only for a reason, and the lock comes free.

*Manual balances and targets.* Transactions at READ COMMITTED, rows that are not
there and so cannot be locked, flushes that wait for other transactions in the
order of the payload. Correct means: the targets of one payload are there together;
a request that runs alone does what it says; every request ends.

*Portfolio.* A request reads balances, waits in a thread for another service,
and reads more tables afterwards, while runs end and addresses change. Two copies
of the health rules have to agree. The history joins two schemas that overlap
in time. Correct means: `fresh` is fresh; a change compares an address with
itself; the chart does not depend on where it begins; hints move value and
make none.

## 2. Modules

| Module | Role |
|---|---|
| `DailyDigest` | the sender, its settings, its locks and every fault; properties |
| `DigestPromise` | abstract specification: what is promised for each account and date |
| `DailyDigestProofs` | type correctness, ownership, message bound, re-claim rule, refinement |
| `DailyDigestOnceProofs` | at most one digest without faults |
| `AssetsLookup`, `MCAssetsLookup` | cache, single flight, slots |
| `AssetsLookupProofs` | cache, slots, single flight, currency of the answers |
| `Wallets`, `MCWallets` | wallets, groups, advisory lock, snapshot runs and the choice of the one shown |
| `WalletsProofs` | unique addresses, at most one activation, advisory locks, groups, quiet runs |
| `Accounts`, `MCAccounts` | users, Telegram identities, sign-in, passwords, the merge |
| `AccountsProofs` | type correctness, uniqueness, passwords, identities, counts, what a merge spares |
| `SnapshotJobs`, `MCSnapshotJobs` | the callers of the snapshot service and the scheduler loop |
| `SnapshotJobsProofs` | accepted once, founded runs |
| `PriceCache` | the threads that share the prices of CoinGecko |
| `PriceCacheProofs` | spacing of fetches, age of the answers |
| `Holdings`, `MCHoldings` | manual balances, assets, allocation targets as overlapping transactions |
| `HoldingsProofs` | whole payloads of targets, quiet PUTs |
| `WalletView` | what a wallet is worth and how far to trust it (operators over the snapshot tables) |
| `PortfolioHealth` | one verdict on all wallets, merged with the exchange |
| `ExchangePortfolio` | what is accepted of the exchange service, present and past |
| `PortfolioChange` | the change of 24 hours |
| `PortfolioHistory` | seeds, rows and points of the chart |
| `Allocation` | keys, shares and rebalancing hints |
| `Portfolio`, `MCPortfolio` | the pages as requests in steps, over tables that move |

`DailyDigest` instantiates `DigestPromise` with a refinement mapping
(`Promise`): the number of attempts and the status are read off the row, the
accepted messages are the history variable `delivered`.

`Portfolio` composes the modules of operators: `PortfolioHealth` extends
`WalletView`, `PortfolioChange` and `Allocation` extend `PortfolioHealth`,
`PortfolioHistory` extends `WalletView`; `Portfolio` extends these three and
instantiates `ExchangePortfolio`. The tables are declared in `WalletView` as
variables, so that every operator reads the state of the moment it is used in;
`Portfolio` has the actions that change them.

`Wallets` and `Portfolio` look at one race from two sides. In `Wallets` a run and
a PATCH overlap while the stamp is being written; in `Portfolio` stamps are in time,
and a run that outlives the change is the hard case.

Definitions whose comment begins with "A slip:" are what a mistake at that place
of the code would look like. No specification uses them; they are there to show
that a property notices the mistake.

### DailyDigest

One process per invocation (`Jobs`). `job[j].pc` follows
`send_due_daily_balances`:

| `pc` | Code | Actions that leave it |
|---|---|---|
| `idle` | not running | `Start` reads clock and enabled settings once |
| `loop` | the `for` over the result set, which has no order | `SkipNotDue`, `NextRow`, `Finish` |
| `select` | `SELECT ... FOR UPDATE` of the delivery | `Select` once the row is free; `DeadlockAbort` |
| `digest` | awaits of the digest | `Claim` (update or `ON CONFLICT DO NOTHING`, then commit), `Conflict` |
| `send` | `sendMessage` | `Send`: the verdict of Telegram and what the client hears of it |
| `record` | final update and commit | `Record` once the row is free |

A row that is skipped stays locked until the next commit, rollback or end;
this is in `Select`, and it is why deadlocks are possible with two accounts. After
an insert conflict the code rolls back; the objects of the result set are then
expired, and access to the next of them would need a lazy load, which an async
session refuses. `Conflict` therefore ends the invocation. `Crash` stands for
the death of the process and for every exception that leaves the loop.

`Patch` is PATCH `/telegram/settings`. The text of the digest is left out: it
has no influence on control. README 384-386 says that a 400 from Telegram
disables the notifications, as a 403 does; `Record` follows the code and
`tests/test_telegram.py:565`, where only the 403 does. That is one step of one
actor, so no run is spent on it.

### AssetsLookup

The code between two awaits is one action. A task passes through `created`
(scheduled), `queued` (waits for the semaphore), `granted` (was handed a slot and
has not run yet), `fetching` and `done` (its callbacks are still to run).
`LateTimeout` is the case in which `asyncio.timeout` fires between `granted` and
the next step of the task; the semaphore then passes the slot on.

`asyncio.Semaphore` keeps a task that was handed a slot in its queue until the task
runs, and is locked while there is one, even if a slot is free (`Locked`); a new task
then queues, and a task that leaves the queue hands free slots to those behind it
(`HandOut`). With the code's four slots this happens, and `SlotsAccounted` says what is
left of "nobody waits while a slot is free": beside a free slot there is a task that
was handed one and is about to run. Which of the waiters get a slot is left open,
where asyncio has a deque, and so is how many are woken at once and whether a timeout
in the queue wakes somebody as well: this depends on the version of Python, and
the model allows all of it.

`Finish` runs
`_finish_assets_lookup` and wakes the requests that share the task. `Tick` waits
for the callbacks of finished tasks, since these are already in the ready queue
of the loop. The second look into the cache after a slot was obtained always
fails on one event loop; `NothingCached` shows it instead of modelling a branch
that cannot be taken. The cache is a sequence in the order of the code's
`OrderedDict`; `Without` removes the one entry of an address, as `pop` does, and
`TypeCorrect` proves that there is never a second one.

### Wallets

A request is a process: create passes `lock`, `check`, `write`, `refresh`; the others
start with the row as it was read (`copy`) and pass `check`, `write`. `Insert` commits and
gives the advisory lock back; in `refresh` the create reads its row back, during
which others of the user go on, and then counts the activation (`Count`), or fails
to read it and counts nothing (`RefreshFails`). The write is one
statement with its commit; PostgreSQL checks the partial unique indexes and the
foreign key of that statement only (`Clash`, `GroupExists`). `Updated` writes the
columns that differ from the copy, as the ORM does. Every event that takes a
time stamp gets a clock value of its own (`Later`), up to the bound. Runs of the
external service are created with a time stamp and read the address later;
`Shown` is the choice the wallet view makes. Each run remembers whether a change
of the wallet was under way when the service looked (`quiet`, a history field).

### Accounts

A request is a process again, between the awaits at which another one may
commit: the reads at the start (`AskRegister`, `AskLogin`, `AskChange`,
`AskEnter`, `AskLink`), the hash or its verification in the thread pool, and the
write with its commit (`Register`, `Login`, `Change`, `Enter`, `Merge`). A link
has three reads more: `CheckTarget`, `CountWallets`, `CountGroups`. A write is
checked by the unique columns and foreign keys only (conflicts end in
`RegisterConflict`, `EnterConflict` or `MergeFails`). `Merge` is the one
transaction that moves the identity, replaces the hash and deletes the caller,
with the cascade of the foreign keys; a row that the cascade takes (`Lost`)
is not found again by a link that has read it. Users are never numbered twice:
the row of a deleted user is `Deleted`, and the identifiers run out after
`Users` (the bound of the model).

A hash is of Argon2id with the parameters in use (`argon2`), of Argon2id with other
parameters (`older`, what `check_needs_rehash` finds) or of bcrypt; the latter two are
`Outdated`, and a login or link that verified one writes a new hash. `Veterans` are
users from before, with an outdated hash of either form. `Prefix` is what bcrypt sees of
a password, its first 72 bytes. `Acquire` and `Drop` are the
other endpoints that give a user wallets and groups and take them away. `chosen` is
history: the passwords that may sign a user in, which are the one last set and those
that were verified against an outdated hash before that and are about to be
hashed anew (`Rehashing`). So is the field `had` (the data a caller had at the start). Tokens, roles, the check of `initData` and the
refresh of names at a repeated Telegram login are left out.

### SnapshotJobs

Every caller makes one HTTP call in a thread and waits. `Refresh`,
`RefreshWallet`, `Retry` and `CreateWallet` check and post; `Tick`, `CallNext`,
`TickEnds` are `_scheduler_loop`, whose users are read once in a tick. A call ends
with an answer (`Answer`) or without one (`GiveUp`: timeout, no connection,
a body that cannot be read), and in both cases the service may have done the work.
`Status` and `Outcome` are the mapping of the service's codes to what the client
sees and what the counter counts.

The service is external: `Handle` and `Progress` say what its callers rely on,
namely that it reports the active run of the same owner, scope and parent instead of
creating a second one. `AcceptedOnce` and `RunsAreFounded` hold under this
assumption. What `Retry` posts is the parent alone; the fields `user` and `scope`
of its call are what the service takes from the parent.

### PriceCache

A thread passes `asked` (has read the clock), `looked` (has read the price,
without the lock), for Ethereum `reread` (the price is read again for the answer),
else `waiting` for the lock, `fetching` while it holds it, `stamp` (the price is
stored, its stamp is not) and `done`. A price is told apart by the moment the
provider was asked for it. That a thread can see a new price with an old stamp
or, in the other order, an old price with a new stamp, is in the split of `Look`
and `Check` and of `Fetch` and `Stamp`. `start`, `since` and `failed` are history.

### Holdings

Each request is a transaction. `PUT` balances: for each item the asset is looked
for, made and flushed if it is missing, the balance row is looked for, and the
change is put into the session (`change`); it is sent with the next flush (`Flush`)
or the commit (`CommitPut`), because the session does not flush before a read. What
is sent waits for rows of others (`Free`) and fails if a row came or went since
it was read (`Surprised`: a unique index, or an UPDATE that matches no row).
`DELETE` waits, too, but does not mind a row that has gone.

`PUT` targets: a DELETE at READ COMMITTED finds the rows that are committed when
it begins (`seen`, in `AskTargets`), waits for those that another transaction has
deleted, and takes those that are still there (`Clear`); a row that was committed
while it waited is not among them. Then the rows are inserted and committed, or a
key is there already (`Fill`). `Deadlock` is PostgreSQL's: a circle of requests that
wait for each other is broken by a rollback of one of them.

A target carries the payload it came from (`Origin`); that a payload adds up
to 100 per cent is checked by its schema, so rows of one payload are 100 per cent.

### WalletView, PortfolioHealth

`Info` is `build_wallet_balance_info` for one wallet: the newest readable snapshot of
the present address, else the newest row of the old schema, else the manual
balances, else nothing. Both pages call it, so it is one definition here, too, and so
are the tables. What follows from it exists twice in the code and is translated twice:

| Rule | `wallet_view.py`: `WalletView` | `portfolio_health.py`: `PortfolioHealth` |
|---|---|---|
| freshness | `Freshness` | `PortfolioFreshness` |
| sources of prices that are known | `KnownSources`, `Normalized` | `PortfolioSources`, `PortfolioSource` |
| which prices are looked at | `PriceSourceOf` | `StoredPrices`, `OtherPrices`, `PricesSeen` |
| price quality | `Quality` | `PriceQuality` |
| chains that did not succeed | `Issues` | `ChainFailures`, `ChainIssues` |
| runs under way | `Refreshing` | `RefreshInProgress` |
| state | `WalletState` | `HealthState` |

`HealthCopiesAgree` compares the pages of a portfolio of one wallet: state,
freshness, date, issues and price quality. `Merge` is `_merge_exchange_health`, and
`MergedQuality` the third copy of the rule for the price quality, which works on
counts.

### ExchangePortfolio, PortfolioHistory, PortfolioChange, Allocation

Pure operators. `FetchExchange` and `FetchHistory` turn what the other service
answers, or fails to answer, into a status and positions. `Seed`, `Balance` and
`HistoryPoint` are the chart of many wallets: rows of the old schema count up to
the first row of the new one, and what a wallet was worth before the window is its
seed. `Change` gives a number only if both ends of the day are whole. `Hint` is the
rebalancing of one asset, with the rounding of `Decimal.quantize` (`Quantized`,
half to even) and the tolerance of one percentage point. Values are integers
in hundredths of a cent, shares in hundredths of a per cent.

### Portfolio

One request at a time, in the steps between which other steps may fall:

| `pc` | Summary | Allocation | History |
|---|---|---|---|
| `idle` | `BeginSummary` reads the balances | `BeginAllocation` | `BeginHistory` fixes the window |
| `exchange` | `AskExchange` | `AskExchange` | `AskHistory` |
| then | `Assess` the health, `Compare` with a day ago | `Allocate` reads balances | `Draw` reads rows and seeds |

`ReadWallet` is the page of one wallet. The others are `Tick`, `ChangeAddress`,
`StartRun`, `Collect` (one wallet of a run), `BreakDown`. One request suffices,
because pages change no table. `Meanwhile` leaves out interleavings that make no
difference: before a request has read anything, and after its answer has left.
A snapshot remembers which address it was taken of (`address`, a history field).

## 3. What the runs show

| Run | Question | Bounds |
|---|---|---|
| `digest_faults` | safety, refinement, and that a digest that stays due is settled, under every fault | 2 invocations, 1 account, 2 attempts, 1 date, lease 1, clock to 2 |
| `digest_fair` | no fault: one message per account and date; locks and deadlocks do not stop an invocation | 2 invocations, 2 accounts, 2 attempts, clock stands still |
| `assets` | slots, cache, single flight, answers | 2 requests, 2 addresses, 1 slot, 1 entry, TTL 2, clock to 3 |
| `wallets` | uniqueness, activation, locks, groups, quiet runs | 2 requests, 2 users, 2 wallets, 1 group, 1 run, 2 kinds, 2 spellings of one address, clock to 3 |
| `accounts` | identities, passwords, counts, what a merge spares | 2 requests, 3 users (1 veteran), 2 e-mails, 2 Telegram identities, 2 passwords with one prefix, hashes of 3 forms |
| `jobs` | counters, founded runs, the scheduler reaches everyone | 2 users with a wallet each, 1 request beside the scheduler, 2 runs, codes 202, 404, 500 |
| `prices` | the cache under threads | 2 threads, 2 coins, TTL 2, clock to 4 |
| `holdings` | targets, quiet requests, every request ends | 2 requests of every kind, 2 assets, 2 items |
| `portfolio` | health, change of 24 hours, chart and hints over tables that move | 2 wallets, 2 runs, a tick is a day: fresh 0, stale 1, day 1, clock to 2, 1 step inside a request |
| `accounts_data` | comment: a merge takes no data (refuted) | 1 request, 2 users |
| `wallets_revision` | docstring: the present address (refuted) | 2 requests, 1 wallet, 1 run |
| `targets_total` | README: targets total 100 per cent (refuted) | 2 requests, 2 keys |

Why these bounds are enough to be of interest: each has the conflict in it.

- Two invocations are needed for every race of the digest; two attempts let one be
  claimed, abandoned, claimed again by the other one and recorded late by the
  first. Lease 1 within a clock of 2 lets a lease expire twice; a `retry_after`
  of 3 is above the limit that the code caps it at. Two accounts are needed for
  a cycle of row locks.
- One slot for two addresses makes every second lookup queue; a cache of one entry
  evicts at each success; TTL 2 within 3 makes an entry go stale. With
  one slot no task can wait beside a free slot; that case, which needs two, is covered
  by the theorem `SlotsAreAccounted` (any number of slots), not by a run: instances
  with two slots and three tasks have over a million states before liveness.
- Two requests on two wallets make a check stale, and two spellings make it matter
  that the comparison folds case. In `wallets` a PATCH names all its fields and
  restores a wallet, and two creates of one user meet in every order, also while the
  first is in `refresh`; the run falls before, between and after the stamp and the
  commit of a change, and the clock has a value for each of a creation, a change and
  the run. `wallets_revision` tries the fields one by one.
- With three users two can be merged into the third, and two passwords with one
  prefix are what bcrypt confuses.
- Two runs let one be retried by the other, one be reported twice, and the ids be
  used up; a client and the scheduler ask for the same user.
- Two threads on one coin race; on two coins one waits for the lock the other holds.
  TTL 2 within 4 lets a price expire and be replaced while a thread is between two
  reads.
- Two requests with two assets can wait for each other in a circle; one key, the
  other, or both are what makes two payloads disjoint, overlapping or equal.
- A wallet on a chain and a manual one have every source there is. Two runs and
  rows of the old schema at -1 and 1 let the schemas overlap. The values are chosen so
  that no share comes out even and rounding shows.
- The change of 24 hours needs a run a day ago and one of now, both of the present
  address, and an address change before both. With a tick of a day, an address change
  at 1, a run at 1 and a run at 2 this fits into a clock of 2, and such complete changes
  occur in the run; so do runs of the old address that end after the stamp of the
  new one and lie at the moment of the start. The price of the coarse clock: the
  tolerance of the change and the age that is fresh (15 minutes each, by default) are
  less than a tick, thus 0, so a day ago is one moment, and `StartAgreesWithHistory`
  has the choice among values and schemas but not among moments.

Bounds: the clock of every module is bounded by `MaxTime` (a guard of `Tick`;
`Later` saturates). `Patience` bounds the steps inside one portfolio request.
`Users`, `Jobs`, `Runs`, `WalletIds` are identifiers that are given out once.
`delivered` is a counter per attempt, never above 1 as the invariant shows.
Symmetry is used only in runs without liveness properties. Deadlock is checked
except in `portfolio` (the clock ends and everything may be done) and the two runs of `Holdings` (each request is made once).

What the runs do not reach, and no other one does: the tolerance of the hints at
exactly one percentage point and ties of their rounding; targets that do not add up to
100 per cent (`targets_total` shows that they can exist; the hints are computed for
whole ones); the `allocation_targets` that go with a merged user, which `data` of
`Accounts` leaves out beside wallets and groups; and accounts that an invocation of
the digest leaves unserved because it ended early, with the question whether a later one
serves them.

### Findings

1. *Current address revision* (`wallet_view.py:394`). The time stamp that marks
   the revision is read before the change is committed. A snapshot run that is
   created in between captures the old address and is shown for the new one
   (`wallets_revision`). `QuietRunIsCurrent` shows that this window is the only
   one.
2. *Merged before they acquire portfolio data* (`auth.py:233`). A wallet or
   group that is committed after the counts is deleted with the user
   (`accounts_data`). `MergeSparesOldData` bounds this: data the caller had when
   the request arrived is never taken.
3. *Targets total 100 per cent* (README 111). Two PUTs that name different assets
   and overlap both commit, and the user has the targets of both (`targets_total`).
   `TargetsWhole` bounds this: the rows of a payload are there together or not at
   all.

### Observations

Met while modelling; no run is spent on them, since one or two steps of one actor
show them or a property above is stated so that they are allowed.

- *At most one digest* (README 378-379): a request that fails for the client after
  Telegram accepted the message is a failed attempt, and the digest is sent again.
  Bounded by `OneMessagePerAttempt`; without faults the promise holds, by the
  theorem `OneDigestWithoutFaults`.
- *A Telegram-only identity* (README 83): the code does not look at the caller's
  e-mail address. A user who is linked already can call again and is merged away.
- *Automatic upgrade* (README 425-427): a login or link that verified an outdated hash
  writes the password it verified, without a second look at the row; a change of
  password that commits in between is undone. This takes a bcrypt hash, or one of
  Argon2id with other parameters than those in use (`security.py:37-41`), that is, a
  user from before an upgrade of the library or of its defaults.
  `ChosenPasswordStays` shows that it is the only way.
- *The activation event* (`wallets.py:181-182`) is counted after the commit and a
  refresh that may fail. Then the first wallet is stored, the client gets a 500, and
  the activation is never counted, since later wallets are not the first.
  `OneActivation` is therefore "at most once", which is what the comment says.
- *Accepted* (`snapshot_jobs.py:93`): a run whose answer was lost is reported as reused
  to whoever asks again, and never counts as accepted. `AcceptedOnce` is "at most
  once", too.
- A PUT of a manual balance that names what the row says already writes nothing, and
  succeeds although a DELETE removes the row meanwhile.
- README 384-386 says that a 400 from Telegram disables the notifications; the code
  and `tests/test_telegram.py:565` do so for a 403 only.
- The copy of the price rules in `wallet_view.py` does not know `binance_usdt`: a wallet
  with such a price is `unknown` on its own page and `complete` in the portfolio.
  `HealthCopiesAgree` leaves out this word and nothing else.
- A portfolio of a few cents: a hint below half a cent is rounded to 0.00 and says
  `reduce` although the asset is short of its target. `HintsBalance` leaves out
  suggestions of 0.00.
- A native asset of the old schema, whose row has an address, gets the key of a
  token (`evm:<chain>:<address>`) and is not the same asset as the one the
  service stores.
- The history shows snapshots of every address a wallet has had; the change of
  24 hours only those of the present one. `StartAgreesWithHistory` compares them
  while no address has changed.

## 4. Fairness

*Digest* (`Fairness`). A running invocation goes on (WF of `JobStep`), the
scheduler starts it again (WF of `Start`; cron), time goes on (WF of `Tick`).
Strong fairness of `Select` and `Record`: PostgreSQL queues the transactions that
wait for a row, so one that waits gets its turn although the lock is free only
now and then. `DueDigestIsSettled` assumes `CrashesStop`, since an invocation that
crashes for ever settles nothing.

*Lookup* (`FairSpec`). The event loop runs its ready tasks, the timeout of the
queue fires, and `summarize_all` ends: WF of every task's steps. The last one is an
assumption: the HTTP calls have timeouts, but for each read of the socket. Nothing is assumed of clients or of the clock.

*Snapshot jobs* (`Fairness`). The loop of the scheduler keeps running (WF of `Tick`,
`CallNext`, `TickEnds`) and each of its calls ends, because it has a timeout (WF of
`SchedulerReturns`, which an answer, a refusal or no answer satisfies). Nothing is
assumed of the clients or of the progress of runs.

*Price cache* (`FairSpec`). A thread that can go on does: WF of its steps except the
one that takes the lock. It is assumed that a fetch ends, with or without a price:
the timeout of `requests` is 15 seconds for each read of the socket, so a
provider that sends a byte now and then is not cut off by it. `threading.Lock` promises no order, and none is assumed.

*Holdings* (`FairSpec`). PostgreSQL goes on with every request that does not wait (WF
of each request's `Step`) and breaks circles. No strong fairness is needed, as every
request is made once.

*Wallets, Accounts, Portfolio.* Only safety is checked. `LocksMoveOn` is the safety
property from which progress of the creates follows: the holder of an advisory lock
never waits. No step of the others waits for another request.

## 5. What is proved

`DailyDigestProofs` proves, for every number of invocations, accounts, zones, for
every lease and limit and any set of faults:

- `TypeCorrect`, `AttemptOwnership`, `MessageBound`, `SentIsTrue`: invariants;
- `ReclaimRule`: the action property `ReclaimIsJustified`;
- `PromiseKept`: `DailyDigest` implements `DigestPromise`.

The properties are not inductive. The invariant `IInv` adds: a locked row exists;
an invocation beyond its selection has a due date for its row; one that holds a
lock in `digest` has seen the row as claimable and it still is (`LockedClaim`:
nobody changes a row that another one has locked, which is why what was checked before the
awaits is still true at the write); an invocation that is sending uses an
attempt that the row counts, and whose message is not in the chat yet
(`AttemptUse`). The re-claim rule and the refinement follow step by step from
`IInv`.

`DailyDigestOnceProofs` proves `OneDigestWithoutFaults` from `Faults = {}`. Its
invariant `OnceInv` adds: an invocation is younger than the lease (`Young`, the
guard of `Tick`); so one that is sending still holds the row's only claim (`HoldsClaim`); and
a message in the chat is known to the row or to the invocation that is about to
record it (`MessageIsKnown`).

`AccountsProofs` proves, for any number of users, addresses, identities,
passwords and overlapping requests: `TypeCorrect`, `UniqueIdentities`,
`NobodyOrphaned`, `PasswordStays`, `IdentityKept`, `CountedWhenCreated` and
`OldDataSpared`. None of them is inductive, because a write relies on what was
read several commits earlier. The invariant `IInv` states what survives: a user
who is not a veteran never has an outdated hash (`HashForms`), so neither a login
nor a link that read one has anything to write back (`LoginKnows`, `LinkKnows`);
the users a link has read are not unmade; and the identity a link is about to
move still belongs to its caller, or has moved to an e-mail user already, and
then the caller is no live Telegram-only user (`IdentityKnown`). `IdentityStays`
speaks of Telegram-only users for a reason: with three overlapping links the
identity of a user *with* an e-mail address can be lost in the cascade, which
takes a caller who has an e-mail address (second observation). For the passwords
of veterans a second invariant `PInv` adds `Pending`: what a login or link is about to
hash anew is one of the passwords that may sign its user in (`chosen`), since a change
of password keeps those that are on their way. For the merge a third one, `DInv`,
relates the remembered data to the table: while the caller is there, what it had at
the start is still there, and what the link has counted already was not among it
(`DataKnown`); users who are gone have no data.

`AssetsLookupProofs` proves, for any number of requests, tasks, addresses, slots,
entries and any TTL: `TypeCorrect`, `SlotsAreAccounted`, `FlightsAreSingle`,
`NothingIsCached` and `AnswersStayCurrent`. The invariant comes in layers. The
cache: at most `MaxEntries` entries, one of an address (`CacheOK`), which is what
makes a hit and a removal unambiguous. The slots, by the cardinality of the
tasks that hold one or were handed one: a release either raises `free` or hands the
slot to a task that waits (`Released`), and a task that leaves the queue hands on
some of what is free (`HandsOn`); so nobody is left in the queue beside a free slot without
a task that was handed one and is still to run. Who works on what (`Working`,
`Registered`, `Waits`): a task that is not over is the one registered for its address. Then time: a task that waits
for its turn has no fresh entry beside it (`Uncached`), because only a task of
the same address could store one, and there is no second one; the result of a
task whose callbacks have not run is of this moment (`Result`; the clock waits
for the callbacks), so the requests that share it get an answer that is at most
as old as their question (`Answer`).

`WalletsProofs` proves, for any number of users, wallets, groups, runs and
requests: `TypeCorrect`, `AddressesAreUnique`, `ActivatedOnce`,
`LocksAreReleased`, `GroupsAreOwned` and `QuietRunsAreCurrent`. The layers of its
invariant are: what a request knows by itself (`Shape`), what it knows of rows
(`Related`: the id of a create is its own, the wallet of a change is there), the
advisory lock (`Serial`: whoever passed it and has not committed is its holder, and
whether the wallet is the first is still as it was read; beyond the commit, a user's
activation is counted or about to be counted by one request only, and not without a
wallet, `Counted`), the unique address, the groups (`Grouped`:
a group that was found is its user's or deleted since), and the runs
(`RunsKnown`: a change that is under way beside a quiet run began after it, so it
writes a younger stamp or leaves the address alone). The last one is why the race
of finding 1 needs a run that is not quiet.

`SnapshotJobsProofs` proves `TypeCorrect`, `AcceptedAtMostOnce` and `RunsFounded`,
for any number of users, wallets, callers and runs. What a caller checked before
it posted is true when the service handles the call, however late (`Founded`):
the owner of a scope is fixed, and a run that is over and has failed chains stays
so. A run that is not there is not counted (`CountedRunsExist`), so the answer
that creates it is the first to count it.

`PriceCacheProofs` proves `TypeCorrect`, `AnswersWereCurrent`,
`ExpiredIsExplained` and `FetchesAreSpaced`, for any number of threads and coins
and any TTL. Whoever is between the two writes holds the lock, and but for that
thread the stamp of a coin is its price (`Stamped`). Prices only grow, so what
a thread has read lies between the price at the start of its call and the price
now (`CachedKnown`); a thread that fetches still sees the price it found expired
(`FetchKnown`).

`HoldingsProofs` proves `TypeCorrect`, `PayloadsStayWhole` and
`QuietPutsTakeEffect`, for any number of requests, assets and payloads. The
invariant says what a row lock protects: a request that has written a row knows
whether it was there, since it still is or is not (`LocksKnown`), and one that
has deleted a target has deleted all of its payload (`TakenKnown`). For the quiet
PUT, `AInv` adds what a request finds that is alone (`Alone`, `Prepared`): what it
is about to write is exactly what differs from the rows, and what it has read of
the targets is all of them.

The proofs use only the named assumptions on the constants (`ClockAssumption`,
`AttemptAssumption`, `FaultAssumption`, `NoneAssumption`, `AccountAssumption`,
`RowAssumption`, `LookupAssumption`, `WalletAssumption`, `PayloadAssumption`,
`JobsAssumption`, `PriceAssumption`, `HoldingsAssumption` and the
`NothingAssumption` of four modules), which TLC evaluates in every run of their
modules. They say of which sets the constants are, that limits are positive, and
that the values which stand for nothing are not values of anything else. Of the
sets of actors one is assumed to be finite: `Tasks`, whose slots are counted.

All inductive invariants were checked by TLC on the instances of the runs before
they were proved. `DInv` was checked with both kinds of data.

## 6. Only model-checked, and not modelled

Only model-checked:

- the liveness properties (`JobsEnd`, `DueDigestIsSettled`, `RequestsEnd`,
  `SchedulerReachesEveryone`, `LockComesFree`), because fairness is beyond the
  prover;
- the properties of `Portfolio`. Values, shares and hints are sums over sets and
  sequences of rows, folded; what a fold computes for every set is an induction
  over data, which is beyond the prover, too.

Every safety property of the other passing runs, invariant or action property, is
a theorem. Type invariants are properties of no run: they are stated for the proofs.

What is left out of modelled components, and why it makes no difference to
the properties:

- `active_canonical_wallets` drops all but one wallet of an address. The partial
  unique indexes no longer let duplicates in, and `UniqueActiveAddress` shows that
  they keep them out, so the set of wallets stands for it.
- The queries of `build_wallet_balance_info` count as one read. They are
  statements of one request at READ COMMITTED; the first chooses the snapshots, and
  the later ones read what belongs to these, which does not change any more.
- Selections of groups in the portfolio pages, and the scope of a group in the
  test for a run under way: they restrict the set of wallets.
- The page of the history of one wallet, which draws the rows of that wallet
  without seeds; percentages as floating-point numbers; the short list of assets.
- Tokens, roles, the check of `initData`, the refresh of names at a repeated Telegram
  login; labels and notes of wallets; names of groups; list filters; the wording
  of messages; the webhook that answers `/start`.
- The digest reads zone, hour and consent once for all accounts, in `Start`: a user
  who opts out while the loop runs is still sent the digest of that invocation.
- A 403 that arrives late switches notifications off although the user has just
  switched them on again. The code writes the flag without a look at it; which of
  the two should win is not said anywhere.

Not modelled at all: chain collection (one pass over RPC endpoints in
floating-point arithmetic, without state; what its failure means is in
`AssetsLookup` and `WalletView`), `create_snapshot_for_wallet` (nothing calls it; its
rows are `LegacyRows`), admin promotion (one UPDATE by hand), start-up validation of
settings, logging, metrics other than the counters that properties are about,
migrations, scripts and deployment. `PROJECT.json` gives the reason for each.

## 7. Plan

Modelled and checked: everything in the table of section 2. Proved: every safety
property of the digest, the accounts, the lookup, the wallets, the snapshot jobs,
the price cache and the holdings.

Proofs to come, in this order:

1. `Portfolio`, as far as no fold is involved: `HealthCopiesAgree` (two copies of
   the rules compared case by case), `FreshIsHonest`, and that the tables keep their
   types.
2. `ChangeIsOfOneAddress`, from an invariant that relates stamps, runs and the
   address a snapshot was taken of.
3. Lemmas on `Quantized` and `Hint` of `Allocation` for all integers, as the
   provers' arithmetic allows.
