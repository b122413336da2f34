# OpenCEX backend in TLA+

A verification project for the OpenCEX exchange backend (Django web processes,
Celery workers, PostgreSQL, RabbitMQ, Redis).  It models the parts of the program
that decide what happens to orders and to money, checks them with TLC on small
instances, and proves the central facts for every instance with TLAPS.  Paths below
are relative to the repository's root.

## 1. Inventory

### The parts and how they interact

| part | state it keeps | operations | talks to |
|---|---|---|---|
| Web views (`core/views/orders.py`, `core/views/withdrawal.py`) | none | create, cancel, update an order; market and exchange orders; create, confirm, cancel a withdrawal | database directly; the stack worker through the AMQP queue `orders.<PAIR>` |
| Orders (`core/models/orders/__init__.py`) | rows `Order`, `ExecutionResult` | `create_order`, `delete`, `_update_order`, `cancel_order`, `execute`, `close_market`, `revert` | balances, in the same database transaction |
| Balances (`core/balance_manager.py`, `core/models/inouts/transaction.py`) | rows `Balance(amount, amount_in_orders)`, `Transaction` | `set_hold`, `free_hold`, `spend_hold`, `increase_amount`, `decrease_amount` | called by orders, withdrawals, deposits |
| Stack worker (`bin/stack.py`, `core/stack_processor.py`, `core/orderbook/*`) | in memory: four sorted stacks per pair | `place_order`, `cancel_order`, `update_order`, `market_order`, `exchange_order`, `load_opened_orders`, `otc_bulk_update` | reads its queue; calls the order model; publishes the book in the cache |
| Order tasks (`core/tasks/orders.py`) | none | Celery entry points of the above, `stop_limit_processor`, fee aggregation, clean-up | queue, database |
| Withdrawals (`core/models/inouts/withdrawal.py`, `core/tasks/inouts.py`, `admin_rest/admin_rest.py`) | rows `WithdrawalRequest`, each with a `Transaction` | create, confirm, cancel, expire, approve, disable approve, unconfirm, pause, unpause, fail, complete | balances; payouts |
| EVM payouts (`cryptocoins/evm/base.py`, `cryptocoins/interfaces/web3_commons.py`, `cryptocoins/tasks/evm.py`) | queues `<currency>_payouts` and `check_tx`, cache key `nonce_<keeper>_lock`, last processed block | `process_payouts`, `withdraw_coin`, `withdraw_tokens`, `process_block`, `check_tx_withdrawal` | blockchain node, withdrawals |
| Deposits and accumulation (`core/models/inouts/wallet.py`, `cryptocoins/`) | rows `WalletTransactions`, `AccumulationTransaction`, last processed block | scan blocks, score, credit, send gas, accumulate | blockchain nodes, balances |
| Locks (`lib/oneinstlock.py`, `lib/utils.py`) | Redis keys | acquire, prolong, release | stack worker, tasks |

Further parts — bots, the public API, admin, accounts and 2FA, statistics,
notifications, the balance audit, settings — are clients of these or derived from
them; `PROJECT.json` lists each with the reason it is left out.

### An order's life

1. A web process runs `create_order`: one database transaction inserts the row with
   state OPENED and takes the hold from `Balance.amount`.
2. *After* the commit it serializes the object to JSON and enqueues `place_order`.
   Between the two the order is visible to its owner, who may cancel it.
3. The pair's worker, a single process with concurrency 1, takes messages in order.
   `place_order` processes the *object in the message*; `cancel_order` and
   `update_order` re-read the row.
4. `OrderProcessor.process` collects the matching resting orders and calls
   `Order.execute` with each: **one database transaction per match**.  Web processes
   run between two matches and see the order half filled.
5. What is left is added to the stack.  Resting objects stay in memory and are the
   ones later matches change and save: the stack is a write-back copy of the rows.
6. A restarted worker has an empty book and loads the open rows before its first task.

### A withdrawal's life

1. Saving a new `WithdrawalRequest` takes its amount from the balance through a
   `Transaction` in state PENDING.  The owner confirms it by a token, an administrator
   approves it, either may cancel it, and a periodic task cancels what stays unconfirmed.
2. `process_payouts` enqueues one task per CREATED, approved, confirmed request.  The task
   loads the request, waits until the nonce key is gone, sets it, asks the node for the
   nonce, sends the transaction, then saves PENDING and the hash into the row.
3. It waits for the receipt.  Without one it calls itself with the same nonce and a
   higher gas price; with one it releases the key.
4. The block scanner looks each mined keeper transaction up in the hashes of PENDING
   requests and starts `check_tx_withdrawal`, which completes the request or fails it.
   Failing and cancelling give the amount back.

### What is hard, and what must hold

* **Concurrency.**  Rows are written by web processes and by the worker; the worker
  acts on old copies.  *The objects in the book must equal their rows; a final row must
  never be written again.*
* **Ordering.**  place, cancel and update reach the queue from different processes.
  *A cancelled order must not rest in the book; an accepted cancel must take effect.*
* **Failure.**  A task is acknowledged when it starts, so a crash loses it half done;
  a broken connection makes the broker deliver a message twice.  *After a restart the
  book must be that of the database; a redelivery must not execute an order twice.*
* **Rounding.**  Every product is cut to 8 decimals, separately for holds, cachebacks,
  refunds, charges and fees.  *What is returned for an order never exceeds what was
  taken for it; no quantity or balance becomes negative.*
* **Payouts.**  A request is read, paid minutes later and then written; cancels, a second
  run of `process_payouts`, resends, a lost nonce and repeated scans come between.  *The
  amount is paid once or given back once, never both; a request that says COMPLETED was
  paid; no payout is forgotten.*
* **Matching.**  *Price-time priority; no crossed book at rest; a market order is
  filled completely or not at all.*

`PROJECT.json` lists every hazard at its source line with the properties that guard it,
or why none does yet.

## 2. Modules

| module | what it is |
|---|---|
| `Money` | the arithmetic: an amount is an integer number of smallest units, `to_decimal` is integer division |
| `OrderBook` | one trading pair: rows, balances, queue, worker memory; its properties |
| `SumProofs` | what holds of sums over finite sets, as lemmas the other proofs cite |
| `OrderBookInv`, `OrderBookProofs` | the inductive invariants behind `TypeOK`, the mirror of memory and database and the order of matching, and the TLAPS proofs |
| `SpecialOrders` | extends `OrderBook` by stop-limit orders, the process that sends them, and external (OTC) orders that are repriced together |
| `SpecialOrdersInv` | its inductive invariants |
| `SpecialOrdersProofs` | the TLAPS proofs about types and stops, and about book and database |
| `OrderReverts` | extends `OrderBook` by the ledger of each order's transactions and the administrator's revert |
| `OrderRevertsInv`, `OrderRevertsProofs` | the inductive invariant of balances with reverts, and the TLAPS proofs |
| `Payout` | abstract: an amount is taken, then paid once or given back once |
| `WithdrawalRequest` | the rows of withdrawals and every handler that changes them |
| `EvmPayouts` | extends it by the payout tasks, the nonce lock, node, chain and scanner; its properties; implements `Payout` |
| `EvmPayoutsInv` | the inductive invariants behind its properties and the refinement of `Payout` |
| `BtcPayouts` | extends `EvmPayouts` by the batches in which administrators pay Bitcoin requests; implements `Payout` for both |
| `BtcPayoutsInv`, `PayoutProofs` | its inductive invariant; the TLAPS proofs about payouts on both chains: what holds under every race, and what holds under some |
| `DepositLedger` | abstract: a transfer is entered, credited and charged back, each at most once |
| `WalletTransactions` | the rows of deposits and every handler that changes them |
| `WalletTransactionsInv`, `WalletTransactionsProofs` | what every handler keeps of the rows, as lemmas both blockchains cite |
| `EvmDeposits` | extends it by the chain, the scanner, the deposit and scoring tasks; implements `DepositLedger` |
| `EvmDepositsInv` | its inductive invariants |
| `EvmAccumulation` | extends `EvmDeposits` by `check_balances`, gas transfers, accumulation and the dust collector |
| `EvmAccumulationInv`, `EvmDepositsProofs` | its inductive invariants; of deposits and of their accumulation, the refinement and safety properties proved |
| `BtcDeposits` | extends `WalletTransactions` by the Bitcoin chain, scan, deferred deposits and accumulation; implements `DepositLedger` |
| `BtcDepositsInv`, `BtcDepositsProofs` | its inductive invariants, the refinement and where settled money went, proved |
| `MC*` | small instances for TLC |

### How `OrderBook` corresponds to the code

State:

* `order`, `amount`, `matches` are the `Order` rows, `Balance.amount` and the pairs
  (order, matched_order) of `ExecutionResult`.  A row keeps id, user, operation, whether
  it is a market order (types MARKET, EXCHANGE) or a limit order (LIMIT, EXTERNAL),
  price, quantity, quantity_left, cost and state.
* `held`, `fees`, `voided` are ledgers kept for the properties: what was taken for each
  order and neither returned nor spent, the fees collected, and the orders with a void
  fill.  No guard of an action reads them.
* `unsent` holds the rows of web processes that have committed but not yet enqueued.
* `queue` is `orders.<PAIR>`; `stack`, `cur`, `boot` are the worker's memory: resting
  objects, the object being processed with the matches still to make, and what
  `load_opened_orders` has yet to process.
* `onCancel`, `onPlace` are the cache keys `stackoncancel-<id>` and `place_order-<id>`.

An entry of `stack` keeps its object and the price it was sorted by: `BaseStack.remove`
looks for the key of the object, which a market fill or an update may have changed.

Steps:

* A database transaction is one step.  `CreateOrder`/`SendPlaceOrder` are the two halves
  of `create_order`; `RequestCancel`, `RequestUpdate`, `RequestMarket` are the views.
* `PlaceOrderTask`, `CancelOrderTask`, `UpdateOrderTask`, `MarketOrderTask` start a task.
  Processing an order that matches nothing ends in the same step, because no other
  process can see the worker's memory; otherwise `cur` holds the matches to make.
* `Match` is one `Order.execute` with what `execute_order_with_matched` does after it,
  `MatchFails` is an `execute` that raises: the database rolls back, memory does not, and the
  loop of `load_opened_orders` or `otc_bulk_update` it was called from ends.  `Finish` is what follows the last match: dust cancel, `add_to_book` or `close_market`.
* `Restart` forgets the worker's memory, `LoadOpenedOrder` reloads it; `Redeliver`
  delivers the head message again; `CancelKeyExpires` lets the 60-second key expire.
* Tasks the code runs in place (`cancel_order.apply` inside `_execute`) are part of the
  step that runs them.

Abstractions, all of which keep more behaviours than the code or none the properties
can tell apart:

* Limit, deviation and restriction checks at creation are the choice of `Prices`,
  `Quantities`, `Costs`: values that pass.
* `front_oncancel-<id>`, which stops a second cancel *request* for 120 s, is left out:
  a second request may always be made.
* `FeeRate` is one rate per user; in the code it may differ per order type and currency
  and is cached for five minutes.
* `place_order-<id>` does not expire: a redelivery comes sooner than 300 s.
* `amount_in_orders` (which no guard reads), notifications and the published book are left
  out.

`SpecialOrders` adds what `OrderBook` leaves to the other order types.  `stop`, `inStack` and
`lastPrice` are columns; `toLook` is the queue of the `stop_limits` process; `marking` are the
orders it has sent whose `in_stack` it has yet to write, two steps in the code.  The limit
orders of the users in `Otc` are the EXTERNAL ones: `otc_bulk_update` takes them all out,
changes their prices within `otc_limit` and processes them again (`ReloadRepriced`).

`OrderReverts` keeps, beside every step of `OrderBook`, the sum of the transactions booked
for each order (`own`) and what each match brought and cost (`deal`).  `RevertOrders` is
`revert_orders_balance` of a set of orders: one database transaction, all of it or, when
somebody has spent the money, nothing.  The worker's objects of such orders do not change.
`deal` and `own` stay after a revert, which leaves its ExecutionResults in the table.

### How `WithdrawalRequest` and `EvmPayouts` correspond to the code

State:

* `req` holds the `WithdrawalRequest` rows: state, confirmed, approved and the hashes in
  `data['txs_attempts']`.  `transaction` is the state of the row's `Transaction`, `account`
  the balance of the currency, `expired` the requests older than
  `WITHDRAWAL_REQUEST_EXPIRATION_M`.
* `task` is the handler each process runs, with the object it has loaded.  A handler is
  three steps, since others run between its statements: `Begin` loads, `AssertState` evaluates
  the assertions of `cancel`, `fail` and `complete`, and `Confirm`, `AdminSave`, `GiveBack` or
  `Complete` is the database transaction that writes.  The administrator's actions save
  *every* column of an object that was loaded before; the views and the expiry task load
  only the id, read later attributes afresh and save only those.
* `payouts` counts the waiting withdraw tasks of each request, `worker` holds the running
  ones, `lock` is the nonce key, `checks` the waiting `check_tx_withdrawal` tasks.
* `pool`, `mined` are the node and the chain, as seen by the keeper's account (external);
  `scanned` is the last processed block.
* `keyLost` and `forgotten` are histories the properties refer to; no guard reads them.
  `keyLost`: a worker has set the nonce key over another's, or the key went while a worker had a
  nonce or a transaction was pending.  `forgotten`: the requests whose check was lost, or whose
  transaction another withdrawal's has replaced.

Steps of a withdraw task: `StartWithdraw` reads the row; `SeesFreeNonce` and `TakeNonce` are
the reading and the setting of the key, two calls, and any number of workers may find it free
before the first sets it; `Send` offers the transaction to the node, and releases the key when
the node refuses; `SaveAttempt` writes state and hashes; then `Receipt`, `Resend` or `GiveUp`.
The key may expire at any time (`LockExpires`).  A task whose request is too small to pay the fee
fails it through the handler.  `Crash` ends a task anywhere; Celery acknowledged it when it began.

`CheckTx` takes a check and begins to complete or fail the request.  `CheckLost` is a check that
finds no receipt in time (`is_valid_transaction` raises `RetryRequired`, for which
`check_tx_withdrawal_task`, unlike the deposit tasks, has no autoretry) or whose process dies;
`SettleDies` is a process that dies before `complete` or `fail` has written.  Either leaves the
request PENDING, and nothing follows it.

**Races.**  The code leaves five more orders of events to timing.  They are members of the
constant `Races`, so that a run can say which it includes:

| race | in the code |
|---|---|
| `cancel` | a handler changes a request whose payout has begun: `withdraw_coin` never asks for the state again |
| `save` | an administrator's full save writes an object loaded before another commit |
| `twice` | `process_payouts` runs again before its first tasks: requests stay CREATED while tasks wait.  In `BtcPayouts`, the keeper gets a new output while a run has inputs in hand: a second run then pays the same requests from it, and the node has nothing to refuse |
| `scan` | a block is scanned before its transaction's hash is recorded |
| `crash` | a worker dies, or `save` raises, between sending and recording |

`PayoutPromise`, `PendingIsFollowed`, `StateMatchesMoney` and the liveness properties are checked
with `Races = {}`: that is where the code keeps them, and each race breaks one of them.
`CompletedWerePaid` and `ApprovedAreConfirmed` are checked with the four races that one payment
can meet, and proved with all five, as is `ReplacedByOwnResend`.  A lost nonce key and a lost
check are in no race: every run of `EvmPayouts` with two workers has the first, every run with
`MaxCrashes > 0` the second.

Abstractions:

* `withdraw_coin` and `withdraw_tokens` are one model: they differ in how amounts and gas are
  computed.  Gas and the keeper's balance are the choice of ending a task early.
* A block holds one keeper transaction.  Each scan begins with the last processed block
  again; older ones are not rescanned.  Blocks skipped after long downtime are not modelled.
* An administrator's action on several rows is one handler per row.
* Limit checks and the payout freeze in `save` are left out where a handler that raises
  changes nothing; where a payment has already been sent they are the race `crash`.
* A request that was too small stays so: the withdrawal fee does not change in between.
* The withdrawal through fiat gates and the payouts on TRON are not modelled.

`BtcPayouts` adds the requests in `Elsewhere`, which `process_withdrawals`
(`cryptocoins/coin_service.py`, started from `admin_panel/views.py`) pays in batches: it reads
the keeper's outputs, takes requests while the balance reaches, sends one transaction, then
saves and completes them one by one.  Nothing locks the requests: two administrators may pay
the same ones, and only because their transactions spend the same output does one of them fail.

### How the deposit modules correspond to the code

A deposit's life: a user transfers to an address of ours; the scanner reads the blocks since
the last processed one, under a lock that is not one (`memcache_lock` deletes the key even when
it was not acquired), and enqueues a task per transaction; the task makes a `WalletTransactions`
row unless the transfer has one.  Saving the row checks limits and opens a PENDING transaction;
`check_balances` enqueues the rows to be scored; a good score completes the transaction, which
credits the balance, and the row waits for accumulation.  `check_balances` then picks one row
of each wallet; tokens first get gas from the keeper; the worker sends what the wallet received
to our keeper or safe, or to the address an administrator gave, records and marks it; the
scanner completes it when it is mined.

State: `row`, `transaction`, `balance`, `block` are the columns of `WalletTransactions`,
`Transaction`, `Balance` and `UserWallet`; `task` is the handler each process runs with the copy
of the row it has loaded and will write back whole; `credits`, `charges`, `forced` and `givenUp`
are histories.  `blocks`, `last`, `lock`, `scanner`, `jobs`, `scoring` are the chain, the last
processed block, the cache key, the scans under way and the two queues.  `EvmAccumulation` adds
the nodes' transactions (`pool`, `done`), the `AccumulationTransaction` rows (`recorded`,
`completed`), gas, three queues and the job of each worker.

Steps: one per database transaction or call to a node.  `InsertRow` and `CheckDeposit` are the
two halves of `save`, `Topup` and `Credit` those of `topup_tx`; `SaveRow` writes the handler's
copy back; the administrator rechecks, forces, redirects, reverts, blocks and unblocks.  On
Bitcoin (`BtcDeposits`) one worker with concurrency 1 (`cryptocoins/utils/base_worker.py`) serves
the queue, a scan is one database transaction, and `accumulate` goes row by row.

**Races.**  What the code leaves to timing is again named, in `Races`, `ChainRaces`, `BtcRaces`,
`SpecialRaces` and `RevertRaces`:

| race | in the code | enabled in |
|---|---|---|
| `together` | two handlers work on one row: each credits it | no run |
| `crash` | a process dies between two writes | `dep_evm`, `dep_races`, `dep_btc` |
| `lock` | two scans at once | `dep_evm` |
| `rescan` | a scan dies on its way | `dep_evm` |
| `twins` | two tasks of one transaction at once: two rows | no run |
| `loss` | a block the node does not return, or a backlog beyond the limit, is skipped | no run |
| `overdue` | `check_balances` runs while work of an earlier run is left, so a row may be scored twice | `dep_evm`, `dep_races` |
| `late` | a gas receipt is written after the scanner completed the transfer | `dep_races` |
| `sweep` | the dust collector takes gas that waits for its use | `dep_races` |
| `early` | a transaction is mined before its row is written | no run |
| `redirect` | a row gets an external address while or after it was sent | no run |
| `late`, `again`, `unmarked`, `early` (`SpecialRaces`) | a stop order is sent past a waiting cancel; it is sent twice, because its first `place_order` is not yet served or because the key of an order below `STACK_EXPORT_LIMIT` in the book expires; a restart comes before `in_stack` is written; prices are updated before an order is placed | no run |
| `both`, `busy` (`RevertRaces`) | a match is undone from both of its orders; a market order is reverted while it is filled | no run |

A race that no run enables breaks the properties it concerns: with `both` a match is undone
twice, with `busy` the worker's save overwrites REVERT, with `together` a deposit is credited
twice.  The proofs say which races each theorem excludes.

Abstractions: a block holds one transaction, which pays one of our addresses; coins are counted
in deposits and gas in transfers; there is no reorganisation; any row of a wallet may be the
oldest.  What the scoring provider computes is the constants `Scored` and `LowScore`.

## 3. Runs

Bounds are constants with names.  For the book: `MaxOrders` rows, `MaxQueue` messages a new
request may find waiting, `MaxUpdates`, `MaxRestarts`, `MaxDuplicates`.  Three orders are what
partial fills need: an incoming order against two resting ones, or two incoming orders
against one; two users let each be on either side.  `Scale = 2` makes a unit a half, so an
odd product is rounded; whole prices and quantities are multiples of 2.  For payouts:
`MaxNonce` (two nonces let one payment follow or displace another), `MaxPrice` (two prices
allow one resend), `MaxQueued`, `MaxCrashes`.  Two requests and two workers are the least for
payments of different requests to meet, two checkers for two checks of one request, two
processes for handlers to meet.

Three runs hold several instances in one, because what they are about needs different actors.
In `wd_evm` one user has the money (`OneUsersFunds`), so a behaviour is about `u1`'s two requests,
`u2`'s or `u3`'s.  `TwoOnTheirWay` leaves to the two requests that meet each other the handlers
that bring them to the chain, in one process, with both workers and both checkers; `u2`'s request,
and `u3`'s, which is too small, meet every handler in two processes at a time, the expiry task
included.  The requests, the workers and the checkers that are alike are symmetric (`SameTasks`),
as are two web processes with the same handlers in `wd_races`; neither run has a liveness
property.  In `dep_evm` and `dep_btc` a variable of the MC module, `about`, is chosen at the
start and never changes; `StaysWithIt` cuts the behaviours that leave their subject.  A
behaviour of `dep_evm` has two scanners that overlap, die and scan again, or an administrator who
forces, rechecks and reverts beside one scanner; rechecks, blocks and a crash are in both.  A
behaviour of `dep_btc` has redirected rows and blocked wallets, or forced rows, beside rechecks,
reverts and a crash.  No fair action leads out of the subject for good (in the second kind of
behaviour of `dep_evm` the other scanner has nothing to do once the first is done), so the
constraints hide no violation of a liveness property.

| run | bounds | what it shows |
|---|---|---|
| `book_special` | 3 limit, stop or external orders, 1 restart, 1 repricing | no open order that belongs in the book is forgotten, no stop order enters it before its price was traded, memory mirrors the database, price-time priority, final rows stay |
| `book_market` | 3 orders, sells of 1 and 3, costs of 1/2 and 5/2 units, 1 restart, up to 2 reverted orders | market orders: all or nothing, holds cover what returns; each user has to the unit what the matches that stand brought and cost; `RevertInv`, `TypeInv` included, is an invariant (checked before it is proved) |
| `book_update` | 3 orders, 1 update, odd prices and quantities, a cost of 1/2 that buys nothing | updates racing fills and cancels, every product rounded: holds cover, memory mirrors the database, the book is uncrossed |
| `book_live` | 2 orders, 1 restart, 1 repeated message, `FairSpec`; one user is a bot | no two orders are matched a second time; open orders get booked, cancels are served, market orders end |
| `wd_evm` | 2 requests with 2 workers and 2 checkers, or 1 (which may be too small) with all 11 handlers in 2 processes; 2 prices, 1 crash or lost check, no race | `EvmPayouts` implements `Payout`; no payout is forgotten but after a lost check or a displaced transaction; row and money agree; until the key is lost only resends replace |
| `wd_races` | 1 request, 3 handlers, 2 at a time, 1 crash, races `cancel`, `save`, `scan`, `crash` | COMPLETED requests were paid, approved ones are confirmed; `PayoutInv` is an invariant (checked before it is proved) |
| `wd_btc` | 1 request on an EVM chain, 2 on Bitcoin, 2 administrators paying, 1 crash or lost check, fairness | both implement `Payout`; batches and payments settle their requests; every withdraw task ends |
| `dep_evm` | 2 deposits of a coin, one with a good and one with a low score; 2 scanners that overlap, die and rescan, or an administrator; 1 crash; races `lock`, `rescan`, `overdue`, `crash`; up to 2 rows a transfer | `EvmDeposits` implements `DepositLedger`; no transfer is lost; low scores stay out; every transfer is entered and decided |
| `dep_accum` | 2 tokens of one wallet, gas prices above the limit, replaced gas transfers, fairness | one row of a wallet is on its way at a time and its transaction is followed; every credited deposit is accumulated |
| `dep_races` | a coin and a token, races `overdue`, `late`, `sweep`, `crash` | a row says ACCUMULATED only when the chain carried it away; only what was credited is moved |
| `dep_btc` | 2 of 3 deposits, one of them scored, an administrator who redirects and blocks or forces, rechecks, reverts; 1 crash; fairness | `BtcDeposits` implements `DepositLedger`; external addresses are obeyed; what was credited leaves |
| `wd_cancel_race` | race `cancel` | finding: a request is cancelled while it is paid out |

Each property has a mutant in `PROJECT.json`: an operator written next to the original as a
plausible bug, with which the run finds the property violated.

**Where a property is claimed.**  Every instance that narrows the behaviours does so through
a named constant, and these are the reasons.

* `EarlyCancel` is off in every run: a cancel or an update that reaches the queue between the
  commit of `create_order` and its `place_order` is served before the order is known to the
  book, and the order is then booked from its snapshot although its row is CANCELED.
* `BusyRestart` is off in every run: a restart with `place_order` messages waiting loads their
  orders and then processes the messages too.  The proof of `TypeInv` covers both switches.
* `HoldCovers`, `FinalRowsStay` and `BookUncrossed` except orders in `voided`, `MatchedOnce`
  pairs with one.  When fee and rounding take the whole of a fill, `transaction` cancels the
  row (`core/models/orders/__init__.py:814`) from inside the match, leaves no
  `ExecutionResult`, and the object in memory goes on being filled.
* `MemoryMirrorsDatabase` excepts `Disturbed`, which also has the orders matched with one in
  `voided`.  The void fill is recorded for the other order only; when the two meet again
  `execute` raises on that record, after it lowered the quantity of the resting object, and that
  object has less left than its row.  It takes four orders; the attempt to prove the
  property without this exception showed it.
* `InStackAreTracked` and `OpenOrdersGetBooked` are checked without updates: a refused update
  leaves an open order out of the book until a restart.
* `MarketOrdersEnd` is checked without costs below one unit of the base currency, with which
  `execute` raises and the order stays OPENED.
* Requests in a payout are left alone by handlers except with the race `cancel`.  Besides the
  finding, that race lets `disable_approve` on a PENDING request hide it from the scanner, so
  that it stays PENDING.  The expiry task, which may cancel a request confirmed or approved since
  it was listed, needs no race and is in `wd_evm`; a request whose payout has begun needs it.
* `PendingIsFollowed` and `PayoutsSettle` except the requests in `forgotten`: after a lost check
  the request stays PENDING for ever, and so it may when another withdrawal took its nonce.
  `ReplacedByOwnResend` says when that can happen: it speaks of states in which the key was not
  lost, and two workers that read the key before either sets it are such a loss.
* `LedgerPromise` lets a transfer be entered at most once.  A second row is possible in `dep_evm`
  (`Copies = 2`), and that the task looks for the row before it inserts one is what prevents it;
  two tasks that look at the same time (`twins`) are left out.
* `BatchesSettle` says what is left when nobody dies: after a crash the next batch pays again.
* `UnderFee` is empty where deposits have to be decided: a deposit that the fee takes whole
  fails an assertion and its row stays CREATED.

**Fairness.**  `OrderBook!FairSpec` assumes weak fairness of `SendPlaceOrder` (a web process
that committed goes on to the next statement) and of `Worker` (a Celery worker with work takes
it).  `EvmPayouts!FairSpec` assumes weak fairness of each process's handler and task, of the
node mining what it can, of the scan of a *new* block (the task runs every few seconds) and of
the expiry of the 300-second key.  A worker waiting for the nonce reads the key every second,
and others may take it in between: that it does not miss the free key each time is strong
fairness of `SeesFreeNonce`.  `BtcPayouts` adds weak fairness of each
administrator's run once begun.

`EvmDeposits!Fairness` assumes weak fairness of each scanner (`StartScan` or `ProcessBlocks`: the
scan runs every few seconds and goes on with what it began) and of each process (the handler it
runs or, for a deposit worker, the next task), and strong fairness of `CheckScores` and of the
scoring of each deposit, which wait until no scoring is queued or nobody works on the row.
`EvmAccumulation` adds weak fairness of `check_balances`, of each worker's next task, of mining and
of gas receipts.  `BtcDeposits!BtcFairness` assumes weak fairness of mining and of handlers, and
strong fairness of the tasks of the one worker, each of which waits until the other is done and
no administrator works on its row.  Nothing is
assumed of requests, administrators, crashes, restarts, redeliveries, resends or
`process_payouts`.

## 4. Proofs

**`OrderBookProofs`, types.**  It proves `TypeCorrect == Spec => []TypeInv`, and from it
`TypesKept == Spec => []TypeOK`, for all values of the constants that satisfy
`MoneyAssumption` and `OrderBookAssumption`, so also with early cancels, busy restarts and
redelivered messages.  `TypeOK` says more than types: no balance, price, quantity, quantity
left or cost is ever negative.

`TypeOK` is not inductive: that a fill takes no more than the resting order has depends on
the price being above zero and on the two orders being of opposite sides, and these depend
on where the worker's objects come from.  `TypeInv` adds exactly that: every object in
memory or in a message stems from an existing row with the same operation (`RowsOK`,
`UnsentOK`, `QueueOK`, `StackOK`), a limit order has a price, and the orders still to be
matched rest on the other side at a price the incoming order accepts (`CurOK`).

The argument: lemmas about integer division (`Quotient`, `FloorOfSum`, `ValueOfParts`),
about a fill (`FillIsBounded`: a fill is at most what either order has, and costs at most
what a market buy has), about the data structures (`QueueHead`, `StackUpdates`,
`MatchingAreOffers`), then one lemma per action (`CreateOrderStep` … `CancelKeyStep`), and
the temporal step.

**`OrderBookProofs`, memory and database.**  It proves what the worker's memory has to do with the database:
`MemoryMirrors` (`MemoryMirrorsDatabase`), `HoldsCover` (`HoldCovers`), `OrdersMatchOnce`
(`MatchedOnce`) and `FinalRowsKept` (the action property `FinalRowsStay`).  The theorems assume
`Orderly`, which is about the constants, and each of its parts is needed: without it TLC finds
`MemoryMirrorsDatabase` and `HoldCovers` violated.

| part of `Orderly` | without it |
|---|---|
| `~EarlyCancel`: no cancel or update reaches the queue before the order's `place_order` | the order is cancelled, then booked from its snapshot |
| `~BusyRestart`: a restart finds no `place_order` waiting | the order is loaded from its row and processed again from its snapshot |
| `Bots = {}` or `MaxUpdates = 0`: no bot's order is updated | `update_order` looks for the object in the ordinary users' book only, and the bot's old object keeps resting |

No more is assumed of prices, quantities, fees, rounding, redeliveries or restarts.

None of the four is inductive.  `MirrorInv` says where else an order is known:

* `RowsInv`: an open limit order has something left and a closed one nothing, every match ends
  one of its two orders, and the hold covers the claim.  That a fill keeps the last is
  `FillIsCovered`, from `ValueOfParts`: cacheback, price paid and the claim that remains, each
  rounded down, are together at most the claim there was.
* `SnapshotsInv`: a `place_order` message, or a row about to be sent, whose order the worker has
  not been given (`onPlace`) still equals the row, which is in no other place: this is why a
  redelivered message is harmless and a first one is current.
* `RequestsInv`: a cancel or an update comes after the `place_order` of its order, if one is to
  come.
* `MemoryInv`: a resting object equals its open row, is sorted under its price, and is neither
  at work nor still to be loaded (but for the phase `reprice` of `SpecialOrders`); the order at work equals its row; and no pair in `todo` was
  matched before, because a match ends one of the two, and what rests or is at work is open.

A step is seen from the orders it leaves alone: `Touches(T)` says that only orders in `T` change,
and one lemma per part (`RowsStay`, `BookStays`, `WaitingStay`, `WaitingTaken` …) then leaves the
orders in `T` to be shown.  Each action has one lemma (`CreateOrderMirror` … `MatchFailsMirror`).

**`SumProofs`.**  What the offers before an order add up to, what the matches of a user brought and
what a batch of requests costs are sums over finite sets (`SumFunctionOnSet` of the community modules).
The module proves what is needed of them: a sum of integers is one, does not depend on
the order in which the fold chooses (`SumWithout`), splits over sets that do not meet
(`SumOfUnion`, `SumOfSums`), grows with its set (`SumOfPart`) and changes by what one or two
elements change (`SumChanged`, `SumTwoChanged`).  Each is an induction over the subsets of a
finite set; the induction hypothesis is a set of subsets rather than an operator, and the
minimal counterexample comes from the well-foundedness of the strict subset relation
(`SetInduction`).

**`OrderBookProofs`, matching.**  Under `Orderly` it proves `PriceTimePriorityKept`
(`PriceTimePriority`), `BookStaysUncrossed` (`BookUncrossed`) and `MarketSellsAreFilled`
(`MarketSellsFill`).  `matching_orders` makes its list once and `execute` uses it until the end,
so the properties are about what the list says long after it was made.  `MatchingInv`
states it for every moment: every better offer of the side of an order to be matched is itself
to be matched, and the better ones together do not cover the incoming order (`BestFirst`), so
the best of them can be filled without passing one over; what is left covers the incoming order,
or there is no other offer (`Enough`); and the book is never crossed (`Uncrossed`).  A fill takes
the same quantity from both sums (`Worth`, `OfferedGrows` and the lemmas about `Ahead`), and for a
market buy the same cost, because a fill that does not use up the resting order uses up the
incoming one.  Orders that had a void fill are left out one by one: such an order may rest with
nothing left.

**`SpecialOrdersProofs`** proves `SpecialTypesKept` (`SpecialTypeInv`) and from it `StopsWait`
(`StopsWaitForTheirPrice`).  It assumes no more than that `SpecialRaces` leaves out `late`: with
it a cancelled order sends others by a last price that is not its own.  The property speaks of
orders in the book; the invariant follows a stop order from the moment it is sent.  `StopsInv`
says that an order whose snapshot waits, whose object or row says `in_stack` or which the worker
has (`SentOut`) has a price traded that reached its stop, that `lastPrice` is such a price, and
that a web process never sends a stop order itself.  `TypeInv` of `OrderBook` is kept by every
step, also by those that write rows while the worker is between two tasks (`NextIsTyped`).

Its second part proves, from `SpecialSound` (`SpecialInv`), what holds of stop-limit and
EXTERNAL orders together with the others: `InStackTracked` (`InStackAreTracked`),
`SpecialMirror` (`BookMirrorsDatabase`), `SpecialPriority` (`PriceTimePriority`),
`SpecialFinalRows` (`FinalRowsStay`), and `SpecialBook` (`HoldCovers`, `BookUncrossed`,
`MatchedOnce`, which no run of `SpecialOrders` checks).  They assume `Calm`:

| part of `Calm` | without it |
|---|---|
| `Orderly` | as above |
| `SpecialRaces = {}` | `again`: an order is processed twice; `unmarked`: a restart forgets one; `early`: an order not yet in the book is repriced, then booked from its old snapshot |
| `Otc \cap Bots = {}` | a repriced order of a bot is not taken out of the book, as with updates |

and that no fill netted to nothing (`voided = {}`): in the state for invariants, throughout the
behaviour for the two action properties.  After a void fill the object of an order may have less
left than its row, and leave the book, or raise, while the row is open and says `in_stack`; so
`InStackAreTracked` has no exception for single orders to offer, unlike the properties of
`OrderBook`.

`SpecialInv` takes over `MirrorInv` and `MatchingInv`, whose parts let a stop order be one that
is in no place of the worker's at all, and adds three.  `GivenInv`: a `place_order` that waits
for an open order the worker was given before is for one it still has, so a snapshot sent twice
is ignored.  `TrackedInv`: an open order with `in_stack` in the database, or about to get it, is
in the book, at work, to be loaded or sent.  `RepriceInv`: while prices change, the orders
concerned rest.  Then rows and objects disagree, which is why the property does not speak of this
phase: `MirrorInv` compares a resting object with its row there only if it is not to be processed
again, and `RestsSound` says of the others that they rest under the price they had.
The steps of `OrderBook` are covered by its own lemmas (`BaseSound`), because each step of
`SpecialNext` that is one leaves to `FollowKept` only who has an order.

**`OrderRevertsProofs`** proves `RevertsUndoMatches` (`RevertsUndo`), `HoldsCoverReverts`
(`HoldCovers`) and `MarketSellsFillBesideReverts` (`MarketSellsFill`) from `RevertSound`
(`RevertInv`).  They assume `Orderly` and `Considerate`: that no order is reverted beside one it
was matched with, and none while the worker is at it; in either case the code undoes a match
twice or a part of one.  `RevertsUndo` speaks of states
in which no fill was void and none paid less than its fee: of a void fill the transactions
are booked without an `ExecutionResult` that a revert could find, and a fee above the amount is
credited by its absolute value.  The property is not inductive, because a revert looks at single
orders and the property at users: `OwnInv` says that the transactions of an order that stands
come to what its matches brought and cost minus what is held (`Booked`), `PairsOppose` that a
match is between opposite operations, so that what one gains the other gave, and `Balanced` that
the users' balances follow.  A step that moves money between a balance and a hold is handled
once (`HoldMoves`); a fill adds one or two matches to the sums (`FillsAreBooked`); a revert of a
set of orders takes the sums of their matches apart by order and user (`RevertKeeps`, with
`SumOfSums`), which is where it is used that no match has both its orders reverted.  The sums of
a fill need `FillAmounts`: gross amount, fee, cacheback and release, each rounded on its own,
agree to the unit.

**`PayoutProofs`, under every race.**  It proves `PayoutCorrect == Spec => []PayoutInv` for all constants that
satisfy `WithdrawalAssumption` and `PayoutAssumption`, so with any set of races, and from it
`OnlyPaidComplete` (`CompletedWerePaid`) and `OnlyConfirmedApproved` (`ApprovedAreConfirmed`).

Neither property is inductive.  A row is overwritten from objects loaded long before, a
completion is begun by a check that was started by a scan, and a scan trusts the hashes
recorded in the row.  `PayoutInv` therefore follows the chain of evidence backwards: a
recorded attempt belongs to the row it is in and a task sends only transactions of its own
request (`WithdrawsOK`, `ObjectOK`); a check that says "valid" names a request the chain holds
a payment of (`ChecksOK`); so does a completion under way (`TasksOK`); and every copy of a row,
in the database or in a process's memory, says COMPLETED only with such a payment or if it
belongs to another chain, and approved while open only with a confirmation (`RowsOK`, `TasksOK`).  The chain only grows
(`PaidStays`), so copies stay true however old they are: that is why no race can break it.

The proof handles the request handlers (`HandlersStep`) apart from payout tasks and chain, and
cites three groups of variables (`InvParts`), so that a step that leaves a group alone needs
one fact about it.  That a request of another chain is never completed here is a second
invariant: no task, worker, transaction or check of this chain is for it (`HereInv`), and no
copy of its row says COMPLETED (`OpenElsewhere`).  `OnlyPaidComplete` ends with a cardinality: the set of payments counted by
`PaidTimes` is finite and not empty.

**`PayoutProofs`, money.**  It proves what holds of the money of payouts.  These theorems name the
timing they need, as an assumption on the constant `Races`: a race left out is an order of
steps that the code does not exclude but that its delays make rare.

| theorem | needs | without it |
|---|---|---|
| `ReplacedByOwnResendAlways` | nothing | |
| `StateMatchesMoneyAlways`, `PayoutsKeepPromise`, `AllPayoutsKeepPromise` | none but `scan` | a handler saves over a payout, a run of `process_payouts` begins before the last one's tasks end, or a worker dies between sending and saving, and a request is paid and given back, or paid twice; the keeper gets an output while a run of `process_withdrawals` has inputs, and a second run pays the same requests |
| `PendingIsFollowedAlways` | none of the races | a transaction whose block was scanned too early is never looked at again |

`MoneyInv` has a part for each place where knowledge of a request is kept.  `RowInv`: the
request's `Transaction` agrees with its state, and what was sent has a state that says so or
a worker about to save one.  `QueueInv`: a queued task is the only one at its request, which
was not sent.  `NonceInv`: all transactions of a request have one nonce, so at most one of
them is mined.  `CheckInv` and `SettleInv`: a check or a settlement under way is about a
request that was sent, or too small to be, and says what the chain says.  `HandlerInv`: a
handler that saves its object whole is alone at the request, and the object equals the row.
`WorkerInv`: the same for the worker that sends and records attempts.  Most actions are shown
to leave all this alone by one of two lemmas, for steps that only let the chain grow and for
steps at another request; the rest has a lemma per action and part.  `PayoutsKeepPromise` maps
each step to a step of one request of `Payout`, or to none; `MoneyInv` shows that a completion
or a failure finds the money still held.  `KeyInv` says that until the key is lost
`LockInv` holds: one worker at a time has a nonce and the key is set while it does, and what is
pending is what that worker sent.  Each step that could break `LockInv` is one that `keyLost`
records: a second worker that saw the key free sets it, the key expires, a refused resend
releases it.  That the money is safe needs none of this: two workers at one nonce displace each
other's transactions, and a displaced one is not mined.  `FollowInv` says that what is PENDING and
not `forgotten` is followed and that what a worker has not yet recorded is pending or mined and
was not yet scanned.

**`PayoutProofs`, both chains.**  `AllPayoutsKeepPromise` proves the refinement of `Payout` by
`BtcPayouts`, where a request counts as paid once for each payment the EVM chain holds and once
for each batch the node took.  It assumes finitely many Bitcoin requests, each above the fee.
Two runs may select the same requests, and nothing in the database keeps
them apart; what does is that an output is spent once.  `ClerkInv` turns this into an
invariant: the outputs a run has in hand are all the keeper has, or some run has spent them and
it has none; so while there are any, no run has sent, and what a run may still send is unpaid,
open and not in a handler's hands (`Taken`); once a run has sent, no other can, and each of its
requests stays as it was read, which is why its saves change nothing and its assertion holds.
`PaidOnceInv` says what then becomes of a paid request: it is completed or in the hands of the
run that sent it.  That a run without outputs selects nothing is a fact about sums
(`AmountsAdd`: requests above the fee cost more than nothing).  Steps of the EVM part map as
before, with `HereInv` to show that they never pay or settle a Bitcoin request; they may still
give one back, but none that a batch pays (`PaidIsKept`), since `NobodyComes` to a request in
hand.  Sending a batch maps to one `Pay` of all its requests.  `BtcInv` includes `MoneyInv`, so
`FinishKeepsMoney` has to show that a completion by a run keeps it, although no task does it.

**`EvmDepositsProofs`** (deposits and accumulation) **and `BtcDepositsProofs`** rest on
`WalletTransactionsProofs`, which shows what each handler of a row keeps.  Three invariants
recur.  `SoundInv` (`MovingInv` for the accumulation) is the shape of rows, tasks, queues and
chain and holds under every race.  `OnceInv` says why nothing is credited or charged twice:
one handler at a time is at a row, a transfer has one row, the row's `Transaction` remembers
the credit, and the row, with the handler's copy of it, remembers the revert.  It needs that
no handler loads a row while another holds it (no `together`) and that a transfer's task does
not start while another is on it (no `twins`).
From it follow the refinements of `DepositLedger` (`LedgerIsKept` on both chains,
`AccumulationKeepsLedger`), one step of the ledger for each insertion, credit and revert.
The third is particular to the property:

* `LowScoresInv`: a handler that is about to credit was started by `force_deposit` or has
  asked for the score.  No race breaks this.
* `ScannedAreKeptAlways` follows the last processed block: what it passes is queued first.
  It needs no more than that blocks are not skipped (no `loss`).
* `LeftInv`: a row is recorded as accumulated, in the database or in a task's copy, only with
  a transaction that succeeded.  The chain never forgets one, so no race breaks it.
* `ClearedInv`: a row passes the early states only once it was credited or redirected, also
  in a handler's copy, and only such rows are touched by tasks, sent or mined.
* `SettledInv` (Bitcoin): a row, or a handler's copy of it, that says settled has its evidence
  on the chain, and what was sent for a row with an external address went there; a redirect
  after sending (`redirect`) breaks that.
* `OneInv` (`OneAtATimeAlways`): `OneAtATime` itself is not inductive, because a row is on its
  way before its state says so.  `OnItsWay` counts it from `check_balances` on: a task or a
  worker is at it, a gas transfer for it may still be completed, or its state is in progress.
  Only `CheckBalances` puts a row on its way; that it finds no other of the wallet needs
  `GasFollowed`: a mined gas transfer is still to be looked at, and the keeper's nonce grows
  past it, so it is not sent again.  `PlainRows` says that no handler saves an old copy over a
  row's state.  The theorem assumes `Undisturbed`; of its conditions each but the finiteness
  of `Deposits` is needed, as TLC shows by a violation when one is dropped: a run of
  `check_balances` that starts before the last one's tasks end (`overdue`), a mined gas
  transfer that no scan looks at (`loss`) or one that is looked at before it is recorded
  (`early`), a worker that dies (`crash`), and an administrator who redirects or reverts a row
  in progress (`external`, `revert`).
* `FollowInv` (`InProgressIsFollowedAlways`, on top of `OneInv` and `OnceInv`): that a row in
  progress still has its transaction says little of how the transaction is lost, so five parts
  are carried along.  `EarlyInv`: handlers write rows in the early states only, tasks and workers
  only later ones, and each row stands for a transfer that arrived.  `SenderInv`: what waits to
  be mined has its sender's next nonce, one accumulation of a wallet waits, and no row is sent
  twice; so mining voids no accumulation.  `PlaceInv`: a row is in one queue, or its gas
  transfer may still be completed, or it was sent.  `GasInv`: the gas transfers of a row are
  replacements of each other.  `SentInv`: what was sent is with its worker, or its row says so;
  what was mined succeeded.  That last part is a count: the accumulations of a wallet map
  one-to-one to transfers it received (`HeldIsThere`), so the wallet still holds the one that is
  mined next.  The theorem assumes `InOrder`: `Undisturbed`, and `together`, `twins`, `late` and
  `sweep` do not happen.  `sweep` breaks the property, as TLC shows: the dust collector takes the
  nonce of an accumulation.  The other three break the invariant, since a late task puts a row
  in a second queue and two handlers write over each other; whether they can break the property
  itself is open (TLC finds no violation with `late` on the instance of `dep_accum`).

Only model-checked: everything that must eventually happen (`OpenOrdersGetBooked`,
`CancelsAreServed`, `MarketOrdersEnd`, `PayoutsSettle`, `WithdrawTasksEnd`, `BatchesSettle`,
`ArrivedAreEntered`, `WaitingAreDecided`, `CreditedAreAccumulated`, `CreditedLeave`), because
liveness under fairness and ENABLED are outside the prover's reach.  The safety invariants, action
properties and refinements that the passing runs check are all stated by a theorem, under the
conditions named above.

## 5. Plan

1. `TronPayouts`: payouts on TRON over `WithdrawalRequest`, with `retry_unknown_withdrawals`.
2. `Bots`: the trading bots' cycle of placing and cancelling through the API, with failed and
   repeated requests.
3. `Locks`: `AutoLock` and `MultiLock` with expiry; `Holds`: `amount_in_orders`, computed before
   and written by the conditional update.
4. An abstract exchange (orders and balances only, matching atomic) refined by `OrderBook`.

## 6. Not modelled

Listed with reasons in `PROJECT.json`.  In the parts that are modelled: the published book
and notifications (output only), the generation of tokens and texts, statistics, and the
admin forms, which call the same model methods.  Two facts met on the way need no model: the
action `revert_orders` of the admin site always raises a TypeError, because `balances` defaults
to the type `dict`; and `process_deffered_deposit` calls `process_deposit` with an argument too
many, so a Bitcoin deposit that is scored first never gets a row (`DeferredDeposit`).
