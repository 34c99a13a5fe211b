# A verification project for the ODEX wallet

The ODEX wallet is the node of a decentralized exchange.  Users deposit into an Autonomous Agent
(AA) on the Obyte DAG and sign orders; a backend matches the orders; the wallet sends the matched
trades to the AA, watches its responses, and exchanges orders, cancels and trades with the wallets
of other matchers.  This directory holds TLA+ models of the parts whose correctness depends on
arithmetic, on the order of steps, or on what survives a crash, the TLC configurations that check
them on small instances, and TLAPS proofs of the main results for all instances.

## Inventory

| Component | Source | State it keeps | Operations | Hard part |
|---|---|---|---|---|
| Autonomous Agent | `dex.oscript` | balances, amounts left, executed and cancelled orders, grants | deposit, grant, revoke, withdraw, trade, on-chain cancel | rounding, one trade that touches ten balances which may coincide, stale authorizations |
| Trade queue | `trade_queue.js`, `trades.js` | queue and "initialized" flag in memory; `trades` in MongoDB; units on the DAG | `executeTrade`, retries on stable units and refills, `initQueue` | funds that run out in the middle of a batch, crashes between sending and recording, two mutexes, calls before the start is complete |
| Replication | `replication.js` | `events`, `unhandled_events`, `status` in MongoDB; peers, last hashes, chain head in memory | create and broadcast, handle, park, request, catch up on connection, resolve at the start, first copy of the order book | duplicated and reordered events, a lock per event, a lookup that is stale when it is used, crashes |
| DAG state | `dag_state.js` | pending withdrawals, caches of symbols and decimals | balances, responses of the AA, checks of settled trades | a callback that registers a withdrawal after its response, checks that end the process |
| Operator wallet | `operator_wallet.js`, `notifications.js` | none of its own | balance check, refill from the exchange, notice to the admin | overlapping checks, each with answers that may be stale |
| Order rules | `orders.js`, `cancels.js`, `user_signed_messages.js`, `utils.js` | cache of the quote assets | validation and conversion of orders, hashes | agreement with the AA's own checks and hash |
| Chat bot | `chat.js` | sessions and cancel requests in memory | login, order, cancel | sessions replaced or lost while a signature is checked |
| RPC | `rpc.js` | none | calls of the backend, events to it | calls before the other components have started |
| Start | `run.js`, `operator.js`, `mongo.js`, `conf.js`, `matcher_backend.js` | operator address, database connection | start order, restart by the shell | what is callable before it is ready |
| Signing | `signing.js` | none | sign, validate | external |
| Former AA, migration | `dex-old.oscript`, `migration-v2/` | - | one-off scripts | superseded |
| Deployment, tools, tests | `deploy/`, `test/`, `find-nonce.js`, `client.js`, `check_daemon.js` | - | scripts | - |

How they interact: the backend and the chat bot hand orders and cancels to the order rules, which
validate them and emit them to the backend; `createAndBroadcastEvent` replicates them.  The backend
calls `executeTrade` with matched trades; the trade queue sends one unit per trade to the AA and
replicates what it sent.  Replicated events of other matchers go through the same order rules into
the backend's database.  The AA's responses come back through the DAG state, which settles trades
and, when the operator was refilled, wakes the trade queue (`withdrawal_to_operator`).  Everything
in the node process is one thread: what interleaves are the callbacks and the awaits, and what
survives a crash is in MongoDB and on the DAG.

What makes each component correct:

- AA: nobody's balance goes below zero; the AA holds what it owes; an order sells no more than was
  signed, at no worse a price; dead orders stay dead; nobody is debited without authority.
- Trade queue: every matched trade is sent exactly once, in order, is never forgotten, and the
  database and the other matchers learn the unit that carries it.
- Replication: every node stores and applies every event once, after its predecessor, and in the
  end has all of them.
- DAG state: balances shown reflect the AA's state and the withdrawals in progress, and nothing
  else; a check that ends the process fails only for reasons that can be named.
- Operator wallet: a refill when one is needed, and a notice when there is nothing to refill from.
- Order book of a new node: it comes to show the orders and trades that its peers show.
- Order rules: orders that are accepted and matched are ones the AA will execute; only authorized orders are
  in the book.
- Chat: a session belongs to an address that its device has proved.

`PROJECT.json` lists the hazards of this code line by line, with the properties that watch them.

## Plan

Done, in this order: `DexAA`, `TradeQueue`, `Replication`, `DagState` with their runs; proofs for `DexAA` and
`TradeQueue`; the abstract specifications `OrderLife` and `Delivery`; `Settlement`, `OperatorWallet`,
`OrderBookSync`, `OrderIntake`; proofs of the refinements of `OrderLife` and `Delivery` and of
the safety of `OrderIntake`, `OperatorWallet`, `Replication`, `OrderBookSync` and `DagState`.

Left:

1. `Ledger`, an abstract escrow (deposit, withdraw, transfer, with conservation) for `DexAA`.
2. The checks of other matchers' trades in `checkTrade`, against a book that is not yet in sync:
   `Settlement` composed with `OrderBookSync`.

## Modules

### DexAA

One action per case of `dex.oscript`: `Deposit`, `Grant`, `Revoke`, `Withdraw`, `Trade`, `Cancel`;
`Tick` moves the timestamp of the last stable unit.  An AA handles triggers one at a time and a
bounce changes nothing, so that an action is one trigger, guarded by everything that bounces.
`balance`, `amount_left`, `executed`, `cancelled` and `grants` are the state variables of the same
names; `holdings` are the coins the AA owns, `trigger` is the sender of the last trigger, `history`
sums up what each order id has sold and bought.  Prices are fractions and `RoundDiv` is Oscript's
rounding of exact quotients; its decimal arithmetic of fifteen digits is not modelled.  A trade goes
through the balances in the code's order (swap, matcher fees, affiliate fees, AA fees, refund),
with the code's checks in between, because the same balance may take part in several of them.  The
data of a trigger, orders included, come from the constants.

`OrderLife` is what the AA promises about orders whatever they cost: an order is open with a budget,
a match fills one of two open orders and takes from the other, a cancel ends one, and both ends are
final.  `DexAA` maps `executed` and `cancelled` to `state` and `amount_left` to `left`
(`ImplementsOrderLife`); every other trigger is a stutter.

### TradeQueue

One action per stretch of code between two awaits.  `status`, `txHash`, `units`, `events` are
MongoDB, the DAG and what other matchers were sent; `queue`, `calls`, `job`, `retryLock`, `waiting`
and `init` are the memory of the process: the queue, the calls that wait for the mutex `trade`, the
progress of the two workers that go through `sendTradeTx` and `updateTrades` (`executeTrade` and
the retry), the mutex of the retries, and the progress of `initQueue`.  `funds` is what the operator
can pay for: a send fails when it is 0.  Crash and restart may come between any two steps.
`Patient` tells apart a backend that calls a ready wallet at once from one that may call while
the queue is being initialized, which `rpc.start` before `trade_queue.start` allows.

A trade is its number: `BatchesAssumption` numbers the trades in the order in which the backend creates them,
which is the order of `createdAt` and `_id` in which `initQueue` reads them.

`Delivery` is what the queue promises: the agent is sent the matched trades one after the other, in the
order of the matches.  With a patient backend `TradeQueue` implements it, `units` being what is delivered
(`ImplementsDelivery`), over retries, partly sent batches and crashes.

### Settlement

Composes `TradeQueue` with the agent and with the handling of its responses in `dag_state.js`.  The
agent executes the units in the order of the DAG (`ExecuteUnit`), or refuses them: whether an order is covered
by the owner's balance, has expired, was cancelled on-chain, is authorized and can pay its fees is in `DexAA`, and
any trade may bounce here (`refused`).  `left` is the agent's `amount_left` of each order,
`responses` are the node's `aa_responses`.  `OnAAResponse` tells the backend (`inbox`) and begins a
check (`checks`); `Verdict` is what `checkTrade` finds wrong first, against what the backend matched
(`Matched`) and what it says is left (`Remaining`).  `CheckThrows` ends the process.  `catchup` is
`updateTradeStatuses`, which runs at the start without being waited for, while the queue is loaded.
All orders have one price, so that one amount stands for what both sides exchange; the arithmetic of
prices is in `DexAA`.  What the backend does about a trade that bounced is not in this repository; it is taken to
leave the trade and its orders as they are.  The ghost `overtaken` holds the trades that were executed before `updateTrades`
had recorded their unit; `disturbed` holds the orders of a bounced trade, and in turn those of later trades
that share an order with it, and `astray` such later trades if the agent executed them.

### OperatorWallet

`checkBalance` is three steps, between which others happen: `ReadOutputsBalance`, `GetBalance` (which
notifies the admin) and `Withdraw`; `checks` counts how many checks wait for each of them.  What
`dag_state.js` shows as the operator's balance depends on which withdrawals it has registered
(`RegisterRequest`, `RegisterLate`): `requests` holds, for each withdrawal that the agent has not executed,
how the node sees it, and `outrun` that one became pending after it was executed.  Money is counted in
payments for a unit; `MinForRefill`, `NotifyBelow` and `MinToWithdraw` are constants, in any order that has
`MinToWithdraw <= NotifyBelow` (50000 and 1e6 in the code).

### Replication

One action per stretch of `replication.js` that other handlers can tell apart: `Create`,
`Publish`; `Connect`, `Disconnect`; `Receive...` for each message; `Check`, `Park`, `Apply`,
`Store`, `Next`, `Resume` for `handleEvent` under the mutex of the event; `Crash`, `Start`,
`InitFromPeers`, `RequestUnresolved...`.  `events`, `unhandled`, `since`, `initialized` are the
collections in MongoDB; `lock` holds the callers of `handleEventUnderLock` per event, the first of
which has the mutex and has come to `stage`; `chan` holds what is on its way, in order per
connection.  `applied` records what was handed to the backend.  An event is its creation number,
which stands for hash and timestamp: clocks of different matchers are taken to agree on the order.
Events that fail validation on a node are a constant (`Bad`); `executeReplicatedTrade` is reduced to
whether it fails.  Events about a new order without a quote asset on a node are another (`Unpaired`): `getPair`
throws and the process ends (`ApplyThrows`, which counts as a crash), before the event is stored.  The requests of `requestUnresolvedEvents` to one peer are sent together, where
the code awaits each answer before the next request.

### OrderBookSync

A node that joins, and its peer.  The peer is what it answers and announces (`source`, `settled`, `log`);
its events come in order, which is `Replication`'s result.  At the node, three activities interleave over the
collections `book` and `trades`: `initFromPeers` (`InitFromPeers`, `ReceiveInit`, `CopyOrder`, `UpsertOrder`,
`CopyTrades`, `SetInitialized`), the handling of the next event of the log (`HandleOrder`, `HandleCancel`,
`HandleTrade` and the steps of `executeReplicatedTrade`), and the backend, which inserts and cancels what
it is told in its own time (`toBackend`).  A crash of the node may come between any two steps.  A crash of the peer
may keep an order or a cancel from its backend (fate "unheard") or any event from its chain ("untold", over which
the node goes on: `NotInChain`), and makes it announce a sent trade as PENDING and without a unit ("recovered").
`Refused` holds the orders that fail validation at the node, `Mispriced` the pairs whose prices overlap only as the
peer's backend rounds them; `RefuseTrade` are the later checks of `executeReplicatedTrade`.  `ReceiveInit` takes the
trades since any point of the log for those of the last week.  `excused` records, at the step where it happens, why
the node may come to show an order differently from its peer, or to miss a trade.

### OrderIntake

Orders, cancels and logins from the message to the backend.  `handleSignedOrder` is split at its
awaits: `ReceiveOrder`, `CheckSigner` (reads the grants of the agent), then `RefuseOrder`, `AcceptOrder`, or
`NoPair`, which ends the process.  A revocation is seen by the wallet (`SeeRevocation`), executed by the agent
(`Revoke`) and handled when the agent's response arrives (`HandleRevocation`); when the process ends in between
(`Crash`, `NoPair`) the response is `lost`, as `updateTradeStatuses` recovers those to trades only.  `Acceptable` is `getOrderError`; prices are fractions, rounded by
`DropExcessivePrecision` to `Digits` significant digits as `toPrecision` does; the order itself stands for
its hash.  `BackendPrice` and `BaseToken` are `getBackendOrder` and `getPair`.  What the backend matches is
compared with the checks of the agent, by an instance of `DexAA` (`AA!PricesMatch`).  `grants` change while orders
are being validated, and `session` while a login is; `overtaken`, `lost`, `loggedin` and `proven` are history.

### DagState

The balances that the wallet shows, for one asset.  `units`, `balance`, `executed`, `bounced` are
the DAG with the AA's state in the node's database, `recorded` the trades whose unit the backend's database has
(`Record` is the queue's `updateTrades` or `initQueue`), `settled` those of them whose response the backend
has recorded; `pending` is `assocPendingWithdrawals` in the order of its keys, `reads` are the calls
of `getBalances` in progress, `shown` is the last `balances_update` per address, `responses` lie
between the commit of a response and its handler.  `SavedUnit`, `SymbolFound`, `ReadVars`,
`Answer` are the stretches of `onSavedUnit` and `sendBalancesUpdate` between awaits; reads may be answered
in any order, and the AA may respond to a withdrawal before it is registered.  `Execute` is the
AA, which may refuse anything but a covered withdrawal (`refused`); a cancel credits the attached bytes.
`OnAAResponse` is its handler; `Restart` and `UpdateTradeStatuses` are `startWatching`, which asks for the responses
to recorded trades.  Four ghosts name
the exceptions that the code leaves open: `outrun`, withdrawals whose response came before their
registration (they stay pending, and are subtracted, for good), `overtaken`, addresses for which an earlier read was
answered after a later one, `uninformed`, owners whose bytes from a cancel no update has reported yet, and `early`,
trades that the agent executed before their unit was recorded.  An exception ends the process, and the backend, its child process,
with it (`Stop`); the handler of on-chain cancels always runs into one (`CancelValidated`).
`Default` tells bytes, whose balance defaults to 0, from other assets, whose balance may be
`undefined`; `Minus` and `Below` are JavaScript's arithmetic on it.  `checkTrade` is in `Settlement`; the
caches of symbols and decimals, and the retries of light clients are left out.

## Runs

| Run | Configuration | Checks | Shows |
|---|---|---|---|
| `aa` | `MCDexAA` | `TypeOK`, `Solvency`, `OrderBudget`, `DeadOrdersNeverTrade`, `OnlyAuthorizedDebits`, `ImplementsOrderLife` | the escrow over all its operations, with fees, a negative price difference, a granted signer and expiring orders |
| `aa_prices` | `MCDexAAPrices` | `FairFill`, `NoPanic` | rounding, over prices and amounts that do not divide |
| `queue` | `MCTradeQueue` | `TypeOK`, `SuccessIsOnDag`, `NoLostTrade`, `AnnouncedOnceAfterSending`, `ImplementsDelivery` | three batches, a patient backend, two crashes anywhere |
| `queue_live` | `MCTradeQueueLive` | `AllAnnounced`, `SentUnlessStuck`, `CallsAnswered` | a backend that may call too early, no crash |
| `queue_duplicate` | `MCTradeQueueDuplicate` | `NoDuplicateSend` (violated) | a trade sent twice |
| `settlement` | `MCSettlement` | `ChecksAgree`, `CommittedAsMatched`, `SettledUnlessStopped` | one taker order over two makers, sent in parts, refused or executed, with a crash |
| `operator_wallet` | `MCOperatorWallet` | `TypeOK`, `RefilledWhenLow`, `ToldWhenDry` | two checks at a time, withdrawals answered early and late, a crash |
| `replication` | `MCReplication` | `StoredOnce`, `StoredInOrder` | three nodes in a line, a trade refused in the middle, a cancel refused at the end |
| `replication_live` | `MCReplicationLive` | `TypeOK`, `AppliedInOrder`, `ReappliedOnlyAfterCrash`, `PublishedFirst`, `Replicated` | a node that joins late, a lost connection, a crash, a refused cancel and an order without a pair |
| `order_book_sync` | `MCOrderBookSync` | `TypeOK`, `BookAgrees`, `TradesComplete` | a maker filled in two steps, cancels, a refused order, a match that only rounding makes, trades older than a week, a crash of either node |
| `dag_state` | `MCDagState` | `TypeOK`, `ShownIsAmount`, `PendingInProgress`, `QuietShown`, `TradesSettled` | bytes: two of five kinds of requests in any order, a trade recorded at any time, reads that overtake each other, a crash |
| `order_intake` | `MCOrderIntake` | `MatchesSettle`, `BookAuthorized`, `LoginProven` | ten orders with affiliates, other matchers, a granted signer, two prices that differ by their rounding only |

Bounds.  In the AA, two users, a matcher and an affiliate on two assets, with amounts of a few
units and a bound on holdings, are enough for every coincidence of addresses and assets that the
trade distinguishes, for several fills of one order and for both roles of each; the rounding is
checked over its own larger set of prices, and both are proved for all values.  In the
queue, a batch of two followed by single trades is the smallest input with a partly sent batch,
a remainder at the head and trades behind it; funds of two let a batch fail at each of its places;
one waiting retry stands for any number, since each does the same.  In the replication, chains of
two and three events are enough for a parked event with a parked successor, and three nodes in a
line for an event that reaches a node over another.  In the DAG state, two requests of different
kinds, with the reads that each of them causes, give every order of a registration, a response and
a refresh of one user.  A response is handled only while at most `MaxReads` reads
are in progress.  In the settlement, one batch whose order of execution decides the amounts (in the other
order, or when the first trade bounces, the taker would be filled by the second maker alone), split by the funds and hit by a crash,
gives the ways in which database and agent can get out of step; that a bounce reaches further trades through their
orders is left to the proof.  In the operator's wallet, two checks
are enough for one to use what the other has made stale.  In the copy of the order book, four events of the
peer are two orders, their match and a cancel, each before, during or after the copy, and the one crash is either
the node's or one that spoils one of them at the peer.  In the order intake, one
message in work meets every grant, revocation, request and session in between, and prices of one significant digit round as those of eight do.
Every bound is a constant with a comment in its
module.  Deadlock is not checked: the systems come to rest when their bounded input is used up.

Fairness.  The queue: a worker that can go on goes on, units on the DAG become stable, and a process
that is down is restarted; an operator that has run dry need not be refilled.  The DAG state: reads are answered, the process comes to the next
response, the backend records what it is told, and a process that has ended is restarted
(`check_daemon.js`, which `crontab.txt` starts every twenty minutes, tells the operator that the process is
gone; the restart itself is the operator's).  The settlement adds that stable units are executed and that the
handlers and the backend come to their end.  The operator's wallet: the timer runs, what it began goes on, and
the agent executes what it was sent; nobody is taken to send trades or top-ups.  The replication: handlers run to their end, a process
that is down is restarted, and peers find each other again.  A crash, a lost connection and new input are
never forced, and their number is bounded.

## What the runs found

- **A trade can be sent twice** (`queue_duplicate`).  A call of `executeTrade` that arrives while
  `initQueue` reads the database waits for `initialized_trade_queue`; by then its trades, which
  are PENDING, are in the queue as well (`trade_queue.js:37-40`, `194`, `236`).
- **Retries can stop for good** (`queue_live`).  `resendQueuedTrades` calls `onDone` only when there was
  nothing to send or nothing could be sent (`127`, `136`).  After a success the mutex stays held.
  `SentUnlessStuck` shows that a trade that is never sent stays in the queue for ever, with the lock leaked
  (`LockLeaked`), after a lost wake-up (`Unwoken`: a retry that comes while the first part of a batch is being
  recorded), or with a wallet that stays dry, as the request for its refill must itself be paid for
  (`operator_wallet.js:30-36`, `55-56`).
- **A recovered trade is announced as it was before the recovery** (`queue`, `trade_queue.js:231-232`):
  status `PENDING`, no unit; receivers refuse it.  `AnnouncedOnceAfterSending` shows that it takes a crash.
- **A parked event may never be woken** (`replication_live`): `handleEvent` looks for the
  predecessor and parks the event in two steps, and the predecessor may be stored, and may have
  looked for its successors, in between.  The predecessor is then requested and found to be known
  already, which wakes nobody.  A later event of the chain or a new connection repairs it.
  `Replicated` names, for every event, what in its own chain can keep it from a node that connects to its origin:
  this, a chain that its origin itself stored out of order (`replication.js:37`), a cancel that the node
  refuses and does not store (`282`), and an order without a pair, on which the node ends and restarts
  whenever it is delivered (`orders.js:152`, called at `replication.js:275`).  Nodes that do not connect to the origin
  may miss more, as only pushed events are forwarded (`489`).
- **A fast response ends the process and may stay unsettled** (`settlement`): a response that arrives before
  `updateTrades` has recorded the unit finds no trade (`dag_state.js:345-348`); the exception ends the
  process, and after the restart `updateTradeStatuses` asks for sent trades before `initQueue` has
  found this one on the DAG.
- **A bounced trade ends the process over the next one** (`settlement`): the trades of an order are sent as
  they were matched, each on the assumption that the ones before it execute.  When one bounces (an order has
  expired, was cancelled on-chain, is no longer covered, its grant was revoked, a fee cannot be paid), the agent
  executes the next for another amount.  The backend is told at once (`dag_state.js:254`) and may settle the trade;
  `checkTrade` then throws (`355-361`), and does so again after every restart until the backend was quicker
  (`updateTradeStatuses`).  `ChecksAgree` shows that a response that overtook its record and a bounce among trades
  linked by their orders are the only reasons for a check to fail, however trades are split, delayed and retried.
- **A wallet that is refilled late may stay low** (`operator_wallet`): a withdrawal that the agent executes before
  it is registered hides the balance on the exchange from every later check, until a restart; and a
  wallet with nothing left cannot pay for the request that would refill it, which nobody is told while the
  exchange has enough.
- **The first copy of the order book** (`order_book_sync`) leaves out partly filled orders (`PARTAL_FILLED`,
  `replication.js:515`), stops at the first order that fails validation, brings back orders that are
  cancelled or traded while they are copied, and does not wait for a slow backend.  Trades older than a week are not
  given (`520`), which matters when the copy was delayed until a later start.  A trade that the peer recovered after a
  crash is announced as PENDING and without a unit, and refused (`361-362`, `379-380`); what the peer crashed over
  may be missing from its own backend or from the chain.  `BookAgrees` names nine reasons why an order may be
  shown differently, and `TradesComplete` five why a trade may be missing; within the model they are all there are.
- **Orders that are accepted and matched may not settle** (`order_intake`): where the base token of the pair is
  not the first asset, the backend's price is rounded in the other direction than the order's price
  (`orders.js:113-117`, `125`), and the agent finds a price mismatch; an affiliate without a fee passes
  `orders.js:86-95` (`undefined` is not less than anything), or is not looked at if he is somebody else,
  and the agent bounces.  `MatchesSettle` shows that the prices and affiliates of all other matches are
  accepted; balances, which may be spent meanwhile, are not compared.
- **A revoked order may enter the book** (`order_intake`): the grant is read before further awaits
  (`orders.js:177-188`).  A revoked order may also stay there: a crash between the agent's revocation and
  the handler of the response loses the event, which nothing recovers (`dag_state.js:267-270`, `460`).  A pair without a quote token ends the process (`152`).
- In the model, but not in a regular run: **a failing withdrawal is shown as pending, with NaN**
  (`dag_state.js:501`): the balance of an asset that was never held is `undefined`, and no comparison with it
  is true.  `MCDagState` with `Default = Absent` and `Requests <- MCWithdrawals` violates `ShownIsAmount`.
- `dag_state` also shows what is harmless: `onAAResponse` refreshes the trigger unit instead of the user
  after a bounce (`dag_state.js:257`), but a withdrawal that bounces was not subtracted from the last
  balance shown anyway, because it exceeded it (`120`), unless a cancel has credited the owner in between.
- **Bytes that come with an on-chain cancel are not shown** (`dag_state`): the agent adds them to the owner's balance
  (`dex.oscript:320-322`), but `onAAResponse` returns before the updates (`dag_state.js:262-265`); the old balance
  stays until something else asks for an update.
- **A withdrawal that is registered after its response is subtracted for good** (`dag_state`, `dag_state.js:249`,
  `503`): nothing removes it from the pending ones before a restart.
- **The response to a trade that was executed before its unit was recorded is not recovered** (`dag_state`): the
  backend finds no trade for the event, and `updateTradeStatuses` asks only for trades that are recorded as
  `SUCCESS` by then (`dag_state.js:460`), so that a restart helps only if it comes after the record.
- By reading: `onSavedUnit` uses `order`, which it does not declare, for on-chain cancels
  (`dag_state.js:512-514`), so that a valid one ends the process; the response of the AA, which comes
  later, still cancels the order.

## Proofs

`DexAA_proofs` proves `TypeOK`, `Solvency`, `OrderBudget`, `DeadOrdersNeverTrade`, `OnlyAuthorizedDebits`,
`NoPanic` and `FairFill`, for all addresses, assets, orders and fees that satisfy `ConstantsAssumption`.  `TypeOK` is inductive: the trade is followed balance by
balance, each check of the code carrying the bound on to the next step.
`Solvency` compares a sum over all users (whose number is finite) with what the agent holds.  The sum is a
recursive fold of the community modules: `SumIs` shows by induction over the size of subsets (as a least
counterexample, `LeastNat`) that the fold is a function with its recursion, `SumChanged` that it changes by
as much as one term, and `CreditTotal`, `MoveTotal` and `TradeTotal` carry this through each trigger; a
trade gives away two fees.  `NoPanic` is arithmetic:
the order that is the larger one by the rounded comparison has at least what the smaller one buys.
`FairFill` needs that each fill loses at most a unit and a half of the price, which follows from the
rounding of `Fill` and the checks in `PricesMatch`, and is summed up over `fills`.
`OrderBudget` ties `history` to `amount_left`; the two action properties follow from the guards and
from which balances each part of a trade can decrease.

`TradeQueue_proofs` proves `TypeOK`, `SuccessIsOnDag` and `NoLostTrade`, for any batches, funds,
number of crashes and either kind of backend.  The two properties are not inductive: what a worker
records as sent must be what it sent, and what memory forgets must be found again.  The invariant
`IInv` adds `JobsSound` (the units a worker remembers carry the trades of its batch, in order),
`ResendSound` (the retry works on the head of the queue), `BatchesSound`, `InitSound` (what
`initQueue` has passed is settled or in the queue), `CreatedSound` and `NoneForgotten`
(`NoLostTrade` without its premise, for every state of the initialization).

`DeliveryImplemented` in `TradeQueue_proofs` is the refinement `Spec => ImplementsDelivery` with a patient backend
(`Patient`; an impatient one gets its trades sent twice, see `queue_duplicate`).  Trades are numbered in the
order of their creation, and `OrderInv` says that everything that is not yet sent stands in one line in that
order: the queue, the batch of `executeTrade`, the calls that wait (`LineSound`), with `executeTrade` sending
only when the queue is empty and nothing running until it is loaded (`LoadSound`); that the units are the oldest
trades (`UnitsSound`), and that what is in line is not among them except for what a worker has just sent
(`UnsentSound`).  It follows that a unit always carries the oldest unsent trade (`SendsOldest`), which is what
`Deliver` delivers (`OldestIsNext`); `MatchedSound` evaluates the recursive function of `Delivery` by a least
counterexample.  `SentOnce` is a corollary.

`AnnouncedOnce` adds that what was announced is settled (`HeardSettled`) and held by no job and no more
by `initQueue` (`HeardSound`): executing and retrying never announce at the same time, because one
needs an empty queue and the other a head of it.  `Announced` needs neither order nor patience:
without a crash what was sent was announced or is in the hands of a worker (`NoCrashSound`).

`Settlement_proofs` proves `CommittedAsMatched` and `ChecksAgree`, with a patient backend and for any batches,
orders, sizes, funds, number of crashes and refusals of the agent.  It does not prove anything about the queue again: it takes
`TradeQueue_proofs` as an instance in which a committed trade counts as one that was sent (`Database`), and
shows that every step of the settlement is a step of that queue or one that it does not see (`QueueSteps`,
`QueueUnseen`); only the end of the process after a failed check needed a lemma there (`DownKeeps`), since it is
not counted as a crash.  From `SendsOldest` it follows that the unit at place `u` carries trade `u`
(`UnitsNumbered`), so that the agent, which goes through the units in their order, goes through the trades as the
backend did: `AgentSound` says that what it has left is `Matched` after as many trades, but for disturbed orders, and that each of its
responses is the `Expected` one, a bounce, or to a trade that went astray.  `RecordSound`, `HandlersSound`, `OvertakenSound` and `CommittedSound` tie the
database and what is in the hands of the process to these responses.  `checkTrade` compares the response to an
old trade with what an order has left now; `MatchedFalls` and `KnownTrades` show that it can only have become
less.  `VerdictIs` also shows that in a reachable state the missing trade is the only complaint of `Verdict` about
a trade that did not go astray.

`LifeImplemented` in `DexAA_proofs` is the refinement `Spec => ImplementsOrderLife`: a trade is a `Match` (the
smaller order is executed, the larger keeps what `OrderOutcome` leaves it, which `Fill` bounds), a cancel is
a `Cancel`, and every other case leaves the orders as they are.

`OrderIntake_proofs` proves `BookAuthorized`, `LoginProven` and `MatchesSettle`.  The first is not inductive: an order is
vouched for when its grant is looked up, and has to stay so until it is in the book, through revocations that are
executed, handled and lost, so that `AuthorizedInv` adds the orders that are past the lookup; the second adds the logins that are being validated.
For the third, `DropIsExpressible` shows that the nearest price of few digits exists, among finitely many that are
positive; `OppositeSides` and `FirstAssetOfPair` find the same base token and first asset for both orders; and
`AcceptedOverlap` that where this is one asset, the price that `getOrderError` compares is the one the
backend gets, so that nothing is lost by rounding and the prices overlap exactly.  `OverlapMatches` is then about
the agent's own rounding, for amounts of any size: one unit less than a rounded amount is worth no more than what it was
rounded from (`OneLess`, `WorthNoMore`).  Powers of ten are a recursive function, whose solution
`TenToSolves` provides.  Prices are exact fractions here, where the code has floating-point numbers.

`OperatorWallet_proofs` proves `TypeOK`, for any thresholds: `wallet` stays a natural number because
`SendTrade` and `Withdraw` pay only out of what is there when they run, however old the answers are that
led to them, and `ChecksMove` shows that a check that goes on neither disappears nor doubles.

`Replication_proofs` proves every safety property of `Replication` for any matchers, pairs that connect, events,
payloads that fail validation or end the process, lost connections and crashes.  What a handler has found out under the lock on
an event is used after further awaits, so that the point is that it stays true while all other
handlers run.  The invariant `IInv` says so per stage (`StageSound`: an event that is parked, applied or stored
is neither our own nor stored, and from `apply` on its predecessor is stored); `StoredSound` (what is stored
has been applied, what is parked has a predecessor) carries this from `events` to `applied`; `OwnSound` (what is
being signed is ours and not yet stored) and `ChainSound` (chains run backwards through one origin) are
what `Publish` needs; `DownSound` makes `since` change only while nothing is stored.  `PublishedFirst` needs
`KnownSound` and `ChanSound`, which trace an event through locks, parked events, resumed calls and
messages back to its origin; `ReapplyBound` counts the places of an event in `applied`, and credits a crash
with every call that it throws away between applying and storing.

`OrderBookSync_proofs` proves `TypeOK`, `BookAgrees` and `TradesComplete`, for any orders, sizes, matches and
refused orders, mispriced pairs, any interleaving of copy, events and backend, and any number of crashes of node and peer.  Both are claims about
a state at rest; what leads to it has to be followed from the first request on.  In `IInv`, `SourceSound`
says what the peer's log tells about the peer's orders, but for those that are forgiven: an order comes before its news, a trade that
is announced after a cancel is a late one, and the last match of an order is what is left of it (a cancel
keeps the amount).  `UntoldSound` says that whatever a crash kept from the chain is excused.  `KnownSound` says that the node has nothing that the peer did not announce.
`NewsSound` is the heart: once the last news of an order is handled, the node shows what it says, or the
order is gone and nothing can bring it back (`Dead`: neither the copy nor a message to the backend still
holds it), or the backend is about to cancel it after whatever would (`DeadSoon`), or there is an excuse.
`OpenSound` is the same for an order without news, which may still be on its way to the backend or
wait in the copy; `TradesSound` follows each missing trade to the copy or the event that will bring it, or to
its excuse.
`OrdersSound` makes the steps of `executeReplicatedTrade` find their orders.  `LastNewsExists`, by
`WellFoundedInduction`, then picks the news that decides at rest.  `Orders` is taken to be finite, since the
answer to `get_initial_orders` lists what is open.

`DagState_proofs` proves `TypeOK`, `PendingInProgress` and, if `Default = 0`, `ShownIsAmount` and `QuietShown`, for
any users, balances, requests, reads and crashes (of an asset without a default `ShownIsAmount` is false, see
above: a withdrawal from a balance that was never held is shown as `NaN`).
`Displayed` and `Filter` are recursive functions over positions; `RecursionExists` shows that such a
recursion has a solution and `Reaches` carries a fact along it, so that `DisplayedType` and `FilterSound`
hold for sequences of any length.  `Typed` adds to `TypeOK` that reads are for units on the DAG and that what is
shown is what `Displayed` can return: a registration is refused when the rest would be negative
(`RestType`), and a withdrawal that would make a balance negative is not subtracted (`SubtractType`).
`PendingInProgress` is not inductive, since a withdrawal becomes pending some awaits after it was seen: `Tracked`
extends it to the withdrawals that are being looked up or read.
`QuietShown` is a claim about a state at rest; `Current` says what makes it come true.  A balance that was read
(`ReadsCurrent`) or shown (`ShownCurrent`) may be stale only while something `Newer` is to come: an update of
that customer that reads later, or a response in the queue that will ask for one (`Promised`), unless an answer was
overtaken or the customer is `uninformed` (`Owed` is either).  Otherwise it is `Available`, the balance less what is
pending.  The hard step is a withdrawal
that bounced: its handler forgets it but asks for no update of its sender.  `BouncedShort` shows that none is missing: it
bounced because it asked for more than there is (`Short`), so that `Displayed` did not subtract it in the first place
(`LeftWithout`), or the balance has grown since, and that response asks for the update.  `LeftAgrees`, `LeftOfOneMore`
and `LeftWithout` are about what `Displayed` subtracts, for lists of any length.

Only model-checked: everything temporal with fairness.  Every invariant and every action property of a passing run is
a theorem as well, in the two cases above under `Default = 0`.

## Not modelled

The start of the process is modelled as far as its order matters to the queue and the settlement;
`mongo.js` is taken to give every caller a working connection (callers that wait for its lock connect again,
which is wasteful and harmless).  The dialogue that prepares an order for signing (`chat.js:38-75`) has no
state.  The checks of other matchers' trades in `checkTrade` only write to the log, but for malformed
amounts, which the agent does not give.  Sessions and the owners of orders to be cancelled are lost in a restart
(`NoPair` in `OrderIntake`); the user has to ask again.
Signatures and hashes are taken to be what they claim to be.  MongoDB writes succeed; a failed write ends the
process and is one of the crashes.  The former AA, the migration and deployment scripts are left out.
Obyte's node (`ocore`), the headless wallet, MongoDB and the backend appear only as their use
in this repository shows them.
