# A formal model of swing-trader

swing-trader buys and sells Korean stocks for a few days at a time: it screens
the market before the open, polls prices over REST during the day, enters the
candidates that pass its gates, and sells on stops, targets and trend changes.
This directory models the part of it that must not go wrong - positions and
orders, the database and broker that both claim to know them, and around them
the ETF strategy, the stops of a holding, the polling, the REST client and the
nightly data collection - checks it with TLC on small instances and proves with
TLAPS, for every instance, every safety property those checks state. Paths below
are relative to the repository (`src/engine/...` is the Python package).

## 1. Inventory

| Component | State it keeps | Operations | Hard behaviour | What makes it correct |
|---|---|---|---|---|
| `engine/__init__.py` coordinator | `_running`, candidates, caches, scheduler | `start`, `stop`, `on_price_update`, `on_chejan` | restarts lose all of it; jobs in threads | nothing lost that the database promised |
| `engine/exit_handler.py` exit path | `_sell_retry_counts` | exit check per tick, `_execute_sell`, trend exit | await of the order between two position updates | every selling position has an order behind it; sales add up |
| `engine/entry_handler.py` entry path | entry cache | entry check, `_record_buy` | check, await, insert | limit, one position per code |
| `engine/scheduler_jobs.py` jobs | - | 15:35 cleanup, 09:00 reset, reconcile, report, data update | run in worker threads, overlap handlers | cleanup undoes only what did not happen |
| `engine/portfolio.py` accounting | positions cache, day's trades cache | daily P&L and halt, sizing, high-water sync, MDD restore | the cache is filled by loop and report and dropped by loop and reset, each in its own thread | loss limit halts; cache is the table after a write |
| `engine/polling.py`, `health_monitor.py` | `_polling_task`, heartbeat, failure counter, alerts | start, loop, stop, beat, health check | check, await, create task; a stop in between | one loop, polled or told, stalls and failures reach the alert |
| `engine/screener.py` | candidates, entry cache | screening with retries, ETF submit | retries overlap the schedule | candidates and cache agree |
| `engine/etf_handler.py` | queue, `_position` | evaluate, submit, restore | half in memory, half in the database; a queue between 08:30 and 08:50 | one ETF position, the one in the table; a holding ends |
| `broker/order_manager.py` | `_pending_orders` | `execute_order`, `cancel_all_pending` | lost replies, unreported fills | one working order per code and side |
| `broker/rest_client.py`, `rate_limiter.py` | token, call window | request with retries, token reissue | a POST sent twice; a token replaced under a request | a lone caller keeps `max_calls`; results are true; requests end |
| `broker/ws_client.py` | socket, listen task | connect, listen, reconnect | a task cancelling itself | reconnects or stops |
| `broker/reconciler.py` | - | compare two holdings tables | - | reports every difference |
| `risk/risk_manager.py` | `_halted`, daily P&L, drawdown | `pre_check`, `halt`, `resume`, `reset_daily` | written by three threads | a halt ends with the day |
| `risk/stop_manager.py`, `strategy/exit_evaluator.py`, `utils/tick_size.py` | - | trailing stop, exit rules, tick rounding | rounding at band edges, priorities | stop never retreats |
| `datastore.py`, `models.py` | positions, trades, ... | one commit per call | crash between two commits; migrations | rows and records agree |
| `gui/workers/engine_worker.py` | the engine's loop | stop, halt, resume | other threads | - |
| `data_pipeline/db.py` | two databases | snapshot move | crash half-way | no row lost or doubled |
| `data_pipeline/collect_daily_candles.py` | `result_queue`, writer threads | incremental collection | engine's and GUI's runs share one queue | no holes, nothing left behind, runs end |
| `strategy/*` signals, `backtest/*`, other collectors, `gui/main_window.py`, `notification/*` | - | floating-point signals, offline simulation, I/O, display | - | not modelled |

How they interact: `_polling_loop` calls `on_price_update` for one code after
another and awaits it, so there is one price handler at a time. The handler
awaits the broker (through the order manager) and nothing else that suspends
it; everything between two awaits runs without another coroutine in between.
Scheduler jobs that are coroutines run on the same event loop; the others run
in `asyncio.to_thread`, as do the GUI's halt and resume, so they can fall at any
point of the handler. The database is the only state that survives a process.

## 2. Modules

| Module | Models | State |
|---|---|---|
| `Market` | the stock codes | - |
| `OrderManager` | `broker/order_manager.py` and the broker's order book | `book` (broker), `pending` (`_pending_orders`) |
| `DataStore` | positions and sale records of `datastore.py` | `positions`, `sold`, `sinceSale` |
| `RiskManager` | `risk/risk_manager.py` | `halted`, `lossHit` |
| `TradingEngine` | composes the three with handlers, jobs, GUI, clock, crash and restart | `running`, `candidates`, `retries`, handler place `pc`/`tick`/`todo`/`call`/`cancels`, `phase`, `due`, `events`, `faults` |
| `PositionLedger` | abstract: what the trader promises about its holdings; implemented by `TradingEngine` in paper mode and by `EtfHandler` with one slot | `holding` |
| `MCTradingEngine` | instances for TLC | - |
| `EtfHandler` | `engine/etf_handler.py` over `OrderManager`, with what drives it and the stock money beside it | `position`, `queue`, `rows` (the table), `screening` per caller, `sent`, `stock`; bar and close are chosen at each reading |
| `HeldPosition` | one paper holding: row, positions cache, price handler, 09:00 reset, report | `row`, `cache`, `got` (rows read, not stored), `pc`/`pos`, `reset`/`read` |
| `Polling` | `engine/polling.py` and `health_monitor.py`, start-up and stop | `at` per caller of `connect`, `loop` per task, `pollingTask`, `joins`, `beat`, `alerted` |
| `RestClient` | `rest_client.py` and `rate_limiter.py` under several tasks | `at`/`attempt` per caller, token flags, `calls` (ages of the window) |
| `DataUpdate` | the candle collection of the engine's job and the GUI's run | `candles`, `listed` (`listed_date`), `queue`, `stage`/`todo`/`fetched` per run, `writing`/`held` per writer |
| `SumTheorems` | lemmas about sums over a finite set | - |
| `TradingEngineProofs`, `PaperModeProofs`, `EtfProofs`, `HeldProofs`, `PollingProofs`, `RestProofs`, `DataUpdateProofs` | theorems | - |

The five modules after `MCTradingEngine` each take one part that
`TradingEngine` reads as a simple value (the table, any tick, an order call
that is answered or lost) and look at how that value comes about. They share no
state with it; `EtfHandler` composes with the same `OrderManager`.

### How actions correspond to code

The price handler is `PollTick` (`on_price_update` up to the exit check), then
for each position of the code `KeepHolding` or a sale, then `UpdatePnl`, then
`SkipEntry` or a buy. `pc` names where the handler stands: `exit` and `trend`
(looking through its list, for a price or for the cleanup), `sending` and
`buying` (awaiting the broker), `sold` (position updated, trade record not yet
written), `entry`, `cancel` (in `cancel_all_pending`).

* `_execute_sell` is `PaperSell`, or in live mode `SellGivenUp` (three refusals),
  `SellRefused` (duplicate, no await in between) or `SendSell` followed by
  `SellAccepted`, `SellRejected` or `SellReplyLost` (the exception leaves the
  handler with the position still selling); then `RecordTrade`.
* `_check_entry_conditions` is `PaperBuy`, or `BuyRefused`, or `SendBuy` followed
  by `BuyAccepted`, `BuyRejected`, `BuyReplyLost`. A live buy becomes a position
  when it is accepted.
* `_post_market_cleanup` is `StartCleanup`, one `CancelOne` per pending order (its
  three attempts together), `RestoreSelling` with the list of trend exits,
  the sales, `FinishCleanup`.
* `DailyReset`, `Halt` and `Resume` run in threads: enabled at every `pc`.
* `Crash` covers `stop()` and any way a process ends; `Restart` is `start()`.
* `OnChejan` is the engine's order-event handler, delivered only where the event
  loop can run another coroutine. The shipped program never opens the
  WebSocket; `FillEvents = FALSE` is that program, `TRUE` adds the handler's
  behaviour to it.

In the other modules what lies between two awaits, or for threads between two
accesses of shared state, is one action:

* `EtfHandler`: `_pre_market_screening` is `StartScreening`, then `ScreeningSucceeds`
  (with `Evaluate`) or `ScreeningFails` until the retries are used up, from
  `start()` and from the 08:30 job. `submit_queued_order` is one of the `Submit...`
  actions; its `finally` is `QueueCleared`. `Restart` restores from the open row.
  Bar and close are read anew by each of them, as the GUI's data run may collect at
  any hour: a lot is sized at one close (1 when there is none) and paid at
  another plus slippage. The 08:50 job runs `InTime`, or late (`Suspended`) until
  its hour of `misfire_grace_time` is over (`Misfired`), with stocks already traded.
* `HeldPosition`: a tick is `TickArrives` (reads the cache or the table), `StoreRows`,
  `RaiseStop`, `ScaleIn` or `NoScaleIn`, `DecideExit`, `UpdateDailyPnl`. `_daily_reset`
  is `ResetBegins`, `CountDays`, `ReadHigh`, `SyncHigh`, `FlushCache` in its thread,
  the report `ReportReads` and `ReportStores` in its own. An invalidation between
  a store and the return gives the reader `None` (`TickGetsNone`,
  `StatusGetsNone`, the second ending the engine as in `engine_worker.py`).
* `Polling`: `_start_polling` is `StartPolling` up to the await of `connect` and
  `Connected` or `ConnectFails` after it; `_stop_polling` is `StopPolling` and
  `StopPolled`; a loop's cycle is `Cycle` and `CycleSucceeds` or `CycleFails`.
* `RestClient`: `request` is `Request`, the sleeps of the limiter (`Wake`), the
  token (`TokenIssued`; `TokenFails`, which keeps the token, leaves it blank or holds
  a new one whose date cannot be read), the answers (`Accepted`, `Denied` for a
  refusal in a normal body, `Rejected`, `Raised`, `Fails`) and the resend after a
  back-off (`Again`). Time is `Tick`.
* `DataUpdate`: `main()` of each run is `Listed`, `Collect`, `Fetch`, `Put`,
  `PutSentinel`, `Joined`; the writer thread is `Take` and `Store`. `Listed` takes the
  list of the market, today's or an earlier one, and gives a ticker it had not
  seen the day of the run as `listed_date`, from which its candles are collected.

### Abstractions

* Prices: which exit fires is any that `evaluate_exit` allows for the
  position's flags (TP1 before TP2, each once, a full exit at any time).
* Entry gates that only refuse (breadth, time window, throttle, sector, sizing,
  drawdown) are one choice, `SkipEntry`.
* Candidates are any set of codes; any code may be polled.
* An order is filled whole. Fills happen in market hours; the broker drops
  working orders at midnight. Which trading API id an order is sent under is
  left out.
* `sinceSale` saturates at the cooldown, so it needs no bound.
* A buy's trade record has no reader on the control path and is left out.
* Scale-in, sector limits and dynamic holding are disabled in `config.yaml`.
* In `TradingEngine` the positions cache is read as the table; `HeldPosition` says
  when it is: its history `raced` marks that one thread wrote between another's
  read and its store, after which nothing is promised.
* `HeldPosition`: integer prices in one tick-size band, one code, paper mode. The
  history `overlooked` says that one tick bought the second tranche and then sold
  with the Position it had read before: exactly that tranche is then lost.
  Scale-in is modelled although `config.yaml` disables it; a second tranche is
  bought at or above the entry price (`ScaleAt >= Entry`): its trigger is that price
  plus a multiple of the ATR (`scaling.py:41`).
* `EtfHandler`: a bar of the index is what its IBS says of it; costs and taxes are
  not counted; a cancellation of an order whose reply is lost is one action. The
  close is the ETF's or, without one, the index's, or none: `Quotes`. The stock desk
  may spend up to the capital less its own positions, which is the code's own
  formula (`portfolio.py`, `_get_available_capital`) and leaves the ETF out.
* `Polling`: the codes polled and their prices are left out; a cycle succeeds or
  every request of it fails. `crossed` marks a start awaiting `connect` that met
  another start or a stop. Tasks are identities used again once nothing refers to
  them; three are enough for any day (`PollingTypes`), so `PollingAssumption` asks for
  no more.
* `RestClient`: every request is an order, so what is carried out twice counts.
  A call's age is whole ticks, so ties of the clock are left out. `crowded`
  marks that a caller came to the limiter while another slept in it, `extra` is
  the time since a caller's last attempt that took no slot. A bad token is
  answered by 8005; what else the broker refuses is `Denied` or `Rejected`.
* `DataUpdate`: a candle is the day it is of; values, market caps and indices are
  left out. The button is used once a day. A writer thread opens its database: if
  `get_connection` raised (`collect_daily_candles.py:84`) nothing would take from the
  queue and the run would block in `put`, which `RunsEnd` does not cover.
* One handler at a time: ticks end at 15:30, the cleanup starts at 15:35 and an
  order call is over well before that. A machine suspended across that gap
  could break this; the model does not cover it.

## 3. Runs

| Run | Bounds | Checks | Shows |
|---|---|---|---|
| `paper` | 3 codes, 3 rows, 2 slots, lots of 2, 1 crash, 10 % targets | `PositionLimit`, `OneLivePositionPerCode`, `SalesAccounted`, `LedgerRefined` | three codes compete for two slots, each sold in parts, across restarts |
| `live` | 1 code, 3 orders, 1 row, 1 fault, cooldown of 1 day, order events on, fairness | `TypeOK`, `OnePendingPerSide`, `LedgerBackedByOrders`, `SellingIsBacked`, `SellingResolved`, `HaltLifted` | buy, partial sale and exit with every reply lost, late, or answered by an event; nothing stays selling, no halt outlives the day |
| `restore_unfilled` | 1 code, no faults, no events | `RestoreOnlyUnfilled` violated | the cleanup reopens a filled sale |
| `duplicate_unfilled` | same | `DuplicateMeansUnfilled` violated | a filled partial sale blocks the stop-loss |
| `live_position_limit` | 2 codes, 1 slot, no faults, no events | `PositionLimit` violated | a selling position frees its slot and comes back |
| `etf_day` | both modes, 3 orders, 2 rows, no retry, 2 days' maximum, closes 0 and 1, slippage of 1, 1 fault | `TypeOK`, `EtfMemoryIsTable`, `EtfQueueFits`, `EtfRowsBacked`, `EtfLedgerRefined`, `EtfSold` | days of buying and selling the ETF with overlapping screenings, a lost reply, a restart or a submission after the open |
| `etf_cash` | paper, one buy, one close, no slippage, no fault | `NoCashConflict` violated | the ETF is bought before the open and stocks for the whole capital after it |
| `position_desk` | prices 8, 12, 14 around an entry of 10, lot of 3, one holding day | `TypeOK`, `CacheCurrent`, `HighKept`, `StopHolds`, `SharesAccounted`, `StopNeverFalls`, `HeldNotForever` | a holding from purchase to exit while reset and report run beside it; the one tranche that can be lost |
| `polling_desk` | 3 tasks, threshold of 1 | `TypeOK`, `OnePoller`, `PolledOrTold`, `StallNoticed`, `StopEnds` | starts at any hour, connections that fail, stops that cross them |
| `poll_alert` | threshold of 5 as configured | `FailuresTold` violated | five failed cycles in a row raise no alarm |
| `rest_desk` | 2 callers, window of 2 calls, 2 attempts, period of 2 ticks | `TypeOK`, `LimitKept`, `FewWithoutSlot`, `ResultTrue`, `TokenHeals`, `RequestsEnd` | callers meeting in the limiter while tokens expire, are dropped or fail to come; a good token again and again |
| `data_desk` | 2 tickers, one known and one newly listed, queue of 1, days 2 to 3 | `TypeOK`, `NoHoles`, `QueueDrained`, `RunsEnd` | two runs over one queue, with failures, restarts and late listings |

Why these bounds are enough for the cases meant: the lot of 2 with 10 % targets
gives a partial sale of one share and a second one that turns into a full exit;
three rows with two slots let a slot be reused and refused; three orders hold a
buy, a partial sale and an exit; one fault is one lost reply or one crash at
every point. `live` has one row, since two with fairness are beyond five minutes;
that a code is bought again is in `paper`, and the theorems of the safety
properties hold for any number of rows and orders. `paper`
runs with `Cooldown = 0`: the re-entry gate then never refuses, which gives more
buys than any other value; `live` runs with a cooldown of one day. `paper` uses
symmetry over the codes (its properties are safety properties); no other run
does. `PositionLimit` and `OneLivePositionPerCode` are promises of paper mode only:
the run above shows the first does not hold live, and a code that is being sold
does not count as held.

For the other runs: in `etf_day` a capital of two shares lets stocks and ETF
compete, two rows and three orders hold a buy, its sale and another buy. A
screening of `start()` and one of 08:30 overlap there as they are two callers; a
retry would only make a screening longer, which its one attempt may be already.
A close of 0 is a lot sized at the price of 1, the slippage makes paper's price
another than live's. In `position_desk` the
prices lie at the stop, at the first target and at the second, so that each
exit, a raised stop and a second tranche occur; a lot of 3 at 70 % gives a
partial and a final sale; a maximum of 2 days was checked too. `polling_desk` has a
task for each of the two starters and one still ending; a threshold of 1 makes
the alarm reachable (with 5 it never is, which is `poll_alert`). In `rest_desk` two
callers and two slots are the least with which someone sleeps while another
arrives, two attempts the least with a back-off. In `data_desk` a queue of 1
blocks both runs; a queue of 2 was checked too.

What these runs taught: callers that meet in `AsyncRateLimiter.wait` can pass
`max_calls` by one each, as whoever wakes does not look again (`LimitKept` is the
part that is kept); resends after a back-off ask for no slot; a caller refused
by 8005 within a minute of another's reissue gives up although the token is
fresh; the ETF takes 99 % of the idle cash at 08:50 and `_get_available_capital`
(`portfolio.py:158`) never subtracts it, so stock entries are sized with money
that is gone (`etf_cash`); a ticker's days between its listing and the first
run that saw it are never collected, as `listed_date` is the day of that run
(`detect_new_listings.py:93`) and the collection starts there, so `NoHoles` can only
count from it; a second tranche bought in the tick that sells is never sold, as
`evaluate_exit` still has the quantity read before it; a run of the collection may
report success before its last items are stored, as the other run's SENTINEL
ended its writer; a bar the GUI collects in market hours is never replaced by
the 17:00 run; a stale heartbeat from the day before raises its one alarm of the
day between 09:00 and 09:25.

What the violated properties say of the program is under "findings" of
`PROJECT.json`, with the line of the comment each contradicts. Three
(`restore_unfilled`, `duplicate_unfilled`, `live_position_limit`) come from one fact,
that the program never learns of a fill; `etf_cash` from stocks and ETF each
counting the money without the other at the hour they spend it ("현금 충돌 없음",
`etf_handler.py:5`); `poll_alert` from a heartbeat that resets the counter of
failures at the top of every cycle.

### Fairness

`live` assumes weak fairness of handler steps (asyncio resumes a coroutine
whose await ended, and every broker call ends: 10 s timeout, three attempts), of
each scheduled job that is due (`_make_safe_job` swallows its exceptions), of
the clock, and of a restart. Nothing is assumed of prices, fills, events, the
GUI, or crashes (bounded by `MaxFaults`). `SellingResolved` needs the cleanup and
so the clock; `HaltLifted` needs the 09:00 reset.

`etf_day` assumes the same of the screening job, the submission, the cleanup, the
clock and the restart; that a screening is done in time with a bar of the index
is a premise of `EtfSold`, not an assumption. `position_desk` assumes that the loop,
the reset and the report go on, that prices are polled, and that days pass
(strong fairness, as a tick at work closes the day's guard for a moment).
`polling_desk` assumes that awaits end, due jobs run and minutes pass, and nothing
of the clock, the GUI or the connection. `rest_desk` assumes that time passes, that
timers run and each caller goes on, and of the broker that, asked again and
again by anybody, it answers at last and issues a token at last (strong fairness
of `Answered` and of `TokenIssued`; httpx gives up after ten seconds in between).
Then `TokenHeals` is that the token is good again and again, although callers
wait, fail and drop it. `data_desk` assumes that threads are scheduled and sources answer or
time out.

## 4. Proofs

All theorems hold for every set of codes (finite), number of rows, orders,
slots, lot sizes, sale ratios, prices, distances, callers, tasks, retry limits and
number of faults; the assumptions are the named ASSUMEs of the modules, which TLC
evaluates in every run. Two of them say more than a type: `ScaleAt >= Entry` and
at least three task identities, both explained above. Every invariant and action
property of a passing run, and both refinements, are theorems; where a run
restricts a property to a mode or to histories without a race, so does the
theorem. TLC finds every one of the inductive invariants kept on the run of its
module.

**The engine** (`TradingEngineProofs`, `PaperModeProofs`)

* `TypeCorrect` - `Spec => []TypeOK`. `TypeOK` is not inductive: a sell in flight
  must name a row in use, have a retry to spare and sell no more than is there,
  or the step that applies it breaks the types. `TypeInv` adds `RowsOK`, `BookOK`,
  `TargetsOK` and `CallOK`; one lemma per operator types what it returns, one
  step per action preserves `TypeInv`.
* `PendingUnique` - `Spec => []OnePendingPerSide`. The duplicate check is before
  the await, the registration after it; `AwaitedIsNew` says that the order being
  awaited is still no duplicate, which holds as only the handler in flight
  registers orders and other steps only remove them.
* `SellingBacked` - `Spec => []SellingIsBacked`. A live sale marks the position before
  the await and registers the order after it; `BackedInv` adds that paper mode
  marks nothing. `BackedKept` covers every step that starts no sale and drops no
  pending order; `AcceptedIsPending` that a new order's number replaces none.
* `LedgerBacked` - live, `Spec => []LedgerBackedByOrders`: what the database says was
  bought and sold of a code, summed over its rows, against the orders the broker
  took, summed over its book. The property is not inductive, because between the
  broker's answer and the trade record the shares are in neither sum: `BooksInv`
  counts them (`InHand`) with the sales, and says that unused rows and unissued
  orders count for nothing. A step then moves at most one summand of each sum:
  accepted orders raise one of the book's, a record raises one row's by what was
  in hand, an insert one row's by what was just accepted; a lost reply or a crash
  raises the book's or empties the hand.
* `PaperPositionLimit`, `PaperOnePerCode`, `PaperSalesAccounted` - in paper mode,
  from one invariant `PaperInv`: nothing is ever pending or selling, the
  handler's list holds open positions, unused rows are blank, and
  `Accounts` counts the shares sold but not yet recorded. The limit needs
  that a sale only removes an open position and a buy adds one after the check.
* `PaperRefinesLedger` - in paper mode `Spec => LedgerRefined`: the engine implements
  `PositionLedger`. A holding is the quantity of the one open position of its
  code; a buy maps to `Buy`, a sale to `Sell`, every other step to a stutter. That
  fewer codes are held than slots follows from the surjection of open
  positions onto held codes.

**The ETF** (`EtfProofs`)

* `EtfMemory`, `EtfQueue` - `EtfInv`: what is being sent fits what is held, and the
  queue fits it whenever nothing is being sent. Rows have a positive quantity,
  or a bought row would restore as no position.
* `EtfRowsHaveOrders` - as a new order's number was unused, a buy raises both the
  number of rows and that of buys by one, a sale both that of closed rows and
  that of sells: it closes one row, since `EtfInv` allows no second open one.
* `EtfTypesHold` - `TypeOK` needs the above and `DayInv`: the table stays in its bound
  because a buy is queued only with room for its row, and nothing appends in
  between.
* `EtfRefinesLedger` - `Spec => EtfLedgerRefined`, in both modes: the shares of all open
  rows are the holding of a `PositionLedger` with one slot. The sum is a sum over
  the table, not the quantity of a chosen row, so that two open rows would be a
  buy on top of a holding; `EtfInv` shows that one row at most contributes.

**A holding** (`HeldProofs`)

* `HeldTypes`, `MemoryCurrent`, `SharesKept` - `HeldInv`: until a race, rows read are the
  row, the memory copy agrees but for the high and days the reset is writing,
  the handler's Position agrees or a second tranche lies between. `SharesKept`:
  what was bought and not sold is the row's quantity, and exactly one tranche
  more after a tick that bought it and sold with the Position of before.
* `HighOfTable`, `StopsHold`, `StopsNeverFall` - `PriceInv`, until a race: the row's high is
  between the best price handled and the best there is (`HighFits`) and, once the
  sync is through, the latter; what the reset has read it writes back only if the
  bars are higher; the handler's Position has the row's high while it works
  (`PosFits`); a row without its second tranche has its first entry price. The
  second tranche sets the stop below the mean of two prices, which is at most the
  last price and, as that is at least `ScaleAt`, at least the entry: the first
  half gives `StopsHold`, the second `StopsNeverFall`.

**Polling, requests, collection** (`PollingProofs`, `RestProofs`, `DataUpdateProofs`)

* `PollerUnique` - `PollInv`: jobs are due only in their phase; while nothing
  crossed, the live tasks are the one the handle names, a start in `connect`
  means there is no loop yet, and a join waits for the handle's task.
* `PolledOrToldHolds`, `PollingTypes` - here starts and stops may cross. `Polls`: on a
  trading day after 09:25 a task is alive, an error is out, or a start is under
  way, and no task is cancelled before 15:35. `FewTasks`: at most one task besides
  the handle's is alive or joined, so that a start always finds an identity that
  is free. Without it the model itself could refuse a start.
* `RestResultTrue` - each attempt can have made one order at most, and an answer
  "ok" counts its own.
* `RestLimit` - `LimitInv`, as long as no two callers met in the limiter: one caller
  sleeps at most, and if the window is full its oldest call will have left it
  when the sleep ends. Then the append after the sleep keeps the limit, although
  the code does not look again.
* `RestFewWithoutSlot` - `Spaced`: in a back-off the time since the caller's last attempt
  without a slot and the time left make at least a period.
* `RestTypes` - `TypeOK` and that an attempt in progress is one of those allowed.
* `UpdateTypeOK`, `UpdateNoHoles`, `UpdateQueueDrained` - `WritersOwed`: there are as many
  writers as runs that still owe a SENTINEL plus SENTINELs in the queue, whoever
  takes them. It needs that cardinalities change by one with the set. For
  `UpdateNoHoles`, `WorkCovered` says that what is to be fetched, queued or held starts where
  the candles stored since `listed_date` end, or before, and `DetectedLater` that no
  `listed_date` is before the ticker's first day.

**Sums** (`SumTheorems`). `SumFunction` of the community modules is a recursion over
the subsets of its domain. The library's induction theorems take a predicate as
parameter, which the provers here cannot instantiate; `Climb` makes the induction
over a set of natural numbers instead, from the well-foundedness of their order,
and `OneByOne` over the subsets of a finite set. From it: the recursion has a
solution (`TableExists`), a sum is a natural number (`SumNat`), grows by d when one
summand does (`SumRaised`), and is zero for zeros (`SumZero`).

Only model-checked: the liveness properties `SellingResolved`, `HaltLifted`, `EtfSold`,
`HeldNotForever`, `StallNoticed`, `StopEnds`, `TokenHeals`, `RequestsEnd` and `RunsEnd`, as
fairness and ENABLED are out of the prover's reach. That the properties of
the five "violation" runs fail is TLC's counterexample.

## 5. Plan

1. The live scale-in of `exit_handler.py:88`, whose await lies between the
   Position it read and the row it writes, should it be enabled.
2. A table read as abstract specification of the positions cache, and a rate
   window of the limiter, with refinements.
3. What of the ledger survives in live mode: a statement weaker than
   `PositionLimit`, with the order events that would repair it.
4. The WebSocket client, once a caller opens it.

## 6. Not modelled

* Signals, ranking, screening rules, sizing and slippage arithmetic, tick
  rounding: floating point over data frames, without state or control.
* The backtest and the experiments: offline simulations that share no code path
  with orders. They are most of the repository's lines, as are GUI widgets and
  report scripts, which is why the share of lines mapped is small.
* Data collection other than the daily candles (backfills, market caps, indices,
  fundamentals), anomaly checks, collection logs and cooldowns: I/O.
* The snapshot move of `data_pipeline/db.py`: it runs once per database before
  anything else uses it. Its copy is `INSERT OR IGNORE` and repeatable; its
  `INSERT` of signals is not, which is listed as a hazard.
* The WebSocket client: the program never opens it (`connect` is called with
  `use_websocket=False`). The reconciler only reports. The condition search has no
  caller on the trading path. Notifications and the GUI only show state.
* The disk check and the missing-tick alarm of the health monitor.

`PROJECT.json` gives the reason for each component under "components" and what
each is exposed to under "hazards".
