# Verification of Boz Weather Trader

This directory holds TLA+ models of the trading bot in `src/`, the TLC
configurations that check them on small instances, and TLAPS proofs for every
value of their constants. The reference is the source: each definition names,
in `PROJECT.json` ("map"), the lines it stands for.

## 1. The system

The bot buys and sells weather-market brackets on Kalshi. A FastAPI process
serves the browser; Celery workers run periodic tasks started by beat; all share
one PostgreSQL database and one Redis. Kalshi, the weather services and the
user act on their own.

```
 browser --REST--> FastAPI ---------+                    +--> Kalshi REST
   ^                 |              v                    |
   +--WebSocket------+        PostgreSQL <--- Celery workers <-- beat
             ^                      ^            |
             |                      |            +--> NWS, Open-Meteo
             +---- Redis (events, prices, locks) <--- market feed <-- Kalshi WS
```

| Component | State | Operations | Hard part | What makes it correct |
|---|---|---|---|---|
| Approval queue (`trading/trade_queue.py`, `api/queue.py`) | `pending_trades` rows | queue, approve, reject, expire, duplicate check | two requests on one row; the sweep against an approval; an order call between flush and commit | one order at a time for a row; at most one Trade for a decision; no two PENDING rows for one bracket and side; nothing PENDING for ever |
| Order execution (`trading/executor.py`) | the order on Kalshi, a `trades` row | place, record as RESTING or OPEN | the order lives, the record does not | every order is recorded, for what it filled |
| Order ledger (`trading/sync.py`, `scheduler._sync_resting_orders`) | `trades` against Kalshi's orders | adopt, resolve, cancel | stale listings, partial fills, overlap with the sync endpoint | nothing overbooked, nothing booked twice, nothing forgotten while alive, everything recorded in the end |
| Trading cycle (`scheduler._run_trading_cycle`) | one session, one commit at the end | settle, sync, reset, cooldown, signals | kill before the commit | what is live is recovered |
| Risk limits, cooldowns (`risk_manager.py`, `cooldown.py`) | `daily_risk_states`, `users` | check_trade, on_trade_win/loss, daily reset, is_cooldown_active | two settlements at 9:00; midnight; UTC against Eastern dates; the toggle | the streak is counted, the pause is obeyed, the limits stop trading |
| Settlement (`scheduler._settle_and_postmortem`, `postmortem.py`) | `trades.status`, P&L | settle, count | row locks taken in arbitrary order, rollbacks | what Kalshi settled is settled |
| Signals and sizing (`ev_calculator.py`, `kelly.py`) | none | fees, EV, Kelly fraction, contract count | integer cents, clamping, zero | bounds, monotonicity, agreement with the definitions |
| Push notifications (`notifications.py`) | the user's subscription | send, drop when gone | - | - |
| Kalshi REST client (`kalshi/client.py`) | token bucket | signed requests, retries | the error mapping | - |
| Kalshi markets and price cache | Redis keys with a TTL | read through, write | stale prices | age is bounded |
| Rate limiters (`rate_limiter.py`) | tokens, last refill | acquire | a sleep inside the bucket update | no burst above capacity |
| Market feed (`market_feed.py`, `websocket.py`) | desired and subscribed tickers, one socket | refresh, reconnect, read | subscriptions die with the socket | what is wanted becomes subscribed |
| Kalshi archive (`kalshi/archive.py`, `tasks.py`) | day statuses, attempts, backfill lock | backfill, retry, give up | the lock's TTL against the task's limit | one backfill at a time; every day finished or given up |
| Event push (`backend/websocket/*`) | open sockets, the subscriber task | publish, broadcast, disconnect | a client failing during a broadcast | gauge and set agree |
| Weather ingestion (`backend/weather/*`) | forecasts, settlements | fetch, normalise, store CLI report | check-then-insert without a key | one settlement a day |
| Forecast archive | archived forecasts | backfill, resume | partial days | no day lost |
| Prediction pipeline (`backend/prediction/*`) | predictions | blend, bracket probabilities | normalisation | a distribution over the brackets |
| Model training | model files, per-process caches | train, save, reload, trigger | a trigger true until a report commits; many workers | one training queued; workers converge |
| Paper trading (`strategy/paper.py`, `live.py`) | decisions, paper trades, kill switch | decide, settle, kill | crash between decision and trade | decided once, settled once |
| Strategies, backtesting, research | none shared | numeric evaluation | floating point | - |
| Settings, session, dashboard API | `users` | update, read | read by cycles in progress | - |
| Persistence (`common/database.py`, `models.py`) | sessions | begin, flush, commit | READ COMMITTED, implicit locks | see section 3 |
| Maintenance (`common/maintenance.py`) | old rows | purge and thin in batches | batch boundaries | newest data kept |
| Task scheduling (`celery_app.py`) | queues, schedules | start, retry, time out | overlapping tasks | - |
| Self-updater (`scripts/updater`) | marker, lock, status files | pull, build, restart | death between pull and build | what is built is what is marked |
| Frontend | client cache | optimistic removal | refetch against removal | - |
| Logging, metrics, configuration, encryption; monitoring, deployment, migrations | - | - | - | - |

`PROJECT.json` lists every component with its files and status, and under
"hazards" each place of the code where a test would hardly reach what can go
wrong, with the property that covers it or the reason none does.

## 2. Modules

| Module | Models | Lines |
|---|---|---|
| `PendingTradeLifecycle` | what the approval queue promises: a status is decided only by a request opened while the row was PENDING, or by expiry | abstract |
| `TradeQueue` | queue_trade, the approve and reject endpoints, the order call between flush and commit, the expiry sweep, crashes | detailed, implements the above |
| `OrderLedger` | trades against Kalshi's orders: portfolio sync (cycle and endpoint), resting sync, bracket cap, exposure, execution, approval, settlement, Kalshi's fills, cancels and closes | detailed |
| `RiskDay` | settlement sessions, `DailyRiskState`, cooldowns, check_trade, the trading day | detailed |
| `Updater` | the updater's lock, status file and thread, update.sh command by command, the deployed marker and the baseline of the skipped frontend build | detailed |
| `MarketFeed` | the feed consumer and its Kalshi socket: start, discover, subscribe, refresh, reconnect | detailed |
| `PriceCache` | the two Redis keys of an event's prices, the ticker update, the cycle that reads them or falls back to REST | detailed |
| `EventPush` | publishing, the Redis subscriber, the broadcast, the connection manager, the endpoint, the browser's hook | detailed |
| `RateLimiters` | the token bucket and the minimum interval, up to and after their sleeps | detailed |
| `KalshiArchive` | the backfill of settled city-days: lock, statuses, attempts, repair, crashes | detailed |
| `ForecastArchive` | the month chunks of station forecasts and the task that queues itself | detailed |
| `Forecasting` | the forecast fetch, the predictions, their transactions and what a cycle trades on | detailed |
| `ModelCache` | model files written one by one, the per-child caches keyed by modification time | detailed |
| `Settlements` | climate reports, their check-then-insert, settle and resettle, the temperature lookup | detailed |
| `Paper` | due decisions, fills within a budget, settlement from two listings, the kill switch | detailed |
| `Signals` | settings, guardrails, expected values, Kelly sizing, the scan of a city | functional |
| `TradeQueueProofs`, `OrderLedgerProofs`, `RiskDayProofs`, `UpdaterProofs` | theorems about the module of that name | |
| `ConnectionProofs` | theorems about `MarketFeed`, `PriceCache`, `RateLimiters` and `EventPush` | |
| `RecordProofs` | theorems about `KalshiArchive`, `ForecastArchive` and `Settlements` | |
| `PipelineProofs` | theorems about `Forecasting`, `ModelCache`, `Signals` and `Paper` | |
| `ComponentsProofs` | theorems about the eleven of `MCComponents` side by side | |
| `MCTradeQueue`, `MCOrderLedger`, `MCRiskDay`, `MCUpdater` | instances for TLC | |
| `MCComponents` | the eleven modules from `MarketFeed` to `Signals` side by side | |

### TradeQueue
`row` holds the committed rows of `pending_trades`; a row a cycle has added and
not committed is NEW. A request is a record with its `step`, one step per
statement that another session can come between: the SELECT with its checks
(`BeginApprove`, `BeginReject`), the flush that takes the row lock (`Flush`), the
order call (`PlaceOrder`, `OrderCanceled`, `OrderFailed`), the commit
(`CommitExecuted`, `CommitReverted`, `CommitRejected`). APPROVED is flushed
and never committed, so it is a step and not a status. The sweep is a single
UPDATE; as PostgreSQL does, it fixes its candidates with the statement's
snapshot, waits for each row's lock and evaluates the WHERE clause again.
`approve_trade` also assigns EXPIRED to an old row, but raises before any
commit, so that path changes nothing.
`orders` are Kalshi's, so a crash leaves them; `overwritten` is a history
variable that records that an UPDATE replaced a status its session had not seen.

### OrderLedger
`exch` is Kalshi's side, `db` the committed trades, `draft` what each of the two
sessions has flushed. Since nothing in the schema makes `kalshi_order_id`
unique, a trade is identified by its order and the session that made it, so two
trades for an order can be expressed. A listing is copied into `snap` by the
GET and used afterwards, however stale it has become. The answer may lack orders
(`Answered`; it counts as a fault): `get_orders` takes a page shorter than the limit for the last,
and orders move between pages while it reads them. A RESTING trade whose order is `Unlisted` is
deleted unasked, alive or not (`RestingMissing`). A cycle commits three
times: after adoption, after the resting sync, and at its end. Prices and fees
are left out: quantities are what the properties speak of, and every contract
weighs one unit of exposure.

### RiskDay
`settler` are the settlement transactions, `trader` the trading part of a cycle; each has
its `draft` of every day's row, what it has flushed and not committed.
`tradeLock` and `dayLock` are PostgreSQL's row locks (for a day that has no row
yet, the unique key that makes a second INSERT wait). Each settlement reads its
list (`todo`) without an ORDER BY, so the `next` trade is any of it; updates a trade by primary key,
whatever its status has become (`SettleTrade`); and reads (`LoadDay`), computes in Python and writes back
the changed columns of today's row (`CountOutcome`, or `CountNothing` when none changed).
`done` and `told` are what it has settled and told the rows, for the histories: `hist`, the outcomes
a day's row was told of in the order of the commits; `settledOn`, the day of a trade's first
commit; `overlap`; `tied`, the settlements under way that have met another or a midnight; `crowded`, that
a tied one met yet another. A wait-for cycle ends with one victim
rolled back, as the database's detector does. Time is Eastern, in ticks; the
last `Evening` ticks of a day belong to the next day in UTC, which is the date
`execute_trade` stamps on a trade and `get_daily_pnl_cents` compares with the
Eastern day. Settings are those `_load_user_settings` returns: the per-loss
toggle is never read, a limit is never zero.

### Updater
A commit is its position on origin/master; `log` gives the contents of its
frontend/, since a diff that is empty or not is all the script asks. `script` is
update.sh: the external command it waits for (`cmd`), the tree that command began
with (`src`), and its four variables. Between two commands the script is one step;
a command may fail, with all, part or none of its effect (`CommandFails`), fail
where the script has no `if` and `set -e` ends it (`EndUntold`), or outlast
UPDATE_TIMEOUT_SECONDS, when proc.kill() reaches the shell and the command goes on
as an orphan (`TimeOut`, `OrphanEnds`). `running` and `image` are Docker's:
`Recreate` gives a container the image its tag names at that moment. `misled` and
`orphaned` are history variables for the premises of `DoneIsDeployed`.

### MarketFeed
`phase` is where `start()` is. What Kalshi holds for the socket (`live`) is kept apart
from the two sets that outlive it: the consumer's `_subscribed_tickers`
(`subscribed`) and the socket object's list to send again (`resend`). `Connect` makes a
new object, `Reconnect` reopens the old one and sends `resend` again, `ReconnectFails`
counts up to `MaxRetries`, after which `start()` begins anew. `SubscribeTicker` is one step
per ticker, `Refresh` runs inside the receive loop (`Receive`) when the interval has
passed, so a silent socket never refreshes. `dates` are the events whose market listing
Kalshi answers; a failing one is skipped. `NextDay` makes other markets active.

### PriceCache
`prices` and `tickers` are the two keys with their times to live, `reader` is a trading
cycle between its two reads. `HandleTickerUpdate` is the read-modify-write of a feed
message, which renews the time to live of all quotes though it brings one.
`FetchMarketPrices` and `FetchMarketTickers` read separately, as the cycle does, so the
cache may expire or be rewritten between; `UseRest` is the fall back, with the orderbook
asked where the listing has no price. A quote carries its age, which nothing in the code does.

### EventPush
A socket is one number for both ends. `ready`, `armed`, `ref` and `timer` are the hook's;
`handler`, `tracked` and `gauge` the server's; `broadcast()` is one step per client
(`Send`), on the copy of the set it began with. `Lose` breaks a connection, which each
side sees in its own time (`OnClose`, `EndpointDisconnect`, a failing `Send`).

### RateLimiters
Both limiters hold their lock while they sleep, so one caller at most is asleep. A token
is `Interval` parts. `TokenSlept` sets the tokens to zero and leaves `last_refill` where it
was before the sleep, as the code does. `load` is a history variable, the level of a vessel that
every call fills by a token and every tick drains by `Drain`: with 1 it measures the documented
rate (`RateIsSustained`), with 2 or more the rate that the code keeps.

### KalshiArchive and ForecastArchive
`truth` is what Kalshi has of a day, `day` the rows of `kalshi_archive_days`, `stored` and
`untiled` the archive. `run` goes through a day by the requests it makes and the two
commits it ends in; `KillRun` may come between any two. `LockExpires` comes when its owner is gone or, past its
soft limit, has only its last failure to record: a second run may start beside that. `ForecastArchive` has the
same shape with one run, whose lock outlives its time limit; `task` is the queue it puts itself
in again, `iem` the runs the archive lacks, `Age` the two clocks of a chunk (a rest after
failures, a refetch while recent).

### Forecasting
A stored temperature is known by the fetch cycle it stems from. `fetch` goes through its
requests in order, each with `FetchRetries` retries of which 4xx answers take none, and
stores what was collected in one transaction. `cycle` makes one prediction per step, all in
one transaction, on settings read at its beginning, while fetches go on
committing; a database error aborts the transaction without ending the loop
(`PredictionFails`), as an asyncpg connection does. `Traded` is `validate_predictions`.

### ModelCache
A file is known by the training that wrote it, or is Torn. A child reads file by file while another writes file by file, the key file
last (`Turn`, the end of `save_all`); in which order they take the other files is left open.
`CutShort` is a training killed or failing between two writes. A behaviour follows one artifact:
the ensemble, or one of the single-file artifacts.

### Settlements
`CheckReport` and `InsertReport` are the SELECT and the INSERT of the 8 AM task, with
the same in `FetchForCall` and `CommitReports` for the settle endpoint; nothing but the
SELECT keeps a day's row single. `SettleMatching` raises, and so changes nothing, when any
day it looks at has two (`scalar_one_or_none`). `SettleCall` with resettle first resets and
commits, and asks Kalshi afterwards. `SettlementSpec` states no fairness, for the theorems;
`FairSettlementSpec` adds it, for the finding.

### Paper
`deciding` are the events that each overlapping run has yet to decide; the unique key of a
decision makes `DecideOne` of the slower one a rollback. `FillOne` is a round of the loop over the
strategy's orders, with the budget left and the taker fee in cents; `Fills` is the whole loop. `SettlePaperTrades` commits before
`EvaluateMonitor`, and `SettlerDies` comes between. The SPRT is a free choice
where the strategy has settled trades; the CUSUM is computed.

### Signals
Pure integer arithmetic in ten-thousandths, from `_load_user_settings` to the list of
signals. The sort is not a sorting algorithm: `Sorted` is the set of the orderings it may
return, which a theorem shows to have one member. `ScanCity` is the action that stores the answer; `UpdateSettings` and
`Edited` are the settings endpoint.

### MCComponents
These eleven share no state that is modelled, so interleaving them would multiply states and show
nothing. `running` picks the one that runs; the others keep their initial state. Every
step of every component is still a disjunct of `Next`.

## 3. What the models take from the platform
* READ COMMITTED: a statement sees committed rows and its own session's flushes.
* A SQLAlchemy flush is `UPDATE ... WHERE id`, with the changed columns only; it
  waits for the row lock, keeps it until the transaction ends, and does not
  look at the row's status again. Nothing in the modelled paths uses FOR UPDATE:
  `RiskManager.check_and_reserve_exposure` would, and has no caller.
* An exception out of a handler closes the session: rollback.
* Celery runs two to four tasks at once and acknowledges late; cycles are
  fifteen minutes apart with a limit below that, so two cycles do not overlap,
  while the 9:00 settlement does overlap with the 9:00 cycle, and the API with all.

## 4. Runs

| Run | Asks | Bounds, and why they are enough |
|---|---|---|
| `trade_queue` | `OneOrderInFlight`, `BookedExactlyOnce`, `OnePendingPerKey`, `OrdersAreBooked`, `PendingIsResolved`, `RefinesLifecycle` | two rows of one key, two requests, a TTL of 0 in two ticks, one fault. Every interaction is between two sessions on one row, or two rows of one key; the proofs remove the bounds |
| `trade_queue_reject` | the documented meaning of a rejection | two requests, no fault; finding 1 |
| `order_ledger` | `BookedWithinFill`, `OneTradePerOrder`, `RecordedInFull`, `ForgottenIsDeadOrUnlisted`, `LedgerCatchesUp` | one bracket, two orders of at most two contracts (the least that can fill in part), one fault: a lost answer, a crash, a failing call or a listing that lacks any of its orders |
| `order_ledger_remainder` | the remainder of a partial fill | one order; finding 2 |
| `order_ledger_cap` | the bracket cap | two orders of two contracts, cap two; finding 3 |
| `risk_day` | `StreakIsCounted`, `NoLossForgotten`, `PausedAfterStreak`, `ResultIsSettled` | two trades, two settlements at once, two days of two ticks (one of them evening), a streak of one, one crash or one change of the toggle |
| `risk_day_double` | a loss is counted once | two settlements, no fault; finding 4 |
| `risk_day_loss` | the daily loss limit | one settlement, so no overlap plays a part; finding 5 |
| `updater` | `BusyIsTrue`, `DoneIsDeployed`, `UpdateEnds` | three commits with two possible contents of frontend/ (the least for a marker, a failed update and a next one), two timeouts, crashes or unforeseen exits, any number of failing commands |
| `components` | the seventeen properties of the eleven components below | see below |
| `limiter_rate` | the documented rate of the token bucket | two callers, a burst of two, three ticks to a token, `Drain` = 1; finding 6 |
| `settlement_duplicates` | a trade settles without NWS data | one report, two writers; finding 7 |

What the passing runs show, in short:
* the row lock taken by the flush of APPROVED is enough to keep the orders of
  two approvals apart, though the status is read without it;
* unless a decision was overwritten, a queue row and its Trade agree, and an
  order without a Trade exists only after a fault;
* the portfolio sync repairs every lost answer and crashed cycle, and while
  sessions do not overlap it never makes a second trade of an order;
* a resting order that the cycle forgets is dead on Kalshi, or was missing from its listing; the second
  kind is forgotten alive, and if it is executed a later sync adopts it again;
* the losing streak survives crashes, rollbacks and midnights; two settlements that overlap within
  a day may count too much but never too little, because the lock on a
  settled trade is taken before the counter is read;
* every settled market's trade is settled, in spite of the two settlements'
  deadlocks and duplicate-key rollbacks;
* a marker that an update wrote stays a safe baseline through any failures, crashes and
  deploys by hand after it: an update that skips the frontend and says done has the
  right one running; every update ends and frees the lock.

### The run `components`
| Component | Properties | Bounds | States |
|---|---|---|---|
| `MarketFeed` | `ReconnectResubscribes`, `FeedFollowsMarkets` | one bracket, one midnight, two retries: each pair of days differs in its tickers, and a socket can be reopened once before it is replaced | 2,452 |
| `PriceCache` | `ServedIsAlive` | two brackets, one of which may fall silent; a TTL of two ticks, one less than the tickers' | 6,512 |
| `EventPush` | `OneSocket`, `BroadcastReachesAll`, `ClosedIsUntracked` | two sockets (the old one and the new), one message waiting | 1,566 |
| `RateLimiters` | `CallsAreSpaced` | two callers, a burst of two, three ticks to a token | 1,915 |
| `KalshiArchive` | `SettledIsArchived`, `SettledStays`, `BackfillEnds` | one day, two overlapping runs, three attempts: days are independent but for the order of a run | 12,170 |
| `ForecastArchive` | `NoRunIsForgotten` | three months, the oldest of which is final, two failures before a rest | 4,905 |
| `Forecasting` | `TradedIsSound` | two events in one transaction, three sources, two fetches, no retry (a retry only adds the same answers) | 57,684 |
| `ModelCache` | `CachedIsCurrent` | two children, one model with one file and the key file, two trainings | 12,532 |
| `Settlements` | `ResolvedIsSettled` | two days, so that one day's duplicate can block the other; one report, one reset | 4,566 |
| `Paper` | `PaperActsOnce`, `LossesStopPaper` | two events, two overlapping cycles, one order list that fits the budget in part | 23,670 |
| `Signals` | `EdgeIsTraded` | one bracket, 21 probabilities by 101 quotes (both illegal ends included) by three rows of settings and their changes | 19,098 |

CHECK_DEADLOCK is FALSE: a component stops at its bound (sockets, days, fetches,
trainings). What the run shows, in short:
* a socket that reopens loses no subscription, and a feed that hears anything comes to follow
  the markets of the new day;
* a cycle never trades on a cache in which nothing has moved for the time to live (though single
  silent brackets may be old, see section 5);
* unmounting and remounting before the close event leaves no second socket; a dead client
  takes no message from others, and does not stay in the set, whoever sees it first;
* the weather limiter spaces calls exactly (the token bucket keeps twice its rate, section 6, and not
  its rate, finding 6);
* a kill between any two commits of the backfill loses only the day in flight, two runs under an
  expired lock included, and settled markets are never replaced by unsettled ones; every day ends, whatever it answers;
* every forecast run that is published is archived in the end, after failures and rests too;
* a prediction that is traded on blends two enabled sources of the latest fetch, whatever committed
  meanwhile, in spite of the transactions that abort half way;
* a child that read while another wrote sees a new modification time afterwards, because the key file is
  written last, and its time is read before the files;
* settlement needs no report, unless two were stored;
* each paper event is decided once, within its budget, and losses stop the strategy in the end;
* the scan's comparing of sides and the sizing's other fee lose no signal and add none.

### Guards on properties
Some properties hold only away from a known gap and say so in their statement:
`BookedExactlyOnce` and `OnePendingPerKey` except after an overwritten decision
(finding 1), `OneTradePerOrder` and `StreakIsCounted` while no two sessions overlap
(the sync endpoint against a cycle; finding 4). `PausedAfterStreak` also excludes a
change of the toggle: the cycle trades on the settings it read. `NoLossForgotten` allows two settlements to
overlap, as the 9:00 cycle and the 9:00 task do, and excludes what `crowded` records: a settlement that
meets a third one while it is tied to a second, or a midnight after a meeting, or a meeting after a midnight. On schedule
that does not happen: the task is killed after six minutes, the cycle after four, the next cycle comes fifteen
minutes later, and none of them runs at midnight beside another. Retries (two each, after 30 and 60 s)
and a queue that lags can bring it about.

`DoneIsDeployed` excludes three things: a baseline that was never deployed (`misled`, section 5); a commit that
reverts frontend/ (the marker equals NEW_HEAD and what runs may lie between them,
when an update died after its restart); a command that outlived its script
(`orphaned`), which may rebuild or restart anything at any time. `BusyIsTrue` holds
until a crash or an exit by `set -e`, after which the file keeps its last word.

### Fairness
* `TradeQueue`: the clock; beat's sweep and each of its steps; the end of a
  request, since the HTTP call has a timeout. No user has to act.
* `OrderLedger`: beat keeps starting cycles and a worker runs them (WF of the
  cycle's steps); an order that is still resting is, in some cycle, older than
  `RESTING_MAX_AGE_SECONDS` (SF of `CancelAged`: finding it young again and again is
  not an execution of a clock). Fills, cancels, closes, users and the API need not
  act. New orders are bounded by `MaxOrders`.
* `RiskDay`: settlements keep running and PostgreSQL hands a released row to who waits
  for it (SF of each session's steps), a cycle ends. Nobody has to trade; time need
  not pass.
* `Updater`: weak fairness of the script's steps, justified by the timeout that bounds
  every command. Nobody has to ask for an update, no fault has to happen.

* The eleven components: `Spec` has none; each liveness property is an implication from
  the fairness it needs, which its module names. `FeedFairness`: the consumer's task runs, its
  interval passes, and a live ticker sends a message now and then. `EventFairness`: the event loop runs.
  `ArchiveFairness` and `MosFairness`: beat starts a run (:20, :40), Kalshi settles each day, and
  of the runs that are killed or whose requests fail again and again, some get through (SF).
  `SettlementFairness`: the cycle every quarter of an hour settles, weakly fair. `PaperFairness`: the settlement at
  :50 runs, and is not killed between its two commits each time (SF). Nobody has to trade,
  publish, connect or edit.

### Deadlock
`OrderLedger` may stop when all orders are used and no session starts: its runs say
CHECK_DEADLOCK FALSE, since the bound on orders and not the code ends it. So do those
of `Updater`, which really can stop for good: a lock taken by a POST that could not
write the status file is never released (`PostFails`). The other two modules are
checked for deadlock.

## 5. Findings
Each is a run that TLC finds violated; the trace is the code's behaviour and the
quoted line is in `PROJECT.json`.
1. *A rejected trade can be executed* (`api/queue.py:149`). An approval reads PENDING,
   a rejection commits, and the approval's UPDATE, which checks no status, makes it
   APPROVED and sends the order.
2. *The remainder of a partial fill is not cancelled* (`kalshi/models.py:403`). The
   answer is mapped to "executed", the trade is OPEN, and the resting sync selects
   RESTING trades only.
3. *The bracket cap can be exceeded* (`scheduler.py:1004`). RESTING contracts are not
   counted, and become OPEN later.
4. *A loss can count twice* (`common/models.py:297`). Two settlements list the same
   trade; the second waits for the first's commit and settles it again.
5. *The daily loss limit does not see the day's losses* (`PRD.md:766`,
   `risk_manager.py:195`). P&L is summed by date of purchase, and a market settles
   after that date.
6. *The token bucket sustains twice its rate* (`kalshi/rate_limiter.py:24-29`). Who has slept for a token passes
   with no tokens left, but `last_refill` is from before the sleep: the next caller is credited the same time and
   passes at once. Under load every second call is free. Setting `last_refill` after the sleep would make the
   property hold.
7. *Duplicate climate reports stop settlement* (`trading/scheduler.py:688`). The 8 AM task and the settle
   endpoint both check and insert, no key forbids two rows of one day, and from then
   on `scalar_one_or_none` raises in every settlement that looks at that day. The comment says that NWS data is
   optional and for display. (`weather/scheduler.py:41` also speaks of a unique index; there is none.)

Three more disagreements with a comment have no run of their own; the models have the steps:
* *The pre-pull HEAD need not be what runs.* `update.sh:56-62` calls it "the commit that is running right now",
  "exactly the same information" as the marker. An update without a marker pulls and fails to build; the next one
  pulls further, takes the HEAD that was never built as its baseline (`update.sh:81`), and skips a frontend build
  that never ran. The script's guard (lines 75-80) covers only a HEAD that did not move. `misled` in `Updater` records it.
* *An unlisted order need not be expired.* `trading/scheduler.py:733` and `:773` read "not found" as "expired or
  manually canceled" and delete the trade, with no further question. `RestingMissing` in `OrderLedger` has it.
* *`get_orders` need not read all pages.* `kalshi/client.py:394` says it "Paginates through all pages", but a page
  with fewer orders than the limit ends it, whatever its cursor (line 422). `Answered` in `OrderLedger` has it.

What else was met while modelling, without a document that promises otherwise; the models have
it as the code does it:
* A loss can be lost. Of three settlements in a chain, the second, about to settle the first's trade again, has read the row
  before the third commits its losses, and writes over them; none of those is on its list. Around a midnight, a
  settlement counts a win of the day before again and so resets the new day's streak.
* A preliminary climate report is stored and never corrected by the final one.
* A resettlement commits its reset before it asks Kalshi, and clears the fee, so that losing trades are settled again
  without one. A market result other than yes or no counts as a loss.
* `_load_user_settings` reads neither the fee mode nor the per-loss toggle, and turns zeros into defaults; the settings
  endpoint accepts values that the schema later rejects, after which every cycle fails to load them.
* A model that a training rejects leaves its old files, which go on predicting.
* Attempts that found a day unsettled count toward giving it up.
* After `start()` replaces the feed's socket, what was subscribed before is not live, and is not subscribed again
  (`renewed` in `MarketFeed`). A silent bracket's price stays in the cache as long as another bracket moves.
* A paper cycle that is under way goes on recording after the kill switch.
* Each `KalshiClient` has a limiter of its own.
* The gauge of open sockets is decremented twice when broadcast and endpoint both see a client go.
* After an aborted statement, the prediction cycle goes on and reports predictions its transaction has lost.

## 6. Proofs

TLAPS proves, for any sets of rows, keys, requests and brackets and any bounds:

| Theorem (`TradeQueueProofs`) | States |
|---|---|
| `TypeCorrect` | `Spec => []TypeOK` |
| `InFlightIsExclusive` | `Spec => []OneOrderInFlight` |
| `BookingIsExact` | `Spec => []BookedExactlyOnce` |
| `PendingIsUnique` | `Spec => []OnePendingPerKey` |
| `OrdersGetBooked` | `Spec => []OrdersAreBooked` |
| `QueueRefinesLifecycle` | `Spec => RefinesLifecycle` |

The inductive invariant adds to the types: a busy request names a row
(`RequestHasRow`); a session holds a row's lock exactly while it is at a step
after its flush (`LockedByStep`), which makes the in-flight request unique; a
locked row is still PENDING unless a decided status was overwritten
(`LockedIsPending`), without which `BookedExactlyOnce` is not inductive, for a commit
would book a row already executed; and one undecided row per key, NEW rows included
(`OneUndecidedPerKey`). `OrdersAreBooked` needs the cardinality of the requests at
"placed", one by the lock. The refinement maps `status` to the committed status (NEW
to NONE) and `open` to the requests that name a row.
The assumptions used are that the sessions are distinct and the bounds natural
numbers.

| Theorem (`OrderLedgerProofs`) | States |
|---|---|
| `TypeCorrect` | `Spec => []TypeOK` |
| `NothingIsOverbooked` | `Spec => []BookedWithinFill` |
| `FillsAreComplete` | `Spec => []RecordedInFull` |
| `ForgottenIsDead` | `Spec => ForgottenIsDeadOrUnlisted` |
| `OrdersAreTradedOnce` | `Spec => []OneTradePerOrder` |

Here the invariant has to speak of staleness: an order not placed has no fills and a
resting one is not full (`OrderIsSane`); what a session has listed lies behind
the order's present state, with no fewer contracts filled since and "executed" and
"canceled" final (`SnapIsBehind`); what is still to be resolved waits for a cycle that has listed the orders
(`TodoIsResolved`), and what it found missing stays so, because the listing does not change while it is worked through
(`UnlistedStays`); and committed rows and drafts each agree with the order
(`RowIsSound`, `DraftIsSound`).

`OneTradePerOrder` has an invariant of its own on top of this one (`PInv`), and all its
parts but two are conditional on no overlap so far. Then one session is active (`OneActive`), the
idle ones have nothing flushed (`CleanDraft`), so that what the active session sees is what
there is; in that view an order has one trade (`SoleViews`); and a trade that
still has to be resolved is still there (`TodoIsKept`). A session that adopts an order or records
its own has looked for the order in its own view first, or has just placed it, and
what is recorded was placed (`RecordedIsPlaced`).

| Theorem (`RiskDayProofs`) | States |
|---|---|
| `TypeCorrect` | `Spec => []TypeOK` |
| `StreakCorrect` | `Spec => []StreakIsCounted` |
| `PauseCorrect` | `Spec => PausedAfterStreak` |
| `NoLossCorrect` | `Spec => []NoLossForgotten` |

The types need an invariant of their own (`IInv`): what is written to a row is one more than what was read, so
it must be known that a settlement holds the lock of each trade it has settled (`LocksAreDone`) and of
each row it has told of a loss (`RowsAreLocked`), that what it is about to write follows from what it read
(`WriteIsSound`), and that a trade it lists has a result (`DoneIsSettled`, `TradesAreSound`). On top of it:
* *The streak* (`StreakInv`). Without an overlap one settlement is at work, and the counter in its view of a day
  is the streak of `hist` followed by what it has told. That a sequence has just one such number
  (`StreakIs`) and that another outcome makes it one longer or zero (`LongerStreak`) needs no induction: the streak is
  characterised, not computed.
* *The pause* (`PauseInv`). A row at the limit holds until the end of its day in each session's view of
  it, and in what a settlement is about to write. The trading session only inserts fresh rows, since with the
  toggle on it clears nothing, so its commit cannot undo a pause.
* *No loss forgotten* (`MeetInv`, `EnoughInv`). Of two settlements that overlap within a day, one's list is part of the
  other's. The invariant weighs a draft: its counter, plus the losses on its list that the other has committed and it
  will count again, is at least the losses committed and those it has counted itself (`DraftEnough`). A stale
  counter is thus made up for, whatever the order of the lists; `Trades` being finite is what the cardinalities need.

| Theorem (`UpdaterProofs`) | States |
|---|---|
| `TypeCorrect` | `Spec => []TypeOK` |
| `DoneMeansDeployed` | `Spec => DoneIsDeployed` |
| `BusyMeansBusy` | `Spec => []BusyIsTrue` |

At the end of an update nothing in the state says why skipping the frontend was right;
the invariant has to carry it from one update to the next: the running frontend has the
contents of some commit from the marker to HEAD (`MarkerIsBehind`), kept by updates that
restart and die before the marker, and by deploys that do not write it. If
frontend/ is equal at both ends and nothing was reverted, it is equal in between
(`SkippedIsRunning`). `Stages` says what the commands before have left for the next,
`WithinLog` that nothing is ahead of HEAD. The assumptions are the bounds.

| Theorem (`ConnectionProofs`) | States |
|---|---|
| `FeedTypeCorrect` | `FeedSpec => []FeedTypeOK` |
| `ReconnectLosesNothing` | `FeedSpec => []ReconnectResubscribes` |
| `CacheTypeCorrect` | `CacheSpec => []CacheTypeOK` |
| `ServedPricesAreAlive` | `CacheSpec => []ServedIsAlive` |
| `LimiterTypeCorrect` | `LimiterSpec => []LimiterTypeOK` |
| `BurstIsBounded` | `LimiterSpec => [](TwiceTheRate => RateIsSustained)` |
| `CallsKeepApart` | `LimiterSpec => CallsAreSpaced` |
| `EventTypeCorrect` | `EventSpec => []EventTypeOK` |
| `TabHasOneSocket` | `EventSpec => []OneSocket` |
| `NobodyIsMissed` | `EventSpec => []BroadcastReachesAll` |

* *Market feed and cache.* While the socket is up, what Kalshi sends is the socket's own list (`ResendIsLive`),
  and the consumer believes in nothing outside that list as long as `start()` has not replaced the socket
  (`BelievedIsResent`). Each write renews key and price at once (`SomeIsYoung`).
* *Rate limiters.* The bound that the run `limiter_rate` finds broken at the documented rate (`Drain` = 1) holds from
  twice the rate on (`TwiceTheRate`, `Drain` at least 2), so the finding is exactly that factor. A call moves from bucket to vessel, a tick drains no less than it refills, so their sum is bounded
  (`LevelIsBounded`). A sleep breaks the sum, for its time is credited again; what it still owes takes its place
  (`SleepIsOwed`), and that one sleep at a time does so is the lock (`OneSleeper`). For the
  spacing, a sleep spans what is left of the interval (`SleepSpansInterval`).
* *Event push.* Only the socket in `wsRef` has a handler that could make another (`BrowserOK`). Each target
  of a broadcast is to be sent to, was sent to, or failed and is gone (`CastOK`). The gauge is the number
  of endpoints that receive, less the clients that broadcasts removed, each once (`GaugeCounts`): it may go
  below zero, and no further than the number of sockets.

| Theorem (`RecordProofs`) | States |
|---|---|
| `ArchiveTypeCorrect` | `ArchiveSpec => []ArchiveTypeOK` |
| `SettledDaysAreArchived` | `ArchiveSpec => []SettledIsArchived` |
| `SettledMarketsStay` | `ArchiveSpec => SettledStays` |
| `MosTypeCorrect` | `MosSpec => []MosTypeOK` |
| `CompleteIsArchived` | `MosSpec => []OldMonthsAreKept` |
| `SettlementTypeCorrect` | `SettlementSpec => []SettlementTypeOK` |
| `SettledByKalshi` | `SettlementSpec => []BetsAreKalshis` |

* *Kalshi archive.* A lock can expire under its owner. What is left to a run that has lost it is to record
  its last failure, of the day it works on (`OwnerWorks`, `LateFailureIsLast`), so markets are committed
  by the owner alone, and what it has fetched is no earlier a status than the archive's (`FetchedIsSound`,
  `StoredIsTrue`). The same makes settled markets final (`SettledStays`, an action property).
* *Forecast archive.* Runs of the current month go on appearing after it was fetched; a month that is over
  is complete for good. The proof needs that the run works on the newest month of its list, and that
  nothing of it is left once it was fetched (`ChunkAtWork`), since months become old while it works.
* *Settlements.* A request keeps what it asked of Kalshi through its requests to the NWS, while cycles settle
  beside it. Kalshi's results are final, so what is known stays true (`KnownIsResolved`).

| Theorem (`PipelineProofs`) | States |
|---|---|
| `ForecastTypeCorrect` | `ForecastSpec => []ForecastTypeOK` |
| `TradesOnSoundPredictions` | `ForecastSpec => []TradedIsSound` |
| `ModelTypeCorrect` | `ModelSpec => []ModelTypeOK` |
| `RetrainIsPickedUp` | `ModelSpec => []CachedIsCurrent` |
| `SignalTypeCorrect` | `SignalSpec => []SignalTypeOK` |
| `EdgesAreTraded` | `SignalSpec => []EdgeIsTraded` |
| `ScanHasOneAnswer` | under all settings `ScanAllBrackets(...)` is a set of one list |
| `PaperTypeCorrect` | `PaperSpec => []PaperTypeOK` |
| `PaperDecidesOnce` | `PaperSpec => []PaperActsOnce` |
| `PaperDecisionsStand` | `PaperSpec => DecisionsStand` |

* *Forecasting.* A fetch may commit between two reads of a cycle. The newest row of a source
  never becomes an older one (`BeforeIsBehind`, over the newest of each source when
  the cycle began); each row counts once for its source, so a blend of two rows has two sources.
* *Model caches.* What a child has read under the present time and the disk no longer holds is still being written, or a training was cut
  short (`OldHasWriter`). Each training ends with its key file (`KeyIsLast`), which puts the modification
  time beyond all that were seen (`SeenIsPast`), so its end leaves nothing to show.
* *Signals.* That the signals are those of the last scan, under the settings it had, is inductive
  (`SignalsAreFound`); the rest is arithmetic, for every quote and for every probability in ten-thousandths. (The model cuts a
  blended probability to ten-thousandths; the code rounds it to six decimals.) The taker's
  fee of a contract is a cent or two and its estimate one (`FeeIsSmall`), and the expected values of the two sides of
  a market are opposite but for the fees (`ExpectedValues`), so at most one side meets its threshold,
  which is not negative: comparing the sides first loses none. Kelly's edge is positive if and only if the chance
  is worth the cost with the whole fee taken from a win, and then one contract at least is bought, while more
  than one stay below each cap, by the rounded quotients (`KellySizeIsBounded`). The
  two fees, the estimated one of a threshold and the taker's of a size, are kept apart throughout.
* *The sort.* Each bracket gives one signal at most, so the order by value and then by bracket is a strict
  total order of a finite set. By induction over the size of the set it has a last element, an ordering, and
  only that one (`LastExists`, `SortedExists`, `SortedIsUnique`).
* *Paper.* `PaperActsOnce` is inductive with the types: an event without a decision has no trades, so what one
  decision appends is all there is, and a settlement changes no price and no count. That a decision's fills
  fit the budget is an invariant of the loop: what the rows cost and what is left make up the budget
  (`FillOneKeeps`, `FillAllKeeps`). For that, the recursive functions of the model must be known to
  exist (`RecursionExists`), the sum over a list to grow by the last element (`SpentOnOneMore`), and the largest
  affordable count to be affordable (`LargestExists`, `FilledFits`). That decisions and settled trades stay
  as they are is the action property `DecisionsStand`.

| Theorem (`ComponentsProofs`) | States |
|---|---|
| `EveryComponentRuns` | `Spec` implies the specification of each of the eleven components |
| `TypesAreCorrect` | `Spec => []TypesOK` |
| `ComponentsAreSafe` | `Spec` implies all safety properties of this section's last three tables |

The run `components` checks `TypesOK` and the properties section 4 names;
`OldMonthsAreKept`, `BetsAreKalshis`, `SignalsAreFound` and `DecisionsStand` are stated in the proof modules, and
hold on the run's instance too. A step of the whole is one of a single component, and leaves the others' variables as they are.

*Assumptions.* Those each module names: bounds and limits are natural numbers, of the size the
code gives them (an interval or a rate is not zero); settings are within the bounds that the schema puts on
their fields, with amounts of cents any integers; an order is for one contract at least and its quotes are any integers.

*Induction.* The library's induction rules take a predicate as a parameter, which no prover here
can instantiate. What needs induction over the naturals is said of a set instead: a set that has 0 and with each number the
next has them all (`SetInduction`, from the well-foundedness of `<` on the naturals). That is enough for
recursive functions over a list, as above.

*Only model-checked* are the ten liveness properties, since fairness and ENABLED are beyond the provers:
`PendingIsResolved`, `LedgerCatchesUp`, `ResultIsSettled`, `UpdateEnds`, `FeedFollowsMarkets`, `ClosedIsUntracked`,
`BackfillEnds`, `NoRunIsForgotten`, `ResolvedIsSettled`, `LossesStopPaper`. The thirty safety properties of the passing
runs are all theorems. Outside them, the CUSUM's sum over days, which only `LossesStopPaper` speaks of, has no
theorem.

## 7. Plan

*Done:* the approval queue, the order ledger, the risk day and the updater; signals; the market feed, the price
cache, the limiters and the event push; both archives, the weather pipeline, the model caches, the settlements and paper
trading; theorems for all safety properties of these. What is left, in order:
1. Safety that the liveness properties rest on: that no step of a run can be stuck for good (a lock without an owner that expires,
   a rest that ends), as invariants.
2. The retraining trigger (a condition that stays true until a report commits, so that each run of the task queues another
   training), composed with `ModelCache`.
3. `Settlements` composed with `RiskDay`: the endpoint's settlements under the row locks and the streak.

## 8. Not modelled
* Statistics and machine learning (learners, calibration, research, regressions, the SPRT's
  value, the bias correction): floating point over data, one process, no protocol.
* Backtesting and the research gate: a sequential replay in one process; the rules it simulates are those of
  `RiskDay` and `Signals`.
* HTTP signing and parsing, bracket labels, logging, metrics, encryption, rendering: no shared state the
  properties could speak of.
* Migrations, monitoring and deployment files: generated or declarative.
* Push notifications: sent after the fact, one HTTP call, and the removal of a subscription that is gone.
* Maintenance: a nightly purge in batches, each committed by itself, of rows nothing reads any more.
* Prices in the ledgers: `OrderLedger` and `RiskDay` count contracts and trades; the money of a
  live settlement (P&L, fees) is left out, that of paper trades is in `Paper`.
* The dashboard's read endpoints and the frontend's pages: they read.

## 9. Running

    tlc -workers 2 -config TradeQueue.cfg MCTradeQueue
    tlc -workers 2 -config OrderLedger.cfg MCOrderLedger
    tlc -workers 2 -config RiskDay.cfg MCRiskDay
    tlc -workers 2 -config Updater.cfg MCUpdater
    tlc -workers 2 -config Components.cfg MCComponents
    tlc -workers 2 -config LimiterRate.cfg RateLimiters
    tlc -workers 2 -config SettlementDuplicates.cfg Settlements
    tlapm TradeQueueProofs.tla
    tlapm OrderLedgerProofs.tla
    tlapm RiskDayProofs.tla
    tlapm UpdaterProofs.tla
    tlapm ConnectionProofs.tla
    tlapm RecordProofs.tla
    tlapm PipelineProofs.tla
    tlapm ComponentsProofs.tla

Each passing run takes one to two minutes on two cores. The operators marked
"Mutant" are what a plausible slip would make of the definition that follows them;
`PROJECT.json` ("mutants") says which property each of them breaks.
