# Verification of the Satteri (Trench) paper-trading bot

TLA+ models of the Rust workspace under `src/crates/`, their TLC runs and the
proofs about them. Satteri is a paper-only trading bot for public Hyperliquid
perpetual markets: a daemon (`trenchd`) receives public market data, admits it
into a deterministic engine, and the engine simulates orders, margin, funding
and liquidation in an isolated ledger. Nothing is ever sent to a venue, so what
has to be right is the order in which facts are admitted, what happens when
facts are missing, what a decision may know, and what broker, ledger and
breakers make of it.

## 1. The system

| Part | State it keeps | Operations | Talks to |
|---|---|---|---|
| Paper broker (`trench-core/broker/mod.rs`) | one position: pending order, quantity, normal and mandatory exit request, funding time, four clocks, last observation | `queue_order`, `on_executable_book`, `observe_mark`, `request_exit`, `apply_funding`, `advance_time`, `end_of_data` | called by the engine; its `BrokerTransition` is applied to the ledger |
| Risk breakers (`risk/breakers.rs`) | daily and weekly loss budget, high-water equity, drawdown latch, entries today, consecutive losses, cooldown | `entry_allowed`, `record_equity`, `record_entry`, `record_closed_trade`, `reconcile` | owned by the ledger |
| Ledger (`ledger.rs`) | cash, collateral, position, totals, breakers, time of the last transition | `open_position`, `apply_funding`, `settle_exit`, `settle_liquidated_exit`, `mark_to_book`, `reconcile` | called by the engine with broker transitions |
| Risk engine (`risk/sizing.rs`, `liquidation.rs`) | outstanding approvals with their expiry, policies | `quote_candidate`, `discard_quote`, `consume_quote` | called by the engine's arbitration |
| Engine (`engine.rs`) | owns one broker, ledger and risk engine per strategy | `Engine::apply` of one event, `apply_entry_arbitration`; an error gives the state up | called by the journal writer and the rule replay |
| Universe (`universe.rs`) | none: snapshots and activations are values | `select` once an hour, `activate` for a bar | the caller's activation bounds features, candidates and arbitration |
| Features (`features/common.rs`) | bounded histories per market, identities forgotten, trade windows, candles, boundary samples | `observe`, `ingest_candle`, snapshots at a bar boundary | fed by the authority with every durable fact; read by strategies |
| Candles (`candle.rs`) | open aggregates, identities, unavailable spans, watermarks | `ingest`, `mark_gap_unavailable`, `complete_through`, `complete_market_through` | features, recovery, offline replay |
| Strategy (`strategy/`) | none | score features, make candidates, accept a cost | between features and arbitration |
| Public WebSocket client (`trench-hyperliquid/ws.rs`) | connection, retry count, generation, pending gap per market, last book and trades of this connection | `run_client`: connect, decode, emit, reconnect, end | sends facts, gaps, recovery requests and one terminal record over one bounded channel |
| Gap recovery (`recovery.rs`, `recovery_producer.rs`) | FIFO of requests, last generation and evidence per market, candles reconciled so far | `retain_committed_source`, `enqueue`, `advance_time`, `process_next`, `complete_unavailable`, `reconcile` | two bounded channels with the authority; HTTP candles |
| Context capture (`capture_scheduler.rs`, `capture.rs`, `info.rs`) | one capture in flight, rotation of the detailed scope | `tick`, `dispatch`, `complete`, all-or-nothing read | results go to the authority, which may replace the subscription |
| Authority loop (`trenchd/app.rs`, `execution.rs`) | source buffer, live subscription (scope, epoch, restart timer, observed L2), router (gap, boundary, deferred snapshot, book per market), inputs that wait for the recovery worker | one `select!` with arms for live output, flush, restart, capture, recovery, timers, shutdown | everything above; the only writer of the engine |
| Journal writer (`writer.rs`, `trench-storage/sqlite.rs`) | durable source batches, admitted events, engine state | `admit_apply_append`, `open`/replay | called by the authority |
| Readiness, administration | flags and the blockers derived from them | set by the authority, read on a socket | the operator |
| Evidence store and offline research (`trench-storage`) | files | append, publish, replay, compile, verify | offline commands |

`PROJECT.json` lists the same parts, with what is and is not modelled of each.

**What is hard here.** The broker keeps several clocks (book receipts,
observations, as-of times) and receives books, marks, funding and ticks in any
order. The breakers relate periods of the calendar to calls that come at any
time. Broker and ledger keep the same account twice, with roundings of their
own. In the live path four tasks run concurrently, facts are buffered while
control messages are not, generations are numbered again in each stream epoch
while the recovery queue lives on, and every answer may be about a gap that has
been superseded. Every memory is bounded: histories forget, channels fill,
caches are full. Crashes fall between the durable batch, the admission and the
append.

**What makes each part correct.**

- Broker: slots agree with the state; the causal boundary is monotone; every
  fill uses a later book of its own; grace and severity of an exit never weaken;
  one position is never added to and never declared closed unsold.
- Breakers: no loss escapes a budget, no budget refills within its period, the
  latch is final, the cooldown and the entry limit hold.
- Settlement: money is conserved, a position cannot cost more than its
  collateral and fees, broker and ledger hold the same position, and a trade is
  counted as what it did to free cash.
- Universe and arbitration: only a market that was ranked an hour ago and is fit
  now is entered, the best candidate after costs wins, and no approval outlives
  its arbitration.
- Candles: a candle is exactly its trades, once, and never over a gap.
- Features: a decision reads what was there at its boundary or learns that it is
  unavailable, and nothing that comes later changes it.
- Live path: no market executes while one of its gaps is open; a gap is closed
  by its own evidence only; books are executed in order; an ended epoch is
  started again.
- Recovery worker: every accepted request is answered in order, evidence is kept
  until then, final bars stay final, and no bounded channel makes authority and
  worker wait for each other.
- Capture: one in flight, every market of the rotation is reached.
- Journal: every journaled fact has its source evidence; nothing of the source is lost or
  admitted twice; the ledger in memory is what the journal says, what a restart rebuilds is
  what the journal ended with, and a daemon that
  stopped in order can be started again.

## 2. Modules

| Module | Models | Code it stands for |
|---|---|---|
| `Broker`, `BrokerProperties` | `PaperBroker` as the engine drives it; its properties and the refinement mapping | `broker/mod.rs`, the calls in `engine.rs` |
| `PositionLifecycle` | abstract specification: the life of one position | (the broker's promise) |
| `Breakers`, `BreakersProperties` | `BreakerState` inside `LedgerState`, with the engine's queue-before-check wiring | `risk/breakers.rs`, `ledger.rs`, `engine.rs` |
| `Settlement`, `SettlementProperties` | the money of one position in broker and ledger, and the engine between them | `broker/mod.rs`, `ledger.rs`, `engine.rs`, `risk/liquidation.rs` |
| `Universe` | the hourly selection and its activation, as operators | `universe.rs` |
| `Arbitration`, `ArbitrationProperties` | candidates, the approval cache and the choice of an entry, over `Universe` | `engine.rs`, `risk/sizing.rs`, `strategy/` |
| `Bars` | bars of two lengths and spans, shared by the next three | `candle.rs` |
| `Candles`, `CandlesProperties` | `CandleAggregator` | `candle.rs` |
| `Features`, `FeaturesProperties` | the feature engine and its handler, over an instance of `Candles` | `features/common.rs`, `app.rs` |
| `Recovery`, `RecoveryProperties` | the recovery worker and the authority's side of its channels | `app.rs`, `recovery.rs`, `recovery_producer.rs`, `ws.rs` |
| `Capture`, `CaptureProperties` | scheduler, capture worker and admission | `capture_scheduler.rs`, `capture.rs`, `app.rs` |
| `LiveFeed`, `LiveFeedProperties` | client, authority loop, router and recovery FIFO together | `ws.rs`, `app.rs`, `execution.rs`, `recovery.rs` |
| `Journal`, `JournalProperties` | source store, journal, crash, replay and the facts admitted after it | `app.rs`, `writer.rs`, `sqlite.rs`, `parquet.rs`, `execution.rs` |
| `DurableLedger` | abstract specification: an event-sourced ledger with its evidence | (the promise of the two stores) |
| `BrokerProofs`, `ArbitrationProofs`, `FeaturesProofs`, `RecoveryProofs`, `LiveFeedProofs`, `JournalProofs` | theorems about these modules | |
| `LedgerProofs` | theorems about `Breakers` and `Settlement` | |
| `MarketDataProofs` | theorems about `Candles` and `Capture` | |

Definitions named `...Variant` are deliberately wrong readings of the definition
behind them; no specification uses one. Each shows that a property can tell the
code from a plausible mistake in it.

### 2.1 Broker

Variables are the fields of `PaperBroker` (`NoExit`, quantity 0 and time -1
stand for `None`); `walk` is the taker walk of the last returned transition. Each
public method is an action (`QueueEntry`, `OnExecutableBook`, `ObserveMark`,
`RequestExit`, `ApplyFunding`, `AdvanceTime`, `EndOfData`);
`on_executable_book` splits by state into `ExecuteEntry`, `NormalWalk`,
`ExpiredWalk`, `MandatoryWalk` and `IdleBook`, the last three of which share
`ExecuteExit`. A rejected call returns an error and leaves nothing to observe,
because `Engine::apply` gives up the state it took, so only accepted calls are
steps.

Data: prices are replaced by what the code computes from them. A mark is one of
`liquidation`, `stop`, `target`, `neutral`; a walk fills any part of what it asks
for, which is a choice; whether the remaining position is liquidated, below the
backstop or past its collateral is a choice too. Quantity is its own notional;
bands are counted in 25 bps (2 is the normal band, 8 the cap). The recovery
proof that admits a stale book is left out: such a book is simply not
admissible.

`PositionLifecycle` is the abstract promise: idle, ordered, held, leaving,
forced, settled or stranded, and an exposure that only `Enter` raises. `Phase`
maps the broker's states to it.

### 2.2 Breakers

Variables are the fields of `BreakerState` with the equity and clock of
`LedgerState`. `position` is what broker and ledger together hold: the engine
queues an order for a flat ledger (`apply_entry_arbitration`), the broker fills
it, and only `LedgerState::open_position` asks `entry_allowed`, so a refusal is
an action of its own (`RefusePosition`) that ends the engine. Equity after a
transition is any member of `Equities`; a limit is compared in thousandths,
exactly, as the code does in decimals. The UTC calendar is kept (day start, week
start with the epoch's weekday) with short days and weeks. `dayEntries`,
`enteredFrom` and `lossAt` are history.

`Reconciles` states whether anything calls `LedgerState::reconcile`: with `TRUE`
the functions are checked as they are documented to be used; with `FALSE` as the
repository uses them, where only tests call it.

### 2.3 LiveFeed

`conn`, `retries`, `generation`, `pending`, `lastBook`, `out` are the local state
of `run_client` and its channel; `scope`, `active`, `epoch`, `restart`,
`observed`, `connected` are `LiveSubscription` and the readiness flag; `buffer`,
`boundary` and `failed` belong to the authority loop (the source batch, the
broker's causal boundary, the error that ended the daemon); `gap`,
`recoveredAt`, `deferred`, `books` are the router's recovery state;
`worker`, `requests`, `lastGeneration` are the FIFO worker. Each `select!` arm is
an action: `ReceiveBook`, `ReceiveGap`, `ReceiveRequest`, `ReceiveEnd`, `Flush`,
`RestartDue`, `CaptureAdmitted`, `Reconciled`, `Unavailable`, `WorkerFailed`.
`Admit` is `admit_market_event` for one book; `Committed` commits a batch book by
book, stopping at the first error as the loop does.

What is abstracted:

- Facts are book snapshots. Trades, mids and contexts reach the router as a clock
  advance, which a book of a fenced market is as well; trades appear through the
  identity limit that ends an epoch.
- Every receipt advances `now`, so a receipt time identifies a snapshot, as a
  snapshot's identity does in the code. A book is received 1 to `MaxLatency`
  after its event time.
- The client awaits room for each item. Here a group that belongs together (a
  book and its request; the gaps of one disconnect) enters at once, when it fits
  or the channel is empty. Only the authority reads the channel and it keeps its
  order, so the group cannot be overtaken.
- A capture's own facts are not committed one by one: after it, the broker's
  clock is unchanged or `now`.
- The channels to and from the worker are unbounded here; the candle evidence
  behind an answer is a choice between `Reconciled` and `Unavailable`. An answer
  comes at the next bar boundary at or after the snapshot's event time, once the
  clock reached it.
- A first connection opens no gap, as in the code, and a market is executable only
  after its first gap was recovered.

### 2.4 Journal

`source` (the Parquet events) and `journal` (the rows of the SQLite journal with the part of
their checkpoint a replay may miss) are durable. Everything else is lost by `Crash`:
`status` and `historical` of the process; the authority's `auth` (opening, broker clock,
and per market the gap, the recovery boundary, the deferred snapshot and the last book),
`rolling`, and its batch (`buffer` received, `unwritten` not yet in the store, `queue` not
yet journaled); the client's `generation`, `pending`, `last`, `asked`; and the worker's
`requests`. `fenced`, `plain`, `settled` and `lived` are history.

`Start` is `reconstruct_authority`: `Rebuilt` passes the rows through the router one by one (`Replay`), checks each
row's outcome, tries a second opening after a parity failure, and queues the facts the
journal does not hold. It either comes up or refuses with a reason, which is then the
`status`. `Flush`, `WritePartition` and `AdmitNext` are the three durable steps of a live
batch: `WritePartition` is one rename per kind and market, `AdmitNext` one transaction per
fact, and `Crash` may fall between any two. `Capture` publishes with one rename and shares
`AdmitNext`. `ReceiveRequest` and `Answer` journal directly, past the buffer.

`DurableLedger` is the promise without sockets, batches, fences or replays: `evidence`, the
identities of the stored facts, only grows; `log` gains one entry at a time, each once, behind
its evidence, at a clock that never turns back, a book later than the last one of its market;
`memory` is the ledger of the running process, none when there is no process, and otherwise
what the log says (`Ledger`: opening and clock of the last entry, the last book of every market
that no completed recovery took back). `Open` is the first start, `Resume` any later one, `End`
a crash or a failure. `JournalProperties` maps `source`, `journal` and the authority to it;
`Disconnect`, `Unavailable`, received facts and refused starts are stutters: what they change
is in no store and is not part of the ledger.

What is abstracted:

- A fact is its kind, market, event time and receipt time; as in the code, the receipt
  time is not part of its identity. Encodings, hashes, limits and the rows of runs are left
  out. The checkpoint digest is its two parts a replay can reconstruct differently: the
  opening of the ledger and the broker's clock.
- A gap is fenced in the step that emits it, and a request waits at most one step behind
  its book; `LiveFeed` models the channel between them.
- There is no position, so the exception for marks of an open position is left out.
- A funding that carries a mark price would go to the engine's `apply_funding` in a recovered
  market. No fact of the store is one: the captures, the only producers of fundings (`capture.rs`), make
  `Funding::historical`, which has no mark. The model therefore has none either; `Broker` and
  `Settlement` have the engine's side of it.
- A capture finds the buffer flushed, as the arm does before it admits.
- A recovery request is identified by market, generation and snapshot. A trade or a mark
  is never delivered again after a reconnect; a book is.

Every refused start and every failure the module names was reached in the bounds of the
run except two: `missing_source`, which `SourceBeforeJournal` rules out, and
`non_monotonic_book`, which the late rule does.

### 2.5 Settlement

`active` and `request` are `ActivePosition` and the exit in force of the broker;
`ledger` is `LedgerState` without its breakers; `failure` is the error that ended
the engine. `Enter` is `execute_entry` with `open_position` behind it,
`ObserveMark` is `observe_mark` and the exit request a strategy may add,
`ApplyFunding` is both `apply_funding`, `ExecuteExit` is a walk with
`settle_partial_exit` or the close, the ledger's `settle_exit` or
`settle_liquidated_exit`, and the backstop. One engine call is one step, since an
error in the middle of it gives the engine's state up (`Fail`).

All amounts are decimals of a fixed number of digits: integers in units of
1 / `Scale`, with quotients rounded half to even as `rust_decimal` rounds them.
The two sides divide where the code divides: the broker computes
`collateral * filled / before`, the ledger `collateral * (filled / before)`.
A walk takes any lots at one price, or the last of them one unit worse. There is
one maintenance tier and no recovery buffer.

### 2.6 Universe and Arbitration

`Universe` has no variables, as the selector has no state: `Select` is
`UniverseSelector::select` with its percentiles (half ranks), its weights and its
ties, `MayActivate` and `Activated` are `activate`. The thirteen reasons for which
a market is excluded are one answer (`fit`); a digest is the value it stands for.

In `Arbitration`, `snapshots`, `activation` and `signals` are what a caller of the
interfaces holds. The caller may select late in the hour, miss bars, activate
behind the activation it holds or behind none, and use an activation or a
candidate after its moment: what the interfaces refuse is not a step.
`approvals` is the cache of `RiskEngine`, `entry` what the broker works on.
`Arbitrate` is the whole of `apply_entry_arbitration`: candidates are quoted in the
order given (`Quotes`), each against the gate it fails or the cost it has, which are
inputs; expired approvals are dropped at each quote; what is accepted is ordered by
the edge left, the losers are discarded and the winner is consumed. Books and
policies are fresh, or the arbitration is refused and changes nothing.

In the repository `EngineRuleReplay::run` is the only caller of the arbitration and hands
over one candidate at a time; the daemon does not call the selector yet. The modules
check the interfaces for any caller that keeps to them.

### 2.7 Candles

Variables are the fields of `CandleAggregator`: `seen` and `finalized` (identities of
open hours and the bounded memory of closed ones), `pending`, `gaps`, `watermark`.
`Ingest`, `MarkGapUnavailable`, `CompleteThrough` and `CompleteMarketThrough` are its
methods; a refused call changes nothing and is not a step. Notionals and volumes are
counted, highs, lows, first and last are kept. `taken` and `emitted` are history.

### 2.8 Features

`seen_events` is the union of the bounded histories, `finalized_events` the bounded
memory of pruned identities, `available_from` the earliest receipt a point history
may lack, `aggregates` the trade windows by bucket and availability, `samples` the
boundary samples. The handler runs in the authority alone, so its calls are steps in
a fixed order (`handling`): `Observe`, then `Ingest` and `Complete` of the aggregator
(an instance of `Candles`, whose variables are this module's), then `IngestCandle` for
each candle returned, which `completed` holds as a set and `NextCandle` takes in their
order. The order of facts of one moment is that of their digests, a constant (`Digest`) of which
only that it tells identities apart is assumed. A refusal anywhere sets `fault`, and the features stay faulted.
`TradeWindow`, `LatestPoint`, `SampleAt` and `CandleTail` are what a decision reads.
The arithmetic of the features on top of them is left out.

### 2.9 Recovery

Two tasks. An arm of the authority's loop is one step that leaves the inputs it
produces in `handler`; `EnqueueRecoveryInput` offers them one by one, directly, into
the bounded queue of waiting inputs, or, when that is full, by fencing recovery for
good; `FlushRecoveryInputs` is the top of a loop turn. The worker receives one input
(`WorkerReceives` with `process_next`), fetches candles (`FetchAnswered`), and waits for
room to deliver (`WorkerDelivers`). Its evidence, last generations, candle state and
queue are fields of `worker`. A trade is its market and time; a bar's candle is the
set of its trades, so a comparison with the exchange's candle is equality of sets.
`VenueForgets` chooses between an exchange whose candles leave out the trade before
the gap, as the tests of the code assume, and one whose candles count it.

### 2.10 Capture

`markets`, `next`, `inFlight` are `CaptureScheduler`; `requests`, `worker`, `results`
the task with its two channels; `scope`, `registered`, `freshBooks` and the two flags
what `admit_capture_output` sets. The worker reads metadata and then the details of
the batch in any order, all or nothing. The venue delists, breaks and changes
volumes, requests fail, the worker's task ends, and the daemon restarts, each at any
moment and together `MaxFaults` times.

## 3. Runs

TLC with two workers; sizes are distinct states.

| Run | Checks | Result |
|---|---|---|
| `broker` | `MandatoryNeverDowngraded`, `EveryFillOnItsOwnLaterBook`, `GraceNeverRestarted`, `ImplementsLifecycle` | holds, 79,962 states |
| `breakers` | `LossesAreCounted`, `BudgetsNeverRefill`, `CooldownHonoured` | holds, 482,253 states |
| `settlement` | `MoneyIsConserved`, `CashIsIsolated`, `TradesAreJudgedByCash`, `BrokerAndLedgerAgree` | holds, 858,361 states |
| `arbitration` | `EntriesAreRankedAndFit`, `BestEdgeWins`, `ApprovalsEndWithTheArbitration` | holds, 260,185 states |
| `candles` | `CandlesAreTheirTrades`, `NoCandleOverAGap`, `ReturnedOnceAndForAll` | holds, 655,098 states |
| `features` | `FeaturesTypeOK`, `TradeWindowsAreExact`, `PointsAreLatestOrPruned`, `SamplesAreLatest`, `ForgottenStaysOut`, `LaterNeverChangesADecision` | holds, 1,165,135 states |
| `recovery` | `RecoveryTypeOK`, `AnswersFollowRequests`, `EvidenceIsKept`, `FinalBarsStayFinal`, `LoneRequestsAreAnswered` | holds, 837,533 states |
| `recovery_stall` | `EveryRequestIsAnswered` | violated, see 6 |
| `recovery_conflict` | `WholeEvidenceIsNoConflict` | violated, see 6 |
| `capture` | `SingleFlight`, `EveryMarketIsStored` | holds, 524,925 states |
| `live_feed` | `PendingGapsAreFenced`, `GapsCloseOnTheirOwnEvidence`, `ExecutionIsFencedAndOrdered`, `EpochsRestart` | holds, 1,940,593 states |
| `journal` | `SourceBeforeJournal`, `NothingLostOrTwice`, `ExecutedOnEvidence`, `RestoredIsLived`, `OrderlyStopsRestart`, `ImplementsDurableLedger` | holds, 3,588,045 states |

Invariants that are proved for every constant and are shallow on their own (types, slots,
clocks) have no run of their own; they are part of the inductive invariants of section 5.

**Bounds.**

- `MCBroker`: quantity 2 with minimum notional 2, so a fill can be nothing, dust or
  whole and an exit can leave a residual. Times 0..4 with a grace of 2 and a book
  age of 1: a trigger, a book within the grace, one after it and a stale book fit
  in one behaviour. Two as-of delays make receipt order and as-of order differ, two
  spreads start a mandatory exit at its lowest and highest band, two event ids
  order distinct marks of one instant. Deadlock is checked.
- `MCBreakers`: equities 0, 184, 197, 200, 204 of 200 put a loss exactly at each of
  1.5 %, 4 % (from 204) and 8 %, below and above it, and include zero. Two-day weeks
  with an epoch inside a week and times to 6 give three days and three weeks; two
  entries a day, two losses for a cooldown of 3. Time is bounded and a failed engine
  stops, so deadlock is not checked.
- `MCSettlement`: three lots, so that a position is closed in up to three fills whose
  shares of the collateral are no whole digits; prices 1600 and 2010 with leverage 5 put
  a loss at the collateral's edge, so that liquidation, backstop, cap and forfeit happen;
  a minimum notional of 2050 makes one lot dust. Two positions and one funding of five
  per cent either way. `Drift` is 4 digits a fill. Trades are bounded and an
  error ends the engine, so deadlock is not checked.
- `MCArbitration`: three markets of which two are tradeable, so that one is warm; bars of
  two ticks and times to 16 are two whole hours and the start of a third, so that an activation of an hour's first
  bar has an hour behind it. Three looks of a market (unfit, much traded, tight) let the
  ranks of two hours differ. Edges 3 and 6 with costs 2 and 4 make a cost that is exactly
  covered, one that is not, and ties; two approvals against three candidates fill
  the cache. Time is bounded, so deadlock is not checked.
- `MCCandles`: two interchangeable markets, three identities, times 0..2 with bars of 1 and
  2: both sleeves close, together and apart; one identity remembered of a closed hour, two
  pending trades and one span put every capacity in reach.
- `MCFeatures`: one market, two facts retained per kind or one, one forgotten identity
  remembered, one bar, one sample: everything is pruned within four facts. Times
  0, 1, 2, 4 and receipts 1, 2, 4 with bars of 2 and 4 and buckets of 1 place facts before and at
  both boundaries and between them. Receipts come in any order, as in a start that replays the store by
  event time (`app.rs`, `replay_producer`). Kinds trade, context, quote and completed candle; metadata, funding and
  book share their code paths. A fault stops the features, so deadlock is not checked.
- `MCRecovery`: two markets, all channels of one and the queue of two, so that every
  full-channel case occurs; one retained trade overflows with the second; times to
  2 are one hour; two requests, two epochs. Trades happen in one of the markets, as
  evidence is kept per market; the proofs have trades in all. The run has both safety and
  liveness. The stall run has one market, one trade and one epoch, the conflict run one
  market and one request; the exchange of both counts every trade in its candles.
  Time and requests are bounded, so deadlock is not checked.
- `MCCapture`: four markets, a scope of three and batches of two, so that a rotation has a
  batch that wraps around; channels of one, two faults of any kind. A closed capture is
  never opened again, so deadlock is not checked.
- `MCLiveFeed`: two markets, of which one has delayed books; scopes empty, one and
  both markets; one retry; buffer and channel of two; two epochs; times to 5 with bars
  of 2. These let a market execute two books, every failure reason occur, a request of
  the ended epoch meet a gap of the next one with the same generation, and the worker
  be fenced. `Delayed`, `MaxLatency`, `MaxTime`, `MaxEpoch` bound the environment.
  The daemon may end in an error and time is bounded, so deadlock is not checked.
- `MCJournal`: one market whose books and trades are the two partitions of a batch of two, so
  that a crash falls between the partitions and between the facts of one. Book latencies 1,
  2 and 4: fresh, stale, and a book of before the restart delivered again. Captures at 2, 3
  and 5 and funding at 0 make captures overlap and put a fact before the first start. Two
  gaps, three starts and times to 7 let a market recover, execute, restart, recover again and
  execute again, with a historical fact in the buffer. Time and starts are bounded and a start
  may be refused, so deadlock is not checked.

**Fairness.**

- `LiveFeed`: weak fairness of the arms that receive from the client (`ReceiveBook`,
  `ReceiveGap`, `ReceiveRequest`, `ReceiveEnd`) and of `RestartDue`. The `select!` of the
  loop is `biased`: an arm is taken when it is ready and no arm above it is. Above the
  client's channel stand only shutdown, status requests and capture results, none of which
  can stay ready (one capture is in flight, status requests are one per connection of an
  operator). Below it stands the restart timer, which is armed only while there is no
  stream, and then `receive_live` is pending for ever. So both kinds of arms are taken
  when they stay ready. No fairness is assumed of the arms further down, nor of the venue,
  the client, captures or the worker: `EpochsRestart` holds although they may do nothing.
- `Recovery`: weak fairness of the worker's steps, of the offers (a handler runs to its
  end) and of time; strong fairness of the lower arms (flush, commit, results,
  clock). The strong fairness is an assumption about the feed, not about the code: a live
  channel that is never empty starves the lower arms of a biased loop for ever, and then
  no request is answered. What the exchange and its feed do is not fair.
- `Capture`: weak fairness of the timer, of the worker (a request of the venue is answered
  or times out) and of the authority's reading of results, which stands above the
  live channel.

## 4. Properties worth an explanation

- `LossesAreCounted` has an exception at a period that starts with zero equity, whose
  limit is empty; the drawdown latch blocks there.
- `DayLimitBounded` (proved) allows **two** allowances per UTC day, not one: entries made
  after midnight and before the day's first reconciliation count against the old
  day and are forgotten by that reconciliation. The bound is tight.
- `BrokerAndLedgerAgree` bounds by how many digits the two collaterals may part, `Drift` per
  fill: the broker divides a product, the ledger multiplies a quotient, so
  equality would be false. The second part says the same of what capped losses were
  not charged.
- `CashIsIsolated` is about a fill, a mark, a funding and a liquidation alike: while a position is
  held, free cash and the fees paid from it together never fall.
- `EntriesAreRankedAndFit` names no activation: whoever held which activation for how
  long, the entered market must be fit in the snapshot of the current hour and ranked
  tradeable by a snapshot that is a bar to an hour old. In an hour's first bar that is
  the hour before, from the second on the hour itself.
- `BestEdgeWins` excepts an arbitration in which the cache was full (`crowded`): a
  candidate that clears every gate and finds no room is turned down whatever it is worth.
- `TradeWindowsAreExact` and `PointsAreLatestOrPruned` are stated over `accepted`, every fact
  ever admitted, which no bounded history of the engine holds: they say what was
  forgotten may be missed but never miscounted.
- `LaterNeverChangesADecision` compares each reading before and after a fact that was
  received after the decision. A window, a quote or a book stays what it was or becomes
  unavailable; an unavailable one stays so. So do a sample and a candle tail that could
  be read; one that could not may still become available, when a bar of that decision is
  closed or kept late.
- `ForgottenStaysOut` is what makes the bounded memory of identities safe: a fact that
  has been forgotten lies behind everything its full history still holds.
- `SingleFlight` counts what channels and worker carry: it is what the scheduler believes,
  and it is the batch its cursor stands on.
- `EveryMarketIsStored` is stated per market: from some moment on the scope is healthy and
  contains it. A scope in which one market lacks a candle has no such moment, see 6.
- `LoneRequestsAreAnswered` is restricted to markets with one request out at a time: the
  first answer of a market takes it off the recovery clock, so a second request may
  wait for ever. `EveryRequestIsAnswered` is the same without that premise, and fails, see 6.
- `AnswersFollowRequests` shows that nothing overtakes the refusal of a second epoch's first
  request, not that there is no refusal: there is one, see 6.
- `ExecutionIsFencedAndOrdered` rests on the late rule (`source_is_late`): a fact whose
  event time lies before the broker's clock is kept as evidence and not executed. Without
  it a book of a reconnect, sent again, reaches the order book behind a later one
  and ends the daemon.
- `GapsCloseOnTheirOwnEvidence` rests on the comparison of snapshot identities in
  `complete_recovery`: generations alone do not identify a gap, since they are
  numbered from one in each epoch.
- `OrderlyStopsRestart` rests on the second opening a replay tries: a first run that started
  behind facts already in the store opened its ledger at the earliest of them, a run that
  found none at its start, and the journal does not say which. Its hypothesis excludes a
  connection lost and a stale book retained, see 6 for why it must.
- `RestoredIsLived` compares the rebuilt authority with the one the last row was written by,
  which a crash separates by any number of undone steps. The gaps are not part of it: they are
  not durable.
- `ImplementsDurableLedger` compares the authority with the journal in every state, not only at
  a start: a change of the opening, the clock or a book that no row records (a completed
  recovery that leaves the market's book in place) is a step the abstract ledger does not have.
  Gaps, boundaries and deferred snapshots are not part of its ledger, since they are not
  durable.
- `ExecutedOnEvidence` is stated over the journal alone, so it relates rows written by
  different processes: a book executes only behind a recovery of the journal, whichever
  run admitted it.

## 5. Proofs

Each module of proofs assumes only the named assumptions of the modules it is about
(positive lengths and capacities, sets of numbers), so its theorems hold for every
number of markets, every capacity, length, rate and price.

- `BrokerProofs`: `TypeCorrect`, `SlotsCorrect`, `MemoryCorrect`, `BoundaryMonotone`,
  `MandatoryIrrevocable`, `FillsAreLater`, `GraceCountsOnce`, and `BrokerRefines`, that the
  broker implements `PositionLifecycle`. `IInv` is `TypeOK`, `SlotsMatchState` and
  `MemoryIsPast` together. None is inductive alone: that a walk ends in a state with its
  slot filled needs the types of both slots, that a trigger is past needs to know which
  slot is in force, and the fill order needs both. One lemma per action shows that
  it preserves `IInv`; the action properties and the refinement follow action by action.
- `LedgerProofs`, the breakers: `BreakersTypeCorrect`, `LossesCounted`, `DayLimit`, `BudgetsKept`,
  `LatchFinal`, `CooldownKept`. The limit of a day speaks of its history only;
  `DayAccount` relates that to the counter it is limited by, in the three cases of a day
  before, at or after the last reconciled one. `CooldownHonoured` speaks of the last loss;
  `CooldownAccount` says that the cooldown in force counts from it. `DayFacts` and
  `WeekFacts` are the integer arithmetic of the calendar.
- `LedgerProofs`, the money: `SettlementTypeCorrect`, `MoneyConserved`, `TradesJudged`,
  `PositionsAgree`, `CashIsolated`, `AccountsAgree`. `IInv` is the types, `SamePosition`, that a flat ledger
  has no collateral, and `Sound`: the two balances as equations over the ledger's totals.
  `SettledBalance` and `ExitBalance` carry the argument: whatever a quotient is
  rounded to, what is released, kept and spared adds up to what was there.
  `AccountsAgree` is the only theorem with a hypothesis of its own: that `Drift` covers the
  margins and fundings of the prices, rates and sizes (`DriftCovers`), for a bound of each
  that the theorem takes as a parameter. One rounded part differs from another by a digit;
  the ledger's part is multiplied by a fraction already rounded to a digit, which
  moves it by half the collateral's own value in digits of the fraction (`PartsApart`), so
  the collateral needs a bound of its own, by its margin and its fundings. A loss beyond
  the part brings the residuals no further apart (`ResidualsApart`), what a cap takes from
  their difference it adds to the losses spared (`CapSplits`), and the last fill of a
  position is not rounded: `AgreeInv` counts `Drift` a fill and the fills a position can have.
  For the run's constants the theorem needs a `Drift` of 9 digits; TLC finds that 4 are enough.
- `ArbitrationProofs`: `ArbitrationInvariant`, `ApprovalsEnd`, `EntriesRanked`, `BestEntryWins`. The
  invariant is where an activation came from (`Provenance`): one of an hour's first bar
  holds what is left of the ranks of the hour before, a later one the ranks of its own
  hour, for as long as it can still be used or built upon; so an activation that was
  skipped, repeated or made behind a foreign one cannot smuggle a market in. The rest is
  arithmetic of multiples of an hour and a bar. `BestEntryWins` is by induction over the
  quotes (`Compared`): each candidate that clears every gate finds an approval with its
  edge in the cache, unless a full cache turned such a candidate down.
- `MarketDataProofs`, the candles: `CandlesTyped`, `CandlesExact`, `CandlesAvoidGaps`, `CandlesRemember`,
  `CandlesFinal`. A bar with a trade is pending, and then its aggregate describes every
  trade ever accepted in it, or closed, and then nothing is accepted in it any more;
  identities are remembered exactly as long as their hour is open.
- `MarketDataProofs`, the captures: `CaptureTypeCorrect`, `CaptureIsSingleFlight`, `ScopesAgree`, `Rotation`.
  `SingleFlight` needs the scope it is taken from (`ScopeIsScheduled`) and that a worker
  which reports a capture has read its whole batch (`WorkerIsWhole`).
- `FeaturesProofs`: `FeaturesInvariant`, `FeaturesTyped`, `WindowsAreExact`, `PointsAreTheLatest`,
  `SamplesAreTheLatest`, `ForgottenIsRefused`, `DecisionsAreSettled`. Every memory is
  bounded, so what has to be invariant is what an absence means. A fact that is no longer held
  has left a full history of later facts behind (`Lost`): that is why it is not accepted
  again when its identity is forgotten, and why the latest of a full history is the latest of
  all. Of quotes and books the earliest receipt pruned is known as well (`PointInv`), so a
  decision behind it is told. A bucket of a trade window counts all its trades, and a trade
  that no bucket counts lies before all buckets of a full window, at or before the last bucket
  pruned (`Counts`): a decision whose window begins behind that bucket sees every trade.
  A boundary sample is the latest of the facts of its boundary, whether they come before it
  or after it (`SamplesOf`), and no two candles are of one bar (`ShelfInv`), so the contiguous
  ones a decision reads do not depend on those that come later. That a bucket
  lies before a decision exactly when its trades do is the arithmetic of `BucketOver`. The
  order of facts is a total one for every digest (`DigestAssumption`: equal digests are
  of equal identities); `LastExists` gives finite sets of them a last member.
  TLC checks this invariant on the run's instance as well.
- `RecoveryProofs`: `RecoveryTyped`, `AnswersInOrder`, `EvidenceKept`, `FinalBarsKept`. Two
  facts carry all of it. First, the module reduces the worker to four kinds of turn
  (it goes on waiting, fetches, fails, or answers the head of its queue: `Turn`) behind an
  input that only adds evidence (`Absorbs`), and `StepKinds` reduces every step of the module
  to eight kinds. Second, the inputs stand in three places one behind the other (handler,
  waiting inputs, channel), and `Sequenced` says that the requests in them and in the queue
  are in the order of their numbers and of their snapshots. On top of that, `Whole` says that
  the requests out form one row without a hole from the last answer to the last request,
  as long as recovery is not fenced; `Listened`, that a request has heard nothing
  before it waits and that all it needs of what it heard is kept; `Settled`, that every final
  bar lies behind its market's watermark, every span called unavailable is a gap of the
  candles, and no watermark is ahead of a request still to be answered. The last of these is
  what makes a watermark only rise, and it is where the order of the answers is needed for
  the bars to be final.

- `LiveFeedProofs`: `FeedInvariant`, `FeedTyped`, `PendingFenced`, `GapsClose`,
  `ExecutionFenced`. A gap and the request that closes it travel in one channel, so the
  invariant keeps the requests of a market apart by the gaps between them (`Spaced`), and says
  that a market with a request still to come is fenced once everything in front of it has been
  handled (`Unfenced` implies `Fenced`). A queued request never names a snapshot that
  is deferred behind a later fence, which is what an answer needs to close its own gap and no
  other. A batch is committed by a recursive function over its books, and what it keeps is proved by
  induction over them.
- `JournalProofs`: `JournalInvariant`, `SourceFirst`, `EachFactOnce`, `RestartContinues`,
  `BooksExecuteOnEvidence`, `OrderlyRestarts`, `JournalRefines`. Only the stores survive, so the invariant is about
  them: a fact has one identity, a row has its source, and a fact that is neither queued nor
  journaled is in no store yet (`StoreInv`, `QueueInv`). The books and boundaries of an
  authority are those of the last rows of their kinds (`IsBook`, `IsRecovered`), and each
  replayed row that passes its check makes the change it made when it was written
  (`Makes`), so a replay that ends has made the ledger lived (`Kept`), by
  induction over the rows. `OrderlyRestarts` adds `Orderly` and `Reproduced`: after
  a stop that left no step half done, every check of the replay passes. `JournalRefines` is the
  refinement of `DurableLedger`, one lemma per action (`AdmitNextRefines`, `AnswerRefines`,
  `StartRefines`, ...). It needs no further invariant: `MemorySaid` reads the ledger of the log
  off `IsBook`, and the same fact of the next state makes every appended row an `Admit` and
  every later start a `Resume`. That an executed book is later than the last one is derived, not read
  off the guard of `route_book`: a book is behind the clock it committed at
  (`BooksBehindClock`), and the next one is not behind that clock.

The induction over a list is one over the natural numbers, in the form the provers can use:
`SetInduction` says that a set of numbers with 0, and with n + 1 whenever it has n, has all of
them. It is derived from the well-foundedness of `<`. With it, a recursive function over the
prefixes of a list exists (`ReplaySteps`, `QuoteSteps`), and what one step keeps the list keeps.

Not proved: liveness and anything with `ENABLED`, which the provers cannot reach:
`EpochsRestart`, `LoneRequestsAreAnswered` and `EveryMarketIsStored` are model-checked only, and
the bounds of the runs apply to them. Every other property of a passing run is a theorem.

## 6. Disagreements between the code and its documents

**Checked.** `WholeEvidenceIsNoConflict`: the official candle of the bar that holds the last
trade before a gap counts that trade and what preceded it in the bar, the local evidence
begins behind it. With an exchange whose candles are whole, a request that
retained every trade is answered as a conflict (`recovery.rs`, `candles_match`).

`EveryRequestIsAnswered`: a gap without a predecessor is answered at once; while that answer
is on its way a second gap of the market opens and its request is queued. Admitting the first
answer takes the market off the recovery clock, so the worker is never told the time of the
boundary the second request waits for. On a feed without further trades of that market it
waits for ever, although `advance_time` is documented to prevent exactly that
(`recovery_producer.rs`:171, `app.rs`, `admit_recovery_output`).

**Reached in the state space of a module**, without a property of their own:

- `Broker`: a liquidation that leaves a residual restarts its request, and the equal
  severity keeps the one in force without its next band: liquidation retries never widen
  (`broker/mod.rs`, design:361).
- `Breakers` with `Reconciles = FALSE`: nothing outside tests reconciles the ledger, so six
  entries in a ledger's life block it for good (`ledger.rs`, design:277). Breakers are
  asked after the fill; the refusal is an error of the engine and not a blocked entry
  (`engine.rs`, design:283).
- `Settlement`: the broker's forfeit and the ledger's differ by a digit after a partial
  exit, and the ledger refuses the transition (`invalid forfeit`, `excess forfeit`),
  although both are meant to report the same quantity (comment in `settle_exit`); a loss
  that is capped for only one of the two ends the engine as well (`capped liquidation
  required`). A funding may leave the collateral negative, as a comment in `ledger.rs`
  allows, and the broker's partial exit then fails (`negative collateral`).
- `Arbitration`: candidates are quoted and offered to the strategy one after the other, not
  all before the first offer (`engine.rs`: "Every candidate is risk-quoted ... before any
  strategy receives its public cost quote"); with a full cache a later,
  better candidate is turned down.
- `Recovery`: the first request of a second epoch has a generation not above the last one
  and ends the worker; so does a second span of an hour that an answer made final. A
  slow fetch can fill the queue of waiting inputs, which fences recovery for good.
- `Capture`: one missing candle of one market rejects every batch that contains it,
  and the same batch is asked for again, so no market behind it is
  captured and entries stay blocked; the design has such a market quarantined
  (design:176). A changed scope starts the rotation from its beginning.
- `Features`: once the aggregator's memory of closed identities is full, a late trade cannot
  be told from a replay and faults the features for good; so does a fact behind a full
  history, and an official candle beside a different derived one of the same bar, which a
  capture that overlaps the stream brings.
- `LiveFeed`: a request overtakes its own buffered snapshot and advances the clock past its
  event time: the snapshot is late, a later book becomes the anchor and the reconciled
  answer ends the daemon (`app.rs`, comment in `execution.rs`). A new epoch executes books
  of a market recovered in an earlier one, although the facts in between were lost without
  a gap (`app.rs`, design:175). Buffered books of an ended epoch complete the readiness
  of the next (`app.rs`, comment at `observe_l2`).
- `Journal`: a gap clears the deferred snapshot in memory and is not journaled, so a later
  replay defers another book than the request names, and every later start is refused
  (`execution.rs`, evidence design:22). For the same reason a market fenced when the
  process ends is executable after the restart, up to its first new gap (`app.rs`,
  design:520). Other ways to a refused start: a retained stale book, which the live path keeps as
  evidence (`admit_market_event`) and the replay refuses; a gap lost in
  memory, whose replay gives another outcome (`parity`); a request journaled before its
  buffered snapshot (`missing_snapshot`); a second gap or an unavailable answer after a request
  (`snapshot_mismatch`); a crash between the rename of a capture and its admission,
  followed by facts behind the clock (`uncovered_source`); a crash with a recovery
  open (`incomplete_recovery`). Ends of a running daemon: a request with the identity of an
  earlier run's (`event_conflict`), a fact delivered again within a run (`conflicting_event`).

**Seen while reading**, without a model of it: only a pending entry marks the ledger
(`mark_to_book`), so drawdown of an open position is seen at its next funding or exit; no
caller produces an exit with the reason `Breaker`; the daemon tells its aggregator of no
gap and of no start inside a bar, so a candle it derives there covers a part of the bar only
(`app.rs`; "Exact 15-minute and hourly OHLCV bars", data-source-map:21).

## 7. Not modelled, and why

- Decimal arithmetic over book levels (`fill.rs`, `cost.rs`), the search for the largest
  safe notional and the lowest safe leverage (`sizing.rs`), the arithmetic of features
  and the scores of rules: functions of one input without a protocol; the models take
  their results as inputs.
- The thirteen exclusion reasons of the universe one by one, digests, wire formats.
- Validation and configuration: parsing and checking of artifacts and files, once, at a start.
- Archive import, the research pipeline and the command line: offline and sequential, on
  files that the modelled parts have written.
- Python worker, web site, deployment: not called by the daemon, or presentation.
- Of the stores: file formats, hashes, staging directories, quotas, and run and report tables.
- Of readiness: the blockers derived from the flags, and the status socket.

## 8. Plan

Done: broker with its abstract lifecycle, breakers, settlement, universe and arbitration,
candles, features, recovery, capture, live feed, journal with its abstract ledger; proofs of every property the
runs check but liveness.

Left, in order of importance:

1. An abstract recovery service that `Recovery` and the FIFO in `LiveFeed` both implement, so
   that the second may stand for the first.
2. Sizing and liquidation over several maintenance tiers, then validation and the research
   pipeline.
