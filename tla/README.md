# TaurusAgent: a TLA+ verification development

TaurusAgent is a paper-trading system for Indian equities. A daily *paper run*
imports bars, settles the orders that earlier runs queued, asks a chain of LLM
agents about each symbol, distributes the budget over their proposals, reviews
and finalises each proposal, and routes the approved decisions to a *paper
broker*. A *position monitor* does a shorter version of the same chain during
market hours for open positions whose stop-loss or take-profit is crossed.
Beside them commands import market data, fundamentals, compliance lists and a
graph of companies, edit portfolio profiles, and backtest strategies. All state
is in one PostgreSQL database; every step opens a session of its own and
commits at its end.

The development models three layers:

1. where money and shares change hands: the broker, the rows that runs leave
   behind, the daily run and the monitor;
2. who decides what is traded: research and trader, core basket, rebalance
   plan, allocation, risk review, final approval, and the backtest a strategy
   is judged by;
3. what the decisions rest on: market and official data, scores, fundamentals,
   the compliance list, the market graph, the corpus of a profile.

TLC checks small instances of each. TLAPS proves, for all values of the
constants, every invariant and action property that a passing run checks; only
liveness is left to TLC.

Source paths below are relative to `src/packages/taurus_core/`.

## 1. Inventory of the system

| Part | State it keeps | Operations | Talks to | What is hard | What makes it correct | Modelled |
|---|---|---|---|---|---|---|
| Paper broker: `brokers/paper_broker.py`, `execution/` | order, fill, account and position rows | `place_order`, `settle_pending_next_open_orders`, `cancel_order` | execution store | rebuilds its account from fills, plans, commits later; partial fills; missed bars; rounding | order and fill rows agree; a queued order fills once, at the first later open; no SELL beyond the holding; no overdraft | yes |
| Execution store: `db/repositories.py` | the same rows, and those of the parts below | replace an order's execution, replace an account's rows, delete what a run holds of a symbol | everyone | deletion must spare settled fills; "the portfolio" is the account row with the latest `updated_at` | fills survive; the latest account shows all fills; its positions are the holdings | partly |
| Paper run service: `paper_trading/service.py` | the run row; in memory the succeeded and failed symbols | `run_once`, scheduler | broker, agents, store | twenty transactions per symbol, any of them may fail, the process may die | the outcome accounts for every symbol; settlement precedes analysis; runs end | partly |
| Position monitor: `position_monitor/service.py` | run rows and market-hours proposals | `run_once`, `run` | broker, trader, review, portfolio manager | a stored proposal is also the memory that prevents a second sale | one action per crossing; every crossing decided; iterations end | yes |
| Paper loop, schedulers: `scripts/run_paper_loop.py` | symbols and provider of the process | start, daily import and run | import, run service | what was read at the start grows old | bars of a run are final | partly |
| Order router: `execution/order_router.py` | none | choose the latest approved decision, pick the policy of its run | broker | which decision is the latest | only routable decisions, once | partly |
| Run allocation: `portfolio/run_allocation.py`, `active_allocation.py` | the allocation ledger | size BUYs one after the other, fund them, route | run, broker | each BUY is sized on what the others left; shares become a percentage and shares again | budget, caps and funding are kept; what is routed is what was allocated | yes |
| Portfolio planning: `portfolio/rebalance_plan.py`, `core_shariah_basket.py`, `money_management.py` | plan rows; the month of the last core rebalance | review the basket, derive trades, forecast proceeds, lend capacity | allocation | pouring with caps, lending, thresholds | sleeve poured out within caps; capacity is moved, not made | yes |
| Risk: `risk/engine.py`, `graph_concentration.py`, `review_service.py` | review rows | hard rules, graph concentration, review | run, monitor | exposures from a portfolio that is changing | approved BUYs fit every limit; exits pass | yes |
| Agents and debate: `agents/`, `research/` | reports, debates, proposals, decisions | one `run` each | LLM providers, store | model answers adjust rule scores step by step | the model stays within what rules and position allow | yes |
| LLM providers: `llm/` | usage rows | one call, no retry | agents | which exceptions a caller survives | a refusal is never an answer | yes |
| Backtesting: `backtesting/` | in memory; one report | daily loop, graph signals as of a day | strategies, graph | look-ahead; cash before it is there | selection ignores the day it trades on; report adds up | yes |
| Strategies: `strategies/` | none | score, rank, targets | run, backtest | ties, missing features | ranking follows scores | partly |
| Technical signal, features: `features/` | feature rows | features a history allows, families, blend | strategies, analysts | directions, ranks, missing families | better never scores lower | partly |
| Market data: `data/` | candles, instruments, official rows | import, merge, as-of query | run, signal | half-traded days, corrections, files out of order | bars before today are final; a score sees nothing of its day | partly |
| Fundamentals, compliance, news: `fundamentals/`, `compliance/`, `intelligence/` | scores, compliance rows, universe file | import, resolve, score, sync | loop, analysts | names that contain each other; file before commit | a listed company is scored from its own row; the file is halal on some page | partly |
| Market graph: `graph/` | edge and statistics rows, Neo4j projection | import, statistics job, promotion, review | risk, strategies, backtest | re-import after review; a job over an old read | inferred edges need a promotion; past signals stand | partly |
| Profiles: `profiles/` | profile rows | create, archive, reactivate, edit corpus | everyone | corpus must be frozen once there are trades | all rows rest on one corpus | yes |
| Replay: `replay/` | none | rebuild a decision's stages | store | missing rows | all stages found | no |
| Backup and progress: `ops/` | dump files, console state | backup, restore, render | database | interrupted restore | restore equals backup | no |
| Alerts, observability: `alerts/`, `observability/` | audit rows, counters | send, count | everyone | must not fail the caller | errors are contained | no |
| API, dashboard, web: `src/apps/` | none | HTTP views; graph review and profile edits | store | none of its own | views show the rows | only the two edits |
| Configuration, schema: `config.py`, `db/models.py`, migrations | settings, tables | load, migrate | everyone | order of migrations | schema at head | as state of the others |
| Experiments: `src/experiments/`, scripts | report files | offline studies | data | none of the core's | reproducible | no |

How the core parts interact:

- The daily run calls the broker twice: `settle_pending_next_open_orders` at
  its beginning, under its own `run_id`, and `place_order` at its end.
- The broker never trusts a stored balance: it replays the fill rows of the
  portfolio each time, and writes one account row and the position rows of the
  run it works for. Everyone else reads the account row with the latest
  `updated_at` and the position rows of the run that owns it.
- Each artefact that the analysis stores for a run and a symbol (reports,
  debate, proposal, review, decision) first calls
  `_delete_paper_artifacts_for_run_symbol`, which deletes orders, fills,
  position and account rows of that run and symbol, sparing what the run has
  settled. This is the place where a mistake loses trades.
- The traders' proposals, the basket's targets and threshold rules become the
  trades of one plan; the allocation sizes its BUYs one after the other; the
  risk review can only lower or refuse; the portfolio manager turns the share
  it is left with into shares of stock again; routing sells first.
- The monitor is another process on the same tables, and so are the operators'
  commands on profiles and on the graph.

## 2. Modules

| Module | What it holds |
|---|---|
| `FillCosts` | slippage, costs, the two-part fill plan and the affordability search, as operators on integers |
| `PaperBroker`, `PaperBrokerProperties`, `MCPaperBroker` | the broker as concurrent database sessions; its properties and instances |
| `PaperBrokerProofs` | theorems about the broker's rows, and about the account its fills add up to |
| `PortfolioLedger` | the abstract ledger the broker implements |
| `RunArtifacts` | the rows of all runs, the clean-up, and the broker reduced to what it does to these rows |
| `PaperRun`, `PaperRunProperties`, `PaperRunProofs` | `run_once` on top of `RunArtifacts` |
| `PositionMonitor`, `PositionMonitorProperties`, `PositionMonitorProofs` | the monitor on top of `RunArtifacts`; theorems about it and about `MCLoops` |
| `MCLoops` | composes both loops over the rows of `RunArtifacts`, for their types and their liveness |
| `Decimals` | rounding to a step, half to even, sums and products |
| `NumberFacts` | lemmas the proofs share: recursion over finite sets and numbers, sums, extremes, rounding |
| `PositionSizing` | how many shares one BUY may take |
| `RebalancePlan` | candidates, trades, proceeds, sleeves and lending of a plan |
| `RunAllocation`, `RunAllocationProperties`, `RunAllocationProofs`, `MCRunAllocation` | a run from proposals to queued orders; theorems about it |
| `CoreBasket`, `CoreBasketProperties` | the review of the core basket |
| `RiskApproval`, `RiskApprovalProperties` | hard rules, graph concentration, review, final quantity |
| `LanguageModel`, `Research` | one call of a provider; analysts, debate and trader of one symbol |
| `Strategies`, `Backtest`, `BacktestProperties`, `BacktestProofs` | scores and rankings; the backtest engine |
| `MCDecisions` | composes those who decide |
| `DecisionsProofs` | theorems about the debate, the trader, the review and the approval, the core basket, and all who decide side by side |
| `ShariahUniverse`, `MarketData` | compliance sync and universe file; the loop's imports on top |
| `Fundamentals` | the Screener import and its scores |
| `TechnicalSignal`, `OfficialData`, `OfficialDataProperties`, `MCOfficialData` | the technical score; official data and what they add to it |
| `MarketGraph` | edges, statistics, promotion, signals of a past day |
| `Profiles` | profiles beside the broker's transactions |
| `MCStores` | composes the stores |
| `StoresProofs` | theorems about the graph, the universe file, the imported bars, the fundamentals, the official data, the technical score and the profiles, and all stores side by side |


### PaperBroker and FillCosts

A *session* is one call of the broker. `BeginPlace`, `BeginSettle` and
`BeginCancel` read (all rows at once; the reads of a call are a few
statements); `PlaceRejected`, `PlaceQueued`, `PlaceFilled`, `CommitSettle` and
`CommitCancel` are its commits; in between `SettleWaits` and `SettleOrder` work
off the queue one order at a time, oldest first. `Abort` is a failure or crash,
which rolls back. `ImportBar` is the data import. Row locks are those READ
COMMITTED gives: a row that a session has deleted or updated is not available
to another session until the first one ends, but what was read before may have
changed. `session[a].state` is `_AccountState`, rebuilt by `Replay`
(`_rebuild_state_from_fills`), and `draft` the rows flushed and not committed.
`PortfolioLedger` is the abstract promise: decisions are promised, executed at
most once, and never change afterwards.

Money is in integer units; `RoundHalfUp` is `_money`. Prices, rates and the
30/70 split are constants. The quantity of a REDUCE is any part of the holding:
it depends on a target share of NAV, which is the subject of `RiskApproval`.

Times are seconds. The code reads the clock (`ReadClock`) once for the orders of
a route, once for an iteration of the monitor and once for a settlement, and
counts from there: `BeginRoute` fixes that time, the k-th symbol of a daily run
is stamped k seconds later (`Numbers`; a symbol that is skipped uses up its
number), the orders of an iteration carry its beginning, a settlement stamps its
k-th fill k seconds after its own time, and the two fills of a split order are
one and two seconds after its order. So stamps overlap within a route and may
lie ahead of the clock. `StampsHavePassed` says that they do not when the next
time is read; nothing in the code makes sure of it, so it is a named condition
of the run `broker_one_process` and of five theorems; section 4 says what happens
without it.

### RunArtifacts, PaperRun, PositionMonitor

Here quantities are abstracted. A filled BUY adds to the holding of its symbol;
a filled SELL takes a part or all (`closes`, a choice); an account row is known
by the set of decisions whose fills its cash accounts for (`book`). What
remains exact is which rows exist, who owns them, and when they were written.
`CleanUp` is `_delete_paper_artifacts_for_run_symbol` followed by the deletion
of the decision with its order, `Protected` its rule about settled orders,
`StoreAccount` is `replace_account_state`, `LatestAccount` is
`latest_account_by_portfolio`.

`PaperRun` has one action per transaction of `run_once`. The stages are those
of the function: import (`LoadLatestInputs`), settlement (`SettlePending`),
symbol scope (`SelectSymbols`), analysis symbol by symbol (`StoreDebate`,
`StoreProposal`), plan and allocation (`Allocate`), finalisation symbol by
symbol (`StoreReview`, `StoreDecision`), routing (`Route`), end (`Complete`).
Failures are those the code distinguishes: errors of the set-up end the run
(`SetupFails`), ordinary errors of a symbol are recorded and the next symbol is
taken (`SymbolFails`, `RouteFails`), database errors end the run
(`SymbolAborts`), an error of the allocation fails every symbol that was to be
finalised (`AllocationFails`, `AllocationAborts`). `Crash` is the death of the
process at any point; the next `BeginRun` is a new run with a new id. What
agents, strategies, planner and allocation compute is here a choice among what
the code allows: `AllowedActions` permits SELL only for a symbol that has a
visible position; the plan may add a BUY of any symbol and a SELL of any
visible position; any subset of the symbols may be funded.

`PositionMonitor` takes the visible positions at the beginning of an iteration
(`BeginIteration`) and per symbol passes it over (`SkipSymbol`) or detects a
crossing that is no duplicate (`DetectTrigger`) and carries it through
`StoreProposal`, `StoreReview`, `StoreDecision` and `Route`. Thresholds are
fixed within a session: they derive from the average cost, which sales do not
change. Orders carry the time at which the iteration began, as in the code.

Simplifications to keep in mind: several clean-ups in one transaction are
computed from the state at its beginning; runs do not overlap with each other
or with the monitor; the code routes sales before purchases, `PaperRun` in any
order (`RunAllocation` keeps the order); a symbol whose order is stored but
whose account cannot be read afterwards is both succeeded and failed, as in the
code; the success of a symbol's analysis is recorded when it is finalised,
because the symbols to finalise are all the symbols analysed.

### RebalancePlan, PositionSizing, RunAllocation

`RebalancePlan` is a set of operators over the input of a run: the candidates
of the traders, of the basket and of the threshold rules, at most one trade
each; the proceeds that planned SELLs will free; what each sleeve may hold
after soft borrowing. `PositionSizing` sizes one BUY: its score with the peer
penalty, the governors, and a list of rooms (cash above the buffer, stock, sector
and cluster caps, sleeve, open positions, risk), of which the smallest binds.
`RunAllocation` runs them: `PlanSells`, `Lifecycle` (proposals that are no BUY
keep what they ask for), `OrderBuys`, then `AllocateBuy` for one BUY after the
other, each on the simulated positions, sleeves and cash that the BUYs before it
left, and `Route` for one decision after the other, sales first, with the cash
of `pending_affordability_cash`. The three modes are the three allocators of
`run_allocation.py`: the plan, the money-management policy without a plan, and
the fallback of the settings. The target is stored as a share of the NAV with
few digits (`StoredTarget`) and turned into shares again by the portfolio
manager (`ManagerQuantity`).

Particulars of the code that the model keeps: the room of a group and the total
trade risk leave the symbol's own holding out; the drawdown of a sleeve is zero
in paper runs; a trader's BUY and a core SELL of one symbol make two trades, of
which the BUY decides what is routed while the proceeds of the SELL are
counted; a REDUCE of no whole share counts its notional.

### CoreBasket

`BeginReview` takes the candidates that can be scored, the best `preferredMax`
of them; `PourRound` is one round of `_inverse_vol_nav_weights`;
`CapSectors` and `CapClusters` scale groups down, the clusters being the
connected components of the active company edges (`ConnectedComponent`);
`DropTinyTargets` and `DecideTrades` end the review. The gate finds the month of
the last review that let trades through in the artifacts of the runs
(`PassedThisMonth`), whatever became of those trades.

### RiskApproval

One run of the risk review and the final approval over all symbols.
`StartApproval` fixes the proposals and the shares seen by the agents;
`ReviewRisk` reviews one symbol, `DecideFinally` decides one, `ExecuteDecisions`
fills what was approved, and `MonitorSells` may sell a position out at any
moment in between, so that cash and exposures move under the reviews (equity
does not: a sale is at the price the portfolio is valued at). The limit of a
correlated cluster is checked only for a symbol that has correlated companies,
as in `_graph_concentration_rules`. `LossSeen`
is zero because no caller of the engine passes a daily loss, although
docs/TAURUS_RISK_REVIEW_ENGINE_DEEP_DIVE.md:507 lists the rule. The personas of
the committee only comment; a rule in state "warn" has no effect.

### LanguageModel and Research

`LanguageModel` is one call of a provider: no answer, a broken connection, a
text in the content, in the reasoning or nowhere, JSON or not, a draft that
fits the schema or not. `Outcome` says what the caller sees: an answer, a
refusal (`LLMProviderError`), or an exception of another class, which the trader
and the portfolio manager do not catch. `Research` is the chain for one symbol:
analysts in the order of the roster, bull, bear, manager (`Guarded` limits how
far an answer moves a rule score), trader (`RuleDecision`, `Acceptable`,
`ClampedTarget`) and explanation. Any reply of a small set may come at any call.

### Strategies and Backtest

`Strategies` has the crossover and the graph-aware score with rankings and
targets; `Backtest` has one action per trading day (`TradeDay`: targets from the
history up to the day before and the signals of the day, sells before buys, fills
at the open, marks at the close), `Report`, and the ways a backtest ends without
one (`FailBacktest`). `DayTargets` and `DayTrades` are functions of a table of
candles, so that a property can compare what two tables would have chosen and
traded. The equity that sizes the purchases of a day is marked at the closes of
that day, as in the engine (section 4).

### ShariahUniverse and MarketData

`FetchPage`, `RefuseSync`, `PublishUniverse` (the file is renamed into place
while the transaction is open), `CommitSync`, `SyncDies`. `basis` is a history
variable: the lines the published file rests on. `MarketData` adds the trading
day, the paper loop that keeps the symbols it started with, and `Import`, whose
transaction any failing symbol undoes; the bar of the day under way is "partial"
until an import of a later day overwrites it.

### Fundamentals, TechnicalSignal, OfficialData

`Fundamentals` is the Screener import: names are resolved to instruments
(`Resolve`), a file replaces what an earlier import with its id stored
(`StoredRows`), scores are the clamped and rounded scales of `scoring.py`.
`TechnicalSignal` is the score of `score_ohlcv_v2` and `score_official_v2b` on
readings of features: which features a history allows, direction, rank in the
universe, family scores, confidence, guardrail, blend. `OfficialData` has the
imports (`ImportIndices`, `ImportMicrostructure`, `RefuseFile`) with their merge,
the as-of queries, and the score a reader computes from them; `told` is a
history field that remembers for each value which file it came from.

### MarketGraph and Profiles

`MarketGraph` has the import of each kind of edge file, reviews by an operator,
and the statistics job as one database session: it lists the edges, measures one
after the other on its own snapshot (`MeasureEdge`) and commits at the end
(`CommitStats`) or not at all (`AbortStats`). `PastScore` is what a backtest
reads for a past day. `Profiles` has the profile commands, each edit of the
corpus in the two steps of its check and its commit, beside the transactions of
the broker; `Overlap` says whether an edit and an order may overlap.

`MCLoops`, `MCDecisions` and `MCStores` compose modules that share no rows into
one instance each: a behaviour is one of them at work (`loop`, `part`, `store`).

## 3. Runs

| Run | Instance | Shows |
|---|---|---|
| `broker_one_process` | one process, two symbols, 3 days, a run that buys, a run that sells and an iteration of the monitor, up to 20 s, stamps passed; scenario "sales": BUY of 3, EXIT and REDUCE, both policies, cancel; scenario "purchases": two BUYs and an EXIT, next-open, promised cash 150 of a corpus of 100; scenario "route": all four at once, overlapping stamps, up to 10 s | `OrderFillsAgree`, `NextOpenFillAtFirstOpen`, `SellsCovered`, `LatestAccountCurrent`, `QueuedOrdersKeepCash`, `FillsAreFinal`, `LeavesQueueOnce`, and the broker implements `PortfolioLedger` |
| `broker_oversell` | 2 processes, BUY, EXIT, REDUCE, stamps passed | **violation** of `SellsCovered` |
| `broker_overspend` | one immediate BUY, corpus of 60 | **violation** of `CashFloor` |
| `run_safe` | 2 symbols up to symmetry, 3 runs, the first two after close | `LedgerIsAppendOnly`, `LatestAccountShowsAllFills`, `NothingRipeAfterSettlement`, `VisiblePositionsAreHeld`, `OutcomeAccountsForAll`, `ExecutedOrReported` |
| `run_positions` | 2 symbols up to symmetry, 3 runs | **violation** of `PositionAwareAnalysis` |
| `loops` | 2 symbols; the monitor with 2 iterations over 2 market sessions and restarts, or 2 daily runs; fair | `OneActionPerCrossing`, `CompletedMeansDecided`, `LatestAccountShowsAllFills`; `IterationEnds`, `RunEnds` |
| `monitor_duplicates` | 2 symbols, 2 iterations, 1 session | **violation** of `DuplicatesWereDecided` |
| `decisions` | `MCRunAllocation`: 3 stocks, 4 sleeves, 3 modes; `CoreBasket`: 4 stocks, 2 reviews; `RiskApproval`: 3 symbols, 3 graph categories, 1 run on portfolios already held; `Research`: 3 analysts, one of each kind; `Backtest`: 3 symbols, 8 days | `PlanIsFunded`, `EntryCapsKept`, `ExecutionFollowsAllocation`, `BasketKeepsItsShape`, `ApprovalsFollowLimits`, `ModelStaysWithinRules`, `TargetsAndReportStand` |
| `plan_proceeds` | the instance of `MCRunAllocation`, plan only | **violation** of `FreedCashIsBacked` |
| `stores` | compliance: 2 sources, 4 identities, 2 syncs, 3 days, 2 imports; fundamentals: 3 instruments, 4 files; official data: 3 securities, 4 days, 3 imports; graph: 2 edges, 4 days; profiles: 2 profiles, 3 orders | `SymbolsAreHalalOnAPage`, `ImportedBarsAreFinal`, `ListedCompanySpeaksForItself`, `StrongerNeverScoresLower`, `OfficialScoreIgnoresToday`, `BetterNeverScoresLower`, `InferredNeedsPromotion`, `TradingRestsOnCorpus`, `PastSignalsStand` |
| `official_as_of` | the instance of `MCOfficialData` | **violation** of `AsOfSeesOnlyPublished` |
| `corpus_race` | one profile, one edit, two orders, `Overlap` | **violation** of `CorpusChangesPrecedeTrading` |

Bounds. `MaxTime` and `Pauses` bound the readings of the clock, and with them the
routes and settlements: 20 seconds with pauses of 2 and 5 are enough for a BUY
to be queued, settled, sold by the run and by the monitor and cancelled in every
order, and for a settlement that is repeated after a failure; `RouteLength` = 2
lets a symbol be skipped or two orders of a route overlap. The scenarios restrict
the same `Next`, so that each is small. Three days give a
signal bar, the first bar after it and a later one, the case a missed run
creates. A BUY of 3 exceeds `PartialFillThreshold` = 2, so that it splits, and a
reduced BUY of 2 does not: the boundary where `broker_overspend` lives.
`MaxRuns` bounds runs: one run buys, the next settles and queues, the third
settles on top of a holding and executes at once; older account and position
rows exist from the second run on. Two symbols are what the clean-up needs: one
that the run settled and one that it did not. Symmetry over symbols is used in
`run_safe` and `run_positions` only, where nothing distinguishes symbols.

In `decisions` the three stocks are the least with two in one sector, two in one
cluster, one in the core universe and one in a borrowing sleeve; the holdings
and the two amounts of cash make each room bind at some time. Four stocks of the
basket let a cap bind while others still take weight, and a cluster cut across
sectors through a stock that need not be chosen. One run of the risk review
(`MaxRiskRuns` = 1) suffices, because its portfolios already hold positions. Replies of the model include scores out of
bounds, actions out of the schema and targets on either side of the holding.
Eight days of candles leave several rebalances after the warm-up of the two
averages. In `stores` three imports (four Screener files) are the least with a
correction and a correction of it; three days are a day of a half-traded bar, the
day that makes it final and a day whose lookback no longer reaches it.

Deadlock is not checked because every instance stops at its bound.

Fairness. Only `loops` states fairness: weak fairness of the step of the run or
iteration in progress. `run_once` is one thread of control whose calls return or
raise, so that some step stays enabled until it is taken, and `Crash`, which is
not fair, ends the run too. No fairness is assumed of beginning runs, of imports
or of the passing of days and sessions.

## 4. What the violations show

- `broker_overspend`: the search for an affordable quantity scales the cost of
  the original two-part plan (part at the open, part at the close). The
  quantity found is planned again, may now be below the split threshold, and is
  filled whole at the open. When the open is above the close this costs more
  than there is (`brokers/paper_broker.py:265`).
- `broker_oversell`: a settlement and a placement of two processes both cap
  their SELL by the holdings they rebuilt when they began
  (`brokers/paper_broker.py:828`), and the replay credits both.
- `run_positions`: settlement writes account and position rows under the run;
  then storing the debate of a symbol that the run did not settle deletes the
  run's position row of that symbol, while the run's account row stays the
  latest because of another symbol's fills (`db/repositories.py:2949`). The
  trader finds no position, and EXIT and REDUCE are not among its actions. A
  monitor iteration loses positions the same way.
- `monitor_duplicates`: the stored proposal marks a crossing as dealt with
  before it has been reviewed and decided (`position_monitor/service.py:532`);
  after a failure or crash in between nothing is done about it that session.
- `plan_proceeds`: what a queued REDUCE frees for BUYs is scaled from the
  planned notional, which is not a whole number of shares; the broker sells up
  to one share more than the plan, and with one planned share of nearly two the
  freed amount exceeds the haircut share of the sale
  (`paper_trading/service.py:2975`).
- `official_as_of`: an official row is one per security, day and source; the
  file imported last sets the time for values of earlier files, so that a value
  becomes visible before it was published (`db/repositories.py:394`).
- `corpus_race`: the edit of a corpus checks for trades and commits later,
  without a lock; an order committed in between rests on the old corpus and
  its account row is overwritten (`db/repositories.py:1587`).

Stamps ahead of the clock, the reason for `StampsHavePassed`: every rebuild
replays the fills in the order of `filled_at` (`brokers/paper_broker.py:967`),
which a route counts up from the time it began (`paper_trading/service.py:1480`).
A BUY that is the second of its route is stored with fills at 3 and 4 seconds; an
iteration of the monitor that begins one second after the route sells from it at
2 seconds. The sale is correct when it is made, and ignored by every later
rebuild, because it comes before the shares it sold: cash and shares are those
of a portfolio that never sold. It takes no second process, but an iteration that
begins within about as many seconds of a route as the route has symbols. TLC
reports it as a violation of `SellsCovered` on the instance of
`PaperBroker_oversell.cfg` with `Actors = {"loop"}`, `Patient = FALSE`,
`Pauses = {1}` (and `RouteLength = 2` for the numbers above).

Look-ahead in sizing, without a claim of the repository that it contradicts: the
backtest fills at the open of a day and sizes by an equity marked at the closes
of the same day (`backtesting/engine.py:297`), so that the number of shares of a
trade depends on prices that come after it. `TargetsAndReportStand` states what
does hold: the choice of stocks ignores the day altogether, and of its closes
the sizes see those of the stocks held and no others.

Departures met while modelling, without a checked property: no caller passes
the daily loss (`risk/engine.py:50`); a graph review committed while the
statistics job runs is overwritten by the job's older reading (`graph/stats.py`,
`ReviewsDuringJob` = FALSE in `stores`); the blended score raises TypeError in a
backtest (`strategies/blended_score.py:50`, docs/TAURUS_USAGE_GUIDE.md:38-39);
a broken connection to a model fails the symbol instead of falling back to the rules
(`agents/trader_agent.py:619`, docs/TAURUS_TRADER_AGENT_DEEP_DIVE.md:467-468);
family weights that are all zero divide by zero (`technical_signal.py:1734`); a
period return counts rows, not days (`official_context.py:311`); a small profit
scores below a loss in `_eps_score`; a REDUCE of a share of one step proposes a
target of zero, which the risk engine turns down (the holdings of `decisions`
are of two steps or more); a policy whose hard reserve exceeds its cash buffer
would break `FundingComplete`.

## 5. Proofs

Every theorem is for all values of the constants that satisfy the assumptions
of the modules (prices and rates are natural numbers, sets of symbols are
finite, and the like) and those named here. Where a theorem states a property of
a run, the run shows it on a small instance and finds it violated in a mutant.

### The broker (`PaperBrokerProofs`)

Assumption `NoRacingCancel`: `"cancel"` is not among the operations, or there is
one process (`cancel_order` has no caller in the repository, and a cancellation
racing a settlement would break the agreement of rows).

- `TypeCorrect`: `Spec => []TypeOK`
- `RowsAgree`: `Spec => []OrderFillsAgree`
- `FirstOpen`: `Spec => []NextOpenFillAtFirstOpen`

The inductive invariant adds to the types that the days imported have a latest
one (`HasLatestDay`), that rows match as the two properties say (`RowsMatch`),
and that the same holds of every draft a settlement has written and not
committed (`DraftsMatch`), without which the commit step would have nothing to
start from. Lemmas about `FillCosts` (a rounded, slipped price is natural, a
plan has one or two positive parts that sum to the quantity) carry the
arithmetic. TLC checks them for one process; the theorems say that no
interleaving of any number of processes breaks them.

### The account of a portfolio (`PaperBrokerProofs`)

All assume `OneProcess`: one process, and no decision routed twice with an old
time (`broker_oversell` shows what happens with two processes).

- `FilledStays`: `Spec => FillsAreFinal`, and `SettledOnce`:
  `Spec => LeavesQueueOnce`; they need nothing else.

The others assume also that there are finitely many decisions and at least one
run, and are about the behaviours in which each time is read when the stored
stamps have passed. With `PassedSpec` for `Spec /\ [][StampsHavePassed]_vars`:

- `LedgerStands`: `PassedSpec => []LedgerInv`, and from it `NothingOversold`:
  `PassedSpec => []SellsCovered`, and `LatestIsCurrent`:
  `PassedSpec => []LatestAccountCurrent`
- `BrokerKeepsLedger`: `PassedSpec => ImplementsLedger`, the refinement of
  `PortfolioLedger`, one step of the argument per action of the broker
- `QueuedCashKept`: `PassedSpec => []QueuedOrdersKeepCash`, with `ModestCosts`
  (the three cost rates together take at most a quarter of a sale; the defaults
  take far less)

The condition is on the readings of the clock only. It says nothing of the
stamps the rows get from there: those are the code's, one second per number of a
route, one and two seconds more for the parts of a split order, so that the fills
of a route overlap and lie ahead of the clock, and the theorems cover these
cases. The code does not enforce the condition, and section 4 shows that it is
needed. A schedule keeps it in practice when a settlement, a route or an
iteration begins more seconds after the last route than that route had symbols.

All of them rest on `QueueInv`: what a session has read is still what is stored,
and every order a settlement has yet to work off waits in the queue
(`SessionsFresh`). `LedgerInv` adds that a session's account is that of the book
it will store, and that the stored book, and the one a settlement will store,
are `Sound`: no two fills of one symbol have the same place in the replay,
each SELL is covered by the fills before it, and what is held is what was bought
less what was sold. Stamps that overlap do no harm within a route, because a run
has one decision on a symbol: the symbols a route has not reached have no fill
since it began (`RouteCurrent`), so a new fill comes after those of its own
symbol, and moving it past fills of others does not change what they add up to
(`LaterFill`). The account row of the last order is the latest, because its
number is. Replaying a book to which a symbol's fills are added last is
replaying the old book and then these fills, which is why the account row a
settlement writes is current although the code rebuilds it from all fills. For the cash (`CashKept`), a settlement buys
only what the account it works on affords, so that no order leaves it below zero
by more than `RoundingSlack`; a SELL only adds to it.

### A daily run (`PaperRunProofs`)

For any finite set of symbols, any number of runs and any choice of after-close
runs:

- `RunTypesHold`: `Spec => []TypeOK`
- `FillsSurviveCleanUp`: `Spec => LedgerIsAppendOnly`
- `AccountShowsAllFills`: `Spec => []LatestAccountShowsAllFills`
- `OutcomeIsComplete`: `Spec => []OutcomeAccountsForAll`
- `NoDecisionIsLost`: `Spec => []ExecutedOrReported`
- `SettlementIsExhaustive`: `Spec => []NothingRipeAfterSettlement`
- `ShownIsHeld`: `Spec => []VisiblePositionsAreHeld`

The argument: until it routes its first order, the run in progress has no order
of its own, and every fill made in its name belongs to an order it took from
the queue (`OnlySettled`). Such fills are exactly what `Protected` spares, so
`CleanUp` leaves the fills as they are (`CleanUpKeepsFills`). Routing reaches a
symbol once, when its order row is still empty, so that it replaces nothing.
For the account: each account row accounts for the fills of its run and all
earlier ones (`BooksAreComplete`), a run that made fills has a row
(`FillsAreAccounted`; the clean-up deletes the row only when it leaves no fill
of the run), and rows are updated in the order of runs (`AccountsInOrder`), so
that the latest row is that of the last run with a row, whose book is complete.
For the outcome: at each stage the lists of the run sort the symbols of its
scope into done, failed and still to do, and a routed decision has its order
(`OutcomeInv`). For the queue: the settlement takes every ripe order, and what
later stages queue is not ripe before new bars come (`QueueInv`). For the
positions: the clean-up may delete the latest row and bring an older one to the
fore, so the invariant speaks of every run's row: each of its positions is backed
by a BUY among the fills of its own book that no closing SELL of that book
follows (`PositionsBacked`). With the account theorem, the latest row's book is
all fills, so its positions are held.

### The monitor (`PositionMonitorProofs`)

For any finite set of symbols, any iterations and sessions (at least one
session, `SessionsAssumption`):

- `MonitorTyped`: `Spec => []TypeOK`.
- `MonitorAccountsShowAllFills`: `Spec => []LatestAccountShowsAllFills`. The
  monitor shares the clean-up with the daily run, but settles nothing, so that
  the argument is another one (`AccountsInv`). A decision is executed at once by
  the iteration that made it, and no iteration comes back to a symbol it has
  left (`ExecutedAtOnce`): the clean-up finds no fill of the symbol in hand to
  delete, and it may take the iteration's account row only while the iteration
  has no fill. A row accounts for all fills up to its run (`BooksComplete`).
  Rows are stamped with the time the iteration began, which is after every
  earlier row (`AccountsFollowRuns`; this is where the overlap with a run of
  another process, section 6, would break it), so that the latest row is that of
  the last iteration with fills.
- `ActsOncePerCrossing`: `Spec => []OneActionPerCrossing`. The case in hand is
  fresh: no stored proposal of the session is about it (`CrossingInv`).
- `CompletedIsDecided`: `Spec => []CompletedMeansDecided`. The proposals of the
  iteration are decided, in hand, or of a failed symbol (`CompletionInv`).
- `LoopsTyped`: `LoopFairSpec => []LoopTypeOK`, both loops over one set of rows.
  The invariant is `MonitorInv` while the monitor is at work and `DayInv` while
  daily runs are. The daily run is an instance here, for whose steps the types
  are proved again; they need only that an order is routed for an approved
  symbol, and a symbol approved for an action (`DayStages`). No fairness is used.

### Those who decide (`DecisionsProofs`)

- `ResearchTyped`, `RiskTyped`, `BasketTyped`: the type invariants, from the
  invariants named below; for the reviews the addition that a status is one of
  those the code stores (`StatusesKnown`).
- `RulesKeepTheLastWord`: `ResearchSpec => []ModelStaysWithinRules`, for any
  roster, rule scores, tolerance and answers, under `ResearchAssumption` and
  `NoSliver`: no holding of a single step of a share, because half of it rounds
  to a target of zero, which is no REDUCE (section 4). The invariant
  (`ResearchInv`) says of each stage who has spoken (`Turns`), that each speaker
  stayed within `MaxAdjust` of what the rules reach from what was said before
  (`BullNear`, `BearNear`, `ConsensusNear`), and that a proposal is `Sensible` for
  the holding and the consensus it was made on. The bound of the property is the
  sum of the three tolerances in the manager's weights, plus the step that
  rounding may lose (`ConsensusMoves`).
- `LimitsHold`: `RiskSpec => []ApprovalsFollowLimits`, for any companies, edges,
  holdings, prices and policies that satisfy `RiskAssumption`. The invariant
  (`RiskInv`) relates each stored review to the portfolio as it is now: until
  the run executes, a symbol is held as the agents saw it or not at all
  (`HeldAsSeen`); an approved review still fits every limit (`ReviewFine`),
  because a sale of the monitor leaves equity as it is and only shrinks
  exposures (`FitsStands`); and so does the holding that a decided quantity leads
  to (`FinalFine`).
- `BasketStaysInShape`: `BasketSpec => []BasketKeepsItsShape`, for any universe,
  volatilities, sectors, company edges, policy and findings that satisfy
  `BasketAssumption` (long positions, a portfolio of positive value). While the
  rounds go on (`StillPours`), what is poured and what remains is the sleeve, and
  remains fall below zero only by the rounding of one round: proportional parts,
  each rounded, add up to the whole but for half a step each (`PartsAddUp`). A
  stock that is passed over is full, and of two stocks in a round the less volatile
  gets the larger part (`RoundFacts`). Scaling a group brings it to its cap, and no
  later step raises a weight (`ScaledFacts`, `SmallerStaysWithin`), so that what
  the sectors were cut to survives the clusters, the dropping of tiny targets and
  the trades, which miss a target only by less than the smallest trade
  (`TradesReachTargets`).
- `DecisionsTyped`: `DecisionsSpec => []DecisionsTypeOK`, and
  `DecidersKeepTheirRules`: the composition of `MCDecisions` keeps all seven
  properties of the run `decisions`, under the hypotheses that the single
  theorems have (`NoSliver`, and `ReserveWithinBuffer` and `SharesResolved` of the
  allocation below). No decider touches the state of another, so each specification
  follows from the composed one (`DecidersApart`); the backtest follows without
  its fairness, which its theorems do not use.

### The run's allocation (`RunAllocationProofs`)

For any inputs, prices, policy and number of proposals that satisfy
`SizingAssumption`, `PlanAssumption` and `AllocationAssumption`:

- `AllocationTyped`: `AllocationSpec => []AllocationTypeOK`.
- `EntryCaps`: `AllocationSpec => []EntryCapsKept`.
- `PlansArePaid`: `AllocationSpec => []PlanIsFunded`, where the hard reserve is
  at most the cash buffer (`ReserveWithinBuffer`). No validator demands it; the
  shipped policy and the defaults have 5 % for both (section 4).
- `ExecutionFollows`: `AllocationSpec => []ExecutionFollowsAllocation`, where the
  NAV is less than twice `PctQuanta` times the price of any stock with a close
  (`SharesResolved`). The code stores a percentage with four digits, 10^6 steps
  of the NAV, so that at a share price of Rs 10 this is a NAV below two crore
  rupees. Beyond that the stored percentage can lose more than one share.

All rest on `RunInv`. Its `RunTyped` says of each ledger row that it is a BUY
exactly when it was selected, takes its shares at the latest close and stays
within the cap of its stock (`RowFine`); `QueueFine` that each symbol waits once
and one that is not held has no row yet; `EntryOnce` that a symbol enters with
its only row. One step of the sizing loop is summed up as `Bought`: either
nothing but a row, or the approved amount leaves the cash it fits, and is
counted for its stock and its sleeve. What the
four theorems add to this invariant:

- that the allocator's simulated positions are what is held and what the rows so
  far take, for every set of stocks (`ValueInv`), so that the room a sector had is
  the room the property speaks of (`EntryInv`);
- that cash and spending, and for a plan the funding left and spending, add up
  to what there was (`CashInv`, `FundingInv`), and that the cash the buffer leaves
  is never more than what is left to fund with;
- that a sleeve fills within its capacity and only if it has a BUY of its own
  (`SleeveInv`), in which case it lends nothing. Lending takes from one sleeve what
  it gives to another: `Loans` is what every step of the two nested folds of
  `Borrowing` keeps, and `SleeveBalance` turns it into a bound per sleeve that
  sums up over the parties;
- for the routing (`RoutingInv`), that the symbols still to route come SELLs
  first, and that the cash threaded so far and the debits of the BUYs queued
  together stay within the account and the freed shares of the SELLs
  (`CashThreaded`). That the shares come back from the stored percentage is
  rounding and two divisions (`StoredShareReturns`), and that the queue is sorted
  at all follows from keys that order the symbols (`SortedFacts`).

### The backtest (`BacktestProofs`)

- `ReportIsHonest`: `BacktestSpec => []TargetsAndReportStand`, for any symbols,
  tables of candles, strategies and rates that satisfy `BacktestAssumption` and
  `WindowsAssumption`. `BacktestAssumption` takes slippage below 100 % and a cost
  of at most 100 %; the code refuses only negative rates. The invariant (`BtInv`) says of the book of a day that it
  is `Honest`: the cash and what the positions cost, less what they realized,
  are the capital, but for half a paisa for each share bought (`Adds`: a sale
  realizes just what it brings, a purchase rounds one average), and a symbol no
  fill names is flat (`Known`). It goes through the two loops of a rebalance
  (`SalesKeep`, `PurchasesKeep`), where a target is bought once and only when it
  is not held, so that an average is never of two purchases. That the equity
  entered last is the value at the last close then makes the report add up
  (`ResultIsGain`). What a strategy reads of the closes is `SameUpTo` the day
  before (`ScoresIgnoreTheRest`), and the closes of the day enter the trades
  through the value of the holdings alone (`SizingIsSettled`).
- `BacktestTyped`: `BacktestSpec => []BacktestTypeOK`; cash and positions never
  go negative.

### The stores (`StoresProofs`)

- `GraphTyped`: `GraphSpec => []GraphTypeOK`, for at least one day
  (`GraphAssumption`). What the statistics job will commit is typed before it is
  committed, and it promotes only what was a candidate when it began (`GraphInv`).
- `PromotionIsNeeded`: `GraphSpec => []InferredNeedsPromotion`. An edge that has
  been reviewed keeps the status of the review through imports (`EdgesInv`).
- `HistoryStands`: `GraphSpec => PastSignalsStand`. The rows a job has measured
  and not committed all carry the day of the job (`JobInv`).
- `ReferenceTyped`, `UniverseIsHalal` (`[]SymbolsAreHalalOnAPage`) and
  `ImportsFinishBars` (`[]ImportedBarsAreFinal`) of `ReferenceSpec`, for any
  symbols, pages and days under `PagesAssumption` and `MarketAssumption`. The
  invariant (`ReferenceInv`) adds that an active halal row has its line on the
  last page of its source (`RowsOnPages`): otherwise the next file could keep a
  company that its source no longer lists.
- `FundamentalsTyped`, `ListedRowIsScored` (`[]ListedCompanySpeaksForItself`) and
  `BetterIsScoredNoLess` (`[]StrongerNeverScoresLower`) of `FundamentalsSpec`,
  for any files and metrics under `FilesAssumption`. Each snapshot stored comes
  from the one row the resolver chose (`ComesFrom`), and a score is an average
  of clamped parts, each of which rises with its metric: `StrongerNeverScoresLower`
  compares companies whose book value is positive (`Priced`), since otherwise the
  part of P/B is left out of the average.
- `OfficialTyped`: `OfficialSpec => []OfficialTypeOK`, and `TodayIsNotRead`:
  `OfficialSpec => []OfficialScoreIgnoresToday`, for any files in any order under
  `OfficialAssumption`. The second assumes that no file says of a row that it was
  available before its day had begun (`AvailabilityIsPopulated`; the ingestion
  handoff states the condition: "As long as data_available_time is populated
  correctly"). A row whose file does not say is stored as available at the end of its
  day, and a merge takes the later file's time; so every stored row has a time
  after the morning of its day (`OfficialInv`), and the as-of query of a morning
  finds nothing of that day or later: context and score are computed from the same
  rows (`ScoreStops`).
- `BetterIsNoLower`: `OfficialSpec => []BetterNeverScoresLower`, for any snapshots,
  histories of any length and either profile. For each feature that the history allows, a better
  reading has no lower rank and no lower standardised value in the universe
  (`FeatureKeepsOrder`), and the score of a family is their weighted average,
  through roundings that keep the order (`FamilyKeepsOrder`). It speaks of family
  scores; confidence and guardrail come after them and read other things.
- `StoresTyped`: `StoresSpec => []StoresTypeOK`, assuming `~Overlap` (below). No
  store touches the state of another, so each specification follows from the
  composed one.

### Profiles (`StoresProofs`)

For any profiles, corpora and costs, assuming `~Overlap`, which `corpus_race`
shows to be needed:

- `ProfilesTyped`, `TradingStands` (`[]TradingRestsOnCorpus`) and
  `CorpusFollowsTheRule` (`CorpusChangesPrecedeTrading`).

The invariant (`ProfilesInv`): while an edit waits to commit, its profile has no
orders and no transaction is open; while a transaction is open, the corpus it
read stands; accounts exist only for profiles with orders; order numbers are
unique, so that a settlement replaces its own order.

### Lemmas about folds (`NumberFacts`)

`Replay` and `SumOver` are folds of the community modules over a
finite set, and the induction theorems of the library take an operator. The
lemmas of `NumberFacts` get the same facts from induction over the *set* of
numbers, or of subsets, that have a property (`ClosedIsNat`,
`SubsetInduction`): a fold exists and is unique (`FoldExists`, `FoldsAgree`), and
from that the algebra of sums over sets (adding an element, comparing term by
term, scaling, splitting, renaming), products, recursion over the first n numbers, the
largest and smallest elements, and how far
rounding moves a quotient.

### Only model-checked

Liveness (`RunEnds`, `IterationEnds`): its proof needs ENABLED of the fair step.
The violations of section 4 are counterexamples TLC finds on an instance, and
need no proof.

## 6. Not modelled

- A daily run and a monitor iteration at the same time, and two runs of one
  portfolio at the same time. Their broker calls are (`PaperBroker` has any
  number of processes); their clean-ups are not interleaved. The hazard stands
  in `PROJECT.json`.
- The values of the technical indicators (averages, regressions, volatilities
  over candles), the weights inside the candidate score, the text of plans,
  prompts and explanations: they enter as numbers or choices.
- News documents, entity resolution and event scores: texts and weights.
- The projection of the graph to Neo4j, edges of unknown sign, and an import
  that overlaps the statistics job.
- Single-symbol entry points of the run service, sleeping and the choice of the
  hour in the schedulers, the mock strategy.
- Usage counters of the language models, recorded after the answer is parsed
  and read by reports only.
- Replay, API views, dashboard, alerts, observability, backup, configuration,
  migrations and the parametric experiments have no state of the trading system
  or only read it.

## 7. Running

    tlc -workers 2 -config PaperRun_safe.cfg PaperRunProperties
    tlapm PaperRunProofs.tla

`PROJECT.json` lists the runs, for each property a plausible mistake in the
code that TLC then reports (the definitions marked "Mutant" in the modules),
the correspondence of definitions to source lines, findings, hazards and
theorems.
