# ApexSignal F1 in TLA+

TLA+ modules of ApexSignal F1's own logic, TLC configurations that check them on
small instances, and TLAPS proofs of what matters most for every instance. The
reference is the Python under `src/src/apexsignal` and `src/scripts`; every
definition that models code is listed in `PROJECT.json` under `map` with the
lines it stands for. Line numbers in comments are those of the file a module
names at its head.

## The system

ApexSignal is a research platform: it replays Formula 1 races from event logs,
prices contracts on the rest of a race by Monte Carlo, reads news, compares its
prices with those of prediction markets, and sizes simulated positions.

| Component | State it keeps | Operations | Correct when |
|---|---|---|---|
| Domain events (`domain/events.py`) | none; immutable envelopes | construction with the causal check, `sort_key` | the replay order is total and depends on the events alone |
| Race-state reducer (`domain/race_state.py`) | `RaceState`: clock, leader's lap, flags, weather, one `DriverState` per car, recent events | `initial_state`, `apply_event`, `replay`, `replay_states` | the state is what the log says, in whatever order events arrived |
| Event store (`storage/event_store.py`) | events in insertion order; a JSONL file | `append`, `events`, `to_jsonl`, `from_jsonl` | what loads is the beginning of one download, in order, after a crash and beside a save that has begun; a save that begins while the file is read keeps every line in its place |
| FastF1 adapter (`ingestion/fastf1_adapter.py`) | none; mints an id per event | `load_session_events`, `load_session_result` | one download is on one clock; two loads of a session replay alike |
| Data-quality report (`ingestion/normalization.py`) | running per-car facts of four passes | `run_quality_checks` | each issue is reported exactly when the log warrants it |
| Race service (`services/race_service.py`) | none | `load_events`, `quality_report`, timing table | the report sees what the file holds |
| Mid-race pricing (`scripts/price_race.py`, dashboard `_sim`, `services/pricing_service.py`) | none | cutoff at a lap, replay, `build_sim_input` | the simulator starts from the race as it was |
| Race simulator (`simulation/engine.py`) | per path: times, tyres, stops, retirements, fastest lap | `simulate` | a path is a possible race |
| Contract payoffs (`simulation/payoff_matrix.py`, `models/ranking.py`) | none | `contract_payoff`, `price_contracts`, pairwise | contracts settle as those of one race |
| News pipeline (`services/news_service.py`, `intelligence/*`) | an archive of documents that only grows | extract, filter to `as_of`, supersede, cluster, contradict, impact, sentiment | nothing from after `as_of` counts; each story counts once |
| Market mapping (`pricing/*`, `domain/markets.py`) | none | `MarketMapper.map`, effective ask, haircut | an offer is about the contract the market settles |
| Opportunity scan (`services/opportunity_service.py`) | none; awaits one order book after another | `scan_opportunities` | what it publishes was on offer, whole and in order, or it publishes nothing |
| Market adapters (`ingestion/kalshi_adapter.py`, `polymarket_adapter.py`, `synthetic_market.py`) | the availability flag of Polymarket | `list_markets`, `get_orderbook`, `check_availability` | a request ends; a closed venue is left alone |
| Portfolio service (`services/portfolio_service.py`) | none | `build_allocation` | what is sized was scanned, and only then |
| Stake allocation (`allocation/*`) | running totals of one greedy pass | `allocate` | every cap and the Kelly bound hold; the totals are the stakes |
| Paper execution (`execution/paper.py`) | cash, positions, fills, realised profit | `submit`, `settle`, `portfolio_value` | the books reconcile |
| Ratings (`models/driver_ratings.py`) | ratings of drivers and constructors, last known teams, reliability counts | `update`, `driver_rating`, `reliability` | each race moves those who finished it, once |
| Walk-forward evaluation (`backtesting/evaluation.py`) | records of one walk | predict, then update; split; calibrate | strengths, failure rates and calibration come from earlier races |
| Prediction jobs (`scripts/train_models.py`, `predict_recent.py`, `predict_next.py`, `predict_hungary_2026.py`, `services/evaluation_report.py`) | a report on disk | download, walk, write; read | the same, for every report a reader can meet |
| Calibration (`models/calibration.py`, `models/_numeric.py`) | fitted knots | `fit`, `transform` | the fit is the monotone one, as far as raw probabilities differ, and ranks nothing the wrong way round |
| Settings, API, dashboard, numeric fitting | little or none | parsing, rendering, numerics | |

They interact by calls and shared data, not by threads. Adapters make events,
the store keeps them, the reducer folds them; the quality report and the pricing
path both read what the store loads; pricing hands the reducer's state to the
simulator; prices meet markets in the scan; the portfolio service hands the
scan's opportunities, in score order, to the allocator; the executor takes
orders from its caller. The prediction jobs are programs of their own, which meet
the rest only in the report they write. A replay, a quality report, a pipeline
run, a simulation, an allocation and a walk are each one synchronous call. Only
market access is asynchronous, and only the event file, the archive and the
report outlive a call.

What is hard here is seldom two threads. It is order: of events that share
timestamps, of documents that arrive late, of pipeline stages that read one
another's output, of cars on different laps at one time, of races and the
predictions made of them. It is state carried along a fold: maxima, last-seen
values, flags that nothing resets, four parallel arrays that must agree. It is
point-in-time cuts, limits that bind in turn, a save that a crash cuts short or
that begins under a reader, a sample whose columns are dealt out by row, and a scan that awaits while books and an availability flag move. `PROJECT.json`
lists the places under `hazards`, each with the properties that would catch it
going wrong.

## Modules

| Module | Models | State and actions |
|---|---|---|
| `RaceEvents` | `DomainEvent`, the causal check, `sort_key`, sorting by it | operators only; `ReplayOrder(log)` is the sorted log, defined by rank |
| `RaceReplay` | the reducer over the store | `log` is `_events`; a replay is `BeginReplay`, one action per branch of `apply_event`, `FinishReplay`; events may be appended between replays |
| `FastF1Session` | the four passes of `load_session_events` | operators only; `SessionEvents(session, now)` is what a session's tables become, row by row, with the anchor of its clock or without one |
| `EventStore` | store, download script, loader | `events`/`written` are the writer's, `file`/`torn` the disk, `loaded` the reader's; a download of a session, opening, each line written, a torn line, closing and a crash are actions, and so are a reader's opening, each line it reads, a fragment and the end of the file |
| `QualityReport` | `run_quality_checks` | one action per kind of event of each pass; variables as in the code; its specification is `ReportSpec`, so that it can stand beside the store's |
| `RacePricing` | cutoff, replay, `build_sim_input`, timing tower | extends `RaceReplay`; `AskFor`, the replay's own steps, `BuildSimInput` |
| `RaceSimulator` | one path of `simulate`, and its contracts | `SimulateLap` is the loop body, with the lap's draws as parameters; `Finish`; payoffs are operators on the result |
| `NewsPipeline` | `run_pipeline` and its stages | `documents` is the archive; `Receive`, `RunPipeline`, one `Supersede` per event seen, `Finish` for the stages after |
| `Allocator` | `allocate` and its summary | `PassOver` and `Take` are the ways through the loop body; `PortfolioRisk` is an operator on the result |
| `PaperExecutor` | `PaperExecutor` | `Decline`, `Buy`, `Sell`, `Settle`; its specification is `PaperSpec` |
| `StableSort` | `list.sort`, `numpy.argsort` (external) | operators only; `ArgSort(keys)` is the order in which places are visited |
| `MarketMapping` | `MarketMapper.map`, adapters' parsing of books, fees, haircut | operators only; `Mapped`, `Clears` and `Offer` say what the scan makes of a market and a quote |
| `ScanPromise` | nothing: the abstract specification of a scan | begins, and publishes a whole ranking or fails |
| `MarketScan` | `scan_opportunities` over an adapter | one action per stretch between two awaits: `Ask`, `Serve`, `ListArrives`, `BookArrives`, `RequestFails`; the venue's `BookMoves`; the probe's `SendProbe`, `ProbeAnswered` |
| `Portfolio` | `build_allocation` | extends `MarketScan`, takes `Allocator` by `INSTANCE` over the scan's ranking; `StartAllocating` joins the two |
| `DriverRatings` | `DriverRatings` | operators only; `Update(ratings, race, entries)` is one race with its decay, a rating being the races it comes from; `Predict` is the races a prediction comes from and the column of the sample each driver is dealt |
| `Isotonic` | `IsotonicCalibrator`, `pool_adjacent_violators` | operators only; the stack of pools as a recursive function |
| `WalkForward` | the four prediction jobs and the report's reader | `LoadRound`, `StartWalk`, `PredictThenUpdate`, `FinishWalk`, `WriteReport`, `LoadReport` |

`MC*` modules extend these with instances; each `.cfg` of that name gives the
constants values. The modules named `...Proofs` hold the theorems. An operator
introduced by "Mutant:" is a plausible bug, stated beside the definition it
would replace; each checked property is known to fail under one of them, so none
holds merely by the shape of its model.

### What is abstracted

Drivers, tyres, weather readings, meetings and sources are model values. Event
ids are numbers compared as the code compares strings. Instants are small
numbers. Prices, stakes and caps are whole ticks, average entries exact
fractions, simulated times whole units chosen so that compressed gaps come out
whole; float rounding is not modelled. A random draw against a probability
strictly between 0 and 1 is a free choice. Messages, logs, labels' wording and
numeric weights are left out. In `EventStore` lines reach the disk one at a time,
the last perhaps torn, and a reader's place is counted in lines where the code
has bytes: the lines of two downloads of one session differ in the digits of ids
and times, so places agree unless events of one moment have swapped theirs; a
line that is half of one download and half of another is read as either or fails
(`ReadFragment`). In `PaperExecutor` a book is its best bid
and ask, all that `submit` reads. In `MarketScan` a quote is the list of
levels a venue holds; each adapter's `Asks` is what it makes of them. A market's
text is the set of contract families, drivers and rules that the mapper finds in
it. In `WalkForward` and `DriverRatings` a rating and a reliability are the sets
of races they depend on, through decay and the first race ever seen as well, so
that leakage is membership. A prediction is those of its strengths and failure
rates, and the column of the random sample each driver is dealt; two predictions
that agree in both are the same numbers.

## Runs

Passing runs; TLC explores each state space in full.

| Run | Instance | What it shows |
|---|---|---|
| `replay` | logs of up to 3 of 18 events: two cars, a lap and a stop with both timestamps equal, unnumbered and orphaned laps, flags, weather, an event the constructor refuses; 2 recent events kept | `CarsMatchLog`, `RaceMatchesLog` and `RecentIsTail` state the fold without folding; `ReplayIsCanonical`; `ReplayMovesForward` |
| `ingestion` | 2 downloads, each of a session with a clock, with a clock and flags, or without one; crashes and torn lines anywhere, a reader that opens the file at any moment. Beside it, logs of up to 4 events in any order through the report | `LoadedKeepsItsPlaces`; `DownloadKeepsOneClock`. The three `...Exact` properties; a log that passes counts laps up (`OkLogCountsLapsUp`) |
| `pricing` | every race of 2 cars over 3 laps with three paces, early stops reported or not, a lap without a position, a late-seen safety car | the cut is the race up to one moment (`CutIsTheRaceSoFar`); a car is out exactly when the log says so or has lost it (`RetiredAsTheLogSays`); the simulated field starts in the order of the timing tower (`SimStartsInTowerOrder`) |
| `simulator` | 3 cars, up to 3 laps, all draws | a car that is out stays out; stops and tyres agree; the contracts cohere and are priced as they pay |
| `allocator` | every order of every set of 7 candidates | caps, quarter-Kelly, maximality; books that balance, in the summary too |
| `news` | archives of up to 3 documents, 2 instants, any `as_of` | exact point-in-time activity, one supersession each, clusters partition, confirmed news sticks |
| `paper` | up to 3 fills on 2 markets, any book and limit, settlements | books reconcile, entries are prices, until more is sold than held |
| `portfolio` | one request at each of 3 venues, 3 listings of up to 3 of 5 markets, 3 quotes, 2 moves and 2 probes at any await, failures and timeouts | `ScanKeepsPromise` (the refinement), `RankedIsHonest`, `AtMostOneUnwelcome`; `RankedHasEdge` (and nothing sized is expected to lose) and `StakesComeFromTheScan` relate scan and allocator; `RequestAnswered` |
| `evaluation` | the 4 jobs over 7 races, any of which may fail to load, asked for in either order of seasons, with 2 tables of results; crashes, and readers at any time | `PredictionsLearnFromThePast`, `ReportsLearnFromThePast`; `SplitIsProper`, of the evaluation's own number of races and of 6 to 110; `ReliabilityCountsEntries`, `PaceMovedByFinishers`; `CalibrationFitsTheRecord` for every validation block of up to 4 outcomes |

Runs that find a documented claim violated. Each is a finding of `PROJECT.json`,
which quotes the claim.

| Run | Claim, and what the code does |
|---|---|
| `store_ids` | The last tiebreak makes replay reproducible. It is minted anew on every download, and the adapter gives a stop its lap's timestamps, so downloads of one session may replay the pair in either order |
| `news_impacts` | Events are deduplicated before impacts. `aggregate` gets every active event, so two reports of a story move a driver twice |
| `evaluation_rows` | A race is predicted before its result is seen. A sample drawn from a fixed seed is dealt out column by row, rows stand in the order of the classification, and so a race whose cars finish in other places is predicted otherwise |

### Bounds

Each bound is the least at which the cases its properties are about occur.
Three events are what it takes to fill the list of recent events and drop one,
to put a lap on either side of a stop, or to interleave two cars; the proofs
cover logs of any length. Four quality events give a lap that runs backwards and
a later one between the two, or two entries and two exits. Two downloads suffice
for a load to mix them, three rows to hold a tied pair and a neighbour. Two cars a pace
apart over three laps get lapped; the tolerance is then 1 where the code has 3.
Three simulated laps allow two stops and a last lap on which only the mandatory
stop may be made; three cars allow one to be out while two fight. In the
allocator each of the Kelly share, the market, driver and total caps, and the
depth binds for some order, with a free contract and one without edge among the
candidates. Three documents give a rumour, its confirmation and a second rumour,
in any order of arrival and of sight. Three fills give two entries and a partial
sale, or a sale and a re-entry.

Of the five markets of `portfolio` one has structured fields, one is recognised
by its text, one is about the race, and two must be put aside; two name two
contract families each. The three quotes have no ask, too little depth or too
thin an edge for some of them. Three markets give a scan three awaits, the list
and two books; two moves let a book differ between the asking and the answer and
again afterwards; two probes may answer in either order. Seven races are the fewest for which the
training script still evaluates (it wants six) when one has failed to load; the
tables hold a car classified though it retired, an entry without a driver, a
race with one finisher and one with none, a change of teams in a race that does
not name them, and a race without a date. The holdout is 2 where the script has
3. `predict_next` names the sixth race, so that it is run in time when the last
two fail to load and too late otherwise. Four outcomes let one low outcome undo
two pools, with equal raw probabilities among them, in either order.

`MaxLog`, `MaxDownloads`, `MaxDocuments`, `MaxFills`, `MaxMoves` and `MaxProbes`
stand in the guards of the actions they bound.

Deadlock is checked where the system goes on for ever (`store_ids`, `news`,
`paper`). The other runs turn it off, since the calls they model end.

### Fairness

Only `RequestAnswered` needs it: an allocation that was asked for ends, in a
decision or an error. `MarketScan` and `Portfolio` state
`WF_vars(RequestMoves)` and `WF_portfolioVars(Progress)`. They say that a request
under way is answered or fails, which the timeouts of the HTTP clients enforce
(15 s for market data, 10 s for the probe), and that a coroutine that has its
answer goes on to its next await. Nothing is assumed of the venue: books need not
move, and it need not answer rather than time out. No other specification carries
fairness, since the others state safety alone.

### Refinement

`Promise` in `MarketScan` is `INSTANCE ScanPromise` with `listed` and `reviewed`
read off the code's state once the scan is done and empty before. `ScanPromise`
knows no requests: a scan begins, books move, and it publishes a ranking of the
markets in one step or fails. The ranking is for one quote of each market that
the market showed since the scan began, not for one moment: nothing in
`scan_opportunities` makes the quotes those of one moment, and the specification
says no more than the code keeps. `ScanKeepsPromise` is checked in `portfolio`
and proved.

## Proofs

All are of the specification as TLC runs it, for every value of the constants
that satisfies the assumptions named in the modules; TLC evaluates those on the
instances of the runs. They say what the constants stand for, and no more than
the code or its input gives:

* `NoneAssumption`, `MappingAssumption`, `RatingsAssumption`, `NewsAssumption`,
  `PaperAssumption`:
  no value that stands for Python's `None`, or for an empty name, is also a
  driver, a number or a team; prices lie within the payout, sizes and times are
  natural numbers, a gate lies between 0 and 100.
* `ReplayAssumption`, `AllocatorAssumption`, `PortfolioAssumption`,
  `ScanAssumption`, `SimulatorAssumption`: finite bounds, at least two recent
  events kept, natural caps, deployment within the bankroll (which is what the
  API's validation admits), market ids of one list distinct, at least one place
  on the podium and no more of them than places that score.
* `JobAssumption`: races numbered by date, a round asked for once, and one row
  per driver in a classification.
* `LoadedAssumption`, `PositionAssumption`: a race to be priced was sorted by
  its store, positions count from 1, and the gap that `build_sim_input` gives a
  retired car exceeds every position.
* `StoreAssumption` carries one fact about data: that a session's rows make a
  sequence of events no later than their download, which is the constructor's
  check of each.

`RankedAlwaysHasEdge` has a hypothesis of its own, `MinEdge > 0`: the threshold
of the scan is configurable, and with a negative one the scan lists offers that
the allocator then passes over.

The library's induction over data is out of the prover's reach, but sums, folds,
flattened sequences and the stack of pools need only the natural numbers: where a proof below says "least
counterexample", a least number (`LeastNatural`) or a smallest set
(`SmallestSet`) that fails is shown to have one below it.

* `SortAndSumProofs` holds the lemmas the others share. A stable sort defined by
  counting what is visited before is a permutation of the places
  (`ArgSortPermutes`), ascends (`ArgSortAscends`) and keeps ties in place
  (`ArgSortIsStable`). `Ranking`: in any strict total order on a finite set,
  counting predecessors numbers its members from 1. `SumIsTicks`: a sum of
  natural numbers counts as many ticks as each of them, so the order in which a
  fold picks its arguments does not matter; from it what one more term does to a
  sum (`SumOfOneMore`, `SumOfLonger`).
* `RaceReplayProofs` is about the reducer and, since pricing extends it, about
  the mid-race path. `Before` is a strict total order on places of a log, so
  `ReplayOrder` is a permutation (`ReplayOrderIsLog`), sorted
  (`ReplayOrderIsSorted`) and fixed by the keys up to equal keys
  (`ReplayOrderIsCanonical`). `ReplaysLog` ties `ordered` to `ReplayOrder(log)`
  while a replay runs; from it `CanonicalReplay`. The summaries
  (`CarsSummariseLog`, `RaceSummarisesLog`, `RecentSummarisesLog`) are inductive
  given the type: a step adds one place to the prefix, and the lemmas say how
  the latest, the highest and the count over a prefix change with it.
  `LeaderLeads` is inductive by itself. `ReplayForward` needs `InOrder` (the
  copy is sorted) and `ClockFollows` (the clock is that of the last event
  folded): without them a step from an arbitrary typed state could set the clock
  back. `PricingInv` adds to the replay's invariants that the log is the cut,
  that a finished replay has folded all of it, and that the input is the one its
  last state gives. A cut keeps a beginning of the race, because the race is
  sorted and what is kept is all up to one moment (`CutAlwaysTheRaceSoFar`);
  `AlwaysRetiredAsTheLogSays` and `AlwaysStartsInTowerOrder` read the summaries
  at the end of the replay.
* `SimulationProofs` is about the simulated race and the simulated trades. `PathOK` types the four parallel arrays and says that a
  stop was made on a lap already driven and that a result is what `Finish`
  computes; without the latter `ContractsAlwaysCohere` would speak of any
  record. `RankPermutes` (ties included), `GainsAreLosses` by counting, and the
  payoffs follow. `StopsAndTyresAgree` is inductive with `PathOK` (`TyresAgree`);
  `RetiredCarsStayOut` is a fact about one step from a path so typed.
  For the paper books a fraction `x` stands for `n` over `K`
  (`Stands`): reducing to lowest terms keeps the number, and what the operations
  do to fractions is done to the numbers they stand for (`PlusStands`,
  `MultipleStands`, `OverStands`). `PaperEntryIsAPrice` from `Covered`: what is
  held is a number of contracts at a fair price, and an average of fair prices is
  fair. `BooksReconcile` adds up fractions of several denominators, which no step
  can carry; `Ledger` states the balance in whole numbers over some denominator
  that all of the books share, and a sale or a settlement multiplies it by the
  entry's own. That the fold of `PortfolioValue` is that sum in whatever order it
  takes the markets (`FoldStands`) needs the fold's recursion to have a solution
  (`FoldExists`, by a smallest set without one).
* `NewsPipelineProofs`. `NewsInv` holds, while supersession runs, that what was
  dropped are exactly the rumours among the events passed that another event
  passed confirms, each claimed by one (`RunInv`), and of a finished run the
  three properties themselves. An event is only claimed by a later one and the
  order is by sight, so a claim once made is never undone by an event to come:
  `ActiveAlwaysExact`, `AlwaysSupersededOnce`, `ClustersAlwaysPartition`.
  `NewsSticks` relates two runs and needs that documents only arrive.
* `AllocatorProofs`. `AllocatorTypeCorrect`, `CapsAlwaysHold`, `QuarterKelly`
  (the share is at most 25 whatever is configured, and a bound at a share is a
  bound at a larger one), `GreedyMaximal`, which needs `DecidedOnce` (each
  position is of a candidate the loop has passed, no candidate twice) and that
  room only shrinks: stakes never decrease, so what did not fit never will.
  `BooksAlwaysBalance` from `Booked`: the running totals, in all and per driver
  key, are the sums of the stakes taken.
* `MarketScanProofs`. `ScanInv` is the inductive invariant of the scan.
  `VenueInv` says that the current quote of each market is one it has shown,
  `PhaseInv` that an answer under way is such a quote, and `ProgressInv` that
  what was found so far is, for one choice of shown quotes, exactly the offers
  that clear among the markets considered so far, and what was put aside is
  counted. With it and the lemmas on sorting, the last step publishes a ranking
  in the sense of `ScanPromise` and every other step begins, moves a book, fails
  or stutters (`ScanImplementsPromise`). `RankedAlwaysHonest` adds that a
  published ranking stays of quotes shown. `OneUnwelcomeRequest` needs that a
  request still unserved after one was served against a lowered flag cannot have
  been sent, since the flag is read in the step that sends. `PortfolioInv` joins
  `ScanInv` to the allocator's invariants, which the module takes from
  `AllocatorProofs` by `INSTANCE`, having shown that everything a scan can offer
  is a candidate the allocator's assumptions admit (`AllocatorAssumed`); its
  `Handed` says that the allocator's list is the scan's finished ranking
  and its `Placed` where in it each position stands. Hence
  `StakesAlwaysFromTheScan`, `RankedAlwaysHasEdge`, and `RequestKeepsPromise`:
  the refinement and the scan's own invariants hold inside a request too.
* `IngestionProofs` is about the event file and the quality report.
  `LoadsKeepTheirPlaces` from `StoreInv`: the disk holds the beginning of some
  download, and while a save runs it is what the writer has written of its own;
  what a reader has read so far is the beginning of that download, or, once the
  file was emptied under it, each line is of some download at its own place, none
  older than one before and none newer than what is on disk.
  A prefix of a sorted log is sorted, and sorting a
  sorted log changes nothing (`SortedStays`). `DownloadAlwaysKeepsOneClock` from
  `ClockInv`: each download tells the rows of the session's tables (`Tells`), one
  event for one row and at its time, a bijection that the flattening of laps and
  flags (by least counterexample), the joining of the four tables, the minting
  of ids and the sort each preserve. `QualityInv` says what the passes
  remember and have reported in terms of the part of the log they have looked
  at: the numbers seen and the highest (`LapMemory`), the age that the last event
  about a car's tyres left (`TyreMemory`), who went in and has not come out
  (`PitMemory`). None of the four properties is inductive without the memory:
  they speak only of a finished report.
* `WalkForwardProofs`. `UpdateWithin`: whatever a set of races contains the
  ratings before an update, decay and the first race seen included, it contains
  them after, with the race itself added.
  `WalkInv` says that what was loaded holds each race once, that the walk is
  sorted by date, and that the evidence of every record is of races passed before
  (`Walked`). Sorted without repetition means that races passed before are
  earlier, if dated: `RecordsLearnFromThePast`. That says nothing of the columns a
  prediction deals out, of which `evaluation_rows` refutes the like.
  `AnySplitIsProper` is arithmetic on the rounded bounds, for every number of
  races from six on; `SplitAlwaysProper` applies it to the evaluations that the
  script lets through. With both, calibration and test blocks of a report lie
  apart and in order, and a forecast is of a race after all that were loaded,
  that of `predict_next` if it was run in time: `ReportsAlwaysLearnFromThePast`.
  `Counted` ties the reliability counts to sums over the
  races walked (`ReliabilityAlwaysCounts`), and `Paced` says who has raced, which
  team is remembered for whom, and which races moved each rating; a race moves a
  team through the teams remembered before it, which is why the memory is part
  of the invariant (`PaceAlwaysMovedByFinishers`).
* The same module: `FitAlwaysFitsTheRecord`, the isotonic calibrator for any
  number of outcomes and any probabilities, of which
  `CalibrationAlwaysFitsTheRecord` is the instance that a run checks. Where raw
  probabilities differ it is the monotone least-squares fit. Equal ones are a
  stretch of records in the order recorded, and the value in force at them is
  the last one's: 40, 40 with outcomes 0, 1 makes 40 a certainty, where the
  monotone fit as a function of the probability is a half. Draw the cumulative sums of the sorted outcomes as a
  polygon. The stack of pools is its lower convex hull (`Hull`): each pool spans two places of the polygon,
  and the line through them, whose slope is the pool's mean, runs below all of
  it. Pushing an outcome keeps that (`PushKeepsHull`, with what `Absorbed` pools
  in `AbsorbedIs`), and so the stack after any number of outcomes has it
  (`BlocksAreHull`). A line below the polygon bounds the mean of every stretch
  that ends with the pool or starts with it, which is the min-max form of the
  monotone fit (`PoolIsMonotoneFit`); two lines below each other's ends ascend
  (`PoolsAscend`); and interpolation between ascending means at ascending knots
  ascends (`TransformAscends`), also where knots coincide. What is proved of
  places in the sorted list is carried back to the records: a stretch of records
  is a run of places (`StretchIsRun`), and a sum over it does not depend on the
  order it is taken in (`SumReordered`, `MeanOfStretch`).

`PathOK`, `NewsInv`, `Booked`, `Counted`, `Paced`, `Handed` with `Placed`,
`QualityInv`, `Covered`, and `Ledger` with its witnesses written out can be
evaluated on the instances of the runs, where they hold;
they are not among the runs' properties, since the theorems say more.

Checked by TLC alone: `RequestAnswered`, which is liveness. The claims refuted
by `store_ids`, `news_impacts` and `evaluation_rows` are no theorems. `LeaderLeads`, that no car is on a later lap
than `current_lap`, and `AllocatorTypeCorrect` are proved and not run.

## Seen while modelling, without a run

* Saving a download over an old log truncates the old one first, so a crash can
  leave neither (`event_store.py:43`). Readers are not kept out meanwhile: one
  that had the file open before may return lines of both downloads as one race,
  or the beginning of one, without complaint (`event_store.py:53`).
  `LoadedKeepsItsPlaces` says how far that goes.
* A stop that replays before its in-lap leaves the in-lap's tyre age in place, and
  the first lap on new tyres is then warned about (`normalization.py:148`).
* The monotonicity check looks at the order as given, and the race service gives
  it a log that `load_events` has sorted, in which it can find nothing
  (`race_service.py:22`, `normalization.py:59`).
* The pricing cut is the time at which the last car ends the lap: a lapped car
  lets the leader's later laps in, and what had happened but had not been seen by
  then is included (`price_race.py:43`, `53`). The dashboard calls it the race at
  that lap (`app.py:185`).
* Contradictions are looked for among the survivors of supersession, so a rumour
  that its confirmation follows is never reported as contradicted; sentiment is
  scored over the whole archive, whatever the `as_of` (`news_service.py:72-74`).
* Greedy sizing is not monotone in the tolerance. With 10 left to deploy, best
  first an ask of 6 and one of 5: a tolerance too small to buy the first buys two
  of the second, a larger one buys one of the first and nothing else.
* A sale beyond what is held realises its whole proceeds, since the entry is
  nought, and the buy that covers it realises nothing (`paper.py:62`). `oversold`
  marks such histories and the books are claimed only up to them.
* On a safety-car lap the lap times are overwritten after the pit loss was added:
  a stop costs nothing and a car with the better pace may pass. A car that
  retires on a lap still counts for its fastest lap (`engine.py:180`, `183`).
* Without an anchor a session's laps are dropped and the rest is stamped with the
  time of the download (`fastf1_adapter.py:171`, `223`); a race without a date is
  stamped so too, sorts last, and is predicted from races held after it (`145`).
  The properties claim the past for dated races only.
* A listing of an unexpected shape reads as an empty one, so the scan of a venue
  that changed its format finds no opportunity instead of failing
  (`polymarket_adapter.py:134`).
* The first family whose keyword occurs decides, so a title with two families is
  mapped to the one earlier in the table; a market's threshold is carried along
  and compared with nothing, so "before lap 20" is priced as the simulation's own
  lap (`market_mapper.py:54`, `102`).
* The portfolio service sizes by the asks of the scan and does not read the books
  again (`portfolio_service.py:37`).
* A constructor is moved through the team its drivers were last seen with, which
  may be an old one (`driver_ratings.py:126`).
* The grid and uniform models are dealt the columns of their sample by row as
  well, so that a uniform forecast gives every winner the probabilities of the first
  column (`ranking.py:66`, `evaluation_rows`).
* `predict_next` names its race in a constant and downloads every round there is
  by now. Run after that race, it trains on the race it forecasts
  (`predict_next.py:23`); `RunInTime` is what `ReportsLearnFromThePast` assumes.
* Equal raw probabilities get a knot each, in the order of the records; the last
  one counts when a probability meets them exactly (`calibration.py:65`).
* `predict_recent` with a holdout of 0 would show every race, since a slice from
  -0 is the whole list; `predict_next` indexes the last result even when no round
  loaded (`predict_recent.py:54`, `predict_next.py:59`). A report is written in
  place, so a reader may meet half of one, on which it fails
  (`train_models.py:100`).

## Not modelled

Distribution fitting, Platt calibration, the choice between calibrators, latent
pace, metrics, the numbers of Plackett-Luce sampling and the quantiles of
simulated losses are floating-point computation. Extraction of pandas frames,
HTTP, YAML and rendering are I/O or layout: the dashboard only shows what the
services return. Settings are validated once and immutable. Text matching enters
the news module as its outcome (`matched`, `rumour`, `confirms` of a document),
and the market mapper as what it finds in a text. The API's two endpoints with
state behind them are calls of `build_allocation` and `load_latest_report`.
Scenarios and stress tests perturb an input and price it again. In the simulator
the odds are numeric, and an empty field, on which `simulate` raises, is excluded
by `N # 0`. The Kalshi demo executor raises on every
order.

## Plan

1. Abstract specifications: the reducer as a function of the set of events, which
   `RaceReplay` implements under the canonical order; a ledger, which
   `PaperExecutor` implements; a set of active stories, which `NewsPipeline`
   implements.
2. The race service's timing table and the scenarios, if a property of theirs is
   found that is not one of layout.
