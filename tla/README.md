# Verification of proofstand

This directory holds TLA+ models of the agent marketplace in this repository, TLC
configurations that check them on small instances, and TLAPS proofs about them.
Paths below are relative to the repository, as in the code's own documents;
`PROJECT.json` gives them with the prefix `src/` and maps every definition to the
lines it stands for.

## 1. The system

A user hires an agent in the browser. The orchestrator (FastAPI, one process) runs
the agent and a baseline on the same observation, writes both runs and a receipt to
PostgreSQL, and streams the phases to the browser. A script groups receipts into
batches, publishes each batch's Merkle root in a contract on BSC and records the
transaction; a receipt page lets the browser fold the receipt's leaf up to the root.
Agents take market data through a file cache, and some run for days as looping
scripts that write a receipt every cycle.

| Part | State it keeps | Operations | Talks to |
|---|---|---|---|
| Hire manager (`services/orchestrator/hires.py`, routes in `api.py`) | `_HIRES`: hire objects with status, outcome, ids, a flag, an event queue; all in memory | start, run, cancel, snapshot, stream | event loop, executor threads, harness, browser |
| Hire panel (`apps/web/components/HirePanel.tsx`) | the EventSource, the shown outcome | submit, message, error, finish | hire routes |
| Harness (`harness.py`) | rows `agents`, `runs`, `receipts` | phases of a run, `ensure_agent`, `_persist` | agents, baselines, PostgreSQL |
| Anchoring (`anchor.py`, `scripts/anchor_receipts.py`) | `receipts.batch_id`, `receipts.anchored_tx` | create batch, submit batch, serve proof | PostgreSQL, chain |
| Contract (`contracts/src/ReceiptAnchor.sol`) | owner, writers, event log | `setWriter`, `anchor` | chain |
| Merkle tree and verifiers (`anchor.py`, `MerkleVerifier.tsx`) | none: pure | root, proof, verify | receipt page |
| Candle cache (`packages/data/cache.py`, `sources/binance.py`) | one parquet file per pair and interval | `read_klines` | Binance, agents, scripts, cli |
| Hot cache, HTTP plumbing (`cache.py`, `sources/_http.py`) | redis keys, token bucket | `hot_json`, `take`, `request_json` | redis, sources |
| Grid agent and paper loop (`bnb_grid/`, `scripts/run_grid.py`) | slots and cash of a replay; a state file | simulate, cycle, halt, reset | harness, candle cache |
| Rebalancer (`pcs_rebalancer/`) | range, fees, costs of a replay | replay with rebalance decisions | harness, candle cache |
| Venus guard (`venus_guard/`) | debt and buffer of a replay | replay with repayments | harness, chain reads |
| Security agent (`bsc_sentry/`) | checks of a target | simulate a trade on a fork, check, score | anvil fork, sources |
| Yield agent (`pcs_yield/`) | scored pools, verdicts | shortlist, gate, rank | security agent, sources |
| Manifests, registry, tiers (`manifest.py`, `base.py`, `registry.py`) | none after loading | validate, default, gate a tier | harness, api |
| Queries, statistics, report (`queries.py`, `report.py`, migration 0001) | `agent_stats` | aggregate | PostgreSQL, api |
| Sources (`rpc.py`, `venus.py`, `subgraph.py`, `llama.py`, `bscscan.py`), web pages, probes | none | requests, rendering | outside |

What is hard in it, and the properties that make each part correct:

* **Hires.** Four kinds of thread touch a hire object without a lock: the event
  loop, an executor thread, and threadpool threads for cancel and snapshot. Fields
  are published one after another, two threads schedule events, several streams
  drain one queue, commits may fail with their outcome unknown, and a restart
  loses everything but the rows. Correct: success means a durable and complete
  receipt; what a client reads together belongs together; a finished hire stays
  finished; nothing follows the sentinel; every hire ends, and a panel comes to show
  how, unless its own connection or request fails.
* **Anchoring.** A multi-step protocol over two stores (database, chain) with no
  lock and no transaction across them, run by a script that may overlap with
  itself, crash, time out or collide on a nonce. Correct: batches are
  frozen, announced at most once with exactly their receipts, and recorded only
  when announced; receipts are anchored sooner or later.
* **Merkle proofs.** Levels of odd size, positions, siblings without a side.
  Correct: exactly the receipt's own leaf verifies, and root and count fix the leaves.
* **Candle cache.** Several callers, one file, no lock, partial pages, a clock that
  falls on boundaries. Correct: no gaps, up to date, closed candles final.
* **Security gate.** Trades on a fork, chain reads and the fork itself may fail, and
  a verdict comes out all the same. Correct: verdicts follow the trade and not the
  failures, what is CRITICAL never wins, screened pools come first.
* **Replays of the agents.** Long sequences of candles, hours or price steps against
  slots, ranges and debts, in which a decision depends on everything before. Correct:
  money adds up and is not overdrawn; a fill happens at a price of its candle; a
  guarded account is liquidated only when its buffer is spent and never because of the
  guard; a range holds the price it was opened for; a refused rebalance stays refused.
* **Paper loops.** Receipt first, state file second, written in place, by scripts that
  overlap and are killed. Correct: a state file says what some receipt says; a script
  that cycles ends only on the breaker; a failing deployment does not stop the other.
* **Sources.** A lock held across sleeps, retries, a second provider. Correct: the rate
  holds over every window of time, and every call ends.
* **Receipts and what is made of them.** Hires overlap with each other, with a market
  that moves between two fetches and with refreshes of the statistics. Correct: the
  two values of a receipt are of one observation; statistics are of committed
  receipts; everybody names the same winner.

`PROJECT.json` lists under "hazards" each of these at its line.

## 2. The modules

| Module | Models | Used by |
|---|---|---|
| `Hires` | hire manager, harness persistence, hire routes, hire panel | `MCHires`, `Hires_proofs` |
| `HireLifecycle` | what a hire promises (abstract) | refined by `Hires` |
| `ReceiptLedger` | what anchoring promises (abstract) | refined by `AnchorBatches` |
| `ReceiptAnchor` | the contract on a chain with nonces | `AnchorBatches` |
| `AnchorBatches` | scripts, rows, receipt page; extends `ReceiptAnchor` | `MCAnchor`, `AnchorBatches_proofs` |
| `AnchorBatches_proofs` | theorems about anchoring | |
| `MerkleFold` | tree, proof, both verifiers | `MCMerkle`, `MerkleFold_proofs` |
| `MerkleFold_proofs` | theorems about the tree | |
| `KlineCache` | candle cache and paginating client | `MCKline`, `KlineCache_proofs` |
| `SentryScan` | the security agent's trade, checks and score | `YieldGate` |
| `YieldGate` | the yield agent's gate and choice; extends `SentryScan` | `AgentRun` |
| `GridReplay` | the grid agent's replay of candles | `AgentRun` |
| `GuardReplay` | the Venus guard's replays of a fall, and its baseline | `AgentRun` |
| `RangeReplay` | the rebalancer's ranges, decisions and replay | `AgentRun` |
| `AgentRun` | one run of one agent of the factory; composes the agents above | `MCAgents`, `Agents_proofs` |
| `PaperLoop` | the looping scripts, their state files and receipts | `MCPaper`, `PaperLoop_proofs` |
| `DataSources` | token bucket, HTTP retries, provider fallback | `MCSources`, `DataSources_proofs` |
| `Harness` | concurrent hires, the tables, statistics, pages, report | `MCHarness`, `Harness_proofs` |
| `Hires_proofs`, `KlineCache_proofs` | theorems about the hires, the candle cache | |
| `Agents_proofs` | theorems about the gate, the replays and their composition | |
| `PaperLoop_proofs`, `DataSources_proofs`, `Harness_proofs` | theorems about the loops, the bucket, the receipts | |

### Hires

State and code: `hire[h]` is the `Hire` object, with `outcome`, `receiptId` and
`error` as "set or not". `ready` is the event loop's queue of callbacks. The code of
`_run` before its `await` is `RunTask`, the code after it is `ResumeTask` and the
`Finish...` steps: one loop callback, split where other threads can read the object
between two assignments; `LoopFree` keeps other loop callbacks out. `WorkerStart`,
`WorkerStage`, `EnsureAgent`, `Insert` and `Commit` are the executor thread inside
`_blocking` and `run_hire`. `Commit` may fail with or without having committed.
`CancelCheck` and `CancelSet` are the two halves of `cancel`. `StreamGet`,
`StreamTimeout` and `StreamGone` are the generator of one SSE connection;
`FetchStatus`, `FetchOutcome`, `FetchReceipt` are `snapshot` as the panel's
`finish` gets it, and `FetchFails` is its `null` (no answer, or one that is not 2xx),
which leaves the panel at "running" (`stuck`). `cut` says that `onerror` ended the
listening and no frame did. `Restart` forgets all but the database. `HireLifecycle` says the same
of a hire without loop, threads and panels: its status, whether a cancellation was
accepted, and its three rows, which `Record` stores at once.

Abstractions: a frame the server sends is handled by the browser in the same step (a
later delivery only delays the panel's own reaction); phase texts and values are left
out; one announced phase stands for the six before "persist"; ids are never drawn
twice; validation failures before `hires.start` create no hire and are not modelled.

### ReceiptAnchor, AnchorBatches, ReceiptLedger

`written`, `batchOf`, `anchoredTx` are the receipts rows with `batch_id` and
`anchored_tx`. A run of the script goes `CountUnbatched` (the SELECT),
`AssignBatch` (the UPDATE, committed), `ReadLeaves`, `ReadNonce`, `Send` or
`SendRaises`, `AwaitReceipt` or `AwaitRaises`, `RecordTx`: each a statement on the
database or a call to the node, with anything in between. PostgreSQL evaluates the
UPDATE's WHERE on committed rows, which is why `AssignBatch` looks at the rows of
that moment and not at the count. `page` is one `GET /receipts/{id}`, whose two
SELECTs are two steps.

Abstractions: a leaf list is the set of its receipts, since every read orders a batch
in the same way and the set fixes the list (`MerkleFold` treats the lists);
root and count stand for that set; the transaction pool accepts or refuses freely a
transaction whose nonce is taken; the chain does not reorganise; the owner admits no
account but the anchoring one; the branch for an unlocked development chain is left
out, and so is the script's final read-back, which changes nothing.

`ReceiptLedger` is the promise: receipts are written, grouped once, published at most
once per batch with exactly its members, recorded when published. `AnchorBatches`
implements it with `published` read off the event log and `recorded` off
`anchored_tx`; its WriteReceipt, AssignBatch, Mine and RecordTx are the ledger's four
actions and everything else is a stutter.

### MerkleFold

`Climb` is one turn of the loop of `merkle_proof` together with the same turn of
`merkle_root` (the loops build the same levels); `Publish` is `proof_for` handing out
proof and root; `Fold` and `Compare` are `verify_proof` and the browser's copy of it.
The keccak of two nodes in byte order is the unordered pair of the nodes: symmetric
and, as is assumed of keccak, without collisions. `path` is auxiliary: the nodes
between leaf and root.

### KlineCache

Time is counted in ticks and a candle's copy is the tick its contents were current
at; a closed candle's final copy is its close. `Ask` looks at the clock, `Read` at the
file, `FetchPage` is one request of `get_klines`' loop, answered by `Klines`
(Binance, external), `WriteOpen` truncates the file, `WriteClose` completes it.
Two writers at a time leave the rows of one of them or a torn file; a killed writer
leaves a torn file. Prices are left out: the tick of a copy fixes them.

### SentryScan, YieldGate

`SentryScan` looks at one token: `FindPair`, `Buy` and `Sell` are `simulate_trade`,
`Score` is the rest of `gather` with `score_report`, `ScanRaises` an exception that
`pcs_yield` turns into UNKNOWN. `Truth` says what a token is on the chain; each trade
and each read may fail on its own. `YieldGate` goes `Shortlist`, `OpenFork` (or no
fork), `NextToken` and `ScanToken` for each gated token, `CloseFork`, `Decide`.

Abstractions: the preliminary and the final ranking are arbitrary orders of the pools,
since the APR formulas are floating point; scores are integer percentages and weights
hundredths, with Python's rounding; the wait for a transaction is part of it; the text
of reasons and evidence is left out.

### GridReplay

`slot` and `gridAt` are the two loops over the slots inside the loop over the candles
of `simulate`, so that one fill is one step: `NextRow`, `BuySlot`, `SellSlot`, `Mark`.
`heldSince[i]` is the slot's `buy_idx`; the rest of a slot (`qty`, `cost_basis`) is a
function of the slot, because every buy spends the same size at the slot's own line.
`Mark` values the inventory at the close and asks the circuit breaker, in the order
of its reasons. `Line`, `Size` and the prices with slippage are integers rounded
down. The band comes from `calibrate_grid` as a constant: percentiles of closes are
floating point. `RowsEnd` is the end of the rows, of which observe hands over two at
least.

### GuardReplay

`Observe` is `observe` and `decide` (account, buffer, trigger, the larger of the asked
one and the one scaled by volatility); `Fall`, `Rebound` and `PathEnds` walk
the path of `_worst_drawdown_path`, which ends one row behind its trough; each row is a
`Step` of `replay_guarded` and of `replay_no_action` at once. `Liquidated`, `Penalty`
and `Saved` are what is computed after the loop. Ratios and health factors are per
cent, and a repayment is rounded up to a unit of money, where the code has floats.
The account is taken as it was read (`venus.account_health`).

### RangeReplay

A price is its logarithm, in parts of a tick, so that `price_to_tick`, `snap_down` and
`snap_up` are integer divisions with Python's rounding, negative ticks included.
`HourFee` and `Loss` are integers with the shape of `concentration_factor` and
`il_estimate`: a wider range earns less and loses less, a loss grows with the
volatility and with the age of the position. `SelectRange` is `observe` with `decide`,
`Hour` one turn of `simulate_rebalancer`: fees, the checkpoint or the exit from the
range, then `Hold` or `Rebalance` as `rebalance_decision` says. `heldIn` is a history
variable: at which volatilities this position was held.

### AgentRun

`agent` is what `build_agent` is asked for, and only that agent moves. Their
interaction is through the harness alone; the composition lets one run check them all.

### PaperLoop

`file[d]` is a state file: absent, empty, torn, or a record with the fields that matter
(deployment, cycles, last receipt, halted, status). `rec` is the record in the memory
of a script; `turn` the deployment whose turn it is. `Hire` is `run_hire` inside
`_cycle` together with the update of the record, `Truncate` and `Save` are the two
halves of `write_text`, `HireFails` and `SaveFails` the exceptions that the loop
swallows. `LoadFails` is what `_load_or_create` raises, outside every `try`: it ends the
script ("failed", where "over" means that `main` returned). A script that writes
over what another has written may leave the end of a longer record (`Written`), and a
write that raises may leave a part. Printing is taken not to raise. `Kill` loses the memory at any point; `StartScript` may reset. `run_grid`
and `run_rebalancer` serve one deployment and end on a halt, `run_paper_loops`
serves two in turn and skips the halted one. Whether a cycle halts is free: every
cycle replays the whole window on a grid calibrated anew.

### DataSources

`TokenBucket.take` is three actions, since it sleeps with its lock held: `Take`
(a token is there), `TakeSleeps`, `TakeWakes`. Time is in parts of what one token
takes to refill, and a sleeper may wake late. `Answer` and `Retry` are the attempts of
`request_json`; `AskProvider` is one provider of `multicall`. `window` is a history
variable: any moment from which the grants are counted.

### Harness

`hire[r]` holds the locals of `run_hire`: one action for each phase, and `Leave` for an
exception anywhere. `market` is what the sources answer now, and `Move` changes it
at any time. `AgentValue` and `BaselineValue` say what a policy and a baseline make of
an observation; the baselines `hodl` and `static_range` fetch the gas price again,
so theirs depends on the market of that moment in that term. `EnsureAgent` and
`Commit` are the two transactions. `Refresh` and `Upsert` are the SELECT and the
INSERT of `refresh_agent_stats()`, `Render` the second session that reads the row.
Values are integers; the rates of `agent_stats` are kept as counts. Validation that
ends a hire before anything is fetched leaves no trace and is no action.

## 3. The runs

| Run | Checks | Bounds and why they are enough |
|---|---|---|
| `hires` | `ReceiptComplete` `DoneIsDurable` `EndIsLast` `ImplementsLifecycle` `HireEnds` | two hires on one executor thread (one waits while the other runs), one restart; failures, cancels and unknown commits at every step |
| `hires_panels` | `SnapshotComplete` `PanelSettles` | one hire, two panels that share its queue (only one can take the sentinel), one restart; connections break and GETs fail |
| `anchor` | `TypeOK` `EventMatchesBatch` `OneEventPerBatch` `AnchoredIsOnChain` `PageMatchesChain` `BatchFrozen` `ImplementsLedger` | three receipts, two overlapping scripts, three batch ids (so a crashed run is followed by two more), two faults, three accounts; symmetric in receipts, ids and scripts, none of which the properties order |
| `anchor_eventually` | `EventuallyAnchored` (violated) | one receipt, one script, one fault |
| `merkle` | `VerifiesExactly` `RootFixesLeaves` | all lists of one to six leaves over three values: up to three levels, odd tails on the first, the second and both |
| `klines` | `NoGaps` `ReachesNow` `CallsEnd` | two callers, candles of two ticks, pages of two candles, windows of one and three days, two days of clock after the first (on and between the candles' openings), one killed call: cold and warm reads, full, short and empty pages, overlapping writers |
| `klines_closed` | `ClosedAreFinal` (violated) | one caller |
| `agents` | `AgentTypeOK`; gate: `CriticalNeverWins` `ScreenedFirst` `TopIsScreened` `UnsellableIsCritical` `SoldBackIsNotCritical`; grid: `BooksBalance` `CashFloor`; guard: `LiquidatedOnlyWhenSpent` `NeverHarms` `SmallestRepayment`; ranges: `FreshRangeHoldsPrice` `HeldStaysHeld` | gate: four pools in every order of both rankings; four tokens at the extremes of the scoring (the honest one with the worst marks, the trap with the best, a mint with and without verified source) and one allowed; the shortlist and the cut each leave something out. Grid: four slots, five candles of shapes that touch no, one or all lines from either side, or leave the band; slots that lose money on a round trip, so that the cash runs down. Guard: safe, risky and hopeless debts, buffers from none to ample, falls of up to five rows with a rebound. Ranges: six prices on both sides of zero, off the ticks, two volatilities whose ranges are narrower and wider than the spacing, six hours |
| `grid_dip` | `BoughtOnDip` (violated) | the same |
| `paper` | `FileMatchesReceipts` `EndsOnBreaker` `EveryTurnComes` | `run_grid` and `run_paper_loops` on the same grid deployment, two receipts, three starts: each script twice, overlapping, killed, reset |
| `sources` | `RateBound` `CallEnds` | two callers, so that one sleeps with the lock while the other waits, a bucket of two tokens, two attempts with backoffs of one and two, five calls: bursts, an empty bucket, waking late |
| `harness` | `BothWays` `StatsOfReceipts` `OneVerdict` | an agent whose metric is better when lower and one whose metric is better when higher, two market states that favour different sides, two hires, two receipts, two requests, two moves of the market; symmetric in hires and requests |

Every property of a passing run has a mutant, an operator in the module next to the
one it replaces, that models a plausible bug and breaks the property.

`CHECK_DEADLOCK FALSE` stands where the system may stop: everybody has hired and
watched, all receipts are anchored or stranded, the tree is verified, the agent's
run is over, every script has ended, or a bound is reached.

**Fairness.** `Hires`: the loop runs its callbacks; a thread that has work is
scheduled, and every blocking call returns or raises because the HTTP clients carry
timeouts (`sources/_http.py:13`); the 30 s timer of a stream fires; the browser's
requests end, with an answer or without. Nobody is assumed to hire, cancel, watch,
disconnect, lose a request or restart. `KlineCache`: a running call goes on, a request is answered or raises.
`DataSources`: time passes and a caller that can go on does; a request ends because of
its timeout; nobody has to call, and the service may fail for ever.
`PaperLoop`: a script that runs goes on; nobody has to start one, and hires and saves
may fail every time. `AgentRun` and `Harness` state no liveness.
`AnchorBatches!FairSpec` grants more than the code has (the script is run again for
ever, transactions are mined, the account is a writer), so that the violation of
`EventuallyAnchored` does not come from missing fairness.

**What the violated runs show.**

* A crash, revert or timeout after `create_batch` strands the batch: only receipts
  without a batch id are ever batched, and nothing resubmits a batch.
* The candle that is open when it is fetched stays in the cache with the values of
  that moment; the next fetch starts behind it.
* The grid replay fills a buy at its line in a candle that lies wholly below the line
  (`sim.py:109` asks for the low only), at a price above everything that candle traded
  at. Nobody gains by it: the fill is dearer than the market. But the price had not
  "dipped to" the line (`sim.py:107`).

**Other disagreements** found on the way, without a run of their own:

* `README.md:96` has the hire panel show result, advantage and receipt link on
  completion. It does so only if nothing fails on the way. A connection that breaks
  ends the panel's interest with whatever the status is then, "running" too, and it
  never looks again (`HirePanel.tsx:65-68`). A GET that gets no answer, or one that is
  not 2xx (`apps/web/lib/api.ts:103-111`), as the 404 after a restart of the server,
  leaves the panel at "running…" for ever (`HirePanel.tsx:73` and `:148`).
  `PanelSettles` is what remains true: it excuses these two cases and no other.
* `README.md:130` has every candidate pass through the security agent; the code scans
  only the tokens of a shortlist, cut to eight (`pcs_yield/agent.py:108-119`).
* `scoring.py:87-88` promises a hard fail for a mint held by an account on unverified
  source; `checks.py:133` looks for mints only in verified source, so the branch at
  `scoring.py:97` is dead.
* `spec.md:238` says that cancelling halts a run; a cancellation accepted after the run
  has started stops nothing (`hires.py:104`). A cancelled hire that had not started
  ends as "failed" (`hires.py:104-116`).
* The receipt page compares with a root computed from the database and says "anchored
  root" for batches that no event announces (`MerkleVerifier.tsx:54`, `README.md:97-98`).
* `ReceiptAnchor.sol:35` speaks of a monotonic counter, the ids are uuid4
  (`anchor.py:117`); `anchor.py:45` says odd nodes are promoted, line 53 pairs them with
  themselves; "halted" is listed as a status of a run and never assigned.
* `baselines.py:3` and `report.py:273` say that both ways run on the same snapshot; two
  baselines fetch gas and BNB prices again (`baselines.py:74`, `baselines.py:101`).
  `BothWays` allows exactly that difference.
* The guard's alert says that guarding prevents the liquidation whenever the account
  left alone is liquidated, also when the guarded one is (`venus_guard/agent.py:205-210`),
  and its delta is the saving minus the negative penalty, which counts the penalty twice.
* When saving fails after the breaker tripped, the exception is taken for a failed cycle
  and the deployment cycles on (`run_grid.py:121`).
* The rebalancer's first range is centred on the pool's current price although the
  replay starts at the beginning of the window; it sends transactions at tier 2 and
  records none (`pcs_rebalancer/agent.py:205-209`), though no caller passes the signer.
* `bscscan.py:8` says that calls run at four a second; a full bucket lets four more
  through in the first second, and each process has a bucket of its own for the one key.
  `_http.py:20` says that client errors are raised at once; 429 is retried.
* `refresh_agent_stats` is said to be called every 60 s (migration 0001, line 134); only
  page requests call it, and a slow refresh may overwrite newer rows until the next
  one. Its win rate and worst delta ignore that less may be better: the security
  agent's card never shows a win that the receipts and the report count.

## 4. The proofs

Every invariant and every action property that a run checks is also a theorem about its
module's specification, for all values of the constants; so are the two refinements.
`PROJECT.json` lists the theorems. Each proof strengthens the property to an inductive
invariant, shows that every action keeps it, and reads the property off it. What the
invariants had to add is below; the assumptions are those on the constants.

**`Hires_proofs`**: `ReceiptComplete`, `DoneIsDurable`, `EndIsLast`, `SnapshotComplete`,
`TerminalIsFinal` and the
refinement `ImplementsLifecycle`, for any hires, executor threads, panels and restarts. The invariant
has one part for each place where they meet. `Tasks`: a hire has at most one callback
that is not an event, and one that fits where it stands. `Standing`: a thread works only
for a running hire, and at which stages. `Transaction`: rows are inserted in their order
and committed together, so that a hire has all its rows or none. `Published`: outcome,
identifiers and status are assigned after the commit, in this order. `Sentinel`: the
sentinel is scheduled once the hire has ended, with nothing behind it. `Watched`: what a
panel has still to read of a hire it saw done is there. None is inductive without the
others. The refinement maps `Start` to `Order`, the callbacks of `_run` to `Begin`, `Conclude` and `Fail`, a
commit to `Record`, acknowledged or not, `CancelSet` to `Ask` and a restart to `Forget`; all else
is a stutter. It needs that a cancel request past its check belongs to a hire the server
still knows (`Checked`). `TerminalIsFinal` is in no run of its own: the lifecycle implies
it. Assumption: `HiresAssumption`.

**`KlineCache_proofs`**: `NoGaps`, `ReachesNow`, for any number of callers, interval,
window, page size and clock. The file, and what a call read or collected, is a convex
set of openings (`Convex`), which merging keeps because a walk starts right behind what
it read (`Held`) and each page starts right behind the page before. `ReachesNow` needs a
count: the limit that `read_klines` passes has two candles to spare over what the clock
can have opened when the walk began (`Walking`), so that the walk ends because a page is
short and not at its limit. `UpToDate` says how far a finished walk got.
Assumption: `KlineAssumption`.

**`AnchorBatches_proofs`**: `TypeOK`, `EventMatchesBatch`, `OneEventPerBatch`,
`AnchoredIsOnChain`, `PageMatchesChain`, `BatchFrozen` and the refinement
`ImplementsLedger`. That an event matches its batch needs that a run's leaves are still
the batch's members when it sends (`RunsHonest`), which needs that nobody else uses its
batch id (`IdsOwned`), and that the pool holds no second transaction for the batch
(`TxsHonest`); that a stranger's call leaves no event needs `OnlyAnchorerWrites`. The
refinement maps each step to a ledger step under this invariant. Assumptions:
`AnchorAssumption`, `BatchesAssumption`.

**`MerkleFold_proofs`**: `VerifiesExactly`, `RootFixesLeaves`, for batches of every size.
The invariant follows the path: each node on it is the hash of the one below and its
sibling (`PathHashes`), and the verifier is on the path if and only if it started on it
(`OnPath`), which rests on two lemmas about the hash: it is symmetric, and with one
child fixed the other determines it. `RootFixesLeaves` is an induction on the levels:
the levels of two batches of one size have the same widths (`SameWidths`), the nodes of
a level are the union of the pairs above (`NextLevelCovers`), so that equal roots make
all levels have equal nodes, down to the leaves. Assumption: `MerkleAssumption`, that no
list is empty. That keccak has no collisions is in the model, as `HashPair`.

**`Agents_proofs`**: all properties of the run `agents`. The gate: before `Decide` there is
no winner, afterwards nothing moves, and the first of an order that names every pool (a
counting argument on injections) is best; the gate's tokens contain those of the first
pool, because the earliest places survive the cut (`TopIsScreened`). The scan: a failed
sale is a hard fail, and a token that was sold back has enough marks that no missing
check brings the weighted mean below 40 (`SoldBackIsNotCritical`, with the weights of
the code). The grid: buying moves the cost of a slot from cash to the held slots and
selling moves it back with the result, by cardinality of the held slots
(`BooksBalance`); `CashFloor` is proved under the hypothesis `SalesPay`, that a sale
brings in at least its gas: a sale that does not takes cash, and then no floor holds.
The guard: debt, repayments and buffer add up (`DebtAccounted`), the account left alone
is liquidated exactly if its debt is under water at the lowest price so far
(`NoActionAtLowest`), and unless the buffer is spent the guarded account is at its
trigger there (`TriggerKept`), which is above 1. The ranges: snapping moves a bound
outwards, for any spacing and sign, and each volatility at which the position was held
would be refused again now, since `Loss` grows with the age (`HeldInv`). The
composition: a run of `AgentRun` is a run of each agent's own specification
(`RunsAreReplays`), so every property above holds of it, and `AgentTypeOK` with them.
Assumptions: `GateAssumption`, `ScanAssumption`, `GridAssumption`, `GuardAssumption`
(whose `AskedHf > 100` is the bound of the input in the manifest), `RangeAssumption`.

**`DataSources_proofs`**: `RateBound` for any number of threads and any capacity. The
invariant is an account (`WindowCovered`): the tokens granted in the window, the ones in
the bucket and the ones that will have flowed in by now never exceed the capacity and
the length of the window. It needs that who sleeps holds the lock (`SleeperHolds`), so
that no one else draws on the refill it waits for, and that the bucket's clock does
not run ahead (`ClocksInOrder`). Assumption: `SourcesAssumption`.

**`PaperLoop_proofs`**: `FileMatchesReceipts`, `EndsOnBreaker`, for any scripts,
deployments and orders. What a file says it got from a memory, so the same must hold of
every record in memory (`MemoryMatches`); cycles are counted against the receipts of the
record's deployment, one more with each receipt (finite cardinalities); and a record
whose status is "halted" has the receipt that says why, even after a failed save made
the deployment cycle on. `EndsOnBreaker` is about the two ways out of a script: it
comes to its end on such a receipt, and an exception leaves it only before it cycles.
Assumption: `PaperAssumption`.

**`Harness_proofs`**: `BothWays`, `StatsOfReceipts`, `OneVerdict`, for any agents, markets,
hires and requests. Every phase keeps what it got from the observation (`AllMeasured`),
and a receipt's keys stay those of its own two runs while others commit in between
(`KeysExist`). A row of `agent_stats` counts runs and receipts in two ways; both sets
grow by one in the same transaction (`Counted`), and what a request has read and not yet
written is the row of an earlier moment, which later commits do not change
(`ReadRows`, `StatsStand`). `OneVerdict` then compares sets of receipts. Assumptions:
`HarnessAssumption` and `MetricAssumption`: the list of metrics in `queries.py:167` agrees
with `higher_is_better` in the manifests. Nothing in the code enforces it; the
manifests of the repository satisfy it, and the verdicts of the receipt page and the
report would part if one did not.

**Induction over data.** The library's induction theorems take an operator as a parameter,
which no installed prover can instantiate. The two recursive functions in the models are
reasoned about all the same, with the least number of a set, which exists because the
order of the naturals is well-founded: that the function exists, and what it computes
(`SumsExist`, `SumsAreNumbers` for the grid's inventory; `Upwards`, `Downwards`,
`LevelsExist` for the levels of the tree).

**Only model-checked**: liveness, since no prover here reasons about fairness or
ENABLED: `HireEnds`, `PanelSettles`, `CallsEnd`, `EveryTurnComes`, `CallEnds`. The type
invariants of `Hires`, `KlineCache` and `MerkleFold` are theorems and in no run, that of
`AnchorBatches` is both, those of the agents are in `AgentTypeOK`, and the remaining
modules have theirs as a part of the proofs' invariants.

## 5. Not modelled, and the plan

Left out, with the reason:

* Floating-point formulas: APR, impermanent loss, realized volatility, percentiles of
  the grid's band, the valuations of `hodl`, `static_range` and `top_headline_apr`.
  TLC and the provers cannot evaluate them; the models keep their shape or take their
  results as constants.
* What only requests, decodes or renders: `subgraph.py`, `llama.py`, the typed readers of
  `rpc.py` and `venus.py`, web pages other than the hire panel, the PDF.
* Tier 2: opening positions (`npm.py`) and sending swaps need a signer that no caller
  passes, so that a hire at tier 2 always ends with `TierViolation`.
* `hot_json`, the redis cache of `cache.py`: nothing in the repository calls it.
* `jobs.py`, which is empty; `persist=False`; `--once`; probes and one-shot scripts that
  write fixtures (`measure_gas.py`, `measure_v3_gas.py`, `run_security_testset.py`).
* Reorganisations of the chain after a receipt of a transaction was seen.

Next:

1. `AccountHealth`: the read of a Venus account whose parts may fail one by one, each
   failure counting as zero, in front of `GuardReplay`.
2. `PaperLoop` over `Harness`: the receipts of the loops as rows of the tables, with the
   restart of the database.
