------------------------------ MODULE Harness ------------------------------
(***************************************************************************)
(* orchestrator/harness.run_hire and what is made of the rows it commits.    *)
(* Hires run at the same time (threads of the API, scripts) while the data    *)
(* sources move on; each observes once, runs the agent and its baseline on    *)
(* that observation, and commits two runs and a receipt. Pages are requested  *)
(* meanwhile: a request recomputes agent_stats and then reads it back, and    *)
(* the report reads the receipts themselves.                                  *)
(***************************************************************************)
EXTENDS Integers, Sequences, FiniteSets, FiniteSetsExt

CONSTANTS
  Agents,
  Manifest,      \* Manifest[a]: tiers, killSwitch, metric, higherIsBetter
  Opens,         \* agents whose tier 2 act opens a position (pcs-rebalancer)
  Data,          \* what the sources may answer
  AgentValue,    \* AgentValue[a][d]: results the agent's policy may have on d; more
                 \* than one when the clock measures them (bsc-sentry)
  BaselineValue, \* BaselineValue[a][d][g]: that of its baseline on d when gas costs
                 \* what it does in g, or Missing
  PricesGas,     \* agents whose baseline prices gas by itself (hodl, static_range)
  Missing,       \* BaselineIncomplete
  Runners,
  Requests,
  MaxReceipts,   \* bound: receipts committed
  MaxMoves,      \* bound: changes of the market
  MaxHires       \* bound: hires begun

ASSUME HarnessAssumption ==
  /\ Agents # {} /\ Data # {} /\ Opens \subseteq Agents /\ PricesGas \subseteq Agents
  /\ \A a \in Agents : Manifest[a].tiers \subseteq 0..2
  /\ \A a \in Agents : Manifest[a].higherIsBetter \in BOOLEAN
  /\ AgentValue \in [Agents -> [Data -> SUBSET Int]]
  /\ BaselineValue \in [Agents -> [Data -> [Data -> Int \cup {Missing}]]]
  /\ {MaxReceipts, MaxMoves, MaxHires} \subseteq Nat

VARIABLES
  market,    \* what the sources answer now
  hire,      \* hire[r]: the locals of run_hire
  agents,    \* table agents
  runs,      \* table runs, in commit order
  receipts,  \* table receipts
  stats,     \* table agent_stats
  request,   \* request[q]
  moves, begun

harnessVars == <<market, hire, agents, runs, receipts, stats, request, moves, begun>>

NoRow == [n |-> 0, wins |-> 0, worst |-> 0]

Idle == [at |-> "idle", agent |-> CHOOSE a \in Agents : TRUE, tier |-> 0,
         obs |-> CHOOSE d \in Data : TRUE, value |-> 0, base |-> 0, receipt |-> 0]

\* Manifest._tier_rules: a manifest it refuses makes the agent unavailable.
Available(a) == 2 \in Manifest[a].tiers => Manifest[a].killSwitch

NotAsked == [at |-> "idle", rows |-> <<>>]

HarnessInit ==
  /\ market \in Data
  /\ hire = [r \in Runners |-> Idle]
  /\ agents = {} /\ runs = <<>> /\ receipts = <<>>
  /\ stats = [a \in Agents |-> NoRow]
  /\ request = [q \in Requests |-> NotAsked]
  /\ moves = 0 /\ begun = 0

\* The world goes on (external).
Move ==
  /\ moves < MaxMoves
  /\ moves' = moves + 1
  /\ market' \in Data \ {market}
  /\ UNCHANGED <<hire, agents, runs, receipts, stats, request, begun>>

\* A server that starts lists the valid manifests in `agents`, one commit each.
SyncRegistry ==
  /\ \E a \in Agents \ agents : Available(a) /\ agents' = agents \cup {a}
  /\ UNCHANGED <<market, hire, runs, receipts, stats, request, moves, begun>>

-----------------------------------------------------------------------------
(* run_hire.                                                                *)

\* A tier the agent does not offer, inputs with errors, or tier 2 without a
\* signer end the hire before anything is fetched; the others begin.
Begin(r) ==
  /\ hire[r].at = "idle" /\ begun < MaxHires
  /\ begun' = begun + 1
  /\ \E a \in {a \in Agents : Available(a)} : \E tier \in Manifest[a].tiers :
       hire' = [hire EXCEPT ![r] = [Idle EXCEPT !.at = "observe", !.agent = a, !.tier = tier]]
  /\ UNCHANGED <<market, agents, runs, receipts, stats, request, moves>>

\* observe: everything the hire will know of the world.
Observe(r) ==
  /\ hire[r].at = "observe"
  /\ hire' = [hire EXCEPT ![r].at = "act", ![r].obs = market]
  /\ UNCHANGED <<market, agents, runs, receipts, stats, request, moves, begun>>

\* report: with the position opened for real there is no simulation to report.
Reported(h) == IF h.agent \in Opens /\ h.tier = 2 THEN {0} ELSE AgentValue[h.agent][h.obs]

\* decide and act, which work on the observation alone, and report. What act
\* sends at tier 2 leaves no trace in the rows.
Act(r) ==
  /\ hire[r].at = "act"
  /\ \E value \in Reported(hire[r]) :
       hire' = [hire EXCEPT ![r].at = "baseline", ![r].value = value]
  /\ UNCHANGED <<market, agents, runs, receipts, stats, request, moves, begun>>

\* Mutant of BaselineOn: the baseline fetches for itself.
BaselineOnMarket(h) == BaselineValue[h.agent][market][market]

\* run_baseline(manifest.baseline, obs, manifest): all of it from the observation,
\* but for gas_cost_usd, which asks for the gas price and BNB's of this moment.
BaselineOn(h) ==
  BaselineValue[h.agent][h.obs][IF h.agent \in PricesGas THEN market ELSE h.obs]

Baseline(r) ==
  /\ hire[r].at = "baseline"
  /\ hire' = IF BaselineOn(hire[r]) = Missing THEN [hire EXCEPT ![r] = Idle]
             ELSE [hire EXCEPT ![r].at = "persist", ![r].base = BaselineOn(hire[r])]
  /\ UNCHANGED <<market, agents, runs, receipts, stats, request, moves, begun>>

\* _persist commits the agent's row by itself (ensure_agent) ...
EnsureAgent(r) ==
  /\ hire[r].at = "persist"
  /\ agents' = agents \cup {hire[r].agent}
  /\ hire' = [hire EXCEPT ![r].at = "insert"]
  /\ UNCHANGED <<market, runs, receipts, stats, request, moves, begun>>

RunRow(h, kind) == [agent |-> h.agent, kind |-> kind, tier |-> h.tier, snap |-> h.obs]

ReceiptRow(h) ==
  [agentRun |-> Len(runs) + 1, baselineRun |-> Len(runs) + 2,
   agentValue |-> h.value, baselineValue |-> h.base, delta |-> h.value - h.base]

\* Mutant of Commit: the runs are committed before the receipt is inserted.
CommitRunsFirst(r) ==
  /\ hire[r].at = "insert" /\ Len(receipts) < MaxReceipts
  /\ runs' = runs \o <<RunRow(hire[r], "agent"), RunRow(hire[r], "baseline")>>
  /\ \/ /\ receipts' = Append(receipts, ReceiptRow(hire[r]))
        /\ hire' = [hire EXCEPT ![r].at = "done", ![r].receipt = Len(receipts')]
     \/ UNCHANGED receipts /\ hire' = [hire EXCEPT ![r] = Idle]
  /\ UNCHANGED <<market, agents, stats, request, moves, begun>>

\* ... and then the two runs and the receipt in one transaction.
Commit(r) ==
  /\ hire[r].at = "insert" /\ Len(receipts) < MaxReceipts
  /\ runs' = runs \o <<RunRow(hire[r], "agent"), RunRow(hire[r], "baseline")>>
  /\ receipts' = Append(receipts, ReceiptRow(hire[r]))
  /\ hire' = [hire EXCEPT ![r].at = "done", ![r].receipt = Len(receipts')]
  /\ UNCHANGED <<market, agents, stats, request, moves, begun>>

\* Any step may raise instead (a source, the agent, the database), and the
\* caller gets the exception; after "done" it gets the outcome.
Leave(r) ==
  /\ hire[r].at # "idle"
  /\ hire' = [hire EXCEPT ![r] = Idle]
  /\ UNCHANGED <<market, agents, runs, receipts, stats, request, moves, begun>>

-----------------------------------------------------------------------------
(* What pages and the report make of the tables.                            *)

AgentOf(receipt) == runs[receipt.agentRun].agent

\* The receipts of an agent, by their numbers.
Of(a) == {i \in DOMAIN receipts : AgentOf(receipts[i]) = a}

Deltas(own) == {receipts[i].delta : i \in own}

MinOf(S) == IF S = {} THEN 0 ELSE Min(S)
MaxOf(S) == IF S = {} THEN 0 ELSE Max(S)

\* refresh_agent_stats(): one row for each agent of the table. The rates are
\* fractions of n in the code.
StatsOf(a) ==
  [n     |-> Cardinality({i \in DOMAIN runs : runs[i].agent = a /\ runs[i].kind = "agent"}),
   wins  |-> Cardinality({i \in Of(a) : receipts[i].delta > 0}),
   worst |-> MinOf(Deltas(Of(a)))]

\* A page is asked for: the statement sees the rows committed when it begins ...
Refresh(q) ==
  /\ request[q].at = "idle"
  /\ request' = [request EXCEPT ![q] =
       [at |-> "write", rows |-> [a \in agents |-> StatsOf(a)]]]
  /\ UNCHANGED <<market, hire, agents, runs, receipts, stats, moves, begun>>

\* ... and overwrites agent_stats when it gets the rows' locks.
Upsert(q) ==
  /\ request[q].at = "write"
  /\ stats' = [a \in Agents |->
                 IF a \in DOMAIN request[q].rows THEN request[q].rows[a] ELSE stats[a]]
  /\ request' = [request EXCEPT ![q].at = "read"]
  /\ UNCHANGED <<market, hire, agents, runs, receipts, moves, begun>>

\* _stats_row reads in a session of its own, and the page is rendered.
Render(q) ==
  /\ request[q].at = "read"
  /\ request' = [request EXCEPT ![q] = NotAsked]
  /\ UNCHANGED <<market, hire, agents, runs, receipts, stats, moves, begun>>

\* Three definitions of favourable: the harness's goes by the manifest ...
Favorable(delta, a) ==
  delta # 0 /\ IF Manifest[a].higherIsBetter THEN delta > 0 ELSE delta < 0

\* Mutant of ShownFavorable: the receipt page thinks that more is better.
ShownFavorableByDelta(receipt) == receipt.delta > 0

LowerIsBetter == {"wall_seconds"}

\* What the manifests of the repository say of their metrics (manifest.yaml,
\* advantage_metric): the page's list is right about each of them.
ASSUME MetricAssumption ==
  \A a \in Agents : Manifest[a].higherIsBetter <=> Manifest[a].metric \notin LowerIsBetter

\* ... that of the receipt page by the metric's name ...
ShownFavorable(receipt) ==
  receipt.delta # 0 /\ IF Manifest[AgentOf(receipt)].metric \in LowerIsBetter
                         THEN receipt.delta < 0 ELSE receipt.delta > 0

\* ... and the report's by the manifest again.
Won(delta, a) == IF Manifest[a].higherIsBetter THEN delta > 0 ELSE delta < 0

\* report._task_for_group.
Task(a) ==
  [n     |-> Cardinality(Of(a)),
   wins  |-> Cardinality({i \in Of(a) : Won(receipts[i].delta, a)}),
   worst |-> IF Manifest[a].higherIsBetter THEN MinOf(Deltas(Of(a))) ELSE MaxOf(Deltas(Of(a)))]

HireStep(r) ==
  \/ Begin(r) \/ Observe(r) \/ Act(r) \/ Baseline(r)
  \/ EnsureAgent(r) \/ Commit(r) \/ Leave(r)

PageStep(q) == Refresh(q) \/ Upsert(q) \/ Render(q)

HarnessNext ==
  \/ Move \/ SyncRegistry
  \/ \E r \in Runners : HireStep(r)
  \/ \E q \in Requests : PageStep(q)

HarnessSpec == HarnessInit /\ [][HarnessNext]_harnessVars

-----------------------------------------------------------------------------
(* Properties.                                                              *)

\* What the baseline of an agent may come to on an observation.
BaselineValues(a, d) == {BaselineValue[a][d][g] : g \in IF a \in PricesGas THEN Data ELSE {d}}

\* What a receipt says of its two runs.
Comparison(receipt, agentRun, baselineRun) ==
  LET a == agentRun.agent
  IN /\ agentRun.kind = "agent" /\ baselineRun.kind = "baseline"
     /\ baselineRun.agent = a /\ baselineRun.tier = agentRun.tier
     /\ baselineRun.snap = agentRun.snap
     /\ receipt.agentValue \in IF a \in Opens /\ agentRun.tier = 2 THEN {0}
                               ELSE AgentValue[a][agentRun.snap]
     /\ receipt.baselineValue \in BaselineValues(a, agentRun.snap)

\* "Both ways on the same data": whatever the world does during the hire, the two
\* values of a receipt are those of the agent and of its baseline on the one
\* snapshot that both of its runs carry (harness.py:126-146). What a baseline that
\* prices gas pays for it is the only number of another moment.
BothWays ==
  \A i \in DOMAIN receipts :
    Comparison(receipts[i], runs[receipts[i].agentRun], runs[receipts[i].baselineRun])

\* A row of agent_stats is always that of the receipts that were committed at
\* some moment: failing hires and refreshes that overlap leave no run counted
\* without its receipt and no mixture of two moments.
StatsOfReceipts ==
  \A a \in Agents : \E k \in 0..Len(receipts) :
    LET own == {i \in Of(a) : i <= k}
    IN stats[a] = [n     |-> Cardinality(own),
                   wins  |-> Cardinality({i \in own : receipts[i].delta > 0}),
                   worst |-> MinOf(Deltas(own))]

\* The hirer, the receipt's page and the report agree on who won
\* (harness.py:93, queries.py:170, report.py:81). So does the agent's card when
\* it counts the same receipts, if more of the metric is better: agent_stats
\* takes a positive delta for a win and the least for the worst of all metrics.
OneVerdict ==
  /\ \A r \in Runners : hire[r].at = "done" =>
       LET receipt == receipts[hire[r].receipt]
       IN Favorable(hire[r].value - hire[r].base, hire[r].agent) <=> ShownFavorable(receipt)
  /\ \A a \in Agents :
       /\ Task(a).wins = Cardinality({i \in Of(a) : ShownFavorable(receipts[i])})
       /\ Manifest[a].higherIsBetter /\ stats[a].n = Task(a).n => stats[a] = Task(a)
=============================================================================
