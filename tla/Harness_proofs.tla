--------------------------- MODULE Harness_proofs ---------------------------
(***************************************************************************)
(* A receipt compares an agent and its baseline on one observation, for any  *)
(* number of concurrent hires and whatever the data sources answer.          *)
(***************************************************************************)
EXTENDS Harness, FiniteSetTheorems, TLAPS

USE HarnessAssumption

RunRows == [agent : Agents, kind : {"agent", "baseline"}, tier : 0..2, snap : Data]

ReceiptRows == [agentRun : Nat, baselineRun : Nat,
                agentValue : Int, baselineValue : Int, delta : Int]

Stages == {"idle", "observe", "act", "baseline", "persist", "insert", "done"}

Hires == [at : Stages, agent : Agents, tier : 0..2, obs : Data,
          value : Int, base : Int, receipt : Nat]

TablesOK ==
  /\ market \in Data
  /\ hire \in [Runners -> Hires]
  /\ runs \in Seq(RunRows)
  /\ receipts \in Seq(ReceiptRows)

\* What a hire has measured, it has measured on its own observation.
Measured(h) ==
  /\ h.at \in {"baseline", "persist", "insert"} => h.value \in Reported(h)
  /\ h.at \in {"persist", "insert"} => h.base \in Int /\ h.base \in BaselineValues(h.agent, h.obs)

AllMeasured == \A r \in Runners : Measured(hire[r])

\* A receipt's foreign keys are rows of the table.
KeysExist ==
  \A i \in DOMAIN receipts :
    {receipts[i].agentRun, receipts[i].baselineRun} \subseteq DOMAIN runs

HarnessInv == TablesOK /\ AllMeasured /\ KeysExist /\ BothWays

LEMMA IdleIsHire == Idle \in Hires
  BY DEF Idle, Hires, Stages

LEMMA ReportedInt == \A h \in Hires : Reported(h) \subseteq Int
  BY DEF Reported, Hires

\* A baseline that is not missing something comes to one of its values.
LEMMA BaselineOnObservation ==
  ASSUME market \in Data, NEW h \in Hires, BaselineOn(h) # Missing
  PROVE  BaselineOn(h) \in Int /\ BaselineOn(h) \in BaselineValues(h.agent, h.obs)
<1> DEFINE gas == IF h.agent \in PricesGas THEN market ELSE h.obs
<1>1. h.agent \in Agents /\ h.obs \in Data /\ gas \in Data
  BY DEF Hires
<1>2. BaselineOn(h) = BaselineValue[h.agent][h.obs][gas]
  BY DEF BaselineOn
<1>3. BaselineValue[h.agent][h.obs][gas] \in Int \cup {Missing}
  BY <1>1
<1>4. BaselineValue[h.agent][h.obs][gas] \in BaselineValues(h.agent, h.obs)
  BY <1>1 DEF BaselineValues
<1> QED BY <1>2, <1>3, <1>4

\* A step that changes no row and leaves each hire measured.
LEMMA RowsKept ==
  ASSUME HarnessInv, UNCHANGED <<runs, receipts>>, market' \in Data,
         hire' \in [Runners -> Hires], AllMeasured'
  PROVE  HarnessInv'
  BY DEF HarnessInv, TablesOK, KeysExist, BothWays

\* A step of one hire.
LEMMA OneHire ==
  ASSUME HarnessInv, NEW r \in Runners, NEW h \in Hires, Measured(h),
         hire' = [hire EXCEPT ![r] = h]
  PROVE  hire' \in [Runners -> Hires] /\ AllMeasured'
<1>1. hire \in [Runners -> Hires]
  BY DEF HarnessInv, TablesOK
<1>2. \A s \in Runners : hire'[s] = IF s = r THEN h ELSE hire[s]
  BY <1>1
<1>3. AllMeasured'
  <2> SUFFICES ASSUME NEW s \in Runners PROVE Measured(hire'[s])
    BY DEF AllMeasured, Measured, Reported
  <2>1. Measured(hire[s])
    BY DEF HarnessInv, AllMeasured
  <2> QED BY <1>2, <2>1
<1> QED BY <1>1, <1>3

\* The stages before the insert: one hire changes, the rows do not.
LEMMA HireKept ==
  ASSUME HarnessInv, NEW r \in Runners, NEW h \in Hires, Measured(h),
         hire' = [hire EXCEPT ![r] = h], UNCHANGED <<market, runs, receipts>>
  PROVE  HarnessInv'
BY OneHire, RowsKept DEF HarnessInv, TablesOK

LEMMA InitHarnessInv == HarnessInit => HarnessInv
<1> SUFFICES ASSUME HarnessInit PROVE HarnessInv
  OBVIOUS
<1>1. TablesOK
  BY IdleIsHire DEF HarnessInit, TablesOK
<1>2. AllMeasured
  BY DEF HarnessInit, AllMeasured, Measured, Idle
<1>3. KeysExist /\ BothWays
  BY DEF HarnessInit, KeysExist, BothWays
<1> QED BY <1>1, <1>2, <1>3 DEF HarnessInv

\* The insert: two runs and the receipt that compares them.
LEMMA CommitKeeps ==
  ASSUME HarnessInv, NEW r \in Runners, Commit(r)
  PROVE  HarnessInv'
<1> DEFINE h == hire[r]
           agentRow == RunRow(h, "agent")
           baselineRow == RunRow(h, "baseline")
           receipt == ReceiptRow(h)
<1>1. /\ hire \in [Runners -> Hires] /\ h \in Hires /\ market \in Data
      /\ runs \in Seq(RunRows) /\ receipts \in Seq(ReceiptRows)
  BY DEF HarnessInv, TablesOK
<1>2. h.at = "insert" /\ h.value \in Reported(h) /\ h.base \in BaselineValues(h.agent, h.obs)
  BY DEF HarnessInv, AllMeasured, Measured, Commit
<1>3. agentRow \in RunRows /\ baselineRow \in RunRows /\ receipt \in ReceiptRows
  BY <1>1 DEF RunRow, ReceiptRow, RunRows, ReceiptRows, Hires
<1>4. /\ runs' = runs \o <<agentRow, baselineRow>>
      /\ receipts' = Append(receipts, receipt)
      /\ hire' = [hire EXCEPT ![r] = [h EXCEPT !.at = "done", !.receipt = Len(receipts')]]
      /\ market' = market
  BY DEF Commit
<1>5. Comparison(receipt, agentRow, baselineRow)
  <2>1. /\ agentRow = [agent |-> h.agent, kind |-> "agent", tier |-> h.tier, snap |-> h.obs]
        /\ baselineRow = [agent |-> h.agent, kind |-> "baseline", tier |-> h.tier, snap |-> h.obs]
        /\ receipt.agentValue = h.value /\ receipt.baselineValue = h.base
    BY DEF RunRow, ReceiptRow
  <2> HIDE DEF agentRow, baselineRow, receipt
  <2> QED BY <1>2, <2>1 DEF Comparison, Reported
<1>6. receipt.agentRun = Len(runs) + 1 /\ receipt.baselineRun = Len(runs) + 2
  BY DEF ReceiptRow
<1> HIDE DEF agentRow, baselineRow, receipt
<1>7. /\ runs' \in Seq(RunRows) /\ Len(runs') = Len(runs) + 2
      /\ \A k \in DOMAIN runs : runs'[k] = runs[k]
      /\ runs'[Len(runs) + 1] = agentRow /\ runs'[Len(runs) + 2] = baselineRow
  BY <1>1, <1>3, <1>4
<1>8. /\ receipts' \in Seq(ReceiptRows) /\ Len(receipts') = Len(receipts) + 1
      /\ \A i \in DOMAIN receipts : receipts'[i] = receipts[i]
      /\ receipts'[Len(receipts')] = receipt
  BY <1>1, <1>3, <1>4
<1>9. hire' \in [Runners -> Hires] /\ AllMeasured'
  <2> DEFINE done == [h EXCEPT !.at = "done", !.receipt = Len(receipts')]
  <2>1. Len(receipts') \in Nat
    BY <1>1, <1>8
  <2>2. done \in Hires
    BY <1>1, <2>1 DEF Hires, Stages
  <2>3. done.at = "done"
    BY <1>1 DEF Hires
  <2>4. Measured(done)
    BY <2>3 DEF Measured
  <2> QED BY <2>2, <2>4, <1>4, OneHire
<1>10. TablesOK'
  BY <1>1, <1>4, <1>7, <1>8, <1>9 DEF TablesOK
<1>11. \A i \in DOMAIN receipts' : i \in DOMAIN receipts \/ i = Len(receipts')
  BY <1>1, <1>8
<1>12. KeysExist'
  <2> SUFFICES ASSUME NEW i \in DOMAIN receipts'
               PROVE  {receipts'[i].agentRun, receipts'[i].baselineRun} \subseteq DOMAIN runs'
    BY DEF KeysExist
  <2>1. CASE i \in DOMAIN receipts
    BY <2>1, <1>1, <1>7, <1>8 DEF HarnessInv, KeysExist
  <2>2. CASE i = Len(receipts')
    BY <2>2, <1>1, <1>6, <1>7, <1>8
  <2> QED BY <2>1, <2>2, <1>11
<1>13. BothWays'
  <2> SUFFICES ASSUME NEW i \in DOMAIN receipts'
               PROVE  Comparison(receipts'[i], runs'[receipts'[i].agentRun],
                                 runs'[receipts'[i].baselineRun])
    BY DEF BothWays
  <2>1. CASE i \in DOMAIN receipts
    BY <2>1, <1>7, <1>8 DEF HarnessInv, KeysExist, BothWays
  <2>2. CASE i = Len(receipts')
    BY <2>2, <1>5, <1>6, <1>7, <1>8
  <2> QED BY <2>1, <2>2, <1>11
<1> QED BY <1>9, <1>10, <1>12, <1>13 DEF HarnessInv

LEMMA HireStepKeeps ==
  ASSUME HarnessInv, NEW r \in Runners, HireStep(r)
  PROVE  HarnessInv'
<1>0. /\ hire \in [Runners -> Hires] /\ hire[r] \in Hires
      /\ market \in Data /\ Measured(hire[r])
  BY DEF HarnessInv, TablesOK, AllMeasured
<1>1. CASE Begin(r)
  <2>0. PICK a \in Agents : \E tier \in Manifest[a].tiers :
          hire' = [hire EXCEPT ![r] = [Idle EXCEPT !.at = "observe", !.agent = a, !.tier = tier]]
    BY <1>1 DEF Begin
  <2>1. PICK tier \in Manifest[a].tiers :
          hire' = [hire EXCEPT ![r] = [Idle EXCEPT !.at = "observe", !.agent = a, !.tier = tier]]
    BY <2>0
  <2> DEFINE h == [Idle EXCEPT !.at = "observe", !.agent = a, !.tier = tier]
  <2>2. h \in Hires /\ Measured(h)
    BY <2>1, IdleIsHire DEF Idle, Hires, Stages, Measured
  <2> QED BY <1>1, <2>1, <2>2, HireKept DEF Begin
<1>2. CASE Observe(r)
  <2> DEFINE h == [hire[r] EXCEPT !.at = "act", !.obs = market]
  <2>1. h \in Hires /\ Measured(h)
    BY <1>0 DEF Hires, Stages, Measured
  <2> QED BY ZenonT(30), <1>2, <2>1, HireKept DEF Observe
<1>3. CASE Act(r)
  <2>0. PICK value \in Reported(hire[r]) :
          hire' = [hire EXCEPT ![r] = [hire[r] EXCEPT !.at = "baseline", !.value = value]]
    BY <1>3 DEF Act
  <2> DEFINE h == [hire[r] EXCEPT !.at = "baseline", !.value = value]
  <2>1. h \in Hires /\ Measured(h)
    BY <1>0, ReportedInt DEF Hires, Stages, Measured, Reported
  <2> QED BY <1>3, <2>0, <2>1, HireKept DEF Act
<1>4. CASE Baseline(r)
  <2> DEFINE h == [hire[r] EXCEPT !.at = "persist", !.base = BaselineOn(hire[r])]
  <2>1. CASE BaselineOn(hire[r]) = Missing
    BY <1>4, <2>1, IdleIsHire, HireKept DEF Baseline, Measured, Idle
  <2>2. CASE BaselineOn(hire[r]) # Missing
    <3>1. h \in Hires /\ Measured(h)
      <4>1. BaselineOn(hire[r]) \in Int
            /\ BaselineOn(hire[r]) \in BaselineValues(hire[r].agent, hire[r].obs)
        BY <1>0, <2>2, BaselineOnObservation DEF HarnessInv, TablesOK
      <4> QED BY <1>0, <1>4, <4>1 DEF Baseline, Hires, Stages, Measured, Reported
    <3> QED BY ZenonT(30), <1>4, <2>2, <3>1, HireKept DEF Baseline
  <2> QED BY <2>1, <2>2
<1>5. CASE EnsureAgent(r)
  <2> DEFINE h == [hire[r] EXCEPT !.at = "insert"]
  <2>1. h \in Hires /\ Measured(h)
    BY <1>0, <1>5 DEF EnsureAgent, Hires, Stages, Measured, Reported
  <2> QED BY <1>5, <2>1, HireKept DEF EnsureAgent
<1>6. CASE Commit(r)
  BY <1>6, CommitKeeps
<1>7. CASE Leave(r)
  BY <1>7, IdleIsHire, HireKept DEF Leave, Measured, Idle
<1> QED BY <1>1, <1>2, <1>3, <1>4, <1>5, <1>6, <1>7 DEF HireStep

LEMMA NextHarnessInv == HarnessInv /\ [HarnessNext]_harnessVars => HarnessInv'
<1> SUFFICES ASSUME HarnessInv, [HarnessNext]_harnessVars PROVE HarnessInv'
  OBVIOUS
<1>1. CASE Move
  <2>1. hire' = hire /\ UNCHANGED <<runs, receipts>> /\ market' \in Data
    BY <1>1 DEF Move
  <2> QED BY <2>1, RowsKept DEF HarnessInv, TablesOK, AllMeasured, Measured, Reported
<1>5. CASE SyncRegistry
  <2>1. UNCHANGED <<market, hire, runs, receipts>>
    BY <1>5 DEF SyncRegistry
  <2> QED BY <2>1, RowsKept DEF HarnessInv, TablesOK, AllMeasured, Measured, Reported
<1>2. ASSUME NEW r \in Runners, HireStep(r) PROVE HarnessInv'
  BY <1>2, HireStepKeeps
<1>3. ASSUME NEW q \in Requests, PageStep(q) PROVE HarnessInv'
  <2>1. UNCHANGED <<market, hire, runs, receipts>>
    BY <1>3 DEF PageStep, Refresh, Upsert, Render
  <2> QED BY <2>1, RowsKept DEF HarnessInv, TablesOK, AllMeasured, Measured, Reported
<1>4. CASE UNCHANGED harnessVars
  <2>1. UNCHANGED <<market, hire, runs, receipts>>
    BY <1>4 DEF harnessVars
  <2> QED BY <2>1, RowsKept DEF HarnessInv, TablesOK, AllMeasured, Measured, Reported
<1> QED BY <1>1, <1>2, <1>3, <1>4, <1>5 DEF HarnessNext

\* Whatever hires run at the same time and however the market moves during a
\* hire, a receipt's two values are those of the agent and of its baseline on
\* the snapshot that both its runs carry (harness.py:126-146, 215-295), but for the
\* gas price of a baseline that asks for it.
THEOREM ReceiptsCompareAlike == HarnessSpec => []BothWays
<1>1. HarnessInv => BothWays
  BY DEF HarnessInv
<1> QED BY <1>1, InitHarnessInv, NextHarnessInv, PTL DEF HarnessSpec

-----------------------------------------------------------------------------
(* What pages and the report make of the rows.                              *)

\* The runs of an agent that are not its baseline's.
AgentRuns(a) == {i \in DOMAIN runs : runs[i].agent = a /\ runs[i].kind = "agent"}

Upto(a, k) == {i \in Of(a) : i <= k}

\* The row of agent_stats when the first k receipts were there.
StatsAt(a, k) ==
  [n     |-> Cardinality(Upto(a, k)),
   wins  |-> Cardinality({i \in Upto(a, k) : receipts[i].delta > 0}),
   worst |-> MinOf(Deltas(Upto(a, k)))]

\* No run without its receipt.
Counted == \A a \in Agents : Cardinality(AgentRuns(a)) = Cardinality(Of(a))

RequestsOK ==
  /\ DOMAIN request = Requests
  /\ \A q \in Requests :
       DOMAIN request[q] = {"at", "rows"} /\ DOMAIN request[q].rows \subseteq Agents

\* What a request has read and not yet written.
ReadRows ==
  \A q \in Requests : \A a \in DOMAIN request[q].rows :
    \E k \in 0..Len(receipts) : request[q].rows[a] = StatsAt(a, k)

\* What a finished hire tells its caller is in the receipt it names.
Delivered ==
  \A r \in Runners : hire[r].at = "done" =>
    /\ hire[r].receipt \in DOMAIN receipts
    /\ receipts[hire[r].receipt].delta = hire[r].value - hire[r].base
    /\ AgentOf(receipts[hire[r].receipt]) = hire[r].agent

PagesInv == Counted /\ RequestsOK /\ ReadRows /\ StatsOfReceipts /\ Delivered

LEMMA RowSets ==
  ASSUME HarnessInv, NEW a
  PROVE  /\ IsFiniteSet(Of(a)) /\ Cardinality(Of(a)) \in Nat
         /\ IsFiniteSet(AgentRuns(a)) /\ Cardinality(AgentRuns(a)) \in Nat
         /\ Of(a) \subseteq 1..Len(receipts) /\ Len(receipts) \in Nat
<1>1. /\ DOMAIN runs = 1..Len(runs) /\ Len(runs) \in Nat
      /\ DOMAIN receipts = 1..Len(receipts) /\ Len(receipts) \in Nat
  BY DEF HarnessInv, TablesOK
<1>2. \A n \in Nat : IsFiniteSet(1..n)
  BY FS_Interval
<1>3. Of(a) \subseteq 1..Len(receipts) /\ AgentRuns(a) \subseteq 1..Len(runs)
  BY <1>1 DEF Of, AgentRuns
<1>4. IsFiniteSet(Of(a)) /\ IsFiniteSet(AgentRuns(a))
  BY <1>1, <1>2, <1>3, FS_Subset
<1> QED BY <1>1, <1>3, <1>4, FS_CardinalityType

\* The row of this moment is one of those rows.
LEMMA StatsNow ==
  ASSUME HarnessInv, Counted, NEW a \in Agents
  PROVE  StatsOf(a) = StatsAt(a, Len(receipts))
<1>1. Upto(a, Len(receipts)) = Of(a)
  BY RowSets DEF Upto
<1>2. Cardinality(AgentRuns(a)) = Cardinality(Of(a))
  BY DEF Counted
<1> QED BY <1>1, <1>2 DEF StatsOf, StatsAt, AgentRuns

\* What one commit adds to the tables.
LEMMA Committed ==
  ASSUME HarnessInv, NEW r \in Runners, Commit(r)
  PROVE  /\ Len(receipts) \in Nat /\ Len(runs) \in Nat
         /\ DOMAIN receipts' = (DOMAIN receipts) \cup {Len(receipts) + 1}
         /\ DOMAIN runs' = (DOMAIN runs) \cup {Len(runs) + 1, Len(runs) + 2}
         /\ Len(receipts') = Len(receipts) + 1 /\ Len(receipts) + 1 \notin DOMAIN receipts
         /\ Len(runs) + 1 \notin DOMAIN runs
         /\ \A i \in DOMAIN receipts : receipts'[i] = receipts[i]
         /\ \A i \in DOMAIN runs : runs'[i] = runs[i]
         /\ receipts'[Len(receipts) + 1] = ReceiptRow(hire[r])
         /\ runs'[Len(runs) + 1] = RunRow(hire[r], "agent")
         /\ runs'[Len(runs) + 2] = RunRow(hire[r], "baseline")
<1> DEFINE agentRow == RunRow(hire[r], "agent")
           baselineRow == RunRow(hire[r], "baseline")
           receipt == ReceiptRow(hire[r])
<1>1. hire[r] \in Hires /\ runs \in Seq(RunRows) /\ receipts \in Seq(ReceiptRows)
  BY DEF HarnessInv, TablesOK
<1>2. agentRow \in RunRows /\ baselineRow \in RunRows /\ receipt \in ReceiptRows
  BY <1>1 DEF RunRow, ReceiptRow, RunRows, ReceiptRows, Hires
<1>3. runs' = runs \o <<agentRow, baselineRow>> /\ receipts' = Append(receipts, receipt)
  BY DEF Commit
<1> HIDE DEF agentRow, baselineRow, receipt
<1>4. /\ Len(runs) \in Nat
      /\ DOMAIN runs' = (DOMAIN runs) \cup {Len(runs) + 1, Len(runs) + 2}
      /\ Len(runs) + 1 \notin DOMAIN runs
      /\ \A i \in DOMAIN runs : runs'[i] = runs[i]
      /\ runs'[Len(runs) + 1] = agentRow /\ runs'[Len(runs) + 2] = baselineRow
  BY <1>1, <1>2, <1>3
<1>5. /\ Len(receipts) \in Nat /\ Len(receipts') = Len(receipts) + 1
      /\ DOMAIN receipts' = (DOMAIN receipts) \cup {Len(receipts) + 1}
      /\ Len(receipts) + 1 \notin DOMAIN receipts
      /\ \A i \in DOMAIN receipts : receipts'[i] = receipts[i]
      /\ receipts'[Len(receipts) + 1] = receipt
  BY <1>1, <1>2, <1>3
<1> QED BY <1>4, <1>5 DEF agentRow, baselineRow, receipt

\* A commit adds one receipt to those of its agent, and one run.
LEMMA OneMore ==
  ASSUME HarnessInv, NEW r \in Runners, Commit(r), NEW a
  PROVE  /\ Of(a)' = IF hire[r].agent = a THEN Of(a) \cup {Len(receipts) + 1} ELSE Of(a)
         /\ AgentRuns(a)' = IF hire[r].agent = a THEN AgentRuns(a) \cup {Len(runs) + 1}
                            ELSE AgentRuns(a)
<1>1. /\ RunRow(hire[r], "agent").agent = hire[r].agent
      /\ RunRow(hire[r], "agent").kind = "agent"
      /\ RunRow(hire[r], "baseline").kind = "baseline"
      /\ ReceiptRow(hire[r]).agentRun = Len(runs) + 1
  BY DEF RunRow, ReceiptRow
<1>2. \A i \in DOMAIN receipts : receipts[i].agentRun \in DOMAIN runs
  BY DEF HarnessInv, KeysExist
<1>3. ASSUME NEW i \in DOMAIN receipts
      PROVE  runs'[receipts'[i].agentRun].agent = runs[receipts[i].agentRun].agent
  BY <1>2, Committed
<1>4. runs'[receipts'[Len(receipts) + 1].agentRun].agent = hire[r].agent
  BY <1>1, Committed
<1>5. Of(a)' = IF hire[r].agent = a THEN Of(a) \cup {Len(receipts) + 1} ELSE Of(a)
  BY <1>3, <1>4, Committed DEF Of, AgentOf
<1>6. AgentRuns(a)' = IF hire[r].agent = a THEN AgentRuns(a) \cup {Len(runs) + 1}
                      ELSE AgentRuns(a)
  BY <1>1, Committed DEF AgentRuns
<1> QED BY <1>5, <1>6

\* The rows of earlier moments are not changed by a commit.
LEMMA StatsStand ==
  ASSUME HarnessInv, NEW r \in Runners, Commit(r), NEW a, NEW k \in 0..Len(receipts)
  PROVE  k \in 0..Len(receipts') /\ StatsAt(a, k)' = StatsAt(a, k)
<1>1. k \in 0..Len(receipts') /\ ~ (Len(receipts) + 1 <= k)
  BY Committed
<1>2. Upto(a, k)' = Upto(a, k)
  BY <1>1, OneMore DEF Upto
<1>3. \A i \in Upto(a, k) : receipts'[i].delta = receipts[i].delta
  BY Committed DEF Upto, Of
<1>4. {i \in Upto(a, k) : receipts'[i].delta > 0} = {i \in Upto(a, k) : receipts[i].delta > 0}
  BY <1>3
<1>5. {receipts'[i].delta : i \in Upto(a, k)} = {receipts[i].delta : i \in Upto(a, k)}
  BY <1>3
<1> QED BY <1>1, <1>2, <1>4, <1>5 DEF StatsAt, Deltas

\* A step that changes no row of the tables.
LEMMA RowsOnly ==
  ASSUME PagesInv, UNCHANGED <<runs, receipts>>, RequestsOK', ReadRows', StatsOfReceipts',
         Delivered'
  PROVE  PagesInv'
  BY DEF PagesInv, Counted, AgentRuns, Of, AgentOf

LEMMA CommitPages == ASSUME HarnessInv, PagesInv, NEW r \in Runners, Commit(r) PROVE PagesInv'
<1>0. UNCHANGED <<stats, request>> /\ hire[r] \in Hires /\ hire \in [Runners -> Hires]
  BY DEF Commit, HarnessInv, TablesOK
<1>1. Counted'
  <2> SUFFICES ASSUME NEW a \in Agents PROVE Cardinality(AgentRuns(a)') = Cardinality(Of(a)')
    BY DEF Counted
  <2>1. Cardinality(AgentRuns(a)) = Cardinality(Of(a))
    BY DEF PagesInv, Counted
  <2>2. CASE hire[r].agent = a
    <3>1. /\ Of(a)' = Of(a) \cup {Len(receipts) + 1}
          /\ AgentRuns(a)' = AgentRuns(a) \cup {Len(runs) + 1}
      BY <2>2, OneMore
    <3>2. Len(receipts) + 1 \notin Of(a) /\ Len(runs) + 1 \notin AgentRuns(a)
      BY Committed DEF Of, AgentRuns
    <3>3. Cardinality(Of(a)') = Cardinality(Of(a)) + 1
      BY <3>1, <3>2, RowSets, FS_AddElement
    <3>4. Cardinality(AgentRuns(a)') = Cardinality(AgentRuns(a)) + 1
      BY <3>1, <3>2, RowSets, FS_AddElement
    <3> QED BY <2>1, <3>3, <3>4
  <2>3. CASE hire[r].agent # a
    BY <2>1, <2>3, OneMore
  <2> QED BY <2>2, <2>3
<1>2. RequestsOK'
  BY <1>0 DEF PagesInv, RequestsOK
<1>3. ReadRows'
  BY <1>0, StatsStand DEF PagesInv, ReadRows, RequestsOK
<1>4. StatsOfReceipts'
  <2>1. \A a \in Agents : \E k \in 0..Len(receipts) : stats[a] = StatsAt(a, k)
    BY DEF PagesInv, StatsOfReceipts, StatsAt, Upto
  <2>2. \A a \in Agents : \E k \in 0..Len(receipts') : stats'[a] = StatsAt(a, k)'
    BY <1>0, <2>1, StatsStand
  <2> QED BY <2>2 DEF StatsOfReceipts, StatsAt, Upto
<1>5. Delivered'
  <2> SUFFICES ASSUME NEW t \in Runners, hire'[t].at = "done"
               PROVE  /\ hire'[t].receipt \in DOMAIN receipts'
                      /\ receipts'[hire'[t].receipt].delta = hire'[t].value - hire'[t].base
                      /\ AgentOf(receipts[hire[t].receipt])' = hire'[t].agent
    BY DEF Delivered
  <2>1. CASE t = r
    <3>1. /\ hire'[t].receipt = Len(receipts) + 1 /\ hire'[t].value = hire[t].value
          /\ hire'[t].base = hire[t].base /\ hire'[t].agent = hire[t].agent
      BY <1>0, <2>1, Committed DEF Commit, Hires
    <3>2. /\ receipts'[Len(receipts) + 1].delta = hire[t].value - hire[t].base
          /\ receipts'[Len(receipts) + 1].agentRun = Len(runs) + 1
          /\ runs'[Len(runs) + 1].agent = hire[t].agent
      <4>1. /\ ReceiptRow(hire[r]).delta = hire[r].value - hire[r].base
            /\ ReceiptRow(hire[r]).agentRun = Len(runs) + 1
            /\ RunRow(hire[r], "agent").agent = hire[r].agent
        BY DEF ReceiptRow, RunRow
      <4>2. /\ receipts'[Len(receipts) + 1] = ReceiptRow(hire[r])
            /\ runs'[Len(runs) + 1] = RunRow(hire[r], "agent")
        BY Committed
      <4> QED BY <2>1, <4>1, <4>2
    <3> QED BY <3>1, <3>2, Committed DEF AgentOf
  <2>2. CASE t # r
    <3>1. hire'[t] = hire[t]
      BY <1>0, <2>2 DEF Commit
    <3>2. /\ hire[t].receipt \in DOMAIN receipts
          /\ receipts[hire[t].receipt].delta = hire[t].value - hire[t].base
          /\ runs[receipts[hire[t].receipt].agentRun].agent = hire[t].agent
      BY <3>1 DEF PagesInv, Delivered, AgentOf
    <3>3. receipts[hire[t].receipt].agentRun \in DOMAIN runs
      BY <3>2 DEF HarnessInv, KeysExist
    <3> QED BY <3>1, <3>2, <3>3, Committed DEF AgentOf
  <2> QED BY <2>1, <2>2
<1> QED BY <1>1, <1>2, <1>3, <1>4, <1>5 DEF PagesInv

\* A step of a hire other than its commit.
LEMMA HirePages ==
  ASSUME HarnessInv, PagesInv, NEW r \in Runners, HireStep(r), ~ Commit(r)
  PROVE  PagesInv'
<1>1. UNCHANGED <<runs, receipts, stats, request>>
  BY DEF HireStep, Begin, Observe, Act, Baseline, EnsureAgent, Leave
<1>2. hire \in [Runners -> Hires]
  BY DEF HarnessInv, TablesOK
<1>3. \A t \in Runners : hire'[t] = hire[t] \/ hire'[t].at # "done"
  <2>1. CASE Leave(r)
    BY <1>2, <2>1 DEF Leave, Idle
  <2>4. CASE Begin(r)
    <3>1. PICK a \in Agents : \E tier \in Manifest[a].tiers :
            hire' = [hire EXCEPT ![r] = [Idle EXCEPT !.at = "observe", !.agent = a, !.tier = tier]]
      BY <2>4 DEF Begin
    <3>2. PICK tier \in Manifest[a].tiers :
            hire' = [hire EXCEPT ![r] = [Idle EXCEPT !.at = "observe", !.agent = a, !.tier = tier]]
      BY <3>1
    <3> DEFINE h == [Idle EXCEPT !.at = "observe", !.agent = a, !.tier = tier]
    <3>3. h.at # "done"
      BY DEF Idle
    <3> HIDE DEF h
    <3>4. \A t \in Runners : hire'[t] = hire[t] \/ hire'[t] = h
      BY <1>2, <3>2 DEF h
    <3> QED BY <3>3, <3>4
  <2>2. CASE Observe(r) \/ Act(r) \/ EnsureAgent(r)
    BY <1>2, <2>2 DEF Observe, Act, EnsureAgent, Hires
  <2>3. CASE Baseline(r)
    BY <1>2, <2>3 DEF Baseline, Hires, Idle
  <2> QED BY <2>1, <2>2, <2>3, <2>4 DEF HireStep
<1>4. Delivered'
  BY <1>1, <1>3 DEF PagesInv, Delivered, AgentOf
<1>5. RequestsOK'
  BY <1>1 DEF PagesInv, RequestsOK
<1>6. \A a, k : StatsAt(a, k)' = StatsAt(a, k)
  BY <1>1 DEF StatsAt, Upto, Of, Deltas, AgentOf
<1>7. ReadRows'
  BY <1>1, <1>6 DEF PagesInv, ReadRows
<1>8. StatsOfReceipts'
  <2>1. \A a \in Agents : \E k \in 0..Len(receipts) : stats[a] = StatsAt(a, k)
    BY DEF PagesInv, StatsOfReceipts, StatsAt, Upto
  <2>2. \A a \in Agents : \E k \in 0..Len(receipts') : stats'[a] = StatsAt(a, k)'
    BY <1>1, <1>6, <2>1
  <2> QED BY <2>2 DEF StatsOfReceipts, StatsAt, Upto
<1> QED BY <1>1, <1>4, <1>5, <1>7, <1>8, RowsOnly

LEMMA PagePages ==
  ASSUME HarnessInv, PagesInv, NEW q \in Requests, PageStep(q), agents \subseteq Agents
  PROVE  PagesInv'
<1>0. UNCHANGED <<hire, runs, receipts>>
  BY DEF PageStep, Refresh, Upsert, Render
<1>1. Delivered'
  BY <1>0 DEF PagesInv, Delivered, AgentOf
<1>2. \A a, k : StatsAt(a, k)' = StatsAt(a, k)
  BY <1>0 DEF StatsAt, Upto, Of, Deltas, AgentOf
<1>3. RequestsOK /\ ReadRows /\ Len(receipts) \in Nat
  BY DEF PagesInv, HarnessInv, TablesOK
<1>4. \A a \in Agents : \E k \in 0..Len(receipts) : stats[a] = StatsAt(a, k)
  BY DEF PagesInv, StatsOfReceipts, StatsAt, Upto
<1>5. CASE Refresh(q)
  <2> DEFINE rows == [a \in agents |-> StatsOf(a)]
  <2>1. request' = [request EXCEPT ![q] = [at |-> "write", rows |-> rows]] /\ stats' = stats
    BY <1>5 DEF Refresh
  <2>2. \A a \in agents : rows[a] = StatsAt(a, Len(receipts)) /\ Len(receipts) \in 0..Len(receipts)
    BY <1>3, StatsNow DEF PagesInv
  <2>3. DOMAIN rows = agents
    OBVIOUS
  <2> HIDE DEF rows
  <2>4. request'[q].rows = rows /\ \A p \in Requests : p # q => request'[p] = request[p]
    BY <1>3, <2>1 DEF RequestsOK
  <2>5. RequestsOK'
    BY <1>3, <2>1, <2>3 DEF RequestsOK
  <2>6. ReadRows'
    <3> SUFFICES ASSUME NEW p \in Requests, NEW a \in DOMAIN request'[p].rows
                 PROVE  \E k \in 0..Len(receipts') : request'[p].rows[a] = StatsAt(a, k)'
      BY DEF ReadRows
    <3>1. CASE p = q
      BY <1>0, <1>2, <2>2, <2>3, <2>4, <3>1
    <3>2. CASE p # q
      BY <1>0, <1>2, <1>3, <2>4, <3>2 DEF ReadRows
    <3> QED BY <3>1, <3>2
  <2>7. StatsOfReceipts'
    <3>1. \A a \in Agents : \E k \in 0..Len(receipts') : stats'[a] = StatsAt(a, k)'
      BY <1>0, <1>2, <1>4, <2>1
    <3> QED BY <3>1 DEF StatsOfReceipts, StatsAt, Upto
  <2> QED BY <1>0, <1>1, <2>5, <2>6, <2>7, RowsOnly
<1>6. CASE Upsert(q)
  <2>1. \A p \in Requests : request'[p].rows = request[p].rows
    BY <1>3, <1>6 DEF Upsert, RequestsOK
  <2>2. RequestsOK'
    BY <1>3, <1>6, <2>1 DEF Upsert, RequestsOK
  <2>3. ReadRows'
    BY SMTT(30), <1>0, <1>2, <1>3, <2>1 DEF ReadRows
  <2>4. StatsOfReceipts'
    <3>1. \A a \in Agents : stats'[a] = IF a \in DOMAIN request[q].rows THEN request[q].rows[a]
                                        ELSE stats[a]
      BY <1>6 DEF Upsert
    <3>2. ASSUME NEW a \in Agents
          PROVE  \E k \in 0..Len(receipts') : stats'[a] = StatsAt(a, k)'
      <4>1. \E k \in 0..Len(receipts) : stats'[a] = StatsAt(a, k)
        <5>1. CASE a \in DOMAIN request[q].rows
          <6>1. \E k \in 0..Len(receipts) : request[q].rows[a] = StatsAt(a, k)
            BY <1>3, <5>1 DEF ReadRows
          <6> QED BY <3>1, <5>1, <6>1
        <5>2. CASE a \notin DOMAIN request[q].rows
          BY <1>4, <3>1, <5>2
        <5> QED BY <5>1, <5>2
      <4> QED BY <1>0, <1>2, <4>1
    <3> QED BY <3>2 DEF StatsOfReceipts, StatsAt, Upto
  <2> QED BY <1>0, <1>1, <2>2, <2>3, <2>4, RowsOnly
<1>7. CASE Render(q)
  <2>1. /\ request'[q].rows = <<>> /\ stats' = stats
        /\ \A p \in Requests : p # q => request'[p] = request[p]
    BY <1>3, <1>7 DEF Render, RequestsOK, NotAsked
  <2>2. RequestsOK'
    BY <1>3, <1>7 DEF Render, RequestsOK, NotAsked
  <2>3. ReadRows'
    BY <1>0, <1>2, <1>3, <2>1 DEF ReadRows
  <2>4. StatsOfReceipts'
    <3>1. \A a \in Agents : \E k \in 0..Len(receipts') : stats'[a] = StatsAt(a, k)'
      BY <1>0, <1>2, <1>4, <2>1
    <3> QED BY <3>1 DEF StatsOfReceipts, StatsAt, Upto
  <2> QED BY <1>0, <1>1, <2>2, <2>3, <2>4, RowsOnly
<1> QED BY <1>5, <1>6, <1>7 DEF PageStep

LEMMA InitPagesInv == HarnessInit => PagesInv
<1> SUFFICES ASSUME HarnessInit PROVE PagesInv
  OBVIOUS
<1>1. receipts = <<>> /\ runs = <<>> /\ Len(receipts) = 0 /\ stats = [a \in Agents |-> NoRow]
  BY DEF HarnessInit
<1>2. \A a : Of(a) = {} /\ AgentRuns(a) = {}
  BY <1>1 DEF Of, AgentRuns
<1>3. Counted
  BY <1>2 DEF Counted
<1>4. RequestsOK /\ ReadRows
  BY DEF HarnessInit, NotAsked, RequestsOK, ReadRows
<1>5. StatsOfReceipts
  <2> SUFFICES ASSUME NEW a \in Agents PROVE stats[a] = StatsAt(a, 0) /\ 0 \in 0..Len(receipts)
    BY DEF StatsOfReceipts, StatsAt, Upto
  <2>1. Upto(a, 0) = {}
    BY <1>2 DEF Upto
  <2>2. {i \in Upto(a, 0) : receipts[i].delta > 0} = {} /\ Deltas(Upto(a, 0)) = {}
    BY <2>1 DEF Deltas
  <2>3. Cardinality({}) = 0
    BY FS_EmptySet
  <2>4. MinOf({}) = 0
    BY DEF MinOf
  <2>5. StatsAt(a, 0) = [n |-> 0, wins |-> 0, worst |-> 0]
    BY <2>1, <2>2, <2>3, <2>4 DEF StatsAt
  <2> QED BY <1>1, <2>5 DEF NoRow
<1>6. Delivered
  BY DEF HarnessInit, Idle, Delivered
<1> QED BY <1>3, <1>4, <1>5, <1>6 DEF PagesInv

Listed == agents \subseteq Agents

LEMMA StaysListed == HarnessInv /\ Listed /\ [HarnessNext]_harnessVars => Listed'
<1> SUFFICES ASSUME HarnessInv, Listed, [HarnessNext]_harnessVars PROVE Listed'
  OBVIOUS
<1>1. CASE Move \/ SyncRegistry \/ UNCHANGED harnessVars
  BY <1>1 DEF Move, SyncRegistry, harnessVars, Listed
<1>2. ASSUME NEW r \in Runners, HireStep(r) PROVE Listed'
  <2>1. hire[r].agent \in Agents
    BY DEF HarnessInv, TablesOK, Hires
  <2> QED BY <1>2, <2>1 DEF HireStep, Begin, Observe, Act, Baseline, EnsureAgent, Commit, Leave,
                            Listed
<1>3. ASSUME NEW q \in Requests, PageStep(q) PROVE Listed'
  BY <1>3 DEF PageStep, Refresh, Upsert, Render, Listed
<1> QED BY <1>1, <1>2, <1>3 DEF HarnessNext

LEMMA NextPagesInv ==
  HarnessInv /\ Listed /\ PagesInv /\ [HarnessNext]_harnessVars => PagesInv'
<1> SUFFICES ASSUME HarnessInv, Listed, PagesInv, [HarnessNext]_harnessVars PROVE PagesInv'
  OBVIOUS
<1>1. CASE Move \/ SyncRegistry \/ UNCHANGED harnessVars
  <2>1. UNCHANGED <<hire, runs, receipts, stats, request>>
    BY <1>1 DEF Move, SyncRegistry, harnessVars
  <2>2. \A a, k : StatsAt(a, k)' = StatsAt(a, k)
    BY <2>1 DEF StatsAt, Upto, Of, Deltas, AgentOf
  <2>3. RequestsOK' /\ ReadRows' /\ Delivered'
    BY <2>1, <2>2 DEF PagesInv, RequestsOK, ReadRows, Delivered, AgentOf
  <2>4. StatsOfReceipts'
    <3>1. \A a \in Agents : \E k \in 0..Len(receipts) : stats[a] = StatsAt(a, k)
      BY DEF PagesInv, StatsOfReceipts, StatsAt, Upto
    <3>2. \A a \in Agents : \E k \in 0..Len(receipts') : stats'[a] = StatsAt(a, k)'
      BY <2>1, <2>2, <3>1
    <3> QED BY <3>2 DEF StatsOfReceipts, StatsAt, Upto
  <2> QED BY <2>1, <2>3, <2>4, RowsOnly
<1>2. ASSUME NEW r \in Runners, HireStep(r) PROVE PagesInv'
  BY <1>2, CommitPages, HirePages
<1>3. ASSUME NEW q \in Requests, PageStep(q) PROVE PagesInv'
  BY <1>3, PagePages DEF Listed
<1> QED BY <1>1, <1>2, <1>3 DEF HarnessNext

\* The two tables give one verdict.
LEMMA Verdicts ==
  ASSUME HarnessInv, PagesInv
  PROVE  OneVerdict
<1>0. \A a \in Agents :
        /\ Manifest[a].higherIsBetter \in BOOLEAN
        /\ Manifest[a].higherIsBetter <=> Manifest[a].metric \notin LowerIsBetter
  BY MetricAssumption
<1>1. ASSUME NEW r \in Runners, hire[r].at = "done"
      PROVE  Favorable(hire[r].value - hire[r].base, hire[r].agent)
               <=> ShownFavorable(receipts[hire[r].receipt])
  <2>1. hire[r].agent \in Agents /\ hire[r].value - hire[r].base \in Int
    BY DEF HarnessInv, TablesOK, Hires
  <2>2. /\ receipts[hire[r].receipt].delta = hire[r].value - hire[r].base
        /\ AgentOf(receipts[hire[r].receipt]) = hire[r].agent
    BY <1>1 DEF PagesInv, Delivered
  <2> QED BY <1>0, <2>1, <2>2 DEF Favorable, ShownFavorable
<1>2. ASSUME NEW a \in Agents
      PROVE  Task(a).wins = Cardinality({i \in Of(a) : ShownFavorable(receipts[i])})
  <2>1. ASSUME NEW i \in Of(a) PROVE Won(receipts[i].delta, a) <=> ShownFavorable(receipts[i])
    <3>1. receipts[i].delta \in Int /\ AgentOf(receipts[i]) = a
      <4>1. i \in DOMAIN receipts /\ AgentOf(receipts[i]) = a
        BY DEF Of
      <4>2. receipts[i] \in ReceiptRows
        BY <4>1 DEF HarnessInv, TablesOK
      <4> QED BY <4>1, <4>2 DEF ReceiptRows
    <3> QED BY <1>0, <3>1 DEF Won, ShownFavorable
  <2>2. {i \in Of(a) : Won(receipts[i].delta, a)} = {i \in Of(a) : ShownFavorable(receipts[i])}
    BY <2>1
  <2> QED BY <2>2 DEF Task
<1>3. ASSUME NEW a \in Agents, Manifest[a].higherIsBetter, stats[a].n = Task(a).n
      PROVE  stats[a] = Task(a)
  <2>1. PICK k \in 0..Len(receipts) : stats[a] = StatsAt(a, k)
    BY DEF PagesInv, StatsOfReceipts, StatsAt, Upto
  <2>2. Cardinality(Upto(a, k)) = Cardinality(Of(a))
    BY <1>3, <2>1 DEF StatsAt, Task
  <2>3. Upto(a, k) \in SUBSET Of(a)
    BY DEF Upto
  <2>4. Upto(a, k) = Of(a)
    BY <2>2, <2>3, RowSets, FS_Subset
  <2>5. {i \in Of(a) : Won(receipts[i].delta, a)} = {i \in Of(a) : receipts[i].delta > 0}
    BY <1>3 DEF Won
  <2> QED BY <1>3, <2>1, <2>4, <2>5 DEF StatsAt, Task
<1> QED BY <1>1, <1>2, <1>3 DEF OneVerdict

THEOREM PagesInvariant == HarnessSpec => [](HarnessInv /\ PagesInv)
<1>1. HarnessInit => Listed
  BY DEF HarnessInit, Listed
<1> QED BY <1>1, StaysListed, InitHarnessInv, NextHarnessInv, InitPagesInv, NextPagesInv, PTL
        DEF HarnessSpec

\* Whatever hires fail, however refreshes of agent_stats overlap and overwrite each
\* other, a row of it is that of the first receipts, up to some moment: each run of
\* an agent is counted with its receipt (harness.py:215-295, migrate.py:137-167).
THEOREM StatsAreOfReceipts == HarnessSpec => []StatsOfReceipts
<1>1. PagesInv => StatsOfReceipts
  BY DEF PagesInv
<1> QED BY <1>1, PagesInvariant, PTL

\* The hirer, the receipt page and the report name the same winner of every
\* receipt, as long as the page's list of metrics agrees with the manifests; and a
\* row of agent_stats that counts all receipts of an agent whose metric is better
\* when higher agrees with the report (harness.py:93, queries.py:170, report.py:81).
THEOREM VerdictsAgree == HarnessSpec => []OneVerdict
<1>1. HarnessInv /\ PagesInv => OneVerdict
  BY Verdicts
<1> QED BY <1>1, PagesInvariant, PTL
=============================================================================
