----------------------------- MODULE PaperLoop -----------------------------
(***************************************************************************)
(* The paper deployments: scripts/run_grid.py, run_rebalancer.py and         *)
(* run_paper_loops.py, which runs the cycles of both. A script keeps the      *)
(* deployment's record in memory, and each cycle hires the agent, which       *)
(* commits a receipt, then updates the record and writes it over the state    *)
(* file. Scripts may overlap, be killed anywhere and be started again.        *)
(***************************************************************************)
EXTENDS Integers, Sequences, FiniteSets

CONSTANTS
  Deployments,   \* state files: var/grid_deployment.json, ...
  Breaker,       \* deployments whose agent has a circuit breaker
  Scripts,
  Served,        \* Served[s]: the deployments s cycles, in order
  Nothing,       \* no state file
  Empty, Torn,   \* one that was truncated, and other files that do not parse
  MaxReceipts,   \* bound: receipts written
  MaxStarts      \* bound: starts of scripts

ASSUME PaperAssumption ==
  /\ Breaker \subseteq Deployments
  /\ \A s \in Scripts : Served[s] \in Seq(Deployments) /\ Len(Served[s]) > 0
  /\ MaxReceipts \in Nat /\ MaxStarts \in Nat

VARIABLES
  file,      \* file[d]: Nothing, Empty, Torn, or the record written last
  receipts,  \* committed receipts, in order
  at,        \* "stopped", "load", "creating", "cycle", "save", "saving", "sleep", "over",
             \* "failed": main returned, or an exception that nobody catches left it
  turn,      \* index of the deployment it does it for
  rec,       \* rec[s][i]: the record of Served[s][i] in memory
  alive,     \* alive[s][i]: the deployment is still cycled (grid_alive)
  reset,     \* --reset
  births,    \* deployments created, which numbers them
  starts

paperVars == <<file, receipts, at, turn, rec, alive, reset, births, starts>>

NoReceipt == 0

\* A record: which deployment it is of, and what its last cycle did.
Fresh(n) == [dep |-> n, cycles |-> 0, last |-> NoReceipt, halted |-> FALSE, status |-> "running"]

Readable(d) == file[d] \notin {Nothing, Empty, Torn}

Mine(s) == Served[s][turn[s]]

\* run_grid and run_rebalancer serve one deployment, run_paper_loops several.
Single(s) == Len(Served[s]) = 1

PaperInit ==
  /\ file = [d \in Deployments |-> Nothing]
  /\ receipts = <<>>
  /\ at = [s \in Scripts |-> "stopped"]
  /\ turn = [s \in Scripts |-> 1]
  /\ rec = [s \in Scripts |-> [i \in DOMAIN Served[s] |-> Fresh(1)]]
  /\ alive = [s \in Scripts |-> [i \in DOMAIN Served[s] |-> TRUE]]
  /\ reset = [s \in Scripts |-> FALSE]
  /\ births = 0 /\ starts = 0

\* main, up to _load_or_create. run_paper_loops never resets.
StartScript(s) ==
  /\ at[s] \in {"stopped", "over", "failed"} /\ starts < MaxStarts
  /\ starts' = starts + 1
  /\ at' = [at EXCEPT ![s] = "load"]
  /\ turn' = [turn EXCEPT ![s] = 1]
  /\ alive' = [alive EXCEPT ![s] = [i \in DOMAIN Served[s] |-> TRUE]]
  /\ \E r \in IF Single(s) THEN BOOLEAN ELSE {FALSE} : reset' = [reset EXCEPT ![s] = r]
  /\ UNCHANGED <<file, receipts, rec, births>>

\* On to the next record to load; after the last one the cycles begin.
Loaded(s) ==
  IF turn[s] < Len(Served[s])
    THEN at' = [at EXCEPT ![s] = "load"] /\ turn' = [turn EXCEPT ![s] = turn[s] + 1]
    ELSE at' = [at EXCEPT ![s] = "cycle"] /\ turn' = [turn EXCEPT ![s] = 1]

MustCreate(s) == file[Mine(s)] = Nothing \/ reset[s]

\* The record is read, and a single script finds out that its deployment is halted.
Load(s) ==
  /\ at[s] = "load" /\ ~ MustCreate(s) /\ Readable(Mine(s))
  /\ LET found == file[Mine(s)]
     IN /\ rec' = [rec EXCEPT ![s][turn[s]] = found]
        /\ alive' = [alive EXCEPT ![s][turn[s]] = found.status # "halted"]
        /\ IF Single(s) /\ found.status = "halted"
             THEN at' = [at EXCEPT ![s] = "over"] /\ UNCHANGED turn
             ELSE Loaded(s)
  /\ UNCHANGED <<file, receipts, reset, births, starts>>

\* A new deployment: write_text truncates the file, and then writes it.
Create(s) ==
  /\ at[s] = "load" /\ MustCreate(s)
  /\ births' = births + 1
  /\ rec' = [rec EXCEPT ![s][turn[s]] = Fresh(births + 1)]
  /\ file' = [file EXCEPT ![Mine(s)] = Empty]
  /\ at' = [at EXCEPT ![s] = "creating"]
  /\ UNCHANGED <<receipts, turn, alive, reset, starts>>

\* What writing s's record from the start of the truncated file can leave: if
\* another script has written since, the end of a longer record may remain.
Written(s) ==
  LET r == rec[s][turn[s]] IN IF file[Mine(s)] = Empty THEN {r} ELSE {r, Torn}

Created(s) ==
  /\ at[s] = "creating"
  /\ \E text \in Written(s) : file' = [file EXCEPT ![Mine(s)] = text]
  /\ reset' = [reset EXCEPT ![s] = FALSE]
  /\ Loaded(s)
  /\ UNCHANGED <<receipts, rec, alive, births, starts>>

\* _load_or_create stands outside every try block: what reading, parsing, mkdir,
\* opening or writing raises ends the script, after a part was written perhaps.
LoadFails(s) ==
  /\ \/ at[s] = "load" /\ UNCHANGED file
     \/ at[s] = "creating" /\ file' \in {file, [file EXCEPT ![Mine(s)] = Torn]}
  /\ at' = [at EXCEPT ![s] = "failed"]
  /\ UNCHANGED <<receipts, turn, rec, alive, reset, births, starts>>

\* After a cycle, successful or not: the next deployment, or time.sleep.
CycleOver(s) ==
  IF turn[s] < Len(Served[s])
    THEN at' = [at EXCEPT ![s] = "cycle"] /\ turn' = [turn EXCEPT ![s] = turn[s] + 1]
    ELSE at' = [at EXCEPT ![s] = "sleep"] /\ UNCHANGED turn

SkipCycle(s) ==
  /\ at[s] = "cycle" /\ ~ alive[s][turn[s]]
  /\ CycleOver(s)
  /\ UNCHANGED <<file, receipts, rec, alive, reset, births, starts>>

\* Mutants of HireFails: the exception leaves the loop; it ends the round.
HireFailsEndsLoop(s) ==
  /\ at[s] = "cycle" /\ alive[s][turn[s]]
  /\ at' = [at EXCEPT ![s] = "failed"]
  /\ UNCHANGED <<file, receipts, turn, rec, alive, reset, births, starts>>

HireFailsEndsRound(s) ==
  /\ at[s] = "cycle" /\ alive[s][turn[s]]
  /\ at' = [at EXCEPT ![s] = "sleep"]
  /\ UNCHANGED <<file, receipts, turn, rec, alive, reset, births, starts>>

\* run_hire raises; the loop prints the traceback and goes on.
HireFails(s) ==
  /\ at[s] = "cycle" /\ alive[s][turn[s]]
  /\ CycleOver(s)
  /\ UNCHANGED <<file, receipts, rec, alive, reset, births, starts>>

Receipt(s, halted) == [of |-> Mine(s), dep |-> rec[s][turn[s]].dep, halted |-> halted]

\* The record after a cycle. Nothing ever sets status back to "running".
Updated(r, n, halted) ==
  [dep |-> r.dep, cycles |-> r.cycles + 1, last |-> n, halted |-> halted,
   status |-> IF halted THEN "halted" ELSE r.status]

\* Mutant of Hire: the receipt is the deployment's first, not its last.
HireNotingFirst(s) ==
  /\ at[s] = "cycle" /\ alive[s][turn[s]]
  /\ Len(receipts) < MaxReceipts
  /\ \E halted \in IF Mine(s) \in Breaker THEN BOOLEAN ELSE {FALSE} :
       /\ receipts' = Append(receipts, Receipt(s, halted))
       /\ rec' = [rec EXCEPT ![s][turn[s]] =
                    Updated(@, IF @.last = NoReceipt THEN Len(receipts') ELSE @.last, halted)]
  /\ at' = [at EXCEPT ![s] = "save"]
  /\ UNCHANGED <<file, turn, alive, reset, births, starts>>

\* run_hire commits the receipt, which says whether the breaker tripped: the
\* whole window is replayed every cycle on a grid calibrated anew, so that the
\* answer of a cycle says nothing about the next one's.
Hire(s) ==
  /\ at[s] = "cycle" /\ alive[s][turn[s]]
  /\ Len(receipts) < MaxReceipts
  /\ \E halted \in IF Mine(s) \in Breaker THEN BOOLEAN ELSE {FALSE} :
       /\ receipts' = Append(receipts, Receipt(s, halted))
       /\ rec' = [rec EXCEPT ![s][turn[s]] = Updated(@, Len(receipts'), halted)]
  /\ at' = [at EXCEPT ![s] = "save"]
  /\ UNCHANGED <<file, turn, alive, reset, births, starts>>

\* _save: write_text truncates, then writes; opening or writing may raise, and
\* a raise is a failed cycle like any other, whatever the breaker said.
Truncate(s) ==
  /\ at[s] = "save"
  /\ file' = [file EXCEPT ![Mine(s)] = Empty]
  /\ at' = [at EXCEPT ![s] = "saving"]
  /\ UNCHANGED <<receipts, turn, rec, alive, reset, births, starts>>

SaveFails(s) ==
  /\ \/ at[s] = "save" /\ UNCHANGED file
     \/ at[s] = "saving" /\ file' \in {file, [file EXCEPT ![Mine(s)] = Torn]}
  /\ CycleOver(s)
  /\ UNCHANGED <<receipts, rec, alive, reset, births, starts>>

Save(s) ==
  /\ at[s] = "saving"
  /\ \E text \in Written(s) : file' = [file EXCEPT ![Mine(s)] = text]
  /\ alive' = [alive EXCEPT ![s][turn[s]] = ~ rec[s][turn[s]].halted]
  /\ IF rec[s][turn[s]].halted /\ Single(s)
       THEN at' = [at EXCEPT ![s] = "over"] /\ UNCHANGED turn
       ELSE CycleOver(s)
  /\ UNCHANGED <<receipts, rec, reset, births, starts>>

Wake(s) ==
  /\ at[s] = "sleep"
  /\ at' = [at EXCEPT ![s] = "cycle"]
  /\ turn' = [turn EXCEPT ![s] = 1]
  /\ UNCHANGED <<file, receipts, rec, alive, reset, births, starts>>

\* Ctrl+C, an out-of-memory kill or a power cut: memory is lost.
Kill(s) ==
  /\ at[s] \notin {"stopped", "over", "failed"}
  /\ at' = [at EXCEPT ![s] = "stopped"]
  /\ turn' = [turn EXCEPT ![s] = 1]
  /\ rec' = [rec EXCEPT ![s] = [i \in DOMAIN Served[s] |-> Fresh(1)]]
  /\ alive' = [alive EXCEPT ![s] = [i \in DOMAIN Served[s] |-> TRUE]]
  /\ reset' = [reset EXCEPT ![s] = FALSE]
  /\ UNCHANGED <<file, receipts, births, starts>>

ScriptStep(s) ==
  \/ Load(s) \/ Create(s) \/ Created(s) \/ LoadFails(s)
  \/ SkipCycle(s) \/ HireFails(s) \/ Hire(s)
  \/ Truncate(s) \/ SaveFails(s) \/ Save(s) \/ Wake(s)

PaperNext == \E s \in Scripts : StartScript(s) \/ ScriptStep(s) \/ Kill(s)

\* A running script runs on.
PaperFairness == \A s \in Scripts : WF_paperVars(ScriptStep(s))

PaperSpec == PaperInit /\ [][PaperNext]_paperVars /\ PaperFairness

-----------------------------------------------------------------------------
(* Properties.                                                              *)

\* Whoever wrote it, in whatever order and between whatever crashes, the state
\* file of a deployment speaks of a committed receipt of the same deployment,
\* with the outcome that receipt has, and never counts more cycles than receipts.
FileMatchesReceipts ==
  \A d \in Deployments : Readable(d) =>
    LET r   == file[d]
        own == {n \in DOMAIN receipts : receipts[n].of = d /\ receipts[n].dep = r.dep}
    IN /\ r.last # NoReceipt => r.last \in own /\ r.halted = receipts[r.last].halted
       /\ r.cycles <= Cardinality(own)
       /\ r.halted => r.status = "halted"

\* A script comes to its end only when a receipt said that the breaker of the
\* deployment tripped, and an exception ends it only while it loads or creates a
\* record: once it cycles, "a transient blip must not kill a multi-hour run"
\* (run_grid.py:140), be it the hire's or the save's.
EndsOnBreaker ==
  [][\A s \in Scripts :
       /\ at[s] # "over" /\ at'[s] = "over" =>
            /\ Mine(s) \in Breaker
            /\ \E n \in DOMAIN receipts :
                 /\ receipts[n].of = Mine(s) /\ receipts[n].dep = rec'[s][turn[s]].dep
                 /\ receipts[n].halted
       /\ at[s] # "failed" /\ at'[s] = "failed" => at[s] \in {"load", "creating"}]_paperVars

\* A deployment that is alive gets its turn again, however often its own cycles
\* and those of the other deployment of the script fail.
EveryTurnComes ==
  \A s \in Scripts : \A i \in DOMAIN Served[s] :
    at[s] = "cycle" ~> \/ at[s] = "cycle" /\ turn[s] = i
                      \/ at[s] \in {"stopped", "over"}
=============================================================================
