----------------------------- MODULE YieldGate -----------------------------
(***************************************************************************)
(* The yield agent (services/agents/pcs_yield/agent.py): observe lists      *)
(* candidate pools, has the security agent look at the tokens of a          *)
(* shortlist on one fork, and decide ranks what is left and picks the       *)
(* winner. What each pool earns is a rank; the formula is left out.         *)
(***************************************************************************)
EXTENDS SentryScan, SequencesExt

CONSTANTS
  Pools,
  Legs,       \* Legs[p]: underlying_tokens in order, the two candidate_pools asks for
  Allowlist,  \* _ALLOWLIST, tokens never looked at
  Depth,      \* _GATE_DEPTH of the risk chosen
  MaxGated,   \* gate_tokens[:8]
  NoPool

ASSUME GateAssumption ==
  /\ Legs \in [Pools -> Seq(Tokens)] /\ \A p \in Pools : Len(Legs[p]) = 2
  /\ Allowlist \subseteq Tokens
  /\ Depth \in Nat \ {0} /\ MaxGated \in Nat /\ MaxGated >= 2
  /\ IsFiniteSet(Pools) /\ NoPool \notin Pools

VARIABLES
  at,         \* where observe and decide stand
  prelim,     \* the order of the preliminary ranking
  net,        \* the order by net_apr_pct
  todo,       \* places of the gate tokens not looked at yet
  winner

gateVars == <<at, prelim, net, todo, winner>>

vars == <<token, sim, verdict, gateVars>>

\* What sorting the pools by a rate may give, which are floating-point sums of
\* fees, emissions, losses, gas and dilution (net_apr).
Rankings == SetToSeqs(Pools)

LegsOf(p) == Range(Legs[p])

Shorter(n, m) == IF n < m THEN n ELSE m

\* The tokens of the shortlist in its order, two to a pool, by their places.
Places == 1..(2 * Shorter(Depth, Len(prelim)))

TokenAt(k) == Legs[prelim[(k + 1) \div 2]][IF k % 2 = 1 THEN 1 ELSE 2]

\* Each token counts once, those of the allowlist not at all.
FirstPlaces ==
  {k \in Places : TokenAt(k) \notin Allowlist /\ \A j \in 1..(k - 1) : TokenAt(j) # TokenAt(k)}

TypeOK ==
  /\ ScanTypeOK
  /\ at \in {"shortlist", "fork", "scan", "decide", "done"}
  /\ prelim \in Rankings /\ net \in Rankings
  /\ todo \subseteq FirstPlaces /\ Cardinality(todo) <= MaxGated
  /\ winner \in Pools \cup {NoPool}

\* The candidates with all that is fetched for them: a fetch that fails moves a
\* pool in the rankings, or ends the hire.
Init ==
  /\ token = NoToken
  /\ sim = NoSim
  /\ verdict = [t \in Tokens |-> "none"]
  /\ at = "shortlist"
  /\ prelim \in Rankings
  /\ net \in Rankings
  /\ todo = {}
  /\ winner = NoPool

\* Mutant of GateTokens: the cut is forgotten.
GateTokensUncut == FirstPlaces

\* Mutant of GateTokens: the cut keeps the end of the list.
GateTokensLast ==
  {k \in FirstPlaces : Cardinality({j \in FirstPlaces : j > k}) < MaxGated}

GateTokens == {k \in FirstPlaces : Cardinality({j \in FirstPlaces : j < k}) < MaxGated}

Shortlist ==
  /\ at = "shortlist"
  /\ todo' = GateTokens
  /\ at' = IF todo' = {} THEN "decide" ELSE "fork"
  /\ UNCHANGED <<token, sim, verdict, prelim, net, winner>>

\* anvil_fork starts, or it does not and the gate is off.
OpenFork ==
  /\ at = "fork"
  /\ \/ at' = "scan" /\ UNCHANGED todo
     \/ at' = "decide" /\ todo' = {}
  /\ UNCHANGED <<token, sim, verdict, prelim, net, winner>>

NextToken ==
  /\ at = "scan" /\ token = NoToken
  /\ \E k \in todo :
       /\ \A j \in todo : k <= j
       /\ token' = TokenAt(k)
       /\ todo' = todo \ {k}
  /\ UNCHANGED <<sim, verdict, at, prelim, net, winner>>

ScanToken ==
  /\ at = "scan"
  /\ Scan
  /\ UNCHANGED gateVars

CloseFork ==
  /\ at = "scan" /\ token = NoToken
  /\ todo = {}
  /\ at' = "decide"
  /\ UNCHANGED <<token, sim, verdict, prelim, net, todo, winner>>

Excluded(p) == \E t \in LegsOf(p) : verdict[t] = "CRITICAL"

\* security_screened: allowed, or in the agent's dict with any verdict.
Screened(p) == \A t \in LegsOf(p) : t \in Allowlist \/ verdict[t] # "none"

BestOf(pools) ==
  LET best == {i \in DOMAIN net : net[i] \in pools /\ \A j \in 1..(i - 1) : net[j] \notin pools}
  IN IF best = {} THEN NoPool ELSE net[CHOOSE i \in best : TRUE]

\* Mutant of Winner: the best of those not excluded, screened or not.
WinnerOfRanked == BestOf({p \in Pools : ~ Excluded(p)})

\* Mutant of Winner: the screened come first, excluded or not.
WinnerOfScreened ==
  LET eligible == {p \in Pools : Screened(p)}
  IN IF eligible # {} THEN BestOf(eligible) ELSE BestOf(Pools)

Winner ==
  LET ranked   == {p \in Pools : ~ Excluded(p)}
      eligible == {p \in ranked : Screened(p)}
  IN BestOf(IF eligible # {} THEN eligible ELSE ranked)

Decide ==
  /\ at = "decide"
  /\ winner' = Winner
  /\ at' = "done"
  /\ UNCHANGED <<token, sim, verdict, prelim, net, todo>>

Next == Shortlist \/ OpenFork \/ NextToken \/ ScanToken \/ CloseFork \/ Decide

Spec == Init /\ [][Next]_vars

-----------------------------------------------------------------------------
(* Properties.                                                              *)

\* A token that was bought and could not be sold back is CRITICAL, whatever
\* its other checks say, and however many of them fail.
UnsellableIsCritical ==
  [][sim.at = "checks" /\ sim'.at = "pair" /\ sim.buyable /\ ~ sim.sellable
       => verdict'[token] = "CRITICAL"]_vars

\* A token that was sold back at a tolerable tax, and whose owner cannot mint,
\* is never CRITICAL: checks that do not answer cannot drag it down.
SoldBackIsNotCritical ==
  [][/\ sim.at = "checks" /\ sim'.at = "pair"
     /\ sim.sellable /\ sim.sellTax <= 25 /\ ~ Truth[token].mint
     => verdict'[token] # "CRITICAL"]_vars

\* A pool with a token the security agent found CRITICAL never wins.
CriticalNeverWins ==
  winner # NoPool => \A t \in LegsOf(winner) : verdict[t] # "CRITICAL"

\* The winner is unscreened only when every screened pool is excluded, and no
\* pool of its standing earns more.
ScreenedFirst ==
  winner # NoPool =>
    \A p \in Pools \ {winner} :
      /\ ~ Excluded(p)
      /\ Screened(p) \/ ~ Screened(winner)
      => /\ Screened(winner) \/ ~ Screened(p)
         /\ \E i, j \in DOMAIN net : i < j /\ net[i] = winner /\ net[j] = p

\* Once the gate has given any verdict, the most promising pool of the
\* preliminary ranking is screened: the cut never costs it its scan.
TopIsScreened ==
  /\ at \in {"decide", "done"}
  /\ \E t \in Tokens : verdict[t] # "none"
  => Screened(prelim[1])
=============================================================================
