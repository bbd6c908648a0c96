----------------------------- MODULE SentryScan -----------------------------
(***************************************************************************)
(* The security agent's look at one token (services/agents/bsc_sentry): a   *)
(* buy and a sell on a forked chain (fork.py), checks made from them and    *)
(* from reads of the chain and of BscScan (checks.py), and the verdict      *)
(* (scoring.py). Any call may fail for reasons of its own; what then comes  *)
(* out is what the code makes of it.                                        *)
(* Scores are percentages, weights hundredths.                              *)
(***************************************************************************)
EXTENDS Integers, FiniteSets

CONSTANTS
  Tokens,
  Truth,      \* what each token is on the chain: a member of TokenKinds
  NoToken     \* no token is being looked at

TokenKinds ==
  [pair : BOOLEAN, buys : BOOLEAN, sells : BOOLEAN, buyTax : 0..100, sellTax : 0..100,
   owner : {"none", "renounced", "eoa", "contract"}, verified : BOOLEAN,
   powers : Nat, mint : BOOLEAN, proxy : BOOLEAN, burned : 0..100, days : Nat]

ASSUME ScanAssumption ==
  /\ Truth \in [Tokens -> TokenKinds]
  /\ NoToken \notin Tokens

VARIABLES
  token,      \* the token under examination
  sim,        \* the ForkSimResult so far
  verdict     \* verdict[t] in the agent's `sentry` dict, "none" when absent

NoSim == [at |-> "pair", buyable |-> FALSE, sellable |-> FALSE, buyTax |-> 0,
          sellTax |-> 0]

SimStates == {"pair", "buy", "sell", "checks", "untraded"}

Verdicts == {"OK", "WARN", "CRITICAL", "UNKNOWN"}

ScanTypeOK ==
  /\ token \in Tokens \cup {NoToken}
  /\ sim \in [at : SimStates, buyable : BOOLEAN, sellable : BOOLEAN,
              buyTax : 0..100, sellTax : 0..100]
  /\ verdict \in [Tokens -> Verdicts \cup {"none"}]

-----------------------------------------------------------------------------
(* simulate_trade.                                                          *)

\* getPair, then deposit and approve.
FindPair ==
  /\ sim.at = "pair"
  /\ sim' = [sim EXCEPT !.at = IF Truth[token].pair THEN "buy" ELSE "untraded"]
  /\ UNCHANGED <<token, verdict>>

\* A quote that fails leaves the tax unmeasured, which counts as none.
Measured(tax) == {tax, 0}

\* A trade that reverts or cannot be sent has no tax, one that brings nothing
\* takes all.
Lost == {0, 100}

\* A buy that fails is the end of it.
Buy ==
  /\ sim.at = "buy"
  /\ \/ /\ Truth[token].buys
        /\ \E tax \in Measured(Truth[token].buyTax) :
             sim' = [sim EXCEPT !.at = "sell", !.buyable = TRUE, !.buyTax = tax]
     \/ \E tax \in Lost : sim' = [sim EXCEPT !.at = "checks", !.buyTax = tax]
  /\ UNCHANGED <<token, verdict>>

Sell ==
  /\ sim.at = "sell"
  /\ \/ /\ Truth[token].sells
        /\ \E tax \in Measured(Truth[token].sellTax) :
             sim' = [sim EXCEPT !.at = "checks", !.sellable = TRUE, !.sellTax = tax]
     \/ \E tax \in Lost : sim' = [sim EXCEPT !.at = "checks", !.sellTax = tax]
  /\ UNCHANGED <<token, verdict>>

-----------------------------------------------------------------------------
(* checks_from_sim and run_checks. A check is its name, its score, or -1    *)
(* when it is unknown or unavailable, and whether it is a hard fail.        *)

Weight == [honeypot |-> 28, transfer_tax |-> 18, ownership |-> 15,
           dangerous_functions |-> 14, lp_lock |-> 10, source_verified |-> 7,
           upgradeable_proxy |-> 5, contract_age |-> 3]

Unknown == -1

HoneypotScore ==
  IF sim.at = "untraded" THEN Unknown
  ELSE IF sim.buyable /\ ~ sim.sellable THEN 0
  ELSE IF sim.sellable THEN 100 ELSE 30

TaxScore ==
  LET most == IF sim.sellTax > sim.buyTax THEN sim.sellTax ELSE sim.buyTax IN
  IF sim.at = "untraded" THEN Unknown
  ELSE IF sim.sellTax > 25 THEN 0
  ELSE IF most >= 10 THEN 30 ELSE IF most >= 3 THEN 70 ELSE 100

TradeHardFail ==
  /\ sim.at # "untraded"
  /\ \/ sim.buyable /\ ~ sim.sellable
     \/ sim.sellTax > 25

OwnerScore(k) ==
  CASE k.owner = "none"      -> Unknown
    [] k.owner = "renounced" -> 100
    [] k.owner = "eoa"       -> 40
    [] k.owner = "contract"  -> 70

PowersScore(k, verified) ==
  IF ~ verified THEN Unknown
  ELSE IF k.powers = 0 THEN 100 ELSE IF k.powers <= 2 THEN 60 ELSE 25

LpScore(k) ==
  IF ~ k.pair THEN Unknown
  ELSE IF k.burned >= 90 THEN 100 ELSE IF k.burned >= 50 THEN 60 ELSE 30

AgeScore(days) ==
  IF days >= 90 THEN 100 ELSE IF days >= 30 THEN 80
  ELSE IF days >= 7 THEN 50 ELSE 20

\* The checks that read the chain; one that raises is recorded as unknown.
ChainChecks == {"ownership", "upgradeable_proxy", "lp_lock", "contract_age"}

\* The scores, when the reads of `failed` fail, `verified` is what BscScan says
\* of the source (nothing, and so FALSE, when it does not answer), and the
\* bisection finds `days`.
Scores(failed, verified, days) ==
  LET k == Truth[token] IN
  [c \in DOMAIN Weight |->
     IF c \in failed THEN Unknown
     ELSE CASE c = "honeypot"            -> HoneypotScore
            [] c = "transfer_tax"        -> TaxScore
            [] c = "ownership"           -> OwnerScore(k)
            [] c = "upgradeable_proxy"   -> IF k.proxy THEN 30 ELSE 100
            [] c = "source_verified"     -> IF verified THEN 100 ELSE 30
            [] c = "dangerous_functions" -> PowersScore(k, verified)
            [] c = "lp_lock"             -> LpScore(k)
            [] c = "contract_age"        -> AgeScore(days)]

\* mint is in the ABI, which only verified source shows, and the owner is an
\* account.
MintByEoa(failed, verified) ==
  /\ verified /\ Truth[token].mint
  /\ "ownership" \notin failed /\ Truth[token].owner = "eoa"

-----------------------------------------------------------------------------
(* score_report.                                                            *)

\* Python's round: to the nearest, ties to the even neighbour.
RoundDiv(n, d) ==
  LET q == n \div d
      r == n % d
  IN IF 2 * r > d \/ (2 * r = d /\ q % 2 = 1) THEN q + 1 ELSE q

\* The sum of a number for every check.
Total(n) ==
  n["honeypot"] + n["transfer_tax"] + n["ownership"] + n["dangerous_functions"]
    + n["lp_lock"] + n["source_verified"] + n["upgradeable_proxy"] + n["contract_age"]

\* What the checks that ran weigh, and their scores times that.
Weights(scores) == [c \in DOMAIN Weight |-> IF scores[c] = Unknown THEN 0 ELSE Weight[c]]

Marks(scores) ==
  [c \in DOMAIN Weight |-> IF scores[c] = Unknown THEN 0 ELSE scores[c] * Weight[c]]

\* Mutant of WeightedScore: an unknown check counts as a score of zero.
WeightedScoreOfAll(scores, penalty) ==
  RoundDiv(Total(Marks(scores)) * penalty, Total(Weight) * 100)

\* The weighted mean of the checks that ran, times the penalty.
WeightedScore(scores, penalty) ==
  IF Total(Weights(scores)) = 0 THEN 0
  ELSE RoundDiv(Total(Marks(scores)) * penalty, Total(Weights(scores)) * 100)

\* Mutant of ScoreReport: hard fails cap the score of an otherwise good token.
ScoreReportByScore(failed, verified, days) ==
  LET mint  == MintByEoa(failed, verified)
      score == WeightedScore(Scores(failed, verified, days), IF mint THEN 55 ELSE 100)
  IN IF score >= 75 THEN "OK" ELSE IF score >= 40 THEN "WARN" ELSE "CRITICAL"

\* A mint by an account is a hard fail unless the source is verified, a
\* penalty if it is.
ScoreReport(failed, verified, days) ==
  LET mint  == MintByEoa(failed, verified)
      score == WeightedScore(Scores(failed, verified, days),
                             IF mint /\ verified THEN 55 ELSE 100)
  IN IF TradeHardFail \/ (mint /\ ~ verified) THEN "CRITICAL"
     ELSE IF score >= 75 THEN "OK" ELSE IF score >= 40 THEN "WARN" ELSE "CRITICAL"

Verdict(v) ==
  /\ verdict' = [verdict EXCEPT ![token] = v]
  /\ token' = NoToken
  /\ sim' = NoSim

\* gather's second half and score_report: some reads may fail, and a gap in the
\* node's history makes the contract look younger.
Score ==
  /\ sim.at \in {"checks", "untraded"}
  /\ \E failed \in SUBSET ChainChecks,
        verified \in {Truth[token].verified, FALSE}, days \in {Truth[token].days, 0} :
       Verdict(ScoreReport(failed, verified, days))

\* A call that simulate_trade does not guard raises: the whole look is off.
ScanRaises ==
  /\ sim.at \in {"pair", "buy", "sell"}
  /\ Verdict("UNKNOWN")

Scan ==
  /\ token # NoToken
  /\ (FindPair \/ Buy \/ Sell \/ Score \/ ScanRaises)
=============================================================================
