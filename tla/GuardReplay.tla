---------------------------- MODULE GuardReplay ----------------------------
(***************************************************************************)
(* The Venus guard (services/agents/venus_guard): observe takes an account   *)
(* and the steepest fall of its collateral's price, decide sets the trigger, *)
(* act replays the fall twice, once with the guard repaying debt from a      *)
(* buffer and once without (replay.py), and report says what was saved.      *)
(* Ratios are per cent of the peak, health factors per cent; a repayment is  *)
(* rounded up to the unit.                                                   *)
(***************************************************************************)
EXTENDS Integers

CONSTANTS
  Debts,        \* possible total_borrow_usd
  Volatile,     \* volatile_adj_usd, collateral times its factor at the peak
  Stable,       \* stable_adj_usd
  Buffers,      \* possible buffer_usd
  Ratios,       \* ratios a falling price can have
  MaxSteps,     \* bound: length of the path
  AskedHf,      \* input trigger_hf
  VolHf,        \* possible values of vol_scaled_trigger
  Pad,          \* recovery_pad
  RepayGas,     \* gas_per_repay_usd
  CloseFactor,  \* per cent
  Incentive     \* liquidation_incentive, per cent

ASSUME GuardAssumption ==
  /\ Debts \subseteq Nat /\ Buffers \subseteq Nat
  /\ Volatile \in Nat \ {0} /\ Stable \in Nat
  /\ Ratios \subseteq 0..100 /\ MaxSteps \in Nat
  /\ AskedHf \in Nat /\ AskedHf > 100
  /\ VolHf \subseteq Nat /\ \A v \in VolHf : v >= 100
  /\ Pad \in Nat \ {0} /\ RepayGas \in Nat
  /\ CloseFactor \in 0..100 /\ Incentive \in Nat /\ Incentive >= 100

VARIABLES
  guardAt,     \* "observe", "path", "trough": the lowest row is behind, "over"
  debt,        \* total_borrow_usd of the account, as observed
  trigger,     \* trigger_hf in per cent
  ratio,       \* k of the step replayed last
  lowest,      \* min(ratio_path) so far
  steps,       \* steps replayed
  borrow,      \* what is left of the debt in the guarded replay
  buffer,      \* remaining_buffer
  repaid,
  repays,      \* n_repays
  crossed,     \* the guarded replay's min_hf is below 1
  noAction     \* the other replay is liquidated

guardVars == <<guardAt, debt, trigger, ratio, lowest, steps, borrow, buffer, repaid, repays,
               crossed, noAction>>

Recovery == trigger + Pad

\* adj_at(k), in hundredths.
Adjusted(k) == 100 * Stable + Volatile * k

\* hf_at(k, owed) < hf: with nothing owed the factor is infinite.
Below(k, owed, hf) == Adjusted(k) < hf * owed

Smaller(n, m) == IF n < m THEN n ELSE m

AtLeastZero(n) == IF n < 0 THEN 0 ELSE n

GuardInit ==
  /\ guardAt = "observe"
  /\ debt = 0 /\ trigger = 0
  /\ ratio = 100 /\ lowest = 100 /\ steps = 0
  /\ borrow = 0 /\ buffer = 0 /\ repaid = 0 /\ repays = 0
  /\ crossed = FALSE /\ noAction = FALSE

\* observe, which raises NotAtRisk for an account without debt, and decide.
Observe ==
  /\ guardAt = "observe"
  /\ \/ \E owed \in Debts \ {0}, usd \in Buffers, vol \in VolHf :
          /\ debt' = owed /\ borrow' = owed
          /\ buffer' = usd
          /\ trigger' = IF vol > AskedHf THEN vol ELSE AskedHf
          /\ guardAt' = "path"
     \/ 0 \in Debts /\ guardAt' = "over" /\ UNCHANGED <<debt, borrow, buffer, trigger>>
  /\ UNCHANGED <<ratio, lowest, steps, repaid, repays, crossed, noAction>>

\* Mutant of Repayment: up to the trigger only.
RepaymentToTrigger(k) ==
  LET need == AtLeastZero(borrow - Adjusted(k) \div trigger)
  IN Smaller(Smaller(need, buffer), borrow)

Repayment(k) ==
  LET target == Adjusted(k) \div Recovery
      need   == AtLeastZero(borrow - target)
  IN Smaller(Smaller(need, buffer), borrow)

MustRepay(k) ==
  /\ Below(k, borrow, trigger)
  /\ borrow > 0 /\ buffer > 0
  /\ Repayment(k) > 0

Step(k) ==
  /\ steps' = steps + 1 /\ ratio' = k /\ lowest' = Smaller(lowest, k)
  /\ crossed' = (crossed \/ Below(k, borrow, 100))
  /\ noAction' = (noAction \/ Below(k, debt, 100))
  /\ \/ /\ MustRepay(k)
        /\ borrow' = borrow - Repayment(k)
        /\ buffer' = buffer - Repayment(k)
        /\ repaid' = repaid + Repayment(k)
        /\ repays' = repays + 1
     \/ ~ MustRepay(k) /\ UNCHANGED <<borrow, buffer, repaid, repays>>
  /\ UNCHANGED <<debt, trigger>>

\* The path of _worst_drawdown_path: from the peak, which is 100, down to the
\* trough, the lowest of all, and one row behind it if there is one. A window
\* that only rises, or is short, is a path that starts at its trough.
Fall ==
  /\ guardAt = "path" /\ steps < MaxSteps
  /\ \E k \in IF steps = 0 THEN {100} ELSE Ratios :
       /\ Step(k)
       /\ guardAt' \in {"path"} \cup IF steps = 0 \/ k < lowest THEN {"trough"} ELSE {}

Rebound ==
  /\ guardAt = "trough" /\ steps < MaxSteps
  /\ \E k \in Ratios : k >= lowest /\ Step(k)
  /\ guardAt' = "over"

PathEnds ==
  /\ guardAt = "trough"
  /\ guardAt' = "over"
  /\ UNCHANGED <<debt, trigger, ratio, lowest, steps, borrow, buffer, repaid, repays, crossed,
                 noAction>>

GuardNext == Observe \/ Fall \/ Rebound \/ PathEnds

GuardSpec == GuardInit /\ [][GuardNext]_guardVars

-----------------------------------------------------------------------------
(* report and the baseline.                                                 *)

\* Mutant of Liquidated: the debt before the repayments.
LiquidatedAtFirst == crossed /\ Below(lowest, debt, 100)

\* Mutant of Liquidated: the trigger is taken for 1.
LiquidatedAtTrigger == Below(lowest, borrow, trigger)

Liquidated == crossed /\ Below(lowest, borrow, 100)

\* What a liquidator takes from the account left alone, in ten-thousandths.
Penalty == IF noAction THEN CloseFactor * debt * (Incentive - 100) ELSE 0

\* usd_saved, the agent's value
Saved == (IF Liquidated THEN 0 ELSE Penalty) - 10000 * repays * RepayGas

\* What run_hire subtracts from it: the value of the baseline no_action.
NoAction == - Penalty

-----------------------------------------------------------------------------
(* Properties.                                                              *)

GuardTypeOK ==
  /\ guardAt \in {"observe", "path", "trough", "over"}
  /\ debt \in Debts \cup {0} /\ trigger \in Nat
  /\ ratio \in Ratios \cup {100} /\ lowest \in Ratios \cup {100} /\ steps \in 0..MaxSteps
  /\ {borrow, buffer, repaid, repays} \subseteq Nat
  /\ {crossed, noAction} \subseteq BOOLEAN

\* As long as the buffer is not spent, the guarded position is not liquidated:
\* every step leaves it at the trigger or above, and the trigger is above 1.
LiquidatedOnlyWhenSpent == Liquidated => buffer = 0

\* The guard never turns a position that survives into one that is liquidated,
\* spends no more than was approved, and is credited with an advantage over
\* doing nothing only for an account that would have been liquidated.
NeverHarms ==
  /\ Liquidated => noAction
  /\ borrow + repaid = debt /\ borrow >= 0 /\ buffer >= 0
  /\ Saved - NoAction > 0 => noAction

\* replay.py:8: a repayment is the smallest that restores recovery_hf: one unit
\* less would not, and it falls short only by emptying the buffer.
SmallestRepayment ==
  [][repays' > repays
       => /\ Adjusted(ratio') < Recovery * (borrow' + 1)
          /\ buffer' > 0 => ~ Below(ratio', borrow', Recovery)]_guardVars
=============================================================================
