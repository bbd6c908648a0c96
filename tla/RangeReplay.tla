---------------------------- MODULE RangeReplay ----------------------------
(***************************************************************************)
(* The LP rebalancer (services/agents/pcs_rebalancer): select_range centres  *)
(* a range on a price, simulate_rebalancer replays hourly prices against it  *)
(* and, at a checkpoint or out of range, asks rebalance_decision whether a   *)
(* fresh range would pay for closing this one. A price is its logarithm, in  *)
(* parts of a tick, Sub to the tick, so that widths add. Fees and losses     *)
(* are integers with the shape of concentration_factor and il_estimate: a    *)
(* narrow range earns more and loses more, and losses grow with time.        *)
(***************************************************************************)
EXTENDS Integers

CONSTANTS
  Sub,           \* parts of a tick a price can fall on
  TickSpacing,   \* spacing of the pool's fee tier
  Prices,        \* prices of the pool, in parts of a tick
  Vols,          \* values of realized_vol over a window
  Reach,         \* half width in parts of a tick per unit of volatility: m(risk) and horizon
  FeeScale, MaxFee,  \* fees of an hour: FeeScale over the half width, at most MaxFee
  LossScale,     \* the scale of il_estimate
  HorizonHours,  \* horizon_days
  OpenGas, CloseGas,
  CheckpointHours,
  WarmUp,        \* the 24 of sim.py:84
  MaxHours       \* bound: rows of the replay

ASSUME RangeAssumption ==
  /\ Sub \in Nat \ {0} /\ TickSpacing \in Nat \ {0}
  /\ Prices \subseteq Int /\ Prices # {}
  /\ Vols \subseteq Nat \ {0} /\ Vols # {} /\ Reach \in Nat /\ Reach >= Sub
  /\ {FeeScale, MaxFee, LossScale, HorizonHours, OpenGas, CloseGas, WarmUp, MaxHours} \subseteq Nat
  /\ CheckpointHours \in Nat \ {0}

VARIABLES
  lpAt,        \* "select": decide, "hours": the replay, "over"
  hour,        \* idx
  price,       \* close of the hour
  lower, upper,  \* ticks of rng
  vol,         \* rng.vol_annual
  openIdx,
  lpFees,      \* accrued_fees_usd
  lpGas,       \* total_gas_usd
  lpLoss,      \* realised_il_usd
  rebalances, holds,
  inRangeHours,
  heldIn       \* history: volatilities at which this position was held

rangeVars == <<lpAt, hour, price, lower, upper, vol, openIdx, lpFees, lpGas, lpLoss,
               rebalances, holds, inRangeHours, heldIn>>

HalfWidth(v) == Reach * v

PriceToTick(p) == p \div Sub

SnapDown(tick) == (tick \div TickSpacing) * TickSpacing

\* Mutant of SnapUp: the upper bound is snapped like the lower one.
SnapUpAsDown(tick) == SnapDown(tick)

SnapUp(tick) == -((-tick) \div TickSpacing) * TickSpacing

RangeLower(p, v) == SnapDown(PriceToTick(p - HalfWidth(v)))

RangeUpper(p, v) ==
  LET snapped == SnapUp(PriceToTick(p + HalfWidth(v)))
  IN IF snapped <= RangeLower(p, v) THEN RangeLower(p, v) + TickSpacing ELSE snapped

\* rng.pa <= price <= rng.pb
Holds(p) == lower * Sub <= p /\ p <= upper * Sub

\* concentration_factor, capped, times the capital's base fees
HourFee(v) == IF FeeScale \div HalfWidth(v) > MaxFee THEN MaxFee ELSE FeeScale \div HalfWidth(v)

\* max(elapsed_days, 0.01), in quarters of an hour
Elapsed(hours) == IF hours = 0 THEN 1 ELSE 4 * hours

\* il_estimate: the volatility now, the width of the range that is closed.
Loss(v, hours, ranged) == (LossScale * v * v * Elapsed(hours)) \div HalfWidth(ranged)

\* rebalance_decision: net_usd
NetOfRebalance(v, hours) ==
  HourFee(v) * HorizonHours - Loss(v, hours, vol) - (CloseGas + OpenGas)

RangeInit ==
  /\ lpAt = "select"
  /\ hour = 0 /\ price = CHOOSE p \in Prices : TRUE
  /\ lower = 0 /\ upper = 0 /\ vol = CHOOSE v \in Vols : TRUE
  /\ openIdx = 0
  /\ lpFees = 0 /\ lpGas = OpenGas /\ lpLoss = 0
  /\ rebalances = 0 /\ holds = 0 /\ inRangeHours = 0
  /\ heldIn = {}

\* decide: around the pool's price of now, which is the end of the window that
\* act replays, not its start.
SelectRange ==
  /\ lpAt = "select"
  /\ \E p \in Prices, v \in Vols :
       lower' = RangeLower(p, v) /\ upper' = RangeUpper(p, v) /\ vol' = v
  /\ lpAt' = "hours"
  /\ UNCHANGED <<hour, price, openIdx, lpFees, lpGas, lpLoss, rebalances, holds, inRangeHours,
                 heldIn>>

Checkpoint(in) ==
  /\ hour > 0 /\ hour >= WarmUp
  /\ hour % CheckpointHours = 0 \/ ~ in

\* Mutant of Hold: the position counts as opened again.
HoldReopened(v) ==
  /\ NetOfRebalance(v, hour - openIdx) <= 0
  /\ holds' = holds + 1
  /\ heldIn' = heldIn \cup {v}
  /\ openIdx' = hour
  /\ UNCHANGED <<lower, upper, vol, lpGas, lpLoss, rebalances>>

Hold(v) ==
  /\ NetOfRebalance(v, hour - openIdx) <= 0
  /\ holds' = holds + 1
  /\ heldIn' = heldIn \cup {v}
  /\ UNCHANGED <<lower, upper, vol, openIdx, lpGas, lpLoss, rebalances>>

Rebalance(p, v) ==
  /\ NetOfRebalance(v, hour - openIdx) > 0
  /\ lpLoss' = lpLoss + Loss(v, hour - openIdx, vol)
  /\ lpGas' = lpGas + CloseGas + OpenGas
  /\ lower' = RangeLower(p, v) /\ upper' = RangeUpper(p, v) /\ vol' = v
  /\ openIdx' = hour
  /\ rebalances' = rebalances + 1
  /\ heldIn' = {}
  /\ UNCHANGED holds

Hour ==
  /\ lpAt = "hours" /\ hour < MaxHours
  /\ \E p \in Prices :
       /\ price' = p
       /\ IF Holds(p)
            THEN inRangeHours' = inRangeHours + 1 /\ lpFees' = lpFees + HourFee(vol)
            ELSE UNCHANGED <<inRangeHours, lpFees>>
       /\ \/ /\ ~ Checkpoint(Holds(p))
             /\ UNCHANGED <<lower, upper, vol, openIdx, lpGas, lpLoss, rebalances, holds, heldIn>>
          \/ Checkpoint(Holds(p)) /\ \E v \in Vols : Hold(v) \/ Rebalance(p, v)
  /\ hour' = hour + 1
  /\ UNCHANGED lpAt

\* observe hands over more rows than the warm-up.
HoursEnd ==
  /\ lpAt = "hours" /\ hour > WarmUp
  /\ lpAt' = "over"
  /\ UNCHANGED <<hour, price, lower, upper, vol, openIdx, lpFees, lpGas, lpLoss, rebalances,
                 holds, inRangeHours, heldIn>>

RangeNext == SelectRange \/ Hour \/ HoursEnd

RangeSpec == RangeInit /\ [][RangeNext]_rangeVars

\* net_fees_usd, the agent's value
NetFees == lpFees - lpGas - lpLoss - Loss(vol, hour - 1 - openIdx, vol)

-----------------------------------------------------------------------------
(* Properties.                                                              *)

RangeTypeOK ==
  /\ lpAt \in {"select", "hours", "over"}
  /\ hour \in 0..MaxHours /\ price \in Prices /\ vol \in Vols
  /\ {lower, upper} \subseteq Int /\ (lpAt # "select" => lower < upper)
  /\ openIdx \in 0..MaxHours
  /\ {lpFees, lpGas, lpLoss, rebalances, holds, inRangeHours} \subseteq Nat
  /\ heldIn \subseteq Vols

\* A rebalance that was paid for earns: whatever the spacing, snapping to ticks
\* never leaves the new range beside the price it was centred on.
FreshRangeHoldsPrice ==
  [][rebalances' > rebalances
       => lower' * Sub <= price' /\ price' <= upper' * Sub]_rangeVars

\* The rule is not undone by waiting: what rebalancing costs grows with the age
\* of the position, so one held as uneconomic, out of range or not, is never
\* rebalanced later at a volatility at which it was held.
HeldStaysHeld ==
  [][rebalances' > rebalances => vol' \notin heldIn]_rangeVars
=============================================================================
