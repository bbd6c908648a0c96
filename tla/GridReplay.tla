----------------------------- MODULE GridReplay -----------------------------
(***************************************************************************)
(* The grid agent (services/agents/bnb_grid): decide lays price lines over   *)
(* the calibrated band, act replays candles against them (simulate in        *)
(* sim.py). Each candle first offers every empty slot a buy at its line,     *)
(* then every slot bought earlier a sale at the next line, and then marks    *)
(* the inventory and asks the circuit breaker. Money and prices are integers *)
(* that round down where the code has floats.                                *)
(***************************************************************************)
EXTENDS Integers, FiniteSets

CONSTANTS
  Capital,       \* capital_usd
  Levels,        \* grid_levels after clamp_levels
  Lower, Upper,  \* the band of calibrate_grid
  Spacing,       \* spacing_frac, per mille
  Slippage,      \* slippage_bps, per mille
  FeeRate,       \* fee_bps, per mille
  GasPerFill,    \* gas_usd_per_fill
  MaxLossPct,    \* kill_switch.max_loss_pct
  Candles,       \* the candles a market can bring
  MaxCandles     \* bound: rows of the replay

ASSUME GridAssumption ==
  /\ Capital \in Nat \ {0} /\ Levels \in Nat /\ Levels >= 2
  /\ Lower \in Nat \ {0} /\ Upper \in Nat /\ Lower <= Upper
  /\ Spacing \in Nat /\ Slippage \in 0..999 /\ FeeRate \in 0..1000
  /\ GasPerFill \in Nat /\ MaxLossPct \in 1..100
  /\ Candles \subseteq [open : Nat, low : Nat, high : Nat, close : Nat] /\ Candles # {}
  /\ \A c \in Candles : c.low > 0 /\ {c.open, c.close} \subseteq c.low..c.high
  /\ MaxCandles \in Nat

VARIABLES
  gridAt,     \* "rows": next candle; "buys", "sells": loops over slots; "mark"; "over"
  slot,       \* the slot the loop is at
  row,        \* idx, and at the end the number of rows replayed
  candle,     \* the candle of the row
  entry,      \* open of the first row
  heldSince,  \* heldSince[i]: buy_idx of slot i, or Empty
  cash,
  realized,   \* the sum of net_usd over the round trips
  trips,      \* len(round_trips)
  wins,
  fills,      \* len(fills)
  fees,       \* fees_usd
  peak,
  drawdown,   \* the greatest peak - equity
  halt        \* halt_reason

gridVars == <<gridAt, slot, row, candle, entry, heldSince, cash, realized, trips, wins,
              fills, fees, peak, drawdown, halt>>

Empty == -1

NSlots == Levels - 1

SlotIds == 1..NSlots

\* Quantities are in thousandths of a coin.
Unit == 1000

\* np.linspace(lower, upper, levels)
Line(i) == Lower + ((i - 1) * (Upper - Lower)) \div (Levels - 1)

Size == Capital \div Levels

BuyPx(i) == (Line(i) * (1000 + Slippage)) \div 1000

SellPx(i) == (Line(i + 1) * (1000 - Slippage)) \div 1000

Qty(i) == (Size * Unit) \div BuyPx(i)

Proceeds(i) == (Qty(i) * SellPx(i)) \div Unit

Fee(usd) == (usd * FeeRate) \div 1000

\* cost_basis, the same for every slot
Cost == Size + Fee(Size) + GasPerFill

\* Mutant of Net: the gas of the buy is forgotten.
NetWithoutBuyGas(i) == Proceeds(i) - Fee(Proceeds(i)) - GasPerFill - Size - Fee(Size)

Net(i) == Proceeds(i) - Fee(Proceeds(i)) - GasPerFill - Cost

Held == {i \in SlotIds : heldSince[i] # Empty}

\* Slot by slot.
InventoryValue(price) ==
  LET value[n \in 0..NSlots] ==
        IF n = 0 THEN 0
        ELSE value[n - 1] + IF n \in Held THEN (Qty(n) * price) \div Unit ELSE 0
  IN value[NSlots]

Equity(price) == cash + InventoryValue(price)

\* Mutant of CanBuy: the cash is not looked at.
CanBuyOnCredit(i) == heldSince[i] = Empty /\ candle.low <= Line(i)

CanBuy(i) ==
  /\ heldSince[i] = Empty
  /\ candle.low <= Line(i)
  /\ cash >= Size

CanSell(i) ==
  /\ heldSince[i] # Empty
  /\ row > heldSince[i]
  /\ candle.high >= Line(i + 1)

GridInit ==
  /\ gridAt = "rows" /\ slot = 1 /\ row = 0
  /\ candle = CHOOSE c \in Candles : TRUE
  /\ entry = 0
  /\ heldSince = [i \in SlotIds |-> Empty]
  /\ cash = Capital
  /\ realized = 0 /\ trips = 0 /\ wins = 0 /\ fills = 0 /\ fees = 0
  /\ peak = Capital /\ drawdown = 0
  /\ halt = "no"

NextRow ==
  /\ gridAt = "rows" /\ row < MaxCandles
  /\ candle' \in Candles
  /\ entry' = IF row = 0 THEN candle'.open ELSE entry
  /\ gridAt' = "buys" /\ slot' = 1
  /\ UNCHANGED <<row, heldSince, cash, realized, trips, wins, fills, fees, peak, drawdown, halt>>

\* The loops over the slots: on to the next slot, or to the next loop.
Advance(loop) ==
  /\ slot' = IF slot = NSlots THEN 1 ELSE slot + 1
  /\ gridAt' = IF slot = NSlots THEN loop ELSE gridAt

BuySlot ==
  /\ gridAt = "buys"
  /\ Advance("sells")
  /\ \/ /\ CanBuy(slot)
        /\ cash' = cash - (Size + Fee(Size) + GasPerFill)
        /\ fees' = fees + Fee(Size)
        /\ fills' = fills + 1
        /\ heldSince' = [heldSince EXCEPT ![slot] = row]
     \/ ~ CanBuy(slot) /\ UNCHANGED <<cash, fees, fills, heldSince>>
  /\ UNCHANGED <<row, candle, entry, realized, trips, wins, peak, drawdown, halt>>

SellSlot ==
  /\ gridAt = "sells"
  /\ Advance("mark")
  /\ \/ /\ CanSell(slot)
        /\ cash' = cash + Proceeds(slot) - Fee(Proceeds(slot)) - GasPerFill
        /\ fees' = fees + Fee(Proceeds(slot))
        /\ fills' = fills + 1
        /\ realized' = realized + Net(slot)
        /\ trips' = trips + 1
        /\ wins' = IF Net(slot) > 0 THEN wins + 1 ELSE wins
        /\ heldSince' = [heldSince EXCEPT ![slot] = Empty]
     \/ /\ ~ CanSell(slot)
        /\ UNCHANGED <<cash, fees, fills, realized, trips, wins, heldSince>>
  /\ UNCHANGED <<row, candle, entry, peak, drawdown, halt>>

\* The circuit breaker, asked once a row.
HaltReason(equity) ==
  CASE (Capital - equity) * 100 > MaxLossPct * Capital -> "loss"
    [] \/ candle.close * 1000 > Upper * (1000 + 2 * Spacing)
       \/ candle.close * 1000 < Lower * (1000 - 2 * Spacing) -> "range"
    [] OTHER -> "no"

Greater(n, m) == IF n > m THEN n ELSE m

Mark ==
  /\ gridAt = "mark"
  /\ LET equity == Equity(candle.close)
     IN /\ peak' = Greater(peak, equity)
        /\ drawdown' = Greater(drawdown, peak' - equity)
        /\ halt' = HaltReason(equity)
  /\ row' = row + 1
  /\ gridAt' = IF halt' = "no" THEN "rows" ELSE "over"
  /\ UNCHANGED <<slot, candle, entry, heldSince, cash, realized, trips, wins, fills, fees>>

\* observe hands over two rows at least.
RowsEnd ==
  /\ gridAt = "rows" /\ row >= 2
  /\ gridAt' = "over"
  /\ UNCHANGED <<slot, row, candle, entry, heldSince, cash, realized, trips, wins, fills, fees,
                 peak, drawdown, halt>>

GridNext == NextRow \/ BuySlot \/ SellSlot \/ Mark \/ RowsEnd

GridSpec == GridInit /\ [][GridNext]_gridVars

-----------------------------------------------------------------------------
(* Properties.                                                              *)

GridTypeOK ==
  /\ gridAt \in {"rows", "buys", "sells", "mark", "over"}
  /\ slot \in SlotIds /\ row \in 0..MaxCandles /\ candle \in Candles
  /\ gridAt \notin {"rows", "over"} => row < MaxCandles
  /\ heldSince \in [SlotIds -> {Empty} \cup 0..MaxCandles]
  /\ {cash, realized, drawdown} \subseteq Int
  /\ {entry, trips, wins, fills, fees, peak} \subseteq Nat
  /\ halt \in {"no", "loss", "range"}

\* At every moment cash and the cost of what is held are the capital and the
\* realised result, so that net_pnl_usd is realized_pnl_usd plus
\* unrealized_pnl_usd at any price; and every fill is one half of a round trip
\* or is still held.
BooksBalance ==
  /\ cash + Cost * Cardinality(Held) = Capital + realized
  /\ fills = 2 * trips + Cardinality(Held)
  /\ wins <= trips

\* However many round trips lose money, the paper account is never overdrawn
\* by more than the fee and the gas of one buy.
CashFloor == cash >= - (Fee(Size) + GasPerFill)

\* sim.py:107: "buys: price dipped to an empty slot's line". A buy fills at a
\* price of its candle.
BoughtOnDip ==
  gridAt = "sells" => \A i \in SlotIds :
    heldSince[i] = row => Line(i) \in candle.low..candle.high
=============================================================================
