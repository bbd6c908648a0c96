--------------------------- MODULE Agents_proofs ---------------------------
(***************************************************************************)
(* Proofs about the four agents of the catalogue and the security gate: the  *)
(* books of the grid replay, for every capital, band, number of levels, fee, *)
(* gas and sequence of candles; the ranges of the rebalancer's, for every    *)
(* pool, price path, volatility and cost; the guard, for every account,      *)
(* buffer, trigger and path; the yield agent and its gate, for any pools,    *)
(* tokens, verdicts, failures and orders of the pools; and the runs of all    *)
(* of them together.                                                         *)
(***************************************************************************)
EXTENDS AgentRun, FiniteSetTheorems, WellFoundedInduction, TLAPS

-----------------------------------------------------------------------------
(***************************************************************************)
(* The grid and the ranges.                                                  *)
(***************************************************************************)

\* What the books are kept in. The marks (peak, drawdown) are left out: no book
\* depends on them.
BooksOK ==
  /\ slot \in SlotIds
  /\ heldSince \in [SlotIds -> Int]
  /\ row \in Nat
  /\ {cash, realized} \subseteq Int
  /\ {trips, wins, fills} \subseteq Nat

BooksInv == BooksOK /\ BooksBalance

-----------------------------------------------------------------------------
(* The prices of the grid are numbers, although they are quotients.         *)

LEMMA ProductOfNats == ASSUME NEW m \in Nat, NEW n \in Nat PROVE m * n \in Nat
  OBVIOUS

LEMMA QuotientOfNats ==
  ASSUME NEW m \in Nat, NEW n \in Nat, n > 0
  PROVE  m \div n \in Nat
  OBVIOUS

LEMMA QuotientOfInt ==
  ASSUME NEW m \in Int, NEW n \in Nat, n > 0
  PROVE  m \div n \in Int
  OBVIOUS

LEMMA SlotsNat == NSlots \in Nat /\ NSlots > 0 /\ SlotIds = 1..NSlots
  BY GridAssumption DEF NSlots, SlotIds

LEMMA LinePositive == ASSUME NEW i \in 1..Levels PROVE Line(i) \in Nat /\ Line(i) > 0
<1> DEFINE rise == (i - 1) * (Upper - Lower)
<1>1. i - 1 \in Nat /\ Upper - Lower \in Nat /\ Levels - 1 \in Nat /\ Levels - 1 > 0
  BY GridAssumption
<1>2. rise \in Nat
  BY <1>1, ProductOfNats
<1> HIDE DEF rise
<1>3. rise \div (Levels - 1) \in Nat
  BY <1>1, <1>2, QuotientOfNats
<1>4. Line(i) = Lower + rise \div (Levels - 1)
  BY DEF Line, rise
<1> QED BY <1>3, <1>4, GridAssumption

LEMMA BuyPxPositive == ASSUME NEW i \in SlotIds PROVE BuyPx(i) \in Nat /\ BuyPx(i) > 0
<1> DEFINE line == Line(i)
<1>1. line \in Nat /\ line > 0
  BY LinePositive, SlotsNat, GridAssumption DEF NSlots
<1>2. BuyPx(i) = (line * (1000 + Slippage)) \div 1000
  BY DEF BuyPx
<1> HIDE DEF line
<1>3. line * Slippage \in Nat /\ Slippage \in Nat
  BY <1>1, ProductOfNats, GridAssumption
<1>4. line * (1000 + Slippage) = 1000 * line + line * Slippage
  BY <1>1, <1>3
<1> DEFINE slip == line * Slippage
<1> HIDE DEF slip
<1>5. slip \in Nat /\ BuyPx(i) = (1000 * line + slip) \div 1000
  BY <1>2, <1>3, <1>4 DEF slip
<1> QED BY <1>1, <1>5

LEMMA FeeInt == ASSUME NEW usd \in Int PROVE Fee(usd) \in Int
<1>1. FeeRate \in Int /\ usd * FeeRate \in Int
  BY GridAssumption
<1> QED BY <1>1, QuotientOfInt DEF Fee

LEMMA SizeNat == Size \in Nat
  BY QuotientOfNats, GridAssumption DEF Size

LEMMA CostInt == Cost \in Int /\ Cost = Size + Fee(Size) + GasPerFill /\ Fee(Size) \in Int
  BY SizeNat, FeeInt, GridAssumption DEF Cost

LEMMA ProceedsInt ==
  ASSUME NEW i \in SlotIds
  PROVE  Proceeds(i) \in Int /\ Fee(Proceeds(i)) \in Int
<1>1. Qty(i) \in Int
  <2>1. Size * Unit \in Nat
    BY SizeNat DEF Unit
  <2> QED BY <2>1, BuyPxPositive, QuotientOfNats DEF Qty
<1>2. SellPx(i) \in Int
  <2>1. Line(i + 1) \in Nat
    BY LinePositive, SlotsNat, GridAssumption DEF NSlots
  <2>2. Line(i + 1) * (1000 - Slippage) \in Int
    BY <2>1, GridAssumption
  <2> QED BY <2>2, QuotientOfInt DEF SellPx
<1>3. Proceeds(i) \in Int
  <2>1. Qty(i) * SellPx(i) \in Int
    BY <1>1, <1>2
  <2> QED BY <2>1, QuotientOfInt DEF Proceeds, Unit
<1> QED BY <1>3, FeeInt

-----------------------------------------------------------------------------
(* Slots that are held are counted one by one.                              *)

LEMMA HeldFinite ==
  ASSUME BooksOK
  PROVE  IsFiniteSet(Held) /\ Cardinality(Held) \in Nat
<1>1. IsFiniteSet(SlotIds)
  BY SlotsNat, FS_Interval
<1>2. IsFiniteSet(Held)
  BY <1>1, FS_Subset DEF Held
<1> QED BY <1>2, FS_CardinalityType

LEMMA OneMore == ASSUME NEW m \in Int, NEW n \in Int PROVE m * (n + 1) = m * n + m
  OBVIOUS

LEMMA OneFewer == ASSUME NEW m \in Int, NEW n \in Int PROVE m * (n - 1) = m * n - m
  OBVIOUS

LEMMA InitBooksInv == GridInit => BooksInv
<1> SUFFICES ASSUME GridInit PROVE BooksInv
  OBVIOUS
<1>1. BooksOK
  BY SlotsNat, GridAssumption DEF GridInit, BooksOK, Empty
<1>2. Held = {}
  BY DEF GridInit, Held
<1>3. Cardinality(Held) = 0
  BY <1>2, FS_EmptySet
<1>4. Cost * 0 = 0
  BY CostInt
<1> QED BY <1>1, <1>3, <1>4, GridAssumption DEF GridInit, BooksInv, BooksBalance

\* Steps that touch no book.
LEMMA BooksKept ==
  ASSUME BooksInv, slot' \in SlotIds, row' \in Nat,
         UNCHANGED <<heldSince, cash, realized, trips, wins, fills>>
  PROVE  BooksInv'
<1>1. Held' = Held
  BY DEF Held
<1> QED BY <1>1 DEF BooksInv, BooksOK, BooksBalance

LEMMA BuyKeepsBooks ==
  ASSUME BooksInv, BuySlot
  PROVE  BooksInv'
<1>1. slot \in SlotIds /\ slot' \in SlotIds /\ row \in Nat /\ row' = row
  BY SlotsNat DEF BooksInv, BooksOK, BuySlot, Advance
<1>2. CASE ~ CanBuy(slot) /\ UNCHANGED <<cash, fees, fills, heldSince>>
  BY <1>1, <1>2, BooksKept DEF BuySlot
<1>3. ASSUME CanBuy(slot),
             cash' = cash - (Size + Fee(Size) + GasPerFill), fills' = fills + 1,
             heldSince' = [heldSince EXCEPT ![slot] = row]
      PROVE  BooksInv'
  <2>1. BooksOK'
    BY <1>1, <1>3, CostInt, SizeNat, GridAssumption DEF BooksInv, BooksOK, BuySlot
  <2>2. slot \notin Held /\ Held' = Held \cup {slot}
    BY <1>1, <1>3 DEF BooksInv, BooksOK, CanBuy, Held, Empty
  <2>3. /\ IsFiniteSet(Held) /\ Cardinality(Held) \in Nat
        /\ Cardinality(Held') = Cardinality(Held) + 1
    BY <2>2, HeldFinite, FS_AddElement DEF BooksInv
  <2>4. Cost * Cardinality(Held') = Cost * Cardinality(Held) + Cost
    BY <2>3, CostInt, OneMore
  <2>5. Cost * Cardinality(Held) \in Int
    BY <2>3, CostInt
  <2>6. BooksBalance'
    <3>1. cash' = cash - Cost /\ realized' = realized /\ trips' = trips /\ wins' = wins
      BY <1>3, CostInt DEF BuySlot
    <3>2. cash' + Cost * Cardinality(Held') = Capital + realized'
      BY <2>4, <2>5, <3>1, CostInt, GridAssumption DEF BooksInv, BooksOK, BooksBalance
    <3>3. fills' = 2 * trips' + Cardinality(Held')
      BY <1>3, <2>3, <3>1 DEF BooksInv, BooksOK, BooksBalance
    <3> QED BY <3>1, <3>2, <3>3 DEF BooksInv, BooksBalance
  <2> QED BY <2>1, <2>6 DEF BooksInv
<1> QED BY <1>2, <1>3 DEF BuySlot

LEMMA SellKeepsBooks ==
  ASSUME BooksInv, SellSlot
  PROVE  BooksInv'
<1>1. slot \in SlotIds /\ slot' \in SlotIds /\ row \in Nat /\ row' = row
  BY SlotsNat DEF BooksInv, BooksOK, SellSlot, Advance
<1>2. CASE ~ CanSell(slot) /\ UNCHANGED <<cash, fees, fills, realized, trips, wins, heldSince>>
  BY <1>1, <1>2, BooksKept DEF SellSlot
<1>3. ASSUME CanSell(slot),
             cash' = cash + Proceeds(slot) - Fee(Proceeds(slot)) - GasPerFill,
             fills' = fills + 1, realized' = realized + Net(slot), trips' = trips + 1,
             wins' = IF Net(slot) > 0 THEN wins + 1 ELSE wins,
             heldSince' = [heldSince EXCEPT ![slot] = Empty]
      PROVE  BooksInv'
  <2> DEFINE taken == Proceeds(slot) - Fee(Proceeds(slot)) - GasPerFill
  <2>1. taken \in Int /\ Net(slot) = taken - Cost /\ cash' = cash + taken
    BY <1>1, <1>3, ProceedsInt, CostInt, GridAssumption DEF Net, BooksInv, BooksOK
  <2> HIDE DEF taken
  <2>2. BooksOK'
    BY <1>1, <1>3, <2>1, CostInt DEF BooksInv, BooksOK, Empty
  <2>3. slot \in Held /\ Held' = Held \ {slot}
    BY <1>1, <1>3 DEF BooksInv, BooksOK, CanSell, Held, Empty
  <2>4. /\ IsFiniteSet(Held) /\ Cardinality(Held) \in Nat
        /\ Cardinality(Held') = Cardinality(Held) - 1
    BY <2>3, HeldFinite, FS_RemoveElement DEF BooksInv
  <2>5. Cost * Cardinality(Held') = Cost * Cardinality(Held) - Cost
    BY <2>4, CostInt, OneFewer
  <2>6. Cost * Cardinality(Held) \in Int
    BY <2>4, CostInt
  <2>7. BooksBalance'
    <3>1. cash' + Cost * Cardinality(Held') = Capital + realized'
      BY <1>3, <2>1, <2>5, <2>6, CostInt, GridAssumption DEF BooksInv, BooksOK, BooksBalance
    <3>2. fills' = 2 * trips' + Cardinality(Held')
      BY <1>3, <2>4 DEF BooksInv, BooksOK, BooksBalance
    <3>3. wins' <= trips'
      BY <1>3 DEF BooksInv, BooksOK, BooksBalance
    <3> QED BY <3>1, <3>2, <3>3 DEF BooksBalance
  <2> QED BY <2>2, <2>7 DEF BooksInv
<1> QED BY <1>2, <1>3 DEF SellSlot

LEMMA NextBooksInv == BooksInv /\ [GridNext]_gridVars => BooksInv'
<1> SUFFICES ASSUME BooksInv, [GridNext]_gridVars PROVE BooksInv'
  OBVIOUS
<1>0. slot \in SlotIds /\ row \in Nat /\ 1 \in SlotIds
  BY SlotsNat DEF BooksInv, BooksOK
<1>1. CASE NextRow
  BY <1>0, <1>1, BooksKept DEF NextRow
<1>2. CASE BuySlot
  BY <1>2, BuyKeepsBooks
<1>3. CASE SellSlot
  BY <1>3, SellKeepsBooks
<1>4. CASE Mark
  <2>1. row' = row + 1 /\ UNCHANGED <<slot, heldSince, cash, realized, trips, wins, fills>>
    BY <1>4 DEF Mark
  <2> QED BY <1>0, <2>1, BooksKept
<1>5. CASE RowsEnd
  BY <1>0, <1>5, BooksKept DEF RowsEnd
<1>6. CASE UNCHANGED gridVars
  BY <1>0, <1>6, BooksKept DEF gridVars
<1> QED BY <1>1, <1>2, <1>3, <1>4, <1>5, <1>6 DEF GridNext

\* The profit that a grid receipt reports adds up: after every candle, cash and
\* the cost of the open slots are the capital and the sum of the round trips, and
\* each fill is half of a round trip or an open slot (sim.py:106-152).
THEOREM GridBooksBalance == GridSpec => []BooksBalance
<1>1. BooksInv => BooksBalance
  BY DEF BooksInv
<1> QED BY <1>1, InitBooksInv, NextBooksInv, PTL DEF GridSpec

-----------------------------------------------------------------------------
(* How far the account can be overdrawn.                                    *)

\* A sale brings in more than its gas.
SalesPay == \A i \in SlotIds : Proceeds(i) - Fee(Proceeds(i)) >= GasPerFill

LEMMA NextCashFloor ==
  SalesPay /\ BooksInv /\ CashFloor /\ [GridNext]_gridVars => CashFloor'
<1> SUFFICES ASSUME SalesPay, BooksInv, CashFloor, [GridNext]_gridVars PROVE CashFloor'
  OBVIOUS
<1>0. cash \in Int /\ slot \in SlotIds
  BY DEF BooksInv, BooksOK
<1>1. CASE BuySlot
  <2>1. CASE cash' = cash
    BY <2>1 DEF CashFloor
  <2>2. CASE cash >= Size /\ cash' = cash - (Size + Fee(Size) + GasPerFill)
    BY <2>2, <1>0, SizeNat, CostInt, GridAssumption DEF CashFloor
  <2> QED BY <1>1, <2>1, <2>2 DEF BuySlot, CanBuy
<1>2. CASE SellSlot
  <2>1. CASE cash' = cash
    BY <2>1 DEF CashFloor
  <2>2. CASE cash' = cash + Proceeds(slot) - Fee(Proceeds(slot)) - GasPerFill
    <3>1. cash' >= cash /\ cash' \in Int
      BY <2>2, <1>0, ProceedsInt, GridAssumption DEF SalesPay
    <3> QED BY <3>1, <1>0, CostInt, GridAssumption DEF CashFloor
  <2> QED BY <1>2, <2>1, <2>2 DEF SellSlot
<1>3. CASE NextRow \/ Mark \/ RowsEnd \/ UNCHANGED gridVars
  <2>1. cash' = cash
    BY <1>3 DEF NextRow, Mark, RowsEnd, gridVars
  <2> QED BY <2>1 DEF CashFloor
<1> QED BY <1>1, <1>2, <1>3 DEF GridNext

\* sim.py:109 asks for the size of a buy and :111 takes its fee and gas as well.
\* As long as a sale brings in more than its gas, whatever it loses on the
\* buy, the account is never overdrawn by more than one fee and one gas.
THEOREM OverdrawnByOneFee == SalesPay => (GridSpec => []CashFloor)
<1> SUFFICES ASSUME SalesPay PROVE GridSpec => []CashFloor
  OBVIOUS
<1>1. GridInit => CashFloor
  <2>1. FeeRate \in Nat /\ Size * FeeRate \in Nat
    BY SizeNat, ProductOfNats, GridAssumption
  <2>2. Fee(Size) \in Nat
    BY <2>1, QuotientOfNats DEF Fee
  <2> QED BY <2>2, GridAssumption DEF GridInit, CashFloor
<1>2. BooksInv /\ CashFloor /\ [GridNext]_gridVars => CashFloor'
  BY NextCashFloor
<1> QED BY <1>1, <1>2, InitBooksInv, NextBooksInv, PTL DEF GridSpec

-----------------------------------------------------------------------------
(* The rebalancer's ranges.                                                 *)

\* A quotient that is rounded down, and one that is rounded up.
LEMMA Floor ==
  ASSUME NEW m \in Int, NEW n \in Nat, n > 0
  PROVE  /\ m \div n \in Int
         /\ (m \div n) * n <= m
         /\ m < (m \div n) * n + n
  OBVIOUS

LEMMA SnapBounds ==
  ASSUME NEW tick \in Int
  PROVE  /\ SnapDown(tick) \in Int /\ SnapDown(tick) <= tick
         /\ SnapUp(tick) \in Int /\ tick <= SnapUp(tick)
<1>1. TickSpacing \in Nat /\ TickSpacing > 0
  BY RangeAssumption
<1>2. SnapDown(tick) \in Int /\ SnapDown(tick) <= tick
  BY <1>1, Floor DEF SnapDown
<1>3. SnapUp(tick) \in Int /\ tick <= SnapUp(tick)
  <2> DEFINE q == (-tick) \div TickSpacing
  <2>1. q \in Int /\ q * TickSpacing <= -tick
    BY <1>1, Floor
  <2>2. SnapUp(tick) = -(q * TickSpacing)
    BY DEF SnapUp
  <2>3. q * TickSpacing \in Int
    BY <1>1, <2>1
  <2> HIDE DEF q
  <2> DEFINE product == q * TickSpacing
  <2> HIDE DEF product
  <2>4. product \in Int /\ product <= -tick /\ SnapUp(tick) = -product
    BY <2>1, <2>2, <2>3 DEF product
  <2> QED BY <2>4
<1> QED BY <1>2, <1>3

LEMMA HalfWidthNat ==
  ASSUME NEW v \in Vols
  PROVE  HalfWidth(v) \in Nat /\ HalfWidth(v) >= Sub /\ HalfWidth(v) > 0
<1>1. v - 1 \in Nat /\ Reach \in Nat /\ Reach >= Sub /\ Sub \in Nat /\ Sub > 0
  BY RangeAssumption
<1>2. Reach * (v - 1) \in Nat
  BY <1>1, ProductOfNats
<1>3. Reach * v = Reach * (v - 1) + Reach
  <2>1. Reach * ((v - 1) + 1) = Reach * (v - 1) + Reach
    BY <1>1, OneMore
  <2>2. v = (v - 1) + 1
    BY <1>1, RangeAssumption
  <2> QED BY <2>1, <2>2
<1> DEFINE rest == Reach * (v - 1)
<1> HIDE DEF rest
<1>4. rest \in Nat /\ HalfWidth(v) = rest + Reach
  BY <1>2, <1>3 DEF rest, HalfWidth
<1> QED BY <1>1, <1>4

\* More ticks are more parts of a tick.
LEMMA MorePartsOfMoreTicks ==
  ASSUME NEW t \in Int, NEW u \in Int, t <= u
  PROVE  t * Sub <= u * Sub
<1>1. Sub \in Nat /\ u - t \in Nat
  BY RangeAssumption
<1>2. (u - t) * Sub \in Nat
  BY <1>1, ProductOfNats
<1> QED BY <1>1, <1>2

\* A range selected around a price holds it.
LEMMA RangeHoldsCentre ==
  ASSUME NEW p \in Prices, NEW v \in Vols
  PROVE  /\ RangeLower(p, v) \in Int /\ RangeUpper(p, v) \in Int
         /\ RangeLower(p, v) * Sub <= p
         /\ p <= RangeUpper(p, v) * Sub
<1>1. /\ p \in Int /\ HalfWidth(v) \in Nat /\ HalfWidth(v) >= Sub
      /\ Sub \in Nat /\ Sub > 0 /\ TickSpacing \in Nat /\ TickSpacing > 0
  BY HalfWidthNat, RangeAssumption
<1>2. /\ RangeLower(p, v) \in Int
      /\ RangeLower(p, v) * Sub <= p
  <2> DEFINE tick == PriceToTick(p - HalfWidth(v))
  <2>1. tick \in Int /\ tick * Sub <= p - HalfWidth(v)
    BY <1>1, Floor DEF PriceToTick
  <2>2. RangeLower(p, v) = SnapDown(tick)
    BY DEF RangeLower
  <2> HIDE DEF tick
  <2>3. RangeLower(p, v) \in Int /\ RangeLower(p, v) <= tick
    BY <2>1, <2>2, SnapBounds
  <2>4. RangeLower(p, v) * Sub <= tick * Sub
    BY <2>1, <2>3, MorePartsOfMoreTicks
  <2> DEFINE low == RangeLower(p, v) * Sub
             centre == tick * Sub
  <2>5. low \in Int /\ centre \in Int
    BY <1>1, <2>1, <2>3
  <2> HIDE DEF low, centre
  <2>6. low <= centre /\ centre <= p - HalfWidth(v)
    BY <2>1, <2>4 DEF low, centre
  <2>7. low <= p
    BY <1>1, <2>5, <2>6
  <2> QED BY <2>3, <2>7 DEF low
<1>3. /\ RangeUpper(p, v) \in Int
      /\ p <= RangeUpper(p, v) * Sub
  <2> DEFINE tick == PriceToTick(p + HalfWidth(v))
  <2>1. tick \in Int /\ p + HalfWidth(v) < tick * Sub + Sub
    BY <1>1, Floor DEF PriceToTick
  <2> HIDE DEF tick
  <2>2. SnapUp(tick) \in Int /\ tick <= SnapUp(tick)
    BY <2>1, SnapBounds
  <2>3. RangeUpper(p, v) \in Int /\ tick <= RangeUpper(p, v)
    <3>1. RangeUpper(p, v) = IF SnapUp(tick) <= RangeLower(p, v)
                             THEN RangeLower(p, v) + TickSpacing ELSE SnapUp(tick)
      BY DEF RangeUpper, tick
    <3> QED BY <1>1, <1>2, <2>1, <2>2, <3>1
  <2>4. tick * Sub <= RangeUpper(p, v) * Sub
    BY <2>1, <2>3, MorePartsOfMoreTicks
  <2> DEFINE high == RangeUpper(p, v) * Sub
             centre == tick * Sub
  <2>5. high \in Int /\ centre \in Int
    BY <1>1, <2>1, <2>3
  <2> HIDE DEF high, centre
  <2>6. centre <= high /\ p + HalfWidth(v) < centre + Sub
    BY <2>1, <2>4 DEF high, centre
  <2>7. p <= high
    BY <1>1, <2>5, <2>6
  <2> QED BY <2>3, <2>7 DEF high
<1> QED BY <1>2, <1>3

\* Whatever the spacing of the ticks and the volatility, a rebalance that was
\* paid for leaves the price it was centred on inside (range.py:60-112,
\* sim.py:106-130).
THEOREM FreshRangeInRange == RangeSpec => FreshRangeHoldsPrice
<1> DEFINE Fresh == rebalances' > rebalances
                      => lower' * Sub <= price' /\ price' <= upper' * Sub
<1>1. [RangeNext]_rangeVars /\ rebalances \in Nat => [Fresh]_rangeVars
  <2> SUFFICES ASSUME RangeNext, rebalances \in Nat, rebalances' > rebalances
               PROVE  lower' * Sub <= price' /\ price' <= upper' * Sub
    BY DEF rangeVars
  <2>1. CASE Hour
    <3>1. PICK p \in Prices : /\ price' = p
                              /\ \/ UNCHANGED rebalances
                                 \/ \E v \in Vols : Hold(v) \/ Rebalance(p, v)
      BY <2>1 DEF Hour
    <3>2. ~ UNCHANGED rebalances
      OBVIOUS
    <3>3. PICK v \in Vols : Hold(v) \/ Rebalance(p, v)
      BY <3>1, <3>2
    <3>4. lower' = RangeLower(p, v) /\ upper' = RangeUpper(p, v)
      BY <3>2, <3>3 DEF Hold, Rebalance
    <3> QED BY <3>1, <3>4, RangeHoldsCentre
  <2>2. CASE SelectRange \/ HoursEnd
    BY <2>2 DEF SelectRange, HoursEnd
  <2> QED BY <2>1, <2>2 DEF RangeNext
<1> DEFINE Counted == rebalances \in Nat
<1>2. RangeInit => Counted
  BY DEF RangeInit
<1>3. Counted /\ [RangeNext]_rangeVars => Counted'
  BY DEF RangeNext, SelectRange, Hour, HoursEnd, Hold, Rebalance, rangeVars
<1> HIDE DEF Counted, Fresh
<1>4. Counted /\ [RangeNext]_rangeVars => [Fresh]_rangeVars
  BY <1>1 DEF Counted
<1>5. RangeSpec => [][Fresh]_rangeVars
  BY <1>2, <1>3, <1>4, PTL DEF RangeSpec
<1> QED BY <1>5 DEF FreshRangeHoldsPrice, Fresh

-----------------------------------------------------------------------------
(* Waiting never makes a rebalance economic: what closing the position costs  *)
(* grows with its age, and nothing else of the decision depends on the age.   *)

LEMMA QuotientMonotone ==
  ASSUME NEW m \in Int, NEW k \in Int, NEW n \in Nat, n > 0, m <= k
  PROVE  m \div n <= k \div n
  OBVIOUS

LEMMA LossGrows ==
  ASSUME NEW v \in Vols, NEW ranged \in Vols, NEW h \in Nat
  PROVE  /\ Loss(v, h, ranged) \in Int /\ Loss(v, h + 1, ranged) \in Int
         /\ Loss(v, h, ranged) <= Loss(v, h + 1, ranged)
<1> DEFINE scale == LossScale * v * v
<1>1. scale \in Nat
  <2>1. LossScale \in Nat /\ v \in Nat
    BY RangeAssumption
  <2>2. LossScale * v \in Nat
    BY <2>1, ProductOfNats
  <2> QED BY <2>1, <2>2, ProductOfNats
<1>2. Elapsed(h) \in Nat /\ Elapsed(h + 1) \in Nat /\ Elapsed(h + 1) - Elapsed(h) \in Nat
  BY DEF Elapsed
<1>3. /\ Loss(v, h, ranged) = (scale * Elapsed(h)) \div HalfWidth(ranged)
      /\ Loss(v, h + 1, ranged) = (scale * Elapsed(h + 1)) \div HalfWidth(ranged)
  BY DEF Loss
<1> HIDE DEF scale
<1> DEFINE now == scale * Elapsed(h)
           later == scale * Elapsed(h + 1)
<1>4. now \in Nat /\ later \in Nat
  BY <1>1, <1>2, ProductOfNats
<1>5. now <= later
  <2>1. scale * (Elapsed(h + 1) - Elapsed(h)) \in Nat
    BY <1>1, <1>2, ProductOfNats
  <2>2. scale * (Elapsed(h + 1) - Elapsed(h)) = later - now
    BY <1>1, <1>2
  <2> HIDE DEF now, later
  <2> QED BY <1>4, <2>1, <2>2
<1>6. HalfWidth(ranged) \in Nat /\ HalfWidth(ranged) > 0
  BY HalfWidthNat
<1> HIDE DEF now, later
<1>7. now \div HalfWidth(ranged) <= later \div HalfWidth(ranged)
  BY <1>4, <1>5, <1>6, QuotientMonotone
<1>8. now \div HalfWidth(ranged) \in Int /\ later \div HalfWidth(ranged) \in Int
  BY <1>4, <1>6, Floor
<1> QED BY <1>3, <1>7, <1>8 DEF now, later

\* net_usd of closing a range that was selected at volatility ranged.
NetOf(v, hours, ranged) ==
  HourFee(v) * HorizonHours - Loss(v, hours, ranged) - (CloseGas + OpenGas)

LEMMA WaitingDoesNotPay ==
  ASSUME NEW v \in Vols, NEW ranged \in Vols, NEW h \in Nat, NetOf(v, h, ranged) <= 0
  PROVE  NetOf(v, h + 1, ranged) <= 0
<1>1. HourFee(v) \in Int
  BY HalfWidthNat, Floor, RangeAssumption DEF HourFee
<1> DEFINE earned == HourFee(v) * HorizonHours
<1>2. earned \in Int /\ CloseGas + OpenGas \in Int
  BY <1>1, RangeAssumption
<1>3. /\ NetOf(v, h, ranged) = earned - Loss(v, h, ranged) - (CloseGas + OpenGas)
      /\ NetOf(v, h + 1, ranged) = earned - Loss(v, h + 1, ranged) - (CloseGas + OpenGas)
  BY DEF NetOf
<1> HIDE DEF earned
<1> QED BY <1>2, <1>3, LossGrows

\* Every volatility at which this position was held would hold it again now.
HeldInv ==
  /\ hour \in Nat /\ openIdx \in Nat /\ openIdx <= hour
  /\ vol \in Vols /\ heldIn \subseteq Vols /\ rebalances \in Nat
  /\ lpAt = "select" => heldIn = {}
  /\ \A v \in heldIn : NetOf(v, hour - openIdx, vol) <= 0

LEMMA InitHeldInv == RangeInit => HeldInv
  BY RangeAssumption DEF RangeInit, HeldInv

\* An hour in which the position is kept.
LEMMA KeptAnHour ==
  ASSUME HeldInv, hour' = hour + 1, UNCHANGED <<lpAt, openIdx, vol, rebalances>>, lpAt # "select",
         NEW more \in SUBSET Vols, heldIn' = heldIn \cup more,
         \A v \in more : NetOf(v, hour - openIdx, vol) <= 0
  PROVE  HeldInv'
<1>1. hour - openIdx \in Nat /\ hour' - openIdx' = (hour - openIdx) + 1
  BY DEF HeldInv
<1>2. ASSUME NEW v \in heldIn' PROVE NetOf(v, hour' - openIdx', vol') <= 0
  <2>1. v \in Vols /\ vol \in Vols /\ NetOf(v, hour - openIdx, vol) <= 0
    BY <1>2 DEF HeldInv
  <2> QED BY <1>1, <2>1, WaitingDoesNotPay
<1> QED BY <1>2 DEF HeldInv

LEMMA NextHeldInv == HeldInv /\ [RangeNext]_rangeVars => HeldInv'
<1> SUFFICES ASSUME HeldInv, [RangeNext]_rangeVars PROVE HeldInv'
  OBVIOUS
<1>1. CASE Hour
  <2>1. hour' = hour + 1 /\ lpAt' = lpAt /\ lpAt # "select"
    BY <1>1 DEF Hour
  <2>2. CASE UNCHANGED <<lower, upper, vol, openIdx, lpGas, lpLoss, rebalances, holds, heldIn>>
    <3>1. {} \in SUBSET Vols /\ heldIn' = heldIn \cup {}
      BY <2>2
    <3> QED BY <2>1, <2>2, <3>1, KeptAnHour
  <2>3. ASSUME NEW v \in Vols, Hold(v) PROVE HeldInv'
    <3>1. /\ {v} \in SUBSET Vols /\ heldIn' = heldIn \cup {v}
          /\ NetOf(v, hour - openIdx, vol) <= 0
      BY <2>3 DEF Hold, NetOfRebalance, NetOf
    <3> QED BY <2>1, <2>3, <3>1, KeptAnHour DEF Hold
  <2>4. ASSUME NEW p \in Prices, NEW v \in Vols, Rebalance(p, v) PROVE HeldInv'
    BY <2>1, <2>4 DEF Rebalance, HeldInv
  <2> QED BY <1>1, <2>2, <2>3, <2>4 DEF Hour
<1>2. CASE SelectRange
  BY <1>2 DEF SelectRange, HeldInv
<1>3. CASE HoursEnd \/ UNCHANGED rangeVars
  BY <1>3 DEF HoursEnd, rangeVars, HeldInv
<1> QED BY <1>1, <1>2, <1>3 DEF RangeNext

\* A position that was held as uneconomic, in range or not, is not rebalanced
\* later at a volatility at which it was held, however long the replay goes on
\* (economics.py:39-85, sim.py:84-118).
THEOREM HoldsAreNotUndone == RangeSpec => HeldStaysHeld
<1> DEFINE NotUndone == rebalances' > rebalances => vol' \notin heldIn
<1>1. HeldInv /\ [RangeNext]_rangeVars => [NotUndone]_rangeVars
  <2> SUFFICES ASSUME HeldInv, RangeNext, rebalances' > rebalances
               PROVE  vol' \notin heldIn
    BY DEF rangeVars
  <2>1. ~ UNCHANGED rebalances
    BY DEF HeldInv
  <2>2. PICK p \in Prices, v \in Vols : Hold(v) \/ Rebalance(p, v)
    BY <2>1 DEF RangeNext, SelectRange, Hour, HoursEnd
  <2>3. vol' = v /\ NetOf(v, hour - openIdx, vol) > 0
    BY <2>1, <2>2 DEF Hold, Rebalance, NetOfRebalance, NetOf
  <2>4. v \in heldIn => NetOf(v, hour - openIdx, vol) <= 0
    BY DEF HeldInv
  <2>5. NetOf(v, hour - openIdx, vol) \in Int
    <3>1. hour - openIdx \in Nat /\ vol \in Vols
      BY DEF HeldInv
    <3>2. HourFee(v) \in Int
      BY HalfWidthNat, Floor, RangeAssumption DEF HourFee
    <3>3. HourFee(v) * HorizonHours \in Int
      BY <3>2, RangeAssumption
    <3> QED BY <3>1, <3>3, LossGrows, RangeAssumption DEF NetOf
  <2> QED BY <2>3, <2>4, <2>5
<1> HIDE DEF NotUndone
<1>2. RangeSpec => [][NotUndone]_rangeVars
  BY <1>1, InitHeldInv, NextHeldInv, PTL DEF RangeSpec
<1> QED BY <1>2 DEF HeldStaysHeld, NotUndone

-----------------------------------------------------------------------------
(***************************************************************************)
(* The guard does no harm, and its position is liquidated only when the      *)
(* buffer is spent. The invariant behind it says that as long as anything is  *)
(* left of the buffer, the position was at the trigger or above at the lowest *)
(* price so far, and a lower price is a lower health factor.                  *)
(***************************************************************************)

\* The parts of the type invariant that the arguments need.
AccountOK ==
  /\ {debt, borrow, buffer, repaid, repays, steps, lowest, trigger} \subseteq Nat
  /\ lowest <= 100 /\ crossed \in BOOLEAN /\ noAction \in BOOLEAN
  /\ guardAt = "observe" => steps = 0 /\ repaid = 0
  /\ guardAt \in {"path", "trough"} \/ steps > 0 => trigger > 100

DebtAccounted == borrow + repaid = debt

\* The replay without the guard is liquidated at the lowest price or never.
NoActionAtLowest ==
  /\ steps = 0 => lowest = 100 /\ ~ crossed /\ ~ noAction
  /\ steps > 0 => (noAction <=> Below(lowest, debt, 100))

\* A buffer that is not spent has kept the position at the trigger.
TriggerKept == steps > 0 /\ buffer > 0 => ~ Below(lowest, borrow, trigger)

GuardInv == AccountOK /\ DebtAccounted /\ NoActionAtLowest /\ TriggerKept

-----------------------------------------------------------------------------
(* Health factors.                                                          *)

LEMMA AdjustedNat == ASSUME NEW k \in Nat PROVE Adjusted(k) \in Nat
  BY GuardAssumption DEF Adjusted

LEMMA Monotone ==
  ASSUME NEW m \in Nat, NEW x \in Nat, NEW y \in Nat, x <= y
  PROVE  m * x <= m * y /\ m * x \in Nat /\ m * y \in Nat
<1>1. y - x \in Nat /\ y = x + (y - x)
  OBVIOUS
<1>2. m * (x + (y - x)) = m * x + m * (y - x)
  BY <1>1
<1>3. m * (y - x) \in Nat /\ m * x \in Nat /\ m * y \in Nat
  BY <1>1
<1> DEFINE a == m * x  b == m * y  d == m * (y - x)
<1>4. b = a + d /\ a \in Nat /\ d \in Nat
  BY <1>1, <1>2, <1>3
<1> HIDE DEF a, b, d
<1>5. a <= b
  BY <1>4
<1> QED BY <1>5, <1>3 DEF a, b

\* A lower price, more debt and a higher bar are each harder to meet.
LEMMA LowerIsWorse ==
  ASSUME NEW j \in Nat, NEW k \in Nat, j <= k,
         NEW owed \in Nat, NEW more \in Nat, owed <= more,
         NEW hf \in Nat, NEW bar \in Nat, hf <= bar,
         Below(k, owed, hf)
  PROVE  Below(j, more, bar)
<1>1. Adjusted(j) <= Adjusted(k)
  <2>1. Volatile * j <= Volatile * k /\ Volatile * j \in Nat /\ Volatile * k \in Nat
    BY Monotone, GuardAssumption
  <2>2. 100 * Stable \in Nat
    BY GuardAssumption
  <2> QED BY <2>1, <2>2 DEF Adjusted
<1>2. hf * owed <= hf * more /\ hf * owed \in Nat /\ hf * more \in Nat
  BY Monotone
<1>3. more * hf <= more * bar /\ more * hf = hf * more /\ more * bar = bar * more
  BY Monotone
<1>4. Adjusted(j) \in Nat /\ Adjusted(k) \in Nat /\ bar * more \in Nat
  BY AdjustedNat
<1> QED BY <1>1, <1>2, <1>3, <1>4 DEF Below

\* The floor of a quotient.
LEMMA FloorBounds ==
  ASSUME NEW n \in Nat, NEW d \in Nat \ {0}
  PROVE  /\ n \div d \in Nat
         /\ d * (n \div d) <= n
         /\ n < d * ((n \div d) + 1)
<1>1. n \div d \in Int /\ n % d \in 0..(d - 1) /\ n = d * (n \div d) + (n % d)
  OBVIOUS
<1>2. n \div d \in Nat
  BY <1>1
<1>3. d * ((n \div d) + 1) = d * (n \div d) + d
  BY <1>2
<1> DEFINE q == d * (n \div d)
<1>4. q \in Int
  BY <1>2
<1>5. n = q + (n % d) /\ d * ((n \div d) + 1) = q + d
  BY <1>1, <1>3
<1> HIDE DEF q
<1>6. q <= n /\ n < q + d
  BY <1>1, <1>4, <1>5
<1> QED BY <1>2, <1>5, <1>6 DEF q

-----------------------------------------------------------------------------
(* A repayment.                                                             *)

LEMMA RepaymentBounds ==
  ASSUME AccountOK, trigger > 100, NEW k \in Nat
  PROVE  /\ Repayment(k) \in Nat /\ Repayment(k) <= buffer /\ Repayment(k) <= borrow
         /\ Recovery \in Nat \ {0} /\ trigger <= Recovery
         /\ Adjusted(k) \div Recovery \in Nat
         /\ borrow - Repayment(k) >= Adjusted(k) \div Recovery \/ Repayment(k) = 0
         /\ Repayment(k) < buffer => borrow - Repayment(k) <= Adjusted(k) \div Recovery
<1>1. Recovery \in Nat \ {0} /\ trigger <= Recovery
  BY GuardAssumption DEF Recovery, AccountOK
<1>2. Adjusted(k) \div Recovery \in Nat
  BY <1>1, AdjustedNat, FloorBounds
<1> DEFINE target == Adjusted(k) \div Recovery
<1>3. target \in Nat /\ borrow \in Nat /\ buffer \in Nat
  BY <1>2 DEF AccountOK
<1>4. Repayment(k) = Smaller(Smaller(AtLeastZero(borrow - target), buffer), borrow)
  BY DEF Repayment
<1> HIDE DEF target
<1>5. /\ Repayment(k) \in Nat /\ Repayment(k) <= buffer /\ Repayment(k) <= borrow
      /\ borrow - Repayment(k) >= target \/ Repayment(k) = 0
      /\ Repayment(k) < buffer => borrow - Repayment(k) <= target
  BY <1>3, <1>4 DEF Smaller, AtLeastZero
<1> QED BY <1>1, <1>2, <1>5 DEF target

\* A repayment that leaves something of the buffer restores recovery_hf.
LEMMA RepaymentRestores ==
  ASSUME AccountOK, trigger > 100, NEW k \in Nat, Repayment(k) < buffer
  PROVE  /\ ~ Below(k, borrow - Repayment(k), Recovery)
         /\ ~ Below(k, borrow - Repayment(k), trigger)
<1> DEFINE left == borrow - Repayment(k)
<1> DEFINE target == Adjusted(k) \div Recovery
<1>1. left \in Nat /\ target \in Nat /\ left <= target
      /\ Recovery \in Nat \ {0} /\ trigger \in Nat /\ trigger <= Recovery
  BY RepaymentBounds DEF AccountOK
<1>2. Recovery * target <= Adjusted(k) /\ Adjusted(k) \in Nat
  BY <1>1, AdjustedNat, FloorBounds
<1> HIDE DEF left, target
<1>3. Recovery * left <= Recovery * target /\ Recovery * left \in Nat /\ Recovery * target \in Nat
  BY <1>1, Monotone
<1>4. ~ Below(k, left, Recovery)
  BY <1>2, <1>3 DEF Below
<1>5. ~ Below(k, left, trigger)
  BY <1>1, <1>4, LowerIsWorse
<1> QED BY <1>4, <1>5 DEF left

\* A repayment of less would not do, or there was no repayment.
LEMMA RepaymentIsLeast ==
  ASSUME AccountOK, trigger > 100, NEW k \in Nat, Repayment(k) > 0
  PROVE  Adjusted(k) < Recovery * ((borrow - Repayment(k)) + 1)
<1> DEFINE left == borrow - Repayment(k)
<1> DEFINE target == Adjusted(k) \div Recovery
<1>1. left \in Nat /\ target \in Nat /\ target + 1 <= left + 1 /\ Recovery \in Nat \ {0}
  BY RepaymentBounds DEF AccountOK
<1>2. Adjusted(k) < Recovery * (target + 1) /\ Adjusted(k) \in Nat
  BY <1>1, AdjustedNat, FloorBounds
<1> HIDE DEF left, target
<1>3. /\ Recovery * (target + 1) <= Recovery * (left + 1)
      /\ Recovery * (target + 1) \in Nat /\ Recovery * (left + 1) \in Nat
  BY <1>1, Monotone
<1>4. Adjusted(k) < Recovery * (left + 1)
  BY <1>2, <1>3
<1> QED BY <1>4 DEF left

-----------------------------------------------------------------------------
(* The invariant.                                                           *)

\* A row of the path, whatever the price.
LEMMA StepKeeps ==
  ASSUME GuardInv, guardAt \in {"path", "trough"}, NEW k \in Nat, k <= 100, Step(k),
         guardAt' # "observe"
  PROVE  GuardInv'
<1> USE DEF GuardInv
<1>1. /\ steps' = steps + 1 /\ lowest' = Smaller(lowest, k)
      /\ crossed' = (crossed \/ Below(k, borrow, 100))
      /\ noAction' = (noAction \/ Below(k, debt, 100))
      /\ debt' = debt /\ trigger' = trigger
  BY DEF Step
<1>2. trigger > 100 /\ steps' > 0 /\ lowest \in Nat /\ debt \in Nat
  BY <1>1 DEF AccountOK
<1> DEFINE r == IF MustRepay(k) THEN Repayment(k) ELSE 0
<1>3. /\ r \in Nat /\ r <= buffer /\ r <= borrow
      /\ borrow' = borrow - r /\ buffer' = buffer - r /\ repaid' = repaid + r
      /\ repays' \in Nat
  <2>1. CASE MustRepay(k)
    BY <2>1, <1>2, RepaymentBounds DEF Step, AccountOK
  <2>2. CASE ~ MustRepay(k)
    BY <2>2 DEF Step, AccountOK
  <2> QED BY <2>1, <2>2
<1>4. AccountOK'
  BY <1>1, <1>2, <1>3 DEF AccountOK, Smaller
<1>5. DebtAccounted'
  BY <1>1, <1>3 DEF AccountOK, DebtAccounted
<1>6. NoActionAtLowest'
  <2> DEFINE before == Below(lowest, debt, 100)
             here   == Below(k, debt, 100)
  <2>1. noAction' = (noAction \/ here) /\ noAction \in BOOLEAN /\ before \in BOOLEAN /\ here \in BOOLEAN
    BY <1>1 DEF AccountOK, Below
  <2>2. steps > 0 => noAction = before
    BY <2>1 DEF NoActionAtLowest
  <2>3. steps = 0 => lowest = 100 /\ ~ noAction
    BY DEF NoActionAtLowest
  <2>4. lowest <= k => (here => before)
    BY <1>2, LowerIsWorse
  <2>5. k <= lowest => (before => here)
    BY <1>2, LowerIsWorse
  <2>6. Below(lowest', debt', 100) = IF lowest' = k THEN here ELSE Below(lowest', debt, 100)
    BY <1>1 DEF Below, Adjusted
  <2>7. lowest' = k \/ lowest' = lowest
    BY <1>1 DEF Smaller
  <2>8. Below(lowest', debt', 100) = IF lowest' = k THEN here ELSE before
    BY <2>6, <2>7
  <2>9. (lowest' = k /\ k <= lowest) \/ (lowest' = lowest /\ lowest < k)
    BY <1>1, <1>2 DEF Smaller
  <2> HIDE DEF before, here
  <2>10. noAction' = Below(lowest', debt', 100)
    <3>1. CASE steps = 0
      <4>1. lowest' = k
        BY <2>3, <2>9, <3>1
      <4> QED BY <4>1, <2>1, <2>3, <2>8, <3>1
    <3>2. CASE steps > 0 /\ lowest' = k /\ k <= lowest
      BY <3>2, <2>1, <2>2, <2>5, <2>8
    <3>3. CASE steps > 0 /\ lowest' = lowest /\ lowest < k
      <4>1. lowest' # k /\ (here => before)
        BY <3>3, <1>2, <2>4
      <4> QED BY <3>3, <4>1, <2>1, <2>2, <2>8
    <3> QED BY <3>1, <3>2, <3>3, <2>9 DEF AccountOK
  <2> QED BY <2>10, <1>2 DEF NoActionAtLowest
<1>7. TriggerKept'
  <2> SUFFICES ASSUME buffer' > 0 PROVE ~ Below(lowest', borrow', trigger)
    BY <1>1 DEF TriggerKept, Below, Adjusted
  <2>1. borrow' \in Nat /\ borrow \in Nat /\ buffer \in Nat /\ borrow' <= borrow /\ buffer > 0
    BY <1>3 DEF AccountOK
  <2>2. ~ Below(k, borrow', trigger)
    <3>1. CASE MustRepay(k)
      BY <3>1, <1>2, <1>3, <2>1, RepaymentRestores
    <3>2. CASE ~ MustRepay(k)
      <4>1. borrow' = borrow
        BY <3>2, <1>3, <2>1
      <4>2. CASE borrow = 0
        BY <4>1, <4>2, <1>2, AdjustedNat DEF Below, AccountOK
      <4>3. CASE Repayment(k) = 0
        <5>1. Repayment(k) < buffer /\ borrow - Repayment(k) = borrow
          BY <4>3, <2>1
        <5> QED BY <5>1, <4>1, <1>2, RepaymentRestores
      <4>4. CASE ~ Below(k, borrow, trigger)
        BY <4>1, <4>4
      <4>5. Repayment(k) \in Nat
        BY <1>2, RepaymentBounds
      <4> QED BY <3>2, <4>2, <4>3, <4>4, <4>5, <2>1 DEF MustRepay
    <3> QED BY <3>1, <3>2
  <2>3. CASE lowest' = k
    BY <2>2, <2>3
  <2>4. CASE lowest' = lowest /\ lowest < k
    <3>1. steps > 0
      BY <2>4, <1>2 DEF AccountOK, NoActionAtLowest
    <3>2. ~ Below(lowest, borrow, trigger)
      BY <3>1, <2>1 DEF TriggerKept
    <3> QED BY <3>2, <2>1, <2>4, <1>2, LowerIsWorse DEF AccountOK
  <2> QED BY <2>3, <2>4, <1>1, <1>2 DEF Smaller
<1> QED BY <1>4, <1>5, <1>6, <1>7

LEMMA InitGuardInv == GuardInit => GuardInv
<1> SUFFICES ASSUME GuardInit PROVE GuardInv
  OBVIOUS
<1>1. steps = 0 /\ lowest = 100 /\ crossed = FALSE /\ noAction = FALSE
  BY DEF GuardInit
<1>2. AccountOK
  <2>1. debt = 0 /\ borrow = 0 /\ buffer = 0 /\ repaid = 0 /\ repays = 0 /\ trigger = 0
    BY DEF GuardInit
  <2>2. {debt, borrow, buffer, repaid, repays, steps, lowest, trigger} \subseteq Nat
    BY <1>1, <2>1
  <2>3. lowest <= 100 /\ ~ (steps > 0)
    BY <1>1
  <2>4. guardAt = "observe" /\ ~ (guardAt \in {"path", "trough"})
    BY DEF GuardInit
  <2> QED BY <1>1, <2>1, <2>2, <2>3, <2>4, Zenon DEF AccountOK
<1>4. DebtAccounted
  <2>1. debt = 0 /\ borrow = 0 /\ repaid = 0
    BY DEF GuardInit
  <2> QED BY <2>1 DEF DebtAccounted
<1>3. NoActionAtLowest /\ TriggerKept
  BY <1>1 DEF NoActionAtLowest, TriggerKept
<1> QED BY <1>2, <1>3, <1>4 DEF GuardInv

LEMMA NextGuardInv == GuardInv /\ [GuardNext]_guardVars => GuardInv'
<1> SUFFICES ASSUME GuardInv, [GuardNext]_guardVars PROVE GuardInv'
  OBVIOUS
<1>1. CASE Observe
  <2>1. guardAt = "observe" /\ UNCHANGED <<ratio, lowest, steps, repaid, repays, crossed, noAction>>
    BY <1>1 DEF Observe
  <2>2. ASSUME NEW owed \in Debts \ {0}, NEW usd \in Buffers, NEW hf \in VolHf,
               debt' = owed, borrow' = owed, buffer' = usd,
               trigger' = IF hf > AskedHf THEN hf ELSE AskedHf, guardAt' = "path"
        PROVE  GuardInv'
    <3>1. owed \in Nat /\ usd \in Nat /\ trigger' \in Nat /\ trigger' > 100
      BY <2>2, GuardAssumption
    <3> QED BY <2>1, <2>2, <3>1
      DEF GuardInv, AccountOK, DebtAccounted, NoActionAtLowest, TriggerKept
  <2>3. ASSUME guardAt' = "over", UNCHANGED <<debt, borrow, buffer, trigger>>
        PROVE  GuardInv'
    BY <2>1, <2>3
    DEF GuardInv, AccountOK, DebtAccounted, NoActionAtLowest, TriggerKept
  <2> QED BY <1>1, <2>2, <2>3 DEF Observe
<1>2. CASE Fall
  <2>1. PICK k \in IF steps = 0 THEN {100} ELSE Ratios : Step(k)
    BY <1>2 DEF Fall
  <2>2. k \in Nat /\ k <= 100 /\ guardAt = "path" /\ guardAt' # "observe"
    BY <1>2, GuardAssumption DEF Fall
  <2> QED BY <2>1, <2>2, StepKeeps
<1>3. CASE Rebound
  <2>1. PICK k \in Ratios : Step(k)
    BY <1>3 DEF Rebound
  <2>2. k \in Nat /\ k <= 100 /\ guardAt = "trough" /\ guardAt' # "observe"
    BY <1>3, GuardAssumption DEF Rebound
  <2> QED BY <2>1, <2>2, StepKeeps
<1>4. CASE PathEnds
  BY <1>4 DEF PathEnds, GuardInv, AccountOK, DebtAccounted, NoActionAtLowest, TriggerKept, Below, Adjusted
<1>5. CASE UNCHANGED guardVars
  BY <1>5 DEF guardVars, GuardInv, AccountOK, DebtAccounted, NoActionAtLowest, TriggerKept, Below, Adjusted
<1> QED BY <1>1, <1>2, <1>3, <1>4, <1>5 DEF GuardNext

LEMMA SpecGuardInv == GuardSpec => []GuardInv
  BY InitGuardInv, NextGuardInv, PTL DEF GuardSpec

-----------------------------------------------------------------------------
(* What it gives.                                                           *)

\* While anything is left of the buffer the guarded position is not liquidated
\* (replay.py:113), at any close factor, trigger and path.
THEOREM GuardedWhileFunded == GuardSpec => []LiquidatedOnlyWhenSpent
<1>1. GuardInv => LiquidatedOnlyWhenSpent
  <2> SUFFICES ASSUME GuardInv, Liquidated PROVE buffer = 0
    BY DEF LiquidatedOnlyWhenSpent
  <2>1. steps > 0
    BY DEF GuardInv, Liquidated, AccountOK, NoActionAtLowest
  <2>2. Below(lowest, borrow, trigger)
    BY <2>1, LowerIsWorse DEF GuardInv, AccountOK, Liquidated
  <2> QED BY <2>1, <2>2 DEF GuardInv, AccountOK, TriggerKept
<1> QED BY <1>1, SpecGuardInv, PTL

\* The guard never does worse than nothing at liquidations, spends what it
\* repays and no more, and is credited only where there was something to save.
THEOREM GuardNeverHarms == GuardSpec => []NeverHarms
<1>1. GuardInv => NeverHarms
  <2> SUFFICES ASSUME GuardInv PROVE NeverHarms
    OBVIOUS
  <2>1. borrow \in Nat /\ repaid \in Nat /\ buffer \in Nat /\ debt \in Nat /\ repays \in Nat
        /\ lowest \in Nat /\ borrow + repaid = debt /\ borrow <= debt
    BY DEF GuardInv, AccountOK, DebtAccounted
  <2>2. Liquidated => noAction
    <3> SUFFICES ASSUME Liquidated PROVE noAction
      OBVIOUS
    <3>1. steps > 0
      BY DEF GuardInv, Liquidated, AccountOK, NoActionAtLowest
    <3>2. Below(lowest, debt, 100)
      BY <2>1, LowerIsWorse DEF Liquidated
    <3> QED BY <3>1, <3>2 DEF GuardInv, NoActionAtLowest
  <2>4. Saved - NoAction > 0 => noAction
    <3>1. ~ noAction => ~ (Saved - NoAction > 0)
      <4> SUFFICES ASSUME ~ noAction PROVE ~ (Saved - NoAction > 0)
        OBVIOUS
      <4>1. Penalty = 0
        BY DEF Penalty
      <4> DEFINE gas == 10000 * repays * RepayGas
      <4>2. gas \in Nat
        BY <2>1, GuardAssumption
      <4>3. Saved - NoAction = 0 - gas
        BY <4>1, <4>2 DEF Saved, NoAction
      <4> HIDE DEF gas
      <4> QED BY <4>2, <4>3
    <3> QED BY <3>1
  <2> QED BY <2>1, <2>2, <2>4 DEF NeverHarms
<1> QED BY <1>1, SpecGuardInv, PTL

\* A repayment is the least that restores recovery_hf, and falls short of it
\* only by emptying the buffer (replay.py:100-108).
THEOREM RepaysTheLeast == GuardSpec => SmallestRepayment
<1> DEFINE Least ==
      repays' > repays
        => /\ Adjusted(ratio') < Recovery * (borrow' + 1)
           /\ buffer' > 0 => ~ Below(ratio', borrow', Recovery)
<1>1. ASSUME GuardInv, [GuardNext]_guardVars PROVE [Least]_guardVars
  <2>1. ASSUME NEW k \in Nat, Step(k), ratio' = k, guardAt \in {"path", "trough"} PROVE Least
    <3> SUFFICES ASSUME repays' > repays
                 PROVE  /\ Adjusted(k) < Recovery * (borrow' + 1)
                        /\ buffer' > 0 => ~ Below(k, borrow', Recovery)
      BY <2>1
    <3>1. AccountOK /\ trigger > 100 /\ repays \in Nat /\ buffer \in Nat
      BY <1>1, <2>1 DEF GuardInv, AccountOK
    <3>2. MustRepay(k)
      BY <2>1, <3>1 DEF Step
    <3>3. borrow' = borrow - Repayment(k) /\ buffer' = buffer - Repayment(k) /\ Repayment(k) > 0
      BY <2>1, <3>2 DEF Step, MustRepay
    <3>4. Repayment(k) \in Nat
      BY <3>1, RepaymentBounds
    <3>5. buffer' > 0 => Repayment(k) < buffer
      BY <3>1, <3>3, <3>4
    <3> QED BY <3>1, <3>3, <3>5, RepaymentIsLeast, RepaymentRestores
  <2>2. CASE Fall
    <3>1. PICK k \in IF steps = 0 THEN {100} ELSE Ratios : Step(k)
      BY <2>2 DEF Fall
    <3>2. k \in Nat /\ ratio' = k /\ guardAt = "path"
      BY <2>2, <3>1, GuardAssumption DEF Fall, Step
    <3> QED BY <2>1, <3>1, <3>2
  <2>3. CASE Rebound
    <3>1. PICK k \in Ratios : Step(k)
      BY <2>3 DEF Rebound
    <3>2. k \in Nat /\ ratio' = k /\ guardAt = "trough"
      BY <2>3, <3>1, GuardAssumption DEF Rebound, Step
    <3> QED BY <2>1, <3>1, <3>2
  <2>4. CASE Observe \/ PathEnds \/ UNCHANGED guardVars
    <3>1. repays' = repays /\ repays \in Nat
      BY <1>1, <2>4 DEF Observe, PathEnds, guardVars, GuardInv, AccountOK
    <3> QED BY <3>1
  <2> QED BY <1>1, <2>2, <2>3, <2>4 DEF GuardNext
<1>2. GuardSpec => [][Least]_guardVars
  BY <1>1, SpecGuardInv, PTL DEF GuardSpec
<1> QED BY <1>2 DEF SmallestRepayment

-----------------------------------------------------------------------------
(***************************************************************************)
(* What the yield agent picks is not excluded and is the best of its         *)
(* standing.                                                                 *)
(***************************************************************************)

\* An order of the pools names every pool.
LEMMA RankingIsOnto ==
  ASSUME NEW r \in Rankings, NEW p \in Pools
  PROVE  \E i \in DOMAIN r : r[i] = p
<1> DEFINE n == Cardinality(Pools)
<1>1. n \in Nat
  BY GateAssumption, FS_CardinalityType DEF GateAssumption
<1>2. r \in Injection(1..n, Pools)
  BY DEF Rankings, SetToSeqs, Injection, IsInjective
<1>3. IsFiniteSet(1..n) /\ Cardinality(1..n) = n
  BY <1>1, FS_Interval
<1>4. r \in Surjection(1..n, Pools)
  BY <1>2, <1>3, FS_Injection, GateAssumption DEF GateAssumption
<1> QED
  BY <1>4 DEF Surjection

\* BestOf picks one of the pools it is given, and none of the others stands
\* before it in the order.
LEMMA BestOfIsFirst ==
  ASSUME NEW pools \in SUBSET Pools, net \in Rankings, BestOf(pools) # NoPool
  PROVE  \E i \in DOMAIN net :
           /\ net[i] = BestOf(pools)
           /\ net[i] \in pools
           /\ \A p \in pools \ {net[i]} : \E j \in DOMAIN net : i < j /\ net[j] = p
<1> DEFINE best == {i \in DOMAIN net : net[i] \in pools /\ \A j \in 1..(i - 1) : net[j] \notin pools}
<1>1. best # {}
  BY DEF BestOf
<1>2. PICK i \in best : BestOf(pools) = net[i]
  BY <1>1 DEF BestOf
<1>3. DOMAIN net = 1..Cardinality(Pools) /\ Cardinality(Pools) \in Nat
  BY GateAssumption, FS_CardinalityType DEF GateAssumption, Rankings, SetToSeqs
<1>4. ASSUME NEW p \in pools \ {net[i]}
      PROVE  \E j \in DOMAIN net : i < j /\ net[j] = p
  <2>1. PICK j \in DOMAIN net : net[j] = p
    BY RankingIsOnto
  <2>2. ~ (j < i) /\ j # i
    BY <1>2, <1>3, <2>1
  <2> QED
    BY <1>2, <1>3, <2>1, <2>2
<1> QED
  BY <1>2, <1>4

-----------------------------------------------------------------------------
(* The invariant: there is no winner before decide, the orders stay what    *)
(* they are, and the winner is right.                                       *)

WinnerInv ==
  /\ net \in Rankings
  /\ at # "done" => winner = NoPool
  /\ CriticalNeverWins
  /\ ScreenedFirst

\* What Decide picks has no CRITICAL token and is the best of its standing.
LEMMA WinnerIsRight ==
  ASSUME net \in Rankings, Winner # NoPool
  PROVE  /\ Winner \in Pools /\ ~ Excluded(Winner)
         /\ \A p \in Pools \ {Winner} :
              ~ Excluded(p) /\ (Screened(p) \/ ~ Screened(Winner))
              => /\ Screened(Winner) \/ ~ Screened(p)
                 /\ \E i, j \in DOMAIN net : i < j /\ net[i] = Winner /\ net[j] = p
<1> DEFINE ranked   == {p \in Pools : ~ Excluded(p)}
           eligible == {p \in ranked : Screened(p)}
           chosen   == IF eligible # {} THEN eligible ELSE ranked
<1>1. Winner = BestOf(chosen)
  BY DEF Winner
<1>2. chosen \in SUBSET Pools
  OBVIOUS
<1> HIDE DEF chosen
<1>3. PICK i \in DOMAIN net :
        /\ net[i] = Winner
        /\ net[i] \in chosen
        /\ \A p \in chosen \ {net[i]} : \E j \in DOMAIN net : i < j /\ net[j] = p
  BY <1>1, <1>2, BestOfIsFirst
<1>4. Winner \in Pools /\ ~ Excluded(Winner)
  BY <1>3 DEF chosen
<1>5. ASSUME NEW p \in Pools \ {Winner}, ~ Excluded(p),
             Screened(p) \/ ~ Screened(Winner)
      PROVE  /\ Screened(Winner) \/ ~ Screened(p)
             /\ p \in chosen
  BY <1>3, <1>5 DEF chosen
<1> QED
  BY <1>3, <1>4, <1>5

\* Steps other than Decide leave the winner unset and the orders alone.
LEMMA OtherSteps ==
  ASSUME WinnerInv, Shortlist \/ OpenFork \/ NextToken \/ ScanToken \/ CloseFork
  PROVE  winner' = NoPool /\ net' = net /\ at' # "done"
BY DEF WinnerInv, Shortlist, OpenFork, NextToken, ScanToken, CloseFork, gateVars

\* No behaviour of the gate leaves the invariant.
THEOREM SpecWinnerInv == Spec => []WinnerInv
<1>1. Init => WinnerInv
  BY DEF Init, WinnerInv, CriticalNeverWins, ScreenedFirst
<1>2. WinnerInv /\ [Next]_vars => WinnerInv'
  <2> SUFFICES ASSUME WinnerInv, [Next]_vars PROVE WinnerInv'
    OBVIOUS
  <2>1. CASE Shortlist \/ OpenFork \/ NextToken \/ ScanToken \/ CloseFork
    BY <2>1, OtherSteps DEF WinnerInv, CriticalNeverWins, ScreenedFirst
  <2>2. CASE Decide
    <3>1. winner' = Winner /\ UNCHANGED <<net, verdict>> /\ at' = "done"
      BY <2>2 DEF Decide
    <3>2. \A p : Excluded(p)' <=> Excluded(p)
      BY <3>1 DEF Excluded
    <3>3. \A p : Screened(p)' <=> Screened(p)
      BY <3>1 DEF Screened
    <3>4. CriticalNeverWins'
      BY <3>1, WinnerIsRight DEF CriticalNeverWins, WinnerInv, Excluded
    <3>5. ScreenedFirst'
      BY <3>1, <3>2, <3>3, WinnerIsRight DEF ScreenedFirst, WinnerInv
    <3> QED
      BY <3>1, <3>4, <3>5 DEF WinnerInv
  <2>3. CASE UNCHANGED vars
    BY <2>3 DEF vars, gateVars, WinnerInv, CriticalNeverWins, ScreenedFirst, Excluded, Screened
  <2> QED
    BY <2>1, <2>2, <2>3 DEF Next
<1> QED
  BY <1>1, <1>2, PTL DEF Spec

\* A pool with a token that the security agent found CRITICAL never wins,
\* whatever pools, tokens and failures there are.
THEOREM CriticalLoses == Spec => []CriticalNeverWins
<1>1. WinnerInv => CriticalNeverWins
  BY DEF WinnerInv
<1> QED
  BY <1>1, SpecWinnerInv, PTL

\* The winner is the best of its standing: screened before unscreened, and by
\* net APR among equals.
THEOREM ScreenedWins == Spec => []ScreenedFirst
<1>1. WinnerInv => ScreenedFirst
  BY DEF WinnerInv
<1> QED
  BY <1>1, SpecWinnerInv, PTL

-----------------------------------------------------------------------------
(***************************************************************************)
(* The gate's list of tokens, and the look at each of them.                 *)
(***************************************************************************)

LEMMA RankingLength ==
  ASSUME NEW r \in Rankings
  PROVE  /\ r \in [1..Cardinality(Pools) -> Pools] /\ Cardinality(Pools) \in Nat
         /\ Len(r) = Cardinality(Pools)
<1>1. r \in [1..Cardinality(Pools) -> Pools] /\ Cardinality(Pools) \in Nat
  BY GateAssumption, FS_CardinalityType DEF Rankings, SetToSeqs
<1> DEFINE n == Cardinality(Pools)
<1> HIDE DEF n
<1>2. r \in [1..n -> Pools] /\ n \in Nat
  BY <1>1 DEF n
<1>3. Len(r) = n
  BY <1>2
<1> QED BY <1>1, <1>3 DEF n

LEMMA LegsTyped ==
  ASSUME NEW p \in Pools
  PROVE  LegsOf(p) = {Legs[p][1], Legs[p][2]} /\ LegsOf(p) \subseteq Tokens
<1>1. Legs[p] \in Seq(Tokens) /\ Len(Legs[p]) = 2
  BY GateAssumption
<1>2. DOMAIN Legs[p] = 1..2 /\ Legs[p][1] \in Tokens /\ Legs[p][2] \in Tokens
  BY <1>1
<1> QED BY <1>2 DEF LegsOf, Range

\* A place of the shortlist shows a token of one of its pools.
LEMMA PlaceShows ==
  ASSUME prelim \in Rankings
  PROVE  /\ IsFiniteSet(Places) /\ Places \in SUBSET Nat
         /\ \A k \in Places : TokenAt(k) \in Tokens
         /\ Places # {} => prelim[1] \in Pools /\ {1, 2} \subseteq Places
         /\ Places # {} => LegsOf(prelim[1]) = {TokenAt(1), TokenAt(2)}
<1> DEFINE n == Cardinality(Pools)
           m == Shorter(Depth, Len(prelim))
<1>1. prelim \in [1..n -> Pools] /\ n \in Nat /\ Len(prelim) = n
  BY RankingLength
<1> HIDE DEF n
<1>2. m \in Nat /\ m <= n /\ Places = 1..(2 * m) /\ (m = 0 => n = 0)
  BY <1>1, GateAssumption DEF Shorter, Places
<1> HIDE DEF m
<1>3. IsFiniteSet(Places) /\ Places \in SUBSET Nat
  BY <1>2, FS_Interval
<1>4. ASSUME NEW k \in Places PROVE TokenAt(k) \in Tokens
  <2>1. k \in 1..(2 * m) /\ (k + 1) \div 2 \in 1..m
    BY <1>2
  <2>2. prelim[(k + 1) \div 2] \in Pools
    BY <1>1, <1>2, <2>1
  <2>3. Legs[prelim[(k + 1) \div 2]] \in Seq(Tokens) /\ Len(Legs[prelim[(k + 1) \div 2]]) = 2
    BY <2>2, GateAssumption
  <2> QED BY <2>3 DEF TokenAt
<1>5. ASSUME Places # {}
      PROVE  /\ prelim[1] \in Pools /\ {1, 2} \subseteq Places
             /\ LegsOf(prelim[1]) = {TokenAt(1), TokenAt(2)}
  <2>1. m >= 1
    BY <1>2, <1>5
  <2>2. prelim[1] \in Pools /\ {1, 2} \subseteq Places
    BY <1>1, <1>2, <2>1
  <2>3. (1 + 1) \div 2 = 1 /\ (2 + 1) \div 2 = 1 /\ 1 % 2 = 1 /\ 2 % 2 = 0
    OBVIOUS
  <2>4. TokenAt(1) = Legs[prelim[1]][1] /\ TokenAt(2) = Legs[prelim[1]][2]
    BY <2>3 DEF TokenAt
  <2> QED BY <2>2, <2>4, LegsTyped
<1> QED BY <1>3, <1>4, <1>5

\* Of a finite set of numbers no more than n have fewer than n below them.
LEMMA FirstOfMany ==
  ASSUME NEW S \in SUBSET Nat, IsFiniteSet(S), NEW n \in Nat
  PROVE  Cardinality({k \in S : Cardinality({j \in S : j < k}) < n}) <= n
<1> DEFINE under(k) == {j \in S : j < k}
           F == {k \in S : Cardinality(under(k)) < n}
           rank == [k \in F |-> Cardinality(under(k))]
<1>1. \A k \in S : IsFiniteSet(under(k)) /\ Cardinality(under(k)) \in Nat
  <2> SUFFICES ASSUME NEW k \in S PROVE IsFiniteSet(under(k)) /\ Cardinality(under(k)) \in Nat
    OBVIOUS
  <2>1. under(k) \in SUBSET S
    OBVIOUS
  <2> HIDE DEF under
  <2> QED BY <2>1, FS_Subset, FS_CardinalityType
<1>2. ASSUME NEW k \in S, NEW l \in S, k < l PROVE Cardinality(under(k)) < Cardinality(under(l))
  <2>0. k \in Nat /\ l \in Nat /\ \A j \in S : j \in Nat
    OBVIOUS
  <2>1. under(k) \cup {k} \in SUBSET under(l) /\ k \notin under(k)
    <3>1. \A j \in S : j < k => j < l
      BY <1>2, <2>0
    <3>2. ~ (k < k)
      BY <2>0
    <3> QED BY <1>2, <3>1, <3>2
  <2> HIDE DEF under
  <2>2. Cardinality(under(k) \cup {k}) = Cardinality(under(k)) + 1
    BY <1>1, <2>1, FS_AddElement
  <2>3. Cardinality(under(k) \cup {k}) <= Cardinality(under(l))
    BY <1>1, <2>1, FS_Subset
  <2> QED BY <1>1, <2>2, <2>3
<1>3. rank \in [F -> 0..(n - 1)]
  <2>1. ASSUME NEW k \in F PROVE Cardinality(under(k)) \in 0..(n - 1)
    <3>1. Cardinality(under(k)) \in Nat /\ Cardinality(under(k)) < n
      BY <1>1
    <3> HIDE DEF under
    <3> QED BY <3>1
  <2> HIDE DEF F, under
  <2> QED BY <2>1
<1>4. ASSUME NEW k \in F, NEW l \in F, rank[k] = rank[l] PROVE k = l
  <2>1. k \in S /\ l \in S /\ Cardinality(under(k)) = Cardinality(under(l))
    BY <1>4
  <2> HIDE DEF under, rank, F
  <2>2. ~ (k < l) /\ ~ (l < k)
    BY <1>1, <1>2, <2>1
  <2> QED BY <2>1, <2>2
<1>5. rank \in Injection(F, 0..(n - 1))
  <2> HIDE DEF F, rank
  <2> QED BY <1>3, <1>4 DEF Injection, IsInjective
<1>6. IsFiniteSet(0..(n - 1)) /\ Cardinality(0..(n - 1)) = n
  <2>1. 0 \in Int /\ n - 1 \in Int
    OBVIOUS
  <2>2. IsFiniteSet(0..(n - 1)) /\ Cardinality(0..(n - 1)) = IF 0 > n - 1 THEN 0 ELSE (n - 1) - 0 + 1
    BY <2>1, FS_Interval
  <2> QED BY <2>2
<1>7. Cardinality(F) <= n
  <2> HIDE DEF F, rank
  <2> QED BY <1>5, <1>6, FS_Injection
<1> QED BY <1>7

\* The gate's list is no longer than the cut, and the cut leaves the tokens of
\* the first pool in it.
LEMMA GateList ==
  ASSUME prelim \in Rankings
  PROVE  /\ GateTokens \subseteq FirstPlaces /\ FirstPlaces \subseteq Places
         /\ Cardinality(GateTokens) <= MaxGated
         /\ GateTokens # {} => prelim[1] \in Pools
         /\ GateTokens # {} => \A t \in LegsOf(prelim[1]) :
              t \in Allowlist \/ \E k \in GateTokens : TokenAt(k) = t
<1> DEFINE under(k) == {j \in FirstPlaces : j < k}
<1>1. GateTokens \subseteq FirstPlaces /\ FirstPlaces \subseteq Places
  BY DEF GateTokens, FirstPlaces
<1>2. /\ IsFiniteSet(FirstPlaces) /\ FirstPlaces \in SUBSET Nat
      /\ MaxGated \in Nat /\ MaxGated >= 2
  BY <1>1, PlaceShows, FS_Subset, GateAssumption
<1>3. Cardinality(GateTokens) <= MaxGated
  BY <1>2, FirstOfMany DEF GateTokens
<1>4. ASSUME GateTokens # {}, NEW t \in LegsOf(prelim[1]), t \notin Allowlist
      PROVE  \E k \in GateTokens : TokenAt(k) = t
  <2>1. {1, 2} \subseteq Places /\ LegsOf(prelim[1]) = {TokenAt(1), TokenAt(2)}
    BY <1>1, <1>4, PlaceShows
  <2>2. PICK k \in {1, 2} : TokenAt(k) = t /\ \A j \in 1..(k - 1) : TokenAt(j) # t
    <3>1. CASE TokenAt(1) = t
      <4>1. 1 \in {1, 2} /\ 1..(1 - 1) = {}
        OBVIOUS
      <4> QED BY <3>1, <4>1
    <3>2. CASE TokenAt(1) # t
      <4>1. TokenAt(2) = t
        BY <1>4, <2>1, <3>2
      <4>2. 1..(2 - 1) = {1}
        OBVIOUS
      <4> QED BY <3>2, <4>1, <4>2
    <3> QED BY <3>1, <3>2
  <2>3. k \in FirstPlaces
    BY <1>4, <2>1, <2>2 DEF FirstPlaces
  <2>4. Cardinality(under(k)) < MaxGated
    <3>0. \A j \in FirstPlaces : j \in Nat /\ j >= 1
      BY <1>1, <1>2 DEF Places
    <3>1. under(k) \in SUBSET {1}
      BY <2>2, <3>0
    <3> HIDE DEF under
    <3>2. IsFiniteSet({1}) /\ Cardinality({1}) = 1
      BY FS_Singleton
    <3>4. Cardinality(under(k)) <= 1 /\ IsFiniteSet(under(k))
      BY <3>1, <3>2, FS_Subset
    <3>3. Cardinality(under(k)) \in Nat
      BY <3>4, FS_CardinalityType
    <3> QED BY <1>2, <3>4, <3>3
  <2> QED BY <2>2, <2>3, <2>4 DEF GateTokens
<1>5. GateTokens # {} => prelim[1] \in Pools
  BY <1>1, PlaceShows
<1> QED BY <1>1, <1>3, <1>4, <1>5

\* What a look at a token does to it and to the verdicts.
LEMMA ScanTyped ==
  ASSUME ScanTypeOK, Scan
  PROVE  /\ ScanTypeOK'
         /\ token \in Tokens
         /\ \/ token' = token /\ verdict' = verdict
            \/ /\ token' = NoToken /\ verdict'[token] # "none"
               /\ \A t \in Tokens \ {token} : verdict'[t] = verdict[t]
<1>1. /\ token \in Tokens /\ sim.at \in SimStates /\ Truth[token] \in TokenKinds
      /\ verdict \in [Tokens -> Verdicts \cup {"none"}]
      /\ sim \in [at : SimStates, buyable : BOOLEAN, sellable : BOOLEAN,
                  buyTax : 0..100, sellTax : 0..100]
  BY ScanAssumption DEF ScanTypeOK, Scan
<1>2. CASE FindPair
  BY <1>1, <1>2 DEF FindPair, ScanTypeOK, SimStates
<1>3. /\ Truth[token].buyTax \in 0..100 /\ Truth[token].sellTax \in 0..100
      /\ {0, 100} \subseteq 0..100
  BY <1>1 DEF TokenKinds
<1>4. CASE Buy
  <2>1. UNCHANGED <<token, verdict>>
    BY <1>4 DEF Buy
  <2>2. ASSUME NEW tax \in 0..100, sim' = [sim EXCEPT !.at = "sell", !.buyable = TRUE, !.buyTax = tax]
        PROVE  ScanTypeOK'
    BY <1>1, <2>1, <2>2 DEF ScanTypeOK, SimStates
  <2>3. ASSUME NEW tax \in 0..100, sim' = [sim EXCEPT !.at = "checks", !.buyTax = tax]
        PROVE  ScanTypeOK'
    BY <1>1, <2>1, <2>3 DEF ScanTypeOK, SimStates
  <2>4. Measured(Truth[token].buyTax) \subseteq 0..100 /\ Lost \subseteq 0..100
    BY <1>3 DEF Measured, Lost
  <2>5. ScanTypeOK'
    BY <1>4, <2>2, <2>3, <2>4 DEF Buy
  <2> QED BY <1>1, <2>1, <2>5
<1>5. CASE Sell
  <2>1. UNCHANGED <<token, verdict>>
    BY <1>5 DEF Sell
  <2>2. ASSUME NEW tax \in 0..100, sim' = [sim EXCEPT !.at = "checks", !.sellable = TRUE, !.sellTax = tax]
        PROVE  ScanTypeOK'
    BY <1>1, <2>1, <2>2 DEF ScanTypeOK, SimStates
  <2>3. ASSUME NEW tax \in 0..100, sim' = [sim EXCEPT !.at = "checks", !.sellTax = tax]
        PROVE  ScanTypeOK'
    BY <1>1, <2>1, <2>3 DEF ScanTypeOK, SimStates
  <2>4. Measured(Truth[token].sellTax) \subseteq 0..100 /\ Lost \subseteq 0..100
    BY <1>3 DEF Measured, Lost
  <2>5. ScanTypeOK'
    BY <1>5, <2>2, <2>3, <2>4 DEF Sell
  <2> QED BY <1>1, <2>1, <2>5
<1>6. ASSUME NEW v \in Verdicts, Verdict(v)
      PROVE  /\ ScanTypeOK'
             /\ token' = NoToken /\ verdict'[token] # "none"
             /\ \A t \in Tokens \ {token} : verdict'[t] = verdict[t]
  <2>1. NoSim \in [at : SimStates, buyable : BOOLEAN, sellable : BOOLEAN,
                   buyTax : 0..100, sellTax : 0..100]
    BY <1>3 DEF NoSim, SimStates
  <2>2. verdict' = [verdict EXCEPT ![token] = v] /\ token' = NoToken /\ sim' = NoSim
    BY <1>6 DEF Verdict
  <2>3. verdict' \in [Tokens -> Verdicts \cup {"none"}] /\ verdict'[token] = v /\ v # "none"
    BY <1>1, <2>2 DEF Verdicts
  <2> QED BY <1>1, <2>1, <2>2, <2>3 DEF ScanTypeOK
<1>7. CASE Score
  <2>1. PICK failed \in SUBSET ChainChecks,
             verified \in {Truth[token].verified, FALSE}, days \in {Truth[token].days, 0} :
               Verdict(ScoreReport(failed, verified, days))
    BY <1>7 DEF Score
  <2>2. ScoreReport(failed, verified, days) \in Verdicts
    BY DEF ScoreReport, Verdicts
  <2> QED BY <1>1, <1>6, <2>1, <2>2
<1>8. CASE ScanRaises
  BY <1>1, <1>6, <1>8 DEF ScanRaises, Verdicts
<1> QED BY <1>1, <1>2, <1>4, <1>5, <1>7, <1>8 DEF Scan

-----------------------------------------------------------------------------
(* The gate's invariant: until the scan nothing has a verdict, and during it *)
(* every token of the first pool is allowed, has one, has its turn or waits. *)

Awaited(t) ==
  \/ t \in Allowlist \/ t = token \/ verdict[t] # "none"
  \/ \E k \in todo : TokenAt(k) = t

NothingSeen == \A t \in Tokens : verdict[t] = "none"

GateInv ==
  /\ TypeOK
  /\ at \in {"shortlist", "fork"} => token = NoToken /\ NothingSeen
  /\ at \in {"fork", "scan"} =>
       prelim[1] \in Pools /\ \A t \in LegsOf(prelim[1]) : Awaited(t)
  /\ at \in {"decide", "done"} => NothingSeen \/ Screened(prelim[1])

\* Places and tokens depend on the ranking only.
LEMMA PlacesStay ==
  ASSUME prelim' = prelim
  PROVE  /\ FirstPlaces' = FirstPlaces /\ Rankings' = Rankings
         /\ \A k : TokenAt(k)' = TokenAt(k)
         /\ \A p : LegsOf(p)' = LegsOf(p)
BY DEF FirstPlaces, Places, Shorter, TokenAt, LegsOf, Rankings

LEMMA WinnerTyped ==
  ASSUME TypeOK
  PROVE  Winner \in Pools \cup {NoPool}
<1>1. \A pools \in SUBSET Pools : BestOf(pools) \in Pools \cup {NoPool}
  BY DEF TypeOK, BestOf
<1> QED BY <1>1 DEF Winner

LEMMA InitGate == Init => GateInv
<1> SUFFICES ASSUME Init PROVE GateInv
  OBVIOUS
<1>1. verdict \in [Tokens -> Verdicts \cup {"none"}] /\ NothingSeen
  BY DEF Init, NothingSeen
<1>2. ScanTypeOK
  BY <1>1 DEF Init, ScanTypeOK, NoSim, SimStates
<1>3. TypeOK
  <2>1. Cardinality({}) = 0 /\ MaxGated \in Nat
    BY FS_EmptySet, GateAssumption
  <2> QED BY <1>2, <2>1 DEF Init, TypeOK
<1> QED BY <1>1, <1>3 DEF Init, GateInv

LEMMA StepGate == GateInv /\ [Next]_vars => GateInv'
<1> SUFFICES ASSUME GateInv, [Next]_vars PROVE GateInv'
  OBVIOUS
<1>1. TypeOK /\ prelim' = prelim /\ net' = net
  BY DEF GateInv, Next, Shortlist, OpenFork, NextToken, ScanToken, CloseFork, Decide, vars, gateVars
<1>2. /\ FirstPlaces' = FirstPlaces /\ Rankings' = Rankings /\ prelim \in Rankings
      /\ \A k : TokenAt(k)' = TokenAt(k)
      /\ \A p : LegsOf(p)' = LegsOf(p)
      /\ FirstPlaces \subseteq Places /\ todo \subseteq FirstPlaces
  BY <1>1, PlacesStay, GateList DEF TypeOK
<1>3. prelim[1] \in Pools => LegsOf(prelim[1]) \subseteq Tokens
  BY LegsTyped
<1>4. CASE Shortlist
  <2>1. /\ at = "shortlist" /\ todo' = GateTokens /\ at' = IF GateTokens = {} THEN "decide" ELSE "fork"
        /\ UNCHANGED <<token, sim, verdict, prelim, net, winner>>
    BY <1>4 DEF Shortlist
  <2>2. token = NoToken /\ NothingSeen
    BY <2>1 DEF GateInv
  <2>3. TypeOK'
    BY <1>1, <1>2, <2>1, GateList DEF TypeOK, ScanTypeOK
  <2>4. GateTokens # {} => prelim[1] \in Pools /\ \A t \in LegsOf(prelim[1]) : Awaited(t)'
    BY <1>1, <1>2, <2>1, GateList DEF Awaited
  <2>5. NothingSeen'
    BY <2>1, <2>2 DEF NothingSeen
  <2> QED BY <1>1, <1>2, <2>1, <2>2, <2>3, <2>4, <2>5 DEF GateInv
<1>5. CASE OpenFork
  <2>1. /\ at = "fork" /\ UNCHANGED <<token, sim, verdict, prelim, net, winner>>
        /\ \/ at' = "scan" /\ todo' = todo
           \/ at' = "decide" /\ todo' = {}
    BY <1>5 DEF OpenFork
  <2>2. NothingSeen' /\ prelim[1] \in Pools /\ \A t \in LegsOf(prelim[1]) : Awaited(t)
    BY <2>1 DEF GateInv, NothingSeen
  <2>3. TypeOK'
    <3>1. Cardinality({}) = 0 /\ MaxGated \in Nat
      BY FS_EmptySet, GateAssumption
    <3> QED BY <1>1, <1>2, <2>1, <3>1 DEF TypeOK, ScanTypeOK
  <2>4. at' = "scan" => \A t \in LegsOf(prelim[1]) : Awaited(t)'
    BY <1>2, <2>1, <2>2 DEF Awaited
  <2> QED BY <1>1, <1>2, <2>1, <2>2, <2>3, <2>4 DEF GateInv
<1>6. CASE NextToken
  <2>1. /\ at = "scan" /\ token = NoToken
        /\ UNCHANGED <<sim, verdict, at, prelim, net, winner>>
    BY <1>6 DEF NextToken
  <2>2. PICK k \in todo : token' = TokenAt(k) /\ todo' = todo \ {k}
    BY <1>6 DEF NextToken
  <2>3. token' \in Tokens
    BY <1>2, <2>2, PlaceShows
  <2>4. TypeOK'
    <3>1. IsFiniteSet(todo)
      BY <1>2, PlaceShows, FS_Subset
    <3>2. Cardinality(todo') <= Cardinality(todo) /\ Cardinality(todo) \in Nat /\ Cardinality(todo') \in Nat
      <4>1. todo' \in SUBSET todo
        BY <2>2
      <4> QED BY <3>1, <4>1, FS_Subset, FS_CardinalityType
    <3>3. Cardinality(todo') <= MaxGated
      BY <1>1, <3>2, GateAssumption DEF TypeOK
    <3> QED BY <1>1, <1>2, <2>1, <2>2, <2>3, <3>3 DEF TypeOK, ScanTypeOK
  <2>5. prelim[1] \in Pools /\ \A t \in LegsOf(prelim[1]) : Awaited(t)
    BY <2>1 DEF GateInv
  <2>6. ASSUME NEW t \in LegsOf(prelim[1]) PROVE Awaited(t)'
    <3>1. t # NoToken
      BY <1>3, <2>5, ScanAssumption
    <3>2. \/ t \in Allowlist \/ verdict[t] # "none"
          \/ \E l \in todo : TokenAt(l) = t
      BY <2>1, <2>5, <3>1 DEF Awaited
    <3> QED BY <1>2, <2>1, <2>2, <3>2 DEF Awaited
  <2> QED BY <1>1, <1>2, <2>1, <2>4, <2>5, <2>6 DEF GateInv
<1>7. CASE ScanToken
  <2>1. at = "scan" /\ Scan /\ UNCHANGED gateVars
    BY <1>7 DEF ScanToken
  <2>2. /\ ScanTypeOK' /\ token \in Tokens
        /\ \/ token' = token /\ verdict' = verdict
           \/ /\ token' = NoToken /\ verdict'[token] # "none"
              /\ \A t \in Tokens \ {token} : verdict'[t] = verdict[t]
    BY <1>1, <2>1, ScanTyped DEF TypeOK
  <2>3. TypeOK'
    BY <1>1, <1>2, <2>1, <2>2 DEF TypeOK, gateVars
  <2>4. prelim[1] \in Pools /\ \A t \in LegsOf(prelim[1]) : Awaited(t)
    BY <2>1 DEF GateInv
  <2>5. ASSUME NEW t \in LegsOf(prelim[1]) PROVE Awaited(t)'
    <3>1. t \in Tokens /\ Awaited(t) /\ todo' = todo
      BY <1>3, <2>1, <2>4 DEF gateVars
    <3> QED BY <1>2, <2>2, <3>1 DEF Awaited
  <2> QED BY <1>1, <1>2, <2>1, <2>3, <2>4, <2>5 DEF GateInv, gateVars
<1>8. CASE CloseFork
  <2>1. /\ at = "scan" /\ token = NoToken /\ todo = {} /\ at' = "decide"
        /\ UNCHANGED <<token, sim, verdict, prelim, net, todo, winner>>
    BY <1>8 DEF CloseFork
  <2>2. TypeOK'
    BY <1>1, <1>2, <2>1 DEF TypeOK, ScanTypeOK
  <2>3. prelim[1] \in Pools /\ \A t \in LegsOf(prelim[1]) : Awaited(t)
    BY <2>1 DEF GateInv
  <2>4. Screened(prelim[1])'
    <3>1. \A t \in LegsOf(prelim[1]) : t # NoToken
      BY <1>3, <2>3, ScanAssumption
    <3> QED BY <1>2, <2>1, <2>3, <3>1 DEF Awaited, Screened
  <2> QED BY <1>1, <2>1, <2>2, <2>4 DEF GateInv
<1>9. CASE Decide
  <2>1. /\ at = "decide" /\ winner' = Winner /\ at' = "done"
        /\ UNCHANGED <<token, sim, verdict, prelim, net, todo>>
    BY <1>9 DEF Decide
  <2>2. Winner \in Pools \cup {NoPool}
    BY <1>1, WinnerTyped
  <2>3. TypeOK'
    BY <1>1, <1>2, <2>1, <2>2 DEF TypeOK, ScanTypeOK
  <2>4. (NothingSeen' <=> NothingSeen) /\ (Screened(prelim[1])' <=> Screened(prelim[1]))
    BY <1>2, <2>1 DEF NothingSeen, Screened
  <2> QED BY <2>1, <2>3, <2>4 DEF GateInv
<1>10. CASE UNCHANGED vars
  <2>1. UNCHANGED <<token, sim, verdict, at, prelim, net, todo, winner>>
    BY <1>10 DEF vars, gateVars
  <2>2. TypeOK'
    BY <1>1, <1>2, <2>1 DEF TypeOK, ScanTypeOK
  <2>3. /\ NothingSeen' <=> NothingSeen
        /\ Screened(prelim[1])' <=> Screened(prelim[1])
        /\ \A t : Awaited(t)' <=> Awaited(t)
    BY <1>2, <2>1 DEF NothingSeen, Screened, Awaited
  <2> QED BY <1>1, <1>2, <2>1, <2>2, <2>3 DEF GateInv
<1> QED BY <1>4, <1>5, <1>6, <1>7, <1>8, <1>9, <1>10 DEF Next

LEMMA SpecGateInv == Spec => []GateInv
<1>1. Init => GateInv
  BY InitGate
<1>2. GateInv /\ [Next]_vars => GateInv'
  BY StepGate
<1> QED BY <1>1, <1>2, PTL DEF Spec

\* The gate, the look at a token and the pick keep their types: the list of
\* tokens never outgrows the cut, for any pools, tokens, depth and failures.
THEOREM GateTypeCorrect == Spec => []TypeOK
<1>1. GateInv => TypeOK
  BY DEF GateInv
<1> QED BY <1>1, SpecGateInv, PTL

\* Whatever the depth and the cut are, if the gate ran at all the pool that the
\* preliminary ranking has first was screened.
THEOREM TopPoolIsScreened == Spec => []TopIsScreened
<1>1. GateInv => TopIsScreened
  BY DEF GateInv, TopIsScreened, NothingSeen
<1> QED BY <1>1, SpecGateInv, PTL

-----------------------------------------------------------------------------
(***************************************************************************)
(* The verdict of a token that was traded.                                   *)
(***************************************************************************)

\* Only a score ends the look at a token that was traded.
LEMMA OnlyScore ==
  ASSUME TypeOK, [Next]_vars, sim.at = "checks", sim'.at = "pair"
  PROVE  /\ token \in Tokens
         /\ \E failed \in SUBSET ChainChecks, verified \in {Truth[token].verified, FALSE},
               days \in {Truth[token].days, 0} :
              verdict'[token] = ScoreReport(failed, verified, days)
<1>1. ~ UNCHANGED sim
  OBVIOUS
<1>2. ScanToken
  BY <1>1 DEF Next, Shortlist, OpenFork, NextToken, CloseFork, Decide, vars
<1>3. token \in Tokens /\ verdict \in [Tokens -> Verdicts \cup {"none"}]
  BY <1>2 DEF ScanToken, Scan, TypeOK, ScanTypeOK
<1>4. Score
  BY <1>2 DEF ScanToken, Scan, FindPair, Buy, Sell, ScanRaises
<1> QED BY <1>3, <1>4 DEF Score, Verdict

\* A quotient is rounded to at least every whole number that it is not below.
LEMMA RoundedUpTo ==
  ASSUME NEW n \in Nat, NEW d \in Nat, d > 0, NEW k \in Nat, k * d <= n
  PROVE  RoundDiv(n, d) \in Nat /\ k <= RoundDiv(n, d)
<1> DEFINE q == n \div d
<1>1. q \in Nat /\ n = d * q + (n % d) /\ n % d \in 0..(d - 1)
  OBVIOUS
<1> HIDE DEF q
<1>2. ~ (q < k)
  <2>1. ASSUME q < k PROVE FALSE
    <3>1. k - (q + 1) \in Nat /\ (k - (q + 1)) * d \in Nat
      BY <1>1, <2>1
    <3>2. k * d = (k - (q + 1)) * d + d * q + d
      BY <1>1, <2>1
    <3> QED BY <1>1, <3>1, <3>2
  <2> QED BY <2>1
<1>3. RoundDiv(n, d) \in {q, q + 1}
  BY DEF RoundDiv, q
<1> QED BY <1>1, <1>2, <1>3

\* The scores of a token that was sold back at a tolerable tax.
LEMMA ScoresOfSold ==
  ASSUME TypeOK, token \in Tokens, sim.at = "checks", sim.sellable, sim.sellTax <= 25,
         NEW failed \in SUBSET ChainChecks, NEW verified, NEW days \in Nat
  PROVE  LET s == Scores(failed, verified, days) IN
         /\ s["honeypot"] = 100
         /\ s["transfer_tax"] \in {30, 70, 100}
         /\ s["ownership"] \in {Unknown, 40, 70, 100}
         /\ s["dangerous_functions"] \in {Unknown, 25, 60, 100}
         /\ s["lp_lock"] \in {Unknown, 30, 60, 100}
         /\ s["source_verified"] \in {30, 100}
         /\ s["upgradeable_proxy"] \in {Unknown, 30, 100}
         /\ s["contract_age"] \in {Unknown, 20, 50, 80, 100}
<1> DEFINE s == Scores(failed, verified, days)
           k == Truth[token]
<1>1. k.owner \in {"none", "renounced", "eoa", "contract"}
  BY ScanAssumption DEF TokenKinds
<1>2. "honeypot" \notin failed /\ "transfer_tax" \notin failed
      /\ "source_verified" \notin failed /\ "dangerous_functions" \notin failed
  BY DEF ChainChecks
<1>3. DOMAIN Weight = {"honeypot", "transfer_tax", "ownership", "dangerous_functions",
                       "lp_lock", "source_verified", "upgradeable_proxy", "contract_age"}
  BY DEF Weight
<1>4. s["honeypot"] = HoneypotScore
  BY <1>2, <1>3 DEF Scores
<1>5. s["transfer_tax"] = TaxScore
  BY <1>2, <1>3 DEF Scores
<1>6. s["ownership"] \in {Unknown, OwnerScore(k)}
  BY <1>3 DEF Scores
<1>7. s["dangerous_functions"] = PowersScore(k, verified)
  BY <1>2, <1>3 DEF Scores
<1>8. s["lp_lock"] \in {Unknown, LpScore(k)}
  BY <1>3 DEF Scores
<1>9. s["source_verified"] = IF verified THEN 100 ELSE 30
  BY <1>2, <1>3 DEF Scores
<1>10. s["upgradeable_proxy"] \in {Unknown, IF k.proxy THEN 30 ELSE 100}
  BY <1>3 DEF Scores
<1>11. s["contract_age"] \in {Unknown, AgeScore(days)}
  BY <1>3 DEF Scores
<1>12. HoneypotScore = 100
  BY DEF HoneypotScore
<1>13. TaxScore \in {30, 70, 100}
  <2>1. ~ (sim.sellTax > 25)
    BY DEF TypeOK, ScanTypeOK
  <2> QED BY <2>1 DEF TaxScore
<1>14. OwnerScore(k) \in {Unknown, 40, 70, 100}
  BY <1>1 DEF OwnerScore
<1>15. PowersScore(k, verified) \in {Unknown, 25, 60, 100} /\ LpScore(k) \in {Unknown, 30, 60, 100}
       /\ AgeScore(days) \in {20, 50, 80, 100}
  BY DEF PowersScore, LpScore, AgeScore
<1> HIDE DEF s, k
<1>16. /\ s["honeypot"] = 100
       /\ s["transfer_tax"] \in {30, 70, 100}
       /\ s["ownership"] \in {Unknown, 40, 70, 100}
       /\ s["dangerous_functions"] \in {Unknown, 25, 60, 100}
       /\ s["lp_lock"] \in {Unknown, 30, 60, 100}
       /\ s["source_verified"] \in {30, 100}
       /\ s["upgradeable_proxy"] \in {Unknown, 30, 100}
       /\ s["contract_age"] \in {Unknown, 20, 50, 80, 100}
  BY <1>4, <1>5, <1>6, <1>7, <1>8, <1>9, <1>10, <1>11, <1>12, <1>13, <1>14, <1>15
<1> QED BY <1>16 DEF s

\* Its weighted mean is 40 or more: the honeypot check makes up for the worst
\* that the seven others can say, and a check that does not answer says nothing.
LEMMA MeanOfSold ==
  ASSUME TypeOK, token \in Tokens, sim.at = "checks", sim.sellable, sim.sellTax <= 25,
         NEW failed \in SUBSET ChainChecks, NEW verified, NEW days \in Nat
  PROVE  LET s == Scores(failed, verified, days) IN
         WeightedScore(s, 100) \in Nat /\ WeightedScore(s, 100) >= 40
<1> DEFINE s == Scores(failed, verified, days)
           m == Marks(s)
           w == Weights(s)
<1>1. /\ s["honeypot"] = 100
      /\ s["transfer_tax"] \in {30, 70, 100}
      /\ s["ownership"] \in {Unknown, 40, 70, 100}
      /\ s["dangerous_functions"] \in {Unknown, 25, 60, 100}
      /\ s["lp_lock"] \in {Unknown, 30, 60, 100}
      /\ s["source_verified"] \in {30, 100}
      /\ s["upgradeable_proxy"] \in {Unknown, 30, 100}
      /\ s["contract_age"] \in {Unknown, 20, 50, 80, 100}
  BY ScoresOfSold
<1> HIDE DEF s
<1>2. \A c \in DOMAIN Weight :
        /\ m[c] = IF s[c] = Unknown THEN 0 ELSE s[c] * Weight[c]
        /\ w[c] = IF s[c] = Unknown THEN 0 ELSE Weight[c]
  BY DEF Marks, Weights
<1> HIDE DEF m, w
<1>3. m["honeypot"] = 2800 /\ w["honeypot"] = 28
  BY <1>1, <1>2 DEF Weight, Unknown
<1>4. m["transfer_tax"] \in Nat /\ w["transfer_tax"] = 18 /\ m["transfer_tax"] + 180 >= 40 * w["transfer_tax"]
  BY <1>1, <1>2 DEF Weight, Unknown
<1>5. m["ownership"] \in Nat /\ w["ownership"] \in {0, 15} /\ m["ownership"] >= 40 * w["ownership"]
  BY <1>1, <1>2 DEF Weight, Unknown
<1>6. /\ m["dangerous_functions"] \in Nat /\ w["dangerous_functions"] \in {0, 14}
      /\ m["dangerous_functions"] + 210 >= 40 * w["dangerous_functions"]
  BY <1>1, <1>2 DEF Weight, Unknown
<1>7. m["lp_lock"] \in Nat /\ w["lp_lock"] \in {0, 10} /\ m["lp_lock"] + 100 >= 40 * w["lp_lock"]
  BY <1>1, <1>2 DEF Weight, Unknown
<1>8. /\ m["source_verified"] \in Nat /\ w["source_verified"] = 7
      /\ m["source_verified"] + 70 >= 40 * w["source_verified"]
  BY <1>1, <1>2 DEF Weight, Unknown
<1>9. /\ m["upgradeable_proxy"] \in Nat /\ w["upgradeable_proxy"] \in {0, 5}
      /\ m["upgradeable_proxy"] + 50 >= 40 * w["upgradeable_proxy"]
  BY <1>1, <1>2 DEF Weight, Unknown
<1>10. m["contract_age"] \in Nat /\ w["contract_age"] \in {0, 3} /\ m["contract_age"] + 60 >= 40 * w["contract_age"]
  BY <1>1, <1>2 DEF Weight, Unknown
<1> DEFINE n == Total(m)
           d == Total(w)
<1>11. n \in Nat /\ d \in Nat /\ d > 0 /\ 40 * d <= n
  BY <1>3, <1>4, <1>5, <1>6, <1>7, <1>8, <1>9, <1>10 DEF Total
<1> HIDE DEF n, d
<1>12. n * 100 \in Nat /\ d * 100 \in Nat /\ d * 100 > 0 /\ 40 * (d * 100) <= n * 100
  BY <1>11
<1>13. RoundDiv(n * 100, d * 100) \in Nat /\ 40 <= RoundDiv(n * 100, d * 100)
  BY <1>12, RoundedUpTo
<1>14. WeightedScore(s, 100) = RoundDiv(n * 100, d * 100)
  BY <1>11 DEF WeightedScore, n, d, m, w
<1> QED BY <1>13, <1>14 DEF s

\* No mark of a token that cannot be sold back saves it.
THEOREM UnsellableLoses == Spec => UnsellableIsCritical
<1>1. ASSUME TypeOK, [Next]_vars, sim.at = "checks", sim'.at = "pair", sim.buyable, ~ sim.sellable
      PROVE  verdict'[token] = "CRITICAL"
  <2>1. TradeHardFail
    BY <1>1 DEF TradeHardFail
  <2> QED BY <1>1, <2>1, OnlyScore DEF ScoreReport
<1> DEFINE Unsellable == sim.at = "checks" /\ sim'.at = "pair" /\ sim.buyable /\ ~ sim.sellable
                         => verdict'[token] = "CRITICAL"
<1>2. TypeOK /\ [Next]_vars => [Unsellable]_vars
  BY <1>1
<1>3. Spec => [][Unsellable]_vars
  BY <1>2, GateTypeCorrect, PTL DEF Spec
<1> QED BY <1>3 DEF UnsellableIsCritical

\* With the weights of scoring.py no failure of the other checks makes a token
\* that was sold back, and that no account can mint, CRITICAL.
THEOREM SoldBackPasses == Spec => SoldBackIsNotCritical
<1>1. ASSUME TypeOK, [Next]_vars, sim.at = "checks", sim'.at = "pair",
             sim.sellable, sim.sellTax <= 25, ~ Truth[token].mint
      PROVE  verdict'[token] # "CRITICAL"
  <2>1. token \in Tokens
    BY <1>1, OnlyScore
  <2>2. PICK failed \in SUBSET ChainChecks, verified \in {Truth[token].verified, FALSE},
             days \in {Truth[token].days, 0} :
               verdict'[token] = ScoreReport(failed, verified, days)
    BY <1>1, OnlyScore
  <2>3. days \in Nat
    BY <2>1, ScanAssumption DEF TokenKinds
  <2>4. ~ TradeHardFail /\ ~ MintByEoa(failed, verified)
    BY <1>1 DEF TradeHardFail, MintByEoa, TypeOK, ScanTypeOK
  <2> DEFINE score == WeightedScore(Scores(failed, verified, days), 100)
  <2>5. score \in Nat /\ score >= 40
    BY <1>1, <2>1, <2>3, MeanOfSold
  <2> HIDE DEF score
  <2>6. ScoreReport(failed, verified, days) = IF score >= 75 THEN "OK" ELSE IF score >= 40 THEN "WARN" ELSE "CRITICAL"
    BY <2>4 DEF ScoreReport, score
  <2> QED BY <2>2, <2>5, <2>6
<1> DEFINE Sold == /\ sim.at = "checks" /\ sim'.at = "pair"
                   /\ sim.sellable /\ sim.sellTax <= 25 /\ ~ Truth[token].mint
                   => verdict'[token] # "CRITICAL"
<1>2. TypeOK /\ [Next]_vars => [Sold]_vars
  BY <1>1
<1>3. Spec => [][Sold]_vars
  BY <1>2, GateTypeCorrect, PTL DEF Spec
<1> QED BY <1>3 DEF SoldBackIsNotCritical

-----------------------------------------------------------------------------
(* What is held is worth a number: the sum over the slots is one.           *)

\* A set of natural numbers has a least one: the order is well-founded.
LEMMA LeastNumber ==
  ASSUME NEW S \in SUBSET Nat, S # {}
  PROVE  \E m \in S : \A n \in S : m <= n
<1>1. PICK m \in S : \A n \in S : ~ (<<n, m>> \in OpToRel(<, Nat))
  BY NatLessThanWellFounded, WFMin
<1>2. \A n \in S : ~ (n < m)
  BY <1>1 DEF OpToRel
<1>3. \A n \in S : m <= n
  BY <1>2
<1> QED BY <1>3

\* f is the function of the partial sums of v up to n.
Sums(f, v, n) == f = [i \in 0..n |-> IF i = 0 THEN 0 ELSE f[i - 1] + v[i]]

LEMMA SumsExist ==
  ASSUME NEW n \in Nat, NEW v \in [1..n -> Int]
  PROVE  \E f \in [0..n -> Int] : Sums(f, v, n)
<1> DEFINE bad == {m \in 0..n : ~ \E f \in [0..m -> Int] : Sums(f, v, m)}
<1>1. ASSUME bad # {} PROVE FALSE
  <2>1. PICK m \in bad : \A k \in bad : m <= k
    <3>1. bad \in SUBSET Nat
      OBVIOUS
    <3> HIDE DEF bad
    <3> QED BY <1>1, <3>1, LeastNumber
  <2>2. m \in 0..n /\ ~ \E f \in [0..m -> Int] : Sums(f, v, m)
    OBVIOUS
  <2>3. m # 0
    <3>1. ASSUME m = 0 PROVE FALSE
      <4> DEFINE f == [i \in 0..0 |-> 0]
      <4>1. f \in [0..0 -> Int]
        OBVIOUS
      <4>2. Sums(f, v, 0)
        BY DEF Sums
      <4> HIDE DEF f
      <4> QED BY <2>2, <3>1, <4>1, <4>2
    <3> QED BY <3>1
  <2>4. m - 1 \in 0..n /\ m - 1 \notin bad /\ m \in 1..n
    <3>1. m \in Nat /\ m - 1 \in 0..n /\ ~ (m <= m - 1) /\ m \in 1..n
      BY <2>2, <2>3
    <3> QED BY <2>1, <3>1
  <2>5. PICK f \in [0..(m - 1) -> Int] : Sums(f, v, m - 1)
    BY <2>4
  <2> DEFINE g == [i \in 0..m |-> IF i = m THEN f[m - 1] + v[m] ELSE f[i]]
  <2>6. g \in [0..m -> Int]
    BY <2>4
  <2>7. \A i \in 0..m : g[i] = IF i = 0 THEN 0 ELSE g[i - 1] + v[i]
    <3> SUFFICES ASSUME NEW i \in 0..m PROVE g[i] = IF i = 0 THEN 0 ELSE g[i - 1] + v[i]
      OBVIOUS
    <3>1. CASE i = m
      <4>1. m - 1 \in 0..m /\ m - 1 # m
        BY <2>4
      <4> QED BY <2>4, <3>1, <4>1
    <3>2. CASE i # m
      <4>1. i \in 0..(m - 1) /\ (i # 0 => i - 1 \in 0..m /\ i - 1 # m)
        BY <2>4, <3>2
      <4>2. f[i] = IF i = 0 THEN 0 ELSE f[i - 1] + v[i]
        BY <2>5, <4>1 DEF Sums
      <4> QED BY <3>2, <4>1, <4>2
    <3> QED BY <3>1, <3>2
  <2>8. Sums(g, v, m)
    <3>1. g = [i \in 0..m |-> g[i]]
      BY <2>6
    <3> HIDE DEF g
    <3> QED BY <2>7, <3>1 DEF Sums
  <2> HIDE DEF g
  <2> QED BY <2>2, <2>6, <2>8
<1>2. n \in 0..n
  OBVIOUS
<1> QED BY <1>1, <1>2

LEMMA SumsAreNumbers ==
  ASSUME NEW n \in Nat, NEW v \in [1..n -> Int], NEW f, Sums(f, v, n)
  PROVE  f[n] \in Int
<1> DEFINE bad == {m \in 0..n : f[m] \notin Int}
<1>1. ASSUME bad # {} PROVE FALSE
  <2>1. PICK m \in bad : \A k \in bad : m <= k
    <3>1. bad \in SUBSET Nat
      OBVIOUS
    <3> HIDE DEF bad
    <3> QED BY <1>1, <3>1, LeastNumber
  <2>2. m \in 0..n /\ f[m] \notin Int
    OBVIOUS
  <2>3. f[m] = IF m = 0 THEN 0 ELSE f[m - 1] + v[m]
    BY <2>2 DEF Sums
  <2>4. m # 0 /\ m \in 1..n
    BY <2>2, <2>3
  <2>5. m - 1 \in 0..n /\ ~ (m <= m - 1)
    BY <2>4
  <2>6. f[m - 1] \in Int
    BY <2>1, <2>5
  <2> QED BY <2>2, <2>3, <2>4, <2>6
<1> QED BY <1>1

LEMMA InventoryInt ==
  ASSUME NEW rate \in Nat
  PROVE  InventoryValue(rate) \in Int
<1> DEFINE v == [n \in 1..NSlots |-> IF n \in Held THEN (Qty(n) * rate) \div Unit ELSE 0]
           value[n \in 0..NSlots] ==
             IF n = 0 THEN 0
             ELSE value[n - 1] + IF n \in Held THEN (Qty(n) * rate) \div Unit ELSE 0
<1>0. NSlots \in Nat /\ SlotIds = 1..NSlots
  BY SlotsNat
<1>1. v \in [1..NSlots -> Int]
  <2>1. ASSUME NEW n \in SlotIds PROVE (Qty(n) * rate) \div Unit \in Int
    <3>1. Qty(n) \in Int
      <4>1. Size * Unit \in Nat
        BY SizeNat DEF Unit
      <4> QED BY <4>1, BuyPxPositive, QuotientOfNats DEF Qty
    <3>2. Qty(n) * rate \in Int
      BY <3>1
    <3> QED BY <3>2, QuotientOfInt DEF Unit
  <2> QED BY <1>0, <2>1
<1>2. PICK f \in [0..NSlots -> Int] : Sums(f, v, NSlots)
  BY <1>0, <1>1, SumsExist
<1>3. f = [n \in 0..NSlots |-> IF n = 0 THEN 0
             ELSE f[n - 1] + IF n \in Held THEN (Qty(n) * rate) \div Unit ELSE 0]
  <2>1. \A n \in 0..NSlots : n # 0 => v[n] = IF n \in Held THEN (Qty(n) * rate) \div Unit ELSE 0
    BY <1>0
  <2> HIDE DEF v
  <2> QED BY <1>2, <2>1 DEF Sums
<1>4. value = [n \in 0..NSlots |-> IF n = 0 THEN 0
             ELSE value[n - 1] + IF n \in Held THEN (Qty(n) * rate) \div Unit ELSE 0]
  BY <1>3
<1>5. Sums(value, v, NSlots)
  <2>1. \A n \in 0..NSlots : n # 0 => v[n] = IF n \in Held THEN (Qty(n) * rate) \div Unit ELSE 0
    BY <1>0
  <2> HIDE DEF v, value
  <2> QED BY <1>4, <2>1 DEF Sums
<1>6. InventoryValue(rate) = value[NSlots]
  BY DEF InventoryValue
<1> HIDE DEF v, value
<1> QED BY <1>0, <1>1, <1>5, <1>6, SumsAreNumbers

-----------------------------------------------------------------------------
(***************************************************************************)
(* The types of the four agents, and the run of one of them.                 *)
(***************************************************************************)

LEMMA FeeNat == ASSUME NEW usd \in Nat PROVE Fee(usd) \in Nat
<1>1. FeeRate \in Nat /\ usd * FeeRate \in Nat
  BY ProductOfNats, GridAssumption
<1> QED BY <1>1, QuotientOfNats DEF Fee

LEMMA ProceedsNat ==
  ASSUME NEW i \in SlotIds
  PROVE  Proceeds(i) \in Nat
<1>1. Qty(i) \in Nat
  <2>1. Size * Unit \in Nat
    BY SizeNat DEF Unit
  <2> QED BY <2>1, BuyPxPositive, QuotientOfNats DEF Qty
<1>2. SellPx(i) \in Nat
  <2>1. Line(i + 1) \in Nat /\ 1000 - Slippage \in Nat
    BY LinePositive, SlotsNat, GridAssumption DEF NSlots
  <2>2. Line(i + 1) * (1000 - Slippage) \in Nat
    BY <2>1, ProductOfNats
  <2> QED BY <2>2, QuotientOfNats DEF SellPx
<1>3. Qty(i) * SellPx(i) \in Nat
  BY <1>1, <1>2, ProductOfNats
<1> QED BY <1>3, QuotientOfNats DEF Proceeds, Unit

GridInv == BooksInv /\ GridTypeOK

LEMMA InitGridInv == GridInit => GridInv
<1> SUFFICES ASSUME GridInit PROVE GridInv
  OBVIOUS
<1>1. candle \in Candles
  BY GridAssumption DEF GridInit
<1>2. heldSince \in [SlotIds -> {Empty} \cup 0..MaxCandles] /\ 1 \in SlotIds
  BY SlotsNat DEF GridInit
<1>3. Capital \in Nat /\ 0 \in 0..MaxCandles
  BY GridAssumption
<1> QED BY <1>1, <1>2, <1>3, InitBooksInv DEF GridInv, GridTypeOK, GridInit

LEMMA NextGridInv == GridInv /\ [GridNext]_gridVars => GridInv'
<1> SUFFICES ASSUME GridInv, [GridNext]_gridVars PROVE GridInv'
  OBVIOUS
<1>1. BooksInv /\ GridTypeOK /\ BooksInv'
  BY NextBooksInv DEF GridInv
<1>2. /\ slot \in SlotIds /\ row \in 0..MaxCandles /\ row \in Nat /\ candle \in Candles
      /\ slot' \in SlotIds
      /\ {cash', realized'} \subseteq Int /\ {trips', wins', fills'} \subseteq Nat
      /\ MaxCandles \in Nat
      /\ heldSince \in [SlotIds -> {Empty} \cup 0..MaxCandles]
  BY <1>1, GridAssumption DEF GridTypeOK, BooksInv, BooksOK
<1>3. Fee(Size) \in Nat /\ \A i \in SlotIds : Fee(Proceeds(i)) \in Nat
  BY SizeNat, FeeNat, ProceedsNat
<1>4. CASE NextRow
  <2>1. candle'.open \in Nat
    BY <1>4, GridAssumption DEF NextRow
  <2> QED BY <1>1, <1>2, <1>4, <2>1 DEF NextRow, GridInv, GridTypeOK
<1>5. CASE BuySlot
  <2>1. gridAt' \in {"buys", "sells"} /\ UNCHANGED <<row, candle, entry, realized, trips, wins, peak, drawdown, halt>>
    BY <1>5 DEF BuySlot, Advance
  <2>2. heldSince' \in [SlotIds -> {Empty} \cup 0..MaxCandles] /\ fees' \in Nat
    BY <1>1, <1>2, <1>3, <1>5 DEF BuySlot, GridTypeOK
  <2>3. row < MaxCandles
    BY <1>1, <1>5 DEF GridTypeOK, BuySlot
  <2> QED BY <1>1, <1>2, <2>1, <2>2, <2>3 DEF GridInv, GridTypeOK
<1>6. CASE SellSlot
  <2>1. gridAt' \in {"sells", "mark"} /\ UNCHANGED <<row, candle, entry, peak, drawdown, halt>>
    BY <1>6 DEF SellSlot, Advance
  <2>2. heldSince' \in [SlotIds -> {Empty} \cup 0..MaxCandles] /\ fees' \in Nat
    BY <1>1, <1>2, <1>3, <1>6 DEF SellSlot, GridTypeOK
  <2>3. row < MaxCandles
    BY <1>1, <1>6 DEF GridTypeOK, SellSlot
  <2> QED BY <1>1, <1>2, <2>1, <2>2, <2>3 DEF GridInv, GridTypeOK
<1>7. CASE Mark
  <2> DEFINE equity == Equity(candle.close)
  <2>1. equity \in Int
    <3>1. candle.close \in Nat
      BY <1>2, GridAssumption
    <3>2. InventoryValue(candle.close) \in Int
      BY <3>1, InventoryInt
    <3>3. cash \in Int
      BY <1>1 DEF GridTypeOK
    <3> QED BY <3>2, <3>3 DEF Equity
  <2> HIDE DEF equity
  <2>2. /\ peak' = Greater(peak, equity) /\ drawdown' = Greater(drawdown, peak' - equity)
        /\ halt' = HaltReason(equity) /\ row' = row + 1 /\ row < MaxCandles
        /\ gridAt' \in {"rows", "over"}
        /\ UNCHANGED <<slot, candle, entry, heldSince, cash, realized, trips, wins, fills, fees>>
    BY <1>1, <1>7 DEF Mark, equity, GridTypeOK
  <2>3. peak' \in Nat /\ drawdown' \in Int
    BY <1>1, <2>1, <2>2 DEF Greater, GridTypeOK
  <2>4. halt' \in {"no", "loss", "range"}
    BY <2>2 DEF HaltReason
  <2> QED BY <1>1, <1>2, <2>2, <2>3, <2>4 DEF GridInv, GridTypeOK
<1>8. CASE RowsEnd
  BY <1>1, <1>8 DEF RowsEnd, GridInv, GridTypeOK
<1>9. CASE UNCHANGED gridVars
  BY <1>1, <1>9 DEF gridVars, GridInv, GridTypeOK
<1> QED BY <1>4, <1>5, <1>6, <1>7, <1>8, <1>9 DEF GridNext

GuardTyped == GuardInv /\ GuardTypeOK

LEMMA InitGuardTyped == GuardInit => GuardTyped
<1> SUFFICES ASSUME GuardInit PROVE GuardTyped
  OBVIOUS
<1>1. {crossed, noAction} \subseteq BOOLEAN /\ guardAt = "observe"
  BY Zenon DEF GuardInit
<1>2. /\ debt = 0 /\ trigger = 0 /\ ratio = 100 /\ lowest = 100 /\ steps = 0
      /\ borrow = 0 /\ buffer = 0 /\ repaid = 0 /\ repays = 0
  BY DEF GuardInit
<1>3. /\ debt \in Debts \cup {0} /\ trigger \in Nat
      /\ ratio \in Ratios \cup {100} /\ lowest \in Ratios \cup {100} /\ steps \in 0..MaxSteps
      /\ {borrow, buffer, repaid, repays} \subseteq Nat
  BY <1>2, GuardAssumption
<1>4. guardAt \in {"observe", "path", "trough", "over"}
  BY <1>1
<1>5. GuardTypeOK
  BY <1>1, <1>3, <1>4, Zenon DEF GuardTypeOK
<1> QED BY <1>5, InitGuardInv DEF GuardTyped

LEMMA NextGuardTyped == GuardTyped /\ [GuardNext]_guardVars => GuardTyped'
<1> SUFFICES ASSUME GuardTyped, [GuardNext]_guardVars PROVE GuardTyped'
  OBVIOUS
<1>1. GuardInv /\ GuardTypeOK /\ GuardInv'
  BY NextGuardInv DEF GuardTyped
<1>2. /\ {borrow', buffer', repaid', repays', trigger'} \subseteq Nat
      /\ crossed' \in BOOLEAN /\ noAction' \in BOOLEAN
  BY <1>1 DEF GuardInv, AccountOK
<1>3. ASSUME NEW k \in Ratios \cup {100}, Step(k), steps < MaxSteps,
             guardAt' \in {"path", "trough", "over"}
      PROVE  GuardTypeOK'
  <2>1. steps' \in 0..MaxSteps /\ ratio' = k /\ lowest' \in {lowest, k} /\ debt' = debt
    BY <1>1, <1>3, GuardAssumption DEF Step, Smaller, GuardTypeOK
  <2> QED BY <1>1, <1>2, <1>3, <2>1 DEF GuardTypeOK
<1>4. CASE Observe
  <2>1. guardAt' \in {"path", "over"} /\ debt' \in Debts \cup {0}
        /\ UNCHANGED <<ratio, lowest, steps>>
    BY <1>1, <1>4 DEF Observe, GuardTypeOK
  <2> QED BY <1>1, <1>2, <2>1 DEF GuardTypeOK, GuardTyped
<1>5. CASE Fall
  <2>1. steps < MaxSteps /\ guardAt' \in {"path", "trough"}
    BY <1>5 DEF Fall
  <2>2. PICK k \in Ratios \cup {100} : Step(k)
    BY <1>5 DEF Fall
  <2> QED BY <1>1, <1>3, <2>1, <2>2 DEF GuardTyped
<1>6. CASE Rebound
  BY <1>1, <1>3, <1>6 DEF Rebound, GuardTyped
<1>7. CASE PathEnds
  BY <1>1, <1>7 DEF PathEnds, GuardTypeOK, GuardTyped
<1>8. CASE UNCHANGED guardVars
  BY <1>1, <1>8 DEF guardVars, GuardTypeOK, GuardTyped
<1> QED BY <1>4, <1>5, <1>6, <1>7, <1>8 DEF GuardNext

RangeInv == HeldInv /\ RangeTypeOK

LEMMA RangeIsWide ==
  ASSUME NEW p \in Prices, NEW v \in Vols
  PROVE  /\ RangeLower(p, v) \in Int /\ RangeUpper(p, v) \in Int
         /\ RangeLower(p, v) < RangeUpper(p, v)
<1>1. RangeLower(p, v) \in Int /\ RangeUpper(p, v) \in Int /\ TickSpacing \in Nat /\ TickSpacing > 0
  BY RangeHoldsCentre, RangeAssumption
<1> DEFINE snapped == SnapUp(PriceToTick(p + HalfWidth(v)))
<1>2. RangeUpper(p, v) = IF snapped <= RangeLower(p, v) THEN RangeLower(p, v) + TickSpacing ELSE snapped
  BY DEF RangeUpper
<1> HIDE DEF snapped
<1> QED BY <1>1, <1>2

LEMMA FeesAndLosses ==
  ASSUME NEW v \in Vols, NEW ranged \in Vols, NEW h \in Nat
  PROVE  HourFee(v) \in Nat /\ Loss(v, h, ranged) \in Nat
<1>1. /\ HalfWidth(v) \in Nat /\ HalfWidth(v) > 0
      /\ HalfWidth(ranged) \in Nat /\ HalfWidth(ranged) > 0
      /\ {FeeScale, MaxFee, LossScale, v} \subseteq Nat
  BY HalfWidthNat, RangeAssumption
<1>2. HourFee(v) \in Nat
  BY <1>1, QuotientOfNats DEF HourFee
<1>3. Elapsed(h) \in Nat
  BY DEF Elapsed
<1>4. LossScale * v * v * Elapsed(h) \in Nat
  <2>1. LossScale * v \in Nat
    BY <1>1, ProductOfNats
  <2>2. LossScale * v * v \in Nat
    BY <1>1, <2>1, ProductOfNats
  <2> QED BY <1>3, <2>2, ProductOfNats
<1> QED BY <1>1, <1>2, <1>4, QuotientOfNats DEF Loss

LEMMA InitRangeInv == RangeInit => RangeInv
  BY InitHeldInv, RangeAssumption DEF RangeInv, RangeTypeOK, RangeInit

LEMMA NextRangeInv == RangeInv /\ [RangeNext]_rangeVars => RangeInv'
<1> SUFFICES ASSUME RangeInv, [RangeNext]_rangeVars PROVE RangeInv'
  OBVIOUS
<1>1. HeldInv /\ RangeTypeOK /\ HeldInv'
  BY NextHeldInv DEF RangeInv
<1>2. /\ vol' \in Vols /\ heldIn' \subseteq Vols /\ rebalances' \in Nat
      /\ hour - openIdx \in Nat /\ vol \in Vols
      /\ {OpenGas, CloseGas, MaxHours} \subseteq Nat
  BY <1>1, RangeAssumption DEF HeldInv
<1>3. CASE SelectRange
  <2>1. lower' \in Int /\ upper' \in Int /\ lower' < upper'
    BY <1>3, RangeIsWide DEF SelectRange
  <2> QED BY <1>1, <1>2, <1>3, <2>1 DEF SelectRange, RangeTypeOK, RangeInv
<1>4. CASE Hour
  <2>1. /\ lpAt = "hours" /\ lpAt' = "hours" /\ hour' \in 0..MaxHours /\ price' \in Prices
        /\ hour \in 0..MaxHours
    BY <1>1, <1>4, RangeAssumption DEF Hour, RangeTypeOK
  <2>2. lpFees' \in Nat /\ inRangeHours' \in Nat
    <3>1. HourFee(vol) \in Nat
      BY <1>2, FeesAndLosses
    <3> QED BY <1>1, <1>4, <3>1 DEF Hour, RangeTypeOK
  <2>3. /\ lower' \in Int /\ upper' \in Int /\ lower' < upper' /\ openIdx' \in 0..MaxHours
        /\ {lpGas', lpLoss', holds'} \subseteq Nat
    <3>1. CASE UNCHANGED <<lower, upper, vol, openIdx, lpGas, lpLoss, rebalances, holds, heldIn>>
      BY <1>1, <2>1, <3>1 DEF RangeTypeOK
    <3>2. ASSUME NEW v \in Vols, Hold(v)
          PROVE  /\ lower' \in Int /\ upper' \in Int /\ lower' < upper' /\ openIdx' \in 0..MaxHours
                 /\ {lpGas', lpLoss', holds'} \subseteq Nat
      BY <1>1, <2>1, <3>2 DEF RangeTypeOK, Hold
    <3>3. ASSUME NEW p \in Prices, NEW v \in Vols, Rebalance(p, v)
          PROVE  /\ lower' \in Int /\ upper' \in Int /\ lower' < upper' /\ openIdx' \in 0..MaxHours
                 /\ {lpGas', lpLoss', holds'} \subseteq Nat
      <4>1. Loss(v, hour - openIdx, vol) \in Nat
        BY <1>2, FeesAndLosses
      <4>2. RangeLower(p, v) \in Int /\ RangeUpper(p, v) \in Int /\ RangeLower(p, v) < RangeUpper(p, v)
        BY RangeIsWide
      <4> QED BY <1>1, <1>2, <2>1, <3>3, <4>1, <4>2 DEF RangeTypeOK, Rebalance
    <3> QED BY <1>4, <3>1, <3>2, <3>3 DEF Hour
  <2> QED BY <1>1, <1>2, <2>1, <2>2, <2>3 DEF RangeTypeOK, RangeInv
<1>5. CASE HoursEnd
  BY <1>1, <1>5 DEF HoursEnd, RangeTypeOK, RangeInv
<1>6. CASE UNCHANGED rangeVars
  BY <1>1, <1>6 DEF rangeVars, RangeTypeOK, RangeInv
<1> QED BY <1>3, <1>4, <1>5, <1>6 DEF RangeNext

\* A run of an agent is a run of its own replay and leaves the others alone, so
\* that what holds of each replay holds of the agents together.
THEOREM RunsAreReplays == AgentSpec => Spec /\ GridSpec /\ GuardSpec /\ RangeSpec
<1>1. AgentInit => Init /\ GridInit /\ GuardInit /\ RangeInit
  BY DEF AgentInit
<1>2. [AgentNext]_agentVars
        => [Next]_vars /\ [GridNext]_gridVars /\ [GuardNext]_guardVars /\ [RangeNext]_rangeVars
  BY DEF AgentNext, YieldStep, GridStep, GuardStep, RangeStep, agentVars
<1> QED BY <1>1, <1>2, PTL DEF AgentSpec, Spec, GridSpec, GuardSpec, RangeSpec

\* The variables of all agents keep their types, for every capital, band, pool,
\* account, path and market.
THEOREM AgentsTyped == AgentSpec => []AgentTypeOK
<1> DEFINE Hired == agent \in AgentIds
<1>1. AgentInit => Hired
  BY DEF AgentInit
<1>2. Hired /\ [AgentNext]_agentVars => Hired'
  BY DEF AgentNext, YieldStep, GridStep, GuardStep, RangeStep, agentVars
<1>3. GridSpec => []GridInv
  BY InitGridInv, NextGridInv, PTL DEF GridSpec
<1>4. GuardSpec => []GuardTyped
  BY InitGuardTyped, NextGuardTyped, PTL DEF GuardSpec
<1>5. RangeSpec => []RangeInv
  BY InitRangeInv, NextRangeInv, PTL DEF RangeSpec
<1>6. Hired /\ TypeOK /\ GridInv /\ GuardTyped /\ RangeInv => AgentTypeOK
  BY DEF AgentTypeOK, GridInv, GuardTyped, RangeInv
<1> HIDE DEF Hired
<1> QED BY <1>1, <1>2, <1>3, <1>4, <1>5, <1>6, RunsAreReplays, GateTypeCorrect, PTL DEF AgentSpec

\* What the catalogue promises of a hire of any agent: every safety property of
\* the four, on the agents' own specification.
THEOREM AgentsKeepTheirPromises ==
  AgentSpec => /\ []CriticalNeverWins /\ []ScreenedFirst /\ []TopIsScreened
               /\ UnsellableIsCritical /\ SoldBackIsNotCritical
               /\ []BooksBalance /\ (SalesPay => []CashFloor)
               /\ []LiquidatedOnlyWhenSpent /\ []NeverHarms /\ SmallestRepayment
               /\ FreshRangeHoldsPrice /\ HeldStaysHeld
BY RunsAreReplays, CriticalLoses, ScreenedWins, TopPoolIsScreened, UnsellableLoses, SoldBackPasses,
   GridBooksBalance, OverdrawnByOneFee, GuardedWhileFunded, GuardNeverHarms, RepaysTheLeast,
   FreshRangeInRange, HoldsAreNotUndone

=============================================================================
