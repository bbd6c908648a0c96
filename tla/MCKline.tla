------------------------------- MODULE MCKline -------------------------------
(***************************************************************************)
(* The candle cache for TLC: two callers on one file, daily candles of two  *)
(* ticks, so that calls fall on a candle's opening and in its middle, and    *)
(* pages of two candles, so that the walks over windows of one and three    *)
(* days and over the tail end with a full page, a short one and none.       *)
(***************************************************************************)
EXTENDS KlineCache

=============================================================================
