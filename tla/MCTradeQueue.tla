---------------------------- MODULE MCTradeQueue ----------------------------
(* Small instances of TradeQueue for TLC. *)
EXTENDS TradeQueue

\* A taker that matches two makers, then two single trades.
MCBatches == <<<<1, 2>>, <<3>>, <<4>>>>
ShortBatches == <<<<1, 2>>, <<3>>>>
============================================================================
