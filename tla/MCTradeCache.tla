---------------------------- MODULE MCTradeCache ----------------------------
EXTENDS TradeCache, TLC

\* The last instants are for fills to age in, past the marker and past retention.
FillsInTime == \A k \in Executed : fills[k] <= MaxNow - Retention
=============================================================================
