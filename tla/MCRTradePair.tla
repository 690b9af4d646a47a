----------------------------- MODULE MCRTradePair -----------------------------
EXTENDS RTradePairInv, TLC
=============================================================================
