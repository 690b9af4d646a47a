--------------------------- MODULE MCReplaceOrder ---------------------------
EXTENDS ReplaceOrderInv, TLC
=============================================================================
