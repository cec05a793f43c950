----------------------------- MODULE MCHotSwap -----------------------------
EXTENDS HotSwap, TLC
=============================================================================
