----------------------------- MODULE MCRestore -----------------------------
EXTENDS Restore, TLC
=============================================================================
