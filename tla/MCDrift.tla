------------------------------ MODULE MCDrift ------------------------------
EXTENDS Drift, TLC
=============================================================================
