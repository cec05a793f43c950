---------------------------- MODULE MCColdpoint ----------------------------
EXTENDS Coldpoint, TLC

\* Every result is in the first message.
FirstTurn == [i \in Id |-> 1]

Symmetric ==
  Permutations(Proc) \cup Permutations(Thread) \cup Permutations(Lineage)
    \cup Permutations(Conv) \cup Permutations(Id)
=============================================================================
