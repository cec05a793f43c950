--------------------------- MODULE EvictionLedger ---------------------------
(***************************************************************************)
(* What cold-point recompression promises per lineage (the docstring of    *)
(* src/distil/coldpoint.py and ADR 0014), with no threads and no clock:    *)
(* the set of evicted ids grows only under a licence, a licence is issued  *)
(* only at a moment at which the provider has surely forgotten the         *)
(* lineage, and the set shrinks only when a worker dies.                   *)
(***************************************************************************)
CONSTANTS Lineage, Id

VARIABLES
  evicted,   \* lineage -> ids forwarded as stubs from now on
  licensed,  \* lineages whose next growth has been paid for by a cold moment
  hot        \* lineages the provider may still hold in its cache

vars == <<evicted, licensed, hot>>

Init ==
  /\ evicted = [k \in Lineage |-> {}]
  /\ licensed = {}
  /\ hot = {}

\* The cache of k has expired: the next edit of its prefix costs nothing.
License(k) ==
  /\ k \notin hot
  /\ licensed' = licensed \cup {k}
  /\ UNCHANGED <<evicted, hot>>

\* The licence is used up; ids are only added.
Grow(k) ==
  /\ k \in licensed
  /\ \E fresh \in SUBSET Id : evicted' = [evicted EXCEPT ![k] = @ \cup fresh]
  /\ licensed' = licensed \ {k}
  /\ UNCHANGED hot

\* Traffic and time warm and cool the provider's cache.
Provider ==
  /\ hot' \in SUBSET Lineage
  /\ UNCHANGED <<evicted, licensed>>

\* A death of the worker loses what was not written yet, and every licence.
Restart ==
  /\ evicted' \in [Lineage -> SUBSET Id]
  /\ \A k \in Lineage : evicted'[k] \subseteq evicted[k]
  /\ licensed' = {}
  /\ hot' \in SUBSET Lineage

Next == Provider \/ Restart \/ \E k \in Lineage : License(k) \/ Grow(k)

Spec == Init /\ [][Next]_vars
=============================================================================
