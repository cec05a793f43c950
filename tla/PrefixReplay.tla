---------------------------- MODULE PrefixReplay ----------------------------
(***************************************************************************)
(* Prefix replay, src/distil/prefixreplay.py: each worker remembers, per   *)
(* conversation, the items of the previous turn as the client sent them    *)
(* and as they went out, and sends the leading ones the client left alone  *)
(* as it sent them before.  One conversation, so the LRU of lineages never *)
(* drops it.                                                               *)
(***************************************************************************)
EXTENDS Integers, Sequences, FiniteSetsExt

\* No state for the lineage.
Cold == [turns |-> 0]

\* What a lineage remembers of a turn: canonical originals and forwarded items.
Lineage(canon, forwarded) == [canon |-> canon, fwd |-> forwarded]

\* Mutant: the decisions are never frozen.
HitsUnfrozen(prev, canon, fwd, freeze, stuck) ==
  IF prev = Cold THEN 0
  ELSE LET same(i) == canon[i] = prev.canon[i] /\ fwd[i] = prev.fwd[i] /\ i # stuck
           limit == IF Len(canon) < Len(prev.canon) THEN Len(canon) ELSE Len(prev.canon)
       IN Max({h \in 0..limit : \A i \in 1..h : same(i)})

\* replay(): how many leading items go out as last turn.  The walk stops for good at the
\* first item the client changed, that distil would now send differently (unless the
\* decisions are frozen) or whose marker has nowhere to sit (item number stuck).
Hits(prev, canon, fwd, freeze, stuck) ==
  IF prev = Cold THEN 0
  ELSE LET same(i) == canon[i] = prev.canon[i] /\ (freeze \/ fwd[i] = prev.fwd[i]) /\ i # stuck
           limit == IF Len(canon) < Len(prev.canon) THEN Len(canon) ELSE Len(prev.canon)
       IN Max({h \in 0..limit : \A i \in 1..h : same(i)})

Replay(prev, canon, fwd, freeze, stuck) ==
  LET h == Hits(prev, canon, fwd, freeze, stuck)
  IN [i \in DOMAIN fwd |-> IF i <= h THEN prev.fwd[i] ELSE fwd[i]]
=============================================================================
