------------------------------ MODULE CacheTtl ------------------------------
(***************************************************************************)
(* What distil learns of the provider's cache lifetime, from the requests  *)
(* of one lineage: the probe that plan() leaves in src/distil/coldpoint.py *)
(* and observe_usage() takes, and the bounds every worker keeps in memory  *)
(* and merges into cache_ttl.json, src/distil/ttl_estimator.py.            *)
(***************************************************************************)
EXTENDS Integers, Sequences, FiniteSets, FiniteSetsExt, SequencesExt

CONSTANTS
  TtlWorker,   \* proxy processes
  Gaps,        \* idle gaps a request may arrive after
  MinGap,      \* MIN_GAP_S
  MinHits,     \* MIN_HITS
  MaxPlanned,  \* bound: requests
  MaxSlips     \* bound: restarts, writes that fail, read no file, or are for another key

ASSUME TtlAssumption ==
  /\ Gaps \subseteq Nat \ {0} /\ MinGap \in Nat /\ MinHits \in Nat \ {0}
  /\ MaxPlanned \in Nat /\ MaxSlips \in Nat

VARIABLES
  stored,    \* cache_ttl.json: lo, hi (0: none) and hits
  table,     \* each worker's copy; one that was not read yet says so
  seen,      \* workers that know the lineage
  probe,     \* st.probe: the gap, and that distil edited the prefix; gap 0: none
  flight,    \* each worker's requests in flight
  said,      \* history: the hits there were, the gaps they came after, the gaps of misses on
             \* a prefix left alone
  planned, slips  \* the bounds' counters

ttlVars == <<stored, table, seen, probe, flight, said, planned, slips>>

Bounds == [lo : Nat, hi : Nat, hits : Nat]
Empty == [lo |-> 0, hi |-> 0, hits |-> 0]
NotRead == [read |-> FALSE, t |-> Empty]
NoProbe == [gap |-> 0, edited |-> FALSE]

TtlInit ==
  /\ stored = Empty
  /\ table = [w \in TtlWorker |-> NotRead]
  /\ seen \in SUBSET TtlWorker  \* the lineage may have been served before the file is first written
  /\ probe = [w \in TtlWorker |-> NoProbe]
  /\ flight = [w \in TtlWorker |-> << >>]
  /\ said = [hits |-> 0, alive |-> {}, gone |-> {}]
  /\ planned = 0 /\ slips = 0

Slip == slips < MaxSlips /\ slips' = slips + 1

-----------------------------------------------------------------------------
(* plan(), note_rewrite(), end().                                          *)

\* _data(): the file, once; nothing where it cannot be read.
Copies(w) == IF table[w].read THEN {table[w].t} ELSE {stored, Empty}

Keep(w, t) == table' = [table EXCEPT ![w] = [read |-> TRUE, t |-> t]]

\* Mutant: a request that overlaps another leaves a probe.
ProbeOfAny(w, gap) == [gap |-> gap, edited |-> FALSE]

\* The probe of a request: none when another one is in flight.
ProbeOf(w, gap) == IF flight[w] # << >> THEN NoProbe ELSE [gap |-> gap, edited |-> FALSE]

\* The first request a worker sees of the lineage has no gap to tell.
Plan(w) ==
  /\ planned < MaxPlanned /\ planned' = planned + 1
  /\ \E gap \in Gaps :
       /\ flight' = [flight EXCEPT ![w] = Append(@, [gap |-> gap, edited |-> FALSE, heard |-> FALSE])]
       /\ probe' = [probe EXCEPT ![w] = IF w \in seen THEN ProbeOf(w, gap) ELSE NoProbe]
  /\ seen' = seen \cup {w}
  /\ IF w \in seen THEN \E t \in Copies(w) : Keep(w, t) ELSE UNCHANGED table  \* effective_ttl
  /\ UNCHANGED <<stored, said, slips>>

\* plan() evicted more, or the thinking guard took a block out: before the request leaves, and
\* on whatever probe the lineage has then.
EditPrefix(w, r) ==
  /\ ~flight[w][r].heard /\ ~flight[w][r].edited
  /\ flight' = [flight EXCEPT ![w][r].edited = TRUE]
  /\ probe' = [probe EXCEPT ![w].edited = @ \/ probe[w].gap # 0]
  /\ UNCHANGED <<stored, table, seen, said, planned, slips>>

\* end(): after the usage was heard, or without it when the request failed.
End(w, r) ==
  /\ flight' = [flight EXCEPT ![w] = RemoveAt(@, r)]
  /\ UNCHANGED <<stored, table, seen, probe, said, planned, slips>>

-----------------------------------------------------------------------------
(* observe_usage() and observe().                                          *)

Least(a, b) == IF a = 0 THEN b ELSE IF b = 0 THEN a ELSE Min({a, b})

Noted(t, gap, hit) ==
  IF hit THEN [t EXCEPT !.lo = Max({@, gap}), !.hits = @ + 1] ELSE [t EXCEPT !.hi = Least(@, gap)]

\* What decides: hits beyond MinHits change nothing.
News(t) == [t EXCEPT !.hits = Min({@, MinHits})]

\* _write merges with what other workers wrote.
Merged(t, disk) ==
  [lo |-> Max({t.lo, disk.lo}), hi |-> Least(t.hi, disk.hi), hits |-> Max({t.hits, disk.hits})]

TtlWritten(w, t) == stored' = Merged(t, stored) /\ Keep(w, Merged(t, stored))

\* A file that cannot be read is taken for an empty one, and overwritten.  A write that fails,
\* before or after the merge, leaves the worker's copy changed.
TtlWrittenBadly(w, t) ==
  \/ stored' = t /\ Keep(w, t)
  \/ stored' = stored /\ (Keep(w, t) \/ Keep(w, Merged(t, stored)))

Learn(w, t) == \/ TtlWritten(w, t) /\ UNCHANGED slips
               \/ TtlWrittenBadly(w, t) /\ Slip

\* The usage of a request is known and the lineage's probe is taken for it.  A short gap says
\* nothing, nor does a miss after an edit, and what is no news is not written.
Observe(w, r, hit) ==
  LET gap == flight[w][r].gap
  IN /\ ~flight[w][r].heard
     /\ flight' = [flight EXCEPT ![w][r].heard = TRUE]
     /\ probe' = [probe EXCEPT ![w] = NoProbe]
     /\ said' = IF hit THEN [said EXCEPT !.hits = @ + 1, !.alive = @ \cup {gap}]
                ELSE IF flight[w][r].edited THEN said ELSE [said EXCEPT !.gone = @ \cup {gap}]
     /\ IF probe[w].gap = 0 \/ probe[w].gap < MinGap \/ (~hit /\ probe[w].edited)
        THEN UNCHANGED <<stored, table, slips>>
        ELSE \E old \in Copies(w) :
               LET new == Noted(old, probe[w].gap, hit)
               IN IF News(new) = News(old)
                  THEN Keep(w, old) /\ UNCHANGED <<stored, slips>>
                  ELSE Learn(w, new)
     /\ UNCHANGED <<seen, planned>>

\* Usage under another key: the whole table is written, and past _MAX_KEYS the oldest key of
\* it is dropped first, which may be this one.
OtherKey(w) ==
  /\ \E t \in Copies(w) \cup {Empty} : TtlWritten(w, t) \/ TtlWrittenBadly(w, t)
  /\ Slip
  /\ UNCHANGED <<seen, probe, flight, said, planned>>

\* A worker is replaced: its memory and its requests are gone.
Replace(w) ==
  /\ w \in seen /\ Slip
  /\ table' = [table EXCEPT ![w] = NotRead]
  /\ seen' = seen \ {w}
  /\ probe' = [probe EXCEPT ![w] = NoProbe]
  /\ flight' = [flight EXCEPT ![w] = << >>]
  /\ UNCHANGED <<stored, said, planned>>

TtlNext ==
  \E w \in TtlWorker :
    \/ Plan(w) \/ OtherKey(w) \/ Replace(w)
    \/ \E r \in DOMAIN flight[w] : EditPrefix(w, r) \/ End(w, r) \/ \E hit \in BOOLEAN : Observe(w, r, hit)

TtlSpec == TtlInit /\ [][TtlNext]_ttlVars

-----------------------------------------------------------------------------
(* Properties.                                                             *)

TtlTypeOK ==
  /\ stored \in Bounds
  /\ table \in [TtlWorker -> [read : BOOLEAN, t : Bounds]]
  /\ seen \subseteq TtlWorker
  /\ probe \in [TtlWorker -> [gap : Gaps \cup {0}, edited : BOOLEAN]]
  /\ flight \in [TtlWorker -> Seq([gap : Gaps, edited : BOOLEAN, heard : BOOLEAN])]
  /\ said \in [hits : Nat, alive : SUBSET Gaps, gone : SUBSET Gaps]
  /\ planned \in 0..MaxPlanned /\ slips \in 0..MaxSlips

\* "Evidence from usage after an idle gap g (nothing in flight ...)" (ttl_estimator.py:3): what
\* is on file, and in every worker, was said by the provider about a request that waited that
\* long: lo of a hit, hi of a miss on a prefix distil had left alone, and no more hits than
\* there were, in whatever order requests overlap, fail, are heard, and workers merge.
LearnedFromUsage ==
  \A t \in {stored} \cup {table[w].t : w \in TtlWorker} :
    /\ t.hits <= said.hits
    /\ t.lo \in {0} \cup said.alive
    /\ t.hi \in {0} \cup said.gone
=============================================================================
