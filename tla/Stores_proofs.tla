----------------------------- MODULE Stores_proofs -----------------------------
(***************************************************************************)
(* Proofs about the files several processes of distil write: the learned   *)
(* cache lifetimes (CacheTtl) and the restore store (Restore), without a   *)
(* lock, and the receipt chain (Receipts), whose reader takes none.        *)
(***************************************************************************)
EXTENDS CacheTtl, Restore, Receipts, SequenceTheorems, FiniteSetTheorems, WellFoundedInduction, TLAPS

-----------------------------------------------------------------------------
(* CacheTtl: what is learned of the provider's cache.                      *)

LEMMA MaxOfTwo ==
  ASSUME NEW a \in Nat, NEW b \in Nat
  PROVE  Max({a, b}) \in {a, b} /\ Max({a, b}) >= a /\ Max({a, b}) >= b
<1>1. PICK m \in {a, b} : \A y \in {a, b} : m >= y
  <2>1. CASE a >= b
    BY <2>1
  <2>2. CASE b >= a
    BY <2>2
  <2>. QED
    BY <2>1, <2>2
<1>2. Max({a, b}) \in {a, b} /\ \A y \in {a, b} : Max({a, b}) >= y
  BY <1>1 DEF Max
<1>. QED
  BY <1>2

LEMMA MinOfTwo ==
  ASSUME NEW a \in Nat, NEW b \in Nat
  PROVE  Min({a, b}) \in {a, b} /\ Min({a, b}) <= a /\ Min({a, b}) <= b
<1>1. PICK m \in {a, b} : \A y \in {a, b} : m <= y
  <2>1. CASE a <= b
    BY <2>1
  <2>2. CASE b <= a
    BY <2>2
  <2>. QED
    BY <2>1, <2>2
<1>2. Min({a, b}) \in {a, b} /\ \A y \in {a, b} : Min({a, b}) <= y
  BY <1>1 DEF Min
<1>. QED
  BY <1>2

\* The lesser of two upper bounds, of which 0 is none.
LEMMA LeastOfTwo ==
  ASSUME NEW a \in Nat, NEW b \in Nat
  PROVE  Least(a, b) \in {a, b} /\ (b # 0 => Least(a, b) \in 1..b)
BY MinOfTwo DEF Least

\* A merge invents no bound.
LEMMA MergedBounds ==
  ASSUME NEW t \in Bounds, NEW disk \in Bounds
  PROVE  /\ Merged(t, disk) \in Bounds
         /\ Merged(t, disk).lo \in {t.lo, disk.lo}
         /\ Merged(t, disk).hits \in {t.hits, disk.hits}
         /\ Merged(t, disk).hi \in {t.hi, disk.hi}
<1>1. t.lo \in Nat /\ t.hi \in Nat /\ t.hits \in Nat /\ disk.lo \in Nat /\ disk.hi \in Nat
      /\ disk.hits \in Nat
  BY DEF Bounds
<1>2. /\ Merged(t, disk).lo = Max({t.lo, disk.lo}) /\ Merged(t, disk).hi = Least(t.hi, disk.hi)
      /\ Merged(t, disk).hits = Max({t.hits, disk.hits})
  BY DEF Merged
<1>3. /\ Merged(t, disk).lo \in {t.lo, disk.lo}
      /\ Merged(t, disk).hits \in {t.hits, disk.hits}
      /\ Merged(t, disk).hi \in {t.hi, disk.hi}
  BY <1>1, <1>2, MaxOfTwo, LeastOfTwo
<1>4. Merged(t, disk) \in Bounds
  BY <1>1, <1>2, <1>3 DEF Merged, Bounds
<1>. QED
  BY <1>3, <1>4

LEMMA RemovedAt ==
  ASSUME NEW S, NEW s \in Seq(S), NEW r \in 1..Len(s)
  PROVE  RemoveAt(s, r) \in Seq(S) /\ Len(RemoveAt(s, r)) = Len(s) - 1
<1>. DEFINE before == SubSeq(s, 1, r - 1)
            after == SubSeq(s, r + 1, Len(s))
<1>1. Len(s) \in Nat /\ r \in Int /\ \A i \in 1..Len(s) : s[i] \in S
  BY LenProperties, ElementOfSeq
<1>2. before \in Seq(S) /\ Len(before) = r - 1
  BY <1>1, SubSeqProperties
<1>3. after \in Seq(S) /\ Len(after) = Len(s) - r
  BY <1>1, SubSeqProperties
<1>4. RemoveAt(s, r) = before \o after
  BY DEF RemoveAt
<1>. HIDE DEF before, after
<1>5. before \o after \in Seq(S) /\ Len(before \o after) = Len(before) + Len(after)
  BY <1>2, <1>3, ConcatProperties
<1>. QED
  BY <1>1, <1>2, <1>3, <1>4, <1>5

Request == [gap : Gaps, edited : BOOLEAN, heard : BOOLEAN]

\* A probe was left for the only request of the lineage that is in flight, has its gap, and
\* knows of every edit that request has.
ProbeOK ==
  \A w \in TtlWorker : probe[w].gap # 0 =>
    /\ Len(flight[w]) <= 1
    /\ \A r \in DOMAIN flight[w] : /\ flight[w][r].gap = probe[w].gap
                                   /\ flight[w][r].edited => probe[w].edited

\* What t says was said by the provider, of whom s is what has been heard.
HeardOf(t, s) ==
  /\ t.hits <= s.hits
  /\ t.lo \in {0} \cup s.alive
  /\ t.hi \in {0} \cup s.gone

Said(t) == HeardOf(t, said)

SaidOK == Said(stored) /\ \A w \in TtlWorker : Said(table[w].t)

\* The inductive invariant.  LearnedFromUsage alone does not say whose gap a probe has.
TtlInv == TtlTypeOK /\ ProbeOK /\ SaidOK

LEMMA TtlInitInv == TtlInit => TtlInv
<1>. SUFFICES ASSUME TtlInit PROVE TtlInv
  OBVIOUS
<1>1. NotRead \in [read : BOOLEAN, t : Bounds] /\ NoProbe \in [gap : Gaps \cup {0}, edited : BOOLEAN]
  BY Zenon DEF NotRead, NoProbe, Empty, Bounds
<1>2. << >> \in Seq(Request)
  BY EmptySeq
<1>3. TtlTypeOK
  BY <1>1, <1>2, TtlAssumption DEF TtlInit, TtlTypeOK, Empty, Bounds, Request
<1>4. ProbeOK /\ SaidOK
  BY DEF TtlInit, ProbeOK, SaidOK, Said, HeardOf, NoProbe, NotRead, Empty
<1>. QED
  BY <1>3, <1>4 DEF TtlInv

\* What a worker can take for the file: nothing, if need be.
LEMMA CopiesOK ==
  ASSUME TtlInv, NEW w \in TtlWorker, NEW t \in Copies(w) \cup {stored, Empty}
  PROVE  t \in Bounds /\ Said(t)
<1>1. Empty \in Bounds /\ Said(Empty)
  BY DEF Empty, Bounds, Said, HeardOf, TtlInv, TtlTypeOK
<1>. QED
  BY <1>1 DEF TtlInv, TtlTypeOK, SaidOK, Copies

\* A merge of what two copies say was said as well.
LEMMA MergedHeard ==
  ASSUME NEW t \in Bounds, NEW disk \in Bounds, NEW s, HeardOf(t, s), HeardOf(disk, s)
  PROVE  Merged(t, disk) \in Bounds /\ HeardOf(Merged(t, disk), s)
<1>. DEFINE known == Merged(t, disk)
<1>1. /\ known \in Bounds /\ known.lo \in {t.lo, disk.lo} /\ known.hits \in {t.hits, disk.hits}
      /\ known.hi \in {t.hi, disk.hi}
  BY MergedBounds
<1>. HIDE DEF known
<1>. QED
  BY <1>1 DEF HeardOf, known

\* What is on file and in the worker's copy after a write, or after one that failed.
LEMMA WrittenOK ==
  ASSUME TtlInv, NEW w \in TtlWorker, NEW t \in Bounds, NEW s,
         TtlWritten(w, t) \/ TtlWrittenBadly(w, t),
         HeardOf(t, s), HeardOf(stored, s)
  PROVE  \E kept \in Bounds, filed \in Bounds :
           HeardOf(kept, s) /\ HeardOf(filed, s) /\ stored' = filed /\ Keep(w, kept)
<1>. DEFINE known == Merged(t, stored)
<1>1. stored \in Bounds
  BY DEF TtlInv, TtlTypeOK
<1>2. known \in Bounds /\ HeardOf(known, s)
  BY <1>1, MergedHeard
<1>3. stored' \in {known, t, stored} /\ (Keep(w, t) \/ Keep(w, known))
  BY DEF TtlWritten, TtlWrittenBadly
<1>. HIDE DEF known
<1>. QED
  BY <1>1, <1>2, <1>3

\* A worker's copy becomes one whose bounds the provider has said.
LEMMA KeepOK ==
  ASSUME TtlTypeOK, NEW w \in TtlWorker, NEW t \in Bounds, Keep(w, t)
  PROVE  /\ table' \in [TtlWorker -> [read : BOOLEAN, t : Bounds]]
         /\ \A v \in TtlWorker : table'[v].t = IF v = w THEN t ELSE table[v].t
<1>1. TRUE \in BOOLEAN
  BY Zenon
<1>. QED
  BY <1>1 DEF TtlTypeOK, Keep

LEMMA PlanStep ==
  ASSUME TtlInv, NEW w \in TtlWorker, Plan(w)
  PROVE  TtlInv'
<1>1. PICK gap \in Gaps :
        /\ flight' = [flight EXCEPT ![w] = Append(@, [gap |-> gap, edited |-> FALSE, heard |-> FALSE])]
        /\ probe' = [probe EXCEPT ![w] = IF w \in seen THEN ProbeOf(w, gap) ELSE NoProbe]
  BY DEF Plan
<1>. DEFINE q == [gap |-> gap, edited |-> FALSE, heard |-> FALSE]
<1>2. q \in Request /\ NoProbe \in [gap : Gaps \cup {0}, edited : BOOLEAN]
      /\ ProbeOf(w, gap) \in [gap : Gaps \cup {0}, edited : BOOLEAN]
  BY Zenon DEF Request, NoProbe, ProbeOf
<1>3. flight[w] \in Seq(Request) /\ Append(flight[w], q) \in Seq(Request)
  <2>1. flight[w] \in Seq(Request)
    BY DEF TtlInv, TtlTypeOK, Request
  <2>. HIDE DEF q
  <2>. QED
    BY <1>2, <2>1, AppendProperties
<1>4. flight' \in [TtlWorker -> Seq(Request)] /\ probe' \in [TtlWorker -> [gap : Gaps \cup {0}, edited : BOOLEAN]]
  <2>. HIDE DEF q
  <2>1. flight' = [flight EXCEPT ![w] = Append(flight[w], q)]
    BY <1>1 DEF q
  <2>2. flight' \in [TtlWorker -> Seq(Request)]
    BY <1>3, <2>1 DEF TtlInv, TtlTypeOK, Request
  <2>3. (IF w \in seen THEN ProbeOf(w, gap) ELSE NoProbe) \in [gap : Gaps \cup {0}, edited : BOOLEAN]
    BY <1>2
  <2>. QED
    BY <1>1, <2>2, <2>3 DEF TtlInv, TtlTypeOK
<1>5. /\ table' \in [TtlWorker -> [read : BOOLEAN, t : Bounds]]
      /\ \A v \in TtlWorker : table'[v].t = table[v].t \/ table'[v].t \in Copies(w)
  <2>1. CASE w \in seen
    <3>1. PICK t \in Copies(w) : Keep(w, t)
      BY <2>1 DEF Plan
    <3>2. t \in Bounds
      BY CopiesOK
    <3>. QED
      BY <3>1, <3>2, KeepOK DEF TtlInv
  <2>2. CASE w \notin seen
    BY <2>2 DEF Plan, TtlInv, TtlTypeOK
  <2>. QED
    BY <2>1, <2>2
<1>6. TtlTypeOK'
  <2>1. planned' \in 0..MaxPlanned /\ seen' \subseteq TtlWorker /\ UNCHANGED <<stored, said, slips>>
    BY TtlAssumption DEF Plan, TtlInv, TtlTypeOK
  <2>. QED
    BY <1>4, <1>5, <2>1 DEF TtlInv, TtlTypeOK, Request
<1>7. SaidOK'
  <2>1. UNCHANGED <<stored, said>>
    BY DEF Plan
  <2>2. (\A t \in Copies(w) : Said(t)) /\ \A v \in TtlWorker : Said(table[v].t)
    BY CopiesOK DEF TtlInv, SaidOK
  <2>. QED
    BY <1>5, <2>1, <2>2 DEF TtlInv, SaidOK, Said, HeardOf
\* A probe is left only when nothing else is in flight.
<1>8. ASSUME NEW v \in TtlWorker, probe'[v].gap # 0
      PROVE  /\ Len(flight'[v]) <= 1
             /\ \A r \in DOMAIN flight'[v] : /\ flight'[v][r].gap = probe'[v].gap
                                             /\ flight'[v][r].edited => probe'[v].edited
  <2>1. CASE v # w
    <3>1. flight'[v] = flight[v] /\ probe'[v] = probe[v]
      BY <1>1, <2>1 DEF TtlInv, TtlTypeOK
    <3>. QED
      BY <1>8, <3>1 DEF TtlInv, ProbeOK
  <2>2. CASE v = w
    <3>1. probe'[w] = [gap |-> gap, edited |-> FALSE] /\ flight[w] = << >>
      BY <1>1, <1>8, <2>2 DEF TtlInv, TtlTypeOK, ProbeOf, NoProbe
    <3>2. flight'[w] = << q >>
      <4>1. flight' = [flight EXCEPT ![w] = Append(flight[w], q)]
        BY <1>1
      <4>. HIDE DEF q
      <4>. QED
        BY <3>1, <4>1 DEF TtlInv, TtlTypeOK
    <3>. QED
      BY <2>2, <3>1, <3>2
  <2>. QED
    BY <2>1, <2>2
<1>. QED
  BY <1>6, <1>7, <1>8 DEF TtlInv, ProbeOK

LEMMA EditPrefixStep ==
  ASSUME TtlInv, NEW w \in TtlWorker, NEW r \in DOMAIN flight[w], EditPrefix(w, r)
  PROVE  TtlInv'
<1>. DEFINE q == [flight[w][r] EXCEPT !.edited = TRUE]
<1>1. flight[w] \in Seq(Request) /\ r \in 1..Len(flight[w]) /\ flight[w][r] \in Request
      /\ DOMAIN flight[w] = 1..Len(flight[w])
  BY LenProperties, ElementOfSeq DEF TtlInv, TtlTypeOK, Request
<1>2. q \in Request /\ q.gap = flight[w][r].gap
  BY <1>1, Zenon DEF Request
<1>3. /\ [flight[w] EXCEPT ![r] = q] \in Seq(Request)
      /\ Len([flight[w] EXCEPT ![r] = q]) = Len(flight[w])
      /\ \A j \in 1..Len(flight[w]) : [flight[w] EXCEPT ![r] = q][j] = IF j = r THEN q ELSE flight[w][j]
  <2>. HIDE DEF q
  <2>. QED
    BY <1>1, <1>2, ExceptSeq
<1>4. flight' = [flight EXCEPT ![w] = [flight[w] EXCEPT ![r] = q]]
  BY DEF EditPrefix, TtlInv, TtlTypeOK
<1>5. /\ probe' = [probe EXCEPT ![w].edited = @ \/ probe[w].gap # 0]
      /\ UNCHANGED <<stored, table, seen, said, planned, slips>>
  BY DEF EditPrefix
<1>6. /\ probe' \in [TtlWorker -> [gap : Gaps \cup {0}, edited : BOOLEAN]]
      /\ probe'[w].gap = probe[w].gap /\ (probe[w].gap # 0 => probe'[w].edited)
      /\ \A v \in TtlWorker : v # w => probe'[v] = probe[v]
  <2>1. (probe[w].edited \/ probe[w].gap # 0) \in BOOLEAN
    BY Zenon
  <2>. QED
    BY <1>5, <2>1 DEF TtlInv, TtlTypeOK
<1>. HIDE DEF q
<1>7. TtlTypeOK'
  BY <1>3, <1>4, <1>5, <1>6 DEF TtlInv, TtlTypeOK, Request
<1>8. SaidOK'
  BY <1>5 DEF TtlInv, SaidOK, Said, HeardOf
<1>9. ProbeOK'
  <2>1. flight'[w] = [flight[w] EXCEPT ![r] = q] /\ \A v \in TtlWorker : v # w => flight'[v] = flight[v]
    BY <1>4 DEF TtlInv, TtlTypeOK
  <2>2. Len(flight'[w]) = Len(flight[w]) /\ DOMAIN flight'[w] = 1..Len(flight[w])
    BY <1>3, <2>1, LenProperties
  <2>. QED
    BY <1>1, <1>2, <1>3, <1>6, <2>1, <2>2 DEF TtlInv, ProbeOK
<1>. QED
  BY <1>7, <1>8, <1>9 DEF TtlInv

LEMMA ProbeEndStep ==
  ASSUME TtlInv, NEW w \in TtlWorker, NEW r \in DOMAIN flight[w], End(w, r)
  PROVE  TtlInv'
<1>1. flight[w] \in Seq(Request) /\ r \in 1..Len(flight[w])
  BY LenProperties DEF TtlInv, TtlTypeOK, Request
<1>2. RemoveAt(flight[w], r) \in Seq(Request) /\ Len(RemoveAt(flight[w], r)) = Len(flight[w]) - 1
  BY <1>1, RemovedAt
<1>3. /\ flight' = [flight EXCEPT ![w] = RemoveAt(flight[w], r)]
      /\ UNCHANGED <<stored, table, seen, probe, said, planned, slips>>
  BY DEF End
<1>4. TtlTypeOK'
  BY <1>2, <1>3 DEF TtlInv, TtlTypeOK, Request
<1>5. SaidOK'
  BY <1>3 DEF TtlInv, SaidOK, Said, HeardOf
<1>6. ASSUME NEW v \in TtlWorker, probe[v].gap # 0
      PROVE  /\ Len(flight'[v]) <= 1
             /\ \A i \in DOMAIN flight'[v] : /\ flight'[v][i].gap = probe[v].gap
                                             /\ flight'[v][i].edited => probe[v].edited
  <2>1. CASE v # w
    BY <1>3, <1>6, <2>1 DEF TtlInv, TtlTypeOK, ProbeOK
  <2>2. CASE v = w
    <3>1. Len(flight[w]) \in Nat /\ Len(flight[w]) <= 1
      BY <1>1, <1>6, <2>2, LenProperties DEF TtlInv, ProbeOK
    <3>2. flight'[w] = RemoveAt(flight[w], r)
      BY <1>3 DEF TtlInv, TtlTypeOK
    <3>3. flight'[w] \in Seq(Request) /\ Len(flight'[w]) = 0 /\ DOMAIN flight'[w] = {}
      BY <1>1, <1>2, <3>1, <3>2, LenProperties
    <3>. QED
      BY <2>2, <3>3
  <2>. QED
    BY <2>1, <2>2
<1>. QED
  BY <1>3, <1>4, <1>5, <1>6 DEF TtlInv, ProbeOK

\* A note of the request that is heard: the probe has its gap, and an edit of its prefix is
\* known to the probe, so that the provider has said just this.
LEMMA NotedOK ==
  ASSUME TtlInv, NEW w \in TtlWorker, NEW r \in DOMAIN flight[w], NEW hit \in BOOLEAN,
         Observe(w, r, hit), probe[w].gap # 0, hit \/ ~probe[w].edited,
         NEW old \in Bounds, Said(old)
  PROVE  /\ Noted(old, probe[w].gap, hit) \in Bounds
         /\ HeardOf(Noted(old, probe[w].gap, hit), said')
<1>. DEFINE new == Noted(old, probe[w].gap, hit)
            gap == probe[w].gap
<1>1. gap \in Nat /\ flight[w][r].gap = gap /\ (flight[w][r].edited => probe[w].edited)
  BY TtlAssumption DEF TtlInv, TtlTypeOK, ProbeOK
<1>2. /\ old.lo \in Nat /\ old.hi \in Nat /\ old.hits \in Nat /\ said.hits \in Nat
      /\ old.hits <= said.hits /\ old.lo \in {0} \cup said.alive /\ old.hi \in {0} \cup said.gone
  BY DEF Bounds, TtlInv, TtlTypeOK, SaidOK, Said, HeardOf
<1>3. CASE hit
  <2>1. /\ new.lo = Max({old.lo, gap}) /\ new.hits = old.hits + 1 /\ new.hi = old.hi
        /\ new = [lo |-> Max({old.lo, gap}), hi |-> old.hi, hits |-> old.hits + 1]
    BY <1>3 DEF Noted, Bounds
  <2>2. said' = [said EXCEPT !.hits = @ + 1, !.alive = @ \cup {gap}]
    BY <1>1, <1>3 DEF Observe
  <2>3. said'.hits = said.hits + 1 /\ said'.alive = said.alive \cup {gap} /\ said'.gone = said.gone
    BY <2>2 DEF TtlInv, TtlTypeOK
  <2>. HIDE DEF new
  <2>4. Max({old.lo, gap}) \in {old.lo, gap}
    BY <1>1, <1>2, MaxOfTwo
  <2>. QED
    BY <1>1, <1>2, <2>1, <2>3, <2>4 DEF HeardOf, Bounds, new
<1>4. CASE ~hit
  <2>1. /\ new.hi = Least(old.hi, gap) /\ new.hits = old.hits /\ new.lo = old.lo
        /\ new = [lo |-> old.lo, hi |-> Least(old.hi, gap), hits |-> old.hits]
    BY <1>4 DEF Noted, Bounds
  <2>2. said' = [said EXCEPT !.gone = @ \cup {gap}]
    BY <1>1, <1>4 DEF Observe
  <2>3. said'.hits = said.hits /\ said'.alive = said.alive /\ said'.gone = said.gone \cup {gap}
    BY <2>2 DEF TtlInv, TtlTypeOK
  <2>4. Least(old.hi, gap) \in {old.hi, gap}
    BY <1>1, <1>2, LeastOfTwo
  <2>. HIDE DEF new
  <2>. QED
    BY <1>1, <1>2, <2>1, <2>3, <2>4 DEF HeardOf, Bounds, new
<1>. QED
  BY <1>3, <1>4

LEMMA ObserveStep ==
  ASSUME TtlInv, NEW w \in TtlWorker, NEW r \in DOMAIN flight[w], NEW hit \in BOOLEAN,
         Observe(w, r, hit)
  PROVE  TtlInv'
<1>. DEFINE q == [flight[w][r] EXCEPT !.heard = TRUE]
<1>1. \A t \in Copies(w) \cup {stored, Empty} : t \in Bounds /\ Said(t)
  BY CopiesOK
<1>2. /\ flight' = [flight EXCEPT ![w] = [flight[w] EXCEPT ![r] = q]]
      /\ probe' = [probe EXCEPT ![w] = NoProbe]
      /\ UNCHANGED <<seen, planned>>
  BY DEF Observe, TtlInv, TtlTypeOK
<1>3. flight[w] \in Seq(Request) /\ r \in 1..Len(flight[w]) /\ flight[w][r] \in Request
      /\ DOMAIN flight[w] = 1..Len(flight[w])
  <2>1. flight[w] \in Seq(Request)
    BY DEF TtlInv, TtlTypeOK, Request
  <2>. QED
    BY <2>1, LenProperties, ElementOfSeq
<1>4. q \in Request
  BY <1>3, Zenon DEF Request
<1>5. flight' \in [TtlWorker -> Seq(Request)]
  <2>. HIDE DEF q
  <2>1. [flight[w] EXCEPT ![r] = q] \in Seq(Request)
    BY <1>3, <1>4, ExceptSeq
  <2>. QED
    BY <1>2, <2>1 DEF TtlInv, TtlTypeOK, Request
<1>6. probe' \in [TtlWorker -> [gap : Gaps \cup {0}, edited : BOOLEAN]]
  <2>1. NoProbe \in [gap : Gaps \cup {0}, edited : BOOLEAN]
    BY Zenon DEF NoProbe
  <2>. QED
    BY <1>2, <2>1 DEF TtlInv, TtlTypeOK
<1>7. /\ said' \in [hits : Nat, alive : SUBSET Gaps, gone : SUBSET Gaps]
      /\ \A t \in Bounds : Said(t) => HeardOf(t, said')
  <2>1. flight[w][r].gap \in Gaps
    BY <1>3 DEF Request
  <2>2. /\ said \in [hits : Nat, alive : SUBSET Gaps, gone : SUBSET Gaps]
        /\ said.hits \in Nat /\ said.alive \subseteq Gaps /\ said.gone \subseteq Gaps
    BY DEF TtlInv, TtlTypeOK
  <2>3. CASE hit
    <3>1. said' = [said EXCEPT !.hits = @ + 1, !.alive = @ \cup {flight[w][r].gap}]
      BY <2>3 DEF Observe
    <3>2. said' = [hits |-> said.hits + 1, alive |-> said.alive \cup {flight[w][r].gap}, gone |-> said.gone]
      BY <2>2, <3>1
    <3>3. said.alive \cup {flight[w][r].gap} \in SUBSET Gaps
      BY <2>1, <2>2
    <3>4. said' \in [hits : Nat, alive : SUBSET Gaps, gone : SUBSET Gaps]
      BY <2>2, <3>2, <3>3
    <3>. QED
      BY <2>2, <3>2, <3>4 DEF Said, HeardOf, Bounds
  <2>4. CASE ~hit
    <3>1. said' \in {said, [said EXCEPT !.gone = @ \cup {flight[w][r].gap}]}
      BY <2>4 DEF Observe
    <3>2. said' \in {said, [hits |-> said.hits, alive |-> said.alive, gone |-> said.gone \cup {flight[w][r].gap}]}
      BY <2>2, <3>1
    <3>3. said.gone \cup {flight[w][r].gap} \in SUBSET Gaps
      BY <2>1, <2>2
    <3>4. said' \in [hits : Nat, alive : SUBSET Gaps, gone : SUBSET Gaps]
      BY <2>2, <3>2, <3>3
    <3>. QED
      BY <2>2, <3>2, <3>4 DEF Said, HeardOf, Bounds
  <2>. QED
    BY <2>3, <2>4
\* What is kept, in the file and in the worker's copy.
<1>8. \E kept \in Bounds, filed \in Bounds :
        /\ HeardOf(kept, said') /\ HeardOf(filed, said') /\ stored' = filed
        /\ table' = table \/ Keep(w, kept)
  <2>1. \A t \in Copies(w) \cup {stored, Empty} : t \in Bounds /\ HeardOf(t, said')
    BY <1>1, <1>7
  <2>2. CASE UNCHANGED <<stored, table>>
    BY <2>1, <2>2
  <2>3. ASSUME NEW old \in Copies(w), Keep(w, old), UNCHANGED stored
        PROVE  <1>8
    BY <2>1, <2>3
  <2>4. ASSUME NEW old \in Copies(w), probe[w].gap # 0, hit \/ ~probe[w].edited,
               Learn(w, Noted(old, probe[w].gap, hit))
        PROVE  <1>8
    <3>. DEFINE new == Noted(old, probe[w].gap, hit)
    <3>1. new \in Bounds /\ HeardOf(new, said')
      BY <1>1, <2>4, NotedOK
    <3>2. TtlWritten(w, new) \/ TtlWrittenBadly(w, new)
      BY <2>4 DEF Learn
    <3>. HIDE DEF new
    <3>. QED
      BY <2>1, <3>1, <3>2, WrittenOK
  <2>. QED
    BY <2>2, <2>3, <2>4 DEF Observe
<1>9. PICK kept \in Bounds, filed \in Bounds :
        /\ HeardOf(kept, said') /\ HeardOf(filed, said') /\ stored' = filed
        /\ table' = table \/ Keep(w, kept)
  BY <1>8
<1>14. slips' \in 0..MaxSlips
  BY TtlAssumption DEF Observe, Learn, Slip, TtlInv, TtlTypeOK
<1>10. /\ table' \in [TtlWorker -> [read : BOOLEAN, t : Bounds]]
       /\ \A v \in TtlWorker : table'[v].t \in {table[v].t, kept}
  BY <1>9, KeepOK DEF TtlInv, TtlTypeOK
<1>11. TtlTypeOK'
  BY <1>2, <1>5, <1>6, <1>7, <1>9, <1>10, <1>14 DEF TtlInv, TtlTypeOK, Request
<1>12. SaidOK'
  <2>1. \A v \in TtlWorker : table[v].t \in Bounds /\ HeardOf(table[v].t, said')
    BY <1>7 DEF TtlInv, TtlTypeOK, SaidOK
  <2>. QED
    BY <1>9, <1>10, <2>1 DEF SaidOK, Said
<1>13. ProbeOK'
  <2>1. probe'[w].gap = 0 /\ \A v \in TtlWorker : v # w => probe'[v] = probe[v] /\ flight'[v] = flight[v]
    BY <1>2 DEF TtlInv, TtlTypeOK, NoProbe
  <2>. QED
    BY <2>1 DEF TtlInv, ProbeOK
<1>. QED
  BY <1>11, <1>12, <1>13 DEF TtlInv

LEMMA OtherKeyStep ==
  ASSUME TtlInv, NEW w \in TtlWorker, OtherKey(w)
  PROVE  TtlInv'
<1>1. PICK t \in Copies(w) \cup {Empty} :
        /\ TtlWritten(w, t) \/ TtlWrittenBadly(w, t)
        /\ UNCHANGED <<seen, probe, flight, said, planned>>
  BY DEF OtherKey
<1>2. t \in Bounds /\ HeardOf(t, said) /\ HeardOf(stored, said)
  BY CopiesOK DEF Said
<1>3. PICK kept \in Bounds, filed \in Bounds :
        HeardOf(kept, said) /\ HeardOf(filed, said) /\ stored' = filed /\ Keep(w, kept)
  BY <1>1, <1>2, WrittenOK
<1>4. slips' \in 0..MaxSlips
  BY TtlAssumption DEF OtherKey, Slip, TtlInv, TtlTypeOK
<1>5. /\ table' \in [TtlWorker -> [read : BOOLEAN, t : Bounds]]
      /\ \A v \in TtlWorker : table'[v].t \in {table[v].t, kept}
  BY <1>3, KeepOK DEF TtlInv
<1>6. TtlTypeOK' /\ ProbeOK'
  BY <1>1, <1>3, <1>4, <1>5 DEF TtlInv, TtlTypeOK, ProbeOK
<1>7. SaidOK'
  BY <1>1, <1>3, <1>5 DEF TtlInv, SaidOK, Said
<1>. QED
  BY <1>6, <1>7 DEF TtlInv

LEMMA ReplaceStep ==
  ASSUME TtlInv, NEW w \in TtlWorker, Replace(w)
  PROVE  TtlInv'
<1>1. /\ table' = [table EXCEPT ![w] = NotRead] /\ seen' = seen \ {w}
      /\ probe' = [probe EXCEPT ![w] = NoProbe] /\ flight' = [flight EXCEPT ![w] = << >>]
      /\ UNCHANGED <<stored, said, planned>>
  BY DEF Replace
<1>2. NotRead \in [read : BOOLEAN, t : Bounds] /\ NoProbe \in [gap : Gaps \cup {0}, edited : BOOLEAN]
  BY Zenon DEF NotRead, NoProbe, Empty, Bounds
<1>3. << >> \in Seq(Request)
  BY EmptySeq
<1>4. slips' \in 0..MaxSlips
  BY TtlAssumption DEF Replace, Slip, TtlInv, TtlTypeOK
<1>5. TtlTypeOK'
  BY <1>1, <1>2, <1>3, <1>4 DEF TtlInv, TtlTypeOK, Request
<1>6. SaidOK'
  <2>1. Said(NotRead.t)
    BY DEF TtlInv, TtlTypeOK, Said, HeardOf, NotRead, Empty
  <2>2. \A v \in TtlWorker : table'[v] \in {table[v], NotRead}
    BY <1>1 DEF TtlInv, TtlTypeOK
  <2>. QED
    BY <1>1, <2>1, <2>2 DEF TtlInv, SaidOK, Said
<1>7. ProbeOK'
  <2>1. probe'[w].gap = 0 /\ \A v \in TtlWorker : v # w => probe'[v] = probe[v] /\ flight'[v] = flight[v]
    BY <1>1 DEF TtlInv, TtlTypeOK, NoProbe
  <2>. QED
    BY <2>1 DEF TtlInv, ProbeOK
<1>. QED
  BY <1>5, <1>6, <1>7 DEF TtlInv

LEMMA TtlNextInv == TtlInv /\ [TtlNext]_ttlVars => TtlInv'
<1>. SUFFICES ASSUME TtlInv, [TtlNext]_ttlVars PROVE TtlInv'
  OBVIOUS
<1>1. ASSUME NEW w \in TtlWorker, Plan(w) PROVE TtlInv'
  BY <1>1, PlanStep
<1>2. ASSUME NEW w \in TtlWorker, Replace(w) PROVE TtlInv'
  BY <1>2, ReplaceStep
<1>3. ASSUME NEW w \in TtlWorker, NEW r \in DOMAIN flight[w], EditPrefix(w, r) PROVE TtlInv'
  BY <1>3, EditPrefixStep
<1>4. ASSUME NEW w \in TtlWorker, NEW r \in DOMAIN flight[w], End(w, r) PROVE TtlInv'
  BY <1>4, ProbeEndStep
<1>5. ASSUME NEW w \in TtlWorker, NEW r \in DOMAIN flight[w], NEW hit \in BOOLEAN, Observe(w, r, hit)
      PROVE  TtlInv'
  BY <1>5, ObserveStep
<1>6. ASSUME NEW w \in TtlWorker, OtherKey(w) PROVE TtlInv'
  BY <1>6, OtherKeyStep
<1>7. CASE UNCHANGED ttlVars
  BY <1>7 DEF ttlVars, TtlInv, TtlTypeOK, ProbeOK, SaidOK, Said
<1>. QED
  BY <1>1, <1>2, <1>3, <1>4, <1>5, <1>6, <1>7 DEF TtlNext

THEOREM TtlInvariant == TtlSpec => []TtlInv
<1>1. TtlInit => TtlInv
  BY TtlInitInv
<1>2. TtlInv /\ [TtlNext]_ttlVars => TtlInv'
  BY TtlNextInv
<1>. QED
  BY <1>1, <1>2, PTL DEF TtlSpec

\* LearnedFromUsage: every bound on file or in a worker's memory was said by the provider
\* about a request that waited that long, however requests overlap and workers merge.
THEOREM LearntFromUsage == TtlSpec => []LearnedFromUsage
<1>1. TtlInv => LearnedFromUsage
  BY DEF TtlInv, SaidOK, Said, HeardOf, LearnedFromUsage
<1>. QED
  BY <1>1, TtlInvariant, PTL

-----------------------------------------------------------------------------
(* Restore: what a stub is expanded to.                                    *)

\* A stub stands for t, a thread is about to write it, or it is in the file.
Carried(t) ==
  \/ t \in stubs
  \/ \E w \in Recorder : job[w].pc \in {"rewrite", "write"} /\ job[w].t = t
  \/ blob.is = t

\* Until the file is lost, one text has the handle: the one whose writer created the file.
OneText ==
  ~gone =>
    /\ ~blob.old /\ blob.is # "unreadable"
    /\ blob.is = "absent" => stubs = {} /\ \A w \in Recorder : job[w].pc \in {"idle", "open"}
    /\ \A x, y \in Text : Carried(x) /\ Carried(y) => x = y

\* Nobody can get a stub any more that an answer was wrong for: only the text it gave has the
\* handle, unless it was asked for.  The store answers with what distil_compress was given.
AnswerOK ==
  /\ store = "absent" \/ store \in told
  /\ ~gone /\ told \subseteq {answer.asked} /\ answer.got \in Text =>
       \/ answer.got = answer.asked
       \/ blob.is # "absent" /\ \A x \in Text : Carried(x) => x = answer.got

\* The inductive invariant.  NeverAnother alone does not say what the next answer will be.
RestoreInv == RestoreTypeOK /\ OneText /\ AnswerOK

LEMMA AnswerStays ==
  ASSUME AnswerOK, UNCHANGED <<store, told, answer>>, gone => gone',
         ~gone /\ blob.is # "absent" =>
           blob'.is # "absent" /\ \A x \in Text : Carried(x)' => Carried(x)
  PROVE  AnswerOK'
BY DEF AnswerOK

Jobs == {Idler} \cup [pc : {"open", "compare", "rewrite"}, t : Text]
                \cup [pc : {"write"}, t : Text, ino : Nat]

LEMMA JobShape ==
  ASSUME RestoreTypeOK, NEW w \in Recorder
  PROVE  /\ job[w].pc \in {"idle", "open", "compare", "rewrite", "write"}
         /\ job[w].pc \in {"open", "compare", "rewrite"} =>
              job[w] = [pc |-> job[w].pc, t |-> job[w].t] /\ job[w].t \in Text
         /\ job[w].pc = "write" => job[w].t \in Text /\ job[w].ino \in Nat
BY DEF RestoreTypeOK, Idler

\* A thread goes on to its next step.
LEMMA JobMoves ==
  ASSUME RestoreTypeOK, NEW w \in Recorder, job[w].pc \in {"open", "compare"},
         NEW p \in {"compare", "rewrite"}, job' = [job EXCEPT ![w].pc = p]
  PROVE  /\ job' \in [Recorder -> Jobs]
         /\ job'[w].pc = p /\ job'[w].t = job[w].t /\ job[w].t \in Text
         /\ \A v \in Recorder : v # w => job'[v] = job[v]
<1>1. PICK x \in Text, o \in {"open", "compare"} : job[w] = [pc |-> o, t |-> x]
  BY JobShape
<1>2. [job[w] EXCEPT !.pc = p] = [pc |-> p, t |-> x]
  BY <1>1
<1>3. [pc |-> p, t |-> x] \in Jobs
  BY DEF Jobs
<1>4. job' = [job EXCEPT ![w] = [pc |-> p, t |-> x]]
  BY <1>2
<1>. QED
  BY <1>1, <1>3, <1>4 DEF RestoreTypeOK, Jobs

LEMMA RestoreInitInv == RestoreInit => RestoreInv
<1>. SUFFICES ASSUME RestoreInit PROVE RestoreInv
  OBVIOUS
<1>1. blob = [ino |-> 0, is |-> "absent", old |-> FALSE] /\ gone = FALSE /\ stubs = {} /\ upsets = 0
      /\ store = "absent" /\ loose = {} /\ told = {}
      /\ job = [w \in Recorder |-> Idler] /\ answer = [asked |-> "none", got |-> "miss"]
  BY DEF RestoreInit, File
<1>2. blob \in [ino : Nat, is : Text \cup {"absent", "empty", "unreadable"}, old : BOOLEAN]
      /\ gone \in BOOLEAN /\ answer \in [asked : Text \cup {"none"}, got : Text \cup {"miss", "empty"}]
  <2>1. 0 \in Nat
    OBVIOUS
  <2>. QED
    BY <1>1, <2>1, Zenon
<1>3. RestoreTypeOK
  BY <1>1, <1>2, RestoreAssumption DEF RestoreTypeOK
<1>4. \A x \in Text : ~Carried(x)
  BY <1>1, RestoreAssumption DEF Carried, Idler
<1>. QED
  BY <1>1, <1>3, <1>4, RestoreAssumption DEF RestoreInv, OneText, AnswerOK, Idler

\* A new file is nobody's yet, and whoever finds one compares.
LEMMA CreateStep ==
  ASSUME RestoreInv, NEW w \in Recorder, (\E t \in Text : StartRecord(w, t)) \/ Create(w)
  PROVE  RestoreInv'
<1>1. CASE \E t \in Text : StartRecord(w, t)
  <2>1. PICK t \in Text : /\ job[w].pc = "idle" /\ job' = [job EXCEPT ![w] = [pc |-> "open", t |-> t]]
                          /\ UNCHANGED <<blob, store, stubs, loose, told, answer, gone, upsets>>
    BY <1>1 DEF StartRecord, stands
  <2>2. RestoreTypeOK'
    BY <2>1 DEF RestoreInv, RestoreTypeOK
  <2>3. OneText' /\ \A x \in Text : Carried(x)' => Carried(x)
    BY <2>1, JobShape DEF RestoreInv, RestoreTypeOK, OneText, Carried
  <2>. QED
    BY <2>1, <2>2, <2>3, AnswerStays DEF RestoreInv
<1>2. CASE Create(w) /\ blob.is = "absent"
  <2>1. /\ blob' = [ino |-> blob.ino + 1, is |-> "empty", old |-> FALSE]
        /\ job' = [job EXCEPT ![w] = [pc |-> "write", t |-> job[w].t, ino |-> blob.ino + 1]]
        /\ job[w].pc = "open" /\ UNCHANGED <<store, stubs, loose, told, answer, gone, upsets>>
    BY <1>2 DEF Create, File, stands
  <2>2. job[w].t \in Text /\ blob.ino + 1 \in Nat
    BY <2>1, JobShape DEF RestoreInv, RestoreTypeOK
  <2>3. blob' \in [ino : Nat, is : Text \cup {"absent", "empty", "unreadable"}, old : BOOLEAN]
    BY <2>1, <2>2, Zenon
  <2>4. RestoreTypeOK'
    BY <2>1, <2>2, <2>3 DEF RestoreInv, RestoreTypeOK
  <2>5. ASSUME ~gone PROVE \A x \in Text : Carried(x)' => x = job[w].t
    <3>1. stubs = {} /\ \A v \in Recorder : job[v].pc \in {"idle", "open"}
      BY <1>2, <2>5 DEF RestoreInv, OneText
    <3>2. \A v \in Recorder : job'[v].pc \in {"rewrite", "write"} => job'[v].t = job[w].t
      BY <2>1, <3>1 DEF RestoreInv, RestoreTypeOK
    <3>. QED
      BY <2>1, <3>1, <3>2, RestoreAssumption DEF Carried
  <2>6. OneText'
    BY <2>1, <2>5 DEF OneText
  <2>. QED
    BY <1>2, <2>1, <2>4, <2>6, AnswerStays DEF RestoreInv
<1>3. CASE Create(w) /\ blob.is # "absent"
  <2>1. /\ job' = [job EXCEPT ![w].pc = "compare"] /\ job[w].pc = "open"
        /\ UNCHANGED <<blob, store, stubs, loose, told, answer, gone, upsets>>
    BY <1>3 DEF Create, stands
  <2>2. /\ job' \in [Recorder -> Jobs] /\ job'[w].pc = "compare"
        /\ \A v \in Recorder : v # w => job'[v] = job[v]
    BY <2>1, JobMoves DEF RestoreInv
  <2>3. RestoreTypeOK'
    BY <2>1, <2>2 DEF RestoreInv, RestoreTypeOK, Jobs
  <2>4. OneText' /\ \A x \in Text : Carried(x)' => Carried(x)
    BY <1>3, <2>1, <2>2 DEF RestoreInv, RestoreTypeOK, OneText, Carried
  <2>. QED
    BY <2>1, <2>3, <2>4, AnswerStays DEF RestoreInv
<1>. QED
  BY <1>1, <1>2, <1>3

LEMMA BlobShape ==
  ASSUME RestoreTypeOK
  PROVE  /\ Unlinked \in [ino : Nat, is : Text \cup {"absent", "empty", "unreadable"}, old : BOOLEAN]
         /\ \A n \in Nat, x \in Text \cup {"absent", "empty"} :
              File(n, x) \in [ino : Nat, is : Text \cup {"absent", "empty", "unreadable"}, old : BOOLEAN]
         /\ blob.ino \in Nat /\ blob.is \in Text \cup {"absent", "empty", "unreadable"}
<1>1. blob \in [ino : Nat, is : Text \cup {"absent", "empty", "unreadable"}, old : BOOLEAN]
  BY DEF RestoreTypeOK
<1>2. FALSE \in BOOLEAN
  BY Zenon
<1>3. Unlinked \in [ino : Nat, is : Text \cup {"absent", "empty", "unreadable"}, old : BOOLEAN]
  <2>1. PICK f \in BOOLEAN : Unlinked = [blob EXCEPT !.is = "absent", !.old = f]
    BY <1>2, Zenon DEF Unlinked
  <2>. QED
    BY <1>1, <2>1
<1>. QED
  BY <1>1, <1>2, <1>3, Zenon DEF File

\* The text that a thread compares with is written again only where it is the file's.
LEMMA CompareStep ==
  ASSUME RestoreInv, NEW w \in Recorder, Compare(w)
  PROVE  RestoreInv'
<1>1. /\ job[w].pc = "compare" /\ UNCHANGED <<store, stubs, loose, told, answer, gone, upsets>>
      /\ blob' = IF blob.old THEN Unlinked ELSE blob
      /\ job[w].t \in Text
  BY JobShape DEF Compare, RestoreInv, stands
<1>2. CASE Read \in {"miss", job[w].t}
  <2>1. job' = [job EXCEPT ![w].pc = "rewrite"]
    BY <1>2 DEF Compare
  <2>2. /\ job' \in [Recorder -> Jobs] /\ job'[w].pc = "rewrite" /\ job'[w].t = job[w].t
        /\ \A v \in Recorder : v # w => job'[v] = job[v]
    BY <1>1, <2>1, JobMoves DEF RestoreInv
  <2>3. RestoreTypeOK'
    BY <1>1, <2>2, BlobShape DEF RestoreInv, RestoreTypeOK, Jobs
  <2>4. ASSUME ~gone PROVE blob' = blob /\ blob.is = job[w].t
    <3>1. ~blob.old /\ blob.is \notin {"absent", "unreadable"} /\ blob.is # "miss"
      BY <1>1, <2>4, BlobShape, RestoreAssumption DEF RestoreInv, OneText
    <3>. QED
      BY <1>1, <1>2, <3>1 DEF Read
  <2>5. ASSUME ~gone, NEW x \in Text, Carried(x)' PROVE Carried(x)
    BY <1>1, <2>2, <2>4, <2>5 DEF Carried
  <2>6. OneText'
    BY <1>1, <2>2, <2>4, <2>5, RestoreAssumption DEF RestoreInv, OneText
  <2>. QED
    BY <1>1, <2>3, <2>4, <2>5, <2>6, AnswerStays DEF RestoreInv
<1>3. CASE Read \notin {"miss", job[w].t}
  <2>1. job' = [job EXCEPT ![w] = Idler]
    BY <1>3 DEF Compare
  <2>2. RestoreTypeOK'
    BY <1>1, <2>1, BlobShape DEF RestoreInv, RestoreTypeOK
  <2>3. ASSUME ~gone PROVE blob' = blob
    BY <1>1, <2>3 DEF RestoreInv, OneText
  <2>4. OneText' /\ (~gone => \A x \in Text : Carried(x)' => Carried(x))
    BY <1>1, <2>1, <2>3 DEF RestoreInv, RestoreTypeOK, OneText, Carried, Idler
  <2>. QED
    BY <1>1, <2>2, <2>3, <2>4, AnswerStays DEF RestoreInv
<1>. QED
  BY <1>2, <1>3

\* A write of a text that the handle has already; its stub stands for it.
LEMMA WriteStep ==
  ASSUME RestoreInv, NEW w \in Recorder, Truncate(w) \/ WriteText(w) \/ WriteFails(w) \/ RecorderDies(w) \/ OpenFails(w)
  PROVE  RestoreInv'
<1>1. CASE Truncate(w)
  <2>. DEFINE n == IF blob.is = "absent" THEN blob.ino + 1 ELSE blob.ino
  <2>1. /\ job[w].pc = "rewrite" /\ blob' = File(n, "empty") /\ blob'.is = "empty" /\ ~blob'.old
        /\ job' = [job EXCEPT ![w] = [pc |-> "write", t |-> job[w].t, ino |-> n]]
        /\ UNCHANGED <<store, stubs, loose, told, answer, gone, upsets>>
    BY <1>1 DEF Truncate, File, stands
  <2>2. job[w].t \in Text /\ n \in Nat
    <3>1. RestoreTypeOK /\ job[w].pc = "rewrite" /\ blob.ino \in Nat
      BY <2>1, BlobShape DEF RestoreInv
    <3>2. job[w].t \in Text
      BY <3>1, JobShape
    <3>3. n \in Nat
      BY <3>1
    <3>. QED
      BY <3>2, <3>3
  <2>3. RestoreTypeOK'
    BY <2>1, <2>2, BlobShape DEF RestoreInv, RestoreTypeOK
  <2>4. ASSUME NEW x \in Text, Carried(x)' PROVE Carried(x)
    BY <2>1, <2>4, RestoreAssumption DEF RestoreInv, RestoreTypeOK, Carried
  <2>5. OneText'
    BY <2>1, <2>4 DEF RestoreInv, OneText
  <2>. QED
    BY <2>1, <2>3, <2>4, <2>5, AnswerStays DEF RestoreInv
<1>2. CASE WriteText(w) \/ WriteFails(w)
  <2>1. /\ job[w].pc = "write" /\ job[w].t \in Text
        /\ job' = [job EXCEPT ![w] = Idler] /\ stubs' = stubs \cup {job[w].t}
        /\ UNCHANGED <<store, loose, told, answer, gone>>
        /\ blob' = blob \/ (blob' = File(blob.ino, job[w].t) /\ blob.is # "absent")
    BY <1>2, JobShape DEF WriteText, WriteFails, RestoreInv
  <2>2. upsets' \in 0..MaxUpsets
    BY <1>2, RestoreAssumption DEF WriteText, WriteFails, Upset, RestoreInv, RestoreTypeOK
  <2>3. RestoreTypeOK'
    BY <2>1, <2>2, BlobShape DEF RestoreInv, RestoreTypeOK
  <2>4. Carried(job[w].t) /\ \A x \in Text : Carried(x)' => Carried(x)
    BY <2>1 DEF RestoreInv, RestoreTypeOK, Carried, Idler, File
  <2>5. ASSUME ~gone PROVE blob'.is # "absent" /\ ~blob'.old /\ blob'.is # "unreadable"
    BY <2>1, <2>5, RestoreAssumption DEF RestoreInv, OneText, File
  <2>6. OneText'
    BY <2>1, <2>4, <2>5 DEF RestoreInv, OneText
  <2>7. ~gone => blob'.is # "absent"
    BY <2>5
  <2>. QED
    BY <2>1, <2>3, <2>4, <2>6, <2>7, AnswerStays DEF RestoreInv
<1>3. CASE RecorderDies(w) \/ OpenFails(w)
  <2>1. /\ job' = [job EXCEPT ![w] = Idler] /\ UNCHANGED <<blob, store, stubs, told, answer, gone>>
        /\ loose' \subseteq Text
    BY <1>3, JobShape DEF RecorderDies, OpenFails, stands, RestoreInv, RestoreTypeOK
  <2>2. upsets' \in 0..MaxUpsets
    BY <1>3, RestoreAssumption DEF RecorderDies, OpenFails, Upset, RestoreInv, RestoreTypeOK
  <2>3. RestoreTypeOK'
    BY <2>1, <2>2 DEF RestoreInv, RestoreTypeOK
  <2>4. OneText' /\ \A x \in Text : Carried(x)' => Carried(x)
    BY <2>1 DEF RestoreInv, RestoreTypeOK, OneText, Carried, Idler
  <2>. QED
    BY <2>1, <2>3, <2>4, AnswerStays DEF RestoreInv
<1>. QED
  BY <1>1, <1>2, <1>3

\* After these the handle is anybody's.
LEMMA LostStep ==
  ASSUME RestoreInv, SweepOut \/ Expire \/ Spoil \/ \E w \in Recorder : CompareBlind(w)
  PROVE  RestoreInv'
<1>1. gone' = TRUE /\ UNCHANGED <<store, stubs, loose, told, answer>>
  BY DEF SweepOut, Expire, Spoil, CompareBlind, stands
<1>2. upsets' \in 0..MaxUpsets
  BY RestoreAssumption DEF SweepOut, Expire, Spoil, CompareBlind, Upset, RestoreInv, RestoreTypeOK
<1>3. blob' \in [ino : Nat, is : Text \cup {"absent", "empty", "unreadable"}, old : BOOLEAN]
  <2>1. blob' \in {blob, Unlinked, [blob EXCEPT !.old = TRUE], [blob EXCEPT !.is = "unreadable"]}
    BY DEF SweepOut, Expire, Spoil, CompareBlind
  <2>2. TRUE \in BOOLEAN
    BY Zenon
  <2>. QED
    BY <2>1, <2>2, BlobShape DEF RestoreInv, RestoreTypeOK
<1>4. gone' \in BOOLEAN
  BY <1>1, Zenon
<1>5. job' \in [Recorder -> Jobs]
  <2>1. CASE job' = job
    BY <2>1 DEF RestoreInv, RestoreTypeOK, Jobs
  <2>2. ASSUME NEW w \in Recorder, CompareBlind(w) PROVE job' \in [Recorder -> Jobs]
    BY <2>2, JobMoves DEF RestoreInv, CompareBlind
  <2>. QED
    BY <2>1, <2>2 DEF SweepOut, Expire, Spoil
<1>. QED
  BY <1>1, <1>2, <1>3, <1>4, <1>5 DEF RestoreInv, RestoreTypeOK, OneText, AnswerOK, Jobs

\* Whoever compresses another text takes the handle in mcp_store.json.
LEMMA StoreStep ==
  ASSUME RestoreInv, NEW t \in Text, StoreAdd(t)
  PROVE  RestoreInv'
<1>1. /\ told' = told \cup {t} /\ store' \in {t, store}
      /\ UNCHANGED <<blob, job, stubs, loose, answer, gone>>
  BY DEF StoreAdd
<1>2. upsets' \in 0..MaxUpsets
  BY RestoreAssumption DEF StoreAdd, Upset, RestoreInv, RestoreTypeOK
<1>3. RestoreTypeOK'
  BY <1>1, <1>2 DEF RestoreInv, RestoreTypeOK
<1>4. OneText' /\ AnswerOK'
  BY <1>1 DEF RestoreInv, OneText, AnswerOK, Carried
<1>. QED
  BY <1>3, <1>4 DEF RestoreInv

\* A stub is expanded to what the store was given, or to what is in the file: its own text, if
\* the file was never lost.
LEMMA ExpandStep ==
  ASSUME RestoreInv, NEW t \in Text, Expand(t)
  PROVE  RestoreInv'
<1>1. /\ \/ store # "absent" /\ answer' = [asked |-> t, got |-> store] /\ blob' = blob
         \/ /\ answer' = [asked |-> t, got |-> Read]
            /\ blob' = IF blob.old THEN Unlinked ELSE blob
      /\ UNCHANGED <<store, job, stubs, loose, told, gone, upsets>>
  BY DEF Expand, stands
<1>2. Read \in Text \cup {"miss", "empty"} /\ (store # "absent" => store \in Text)
  BY BlobShape DEF Read, RestoreInv, RestoreTypeOK
<1>3. RestoreTypeOK'
  BY <1>1, <1>2, BlobShape DEF RestoreInv, RestoreTypeOK
<1>4. ASSUME ~gone PROVE blob' = blob
  BY <1>1, <1>4 DEF RestoreInv, OneText
<1>5. OneText'
  BY <1>1, <1>4 DEF RestoreInv, OneText, Carried
<1>6. CASE store # "absent" /\ answer' = [asked |-> t, got |-> store]
  <2>1. answer'.asked = t /\ answer'.got = store /\ store \in told
    BY <1>6 DEF RestoreInv, AnswerOK
  <2>2. told' \subseteq {answer'.asked} => answer'.got = answer'.asked
    BY <1>1, <2>1
  <2>. QED
    BY <1>1, <1>3, <1>5, <2>1, <2>2 DEF RestoreInv, AnswerOK
<1>7. CASE answer' = [asked |-> t, got |-> Read]
  <2>1. ASSUME ~gone, Read \in Text
        PROVE  blob.is # "absent" /\ \A x \in Text : Carried(x)' => x = Read
    <3>1. blob.is = Read /\ Carried(Read)
      BY <2>1, RestoreAssumption DEF RestoreInv, OneText, Read, Carried
    <3>2. \A x \in Text : Carried(x)' => Carried(x)
      BY <1>1, <1>4, <2>1 DEF Carried
    <3>. QED
      BY <2>1, <3>1, <3>2, RestoreAssumption DEF RestoreInv, OneText
  <2>2. answer'.asked = t /\ answer'.got = Read
    BY <1>7
  <2>3. ~gone' /\ answer'.got \in Text =>
           blob'.is # "absent" /\ \A x \in Text : Carried(x)' => x = answer'.got
    BY <1>1, <1>4, <2>1, <2>2
  <2>4. store' = "absent" \/ store' \in told'
    BY <1>1 DEF RestoreInv, AnswerOK
  <2>. QED
    BY <1>3, <1>5, <2>3, <2>4 DEF RestoreInv, AnswerOK
<1>. QED
  BY <1>1, <1>6, <1>7

LEMMA RestoreNextInv == RestoreInv /\ [RestoreNext]_restoreVars => RestoreInv'
<1>. SUFFICES ASSUME RestoreInv, [RestoreNext]_restoreVars PROVE RestoreInv'
  OBVIOUS
<1>1. ASSUME NEW w \in Recorder, (\E t \in Text : StartRecord(w, t)) \/ Create(w) PROVE RestoreInv'
  BY <1>1, CreateStep
<1>2. ASSUME NEW w \in Recorder, Compare(w) PROVE RestoreInv'
  BY <1>2, CompareStep
<1>3. ASSUME NEW w \in Recorder, Truncate(w) \/ WriteText(w) \/ WriteFails(w)
               \/ RecorderDies(w) \/ OpenFails(w)
      PROVE  RestoreInv'
  BY <1>3, WriteStep
<1>4. CASE SweepOut \/ Expire \/ Spoil \/ \E w \in Recorder : CompareBlind(w)
  BY <1>4, LostStep
<1>5. ASSUME NEW t \in Text, Expand(t) PROVE RestoreInv'
  BY <1>5, ExpandStep
<1>6. ASSUME NEW t \in Text, StoreAdd(t) PROVE RestoreInv'
  BY <1>6, StoreStep
<1>7. CASE UNCHANGED restoreVars
  BY <1>7 DEF restoreVars, stands, RestoreInv, RestoreTypeOK, OneText, Carried, AnswerOK
<1>. QED
  BY <1>1, <1>2, <1>3, <1>4, <1>5, <1>6, <1>7 DEF RestoreNext

THEOREM RestoreInvariant == RestoreSpec => []RestoreInv
<1>1. RestoreInit => RestoreInv
  BY RestoreInitInv
<1>2. RestoreInv /\ [RestoreNext]_restoreVars => RestoreInv'
  BY RestoreNextInv
<1>. QED
  BY <1>1, <1>2, PTL DEF RestoreSpec

\* NeverAnother: until the file is swept, expired or not readable, no stub that was recorded
\* with its file open is expanded to the text of another one, for any number of colliding texts
\* and of threads that record them or fail to, unless distil_compress was given another text.
THEOREM NeverAnotherText == RestoreSpec => []NeverAnother
<1>1. RestoreInv => NeverAnother
  <2>. SUFFICES ASSUME RestoreInv, ~gone, told \subseteq {answer.asked}, answer.asked \in stubs
                PROVE  answer.got \in {answer.asked, "miss", "empty"}
    BY DEF NeverAnother
  <2>1. answer.asked \in Text /\ answer.got \in Text \cup {"miss", "empty"} /\ Carried(answer.asked)
    BY DEF RestoreInv, RestoreTypeOK, Carried
  <2>. QED
    BY <2>1 DEF RestoreInv, AnswerOK
<1>. QED
  BY <1>1, RestoreInvariant, PTL

-----------------------------------------------------------------------------
(* Receipts: the chain as it is on disk, and what a pass makes of it.      *)

\* The least and the greatest of numbers, where the code goes forward or backward over lines.
Below == OpToRel(<, Nat)

LEMMA LeastNumber ==
  ASSUME NEW T, T \subseteq Nat, T # {}
  PROVE  \E x \in T : \A y \in T : x <= y
<1>1. IsWellFoundedOn(Below, Nat)
  BY NatLessThanWellFounded, Zenon DEF Below
<1>2. PICK x \in T : \A y \in T : ~(<<y, x>> \in Below)
  BY <1>1, WFMin
<1>3. \A a, b \in Nat : <<b, a>> \in Below <=> b < a
  BY DEF OpToRel, Below
<1>4. \A y \in T : ~(y < x)
  BY <1>2, <1>3, Zenon
<1>. QED
  BY <1>4

LEMMA GreatestNumber ==
  ASSUME NEW T, T \subseteq Nat, T # {}, NEW n \in Nat, \A x \in T : x <= n
  PROVE  Max(T) \in T /\ \A y \in T : y <= Max(T)
<1>. DEFINE Rest == {n - x : x \in T}
<1>1. Rest \subseteq Nat /\ Rest # {}
  OBVIOUS
<1>2. PICK r \in Rest : \A y \in Rest : r <= y
  BY <1>1, LeastNumber
<1>3. PICK x \in T : r = n - x
  BY <1>2
<1>4. \A y \in T : y <= x
  BY <1>2, <1>3
<1>5. x \in T /\ \A y \in T : x >= y
  BY <1>4
<1>. QED
  BY <1>5 DEF Max

LEMMA IsGreatest ==
  ASSUME NEW T, T \subseteq Nat, NEW m \in T, \A y \in T : y <= m
  PROVE  Max(T) = m
<1>1. m \in T /\ \A y \in T : m >= y
  OBVIOUS
<1>2. Max(T) \in T /\ Max(T) >= m
  BY <1>1 DEF Max
<1>3. Max(T) <= m /\ Max(T) \in Nat /\ m \in Nat
  BY <1>2
<1>. QED
  BY <1>2, <1>3

-----------------------------------------------------------------------------
\* The history in order: the segments, then the active file.
History == Append(segs, act)
Files == Seq(Seq(Line))

Placed(h) == UNION {{f} \X DOMAIN h[f] : f \in DOMAIN h}
At(h, e) == h[e[1]][e[2]]

\* No two receipts have one hash.
HashOnce(h, n) ==
  /\ \A e \in Placed(h) : At(h, e).id <= n
  /\ \A d, e \in Placed(h) : At(h, d).id = At(h, e).id /\ At(h, d).id # Genesis => d = e

\* Only what was damaged does not match its hash, and it is a whole line that can be read.
Intact(h, b) ==
  \A e \in Placed(h) : ~At(h, e).ok => b /\ At(h, e).nl /\ e[2] \in Rows(h[e[1]], 0)

\* What the receipt in line i of file f links to.
PrevId(h, f, i) ==
  LET up == {j \in Rows(h[f], 0) : j < i}
  IN IF up # {} THEN h[f][Max(up)].id ELSE IF f = 1 THEN Genesis ELSE LastId(h[f - 1])

Chained(h) == \A f \in DOMAIN h : \A i \in Rows(h[f], 0) : h[f][i].prev = PrevId(h, f, i)

\* Every file but the last one holds a receipt.
NoneEmpty(h) == \A f \in 1..(Len(h) - 1) : Rows(h[f], 0) # {}

\* An append that came back without an error is in the history.
Filed(h, ids) == \A id \in ids : \E e \in Placed(h) : At(h, e).id = id

\* A resume point is the place of the receipt it names, and counts the lines up to it; or a
\* seal has moved the file it was read from, and the file of its number is another one.
Upto(h, r) == {e \in Placed(h) : ~Before(<<r.file, r.pos>>, e)}
Sound(h, r) ==
  /\ r.file \in DOMAIN h /\ r.pos \in DOMAIN h[r.file]
  /\ r.head # Genesis /\ h[r.file][r.pos].id = r.head
  /\ r.skipped = 0 => Cardinality(Upto(h, r)) <= r.count
Stale(h, r) ==
  /\ r.file < Len(h) /\ r.pos >= 1
  /\ \A i \in DOMAIN h[r.file] : h[r.file][i].id # r.head

-----------------------------------------------------------------------------
(* Lines, places and files.                                                *)

LEMMA LinesOf ==
  ASSUME NEW file \in Seq(Line)
  PROVE  /\ Len(file) \in Nat /\ DOMAIN file = 1..Len(file)
         /\ \A i \in 1..Len(file) : file[i] \in Line /\ file[i].id \in Nat
                                     /\ file[i].nl \in BOOLEAN /\ file[i].ok \in BOOLEAN
         /\ \A pos \in Nat : /\ Rows(file, pos) \subseteq Begins(file, pos)
                             /\ Begins(file, pos) \subseteq (pos + 1)..Len(file)
                             /\ Rows(file, pos) \subseteq Nat /\ Others(file, pos) \subseteq Nat
                             /\ Begins(file, pos) = Rows(file, pos) \cup Others(file, pos)
<1>1. Len(file) \in Nat /\ DOMAIN file = 1..Len(file)
  BY LenProperties
<1>2. \A i \in 1..Len(file) : file[i] \in Line
  BY ElementOfSeq
<1>3. \A i \in 1..Len(file) : file[i].id \in Nat /\ file[i].nl \in BOOLEAN /\ file[i].ok \in BOOLEAN
  BY <1>2 DEF Line
<1>4. \A pos \in Nat : Rows(file, pos) \subseteq Begins(file, pos) /\ Begins(file, pos) \subseteq (pos + 1)..Len(file)
  BY DEF Rows, Begins
<1>5. \A pos \in Nat : (pos + 1)..Len(file) \subseteq Nat
  BY <1>1
<1>. QED
  BY <1>1, <1>2, <1>3, <1>4, <1>5 DEF Others

\* The last receipt of a file that has one.
LEMMA LastRow ==
  ASSUME NEW file \in Seq(Line), Rows(file, 0) # {}
  PROVE  /\ Max(Rows(file, 0)) \in Rows(file, 0) /\ \A i \in Rows(file, 0) : i <= Max(Rows(file, 0))
         /\ LastId(file) = file[Max(Rows(file, 0))].id
<1>1. Rows(file, 0) \subseteq Nat /\ \A i \in Rows(file, 0) : i <= Len(file)
  BY LinesOf
<1>2. Len(file) \in Nat
  BY LinesOf
<1>. QED
  BY <1>1, <1>2, GreatestNumber DEF LastId

\* Up to the first line that is no receipt, every entry is one.
LEMMA WholeLines ==
  ASSUME NEW file \in Seq(Line), NEW pos \in Nat, NEW k \in Nat, k <= Len(file),
         \A i \in Others(file, pos) : i >= k
  PROVE  (pos + 1)..k \subseteq Begins(file, pos) /\ (pos + 1)..(k - 1) \subseteq Rows(file, pos)
<1>. DEFINE Bad == ((pos + 1)..k) \ Begins(file, pos)
<1>1. Len(file) \in Nat /\ Begins(file, pos) = Rows(file, pos) \cup Others(file, pos)
  BY LinesOf
<1>2. Bad = {}
  <2>. SUFFICES ASSUME Bad # {} PROVE FALSE
    OBVIOUS
  <2>1. Bad \subseteq Nat
    OBVIOUS
  <2>2. PICK x \in Bad : \A y \in Bad : x <= y
    BY <2>1, LeastNumber
  <2>3. x \in (pos + 1)..k /\ x \in Nat /\ x # pos + 1 /\ ~file[x - 1].nl
    BY <1>1, <2>2 DEF Begins
  <2>4. x - 1 \in (pos + 1)..k /\ x - 1 \notin Bad /\ x - 1 # Len(file)
    BY <1>1, <2>2, <2>3
  <2>5. x - 1 \in Begins(file, pos) /\ x - 1 \notin Rows(file, pos)
    BY <2>3, <2>4 DEF Rows
  <2>6. x - 1 \in Others(file, pos)
    BY <2>5 DEF Others
  <2>. QED
    BY <2>3, <2>4, <2>6
<1>3. (pos + 1)..k \subseteq Begins(file, pos)
  BY <1>2
<1>4. ASSUME NEW i \in (pos + 1)..(k - 1) PROVE i \in Rows(file, pos)
  BY <1>1, <1>3
<1>. QED
  BY <1>3, <1>4

LEMMA FilesOf ==
  ASSUME NEW h \in Files
  PROVE  /\ Len(h) \in Nat /\ DOMAIN h = 1..Len(h)
         /\ \A f \in 1..Len(h) : h[f] \in Seq(Line) /\ Len(h[f]) \in Nat /\ DOMAIN h[f] = 1..Len(h[f])
<1>1. Len(h) \in Nat /\ DOMAIN h = 1..Len(h)
  BY LenProperties DEF Files
<1>2. \A f \in 1..Len(h) : h[f] \in Seq(Line)
  BY ElementOfSeq DEF Files
<1>. QED
  BY <1>1, <1>2, LinesOf

LEMMA PlacesOf ==
  ASSUME NEW h \in Files
  PROVE  /\ \A e : e \in Placed(h) <=> /\ e = <<e[1], e[2]>>
                                       /\ e[1] \in 1..Len(h) /\ e[2] \in 1..Len(h[e[1]])
         /\ \A f \in 1..Len(h) : \A i \in 1..Len(h[f]) : <<f, i>> \in Placed(h) /\ At(h, <<f, i>>) = h[f][i]
         /\ \A e \in Placed(h) : /\ e[1] \in Nat /\ e[2] \in Nat
                                 /\ At(h, e) \in Line /\ At(h, e).id \in Nat /\ At(h, e).nl \in BOOLEAN
                                 /\ At(h, e).ok \in BOOLEAN
         /\ IsFiniteSet(Placed(h))
<1>1. Len(h) \in Nat /\ DOMAIN h = 1..Len(h)
  BY FilesOf
<1>2. \A f \in 1..Len(h) : h[f] \in Seq(Line) /\ Len(h[f]) \in Nat /\ DOMAIN h[f] = 1..Len(h[f])
  BY FilesOf
<1>3. \A e : e \in Placed(h) <=> \E f \in 1..Len(h) : e \in {f} \X (1..Len(h[f]))
  BY <1>1, <1>2 DEF Placed
<1>4. \A e : e \in Placed(h) <=> /\ e = <<e[1], e[2]>>
                                 /\ e[1] \in 1..Len(h) /\ e[2] \in 1..Len(h[e[1]])
  BY <1>3
<1>5. \A f \in 1..Len(h) : \A i \in 1..Len(h[f]) : <<f, i>> \in Placed(h) /\ At(h, <<f, i>>) = h[f][i]
  BY <1>4 DEF At
<1>6. \A e \in Placed(h) : At(h, e) \in Line
  BY <1>2, <1>4, ElementOfSeq DEF At
<1>7. \A e \in Placed(h) : /\ At(h, e).id \in Nat /\ At(h, e).nl \in BOOLEAN /\ At(h, e).ok \in BOOLEAN
                           /\ e[1] \in Nat /\ e[2] \in Nat
  BY <1>1, <1>2, <1>4, <1>6 DEF Line
<1>8. IsFiniteSet(Placed(h))
  <2>. DEFINE Parts == {{f} \X DOMAIN h[f] : f \in DOMAIN h}
  <2>1. IsFiniteSet(1..Len(h))
    BY <1>1, FS_Interval
  <2>2. IsFiniteSet(Parts)
    <3>. DEFINE part == [f \in 1..Len(h) |-> {f} \X DOMAIN h[f]]
    <3>1. part \in Surjection(1..Len(h), Parts)
      BY <1>1 DEF Surjection
    <3>. QED
      BY <2>1, <3>1, FS_Surjection
  <2>3. \A T \in Parts : IsFiniteSet(T)
    <3>. SUFFICES ASSUME NEW f \in 1..Len(h) PROVE IsFiniteSet({f} \X DOMAIN h[f])
      BY <1>1
    <3>1. PICK n \in Nat : DOMAIN h[f] = 1..n
      BY <1>2
    <3>2. IsFiniteSet(1..n)
      BY FS_Interval
    <3>3. IsFiniteSet({f})
      BY FS_Singleton
    <3>. QED
      BY <3>1, <3>2, <3>3, FS_Product, Zenon
  <2>. HIDE DEF Parts
  <2>4. IsFiniteSet(UNION Parts)
    BY <2>2, <2>3, FS_UNION
  <2>. QED
    BY <2>4 DEF Parts, Placed
<1>. QED
  BY <1>4, <1>5, <1>6, <1>7, <1>8

-----------------------------------------------------------------------------
(* What the steps of append() do to the history.                           *)

\* A file with one more line: a line cut short swallows it and is a receipt no more.
LEMMA RowsAppend ==
  ASSUME NEW file \in Seq(Line), NEW e \in Line
  PROVE  LET g == Append(file, e)
             n == Len(file)
         IN /\ g \in Seq(Line) /\ Len(g) = n + 1 /\ g[n + 1] = e /\ \A i \in 1..n : g[i] = file[i]
            /\ n = 0 \/ file[n].nl =>
                 Rows(g, 0) = Rows(file, 0) \cup (IF e.id # Genesis THEN {n + 1} ELSE {})
            /\ n # 0 /\ ~file[n].nl => Rows(g, 0) = Rows(file, 0) \ {n}
<1>. DEFINE g == Append(file, e)
            n == Len(file)
<1>1. n \in Nat /\ DOMAIN file = 1..n /\ \A i \in 1..n : file[i].nl \in BOOLEAN
  BY LinesOf
<1>2. g \in Seq(Line) /\ Len(g) = n + 1 /\ g[n + 1] = e /\ \A i \in 1..n : g[i] = file[i]
  BY <1>1, AppendProperties
<1>. HIDE DEF g
<1>3. /\ n = 0 \/ file[n].nl => Begins(g, 0) = Begins(file, 0) \cup {n + 1}
      /\ n # 0 /\ ~file[n].nl => Begins(g, 0) = Begins(file, 0)
  BY <1>1, <1>2 DEF Begins
<1>4. Begins(file, 0) \subseteq 1..n
  BY <1>1, LinesOf
<1>. HIDE DEF n
<1>7. \A i \in Begins(file, 0) : i \in Nat /\ i >= 1 /\ i <= n /\ i # n + 1 /\ g[i] = file[i]
  BY <1>1, <1>2, <1>4
<1>8. /\ \A i : i \in Rows(file, 0) <=> i \in Begins(file, 0) /\ file[i].id # Genesis /\ (file[i].nl \/ i = n)
      /\ \A i : i \in Rows(g, 0) <=> i \in Begins(g, 0) /\ g[i].id # Genesis /\ (g[i].nl \/ i = n + 1)
  BY <1>2 DEF Rows, n
<1>5. ASSUME n = 0 \/ file[n].nl
      PROVE Rows(g, 0) = Rows(file, 0) \cup (IF e.id # Genesis THEN {n + 1} ELSE {})
  <2>1. \A i \in Begins(file, 0) : i \in Rows(g, 0) <=> i \in Rows(file, 0)
    BY <1>1, <1>3, <1>5, <1>7, <1>8
  <2>2. n + 1 \in Rows(g, 0) <=> e.id # Genesis
    BY <1>2, <1>3, <1>5, <1>8
  <2>3. Rows(file, 0) \subseteq Begins(file, 0) /\ Rows(g, 0) \subseteq Begins(file, 0) \cup {n + 1}
    BY <1>3, <1>5, <1>8
  <2>4. \A i : i \in Rows(g, 0) <=> i \in Rows(file, 0) \/ (i = n + 1 /\ e.id # Genesis)
    BY <1>7, <2>1, <2>2, <2>3
  <2>. QED
    BY <2>4
<1>6. ASSUME n # 0, ~file[n].nl
      PROVE Rows(g, 0) = Rows(file, 0) \ {n}
  <2>1. \A i \in Begins(file, 0) : i \in Rows(g, 0) <=> i \in Rows(file, 0) \ {n}
    BY <1>1, <1>3, <1>6, <1>7, <1>8
  <2>2. Rows(file, 0) \subseteq Begins(file, 0) /\ Rows(g, 0) \subseteq Begins(file, 0)
    BY <1>3, <1>6, <1>8
  <2>. QED
    BY <1>6, <2>1, <2>2
<1>. QED
  BY <1>2, <1>5, <1>6 DEF g, n

\* What the next receipt links to.
HeadId(h) ==
  IF Rows(h[Len(h)], 0) # {} \/ Len(h) = 1 THEN LastId(h[Len(h)]) ELSE LastId(h[Len(h) - 1])

\* The history h may become g.
Grown(h, g) ==
  /\ Len(h) <= Len(g)
  /\ \A f \in 1..Len(h) :
       /\ f < Len(h) => Len(g[f]) = Len(h[f])
       /\ Len(h[f]) <= Len(g[f])
       /\ \A i \in 1..Len(h[f]) : g[f][i].id = h[f][i].id /\ (~h[f][i].ok => ~g[f][i].ok)
       /\ Len(h) < Len(g) => Len(g[f]) = Len(h[f])

LEMMA LineAppended ==
  ASSUME NEW h \in Files, Len(h) >= 1, NEW e \in Line, NEW n \in Nat, NEW b, NEW ids,
         HashOnce(h, n), Intact(h, b), Chained(h), NoneEmpty(h), Filed(h, ids),
         e.id \in {Genesis, n + 1}, e.ok, e.prev = HeadId(h),
         NEW g \in Files, Len(g) = Len(h), g[Len(h)] = Append(h[Len(h)], e),
         \A f \in 1..Len(h) : f # Len(h) => g[f] = h[f]
  PROVE  /\ Grown(h, g)
         /\ HashOnce(g, n + 1) /\ Intact(g, b) /\ Chained(g) /\ NoneEmpty(g)
         /\ Filed(g, ids) /\ Filed(g, {e.id})
<1>k. PICK k \in Nat : k = Len(h)
  BY FilesOf
<1>f. PICK file \in Seq(Line) : file = h[k]
  BY <1>k, FilesOf
<1>l. PICK l \in Nat : l = Len(file)
  BY FilesOf, LinesOf
<1>n. PICK new : new = <<k, l + 1>>
  OBVIOUS
<1>1. /\ k >= 1 /\ k \in 1..k /\ DOMAIN h = 1..k /\ l = Len(h[k])
      /\ \A f \in 1..k : h[f] \in Seq(Line) /\ Len(h[f]) \in Nat /\ DOMAIN h[f] = 1..Len(h[f])
  BY <1>k, <1>f, <1>l, FilesOf
<1>2. /\ Append(file, e) \in Seq(Line) /\ Len(Append(file, e)) = l + 1 /\ Append(file, e)[l + 1] = e
      /\ \A i \in 1..l : Append(file, e)[i] = file[i]
      /\ l = 0 \/ file[l].nl =>
           Rows(Append(file, e), 0) = Rows(file, 0) \cup (IF e.id # Genesis THEN {l + 1} ELSE {})
      /\ l # 0 /\ ~file[l].nl => Rows(Append(file, e), 0) = Rows(file, 0) \ {l}
  <2>1. LET g0 == Append(file, e)
            n0 == Len(file)
        IN /\ g0 \in Seq(Line) /\ Len(g0) = n0 + 1 /\ g0[n0 + 1] = e /\ \A i \in 1..n0 : g0[i] = file[i]
           /\ n0 = 0 \/ file[n0].nl =>
                Rows(g0, 0) = Rows(file, 0) \cup (IF e.id # Genesis THEN {n0 + 1} ELSE {})
           /\ n0 # 0 /\ ~file[n0].nl => Rows(g0, 0) = Rows(file, 0) \ {n0}
    BY RowsAppend, Zenon
  <2>. QED
    BY <1>l, <2>1, Zenon
<1>3. /\ g \in Files /\ Len(g) = k /\ g[k] = Append(file, e) /\ DOMAIN g = 1..k
      /\ \A f \in 1..k : f # k => g[f] = h[f]
  BY <1>k, <1>f, FilesOf
<1>4. Len(g[k]) = l + 1 /\ g[k][l + 1] = e /\ \A i \in 1..l : g[k][i] = h[k][i]
  BY <1>2, <1>3, <1>f
<1>5. Grown(h, g)
  <2>. SUFFICES ASSUME NEW f \in 1..k
                PROVE  /\ f < k => Len(g[f]) = Len(h[f])
                       /\ Len(h[f]) <= Len(g[f])
                       /\ \A i \in 1..Len(h[f]) : g[f][i].id = h[f][i].id /\ (~h[f][i].ok => ~g[f][i].ok)
    <3>1. Len(g) = Len(h) /\ Len(h) = k /\ Len(h) <= Len(g) /\ ~(Len(h) < Len(g))
      <4>1. Len(g) = k /\ Len(h) = k
        BY <1>3, <1>k, Zenon
      <4>2. k <= k /\ ~(k < k)
        BY <1>k
      <4>. QED
        BY <4>1, <4>2, Zenon
    <3>. QED
      BY <3>1, Zenon DEF Grown
  <2>1. CASE f = k
    BY <1>1, <1>4, <2>1
  <2>2. CASE f # k
    BY <1>1, <1>3, <2>2
  <2>. QED
    BY <2>1, <2>2
<1>6. /\ \A d : d \in Placed(g) <=> d \in Placed(h) \/ d = new
      /\ new \notin Placed(h) /\ At(g, new) = e /\ \A d \in Placed(h) : At(g, d) = At(h, d)
  <2>1. \A d : d \in Placed(h) <=> d = <<d[1], d[2]>> /\ d[1] \in 1..k /\ d[2] \in 1..Len(h[d[1]])
    BY <1>k, PlacesOf
  <2>2. \A d : d \in Placed(g) <=> d = <<d[1], d[2]>> /\ d[1] \in 1..k /\ d[2] \in 1..Len(g[d[1]])
    BY <1>3, PlacesOf
  <2>3. new = <<new[1], new[2]>> /\ new[1] = k /\ new[2] = l + 1 /\ Len(h[k]) = l
    BY <1>1, <1>n
  <2>4. ASSUME NEW d PROVE d \in Placed(g) <=> d \in Placed(h) \/ d = new
    <3>1. CASE d[1] = k
      <4>1. d[2] \in 1..(l + 1) <=> d[2] \in 1..l \/ d[2] = l + 1
        OBVIOUS
      <4>2. d \in Placed(g) <=> d = <<k, d[2]>> /\ d[2] \in 1..(l + 1)
        BY <1>1, <1>4, <2>2, <3>1
      <4>3. d \in Placed(h) <=> d = <<k, d[2]>> /\ d[2] \in 1..l
        BY <1>1, <2>1, <3>1
      <4>. QED
        BY <1>n, <4>1, <4>2, <4>3
    <3>2. CASE d[1] # k
      BY <1>3, <2>1, <2>2, <2>3, <3>2
    <3>. QED
      BY <3>1, <3>2
  <2>5. ASSUME NEW d \in Placed(h) PROVE At(g, d) = At(h, d)
    <3>1. CASE d[1] = k
      BY <1>4, <2>1, <2>3, <3>1 DEF At
    <3>2. CASE d[1] # k
      BY <1>3, <2>1, <3>2 DEF At
    <3>. QED
      BY <3>1, <3>2
  <2>6. new \notin Placed(h)
    BY <2>1, <2>3
  <2>7. At(g, new) = e
    BY <1>4, <2>3 DEF At
  <2>. QED
    BY <2>4, <2>5, <2>6, <2>7
<1>7. HashOnce(g, n + 1)
  <2>1. \A d \in Placed(h) : At(h, d).id \in Nat /\ At(h, d).id <= n
    BY PlacesOf DEF HashOnce
  <2>2. \A d \in Placed(g) : At(g, d).id <= n + 1
    <3>1. e.id <= n + 1
      BY DEF Genesis
    <3>. QED
      <4>1. ASSUME NEW d \in Placed(g) PROVE At(g, d).id <= n + 1
        <5>1. CASE d = new
          BY <1>6, <3>1, <5>1
        <5>2. CASE d \in Placed(h)
          <6>1. At(g, d) = At(h, d) /\ At(h, d).id \in Nat /\ At(h, d).id <= n
            BY <1>6, <2>1, <5>2
          <6>. QED
            BY <6>1
        <5>. QED
          BY <1>6, <5>1, <5>2
      <4>. QED
        BY <4>1
  <2>3. ASSUME NEW c \in Placed(g), NEW d \in Placed(g), At(g, c).id = At(g, d).id, At(g, c).id # Genesis
        PROVE c = d
    <3>1. CASE c \in Placed(h) /\ d \in Placed(h)
      BY <1>6, <2>3, <3>1 DEF HashOnce
    <3>2. CASE c \notin Placed(h) \/ d \notin Placed(h)
      <4>1. e.id # n + 1 => e.id = Genesis
        OBVIOUS
      <4>2. \A q \in Placed(h) : At(g, q).id # n + 1
        <5>. SUFFICES ASSUME NEW q \in Placed(h) PROVE At(g, q).id # n + 1
          OBVIOUS
        <5>1. At(g, q) = At(h, q) /\ At(h, q).id \in Nat /\ At(h, q).id <= n
          BY <1>6, <2>1
        <5>. QED
          BY <5>1
      <4>3. c = new \/ d = new
        BY <1>6, <3>2
      <4>. QED
        <5>1. /\ c = new \/ c \in Placed(h)
              /\ d = new \/ d \in Placed(h)
              /\ At(g, new) = e
          BY <1>6
        <5>2. CASE c = new /\ d # new
          BY <2>3, <4>1, <4>2, <5>1, <5>2
        <5>3. CASE d = new /\ c # new
          BY <2>3, <4>1, <4>2, <5>1, <5>3
        <5>. QED
          BY <4>3, <5>2, <5>3
    <3>. QED
      BY <3>1, <3>2
  <2>. QED
    BY <2>2, <2>3 DEF HashOnce
<1>8. \A f \in 1..k : f # k => Rows(g[f], 0) = Rows(h[f], 0)
  BY <1>3
<1>9. /\ l = 0 \/ h[k][l].nl =>
           Rows(g[k], 0) = Rows(h[k], 0) \cup (IF e.id # Genesis THEN {l + 1} ELSE {})
      /\ l # 0 /\ ~h[k][l].nl => Rows(g[k], 0) = Rows(h[k], 0) \ {l}
      /\ Rows(h[k], 0) \subseteq 1..l
  <2>1. Rows(h[k], 0) \subseteq 1..l
    BY <1>f, <1>l, LinesOf
  <2>. QED
    BY <1>2, <1>3, <1>f, <2>1
<1>10. Intact(g, b)
  <2>. SUFFICES ASSUME NEW d \in Placed(g), ~At(g, d).ok
                PROVE  b /\ At(g, d).nl /\ d[2] \in Rows(g[d[1]], 0)
    BY DEF Intact
  <2>1. d \in Placed(h) /\ ~At(h, d).ok /\ At(g, d) = At(h, d)
    BY <1>6
  <2>2. b /\ At(h, d).nl /\ d[2] \in Rows(h[d[1]], 0) /\ d[1] \in 1..k
    BY <1>k, <2>1, PlacesOf DEF Intact
  <2>3. CASE d[1] = k
    <3>1. At(h, d) = h[k][d[2]]
      BY <2>3 DEF At
    <3>2. CASE l = 0 \/ h[k][l].nl
      BY <1>9, <2>1, <2>2, <2>3, <3>2
    <3>3. CASE l # 0 /\ ~h[k][l].nl
      BY <1>9, <2>1, <2>2, <2>3, <3>1, <3>3
    <3>. QED
      BY <3>2, <3>3
  <2>4. CASE d[1] # k
    BY <1>8, <2>1, <2>2, <2>4
  <2>. QED
    BY <2>3, <2>4
<1>11. NoneEmpty(g)
  <2>. SUFFICES ASSUME NEW f \in 1..(k - 1) PROVE Rows(g[f], 0) # {}
    BY <1>3 DEF NoneEmpty
  <2>1. f \in 1..k /\ f # k
    OBVIOUS
  <2>. QED
    BY <1>8, <1>k, <2>1 DEF NoneEmpty
<1>12. Chained(g)
  <2>. SUFFICES ASSUME NEW f \in 1..k, NEW i \in Rows(g[f], 0)
                PROVE  g[f][i].prev = PrevId(g, f, i)
    BY <1>3 DEF Chained
  <2>1. f # 1 => f - 1 \in 1..k /\ f - 1 # k
    BY <1>1
  <2>2. f # 1 => LastId(g[f - 1]) = LastId(h[f - 1])
    BY <1>3, <2>1
  <2>3. CASE f # k
    <3>1. g[f] = h[f]
      BY <1>3, <2>3
    <3>2. h[f][i].prev = PrevId(h, f, i)
      BY <1>1, <3>1 DEF Chained
    <3>. QED
      BY <2>2, <3>1, <3>2 DEF PrevId
  <2>4. CASE f = k /\ i \in Rows(h[k], 0)
    <3>1. {j \in Rows(g[f], 0) : j < i} = {j \in Rows(h[k], 0) : j < i}
      <4>1. CASE l = 0 \/ h[k][l].nl
        BY <1>1, <1>9, <2>4, <4>1
      <4>2. CASE l # 0 /\ ~h[k][l].nl
        BY <1>1, <1>9, <2>4, <4>2
      <4>. QED
        BY <4>1, <4>2
    <3>2. {j \in Rows(h[k], 0) : j < i} # {} =>
             /\ Max({j \in Rows(h[k], 0) : j < i}) \in 1..l
      <4>1. ASSUME {j \in Rows(h[k], 0) : j < i} # {}
            PROVE Max({j \in Rows(h[k], 0) : j < i}) \in {j \in Rows(h[k], 0) : j < i}
        <5>1. /\ {j \in Rows(h[k], 0) : j < i} \subseteq Nat
              /\ \A j \in {j \in Rows(h[k], 0) : j < i} : j <= l
          BY <1>1, <1>9
        <5>. QED
          BY <1>1, <4>1, <5>1, GreatestNumber
      <4>. QED
        BY <1>9, <4>1
    <3>3. h[k][i].prev = PrevId(h, k, i) /\ g[k][i] = h[k][i]
      BY <1>1, <1>4, <1>9, <2>4 DEF Chained
    <3>4. PrevId(g, k, i) = PrevId(h, k, i)
      <4>1. {j \in Rows(g[k], 0) : j < i} = {j \in Rows(h[k], 0) : j < i}
        BY <2>4, <3>1
      <4>2. k # 1 => LastId(g[k - 1]) = LastId(h[k - 1])
        BY <2>2, <2>4
      <4>. QED
        <5>1. CASE {j \in Rows(h[k], 0) : j < i} # {}
          <6>1. PICK m \in 1..l : m = Max({j \in Rows(h[k], 0) : j < i})
            BY <3>2, <5>1
          <6>2. m = Max({j \in Rows(g[k], 0) : j < i})
            BY <4>1, <6>1, Zenon
          <6>3. PrevId(g, k, i) = g[k][m].id
            BY <4>1, <5>1, <6>2, Zenon DEF PrevId
          <6>4. PrevId(h, k, i) = h[k][m].id
            BY <5>1, <6>1, Zenon DEF PrevId
          <6>. QED
            BY <1>4, <6>3, <6>4
        <5>2. CASE {j \in Rows(h[k], 0) : j < i} = {}
          BY <4>1, <4>2, <5>2 DEF PrevId
        <5>. QED
          BY <5>1, <5>2
    <3>. QED
      BY <2>4, <3>3, <3>4
  <2>5. CASE f = k /\ i \notin Rows(h[k], 0)
    <3>1. (l = 0 \/ h[k][l].nl) /\ i = l + 1 /\ Rows(g[k], 0) = Rows(h[k], 0) \cup {l + 1}
      BY <1>9, <2>5
    <3>2. {j \in Rows(g[k], 0) : j < i} = Rows(h[k], 0)
      BY <1>1, <1>9, <3>1
    <3>3. CASE Rows(h[k], 0) # {}
      <4>1. /\ Max(Rows(h[k], 0)) \in Rows(h[k], 0)
            /\ LastId(h[k]) = h[k][Max(Rows(h[k], 0))].id
        BY <1>1, <3>3, LastRow
      <4>2. PrevId(g, k, i) = h[k][Max(Rows(h[k], 0))].id
        BY <1>4, <1>9, <3>2, <3>3, <4>1 DEF PrevId
      <4>. QED
        BY <1>4, <1>k, <2>5, <3>1, <3>3, <4>1, <4>2 DEF HeadId
    <3>4. CASE Rows(h[k], 0) = {}
      <4>1. PrevId(g, k, i) = IF k = 1 THEN Genesis ELSE LastId(h[k - 1])
        BY <2>2, <2>5, <3>2, <3>4 DEF PrevId
      <4>2. k = 1 => LastId(h[k]) = Genesis
        BY <3>4 DEF LastId
      <4>. QED
        BY <1>4, <1>k, <2>5, <3>1, <3>4, <4>1, <4>2 DEF HeadId
    <3>. QED
      BY <3>3, <3>4
  <2>. QED
    BY <2>3, <2>4, <2>5
<1>13. Filed(g, ids) /\ Filed(g, {e.id})
  <2>1. Filed(g, ids)
    <3>. SUFFICES ASSUME NEW a \in ids PROVE \E d \in Placed(g) : At(g, d).id = a
      BY DEF Filed
    <3>1. PICK d \in Placed(h) : At(h, d).id = a
      BY DEF Filed
    <3>. QED
      BY <1>6, <3>1
  <2>2. Filed(g, {e.id})
    BY <1>6 DEF Filed
  <2>. QED
    BY <2>1, <2>2
<1>. QED
  BY <1>3, <1>5, <1>7, <1>10, <1>11, <1>12, <1>13, <1>k

LEMMA FileSealed ==
  ASSUME NEW h \in Files, Len(h) >= 1, NEW n \in Nat, NEW b, NEW ids,
         HashOnce(h, n), Intact(h, b), Chained(h), NoneEmpty(h), Filed(h, ids),
         Rows(h[Len(h)], 0) # {}, NEW g, g = Append(h, << >>)
  PROVE  /\ g \in Files /\ Len(g) = Len(h) + 1 /\ Grown(h, g) /\ g[Len(h) + 1] = << >>
         /\ HashOnce(g, n) /\ Intact(g, b) /\ Chained(g) /\ NoneEmpty(g) /\ Filed(g, ids)
<1>k. PICK k \in Nat : k = Len(h)
  BY FilesOf
<1>1. << >> \in Seq(Line) /\ Len(<< >>) = 0
  BY EmptySeq
<1>2. /\ g \in Files /\ Len(g) = k + 1 /\ g[k + 1] = << >> /\ \A f \in 1..k : g[f] = h[f]
      /\ DOMAIN g = 1..(k + 1) /\ DOMAIN h = 1..k
  BY <1>1, <1>k, AppendProperties, LenProperties DEF Files
<1>3. Rows(g[k + 1], 0) = {}
  <2>1. Begins(g[k + 1], 0) \subseteq (0 + 1)..Len(g[k + 1])
    BY <1>1, <1>2 DEF Begins
  <2>2. (0 + 1)..Len(g[k + 1]) = {}
    BY <1>1, <1>2
  <2>. QED
    BY <2>1, <2>2 DEF Rows
<1>4. Grown(h, g)
  <2>1. Len(h) = k /\ Len(g) = k + 1 /\ k <= k + 1
    BY <1>2, <1>k
  <2>2. \A f \in 1..k : Len(h[f]) <= Len(h[f])
    BY <1>k, FilesOf
  <2>. QED
    BY <1>2, <2>1, <2>2 DEF Grown
<1>5. /\ \A d : d \in Placed(g) <=> d \in Placed(h)
      /\ \A d \in Placed(h) : At(g, d) = At(h, d)
  <2>1. \A d : d \in Placed(h) <=> d = <<d[1], d[2]>> /\ d[1] \in 1..k /\ d[2] \in 1..Len(h[d[1]])
    BY <1>k, PlacesOf
  <2>2. \A d : d \in Placed(g) <=> d = <<d[1], d[2]>> /\ d[1] \in 1..(k + 1) /\ d[2] \in 1..Len(g[d[1]])
    BY <1>2, PlacesOf
  <2>3. ASSUME NEW d PROVE d \in Placed(g) <=> d \in Placed(h)
    <3>1. CASE d[1] = k + 1
      <4>1. Len(g[d[1]]) = 0 /\ d[1] \notin 1..k
        BY <1>1, <1>2, <3>1
      <4>2. d[2] \notin 1..Len(g[d[1]])
        <5>1. 1..0 = {}
          OBVIOUS
        <5>. QED
          BY <4>1, <5>1
      <4>3. d \notin Placed(g) /\ d \notin Placed(h)
        BY <2>1, <2>2, <4>1, <4>2, Zenon
      <4>. QED
        BY <4>3
    <3>2. CASE d[1] # k + 1
      <4>1. d[1] \in 1..k <=> d[1] \in 1..(k + 1)
        BY <3>2
      <4>. QED
        BY <1>2, <2>1, <2>2, <4>1
    <3>. QED
      BY <3>1, <3>2
  <2>4. \A d \in Placed(h) : At(g, d) = At(h, d)
    BY <1>2, <2>1 DEF At
  <2>. QED
    BY <2>3, <2>4
<1>6. HashOnce(g, n) /\ Filed(g, ids)
  BY <1>5 DEF HashOnce, Filed
<1>7. Intact(g, b)
  <2>1. \A d \in Placed(h) : d[1] \in 1..k
    BY <1>k, PlacesOf
  <2>. QED
    BY <1>2, <1>5, <2>1 DEF Intact
<1>8. NoneEmpty(g)
  <2>. SUFFICES ASSUME NEW f \in 1..k PROVE Rows(g[f], 0) # {}
    BY <1>2 DEF NoneEmpty
  <2>1. f = k \/ f \in 1..(k - 1)
    OBVIOUS
  <2>. QED
    BY <1>2, <1>k, <2>1 DEF NoneEmpty
<1>9. Chained(g)
  <2>. SUFFICES ASSUME NEW f \in 1..(k + 1), NEW i \in Rows(g[f], 0)
                PROVE  g[f][i].prev = PrevId(g, f, i)
    BY <1>2 DEF Chained
  <2>1. f # k + 1
    BY <1>3
  <2>2. f \in 1..k /\ (f # 1 => f - 1 \in 1..k)
    BY <2>1
  <2>3. g[f] = h[f] /\ (f # 1 => g[f - 1] = h[f - 1])
    BY <1>2, <2>2
  <2>4. h[f][i].prev = PrevId(h, f, i)
    BY <1>2, <2>2, <2>3 DEF Chained
  <2>. QED
    BY <2>3, <2>4 DEF PrevId
<1>. QED
  BY <1>2, <1>4, <1>6, <1>7, <1>8, <1>9, <1>k

LEMMA LineDamaged ==
  ASSUME NEW h \in Files, NEW g \in Files, NEW n \in Nat, NEW b, NEW ids,
         HashOnce(h, n), Intact(h, b), Chained(h), NoneEmpty(h), Filed(h, ids), Len(g) = Len(h),
         \A f \in 1..Len(h) :
           /\ Len(g[f]) = Len(h[f])
           /\ \A i \in 1..Len(h[f]) :
                /\ g[f][i].id = h[f][i].id /\ g[f][i].prev = h[f][i].prev /\ g[f][i].nl = h[f][i].nl
                /\ g[f][i].ok = h[f][i].ok \/ (~g[f][i].ok /\ h[f][i].nl /\ i \in Rows(h[f], 0))
  PROVE  /\ Grown(h, g) /\ HashOnce(g, n) /\ Intact(g, TRUE) /\ Chained(g) /\ NoneEmpty(g) /\ Filed(g, ids)
         /\ \A f \in 1..Len(h) : Rows(g[f], 0) = Rows(h[f], 0) /\ Ids(g[f]) = Ids(h[f])
<1>1. /\ Len(h) \in Nat /\ DOMAIN h = 1..Len(h) /\ DOMAIN g = 1..Len(h)
      /\ \A f \in 1..Len(h) : /\ h[f] \in Seq(Line) /\ g[f] \in Seq(Line) /\ Len(h[f]) \in Nat
                              /\ DOMAIN h[f] = 1..Len(h[f])
  BY FilesOf
<1>2. \A f \in 1..Len(h) : Begins(g[f], 0) = Begins(h[f], 0) /\ Begins(h[f], 0) \subseteq 1..Len(h[f])
  <2>. SUFFICES ASSUME NEW f \in 1..Len(h)
                PROVE  Begins(g[f], 0) = Begins(h[f], 0) /\ Begins(h[f], 0) \subseteq 1..Len(h[f])
    OBVIOUS
  <2>1. Len(g[f]) = Len(h[f]) /\ Len(h[f]) \in Nat
    BY <1>1
  <2>2. \A i \in (0 + 1)..Len(h[f]) : i # 0 + 1 => i - 1 \in 1..Len(h[f])
    BY <2>1
  <2>3. \A i \in (0 + 1)..Len(h[f]) : i # 0 + 1 => g[f][i - 1].nl = h[f][i - 1].nl
    BY <2>2
  <2>4. Begins(g[f], 0) = Begins(h[f], 0)
    BY <2>1, <2>3, Zenon DEF Begins
  <2>5. Begins(h[f], 0) \subseteq 1..Len(h[f])
    BY DEF Begins
  <2>. QED
    BY <2>4, <2>5
<1>3. \A f \in 1..Len(h) : Rows(g[f], 0) = Rows(h[f], 0) /\ Rows(h[f], 0) \subseteq 1..Len(h[f])
  BY <1>1, <1>2 DEF Rows
<1>4. \A f \in 1..Len(h) : Ids(g[f]) = Ids(h[f])
  BY <1>3 DEF Ids
<1>5. /\ \A d : d \in Placed(g) <=> d \in Placed(h)
      /\ \A d \in Placed(h) : /\ At(g, d).id = At(h, d).id /\ At(g, d).nl = At(h, d).nl
                              /\ At(g, d).ok = At(h, d).ok \/ (At(h, d).nl /\ d[2] \in Rows(h[d[1]], 0))
                              /\ d[1] \in 1..Len(h)
  <2>1. \A d : d \in Placed(h) <=> d = <<d[1], d[2]>> /\ d[1] \in 1..Len(h) /\ d[2] \in 1..Len(h[d[1]])
    BY PlacesOf
  <2>2. \A d : d \in Placed(g) <=> d = <<d[1], d[2]>> /\ d[1] \in 1..Len(h) /\ d[2] \in 1..Len(g[d[1]])
    BY PlacesOf
  <2>3. \A d : d \in Placed(g) <=> d \in Placed(h)
    BY <2>1, <2>2
  <2>. QED
    BY <2>1, <2>3 DEF At
<1>6. HashOnce(g, n) /\ Filed(g, ids)
  <2>1. HashOnce(g, n)
    BY <1>5 DEF HashOnce
  <2>2. Filed(g, ids)
    BY <1>5 DEF Filed
  <2>. QED
    BY <2>1, <2>2
<1>7. Intact(g, TRUE)
  <2>. SUFFICES ASSUME NEW d \in Placed(g), ~At(g, d).ok
                PROVE  At(g, d).nl /\ d[2] \in Rows(g[d[1]], 0)
    BY DEF Intact
  <2>1. d \in Placed(h)
    BY <1>5
  <2>2. At(h, d).nl /\ d[2] \in Rows(h[d[1]], 0)
    BY <1>5, <2>1 DEF Intact
  <2>. QED
    BY <1>3, <1>5, <2>1, <2>2
<1>8. NoneEmpty(g)
  <2>. SUFFICES ASSUME NEW f \in 1..(Len(h) - 1) PROVE Rows(g[f], 0) # {}
    BY DEF NoneEmpty
  <2>1. f \in 1..Len(h)
    BY <1>1
  <2>. QED
    BY <1>3, <2>1 DEF NoneEmpty
<1>9. \A f \in 1..Len(h) : LastId(g[f]) = LastId(h[f])
  <2>. SUFFICES ASSUME NEW f \in 1..Len(h) PROVE LastId(g[f]) = LastId(h[f])
    OBVIOUS
  <2>1. CASE Rows(h[f], 0) # {}
    <3>1. Max(Rows(h[f], 0)) \in Rows(h[f], 0)
      BY <1>1, <2>1, LastRow
    <3>2. PICK m \in 1..Len(h[f]) : m = Max(Rows(h[f], 0))
      BY <1>3, <3>1
    <3>3. LastId(h[f]) = h[f][m].id /\ LastId(g[f]) = g[f][m].id
      BY <1>3, <2>1, <3>2, Zenon DEF LastId
    <3>. QED
      BY <3>2, <3>3
  <2>2. CASE Rows(h[f], 0) = {}
    BY <1>3, <2>2 DEF LastId
  <2>. QED
    BY <2>1, <2>2
<1>10. Chained(g)
  <2>. SUFFICES ASSUME NEW f \in 1..Len(h), NEW i \in Rows(h[f], 0)
                PROVE  g[f][i].prev = PrevId(g, f, i)
    BY <1>1, <1>3 DEF Chained
  <2>1. g[f][i].prev = PrevId(h, f, i)
    <3>1. i \in 1..Len(h[f]) /\ g[f][i].prev = h[f][i].prev
      BY <1>3
    <3>. QED
      BY <1>1, <3>1 DEF Chained
  <2>2. f # 1 => LastId(g[f - 1]) = LastId(h[f - 1])
    <3>1. f # 1 => f - 1 \in 1..Len(h)
      BY <1>1
    <3>. QED
      BY <1>9, <3>1
  <2>3. {j \in Rows(g[f], 0) : j < i} = {j \in Rows(h[f], 0) : j < i}
    BY <1>3
  <2>4. CASE {j \in Rows(h[f], 0) : j < i} # {}
    <3>1. Max({j \in Rows(h[f], 0) : j < i}) \in {j \in Rows(h[f], 0) : j < i}
      <4>1. \A j \in Rows(h[f], 0) : j \in Nat /\ j <= Len(h[f])
        BY <1>1, <1>3
      <4>2. {j \in Rows(h[f], 0) : j < i} \subseteq Nat
        BY <4>1
      <4>3. \A m \in {j \in Rows(h[f], 0) : j < i} : m <= Len(h[f])
        BY <4>1
      <4>4. Len(h[f]) \in Nat
        BY <1>1
      <4>. HIDE DEF Rows
      <4>. QED
        BY <2>4, <4>2, <4>3, <4>4, GreatestNumber
    <3>2. PICK m \in 1..Len(h[f]) : m = Max({j \in Rows(h[f], 0) : j < i})
      BY <1>3, <3>1
    <3>3. PrevId(h, f, i) = h[f][m].id
      BY <2>4, <3>2, Zenon DEF PrevId
    <3>4. PrevId(g, f, i) = g[f][m].id
      BY <2>3, <2>4, <3>2, Zenon DEF PrevId
    <3>. QED
      BY <2>1, <3>2, <3>3, <3>4
  <2>5. CASE {j \in Rows(h[f], 0) : j < i} = {}
    BY <2>1, <2>2, <2>3, <2>5 DEF PrevId
  <2>. QED
    BY <2>4, <2>5
<1>11. Grown(h, g)
  <2>1. \A f \in 1..Len(h) : Len(h[f]) <= Len(h[f])
    BY <1>1
  <2>2. Len(h) <= Len(g)
    BY <1>1
  <2>. QED
    BY <2>1, <2>2 DEF Grown
<1>. QED
  BY <1>3, <1>4, <1>6, <1>7, <1>8, <1>10, <1>11

-----------------------------------------------------------------------------
\* A resume point stays what it is while the history grows.
LEMMA PointsStay ==
  ASSUME NEW h \in Files, NEW g \in Files, Grown(h, g)
  PROVE  /\ \A r \in Point : Sound(h, r) => Sound(g, r)
         /\ \A r \in Point : Stale(h, r) => Stale(g, r)
         /\ \A d \in Placed(h) : /\ d \in Placed(g) /\ At(g, d).id = At(h, d).id
                                 /\ ~At(h, d).ok => ~At(g, d).ok
<1>1. /\ Len(h) \in Nat /\ Len(g) \in Nat /\ DOMAIN h = 1..Len(h) /\ DOMAIN g = 1..Len(g)
      /\ Len(h) <= Len(g) /\ \A f \in 1..Len(h) : f \in 1..Len(g)
      /\ \A f \in 1..Len(h) : Len(h[f]) \in Nat /\ DOMAIN h[f] = 1..Len(h[f])
      /\ \A f \in 1..Len(g) : Len(g[f]) \in Nat /\ DOMAIN g[f] = 1..Len(g[f])
  BY FilesOf DEF Grown
<1>2. /\ \A d : d \in Placed(h) <=> d = <<d[1], d[2]>> /\ d[1] \in 1..Len(h) /\ d[2] \in 1..Len(h[d[1]])
      /\ \A d : d \in Placed(g) <=> d = <<d[1], d[2]>> /\ d[1] \in 1..Len(g) /\ d[2] \in 1..Len(g[d[1]])
  BY PlacesOf
<1>3. \A d \in Placed(h) : d \in Placed(g) /\ At(g, d).id = At(h, d).id /\ (~At(h, d).ok => ~At(g, d).ok)
  <2>. SUFFICES ASSUME NEW d \in Placed(h)
                PROVE  d \in Placed(g) /\ At(g, d).id = At(h, d).id /\ (~At(h, d).ok => ~At(g, d).ok)
    OBVIOUS
  <2>1. d[1] \in 1..Len(h) /\ d[2] \in 1..Len(h[d[1]]) /\ d[1] \in 1..Len(g)
    BY <1>1, <1>2
  <2>2. /\ Len(h[d[1]]) <= Len(g[d[1]]) /\ g[d[1]][d[2]].id = h[d[1]][d[2]].id
        /\ ~h[d[1]][d[2]].ok => ~g[d[1]][d[2]].ok
    BY <2>1 DEF Grown
  <2>3. d[2] \in 1..Len(g[d[1]])
    BY <1>1, <2>1, <2>2
  <2>. QED
    BY <1>2, <2>1, <2>2, <2>3 DEF At
<1>4. ASSUME NEW r \in Point, Sound(h, r) PROVE Sound(g, r)
  <2>1. /\ r.file \in 1..Len(h) /\ r.pos \in 1..Len(h[r.file]) /\ r.file \in Nat /\ r.pos \in Nat
        /\ r.file \in 1..Len(g)
    BY <1>1, <1>4 DEF Sound, Point
  <2>2. r.pos \in 1..Len(g[r.file]) /\ g[r.file][r.pos].id = h[r.file][r.pos].id
    <3>1. Len(h[r.file]) <= Len(g[r.file]) /\ g[r.file][r.pos].id = h[r.file][r.pos].id
      BY <2>1 DEF Grown
    <3>. QED
      BY <1>1, <2>1, <3>1
  <2>3. Upto(g, r) = Upto(h, r)
    <3>1. ASSUME NEW d, d \in Placed(g), ~Before(<<r.file, r.pos>>, d) PROVE d \in Placed(h)
      <4>1. d[1] \in 1..Len(g) /\ d[2] \in 1..Len(g[d[1]]) /\ d = <<d[1], d[2]>>
        BY <1>2, <3>1
      <4>2. d[1] < r.file \/ (d[1] = r.file /\ d[2] <= r.pos)
        BY <1>1, <2>1, <3>1, <4>1 DEF Before
      <4>3. CASE d[1] < r.file
        <5>1. d[1] \in 1..Len(h) /\ d[1] < Len(h)
          BY <1>1, <2>1, <4>1, <4>3
        <5>2. Len(g[d[1]]) = Len(h[d[1]])
          BY <5>1 DEF Grown
        <5>. QED
          BY <1>2, <4>1, <5>1, <5>2
      <4>4. CASE d[1] = r.file /\ d[2] <= r.pos
        BY <1>1, <1>2, <2>1, <4>1, <4>4
      <4>. QED
        BY <4>2, <4>3, <4>4
    <3>. QED
      BY <1>3, <3>1 DEF Upto
  <2>. QED
    BY <1>1, <1>4, <2>1, <2>2, <2>3 DEF Sound
<1>5. ASSUME NEW r \in Point, Stale(h, r) PROVE Stale(g, r)
  <2>1. r.file < Len(h) /\ r.pos >= 1 /\ r.file \in 1..Len(h) /\ r.file \in Nat
    BY <1>1, <1>5 DEF Stale, Point
  <2>2. Len(g[r.file]) = Len(h[r.file]) /\ \A i \in 1..Len(h[r.file]) : g[r.file][i].id = h[r.file][i].id
    BY <2>1 DEF Grown
  <2>3. DOMAIN g[r.file] = DOMAIN h[r.file] /\ r.file < Len(g)
    BY <1>1, <2>1, <2>2
  <2>4. \A i \in DOMAIN g[r.file] : g[r.file][i].id # r.head
    BY <1>1, <1>5, <2>1, <2>2, <2>3 DEF Stale
  <2>. QED
    BY <2>1, <2>3, <2>4 DEF Stale
<1>. QED
  BY <1>3, <1>4, <1>5

-----------------------------------------------------------------------------
(* What a pass reads.                                                      *)

LEMMA TheFiles ==
  ASSUME ReceiptsTypeOK
  PROVE  /\ History \in Files /\ Len(segs) \in Nat /\ Len(History) = Len(segs) + 1
         /\ DOMAIN segs = 1..Len(segs) /\ DOMAIN History = 1..(Len(segs) + 1)
         /\ History[Len(segs) + 1] = act /\ \A k \in 1..Len(segs) : History[k] = segs[k]
         /\ \A n \in 0..Len(segs) : /\ ChainFile(n, n + 1) = act
                                    /\ \A f \in 1..n : ChainFile(n, f) = History[f]
         /\ \A n \in 0..Len(segs) : \A f \in 1..(n + 1) : ChainFile(n, f) \in Seq(Line)
<1>1. segs \in Seq(Seq(Line)) /\ act \in Seq(Line)
  BY DEF ReceiptsTypeOK
<1>2. /\ History \in Files /\ Len(segs) \in Nat /\ Len(History) = Len(segs) + 1
      /\ DOMAIN segs = 1..Len(segs)
      /\ History[Len(segs) + 1] = act /\ \A k \in 1..Len(segs) : History[k] = segs[k]
  BY <1>1, AppendProperties, LenProperties DEF History, Files
<1>3. DOMAIN History = 1..(Len(segs) + 1)
  BY <1>2, FilesOf
<1>4. ASSUME NEW n \in 0..Len(segs)
      PROVE /\ ChainFile(n, n + 1) = act
            /\ \A f \in 1..n : ChainFile(n, f) = History[f]
  BY <1>2 DEF ChainFile
<1>5. ASSUME NEW n \in 0..Len(segs), NEW f \in 1..(n + 1) PROVE ChainFile(n, f) \in Seq(Line)
  <2>1. CASE f <= n
    <3>1. f \in 1..n /\ f \in 1..Len(segs)
      BY <1>2, <2>1
    <3>2. segs[f] \in Seq(Line)
      BY <1>1, <3>1, ElementOfSeq
    <3>. QED
      BY <2>1, <3>2 DEF ChainFile
  <2>2. CASE ~(f <= n)
    BY <1>1, <2>2 DEF ChainFile
  <2>. QED
    BY <2>1, <2>2
<1>. QED
  BY <1>2, <1>3, <1>4, <1>5

\* A reader starts at the beginning or after a receipt that is there.
Starts(n, from) ==
  from = NoResume \/ (Sound(History, from) /\ from \in Point /\ from.file <= n + 1)

LEMMA StartsAt ==
  ASSUME ReceiptsTypeOK, NEW n \in 0..Len(segs), NEW from, Starts(n, from)
  PROVE  /\ from \in Point /\ from.file \in 1..(n + 1) /\ from.file \in Nat /\ from.pos \in Nat
         /\ from.count \in Nat /\ from.skipped \in Nat /\ from.head \in Nat
         /\ from.skipped = 0 => Cardinality(Upto(History, from)) <= from.count
         /\ \A f \in Nat : After(from, f) \in Nat
<1>1. NoResume \in Point
  BY DEF NoResume, Point, Genesis
<1>2. from \in Point
  BY <1>1 DEF Starts
<1>3. /\ from.file \in Nat \ {0} /\ from.pos \in Nat /\ from.count \in Nat /\ from.skipped \in Nat
      /\ from.head \in Nat
  BY <1>2 DEF Point
<1>4. from.file \in 1..(n + 1)
  BY <1>3 DEF Starts, NoResume
<1>5. from.skipped = 0 => Cardinality(Upto(History, from)) <= from.count
  <2>1. CASE from = NoResume
    <3>1. from.file = 1 /\ from.pos = 0 /\ from.count = 0
      BY <2>1 DEF NoResume
    <3>2. \A e \in Placed(History) : e[1] \in 1..Len(History) /\ e[2] \in 1..Len(History[e[1]])
      BY TheFiles, PlacesOf
    <3>3. \A e \in Placed(History) : e[1] \in Nat /\ e[2] \in Nat
      BY TheFiles, PlacesOf
    <3>4. \A e \in Placed(History) : Before(<<from.file, from.pos>>, e)
      BY <3>1, <3>2, <3>3 DEF Before
    <3>5. Upto(History, from) = {}
      BY <3>4 DEF Upto
    <3>. QED
      BY <3>1, <3>5, FS_EmptySet
  <2>2. CASE from # NoResume
    BY <2>2 DEF Starts, Sound
  <2>. QED
    BY <2>1, <2>2
<1>. QED
  BY <1>2, <1>3, <1>4, <1>5 DEF After

\* The receipts and the gaps met, place by place.
LEMMA MetAre ==
  ASSUME ReceiptsTypeOK, NEW n \in 0..Len(segs), NEW from, Starts(n, from)
  PROVE  /\ \A e : e \in Met(n, from) <=>
                     /\ e = <<e[1], e[2]>> /\ e[1] \in from.file..(n + 1)
                     /\ e[2] \in Rows(ChainFile(n, e[1]), After(from, e[1]))
         /\ \A e : e \in Holes(n, from) <=>
                     /\ e = <<e[1], e[2]>> /\ e[1] \in from.file..(n + 1)
                     /\ e[2] \in Others(ChainFile(n, e[1]), After(from, e[1]))
         /\ \A e \in Met(n, from) : /\ e[1] \in 1..(n + 1) /\ e[1] \in Nat /\ e[2] \in Nat /\ e[2] >= 1
                                    /\ e[2] \in 1..Len(ChainFile(n, e[1]))
                                    /\ Row(n, e) \in Line /\ Row(n, e).id # Genesis
         /\ IsFiniteSet(Met(n, from)) /\ IsFiniteSet(Holes(n, from))
<1>1. /\ Len(segs) \in Nat /\ n \in Nat /\ from.file \in Nat /\ from.file >= 1
      /\ \A f \in Nat : After(from, f) \in Nat
      /\ \A f \in from.file..(n + 1) : f \in 1..(n + 1) /\ f \in Nat
  <2>1. Len(segs) \in Nat
    BY TheFiles
  <2>2. from.file \in 1..(n + 1) /\ from.file \in Nat /\ \A f \in Nat : After(from, f) \in Nat
    BY StartsAt
  <2>3. n \in Nat
    BY <2>1
  <2>4. PICK a \in Nat : a = from.file
    BY <2>2, Zenon
  <2>5. a \in 1..(n + 1)
    BY <2>2, <2>4, Zenon
  <2>6. a >= 1 /\ \A f \in a..(n + 1) : f \in 1..(n + 1) /\ f \in Nat
    BY <2>3, <2>5
  <2>. QED
    BY <2>1, <2>2, <2>3, <2>4, <2>6, Zenon
<1>2. \A f \in from.file..(n + 1) : ChainFile(n, f) \in Seq(Line) /\ After(from, f) \in Nat
  BY <1>1, TheFiles
<1>3. \A e : e \in Met(n, from) <=>
               /\ e = <<e[1], e[2]>> /\ e[1] \in from.file..(n + 1)
               /\ e[2] \in Rows(ChainFile(n, e[1]), After(from, e[1]))
  BY DEF Met
<1>4. \A e : e \in Holes(n, from) <=>
               /\ e = <<e[1], e[2]>> /\ e[1] \in from.file..(n + 1)
               /\ e[2] \in Others(ChainFile(n, e[1]), After(from, e[1]))
  BY DEF Holes
<1>5. ASSUME NEW f \in from.file..(n + 1)
      PROVE  /\ Len(ChainFile(n, f)) \in Nat
             /\ Begins(ChainFile(n, f), After(from, f)) \subseteq 1..Len(ChainFile(n, f))
             /\ Rows(ChainFile(n, f), After(from, f)) \subseteq Begins(ChainFile(n, f), After(from, f))
             /\ Others(ChainFile(n, f), After(from, f)) \subseteq Begins(ChainFile(n, f), After(from, f))
  <2>1. PICK file \in Seq(Line), pos \in Nat : file = ChainFile(n, f) /\ pos = After(from, f)
    BY <1>2
  <2>2. /\ Len(file) \in Nat /\ Rows(file, pos) \subseteq Begins(file, pos)
        /\ Begins(file, pos) \subseteq (pos + 1)..Len(file)
    BY LinesOf
  <2>3. (pos + 1)..Len(file) \subseteq 1..Len(file)
    BY <2>2
  <2>4. Others(file, pos) \subseteq Begins(file, pos)
    BY DEF Others
  <2>. QED
    BY <2>1, <2>2, <2>3, <2>4
<1>6. ASSUME NEW e \in Met(n, from)
      PROVE  /\ e[1] \in 1..(n + 1) /\ e[1] \in Nat /\ e[2] \in Nat /\ e[2] >= 1
             /\ e[2] \in 1..Len(ChainFile(n, e[1]))
             /\ Row(n, e) \in Line /\ Row(n, e).id # Genesis
  <2>1. e[1] \in from.file..(n + 1) /\ e[2] \in Rows(ChainFile(n, e[1]), After(from, e[1]))
    BY <1>3
  <2>2. PICK file \in Seq(Line) : file = ChainFile(n, e[1])
    BY <1>2, <2>1
  <2>3. e[2] \in 1..Len(file) /\ Len(file) \in Nat
    BY <1>5, <2>1, <2>2
  <2>4. file[e[2]] \in Line
    BY <2>3, ElementOfSeq
  <2>5. file[e[2]].id # Genesis
    BY <2>1, <2>2 DEF Rows
  <2>6. Row(n, e) = file[e[2]]
    BY <2>2 DEF Row
  <2>7. e[1] \in 1..(n + 1) /\ e[1] \in Nat
    BY <1>1, <2>1
  <2>8. e[2] \in Nat /\ e[2] >= 1 /\ e[2] \in 1..Len(ChainFile(n, e[1]))
    BY <2>2, <2>3
  <2>. QED
    BY <2>4, <2>5, <2>6, <2>7, <2>8
<1>7. ASSUME NEW L, \A f \in from.file..(n + 1) : L[f] \subseteq 1..Len(ChainFile(n, f))
      PROVE IsFiniteSet(UNION {{f} \X L[f] : f \in from.file..(n + 1)})
  <2>. DEFINE Parts == {{f} \X L[f] : f \in from.file..(n + 1)}
  <2>1. IsFiniteSet(from.file..(n + 1))
    <3>1. from.file \in Int /\ n + 1 \in Int
      BY <1>1
    <3>. QED
      BY <3>1, FS_Interval
  <2>2. IsFiniteSet(Parts)
    <3>. DEFINE part == [f \in from.file..(n + 1) |-> {f} \X L[f]]
    <3>1. part \in Surjection(from.file..(n + 1), Parts)
      BY DEF Surjection
    <3>. QED
      BY <2>1, <3>1, FS_Surjection
  <2>3. \A T \in Parts : IsFiniteSet(T)
    <3>. SUFFICES ASSUME NEW f \in from.file..(n + 1) PROVE IsFiniteSet({f} \X L[f])
      OBVIOUS
    <3>1. PICK m \in Nat : m = Len(ChainFile(n, f))
      BY <1>5
    <3>2. IsFiniteSet(1..m)
      BY FS_Interval
    <3>3. L[f] \in SUBSET (1..m)
      BY <1>7, <3>1
    <3>4. IsFiniteSet(L[f])
      BY <3>2, <3>3, FS_Subset
    <3>5. IsFiniteSet({f})
      BY FS_Singleton
    <3>. QED
      BY <3>4, <3>5, FS_Product, Zenon
  <2>. HIDE DEF Parts
  <2>4. IsFiniteSet(UNION Parts)
    BY <2>2, <2>3, FS_UNION
  <2>. QED
    BY <2>4 DEF Parts
<1>8. IsFiniteSet(Met(n, from))
  <2>1. PICK L : L = [f \in from.file..(n + 1) |-> Rows(ChainFile(n, f), After(from, f))]
    OBVIOUS
  <2>2. \A f \in from.file..(n + 1) : L[f] \subseteq 1..Len(ChainFile(n, f))
    BY <1>5, <2>1
  <2>3. Met(n, from) = UNION {{f} \X L[f] : f \in from.file..(n + 1)}
    BY <2>1 DEF Met
  <2>. QED
    BY <1>7, <2>2, <2>3
<1>9. IsFiniteSet(Holes(n, from))
  <2>1. PICK L : L = [f \in from.file..(n + 1) |-> Others(ChainFile(n, f), After(from, f))]
    OBVIOUS
  <2>2. \A f \in from.file..(n + 1) : L[f] \subseteq 1..Len(ChainFile(n, f))
    BY <1>5, <2>1
  <2>3. Holes(n, from) = UNION {{f} \X L[f] : f \in from.file..(n + 1)}
    BY <2>1 DEF Holes
  <2>. QED
    BY <1>7, <2>2, <2>3
<1>. QED
  BY <1>3, <1>4, <1>6, <1>8, <1>9

\* The latest of finitely many places.
LEMMA LatestOf ==
  ASSUME NEW T, T # {}, NEW m \in Nat,
         \A e \in T : e = <<e[1], e[2]>> /\ e[1] \in Nat /\ e[2] \in Nat /\ e[1] <= m,
         \A f \in Nat : \E b \in Nat : \A e \in T : e[1] = f => e[2] <= b
  PROVE  Latest(T) \in T /\ \A d \in T : ~Before(Latest(T), d)
<1>1. PICK f \in Nat : f \in {e[1] : e \in T} /\ \A e \in T : e[1] <= f
  <2>. DEFINE Firsts == {e[1] : e \in T}
  <2>1. Firsts \subseteq Nat /\ Firsts # {} /\ \A x \in Firsts : x <= m
    OBVIOUS
  <2>. HIDE DEF Firsts
  <2>2. Max(Firsts) \in Firsts /\ \A x \in Firsts : x <= Max(Firsts)
    BY <2>1, GreatestNumber
  <2>3. \A e \in T : e[1] \in Firsts
    BY DEF Firsts
  <2>4. Max(Firsts) \in Nat
    BY <2>1, <2>2
  <2>. QED
    BY <2>2, <2>3, <2>4 DEF Firsts
<1>2. PICK i \in Nat : <<f, i>> \in T /\ \A e \in T : e[1] = f => e[2] <= i
  <2>. DEFINE Seconds == {e[2] : e \in {d \in T : d[1] = f}}
  <2>1. PICK b \in Nat : \A e \in T : e[1] = f => e[2] <= b
    BY <1>1
  <2>2. Seconds \subseteq Nat /\ Seconds # {} /\ \A x \in Seconds : x <= b
    BY <1>1, <2>1
  <2>. HIDE DEF Seconds
  <2>3. Max(Seconds) \in Seconds /\ \A x \in Seconds : x <= Max(Seconds)
    BY <2>2, GreatestNumber
  <2>4. PICK i \in Nat : i = Max(Seconds)
    BY <2>2, <2>3
  <2>5. PICK e \in T : e[1] = f /\ e[2] = i
    BY <2>3, <2>4 DEF Seconds
  <2>6. <<f, i>> \in T
    BY <2>5
  <2>7. \A d \in T : d[1] = f => d[2] <= i
    BY <2>3, <2>4 DEF Seconds
  <2>. QED
    BY <2>6, <2>7
<1>3. ASSUME NEW d \in T PROVE ~Before(<<f, i>>, d)
  BY <1>1, <1>2, <1>3 DEF Before
<1>. QED
  BY <1>2, <1>3 DEF Latest

LEMMA LatestIs ==
  ASSUME NEW T, \A d \in T : d = <<d[1], d[2]>> /\ d[1] \in Nat /\ d[2] \in Nat,
         NEW e \in T, \A d \in T : ~Before(e, d)
  PROVE  Latest(T) = e
<1>1. PICK l : l = Latest(T)
  OBVIOUS
<1>2. l \in T /\ \A d \in T : ~Before(l, d)
  BY <1>1, Zenon DEF Latest
<1>3. ~Before(e, l) /\ ~Before(l, e)
  BY <1>2
<1>4. l = <<l[1], l[2]>> /\ l[1] \in Nat /\ l[2] \in Nat /\ e = <<e[1], e[2]>> /\ e[1] \in Nat /\ e[2] \in Nat
  BY <1>2
<1>5. e[1] = l[1] /\ e[2] = l[2]
  BY <1>3, <1>4 DEF Before
<1>. QED
  BY <1>1, <1>4, <1>5

\* The latest of the receipts met, or of some of them.
LEMMA LatestMet ==
  ASSUME ReceiptsTypeOK, NEW n \in 0..Len(segs), NEW from, Starts(n, from),
         NEW T, T \subseteq Met(n, from), T # {}
  PROVE  Latest(T) \in T /\ \A d \in T : ~Before(Latest(T), d)
<1>1. n + 1 \in Nat /\ \A f \in 1..(n + 1) : Len(ChainFile(n, f)) \in Nat
  BY TheFiles, LinesOf
<1>2. \A e \in T : /\ e = <<e[1], e[2]>> /\ e[1] \in 1..(n + 1) /\ e[1] \in Nat /\ e[2] \in Nat
                   /\ e[2] \in 1..Len(ChainFile(n, e[1]))
  BY MetAre
<1>3. \A e \in T : e[1] <= n + 1 /\ e[2] <= Len(ChainFile(n, e[1]))
  BY <1>1, <1>2
<1>4. ASSUME NEW f \in Nat PROVE \E b \in Nat : \A e \in T : e[1] = f => e[2] <= b
  <2>1. CASE f \in 1..(n + 1)
    BY <1>1, <1>3, <2>1
  <2>2. CASE f \notin 1..(n + 1)
    BY <1>2, <2>2
  <2>. QED
    BY <2>1, <2>2
<1>. QED
  BY <1>1, <1>2, <1>3, <1>4, LatestOf

\* A reader meets every place after its start up to the first gap.
LEMMA Reads ==
  ASSUME ReceiptsTypeOK, NEW n \in 0..Len(segs), NEW from, Starts(n, from),
         NEW e \in Placed(History), e[1] <= n + 1, ChainFile(n, e[1]) = History[e[1]],
         Before(<<from.file, from.pos>>, e), \A d \in Holes(n, from) : ~Before(d, e) /\ d # e
  PROVE  e \in Met(n, from)
<1>1. /\ n \in Nat /\ from.file \in Nat /\ from.pos \in Nat /\ from.file >= 1
      /\ e = <<e[1], e[2]>> /\ e[1] \in Nat /\ e[2] \in Nat /\ e[2] \in 1..Len(History[e[1]])
      /\ History[e[1]] \in Seq(Line)
  <2>1. n \in Nat
    BY TheFiles
  <2>2. from.file \in 1..(n + 1) /\ from.file \in Nat /\ from.pos \in Nat
    BY StartsAt
  <2>3. from.file >= 1
    BY <2>1, <2>2
  <2>4. /\ e = <<e[1], e[2]>> /\ e[1] \in Nat /\ e[2] \in Nat /\ e[2] \in 1..Len(History[e[1]])
        /\ e[1] \in 1..Len(History)
    BY TheFiles, PlacesOf
  <2>5. History[e[1]] \in Seq(Line)
    BY <2>4, TheFiles, FilesOf
  <2>. QED
    BY <2>1, <2>2, <2>3, <2>4, <2>5
<1>2. PICK f \in Nat, k \in Nat, file \in Seq(Line), pos \in Nat :
        /\ f = e[1] /\ k = e[2] /\ file = History[f] /\ pos = After(from, f)
  BY <1>1, StartsAt, Zenon
<1>3. from.file < f \/ (from.file = f /\ from.pos < k)
  BY <1>1, <1>2 DEF Before
<1>4. f \in from.file..(n + 1) /\ pos < k
  <2>1. f <= n + 1 /\ k >= 1 /\ Len(file) \in Nat
    BY <1>1, <1>2, LinesOf
  <2>2. f = from.file => pos = from.pos
    BY <1>2 DEF After
  <2>3. f # from.file => pos = 0
    BY <1>2 DEF After
  <2>. QED
    BY <1>1, <1>3, <2>1, <2>2, <2>3
<1>5. \A i \in Others(file, pos) : <<f, i>> \in Holes(n, from)
  BY <1>2, <1>4, MetAre
<1>6. \A i \in Others(file, pos) : i >= k /\ i # k
  <2>. SUFFICES ASSUME NEW i \in Others(file, pos) PROVE i >= k /\ i # k
    OBVIOUS
  <2>1. ~Before(<<f, i>>, e) /\ <<f, i>> # e
    BY <1>5
  <2>2. i \in Nat
    BY LinesOf
  <2>. QED
    BY <1>1, <1>2, <2>1, <2>2 DEF Before
<1>7. (pos + 1)..k \subseteq Begins(file, pos)
  <2>1. k <= Len(file) /\ Len(file) \in Nat
    BY <1>1, <1>2, LinesOf
  <2>. QED
    BY <1>6, <2>1, WholeLines
<1>8. k \in Begins(file, pos) /\ k \notin Others(file, pos)
  BY <1>4, <1>6, <1>7
<1>9. k \in Rows(file, pos)
  BY <1>8, LinesOf
<1>10. e[1] \in from.file..(n + 1) /\ e[2] \in Rows(ChainFile(n, e[1]), After(from, e[1]))
  BY <1>2, <1>4, <1>9
<1>. QED
  BY <1>1, <1>10, MetAre

-----------------------------------------------------------------------------
(* The history that the appends leave, and the verdict on it.              *)

\* Every segment has its checkpoint; the one of a seal under way is there before the rename.
Committed ==
  /\ \A k \in DOMAIN segs : cps[k] = Ids(segs[k])
  /\ step = "rename" =>
       Len(cps) = Len(segs) + 1 /\ cps[Len(cps)] = Ids(act) /\ Rows(act, 0) # {}

ChainInv ==
  /\ HashOnce(History, issued) /\ Intact(History, damaged) /\ Chained(History) /\ NoneEmpty(History)
  /\ Filed(History, whole) /\ Committed

\* Unedited, it verifies from its first line.
LEMMA Healthy ==
  ASSUME ReceiptsTypeOK, ChainInv, ~damaged
  PROVE  Scan(Len(segs), NoResume).ok
<1>. DEFINE N == Len(segs)
            M == Met(N, NoResume)
<1>0. Intact(History, damaged) /\ Chained(History) /\ NoneEmpty(History) /\ Committed
  BY Zenon DEF ChainInv
<1>1. /\ N \in Nat /\ N \in 0..Len(segs) /\ Starts(N, NoResume) /\ Len(History) = N + 1
      /\ \A f \in 1..(N + 1) : ChainFile(N, f) = History[f] /\ History[f] \in Seq(Line)
      /\ DOMAIN History = 1..(N + 1) /\ DOMAIN segs = 1..N
  <2>1. /\ N \in Nat /\ Len(History) = N + 1 /\ DOMAIN History = 1..(N + 1) /\ DOMAIN segs = 1..N
        /\ History \in Files /\ History[N + 1] = act
    BY TheFiles
  <2>2. N \in 0..Len(segs)
    BY <2>1
  <2>3. ChainFile(N, N + 1) = act /\ \A f \in 1..N : ChainFile(N, f) = History[f]
    BY <2>2, TheFiles
  <2>4. \A f \in 1..(N + 1) : f \in 1..N \/ f = N + 1
    BY <2>1
  <2>5. \A f \in 1..(N + 1) : History[f] \in Seq(Line)
    BY <2>1, FilesOf
  <2>. QED
    BY <2>1, <2>2, <2>3, <2>4, <2>5 DEF Starts
<1>. HIDE DEF N
<1>2. /\ NoResume.file = 1 /\ NoResume.pos = 0 /\ NoResume.head = Genesis
      /\ \A f \in Nat : After(NoResume, f) = 0
  BY DEF NoResume, After
<1>3. \A e : e \in M <=> e = <<e[1], e[2]>> /\ e[1] \in 1..(N + 1) /\ e[2] \in Rows(History[e[1]], 0)
  <2>1. \A e : e \in M <=> /\ e = <<e[1], e[2]>> /\ e[1] \in 1..(N + 1)
                           /\ e[2] \in Rows(ChainFile(N, e[1]), After(NoResume, e[1]))
    BY <1>1, <1>2, MetAre
  <2>2. \A f \in 1..(N + 1) : ChainFile(N, f) = History[f] /\ After(NoResume, f) = 0
    BY <1>1, <1>2
  <2>. QED
    BY <2>1, <2>2
<1>4. \A f \in 1..(N + 1) : /\ Rows(History[f], 0) \subseteq 1..Len(History[f])
                            /\ Rows(History[f], 0) \subseteq Nat /\ Len(History[f]) \in Nat
                            /\ \A j \in Rows(History[f], 0) : j <= Len(History[f])
  <2>. SUFFICES ASSUME NEW f \in 1..(N + 1)
                PROVE  /\ Rows(History[f], 0) \subseteq 1..Len(History[f])
                       /\ Rows(History[f], 0) \subseteq Nat /\ Len(History[f]) \in Nat
                       /\ \A j \in Rows(History[f], 0) : j <= Len(History[f])
    OBVIOUS
  <2>1. PICK file \in Seq(Line) : file = History[f]
    BY <1>1
  <2>2. /\ Rows(file, 0) \subseteq Begins(file, 0) /\ Begins(file, 0) \subseteq (0 + 1)..Len(file)
        /\ Rows(file, 0) \subseteq Nat /\ Len(file) \in Nat
    BY LinesOf
  <2>. QED
    BY <2>1, <2>2
<1>5. \A e \in M : e[1] \in Nat /\ e[2] \in Nat /\ Row(N, e) = History[e[1]][e[2]]
  BY <1>1, <1>3, <1>4 DEF Row
<1>6. ASSUME NEW e \in M PROVE Row(N, e).ok /\ Row(N, e).prev = Link(N, NoResume, e)
  <2>1. PICK f, i : f \in 1..(N + 1) /\ i \in Rows(History[f], 0) /\ e = <<f, i>>
    BY <1>3
  <2>2. f \in Nat /\ i \in Nat /\ i \in 1..Len(History[f]) /\ Row(N, e) = History[f][i]
    BY <1>4, <1>5, <2>1
  <2>3. Row(N, e).ok
    <3>1. e \in Placed(History) /\ At(History, e) = History[f][i]
      BY <1>1, <2>1, <2>2, TheFiles, PlacesOf
    <3>. QED
      BY <1>0, <2>2, <3>1 DEF Intact
  <2>4. History[f][i].prev = PrevId(History, f, i)
    BY <1>0, <1>1, <2>1 DEF Chained
  <2>. DEFINE earlier == {d \in M : Before(d, e)}
              up == {j \in Rows(History[f], 0) : j < i}
  <2>5. /\ \A j \in up : <<f, j>> \in earlier
        /\ \A d \in earlier : d[1] < f \/ (d[1] = f /\ d[2] \in up)
        /\ \A d \in earlier : d = <<d[1], d[2]>> /\ d[1] \in Nat /\ d[2] \in Nat
    <3>1. ASSUME NEW j \in up PROVE <<f, j>> \in earlier
      BY <1>3, <2>1, <2>2 DEF Before
    <3>2. ASSUME NEW d \in earlier PROVE d[1] < f \/ (d[1] = f /\ d[2] \in up)
      BY <1>3, <2>1 DEF Before
    <3>. QED
      BY <1>3, <1>5, <3>1, <3>2
  <2>6. Link(N, NoResume, e) = IF earlier = {} THEN Genesis ELSE Row(N, Latest(earlier)).id
    BY <1>2 DEF Link
  <2>7. CASE up # {}
    <3>1. Max(up) \in up /\ \A j \in up : j <= Max(up)
      <4>1. up \subseteq Nat /\ Len(History[f]) \in Nat /\ \A j \in up : j <= Len(History[f])
        BY <1>4, <2>1
      <4>. HIDE DEF up
      <4>. QED
        BY <2>7, <4>1, GreatestNumber
    <3>2. PICK m \in Nat : m = Max(up) /\ m \in up /\ \A j \in up : j <= m
      BY <1>4, <2>1, <3>1
    <3>3. <<f, m>> \in earlier /\ \A d \in earlier : ~Before(<<f, m>>, d)
      <4>1. <<f, m>> \in earlier
        BY <2>5, <3>2
      <4>2. ASSUME NEW d \in earlier PROVE ~Before(<<f, m>>, d)
        <5>1. d[1] \in Nat /\ d[2] \in Nat /\ (d[1] < f \/ (d[1] = f /\ d[2] <= m))
          BY <2>5, <3>2
        <5>. QED
          BY <2>2, <3>2, <5>1 DEF Before
      <4>. QED
        BY <4>1, <4>2
    <3>. HIDE DEF earlier
    <3>4. Latest(earlier) = <<f, m>>
      BY <2>5, <3>3, LatestIs
    <3>5. Row(N, <<f, m>>) = History[f][m]
      <4>1. <<f, m>>[1] = f /\ <<f, m>>[2] = m /\ <<f, m>> \in M
        BY <3>3 DEF earlier
      <4>. QED
        BY <1>5, <4>1
    <3>6. PrevId(History, f, i) = History[f][m].id
      BY <2>7, <3>2, Zenon DEF PrevId
    <3>. QED
      BY <2>2, <2>3, <2>4, <2>6, <3>3, <3>4, <3>5, <3>6
  <2>8. CASE up = {} /\ f = 1
    <3>1. earlier = {}
      <4>1. \A d \in earlier : d[1] < f
        BY <2>5, <2>8
      <4>2. \A d \in earlier : d[1] >= 1
        BY <1>3
      <4>. QED
        BY <2>5, <2>8, <4>1, <4>2
    <3>2. PrevId(History, f, i) = Genesis
      BY <2>8 DEF PrevId
    <3>. QED
      BY <2>2, <2>3, <2>4, <2>6, <3>1, <3>2
  <2>9. CASE up = {} /\ f # 1
    <3>1. f - 1 \in 1..N /\ f - 1 \in 1..(N + 1) /\ f - 1 \in Nat
      BY <1>1, <2>1, <2>9
    <3>2. PICK file \in Seq(Line) : file = History[f - 1]
      BY <1>1, <3>1
    <3>3. Rows(file, 0) # {}
      <4>1. Len(History) - 1 = N
        BY <1>1
      <4>2. \A k \in 1..(Len(History) - 1) : Rows(History[k], 0) # {}
        BY <1>0, Zenon DEF NoneEmpty
      <4>. QED
        BY <3>1, <3>2, <4>1, <4>2
    <3>4. PICK m \in Nat : m = Max(Rows(file, 0)) /\ m \in Rows(file, 0) /\ \A j \in Rows(file, 0) : j <= m
      <4>1. Max(Rows(file, 0)) \in Rows(file, 0) /\ \A j \in Rows(file, 0) : j <= Max(Rows(file, 0))
        BY <3>3, LastRow
      <4>2. Rows(file, 0) \subseteq Nat
        BY <1>4, <3>1, <3>2
      <4>. QED
        BY <4>1, <4>2
    <3>5. LastId(file) = file[m].id
      BY <3>3, <3>4, LastRow
    <3>6. PICK g \in Nat : g = f - 1
      BY <3>1
    <3>7. <<g, m>> \in earlier
      <4>1. <<g, m>> = <<<<g, m>>[1], <<g, m>>[2]>> /\ <<g, m>>[1] = g /\ <<g, m>>[2] = m
        OBVIOUS
      <4>2. <<g, m>> \in M
        BY <1>3, <3>1, <3>2, <3>4, <3>6, <4>1
      <4>3. Before(<<g, m>>, e)
        BY <2>1, <2>2, <3>6 DEF Before
      <4>. QED
        BY <4>2, <4>3
    <3>8. ASSUME NEW d \in earlier PROVE ~Before(<<g, m>>, d)
      <4>1. d[1] < f /\ d[1] \in Nat /\ d[2] \in Nat
        BY <2>5, <2>9
      <4>2. d[1] = g => d[2] \in Rows(file, 0)
        BY <1>3, <3>2, <3>6
      <4>3. d[1] = g => d[2] <= m
        BY <3>4, <4>2
      <4>. QED
        BY <2>2, <3>6, <4>1, <4>3 DEF Before
    <3>. HIDE DEF earlier
    <3>9. Latest(earlier) = <<g, m>>
      BY <2>5, <3>7, <3>8, LatestIs
    <3>10. Row(N, <<g, m>>) = file[m]
      <4>1. <<g, m>>[1] = g /\ <<g, m>>[2] = m /\ <<g, m>> \in M
        BY <3>7 DEF earlier
      <4>. QED
        BY <1>5, <3>2, <3>6, <4>1
    <3>11. PrevId(History, f, i) = file[m].id
      BY <2>9, <3>2, <3>5 DEF PrevId
    <3>. QED
      BY <2>2, <2>3, <2>4, <2>6, <3>7, <3>9, <3>10, <3>11
  <2>. QED
    BY <2>7, <2>8, <2>9
<1>7. Linked(N, NoResume)
  BY <1>6 DEF Linked
<1>8. Sealed(N, 1)
  <2>1. \A k \in 1..N : k \in DOMAIN cps
    <3>1. cps \in Seq(SUBSET (Nat \X Nat)) /\ Len(cps) \in {N, N + 1}
      BY DEF ReceiptsTypeOK, N
    <3>2. DOMAIN cps = 1..Len(cps)
      BY <3>1, LenProperties
    <3>3. 1..N \subseteq 1..(N + 1)
      BY <1>1
    <3>. QED
      BY <3>1, <3>2, <3>3, Zenon
  <2>. QED
    BY <1>0, <1>1, <2>1 DEF Sealed, Committed
<1>. QED
  BY <1>2, <1>7, <1>8 DEF Scan, N

\* What was counted before the start, and what was met after it.
LEMMA Counted ==
  ASSUME ReceiptsTypeOK, NEW n \in 0..Len(segs), NEW from, Starts(n, from), from.skipped = 0,
         NEW T, T \subseteq Upto(History, from) \cup Met(n, from)
  PROVE  Cardinality(T) <= from.count + Cardinality(Met(n, from))
<1>. DEFINE U == Upto(History, from)
            M == Met(n, from)
<1>1. IsFiniteSet(U)
  <2>1. U \in SUBSET Placed(History) /\ IsFiniteSet(Placed(History))
    BY TheFiles, PlacesOf DEF Upto
  <2>. QED
    BY <2>1, FS_Subset
<1>2. IsFiniteSet(M) /\ Cardinality(U) <= from.count /\ from.count \in Nat
  BY MetAre, StartsAt
<1>. HIDE DEF U, M
<1>3. /\ IsFiniteSet(U \cup M)
      /\ Cardinality(U \cup M) = Cardinality(U) + Cardinality(M) - Cardinality(U \cap M)
  BY <1>1, <1>2, FS_Union
<1>4. Cardinality(U) \in Nat /\ Cardinality(M) \in Nat
  BY <1>1, <1>2, FS_CardinalityType
<1>5. Cardinality(U \cap M) \in Nat
  <2>1. U \cap M \in SUBSET U
    OBVIOUS
  <2>2. IsFiniteSet(U \cap M)
    BY <1>1, <2>1, FS_Subset
  <2>. QED
    BY <2>2, FS_CardinalityType
<1>6. T \in SUBSET (U \cup M)
  BY DEF U, M
<1>7. IsFiniteSet(T) /\ Cardinality(T) <= Cardinality(U \cup M)
  BY <1>3, <1>6, FS_Subset
<1>8. Cardinality(T) \in Nat
  BY <1>7, FS_CardinalityType
<1>9. Cardinality(T) <= from.count + Cardinality(M)
  BY <1>2, <1>3, <1>4, <1>5, <1>7, <1>8
<1>. QED
  BY <1>9 DEF M

\* The next resume point is the old one, or the receipt met last: at its place, with all
\* before it counted unless a gap was, or in the file that a seal has taken away since.
LEMMA Pointed ==
  ASSUME ReceiptsTypeOK, NEW n \in 0..Len(segs), NEW from, Starts(n, from),
         HashOnce(History, issued), NEW r, r = NextResume(n, from)
  PROVE  r \in Point /\ (r = from \/ Sound(History, r) \/ Stale(History, r))
<1>. DEFINE M == Met(n, from)
            last == Latest(M)
            early == {e \in Holes(n, from) : Before(e, last)}
<1>1. CASE M = {}
  BY <1>1, StartsAt DEF NextResume
<1>2. CASE M # {}
  <2>1. r = [count |-> from.count + Cardinality(M), head |-> Row(n, last).id,
             file |-> last[1], pos |-> last[2], skipped |-> from.skipped + Cardinality(early)]
    BY <1>2 DEF NextResume
  <2>2. last \in M /\ \A d \in M : ~Before(last, d)
    BY <1>2, LatestMet
  <2>. HIDE DEF last, M
  <2>3. PICK f, i, id : f = last[1] /\ i = last[2] /\ id = Row(n, last).id
    OBVIOUS
  <2>4. /\ last = <<f, i>> /\ f \in 1..(n + 1) /\ f \in Nat /\ i \in Nat /\ i >= 1 /\ id # Genesis /\ id \in Nat
        /\ i \in Rows(ChainFile(n, f), After(from, f)) /\ i \in 1..Len(ChainFile(n, f))
        /\ ChainFile(n, f)[i].id = id
    <3>1. \A e \in M : /\ e = <<e[1], e[2]>> /\ e[2] \in Rows(ChainFile(n, e[1]), After(from, e[1]))
                       /\ e[1] \in 1..(n + 1) /\ e[1] \in Nat /\ e[2] \in Nat /\ e[2] >= 1
                       /\ e[2] \in 1..Len(ChainFile(n, e[1])) /\ Row(n, e) \in Line /\ Row(n, e).id # Genesis
      BY MetAre DEF M
    <3>. QED
      BY <2>2, <2>3, <3>1 DEF Row, Line
  <2>5. IsFiniteSet(M) /\ IsFiniteSet(early)
    <3>1. IsFiniteSet(M) /\ IsFiniteSet(Holes(n, from)) /\ early \in SUBSET Holes(n, from)
      BY MetAre DEF M
    <3>. QED
      BY <3>1, FS_Subset
  <2>6. Cardinality(M) \in Nat /\ Cardinality(early) \in Nat
    BY <2>5, FS_CardinalityType
  <2>7. from.count \in Nat /\ from.skipped \in Nat /\ from.file \in 1..(n + 1)
    BY StartsAt
  <2>8. /\ r.count = from.count + Cardinality(M) /\ r.head = id /\ r.file = f /\ r.pos = i
        /\ r.skipped = from.skipped + Cardinality(early)
    BY <2>1, <2>3
  <2>9. r \in Point
    <3>1. /\ from.count + Cardinality(M) \in Nat /\ from.skipped + Cardinality(early) \in Nat
          /\ f \in Nat \ {0} /\ i \in Nat /\ id \in Nat
      <4>1. from.count + Cardinality(M) \in Nat /\ from.skipped + Cardinality(early) \in Nat
        BY <2>6, <2>7
      <4>2. n \in Nat
        BY TheFiles
      <4>. QED
        BY <2>4, <4>1, <4>2
    <3>2. r = [count |-> from.count + Cardinality(M), head |-> id, file |-> f, pos |-> i,
               skipped |-> from.skipped + Cardinality(early)]
      BY <2>1, <2>3, Zenon
    <3>. HIDE DEF early
    <3>. QED
      BY <3>1, <3>2 DEF Point
  <2>10. Len(segs) \in Nat /\ n \in Nat /\ n <= Len(segs)
    BY TheFiles
  <2>11. CASE ChainFile(n, f) = History[f] /\ f \in 1..(Len(segs) + 1)
    <3>1. r.file \in DOMAIN History /\ r.pos \in DOMAIN History[r.file] /\ History[r.file][r.pos].id = r.head
      <4>1. f \in DOMAIN History /\ DOMAIN History[f] = 1..Len(History[f])
        BY <2>11, TheFiles, FilesOf
      <4>. QED
        BY <2>4, <2>8, <2>11, <4>1
    <3>2. ASSUME r.skipped = 0 PROVE Cardinality(Upto(History, r)) <= r.count
      <4>1. from.skipped = 0 /\ early = {}
        <5>1. from.skipped = 0 /\ Cardinality(early) = 0
          BY <2>6, <2>7, <2>8, <3>2
        <5>. QED
          BY <2>5, <5>1, FS_EmptySet
      <4>2. ASSUME NEW e \in Upto(History, r), e \notin Upto(History, from) PROVE e \in M
        <5>1. e \in Placed(History) /\ ~Before(last, e) /\ Before(<<from.file, from.pos>>, e)
          BY <2>4, <2>8, <4>2 DEF Upto
        <5>2. /\ e = <<e[1], e[2]>> /\ e[1] \in Nat /\ e[2] \in Nat /\ e[1] \in 1..(Len(segs) + 1)
          BY <5>1, TheFiles, PlacesOf
        <5>3. e[1] < f \/ (e[1] = f /\ e[2] <= i)
          BY <2>4, <5>1, <5>2 DEF Before
        <5>4. e[1] <= n + 1 /\ ChainFile(n, e[1]) = History[e[1]]
          <6>1. CASE e[1] = f
            BY <2>4, <2>10, <2>11, <6>1
          <6>2. CASE e[1] < f
            <7>1. e[1] \in 1..n /\ e[1] <= n + 1
              BY <2>4, <2>10, <5>2, <6>2
            <7>. QED
              BY <7>1, TheFiles
          <6>. QED
            BY <5>3, <6>1, <6>2
        <5>5. CASE e = last
          BY <2>2, <5>5
        <5>6. CASE e # last
          <6>1. ASSUME NEW d \in Holes(n, from) PROVE ~Before(d, e) /\ d # e
            <7>1. ~Before(d, last)
              BY <4>1
            <7>2. d[1] \in Nat /\ d[2] \in Nat /\ d = <<d[1], d[2]>>
              <8>1. /\ d = <<d[1], d[2]>> /\ d[1] \in from.file..(n + 1)
                    /\ d[2] \in Others(ChainFile(n, d[1]), After(from, d[1]))
                BY MetAre
              <8>2. d[1] \in 1..(n + 1) /\ d[1] \in Nat
                BY <2>7, <2>10, <8>1
              <8>3. ChainFile(n, d[1]) \in Seq(Line) /\ After(from, d[1]) \in Nat
                BY <8>2, TheFiles, StartsAt
              <8>4. d[2] \in Nat
                BY <8>1, <8>3, LinesOf
              <8>. QED
                BY <8>1, <8>2, <8>4
            <7>3. e[1] < f \/ (e[1] = f /\ e[2] < i)
              BY <2>4, <5>2, <5>3, <5>6
            <7>4. Before(e, last)
              BY <2>4, <7>3 DEF Before
            <7>5. ~Before(d, e)
              BY <2>4, <5>2, <7>1, <7>2, <7>3 DEF Before
            <7>. QED
              BY <7>1, <7>4, <7>5
          <6>. QED
            BY <5>1, <5>4, <6>1, Reads DEF M
        <5>. QED
          BY <5>5, <5>6
      <4>3. Upto(History, r) \subseteq Upto(History, from) \cup Met(n, from)
        BY <4>2 DEF M
      <4>. QED
        BY <2>8, <4>1, <4>3, Counted DEF M
    <3>. QED
      BY <2>4, <2>8, <2>9, <3>1, <3>2 DEF Sound
  <2>12. CASE ~(ChainFile(n, f) = History[f] /\ f \in 1..(Len(segs) + 1))
    <3>1. f = n + 1 /\ n < Len(segs)
      <4>1. f \in 1..n => ChainFile(n, f) = History[f] /\ f \in 1..(Len(segs) + 1)
        BY <2>10, TheFiles
      <4>2. f = n + 1
        BY <2>4, <2>10, <2>12, <4>1
      <4>3. n = Len(segs) => ChainFile(n, f) = History[f] /\ f \in 1..(Len(segs) + 1)
        BY <2>10, <4>2, TheFiles
      <4>. QED
        BY <2>10, <2>12, <4>2, <4>3
    <3>2. PICK k \in Nat : k = Len(segs) + 1
      BY <2>10
    <3>3. /\ <<k, i>> \in Placed(History) /\ At(History, <<k, i>>).id = id
      <4>1. History[k] = act /\ ChainFile(n, f) = act /\ Len(History) = k /\ History \in Files
        BY <2>10, <3>1, <3>2, TheFiles
      <4>2. k \in 1..Len(History) /\ i \in 1..Len(History[k]) /\ History[k][i].id = id
        BY <2>4, <3>2, <2>10, <4>1
      <4>. QED
        BY <4>1, <4>2, PlacesOf
    <3>4. \A j \in DOMAIN History[f] : History[f][j].id # id
      <4>1. f \in 1..Len(History) /\ History \in Files /\ DOMAIN History[f] = 1..Len(History[f]) /\ f # k
        <5>1. f \in 1..Len(History) /\ History \in Files /\ f # k
          BY <2>4, <2>10, <3>1, <3>2, TheFiles
        <5>. QED
          BY <5>1, FilesOf
      <4>2. \A j \in 1..Len(History[f]) : /\ <<f, j>> \in Placed(History)
                                          /\ At(History, <<f, j>>) = History[f][j]
        BY <4>1, PlacesOf
      <4>3. \A j : <<f, j>> # <<k, i>>
        BY <4>1
      <4>. QED
        BY <2>4, <3>3, <4>1, <4>2, <4>3 DEF HashOnce
    <3>5. r.file < Len(History) /\ r.pos >= 1
      BY <2>4, <2>8, <2>10, <3>1, TheFiles
    <3>. QED
      BY <2>8, <2>9, <3>4, <3>5 DEF Stale
  <2>. QED
    BY <2>11, <2>12
<1>. QED
  BY <1>1, <1>2

\* Every place is after the start of a reader without a resume point.
LEMMA FromFirst ==
  ASSUME ReceiptsTypeOK
  PROVE  /\ \A n \in 0..Len(segs) : Starts(n, NoResume)
         /\ \A e \in Placed(History) : Before(<<NoResume.file, NoResume.pos>>, e)
<1>1. \A e \in Placed(History) : e[1] \in 1..Len(History) /\ e[2] \in 1..Len(History[e[1]])
  BY TheFiles, PlacesOf
<1>2. \A e \in Placed(History) : e[1] \in Nat /\ e[2] \in Nat
  BY TheFiles, PlacesOf
<1>. QED
  BY <1>1, <1>2 DEF Before, NoResume, Starts

LEMMA VerdictOf ==
  ASSUME ReceiptsTypeOK, NEW n \in 0..Len(segs), NEW from, Starts(n, from)
  PROVE  /\ Scan(n, from) \in [ok : BOOLEAN, total : Nat, skipped : Nat]
         /\ Scan(n, from).total = from.count + Cardinality(Met(n, from))
         /\ Scan(n, from).skipped = 0 => from.skipped = 0 /\ Holes(n, from) = {}
<1>1. /\ IsFiniteSet(Met(n, from)) /\ IsFiniteSet(Holes(n, from))
      /\ from.count \in Nat /\ from.skipped \in Nat
  BY MetAre, StartsAt
<1>2. Cardinality(Met(n, from)) \in Nat /\ Cardinality(Holes(n, from)) \in Nat
  BY <1>1, FS_CardinalityType
<1>3. /\ from.count + Cardinality(Met(n, from)) \in Nat
      /\ from.skipped + Cardinality(Holes(n, from)) \in Nat
      /\ from.skipped + Cardinality(Holes(n, from)) = 0 =>
           from.skipped = 0 /\ Cardinality(Holes(n, from)) = 0
  BY <1>1, <1>2
<1>4. (Linked(n, from) /\ Sealed(n, IF from.pos = 0 THEN from.file ELSE from.file + 1)) \in BOOLEAN
  BY Zenon
<1>5. Cardinality(Holes(n, from)) = 0 => Holes(n, from) = {}
  BY <1>1, FS_EmptySet
<1>. QED
  BY <1>3, <1>4, <1>5 DEF Scan

\* A pass does not call a history good that has an edited receipt after its start.
LEMMA Found ==
  ASSUME ReceiptsTypeOK, ChainInv, NEW from, Starts(Len(segs), from),
         NEW e \in Placed(History), ~At(History, e).ok, Before(<<from.file, from.pos>>, e)
  PROVE  ~Scan(Len(segs), from).ok
<1>1. PICK n \in Nat : n = Len(segs) /\ n \in 0..Len(segs)
  <2>1. Len(segs) \in Nat
    BY TheFiles
  <2>2. Len(segs) \in 0..Len(segs)
    BY <2>1
  <2>. QED
    BY <2>1, <2>2, Zenon
<1>2. Starts(n, from) /\ from.file \in 1..(n + 1) /\ from.file \in Nat /\ from.pos \in Nat
  BY <1>1, StartsAt
<1>3. /\ e = <<e[1], e[2]>> /\ e[1] \in 1..(n + 1) /\ e[1] \in Nat /\ e[2] \in Nat
      /\ e[2] \in 1..Len(History[e[1]]) /\ History[e[1]] \in Seq(Line)
  BY <1>1, TheFiles, PlacesOf, FilesOf
<1>4. ChainFile(n, e[1]) = History[e[1]]
  <2>1. e[1] \in 1..n \/ e[1] = n + 1
    BY <1>3
  <2>. QED
    BY <1>1, <2>1, TheFiles
<1>5. At(History, e).nl /\ e[2] \in Rows(History[e[1]], 0)
  BY DEF ChainInv, Intact
<1>6. PICK f \in Nat, i \in Nat, file \in Seq(Line), pos \in Nat :
        f = e[1] /\ i = e[2] /\ file = History[f] /\ pos = After(from, f)
  BY <1>1, <1>2, <1>3, StartsAt, Zenon
<1>7. from.file < f \/ (from.file = f /\ from.pos < i)
  BY <1>2, <1>3, <1>6 DEF Before
<1>8. pos < i /\ f \in from.file..(n + 1)
  <2>1. f = from.file => pos = from.pos
    BY <1>6 DEF After
  <2>2. f # from.file => pos = 0
    BY <1>6 DEF After
  <2>3. i >= 1 /\ f <= n + 1
    BY <1>3, <1>6
  <2>. QED
    BY <1>2, <1>7, <2>1, <2>2, <2>3
<1>9. i \in Rows(file, pos)
  <2>1. i \in Rows(file, 0) /\ i \in 1..Len(file) /\ Len(file) \in Nat
    BY <1>3, <1>5, <1>6, LinesOf
  <2>2. (i = 1 \/ file[i - 1].nl) /\ file[i].id # Genesis /\ (file[i].nl \/ i = Len(file))
    BY <2>1 DEF Rows, Begins
  <2>3. i \in (pos + 1)..Len(file) /\ (i = pos + 1 \/ file[i - 1].nl)
    BY <1>8, <2>1, <2>2
  <2>. QED
    BY <2>2, <2>3 DEF Rows, Begins
<1>10. e \in Met(n, from)
  <2>1. e[1] \in from.file..(n + 1) /\ e[2] \in Rows(ChainFile(n, e[1]), After(from, e[1]))
    BY <1>4, <1>6, <1>8, <1>9
  <2>. QED
    BY <1>1, <1>2, <1>3, <2>1, MetAre
<1>11. ~Row(n, e).ok
  BY <1>4 DEF Row, At
<1>12. ~Linked(n, from)
  BY <1>10, <1>11 DEF Linked
<1>. QED
  BY <1>1, <1>12 DEF Scan

\* A verdict without gaps counts every append that came back without an error.
LEMMA NoneMissed ==
  ASSUME ReceiptsTypeOK, ChainInv, NEW from, Starts(Len(segs), from),
         Scan(Len(segs), from).skipped = 0, NEW B, B \subseteq whole
  PROVE  Scan(Len(segs), from).total >= Cardinality(B)
<1>1. PICK n \in Nat : n = Len(segs) /\ n \in 0..Len(segs)
  <2>1. Len(segs) \in Nat
    BY TheFiles
  <2>2. Len(segs) \in 0..Len(segs)
    BY <2>1
  <2>. QED
    BY <2>1, <2>2, Zenon
<1>2. from.skipped = 0 /\ Holes(n, from) = {} /\ Starts(n, from)
      /\ Scan(n, from).total = from.count + Cardinality(Met(n, from)) /\ Scan(n, from).total \in Nat
  BY <1>1, VerdictOf
<1>3. Placed(History) \subseteq Upto(History, from) \cup Met(n, from)
  <2>. SUFFICES ASSUME NEW e \in Placed(History), e \notin Upto(History, from)
                PROVE  e \in Met(n, from)
    OBVIOUS
  <2>1. Before(<<from.file, from.pos>>, e)
    BY DEF Upto
  <2>2. e[1] \in 1..(n + 1) /\ e[1] \in Nat
    BY <1>1, TheFiles, PlacesOf
  <2>3. ChainFile(n, e[1]) = History[e[1]]
    <3>1. e[1] \in 1..n \/ e[1] = n + 1
      BY <2>2
    <3>. QED
      BY <1>1, <3>1, TheFiles
  <2>4. e[1] <= n + 1
    BY <2>2
  <2>. QED
    BY <1>1, <1>2, <2>1, <2>3, <2>4, Reads
<1>4. Cardinality(Placed(History)) <= from.count + Cardinality(Met(n, from))
  BY <1>1, <1>2, <1>3, Counted
<1>5. IsFiniteSet(Placed(History))
  BY TheFiles, PlacesOf
<1>6. IsFiniteSet(B) /\ Cardinality(B) <= Cardinality(Placed(History))
  <2>. DEFINE place == [id \in B |-> CHOOSE e \in Placed(History) : At(History, e).id = id]
  <2>1. \A id \in B : place[id] \in Placed(History) /\ At(History, place[id]).id = id
    BY DEF ChainInv, Filed
  <2>2. place \in Injection(B, Placed(History))
    <3>1. place \in [B -> Placed(History)]
      BY <2>1
    <3>. HIDE DEF place
    <3>2. \A a, b \in B : place[a] = place[b] => a = b
      BY <2>1
    <3>. QED
      BY <3>1, <3>2 DEF Injection, IsInjective
  <2>. QED
    BY <1>5, <2>2, FS_Injection
<1>7. Cardinality(B) \in Nat /\ Cardinality(Placed(History)) \in Nat
  BY <1>5, <1>6, FS_CardinalityType
<1>. QED
  BY <1>1, <1>2, <1>4, <1>6, <1>7

-----------------------------------------------------------------------------
(* The invariant, and the steps of append() and of the damage.             *)

Resumable == resume = NoResume \/ Sound(History, resume) \/ Stale(History, resume)

\* A pass lists the segments there were, or since: another listing is a longer one.
Listed ==
  ver.pc # "rest" =>
    /\ ver.seals <= ver.n /\ ver.n <= Len(segs) /\ (ver.again => ver.n > ver.seals)
    /\ ver.before \subseteq whole
    /\ ver.pc = "peek" =>
         /\ ~ver.full
         /\ Sound(History, resume) \/ (Stale(History, resume) /\ resume.file <= ver.n)
    /\ IF ver.pc = "tail" THEN Starts(ver.n, ver.from) ELSE ver.from = NoResume
    /\ ver.pc = "relist" => ~ver.v.ok /\ (~damaged => ver.n < Len(segs))

\* What the pass has to find is still ahead of it.
ToFind ==
  ver.pc \in {"scan", "peek", "tail", "relist"} /\ ver.edited =>
    \E e \in Placed(History) :
      /\ ~At(History, e).ok
      /\ ver.full \/ ~Before(e, <<resume.file, resume.pos>>)
      /\ ver.pc = "tail" => Before(<<ver.from.file, ver.from.pos>>, e)

ReaderInv == Resumable /\ Listed /\ ToFind /\ NoFalseAlarm

ReceiptsInv == ReceiptsTypeOK /\ ChainInv /\ ReaderInv

LEMMA ChainKept ==
  ASSUME ChainInv, Committed', segs' = segs, act' = act, issued' = issued, whole' = whole,
         damaged' = damaged
  PROVE  ChainInv'
<1>1. History' = History
  BY DEF History
<1>2. /\ HashOnce(History, issued) /\ Intact(History, damaged) /\ Chained(History) /\ NoneEmpty(History)
      /\ Filed(History, whole)
  BY Zenon DEF ChainInv
<1>3. /\ HashOnce(History', issued') /\ Intact(History', damaged') /\ Chained(History')
      /\ NoneEmpty(History') /\ Filed(History', whole')
  BY <1>1, <1>2, Zenon
<1>. QED
  BY <1>3, Zenon DEF ChainInv

LEMMA ReaderStays ==
  ASSUME ReceiptsTypeOK, ReceiptsTypeOK', ReaderInv, resume' = resume, ver' = ver,
         Grown(History, History'), whole \subseteq whole', damaged => damaged',
         Len(segs) <= Len(segs')
  PROVE  ReaderInv'
<1>1. /\ History \in Files /\ History' \in Files /\ Len(segs) \in Nat /\ Len(segs') \in Nat
      /\ resume \in Point
  <2>1. segs' \in Seq(Seq(Line)) /\ act' \in Seq(Line) /\ resume \in Point
    BY DEF ReceiptsTypeOK
  <2>2. History' \in Files /\ Len(segs') \in Nat
    BY <2>1, AppendProperties, LenProperties DEF History, Files
  <2>. QED
    BY <2>1, <2>2, TheFiles
<1>2. /\ \A r \in Point : Sound(History, r) => Sound(History', r)
      /\ \A r \in Point : Stale(History, r) => Stale(History', r)
      /\ \A d \in Placed(History) : /\ d \in Placed(History')
                                    /\ ~At(History, d).ok => ~At(History', d).ok
  BY <1>1, PointsStay
<1>3. ver = Resting \/ (ver \in Pass /\ ver.seals \in Nat /\ ver.n \in Nat)
  BY DEF ReceiptsTypeOK, Pass
<1>4. Resumable'
  <2>1. Resumable
    BY DEF ReaderInv
  <2>. QED
    BY <1>1, <1>2, <2>1 DEF Resumable
<1>5. ver.pc # "rest" => ver.seals \in Nat /\ ver.n \in Nat
  BY <1>3 DEF Resting
<1>6. Listed'
  <2>. SUFFICES ASSUME ver.pc # "rest"
                PROVE  /\ ver.seals <= ver.n /\ ver.n <= Len(segs') /\ (ver.again => ver.n > ver.seals)
                       /\ ver.before \subseteq whole'
                       /\ ver.pc = "peek" =>
                            /\ ~ver.full
                            /\ Sound(History', resume) \/ (Stale(History', resume) /\ resume.file <= ver.n)
                       /\ IF ver.pc = "tail" THEN Starts(ver.n, ver.from)' ELSE ver.from = NoResume
                       /\ ver.pc = "relist" => ~ver.v.ok /\ (~damaged' => ver.n < Len(segs'))
    BY DEF Listed
  <2>1. /\ ver.seals <= ver.n /\ ver.n <= Len(segs) /\ (ver.again => ver.n > ver.seals)
        /\ ver.before \subseteq whole
        /\ ver.pc = "peek" =>
             ~ver.full /\ (Sound(History, resume) \/ (Stale(History, resume) /\ resume.file <= ver.n))
        /\ ver.pc = "tail" => Starts(ver.n, ver.from)
        /\ ver.pc # "tail" => ver.from = NoResume
        /\ ver.pc = "relist" => ~ver.v.ok /\ (~damaged => ver.n < Len(segs))
    BY DEF ReaderInv, Listed
  <2>2. ver.pc = "tail" => Starts(ver.n, ver.from)'
    BY <1>2, <2>1 DEF Starts
  <2>3. ver.n <= Len(segs') /\ (ver.n < Len(segs) => ver.n < Len(segs'))
    BY <1>1, <1>5, <2>1
  <2>. QED
    BY <1>1, <1>2, <2>1, <2>2, <2>3
<1>7. ToFind'
  <2>. SUFFICES ASSUME ver.pc \in {"scan", "peek", "tail", "relist"}, ver.edited
                PROVE  \E e \in Placed(History') :
                         /\ ~At(History', e).ok
                         /\ ver.full \/ ~Before(e, <<resume.file, resume.pos>>)
                         /\ ver.pc = "tail" => Before(<<ver.from.file, ver.from.pos>>, e)
    BY DEF ToFind
  <2>1. PICK e \in Placed(History) :
          /\ ~At(History, e).ok
          /\ ver.full \/ ~Before(e, <<resume.file, resume.pos>>)
          /\ ver.pc = "tail" => Before(<<ver.from.file, ver.from.pos>>, e)
    BY DEF ReaderInv, ToFind
  <2>. QED
    BY <1>2, <2>1
<1>8. NoFalseAlarm'
  <2>1. ver.pc = "told" /\ Len(segs') <= ver.seals + 1 => Len(segs) <= ver.seals + 1
    BY <1>1, <1>5
  <2>. QED
    BY <2>1 DEF ReaderInv, NoFalseAlarm
<1>. QED
  BY <1>4, <1>6, <1>7, <1>8 DEF ReaderInv

\* The steps of append() that leave the files as they are.
LEMMA IdleStep ==
  ASSUME ReceiptsAssumption, ReceiptsInv, ReceiptsTypeOK', Committed',
         UNCHANGED <<segs, act, resume, ver, whole, issued, damaged>>
  PROVE  ReceiptsInv'
<1>1. History' = History /\ segs' = segs /\ whole' = whole /\ damaged' = damaged
  BY DEF History
<1>2. History \in Files /\ Len(segs) \in Nat
  BY TheFiles DEF ReceiptsInv
<1>3. Grown(History, History')
  <2>1. \A f \in 1..Len(History) : Len(History[f]) \in Nat
    BY <1>2, FilesOf
  <2>2. Len(History) \in Nat
    BY <1>2, FilesOf
  <2>. QED
    BY <1>1, <2>1, <2>2 DEF Grown
<1>4. ChainInv'
  BY <1>1, ChainKept DEF ReceiptsInv
<1>5. ReaderInv'
  <2>1. Len(segs) <= Len(segs')
    BY <1>1, <1>2
  <2>. QED
    BY <1>1, <1>3, <2>1, ReaderStays DEF ReceiptsInv
<1>. QED
  BY <1>4, <1>5 DEF ReceiptsInv

LEMMA BeginStep ==
  ASSUME ReceiptsAssumption, ReceiptsInv, NEW w \in Appender, Begin(w)
  PROVE  ReceiptsInv'
<1>1. step' \in {"seal", "write"} /\ rlock' = w /\ w # NoAppender
  BY DEF Begin, ReceiptsAssumption
<1>2. ReceiptsTypeOK'
  BY <1>1 DEF ReceiptsInv, ReceiptsTypeOK, Begin
<1>3. Committed'
  BY <1>1 DEF ReceiptsInv, ChainInv, Committed, Begin
<1>. QED
  BY <1>2, <1>3, IdleStep DEF Begin

LEMMA SealFailsStep ==
  ASSUME ReceiptsAssumption, ReceiptsInv, NEW w \in Appender, SealFails(w)
  PROVE  ReceiptsInv'
<1>1. step' = "write" /\ rlock' = w /\ w # NoAppender
  BY DEF SealFails, ReceiptsAssumption
<1>2. trouble' \in 0..MaxTrouble
  BY DEF ReceiptsInv, ReceiptsTypeOK, SealFails, ReceiptsAssumption
<1>3. ReceiptsTypeOK'
  BY <1>1, <1>2 DEF ReceiptsInv, ReceiptsTypeOK, SealFails
<1>4. Committed'
  BY <1>1 DEF ReceiptsInv, ChainInv, Committed, SealFails
<1>. QED
  BY <1>3, <1>4, IdleStep DEF SealFails

LEMMA AppenderDiesStep ==
  ASSUME ReceiptsAssumption, ReceiptsInv, NEW w \in Appender, AppenderDies(w)
  PROVE  ReceiptsInv'
<1>1. step' = "none" /\ rlock' = NoAppender
  BY DEF AppenderDies
<1>2. trouble' \in 0..MaxTrouble
  BY DEF ReceiptsInv, ReceiptsTypeOK, AppenderDies, ReceiptsAssumption
<1>3. ReceiptsTypeOK'
  BY <1>1, <1>2 DEF ReceiptsInv, ReceiptsTypeOK, AppenderDies
<1>4. Committed'
  BY <1>1 DEF ReceiptsInv, ChainInv, Committed, AppenderDies
<1>. QED
  BY <1>3, <1>4, IdleStep DEF AppenderDies

\* The checkpoint of a segment commits to what the file holds.
LEMMA SealCheckpointStep ==
  ASSUME ReceiptsAssumption, ReceiptsInv, NEW w \in Appender, SealCheckpoint(w)
  PROVE  ReceiptsInv'
<1>. DEFINE Commits == SUBSET (Nat \X Nat)
<1>1. /\ cps \in Seq(Commits) /\ Len(cps) \in {Len(segs), Len(segs) + 1} /\ Len(segs) \in Nat
      /\ act \in Seq(Line) /\ DOMAIN segs = 1..Len(segs)
  BY TheFiles DEF ReceiptsInv, ReceiptsTypeOK
<1>2. Ids(act) \in Commits
  <2>1. Rows(act, 0) \subseteq Nat /\ \A i \in Rows(act, 0) : act[i].id \in Nat
    BY <1>1, LinesOf
  <2>. QED
    BY <2>1 DEF Ids
<1>3. PICK n \in Nat : n = Len(segs)
  BY <1>1
<1>4. PICK old : old = SubSeq(cps, 1, n)
  OBVIOUS
<1>5. old \in Seq(Commits) /\ Len(old) = n /\ \A k \in 1..n : old[k] = cps[k]
  <2>1. \A k \in 1..n : cps[k] \in Commits
    <3>1. Len(cps) = n \/ Len(cps) = n + 1
      BY <1>1, <1>3
    <3>2. \A k \in 1..n : k \in 1..Len(cps)
      BY <1>3, <3>1
    <3>. HIDE DEF Commits
    <3>3. \A k \in 1..Len(cps) : cps[k] \in Commits
      BY <1>1, ElementOfSeq
    <3>. QED
      BY <3>2, <3>3
  <2>. HIDE DEF Commits
  <2>2. /\ SubSeq(cps, 1, n) \in Seq(Commits)
        /\ Len(SubSeq(cps, 1, n)) = IF 1 <= n THEN n - 1 + 1 ELSE 0
        /\ \A k \in 1..(n - 1 + 1) : SubSeq(cps, 1, n)[k] = cps[1 + k - 1]
    BY <1>3, <2>1, SubSeqProperties
  <2>3. n - 1 + 1 = n /\ \A k \in 1..n : 1 + k - 1 = k
    BY <1>3
  <2>4. Len(old) = n
    BY <1>3, <1>4, <2>2
  <2>5. \A k \in 1..n : old[k] = cps[k]
    BY <1>4, <2>2, <2>3, Zenon
  <2>. QED
    BY <1>4, <2>2, <2>4, <2>5
<1>. HIDE DEF Commits
<1>6. /\ Append(old, Ids(act)) \in Seq(Commits) /\ Len(Append(old, Ids(act))) = n + 1
      /\ Append(old, Ids(act))[n + 1] = Ids(act)
      /\ \A k \in 1..n : Append(old, Ids(act))[k] = cps[k]
  BY <1>2, <1>5, AppendProperties
<1>7. w # NoAppender /\ rlock' = w /\ segs' = segs /\ act' = act
  BY DEF SealCheckpoint, ReceiptsAssumption
<1>8. CASE Rows(act, 0) = {}
  <2>1. step' = "write" /\ cps' = cps /\ backoff' = backoff \cup {w}
    BY <1>8 DEF SealCheckpoint
  <2>2. ReceiptsTypeOK'
    BY <1>7, <2>1 DEF ReceiptsInv, ReceiptsTypeOK, SealCheckpoint
  <2>3. Committed'
    BY <1>7, <2>1 DEF ReceiptsInv, ChainInv, Committed
  <2>. QED
    BY <2>2, <2>3, IdleStep DEF SealCheckpoint
<1>9. CASE Rows(act, 0) # {}
  <2>1. step' = "rename" /\ cps' = Append(old, Ids(act)) /\ backoff' = backoff \ {w}
    BY <1>3, <1>4, <1>9 DEF SealCheckpoint
  <2>2. cps' \in Seq(SUBSET (Nat \X Nat)) /\ Len(cps') = Len(segs') + 1
    BY <1>3, <1>6, <1>7, <2>1 DEF Commits
  <2>3. ReceiptsTypeOK'
    BY <1>7, <2>1, <2>2 DEF ReceiptsInv, ReceiptsTypeOK, SealCheckpoint
  <2>4. Committed'
    <3>1. \A k \in 1..n : cps'[k] = Ids(segs[k])
      BY <1>1, <1>3, <1>6, <2>1 DEF ReceiptsInv, ChainInv, Committed
    <3>2. DOMAIN segs' = 1..n /\ Len(cps') = n + 1 /\ cps'[n + 1] = Ids(act)
      BY <1>1, <1>3, <1>6, <1>7, <2>1
    <3>. QED
      BY <1>3, <1>7, <1>9, <3>1, <3>2 DEF Committed
  <2>. QED
    BY <2>3, <2>4, IdleStep DEF SealCheckpoint
<1>. QED
  BY <1>8, <1>9

\* The file that was full becomes the newest segment, its checkpoint there already.
LEMMA SealRenameStep ==
  ASSUME ReceiptsAssumption, ReceiptsInv, NEW w \in Appender, SealRename(w)
  PROVE  ReceiptsInv'
<1>1. /\ segs' = Append(segs, act) /\ act' = << >> /\ step' = "write" /\ rlock' = w /\ w # NoAppender
      /\ UNCHANGED <<cps, backoff, resume, ver, whole, issued, trouble, damaged>>
  BY DEF SealRename, ReceiptsAssumption
<1>2. /\ Len(cps) = Len(segs) + 1 /\ cps[Len(cps)] = Ids(act) /\ Rows(act, 0) # {}
      /\ \A k \in DOMAIN segs : cps[k] = Ids(segs[k])
  BY DEF ReceiptsInv, ChainInv, Committed, SealRename
<1>3. PICK n \in Nat : n = Len(segs) /\ DOMAIN segs = 1..n /\ Len(History) = n + 1 /\ History[n + 1] = act
  BY TheFiles DEF ReceiptsInv
<1>4. segs \in Files /\ act \in Seq(Line) /\ << >> \in Seq(Line) /\ History \in Files
  BY TheFiles, EmptySeq DEF ReceiptsInv, ReceiptsTypeOK, Files
<1>5. /\ segs' \in Files /\ Len(segs') = n + 1 /\ segs'[n + 1] = act /\ DOMAIN segs' = 1..(n + 1)
      /\ \A k \in 1..n : segs'[k] = segs[k]
  BY <1>1, <1>3, <1>4, AppendProperties, LenProperties DEF Files
<1>6. ReceiptsTypeOK'
  <2>1. /\ segs' \in Seq(Seq(Line)) /\ act' \in Seq(Line) /\ Len(cps') \in {Len(segs'), Len(segs') + 1}
    BY <1>1, <1>2, <1>3, <1>4, <1>5 DEF Files
  <2>. QED
    BY <1>1, <2>1 DEF ReceiptsInv, ReceiptsTypeOK
<1>7. PICK id, b, ids : id \in Nat /\ b \in BOOLEAN /\ id = issued /\ b = damaged /\ ids = whole
  BY Zenon DEF ReceiptsInv, ReceiptsTypeOK
<1>8. /\ HashOnce(History, id) /\ Intact(History, b) /\ Chained(History) /\ NoneEmpty(History)
      /\ Filed(History, ids)
  BY <1>7 DEF ReceiptsInv, ChainInv
<1>9. History' = Append(History, << >>)
  BY <1>1 DEF History
<1>10. Len(History) >= 1 /\ Rows(History[Len(History)], 0) # {}
  BY <1>2, <1>3
<1>11. /\ Grown(History, History') /\ HashOnce(History', id) /\ Intact(History', b)
       /\ Chained(History') /\ NoneEmpty(History') /\ Filed(History', ids)
  BY <1>4, <1>7, <1>8, <1>9, <1>10, FileSealed
<1>12. Committed'
  <2>1. ASSUME NEW k \in 1..(n + 1) PROVE cps[k] = Ids(segs'[k])
    <3>1. CASE k = n + 1
      BY <1>2, <1>3, <1>5, <3>1
    <3>2. CASE k # n + 1
      <4>1. k \in 1..n
        BY <3>2
      <4>. QED
        BY <1>2, <1>3, <1>5, <4>1
    <3>. QED
      BY <3>1, <3>2
  <2>. QED
    BY <1>1, <1>5, <2>1 DEF Committed
<1>13. ChainInv'
  BY <1>1, <1>7, <1>11, <1>12 DEF ChainInv
<1>14. ReaderInv'
  <2>1. Len(segs) <= Len(segs')
    BY <1>3, <1>5
  <2>. QED
    BY <1>1, <1>6, <1>11, <2>1, ReaderStays DEF ReceiptsInv
<1>. QED
  BY <1>6, <1>13, <1>14 DEF ReceiptsInv

\* What the lock holder links to is the last receipt there is.
LEMMA WrittenStep ==
  ASSUME ReceiptsAssumption, ReceiptsInv, NEW w \in Appender, NEW nl \in BOOLEAN,
         NEW id \in {Genesis, issued + 1}, Written(w, id, nl),
         trouble' \in 0..MaxTrouble, whole' \subseteq whole \cup {id}, whole \subseteq whole',
         whole' \subseteq 1..(issued + 1)
  PROVE  ReceiptsInv'
<1>. DEFINE e == [id |-> id, prev |-> HeadHash(act), ok |-> TRUE, nl |-> nl]
<1>1. /\ act' = Append(act, e) /\ issued' = issued + 1 /\ rlock' = NoAppender /\ step' = "none"
      /\ UNCHANGED <<segs, cps, backoff, resume, ver, damaged>>
  BY DEF Written
<1>2. PICK n \in Nat : n = Len(segs) /\ DOMAIN segs = 1..n /\ Len(History) = n + 1 /\ History[n + 1] = act
                       /\ \A k \in 1..n : History[k] = segs[k]
  BY TheFiles DEF ReceiptsInv
<1>3. /\ segs \in Files /\ act \in Seq(Line) /\ History \in Files /\ issued \in Nat
      /\ \A k \in 1..n : segs[k] \in Seq(Line)
  <2>1. segs \in Seq(Seq(Line)) /\ act \in Seq(Line) /\ issued \in Nat
    BY DEF ReceiptsInv, ReceiptsTypeOK
  <2>2. \A k \in 1..n : segs[k] \in Seq(Line)
    BY <1>2, <2>1, ElementOfSeq
  <2>. QED
    BY <2>1, <2>2, TheFiles DEF ReceiptsInv, Files
<1>4. HeadHash(act) = HeadId(History) /\ HeadHash(act) \in Nat
  <2>1. ASSUME NEW file \in Seq(Line) PROVE LastId(file) \in Nat
    <3>1. CASE Rows(file, 0) = {}
      BY <3>1 DEF LastId, Genesis
    <3>2. CASE Rows(file, 0) # {}
      <4>1. Max(Rows(file, 0)) \in Rows(file, 0) /\ LastId(file) = file[Max(Rows(file, 0))].id
        BY <3>2, LastRow
      <4>2. \A i \in Rows(file, 0) : i \in 1..Len(file)
        BY LinesOf
      <4>. QED
        BY <4>1, <4>2, LinesOf
    <3>. QED
      BY <3>1, <3>2
  <2>2. segs = << >> <=> n = 0
    BY <1>2, <1>3, EmptySeq DEF Files
  <2>3. Len(History) = 1 <=> n = 0
    BY <1>2
  <2>4. HeadId(History) = IF Rows(act, 0) # {} \/ n = 0 THEN LastId(act) ELSE LastId(History[n])
    <3>1. n + 1 - 1 = n
      BY <1>2
    <3>. QED
      BY <1>2, <2>3, <3>1 DEF HeadId
  <2>5. HeadHash(act) = IF Rows(act, 0) # {} \/ n = 0 THEN LastId(act) ELSE LastId(segs[n])
    BY <1>2, <2>2 DEF HeadHash
  <2>6. n # 0 => n \in 1..n
    BY <1>2
  <2>. QED
    BY <1>2, <1>3, <2>1, <2>4, <2>5, <2>6
<1>5. e \in Line /\ e.ok /\ e.prev = HeadId(History) /\ e.id = id
  <2>1. id \in Nat
    BY <1>3 DEF Genesis
  <2>. QED
    BY <1>4, <2>1 DEF Line
<1>. HIDE DEF e
<1>6. act' \in Seq(Line)
  BY <1>1, <1>3, <1>5, AppendProperties
<1>7. /\ History' \in Files /\ Len(History') = Len(History)
      /\ History'[Len(History)] = Append(History[Len(History)], e)
      /\ \A f \in 1..Len(History) : f # Len(History) => History'[f] = History[f]
  <2>1. History' = Append(segs, act')
    BY <1>1 DEF History
  <2>2. /\ Append(segs, act') \in Files /\ Len(Append(segs, act')) = n + 1
        /\ Append(segs, act')[n + 1] = act' /\ \A k \in 1..n : Append(segs, act')[k] = segs[k]
    BY <1>2, <1>3, <1>6, AppendProperties DEF Files
  <2>3. \A f \in 1..(n + 1) : f # n + 1 => f \in 1..n
    BY <1>2
  <2>. QED
    BY <1>1, <1>2, <2>1, <2>2, <2>3
<1>8. PICK k, b, ids : k \in Nat /\ b \in BOOLEAN /\ k = issued /\ b = damaged /\ ids = whole
  BY Zenon DEF ReceiptsInv, ReceiptsTypeOK
<1>9. /\ HashOnce(History, k) /\ Intact(History, b) /\ Chained(History) /\ NoneEmpty(History)
      /\ Filed(History, ids)
  BY <1>8 DEF ReceiptsInv, ChainInv
<1>10. Len(History) >= 1
  BY <1>2
<1>11. e.id \in {Genesis, k + 1}
  BY <1>5, <1>8
<1>12. /\ Grown(History, History') /\ HashOnce(History', k + 1) /\ Intact(History', b)
       /\ Chained(History') /\ NoneEmpty(History') /\ Filed(History', ids) /\ Filed(History', {e.id})
  BY <1>3, <1>5, <1>7, <1>8, <1>9, <1>10, <1>11, LineAppended
<1>13. ReceiptsTypeOK'
  BY <1>1, <1>3, <1>6 DEF ReceiptsInv, ReceiptsTypeOK
<1>14. Committed'
  BY <1>1 DEF ReceiptsInv, ChainInv, Committed
<1>15. ChainInv'
  <2>1. Filed(History', whole')
    BY <1>5, <1>8, <1>12 DEF Filed
  <2>. QED
    BY <1>1, <1>8, <1>12, <1>14, <2>1 DEF ChainInv
<1>16. ReaderInv'
  <2>1. Len(segs) <= Len(segs')
    BY <1>1, <1>2
  <2>. QED
    BY <1>1, <1>12, <1>13, <2>1, ReaderStays DEF ReceiptsInv
<1>. QED
  BY <1>13, <1>15, <1>16 DEF ReceiptsInv

LEMMA WriteReceiptStep ==
  ASSUME ReceiptsAssumption, ReceiptsInv, NEW w \in Appender, WriteReceipt(w)
  PROVE  ReceiptsInv'
<1>1. whole \subseteq 1..issued /\ issued \in Nat /\ trouble \in 0..MaxTrouble
  BY DEF ReceiptsInv, ReceiptsTypeOK
<1>2. /\ Written(w, issued + 1, TRUE) /\ whole' = whole \cup {issued + 1} /\ trouble' = trouble
  BY DEF WriteReceipt
<1>3. whole' \subseteq 1..(issued + 1)
  BY <1>1, <1>2
<1>. QED
  BY <1>1, <1>2, <1>3, WrittenStep

LEMMA WriteTornStep ==
  ASSUME ReceiptsAssumption, ReceiptsInv, NEW w \in Appender, WriteTorn(w)
  PROVE  ReceiptsInv'
<1>1. whole \subseteq 1..issued /\ issued \in Nat /\ trouble \in 0..MaxTrouble
  BY DEF ReceiptsInv, ReceiptsTypeOK
<1>2. PICK id \in {Genesis, issued + 1} : Written(w, id, FALSE)
  BY DEF WriteTorn
<1>3. whole' = whole /\ trouble' \in 0..MaxTrouble
  BY <1>1 DEF WriteTorn, ReceiptsAssumption
<1>4. whole' \subseteq 1..(issued + 1)
  BY <1>1, <1>3
<1>. QED
  BY <1>2, <1>3, <1>4, WrittenStep

LEMMA EditedLine ==
  ASSUME NEW file \in Seq(Line), NEW g \in Edited(file)
  PROVE  /\ g \in Seq(Line) /\ Len(g) = Len(file)
         /\ \A j \in 1..Len(file) :
              /\ g[j].id = file[j].id /\ g[j].prev = file[j].prev /\ g[j].nl = file[j].nl
              /\ g[j].ok = file[j].ok \/ (~g[j].ok /\ file[j].nl /\ j \in Rows(file, 0))
<1>1. PICK i \in Rows(file, 0) : file[i].nl /\ g = [file EXCEPT ![i].ok = FALSE]
  BY DEF Edited
<1>2. i \in 1..Len(file) /\ Len(file) \in Nat
  <2>1. \A j \in Rows(file, 0) : j \in 1..Len(file)
    BY LinesOf
  <2>. QED
    BY <2>1, LinesOf
<1>3. file[i] \in Line
  BY <1>2, ElementOfSeq
<1>4. PICK x : x = [file[i] EXCEPT !.ok = FALSE]
  OBVIOUS
<1>5. x \in Line /\ x.id = file[i].id /\ x.prev = file[i].prev /\ x.nl = file[i].nl /\ x.ok = FALSE
  BY <1>3, <1>4 DEF Line
<1>6. g = [file EXCEPT ![i] = x]
  BY <1>1, <1>4
<1>7. /\ [file EXCEPT ![i] = x] \in Seq(Line) /\ Len([file EXCEPT ![i] = x]) = Len(file)
      /\ \A j \in 1..Len(file) : [file EXCEPT ![i] = x][j] = IF j = i THEN x ELSE file[j]
  BY <1>2, <1>5, ExceptSeq
<1>8. /\ g \in Seq(Line) /\ Len(g) = Len(file)
      /\ \A j \in 1..Len(file) : g[j] = IF j = i THEN x ELSE file[j]
  BY <1>6, <1>7, Zenon
<1>. HIDE DEF Line
<1>9. ASSUME NEW j \in 1..Len(file)
      PROVE  /\ g[j].id = file[j].id /\ g[j].prev = file[j].prev /\ g[j].nl = file[j].nl
             /\ g[j].ok = file[j].ok \/ (~g[j].ok /\ file[j].nl /\ j \in Rows(file, 0))
  <2>1. CASE j = i
    BY <1>1, <1>5, <1>8, <2>1
  <2>2. CASE j # i
    BY <1>8, <2>2
  <2>. QED
    BY <2>1, <2>2
<1>. QED
  BY <1>8, <1>9

LEMMA DamageStep ==
  ASSUME ReceiptsAssumption, ReceiptsInv, Damage
  PROVE  ReceiptsInv'
<1>1. PICK n \in Nat : n = Len(segs) /\ DOMAIN segs = 1..n /\ Len(History) = n + 1 /\ History[n + 1] = act
                       /\ \A k \in 1..n : History[k] = segs[k]
  BY TheFiles DEF ReceiptsInv
<1>2. /\ segs \in Files /\ act \in Seq(Line) /\ History \in Files
      /\ \A k \in 1..n : segs[k] \in Seq(Line)
  <2>1. segs \in Seq(Seq(Line)) /\ act \in Seq(Line)
    BY DEF ReceiptsInv, ReceiptsTypeOK
  <2>2. \A k \in 1..n : segs[k] \in Seq(Line)
    BY <1>1, <2>1, ElementOfSeq
  <2>. QED
    BY <2>1, <2>2, TheFiles DEF ReceiptsInv, Files
<1>3. /\ damaged' = TRUE /\ rlock = NoAppender
      /\ UNCHANGED <<cps, rlock, step, backoff, resume, ver, whole, issued, trouble>>
  BY DEF Damage
<1>. DEFINE Worse(file, g) ==
              /\ g \in Seq(Line) /\ Len(g) = Len(file)
              /\ \A j \in 1..Len(file) :
                   /\ g[j].id = file[j].id /\ g[j].prev = file[j].prev /\ g[j].nl = file[j].nl
                   /\ g[j].ok = file[j].ok \/ (~g[j].ok /\ file[j].nl /\ j \in Rows(file, 0))
<1>4. /\ \A file \in Seq(Line) : Worse(file, file)
      /\ \A file \in Seq(Line) : \A g \in Edited(file) : Worse(file, g)
  <2>1. \A file \in Seq(Line) : Worse(file, file)
    OBVIOUS
  <2>2. ASSUME NEW file \in Seq(Line), NEW g \in Edited(file) PROVE Worse(file, g)
    BY EditedLine
  <2>. QED
    BY <2>1, <2>2
<1>. HIDE DEF Worse
<1>5. /\ segs' \in Files /\ Len(segs') = n /\ DOMAIN segs' = 1..n
      /\ \A k \in 1..n : Worse(segs[k], segs'[k])
      /\ Worse(act, act')
  <2>1. CASE act' \in Edited(act) /\ UNCHANGED segs
    BY <1>1, <1>2, <1>4, <2>1
  <2>2. CASE \E k \in DOMAIN segs : \E f \in Edited(segs[k]) :
               segs' = [segs EXCEPT ![k] = f] /\ UNCHANGED act
    <3>1. PICK k, f : k \in 1..n /\ f \in Edited(segs[k]) /\ segs' = [segs EXCEPT ![k] = f] /\ act' = act
      BY <1>1, <2>2
    <3>2. segs[k] \in Seq(Line) /\ Worse(segs[k], f) /\ f \in Seq(Line)
      BY <1>2, <1>4, <3>1 DEF Worse
    <3>3. segs \in Seq(Seq(Line)) /\ k \in 1..Len(segs)
      BY <1>1, <1>2, <3>1 DEF Files
    <3>4. /\ [segs EXCEPT ![k] = f] \in Seq(Seq(Line)) /\ Len([segs EXCEPT ![k] = f]) = Len(segs)
          /\ \A j \in 1..Len(segs) : [segs EXCEPT ![k] = f][j] = IF j = k THEN f ELSE segs[j]
      BY <3>2, <3>3, ExceptSeq
    <3>5. /\ segs' \in Seq(Seq(Line)) /\ Len(segs') = n
          /\ \A j \in 1..n : segs'[j] = IF j = k THEN f ELSE segs[j]
      BY <1>1, <3>1, <3>4, Zenon
    <3>6. DOMAIN segs' = 1..n
      BY <3>5, LenProperties
    <3>7. ASSUME NEW j \in 1..n PROVE Worse(segs[j], segs'[j])
      BY <1>2, <1>4, <3>2, <3>5
    <3>8. Worse(act, act')
      BY <1>2, <1>4, <3>1
    <3>. QED
      BY <3>5, <3>6, <3>7, <3>8 DEF Files
  <2>. QED
    BY <2>1, <2>2 DEF Damage
<1>6. /\ History' \in Files /\ Len(History') = n + 1
      /\ \A f \in 1..(n + 1) : Worse(History[f], History'[f])
      /\ \A k \in 1..n : History'[k] = segs'[k]
  <2>1. act' \in Seq(Line)
    BY <1>5 DEF Worse
  <2>2. /\ History' \in Files /\ Len(History') = n + 1 /\ History'[n + 1] = act'
        /\ \A k \in 1..n : History'[k] = segs'[k]
    BY <1>5, <2>1, AppendProperties DEF History, Files
  <2>3. \A f \in 1..(n + 1) : f \in 1..n \/ f = n + 1
    BY <1>1
  <2>4. \A f \in 1..(n + 1) : Worse(History[f], History'[f])
    BY <1>1, <1>5, <2>2, <2>3
  <2>. QED
    BY <2>2, <2>4
<1>7. PICK k, b, ids : k \in Nat /\ k = issued /\ b = damaged /\ ids = whole
  BY Zenon DEF ReceiptsInv, ReceiptsTypeOK
<1>8. /\ HashOnce(History, k) /\ Intact(History, b) /\ Chained(History) /\ NoneEmpty(History)
      /\ Filed(History, ids)
  BY <1>7 DEF ReceiptsInv, ChainInv
<1>9. \A f \in 1..Len(History) :
        /\ Len(History'[f]) = Len(History[f])
        /\ \A i \in 1..Len(History[f]) :
             /\ History'[f][i].id = History[f][i].id /\ History'[f][i].prev = History[f][i].prev
             /\ History'[f][i].nl = History[f][i].nl
             /\ \/ History'[f][i].ok = History[f][i].ok
                \/ ~History'[f][i].ok /\ History[f][i].nl /\ i \in Rows(History[f], 0)
  BY <1>1, <1>6 DEF Worse
<1>10. Len(History') = Len(History)
  BY <1>1, <1>6
<1>11. /\ Grown(History, History') /\ HashOnce(History', k) /\ Intact(History', TRUE) /\ Chained(History')
       /\ NoneEmpty(History') /\ Filed(History', ids)
       /\ \A f \in 1..Len(History) : /\ Rows(History'[f], 0) = Rows(History[f], 0)
                                     /\ Ids(History'[f]) = Ids(History[f])
  <2>1. PICK h \in Files, g \in Files : h = History /\ g = History'
    BY <1>2, <1>6
  <2>2. Len(g) = Len(h) /\ HashOnce(h, k) /\ Intact(h, b) /\ Chained(h) /\ NoneEmpty(h) /\ Filed(h, ids)
    BY <1>8, <1>10, <2>1, Zenon
  <2>3. \A f \in 1..Len(h) :
          /\ Len(g[f]) = Len(h[f])
          /\ \A i \in 1..Len(h[f]) :
               /\ g[f][i].id = h[f][i].id /\ g[f][i].prev = h[f][i].prev /\ g[f][i].nl = h[f][i].nl
               /\ g[f][i].ok = h[f][i].ok \/ (~g[f][i].ok /\ h[f][i].nl /\ i \in Rows(h[f], 0))
    BY <1>9, <2>1, Zenon
  <2>4. /\ Grown(h, g) /\ HashOnce(g, k) /\ Intact(g, TRUE) /\ Chained(g) /\ NoneEmpty(g) /\ Filed(g, ids)
        /\ \A f \in 1..Len(h) : Rows(g[f], 0) = Rows(h[f], 0) /\ Ids(g[f]) = Ids(h[f])
    BY <1>7, <2>2, <2>3, LineDamaged
  <2>. QED
    BY <2>1, <2>4, Zenon
<1>12. ReceiptsTypeOK'
  <2>1. segs' \in Seq(Seq(Line)) /\ act' \in Seq(Line) /\ Len(segs') = Len(segs)
    BY <1>1, <1>5 DEF Files, Worse
  <2>. QED
    BY <1>3, <2>1 DEF ReceiptsInv, ReceiptsTypeOK
<1>13. Committed'
  <2>1. step # "rename" /\ \A j \in DOMAIN segs : cps[j] = Ids(segs[j])
    BY <1>3 DEF ReceiptsInv, ReceiptsTypeOK, ChainInv, Committed
  <2>2. ASSUME NEW j \in 1..n PROVE cps[j] = Ids(segs'[j])
    <3>1. j \in 1..Len(History)
      BY <1>1
    <3>. QED
      BY <1>1, <1>6, <1>11, <2>1, <3>1
  <2>. QED
    BY <1>3, <1>5, <2>1, <2>2 DEF Committed
<1>14. ChainInv'
  BY <1>3, <1>7, <1>11, <1>13 DEF ChainInv
<1>15. ReaderInv'
  <2>1. Len(segs) <= Len(segs')
    BY <1>1, <1>5
  <2>. QED
    BY <1>3, <1>11, <1>12, <2>1, ReaderStays DEF ReceiptsInv
<1>. QED
  BY <1>12, <1>14, <1>15 DEF ReceiptsInv

-----------------------------------------------------------------------------
(* The steps of verify().                                                  *)

VerifierFrame ==
  UNCHANGED <<segs, act, cps, rlock, step, backoff, whole, issued, trouble, damaged>>

LEMMA VerifierKeeps ==
  ASSUME ReceiptsInv, VerifierFrame, resume' \in Point, ver' = Resting \/ ver' \in Pass
  PROVE  ReceiptsTypeOK' /\ ChainInv' /\ History' = History
<1>1. ReceiptsTypeOK'
  BY DEF ReceiptsInv, ReceiptsTypeOK, VerifierFrame
<1>2. Committed'
  BY DEF ReceiptsInv, ChainInv, Committed, VerifierFrame
<1>3. ChainInv'
  BY <1>2, ChainKept DEF ReceiptsInv, VerifierFrame
<1>4. History' = History
  BY DEF History, VerifierFrame
<1>. QED
  BY <1>1, <1>3, <1>4

LEMMA PassAt ==
  ASSUME ReceiptsInv, ver.pc # "rest"
  PROVE  /\ ver \in Pass /\ ver.n \in 0..Len(segs) /\ ver.n \in Nat /\ ver.seals \in Nat
         /\ Len(segs) \in Nat /\ resume \in Point /\ ver.seals <= ver.n /\ ver.n <= Len(segs)
         /\ IF ver.pc = "tail" THEN Starts(ver.n, ver.from) ELSE ver.from = NoResume
<1>1. ver \in Pass /\ resume \in Point
  BY DEF ReceiptsInv, ReceiptsTypeOK, Resting
<1>2. ver.n \in Nat /\ ver.seals \in Nat /\ Len(segs) \in Nat
  BY <1>1, TheFiles DEF Pass, ReceiptsInv
<1>3. /\ ver.seals <= ver.n /\ ver.n <= Len(segs)
      /\ IF ver.pc = "tail" THEN Starts(ver.n, ver.from) ELSE ver.from = NoResume
  BY DEF ReceiptsInv, ReaderInv, Listed
<1>. QED
  BY <1>1, <1>2, <1>3

LEMMA MetThere ==
  ASSUME ReceiptsTypeOK, NEW e \in Met(Len(segs), NoResume)
  PROVE  e \in Placed(History) /\ At(History, e) = Row(Len(segs), e)
<1>1. PICK n \in Nat : n = Len(segs) /\ n \in 0..Len(segs) /\ Starts(n, NoResume)
  <2>1. Len(segs) \in Nat
    BY TheFiles
  <2>2. Len(segs) \in 0..Len(segs)
    BY <2>1
  <2>3. Starts(Len(segs), NoResume)
    BY <2>2, FromFirst
  <2>. QED
    BY <2>1, <2>2, <2>3, Zenon
<1>2. e \in Met(n, NoResume)
  BY <1>1
<1>3. e = <<e[1], e[2]>>
  BY <1>1, <1>2, MetAre, Zenon
<1>4. e[1] \in 1..(n + 1) /\ e[2] \in 1..Len(ChainFile(n, e[1]))
  BY <1>1, <1>2, MetAre
<1>5. ChainFile(n, e[1]) = History[e[1]]
  <2>1. e[1] \in 1..n \/ e[1] = n + 1
    BY <1>4
  <2>. QED
    BY <1>1, <2>1, TheFiles
<1>6. e \in Placed(History)
  BY <1>1, <1>3, <1>4, <1>5, TheFiles, PlacesOf
<1>. QED
  BY <1>1, <1>5, <1>6 DEF At, Row

LEMMA ListStep ==
  ASSUME ReceiptsAssumption, ReceiptsInv, NEW full \in BOOLEAN, List(full)
  PROVE  ReceiptsInv'
<1>. DEFINE pc == IF full \/ resume = NoResume THEN "scan" ELSE "peek"
<1>1. /\ ver' = [pc |-> pc, n |-> Len(segs), full |-> full, again |-> FALSE, from |-> NoResume,
                 v |-> NoVerdict, seals |-> Len(segs), before |-> whole, edited |-> EditAhead(full)]
      /\ VerifierFrame /\ resume' = resume
  BY DEF List, VerifierFrame
<1>2. /\ Len(segs) \in Nat /\ Len(History) = Len(segs) + 1 /\ resume \in Point
      /\ whole \subseteq Nat
  <2>1. whole \subseteq 1..issued /\ issued \in Nat /\ resume \in Point
    BY DEF ReceiptsInv, ReceiptsTypeOK
  <2>. QED
    BY <2>1, TheFiles DEF ReceiptsInv
<1>3. ver' \in Pass
  <2>1. EditAhead(full) \in BOOLEAN
    BY Zenon DEF EditAhead
  <2>2. NoResume \in Point /\ NoVerdict \in [ok : BOOLEAN, total : Nat, skipped : Nat]
    BY DEF NoResume, NoVerdict, Point, Genesis
  <2>3. pc \in {"scan", "peek"}
    OBVIOUS
  <2>. HIDE DEF pc
  <2>. QED
    BY <1>1, <1>2, <2>1, <2>2, <2>3 DEF Pass
<1>4. ReceiptsTypeOK' /\ ChainInv' /\ History' = History
  BY <1>1, <1>2, <1>3, VerifierKeeps
<1>5. /\ ver'.pc = pc /\ ver'.n = Len(segs) /\ ver'.again = FALSE /\ ver'.seals = Len(segs)
      /\ ver'.before = whole /\ ver'.edited = EditAhead(full) /\ pc \in {"scan", "peek"}
      /\ ver'.full = full /\ ver'.from = NoResume /\ (pc = "peek" => ~full)
  BY <1>1
<1>6. Resumable
  BY DEF ReceiptsInv, ReaderInv
<1>7. Resumable'
  BY <1>1, <1>4, <1>6 DEF Resumable
<1>8. Listed'
  <2>1. pc = "peek" => Sound(History, resume) \/ (Stale(History, resume) /\ resume.file <= Len(segs))
    <3>1. Stale(History, resume) => resume.file <= Len(segs)
      BY <1>2 DEF Stale, Point
    <3>. QED
      BY <1>6, <3>1 DEF Resumable
  <2>2. segs' = segs /\ whole' = whole /\ damaged' = damaged
    BY <1>1 DEF VerifierFrame
  <2>. HIDE DEF pc
  <2>. QED
    BY <1>1, <1>2, <1>4, <1>5, <2>1, <2>2 DEF Listed
<1>9. ToFind'
  <2>. SUFFICES ASSUME EditAhead(full)
                PROVE  \E e \in Placed(History) :
                         ~At(History, e).ok /\ (full \/ ~Before(e, <<resume.file, resume.pos>>))
    BY <1>1, <1>4, <1>5 DEF ToFind
  <2>1. PICK e \in Met(Len(segs), NoResume) :
          ~Row(Len(segs), e).ok /\ (full \/ ~Before(e, <<resume.file, resume.pos>>))
    BY DEF EditAhead
  <2>2. e \in Placed(History) /\ At(History, e) = Row(Len(segs), e)
    BY <2>1, MetThere DEF ReceiptsInv
  <2>. QED
    BY <2>1, <2>2
<1>10. ver'.pc # "told"
  BY <1>5
<1>11. NoFalseAlarm'
  BY <1>10 DEF NoFalseAlarm
<1>. QED
  BY <1>4, <1>7, <1>8, <1>9, <1>11 DEF ReceiptsInv, ReaderInv

\* The receipt at a resume point that is usable is the one in the history: no other file has
\* one with its hash.
LEMMA UsableWhere ==
  ASSUME ReceiptsTypeOK, HashOnce(History, issued), NEW n \in 0..Len(segs), NEW r \in Point,
         Sound(History, r), Usable(n, r)
  PROVE  ChainFile(n, r.file) = History[r.file]
<1>1. /\ Len(segs) \in Nat /\ n \in Nat /\ r.file \in Nat /\ r.file >= 1 /\ r.pos \in Nat
      /\ r.file <= n + 1 /\ History \in Files /\ Len(History) = Len(segs) + 1
  BY TheFiles DEF Point, Usable
<1>2. CASE r.file <= n
  <2>1. r.file \in 1..n
    BY <1>1, <1>2
  <2>. QED
    BY <2>1, TheFiles
<1>3. CASE r.file = n + 1 /\ n = Len(segs)
  BY <1>3, TheFiles
<1>4. CASE r.file = n + 1 /\ n < Len(segs)
  <2>1. ChainFile(n, r.file) = act /\ History[Len(segs) + 1] = act /\ act \in Seq(Line)
    BY <1>4, TheFiles DEF ReceiptsTypeOK
  <2>2. r.pos \in Rows(act, r.pos - 1) /\ act[r.pos].id = r.head
    BY <2>1 DEF Usable
  <2>3. r.pos \in DOMAIN History[r.file] /\ r.file \in 1..Len(History) /\ r.head # Genesis
        /\ History[r.file][r.pos].id = r.head
    BY <1>1, <1>4 DEF Sound
  <2>4. DOMAIN History[r.file] = 1..Len(History[r.file]) /\ Len(act) \in Nat
    BY <1>1, <2>1, <2>3, FilesOf, LinesOf
  <2>5. r.pos \in (r.pos - 1 + 1)..Len(act)
    BY <2>2 DEF Rows, Begins
  <2>6. r.pos \in 1..Len(act)
    BY <1>1, <2>3, <2>4, <2>5
  <2>7. Len(segs) + 1 \in 1..Len(History)
    BY <1>1
  <2>8. /\ <<r.file, r.pos>> \in Placed(History) /\ At(History, <<r.file, r.pos>>).id = r.head
        /\ <<Len(segs) + 1, r.pos>> \in Placed(History)
        /\ At(History, <<Len(segs) + 1, r.pos>>).id = r.head
    BY <1>1, <2>1, <2>2, <2>3, <2>4, <2>6, <2>7, PlacesOf
  <2>9. <<r.file, r.pos>> = <<Len(segs) + 1, r.pos>>
    BY <2>3, <2>8, Zenon DEF HashOnce
  <2>. QED
    BY <1>1, <1>4, <2>9
<1>. QED
  BY <1>1, <1>2, <1>3, <1>4

\* A resume point that is still usable is where its receipt is.
LEMMA PeekStep ==
  ASSUME ReceiptsAssumption, ReceiptsInv, Peek
  PROVE  ReceiptsInv'
<1>1. ver.pc = "peek" /\ VerifierFrame /\ resume' = resume
  BY DEF Peek, VerifierFrame
<1>2. /\ ver \in Pass /\ ver.n \in 0..Len(segs) /\ ver.n \in Nat /\ ver.seals \in Nat
      /\ Len(segs) \in Nat /\ resume \in Point /\ ver.seals <= ver.n /\ ver.n <= Len(segs)
      /\ ver.from = NoResume
  BY <1>1, PassAt
<1>3. /\ Sound(History, resume) \/ (Stale(History, resume) /\ resume.file <= ver.n)
      /\ (ver.again => ver.n > ver.seals) /\ ver.before \subseteq whole /\ ~ver.full
  BY <1>1 DEF ReceiptsInv, ReaderInv, Listed
<1>4. resume.file \in Nat /\ resume.file >= 1 /\ resume.pos \in Nat /\ resume.head \in Nat
  BY <1>2 DEF Point
<1>5. ASSUME Usable(ver.n, resume) PROVE Sound(History, resume) /\ resume.file <= ver.n + 1
  <2>1. /\ resume.file <= ver.n + 1 /\ resume.pos \in Rows(ChainFile(ver.n, resume.file), resume.pos - 1)
        /\ ChainFile(ver.n, resume.file)[resume.pos].id = resume.head
    BY <1>5 DEF Usable
  <2>2. ASSUME Stale(History, resume), resume.file <= ver.n PROVE FALSE
    <3>1. ChainFile(ver.n, resume.file) = History[resume.file] /\ resume.file \in 1..Len(History)
      <4>1. resume.file \in 1..ver.n /\ resume.file \in 1..(Len(segs) + 1)
        BY <1>2, <1>4, <2>2
      <4>. QED
        BY <1>2, <4>1, TheFiles DEF ReceiptsInv
    <3>2. PICK file \in Seq(Line) : file = History[resume.file] /\ DOMAIN file = 1..Len(file)
      BY <3>1, TheFiles, FilesOf DEF ReceiptsInv
    <3>3. resume.pos \in (resume.pos - 1 + 1)..Len(file)
      BY <2>1, <3>1, <3>2 DEF Rows, Begins
    <3>4. resume.pos \in 1..Len(file)
      <4>1. resume.pos >= 1
        BY <2>2 DEF Stale
      <4>2. Len(file) \in Nat
        BY LinesOf
      <4>. QED
        BY <1>4, <3>3, <4>1, <4>2
    <3>. QED
      BY <2>1, <2>2, <3>1, <3>2, <3>4 DEF Stale
  <2>. QED
    BY <1>3, <2>1, <2>2
<1>6. Resumable
  BY DEF ReceiptsInv, ReaderInv
<1>7. ASSUME ver' \in Pass PROVE ReceiptsTypeOK' /\ ChainInv' /\ History' = History /\ Resumable'
  <2>1. ReceiptsTypeOK' /\ ChainInv' /\ History' = History
    BY <1>1, <1>2, <1>7, VerifierKeeps
  <2>. QED
    BY <1>1, <1>6, <2>1 DEF Resumable
<1>8. CASE Usable(ver.n, resume)
  <2>1. ver' = [ver EXCEPT !.pc = "tail", !.from = resume]
    BY <1>8 DEF Peek
  <2>2. /\ ver' \in Pass /\ ver'.pc = "tail" /\ ver'.n = ver.n /\ ver'.from = resume
        /\ ver'.seals = ver.seals /\ ver'.again = ver.again /\ ver'.before = ver.before
        /\ ver'.edited = ver.edited /\ ver'.full = ver.full
    BY <1>2, <2>1 DEF Pass
  <2>3. ReceiptsTypeOK' /\ ChainInv' /\ History' = History /\ Resumable'
    BY <1>7, <2>2
  <2>4. Listed'
    <3>1. Starts(ver.n, resume)
      BY <1>2, <1>5, <1>8 DEF Starts
    <3>2. Starts(ver.n, ver.from)'
      BY <2>2, <2>3, <3>1 DEF Starts
    <3>3. segs' = segs /\ whole' = whole
      BY <1>1 DEF VerifierFrame
    <3>. QED
      BY <1>2, <1>3, <2>2, <3>2, <3>3 DEF Listed
  <2>5. ToFind'
    <3>. SUFFICES ASSUME ver.edited
                  PROVE  \E e \in Placed(History) :
                           /\ ~At(History, e).ok /\ ~Before(e, <<resume.file, resume.pos>>)
                           /\ Before(<<resume.file, resume.pos>>, e)
      BY <1>1, <2>2, <2>3 DEF ToFind, VerifierFrame
    <3>1. PICK e \in Placed(History) : ~At(History, e).ok /\ ~Before(e, <<resume.file, resume.pos>>)
      BY <1>1, <1>3 DEF ReceiptsInv, ReaderInv, ToFind
    <3>2. e # <<resume.file, resume.pos>>
      <4>2. ChainFile(ver.n, resume.file) = History[resume.file]
        BY <1>8, UsableWhere, <1>2, <1>5 DEF ReceiptsInv, ChainInv
      <4>3. History[resume.file][resume.pos].ok
        BY <1>8, <4>2 DEF Usable
      <4>. QED
        BY <3>1, <4>3 DEF At
    <3>3. e = <<e[1], e[2]>> /\ e[1] \in Nat /\ e[2] \in Nat
      BY TheFiles, PlacesOf DEF ReceiptsInv
    <3>4. Before(<<resume.file, resume.pos>>, e)
      BY <1>4, <3>1, <3>2, <3>3 DEF Before
    <3>. QED
      BY <3>1, <3>4
  <2>6. NoFalseAlarm'
    BY <2>2 DEF NoFalseAlarm
  <2>. QED
    BY <2>3, <2>4, <2>5, <2>6 DEF ReceiptsInv, ReaderInv
<1>9. CASE ~Usable(ver.n, resume)
  <2>1. ver' = [ver EXCEPT !.pc = "scan"]
    BY <1>9 DEF Peek
  <2>2. /\ ver' \in Pass /\ ver'.pc = "scan" /\ ver'.n = ver.n /\ ver'.from = NoResume
        /\ ver'.seals = ver.seals /\ ver'.again = ver.again /\ ver'.before = ver.before
        /\ ver'.edited = ver.edited /\ ver'.full = ver.full
    BY <1>2, <2>1 DEF Pass
  <2>3. ReceiptsTypeOK' /\ ChainInv' /\ History' = History /\ Resumable'
    BY <1>7, <2>2
  <2>4. Listed'
    BY <1>1, <1>2, <1>3, <2>2 DEF Listed, VerifierFrame
  <2>5. ToFind'
    BY <1>1, <2>2, <2>3 DEF ReceiptsInv, ReaderInv, ToFind, VerifierFrame
  <2>6. NoFalseAlarm'
    BY <2>2 DEF NoFalseAlarm
  <2>. QED
    BY <2>3, <2>4, <2>5, <2>6 DEF ReceiptsInv, ReaderInv
<1>. QED
  BY <1>8, <1>9

\* A pass that is good has met all there was to find, and its resume point is a receipt.
LEMMA GoodStep ==
  ASSUME ReceiptsAssumption, ReceiptsInv, VerifierFrame, NEW from,
         \/ ver.pc = "tail" /\ from = ver.from
         \/ ver.pc = "scan" /\ from = NoResume,
         Scan(ver.n, from).ok, Good(ver.n, from)
  PROVE  ReceiptsInv'
<1>1. /\ ver \in Pass /\ ver.n \in 0..Len(segs) /\ ver.n \in Nat /\ ver.seals \in Nat
      /\ Len(segs) \in Nat /\ resume \in Point /\ ver.seals <= ver.n /\ ver.n <= Len(segs)
      /\ ver.pc = "tail" => Starts(ver.n, ver.from)
  BY PassAt
<1>2. Starts(ver.n, from) /\ ReceiptsTypeOK /\ ChainInv
  BY <1>1, FromFirst DEF ReceiptsInv
<1>3. PICK v : v = Scan(ver.n, from)
  OBVIOUS
<1>4. v \in [ok : BOOLEAN, total : Nat, skipped : Nat] /\ v.ok
  BY <1>1, <1>2, <1>3, VerdictOf
<1>5. ver' = [ver EXCEPT !.pc = "told", !.v = v, !.from = NoResume]
  BY <1>3 DEF Good, Told
<1>6. NoResume \in Point
  BY DEF NoResume, Point, Genesis
<1>7. /\ ver' \in Pass /\ ver'.pc = "told" /\ ver'.n = ver.n /\ ver'.v = v
      /\ ver'.seals = ver.seals /\ ver'.again = ver.again /\ ver'.before = ver.before
      /\ ver'.from = NoResume
  BY <1>1, <1>4, <1>5, <1>6 DEF Pass
<1>8. /\ resume' \in Point
      /\ resume' = NoResume \/ Sound(History, resume') \/ Stale(History, resume')
  <2>1. resume' = NextResume(ver.n, from) \/ resume' = resume
    BY DEF Good
  <2>2. CASE resume' = resume
    BY <1>1, <2>2 DEF ReceiptsInv, ReaderInv, Resumable
  <2>3. CASE resume' = NextResume(ver.n, from)
    <3>1. HashOnce(History, issued)
      BY <1>2 DEF ChainInv
    <3>2. /\ resume' \in Point
          /\ resume' = from \/ Sound(History, resume') \/ Stale(History, resume')
      BY <1>1, <1>2, <2>3, <3>1, Pointed
    <3>3. from = NoResume \/ Sound(History, from)
      BY <1>2 DEF Starts
    <3>. QED
      BY <3>2, <3>3
  <2>. QED
    BY <2>1, <2>2, <2>3
<1>9. ReceiptsTypeOK' /\ ChainInv' /\ History' = History
  BY <1>7, <1>8, VerifierKeeps
<1>10. Resumable'
  BY <1>8, <1>9 DEF Resumable
<1>11. segs' = segs /\ whole' = whole /\ damaged' = damaged
  BY DEF VerifierFrame
<1>12. Listed'
  <2>1. (ver.again => ver.n > ver.seals) /\ ver.before \subseteq whole
    BY DEF ReceiptsInv, ReaderInv, Listed
  <2>. QED
    BY <1>1, <1>7, <1>11, <2>1 DEF Listed
<1>13. ToFind'
  BY <1>7 DEF ToFind
<1>14. NoFalseAlarm'
  BY <1>4, <1>7 DEF NoFalseAlarm
<1>. QED
  BY <1>9, <1>10, <1>12, <1>13, <1>14 DEF ReceiptsInv, ReaderInv

LEMMA FromResumeStep ==
  ASSUME ReceiptsAssumption, ReceiptsInv, FromResume
  PROVE  ReceiptsInv'
<1>1. ver.pc = "tail" /\ VerifierFrame
  BY DEF FromResume, VerifierFrame
<1>2. CASE Scan(ver.n, ver.from).ok
  <2>1. Good(ver.n, ver.from)
    BY <1>2 DEF FromResume
  <2>. QED
    BY <1>1, <1>2, <2>1, GoodStep
<1>3. CASE ~Scan(ver.n, ver.from).ok
  <2>1. ver' = [ver EXCEPT !.pc = "scan", !.from = NoResume] /\ resume' = resume
    BY <1>3 DEF FromResume
  <2>2. /\ ver \in Pass /\ ver.n \in 0..Len(segs) /\ Len(segs) \in Nat /\ resume \in Point
        /\ ver.seals <= ver.n /\ ver.n <= Len(segs)
    BY <1>1, PassAt
  <2>3. NoResume \in Point
    BY DEF NoResume, Point, Genesis
  <2>4. /\ ver' \in Pass /\ ver'.pc = "scan" /\ ver'.n = ver.n
        /\ ver'.seals = ver.seals /\ ver'.again = ver.again /\ ver'.before = ver.before
        /\ ver'.edited = ver.edited /\ ver'.full = ver.full /\ ver'.from = NoResume
    BY <2>1, <2>2, <2>3 DEF Pass
  <2>5. ReceiptsTypeOK' /\ ChainInv' /\ History' = History
    BY <1>1, <2>1, <2>2, <2>4, VerifierKeeps
  <2>6. Resumable'
    BY <2>1, <2>5 DEF ReceiptsInv, ReaderInv, Resumable
  <2>7. Listed'
    <3>1. (ver.again => ver.n > ver.seals) /\ ver.before \subseteq whole
      BY <1>1 DEF ReceiptsInv, ReaderInv, Listed
    <3>. QED
      BY <1>1, <2>2, <2>4, <3>1 DEF Listed, VerifierFrame
  <2>8. ToFind'
    BY <1>1, <2>1, <2>4, <2>5 DEF ReceiptsInv, ReaderInv, ToFind, VerifierFrame
  <2>9. NoFalseAlarm'
    BY <2>4 DEF NoFalseAlarm
  <2>. QED
    BY <2>5, <2>6, <2>7, <2>8, <2>9 DEF ReceiptsInv, ReaderInv
<1>. QED
  BY <1>2, <1>3

\* A whole pass fails on an unedited history only when its listing is an older one.
LEMMA ScanAllStep ==
  ASSUME ReceiptsAssumption, ReceiptsInv, ScanAll
  PROVE  ReceiptsInv'
<1>1. ver.pc = "scan" /\ VerifierFrame
  BY DEF ScanAll, VerifierFrame
<1>2. CASE Scan(ver.n, NoResume).ok
  <2>1. Good(ver.n, NoResume)
    BY <1>2 DEF ScanAll
  <2>. QED
    BY <1>1, <1>2, <2>1, GoodStep
<1>3. CASE ~Scan(ver.n, NoResume).ok
  <2>1. PICK v : v = Scan(ver.n, NoResume)
    OBVIOUS
  <2>2. /\ resume' = resume
        /\ \/ ver.again /\ ver' = [ver EXCEPT !.pc = "told", !.v = v, !.from = NoResume]
           \/ ~ver.again /\ ver' = [ver EXCEPT !.pc = "relist", !.v = v]
    BY <1>3, <2>1 DEF ScanAll, Told
  <2>3. /\ ver \in Pass /\ ver.n \in 0..Len(segs) /\ ver.n \in Nat /\ ver.seals \in Nat
        /\ Len(segs) \in Nat /\ resume \in Point /\ ver.seals <= ver.n /\ ver.n <= Len(segs)
        /\ ver.from = NoResume
    BY <1>1, PassAt
  <2>4. v \in [ok : BOOLEAN, total : Nat, skipped : Nat] /\ ~v.ok /\ NoResume \in Point
    <3>1. Starts(ver.n, NoResume)
      BY DEF Starts
    <3>2. NoResume \in Point
      BY DEF NoResume, Point, Genesis
    <3>. QED
      BY <1>3, <2>1, <2>3, <3>1, <3>2, VerdictOf DEF ReceiptsInv
  <2>5. /\ ver' \in Pass /\ ver'.pc = (IF ver.again THEN "told" ELSE "relist") /\ ver'.n = ver.n
        /\ ver'.v = v /\ ver'.seals = ver.seals /\ ver'.again = ver.again /\ ver'.before = ver.before
        /\ ver'.edited = ver.edited /\ ver'.full = ver.full /\ ver'.from = NoResume
    BY <2>2, <2>3, <2>4 DEF Pass
  <2>6. ReceiptsTypeOK' /\ ChainInv' /\ History' = History
    BY <1>1, <2>2, <2>3, <2>5, VerifierKeeps
  <2>7. Resumable'
    BY <2>2, <2>6 DEF ReceiptsInv, ReaderInv, Resumable
  <2>8. segs' = segs /\ whole' = whole /\ damaged' = damaged
    BY <1>1 DEF VerifierFrame
  <2>9. ~damaged => ver.n < Len(segs)
    <3>1. ~damaged => ver.n # Len(segs)
      BY <1>3, Healthy DEF ReceiptsInv
    <3>. QED
      BY <2>3, <3>1
  <2>10. (ver.again => ver.n > ver.seals) /\ ver.before \subseteq whole
    BY <1>1 DEF ReceiptsInv, ReaderInv, Listed
  <2>11. Listed'
    BY <2>3, <2>4, <2>5, <2>8, <2>9, <2>10 DEF Listed
  <2>12. ToFind'
    BY <1>1, <2>2, <2>5, <2>6, <2>8 DEF ReceiptsInv, ReaderInv, ToFind
  <2>13. NoFalseAlarm'
    <3>. SUFFICES ASSUME ver.again, ~damaged, Len(segs) <= ver.seals + 1 PROVE FALSE
      BY <2>5, <2>8 DEF NoFalseAlarm
    <3>. QED
      BY <2>3, <2>9, <2>10
  <2>. QED
    BY <2>6, <2>7, <2>11, <2>12, <2>13 DEF ReceiptsInv, ReaderInv
<1>. QED
  BY <1>2, <1>3

LEMMA RelistStep ==
  ASSUME ReceiptsAssumption, ReceiptsInv, Relist
  PROVE  ReceiptsInv'
<1>1. ver.pc = "relist" /\ VerifierFrame /\ resume' = resume
  BY DEF Relist, VerifierFrame
<1>2. /\ ver \in Pass /\ ver.n \in 0..Len(segs) /\ ver.n \in Nat /\ ver.seals \in Nat
      /\ Len(segs) \in Nat /\ resume \in Point /\ ver.seals <= ver.n /\ ver.n <= Len(segs)
      /\ ver.from = NoResume
  BY <1>1, PassAt
<1>3. ~ver.v.ok /\ (~damaged => ver.n < Len(segs)) /\ ver.before \subseteq whole
      /\ (ver.again => ver.n > ver.seals)
  BY <1>1 DEF ReceiptsInv, ReaderInv, Listed
<1>4. segs' = segs /\ whole' = whole /\ damaged' = damaged
  BY <1>1 DEF VerifierFrame
<1>5. Resumable /\ NoResume \in Point
  BY DEF ReceiptsInv, ReaderInv, NoResume, Point, Genesis
<1>6. CASE Len(segs) = ver.n
  <2>1. ver' = [ver EXCEPT !.pc = "told", !.v = ver.v, !.from = NoResume]
    BY <1>6 DEF Relist, Told
  <2>2. /\ ver' \in Pass /\ ver'.pc = "told" /\ ver'.n = ver.n /\ ver'.v = ver.v
        /\ ver'.seals = ver.seals /\ ver'.again = ver.again /\ ver'.before = ver.before
        /\ ver'.from = NoResume
    BY <1>2, <1>5, <2>1 DEF Pass
  <2>3. ReceiptsTypeOK' /\ ChainInv' /\ History' = History
    BY <1>1, <1>2, <2>2, VerifierKeeps
  <2>4. Resumable' /\ Listed' /\ ToFind'
    <3>1. Resumable'
      BY <1>1, <1>5, <2>3 DEF Resumable
    <3>2. Listed'
      BY <1>2, <1>3, <1>4, <2>2 DEF Listed
    <3>3. ToFind'
      BY <2>2 DEF ToFind
    <3>. QED
      BY <3>1, <3>2, <3>3
  <2>5. damaged
    BY <1>2, <1>3, <1>6
  <2>6. NoFalseAlarm'
    BY <1>3, <1>4, <2>2, <2>5 DEF NoFalseAlarm
  <2>. QED
    BY <2>3, <2>4, <2>6 DEF ReceiptsInv, ReaderInv
<1>7. CASE Len(segs) # ver.n
  <2>. DEFINE pc == IF ver.full \/ resume = NoResume THEN "scan" ELSE "peek"
  <2>1. ver' = [ver EXCEPT !.n = Len(segs), !.again = TRUE, !.pc = pc]
    BY <1>7 DEF Relist
  <2>2. pc \in {"scan", "peek"} /\ (pc = "peek" => resume # NoResume /\ ~ver.full)
    OBVIOUS
  <2>. HIDE DEF pc
  <2>3. /\ ver' \in Pass /\ ver'.pc = pc /\ ver'.n = Len(segs)
        /\ ver'.seals = ver.seals /\ ver'.again = TRUE /\ ver'.before = ver.before
        /\ ver'.edited = ver.edited /\ ver'.full = ver.full /\ ver'.from = NoResume
    BY <1>2, <2>1, <2>2 DEF Pass
  <2>4. ReceiptsTypeOK' /\ ChainInv' /\ History' = History
    BY <1>1, <1>2, <2>3, VerifierKeeps
  <2>5. Resumable'
    BY <1>1, <1>5, <2>4 DEF Resumable
  <2>6. ver.seals < Len(segs)
    BY <1>2, <1>7
  <2>7. Listed'
    <3>1. pc = "peek" => Sound(History, resume) \/ (Stale(History, resume) /\ resume.file <= Len(segs))
      <4>1. Len(History) = Len(segs) + 1 /\ resume.file \in Nat
        BY <1>2, TheFiles DEF ReceiptsInv, Point
      <4>2. Stale(History, resume) => resume.file <= Len(segs)
        BY <1>2, <4>1 DEF Stale
      <4>. QED
        BY <1>5, <2>2, <4>2 DEF Resumable
    <3>. QED
      BY <1>1, <1>2, <1>3, <1>4, <2>2, <2>3, <2>4, <2>6, <3>1 DEF Listed
  <2>8. ToFind'
    BY <1>1, <2>2, <2>3, <2>4 DEF ReceiptsInv, ReaderInv, ToFind
  <2>9. NoFalseAlarm'
    BY <2>2, <2>3 DEF NoFalseAlarm
  <2>. QED
    BY <2>4, <2>5, <2>7, <2>8, <2>9 DEF ReceiptsInv, ReaderInv
<1>. QED
  BY <1>6, <1>7

LEMMA HeardStep ==
  ASSUME ReceiptsAssumption, ReceiptsInv, Heard
  PROVE  ReceiptsInv'
<1>1. ver' = Resting /\ VerifierFrame /\ resume' = resume /\ resume \in Point /\ Resumable
  BY DEF Heard, VerifierFrame, ReceiptsInv, ReceiptsTypeOK, ReaderInv
<1>2. ReceiptsTypeOK' /\ ChainInv' /\ History' = History
  BY <1>1, VerifierKeeps
<1>3. ver'.pc = "rest"
  BY <1>1 DEF Resting
<1>4. Resumable' /\ Listed' /\ ToFind' /\ NoFalseAlarm'
  BY <1>1, <1>2, <1>3 DEF Resumable, Listed, ToFind, NoFalseAlarm
<1>. QED
  BY <1>2, <1>4 DEF ReceiptsInv, ReaderInv

LEMMA ReceiptsStart ==
  ASSUME ReceiptsAssumption, ReceiptsInit
  PROVE  ReceiptsInv
<1>1. /\ segs = << >> /\ act = << >> /\ cps = << >> /\ rlock = NoAppender /\ step = "none" /\ backoff = {}
      /\ resume = NoResume /\ ver = Resting /\ whole = {} /\ issued = 0 /\ trouble = 0 /\ damaged = FALSE
  BY DEF ReceiptsInit
<1>2. Len(segs) = 0 /\ Len(act) = 0 /\ Len(cps) = 0 /\ segs \in Seq(Seq(Line)) /\ act \in Seq(Line)
      /\ cps \in Seq(SUBSET (Nat \X Nat))
  BY <1>1, EmptySeq
<1>3. NoResume \in Point
  BY DEF NoResume, Point, Genesis
<1>4. ReceiptsTypeOK
  <2>1. step \in {"none", "seal", "rename", "write"} /\ (step = "none" <=> rlock = NoAppender)
    BY <1>1
  <2>2. trouble \in 0..MaxTrouble
    <3>1. 0 \in 0..MaxTrouble
      BY DEF ReceiptsAssumption
    <3>. QED
      BY <1>1, <3>1
  <2>3. issued \in Nat /\ whole \subseteq 1..issued
    BY <1>1
  <2>4. damaged \in BOOLEAN /\ backoff \subseteq Appender
    BY <1>1, Zenon
  <2>5. rlock \in Appender \cup {NoAppender} /\ (ver = Resting \/ ver \in Pass) /\ resume \in Point
    BY <1>1, <1>3, Zenon
  <2>6. Len(cps) \in {Len(segs), Len(segs) + 1}
    BY <1>2
  <2>. QED
    BY <1>2, <2>1, <2>2, <2>3, <2>4, <2>5, <2>6 DEF ReceiptsTypeOK
<1>5. History \in Files /\ Len(History) = 1 /\ History[1] = act /\ DOMAIN segs = 1..0
  <2>1. History \in Files /\ Len(History) = Len(segs) + 1 /\ History[Len(segs) + 1] = act
        /\ DOMAIN segs = 1..Len(segs)
    BY <1>4, TheFiles
  <2>. QED
    BY <1>2, <2>1
<1>6. Placed(History) = {}
  <2>. SUFFICES ASSUME NEW e \in Placed(History) PROVE FALSE
    OBVIOUS
  <2>1. e[1] \in 1..1 /\ e[2] \in 1..Len(History[e[1]])
    BY <1>5, PlacesOf
  <2>2. e[1] = 1
    BY <2>1
  <2>3. e[2] \in 1..0
    BY <1>2, <1>5, <2>1, <2>2
  <2>. QED
    BY <2>3
<1>7. Rows(act, 0) = {} /\ 1..0 = {}
  <2>1. Rows(act, 0) \subseteq (0 + 1)..0
    BY <1>2, LinesOf
  <2>. QED
    BY <2>1
<1>8. ChainInv
  <2>1. HashOnce(History, issued) /\ Intact(History, damaged) /\ Filed(History, whole)
    BY <1>1, <1>6 DEF HashOnce, Intact, Filed
  <2>2. Chained(History)
    <3>1. DOMAIN History = 1..1
      BY <1>5, FilesOf
    <3>2. \A f \in 1..1 : f = 1
      OBVIOUS
    <3>. QED
      BY <1>5, <1>7, <3>1, <3>2 DEF Chained
  <2>3. NoneEmpty(History)
    <3>1. 1..(Len(History) - 1) = {}
      BY <1>5
    <3>. QED
      BY <3>1 DEF NoneEmpty
  <2>4. Committed
    BY <1>1, <1>5, <1>7 DEF Committed
  <2>. QED
    BY <2>1, <2>2, <2>3, <2>4 DEF ChainInv
<1>9. ReaderInv
  BY <1>1 DEF ReaderInv, Resumable, Listed, ToFind, NoFalseAlarm, Resting
<1>. QED
  BY <1>4, <1>8, <1>9 DEF ReceiptsInv

LEMMA ReceiptsStep ==
  ASSUME ReceiptsAssumption, ReceiptsInv, [ReceiptsNext]_receiptVars
  PROVE  ReceiptsInv'
<1>1. ASSUME NEW w \in Appender, AppendStep(w) PROVE ReceiptsInv'
  BY <1>1, BeginStep, SealCheckpointStep, SealRenameStep, SealFailsStep, WriteReceiptStep,
     WriteTornStep, AppenderDiesStep DEF AppendStep
<1>2. CASE Damage
  BY <1>2, DamageStep
<1>3. ASSUME NEW full \in BOOLEAN, List(full) PROVE ReceiptsInv'
  BY <1>3, ListStep
<1>4. CASE Peek
  BY <1>4, PeekStep
<1>5. CASE FromResume
  BY <1>5, FromResumeStep
<1>6. CASE ScanAll
  BY <1>6, ScanAllStep
<1>7. CASE Relist
  BY <1>7, RelistStep
<1>8. CASE Heard
  BY <1>8, HeardStep
<1>9. CASE UNCHANGED receiptVars
  <2>1. UNCHANGED <<segs, act, cps, rlock, step, backoff, resume, ver, whole, issued, trouble, damaged>>
    BY <1>9 DEF receiptVars
  <2>2. ReceiptsTypeOK'
    BY <2>1 DEF ReceiptsInv, ReceiptsTypeOK
  <2>3. Committed'
    BY <2>1 DEF ReceiptsInv, ChainInv, Committed
  <2>. QED
    BY <2>1, <2>2, <2>3, IdleStep
<1>. QED
  BY <1>1, <1>2, <1>3, <1>4, <1>5, <1>6, <1>7, <1>8, <1>9 DEF ReceiptsNext

\* The receipts' invariant holds: the chain on disk, the resume point and the pass under way
\* fit together whatever the appenders, their failures and deaths, and an edit do between
\* two steps of verify().
THEOREM ReceiptsInvariant == ReceiptsSpec => []ReceiptsInv
<1>1. ReceiptsInit => ReceiptsInv
  BY ReceiptsStart, ReceiptsAssumption
<1>2. ReceiptsInv /\ [ReceiptsNext]_receiptVars => ReceiptsInv'
  BY ReceiptsStep, ReceiptsAssumption
<1>. QED
  BY <1>1, <1>2, PTL DEF ReceiptsSpec

\* A chain that nobody edited verifies from its first line at every moment, also between the
\* two steps of a seal (_seal: "Order is the crash story").
THEOREM ChainVerifies == ReceiptsSpec => []ChainWhole
<1>1. ReceiptsInv => ChainWhole
  BY Healthy DEF ReceiptsInv, ChainWhole
<1>. QED
  BY <1>1, ReceiptsInvariant, PTL

\* verify() does not call a chain broken that nobody edited, when at most one segment was
\* sealed under it: the retry's listing is then the current one.
THEOREM HealthyIsTold == ReceiptsSpec => []NoFalseAlarm
<1>1. ReceiptsInv => NoFalseAlarm
  BY DEF ReceiptsInv, ReaderInv
<1>. QED
  BY <1>1, ReceiptsInvariant, PTL

\* The first receipt of the fresh active file does not link to what a reader has met that has
\* listed the segments before the newest one: it links to the last receipt of that one.
LEMMA Betrayed ==
  ASSUME ReceiptsTypeOK, ChainInv, NEW n \in 0..Len(segs), n < Len(segs), NEW from,
         Starts(n, from), from = NoResume \/ from.file <= n,
         NEW e \in Met(n, from), e[1] > n
  PROVE  ~Linked(n, from)
<1>. DEFINE N == Len(segs)
            Fresh == {i \in Rows(act, 0) : <<n + 1, i>> \in Met(n, from)}
<1>1. /\ N \in Nat /\ n \in Nat /\ n < N /\ History \in Files /\ Len(History) = N + 1
      /\ History[N + 1] = act /\ act \in Seq(Line) /\ ChainFile(n, n + 1) = act
      /\ \A f \in 1..n : ChainFile(n, f) = History[f]
  BY TheFiles DEF ReceiptsTypeOK
<1>2. /\ HashOnce(History, issued) /\ Chained(History) /\ NoneEmpty(History)
      /\ \A d \in Placed(History) : At(History, d).id \in Nat
  BY <1>1, PlacesOf, Zenon DEF ChainInv
<1>. HIDE DEF N
<1>3. After(from, n + 1) = 0
  BY <1>1 DEF After, NoResume
<1>4. /\ n + 1 \in from.file..(n + 1)
      /\ \A i \in Rows(act, 0) : i \in Nat /\ i \in 1..Len(act) /\ <<n + 1, i>> \in Met(n, from)
  <2>1. from.file \in 1..(n + 1) /\ from.file \in Nat
    BY StartsAt
  <2>2. n + 1 \in from.file..(n + 1)
    BY <1>1, <2>1
  <2>3. \A i \in Rows(act, 0) : i \in Nat /\ i \in 1..Len(act)
    BY <1>1, LinesOf
  <2>. QED
    BY <1>1, <1>3, <2>2, <2>3, MetAre
<1>5. e[2] \in Rows(act, 0)
  <2>1. e[1] = n + 1
    BY <1>1, MetAre
  <2>. QED
    BY <1>1, <1>3, <2>1, MetAre
<1>6. PICK i \in Rows(act, 0) : \A j \in Rows(act, 0) : i <= j
  <2>1. Rows(act, 0) \subseteq Nat /\ Rows(act, 0) # {}
    BY <1>4, <1>5
  <2>. QED
    BY <2>1, LeastNumber
<1>7. PICK x : x = <<n + 1, i>> /\ x \in Met(n, from) /\ x[1] = n + 1 /\ x[2] = i
  <2>1. <<n + 1, i>> \in Met(n, from)
    BY <1>4, <1>6
  <2>2. <<n + 1, i>>[1] = n + 1 /\ <<n + 1, i>>[2] = i
    OBVIOUS
  <2>. QED
    BY <2>1, <2>2, Zenon
<1>8. PICK m, last : /\ m \in 1..Len(History[N]) /\ last = <<N, m>> /\ last \in Placed(History)
                     /\ At(History, last).id = LastId(History[N]) /\ LastId(History[N]) # Genesis
  <2>1. N \in 1..(Len(History) - 1) /\ N \in 1..Len(History)
    BY <1>1
  <2>2. PICK file \in Seq(Line) : file = History[N] /\ Rows(file, 0) # {}
    BY <1>1, <1>2, <2>1, FilesOf DEF NoneEmpty
  <2>3. Max(Rows(file, 0)) \in Rows(file, 0) /\ LastId(file) = file[Max(Rows(file, 0))].id
    BY <2>2, LastRow
  <2>4. Max(Rows(file, 0)) \in 1..Len(file) /\ file[Max(Rows(file, 0))].id # Genesis
    <3>1. Rows(file, 0) \subseteq (0 + 1)..Len(file)
      BY LinesOf
    <3>2. file[Max(Rows(file, 0))].id # Genesis
      BY <2>3 DEF Rows
    <3>. QED
      BY <2>3, <3>1, <3>2
  <2>5. PICK m \in 1..Len(file) : file[m].id = LastId(file) /\ file[m].id # Genesis
    BY <2>3, <2>4
  <2>6. <<N, m>> \in Placed(History) /\ At(History, <<N, m>>) = History[N][m]
    BY <1>1, <2>1, <2>2, PlacesOf
  <2>. QED
    BY <2>2, <2>5, <2>6
<1>9. Row(n, x).prev = LastId(History[N])
  <2>1. History[N + 1][i].prev = PrevId(History, N + 1, i)
    <3>1. N + 1 \in DOMAIN History
      BY <1>1, FilesOf
    <3>. QED
      BY <1>1, <1>2, <1>6, <3>1 DEF Chained
  <2>2. {j \in Rows(act, 0) : j < i} = {}
    <3>. SUFFICES ASSUME NEW j \in Rows(act, 0), j < i PROVE FALSE
      OBVIOUS
    <3>1. i <= j /\ i \in Nat /\ j \in Nat
      BY <1>4, <1>6
    <3>. QED
      BY <3>1
  <2>3. N + 1 # 1 /\ N + 1 - 1 = N
    BY <1>1
  <2>4. PrevId(History, N + 1, i) = LastId(History[N])
    BY <1>1, <2>2, <2>3 DEF PrevId
  <2>. QED
    BY <1>1, <1>7, <2>1, <2>4 DEF Row
<1>10. ASSUME NEW d \in Placed(History), d[1] <= n PROVE At(History, d).id # LastId(History[N])
  <2>1. d # last
    BY <1>1, <1>8, <1>10
  <2>. QED
    BY <1>2, <1>8, <2>1, Zenon DEF HashOnce
<1>11. Link(n, from, x) # LastId(History[N])
  <2>. DEFINE earlier == {d \in Met(n, from) : Before(d, x)}
  <2>1. CASE earlier = {}
    <3>1. Link(n, from, x) = from.head
      BY <2>1 DEF Link
    <3>2. CASE from = NoResume
      BY <1>8, <3>1, <3>2 DEF NoResume
    <3>3. CASE from # NoResume
      <4>1. /\ Sound(History, from) /\ from.file <= n /\ from.file \in 1..Len(History)
            /\ from.pos \in 1..Len(History[from.file]) /\ At(History, <<from.file, from.pos>>).id = from.head
        <5>1. Sound(History, from) /\ from.file <= n
          BY <3>3 DEF Starts
        <5>2. from.file \in 1..Len(History)
          BY <1>1, <5>1, FilesOf DEF Sound
        <5>3. from.pos \in 1..Len(History[from.file])
          BY <1>1, <5>1, <5>2, FilesOf DEF Sound
        <5>. QED
          BY <5>1, <5>2, <5>3 DEF Sound, At
      <4>2. <<from.file, from.pos>> \in Placed(History)
        BY <1>1, <4>1, PlacesOf
      <4>. QED
        BY <1>10, <3>1, <4>1, <4>2
    <3>. QED
      BY <3>2, <3>3
  <2>2. CASE earlier # {}
    <3>1. earlier \subseteq Met(n, from)
      OBVIOUS
    <3>2. Latest(earlier) \in earlier
      BY <2>2, <3>1, LatestMet
    <3>3. PICK d : d = Latest(earlier) /\ d \in Met(n, from) /\ Before(d, x)
      BY <3>2
    <3>4. /\ d = <<d[1], d[2]>> /\ d[1] \in 1..(n + 1) /\ d[1] \in Nat /\ d[2] \in Nat
          /\ d[2] \in 1..Len(ChainFile(n, d[1])) /\ d[2] \in Rows(ChainFile(n, d[1]), After(from, d[1]))
      BY <3>3, MetAre
    <3>5. d[1] <= n
      <4>1. d[1] = n + 1 => d[2] \in Rows(act, 0)
        BY <1>1, <1>3, <3>4
      <4>2. d[1] = n + 1 => d[2] >= i
        BY <1>6, <4>1
      <4>3. i \in Nat
        BY <1>4, <1>6
      <4>. QED
        BY <1>1, <1>7, <3>3, <3>4, <4>2, <4>3 DEF Before
    <3>6. ChainFile(n, d[1]) = History[d[1]] /\ d[1] \in 1..Len(History)
      <4>1. d[1] \in 1..n
        BY <1>1, <3>4, <3>5
      <4>. QED
        BY <1>1, <4>1
    <3>7. d \in Placed(History)
      BY <1>1, <3>4, <3>6, PlacesOf
    <3>8. Row(n, d).id = At(History, d).id
      BY <3>6 DEF Row, At
    <3>9. Link(n, from, x) = Row(n, d).id
      BY <2>2, <3>3 DEF Link
    <3>. QED
      BY <1>10, <3>5, <3>7, <3>8, <3>9
  <2>. QED
    BY <2>1, <2>2
<1>. QED
  BY <1>7, <1>9, <1>11 DEF Linked

\* A pass that approves has listed every segment there is, and met what it had to find.
LEMMA ApproveStep ==
  ASSUME ReceiptsInv, [ReceiptsNext]_receiptVars, Approves
  PROVE  ~ver.edited /\ (ver'.v.skipped = 0 => ver'.v.total >= Cardinality(ver.before))
<1>1. /\ ver.n \in 0..Len(segs) /\ ver.n \in Nat /\ Len(segs) \in Nat /\ ver.n <= Len(segs)
      /\ IF ver.pc = "tail" THEN Starts(ver.n, ver.from) ELSE ver.from = NoResume
  BY PassAt DEF Approves
<1>2. ReceiptsTypeOK /\ ChainInv /\ ver.before \subseteq whole /\ Starts(ver.n, ver.from)
  BY <1>1, FromFirst DEF ReceiptsInv, ReaderInv, Listed, Approves
<1>3. ver'.v = Scan(ver.n, ver.from)
  <2>1. FromResume \/ ScanAll
    <3>1. ver.pc \in {"scan", "tail"} /\ ver'.pc = "told"
      BY DEF Approves
    <3>2. ASSUME NEW w \in Appender, AppendStep(w) PROVE ver' = ver
      BY <3>2 DEF AppendStep, Begin, SealCheckpoint, SealRename, SealFails, WriteReceipt, WriteTorn,
                  AppenderDies, Written
    <3>3. CASE Damage
      BY <3>1, <3>3 DEF Damage
    <3>4. ASSUME NEW full \in BOOLEAN, List(full) PROVE FALSE
      BY <3>1, <3>4 DEF List
    <3>5. CASE Peek \/ Relist \/ Heard
      BY <3>1, <3>5 DEF Peek, Relist, Heard
    <3>6. CASE UNCHANGED receiptVars
      BY <3>1, <3>6 DEF receiptVars
    <3>. QED
      BY <3>1, <3>2, <3>3, <3>4, <3>5, <3>6 DEF ReceiptsNext
  <2>2. ver \in Pass
    BY PassAt DEF Approves
  <2>3. ASSUME NEW v, ver' = [ver EXCEPT !.pc = "told", !.v = v, !.from = NoResume] PROVE ver'.v = v
    BY <2>2, <2>3 DEF Pass
  <2>4. CASE FromResume
    <3>1. Scan(ver.n, ver.from).ok
      BY <2>2, <2>4 DEF FromResume, Approves, Pass
    <3>. QED
      BY <2>3, <2>4, <3>1 DEF FromResume, Good, Told
  <2>5. CASE ScanAll
    <3>1. ver.from = NoResume
      BY <1>1, <2>5 DEF ScanAll
    <3>2. Told(Scan(ver.n, NoResume))
      BY <2>2, <2>5 DEF ScanAll, Good, Approves, Pass
    <3>. QED
      BY <2>3, <3>1, <3>2 DEF Told
  <2>. QED
    BY <2>1, <2>4, <2>5
<1>4. Scan(ver.n, ver.from).ok /\ Linked(ver.n, ver.from)
  <2>1. Scan(ver.n, ver.from).ok
    BY <1>3 DEF Approves
  <2>2. Linked(ver.n, ver.from)
    BY <2>1 DEF Scan
  <2>. QED
    BY <2>1, <2>2
<1>5. ver.n = Len(segs)
  <2>. SUFFICES ASSUME ver.n < Len(segs) PROVE FALSE
    BY <1>1
  <2>1. PICK e \in Met(ver.n, ver.from) : ~(e[1] <= ver.n)
    BY <1>1 DEF Approves, Unaware
  <2>2. e[1] > ver.n
    BY <1>1, <1>2, <2>1, MetAre
  <2>3. ver.from = NoResume \/ ver.from.file <= ver.n
    <3>1. ver.pc = "tail" => ver.from.file # ver.n + 1
      BY <1>1 DEF Approves, Unaware
    <3>2. ver.from.file \in 1..(ver.n + 1) /\ ver.from.file \in Nat
      BY <1>1, <1>2, StartsAt
    <3>. QED
      BY <1>1, <3>1, <3>2
  <2>. QED
    BY <1>1, <1>2, <1>4, <2>2, <2>3, Betrayed
<1>6. ~ver.edited
  <2>. SUFFICES ASSUME ver.edited PROVE FALSE
    OBVIOUS
  <2>1. PICK e \in Placed(History) :
          ~At(History, e).ok /\ (ver.pc = "tail" => Before(<<ver.from.file, ver.from.pos>>, e))
    BY DEF ReceiptsInv, ReaderInv, ToFind, Approves
  <2>2. Before(<<ver.from.file, ver.from.pos>>, e)
    BY <1>1, <1>2, <2>1, FromFirst
  <2>. QED
    BY <1>2, <1>4, <1>5, <2>1, <2>2, Found
<1>7. ver'.v.skipped = 0 => ver'.v.total >= Cardinality(ver.before)
  BY <1>2, <1>3, <1>5, NoneMissed
<1>. QED
  BY <1>6, <1>7

\* EditFound: verify() finds a receipt edited before the pass began, any with --full and from
\* the resume point's own receipt onward without, also when segments are sealed under it; the
\* exception is a pass that comes back without having met anything that tells it of the seal.
THEOREM EditIsTold == ReceiptsSpec => EditFound
<1>1. ReceiptsInv /\ [ReceiptsNext]_receiptVars => [Approves => ~ver.edited]_receiptVars
  BY ApproveStep
<1>. QED
  BY <1>1, ReceiptsInvariant, PTL DEF ReceiptsSpec, EditFound

\* NoSilentGap: a verdict without gaps, from the resume point or not, counts every receipt
\* whose append came back before the pass began, with the same exception: a pass that knows of
\* the seal has listed every segment.
THEOREM EveryReceiptCounted == ReceiptsSpec => NoSilentGap
<1>1. ReceiptsInv /\ [ReceiptsNext]_receiptVars =>
        [Approves /\ ver'.v.skipped = 0 => ver'.v.total >= Cardinality(ver.before)]_receiptVars
  BY ApproveStep
<1>. QED
  BY <1>1, ReceiptsInvariant, PTL DEF ReceiptsSpec, NoSilentGap
=============================================================================
