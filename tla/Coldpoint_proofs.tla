-------------------------- MODULE Coldpoint_proofs --------------------------
(***************************************************************************)
(* Proofs about Coldpoint, for every set of threads, lineages, ids and     *)
(* lifetimes, and with no bound on the clock but MaxTime: its types, and   *)
(* its safety properties.  Each theorem names, as an assumption, the       *)
(* circumstances without which TLC refutes it.                             *)
(***************************************************************************)
EXTENDS Coldpoint, FiniteSetTheorems, TLAPS

\* What a thread does, with a plan or without.
Work(t) == Planned(t) \/ Unplanned(t)

LEMMA NextWork ==
  Next => Tick \/ (\E t \in Thread : Work(t)) \/ (\E p \in Proc : Crash(p))
  BY DEF Next, Outsiders, Work

LEMMA LaterNat == ASSUME NEW a \in Nat, NEW b \in Int
                  PROVE  Later(a, b) \in Nat /\ Later(a, b) >= a /\ Later(a, b) >= b
  BY DEF Later

LEMMA LaterTTL == ASSUME NEW a \in TTL, NEW b \in TTL
                  PROVE  Later(a, b) \in TTL
  BY DEF Later

LEMMA NewStateType ==
  ASSUME NEW b \in Body, NEW ids \in SUBSET Id
  PROVE  NewState(b, ids) \in State
  BY DEF NewState, Body, State

LEMMA VerdictType ==
  ASSUME NEW s, NEW b, NEW held, NEW eff
  PROVE  Verdict(s, b, held, eff) \in Reason
  BY DEF Verdict, Reason

LEMMA MoveToEndType ==
  ASSUME NEW p, NEW k \in Lineage, NEW order \in SUBSET (Lineage \X Lineage)
  PROVE  MoveToEnd(p, k, order) \in SUBSET (Lineage \X Lineage)
  BY DEF MoveToEnd, Known

-----------------------------------------------------------------------------
(* What the four actions that write _STATES do to it.                      *)

\* Outside of lineage k of worker p nothing changes.
ElsewhereSame(p, k) ==
  \A q \in Proc, j \in Lineage : q # p \/ j # k => states'[q][j] = states[q][j]

\* The same lineages are known before and after.
SameKnown == \A q \in Proc, j \in Lineage : states'[q][j] = NONE <=> states[q][j] = NONE

LEMMA StatesType ==
  ASSUME TypeOK, NEW p \in Proc, NEW k \in Lineage, states[p][k] # NONE
  PROVE  /\ states[p][k] \in State
         /\ states[p][k].last \in Nat /\ states[p][k].n \in Length /\ states[p][k].tail \in Conv
         /\ states[p][k].ttl \in TTL /\ states[p][k].inflight \in Nat
         /\ states[p][k].evicted \in SUBSET Id /\ states[p][k].ambiguous \in BOOLEAN
         /\ states[p][k].pending \in BOOLEAN /\ states[p][k].served \in SUBSET (Conv \X Length)
  BY DEF TypeOK, State

LEMMA BodyType ==
  ASSUME TypeOK, NEW t \in Thread, pc[t] # "idle"
  PROVE  /\ body[t] \in Body /\ body[t].proc \in Proc /\ body[t].lin \in Lineage
         /\ body[t].conv \in Conv /\ body[t].len \in Length /\ body[t].ttl \in TTL
         /\ body[t].at \in Nat
  BY DEF TypeOK, Body

LEMMA TouchEffect ==
  ASSUME TypeOK, NEW b \in Body, NEW delta \in {-1, 1}, Touch(b, delta),
         NEW old, old = states[b.proc][b.lin], NEW new, new = states'[b.proc][b.lin]
  PROVE  /\ ElsewhereSame(b.proc, b.lin) /\ SameKnown
         /\ old = NONE => new = NONE
         /\ old # NONE =>
              /\ new \in State
              /\ new.inflight = Later(0, old.inflight + delta)
              /\ new.last = Later(old.last, clock)
              /\ new.n = old.n /\ new.tail = old.tail /\ new.ttl = old.ttl
              /\ new.evicted = old.evicted /\ new.ambiguous = old.ambiguous
              /\ new.pending = old.pending /\ new.served = old.served
         /\ states' \in [Proc -> [Lineage -> State \cup {NONE}]]
  <1> DEFINE u == [old EXCEPT !.inflight = Later(0, @ + delta), !.last = Later(@, clock)]
  <1>1. b.proc \in Proc /\ b.lin \in Lineage
    BY DEF Body
  <1>2. CASE old = NONE
    BY <1>1, <1>2 DEF Touch, TypeOK, ElsewhereSame, SameKnown
  <1>3. CASE old # NONE
    <2>1. old \in State /\ old.inflight \in Nat /\ old.last \in Nat /\ clock \in Nat
      BY <1>1, <1>3, StatesType DEF TypeOK
    <2>2. Later(0, old.inflight + delta) \in Nat /\ Later(old.last, clock) \in Nat
      <3>1. old.inflight + delta \in Int
        BY <2>1
      <3>2. QED
        BY <2>1, <3>1 DEF Later
    <2> DEFINE inflight == Later(0, old.inflight + delta)
               last == Later(old.last, clock)
    <2>3. u = [old EXCEPT !.inflight = inflight, !.last = last]
      OBVIOUS
    <2>4. u \in State
      BY <2>1, <2>2, <2>3 DEF State
    <2>5. states' = [states EXCEPT ![b.proc] = [@ EXCEPT ![b.lin] = u]]
      BY <1>1, <1>3, <2>1 DEF Touch, TypeOK
    <2>6. new = u /\ ElsewhereSame(b.proc, b.lin)
      BY <1>1, <2>5 DEF TypeOK, ElsewhereSame
    <2>7. states' \in [Proc -> [Lineage -> State \cup {NONE}]]
      BY <1>1, <2>4, <2>5 DEF TypeOK
    <2>8. /\ u.inflight = inflight /\ u.last = last
          /\ u.n = old.n /\ u.tail = old.tail /\ u.ttl = old.ttl
          /\ u.evicted = old.evicted /\ u.ambiguous = old.ambiguous
          /\ u.pending = old.pending /\ u.served = old.served
      BY <2>1, <2>3 DEF State
    <2>9. SameKnown
      <3>1. states[b.proc][b.lin] # NONE /\ states'[b.proc][b.lin] # NONE
        BY <1>3, <2>4, <2>6, NoneAssumption
      <3>2. QED
        BY <2>6, <3>1 DEF SameKnown, ElsewhereSame
    <2>10. QED
      BY <1>3, <2>4, <2>6, <2>7, <2>8, <2>9
  <1>4. QED
    BY <1>2, <1>3

LEMMA EvictedType ==
  ASSUME TypeOK, Held, NEW t \in Thread, pc[t] = "choosing"
  PROVE  Evicted(t) \in SUBSET Id
  <1>1. body[t].proc \in Proc /\ body[t].lin \in Lineage /\ evict[t] \in SUBSET Id
    BY BodyType DEF TypeOK
  <1>2. ~orphan[t] => states[body[t].proc][body[t].lin].evicted \in SUBSET Id
    BY <1>1, StatesType DEF Held
  <1>3. QED
    BY <1>1, <1>2 DEF Evicted

StateOf(t) == states[body[t].proc][body[t].lin]

LEMMA SettleEffect ==
  ASSUME TypeOK, Held, NEW t \in Thread, pc[t] = "choosing",
         NEW ids \in SUBSET Id, NEW pending \in BOOLEAN, Settle(t, ids, pending)
  PROVE  /\ ElsewhereSame(body[t].proc, body[t].lin) /\ SameKnown
         /\ orphan[t] => states' = states
         /\ ~orphan[t] =>
              /\ StateOf(t) # NONE /\ states'[body[t].proc][body[t].lin] \in State
              /\ states'[body[t].proc][body[t].lin].evicted = ids /\ states'[body[t].proc][body[t].lin].pending = pending
              /\ states'[body[t].proc][body[t].lin].inflight = StateOf(t).inflight /\ states'[body[t].proc][body[t].lin].last = StateOf(t).last
              /\ states'[body[t].proc][body[t].lin].n = StateOf(t).n /\ states'[body[t].proc][body[t].lin].tail = StateOf(t).tail /\ states'[body[t].proc][body[t].lin].ttl = StateOf(t).ttl
              /\ states'[body[t].proc][body[t].lin].ambiguous = StateOf(t).ambiguous /\ states'[body[t].proc][body[t].lin].served = StateOf(t).served
         /\ states' \in [Proc -> [Lineage -> State \cup {NONE}]]
         /\ evict' = [evict EXCEPT ![t] = ids] /\ evict' \in [Thread -> SUBSET Id]
         /\ orphan' = [orphan EXCEPT ![t] = FALSE] /\ orphan' \in [Thread -> BOOLEAN]
  <1> DEFINE p == body[t].proc
             k == body[t].lin
             old == StateOf(t)
             new == states'[p][k]
             u == [old EXCEPT !.evicted = ids, !.pending = pending]
  <1>1. p \in Proc /\ k \in Lineage
    BY BodyType
  <1>2. /\ evict' = [evict EXCEPT ![t] = ids] /\ evict' \in [Thread -> SUBSET Id]
        /\ orphan' = [orphan EXCEPT ![t] = FALSE] /\ orphan' \in [Thread -> BOOLEAN]
    BY DEF Settle, TypeOK
  <1>3. CASE orphan[t]
    BY <1>2, <1>3 DEF Settle, TypeOK, ElsewhereSame, SameKnown
  <1>4. CASE ~orphan[t]
    <2>1. old # NONE /\ old \in State
      BY <1>1, <1>4, StatesType DEF Held, StateOf
    <2>2. u \in State
      BY <2>1 DEF State
    <2>3. states' = [states EXCEPT ![p] = [@ EXCEPT ![k] = u]]
      BY <1>1, <1>4, <2>1 DEF Settle, TypeOK, StateOf
    <2>4. new = u /\ ElsewhereSame(p, k)
      BY <1>1, <2>3 DEF TypeOK, ElsewhereSame
    <2>5. states' \in [Proc -> [Lineage -> State \cup {NONE}]]
      BY <1>1, <2>2, <2>3 DEF TypeOK
    <2>6. /\ u.evicted = ids /\ u.pending = pending
          /\ u.inflight = old.inflight /\ u.last = old.last
          /\ u.n = old.n /\ u.tail = old.tail /\ u.ttl = old.ttl
          /\ u.ambiguous = old.ambiguous /\ u.served = old.served
      BY <2>1 DEF State
    <2>7. SameKnown
      <3>1. states[p][k] # NONE /\ states'[p][k] # NONE
        BY <2>1, <2>2, <2>4, NoneAssumption DEF StateOf
      <3>2. QED
        BY <2>4, <3>1 DEF SameKnown, ElsewhereSame
    <2>8. QED
      BY <1>2, <1>4, <2>1, <2>2, <2>4, <2>5, <2>6, <2>7
  <1>5. QED
    BY <1>3, <1>4

\* The second critical section of plan(), with or without a deferral.
Chooses(t) == Defer(t) \/ \E fresh \in SUBSET Id : Commit(t, fresh)

LEMMA ChoosesEffect ==
  ASSUME TypeOK, Held, NEW t \in Thread, Chooses(t)
  PROVE  /\ pc[t] = "choosing" /\ pc'[t] \in {"ready", "persisting"}
         /\ evict'[t] \in SUBSET Id /\ Evicted(t) \subseteq evict'[t]
         /\ pc'[t] = "ready" => evict'[t] = Evicted(t)
         /\ pc' = [pc EXCEPT ![t] = pc'[t]]
         /\ evict' = [evict EXCEPT ![t] = evict'[t]]
         /\ orphan' = [orphan EXCEPT ![t] = FALSE]
         /\ UNCHANGED <<clock, disk, cache, older, body, seen, wire, lost, floor, gone>>
         /\ ElsewhereSame(body[t].proc, body[t].lin) /\ SameKnown
         /\ orphan[t] => states' = states
         /\ ~orphan[t] =>
              /\ StateOf(t) # NONE /\ states'[body[t].proc][body[t].lin] \in State
              /\ states'[body[t].proc][body[t].lin].evicted = evict'[t]
              /\ states'[body[t].proc][body[t].lin].inflight = StateOf(t).inflight /\ states'[body[t].proc][body[t].lin].last = StateOf(t).last
              /\ states'[body[t].proc][body[t].lin].n = StateOf(t).n /\ states'[body[t].proc][body[t].lin].tail = StateOf(t).tail /\ states'[body[t].proc][body[t].lin].ttl = StateOf(t).ttl
              /\ states'[body[t].proc][body[t].lin].ambiguous = StateOf(t).ambiguous /\ states'[body[t].proc][body[t].lin].served = StateOf(t).served
  <1> DEFINE old == StateOf(t)
             new == states'[body[t].proc][body[t].lin]
  <1>1. CASE Defer(t)
    <2>1. pc[t] = "choosing" /\ Settle(t, Evicted(t), TRUE)
      BY <1>1 DEF Defer
    <2>2. Evicted(t) \in SUBSET Id
      BY <2>1, EvictedType
    <2>3. evict' = [evict EXCEPT ![t] = Evicted(t)] /\ orphan' = [orphan EXCEPT ![t] = FALSE]
      BY <2>1, <2>2, SettleEffect
    <2>4. evict'[t] = Evicted(t)
      BY <2>3 DEF TypeOK
    <2>5. /\ ElsewhereSame(body[t].proc, body[t].lin) /\ SameKnown
          /\ orphan[t] => states' = states
          /\ ~orphan[t] =>
               /\ old # NONE /\ new \in State /\ new.evicted = Evicted(t)
               /\ new.inflight = old.inflight /\ new.last = old.last
               /\ new.n = old.n /\ new.tail = old.tail /\ new.ttl = old.ttl
               /\ new.ambiguous = old.ambiguous /\ new.served = old.served
      BY <2>1, <2>2, SettleEffect
    <2>6. /\ pc' = [pc EXCEPT ![t] = "ready"] /\ pc'[t] = "ready"
          /\ UNCHANGED <<clock, disk, cache, older, body, seen, wire, lost, floor, gone>>
      BY <1>1 DEF Defer, TypeOK
    <2>7. QED
      BY <2>1, <2>2, <2>3, <2>4, <2>5, <2>6
  <1>2. ASSUME NEW fresh \in SUBSET Id, Commit(t, fresh)
        PROVE  /\ pc[t] = "choosing" /\ pc'[t] \in {"ready", "persisting"}
               /\ evict'[t] \in SUBSET Id /\ Evicted(t) \subseteq evict'[t]
               /\ pc'[t] = "ready" => evict'[t] = Evicted(t)
               /\ pc' = [pc EXCEPT ![t] = pc'[t]]
               /\ evict' = [evict EXCEPT ![t] = evict'[t]]
               /\ orphan' = [orphan EXCEPT ![t] = FALSE]
               /\ UNCHANGED <<clock, disk, cache, older, body, seen, wire, lost, floor, gone>>
               /\ ElsewhereSame(body[t].proc, body[t].lin) /\ SameKnown
               /\ orphan[t] => states' = states
               /\ ~orphan[t] =>
                    /\ old # NONE /\ new \in State
                    /\ new.evicted = evict'[t]
                    /\ new.inflight = old.inflight /\ new.last = old.last
                    /\ new.n = old.n /\ new.tail = old.tail /\ new.ttl = old.ttl
                    /\ new.ambiguous = old.ambiguous /\ new.served = old.served
    <2> DEFINE ids == Evicted(t) \cup fresh
    <2>1. pc[t] = "choosing" /\ Settle(t, ids, FALSE)
      BY <1>2 DEF Commit
    <2>2. Evicted(t) \in SUBSET Id /\ ids \in SUBSET Id
      BY <2>1, EvictedType
    <2>3. evict' = [evict EXCEPT ![t] = ids] /\ orphan' = [orphan EXCEPT ![t] = FALSE]
      BY <2>1, <2>2, SettleEffect
    <2>4. evict'[t] = ids
      BY <2>3 DEF TypeOK
    <2>5. /\ ElsewhereSame(body[t].proc, body[t].lin) /\ SameKnown
          /\ orphan[t] => states' = states
          /\ ~orphan[t] =>
               /\ old # NONE /\ new \in State /\ new.evicted = ids
               /\ new.inflight = old.inflight /\ new.last = old.last
               /\ new.n = old.n /\ new.tail = old.tail /\ new.ttl = old.ttl
               /\ new.ambiguous = old.ambiguous /\ new.served = old.served
      BY <2>1, <2>2, SettleEffect
    <2>6. /\ pc' = [pc EXCEPT ![t] = AfterCommit(fresh)]
          /\ UNCHANGED <<clock, disk, cache, older, body, seen, wire, lost, floor, gone>>
      BY <1>2 DEF Commit
    <2>7. /\ pc'[t] = AfterCommit(fresh) /\ pc'[t] \in {"ready", "persisting"}
          /\ pc'[t] = "ready" => fresh = {}
      BY <2>6 DEF AfterCommit, TypeOK
    <2>8. QED
      BY <2>1, <2>2, <2>3, <2>4, <2>5, <2>6, <2>7
  <1>3. QED
    BY <1>1, <1>2 DEF Chooses

LEMMA FirstSeenEffect ==
  ASSUME TypeOK, NEW t \in Thread, FirstSeen(t)
  PROVE  LET p == body[t].proc
             k == body[t].lin
         IN /\ pc[t] = "peeked" /\ states[p][k] = NONE
            /\ states'[p][k] = NewState(body[t], seen[t]) /\ states'[p][k] \in State
            /\ \A j \in Lineage : j # k =>
                 states'[p][j] = IF j \in Dropped(p, k) THEN NONE ELSE states[p][j]
            /\ \A q \in Proc : q # p => states'[q] = states[q]
            /\ states' \in [Proc -> [Lineage -> State \cup {NONE}]]
  <1> DEFINE b == body[t]
             row == [j \in Lineage |-> IF j = b.lin THEN NewState(b, seen[t])
                                       ELSE IF j \in Dropped(b.proc, b.lin) THEN NONE
                                       ELSE states[b.proc][j]]
  <1>1. pc[t] = "peeked" /\ states[b.proc][b.lin] = NONE
    BY DEF FirstSeen
  <1>2. b \in Body /\ b.proc \in Proc /\ b.lin \in Lineage /\ seen[t] \in SUBSET Id
    BY <1>1, BodyType DEF TypeOK
  <1>3. NewState(b, seen[t]) \in State
    BY <1>2, NewStateType
  <1>4. states' = [states EXCEPT ![b.proc] = row]
    BY DEF FirstSeen
  <1>5. row \in [Lineage -> State \cup {NONE}]
    BY <1>2, <1>3 DEF TypeOK
  <1>6. states' \in [Proc -> [Lineage -> State \cup {NONE}]]
    BY <1>4, <1>5 DEF TypeOK
  <1>7. states'[b.proc] = row /\ \A q \in Proc : q # b.proc => states'[q] = states[q]
    BY <1>2, <1>4 DEF TypeOK
  <1>8. QED
    BY <1>1, <1>2, <1>3, <1>6, <1>7

LEMMA UpdatedEffect ==
  ASSUME NEW s \in State, NEW b \in Body
  PROVE  /\ Updated(s, b) \in State
         /\ Updated(s, b).ambiguous = (s.ambiguous \/ ~Extends(s, b))
         /\ Updated(s, b).ttl = Later(s.ttl, b.ttl)
         /\ Updated(s, b).last = s.last /\ Updated(s, b).inflight = s.inflight
         /\ Updated(s, b).evicted = s.evicted /\ Updated(s, b).pending = s.pending
         /\ Updated(s, b).served = s.served
  <1>1. s.ttl \in TTL /\ b.ttl \in TTL
    BY DEF State, Body
  <1>2. Later(s.ttl, b.ttl) \in TTL
    BY <1>1, LaterTTL
  <1>3. Extends(s, b) \in BOOLEAN
    BY DEF Extends
  <1>4. QED
    BY <1>2, <1>3 DEF Updated, State

LEMMA DecideEffect ==
  ASSUME TypeOK, NEW t \in Thread, NEW held \in BOOLEAN, NEW ext \in Extension,
         Decide(t, held, ext),
         NEW b, b = body[t], NEW old, old = states[b.proc][b.lin],
         NEW new, new = states'[b.proc][b.lin]
  PROVE  /\ pc[t] = "peeked" /\ old # NONE /\ b \in Body /\ old \in State /\ new \in State
         /\ ElsewhereSame(b.proc, b.lin) /\ SameKnown
         /\ new.last = Later(old.last, b.at) /\ new.ttl = Later(old.ttl, b.ttl)
         /\ new.n = b.len /\ new.tail = b.conv /\ new.inflight = old.inflight + 1
         /\ new.ambiguous = (old.ambiguous \/ ~Extends(old, b))
         /\ new.served = old.served \cup {<<b.conv, b.len>>}
         /\ new.evicted = old.evicted /\ new.pending = old.pending
         /\ states' \in [Proc -> [Lineage -> State \cup {NONE}]]
         /\ evict' = [evict EXCEPT ![t] = old.evicted]
         /\ reason' = [reason EXCEPT
                         ![t] = Verdict(Updated(old, b), b, held, Updated(old, b).ttl + ext)]
         /\ UNCHANGED <<clock, disk, cache, body, orphan, wire, lost, floor, gone>>
  <1> DEFINE s == Updated(old, b)
             nw == [s EXCEPT !.last = Later(@, b.at), !.n = b.len, !.tail = b.conv,
                             !.inflight = @ + 1, !.served = @ \cup {<<b.conv, b.len>>}]
  <1>1. pc[t] = "peeked" /\ old # NONE
    BY DEF Decide
  <1>2. /\ b \in Body /\ b.proc \in Proc /\ b.lin \in Lineage /\ b.ttl \in TTL
        /\ b.at \in Nat /\ b.len \in Length /\ b.conv \in Conv
    BY <1>1, BodyType
  <1>3. /\ old \in State /\ old.last \in Nat /\ old.ttl \in TTL /\ old.inflight \in Nat
        /\ old.served \in SUBSET (Conv \X Length)
    BY <1>1, <1>2, StatesType
  <1>4. /\ s \in State /\ s.last = old.last /\ s.inflight = old.inflight
        /\ s.ambiguous = (old.ambiguous \/ ~Extends(old, b))
        /\ s.ttl = Later(old.ttl, b.ttl)
        /\ s.evicted = old.evicted /\ s.pending = old.pending /\ s.served = old.served
    BY <1>2, <1>3, UpdatedEffect
  <1>5. /\ states' = [states EXCEPT ![b.proc] = [@ EXCEPT ![b.lin] = nw]]
        /\ reason' = [reason EXCEPT ![t] = Verdict(s, b, held, s.ttl + ext)]
        /\ evict' = [evict EXCEPT ![t] = s.evicted]
        /\ UNCHANGED <<clock, disk, cache, body, orphan, wire, lost, floor, gone>>
    BY DEF Decide
  <1> HIDE DEF s
  <1>6. Later(s.last, b.at) \in Nat /\ s.inflight + 1 \in Nat
    BY <1>2, <1>3, <1>4 DEF Later
  <1>7. s.served \cup {<<b.conv, b.len>>} \in SUBSET (Conv \X Length)
    BY <1>2, <1>3, <1>4
  <1>8. nw \in State
    BY <1>2, <1>4, <1>6, <1>7 DEF State
  <1>9. /\ nw.last = Later(s.last, b.at) /\ nw.ttl = s.ttl /\ nw.n = b.len
        /\ nw.tail = b.conv /\ nw.inflight = s.inflight + 1 /\ nw.ambiguous = s.ambiguous
        /\ nw.served = s.served \cup {<<b.conv, b.len>>}
        /\ nw.evicted = s.evicted /\ nw.pending = s.pending
    BY <1>4 DEF State
  <1> HIDE DEF nw
  <1>10. new = nw /\ ElsewhereSame(b.proc, b.lin)
    BY <1>2, <1>5 DEF TypeOK, ElsewhereSame
  <1>11. states' \in [Proc -> [Lineage -> State \cup {NONE}]]
    BY <1>2, <1>5, <1>8 DEF TypeOK
  <1>12. SameKnown
    <2>1. states[b.proc][b.lin] # NONE /\ states'[b.proc][b.lin] # NONE
      BY <1>1, <1>8, <1>10, NoneAssumption
    <2>2. QED
      BY <1>10, <2>1 DEF SameKnown, ElsewhereSame
  <1>13. /\ new.last = Later(old.last, b.at) /\ new.ttl = Later(old.ttl, b.ttl)
         /\ new.n = b.len /\ new.tail = b.conv /\ new.inflight = old.inflight + 1
         /\ new.ambiguous = (old.ambiguous \/ ~Extends(old, b))
         /\ new.served = old.served \cup {<<b.conv, b.len>>}
         /\ new.evicted = old.evicted /\ new.pending = old.pending
    BY <1>4, <1>9, <1>10
  <1>14. /\ reason' = [reason EXCEPT
                         ![t] = Verdict(Updated(old, b), b, held, Updated(old, b).ttl + ext)]
         /\ evict' = [evict EXCEPT ![t] = old.evicted]
    BY <1>4, <1>5 DEF s
  <1>15. QED
    BY <1>1, <1>2, <1>3, <1>5, <1>8, <1>10, <1>11, <1>12, <1>13, <1>14

-----------------------------------------------------------------------------
(* Types.                                                                  *)

LEMMA LastUseType ==
  ASSUME TypeOK, NEW t \in Thread, body[t] \in Body, LastUse(t)
  PROVE  gone' \in [Lineage -> Nat]
  <1>1. body[t].lin \in Lineage /\ body[t].ttl \in Nat /\ clock \in Nat /\ Margin \in Nat
    BY ColdpointAssumption DEF Body, TypeOK
  <1>2. gone[body[t].lin] \in Nat /\ clock + body[t].ttl + Margin + 1 \in Nat
    BY <1>1 DEF TypeOK
  <1>3. Later(gone[body[t].lin], clock + body[t].ttl + Margin + 1) \in Nat
    BY <1>2 DEF Later
  <1>4. QED
    BY <1>1, <1>3 DEF LastUse, TypeOK

\* A thread that is done leaves every other variable well typed.
LEMMA ResetType ==
  ASSUME TypeOK, NEW t \in Thread, Reset(t)
  PROVE  /\ pc' \in [Thread -> {"idle", "peeked", "choosing", "persisting", "ready", "sent",
                                "shadow", "audit", "bare"}]
         /\ body' \in [Thread -> Body \cup {NONE}]
         /\ \A u \in Thread : pc'[u] # "idle" => body'[u] \in Body
         /\ evict' \in [Thread -> SUBSET Id] /\ floor' \in [Thread -> SUBSET Id]
         /\ reason' \in [Thread -> Reason]
         /\ UNCHANGED <<clock, disk, cache, older, seen, orphan, wire, lost>>
  BY DEF Reset, TypeOK, Reason

\* What a death does to the history of a lineage: its open exchanges end now.
LEMMA CrashGone ==
  ASSUME TypeOK, NEW p \in Proc, Crash(p)
  PROVE  /\ gone' \in [Lineage -> Nat]
         /\ \A k \in Lineage :
              /\ gone'[k] >= gone[k]
              /\ \A t \in Thread : Live(t) /\ body[t].proc = p /\ body[t].lin = k =>
                   gone'[k] >= clock + body[t].ttl + Margin + 1
              /\ \/ gone'[k] = gone[k]
                 \/ \E t \in Thread : /\ Live(t) /\ body[t].proc = p /\ body[t].lin = k
                                      /\ gone'[k] = clock + body[t].ttl + Margin + 1
  <1> DEFINE hit == {t \in Thread : pc[t] # "idle" /\ body[t].proc = p}
             open == {t \in hit : Live(t)}
             ends(k) == {gone[k]} \cup
                 {clock + body[t].ttl + Margin + 1 : t \in {u \in open : body[u].lin = k}}
  <1>1. gone' \in [Lineage -> UNION {ends(k) : k \in Lineage}]
    BY DEF Crash
  <1>2. ASSUME NEW k \in Lineage PROVE gone'[k] \in ends(k) /\ \A e \in ends(k) : e <= gone'[k]
    BY DEF Crash
  <1>3. ASSUME NEW t \in open PROVE clock + body[t].ttl + Margin + 1 \in Nat
    <2>1. body[t].ttl \in TTL
      BY BodyType
    <2>2. body[t].ttl \in Nat /\ clock \in Nat /\ Margin \in Nat
      BY <2>1, ColdpointAssumption DEF TypeOK
    <2>3. QED
      BY <2>2
  <1>4. ASSUME NEW k \in Lineage PROVE gone[k] \in ends(k) /\ ends(k) \subseteq Nat
    BY <1>3 DEF TypeOK
  <1>5. ASSUME NEW k \in Lineage PROVE gone'[k] \in Nat
    BY <1>2, <1>4
  <1>6. gone' \in [Lineage -> Nat]
    BY <1>1, <1>5
  <1>7. ASSUME NEW k \in Lineage, NEW t \in Thread, Live(t), body[t].proc = p, body[t].lin = k
        PROVE  clock + body[t].ttl + Margin + 1 \in ends(k)
    BY <1>7 DEF Live
  <1>8. ASSUME NEW k \in Lineage, gone'[k] # gone[k]
        PROVE  \E t \in Thread : /\ Live(t) /\ body[t].proc = p /\ body[t].lin = k
                                 /\ gone'[k] = clock + body[t].ttl + Margin + 1
    BY <1>2, <1>8
  <1> HIDE DEF ends
  <1>9. ASSUME NEW k \in Lineage
        PROVE  /\ gone'[k] >= gone[k]
               /\ \A t \in Thread : Live(t) /\ body[t].proc = p /\ body[t].lin = k =>
                    gone'[k] >= clock + body[t].ttl + Margin + 1
    <2>1. \A e \in ends(k) : e \in Nat /\ gone'[k] >= e
      BY <1>2, <1>4, <1>5
    <2>2. QED
      BY <1>4, <1>7, <2>1
  <1>10. QED
    BY <1>6, <1>8, <1>9

LEMMA TypeInit == Init => TypeOK
  <1> SUFFICES ASSUME Init PROVE TypeOK
    OBVIOUS
  <1>1. clock \in Nat /\ disk \in [Lineage -> SUBSET Id] /\ gone \in [Lineage -> Nat]
    BY DEF Init
  <1>2. states \in [Proc -> [Lineage -> State \cup {NONE}]]
    BY DEF Init
  <1>3. older \in [Proc -> SUBSET (Lineage \X Lineage)]
    BY DEF Init
  <1>4. pc \in [Thread -> {"idle", "peeked", "choosing", "persisting", "ready", "sent",
                           "shadow", "audit", "bare"}]
    BY DEF Init
  <1>5. body \in [Thread -> Body \cup {NONE}] /\ \A t \in Thread : pc[t] # "idle" => body[t] \in Body
    BY DEF Init
  <1>6. reason \in [Thread -> Reason]
    BY DEF Init, Reason
  <1>7. cache \in [Proc -> [Lineage -> SUBSET Id]] /\ lost \in [Lineage -> SUBSET Id]
    BY DEF Init
  <1>8. QED
    BY <1>1, <1>2, <1>3, <1>4, <1>5, <1>6, <1>7 DEF Init, TypeOK

\* Whatever is read of the file is a set of ids for every lineage.
LEMMA ReadingsType ==
  ASSUME TypeOK, NEW p \in Proc, NEW r \in Readings(p)
  PROVE  /\ r \in [Lineage -> SUBSET Id]
         /\ Remember(p, r) => cache' \in [Proc -> [Lineage -> SUBSET Id]]
  <1>1. r \in [Lineage -> SUBSET Id]
    BY DEF Readings, TypeOK
  <1>2. QED
    BY <1>1 DEF Remember, TypeOK

\* What writing the grown set of a thread does to the file, the copy and the history.
LEMMA PersistEffect ==
  ASSUME TypeOK, NEW t \in Thread, Persist(t)
  PROVE  /\ pc[t] = "persisting" /\ body[t].proc \in Proc /\ body[t].lin \in Lineage
         /\ pc' = [pc EXCEPT ![t] = "ready"]
         /\ UNCHANGED <<clock, states, older, body, seen, evict, reason, orphan, wire, floor, gone>>
         /\ disk' \in [Lineage -> SUBSET Id] /\ lost' \in [Lineage -> SUBSET Id]
         /\ cache' \in [Proc -> [Lineage -> SUBSET Id]]
         /\ evict[t] \subseteq disk'[body[t].lin] \cup lost'[body[t].lin]
         /\ \A j \in Lineage :
              /\ disk[j] \subseteq disk'[j] \cup lost'[j]
              /\ lost[j] \subseteq lost'[j]
              /\ j # body[t].lin => disk'[j] \subseteq disk[j] \cup cache[body[t].proc][j]
         /\ disk'[body[t].lin] \subseteq
              disk[body[t].lin] \cup cache[body[t].proc][body[t].lin] \cup evict[t]
         /\ \A q \in Proc : \A j \in Lineage :
              cache'[q][j] \subseteq cache[q][j] \cup disk'[j] \cup lost'[j]
         /\ ~CanMisread =>
              /\ \A j \in Lineage : disk[j] \subseteq disk'[j]
              /\ \A j \in Lineage : j # body[t].lin => disk'[j] = disk[j]
              /\ disk'[body[t].lin] \subseteq disk[body[t].lin] \cup evict[t]
  <1> DEFINE p == body[t].proc
             k == body[t].lin
  <1>1. /\ pc[t] = "persisting" /\ pc' = [pc EXCEPT ![t] = "ready"]
        /\ UNCHANGED <<clock, states, older, body, seen, evict, reason, orphan, wire, floor, gone>>
    BY DEF Persist
  <1>2. p \in Proc /\ k \in Lineage /\ evict[t] \in SUBSET Id
    BY <1>1, BodyType DEF TypeOK
  <1>3. PICK r \in Readings(p) : Saved(t, r) \/ NotSaved(t, r)
    BY DEF Persist
  <1>4. r \in [Lineage -> SUBSET Id] /\ r \in {disk, cache[p]} /\ (~CanMisread => r = disk)
    BY <1>2, <1>3, ReadingsType DEF Readings
  <1>5. disk \in [Lineage -> SUBSET Id] /\ lost \in [Lineage -> SUBSET Id]
        /\ cache \in [Proc -> [Lineage -> SUBSET Id]]
    BY DEF TypeOK
  <1>6. CASE Saved(t, r)
    <2> DEFINE copy == Merged(r, k, evict[t])
               written == IF copy = r THEN disk ELSE copy
               undone == [j \in Lineage |->
                            (disk[j] \cup (IF j = k THEN evict[t] ELSE {})) \ written[j]]
    <2>1. /\ disk' = written /\ Remember(p, copy)
          /\ lost' = IF r = disk THEN lost ELSE [j \in Lineage |-> lost[j] \cup undone[j]]
      BY <1>6 DEF Saved
    <2>2. copy \in [Lineage -> SUBSET Id] /\ copy[k] = r[k] \cup evict[t]
          /\ \A j \in Lineage : j # k => copy[j] = r[j]
      BY <1>2, <1>4 DEF Merged
    <2> HIDE DEF copy
    <2>3. cache' \in [Proc -> [Lineage -> SUBSET Id]]
          /\ \A q \in Proc : cache'[q] = cache[q] \/ cache'[q] = copy
      BY <1>2, <1>5, <2>1, <2>2 DEF Remember
    <2>4. written \in [Lineage -> SUBSET Id] /\ undone \in [Lineage -> SUBSET Id]
      BY <1>2, <1>5, <2>2
    <2>5. lost' \in [Lineage -> SUBSET Id]
      BY <1>5, <2>1, <2>4
    <2>6. CASE r = disk
      <3>1. disk' = copy /\ lost' = lost
        BY <2>1, <2>6
      <3>2. QED
        BY <1>1, <1>2, <1>4, <1>5, <2>2, <2>3, <2>5, <2>6, <3>1
    <2>7. CASE r # disk
      <3>1. disk' = written /\ \A j \in Lineage : lost'[j] = lost[j] \cup undone[j]
        BY <2>1, <2>7
      <3>2. \A j \in Lineage : disk[j] \subseteq disk'[j] \cup undone[j]
        BY <3>1
      <3>3. evict[t] \subseteq disk'[k] \cup undone[k]
        BY <1>2, <3>1
      <3>4. r = cache[p] /\ CanMisread
        BY <1>4, <2>7
      <3>5. \A j \in Lineage : /\ j # k => disk'[j] \subseteq disk[j] \cup cache[p][j]
                              /\ disk'[k] \subseteq disk[k] \cup cache[p][k] \cup evict[t]
        BY <1>2, <2>2, <3>1, <3>4
      <3>6. CASE copy = r
        <4>1. \A q \in Proc : cache'[q] = cache[q]
          BY <1>2, <1>5, <2>3, <3>4, <3>6, <2>1 DEF Remember
        <4>2. QED
          BY <1>1, <1>2, <2>3, <2>4, <2>5, <3>1, <3>2, <3>3, <3>4, <3>5, <4>1
      <3>7. CASE copy # r
        <4>1. disk' = copy
          BY <3>1, <3>7
        <4>2. QED
          BY <1>1, <1>2, <2>3, <2>4, <2>5, <3>1, <3>2, <3>3, <3>4, <3>5, <4>1
      <3>8. QED
        BY <3>6, <3>7
    <2>8. QED
      BY <2>6, <2>7
  <1>7. CASE NotSaved(t, r)
    <2>1. /\ disk' = disk /\ Remember(p, r)
          /\ lost' = [lost EXCEPT ![k] = @ \cup (evict[t] \ disk[k])]
      BY <1>7 DEF NotSaved
    <2>2. /\ cache' \in [Proc -> [Lineage -> SUBSET Id]]
          /\ \A q \in Proc : cache'[q] = cache[q] \/ cache'[q] = disk
      BY <1>2, <1>4, <1>5, <2>1 DEF Remember
    <2>3. lost' \in [Lineage -> SUBSET Id] /\ lost'[k] = lost[k] \cup (evict[t] \ disk[k])
          /\ \A j \in Lineage : j # k => lost'[j] = lost[j]
      BY <1>2, <1>5, <2>1
    <2>4. QED
      BY <1>1, <1>2, <1>5, <2>1, <2>2, <2>3
  <1>8. QED
    BY <1>3, <1>6, <1>7

\* A death cuts the writes that its threads were at.
LEMMA CrashLost ==
  ASSUME TypeOK, NEW p \in Proc, Crash(p)
  PROVE  /\ lost' \in [Lineage -> SUBSET Id]
         /\ \A k \in Lineage :
              /\ lost[k] \subseteq lost'[k]
              /\ \A t \in Writers(k) : body[t].proc = p => evict[t] \subseteq disk[k] \cup lost'[k]
  <1> DEFINE hit == {t \in Thread : pc[t] # "idle" /\ body[t].proc = p}
             cut(k) == (UNION {evict[t] : t \in hit \cap Writers(k)}) \ disk[k]
  <1>1. lost' = [k \in Lineage |-> lost[k] \cup cut(k)]
    BY DEF Crash
  <1>2. ASSUME NEW k \in Lineage PROVE cut(k) \in SUBSET Id
    BY DEF TypeOK
  <1>3. ASSUME NEW k \in Lineage, NEW t \in Writers(k), body[t].proc = p
        PROVE  evict[t] \subseteq disk[k] \cup cut(k)
    BY <1>3 DEF Writers
  <1> HIDE DEF cut
  <1>4. QED
    BY <1>1, <1>2, <1>3 DEF TypeOK

\* What leaves distil is a part of what the request's set was.
LEMMA SendEffect ==
  ASSUME TypeOK, NEW t \in Thread, Send(t)
  PROVE  /\ pc[t] = "ready" /\ pc' = [pc EXCEPT ![t] = "sent"]
         /\ evict'[t] \in Rendered(t) /\ evict'[t] \subseteq evict[t]
         /\ evict' = [evict EXCEPT ![t] = evict'[t]] /\ evict' \in [Thread -> SUBSET Id]
         /\ wire' = [wire EXCEPT ![body[t].lin] = @ \cup evict'[t]]
         /\ wire' \in [Lineage -> SUBSET Id]
         /\ UNCHANGED <<clock, disk, cache, states, older, body, seen, reason, orphan, lost,
                        floor, gone>>
  <1>1. PICK shown \in Rendered(t) :
          /\ evict' = [evict EXCEPT ![t] = shown]
          /\ wire' = [wire EXCEPT ![body[t].lin] = @ \cup shown]
    BY DEF Send
  <1>2. pc[t] = "ready" /\ body[t].lin \in Lineage
    BY BodyType DEF Send
  <1>3. shown \subseteq evict[t] /\ shown \in SUBSET Id
    BY DEF Rendered, TypeOK
  <1>4. evict'[t] = shown /\ evict' \in [Thread -> SUBSET Id] /\ wire' \in [Lineage -> SUBSET Id]
    BY <1>1, <1>2, <1>3 DEF TypeOK
  <1>5. QED
    BY <1>1, <1>2, <1>3, <1>4 DEF Send

\* Every action keeps the types.
LEMMA TypeStep == ASSUME TypeOK, Held, [Next]_vars PROVE TypeOK'
  <1> USE ColdpointAssumption
  <1>1. CASE UNCHANGED vars
    BY <1>1 DEF vars, TypeOK
  <1>2. CASE Tick
    BY <1>2 DEF Tick, TypeOK
  <1>3. ASSUME NEW t \in Thread, NEW p \in Proc, NEW k \in Lineage, NEW c \in Conv,
               NEW l \in Length, NEW x \in TTL,
               Arrive(t, [proc |-> p, lin |-> k, conv |-> c, len |-> l, ttl |-> x, at |-> clock])
        PROVE  TypeOK'
    <2> DEFINE b == [proc |-> p, lin |-> k, conv |-> c, len |-> l, ttl |-> x, at |-> clock]
    <2>1. b \in Body
      BY DEF Body, TypeOK
    <2>2. seen' \in [Thread -> SUBSET Id] /\ cache' \in [Proc -> [Lineage -> SUBSET Id]]
      <3>1. CASE states[p][k] = NONE
        <4>1. PICK r \in Readings(p) :
                seen' = [seen EXCEPT ![t] = Persisted(r, k)] /\ Remember(p, r)
          BY <1>3, <3>1 DEF Arrive
        <4>2. Persisted(r, k) \in SUBSET Id /\ cache' \in [Proc -> [Lineage -> SUBSET Id]]
          BY <4>1, ReadingsType DEF Persisted
        <4>3. QED
          BY <4>1, <4>2 DEF TypeOK
      <3>2. CASE states[p][k] # NONE
        BY <1>3, <3>2 DEF Arrive, TypeOK
      <3>3. QED
        BY <3>1, <3>2
    <2>3. floor' \in [Thread -> SUBSET Id]
      BY <1>3 DEF Arrive, TypeOK
    <2>4. QED
      BY <1>3, <2>1, <2>2, <2>3 DEF Arrive, TypeOK
  <1>4. ASSUME NEW t \in Thread, FirstSeen(t) PROVE TypeOK'
    <2>1. body[t] \in Body /\ seen[t] \in SUBSET Id
      BY <1>4 DEF FirstSeen, TypeOK
    <2>3. states' \in [Proc -> [Lineage -> State \cup {NONE}]]
      BY <1>4, FirstSeenEffect
    <2>4. older' \in [Proc -> SUBSET (Lineage \X Lineage)]
      BY <1>4, <2>1 DEF FirstSeen, TypeOK, MoveToEnd, Known, Body
    <2>5. orphan' \in [Thread -> BOOLEAN]
      BY <1>4 DEF FirstSeen, Orphaned, TypeOK
    <2>6. QED
      BY <1>4, <2>1, <2>3, <2>4, <2>5 DEF FirstSeen, TypeOK, Reason
  <1>5. ASSUME NEW t \in Thread, NEW held \in BOOLEAN, NEW ext \in Extension,
               Decide(t, held, ext)
        PROVE  TypeOK'
    <2>1. /\ pc[t] = "peeked" /\ states[body[t].proc][body[t].lin] # NONE
          /\ states' \in [Proc -> [Lineage -> State \cup {NONE}]]
          /\ evict' = [evict EXCEPT ![t] = states[body[t].proc][body[t].lin].evicted]
      BY <1>5, DecideEffect
    <2>2. body[t] \in Body /\ body[t].proc \in Proc /\ body[t].lin \in Lineage
      BY <2>1, BodyType
    <2>3. states[body[t].proc][body[t].lin].evicted \in SUBSET Id
      BY <2>1, <2>2, StatesType
    <2>4. evict' \in [Thread -> SUBSET Id]
      BY <2>1, <2>3 DEF TypeOK
    <2>5. reason' \in [Thread -> Reason]
      <3> DEFINE s == Updated(states[body[t].proc][body[t].lin], body[t])
                 why == Verdict(s, body[t], held, s.ttl + ext)
      <3>1. reason' = [reason EXCEPT ![t] = why]
        BY <1>5 DEF Decide
      <3>2. why \in Reason
        BY VerdictType
      <3> HIDE DEF why
      <3>3. QED
        BY <3>1, <3>2 DEF TypeOK
    <2>9. older' \in [Proc -> SUBSET (Lineage \X Lineage)]
      <3>1. older' = [older EXCEPT ![body[t].proc] =
                        MoveToEnd(body[t].proc, body[t].lin, Without(body[t].proc, {body[t].lin}))]
        BY <1>5 DEF Decide
      <3>2. Without(body[t].proc, {body[t].lin}) \in SUBSET (Lineage \X Lineage)
        BY <2>2 DEF Without, TypeOK
      <3>3. QED
        BY <2>2, <3>1, <3>2, MoveToEndType DEF TypeOK
    <2>11. pc' \in [Thread -> {"idle", "peeked", "choosing", "persisting", "ready", "sent",
                              "shadow", "audit", "bare"}]
      BY <1>5 DEF Decide, TypeOK
    <2>12. body' = body /\ \A u \in Thread : pc'[u] # "idle" => body'[u] \in Body
      BY <1>5, <2>1, <2>2 DEF Decide, TypeOK
    <2>14. seen' \in [Thread -> SUBSET Id]
      BY <1>5 DEF Decide, TypeOK
    <2>15. UNCHANGED <<clock, disk, cache, orphan, wire, lost, floor, gone>>
      BY <1>5 DEF Decide
    <2>16. QED
      BY <2>1, <2>4, <2>5, <2>9, <2>11, <2>12, <2>14, <2>15 DEF TypeOK

  <1>6. ASSUME NEW t \in Thread, NEW fresh \in SUBSET Id, Commit(t, fresh) PROVE TypeOK'
    <2>1. pc[t] = "choosing" /\ Settle(t, Evicted(t) \cup fresh, FALSE)
      BY <1>6 DEF Commit
    <2>2. Evicted(t) \cup fresh \in SUBSET Id
      BY <2>1, EvictedType
    <2>3. /\ states' \in [Proc -> [Lineage -> State \cup {NONE}]]
          /\ evict' \in [Thread -> SUBSET Id] /\ orphan' \in [Thread -> BOOLEAN]
      BY <2>1, <2>2, SettleEffect
    <2>4. AfterCommit(fresh) \in {"ready", "persisting"}
      BY DEF AfterCommit
    <2>5. QED
      BY <1>6, <2>1, <2>3, <2>4 DEF Commit, TypeOK
  <1>7. ASSUME NEW t \in Thread, Defer(t) PROVE TypeOK'
    <2>1. pc[t] = "choosing" /\ Settle(t, Evicted(t), TRUE)
      BY <1>7 DEF Defer
    <2>2. Evicted(t) \in SUBSET Id
      BY <2>1, EvictedType
    <2>3. /\ states' \in [Proc -> [Lineage -> State \cup {NONE}]]
          /\ evict' \in [Thread -> SUBSET Id] /\ orphan' \in [Thread -> BOOLEAN]
      BY <2>1, <2>2, SettleEffect
    <2>4. QED
      BY <1>7, <2>1, <2>3 DEF Defer, TypeOK, Reason
  <1>8. ASSUME NEW t \in Thread, Persist(t) PROVE TypeOK'
    BY <1>8, PersistEffect DEF TypeOK
  <1>9. ASSUME NEW t \in Thread, Send(t) PROVE TypeOK'
    BY <1>9, SendEffect DEF TypeOK
  <1>10. ASSUME NEW t \in Thread, Finish(t) PROVE TypeOK'
    <2>1. body[t] \in Body
      BY <1>10 DEF Finish, TypeOK
    <2>2. states' \in [Proc -> [Lineage -> State \cup {NONE}]]
      BY <1>10, <2>1, TouchEffect DEF Finish
    <2>3. gone' \in [Lineage -> Nat]
      BY <1>10, <2>1, LastUseType DEF Finish, TypeOK
    <2>4. QED
      BY <1>10, <2>2, <2>3, ResetType DEF Finish, TypeOK
  <1>11. ASSUME NEW t \in Thread, NEW u \in Thread, StartShadow(t, u) PROVE TypeOK'
    <2>1. body[t] \in Body
      BY <1>11 DEF StartShadow, Spawn, TypeOK
    <2>2. states' \in [Proc -> [Lineage -> State \cup {NONE}]]
      BY <1>11, <2>1, TouchEffect DEF StartShadow
    <2>3. QED
      BY <1>11, <2>1, <2>2 DEF StartShadow, Spawn, TypeOK
  <1>12. ASSUME NEW t \in Thread, NEW u \in Thread, StartUncounted(t, u) PROVE TypeOK'
    <2>1. body[t] \in Body
      BY <1>12 DEF StartUncounted, Spawn, TypeOK
    <2>2. QED
      BY <1>12, <2>1 DEF StartUncounted, Spawn, TypeOK
  <1>13. ASSUME NEW t \in Thread, EndUncounted(t) PROVE TypeOK'
    <2>1. body[t] \in Body
      BY <1>13 DEF EndUncounted, TypeOK
    <2>2. gone' \in [Lineage -> Nat]
      BY <1>13, <2>1, LastUseType DEF EndUncounted
    <2>3. QED
      BY <1>13, <2>2, ResetType DEF EndUncounted, TypeOK
  <1>14. ASSUME NEW p \in Proc, Crash(p) PROVE TypeOK'
    <2>1. gone' \in [Lineage -> Nat]
      BY <1>14, CrashGone
    <2>2. /\ states' \in [Proc -> [Lineage -> State \cup {NONE}]]
          /\ older' \in [Proc -> SUBSET (Lineage \X Lineage)]
      BY <1>14 DEF Crash, TypeOK
    <2>3. /\ pc' \in [Thread -> {"idle", "peeked", "choosing", "persisting", "ready", "sent",
                                 "shadow", "audit", "bare"}]
          /\ body' \in [Thread -> Body \cup {NONE}]
          /\ \A t \in Thread : pc'[t] # "idle" => body'[t] \in Body
      BY <1>14 DEF Crash, TypeOK
    <2>4. seen' \in [Thread -> SUBSET Id] /\ evict' \in [Thread -> SUBSET Id]
      BY <1>14 DEF Crash, TypeOK
    <2>5. reason' \in [Thread -> Reason] /\ floor' \in [Thread -> SUBSET Id]
      BY <1>14 DEF Crash, TypeOK, Reason
    <2>6. orphan' \in [Thread -> BOOLEAN]
      BY <1>14 DEF Crash, TypeOK
    <2>7. wire' \in [Lineage -> SUBSET Id]
      BY <1>14 DEF Crash, TypeOK
    <2>8. clock' \in Nat /\ disk' \in [Lineage -> SUBSET Id]
      BY <1>14 DEF Crash, TypeOK
    <2>9. cache' \in [Proc -> [Lineage -> SUBSET Id]]
      BY <1>14 DEF Crash, TypeOK
    <2>10. lost' \in [Lineage -> SUBSET Id]
      BY <1>14, CrashLost
    <2>11. QED
      BY <2>1, <2>2, <2>3, <2>4, <2>5, <2>6, <2>7, <2>8, <2>9, <2>10 DEF TypeOK
  <1>15. ASSUME NEW t \in Thread, PlanFails(t) PROVE TypeOK'
    BY <1>15 DEF PlanFails, TypeOK
  <1>16. QED
    BY <1>1, <1>2, <1>3, <1>4, <1>5, <1>6, <1>7, <1>8, <1>9, <1>10, <1>11, <1>12, <1>13, <1>14,
       <1>15, NextWork
    DEF Work, Planned, Unplanned

LEMMA HeldStep == ASSUME TypeOK, Held, [Next]_vars PROVE Held'
  <1> SUFFICES ASSUME NEW u \in Thread, pc'[u] = "choosing", ~orphan'[u]
               PROVE  states'[body'[u].proc][body'[u].lin] # NONE
    BY DEF Held
  <1> USE DEF Held
  <1>0. pc[u] = "choosing" => body[u].proc \in Proc /\ body[u].lin \in Lineage
    BY BodyType
  <1>1. CASE UNCHANGED vars
    BY <1>1 DEF vars
  <1>2. CASE Tick
    BY <1>2 DEF Tick
  <1>3. ASSUME NEW t \in Thread, NEW b, Arrive(t, b)
        PROVE  states'[body'[u].proc][body'[u].lin] # NONE
    <2>1. u # t /\ pc[u] = "choosing" /\ body'[u] = body[u]
      BY <1>3 DEF Arrive, TypeOK
    <2>2. QED
      BY <1>3, <2>1 DEF Arrive
  <1>4. ASSUME NEW t \in Thread, FirstSeen(t)
        PROVE  states'[body'[u].proc][body'[u].lin] # NONE
    <2>1. u # t /\ pc[u] = "choosing" /\ body'[u] = body[u]
      BY <1>4 DEF FirstSeen, TypeOK
    <2>2. ~orphan[u] /\ ~(body[u].proc = body[t].proc /\ body[u].lin \in Dropped(body[t].proc, body[t].lin))
      BY <1>4, <2>1 DEF FirstSeen, Orphaned
    <2>3. states[body[u].proc][body[u].lin] # NONE
      BY <2>1, <2>2
    <2>4. body[u].proc \in Proc /\ body[u].lin \in Lineage
      BY <1>0, <2>1
    <2>5. CASE body[u].proc # body[t].proc
      BY <1>4, <2>1, <2>3, <2>4, <2>5, FirstSeenEffect
    <2>6. CASE body[u].proc = body[t].proc
      <3>1. body[u].lin # body[t].lin
        BY <1>4, <2>3, <2>6, FirstSeenEffect
      <3>2. QED
        BY <1>4, <2>1, <2>2, <2>3, <2>4, <2>6, <3>1, FirstSeenEffect
    <2>7. QED
      BY <2>5, <2>6
  <1>5. ASSUME NEW t \in Thread, NEW held \in BOOLEAN, NEW ext \in Extension,
               Decide(t, held, ext)
        PROVE  states'[body'[u].proc][body'[u].lin] # NONE
    <2>1. SameKnown /\ states[body[t].proc][body[t].lin] # NONE /\ pc[t] = "peeked"
      BY <1>5, DecideEffect
    <2>2. body' = body /\ orphan' = orphan /\ (u # t => pc'[u] = pc[u])
      BY <1>5 DEF Decide, TypeOK
    <2>3. body[t].proc \in Proc /\ body[t].lin \in Lineage
      BY <2>1, BodyType
    <2>4. QED
      BY <1>0, <2>1, <2>2, <2>3 DEF SameKnown
  <1>6. ASSUME NEW t \in Thread, NEW fresh \in SUBSET Id, Commit(t, fresh)
        PROVE  states'[body'[u].proc][body'[u].lin] # NONE
    <2>1. pc[t] = "choosing" /\ Settle(t, Evicted(t) \cup fresh, FALSE)
      BY <1>6 DEF Commit
    <2>2. Evicted(t) \cup fresh \in SUBSET Id
      BY <2>1, EvictedType
    <2>3. SameKnown /\ orphan' = [orphan EXCEPT ![t] = FALSE]
      BY <2>1, <2>2, SettleEffect
    <2>4. u # t /\ pc'[u] = pc[u] /\ body' = body
      BY <1>6 DEF Commit, AfterCommit, TypeOK
    <2>5. QED
      BY <1>0, <2>3, <2>4 DEF SameKnown, TypeOK
  <1>7. ASSUME NEW t \in Thread, Defer(t)
        PROVE  states'[body'[u].proc][body'[u].lin] # NONE
    <2>1. pc[t] = "choosing" /\ Settle(t, Evicted(t), TRUE)
      BY <1>7 DEF Defer
    <2>2. Evicted(t) \in SUBSET Id
      BY <2>1, EvictedType
    <2>3. SameKnown /\ orphan' = [orphan EXCEPT ![t] = FALSE]
      BY <2>1, <2>2, SettleEffect
    <2>4. u # t /\ pc'[u] = pc[u] /\ body' = body
      BY <1>7 DEF Defer, TypeOK
    <2>5. QED
      BY <1>0, <2>3, <2>4 DEF SameKnown, TypeOK
  <1>8. ASSUME NEW t \in Thread, PlanFails(t) \/ Persist(t) \/ Send(t)
        PROVE  states'[body'[u].proc][body'[u].lin] # NONE
    BY <1>8 DEF PlanFails, Persist, Send, TypeOK
  <1>9. ASSUME NEW t \in Thread, Finish(t)
        PROVE  states'[body'[u].proc][body'[u].lin] # NONE
    <2>1. pc[t] # "idle" /\ Touch(body[t], -1) /\ Reset(t)
      BY <1>9 DEF Finish
    <2>2. SameKnown
      BY <2>1, BodyType, TouchEffect
    <2>3. u # t /\ pc'[u] = pc[u] /\ body'[u] = body[u] /\ orphan' = orphan
      BY <2>1 DEF Reset, TypeOK
    <2>4. QED
      BY <1>0, <2>2, <2>3 DEF SameKnown
  <1>10. ASSUME NEW t \in Thread, NEW v \in Thread, StartShadow(t, v)
         PROVE  states'[body'[u].proc][body'[u].lin] # NONE
    <2>1. pc[t] = "sent" /\ Touch(body[t], 1) /\ Spawn(t, v, "shadow")
      BY <1>10 DEF StartShadow, Spawn
    <2>2. SameKnown
      BY <2>1, BodyType, TouchEffect
    <2>3. u # v /\ pc'[u] = pc[u] /\ body'[u] = body[u] /\ orphan' = orphan
      BY <2>1 DEF Spawn, TypeOK
    <2>4. QED
      BY <1>0, <2>2, <2>3 DEF SameKnown
  <1>11. ASSUME NEW t \in Thread, NEW v \in Thread, StartUncounted(t, v)
         PROVE  states'[body'[u].proc][body'[u].lin] # NONE
    BY <1>11 DEF StartUncounted, Spawn, TypeOK
  <1>12. ASSUME NEW t \in Thread, EndUncounted(t)
         PROVE  states'[body'[u].proc][body'[u].lin] # NONE
    BY <1>12 DEF EndUncounted, Reset, TypeOK
  <1>13. ASSUME NEW p \in Proc, Crash(p)
         PROVE  states'[body'[u].proc][body'[u].lin] # NONE
    <2>1. pc[u] = "choosing" /\ body'[u] = body[u] /\ body[u].proc # p /\ ~orphan[u]
      BY <1>13 DEF Crash, TypeOK
    <2>2. states' = [states EXCEPT ![p] = [k \in Lineage |-> NONE]]
      BY <1>13 DEF Crash
    <2>3. QED
      BY <1>0, <2>1, <2>2 DEF TypeOK
  <1>14. QED
    BY <1>1, <1>2, <1>3, <1>4, <1>5, <1>6, <1>7, <1>8, <1>9, <1>10, <1>11, <1>12, <1>13, NextWork
    DEF Work, Planned, Unplanned

LEMMA Typed == Spec => [](TypeOK /\ Held)
  <1>1. Init => TypeOK /\ Held
    BY TypeInit DEF Init, Held
  <1>2. TypeOK /\ Held /\ [Next]_vars => (TypeOK /\ Held)'
    BY TypeStep, HeldStep
  <1>3. QED
    BY <1>1, <1>2, PTL DEF Spec

\* Every variable always has its type: in particular an in-flight count never goes
\* below zero (_touch) and a remembered lifetime is one that was asked for.
THEOREM TypeCorrect == Spec => []TypeOK
  BY Typed, PTL

-----------------------------------------------------------------------------
(* A cold turn continues one conversation.                                 *)

\* Only plan() writes what the ambiguity of a lineage is decided from.
LEMMA SameHistory ==
  ASSUME TypeOK, Held, [Next]_vars, NEW p \in Proc, NEW k \in Lineage, states'[p][k] # NONE,
         \A t \in Thread : body[t].proc = p /\ body[t].lin = k =>
           ~FirstSeen(t) /\ \A held \in BOOLEAN, ext \in Extension : ~Decide(t, held, ext)
  PROVE  /\ states[p][k] # NONE
         /\ states'[p][k].n = states[p][k].n /\ states'[p][k].tail = states[p][k].tail
         /\ states'[p][k].ambiguous = states[p][k].ambiguous
         /\ states'[p][k].served = states[p][k].served
  <1> DEFINE Same == /\ states[p][k] # NONE
                     /\ states'[p][k].n = states[p][k].n /\ states'[p][k].tail = states[p][k].tail
                     /\ states'[p][k].ambiguous = states[p][k].ambiguous
                     /\ states'[p][k].served = states[p][k].served
  <1>1. CASE UNCHANGED states
    BY <1>1
  <1>2. ASSUME NEW b \in Body, NEW delta \in {-1, 1}, Touch(b, delta) PROVE Same
    BY <1>2, TouchEffect DEF SameKnown, ElsewhereSame
  <1>3. ASSUME NEW t \in Thread, Chooses(t) PROVE Same
    <2>1. SameKnown /\ ElsewhereSame(body[t].proc, body[t].lin)
      BY <1>3, ChoosesEffect
    <2>2. CASE body[t].proc # p \/ body[t].lin # k
      BY <2>1, <2>2 DEF ElsewhereSame
    <2>3. CASE orphan[t]
      BY <1>1, <1>3, <2>3, ChoosesEffect
    <2>4. CASE body[t].proc = p /\ body[t].lin = k /\ ~orphan[t]
      <3>1. states[p][k] # NONE
        BY <2>1 DEF SameKnown
      <3>2. QED
        BY <1>3, <2>4, <3>1, ChoosesEffect DEF StateOf
    <2>5. QED
      BY <2>2, <2>3, <2>4
  <1>4. ASSUME NEW t \in Thread, FirstSeen(t) PROVE Same
    <2>1. body[t].proc \in Proc /\ body[t].lin \in Lineage
      BY <1>4, FirstSeenEffect, BodyType
    <2>2. body[t].proc # p \/ body[t].lin # k
      BY <1>4
    <2>3. states'[p][k] = states[p][k]
      BY <1>4, <2>1, <2>2, FirstSeenEffect
    <2>4. QED
      BY <2>3
  <1>5. ASSUME NEW t \in Thread, NEW held \in BOOLEAN, NEW ext \in Extension, Decide(t, held, ext)
        PROVE  Same
    <2>1. ElsewhereSame(body[t].proc, body[t].lin)
      BY <1>5, DecideEffect
    <2>2. body[t].proc # p \/ body[t].lin # k
      BY <1>5
    <2>3. QED
      BY <2>1, <2>2 DEF ElsewhereSame
  <1>8. ASSUME NEW t \in Thread, Finish(t) PROVE Same
    <2>1. body[t] \in Body /\ Touch(body[t], -1)
      BY <1>8, BodyType DEF Finish
    <2>2. QED
      BY <1>2, <2>1
  <1>9. ASSUME NEW t \in Thread, NEW u \in Thread, StartShadow(t, u) PROVE Same
    <2>1. body[t] \in Body /\ Touch(body[t], 1)
      BY <1>9, BodyType DEF StartShadow, Spawn
    <2>2. QED
      BY <1>2, <2>1
  <1>10. ASSUME NEW q \in Proc, Crash(q) PROVE Same
    <2>1. states' = [states EXCEPT ![q] = [j \in Lineage |-> NONE]]
      BY <1>10 DEF Crash
    <2>2. states'[p][k] = states[p][k]
      BY <2>1 DEF TypeOK
    <2>3. QED
      BY <2>2
  <1>11. ASSUME NEW t \in Thread, Work(t) PROVE Same
    <2>1. CASE \E u \in Thread : StartUncounted(t, u)
      BY <1>1, <2>1 DEF StartUncounted
    <2>2. CASE PlanFails(t) \/ Persist(t) \/ Send(t) \/ EndUncounted(t)
      BY <1>1, <2>2 DEF PlanFails, Persist, Send, EndUncounted
    <2>3. CASE \E b : Arrive(t, b)
      BY <1>1, <2>3 DEF Arrive
    <2>4. QED
      BY <1>3, <1>4, <1>5, <1>8, <1>9, <1>11, <2>1, <2>2, <2>3
      DEF Work, Planned, Unplanned, Chooses
  <1>12. QED
    BY <1>1, <1>10, <1>11, NextWork DEF Tick, vars

\* An extension of the last message list extends every list served before it.
LEMMA ExtendsAll ==
  ASSUME NEW s \in State, NEW b \in Body, Extends(s, b),
         NEW m \in s.served, m[2] <= s.n, SameMessage(m[1], s.tail, m[2])
  PROVE  m[2] <= b.len /\ SameMessage(m[1], b.conv, m[2])
  <1>1. s.n \in Nat /\ b.len \in Nat /\ m[2] \in Nat /\ Shared \in Nat
    BY ColdpointAssumption DEF State, Body
  <1>2. s.n <= b.len /\ SameMessage(s.tail, b.conv, s.n)
    BY DEF Extends
  <1>3. QED
    BY <1>1, <1>2 DEF SameMessage

LEMMA StraightStep == ASSUME TypeOK, Held, Straight, [Next]_vars PROVE Straight'
  <1> SUFFICES ASSUME NEW p \in Proc, NEW k \in Lineage,
                      states'[p][k] # NONE, ~states'[p][k].ambiguous,
                      NEW m \in states'[p][k].served
               PROVE  m[2] <= states'[p][k].n /\ SameMessage(m[1], states'[p][k].tail, m[2])
    BY DEF Straight
  <1> DEFINE Goal == m[2] <= states'[p][k].n /\ SameMessage(m[1], states'[p][k].tail, m[2])
  <1>1. ASSUME NEW t \in Thread, FirstSeen(t), body[t].proc = p, body[t].lin = k PROVE Goal
    <2>1. states'[p][k] = NewState(body[t], seen[t]) /\ body[t].len \in Length
      BY <1>1, FirstSeenEffect, BodyType
    <2>2. m = <<body[t].conv, body[t].len>> /\ states'[p][k].n = body[t].len
          /\ states'[p][k].tail = body[t].conv
      BY <2>1 DEF NewState
    <2>3. body[t].len \in Nat
      BY <2>1, ColdpointAssumption
    <2>4. QED
      BY <2>2, <2>3 DEF SameMessage
  <1>2. ASSUME NEW t \in Thread, NEW held \in BOOLEAN, NEW ext \in Extension,
               Decide(t, held, ext), body[t].proc = p, body[t].lin = k
        PROVE  Goal
    <2> DEFINE b == body[t]
               old == states[p][k]
    <2>1. /\ old # NONE /\ old \in State /\ b \in Body
          /\ states'[p][k].n = b.len /\ states'[p][k].tail = b.conv
          /\ states'[p][k].ambiguous = (old.ambiguous \/ ~Extends(old, b))
          /\ states'[p][k].served = old.served \cup {<<b.conv, b.len>>}
      BY <1>2, DecideEffect, SMTT(30)
    <2>2. ~old.ambiguous /\ Extends(old, b) /\ b.len \in Nat
      BY <2>1, ColdpointAssumption DEF State, Body
    <2>3. CASE m = <<b.conv, b.len>>
      BY <2>1, <2>2, <2>3 DEF SameMessage
    <2>4. CASE m \in old.served
      BY <2>1, <2>2, <2>4, ExtendsAll DEF Straight
    <2>5. QED
      BY <2>1, <2>3, <2>4
  <1>3. CASE \A t \in Thread : body[t].proc = p /\ body[t].lin = k =>
               ~FirstSeen(t) /\ \A held \in BOOLEAN, ext \in Extension : ~Decide(t, held, ext)
    BY <1>3, SameHistory DEF Straight
  <1>4. QED
    BY <1>1, <1>2, <1>3

\* Only the first critical section of a known lineage calls a turn cold.
LEMMA ColdIsDecided ==
  ASSUME TypeOK, [Next]_vars, NEW t \in Thread, BecomesCold(t)
  PROVE  \E held \in BOOLEAN, ext \in Extension : Decide(t, held, ext)
  <1>1. ASSUME NEW u \in Thread, NEW held \in BOOLEAN, NEW ext \in Extension, Decide(u, held, ext)
        PROVE  u = t
    BY <1>1 DEF Decide, BecomesCold, TypeOK
  <1>2. ASSUME NEW u \in Thread, Work(u),
               ~\E held \in BOOLEAN, ext \in Extension : Decide(u, held, ext)
        PROVE  FALSE
    <2>1. ASSUME NEW b, Arrive(u, b) PROVE FALSE
      BY <2>1 DEF Arrive, BecomesCold
    <2>2. CASE FirstSeen(u)
      BY <2>2 DEF FirstSeen, BecomesCold, TypeOK
    <2>3. ASSUME NEW fresh, Commit(u, fresh) PROVE FALSE
      BY <2>3 DEF Commit, BecomesCold
    <2>4. CASE Defer(u)
      BY <2>4 DEF Defer, BecomesCold, TypeOK
    <2>5. CASE PlanFails(u) \/ Persist(u) \/ Send(u)
      BY <2>5 DEF PlanFails, Persist, Send, BecomesCold
    <2>6. CASE Finish(u) \/ EndUncounted(u)
      BY <2>6 DEF Finish, EndUncounted, Reset, BecomesCold, TypeOK
    <2>7. ASSUME NEW v \in Thread, StartShadow(u, v) \/ StartUncounted(u, v) PROVE FALSE
      BY <2>7 DEF StartShadow, StartUncounted, Spawn, BecomesCold
    <2>8. QED
      BY <1>2, <2>1, <2>2, <2>3, <2>4, <2>5, <2>6, <2>7 DEF Work, Planned, Unplanned
  <1>3. ASSUME NEW p \in Proc, Crash(p) PROVE FALSE
    BY <1>3 DEF Crash, BecomesCold, TypeOK
  <1>4. QED
    BY <1>1, <1>2, <1>3, NextWork DEF Tick, BecomesCold, vars

\* A rewind, a fork or a second conversation under one key never makes a turn cold:
\* the request continues every message list planned on the lineage's state.
THEOREM OneConversation == Spec => ColdIsOneConversation
  <1> DEFINE One == \A t \in Thread : BecomesCold(t) =>
                      \A m \in states[body[t].proc][body[t].lin].served :
                        m[2] <= body[t].len /\ SameMessage(m[1], body[t].conv, m[2])
  <1>1. Init => Straight
    <2>1. ASSUME Init, NEW p \in Proc, NEW k \in Lineage PROVE states[p][k] = NONE
      BY <2>1 DEF Init
    <2>2. QED
      BY <2>1 DEF Straight
  <1>2. ASSUME TypeOK, Straight, [Next]_vars, NEW t \in Thread, BecomesCold(t),
               NEW m \in states[body[t].proc][body[t].lin].served
        PROVE  m[2] <= body[t].len /\ SameMessage(m[1], body[t].conv, m[2])
    <2>1. PICK held \in BOOLEAN, ext \in Extension : Decide(t, held, ext)
      BY <1>2, ColdIsDecided
    <2> DEFINE b == body[t]
               old == states[b.proc][b.lin]
    <2>2. /\ pc[t] = "peeked" /\ old # NONE /\ old \in State /\ b \in Body
          /\ reason'[t] = Verdict(Updated(old, b), b, held, Updated(old, b).ttl + ext)
      <3>1. /\ pc[t] = "peeked" /\ old # NONE /\ old \in State /\ b \in Body
            /\ reason' = [reason EXCEPT
                            ![t] = Verdict(Updated(old, b), b, held, Updated(old, b).ttl + ext)]
        BY <1>2, <2>1, DecideEffect
      <3>2. DOMAIN reason = Thread
        BY <1>2 DEF TypeOK
      <3>3. QED
        BY <3>1, <3>2
    <2>3. ~Updated(old, b).ambiguous
      BY <1>2, <2>2 DEF BecomesCold, Verdict
    <2>4. ~old.ambiguous /\ Extends(old, b)
      BY <2>2, <2>3, UpdatedEffect
    <2>5. b.proc \in Proc /\ b.lin \in Lineage
      BY <2>2 DEF Body
    <2>6. QED
      BY <1>2, <2>2, <2>4, <2>5, ExtendsAll DEF Straight
  <1>3. TypeOK /\ Straight /\ [Next]_vars => [One]_vars
    BY <1>2
  <1>4. TypeOK /\ Held /\ Straight /\ [Next]_vars => Straight'
    BY StraightStep
  <1>5. QED
    BY <1>1, <1>3, <1>4, Typed, PTL DEF Spec, ColdIsOneConversation

-----------------------------------------------------------------------------
(* The in-flight count.                                                    *)

\* The worker's memory is large enough for the lineages in use: plan() never drops one.
Roomy == Cardinality(Lineage) <= MaxLineages

LEMMA NothingDropped ==
  ASSUME Roomy, NEW p \in Proc, NEW k \in Lineage
  PROVE  Dropped(p, k) = {}
  <1>1. Known(p) \cup {k} \subseteq Lineage
    BY DEF Known
  <1>2. Cardinality(Known(p) \cup {k}) <= Cardinality(Lineage)
    BY <1>1, ColdpointAssumption, FS_Subset
  <1>3. /\ Cardinality(Known(p) \cup {k}) \in Nat /\ Cardinality(Lineage) \in Nat
        /\ MaxLineages \in Nat
    BY <1>1, ColdpointAssumption, FS_Subset, FS_CardinalityType
  <1>4. ~(Cardinality(Known(p) \cup {k}) > MaxLineages)
    BY <1>2, <1>3 DEF Roomy
  <1>5. QED
    BY <1>4 DEF Dropped

\* With nothing dropped, a first-seen turn changes its own lineage only.
LEMMA FirstSeenAlone ==
  ASSUME Roomy, TypeOK, NEW t \in Thread, FirstSeen(t)
  PROVE  ElsewhereSame(body[t].proc, body[t].lin) /\ orphan' = orphan
  <1>1. pc[t] = "peeked" /\ body[t].proc \in Proc /\ body[t].lin \in Lineage
    BY FirstSeenEffect, BodyType
  <1>2. Dropped(body[t].proc, body[t].lin) = {}
    BY <1>1, NothingDropped
  <1>3. \A j \in Lineage : j # body[t].lin => states'[body[t].proc][j] = states[body[t].proc][j]
    BY <1>2, FirstSeenEffect
  <1>4. \A q \in Proc : q # body[t].proc => states'[q] = states[q]
    BY FirstSeenEffect
  <1>5. ElsewhereSame(body[t].proc, body[t].lin)
    BY <1>3, <1>4 DEF ElsewhereSame
  <1>6. orphan' = orphan
    BY <1>2 DEF FirstSeen, Orphaned, TypeOK
  <1>7. QED
    BY <1>5, <1>6

\* A step that counts nobody in or out keeps everyone's open threads.
LEMMA OpenSame ==
  ASSUME \A u \in Thread : (Counts(u)' <=> Counts(u)) /\ (Counts(u) => body'[u] = body[u]),
         NEW p \in Proc, NEW k \in Lineage
  PROVE  Open(p, k)' = Open(p, k)
  BY DEF Open

LEMMA OpenFinite ==
  ASSUME NEW p \in Proc, NEW k \in Lineage
  PROVE  IsFiniteSet(Open(p, k)) /\ Cardinality(Open(p, k)) \in Nat
  <1>1. Open(p, k) \subseteq Thread
    BY DEF Open
  <1>2. QED
    BY <1>1, ColdpointAssumption, FS_Subset, FS_CardinalityType

\* A step that counts thread t in, and adds one to its lineage's count.
LEMMA CountIn ==
  ASSUME Counted, NEW t \in Thread, ~Counts(t), Counts(t)',
         NEW p \in Proc, NEW k \in Lineage, body'[t].proc = p, body'[t].lin = k,
         \A u \in Thread : u # t => (Counts(u)' <=> Counts(u)) /\ (Counts(u) => body'[u] = body[u]),
         ElsewhereSame(p, k), states'[p][k] # NONE,
         states'[p][k].inflight = Cardinality(Open(p, k)) + 1
  PROVE  Counted'
  <1>1. \A u : u \in Open(p, k)' <=> u \in Open(p, k) \cup {t}
    BY DEF Open
  <1>2. Open(p, k)' = Open(p, k) \cup {t} /\ t \notin Open(p, k)
    BY <1>1 DEF Open
  <1>3. Cardinality(Open(p, k)') = Cardinality(Open(p, k)) + 1
    BY <1>2, OpenFinite, FS_AddElement
  <1>4. ASSUME NEW q \in Proc, NEW j \in Lineage, q # p \/ j # k
        PROVE  Open(q, j)' = Open(q, j)
    BY <1>4 DEF Open
  <1>5. ASSUME NEW q \in Proc, NEW j \in Lineage
        PROVE  /\ states'[q][j] = NONE => Open(q, j)' = {}
               /\ states'[q][j] # NONE => states'[q][j].inflight = Cardinality(Open(q, j)')
    <2>1. CASE q = p /\ j = k
      BY <1>3, <2>1
    <2>2. CASE q # p \/ j # k
      <3>1. Open(q, j)' = Open(q, j)
        BY <1>4, <2>2
      <3>2. states'[q][j] = states[q][j]
        BY <2>2 DEF ElsewhereSame
      <3>3. QED
        BY <3>1, <3>2 DEF Counted
    <2>3. QED
      BY <2>1, <2>2
  <1>6. QED
    BY <1>5 DEF Counted

\* A step that counts thread t out, and takes one from its lineage's count.
LEMMA CountOut ==
  ASSUME Counted, NEW t \in Thread, Counts(t), ~Counts(t)',
         NEW p \in Proc, NEW k \in Lineage, body[t].proc = p, body[t].lin = k,
         \A u \in Thread : u # t => (Counts(u)' <=> Counts(u)) /\ body'[u] = body[u],
         ElsewhereSame(p, k), states'[p][k] # NONE,
         states'[p][k].inflight = Later(0, states[p][k].inflight + (-1))
  PROVE  Counted'
  <1>1. \A u : u \in Open(p, k)' <=> u \in Open(p, k) \ {t}
    BY DEF Open
  <1>2. Open(p, k)' = Open(p, k) \ {t} /\ t \in Open(p, k)
    BY <1>1 DEF Open
  <1>3. /\ Cardinality(Open(p, k)') = Cardinality(Open(p, k)) - 1
        /\ Cardinality(Open(p, k)) \in Nat /\ Cardinality(Open(p, k)') \in Nat
    <2>1. IsFiniteSet(Open(p, k)) /\ Cardinality(Open(p, k)) \in Nat
      BY OpenFinite
    <2>2. /\ IsFiniteSet(Open(p, k) \ {t})
          /\ Cardinality(Open(p, k) \ {t}) = Cardinality(Open(p, k)) - 1
      BY <1>2, <2>1, FS_RemoveElement
    <2>3. QED
      BY <1>2, <2>1, <2>2, FS_CardinalityType
  <1>4. states[p][k] # NONE /\ states[p][k].inflight = Cardinality(Open(p, k))
    BY <1>2 DEF Counted
  <1>5. states'[p][k].inflight = Cardinality(Open(p, k)')
    BY <1>3, <1>4 DEF Later
  <1>6. ASSUME NEW q \in Proc, NEW j \in Lineage, q # p \/ j # k
        PROVE  Open(q, j)' = Open(q, j)
    BY <1>6 DEF Open
  <1>7. ASSUME NEW q \in Proc, NEW j \in Lineage
        PROVE  /\ states'[q][j] = NONE => Open(q, j)' = {}
               /\ states'[q][j] # NONE => states'[q][j].inflight = Cardinality(Open(q, j)')
    <2>1. CASE q = p /\ j = k
      BY <1>5, <2>1
    <2>2. CASE q # p \/ j # k
      <3>1. Open(q, j)' = Open(q, j)
        BY <1>6, <2>2
      <3>2. states'[q][j] = states[q][j]
        BY <2>2 DEF ElsewhereSame
      <3>3. QED
        BY <3>1, <3>2 DEF Counted
    <2>3. QED
      BY <2>1, <2>2
  <1>8. QED
    BY <1>7 DEF Counted

\* A step that counts nobody in or out, and leaves every count.
LEMMA CountKept ==
  ASSUME Counted, SameKnown,
         \A u \in Thread : (Counts(u)' <=> Counts(u)) /\ (Counts(u) => body'[u] = body[u]),
         \A p \in Proc, k \in Lineage :
           states[p][k] # NONE => states'[p][k].inflight = states[p][k].inflight
  PROVE  Counted'
  <1>1. ASSUME NEW p \in Proc, NEW k \in Lineage
        PROVE  /\ states'[p][k] = NONE => Open(p, k)' = {}
               /\ states'[p][k] # NONE => states'[p][k].inflight = Cardinality(Open(p, k)')
    <2>1. Open(p, k)' = Open(p, k)
      BY OpenSame
    <2>2. QED
      BY <2>1 DEF Counted, SameKnown
  <1>2. QED
    BY <1>1 DEF Counted

LEMMA CountedStep ==
  ASSUME Roomy, TypeOK, Held, Counted, [Next]_vars
  PROVE  Counted'
  <1>1. CASE UNCHANGED vars
    BY <1>1, CountKept DEF vars, Counts, Serving, SameKnown
  <1>2. CASE Tick
    BY <1>2, CountKept DEF Tick, Counts, Serving, SameKnown
  <1>3. ASSUME NEW t \in Thread, NEW b, Arrive(t, b) PROVE Counted'
    BY <1>3, CountKept DEF Arrive, Counts, Serving, SameKnown, TypeOK
  <1>4. ASSUME NEW t \in Thread, FirstSeen(t) PROVE Counted'
    <2>1. body[t] \in Body /\ body' = body /\ body[t].proc \in Proc /\ body[t].lin \in Lineage
      BY <1>4, FirstSeenEffect, BodyType DEF FirstSeen
    <2>2. /\ states[body[t].proc][body[t].lin] = NONE
          /\ states'[body[t].proc][body[t].lin] # NONE
          /\ states'[body[t].proc][body[t].lin].inflight = 1
      <3>1. /\ states[body[t].proc][body[t].lin] = NONE
            /\ states'[body[t].proc][body[t].lin] = NewState(body[t], seen[t])
            /\ states'[body[t].proc][body[t].lin] \in State
        BY <1>4, FirstSeenEffect
      <3>2. NewState(body[t], seen[t]).inflight = 1
        BY DEF NewState
      <3>3. QED
        BY <3>1, <3>2, NoneAssumption
    <2>3. Open(body[t].proc, body[t].lin) = {}
      BY <2>1, <2>2 DEF Counted
    <2>4. Cardinality(Open(body[t].proc, body[t].lin)) = 0
      BY <2>3, FS_EmptySet
    <2>5. /\ ~Counts(t) /\ Counts(t)'
          /\ \A u \in Thread : u # t => (Counts(u)' <=> Counts(u))
      BY <1>4 DEF FirstSeen, Counts, Serving, TypeOK
    <2>6. ElsewhereSame(body[t].proc, body[t].lin)
      BY <1>4, FirstSeenAlone
    <2>7. QED
      BY <2>1, <2>2, <2>4, <2>5, <2>6, CountIn
  <1>5. ASSUME NEW t \in Thread, NEW held \in BOOLEAN, NEW ext \in Extension,
               Decide(t, held, ext)
        PROVE  Counted'
    <2>1. /\ states[body[t].proc][body[t].lin] # NONE /\ body[t] \in Body
          /\ states'[body[t].proc][body[t].lin].inflight =
               states[body[t].proc][body[t].lin].inflight + 1
          /\ ElsewhereSame(body[t].proc, body[t].lin) /\ SameKnown /\ body' = body
      BY <1>5, DecideEffect
    <2>2. body[t].proc \in Proc /\ body[t].lin \in Lineage
      BY <2>1 DEF Body
    <2>3. states'[body[t].proc][body[t].lin] # NONE
      BY <2>1, <2>2 DEF SameKnown
    <2>4. states[body[t].proc][body[t].lin].inflight =
            Cardinality(Open(body[t].proc, body[t].lin))
      BY <2>1, <2>2 DEF Counted
    <2>5. \E x \in {"choosing", "ready"} : pc' = [pc EXCEPT ![t] = x] /\ pc[t] = "peeked"
      BY <1>5 DEF Decide
    <2>6. /\ ~Counts(t) /\ Counts(t)'
          /\ \A u \in Thread : u # t => (Counts(u)' <=> Counts(u))
      BY <2>5 DEF Counts, Serving, TypeOK
    <2>7. QED
      BY <2>1, <2>2, <2>3, <2>4, <2>6, CountIn
  <1>6. ASSUME NEW t \in Thread, Chooses(t) PROVE Counted'
    <2>1. /\ SameKnown /\ body' = body /\ pc[t] = "choosing"
          /\ \E x \in {"ready", "persisting"} : pc' = [pc EXCEPT ![t] = x]
      BY <1>6, ChoosesEffect
    <2>2. \A u \in Thread : (Counts(u)' <=> Counts(u)) /\ (Counts(u) => body'[u] = body[u])
      BY <2>1 DEF Counts, Serving, TypeOK
    <2>3. ASSUME NEW p \in Proc, NEW k \in Lineage, states[p][k] # NONE
          PROVE  states'[p][k].inflight = states[p][k].inflight
      BY <1>6, <2>3, ChoosesEffect DEF ElsewhereSame, StateOf
    <2>4. QED
      BY <2>1, <2>2, <2>3, CountKept
  <1>7. ASSUME NEW t \in Thread, PlanFails(t) \/ Persist(t) \/ Send(t) PROVE Counted'
    BY <1>7, CountKept DEF PlanFails, Persist, Send, Counts, Serving, SameKnown, TypeOK
  <1>8. ASSUME NEW t \in Thread, Finish(t) PROVE Counted'
    <2>1. /\ pc[t] \in {"ready", "sent", "shadow"} /\ Touch(body[t], -1)
          /\ pc' = [pc EXCEPT ![t] = "idle"] /\ body' = [body EXCEPT ![t] = NONE]
      BY <1>8 DEF Finish, Reset
    <2>2. PICK p \in Proc, k \in Lineage : body[t] \in Body /\ body[t].proc = p /\ body[t].lin = k
      BY <2>1, BodyType
    <2>3. /\ Counts(t) /\ ~Counts(t)'
          /\ \A u \in Thread : u # t => (Counts(u)' <=> Counts(u)) /\ body'[u] = body[u]
      BY <2>1 DEF Counts, Serving, TypeOK
    <2>4. states[p][k] # NONE
      BY <2>2, <2>3 DEF Counted, Open
    <2>5. /\ ElsewhereSame(p, k) /\ SameKnown
          /\ states'[p][k].inflight = Later(0, states[p][k].inflight + (-1))
      BY <2>1, <2>2, <2>4, TouchEffect
    <2>6. states'[p][k] # NONE
      BY <2>4, <2>5 DEF SameKnown
    <2>7. QED
      BY <2>2, <2>3, <2>5, <2>6, CountOut
  <1>9. ASSUME NEW t \in Thread, NEW v \in Thread, StartShadow(t, v) PROVE Counted'
    <2>1. /\ pc[t] = "sent" /\ pc[v] = "idle" /\ Touch(body[t], 1)
          /\ pc' = [pc EXCEPT ![v] = "shadow"] /\ body' = [body EXCEPT ![v] = body[t]]
      BY <1>9 DEF StartShadow, Spawn
    <2> DEFINE p == body[t].proc
               k == body[t].lin
    <2>2. body[t] \in Body /\ p \in Proc /\ k \in Lineage
      BY <2>1, BodyType
    <2>3. t \in Open(p, k)
      BY <2>1 DEF Open, Counts, Serving
    <2>4. states[p][k] # NONE /\ states[p][k].inflight = Cardinality(Open(p, k))
      BY <2>2, <2>3 DEF Counted
    <2>5. /\ ElsewhereSame(p, k) /\ SameKnown
          /\ states'[p][k].inflight = Later(0, states[p][k].inflight + 1)
      BY <2>1, <2>2, <2>4, TouchEffect
    <2>6. states'[p][k] # NONE
      BY <2>2, <2>4, <2>5 DEF SameKnown
    <2>7. states'[p][k].inflight = Cardinality(Open(p, k)) + 1
      BY <2>2, <2>4, <2>5, OpenFinite DEF Later
    <2>8. body'[v] = body[t]
      BY <2>1 DEF TypeOK
    <2>9. /\ ~Counts(v) /\ Counts(v)'
          /\ \A u \in Thread : u # v => (Counts(u)' <=> Counts(u)) /\ body'[u] = body[u]
      BY <2>1 DEF Counts, Serving, TypeOK
    <2>10. QED
      BY <2>2, <2>5, <2>6, <2>7, <2>8, <2>9, CountIn
  <1>10. ASSUME NEW t \in Thread, NEW v \in Thread, StartUncounted(t, v) PROVE Counted'
    BY <1>10, CountKept DEF StartUncounted, Spawn, Counts, Serving, SameKnown, TypeOK
  <1>11. ASSUME NEW t \in Thread, EndUncounted(t) PROVE Counted'
    BY <1>11, CountKept DEF EndUncounted, Reset, Counts, Serving, SameKnown, TypeOK
  <1>12. ASSUME NEW p \in Proc, Crash(p) PROVE Counted'
    <2>1. /\ states' = [states EXCEPT ![p] = [k \in Lineage |-> NONE]]
          /\ pc' = [t \in Thread |-> IF pc[t] # "idle" /\ body[t].proc = p THEN "idle" ELSE pc[t]]
          /\ body' = [t \in Thread |-> IF pc[t] # "idle" /\ body[t].proc = p THEN NONE ELSE body[t]]
      BY <1>12 DEF Crash
    <2>2. ASSUME NEW k \in Lineage PROVE states'[p][k] = NONE /\ Open(p, k)' = {}
      BY <2>1 DEF Open, Counts, Serving, TypeOK
    <2>3. ASSUME NEW q \in Proc, NEW k \in Lineage, q # p
          PROVE  states'[q][k] = states[q][k] /\ Open(q, k)' = Open(q, k)
      BY <2>1, <2>3 DEF Open, Counts, Serving, TypeOK
    <2>4. QED
      BY <2>2, <2>3 DEF Counted
  <1>13. QED
    BY <1>1, <1>2, <1>3, <1>4, <1>5, <1>6, <1>7, <1>8, <1>9, <1>10, <1>11, <1>12, NextWork
    DEF Work, Planned, Unplanned, Chooses

\* With every lineage in memory, in any number of workers that may die, the in-flight
\* count of a lineage is the number of its requests and replays that are under way:
\* begin() and end() pair up on every path.
THEOREM InflightCounts == ASSUME Roomy PROVE Spec => []InflightExact
  <1>1. Init => Counted
    <2>1. ASSUME Init, NEW p \in Proc, NEW k \in Lineage
          PROVE  states[p][k] = NONE /\ Open(p, k) = {}
      BY <2>1 DEF Init, Open, Counts, Serving
    <2>2. QED
      BY <2>1 DEF Counted
  <1>2. TypeOK /\ Held /\ Counted /\ [Next]_vars => Counted'
    BY CountedStep
  <1>3. Counted => InflightExact
    BY DEF Counted, InflightExact
  <1>4. QED
    BY <1>1, <1>2, <1>3, Typed, PTL DEF Spec

-----------------------------------------------------------------------------
(* What Coldpoint promises about the provider's prompt cache: a turn called *)
(* cold meets no live cache entry, and what is on the wire as a stub stays  *)
(* a stub.                                                                  *)

\* The worker is the only one: no hot-swap is draining an old one.
OneWorker == \A p, q \in Proc : p = q

\* A worker never dies, or every request asks for the same cache lifetime: the longest
\* lifetime a lineage ever asked for is kept in memory only.
OneLifetime == CanCrash => \A x, y \in TTL : x = y

\* No thread is at an exchange of the given kind.
Absent(kind) == \A t \in Thread : pc[t] # kind

NoAudit == Absent("audit") /\ Absent("bare")

\* Audits are on or off; and what goes out without a plan goes out because planning failed.
LEMMA AbsentStep ==
  ASSUME NEW kind \in {"audit", "bare"},
         kind = "audit" => ~CanAudit, kind = "bare" => ~CanFailOpen,
         TypeOK, Held, Absent(kind), [Next]_vars
  PROVE  Absent(kind)'
  <1> SUFFICES ASSUME NEW u \in Thread, pc'[u] = kind
               PROVE  FALSE
    BY DEF Absent
  <1>1. pc[u] # kind /\ \A t \in Thread : pc[t] # kind
    BY DEF Absent
  <1>2. ASSUME NEW t \in Thread, Work(t) PROVE FALSE
    <2>1. ASSUME NEW b, Arrive(t, b) PROVE FALSE
      BY <1>1, <2>1 DEF Arrive, TypeOK
    <2>2. CASE FirstSeen(t)
      BY <1>1, <2>2 DEF FirstSeen, TypeOK
    <2>3. ASSUME NEW held \in BOOLEAN, NEW ext \in Extension, Decide(t, held, ext) PROVE FALSE
      BY <1>1, <2>3 DEF Decide, TypeOK
    <2>4. CASE Chooses(t)
      <3>1. PICK x \in {"ready", "persisting"} : pc' = [pc EXCEPT ![t] = x]
        BY <2>4, ChoosesEffect
      <3>2. QED
        BY <1>1, <3>1 DEF TypeOK
    <2>5. CASE PlanFails(t) \/ Persist(t) \/ Send(t)
      BY <1>1, <2>5 DEF PlanFails, Persist, Send, TypeOK
    <2>6. CASE Finish(t) \/ EndUncounted(t)
      BY <1>1, <2>6 DEF Finish, EndUncounted, Reset, TypeOK
    <2>7. ASSUME NEW v \in Thread, StartShadow(t, v) \/ StartUncounted(t, v) PROVE FALSE
      BY <1>1, <2>7 DEF StartShadow, StartUncounted, Spawn, TypeOK
    <2>8. QED
      BY <1>2, <2>1, <2>2, <2>3, <2>4, <2>5, <2>6, <2>7 DEF Work, Planned, Unplanned, Chooses
  <1>3. ASSUME NEW p \in Proc, Crash(p) PROVE FALSE
    BY <1>1, <1>3 DEF Crash, TypeOK
  <1>4. QED
    BY <1>1, <1>2, <1>3, NextWork DEF Tick, vars

LEMMA NoAuditStep ==
  ASSUME ~CanAudit, ~CanFailOpen, TypeOK, Held, NoAudit, [Next]_vars
  PROVE  NoAudit'
  BY AbsentStep DEF NoAudit

-----------------------------------------------------------------------------
(* `last` and `ttl` of a lineage bound the time at which the provider       *)
(* forgets it.                                                             *)

LEMMA WithinLater ==
  ASSUME NEW g \in Nat, NEW a \in Nat, NEW b \in Nat, NEW x \in Nat, NEW y \in Nat,
         a <= b, x <= y, Within(g, a, x)
  PROVE  Within(g, b, y)
  BY ColdpointAssumption DEF Within

LEMMA WithinBoth ==
  ASSUME NEW g, NEW h, NEW a, NEW x, Within(g, a, x), Within(h, a, x)
  PROVE  Within(Later(g, h), a, x)
  BY DEF Later

LEMMA Naturals ==
  ASSUME TypeOK
  PROVE  /\ clock \in Nat /\ Margin \in Nat
         /\ \A k \in Lineage : gone[k] \in Nat
         /\ \A p \in Proc, k \in Lineage : states[p][k] # NONE =>
              states[p][k].last \in Nat /\ states[p][k].ttl \in Nat /\ states[p][k].ttl \in TTL
         /\ \A t \in Thread : pc[t] # "idle" =>
              body[t].at \in Nat /\ body[t].ttl \in Nat /\ body[t].ttl \in TTL
         /\ \A x \in TTL : x \in Nat
  BY StatesType, BodyType, ColdpointAssumption DEF TypeOK

\* Steps at which the cache of no lineage is used, and no request arrives: time and
\* `last` may move on, and a thread may take over the request of another.
LEMMA CoolingKept ==
  ASSUME TypeOK, TypeOK', Cooling, gone' = gone, SameKnown, clock' >= clock,
         \A p \in Proc, k \in Lineage : states[p][k] # NONE =>
           /\ states'[p][k].last >= states[p][k].last
           /\ states'[p][k].last = states[p][k].last \/ states'[p][k].last <= clock
           /\ states'[p][k].ttl = states[p][k].ttl,
         \A t \in Thread : pc'[t] # "idle" =>
           \E u \in Thread : /\ pc[u] # "idle" /\ body'[t] = body[u]
                             /\ Counts(t)' => Counts(u)
                             /\ pc'[t] = "peeked" => pc[u] = "peeked",
         \A t \in Thread : Counts(t) => states[body[t].proc][body[t].lin] # NONE
  PROVE  Cooling'
  <1>1. clock \in Nat /\ clock' \in Nat
    BY DEF TypeOK
  <1>2. ASSUME NEW p \in Proc, NEW k \in Lineage, states'[p][k] = NONE, NEW x \in TTL
        PROVE  Within(gone'[k], clock', x)
    <2>1. Within(gone[k], clock, x)
      BY <1>2 DEF Cooling, SameKnown
    <2>2. gone[k] \in Nat /\ x \in Nat /\ x <= x
      BY Naturals
    <2>3. QED
      BY <1>1, <2>1, <2>2, WithinLater
  <1>3. ASSUME NEW p \in Proc, NEW k \in Lineage, states'[p][k] # NONE
        PROVE  /\ states'[p][k].last <= clock'
               /\ Within(gone'[k], states'[p][k].last, states'[p][k].ttl)
    <2>1. states[p][k] # NONE
      BY <1>3 DEF SameKnown
    <2>2. states[p][k].last \in Nat /\ states[p][k].ttl \in Nat /\ gone[k] \in Nat
      BY <2>1, Naturals
    <2>3. states'[p][k].last \in Nat
      BY <1>3, StatesType, Naturals DEF TypeOK, State
    <2>4. states[p][k].last <= clock /\ Within(gone[k], states[p][k].last, states[p][k].ttl)
      BY <2>1 DEF Cooling
    <2>5. states'[p][k].last <= clock'
      BY <1>1, <2>1, <2>2, <2>3, <2>4
    <2>6. /\ states[p][k].last <= states'[p][k].last
          /\ states'[p][k].ttl = states[p][k].ttl /\ states[p][k].ttl <= states[p][k].ttl
      BY <2>1, <2>2, <2>3
    <2>7. QED
      BY <2>2, <2>3, <2>4, <2>5, <2>6, WithinLater
  <1>4. ASSUME NEW t \in Thread, pc'[t] # "idle"
        PROVE  /\ body'[t].at <= clock'
               /\ Counts(t)' => body'[t].ttl <= states'[body'[t].proc][body'[t].lin].ttl
               /\ pc'[t] = "peeked" /\ states'[body'[t].proc][body'[t].lin] = NONE =>
                    Within(gone'[body'[t].lin], body'[t].at, body'[t].ttl)
    <2>1. PICK u \in Thread : /\ pc[u] # "idle" /\ body'[t] = body[u]
                              /\ Counts(t)' => Counts(u)
                              /\ pc'[t] = "peeked" => pc[u] = "peeked"
      BY <1>4
    <2>2. body[u].proc \in Proc /\ body[u].lin \in Lineage /\ body[u].at \in Nat
      BY <2>1, BodyType
    <2>3. body[u].at <= clock'
      BY <1>1, <2>1, <2>2 DEF Cooling
    <2>4. ASSUME Counts(t)' PROVE body[u].ttl <= states'[body[u].proc][body[u].lin].ttl
      BY <2>1, <2>2, <2>4 DEF Cooling
    <2>5. ASSUME pc'[t] = "peeked", states'[body[u].proc][body[u].lin] = NONE
          PROVE  Within(gone'[body[u].lin], body[u].at, body[u].ttl)
      BY <2>1, <2>2, <2>5 DEF Cooling, SameKnown
    <2>6. QED
      BY <2>1, <2>3, <2>4, <2>5
  <1>5. \A t \in Thread : Counts(t)' => pc'[t] # "idle"
    BY DEF Counts, Serving
  <1>6. QED
    BY <1>2, <1>3, <1>4, <1>5 DEF Cooling

LEMMA CountsKnown ==
  ASSUME TypeOK, Counted, NEW t \in Thread, Counts(t)
  PROVE  /\ pc[t] # "idle" /\ body[t].proc \in Proc /\ body[t].lin \in Lineage
         /\ states[body[t].proc][body[t].lin] # NONE
  <1>1. pc[t] # "idle"
    BY DEF Counts, Serving
  <1>2. body[t].proc \in Proc /\ body[t].lin \in Lineage
    BY <1>1, BodyType
  <1>3. t \in Open(body[t].proc, body[t].lin)
    BY DEF Open
  <1>4. QED
    BY <1>1, <1>2, <1>3 DEF Counted

\* A request arrives: it is as young as the clock.
LEMMA CoolingArrive ==
  ASSUME TypeOK, Cooling, NEW t \in Thread, NEW b \in Body, b.at = clock, Arrive(t, b)
  PROVE  Cooling'
  <1>1. /\ UNCHANGED <<clock, states, gone>>
        /\ pc' = [pc EXCEPT ![t] = "peeked"] /\ body' = [body EXCEPT ![t] = b]
    BY DEF Arrive
  <1>2. pc'[t] = "peeked" /\ body'[t] = b /\ ~Counts(t)'
    BY <1>1 DEF TypeOK, Counts, Serving
  <1>3. \A u \in Thread : u # t => pc'[u] = pc[u] /\ body'[u] = body[u] /\ (Counts(u)' <=> Counts(u))
    BY <1>1 DEF TypeOK, Counts, Serving
  <1>4. b.proc \in Proc /\ b.lin \in Lineage /\ b.ttl \in TTL /\ clock \in Nat
    BY DEF Body, TypeOK
  <1>5. states[b.proc][b.lin] = NONE => Within(gone[b.lin], b.at, b.ttl)
    BY <1>4 DEF Cooling
  <1>6. QED
    BY <1>1, <1>2, <1>3, <1>4, <1>5 DEF Cooling

\* A lineage is first seen: the cache knows nothing younger than the request.
LEMMA CoolingFirstSeen ==
  ASSUME Roomy, TypeOK, Counted, Cooling, NEW t \in Thread, FirstSeen(t)
  PROVE  Cooling'
  <1>1. PICK p \in Proc, k \in Lineage : body[t].proc = p /\ body[t].lin = k
    BY FirstSeenEffect, BodyType
  <1>2. /\ pc[t] = "peeked" /\ states[p][k] = NONE
        /\ states'[p][k] = NewState(body[t], seen[t])
    BY <1>1, FirstSeenEffect
  <1>3. ElsewhereSame(p, k)
    BY <1>1, FirstSeenAlone
  <1>4. /\ UNCHANGED <<clock, body, gone>> /\ pc' = [pc EXCEPT ![t] = "ready"]
    BY DEF FirstSeen
  <1>5. states'[p][k].last = body[t].at /\ states'[p][k].ttl = body[t].ttl
    BY <1>2 DEF NewState
  <1>6. /\ body[t].at <= clock /\ Within(gone[k], body[t].at, body[t].ttl)
    BY <1>1, <1>2 DEF Cooling
  <1>7. ASSUME NEW q \in Proc, NEW j \in Lineage, q # p \/ j # k
        PROVE  states'[q][j] = states[q][j]
    BY <1>3, <1>7 DEF ElsewhereSame
  <1>8. states'[p][k] # NONE
    BY <1>1, FirstSeenEffect, NoneAssumption
  <1>9. ASSUME NEW u \in Thread, pc'[u] # "idle"
        PROVE  /\ body[u].at <= clock
               /\ Counts(u)' => body[u].ttl <= states'[body[u].proc][body[u].lin].ttl
               /\ pc'[u] = "peeked" /\ states'[body[u].proc][body[u].lin] = NONE =>
                    Within(gone[body[u].lin], body[u].at, body[u].ttl)
    <2>1. CASE u = t
      <3>1. body[t].ttl \in Nat /\ pc'[t] = "ready"
        BY <1>2, <1>4, Naturals DEF TypeOK
      <3>2. QED
        BY <1>1, <1>5, <1>6, <2>1, <3>1
    <2>2. CASE u # t
      <3>1. pc'[u] = pc[u] /\ (Counts(u)' <=> Counts(u))
        BY <1>4, <2>2 DEF TypeOK, Counts, Serving
      <3>2. body[u].proc \in Proc /\ body[u].lin \in Lineage
        BY <1>9, <3>1, BodyType
      <3>3. body[u].at <= clock
        BY <1>9, <3>1 DEF Cooling
      <3>4. ASSUME pc[u] = "peeked", states'[body[u].proc][body[u].lin] = NONE
            PROVE  Within(gone[body[u].lin], body[u].at, body[u].ttl)
        BY <1>7, <1>8, <3>2, <3>4 DEF Cooling
      <3>5. ASSUME Counts(u)
            PROVE  body[u].ttl <= states'[body[u].proc][body[u].lin].ttl
        <4>1. states[body[u].proc][body[u].lin] # NONE
          BY <3>5, CountsKnown
        <4>2. states'[body[u].proc][body[u].lin] = states[body[u].proc][body[u].lin]
          BY <1>2, <1>7, <3>2, <4>1
        <4>3. QED
          BY <3>5, <4>2 DEF Cooling
      <3>6. QED
        BY <3>1, <3>3, <3>4, <3>5
    <2>3. QED
      BY <2>1, <2>2
  <1>10. ASSUME NEW q \in Proc, NEW j \in Lineage
         PROVE  /\ states'[q][j] = NONE => \A x \in TTL : Within(gone[j], clock, x)
                /\ states'[q][j] # NONE =>
                     /\ states'[q][j].last <= clock
                     /\ Within(gone[j], states'[q][j].last, states'[q][j].ttl)
    <2>1. CASE q = p /\ j = k
      BY <1>5, <1>6, <1>8, <2>1
    <2>2. CASE q # p \/ j # k
      BY <1>7, <2>2 DEF Cooling
    <2>3. QED
      BY <2>1, <2>2
  <1>11. \A u \in Thread : Counts(u)' => pc'[u] # "idle"
    BY DEF Counts, Serving
  <1>12. QED
    BY <1>4, <1>9, <1>10, <1>11 DEF Cooling


\* A known lineage is planned: `last` and `ttl` only grow.
LEMMA CoolingDecide ==
  ASSUME TypeOK, Counted, Cooling, NEW t \in Thread, NEW held \in BOOLEAN,
         NEW ext \in Extension, Decide(t, held, ext)
  PROVE  Cooling'
  <1>1. PICK p \in Proc, k \in Lineage : body[t].proc = p /\ body[t].lin = k
    BY DecideEffect, BodyType
  <1> DEFINE old == states[p][k]
             b == body[t]
  <1>2. /\ pc[t] = "peeked" /\ old # NONE /\ b \in Body /\ old \in State
        /\ ElsewhereSame(p, k) /\ SameKnown
        /\ states'[p][k].last = Later(old.last, b.at)
        /\ states'[p][k].ttl = Later(old.ttl, b.ttl)
        /\ UNCHANGED <<clock, body, gone>>
    BY <1>1, DecideEffect
  <1>3. \E x \in {"choosing", "ready"} : pc' = [pc EXCEPT ![t] = x]
    BY DEF Decide
  <1>4. /\ old.last \in Nat /\ old.ttl \in Nat /\ b.at \in Nat /\ b.ttl \in Nat
        /\ clock \in Nat /\ gone[k] \in Nat
    BY <1>2, Naturals
  <1>5. /\ old.last <= clock /\ b.at <= clock /\ Within(gone[k], old.last, old.ttl)
    BY <1>2 DEF Cooling
  <1>6. /\ states'[p][k].last \in Nat /\ states'[p][k].ttl \in Nat
        /\ old.last <= states'[p][k].last /\ states'[p][k].last <= clock
        /\ old.ttl <= states'[p][k].ttl /\ b.ttl <= states'[p][k].ttl
    BY <1>2, <1>4, <1>5 DEF Later
  <1>7. Within(gone[k], states'[p][k].last, states'[p][k].ttl)
    BY <1>4, <1>5, <1>6, ColdpointAssumption DEF Within
  <1>8. ASSUME NEW q \in Proc, NEW j \in Lineage, q # p \/ j # k
        PROVE  states'[q][j] = states[q][j]
    BY <1>2, <1>8 DEF ElsewhereSame
  <1>9. ASSUME NEW u \in Thread, pc'[u] # "idle"
        PROVE  /\ body[u].at <= clock
               /\ Counts(u)' => body[u].ttl <= states'[body[u].proc][body[u].lin].ttl
               /\ pc'[u] = "peeked" /\ states'[body[u].proc][body[u].lin] = NONE =>
                    Within(gone[body[u].lin], body[u].at, body[u].ttl)
    <2>1. CASE u = t
      BY <1>1, <1>3, <1>5, <1>6, <2>1 DEF TypeOK
    <2>2. CASE u # t
      <3>1. pc'[u] = pc[u] /\ (Counts(u)' <=> Counts(u))
        BY <1>3, <2>2 DEF TypeOK, Counts, Serving
      <3>2. body[u].proc \in Proc /\ body[u].lin \in Lineage
        BY <1>9, <3>1, BodyType
      <3>3. body[u].at <= clock
        BY <1>9, <3>1 DEF Cooling
      <3>4. ASSUME pc[u] = "peeked", states'[body[u].proc][body[u].lin] = NONE
            PROVE  Within(gone[body[u].lin], body[u].at, body[u].ttl)
        BY <1>2, <3>2, <3>4 DEF Cooling, SameKnown
      <3>5. ASSUME Counts(u)
            PROVE  body[u].ttl <= states'[body[u].proc][body[u].lin].ttl
        <4>1. body[u].ttl <= states[body[u].proc][body[u].lin].ttl /\ body[u].ttl \in Nat
          BY <1>9, <3>1, <3>5, Naturals DEF Cooling
        <4>2. CASE body[u].proc = p /\ body[u].lin = k
          BY <1>4, <1>6, <4>1, <4>2
        <4>3. CASE body[u].proc # p \/ body[u].lin # k
          BY <1>8, <3>2, <4>1, <4>3
        <4>4. QED
          BY <4>2, <4>3
      <3>6. QED
        BY <3>1, <3>3, <3>4, <3>5
    <2>3. QED
      BY <2>1, <2>2
  <1>10. ASSUME NEW q \in Proc, NEW j \in Lineage
         PROVE  /\ states'[q][j] = NONE => \A x \in TTL : Within(gone[j], clock, x)
                /\ states'[q][j] # NONE =>
                     /\ states'[q][j].last <= clock
                     /\ Within(gone[j], states'[q][j].last, states'[q][j].ttl)
    <2>1. CASE q = p /\ j = k
      BY <1>2, <1>6, <1>7, <2>1 DEF SameKnown
    <2>2. CASE q # p \/ j # k
      BY <1>8, <2>2 DEF Cooling
    <2>3. QED
      BY <2>1, <2>2
  <1>11. \A u \in Thread : Counts(u)' => pc'[u] # "idle"
    BY DEF Counts, Serving
  <1>12. QED
    BY <1>2, <1>9, <1>10, <1>11 DEF Cooling

\* A thread ends its request: the lineage is as warm as the clock says.
LEMMA CoolingFinish ==
  ASSUME OneWorker, TypeOK, Counted, Cooling, NEW t \in Thread, Finish(t)
  PROVE  Cooling'
  <1>1. /\ pc[t] \in {"ready", "sent", "shadow"} /\ Touch(body[t], -1)
        /\ gone' = gone \/ LastUse(t)
        /\ pc' = [pc EXCEPT ![t] = "idle"] /\ body' = [body EXCEPT ![t] = NONE]
        /\ clock' = clock
    BY DEF Finish, Reset
  <1>2. PICK p \in Proc, k \in Lineage : body[t].proc = p /\ body[t].lin = k /\ body[t] \in Body
    BY <1>1, BodyType
  <1>3. Counts(t) /\ states[p][k] # NONE
    BY <1>1, <1>2, CountsKnown DEF Counts, Serving
  <1>4. /\ ElsewhereSame(p, k) /\ SameKnown
        /\ states'[p][k].last = Later(states[p][k].last, clock)
        /\ states'[p][k].ttl = states[p][k].ttl
    BY <1>1, <1>2, <1>3, TouchEffect
  <1>5. /\ states[p][k].last \in Nat /\ states[p][k].ttl \in Nat /\ clock \in Nat
        /\ gone[k] \in Nat /\ body[t].ttl \in Nat
    BY <1>1, <1>3, Naturals
  <1>6. /\ states[p][k].last <= clock /\ body[t].ttl <= states[p][k].ttl
        /\ Within(gone[k], states[p][k].last, states[p][k].ttl)
    BY <1>2, <1>3 DEF Cooling
  <1>7. states'[p][k].last = clock
    BY <1>4, <1>5, <1>6 DEF Later
  <1>8. Within(gone[k], clock, states[p][k].ttl)
    BY <1>5, <1>6, WithinLater
  <1>9. Within(clock + body[t].ttl + Margin + 1, clock, states[p][k].ttl)
    BY <1>5, <1>6, ColdpointAssumption DEF Within
  <1>10. Within(gone'[k], clock, states[p][k].ttl)
    <2>1. CASE gone' = gone
      BY <1>8, <2>1
    <2>2. CASE LastUse(t)
      BY <1>2, <1>8, <1>9, <2>2, WithinBoth DEF LastUse, TypeOK
    <2>3. QED
      BY <1>1, <2>1, <2>2
  <1>11. \A j \in Lineage : j # k => gone'[j] = gone[j]
    BY <1>1, <1>2 DEF LastUse, TypeOK
  <1>12. ASSUME NEW q \in Proc, NEW j \in Lineage
         PROVE  /\ states'[q][j] = NONE => \A x \in TTL : Within(gone'[j], clock, x)
                /\ states'[q][j] # NONE =>
                     /\ states'[q][j].last <= clock
                     /\ Within(gone'[j], states'[q][j].last, states'[q][j].ttl)
    <2>1. CASE j = k
      <3>1. q = p
        BY DEF OneWorker
      <3>2. QED
        BY <1>3, <1>4, <1>5, <1>7, <1>10, <2>1, <3>1 DEF SameKnown
    <2>2. CASE j # k
      BY <1>4, <1>11, <2>2 DEF Cooling, ElsewhereSame
    <2>3. QED
      BY <2>1, <2>2
  <1>13. ASSUME NEW u \in Thread, pc'[u] # "idle"
         PROVE  /\ body'[u].at <= clock
                /\ Counts(u)' => body'[u].ttl <= states'[body'[u].proc][body'[u].lin].ttl
                /\ pc'[u] = "peeked" /\ states'[body'[u].proc][body'[u].lin] = NONE =>
                     Within(gone'[body'[u].lin], body'[u].at, body'[u].ttl)
    <2>1. /\ u # t /\ pc'[u] = pc[u] /\ body'[u] = body[u]
          /\ Counts(u)' <=> Counts(u)
      BY <1>1, <1>13 DEF TypeOK, Counts, Serving
    <2>2. body[u].proc \in Proc /\ body[u].lin \in Lineage
      BY <1>13, <2>1, BodyType
    <2>3. body[u].at <= clock
      BY <1>13, <2>1 DEF Cooling
    <2>4. ASSUME Counts(u)
          PROVE  body[u].ttl <= states'[body[u].proc][body[u].lin].ttl
      <3>1. body[u].ttl <= states[body[u].proc][body[u].lin].ttl
        BY <2>4 DEF Cooling
      <3>2. CASE body[u].proc = p /\ body[u].lin = k
        BY <1>4, <3>1, <3>2
      <3>3. CASE body[u].proc # p \/ body[u].lin # k
        BY <1>4, <2>2, <3>1, <3>3 DEF ElsewhereSame
      <3>4. QED
        BY <3>2, <3>3
    <2>5. ASSUME pc[u] = "peeked", states'[body[u].proc][body[u].lin] = NONE
          PROVE  Within(gone'[body[u].lin], body[u].at, body[u].ttl)
      <3>1. states[body[u].proc][body[u].lin] = NONE
        BY <1>4, <2>2, <2>5 DEF SameKnown
      <3>2. body[u].proc = p
        BY <2>2 DEF OneWorker
      <3>3. body[u].lin # k
        BY <1>3, <3>1, <3>2
      <3>4. QED
        BY <1>11, <2>2, <2>5, <3>1, <3>3 DEF Cooling
    <2>6. QED
      BY <2>1, <2>3, <2>4, <2>5
  <1>14. \A u \in Thread : Counts(u)' => pc'[u] # "idle"
    BY DEF Counts, Serving
  <1>15. QED
    BY <1>1, <1>12, <1>13, <1>14 DEF Cooling

\* The worker dies: what it had sent cools from now on.
LEMMA CoolingCrash ==
  ASSUME OneWorker, OneLifetime, NoAudit, TypeOK, Counted, Cooling, NEW p \in Proc, Crash(p)
  PROVE  Cooling'
  <1>1. /\ states' = [states EXCEPT ![p] = [k \in Lineage |-> NONE]]
        /\ pc' = [t \in Thread |-> IF pc[t] # "idle" /\ body[t].proc = p THEN "idle" ELSE pc[t]]
        /\ clock' = clock /\ CanCrash
    BY DEF Crash
  <1>2. \A q \in Proc, k \in Lineage : q = p /\ states'[q][k] = NONE
    BY <1>1 DEF OneWorker, TypeOK
  <1>3. \A t \in Thread : pc'[t] = "idle"
    BY <1>1, BodyType DEF OneWorker
  <1>4. ASSUME NEW k \in Lineage, NEW x \in TTL
        PROVE  Within(gone'[k], clock, x)
    <2>1. x \in Nat /\ clock \in Nat /\ gone[k] \in Nat
      BY Naturals
    <2>2. Within(gone[k], clock, x)
      <3>1. CASE states[p][k] = NONE
        BY <3>1 DEF Cooling
      <3>2. CASE states[p][k] # NONE
        <4>1. /\ states[p][k].last \in Nat /\ states[p][k].ttl \in Nat
              /\ states[p][k].ttl = x
          BY <1>1, <3>2, Naturals DEF OneLifetime
        <4>2. states[p][k].last <= clock /\ Within(gone[k], states[p][k].last, states[p][k].ttl)
          BY <3>2 DEF Cooling
        <4>3. x <= x
          BY <2>1
        <4>4. QED
          BY <2>1, <4>1, <4>2, <4>3, WithinLater
      <3>3. QED
        BY <3>1, <3>2
    <2>3. CASE gone'[k] = gone[k]
      BY <2>2, <2>3
    <2>4. ASSUME NEW t \in Thread, Live(t), body[t].proc = p, body[t].lin = k,
                 gone'[k] = clock + body[t].ttl + Margin + 1
          PROVE  Within(gone'[k], clock, x)
      <3>1. pc[t] # "idle"
        BY <2>4 DEF Live
      <3>2. body[t].ttl = x
        BY <1>1, <3>1, Naturals DEF OneLifetime
      <3>3. QED
        BY <2>1, <2>4, <3>2, ColdpointAssumption DEF Within
    <2>5. QED
      BY <2>3, <2>4, CrashGone
  <1>5. \A t \in Thread : ~Counts(t)'
    BY <1>3 DEF Counts, Serving
  <1>6. QED
    BY <1>1, <1>2, <1>3, <1>4, <1>5 DEF Cooling


LEMMA CoolingStep ==
  ASSUME OneWorker, OneLifetime, Roomy, ~CanAudit, ~CanFailOpen, NoAudit, TypeOK, Held, Counted, Cooling,
         [Next]_vars
  PROVE  Cooling'
  <1>0. TypeOK'
    BY TypeStep
  <1> DEFINE Placed == \A t \in Thread : Counts(t) => states[body[t].proc][body[t].lin] # NONE
             Follows == \A t \in Thread : pc'[t] # "idle" =>
                          \E u \in Thread : /\ pc[u] # "idle" /\ body'[t] = body[u]
                                            /\ Counts(t)' => Counts(u)
                                            /\ pc'[t] = "peeked" => pc[u] = "peeked"
             MovesOn == \A p \in Proc, k \in Lineage : states[p][k] # NONE =>
                          /\ states'[p][k].last >= states[p][k].last
                          /\ states'[p][k].last = states[p][k].last \/ states'[p][k].last <= clock
                          /\ states'[p][k].ttl = states[p][k].ttl
  <1>1. Placed
    BY CountsKnown
  <1>2. ASSUME states' = states PROVE SameKnown /\ MovesOn
    BY <1>2, Naturals DEF SameKnown
  <1>3. clock \in Nat
    BY DEF TypeOK
  <1>4. CASE UNCHANGED vars \/ Tick
    <2>1. /\ UNCHANGED <<states, pc, body, gone>> /\ clock' >= clock
      BY <1>3, <1>4 DEF vars, Tick
    <2>2. Follows
      BY <2>1 DEF Counts, Serving
    <2>3. QED
      BY <1>0, <1>1, <1>2, <2>1, <2>2, CoolingKept
  <1>5. ASSUME NEW t \in Thread, NEW p \in Proc, NEW k \in Lineage, NEW c \in Conv,
               NEW l \in Length, NEW x \in TTL,
               Arrive(t, [proc |-> p, lin |-> k, conv |-> c, len |-> l, ttl |-> x, at |-> clock])
        PROVE  Cooling'
    <2> DEFINE b == [proc |-> p, lin |-> k, conv |-> c, len |-> l, ttl |-> x, at |-> clock]
    <2>1. b \in Body /\ b.at = clock
      BY <1>3 DEF Body
    <2>2. QED
      BY <1>5, <2>1, CoolingArrive
  <1>6. ASSUME NEW t \in Thread, FirstSeen(t) PROVE Cooling'
    BY <1>6, CoolingFirstSeen
  <1>7. ASSUME NEW t \in Thread, NEW held \in BOOLEAN, NEW ext \in Extension,
               Decide(t, held, ext)
        PROVE  Cooling'
    BY <1>7, CoolingDecide
  <1>8. ASSUME NEW t \in Thread, Chooses(t) PROVE Cooling'
    <2>1. /\ SameKnown /\ UNCHANGED <<clock, body, gone>> /\ pc[t] = "choosing"
          /\ \E x \in {"ready", "persisting"} : pc' = [pc EXCEPT ![t] = x]
      BY <1>8, ChoosesEffect
    <2>2. ASSUME NEW p \in Proc, NEW k \in Lineage, states[p][k] # NONE
          PROVE  states'[p][k].last = states[p][k].last /\ states'[p][k].ttl = states[p][k].ttl
      BY <1>8, <2>2, ChoosesEffect DEF ElsewhereSame, StateOf
    <2>3. MovesOn
      BY <2>2, Naturals
    <2>4. Follows
      BY <2>1 DEF Counts, Serving, TypeOK
    <2>5. clock' >= clock
      BY <1>3, <2>1
    <2>6. QED
      BY <1>0, <1>1, <2>1, <2>3, <2>4, <2>5, CoolingKept
  <1>9. ASSUME NEW t \in Thread, PlanFails(t) \/ Persist(t) \/ Send(t) PROVE Cooling'
    <2>1. /\ UNCHANGED <<states, body, gone, clock>> /\ pc[t] \in {"persisting", "ready"}
          /\ \E x \in {"ready", "sent"} : pc' = [pc EXCEPT ![t] = x]
      BY <1>9 DEF PlanFails, Persist, Send
    <2>2. Follows
      BY <2>1 DEF Counts, Serving, TypeOK
    <2>3. clock' >= clock
      BY <1>3, <2>1
    <2>4. QED
      BY <1>0, <1>1, <1>2, <2>1, <2>2, <2>3, CoolingKept
  <1>10. ASSUME NEW t \in Thread, Finish(t) PROVE Cooling'
    BY <1>10, CoolingFinish
  <1>11. ASSUME NEW t \in Thread, NEW v \in Thread, StartShadow(t, v) PROVE Cooling'
    <2>1. /\ UNCHANGED <<clock, gone>> /\ pc[t] = "sent" /\ Touch(body[t], 1)
          /\ pc' = [pc EXCEPT ![v] = "shadow"] /\ body' = [body EXCEPT ![v] = body[t]]
      BY <1>11 DEF StartShadow, Spawn
    <2>2. PICK p \in Proc, k \in Lineage : body[t].proc = p /\ body[t].lin = k /\ body[t] \in Body
      BY <2>1, BodyType
    <2>3. Counts(t) /\ states[p][k] # NONE
      BY <2>1, <2>2, CountsKnown DEF Counts, Serving
    <2>4. /\ ElsewhereSame(p, k) /\ SameKnown
          /\ states'[p][k].last = Later(states[p][k].last, clock)
          /\ states'[p][k].ttl = states[p][k].ttl
      BY <2>1, <2>2, <2>3, TouchEffect
    <2>5. states[p][k].last \in Nat /\ states[p][k].last <= clock
      BY <2>3, Naturals DEF Cooling
    <2>6. states'[p][k].last = clock /\ clock >= states[p][k].last
      BY <1>3, <2>4, <2>5 DEF Later
    <2>7. ASSUME NEW q \in Proc, NEW j \in Lineage, states[q][j] # NONE
          PROVE  /\ states'[q][j].last >= states[q][j].last
                 /\ states'[q][j].last = states[q][j].last \/ states'[q][j].last <= clock
                 /\ states'[q][j].ttl = states[q][j].ttl
      <3>1. CASE q = p /\ j = k
        BY <1>3, <2>4, <2>6, <3>1
      <3>2. CASE q # p \/ j # k
        BY <2>4, <2>7, <3>2, Naturals DEF ElsewhereSame
      <3>3. QED
        BY <3>1, <3>2
    <2>8. ASSUME NEW w \in Thread, pc'[w] # "idle"
          PROVE  \E u \in Thread : /\ pc[u] # "idle" /\ body'[w] = body[u]
                                   /\ Counts(w)' => Counts(u)
                                   /\ pc'[w] = "peeked" => pc[u] = "peeked"
      <3>1. CASE w = v
        <4>1. body'[v] = body[t] /\ pc'[v] = "shadow"
          BY <2>1 DEF TypeOK
        <4>2. QED
          BY <2>1, <2>3, <3>1, <4>1
      <3>2. CASE w # v
        <4>1. body'[w] = body[w] /\ pc'[w] = pc[w] /\ (Counts(w)' <=> Counts(w))
          BY <2>1, <3>2 DEF TypeOK, Counts, Serving
        <4>2. QED
          BY <2>8, <4>1
      <3>3. QED
        BY <3>1, <3>2
    <2>9. clock' >= clock
      BY <1>3, <2>1
    <2>10. QED
      BY <1>0, <1>1, <2>1, <2>4, <2>7, <2>8, <2>9, CoolingKept
  <1>12. ASSUME NEW t \in Thread, NEW v \in Thread, StartUncounted(t, v) \/ EndUncounted(t)
         PROVE  Cooling'
    <2>1. CASE EndUncounted(t)
      BY <2>1 DEF EndUncounted, NoAudit, Absent
    <2>2. CASE StartUncounted(t, v)
      BY <2>2 DEF StartUncounted, NoAudit, Absent
    <2>3. QED
      BY <1>12, <2>1, <2>2
  <1>13. ASSUME NEW p \in Proc, Crash(p) PROVE Cooling'
    BY <1>13, CoolingCrash
  <1>14. QED
    BY <1>4, <1>5, <1>6, <1>7, <1>8, <1>9, <1>10, <1>11, <1>12, <1>13, NextWork
    DEF Work, Planned, Unplanned, Chooses

LEMMA CoolingInit == Init => NoAudit /\ Counted /\ Cooling
  <1>1. ASSUME Init, NEW p \in Proc, NEW k \in Lineage
        PROVE  states[p][k] = NONE /\ Open(p, k) = {}
    BY <1>1 DEF Init, Open, Counts, Serving
  <1>2. ASSUME Init, NEW k \in Lineage, NEW x \in TTL PROVE Within(gone[k], clock, x)
    <2>1. gone[k] = 0 /\ clock = 0 /\ x \in Nat /\ Margin \in Nat
      BY <1>2, ColdpointAssumption DEF Init
    <2>2. QED
      BY <2>1 DEF Within
  <1>3. ASSUME Init, NEW t \in Thread PROVE pc[t] = "idle" /\ ~Counts(t)
    BY <1>3 DEF Init, Counts, Serving
  <1>4. QED
    BY <1>1, <1>2, <1>3 DEF NoAudit, Absent, Counted, Cooling

\* A verdict is cold only when nothing of the lineage can be left in the cache.
LEMMA ColdIsExpired ==
  ASSUME OneWorker, TypeOK, NoAudit, Counted, Cooling, NEW t \in Thread, NEW held \in BOOLEAN,
         NEW ext \in Extension, Decide(t, held, ext), reason'[t] = "cold"
  PROVE  ~ProviderMayHold(body[t].lin)
  <1> DEFINE b == body[t]
             old == states[b.proc][b.lin]
             s == Updated(old, b)
  <1>1. /\ pc[t] = "peeked" /\ old # NONE /\ old \in State /\ b \in Body
        /\ reason' = [reason EXCEPT ![t] = Verdict(s, b, held, s.ttl + ext)]
    BY DecideEffect
  <1>2. DOMAIN reason = Thread /\ b.proc \in Proc /\ b.lin \in Lineage
    BY <1>1 DEF TypeOK, Body
  <1>3. Verdict(s, b, held, s.ttl + ext) = "cold"
    BY <1>1, <1>2
  <1>4. ~(s.inflight > 0) /\ b.at - s.last > s.ttl + ext + Margin
    BY <1>3 DEF Verdict
  <1>5. s.inflight = old.inflight /\ s.last = old.last /\ s.ttl = Later(old.ttl, b.ttl)
    BY <1>1, UpdatedEffect
  <1>6. /\ old.last \in Nat /\ old.ttl \in Nat /\ b.at \in Nat /\ b.ttl \in Nat
        /\ clock \in Nat /\ Margin \in Nat /\ ext \in Nat /\ gone[b.lin] \in Nat
    BY <1>1, <1>2, Naturals, ColdpointAssumption
  <1>7. b.at <= clock /\ Within(gone[b.lin], old.last, old.ttl)
    BY <1>1, <1>2 DEF Cooling
  <1>8. ~(clock < gone[b.lin])
    <2>1. s.ttl \in Nat /\ s.ttl >= old.ttl
      BY <1>5, <1>6 DEF Later
    <2>2. b.at - old.last > s.ttl + ext + Margin
      BY <1>4, <1>5
    <2>3. gone[b.lin] <= old.last + old.ttl + Margin + 1
      BY <1>7 DEF Within
    <2>4. QED
      BY <1>6, <1>7, <2>1, <2>2, <2>3
  <1>9. ASSUME NEW u \in Thread, Live(u), body[u].lin = b.lin PROVE FALSE
    <2>1. Counts(u)
      BY <1>9 DEF Live, NoAudit, Absent, Counts, Serving
    <2>2. body[u].proc = b.proc
      BY <1>2, <2>1, CountsKnown DEF OneWorker
    <2>3. u \in Open(b.proc, b.lin)
      BY <1>9, <2>1, <2>2 DEF Open
    <2>4. old.inflight = Cardinality(Open(b.proc, b.lin))
      BY <1>1, <1>2 DEF Counted
    <2>5. IsFiniteSet(Open(b.proc, b.lin)) /\ Cardinality(Open(b.proc, b.lin)) \in Nat
      BY <1>2, OpenFinite
    <2>6. Cardinality(Open(b.proc, b.lin)) # 0
      BY <2>3, <2>5, FS_EmptySet
    <2>7. QED
      BY <1>4, <1>5, <2>4, <2>5, <2>6
  <1>10. QED
    BY <1>8, <1>9 DEF ProviderMayHold

\* With one worker whose memory is large enough, no replaying audit, no request without a
\* plan, and no death that forgets a longer lifetime, a turn is called cold only when
\* nothing distil has in flight or has sent for the lineage can still be in the provider's
\* cache, however requests, shadow replays and the estimator's extensions interleave.
THEOREM SurelyExpired ==
  ASSUME OneWorker, OneLifetime, Roomy, ~CanAudit, ~CanFailOpen
  PROVE  Spec => ColdOnlyWhenExpired
  <1> DEFINE Expired == \A t \in Thread : BecomesCold(t) => ~ProviderMayHold(body[t].lin)
  <1>1. Init => NoAudit /\ Counted /\ Cooling
    BY CoolingInit
  <1>2. ASSUME TypeOK, NoAudit, Counted, Cooling, [Next]_vars, NEW t \in Thread, BecomesCold(t)
        PROVE  ~ProviderMayHold(body[t].lin)
    <2>1. PICK held \in BOOLEAN, ext \in Extension : Decide(t, held, ext)
      BY <1>2, ColdIsDecided
    <2>2. reason'[t] = "cold"
      BY <1>2 DEF BecomesCold
    <2>3. QED
      BY <1>2, <2>1, <2>2, ColdIsExpired
  <1>3. TypeOK /\ NoAudit /\ Counted /\ Cooling /\ [Next]_vars => [Expired]_vars
    BY <1>2
  <1>4. TypeOK /\ Held /\ NoAudit /\ Counted /\ Cooling /\ [Next]_vars
          => (NoAudit /\ Counted /\ Cooling)'
    BY NoAuditStep, CountedStep, CoolingStep
  <1>5. QED
    BY <1>1, <1>3, <1>4, Typed, PTL DEF Spec, ColdOnlyWhenExpired


-----------------------------------------------------------------------------
(* What was forwarded is on disk, on its way there, or lost.               *)

LEMMA WritingIs ==
  ASSUME NEW k \in Lineage
  PROVE  /\ \A x : x \in Writing(k) <=>
                     \E t \in Thread : pc[t] = "persisting" /\ body[t].lin = k /\ x \in evict[t]
         /\ \A x : x \in Writing(k)' <=>
                     \E t \in Thread : pc'[t] = "persisting" /\ body'[t].lin = k /\ x \in evict'[t]
  BY DEF Writing, Writers

\* A write that ends, fails or is cut leaves its ids recorded.
LEMMA RecordedGrows ==
  ASSUME TypeOK, Held, [Next]_vars, NEW k \in Lineage
  PROVE  Recorded(k) \subseteq Recorded(k)'
  <1> DEFINE Goal == Recorded(k) \subseteq Recorded(k)'
  <1>1. ASSUME disk[k] \subseteq disk'[k] \cup lost'[k], lost[k] \subseteq lost'[k],
               \A t \in Thread : pc[t] = "persisting" /\ body[t].lin = k =>
                 \/ pc'[t] = "persisting" /\ body'[t] = body[t] /\ evict'[t] = evict[t]
                 \/ evict[t] \subseteq disk'[k] \cup lost'[k]
        PROVE  Goal
    BY <1>1, WritingIs DEF Recorded
  <1>2. CASE UNCHANGED vars \/ Tick
    BY <1>1, <1>2 DEF vars, Tick
  <1>3. ASSUME NEW t \in Thread, Persist(t) PROVE Goal
    <2>1. /\ pc' = [pc EXCEPT ![t] = "ready"] /\ UNCHANGED <<body, evict>>
          /\ disk[k] \subseteq disk'[k] \cup lost'[k] /\ lost[k] \subseteq lost'[k]
          /\ body[t].lin = k => evict[t] \subseteq disk'[k] \cup lost'[k]
      BY <1>3, PersistEffect
    <2>2. QED
      BY <1>1, <2>1 DEF TypeOK
  <1>4. ASSUME NEW p \in Proc, Crash(p) PROVE Goal
    <2>1. /\ disk' = disk /\ lost[k] \subseteq lost'[k]
          /\ \A t \in Writers(k) : body[t].proc = p => evict[t] \subseteq disk[k] \cup lost'[k]
      BY <1>4, CrashLost DEF Crash
    <2>2. ASSUME NEW t \in Thread, body[t].proc # p \/ pc[t] = "idle"
          PROVE  pc'[t] = pc[t] /\ body'[t] = body[t] /\ evict'[t] = evict[t]
      BY <1>4, <2>2 DEF Crash
    <2>3. QED
      BY <1>1, <2>1, <2>2 DEF Writers
  <1> DEFINE Quiet == /\ disk' = disk /\ lost' = lost
                      /\ \A u \in Thread : pc[u] = "persisting" =>
                           pc'[u] = "persisting" /\ body'[u] = body[u] /\ evict'[u] = evict[u]
  <1>5. ASSUME NEW t \in Thread, Work(t), ~Persist(t) PROVE Quiet
    <2>1. ASSUME NEW b, Arrive(t, b) PROVE Quiet
      BY <2>1 DEF Arrive, TypeOK
    <2>2. CASE PlanFails(t)
      BY <2>2 DEF PlanFails, TypeOK
    <2>3. CASE FirstSeen(t)
      BY <2>3 DEF FirstSeen, TypeOK
    <2>4. ASSUME NEW held \in BOOLEAN, NEW ext \in Extension, Decide(t, held, ext) PROVE Quiet
      BY <2>4 DEF Decide, TypeOK
    <2>5. CASE Chooses(t)
      <3>1. /\ pc[t] = "choosing" /\ pc' = [pc EXCEPT ![t] = pc'[t]]
            /\ evict' = [evict EXCEPT ![t] = evict'[t]] /\ UNCHANGED <<disk, body, lost>>
        BY <2>5, ChoosesEffect
      <3>2. QED
        BY <3>1 DEF TypeOK
    <2>6. CASE Send(t)
      <3>1. /\ pc[t] = "ready" /\ pc' = [pc EXCEPT ![t] = "sent"]
            /\ evict' = [evict EXCEPT ![t] = evict'[t]] /\ UNCHANGED <<disk, body, lost>>
        BY <2>6, SendEffect
      <3>2. QED
        BY <3>1 DEF TypeOK
    <2>7. CASE Finish(t) \/ EndUncounted(t)
      BY <2>7 DEF Finish, EndUncounted, Reset, TypeOK
    <2>8. ASSUME NEW v \in Thread, StartShadow(t, v) \/ StartUncounted(t, v) PROVE Quiet
      BY <2>8 DEF StartShadow, StartUncounted, Spawn, TypeOK
    <2>9. QED
      BY <1>5, <2>1, <2>2, <2>3, <2>4, <2>5, <2>6, <2>7, <2>8
      DEF Work, Planned, Unplanned, Chooses
  <1>6. ASSUME NEW t \in Thread, Work(t) PROVE Goal
    BY <1>1, <1>3, <1>5, <1>6
  <1>7. QED
    BY <1>2, <1>4, <1>6, NextWork

\* The parts of Durable that say something about lineage k.
DurableOf(k) ==
  /\ wire[k] \subseteq Recorded(k)
  /\ \A p \in Proc : /\ cache[p][k] \subseteq Recorded(k)
                     /\ states[p][k] # NONE => states[p][k].evicted \subseteq Recorded(k)
  /\ \A t \in Thread : /\ pc[t] = "peeked" /\ body[t].lin = k => seen[t] \subseteq Recorded(k)
                       /\ Serving(t) /\ body[t].lin = k => evict[t] \subseteq Recorded(k)

\* A step that adds nothing to what is held, read and forwarded.
LEMMA DurableKept ==
  ASSUME NEW k \in Lineage, DurableOf(k), Recorded(k) \subseteq Recorded(k)', wire'[k] = wire[k],
         \A p \in Proc : /\ cache'[p][k] \subseteq cache[p][k] \cup Recorded(k)'
                         /\ states'[p][k] # NONE =>
                              states[p][k] # NONE /\ states'[p][k].evicted = states[p][k].evicted,
         \A t \in Thread :
           /\ pc'[t] = "peeked" => pc[t] = "peeked" /\ body'[t] = body[t] /\ seen'[t] = seen[t]
           /\ Serving(t)' => Serving(t) /\ body'[t] = body[t] /\ evict'[t] = evict[t]
  PROVE  DurableOf(k)'
  BY DEF DurableOf

LEMMA DurableStep ==
  ASSUME TypeOK, Held, Durable, [Next]_vars
  PROVE  Durable'
  <1> SUFFICES ASSUME NEW k \in Lineage PROVE DurableOf(k)'
    BY DEF Durable, DurableOf
  <1> DEFINE Peeking == \A t \in Thread :
               pc'[t] = "peeked" => pc[t] = "peeked" /\ body'[t] = body[t] /\ seen'[t] = seen[t]
             Serves == \A t \in Thread :
               Serving(t)' => Serving(t) /\ body'[t] = body[t] /\ evict'[t] = evict[t]
             SameSets == \A p \in Proc : states'[p][k] # NONE =>
               states[p][k] # NONE /\ states'[p][k].evicted = states[p][k].evicted
  <1>a. Recorded(k) \subseteq Recorded(k)' /\ disk[k] \subseteq Recorded(k)
    BY RecordedGrows DEF Recorded
  <1>b. DurableOf(k)
    BY DEF Durable, DurableOf
  <1>1. CASE UNCHANGED vars \/ Tick
    <2>1. UNCHANGED <<cache, states, pc, body, seen, evict, wire>>
      BY <1>1 DEF vars, Tick
    <2>2. QED
      BY <1>a, <1>b, <2>1, DurableKept DEF Serving
  <1>2. ASSUME NEW t \in Thread, NEW b \in Body, Arrive(t, b) PROVE DurableOf(k)'
    <2>1. /\ UNCHANGED <<states, evict, wire>>
          /\ pc' = [pc EXCEPT ![t] = "peeked"] /\ body' = [body EXCEPT ![t] = b]
      BY <1>2 DEF Arrive
    <2>2. \A p \in Proc : \A r \in Readings(p) : r[k] \subseteq Recorded(k)
      BY <1>a, <1>b DEF Readings, DurableOf
    <2>3. /\ \A p \in Proc : cache'[p][k] \subseteq Recorded(k)
          /\ b.lin = k => seen'[t] \subseteq Recorded(k)
          /\ \A u \in Thread : u # t => seen'[u] = seen[u]
      <3>1. CASE states[b.proc][b.lin] = NONE
        <4>1. PICK r \in Readings(b.proc) :
                seen' = [seen EXCEPT ![t] = Persisted(r, b.lin)] /\ Remember(b.proc, r)
          BY <1>2, <3>1 DEF Arrive
        <4>2. b.proc \in Proc
          BY DEF Body
        <4>3. r[k] \subseteq Recorded(k)
          BY <2>2, <4>2
        <4>4. \A p \in Proc : cache'[p] = cache[p] \/ cache'[p] = r
          BY <4>1, <4>2 DEF Remember, TypeOK
        <4>5. \A p \in Proc : cache[p][k] \subseteq Recorded(k)
          BY <1>b DEF DurableOf
        <4>6. QED
          BY <4>1, <4>3, <4>4, <4>5 DEF Persisted, TypeOK
      <3>2. CASE states[b.proc][b.lin] # NONE
        BY <1>2, <1>b, <3>2 DEF Arrive, DurableOf, TypeOK
      <3>3. QED
        BY <3>1, <3>2
    <2>4. /\ pc'[t] = "peeked" /\ body'[t] = b /\ ~Serving(t)'
          /\ \A u \in Thread : u # t =>
               pc'[u] = pc[u] /\ body'[u] = body[u] /\ (Serving(u)' <=> Serving(u))
      BY <2>1 DEF Serving, TypeOK
    <2>5. ASSUME NEW u \in Thread
          PROVE  /\ pc'[u] = "peeked" /\ body'[u].lin = k => seen'[u] \subseteq Recorded(k)
                 /\ Serving(u)' /\ body'[u].lin = k => evict'[u] \subseteq Recorded(k)
      <3>1. CASE u = t
        BY <2>3, <2>4, <3>1
      <3>2. CASE u # t
        BY <1>b, <2>1, <2>3, <2>4, <3>2 DEF DurableOf
      <3>3. QED
        BY <3>1, <3>2
    <2>6. QED
      BY <1>a, <1>b, <2>1, <2>3, <2>5 DEF DurableOf
  <1>3. ASSUME NEW t \in Thread, FirstSeen(t) PROVE DurableOf(k)'
    <2>1. PICK p \in Proc, j \in Lineage : body[t].proc = p /\ body[t].lin = j
      BY <1>3, FirstSeenEffect, BodyType
    <2>2. /\ pc[t] = "peeked" /\ states'[p][j].evicted = seen[t]
          /\ \A i \in Lineage : i # j => states'[p][i] = NONE \/ states'[p][i] = states[p][i]
          /\ \A q \in Proc : q # p => states'[q] = states[q]
      <3>1. /\ pc[t] = "peeked" /\ states'[p][j] = NewState(body[t], seen[t])
            /\ \A i \in Lineage : i # j =>
                 states'[p][i] = IF i \in Dropped(p, j) THEN NONE ELSE states[p][i]
            /\ \A q \in Proc : q # p => states'[q] = states[q]
        BY <1>3, <2>1, FirstSeenEffect
      <3>2. NewState(body[t], seen[t]).evicted = seen[t]
        BY DEF NewState
      <3>3. QED
        BY <3>1, <3>2
    <2>3. /\ UNCHANGED <<cache, body, wire>> /\ pc' = [pc EXCEPT ![t] = "ready"]
          /\ evict' = [evict EXCEPT ![t] = seen[t]] /\ seen' = [seen EXCEPT ![t] = {}]
      BY <1>3 DEF FirstSeen
    <2>4. j = k => seen[t] \subseteq Recorded(k)
      BY <1>b, <2>1, <2>2 DEF DurableOf
    <2>5. ASSUME NEW q \in Proc, states'[q][k] # NONE
          PROVE  states'[q][k].evicted \subseteq Recorded(k)
      BY <1>b, <2>2, <2>4, <2>5 DEF DurableOf
    <2>6. ASSUME NEW u \in Thread
          PROVE  /\ pc'[u] = "peeked" /\ body'[u].lin = k => seen'[u] \subseteq Recorded(k)
                 /\ Serving(u)' /\ body'[u].lin = k => evict'[u] \subseteq Recorded(k)
      <3>1. CASE u = t
        BY <2>1, <2>3, <2>4, <3>1 DEF TypeOK
      <3>2. CASE u # t
        BY <1>b, <2>3, <3>2 DEF DurableOf, Serving, TypeOK
      <3>3. QED
        BY <3>1, <3>2
    <2>7. QED
      BY <1>a, <1>b, <2>3, <2>5, <2>6 DEF DurableOf
  <1>4. ASSUME NEW t \in Thread, NEW held \in BOOLEAN, NEW ext \in Extension,
               Decide(t, held, ext)
        PROVE  DurableOf(k)'
    <2>1. PICK p \in Proc, j \in Lineage : body[t].proc = p /\ body[t].lin = j
      BY <1>4, DecideEffect, BodyType
    <2>2. /\ pc[t] = "peeked" /\ states[p][j] # NONE
          /\ states'[p][j].evicted = states[p][j].evicted
          /\ ElsewhereSame(p, j) /\ SameKnown
          /\ evict' = [evict EXCEPT ![t] = states[p][j].evicted]
          /\ UNCHANGED <<cache, body, wire>>
      BY <1>4, <2>1, DecideEffect
    <2>3. /\ seen' = [seen EXCEPT ![t] = {}]
          /\ \E x \in {"choosing", "ready"} : pc' = [pc EXCEPT ![t] = x]
      BY <1>4 DEF Decide
    <2>4. SameSets
      BY <2>2 DEF ElsewhereSame, SameKnown
    <2>5. ASSUME NEW u \in Thread
          PROVE  /\ pc'[u] = "peeked" /\ body'[u].lin = k => seen'[u] \subseteq Recorded(k)
                 /\ Serving(u)' /\ body'[u].lin = k => evict'[u] \subseteq Recorded(k)
      <3>1. CASE u = t
        BY <1>b, <2>1, <2>2, <2>3, <3>1 DEF DurableOf, TypeOK
      <3>2. CASE u # t
        BY <1>b, <2>2, <2>3, <3>2 DEF DurableOf, Serving, TypeOK
      <3>3. QED
        BY <3>1, <3>2
    <2>6. QED
      BY <1>a, <1>b, <2>2, <2>4, <2>5 DEF DurableOf
  <1>5. ASSUME NEW t \in Thread, Chooses(t) PROVE DurableOf(k)'
    <2>1. PICK p \in Proc, j \in Lineage : body[t].proc = p /\ body[t].lin = j
      BY <1>5, ChoosesEffect, BodyType
    <2>2. /\ pc[t] = "choosing" /\ pc'[t] \in {"ready", "persisting"}
          /\ pc'[t] = "ready" => evict'[t] = Evicted(t)
          /\ pc' = [pc EXCEPT ![t] = pc'[t]] /\ evict' = [evict EXCEPT ![t] = evict'[t]]
          /\ UNCHANGED <<cache, body, seen, wire>>
          /\ ElsewhereSame(p, j) /\ SameKnown
          /\ orphan[t] => states' = states
          /\ ~orphan[t] => StateOf(t) # NONE /\ states'[p][j].evicted = evict'[t]
      BY <1>5, <2>1, ChoosesEffect
    <2>3. ASSUME j = k PROVE Evicted(t) \subseteq Recorded(k)
      BY <1>b, <2>1, <2>2, <2>3 DEF Evicted, DurableOf, Serving, StateOf
    <2>4. ASSUME j = k PROVE evict'[t] \subseteq Recorded(k)'
      <3>1. CASE pc'[t] = "ready"
        BY <1>a, <2>2, <2>3, <2>4, <3>1
      <3>2. CASE pc'[t] = "persisting"
        BY <2>1, <2>2, <2>4, <3>2, WritingIs DEF Recorded
      <3>3. QED
        BY <2>2, <3>1, <3>2
    <2>5. ASSUME NEW q \in Proc, states'[q][k] # NONE
          PROVE  states'[q][k].evicted \subseteq Recorded(k)'
      <3>1. states[q][k] # NONE
        BY <2>2, <2>5 DEF SameKnown
      <3>2. CASE q = p /\ j = k /\ ~orphan[t]
        BY <2>2, <2>4, <3>2
      <3>3. CASE q # p \/ j # k \/ orphan[t]
        BY <1>a, <1>b, <2>2, <3>1, <3>3 DEF DurableOf, ElsewhereSame
      <3>4. QED
        BY <3>2, <3>3
    <2>6. ASSUME NEW u \in Thread
          PROVE  /\ pc'[u] = "peeked" /\ body'[u].lin = k => seen'[u] \subseteq Recorded(k)'
                 /\ Serving(u)' /\ body'[u].lin = k => evict'[u] \subseteq Recorded(k)'
      <3>1. CASE u = t
        BY <2>1, <2>2, <2>4, <3>1
      <3>2. CASE u # t
        BY <1>a, <1>b, <2>2, <3>2 DEF DurableOf, Serving, TypeOK
      <3>3. QED
        BY <3>1, <3>2
    <2>7. QED
      BY <1>a, <1>b, <2>2, <2>5, <2>6 DEF DurableOf
  <1>6. ASSUME NEW t \in Thread, Persist(t) PROVE DurableOf(k)'
    <2>1. /\ UNCHANGED <<states, body, seen, evict, wire>>
          /\ pc[t] = "persisting" /\ pc' = [pc EXCEPT ![t] = "ready"]
          /\ \A q \in Proc : cache'[q][k] \subseteq cache[q][k] \cup disk'[k] \cup lost'[k]
      BY <1>6, PersistEffect
    <2>2. Peeking /\ Serves
      BY <2>1 DEF Serving, TypeOK
    <2>3. disk'[k] \cup lost'[k] \subseteq Recorded(k)'
      BY DEF Recorded
    <2>4. \A q \in Proc : cache'[q][k] \subseteq cache[q][k] \cup Recorded(k)'
      BY <2>1, <2>3
    <2>5. QED
      BY <1>a, <1>b, <2>1, <2>2, <2>4, DurableKept
  <1>7. ASSUME NEW t \in Thread, Send(t) PROVE DurableOf(k)'
    <2>1. /\ pc[t] = "ready" /\ pc' = [pc EXCEPT ![t] = "sent"]
          /\ evict'[t] \subseteq evict[t] /\ evict' = [evict EXCEPT ![t] = evict'[t]]
          /\ wire' = [wire EXCEPT ![body[t].lin] = @ \cup evict'[t]]
          /\ UNCHANGED <<cache, states, body, seen>>
      BY <1>7, SendEffect
    <2>2. body[t].lin \in Lineage
      BY <2>1, BodyType
    <2>3. body[t].lin = k => evict[t] \subseteq Recorded(k)
      BY <1>b, <2>1 DEF DurableOf, Serving
    <2>4. wire'[k] \subseteq Recorded(k)
      <3>1. CASE body[t].lin = k
        BY <1>b, <2>1, <2>3, <3>1 DEF DurableOf, TypeOK
      <3>2. CASE body[t].lin # k
        BY <1>b, <2>1, <3>2 DEF DurableOf, TypeOK
      <3>3. QED
        BY <3>1, <3>2
    <2>5. ASSUME NEW u \in Thread
          PROVE  /\ pc'[u] = "peeked" /\ body'[u].lin = k => seen'[u] \subseteq Recorded(k)
                 /\ Serving(u)' /\ body'[u].lin = k => evict'[u] \subseteq Recorded(k)
      <3>1. CASE u = t
        BY <2>1, <2>3, <3>1 DEF TypeOK
      <3>2. CASE u # t
        BY <1>b, <2>1, <3>2 DEF DurableOf, Serving, TypeOK
      <3>3. QED
        BY <3>1, <3>2
    <2>6. QED
      BY <1>a, <1>b, <2>1, <2>4, <2>5 DEF DurableOf
  <1>8. ASSUME NEW t \in Thread, PlanFails(t) PROVE DurableOf(k)'
    <2>1. /\ UNCHANGED <<cache, states, body, evict, wire>> /\ seen' = [seen EXCEPT ![t] = {}]
          /\ pc' = [pc EXCEPT ![t] = "bare"]
      BY <1>8 DEF PlanFails
    <2>2. Peeking /\ Serves
      BY <2>1 DEF Serving, TypeOK
    <2>3. QED
      BY <1>a, <1>b, <2>1, <2>2, DurableKept
  <1>9. ASSUME NEW b \in Body, NEW delta \in {-1, 1}, Touch(b, delta) PROVE SameSets
    <2>1. PICK p \in Proc, j \in Lineage : b.proc = p /\ b.lin = j
      BY DEF Body
    <2>2. /\ ElsewhereSame(p, j) /\ SameKnown
          /\ states[p][j] # NONE => states'[p][j].evicted = states[p][j].evicted
      BY <1>9, <2>1, TouchEffect
    <2>3. QED
      BY <2>2 DEF ElsewhereSame, SameKnown
  <1>10. ASSUME NEW t \in Thread, Finish(t) \/ EndUncounted(t) PROVE DurableOf(k)'
    <2>1. /\ UNCHANGED <<cache, seen, wire>> /\ pc[t] \in {"ready", "sent", "shadow", "audit", "bare"}
          /\ pc' = [pc EXCEPT ![t] = "idle"] /\ body' = [body EXCEPT ![t] = NONE]
          /\ evict' = [evict EXCEPT ![t] = {}]
          /\ Touch(body[t], -1) \/ states' = states
      BY <1>10 DEF Finish, EndUncounted, Reset
    <2>2. body[t] \in Body
      BY <2>1, BodyType
    <2>3. SameSets
      BY <1>9, <2>1, <2>2
    <2>4. Peeking /\ Serves
      BY <2>1 DEF TypeOK, Serving
    <2>5. QED
      BY <1>a, <1>b, <2>1, <2>3, <2>4, DurableKept
  <1>11. ASSUME NEW t \in Thread, NEW v \in Thread, StartShadow(t, v) \/ StartUncounted(t, v)
         PROVE  DurableOf(k)'
    <2>1. /\ UNCHANGED <<cache, seen, evict, wire>> /\ pc[t] \in {"sent", "bare"} /\ pc[v] = "idle"
          /\ \E x \in {"shadow", "audit", "bare"} : pc' = [pc EXCEPT ![v] = x]
          /\ body' = [body EXCEPT ![v] = body[t]]
          /\ Touch(body[t], 1) \/ states' = states
      BY <1>11 DEF StartShadow, StartUncounted, Spawn
    <2>2. body[t] \in Body
      BY <2>1, BodyType
    <2>3. SameSets
      BY <1>9, <2>1, <2>2
    <2>4. Peeking /\ Serves
      BY <2>1 DEF TypeOK, Serving
    <2>5. QED
      BY <1>a, <1>b, <2>1, <2>3, <2>4, DurableKept
  <1>12. ASSUME NEW p \in Proc, Crash(p) PROVE DurableOf(k)'
    <2>1. /\ states' = [states EXCEPT ![p] = [j \in Lineage |-> NONE]]
          /\ cache' = [cache EXCEPT ![p] = [j \in Lineage |-> {}]] /\ wire' = wire
      BY <1>12 DEF Crash
    <2>2. Peeking /\ Serves
      BY <1>12 DEF Crash, Serving
    <2>3. \A q \in Proc : cache'[q][k] \subseteq cache[q][k] /\ (states'[q][k] # NONE => states'[q] = states[q])
      BY <2>1 DEF TypeOK
    <2>4. QED
      BY <1>a, <1>b, <2>1, <2>2, <2>3, DurableKept
  <1>13. ASSUME NEW t \in Thread, Work(t) PROVE DurableOf(k)'
    <2>1. ASSUME NEW p \in Proc, NEW j \in Lineage, NEW c \in Conv, NEW l \in Length, NEW x \in TTL
          PROVE  [proc |-> p, lin |-> j, conv |-> c, len |-> l, ttl |-> x, at |-> clock] \in Body
      BY DEF Body, TypeOK
    <2>2. QED
      BY <1>2, <1>3, <1>4, <1>5, <1>6, <1>7, <1>8, <1>10, <1>11, <1>13, <2>1
      DEF Work, Planned, Unplanned, Chooses
  <1>14. QED
    BY <1>1, <1>12, <1>13, NextWork

LEMMA DurableInit == Init => Durable
  <1>1. ASSUME Init, NEW k \in Lineage
        PROVE  /\ wire[k] = {} /\ \A p \in Proc : cache[p][k] = {} /\ states[p][k] = NONE
               /\ \A t \in Thread : pc[t] = "idle" /\ ~Serving(t)
    BY <1>1 DEF Init, Serving
  <1>2. QED
    BY <1>1 DEF Durable

\* Whatever workers, threads and lineages there are, however writes and reads of the
\* file fail and workers die: a stub that went out is in coldpoint.json or in a write
\* under way, unless its own record failed, was cut by a death or was undone.
THEOREM WireDurable == Spec => []WireIsDurable
  <1>1. TypeOK /\ Held /\ Durable /\ [Next]_vars => Durable'
    BY DurableStep
  <1>2. Durable => WireIsDurable
    BY DEF Durable, WireIsDurable
  <1>3. QED
    BY <1>1, <1>2, DurableInit, Typed, PTL DEF Spec

NothingLost == lost = [k \in Lineage |-> {}]

LEMMA NothingLostStep ==
  ASSUME ~CanCrash, ~CanFail, ~CanMisread, NothingLost, [Next]_vars
  PROVE  NothingLost'
  <1>1. ASSUME NEW t \in Thread, Persist(t) PROVE lost' = lost
    <2>1. PICK r \in Readings(body[t].proc) : Saved(t, r) \/ NotSaved(t, r)
      BY <1>1 DEF Persist
    <2>2. r = disk /\ Saved(t, r)
      BY <2>1 DEF Readings, NotSaved
    <2>3. QED
      BY <2>2 DEF Saved
  <1>2. ASSUME NEW t \in Thread, Work(t), ~Persist(t) PROVE lost' = lost
    <2>1. ASSUME NEW b, Arrive(t, b) PROVE lost' = lost
      BY <2>1 DEF Arrive
    <2>2. CASE PlanFails(t) \/ FirstSeen(t) \/ Send(t)
      BY <2>2 DEF PlanFails, FirstSeen, Send
    <2>3. ASSUME NEW held \in BOOLEAN, NEW ext \in Extension, Decide(t, held, ext) PROVE lost' = lost
      BY <2>3 DEF Decide
    <2>4. ASSUME NEW fresh \in SUBSET Id, Commit(t, fresh) \/ Defer(t) PROVE lost' = lost
      BY <2>4 DEF Commit, Defer
    <2>5. CASE Finish(t) \/ EndUncounted(t)
      BY <2>5 DEF Finish, EndUncounted, Reset
    <2>6. ASSUME NEW u \in Thread, StartShadow(t, u) \/ StartUncounted(t, u) PROVE lost' = lost
      BY <2>6 DEF StartShadow, StartUncounted, Spawn
    <2>7. QED
      BY <1>2, <2>1, <2>2, <2>3, <2>4, <2>5, <2>6 DEF Work, Planned, Unplanned
  <1>3. ASSUME Tick \/ UNCHANGED vars PROVE lost' = lost
    BY <1>3 DEF Tick, vars
  <1>4. ASSUME NEW p \in Proc PROVE ~Crash(p)
    BY DEF Crash
  <1>5. QED
    BY <1>1, <1>2, <1>3, <1>4, NextWork DEF NothingLost

\* Where no worker dies and every access to coldpoint.json succeeds, _persist's doc holds to
\* the letter: what is on the wire is in the file or in a write under way.
THEOREM WireOutlives ==
  ASSUME ~CanCrash, ~CanFail, ~CanMisread
  PROVE  Spec => []WireOutlivesWorker
  <1>1. Init => NothingLost
    BY DEF Init, NothingLost
  <1>2. NothingLost /\ [Next]_vars => NothingLost'
    BY NothingLostStep
  <1>3. NothingLost /\ WireIsDurable => WireOutlivesWorker
    BY DEF NothingLost, WireIsDurable, WireOutlivesWorker, Recorded
  <1>4. QED
    BY <1>1, <1>2, <1>3, WireDurable, PTL DEF Spec

-----------------------------------------------------------------------------
(* What is on the wire stays evicted.                                      *)

NoOrphan == \A t \in Thread : ~orphan[t]

LEMMA NoOrphanStep ==
  ASSUME Roomy, TypeOK, Held, NoOrphan, [Next]_vars
  PROVE  NoOrphan'
  <1>1. ASSUME NEW t \in Thread, FirstSeen(t) PROVE NoOrphan'
    BY <1>1, FirstSeenAlone DEF NoOrphan
  <1>2. ASSUME NEW t \in Thread, Chooses(t) PROVE NoOrphan'
    <2>1. orphan' = [orphan EXCEPT ![t] = FALSE]
      BY <1>2, ChoosesEffect
    <2>2. QED
      BY <2>1 DEF NoOrphan, TypeOK
  <1>3. ASSUME NEW p \in Proc, Crash(p) PROVE NoOrphan'
    BY <1>3 DEF Crash, NoOrphan
  <1>4. ASSUME NEW t \in Thread, Work(t), ~FirstSeen(t), ~Chooses(t) PROVE orphan' = orphan
    <2>1. ASSUME NEW b, Arrive(t, b) PROVE orphan' = orphan
      BY <2>1 DEF Arrive
    <2>2. ASSUME NEW held \in BOOLEAN, NEW ext \in Extension, Decide(t, held, ext)
          PROVE  orphan' = orphan
      BY <2>2 DEF Decide
    <2>3. CASE PlanFails(t) \/ Persist(t) \/ Send(t)
      BY <2>3 DEF PlanFails, Persist, Send
    <2>4. CASE Finish(t) \/ EndUncounted(t)
      BY <2>4 DEF Finish, EndUncounted, Reset
    <2>5. ASSUME NEW u \in Thread, StartShadow(t, u) \/ StartUncounted(t, u)
          PROVE  orphan' = orphan
      BY <2>5 DEF StartShadow, StartUncounted, Spawn
    <2>6. QED
      BY <1>4, <2>1, <2>2, <2>3, <2>4, <2>5 DEF Work, Planned, Unplanned, Chooses
  <1>5. QED
    BY <1>1, <1>2, <1>3, <1>4, NextWork DEF Tick, NoOrphan, vars

LEMMA ServingKnown ==
  ASSUME TypeOK, Counted, NEW t \in Thread, Serving(t)
  PROVE  /\ pc[t] # "idle" /\ body[t].proc \in Proc /\ body[t].lin \in Lineage
         /\ states[body[t].proc][body[t].lin] # NONE
  BY CountsKnown DEF Counts

\* Steps that send nothing and start nothing; sets may grow.
LEMMA KeptKept ==
  ASSUME TypeOK, Counted, Kept, SameKnown, wire' = wire,
         \A k \in Lineage : disk[k] \subseteq disk'[k] /\ lost[k] \subseteq lost'[k],
         \A p \in Proc, k \in Lineage : states[p][k] # NONE =>
           states[p][k].evicted \subseteq states'[p][k].evicted,
         \A t \in Thread : pc'[t] = "peeked" =>
           pc[t] = "peeked" /\ body'[t] = body[t] /\ floor'[t] = floor[t] /\ seen'[t] = seen[t],
         \A t \in Thread : Serving(t)' =>
           Serving(t) /\ body'[t] = body[t] /\ floor'[t] = floor[t] /\ evict'[t] = evict[t]
  PROVE  Kept'
  <1>1. ASSUME NEW p \in Proc, NEW k \in Lineage
        PROVE  wire'[k] \ lost'[k] \subseteq IF states'[p][k] = NONE THEN disk'[k] ELSE states'[p][k].evicted
    <2>1. wire[k] \ lost[k] \subseteq IF states[p][k] = NONE THEN disk[k] ELSE states[p][k].evicted
      BY DEF Kept
    <2>2. CASE states[p][k] = NONE
      BY <2>1, <2>2 DEF SameKnown
    <2>3. CASE states[p][k] # NONE
      BY <2>1, <2>3 DEF SameKnown
    <2>4. QED
      BY <2>2, <2>3
  <1>2. ASSUME NEW t \in Thread, pc'[t] = "peeked"
        PROVE  /\ floor'[t] \subseteq wire'[body'[t].lin]
               /\ states'[body'[t].proc][body'[t].lin] = NONE => wire'[body'[t].lin] \ lost'[body'[t].lin] \subseteq seen'[t]
    <2>1. pc[t] = "peeked" /\ body'[t] = body[t] /\ floor'[t] = floor[t] /\ seen'[t] = seen[t]
      BY <1>2
    <2>2. body[t].proc \in Proc /\ body[t].lin \in Lineage
      BY <2>1, BodyType
    <2>3. QED
      BY <2>1, <2>2 DEF Kept, SameKnown
  <1>3. ASSUME NEW t \in Thread, Serving(t)'
        PROVE  /\ Owed(t)' \subseteq evict'[t]
               /\ evict'[t] \subseteq states'[body'[t].proc][body'[t].lin].evicted
    <2>1. Serving(t) /\ body'[t] = body[t] /\ floor'[t] = floor[t] /\ evict'[t] = evict[t]
      BY <1>3
    <2>2. /\ body[t].proc \in Proc /\ body[t].lin \in Lineage
          /\ states[body[t].proc][body[t].lin] # NONE
      BY <2>1, ServingKnown
    <2>3. Owed(t) \subseteq evict[t] /\ evict[t] \subseteq states[body[t].proc][body[t].lin].evicted
      BY <2>1 DEF Kept
    <2>4. Owed(t)' \subseteq Owed(t)
      BY <2>1, <2>2 DEF Owed
    <2>5. QED
      BY <2>1, <2>2, <2>3, <2>4
  <1>4. QED
    BY <1>1, <1>2, <1>3 DEF Kept

LEMMA KeptArrive ==
  ASSUME ~CanMisread, TypeOK, Kept, NEW t \in Thread, NEW b \in Body, Arrive(t, b)
  PROVE  Kept'
  <1>1. /\ UNCHANGED <<states, disk, wire, evict, lost>>
        /\ pc' = [pc EXCEPT ![t] = "peeked"] /\ body' = [body EXCEPT ![t] = b]
        /\ floor' = [floor EXCEPT ![t] = wire[b.lin]]
    BY DEF Arrive
  <1>2. b.proc \in Proc /\ b.lin \in Lineage
    BY DEF Body
  <1>3. /\ states[b.proc][b.lin] = NONE => seen'[t] = disk[b.lin]
        /\ \A u \in Thread : u # t => seen'[u] = seen[u]
    BY DEF Arrive, Readings, Persisted, TypeOK
  <1>4. /\ pc'[t] = "peeked" /\ body'[t] = b /\ ~Serving(t)' /\ floor'[t] = wire[b.lin]
        /\ \A u \in Thread : u # t => /\ pc'[u] = pc[u] /\ body'[u] = body[u]
                                      /\ floor'[u] = floor[u] /\ (Serving(u)' <=> Serving(u))
    BY <1>1 DEF TypeOK, Serving
  <1>5. ASSUME NEW p \in Proc, NEW k \in Lineage
        PROVE  wire'[k] \ lost'[k] \subseteq
                 IF states'[p][k] = NONE THEN disk'[k] ELSE states'[p][k].evicted
    BY <1>1 DEF Kept
  <1>6. ASSUME NEW u \in Thread, pc'[u] = "peeked"
        PROVE  /\ floor'[u] \subseteq wire'[body'[u].lin]
               /\ states'[body'[u].proc][body'[u].lin] = NONE =>
                    wire'[body'[u].lin] \ lost'[body'[u].lin] \subseteq seen'[u]
    <2>1. CASE u = t
      BY <1>1, <1>2, <1>3, <1>4, <2>1 DEF Kept
    <2>2. CASE u # t
      BY <1>1, <1>3, <1>4, <1>6, <2>2 DEF Kept
    <2>3. QED
      BY <2>1, <2>2
  <1>7. ASSUME NEW u \in Thread, Serving(u)'
        PROVE  /\ Owed(u)' \subseteq evict'[u]
               /\ evict'[u] \subseteq states'[body'[u].proc][body'[u].lin].evicted
    <2>1. u # t /\ Serving(u) /\ Owed(u)' = Owed(u)
      BY <1>1, <1>4, <1>7 DEF Owed
    <2>2. QED
      BY <1>1, <1>4, <2>1 DEF Kept
  <1>8. QED
    BY <1>5, <1>6, <1>7 DEF Kept

\* A thread enters service with the lineage's whole set, which holds the wire.
LEMMA KeptServe ==
  ASSUME TypeOK, Counted, Kept, NEW t \in Thread, pc[t] = "peeked", Serving(t)',
         UNCHANGED <<disk, body, wire, floor, lost>>,
         NEW p \in Proc, NEW k \in Lineage, body[t].proc = p, body[t].lin = k,
         ElsewhereSame(p, k), states'[p][k] # NONE,
         states[p][k] # NONE => states'[p][k].evicted = states[p][k].evicted,
         states[p][k] = NONE => states'[p][k].evicted = seen[t],
         evict' = [evict EXCEPT ![t] = states'[p][k].evicted],
         \A u \in Thread : u # t => pc'[u] = pc[u] /\ seen'[u] = seen[u]
  PROVE  Kept'
  <1>1. wire[k] \ lost[k] \subseteq states'[p][k].evicted /\ floor[t] \subseteq wire[k]
    BY DEF Kept
  <1>2. ASSUME NEW q \in Proc, NEW j \in Lineage
        PROVE  wire'[j] \ lost'[j] \subseteq IF states'[q][j] = NONE THEN disk'[j] ELSE states'[q][j].evicted
    <2>1. CASE q = p /\ j = k
      BY <1>1, <2>1
    <2>2. CASE q # p \/ j # k
      BY <2>2 DEF Kept, ElsewhereSame
    <2>3. QED
      BY <2>1, <2>2
  <1>3. pc'[t] # "peeked" /\ evict'[t] = states'[p][k].evicted
    BY DEF Serving, TypeOK
  <1>4. ASSUME NEW u \in Thread, pc'[u] = "peeked"
        PROVE  /\ floor'[u] \subseteq wire'[body'[u].lin]
               /\ states'[body'[u].proc][body'[u].lin] = NONE => wire'[body'[u].lin] \ lost'[body'[u].lin] \subseteq seen'[u]
    <2>1. u # t /\ pc[u] = "peeked" /\ seen'[u] = seen[u]
      BY <1>3, <1>4
    <2>2. body[u].proc \in Proc /\ body[u].lin \in Lineage
      BY <2>1, BodyType
    <2>3. states'[body[u].proc][body[u].lin] = NONE => states[body[u].proc][body[u].lin] = NONE
      BY <2>2 DEF ElsewhereSame
    <2>4. QED
      BY <2>1, <2>3 DEF Kept
  <1>5. ASSUME NEW u \in Thread, Serving(u)'
        PROVE  /\ Owed(u)' \subseteq evict'[u]
               /\ evict'[u] \subseteq states'[body'[u].proc][body'[u].lin].evicted
    <2>1. CASE u = t
      BY <1>1, <1>3, <2>1 DEF Owed
    <2>2. CASE u # t
      <3>1. Serving(u) /\ evict'[u] = evict[u] /\ Owed(u)' = Owed(u)
        BY <1>5, <2>2 DEF Serving, TypeOK, Owed
      <3>2. /\ body[u].proc \in Proc /\ body[u].lin \in Lineage
            /\ states[body[u].proc][body[u].lin] # NONE
        BY <3>1, ServingKnown
      <3>3. states'[body[u].proc][body[u].lin].evicted = states[body[u].proc][body[u].lin].evicted
        BY <3>2 DEF ElsewhereSame
      <3>4. QED
        BY <3>1, <3>3 DEF Kept
    <2>3. QED
      BY <2>1, <2>2
  <1>6. QED
    BY <1>2, <1>4, <1>5 DEF Kept

LEMMA KeptChooses ==
  ASSUME TypeOK, Held, NoOrphan, Counted, Kept, NEW t \in Thread, Chooses(t)
  PROVE  Kept'
  <1>1. PICK p \in Proc, k \in Lineage : body[t].proc = p /\ body[t].lin = k
    BY ChoosesEffect, BodyType
  <1>2. /\ pc[t] = "choosing" /\ pc'[t] \in {"ready", "persisting"}
        /\ pc' = [pc EXCEPT ![t] = pc'[t]] /\ evict' = [evict EXCEPT ![t] = evict'[t]]
        /\ UNCHANGED <<disk, body, seen, wire, floor, lost>>
        /\ ElsewhereSame(p, k) /\ SameKnown /\ states'[p][k].evicted = evict'[t]
        /\ Evicted(t) \subseteq evict'[t]
    BY <1>1, ChoosesEffect DEF NoOrphan
  <1>3. states[p][k].evicted \subseteq evict'[t]
    BY <1>1, <1>2 DEF Evicted, NoOrphan
  <1>4. Serving(t)
    BY <1>2 DEF Serving
  <1>5. Owed(t) \subseteq evict[t] /\ evict[t] \subseteq states[p][k].evicted
    BY <1>1, <1>4 DEF Kept
  <1>6. ASSUME NEW q \in Proc, NEW j \in Lineage
        PROVE  wire'[j] \ lost'[j] \subseteq IF states'[q][j] = NONE THEN disk'[j] ELSE states'[q][j].evicted
    <2>1. CASE q = p /\ j = k
      <3>1. states[p][k] # NONE
        BY <1>1, <1>4, ServingKnown
      <3>2. wire[k] \ lost[k] \subseteq states[p][k].evicted /\ states'[p][k] # NONE
        BY <1>2, <3>1 DEF Kept, SameKnown
      <3>3. QED
        BY <1>2, <1>3, <2>1, <3>2
    <2>2. CASE q # p \/ j # k
      BY <1>2, <2>2 DEF Kept, ElsewhereSame
    <2>3. QED
      BY <2>1, <2>2
  <1>7. ASSUME NEW u \in Thread, pc'[u] = "peeked"
        PROVE  /\ floor'[u] \subseteq wire'[body'[u].lin]
               /\ states'[body'[u].proc][body'[u].lin] = NONE => wire'[body'[u].lin] \ lost'[body'[u].lin] \subseteq seen'[u]
    <2>1. pc[u] = "peeked"
      BY <1>2, <1>7 DEF TypeOK
    <2>2. body[u].proc \in Proc /\ body[u].lin \in Lineage
      BY <2>1, BodyType
    <2>3. QED
      BY <1>2, <2>1, <2>2 DEF Kept, SameKnown
  <1>8. ASSUME NEW u \in Thread, Serving(u)'
        PROVE  /\ Owed(u)' \subseteq evict'[u]
               /\ evict'[u] \subseteq states'[body'[u].proc][body'[u].lin].evicted
    <2>0. Owed(u)' = Owed(u)
      BY <1>2 DEF Owed
    <2>1. CASE u = t
      BY <1>1, <1>2, <1>3, <1>5, <2>0, <2>1
    <2>2. CASE u # t
      <3>1. Serving(u) /\ evict'[u] = evict[u]
        BY <1>2, <1>8, <2>2 DEF Serving, TypeOK
      <3>2. body[u].proc \in Proc /\ body[u].lin \in Lineage
        BY <3>1, ServingKnown
      <3>3. states[body[u].proc][body[u].lin].evicted \subseteq states'[body[u].proc][body[u].lin].evicted
        BY <1>2, <1>3, <3>2 DEF ElsewhereSame
      <3>4. Owed(u) \subseteq evict[u] /\ evict[u] \subseteq states[body[u].proc][body[u].lin].evicted
        BY <3>1 DEF Kept
      <3>5. QED
        BY <1>2, <2>0, <3>1, <3>3, <3>4
    <2>3. QED
      BY <2>1, <2>2
  <1>9. QED
    BY <1>6, <1>7, <1>8 DEF Kept

LEMMA KeptSend ==
  ASSUME OneWorker, Sticky, ~CanFailOpen, TypeOK, Counted, Kept, NEW t \in Thread, Send(t)
  PROVE  Kept'
  <1>1. /\ pc[t] = "ready" /\ pc' = [pc EXCEPT ![t] = "sent"]
        /\ wire' = [wire EXCEPT ![body[t].lin] = @ \cup evict'[t]]
        /\ evict'[t] \in Rendered(t) /\ evict'[t] \subseteq evict[t]
        /\ evict' = [evict EXCEPT ![t] = evict'[t]]
        /\ UNCHANGED <<disk, states, body, seen, floor, lost>>
    BY SendEffect
  <1>2. Serving(t)
    BY <1>1 DEF Serving
  <1>3. PICK p \in Proc, k \in Lineage : body[t].proc = p /\ body[t].lin = k
    BY <1>2, ServingKnown
  <1>4. states[p][k] # NONE /\ evict[t] \subseteq states[p][k].evicted
    BY <1>2, <1>3, ServingKnown DEF Kept
  <1>5. /\ wire'[k] = wire[k] \cup evict'[t]
        /\ \A j \in Lineage : j # k => wire'[j] = wire[j]
    BY <1>1, <1>3 DEF TypeOK
  <1>6. ASSUME NEW q \in Proc, NEW j \in Lineage
        PROVE  wire'[j] \ lost'[j] \subseteq IF states'[q][j] = NONE THEN disk'[j] ELSE states'[q][j].evicted
    <2>1. CASE j = k
      <3>1. q = p
        BY DEF OneWorker
      <3>2. QED
        BY <1>1, <1>4, <1>5, <2>1, <3>1 DEF Kept
    <2>2. CASE j # k
      BY <1>1, <1>5, <2>2 DEF Kept
    <2>3. QED
      BY <2>1, <2>2
  <1>7. ASSUME NEW u \in Thread, pc'[u] = "peeked"
        PROVE  /\ floor'[u] \subseteq wire'[body'[u].lin]
               /\ states'[body'[u].proc][body'[u].lin] = NONE => wire'[body'[u].lin] \ lost'[body'[u].lin] \subseteq seen'[u]
    <2>1. pc[u] = "peeked"
      BY <1>1, <1>7 DEF TypeOK
    <2>2. body[u].proc = p /\ body[u].lin \in Lineage
      BY <2>1, BodyType DEF OneWorker
    <2>3. QED
      BY <1>1, <1>4, <1>5, <2>1, <2>2 DEF Kept
  <1>8. ASSUME NEW u \in Thread, Serving(u)'
        PROVE  /\ Owed(u)' \subseteq evict'[u]
               /\ evict'[u] \subseteq states'[body'[u].proc][body'[u].lin].evicted
    <2>1. Serving(u)
      BY <1>1, <1>8 DEF Serving, TypeOK
    <2>2. Owed(u)' = Owed(u) /\ Owed(u) \subseteq evict[u]
          /\ evict[u] \subseteq states[body[u].proc][body[u].lin].evicted
      BY <1>1, <2>1 DEF Kept, Owed
    <2>3. CASE u = t
      <3>1. Owed(t) \subseteq {i \in evict[t] : Old(i, body[t])}
        BY <2>2, <2>3 DEF Owed
      <3>2. {i \in evict[t] : Old(i, body[t])} \subseteq evict'[t]
        BY <1>1 DEF Rendered
      <3>3. Owed(u)' \subseteq evict'[u]
        BY <2>2, <2>3, <3>1, <3>2
      <3>4. evict'[u] \subseteq states'[body'[u].proc][body'[u].lin].evicted
        BY <1>1, <2>2, <2>3
      <3>5. QED
        BY <3>3, <3>4
    <2>4. CASE u # t
      <3>1. evict'[u] = evict[u]
        BY <1>1, <2>4 DEF TypeOK
      <3>2. QED
        BY <1>1, <2>2, <3>1
    <2>5. QED
      BY <2>3, <2>4
  <1>9. QED
    BY <1>6, <1>7, <1>8 DEF Kept

\* The only worker dies: the file knows what was recorded.
LEMMA KeptCrash ==
  ASSUME OneWorker, TypeOK, Held, Kept, Durable, NEW p \in Proc, Crash(p)
  PROVE  Kept'
  <1>1. /\ states' = [states EXCEPT ![p] = [k \in Lineage |-> NONE]]
        /\ pc' = [t \in Thread |-> IF pc[t] # "idle" /\ body[t].proc = p THEN "idle" ELSE pc[t]]
        /\ disk' = disk /\ wire' = wire
    BY DEF Crash
  <1>2. \A q \in Proc, k \in Lineage : q = p /\ states'[q][k] = NONE
    BY <1>1 DEF OneWorker, TypeOK
  <1>3. \A t \in Thread : pc'[t] = "idle" /\ ~Serving(t)'
    BY <1>1, BodyType DEF OneWorker, Serving
  <1>4. ASSUME NEW k \in Lineage PROVE wire'[k] \ lost'[k] \subseteq disk'[k]
    <2>1. Writing(k)' = {}
      BY <1>3, WritingIs
    <2>2. wire[k] \subseteq Recorded(k) /\ Recorded(k) \subseteq Recorded(k)'
      BY RecordedGrows DEF Durable, Next
    <2>3. QED
      BY <1>1, <2>1, <2>2 DEF Recorded
  <1>5. QED
    BY <1>2, <1>3, <1>4 DEF Kept

LEMMA KeptStep ==
  ASSUME OneWorker, Roomy, Sticky, ~CanFailOpen, ~CanMisread, TypeOK, Held, NoOrphan, Counted,
         Kept, Durable, [Next]_vars
  PROVE  Kept'
  <1> DEFINE Peeking == \A t \in Thread : pc'[t] = "peeked" =>
                          /\ pc[t] = "peeked" /\ body'[t] = body[t] /\ floor'[t] = floor[t]
                          /\ seen'[t] = seen[t]
             Serves == \A t \in Thread : Serving(t)' =>
                         /\ Serving(t) /\ body'[t] = body[t] /\ floor'[t] = floor[t]
                         /\ evict'[t] = evict[t]
             Grows == \A p \in Proc, k \in Lineage : states[p][k] # NONE =>
                        states[p][k].evicted \subseteq states'[p][k].evicted
  <1>1. CASE UNCHANGED vars \/ Tick
    <2>1. UNCHANGED <<disk, states, pc, body, seen, evict, wire, floor, lost>>
      BY <1>1 DEF vars, Tick
    <2>2. Peeking /\ Serves /\ Grows /\ SameKnown
      BY <2>1 DEF Serving, SameKnown
    <2>3. QED
      BY <2>1, <2>2, KeptKept
  <1>2. ASSUME NEW t \in Thread, NEW p \in Proc, NEW k \in Lineage, NEW c \in Conv,
               NEW l \in Length, NEW x \in TTL,
               Arrive(t, [proc |-> p, lin |-> k, conv |-> c, len |-> l, ttl |-> x, at |-> clock])
        PROVE  Kept'
    <2> DEFINE b == [proc |-> p, lin |-> k, conv |-> c, len |-> l, ttl |-> x, at |-> clock]
    <2>1. b \in Body
      BY DEF Body, TypeOK
    <2>2. QED
      BY <1>2, <2>1, KeptArrive
  <1>3. ASSUME NEW t \in Thread, FirstSeen(t) PROVE Kept'
    <2>1. PICK p \in Proc, k \in Lineage : body[t].proc = p /\ body[t].lin = k
      BY <1>3, FirstSeenEffect, BodyType
    <2>2. /\ pc[t] = "peeked" /\ states[p][k] = NONE /\ states'[p][k] \in State
          /\ states'[p][k] = NewState(body[t], seen[t])
      BY <1>3, <2>1, FirstSeenEffect
    <2>3. states'[p][k].evicted = seen[t] /\ states'[p][k] # NONE
      <3>1. NewState(body[t], seen[t]).evicted = seen[t]
        BY DEF NewState
      <3>2. QED
        BY <2>2, <3>1, NoneAssumption
    <2>4. ElsewhereSame(p, k)
      BY <1>3, <2>1, FirstSeenAlone
    <2>5. /\ UNCHANGED <<disk, body, wire, floor, lost>> /\ pc' = [pc EXCEPT ![t] = "ready"]
          /\ evict' = [evict EXCEPT ![t] = seen[t]] /\ seen' = [seen EXCEPT ![t] = {}]
      BY <1>3 DEF FirstSeen
    <2>6. /\ Serving(t)'
          /\ \A u \in Thread : u # t => pc'[u] = pc[u] /\ seen'[u] = seen[u]
      BY <2>5 DEF Serving, TypeOK
    <2>7. QED
      BY <2>1, <2>2, <2>3, <2>4, <2>5, <2>6, KeptServe
  <1>4. ASSUME NEW t \in Thread, NEW held \in BOOLEAN, NEW ext \in Extension,
               Decide(t, held, ext)
        PROVE  Kept'
    <2>1. PICK p \in Proc, k \in Lineage : body[t].proc = p /\ body[t].lin = k
      BY <1>4, DecideEffect, BodyType
    <2>2. /\ pc[t] = "peeked" /\ states[p][k] # NONE
          /\ states'[p][k].evicted = states[p][k].evicted
          /\ ElsewhereSame(p, k) /\ SameKnown
          /\ evict' = [evict EXCEPT ![t] = states[p][k].evicted]
          /\ UNCHANGED <<disk, body, wire, floor, lost>>
      BY <1>4, <2>1, DecideEffect
    <2>3. /\ seen' = [seen EXCEPT ![t] = {}]
          /\ \E x \in {"choosing", "ready"} : pc' = [pc EXCEPT ![t] = x]
      BY <1>4 DEF Decide
    <2>4. /\ Serving(t)' /\ states'[p][k] # NONE
          /\ \A u \in Thread : u # t => pc'[u] = pc[u] /\ seen'[u] = seen[u]
      BY <2>2, <2>3 DEF Serving, TypeOK, SameKnown
    <2>5. QED
      BY <2>1, <2>2, <2>4, KeptServe
  <1>5. ASSUME NEW t \in Thread, Chooses(t) PROVE Kept'
    BY <1>5, KeptChooses
  <1>6. ASSUME NEW t \in Thread, Persist(t) PROVE Kept'
    <2>1. /\ UNCHANGED <<states, body, seen, evict, wire, floor>>
          /\ pc[t] = "persisting" /\ pc' = [pc EXCEPT ![t] = "ready"]
      BY <1>6, PersistEffect
    <2>2. Peeking /\ Serves /\ Grows /\ SameKnown
      BY <2>1 DEF Serving, SameKnown, TypeOK
    <2>3. \A k \in Lineage : disk[k] \subseteq disk'[k] /\ lost[k] \subseteq lost'[k]
      BY <1>6, PersistEffect
    <2>4. QED
      BY <2>1, <2>2, <2>3, KeptKept
  <1>7. ASSUME NEW t \in Thread, Send(t) PROVE Kept'
    BY <1>7, KeptSend
  <1>8. ASSUME NEW t \in Thread, Finish(t) \/ EndUncounted(t) PROVE Kept'
    <2>1. /\ UNCHANGED <<disk, seen, wire, lost>> /\ pc[t] # "idle"
          /\ pc' = [pc EXCEPT ![t] = "idle"] /\ body' = [body EXCEPT ![t] = NONE]
          /\ evict' = [evict EXCEPT ![t] = {}] /\ floor' = [floor EXCEPT ![t] = {}]
          /\ Touch(body[t], -1) \/ states' = states
      BY <1>8 DEF Finish, EndUncounted, Reset
    <2>2. Peeking /\ Serves
      BY <2>1 DEF Serving, TypeOK
    <2>3. SameKnown /\ Grows
      <3>1. CASE states' = states
        BY <3>1 DEF SameKnown
      <3>2. CASE Touch(body[t], -1)
        <4>1. PICK p \in Proc, k \in Lineage :
                body[t].proc = p /\ body[t].lin = k /\ body[t] \in Body
          BY <2>1, BodyType
        <4>2. /\ ElsewhereSame(p, k) /\ SameKnown
              /\ states[p][k] # NONE => states'[p][k].evicted = states[p][k].evicted
          BY <3>2, <4>1, TouchEffect
        <4>3. QED
          BY <4>2 DEF ElsewhereSame
      <3>3. QED
        BY <2>1, <3>1, <3>2
    <2>4. QED
      BY <2>1, <2>2, <2>3, KeptKept
  <1>9. ASSUME NEW t \in Thread, NEW v \in Thread, StartShadow(t, v) \/ StartUncounted(t, v)
        PROVE  Kept'
    <2>1. /\ UNCHANGED <<disk, seen, wire, evict, floor, lost>>
          /\ pc[t] \in {"sent", "bare"} /\ pc[v] = "idle"
          /\ \E x \in {"shadow", "audit", "bare"} : pc' = [pc EXCEPT ![v] = x]
          /\ body' = [body EXCEPT ![v] = body[t]]
          /\ Touch(body[t], 1) \/ states' = states
      BY <1>9 DEF StartShadow, StartUncounted, Spawn
    <2>2. Peeking /\ Serves
      BY <2>1 DEF Serving, TypeOK
    <2>3. SameKnown /\ Grows
      <3>1. CASE states' = states
        BY <3>1 DEF SameKnown
      <3>2. CASE Touch(body[t], 1)
        <4>1. PICK p \in Proc, k \in Lineage :
                body[t].proc = p /\ body[t].lin = k /\ body[t] \in Body
          BY <2>1, BodyType
        <4>2. /\ ElsewhereSame(p, k) /\ SameKnown
              /\ states[p][k] # NONE => states'[p][k].evicted = states[p][k].evicted
          BY <3>2, <4>1, TouchEffect
        <4>3. QED
          BY <4>2 DEF ElsewhereSame
      <3>3. QED
        BY <2>1, <3>1, <3>2
    <2>4. QED
      BY <2>1, <2>2, <2>3, KeptKept
  <1>10. ASSUME NEW p \in Proc, Crash(p) PROVE Kept'
    BY <1>10, KeptCrash
  <1>11. ASSUME NEW t \in Thread, PlanFails(t) PROVE Kept'
    BY <1>11 DEF PlanFails
  <1>12. QED
    BY <1>1, <1>2, <1>3, <1>4, <1>5, <1>6, <1>7, <1>8, <1>9, <1>10, <1>11, NextWork
    DEF Work, Planned, Unplanned, Chooses

LEMMA KeptInit == Init => NoOrphan /\ Counted /\ Kept
  <1> SUFFICES ASSUME Init PROVE NoOrphan /\ Counted /\ Kept
    OBVIOUS
  <1>1. ASSUME NEW p \in Proc, NEW k \in Lineage
        PROVE  states[p][k] = NONE /\ Open(p, k) = {} /\ wire[k] = {}
    BY DEF Init, Open, Counts, Serving
  <1>2. ASSUME NEW t \in Thread PROVE pc[t] = "idle" /\ ~Serving(t) /\ ~orphan[t]
    BY DEF Init, Serving
  <1>3. QED
    BY <1>1, <1>2 DEF NoOrphan, Counted, Kept

\* On a preserved-thinking model, with one worker whose memory is large enough, a file
\* that can be read, and nothing failing open: a stub that has been on the wire when a
\* request arrives is a stub in that request, wherever its result is past the recent
\* turns and its record did not fail.  Overlapping plans, failed writes and deaths
\* un-evict nothing else.
THEOREM StaysEvicted ==
  ASSUME OneWorker, Roomy, Sticky, ~CanFailOpen, ~CanMisread
  PROVE  Spec => []EvictedStaysEvicted
  <1> DEFINE Inv == NoOrphan /\ Counted /\ Kept /\ Durable /\ Absent("bare")
  <1>1. Init => Inv
    BY KeptInit, DurableInit DEF Init, Absent
  <1>2. TypeOK /\ Held /\ Inv /\ [Next]_vars => Inv'
    BY NoOrphanStep, CountedStep, KeptStep, DurableStep, AbsentStep
  <1>3. Inv => EvictedStaysEvicted
    BY DEF Kept, EvictedStaysEvicted, Serving, Absent
  <1>4. QED
    BY <1>1, <1>2, <1>3, Typed, PTL DEF Spec

-----------------------------------------------------------------------------
(* The refinement of EvictionLedger: one worker, step by step.              *)

\* _touch() changes the count and the time of a lineage, nothing else.
LEMMA TouchKeeps ==
  ASSUME TypeOK, NEW b \in Body, NEW delta \in {-1, 1},
         Touch(b, delta) \/ states' = states
  PROVE  /\ SameKnown
         /\ \A p \in Proc, k \in Lineage : states[p][k] # NONE =>
              /\ states'[p][k].evicted = states[p][k].evicted
              /\ states'[p][k].pending = states[p][k].pending
  <1>1. CASE states' = states
    BY <1>1 DEF SameKnown
  <1>2. CASE Touch(b, delta)
    <2>1. b.proc \in Proc /\ b.lin \in Lineage
      BY DEF Body
    <2>2. /\ ElsewhereSame(b.proc, b.lin) /\ SameKnown
          /\ states[b.proc][b.lin] # NONE =>
               /\ states'[b.proc][b.lin].evicted = states[b.proc][b.lin].evicted
               /\ states'[b.proc][b.lin].pending = states[b.proc][b.lin].pending
      BY <1>2, TouchEffect
    <2>3. QED
      BY <2>1, <2>2 DEF ElsewhereSame
  <1>3. QED
    BY <1>1, <1>2

\* What a lineage forwards holds all that the file has for it; a thread that looked the
\* lineage up while the worker did not know it has just what the file has.
Answered ==
  /\ \A p \in Proc, k \in Lineage : states[p][k] # NONE => disk[k] \subseteq states[p][k].evicted
  /\ \A t \in Thread : pc[t] = "peeked" /\ states[body[t].proc][body[t].lin] = NONE =>
       seen[t] = disk[body[t].lin]
  /\ \A t \in Thread : Serving(t) => evict[t] \subseteq states[body[t].proc][body[t].lin].evicted

\* A licence has one holder: the request in flight keeps others from a cold verdict.
OneChooses ==
  \A t, u \in Thread :
    pc[t] = "choosing" /\ pc[u] = "choosing" /\ body[t].lin = body[u].lin => t = u

LEMMA WorkerIs == ASSUME OneWorker PROVE Worker \in Proc /\ \A p \in Proc : p = Worker
  BY ColdpointAssumption DEF Worker, OneWorker

\* Steps that start nothing and leave the file alone; sets may grow.
LEMMA AnsweredKept ==
  ASSUME TypeOK, Counted, Answered, SameKnown, disk' = disk,
         \A p \in Proc, k \in Lineage : states[p][k] # NONE =>
           states[p][k].evicted \subseteq states'[p][k].evicted,
         \A t \in Thread : pc'[t] = "peeked" =>
           pc[t] = "peeked" /\ body'[t] = body[t] /\ seen'[t] = seen[t],
         \A t \in Thread : Serving(t)' =>
           /\ Serving(t) /\ body'[t] = body[t]
           /\ \/ evict'[t] = evict[t]
              \/ evict'[t] \subseteq states'[body[t].proc][body[t].lin].evicted
  PROVE  Answered'
  <1>1. ASSUME NEW p \in Proc, NEW k \in Lineage, states'[p][k] # NONE
        PROVE  disk'[k] \subseteq states'[p][k].evicted
    BY <1>1 DEF Answered, SameKnown
  <1>2. ASSUME NEW t \in Thread, pc'[t] = "peeked", states'[body'[t].proc][body'[t].lin] = NONE
        PROVE  seen'[t] = disk'[body'[t].lin]
    <2>1. pc[t] = "peeked" /\ body'[t] = body[t] /\ seen'[t] = seen[t]
      BY <1>2
    <2>2. body[t].proc \in Proc /\ body[t].lin \in Lineage
      BY <2>1, BodyType
    <2>3. QED
      BY <1>2, <2>1, <2>2 DEF Answered, SameKnown
  <1>3. ASSUME NEW t \in Thread, Serving(t)'
        PROVE  evict'[t] \subseteq states'[body'[t].proc][body'[t].lin].evicted
    <2>1. Serving(t) /\ body'[t] = body[t]
      BY <1>3
    <2>2. /\ body[t].proc \in Proc /\ body[t].lin \in Lineage
          /\ states[body[t].proc][body[t].lin] # NONE
      BY <2>1, ServingKnown
    <2>3. evict[t] \subseteq states[body[t].proc][body[t].lin].evicted
      BY <2>1 DEF Answered
    <2>4. states[body[t].proc][body[t].lin].evicted
            \subseteq states'[body[t].proc][body[t].lin].evicted
      BY <2>2
    <2>5. QED
      BY <1>3, <2>1, <2>3, <2>4
  <1>4. QED
    BY <1>1, <1>2, <1>3 DEF Answered

\* The first critical section of plan() re-applies the state's set, or what was read.
LEMMA AnsweredServe ==
  ASSUME TypeOK, Counted, Answered, NEW t \in Thread, pc[t] = "peeked",
         UNCHANGED <<disk, body>>,
         NEW p \in Proc, NEW k \in Lineage, body[t].proc = p, body[t].lin = k,
         ElsewhereSame(p, k), states'[p][k] # NONE,
         states[p][k] # NONE => states'[p][k].evicted = states[p][k].evicted,
         states[p][k] = NONE => states'[p][k].evicted = seen[t],
         evict' = [evict EXCEPT ![t] = states'[p][k].evicted],
         pc'[t] # "peeked",
         \A u \in Thread : u # t => pc'[u] = pc[u] /\ seen'[u] = seen[u]
  PROVE  Answered'
  <1>1. ASSUME NEW q \in Proc, NEW j \in Lineage, states'[q][j] # NONE
        PROVE  disk'[j] \subseteq states'[q][j].evicted
    <2>1. CASE q # p \/ j # k
      BY <1>1, <2>1 DEF Answered, ElsewhereSame
    <2>2. CASE q = p /\ j = k
      BY <2>2 DEF Answered
    <2>3. QED
      BY <2>1, <2>2
  <1>2. ASSUME NEW u \in Thread, pc'[u] = "peeked", states'[body'[u].proc][body'[u].lin] = NONE
        PROVE  seen'[u] = disk'[body'[u].lin]
    <2>1. u # t /\ pc[u] = "peeked" /\ seen'[u] = seen[u]
      BY <1>2
    <2>2. body[u].proc \in Proc /\ body[u].lin \in Lineage
      BY <2>1, BodyType
    <2>3. states[body[u].proc][body[u].lin] = NONE
      BY <1>2, <2>2 DEF ElsewhereSame
    <2>4. QED
      BY <2>1, <2>3 DEF Answered
  <1>3. ASSUME NEW u \in Thread, Serving(u)'
        PROVE  evict'[u] \subseteq states'[body'[u].proc][body'[u].lin].evicted
    <2>1. CASE u = t
      BY <2>1 DEF TypeOK
    <2>2. CASE u # t
      <3>1. Serving(u) /\ evict'[u] = evict[u]
        BY <1>3, <2>2 DEF Serving, TypeOK
      <3>2. /\ body[u].proc \in Proc /\ body[u].lin \in Lineage
            /\ states[body[u].proc][body[u].lin] # NONE
        BY <3>1, ServingKnown
      <3>3. evict[u] \subseteq states[body[u].proc][body[u].lin].evicted
        BY <3>1 DEF Answered
      <3>4. states'[body[u].proc][body[u].lin].evicted = states[body[u].proc][body[u].lin].evicted
        BY <3>2 DEF ElsewhereSame
      <3>5. QED
        BY <3>1, <3>3, <3>4
    <2>3. QED
      BY <2>1, <2>2
  <1>4. QED
    BY <1>1, <1>2, <1>3 DEF Answered

LEMMA AnsweredStep ==
  ASSUME OneWorker, Roomy, ~CanMisread, TypeOK, Held, NoOrphan, Counted, Answered, [Next]_vars
  PROVE  Answered'
  <1> DEFINE Peeking == \A t \in Thread : pc'[t] = "peeked" =>
                          pc[t] = "peeked" /\ body'[t] = body[t] /\ seen'[t] = seen[t]
             Serves == \A t \in Thread : Serving(t)' =>
                         Serving(t) /\ body'[t] = body[t] /\ evict'[t] = evict[t]
             Grows == \A p \in Proc, k \in Lineage : states[p][k] # NONE =>
                        states[p][k].evicted \subseteq states'[p][k].evicted
  <1>1. CASE UNCHANGED vars \/ Tick
    <2>1. UNCHANGED <<disk, states, pc, body, seen, evict>>
      BY <1>1 DEF vars, Tick
    <2>2. Peeking /\ Serves /\ Grows /\ SameKnown
      BY <2>1 DEF Serving, SameKnown, TypeOK
    <2>3. QED
      BY <2>1, <2>2, AnsweredKept
  <1>2. ASSUME NEW t \in Thread, NEW p \in Proc, NEW k \in Lineage, NEW b, b.proc = p, b.lin = k,
               Arrive(t, b)
        PROVE  Answered'
    <2>1. /\ pc' = [pc EXCEPT ![t] = "peeked"] /\ body' = [body EXCEPT ![t] = b]
          /\ states[p][k] = NONE => seen' = [seen EXCEPT ![t] = disk[k]]
          /\ \A u \in Thread : u # t => seen'[u] = seen[u]
          /\ UNCHANGED <<disk, states, evict>>
      BY <1>2 DEF Arrive, Readings, Persisted, TypeOK
    <2>2. ASSUME NEW u \in Thread, pc'[u] = "peeked", states[body'[u].proc][body'[u].lin] = NONE
          PROVE  seen'[u] = disk[body'[u].lin]
      <3>1. CASE u = t
        BY <1>2, <2>1, <2>2, <3>1 DEF TypeOK
      <3>2. CASE u # t
        BY <2>1, <2>2, <3>2 DEF Answered, TypeOK
      <3>3. QED
        BY <3>1, <3>2
    <2>3. \A u \in Thread : Serving(u)' => Serving(u) /\ body'[u] = body[u]
      BY <2>1 DEF Serving, TypeOK
    <2>4. QED
      BY <2>1, <2>2, <2>3 DEF Answered
  <1>3. ASSUME NEW t \in Thread, FirstSeen(t) PROVE Answered'
    <2>1. PICK p \in Proc, k \in Lineage : body[t].proc = p /\ body[t].lin = k
      BY <1>3, FirstSeenEffect, BodyType
    <2>2. /\ pc[t] = "peeked" /\ states[p][k] = NONE /\ states'[p][k] \in State
          /\ states'[p][k] = NewState(body[t], seen[t])
      BY <1>3, <2>1, FirstSeenEffect
    <2>3. states'[p][k].evicted = seen[t] /\ states'[p][k] # NONE
      <3>1. NewState(body[t], seen[t]).evicted = seen[t]
        BY DEF NewState
      <3>2. QED
        BY <2>2, <3>1, NoneAssumption
    <2>4. ElsewhereSame(p, k)
      BY <1>3, <2>1, FirstSeenAlone
    <2>5. /\ UNCHANGED <<disk, body>> /\ pc' = [pc EXCEPT ![t] = "ready"]
          /\ evict' = [evict EXCEPT ![t] = seen[t]] /\ seen' = [seen EXCEPT ![t] = {}]
      BY <1>3 DEF FirstSeen
    <2>6. /\ pc'[t] # "peeked"
          /\ \A u \in Thread : u # t => pc'[u] = pc[u] /\ seen'[u] = seen[u]
      BY <2>5 DEF TypeOK
    <2>7. QED
      BY <2>1, <2>2, <2>3, <2>4, <2>5, <2>6, AnsweredServe
  <1>4. ASSUME NEW t \in Thread, NEW held \in BOOLEAN, NEW ext \in Extension,
               Decide(t, held, ext)
        PROVE  Answered'
    <2>1. PICK p \in Proc, k \in Lineage : body[t].proc = p /\ body[t].lin = k
      BY <1>4, DecideEffect, BodyType
    <2>2. /\ pc[t] = "peeked" /\ states[p][k] # NONE
          /\ states'[p][k].evicted = states[p][k].evicted
          /\ ElsewhereSame(p, k) /\ SameKnown
          /\ evict' = [evict EXCEPT ![t] = states[p][k].evicted]
          /\ UNCHANGED <<disk, body>>
      BY <1>4, <2>1, DecideEffect
    <2>3. /\ seen' = [seen EXCEPT ![t] = {}]
          /\ \E x \in {"choosing", "ready"} : pc' = [pc EXCEPT ![t] = x]
      BY <1>4 DEF Decide
    <2>4. /\ pc'[t] # "peeked" /\ states'[p][k] # NONE
          /\ \A u \in Thread : u # t => pc'[u] = pc[u] /\ seen'[u] = seen[u]
      BY <2>2, <2>3 DEF TypeOK, SameKnown
    <2>5. QED
      BY <2>1, <2>2, <2>4, AnsweredServe
  <1>5. ASSUME NEW t \in Thread, Chooses(t) PROVE Answered'
    <2>1. PICK p \in Proc, k \in Lineage : body[t].proc = p /\ body[t].lin = k
      BY <1>5, ChoosesEffect, BodyType
    <2>2. /\ pc[t] = "choosing" /\ pc'[t] \in {"ready", "persisting"}
          /\ pc' = [pc EXCEPT ![t] = pc'[t]] /\ evict' = [evict EXCEPT ![t] = evict'[t]]
          /\ Evicted(t) \subseteq evict'[t] /\ states'[p][k].evicted = evict'[t]
          /\ UNCHANGED <<disk, body, seen>> /\ ElsewhereSame(p, k) /\ SameKnown
      BY <1>5, <2>1, ChoosesEffect DEF NoOrphan
    <2>3. Evicted(t) = states[p][k].evicted
      BY <2>1 DEF NoOrphan, Evicted
    <2>4. Grows
      BY <2>2, <2>3 DEF ElsewhereSame
    <2>5. Peeking
      BY <2>2 DEF TypeOK
    <2>6. \A u \in Thread : Serving(u)' =>
            /\ Serving(u) /\ body'[u] = body[u]
            /\ \/ evict'[u] = evict[u]
               \/ evict'[u] \subseteq states'[body[u].proc][body[u].lin].evicted
      BY <2>1, <2>2 DEF Serving, TypeOK
    <2>7. QED
      BY <2>2, <2>4, <2>5, <2>6, AnsweredKept
  <1>6. ASSUME NEW t \in Thread, Persist(t) PROVE Answered'
    <2>1. /\ UNCHANGED <<states, body, seen, evict>>
          /\ pc[t] = "persisting" /\ pc' = [pc EXCEPT ![t] = "ready"]
      BY <1>6, PersistEffect
    <2>2. Serving(t)
      BY <2>1 DEF Serving
    <2>3. PICK p \in Proc, k \in Lineage :
            body[t].proc = p /\ body[t].lin = k /\ states[p][k] # NONE
      BY <2>2, ServingKnown
    <2>4. \A j \in Lineage : IF j = k THEN disk'[j] \subseteq disk[j] \cup evict[t]
                                     ELSE disk'[j] = disk[j]
      BY <1>6, <2>3, PersistEffect
    <2>9. evict[t] \subseteq states[p][k].evicted
      BY <2>2, <2>3 DEF Answered
    <2>5. ASSUME NEW q \in Proc, NEW j \in Lineage, states[q][j] # NONE
          PROVE  disk'[j] \subseteq states[q][j].evicted
      BY <2>3, <2>4, <2>5, <2>9 DEF Answered, OneWorker
    <2>6. ASSUME NEW u \in Thread, pc'[u] = "peeked", states[body[u].proc][body[u].lin] = NONE
          PROVE  seen[u] = disk'[body[u].lin]
      <3>1. pc[u] = "peeked" /\ body[u].proc \in Proc /\ body[u].lin \in Lineage
        BY <2>1, <2>6, BodyType DEF TypeOK
      <3>2. body[u].lin # k
        BY <2>3, <2>6, <3>1 DEF OneWorker
      <3>3. QED
        BY <2>4, <2>6, <3>1, <3>2 DEF Answered
    <2>7. \A u \in Thread : Serving(u)' => Serving(u)
      BY <2>1 DEF Serving, TypeOK
    <2>8. QED
      BY <2>1, <2>5, <2>6, <2>7 DEF Answered
  <1>7. ASSUME NEW t \in Thread, Finish(t) \/ EndUncounted(t) PROVE Answered'
    <2>1. /\ UNCHANGED <<disk, seen>> /\ pc[t] # "idle"
          /\ pc' = [pc EXCEPT ![t] = "idle"] /\ body' = [body EXCEPT ![t] = NONE]
          /\ evict' = [evict EXCEPT ![t] = {}]
          /\ Touch(body[t], -1) \/ states' = states
      BY <1>7 DEF Finish, EndUncounted, Reset
    <2>2. Peeking /\ Serves
      BY <2>1 DEF Serving, TypeOK
    <2>3. SameKnown /\ Grows
      BY <2>1, TouchKeeps, BodyType
    <2>4. QED
      BY <2>1, <2>2, <2>3, AnsweredKept
  <1>8. ASSUME NEW t \in Thread, NEW v \in Thread, StartShadow(t, v) \/ StartUncounted(t, v)
        PROVE  Answered'
    <2>1. /\ UNCHANGED <<disk, seen, evict>> /\ pc[t] \in {"sent", "bare"} /\ pc[v] = "idle"
          /\ \E x \in {"shadow", "audit", "bare"} : pc' = [pc EXCEPT ![v] = x]
          /\ body' = [body EXCEPT ![v] = body[t]]
          /\ Touch(body[t], 1) \/ states' = states
      BY <1>8 DEF StartShadow, StartUncounted, Spawn
    <2>2. Peeking /\ Serves
      BY <2>1 DEF Serving, TypeOK
    <2>3. SameKnown /\ Grows
      BY <2>1, TouchKeeps, BodyType
    <2>4. QED
      BY <2>1, <2>2, <2>3, AnsweredKept
  <1>9. ASSUME NEW p \in Proc, Crash(p) PROVE Answered'
    <2>1. ASSUME NEW t \in Thread PROVE pc'[t] = "idle"
      <3>1. pc[t] # "idle" => body[t].proc = p
        BY BodyType DEF OneWorker
      <3>2. pc' = [u \in Thread |-> IF pc[u] # "idle" /\ body[u].proc = p THEN "idle" ELSE pc[u]]
        BY <1>9 DEF Crash
      <3>3. QED
        BY <3>1, <3>2
    <2>2. \A q \in Proc, k \in Lineage : states'[q][k] = NONE
      BY <1>9 DEF Crash, OneWorker, TypeOK
    <2>3. QED
      BY <2>1, <2>2 DEF Answered, Serving
  <1>10. ASSUME NEW t \in Thread, Send(t) PROVE Answered'
    <2>1. /\ UNCHANGED <<disk, states, body, seen>> /\ evict'[t] \subseteq evict[t]
          /\ pc[t] = "ready" /\ pc' = [pc EXCEPT ![t] = "sent"]
          /\ evict' = [evict EXCEPT ![t] = evict'[t]]
      BY <1>10, SendEffect
    <2>2. Serving(t) /\ evict[t] \subseteq states[body[t].proc][body[t].lin].evicted
      BY <2>1 DEF Serving, Answered
    <2>3. Peeking /\ Grows /\ SameKnown
      BY <2>1 DEF SameKnown, TypeOK
    <2>4. \A u \in Thread : Serving(u)' =>
            /\ Serving(u) /\ body'[u] = body[u]
            /\ \/ evict'[u] = evict[u]
               \/ evict'[u] \subseteq states'[body[u].proc][body[u].lin].evicted
      BY <2>1, <2>2 DEF Serving, TypeOK
    <2>5. QED
      BY <2>1, <2>3, <2>4, AnsweredKept
  <1>11. ASSUME NEW t \in Thread, PlanFails(t) PROVE Answered'
    <2>1. /\ UNCHANGED <<disk, states, body, evict>> /\ pc' = [pc EXCEPT ![t] = "bare"]
          /\ seen' = [seen EXCEPT ![t] = {}]
      BY <1>11 DEF PlanFails
    <2>2. Peeking /\ Serves /\ Grows /\ SameKnown
      BY <2>1 DEF Serving, SameKnown, TypeOK
    <2>3. QED
      BY <2>1, <2>2, AnsweredKept
  <1>12. QED
    BY <1>1, <1>2, <1>3, <1>4, <1>5, <1>6, <1>7, <1>8, <1>9, <1>10, <1>11, NextWork
    DEF Work, Planned, Unplanned, Chooses

\* A cold verdict is given only while nobody else holds the lineage in flight.
LEMMA OneChoosesStep ==
  ASSUME OneWorker, TypeOK, Held, Counted, OneChooses, [Next]_vars
  PROVE  OneChooses'
  <1> DEFINE Fewer == \A u \in Thread : pc'[u] = "choosing" =>
                        pc[u] = "choosing" /\ body'[u] = body[u]
  <1>1. ASSUME Fewer PROVE OneChooses'
    BY <1>1 DEF OneChooses
  <1>2. ASSUME NEW t \in Thread, NEW held \in BOOLEAN, NEW ext \in Extension,
               Decide(t, held, ext)
        PROVE  OneChooses'
    <2> DEFINE b == body[t]
               old == states[b.proc][b.lin]
               s == Updated(old, b)
               why == Verdict(s, b, held, s.ttl + ext)
    <2>1. /\ pc[t] = "peeked" /\ old # NONE /\ b \in Body /\ old \in State /\ body' = body
          /\ b.proc \in Proc /\ b.lin \in Lineage
      BY <1>2, DecideEffect, BodyType
    <2>2. pc' = [pc EXCEPT ![t] = IF why \in {"cold", "deferred-cold"} THEN "choosing" ELSE "ready"]
      BY <1>2 DEF Decide
    <2>3. CASE why \notin {"cold", "deferred-cold"}
      <3>1. pc' = [pc EXCEPT ![t] = "ready"]
        BY <2>2, <2>3
      <3>2. Fewer
        BY <2>1, <3>1 DEF TypeOK
      <3>3. QED
        BY <1>1, <3>2
    <2>4. CASE why \in {"cold", "deferred-cold"}
      <3>1. ~(s.inflight > 0)
        BY <2>4 DEF Verdict
      <3>2. s.inflight = old.inflight /\ old.inflight \in Nat
        BY <2>1, UpdatedEffect DEF State
      <3>3. old.inflight = Cardinality(Open(b.proc, b.lin)) /\ IsFiniteSet(Open(b.proc, b.lin))
        BY <2>1, OpenFinite DEF Counted
      <3>4. Open(b.proc, b.lin) = {}
        <4>1. Cardinality(Open(b.proc, b.lin)) = 0
          BY <3>1, <3>2, <3>3
        <4>2. QED
          BY <3>3, <4>1, FS_EmptySet
      <3>5. ASSUME NEW u \in Thread, pc[u] = "choosing", body[u].lin = b.lin PROVE FALSE
        <4>1. body[u].proc \in Proc
          BY <3>5, BodyType
        <4>2. body[u].proc = b.proc
          BY <2>1, <4>1 DEF OneWorker
        <4>3. u \in Open(b.proc, b.lin)
          BY <3>5, <4>2 DEF Open, Counts, Serving
        <4>4. QED
          BY <3>4, <4>3
      <3>6. \A u \in Thread : u # t => pc'[u] = pc[u]
        BY <2>2 DEF TypeOK
      <3>7. QED
        BY <2>1, <3>5, <3>6 DEF OneChooses
    <2>5. QED
      BY <2>3, <2>4
  <1>3. ASSUME NEW t \in Thread, Work(t),
               \A held \in BOOLEAN, ext \in Extension : ~Decide(t, held, ext)
        PROVE  Fewer
    <2>1. ASSUME NEW b, Arrive(t, b) PROVE Fewer
      BY <2>1 DEF Arrive, TypeOK
    <2>2. CASE FirstSeen(t)
      BY <2>2 DEF FirstSeen, TypeOK
    <2>3. CASE Chooses(t)
      <3>1. body' = body /\ \E x \in {"ready", "persisting"} : pc' = [pc EXCEPT ![t] = x]
        BY <2>3, ChoosesEffect
      <3>2. QED
        BY <3>1 DEF TypeOK
    <2>4. CASE PlanFails(t) \/ Persist(t) \/ Send(t)
      BY <2>4 DEF PlanFails, Persist, Send, TypeOK
    <2>5. CASE Finish(t) \/ EndUncounted(t)
      BY <2>5 DEF Finish, EndUncounted, Reset, TypeOK
    <2>6. ASSUME NEW v \in Thread, StartShadow(t, v) \/ StartUncounted(t, v) PROVE Fewer
      BY <2>6 DEF StartShadow, StartUncounted, Spawn, TypeOK
    <2>7. QED
      BY <1>3, <2>1, <2>2, <2>3, <2>4, <2>5, <2>6 DEF Work, Planned, Unplanned, Chooses
  <1>4. ASSUME NEW p \in Proc, Crash(p) PROVE Fewer
    <2>1. /\ pc' = [t \in Thread |-> IF pc[t] # "idle" /\ body[t].proc = p THEN "idle" ELSE pc[t]]
          /\ body' = [t \in Thread |-> IF pc[t] # "idle" /\ body[t].proc = p THEN NONE ELSE body[t]]
      BY <1>4 DEF Crash
    <2>2. QED
      BY <2>1
  <1>5. CASE UNCHANGED vars \/ Tick
    BY <1>1, <1>5 DEF vars, Tick
  <1>6. QED
    BY <1>1, <1>2, <1>3, <1>4, <1>5, NextWork

-----------------------------------------------------------------------------
(* The steps of the ledger.                                                *)

\* What the worker knows of k, as Forwarded and Due take it.
Expected(k) == Choosing(k) \/ states[Worker][k].pending

\* Steps that neither grow a set nor settle a licence: traffic and time.
LEMMA LedgerStill ==
  ASSUME OneWorker, SameKnown,
         \A k \in Lineage : states[Worker][k] = NONE => disk'[k] = disk[k],
         \A k \in Lineage : states[Worker][k] # NONE =>
           states'[Worker][k].evicted = states[Worker][k].evicted /\ (Expected(k)' <=> Expected(k))
  PROVE  Ledger!Provider
  <1>1. Worker \in Proc
    BY WorkerIs
  <1>2. \A k \in Lineage : states'[Worker][k] = NONE <=> states[Worker][k] = NONE
    BY <1>1 DEF SameKnown
  <1>3. Forwarded' = Forwarded
    BY <1>2 DEF Forwarded
  <1>4. Due' = Due
    BY <1>2 DEF Due, Expected
  <1>5. {k \in Lineage : ProviderMayHold(k)}' \in SUBSET Lineage
    OBVIOUS
  <1>6. QED
    BY <1>3, <1>4, <1>5 DEF Ledger!Provider

\* Who chooses is the same before and after.
SameChoosers ==
  \A u \in Thread : /\ pc'[u] = "choosing" <=> pc[u] = "choosing"
                    /\ pc[u] = "choosing" => body'[u].lin = body[u].lin

LEMMA SameChoosing == ASSUME SameChoosers PROVE \A k \in Lineage : Choosing(k)' <=> Choosing(k)
  BY DEF SameChoosers, Choosing

\* A lineage that becomes known forwards what was read, and owes nothing.
LEMMA LedgerFirstSeen ==
  ASSUME OneWorker, Roomy, TypeOK, Counted, Answered, NEW t \in Thread, FirstSeen(t)
  PROVE  Ledger!Provider
  <1>1. PICK k \in Lineage : body[t].proc = Worker /\ body[t].lin = k
    BY FirstSeenEffect, BodyType, WorkerIs
  <1>2. /\ pc[t] = "peeked" /\ states[Worker][k] = NONE
        /\ states'[Worker][k] = NewState(body[t], seen[t]) /\ states'[Worker][k] \in State
    BY <1>1, FirstSeenEffect
  <1>3. states'[Worker][k].evicted = seen[t] /\ ~states'[Worker][k].pending
        /\ states'[Worker][k] # NONE
    <2>1. NewState(body[t], seen[t]).evicted = seen[t] /\ ~NewState(body[t], seen[t]).pending
      BY DEF NewState
    <2>2. QED
      BY <1>2, <2>1, NoneAssumption
  <1>4. seen[t] = disk[k]
    BY <1>1, <1>2 DEF Answered
  <1>5. \A j \in Lineage : j # k => states'[Worker][j] = states[Worker][j]
    BY <1>1, FirstSeenAlone, WorkerIs DEF ElsewhereSame
  <1>6. disk' = disk /\ body' = body /\ pc' = [pc EXCEPT ![t] = "ready"]
    BY DEF FirstSeen
  <1>7. \A j \in Lineage : Choosing(j)' <=> Choosing(j)
    <2>1. SameChoosers
      BY <1>2, <1>6 DEF SameChoosers, TypeOK
    <2>2. QED
      BY <2>1, SameChoosing
  <1>8. ~Choosing(k)
    <2>1. SUFFICES ASSUME NEW u \in Thread, pc[u] = "choosing", body[u].lin = k PROVE FALSE
      BY DEF Choosing
    <2>2. Serving(u)
      BY <2>1 DEF Serving
    <2>3. states[body[u].proc][k] # NONE /\ body[u].proc \in Proc
      BY <2>1, <2>2, ServingKnown
    <2>4. QED
      BY <1>2, <2>3, WorkerIs
  <1>9. Forwarded' = Forwarded
    BY <1>2, <1>3, <1>4, <1>5, <1>6 DEF Forwarded
  <1>10. Due' = Due
    BY <1>2, <1>3, <1>5, <1>7, <1>8 DEF Due
  <1>11. {j \in Lineage : ProviderMayHold(j)}' \in SUBSET Lineage
    OBVIOUS
  <1>12. QED
    BY <1>9, <1>10, <1>11 DEF Ledger!Provider

\* A cold verdict is a licence, a deferred one has been paid for, any other changes nothing.
LEMMA LedgerDecide ==
  ASSUME OneWorker, TypeOK, NEW t \in Thread, NEW held \in BOOLEAN, NEW ext \in Extension,
         Decide(t, held, ext),
         reason'[t] = "cold" => ~ProviderMayHold(body[t].lin)
  PROVE  Ledger!Provider \/ \E k \in Lineage : Ledger!License(k)
  <1> DEFINE b == body[t]
             old == states[b.proc][b.lin]
             s == Updated(old, b)
             why == Verdict(s, b, held, s.ttl + ext)
  <1>1. PICK k \in Lineage : body[t].proc = Worker /\ body[t].lin = k
    BY DecideEffect, BodyType, WorkerIs
  <1>2. /\ pc[t] = "peeked" /\ old # NONE /\ b \in Body /\ old \in State
        /\ ElsewhereSame(Worker, k) /\ SameKnown
        /\ states'[Worker][k].evicted = old.evicted /\ states'[Worker][k].pending = old.pending
        /\ reason' = [reason EXCEPT ![t] = why]
        /\ UNCHANGED <<clock, disk, body, gone>>
    BY <1>1, DecideEffect
  <1>3. pc' = [pc EXCEPT ![t] = IF why \in {"cold", "deferred-cold"} THEN "choosing" ELSE "ready"]
    BY DEF Decide
  <1>4. Worker \in Proc /\ old = states[Worker][k]
    BY <1>1, WorkerIs
  <1>5. \A j \in Lineage : /\ states'[Worker][j] = NONE <=> states[Worker][j] = NONE
                           /\ states[Worker][j] # NONE =>
                                /\ states'[Worker][j].evicted = states[Worker][j].evicted
                                /\ states'[Worker][j].pending = states[Worker][j].pending
    BY <1>2, <1>4 DEF ElsewhereSame, SameKnown
  <1>6. Forwarded' = Forwarded
    BY <1>2, <1>5 DEF Forwarded
  <1>7. CASE why \notin {"cold", "deferred-cold"}
    <2>1. pc' = [pc EXCEPT ![t] = "ready"]
      BY <1>3, <1>7
    <2>2. SameChoosers
      BY <1>2, <2>1 DEF SameChoosers, TypeOK
    <2>3. QED
      BY <1>2, <1>5, <2>2, SameChoosing, LedgerStill DEF Expected
  <1>8. ASSUME why \in {"cold", "deferred-cold"}
        PROVE  \A j \in Lineage : Choosing(j)' <=> Choosing(j) \/ j = k
    <2>1. pc' = [pc EXCEPT ![t] = "choosing"]
      BY <1>3, <1>8
    <2>2. pc'[t] = "choosing" /\ \A u \in Thread : u # t => pc'[u] = pc[u]
      BY <2>1 DEF TypeOK
    <2>3. QED
      BY <1>1, <1>2, <2>2 DEF Choosing
  <1>9. CASE why = "deferred-cold"
    <2>1. s.pending
      BY <1>9 DEF Verdict
    <2>2. old.pending
      BY <1>2, <2>1, UpdatedEffect
    <2>3. \A j \in Lineage : states[Worker][j] # NONE => (Expected(j)' <=> Expected(j))
      BY <1>4, <1>5, <1>8, <1>9, <2>2 DEF Expected
    <2>4. QED
      BY <1>2, <1>5, <2>3, LedgerStill
  <1>10. CASE why = "cold"
    <2>1. ~ProviderMayHold(k)
      BY <1>1, <1>2, <1>10 DEF TypeOK
    <2>2. Due' = Due \cup {k}
      BY <1>2, <1>4, <1>5, <1>8, <1>10 DEF Due
    <2>3. \A u \in Thread : Live(u)' <=> Live(u)
      BY <1>2, <1>3, <1>10 DEF Live, TypeOK
    <2>4. {j \in Lineage : ProviderMayHold(j)}' = {j \in Lineage : ProviderMayHold(j)}
      BY <1>2, <2>3 DEF ProviderMayHold
    <2>5. Ledger!License(k)
      BY <1>6, <2>1, <2>2, <2>4 DEF Ledger!License
    <2>6. QED
      BY <2>5
  <1>11. QED
    BY <1>7, <1>9, <1>10

\* The second critical section uses the licence up, or defers what it has paid for.
LEMMA LedgerChooses ==
  ASSUME OneWorker, TypeOK, Held, NoOrphan, OneChooses, NEW t \in Thread, Chooses(t)
  PROVE  Ledger!Provider \/ \E k \in Lineage : Ledger!Grow(k)
  <1>1. PICK k \in Lineage : body[t].proc = Worker /\ body[t].lin = k
    BY ChoosesEffect, BodyType, WorkerIs
  <1>2. /\ pc[t] = "choosing" /\ states[Worker][k] # NONE /\ ~orphan[t]
        /\ ElsewhereSame(Worker, k) /\ SameKnown
        /\ UNCHANGED <<clock, disk, body, gone>>
    BY <1>1, ChoosesEffect DEF NoOrphan, Held
  <1>3. Worker \in Proc /\ Evicted(t) = states[Worker][k].evicted
    BY <1>1, <1>2, WorkerIs DEF Evicted
  <1>4. pc'[t] # "choosing" /\ ~Live(t) /\ ~Live(t)' /\ \A u \in Thread : u # t => pc'[u] = pc[u]
    <2>1. \E x \in {"ready", "persisting"} : pc' = [pc EXCEPT ![t] = x]
      BY ChoosesEffect
    <2>2. QED
      BY <1>2, <2>1 DEF Live, TypeOK
  <1>5. \A j \in Lineage : Choosing(j)' <=> Choosing(j) /\ j # k
    BY <1>1, <1>2, <1>4 DEF Choosing, OneChooses
  <1>6. \A j \in Lineage : /\ states'[Worker][j] = NONE <=> states[Worker][j] = NONE
                           /\ j # k => states'[Worker][j] = states[Worker][j]
    BY <1>2, <1>3 DEF ElsewhereSame, SameKnown
  <1>7. CASE Defer(t)
    <2>1. Settle(t, Evicted(t), TRUE)
      BY <1>7 DEF Defer
    <2>2. PICK yes \in BOOLEAN : yes = TRUE
      OBVIOUS
    <2>3. Settle(t, Evicted(t), yes) /\ Evicted(t) \in SUBSET Id
      BY <1>2, <2>1, <2>2, EvictedType
    <2>4. states'[Worker][k].evicted = states[Worker][k].evicted /\ states'[Worker][k].pending
      BY <1>1, <1>2, <1>3, <2>2, <2>3, SettleEffect
    <2>5. Choosing(k)
      BY <1>1, <1>2 DEF Choosing
    <2>6. \A j \in Lineage : Expected(j)' <=> Expected(j)
      BY <1>5, <1>6, <2>4, <2>5 DEF Expected
    <2>7. \A j \in Lineage : states'[Worker][j].evicted = states[Worker][j].evicted
      BY <1>6, <2>4
    <2>8. QED
      BY <1>2, <2>6, <2>7, LedgerStill
  <1>8. ASSUME NEW fresh \in SUBSET Id, Commit(t, fresh) PROVE Ledger!Grow(k)
    <2>1. Settle(t, Evicted(t) \cup fresh, FALSE)
      BY <1>8 DEF Commit
    <2>2. PICK no \in BOOLEAN : no = FALSE
      OBVIOUS
    <2>3. Settle(t, Evicted(t) \cup fresh, no) /\ Evicted(t) \cup fresh \in SUBSET Id
      BY <1>2, <1>8, <2>1, <2>2, EvictedType
    <2>4. states'[Worker][k].evicted = states[Worker][k].evicted \cup fresh
          /\ ~states'[Worker][k].pending
      BY <1>1, <1>2, <1>3, <2>2, <2>3, SettleEffect
    <2>5. k \in Due
      BY <1>1, <1>2 DEF Due, Choosing
    <2>6. Due' = Due \ {k}
      BY <1>5, <1>6, <2>4 DEF Due
    <2>7. Forwarded' = [Forwarded EXCEPT ![k] = @ \cup fresh]
      BY <1>2, <1>6, <2>4 DEF Forwarded
    <2>8. \A u \in Thread : Live(u)' <=> Live(u)
      BY <1>4 DEF Live
    <2>9. {j \in Lineage : ProviderMayHold(j)}' = {j \in Lineage : ProviderMayHold(j)}
      BY <1>2, <2>8 DEF ProviderMayHold
    <2>10. QED
      BY <2>5, <2>6, <2>7, <2>9 DEF Ledger!Grow
  <1>9. QED
    BY <1>7, <1>8 DEF Chooses

\* A death leaves what is on disk, which is no more than was forwarded, and no licence.
LEMMA LedgerCrash ==
  ASSUME OneWorker, TypeOK, Answered, NEW p \in Proc, Crash(p)
  PROVE  Ledger!Restart
  <1>1. p = Worker /\ Worker \in Proc
    BY WorkerIs
  <1>2. disk' = disk /\ \A k \in Lineage : states'[Worker][k] = NONE
    BY <1>1 DEF Crash, TypeOK
  <1>3. Forwarded' = [k \in Lineage |-> disk[k]]
    BY <1>2 DEF Forwarded
  <1>4. Forwarded' \in [Lineage -> SUBSET Id]
    BY <1>3 DEF TypeOK
  <1>5. \A k \in Lineage : Forwarded'[k] \subseteq Forwarded[k]
    BY <1>1, <1>3 DEF Forwarded, Answered
  <1>6. Due' = {}
    BY <1>2 DEF Due
  <1>7. {k \in Lineage : ProviderMayHold(k)}' \in SUBSET Lineage
    OBVIOUS
  <1>8. QED
    BY <1>4, <1>5, <1>6, <1>7 DEF Ledger!Restart

LEMMA LedgerStep ==
  ASSUME OneWorker, Roomy, ~CanMisread, TypeOK, Held, NoAudit, NoOrphan, Counted, Cooling,
         Answered, OneChooses, [Next]_vars
  PROVE  Ledger!Next
  <1>1. ASSUME UNCHANGED <<states, disk, body>> /\ UNCHANGED pc PROVE Ledger!Provider
    <2>1. SameKnown /\ SameChoosers
      BY <1>1 DEF SameKnown, SameChoosers
    <2>2. QED
      BY <1>1, <2>1, SameChoosing, LedgerStill DEF Expected
  <1>2. CASE UNCHANGED vars \/ Tick
    BY <1>1, <1>2 DEF vars, Tick, Ledger!Next
  <1>3. ASSUME NEW t \in Thread, NEW b, Arrive(t, b) PROVE Ledger!Provider
    <2>1. UNCHANGED <<states, disk>> /\ SameKnown /\ SameChoosers
      BY <1>3 DEF Arrive, SameKnown, SameChoosers, TypeOK
    <2>2. QED
      BY <2>1, SameChoosing, LedgerStill DEF Expected
  <1>4. ASSUME NEW t \in Thread, NEW held \in BOOLEAN, NEW ext \in Extension,
               Decide(t, held, ext)
        PROVE  Ledger!Provider \/ \E k \in Lineage : Ledger!License(k)
    <2>1. reason'[t] = "cold" => ~ProviderMayHold(body[t].lin)
      BY <1>4, ColdIsExpired
    <2>2. QED
      BY <1>4, <2>1, LedgerDecide
  <1>5. ASSUME NEW t \in Thread, Persist(t) PROVE Ledger!Provider
    <2>1. UNCHANGED <<states, body>> /\ pc[t] = "persisting" /\ pc' = [pc EXCEPT ![t] = "ready"]
      BY <1>5, PersistEffect
    <2>2. Serving(t)
      BY <2>1 DEF Serving
    <2>3. states[Worker][body[t].lin] # NONE
      BY <2>2, ServingKnown, WorkerIs
    <2>4. \A k \in Lineage : states[Worker][k] = NONE => disk'[k] = disk[k]
      BY <1>5, <2>3, PersistEffect
    <2>5. SameKnown /\ SameChoosers
      BY <2>1 DEF SameKnown, SameChoosers, TypeOK
    <2>6. QED
      BY <2>1, <2>4, <2>5, SameChoosing, LedgerStill DEF Expected
  <1>6. ASSUME NEW t \in Thread, Send(t) \/ PlanFails(t) PROVE Ledger!Provider
    <2>1. UNCHANGED <<states, disk>> /\ SameKnown /\ SameChoosers
      BY <1>6 DEF Send, PlanFails, SameKnown, SameChoosers, TypeOK
    <2>2. QED
      BY <2>1, SameChoosing, LedgerStill DEF Expected
  <1>7. ASSUME NEW t \in Thread, Finish(t) \/ EndUncounted(t) PROVE Ledger!Provider
    <2>1. /\ pc[t] \notin {"idle", "choosing"} /\ disk' = disk
          /\ pc' = [pc EXCEPT ![t] = "idle"] /\ body' = [body EXCEPT ![t] = NONE]
          /\ Touch(body[t], -1) \/ states' = states
      BY <1>7 DEF Finish, EndUncounted, Reset
    <2>2. SameChoosers
      BY <2>1 DEF SameChoosers, TypeOK
    <2>3. /\ SameKnown
          /\ \A k \in Lineage : states[Worker][k] # NONE =>
               /\ states'[Worker][k].evicted = states[Worker][k].evicted
               /\ states'[Worker][k].pending = states[Worker][k].pending
      BY <2>1, TouchKeeps, BodyType, WorkerIs
    <2>4. QED
      BY <2>1, <2>2, <2>3, SameChoosing, LedgerStill DEF Expected
  <1>8. ASSUME NEW t \in Thread, NEW v \in Thread, StartShadow(t, v) \/ StartUncounted(t, v)
        PROVE  Ledger!Provider
    <2>1. /\ pc[t] \in {"sent", "bare"} /\ pc[v] = "idle" /\ disk' = disk
          /\ \E x \in {"shadow", "audit", "bare"} : pc' = [pc EXCEPT ![v] = x]
          /\ body' = [body EXCEPT ![v] = body[t]]
          /\ Touch(body[t], 1) \/ states' = states
      BY <1>8 DEF StartShadow, StartUncounted, Spawn
    <2>2. SameChoosers
      BY <2>1 DEF SameChoosers, TypeOK
    <2>3. /\ SameKnown
          /\ \A k \in Lineage : states[Worker][k] # NONE =>
               /\ states'[Worker][k].evicted = states[Worker][k].evicted
               /\ states'[Worker][k].pending = states[Worker][k].pending
      BY <2>1, TouchKeeps, BodyType, WorkerIs
    <2>4. QED
      BY <2>1, <2>2, <2>3, SameChoosing, LedgerStill DEF Expected
  <1>9. ASSUME NEW t \in Thread, Work(t) PROVE Ledger!Next
    BY <1>3, <1>4, <1>5, <1>6, <1>7, <1>8, <1>9, LedgerFirstSeen, LedgerChooses
       DEF Work, Planned, Unplanned, Chooses, Ledger!Next
  <1>10. QED
    BY <1>2, <1>9, LedgerCrash, NextWork DEF Ledger!Next

\* With one worker whose memory is large enough, a file that can be read, no replaying
\* audit, nothing that fails open, and no death that forgets a longer lifetime, Coldpoint
\* implements its ledger, writes failing or not: a set grows only where an earlier cold
\* moment, or a deferred one, has paid for it, and only a death shrinks it, to what is on
\* disk.
THEOREM LedgerKept ==
  ASSUME OneWorker, OneLifetime, Roomy, ~CanAudit, ~CanFailOpen, ~CanMisread
  PROVE  Spec => KeepsLedger
  <1> DEFINE Inv == NoAudit /\ NoOrphan /\ Counted /\ Cooling /\ Answered /\ OneChooses
  <1>1. Init => Inv
    <2> SUFFICES ASSUME Init PROVE Inv
      OBVIOUS
    <2>1. NoOrphan /\ Counted
      BY KeptInit
    <2>2. NoAudit /\ Cooling
      BY CoolingInit
    <2>3. ASSUME NEW p \in Proc, NEW k \in Lineage PROVE states[p][k] = NONE
      BY DEF Init
    <2>4. ASSUME NEW t \in Thread PROVE pc[t] = "idle"
      BY DEF Init
    <2>5. Answered /\ OneChooses
      BY <2>3, <2>4 DEF Answered, OneChooses, Serving
    <2>6. QED
      BY <2>1, <2>2, <2>5
  <1>2. TypeOK /\ Held /\ Inv /\ [Next]_vars => Inv'
    BY NoAuditStep, NoOrphanStep, CountedStep, CoolingStep, AnsweredStep, OneChoosesStep
  <1>3. Init => Ledger!Init
    <2> SUFFICES ASSUME Init PROVE Ledger!Init
      OBVIOUS
    <2>1. Worker \in Proc
      BY ColdpointAssumption DEF Worker
    <2>2. \A k \in Lineage : states[Worker][k] = NONE /\ disk[k] = {} /\ gone[k] = 0
      BY <2>1 DEF Init
    <2>3. Forwarded = [k \in Lineage |-> {}] /\ Due = {}
      BY <2>2 DEF Forwarded, Due
    <2>4. \A k \in Lineage : ~ProviderMayHold(k)
      <3>1. clock = 0 /\ \A t \in Thread : pc[t] = "idle"
        BY DEF Init
      <3>2. \A t \in Thread : ~Live(t)
        BY <3>1 DEF Live
      <3>3. \A k \in Lineage : ~(clock < gone[k])
        BY <2>2, <3>1
      <3>4. QED
        BY <3>2, <3>3 DEF ProviderMayHold
    <2>5. QED
      BY <2>3, <2>4 DEF Ledger!Init
  <1>4. TypeOK /\ Held /\ Inv /\ [Next]_vars => [Ledger!Next]_(Ledger!vars)
    BY LedgerStep
  <1>5. QED
    BY <1>1, <1>2, <1>3, <1>4, Typed, PTL DEF Spec, KeepsLedger, Ledger!Spec
=============================================================================
