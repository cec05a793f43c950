------------------------------ MODULE Coldpoint ------------------------------
(***************************************************************************)
(* The state half of cold-point recompression, src/distil/coldpoint.py.    *)
(*                                                                         *)
(* A request of a conversation ("lineage") asks plan() which tool_use ids  *)
(* to replace by stubs.  plan() adds ids to the lineage's set only on a    *)
(* turn at which the provider's prompt cache of the lineage has surely     *)
(* expired.  Handler threads, the shadow replays and audits they start,    *)
(* and several worker processes (hot-swap) interleave at the two critical  *)
(* sections of plan() and around the persisted file coldpoint.json.        *)
(***************************************************************************)
EXTENDS Integers, FiniteSets

CONSTANTS
  Proc,          \* worker processes; each has its own _STATES
  Thread,        \* threads: a handler, a shadow replay or an audit at a time
  Lineage,       \* lineage keys (account scope + prefixreplay.lineage_key)
  Conv,          \* conversations a client can hold under one lineage key
  Shared,        \* length of the head all conversations of a key have in common
  Length,        \* numbers of messages a request can carry
  Id,            \* tool_use ids that can be evicted
  Turn,          \* the message of the list that carries the result of an id
  Recent,        \* how many last messages may go out verbatim (RECENCY_KEEP_TURNS)
  TTL,           \* cache lifetimes a request can ask for
  InfTTL,        \* the lifetime that cannot be parsed (math.inf)
  Extension,     \* what ttl_estimator may add to a documented lifetime
  Margin,        \* MARGIN_S
  MaxLineages,   \* _MAX_LINEAGES, the LRU bound of _STATES
  MaxTime,       \* bound: the last instant of the clock
  CanCrash,      \* may a worker die and be respawned?
  CanFail,       \* may writing coldpoint.json fail (it is fail-open)?
  CanMisread,    \* may reading coldpoint.json fail (the copy in memory stands in)?
  CanAudit,      \* is `distil audit` replaying what was served?
  CanFailOpen,   \* may planning or compressing fail, so that the originals go out?
  Sticky,        \* sticky_evict: no verbatim mode, hold or Edit quote un-evicts
  NONE           \* no state, no request

ASSUME ColdpointAssumption ==
  /\ Proc # {} /\ IsFiniteSet(Thread) /\ IsFiniteSet(Lineage)
  /\ Shared \in Nat /\ Length \subseteq Nat /\ MaxTime \in Nat /\ Margin \in Nat
  /\ TTL \subseteq Nat /\ Extension \subseteq Nat
  /\ InfTTL \in Nat /\ \A t \in TTL : t <= InfTTL
  /\ MaxLineages \in Nat \ {0}
  /\ Turn \in [Id -> Nat] /\ Recent \in Nat
  /\ CanCrash \in BOOLEAN /\ CanFail \in BOOLEAN /\ CanMisread \in BOOLEAN
  /\ CanAudit \in BOOLEAN /\ CanFailOpen \in BOOLEAN /\ Sticky \in BOOLEAN

VARIABLES
  clock,   \* the monotonic clock (_clock)
  disk,    \* coldpoint.json: lineage -> persisted ids
  cache,   \* _CACHE: each worker's parsed copy of coldpoint.json
  states,  \* _STATES: worker -> lineage -> _State, or NONE
  older,   \* the order of _STATES: <<j, k>> when j was planned last before k was
  pc,      \* where each thread is
  body,    \* the request a thread serves or replays
  seen,    \* `persisted`: what plan() read from disk before its lock
  evict,   \* Plan.evict; once sent, the ids that went out as stubs
  reason,  \* Plan.reason
  orphan,  \* the _State a thread took hold of in plan() left _STATES since
  wire,    \* history: lineage -> ids forwarded as stubs so far
  lost,    \* history: lineage -> ids whose write failed, was cut or was undone
  floor,   \* history: wire of the lineage when the request arrived
  gone     \* history: lineage -> first instant the provider surely forgot it

vars == <<clock, disk, cache, states, older, pc, body, seen, evict, reason, orphan, wire,
          lost, floor, gone>>

-----------------------------------------------------------------------------
(* Data.                                                                   *)

Body == [proc : Proc, lin : Lineage, conv : Conv, len : Length, ttl : TTL, at : Nat]

\* served is history: the message lists planned on this state.
State == [last : Nat, n : Length, tail : Conv, ttl : TTL, inflight : Nat,
          evicted : SUBSET Id, ambiguous : BOOLEAN, pending : BOOLEAN,
          served : SUBSET (Conv \X Length)]

ASSUME NoneAssumption == NONE \notin State /\ NONE \notin Body

Reason == {"", "first-seen", "warm", "cold", "ambiguous", "inflight", "held",
           "unknown-ttl", "deferred", "deferred-cold"}

Later(a, b) == IF a >= b THEN a ELSE b

\* Conversations c and d have the same i-th message.
SameMessage(c, d, i) == c = d \/ i <= Shared

\* Mutant: the last message is not compared.
ExtendsByLength(s, b) == 0 < s.n /\ s.n <= b.len

\* The request's message list is a continuation of the last one seen (line 400).
Extends(s, b) == 0 < s.n /\ s.n <= b.len /\ SameMessage(s.tail, b.conv, s.n)

\* What the state learns from the request before the verdict (lines 400-403).
Updated(s, b) == [s EXCEPT !.ambiguous = @ \/ ~Extends(s, b), !.ttl = Later(@, b.ttl)]

\* The reason of plan(), in the code's order (lines 406-419), for a state already
\* updated with this request; eff is the lifetime to wait out.
Verdict(s, b, held, eff) ==
  IF s.ambiguous THEN "ambiguous"
  ELSE IF s.inflight > 0 THEN "inflight"
  ELSE IF held THEN "held"
  ELSE IF s.ttl = InfTTL THEN "unknown-ttl"
  ELSE IF b.at - s.last > eff + Margin THEN "cold"
  ELSE IF s.pending THEN "deferred-cold"
  ELSE "warm"

Known(p) == {k \in Lineage : states[p][k] # NONE}

\* _STATES' order without the lineages ks.
Without(p, ks) == {e \in older[p] : e[1] \notin ks /\ e[2] \notin ks}

\* Lineage k is moved (or put) to the recent end.
MoveToEnd(p, k, order) == order \cup {<<j, k>> : j \in Known(p) \ {k}}

\* What a new lineage k pushes out of _STATES: the least recently planned one.
Dropped(p, k) ==
  IF Cardinality(Known(p) \cup {k}) > MaxLineages
  THEN {j \in Known(p) : \A i \in Known(p) : <<i, j>> \notin older[p]}
  ELSE {}

NewState(b, ids) ==
  [last |-> b.at, n |-> b.len, tail |-> b.conv, ttl |-> b.ttl, inflight |-> 1,
   evicted |-> ids, ambiguous |-> FALSE, pending |-> FALSE,
   served |-> {<<b.conv, b.len>>}]

-----------------------------------------------------------------------------
(* The provider's prompt cache, as the code knows it (external).           *)

\* The thread's exchange with the provider can refresh the cache until it ends.
Live(t) == pc[t] \in {"sent", "shadow", "audit", "bare"}

\* The provider may still hold the lineage's prefix: someone is talking to it for
\* the lineage, or did so less than the lifetime asked for (plus clock skew) ago.
ProviderMayHold(k) ==
  \/ clock < gone[k]
  \/ \E t \in Thread : Live(t) /\ body[t].lin = k

\* The thread's exchange with the provider is over.
LastUse(t) ==
  gone' = [gone EXCEPT ![body[t].lin] = Later(@, clock + body[t].ttl + Margin + 1)]

-----------------------------------------------------------------------------
Init ==
  /\ clock = 0
  /\ disk = [k \in Lineage |-> {}]
  /\ cache = [p \in Proc |-> [k \in Lineage |-> {}]]
  /\ states = [p \in Proc |-> [k \in Lineage |-> NONE]]
  /\ older = [p \in Proc |-> {}]
  /\ pc = [t \in Thread |-> "idle"]
  /\ body = [t \in Thread |-> NONE]
  /\ seen = [t \in Thread |-> {}]
  /\ evict = [t \in Thread |-> {}]
  /\ reason = [t \in Thread |-> ""]
  /\ orphan = [t \in Thread |-> FALSE]
  /\ wire = [k \in Lineage |-> {}]
  /\ lost = [k \in Lineage |-> {}]
  /\ floor = [t \in Thread |-> {}]
  /\ gone = [k \in Lineage |-> 0]

\* _persisted: a file that cannot be read leaves the copy parsed last.
Readings(p) == {disk} \cup {c \in {cache[p]} : CanMisread}

\* The copy is kept here only where it can be used.
Remember(p, r) == cache' = IF CanMisread THEN [cache EXCEPT ![p] = r] ELSE cache

\* Mutant: nothing is read back.
PersistedNever(r, k) == {}

\* _load
Persisted(r, k) == r[k]

\* plan() up to its first lock: the clock is read, and a lineage this worker does
\* not know is looked up on disk.  A disk read that comes later than the test of
\* _STATES can only find more ids, so the two are one step.
Arrive(t, b) ==
  /\ pc[t] = "idle"
  /\ pc' = [pc EXCEPT ![t] = "peeked"]
  /\ body' = [body EXCEPT ![t] = b]
  /\ \/ /\ states[b.proc][b.lin] = NONE
        /\ \E r \in Readings(b.proc) : /\ seen' = [seen EXCEPT ![t] = Persisted(r, b.lin)]
                                       /\ Remember(b.proc, r)
     \/ /\ states[b.proc][b.lin] # NONE
        /\ seen' = [seen EXCEPT ![t] = {}] /\ UNCHANGED cache
  /\ floor' = [floor EXCEPT ![t] = wire[b.lin]]
  /\ UNCHANGED <<clock, disk, states, older, evict, reason, orphan, wire, lost, gone>>

\* _cold_plan: planning raised; the request goes out as if nothing had been evicted,
\* and nobody will call end() for it.
PlanFails(t) ==
  /\ CanFailOpen /\ pc[t] = "peeked"
  /\ pc' = [pc EXCEPT ![t] = "bare"]
  /\ seen' = [seen EXCEPT ![t] = {}]
  /\ UNCHANGED <<clock, disk, cache, states, older, body, evict, reason, orphan, wire, lost,
                 floor, gone>>

\* The lineage's state leaves _STATES of worker p while a thread is between the two
\* critical sections of plan(): the object it holds is nobody else's from now on.
Orphaned(p, dropped) ==
  orphan' = [t \in Thread |->
               orphan[t] \/ (/\ pc[t] = "choosing"
                             /\ body[t].proc = p /\ body[t].lin \in dropped)]

\* The first critical section, lineage unknown: create the state, drop the least
\* recently planned lineage past the bound, re-apply what was on disk.
FirstSeen(t) ==
  LET b == body[t]
      dropped == Dropped(b.proc, b.lin)
  IN /\ pc[t] = "peeked" /\ states[b.proc][b.lin] = NONE
     /\ states' = [states EXCEPT ![b.proc] = [k \in Lineage |->
                     IF k = b.lin THEN NewState(b, seen[t])
                     ELSE IF k \in dropped THEN NONE ELSE @[k]]]
     /\ older' = [older EXCEPT ![b.proc] =
                    {e \in MoveToEnd(b.proc, b.lin, @) : e[1] \notin dropped}]
     /\ Orphaned(b.proc, dropped)
     /\ evict' = [evict EXCEPT ![t] = seen[t]]
     /\ seen' = [seen EXCEPT ![t] = {}]
     /\ reason' = [reason EXCEPT ![t] = "first-seen"]
     /\ pc' = [pc EXCEPT ![t] = "ready"]
     /\ UNCHANGED <<clock, disk, cache, body, wire, lost, floor, gone>>

\* The first critical section, lineage known.  held is the drift guard's hook, ext
\* what the TTL estimator has learned.
Decide(t, held, ext) ==
  LET b == body[t]
      old == states[b.proc][b.lin]
      s == Updated(old, b)
      why == Verdict(s, b, held, s.ttl + ext)
  IN /\ pc[t] = "peeked" /\ old # NONE
     /\ states' = [states EXCEPT ![b.proc][b.lin] =
                     [s EXCEPT !.last = Later(@, b.at), !.n = b.len, !.tail = b.conv,
                               !.inflight = @ + 1, !.served = @ \cup {<<b.conv, b.len>>}]]
     /\ older' = [older EXCEPT ![b.proc] =
                    MoveToEnd(b.proc, b.lin, Without(b.proc, {b.lin}))]
     /\ reason' = [reason EXCEPT ![t] = why]
     /\ evict' = [evict EXCEPT ![t] = s.evicted]
     /\ seen' = [seen EXCEPT ![t] = {}]
     /\ pc' = [pc EXCEPT ![t] = IF why \in {"cold", "deferred-cold"} THEN "choosing" ELSE "ready"]
     /\ UNCHANGED <<clock, disk, cache, body, orphan, wire, lost, floor, gone>>

\* The second critical section writes the lineage's state, or the orphan that only
\* this thread still sees.
Evicted(t) == IF orphan[t] THEN evict[t] ELSE states[body[t].proc][body[t].lin].evicted

\* Mutant: a deferral is never cleared.
SettlePending(t, ids, pending) ==
  /\ states' = IF orphan[t] THEN states
               ELSE [states EXCEPT ![body[t].proc][body[t].lin].evicted = ids,
                                   ![body[t].proc][body[t].lin].pending = @ \/ pending]
  /\ evict' = [evict EXCEPT ![t] = ids]
  /\ orphan' = [orphan EXCEPT ![t] = FALSE]

Settle(t, ids, pending) ==
  /\ states' = IF orphan[t] THEN states
               ELSE [states EXCEPT ![body[t].proc][body[t].lin].evicted = ids,
                                   ![body[t].proc][body[t].lin].pending = pending]
  /\ evict' = [evict EXCEPT ![t] = ids]
  /\ orphan' = [orphan EXCEPT ![t] = FALSE]

AfterCommit(fresh) == IF fresh = {} THEN "ready" ELSE "persisting"

\* The result of i is in the request and older than the turns that go out verbatim.
Old(i, b) == Turn[i] + Recent <= b.len

\* The candidates (and what extend() adds) were chosen outside the lock, less what
\* was evicted when the first section ended, which evict[t] holds until now.
Commit(t, fresh) ==
  /\ pc[t] = "choosing"
  /\ fresh \cap evict[t] = {} /\ \A i \in fresh : Old(i, body[t])
  /\ Settle(t, Evicted(t) \cup fresh, FALSE)
  /\ pc' = [pc EXCEPT ![t] = AfterCommit(fresh)]
  /\ UNCHANGED <<clock, disk, cache, older, body, seen, reason, wire, lost, floor, gone>>

\* extend() refused a non-empty choice on this turn: every later turn retries.
Defer(t) ==
  /\ pc[t] = "choosing"
  /\ \E i \in Id \ evict[t] : Old(i, body[t])
  /\ Settle(t, Evicted(t), TRUE)
  /\ reason' = [reason EXCEPT ![t] = "deferred"]
  /\ pc' = [pc EXCEPT ![t] = "ready"]
  /\ UNCHANGED <<clock, disk, cache, older, body, seen, wire, lost, floor, gone>>

\* Mutant: the lineage's set is replaced.
MergedBlindly(r, k, ids) == [r EXCEPT ![k] = ids]

Merged(r, k, ids) == [r EXCEPT ![k] = @ \cup ids]

\* _persist() under the file lock: the copy read is merged and written whole, unless the
\* merge adds nothing.  A copy that was not the file takes back what others wrote.
Saved(t, r) ==
  LET k == body[t].lin
      copy == Merged(r, k, evict[t])
      written == IF copy = r THEN disk ELSE copy
      undone == [j \in Lineage |-> (disk[j] \cup (IF j = k THEN evict[t] ELSE {})) \ written[j]]
  IN /\ disk' = written
     /\ Remember(body[t].proc, copy)
     /\ lost' = IF r = disk THEN lost ELSE [j \in Lineage |-> lost[j] \cup undone[j]]

\* It is fail-open.
NotSaved(t, r) ==
  /\ CanFail
  /\ Remember(body[t].proc, r)
  /\ lost' = [lost EXCEPT ![body[t].lin] = @ \cup (evict[t] \ disk[body[t].lin])]
  /\ UNCHANGED disk

Persist(t) ==
  /\ pc[t] = "persisting"
  /\ \E r \in Readings(body[t].proc) : Saved(t, r) \/ NotSaved(t, r)
  /\ pc' = [pc EXCEPT ![t] = "ready"]
  /\ UNCHANGED <<clock, states, older, body, seen, evict, reason, orphan, wire, floor, gone>>

\* Which ids of its set a request may carry as stubs.  An id still (or, after a rewind,
\* again) in the recent turns may go out verbatim.  Of the others a verbatim request, a
\* hold or an Edit that quotes a result exempts any, except on a preserved-thinking
\* model; a compressor or a restore store that fails sends originals on every model.
Rendered(t) ==
  {shown \in SUBSET evict[t] :
     Sticky /\ ~CanFailOpen => {i \in evict[t] : Old(i, body[t])} \subseteq shown}

\* The request goes to the provider.
Send(t) ==
  /\ pc[t] = "ready"
  /\ pc' = [pc EXCEPT ![t] = "sent"]
  /\ \E shown \in Rendered(t) :
       /\ evict' = [evict EXCEPT ![t] = shown]
       /\ wire' = [wire EXCEPT ![body[t].lin] = @ \cup shown]
  /\ UNCHANGED <<clock, disk, cache, states, older, body, seen, reason, orphan, lost, floor, gone>>

\* Mutant: the clock of the lineage is not moved on.
TouchStale(b, delta) ==
  states' = IF states[b.proc][b.lin] = NONE THEN states
            ELSE [states EXCEPT ![b.proc][b.lin].inflight = Later(0, @ + delta)]

\* _touch(): the in-flight count of whatever state the lineage has NOW.
Touch(b, delta) ==
  states' = IF states[b.proc][b.lin] = NONE THEN states
            ELSE [states EXCEPT ![b.proc][b.lin].inflight = Later(0, @ + delta),
                                ![b.proc][b.lin].last = Later(@, clock)]

\* The thread is done with its request.
Reset(t) ==
  /\ pc' = [pc EXCEPT ![t] = "idle"]
  /\ body' = [body EXCEPT ![t] = NONE]
  /\ evict' = [evict EXCEPT ![t] = {}]
  /\ reason' = [reason EXCEPT ![t] = ""]
  /\ floor' = [floor EXCEPT ![t] = {}]
  /\ UNCHANGED <<clock, disk, cache, older, seen, orphan, wire, lost>>

\* do_POST's `finally`: end(), once the response was relayed or when the request
\* failed before it was forwarded; also the end of a shadow replay.
Finish(t) ==
  /\ pc[t] \in {"ready", "sent", "shadow"}
  /\ Touch(body[t], -1)
  /\ IF Live(t) THEN LastUse(t) ELSE UNCHANGED gone
  /\ Reset(t)

\* A background thread u takes over what handler t served.
Spawn(t, u, kind) ==
  /\ pc[u] = "idle"
  /\ pc' = [pc EXCEPT ![u] = kind]
  /\ body' = [body EXCEPT ![u] = body[t]]
  /\ UNCHANGED <<clock, disk, cache, older, seen, evict, reason, orphan, wire, lost, floor, gone>>

\* Mutant: the replay is not counted as in flight.
StartShadowUncounted(t, u) == pc[t] = "sent" /\ Spawn(t, u, "shadow") /\ UNCHANGED states

\* _spawn_shadow: begin() in the handler, before the handler's end().
StartShadow(t, u) == pc[t] = "sent" /\ Spawn(t, u, "shadow") /\ Touch(body[t], 1)

\* _spawn_audit posts the served body again, outside begin() and end(); and the replay
\* of a request without a plan has no lineage to begin.
StartUncounted(t, u) ==
  /\ \/ CanAudit /\ pc[t] \in {"sent", "bare"} /\ Spawn(t, u, "audit")
     \/ pc[t] = "bare" /\ Spawn(t, u, "bare")
  /\ UNCHANGED states

\* The end of what was never counted.
EndUncounted(t) ==
  /\ pc[t] \in {"audit", "bare"}
  /\ LastUse(t) /\ Reset(t)
  /\ UNCHANGED states

\* The threads that are writing ids of lineage k.
Writers(k) == {t \in Thread : pc[t] = "persisting" /\ body[t].lin = k}

\* A worker dies and is respawned: its memory and its threads are gone.
Crash(p) ==
  LET hit == {t \in Thread : pc[t] # "idle" /\ body[t].proc = p}
      open == {t \in hit : Live(t)}
      cut(k) == (UNION {evict[t] : t \in hit \cap Writers(k)}) \ disk[k]
      ends(k) == {gone[k]} \cup
                 {clock + body[t].ttl + Margin + 1 : t \in {u \in open : body[u].lin = k}}
  IN /\ CanCrash /\ Known(p) \cup hit # {}
     /\ states' = [states EXCEPT ![p] = [k \in Lineage |-> NONE]]
     /\ older' = [older EXCEPT ![p] = {}]
     /\ cache' = [cache EXCEPT ![p] = [k \in Lineage |-> {}]]
     /\ pc' = [t \in Thread |-> IF t \in hit THEN "idle" ELSE pc[t]]
     /\ body' = [t \in Thread |-> IF t \in hit THEN NONE ELSE body[t]]
     /\ seen' = [t \in Thread |-> IF t \in hit THEN {} ELSE seen[t]]
     /\ evict' = [t \in Thread |-> IF t \in hit THEN {} ELSE evict[t]]
     /\ reason' = [t \in Thread |-> IF t \in hit THEN "" ELSE reason[t]]
     /\ orphan' = [t \in Thread |-> orphan[t] /\ t \notin hit]
     /\ floor' = [t \in Thread |-> IF t \in hit THEN {} ELSE floor[t]]
     /\ gone' \in [Lineage -> UNION {ends(k) : k \in Lineage}]
     /\ \A k \in Lineage : gone'[k] \in ends(k) /\ \A e \in ends(k) : e <= gone'[k]
     /\ lost' = [k \in Lineage |-> lost[k] \cup cut(k)]
     /\ UNCHANGED <<clock, disk, wire>>

Tick ==
  /\ clock < MaxTime
  /\ clock' = clock + 1
  /\ UNCHANGED <<disk, cache, states, older, pc, body, seen, evict, reason, orphan, wire, lost,
                 floor, gone>>

\* What a request with a plan does, and its shadow.
Planned(t) ==
  \/ \E p \in Proc, k \in Lineage, c \in Conv, l \in Length, x \in TTL :
       Arrive(t, [proc |-> p, lin |-> k, conv |-> c, len |-> l, ttl |-> x, at |-> clock])
  \/ FirstSeen(t)
  \/ \E held \in BOOLEAN, ext \in Extension : Decide(t, held, ext)
  \/ \E fresh \in SUBSET Id : Commit(t, fresh)
  \/ Defer(t)
  \/ Persist(t)
  \/ Send(t)
  \/ Finish(t)
  \/ \E u \in Thread : StartShadow(t, u)

\* What is exchanged with the provider outside begin() and end().
Unplanned(t) == PlanFails(t) \/ (\E u \in Thread : StartUncounted(t, u)) \/ EndUncounted(t)

\* The threads that do so: none where nothing is audited and planning never raises.
Outsiders == {t \in Thread : CanAudit \/ CanFailOpen}

Next ==
  \/ Tick
  \/ \E t \in Thread : Planned(t)
  \/ \E t \in Outsiders : Unplanned(t)
  \/ \E p \in Proc : Crash(p)

Spec == Init /\ [][Next]_vars

-----------------------------------------------------------------------------
(* Properties.                                                             *)

TypeOK ==
  /\ clock \in Nat
  /\ disk \in [Lineage -> SUBSET Id]
  /\ cache \in [Proc -> [Lineage -> SUBSET Id]]
  /\ states \in [Proc -> [Lineage -> State \cup {NONE}]]
  /\ older \in [Proc -> SUBSET (Lineage \X Lineage)]
  /\ pc \in [Thread -> {"idle", "peeked", "choosing", "persisting", "ready", "sent",
                         "shadow", "audit", "bare"}]
  /\ body \in [Thread -> Body \cup {NONE}]
  /\ \A t \in Thread : pc[t] # "idle" => body[t] \in Body
  /\ seen \in [Thread -> SUBSET Id]
  /\ evict \in [Thread -> SUBSET Id]
  /\ reason \in [Thread -> Reason]
  /\ orphan \in [Thread -> BOOLEAN]
  /\ wire \in [Lineage -> SUBSET Id]
  /\ lost \in [Lineage -> SUBSET Id]
  /\ floor \in [Thread -> SUBSET Id]
  /\ gone \in [Lineage -> Nat]

BecomesCold(t) == reason[t] # "cold" /\ reason'[t] = "cold"

\* A turn is called cold only when nothing distil sent for the lineage can still be
\* in the provider's cache (docstring lines 15-27).
ColdOnlyWhenExpired ==
  [][\A t \in Thread : BecomesCold(t) => ~ProviderMayHold(body[t].lin)]_vars

\* A turn is cold only if it continues every message list planned on the lineage's
\* state: two conversations under one key, a rewind or a fork can only make distil
\* evict less (docstring lines 24-30).
ColdIsOneConversation ==
  [][\A t \in Thread : BecomesCold(t) =>
       \A m \in states[body[t].proc][body[t].lin].served :
         m[2] <= body[t].len /\ SameMessage(m[1], body[t].conv, m[2])]_vars

\* What request t owes the cached prefix: the ids that were on the wire as stubs when it
\* arrived, whose results are in it and past the recent turns, unless their record
\* failed, was cut or was undone.
Owed(t) == {i \in floor[t] \ lost[body[t].lin] : Old(i, body[t])}

\* Once an id is on the wire as a stub, every request that arrives later carries the stub:
\* the prefix the provider caches is never un-evicted (docstring line 32, and the doc of
\* _persist for restarts).  The promise of a preserved-thinking model while nothing fails
\* open: "once out, out for good" (serve_core.py, where sticky_evict is set).
EvictedStaysEvicted ==
  \A t \in Thread : pc[t] \in {"sent", "bare"} => Owed(t) \subseteq evict[t]

\* The thread serves a request that plan() has counted, and has not ended it.
Serving(t) == pc[t] \in {"choosing", "persisting", "ready", "sent"}

\* The thread holds its lineage in flight: a request or a shadow replay.
Counts(t) == Serving(t) \/ pc[t] = "shadow"

\* The threads of worker p that hold lineage k in flight.
Open(p, k) == {t \in Thread : Counts(t) /\ body[t].proc = p /\ body[t].lin = k}

\* The in-flight count of a lineage is the number of its open requests and replays.
InflightExact ==
  \A p \in Proc, k \in Lineage :
    states[p][k] # NONE => states[p][k].inflight = Cardinality(Open(p, k))

Writing(k) == UNION {evict[t] : t \in Writers(k)}

\* What is known of lineage k outside of one worker's memory, or was known and got lost.
Recorded(k) == disk[k] \cup Writing(k) \cup lost[k]

\* Every id on the wire is on disk or on its way there, so that a restart, a hot-swap or
\* an LRU drop finds it again: only a write that failed, that a death cut short, or that
\* another worker undid from a stale copy leaves an id of the wire unrecorded.
WireIsDurable == \A k \in Lineage : wire[k] \subseteq Recorded(k)

\* "The set on the wire must outlive the process" (doc of _persist), to the letter.  It
\* does not: plan() publishes the grown set before it writes it, another request of the
\* lineage forwards the new stubs, and a death then finds the write not done.
WireOutlivesWorker == \A k \in Lineage : wire[k] \subseteq disk[k] \cup Writing(k)

-----------------------------------------------------------------------------
(* Why the properties hold: the parts of the inductive invariant.          *)

\* A thread between the two critical sections of plan() holds a _State, its own or
\* the one in _STATES.
Held == \A t \in Thread :
          pc[t] = "choosing" /\ ~orphan[t] => states[body[t].proc][body[t].lin] # NONE

\* A state that is not ambiguous has only seen prefixes of its last message list.
Straight ==
  \A p \in Proc, k \in Lineage :
    states[p][k] # NONE /\ ~states[p][k].ambiguous =>
      \A m \in states[p][k].served :
        m[2] <= states[p][k].n /\ SameMessage(m[1], states[p][k].tail, m[2])

\* The in-flight count is exact, and an open thread's lineage is known.
Counted ==
  \A p \in Proc, k \in Lineage :
    /\ states[p][k] = NONE => Open(p, k) = {}
    /\ states[p][k] # NONE => states[p][k].inflight = Cardinality(Open(p, k))

\* The provider has forgotten at time g what was last used at `since`.
Within(g, since, ttl) == g <= since + ttl + Margin + 1

\* A lineage's `last` and `ttl` bound the time at which the provider forgets it.
Cooling ==
  /\ \A p \in Proc, k \in Lineage :
       /\ states[p][k] = NONE => \A x \in TTL : Within(gone[k], clock, x)
       /\ states[p][k] # NONE => /\ states[p][k].last <= clock
                                 /\ Within(gone[k], states[p][k].last, states[p][k].ttl)
  /\ \A t \in Thread : pc[t] # "idle" => body[t].at <= clock
  /\ \A t \in Thread : Counts(t) =>
       body[t].ttl <= states[body[t].proc][body[t].lin].ttl
  /\ \A t \in Thread : pc[t] = "peeked" /\ states[body[t].proc][body[t].lin] = NONE =>
       Within(gone[body[t].lin], body[t].at, body[t].ttl)

\* Whoever answers for a lineage, its state, the file or a thread that has read the
\* file, knows every id on the wire whose record was not lost.
Kept ==
  /\ \A p \in Proc, k \in Lineage :
       wire[k] \ lost[k] \subseteq
         IF states[p][k] = NONE THEN disk[k] ELSE states[p][k].evicted
  /\ \A t \in Thread : pc[t] = "peeked" =>
       /\ floor[t] \subseteq wire[body[t].lin]
       /\ states[body[t].proc][body[t].lin] = NONE =>
            wire[body[t].lin] \ lost[body[t].lin] \subseteq seen[t]
  /\ \A t \in Thread : Serving(t) =>
       Owed(t) \subseteq evict[t] /\ evict[t] \subseteq states[body[t].proc][body[t].lin].evicted

\* What was forwarded, and what a worker or a thread holds or has read, is recorded.
Durable ==
  \A k \in Lineage :
    /\ wire[k] \subseteq Recorded(k)
    /\ \A p \in Proc : /\ cache[p][k] \subseteq Recorded(k)
                       /\ states[p][k] # NONE => states[p][k].evicted \subseteq Recorded(k)
    /\ \A t \in Thread : /\ pc[t] = "peeked" /\ body[t].lin = k => seen[t] \subseteq Recorded(k)
                         /\ Serving(t) /\ body[t].lin = k => evict[t] \subseteq Recorded(k)

-----------------------------------------------------------------------------
(* The promise, for one worker: the set a lineage forwards is its state's, *)
(* or what is on disk while the worker does not know the lineage.          *)

Worker == CHOOSE p \in Proc : TRUE

Forwarded == [k \in Lineage |-> IF states[Worker][k] = NONE THEN disk[k]
                                ELSE states[Worker][k].evicted]

Choosing(k) == \E t \in Thread : pc[t] = "choosing" /\ body[t].lin = k

Due == {k \in Lineage : /\ states[Worker][k] # NONE
                        /\ Choosing(k) \/ states[Worker][k].pending}

Ledger == INSTANCE EvictionLedger
            WITH evicted <- Forwarded, licensed <- Due,
                 hot <- {k \in Lineage : ProviderMayHold(k)}

\* A growth of the set is paid for by an earlier moment at which the provider had
\* forgotten the lineage, also when it is deferred; only a death shrinks the set.
KeepsLedger == Ledger!Spec
=============================================================================
