------------------------------ MODULE Requests ------------------------------
(***************************************************************************)
(* One conversation on a preserved-thinking model through the proxy: the   *)
(* client's turns, compress_or_forward() of src/distil/serve_core.py       *)
(* (compressor, prefix replay, thinking guard), the provider, and the loop *)
(* of src/distil/expand.py that answers distil_expand behind the client's  *)
(* back.  The client may give up on a request and send the turn again,     *)
(* regenerate, or edit its history; workers hand over and die.             *)
(*                                                                         *)
(* A turn is what the user side sends (u counts its edits), the request    *)
(* that answered it (a) and how that answer was put together (x).  A       *)
(* request r that is answered makes the thinking block 2r, and 2r+1 for    *)
(* what comes after a hidden round.                                        *)
(***************************************************************************)
EXTENDS ThinkGuard, PrefixReplay

CONSTANTS
  MaxIters,   \* max_iters of the expand loop
  MaxReqs,    \* bound: requests the client sends
  MaxTurns,   \* bound: turns of the conversation
  MaxOdds,    \* bound: requests given up, turns regenerated, messages edited, hand-overs,
              \* deaths, failed writes, failed compressions, refusals, odd histories
  MaxEvents   \* bound: those and the requests together

ASSUME RequestsAssumption ==
  /\ Proc \subseteq Nat /\ Proc # {} /\ Slack \in Int /\ NoBlock = 0
  /\ MaxIters \in Nat /\ MaxReqs \in Nat /\ MaxTurns \in Nat
  /\ MaxOdds \in Nat /\ MaxEvents \in Nat

VARIABLES
  hist,     \* the client's history: turns
  live,     \* the request the client waits for, 0: none
  req,      \* the requests sent so far
  serving,  \* the worker that takes new requests
  lin,      \* the lineage each worker remembers
  evicted,  \* what cold turns took out for good: items and thinking blocks
  prod,     \* what the provider bound each block to: the prefix and the block before; and the
            \* client's prefix
  removed,  \* blocks the guard or the expand loop took out
  odds, disturbed  \* the bound's counter; something other than plain turns happened

clientVars == <<hist, live>>
worldVars == <<serving, odds, disturbed>>
provider == <<prod, removed>>
vars == <<guardVars, clientVars, req, worldVars, lin, evicted, provider>>

-----------------------------------------------------------------------------
(* Requests as sequences of items: user, assistant, user, ...  A user's has *)
(* the form it goes out in, an assistant's the thinking blocks it has.     *)

Open(u) == [u |-> u, a |-> 0, x |-> "plain"]

\* The thinking blocks of an answered turn: a spliced stream shows the first answer's and
\* the continuation's, a buffered loop the last answer's only.
Blocks(t) ==
  CASE t.x = "plain" -> {2 * t.a}
    [] t.x = "spliced" -> {2 * t.a, 2 * t.a + 1}
    [] t.x = "requeried" -> {2 * t.a + 1}

User(j) == j % 2 = 1
TurnOf(j) == (j + 1) \div 2
Items(turns) == 1..(2 * Len(turns) - 1)

\* canonical() of each item the client sends.
Canon(turns) ==
  [j \in Items(turns) |->
     IF User(j) THEN <<turns[TurnOf(j)].u>> ELSE <<turns[TurnOf(j)].a, turns[TurnOf(j)].x>>]

\* The prefix before turn k's answer (_walk): tools, then the items in the form they have.
\* Thinking is no part of it, and a tool list without distil_expand is another prefix.
Prefix(tools, turns, fwd, k) ==
  <<<<tools>>>> \o
  [j \in 1..(2 * k - 1) |->
     IF User(j) THEN <<turns[TurnOf(j)].u, fwd[j]>> ELSE <<turns[TurnOf(j)].a>>]

Raw(turns) == [j \in Items(turns) |-> IF User(j) THEN "raw" ELSE Blocks(turns[TurnOf(j)])]
ClientPrefix(turns, k) == Prefix("client's", turns, Raw(turns), k)

\* The places of the thinking blocks in a forwarded body.
Place(turns, fwd, k, b) ==
  LET ahead == {c \in Blocks(turns[k]) : c < b}
      within == IF ahead = {} THEN << >> ELSE <<<<turns[k].a>>>>
  IN [k |-> k, b |-> b, base |-> ClientPrefix(turns, k), within |-> within,
      o |-> ClientPrefix(turns, k) \o within,
      f |-> Prefix("with distil_expand", turns, fwd, k) \o within,
      before |-> IF ahead = {} THEN NoBlock ELSE Max(ahead)]

Places(turns, fwd) ==
  UNION {{Place(turns, fwd, k, b) : b \in fwd[2 * k]} : k \in 1..(Len(turns) - 1)}

-----------------------------------------------------------------------------
Idle == [st |-> "done"]
Active(r) == r \in DOMAIN req /\ req[r].st # "done"

\* A request holds the guard's lock of its process.
Locked(p) == \E r \in DOMAIN req : Active(r) /\ req[r].st \in {"judged", "tainted"} /\ req[r].p = p

Init ==
  /\ GuardInit
  /\ hist = << >> /\ live = 0 /\ req = << >> /\ prod = << >>
  /\ serving = Min(Proc) /\ lin = [p \in Proc |-> Cold]
  /\ evicted = [items |-> {}, blocks |-> {}]
  /\ removed = {} /\ odds = 0 /\ disturbed = FALSE

\* Do the bounds leave room for something odd?
Spare == odds < MaxOdds /\ Len(req) + odds < MaxEvents

-----------------------------------------------------------------------------
(* The client.                                                             *)

\* The next turn, or the same one again when the last request came to nothing.
Send ==
  /\ live = 0 /\ Len(req) < MaxReqs /\ Len(hist) < MaxTurns /\ Len(req) + odds < MaxEvents
  /\ req' = Append(req, [st |-> "new", p |-> serving, turns |-> Append(hist, Open(0))])
  /\ live' = Len(req) + 1
  /\ UNCHANGED <<guardVars, hist, worldVars, lin, evicted, provider>>

\* The client times out; the request goes on without it.
GiveUp ==
  /\ live # 0 /\ Spare
  /\ live' = 0 /\ disturbed' = TRUE
  /\ odds' = odds + 1
  /\ UNCHANGED <<guardVars, hist, req, serving, lin, evicted, provider>>

\* It goes back some turns...
Regenerate(k) ==
  /\ live = 0 /\ Spare
  /\ hist' = SubSeq(hist, 1, k)
  /\ odds' = odds + 1 /\ disturbed' = TRUE
  /\ UNCHANGED <<guardVars, live, req, serving, lin, evicted, provider>>

\* ... or rewrites an earlier message.
Edit(k) ==
  /\ live = 0 /\ Spare
  /\ hist' = [hist EXCEPT ![k].u = @ + 1]
  /\ odds' = odds + 1 /\ disturbed' = TRUE
  /\ UNCHANGED <<guardVars, live, req, serving, lin, evicted, provider>>

-----------------------------------------------------------------------------
(* compress_or_forward().                                                  *)

Forms == {"raw", "stub"}

\* The compressor's output: a form for each user item, what was evicted stays so.
Compressed(turns, form, ev) ==
  [j \in Items(turns) |->
     LET k == TurnOf(j)
     IN IF User(j) THEN IF <<k, turns[k].u>> \in ev.items THEN "gone" ELSE form[k]
        ELSE Blocks(turns[k]) \ ev.blocks]

\* thinking_after_edit(): what goes with an eviction from turn k.
ThinkingAfter(turns, k) == UNION {Blocks(turns[j]) : j \in k..(Len(turns) - 1)}

\* Plan, compress and look the previous turn up.  A cold turn evicts an item with all the
\* thinking after it, for good, and freezes nothing; a compressor that raises lets the items
\* go out as they came, evicted ones too, unless they are replayed.
Compress(r, form, cold, stuck, raises) ==
  LET q == req[r]
      turns == q.turns
      ev == IF cold = 0 THEN evicted
            ELSE [items |-> evicted.items \cup {<<cold, turns[cold].u>>},
                  blocks |-> evicted.blocks \cup ThinkingAfter(turns, cold)]
      fresh == IF raises THEN Raw(turns) ELSE Compressed(turns, form, ev)
      odd == raises \/ stuck # 0
  IN /\ q.st = "new" /\ (odd => Spare)
     /\ evicted' = ev
     /\ req' = [req EXCEPT ![r] = [st |-> "compressed", p |-> q.p, turns |-> turns,
                  fwd |-> Replay(lin[q.p], Canon(turns), fresh, cold = 0, stuck)]]
     /\ disturbed' = (disturbed \/ cold # 0 \/ stuck # 0)
     /\ odds' = IF odd THEN odds + 1 ELSE odds
     /\ UNCHANGED <<guardVars, clientVars, serving, lin, provider>>

\* The turn becomes the lineage's last.
Remember(r) ==
  /\ req[r].st = "compressed"
  /\ lin' = [lin EXCEPT ![req[r].p] = Lineage(Canon(req[r].turns), req[r].fwd)]
  /\ req' = [req EXCEPT ![r].st = "replayed"]
  /\ UNCHANGED <<guardVars, clientVars, worldVars, evicted, provider>>

\* A history over the byte cap is not replayed, and forgets the lineage.
Untracked(r, form) ==
  LET q == req[r]
  IN /\ q.st = "new" /\ Spare
     /\ odds' = odds + 1 /\ disturbed' = TRUE
     /\ lin' = [lin EXCEPT ![q.p] = Cold]
     /\ req' = [req EXCEPT ![r] = [st |-> "replayed", p |-> q.p, turns |-> q.turns,
                                   fwd |-> Compressed(q.turns, form, evicted)]]
     /\ UNCHANGED <<guardVars, clientVars, serving, evicted, provider>>

\* guard(): takes the lock, syncs and judges...
Guard(r) ==
  LET q == req[r]
      n == Len(q.turns)
      t == ApplyAll(known[q.p], Unread(q.p))
  IN /\ q.st = "replayed" /\ ~Locked(q.p)
     /\ Sync(q.p)
     /\ req' = [req EXCEPT ![r] = [st |-> "judged", p |-> q.p, turns |-> q.turns,
                  fwd |-> q.fwd, verdict |-> Verdict(t, Places(q.turns, q.fwd), ClientPrefix(q.turns, n),
                                                     Prefix("with distil_expand", q.turns, q.fwd, n))]]
     /\ UNCHANGED <<journal, lost, clientVars, worldVars, lin, evicted, provider>>

\* ... and appends, and the request goes out.  The provider binds the blocks of its answer.
Posted(r) ==
  LET q == req[r]
      n == Len(q.turns)
      f == Prefix("with distil_expand", q.turns, q.fwd, n)
      o == ClientPrefix(q.turns, n)
      bound(b) == [f |-> IF b = 2 * r THEN f ELSE Append(f, <<-1>>),
                   o |-> o, p |-> q.verdict.prev]
  IN /\ q.st = "judged"
     /\ req' = [req EXCEPT ![r] = [st |-> "posted", p |-> q.p, turns |-> q.turns,
                  fwd |-> q.fwd, remove |-> q.verdict.remove, iters |-> 0]]
     /\ prod' = [b \in DOMAIN prod \cup {2 * r, 2 * r + 1} |->
                   IF b \in {2 * r, 2 * r + 1} THEN bound(b) ELSE prod[b]]
     /\ removed' = removed \cup q.verdict.remove
     /\ UNCHANGED <<clientVars, serving, disturbed, lin, evicted>>

\* A later request with the same history has gone out before this one.
Late(r) ==
  \E b \in DOMAIN prod : b > 2 * r + 1 /\ b % 2 = 0
                          /\ prod[b].o = ClientPrefix(req[r].turns, Len(req[r].turns))

Forward(r) ==
  /\ Posted(r)
  /\ Persist(req[r].p, req[r].verdict.recs, Late(r))
  /\ UNCHANGED odds

ForwardUnsaved(r) ==
  /\ Spare /\ odds' = odds + 1
  /\ Posted(r)
  /\ PersistFails(req[r].p, req[r].verdict.recs)

-----------------------------------------------------------------------------
(* The provider's answer and run_expand_loop() / stream_with_expand().     *)

\* The answer asks for an expansion and for nothing else: one more hidden round.
Requery(r) ==
  /\ req[r].st = "posted" /\ req[r].iters < MaxIters
  /\ req' = [req EXCEPT ![r].st = "requeried", ![r].iters = @ + 1]
  /\ UNCHANGED <<guardVars, clientVars, worldVars, lin, evicted, provider>>

\* _taint: the thinking of the round just received must never be forwarded.
Taint(r) ==
  /\ req[r].st = "requeried" /\ ~Locked(req[r].p)
  /\ Sync(req[r].p)
  /\ req' = [req EXCEPT ![r].st = "tainted"]
  /\ UNCHANGED <<journal, lost, clientVars, worldVars, lin, evicted, provider>>

Drop(r) ==
  /\ req[r].st = "tainted"
  /\ req' = [req EXCEPT ![r].st = "posted"]
  /\ removed' = removed \cup {2 * r + 1}
  /\ Persist(req[r].p, <<OutLine(2 * r + 1)>>, FALSE)
  /\ UNCHANGED <<clientVars, worldVars, lin, evicted, prod>>

\* The answer goes to the client: final, with a call only the client can run, or the last
\* the loop allows.
Relay(r) ==
  LET q == req[r]
      how == IF q.iters = 0 THEN {"plain"} ELSE {"spliced", "requeried"}
  IN /\ q.st = "posted"
     /\ req' = [req EXCEPT ![r] = Idle]
     /\ IF live = r
        THEN /\ \E x \in how :
                  hist' = [q.turns EXCEPT ![Len(q.turns)].a = r, ![Len(q.turns)].x = x]
             /\ live' = 0
        ELSE UNCHANGED <<hist, live>>
     /\ UNCHANGED <<guardVars, worldVars, lin, evicted, provider>>

\* Mutant: the error is not handed on.
RefusedSilently(r) ==
  /\ req[r].st = "posted" /\ Spare
  /\ odds' = odds + 1 /\ disturbed' = TRUE
  /\ req' = [req EXCEPT ![r] = Idle]
  /\ UNCHANGED <<guardVars, clientVars, serving, lin, evicted, provider>>

\* The provider refuses, or a re-query of the buffered loop comes back with an error.
Refused(r) ==
  /\ req[r].st = "posted" /\ Spare
  /\ odds' = odds + 1 /\ disturbed' = TRUE
  /\ req' = [req EXCEPT ![r] = Idle]
  /\ live' = IF live = r THEN 0 ELSE live
  /\ UNCHANGED <<guardVars, hist, serving, lin, evicted, provider>>

-----------------------------------------------------------------------------
(* Workers.                                                                *)

\* A hot-swap: new requests go to a fresh worker, the old one drains.
HandOver ==
  /\ serving + 1 \in Proc /\ Spare
  /\ serving' = serving + 1
  /\ odds' = odds + 1 /\ disturbed' = TRUE
  /\ UNCHANGED <<guardVars, clientVars, req, lin, evicted, provider>>

\* A worker dies with its requests and memory; the supervisor starts it again.
Die(p) ==
  /\ Spare
  /\ odds' = odds + 1 /\ disturbed' = TRUE
  /\ req' = [r \in DOMAIN req |-> IF Active(r) /\ req[r].p = p THEN Idle ELSE req[r]]
  /\ live' = IF live # 0 /\ req[live].p = p THEN 0 ELSE live
  /\ lin' = [lin EXCEPT ![p] = Cold]
  /\ Forget(p)
  /\ UNCHANGED <<hist, serving, evicted, provider>>

-----------------------------------------------------------------------------
Step(r) ==
  \/ \E form \in [1..Len(req[r].turns) -> Forms], cold \in 0..(Len(req[r].turns) - 1) :
       Compress(r, form, cold, 0, FALSE)
  \/ \E form \in [1..Len(req[r].turns) -> Forms], stuck \in Items(req[r].turns) :
       Compress(r, form, 0, stuck, FALSE)
  \/ \E cold \in 0..(Len(req[r].turns) - 1) : Compress(r, << >>, cold, 0, TRUE)
  \/ \E form \in [1..Len(req[r].turns) -> Forms] : Untracked(r, form)
  \/ Remember(r) \/ Guard(r) \/ Forward(r) \/ ForwardUnsaved(r)
  \/ Requery(r) \/ Taint(r) \/ Drop(r) \/ Relay(r) \/ Refused(r)

Next ==
  \/ Send \/ GiveUp \/ HandOver
  \/ \E k \in 0..(Len(hist) - 1) : Regenerate(k)
  \/ \E k \in 1..Len(hist) : Edit(k)
  \/ \E r \in DOMAIN req : Active(r) /\ Step(r)
  \/ \E p \in Proc : Die(p)

Spec == Init /\ [][Next]_vars

-----------------------------------------------------------------------------
(* Properties.                                                             *)

Kept(r) == {pl \in Places(req[r].turns, req[r].fwd) : pl.b \notin req[r].remove}

RequestsTypeOK ==
  /\ \A r \in DOMAIN req : req[r].st \in {"new", "compressed", "replayed", "judged", "posted",
                                           "requeried", "tainted", "done"}
  /\ live # 0 => Active(live)
  /\ \A k \in DOMAIN hist : hist[k].a \in DOMAIN req /\ ~Active(hist[k].a)
  /\ serving \in Proc /\ odds \in 0..MaxOdds
  /\ \A p \in Proc : off[p] \in Nat /\ lines[p] \in Nat
  /\ DOMAIN prod = UNION {{2 * r, 2 * r + 1} : r \in {r \in DOMAIN req : 2 * r \in DOMAIN prod}}

\* The provider accepts what goes out (_guard, thinkguard.py:273): every thinking block left
\* in a request goes out over the prefix it was produced over and right after the block
\* before it then, unless the client edited that prefix itself, or a record is lost.
Accepted ==
  live # 0 /\ req[live].st = "posted" =>
    \A pl \in Kept(live) :
      LET ahead == {q \in Kept(live) : Precedes(q, pl)}
      IN \/ lost
         \/ pl.base # prod[pl.b].o
         \/ pl.f = prod[pl.b].f /\ (ahead # {} => LastBlock(ahead) = prod[pl.b].p)

\* "The removal is persisted so a removed block is never re-added" (thinkguard.py:21): as
\* long as no record is lost, what the guard or the expand loop took out of the history
\* never goes out again, from whichever worker.
OutStaysOut ==
  [][\A r \in DOMAIN req :
       req[r].st = "judged" /\ req'[r].st = "posted" /\ ~lost' =>
         \A pl \in Kept(r)' : pl.b \notin removed]_vars

\* What the freeze is for (replay, prefixreplay.py:361): while one worker serves turn after
\* turn and nothing else happens, however the compressor changes its mind or fails, the
\* guard removes no thinking but what followed a hidden round.
ThinkingKept ==
  \A r \in DOMAIN req : req[r].st = "posted" /\ ~disturbed =>
    \A b \in req[r].remove : b % 2 = 1
=============================================================================
