------------------------------ MODULE McpProxy ------------------------------
(***************************************************************************)
(* The MCP proxy in front of several servers, src/distil/mcpproxy/proxy.py:*)
(* pool threads handle the client's tools/call requests, fetch the tool    *)
(* lists that are missing, route each call to its server under an id of    *)
(* the proxy's own and wait for the answer, while lists change, the client *)
(* cancels, answers come late or never and the proxy itself fails.         *)
(***************************************************************************)
EXTENDS Integers, Sequences, FiniteSets

CONSTANTS
  Server,    \* the servers, more than one
  ClientId,  \* JSON-RPC ids of the client, which may use one twice at a time
  MaxCalls,  \* bound: tools/call requests
  MaxJolts   \* bound: list changes, cancellations, exceptions, timeouts, failed I/O, exits

ASSUME McpAssumption == MaxCalls \in Nat /\ MaxJolts \in Nat

VARIABLES
  call,      \* the requests: client id, server of the tool, where the thread is, the servers it
             \* fetches from or has the lists of, whether it has called, and the answer
  surfaces,  \* servers whose tools are known
  routes,    \* servers whose tools are in the name table
  inflight,  \* client id -> the (server, wire id)s that run for it
  pending,   \* each server's wire ids that are waited for, and by which request
  inbox,     \* what each server has been sent and not answered: wire id and call
  exited,    \* servers that are gone
  ran,       \* history: how often each call reached a server
  jolts      \* the bound's counter

mcpVars == <<call, surfaces, routes, inflight, pending, inbox, exited, ran, jolts>>

McpInit ==
  /\ call = << >> /\ ran = << >>
  /\ surfaces = {} /\ routes = {}
  /\ inflight = [i \in ClientId |-> {}]
  /\ pending = [s \in Server |-> {}]
  /\ inbox = [s \in Server |-> {}]
  /\ exited = {} /\ jolts = 0

Jolt == jolts < MaxJolts /\ jolts' = jolts + 1
Goto(k, place) == call' = [call EXCEPT ![k].pc = place]

\* What a client can be answered: an error, or what the server said to call k.
Unsaid == [is |-> "nothing", to |-> 0]
Error == [is |-> "error", to |-> 0]
Result(k) == [is |-> "result", to |-> k]

Answer(k, with) == call' = [call EXCEPT ![k].pc = "answered", ![k].with = with]
Woken(k, with) == [call EXCEPT ![k].pc = "woken", ![k].with = with]

unwired == <<inflight, pending, inbox, exited, ran>>

-----------------------------------------------------------------------------
(* handle() up to the call.                                                *)

Receive(i, s) ==
  /\ Len(call) < MaxCalls
  /\ call' = Append(call, [id |-> i, srv |-> s, pc |-> "listing", has |-> {}, sent |-> FALSE, with |-> Unsaid])
  /\ ran' = Append(ran, 0)
  /\ UNCHANGED <<surfaces, routes, inflight, pending, inbox, exited, jolts>>

\* _surfaces: what is missing is fetched outside the lock.
Listing(k) ==
  /\ call[k].pc = "listing"
  /\ call' = IF surfaces = Server
             THEN [call EXCEPT ![k].pc = "routing", ![k].has = Server]
             ELSE [call EXCEPT ![k].pc = "fetching", ![k].has = Server \ surfaces]
  /\ UNCHANGED <<surfaces, routes, unwired, jolts>>

\* What was fetched is put in, whatever has changed meanwhile, and the routes are built anew.
Fetched(k) ==
  /\ call[k].pc = "fetching" /\ call[k].has \cap exited = {}
  /\ surfaces' = surfaces \cup call[k].has
  /\ routes' = surfaces'
  /\ call' = [call EXCEPT ![k].pc = "routing", ![k].has = surfaces']
  /\ UNCHANGED <<unwired, jolts>>

\* BackendError.
FetchFails(k) ==
  /\ call[k].pc = "fetching"
  /\ IF call[k].has \cap exited # {} THEN UNCHANGED jolts ELSE Jolt
  /\ Answer(k, Error)
  /\ UNCHANGED <<surfaces, routes, unwired>>

\* A route to a server that is not among the surfaces taken before is a KeyError.
Route(k) ==
  /\ call[k].pc = "routing"
  /\ IF call[k].srv \notin routes THEN Answer(k, Error)
     ELSE Goto(k, IF call[k].srv \in call[k].has THEN "calling" ELSE "raw")
  /\ UNCHANGED <<surfaces, routes, unwired, jolts>>

\* Mutant: the fail-open path is taken after the call was sent, too.
StumbleAnywhere(k) ==
  /\ call[k].pc \in {"listing", "fetching", "routing", "calling", "writing", "woken"} /\ Jolt
  /\ Goto(k, "raw")
  /\ UNCHANGED <<surfaces, routes, unwired>>

\* An exception: the raw path, unless the call was sent.
Stumble(k) ==
  /\ call[k].pc \in {"listing", "fetching", "routing", "calling", "writing", "woken"} /\ Jolt
  /\ IF call[k].sent THEN call' = Woken(k, Error) ELSE Goto(k, "raw")
  /\ UNCHANGED <<surfaces, routes, unwired>>

-----------------------------------------------------------------------------
(* _request() and StdioBackend.                                            *)

\* Mutant: the client's id is used toward the server.
WireClientId(k) == call[k].id

\* next(self._ids): one for each call.
WireId(k) == k

\* Mutant: a call of the same client id is forgotten.
RegisterOver(k) == inflight' = [inflight EXCEPT ![call[k].id] = {<<call[k].srv, WireId(k)>>}]

Register(k) == inflight' = [inflight EXCEPT ![call[k].id] = @ \cup {<<call[k].srv, WireId(k)>>}]

\* _call, or the same from _raw: from here on the call is not sent again.
Call(k) ==
  /\ call[k].pc \in {"calling", "raw"}
  /\ call' = [call EXCEPT ![k].pc = "writing", ![k].sent = TRUE]
  /\ Register(k)
  /\ UNCHANGED <<surfaces, routes, pending, inbox, exited, ran, jolts>>

SendOff(k) ==
  LET s == call[k].srv
  IN /\ call[k].pc = "writing" /\ s \notin exited
     /\ pending' = [pending EXCEPT ![s] = {w \in @ : w.id # WireId(k)} \cup {[id |-> WireId(k), k |-> k]}]
     /\ inbox' = [inbox EXCEPT ![s] = @ \cup {[id |-> WireId(k), k |-> k]}]
     /\ ran' = [ran EXCEPT ![k] = @ + 1]
     /\ Goto(k, "waiting")
     /\ UNCHANGED <<surfaces, routes, inflight, exited, jolts>>

SendFails(k) ==
  /\ call[k].pc = "writing"
  /\ IF call[k].srv \in exited THEN UNCHANGED jolts ELSE Jolt
  /\ call' = Woken(k, Error)
  /\ UNCHANGED <<surfaces, routes, unwired>>

\* A server answers, in its own order; the reader wakes the request that waits for that id.
Serve(s) ==
  \E m \in inbox[s] :
    LET waits == {w \in pending[s] : w.id = m.id}
    IN /\ inbox' = [inbox EXCEPT ![s] = @ \ {m}]
       /\ pending' = [pending EXCEPT ![s] = @ \ waits]
       /\ call' = [k \in DOMAIN call |->
                     IF \E w \in waits : w.k = k THEN [call[k] EXCEPT !.pc = "woken", !.with = Result(m.k)] ELSE call[k]]
       /\ UNCHANGED <<surfaces, routes, inflight, exited, ran, jolts>>

\* Also when the answer comes as the wait ends.
TimesOut(k) ==
  /\ call[k].pc \in {"waiting", "woken"} /\ call[k].with # Error /\ Jolt
  /\ pending' = [s \in Server |-> {w \in pending[s] : w.id # WireId(k)}]
  /\ call' = Woken(k, Error)
  /\ UNCHANGED <<surfaces, routes, inflight, inbox, exited, ran>>

\* The reader sees the end of the server's output: every wait on it ends.
Exit(s) ==
  /\ s \notin exited /\ Jolt
  /\ exited' = exited \cup {s}
  /\ inbox' = [inbox EXCEPT ![s] = {}]
  /\ pending' = [pending EXCEPT ![s] = {}]
  /\ call' = [k \in DOMAIN call |->
                IF \E w \in pending[s] : w.k = k THEN [call[k] EXCEPT !.pc = "woken", !.with = Error] ELSE call[k]]
  /\ UNCHANGED <<surfaces, routes, inflight, ran>>

Finish(k) ==
  /\ call[k].pc = "woken"
  /\ inflight' = [inflight EXCEPT ![call[k].id] = @ \ {<<call[k].srv, WireId(k)>>}]
  /\ Goto(k, "answered")
  /\ UNCHANGED <<surfaces, routes, pending, inbox, exited, ran, jolts>>

-----------------------------------------------------------------------------
\* notifications/tools/list_changed of a server.
ListChanged(s) ==
  /\ s \in surfaces /\ Jolt
  /\ surfaces' = surfaces \ {s}
  /\ UNCHANGED <<call, routes, unwired>>

\* notifications/cancelled: the servers that run it are told, and may drop it.
Cancel(i) ==
  /\ inflight[i] # {} /\ Jolt
  /\ \E dropped \in SUBSET UNION {{<<s, m>> : m \in inbox[s]} : s \in Server} :
       /\ \A d \in dropped : <<d[1], d[2].id>> \in inflight[i]
       /\ inbox' = [s \in Server |-> {m \in inbox[s] : <<s, m>> \notin dropped}]
  /\ UNCHANGED <<call, surfaces, routes, inflight, pending, exited, ran>>

McpNext ==
  \/ \E i \in ClientId, s \in Server : Receive(i, s)
  \/ \E k \in DOMAIN call :
       \/ Listing(k) \/ Fetched(k) \/ FetchFails(k) \/ Route(k) \/ Stumble(k)
       \/ Call(k) \/ SendOff(k) \/ SendFails(k) \/ TimesOut(k) \/ Finish(k)
  \/ \E s \in Server : Serve(s) \/ Exit(s) \/ ListChanged(s)
  \/ \E i \in ClientId : Cancel(i)

McpSpec == McpInit /\ [][McpNext]_mcpVars

-----------------------------------------------------------------------------
(* Properties.                                                             *)

Sent(k) == call[k].pc \in {"writing", "waiting", "woken"} /\ call[k].sent

Calls ==
  [id : ClientId, srv : Server, has : SUBSET Server, sent : BOOLEAN,
   pc : {"listing", "fetching", "routing", "calling", "raw", "writing", "waiting", "woken", "answered"},
   with : [is : {"nothing", "error", "result"}, to : Nat]]
Wire == [id : Nat, k : Nat]

McpTypeOK ==
  /\ call \in Seq(Calls) /\ ran \in Seq(Nat) /\ Len(ran) = Len(call)
  /\ surfaces \subseteq Server /\ routes \subseteq Server /\ exited \subseteq Server
  /\ inflight \in [ClientId -> SUBSET (Server \X Nat)]
  /\ pending \in [Server -> SUBSET Wire] /\ inbox \in [Server -> SUBSET Wire]
  /\ jolts \in 0..MaxJolts

\* "Re-sending it could run a non-idempotent tool twice" (handle): no call reaches a server
\* twice, whatever fails, changes or times out at whatever point.
CalledOnce == \A k \in DOMAIN call : ran[k] <= 1

\* The client gets, for each request, what its server said to that very call or an error, also
\* when it uses an id twice and answers come out of order or too late (StdioBackend._read).
OwnAnswer == \A k \in DOMAIN call : call[k].with \in {Unsaid, Error, Result(k)}

\* A cancellation finds every server that may be running the call, and no other call: "a client
\* reusing an id concurrently must not make one call's entry overwrite (or its cleanup delete)
\* the other's" (_request).
Cancellable ==
  \A i \in ClientId :
    inflight[i] = {<<call[k].srv, WireId(k)>> : k \in {j \in DOMAIN call : call[j].id = i /\ Sent(j)}}
=============================================================================
