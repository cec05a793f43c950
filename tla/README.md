# distil: specifications, model checks and proofs

`distil` sits between an LLM agent and its provider (as a local proxy started by
`distil wrap`, a gateway, or a library) and makes the context the agent sends smaller.
It promises three things while it does: the provider's prompt cache is never broken by
its own edits, every byte it leaves out can be brought back, and measured harm switches
lossy compression off. This directory holds TLA+ modules of the parts of the program
that keep those promises across threads, processes, restarts and failures, the TLC
configurations that check them on small instances, and proofs that TLAPS checks for
every value of the constants. Source paths are relative to `src/`.

## 1. Inventory

| component | state it keeps | operations | hard because |
|---|---|---|---|
| cold-point recompression, `distil/coldpoint.py` | `_STATES`, an LRU of lineages (last use, longest TTL, in-flight count, evicted ids, ambiguity, deferral); `coldpoint.json` | `plan`, `begin`, `end`, `_persist`, `observe_usage`, `note_rewrite` | handler threads, replays and audits interleave between two critical sections; workers die, overlap and share one file |
| drift guard, `distil/drift.py`, `distil/_filelock.py` | `drift.json` (capital, quarantine, schema), its archives, `DriftGuard.held` and `_seen` in each proxy | `_bootstrap`, `fold`, `release`, `refresh`, `observe`, `_trip_receipt`, the certificate hold | several processes read-modify-write one file; readers take no lock; files become unreadable; writes fail halfway |
| hot-swap, `distil/hotswap.py` | the worker, the draining list, the failed version, the flags | start, watch thread, hand-over, respawn, reap, shutdown; the worker's drain | processes, signals, time-outs, a disk that changes under them, two threads of the supervisor |
| TTL estimator, `distil/ttl_estimator.py` | bounds per provider, model and TTL class in a file | `observe`, `effective_ttl` | evidence that is attributed to the wrong turn |
| prefix replay, `distil/prefixreplay.py` | an LRU of the previous turn of each lineage | `replay`, `apply` | look-up and store are separate; overlapping turns |
| thinking-block guard, `distil/thinkguard.py` | tables of blocks, requests and drops, and their journal | `guard`, `drop`, `_sync`, `_append`, `_compact` | hot-swap peers share the journal without a lock |
| receipt chain, `distil/receipts.py` | active file, sealed segments, checkpoints, resume points | `append`, `_seal`, `verify` | rotation, death between two files, a verifier that takes no lock |
| restore store and MCP server, `distil/mcp_server.py` | a blob per handle | record, load, sweep | expiry, collisions, writers in several processes |
| config wrap, `distil/config_wrap.py` | a client's config, its backup or sentinel, a registry of sessions, a lock | claim, back up, patch, release, restore, sweep of leftovers | a wrap is killed at any step and the next one must find what the user wrote |
| MCP proxy, `distil/mcpproxy/proxy.py`, `distil/mcpproxy/install.py` | surfaces and routes, in-flight ids, pending requests of each server; the client's config with its backup and record | `tools/call`, listing, cancellation, `list_changed`; install and undo | a call must not run twice, client ids are reused, servers answer late or exit; a command killed between three files |
| expand loop, `distil/expand.py`, `distil/streamexpand.py` | the hidden rounds of one request | `run_expand_loop` and the stream form | bounded retries, tainted continuation thinking |
| shadow sampler and ledger, `distil/shadow.py` | `shadow.jsonl`, counters | sample, record, load | background threads that outlive their request |
| audit, `distil/referee.py` | `audit` ledger and the daily budget | reserve, run, settle | midnight and deaths between reserve and settle |
| local proxy, `distil/proxy.py`, `distil/serve_core.py` | threads and what the modules above keep | `do_POST`, shadow and audit threads, `wrap_run` | everything above is called from here |
| gateway, `distil/gateway.py`, `distil/aproxy.py` | tenants' counters and their file, quotas, keys | `record`, `save`, `load`, `check_daily_tokens`; the same pipeline | checkpoints of several threads write one file; midnight |
| savings, `distil/runtime.py`, `distil/ledger.py` | counters per model, `savings.jsonl` | `record`, `maybe_flush`, `flush` | handlers book while another flushes; the last flush follows a drain with a deadline |
| adapters, compressors, codec | none, or a model's weights | transform a request | about strings and numbers |
| certification, A/B, conformal bounds | ledgers read in batch | statistics | real numbers |
| telemetry, census, CLI, set-up, evaluation, Rust core, SDK | files and counters | reports, configuration, ports | sequential, or I/O |

How they interact. A handler thread of the proxy asks `plan()` which tool results to
replace, compresses, replays the previous turn's bytes, guards thinking blocks, posts,
relays, and calls `end()`. Sampled requests start a shadow thread, which holds the lineage
in flight by `begin()` and `end()`, books a row in `shadow.jsonl` and folds it into
`drift.json`; or an audit thread, which does not. `plan()` takes the drift guard's hold as
an input. A hot-swap or a death ends a worker with all it keeps in memory; files are what
survives.

What makes each part correct:

- *cold point*: ids are added only when the provider has surely forgotten the lineage;
  an id that was forwarded as a stub stays one, through restarts too, on a model that
  preserves thinking and while nothing fails open; two conversations under one key only
  make it evict less; what was forwarded is on file, unless a death, a failed write or a
  stale copy lost it.
- *drift guard*: one betting process per machine; no row is bet twice; a hold lasts until
  the reset command, whatever fails, or until the file is of another budget; one receipt
  per trip; every proxy that takes no samples comes to see it.
- *hot-swap*: no gap and no forgotten worker at a hand-over; no lingering drain; the
  session comes to run the installed version; shutdown drains what still works.
- *prefix replay, thinking guard, expand loop*: a thinking block goes out only over the
  prefix it was produced over; what was removed stays removed, from every worker; in a
  quiet conversation nothing is removed that a hidden round did not taint.
- *receipt chain*: a healthy chain verifies at every moment, an edited one does not, and a
  chain with holes never reads as whole, also to a pass under which a segment is sealed.
- *restore store*: a stub whose file was opened expands to its own text or to a miss.
- *TTL estimator*: a bound was said by the provider, of a request that waited that long.
- *audit*: the samples of a day fit under its cap.
- *config wrap, MCP install*: what the user wrote is never lost, a running session keeps
  its own patch, and an undo puts back a file that an install replaced, and only where
  that file routes to what stands there.
- *MCP proxy*: no call reaches a server twice, an answer belongs to its request, a
  cancellation finds exactly the calls it names.
- *spliced stream*: one whole message; a tool call the client must run is run.
- *gateway, savings*: a day admits its quota; a restart finds the last save; every booked
  request is in the ledger once.

## 2. Plan

| order | modules | composes | abstract specification | runs | theorems | status |
|---|---|---|---|---|---|---|
| 1 | `Coldpoint`, `EvictionLedger`, `MCColdpoint` | proxy threads, replays, audits, workers, the file | `EvictionLedger` | 5, `faults` | 8 | done |
| 2 | `Drift`, `MCDrift` | proxies, shadow threads, watchers, reset | | 2, `faults` | 5 | done |
| 3 | `HotSwap`, `MCHotSwap` | watch thread, main thread, workers, disk | | 2 | 6 | done |
| 4 | `Requests` with `ThinkGuard` and `PrefixReplay` | the client, workers, provider, expand loop, journal | | `parts` | 7 | done |
| 5 | `ConfigWrap` | wraps of one config, kills, the user's editor | | `parts` | 4 | done |
| 6 | `McpProxy`, `McpInstall` | client, reader threads, servers; install, undo, editor | | `parts` | 6 | done |
| 7 | `Receipts`, `AuditBudget`, `CacheTtl`, `Restore`, `StreamSplice` | appenders and a verifier; samples; workers; recorders; a stream | | `parts`, `restore` | 14 | done |
| 8 | `GatewayQuota`, `GatewayState`, `Savings` | handler threads, the end of the process | | `parts` | 6 | done |
| 9 | `MCParts` | rows 4 to 8, one part at a time | each part's specification | `parts` | 2 | done |
| 10 | `MCFaults` | rows 1 and 2, one at a time, with every failure | | `faults` | | done |
| 11 | the certificate hold in `Drift` | | | | | not done |

The order puts first what the program calls its whole design: cache safety and the alarm.

## 3. Modules and how they correspond to the code

### Coldpoint

| variable | code |
|---|---|
| `states`, `older` | `_STATES` of each worker and its order |
| `disk`, `cache` | `coldpoint.json`, and each worker's `_CACHE` of it |
| `clock` | `_clock`, one monotonic clock of the machine |
| `pc`, `body`, `seen`, `evict`, `reason`, `orphan` | a thread: its place, its request, `persisted`, the `Plan`, and whether the `_State` it holds has left `_STATES` |
| `wire`, `floor`, `lost`, `gone`, `State.served` | history: what was forwarded as a stub, what had been when the request arrived, the ids whose record failed, was cut short or was undone, when the provider forgets the lineage, which message lists the state has seen |

A request goes through `Arrive` (clock and unlocked look-up), `FirstSeen` or `Decide` (the
first critical section), `Commit` or `Defer` (the second), `Persist` (read, merge, write
under the file lock), `Send` and `Finish` (the `finally` of `do_POST`). `StartShadow`
is `begin()` in the handler's thread, before the handler's own `end()`; `StartUncounted` is
the audit, and the replay of a request that has no plan: both post outside `begin()` and
`end()`. `Planned` collects what a request with a plan does, `Unplanned` the rest, which
only the `Outsiders` take: nobody where `CanAudit` and `CanFailOpen` are false. `Crash` ends a worker and its threads. The verdict keeps the code's order of reasons.

What can go wrong on the way. `PlanFails` is a plan that raises: the request goes out with
the originals, and nobody counts it. `Readings` are what `_persisted()` may hand out: the
file, or, where reading it fails, the copy parsed last; a merge into a stale copy writes a
file without what another worker has written since (`Saved`). `NotSaved` is the write that
fails and is swallowed. `Rendered` says which ids of its set a request really carries as
stubs. On a model that preserves thinking (`Sticky`, `sticky_evict` in the code) that is
every one whose result is past the recent turns, which a rewind may put it in again (`Old`);
on the others a verbatim request, a hold or an Edit that quotes a result may exempt any; and
a compressor or restore store that fails sends originals on every model (`CanFailOpen`).
`wire` is what went out and forgets nothing; `lost` says which ids of it have no record and
why, so `WireIsDurable` claims that there is no other way to lose one, and
`WireOutlivesWorker` is the doc's sentence without that excuse, which the run
`coldpoint_death` refutes.

Abstractions. A message is compared only by conversation and position (`SameMessage`:
conversations under one key share a head); `Turn` gives the message that carries the
result of an id. What the TTL estimator answers is any `Extension`. Candidates and their
extension are any set of new ids past the recent turns. The caps of the file (512 lineages,
2048 ids) are not modelled. Two threads that hold the same orphaned state do not share it.
The file is read in the step that tests `_STATES`, since a later read can only find more.
The copy is followed only where reads can fail (`CanMisread`).

`EvictionLedger` is the promise without threads or clock: the set of a lineage grows only
under a licence, a licence is issued at a moment at which the provider has forgotten the
lineage, and the set shrinks only at a death. `Coldpoint` implements it with one worker:
`evicted` is the state's set, or the file's while the lineage is unknown; `licensed` are
the lineages with a thread between the two sections or with a deferral.

### Drift

| variable | code |
|---|---|
| `file`, `archived`, `ledger`, `lock` | `drift.json`, a `drift.json.reset-*` beside it, the guarded rows of `shadow.jsonl`, the file lock |
| `phase`, `mem`, `next`, `upto` | a proxy in `_bootstrap` and then in its watcher; the state it folds |
| `held`, `seen` | `DriftGuard.held`, `_seen` |
| `pc`, `row`, `result` | a shadow thread in `observe` and `fold` |
| `cli`, `outcome` | `distil reset --drift-guard` |
| `bets`, `spent`, `receipts`, `before` | history |

`Start` is `_bootstrap` (as it is, or folding the ledger row by row under the lock),
`Refresh` is `refresh()` with its stat and its read as two steps, `Fold`, `Receipt` and
`Store` are `observe()`, `Archive` and `Renew` are `release()`. `Readings`, `Written`,
`Copied`, `Damage` and `Kill` are the failures: a read that errs, a write or a copy that
fails, a file that becomes unreadable, a reset that is killed between its two steps. The
last two and `Rebudget` are the `Mishaps`, of which there are none where `CanFail` is false.
`Rebudget` is a file whose alpha or delta is not the program's, after an upgrade or because
damage left JSON without them: `LiveDrift.load` (`drift.py:331-332`) answers it with a fresh
state that is not held, whatever the file recorded, and the next fold writes that. The
comment there wants it of a change of the budget; for a damaged file it contradicts the doc
of `LiveDrift` (`drift.py:295`: a hold is "cleared only by release"). `HoldSticks` therefore
has two exceptions, the reset command and such a file, and no other. The histories of bets
and receipts start over with the process.

Abstractions. The capital is a level from 0 to `Limit`, a harm raises it and an agreement
lowers it; a tripped process refuses updates, as the monitor does. Histories stop
counting at 2, which is one too many. `_seen` is the file's key now, another key, or none.
The lock is obtainable: the doc of `fold` states its promise under that condition. Samples
are booked by proxies that are not held. No worker of an older schema drains beside a newer
one. The certificate hold is not modelled.

### HotSwap

| variable | code |
|---|---|
| `disk` | `installed_version()`, none while a reinstall is under way |
| `state`, `ver`, `age` | each worker process, its version, the time since it was told to drain |
| `current`, `draining`, `failed` | `_worker`, `_draining`, `_failed_version` |
| `asked`, `manual`, `stopping` | `_handover_asked`, its copy, `_stopping` |
| `watch`, `new` | the watch thread, the worker it (or `start`) waits for |
| `main`, `procs`, `waited` | `wrap_run`, `start()` and `shutdown()` |

`Wake`, `Tidy`, `Decide`, then `Respawn`, `Respawned`, `RespawnFails` or `Handover`,
`Swapped`, `SwapFails` are one turn of `_watch`; the reads and writes that another thread
or process can come between are separate steps. `Snapshot`, `Terminate`, `Reap` and `Exit`
are `shutdown()`, which takes the lock for its list only.

Abstractions. Requests in flight appear as a drain that may end at any moment up to the
budget (`Flush`). Times are ticks in the code's order (wait of shutdown below the drain
budget below the cap). A process number is reused when its owner is dead and nobody holds
it; the lowest free one is taken. A worker whose version is broken, or that starts while
the package is away, never gets ready; a sound one does, within the time-out.

### Requests, ThinkGuard, PrefixReplay

`Requests` is one conversation on a model that preserves thinking. It extends the modules
of the two components its requests pass through.

| variable | code |
|---|---|
| `hist`, `live`, `req` | the client's messages, the request it waits for, every request with its place in `compress_or_forward` and `run_expand_loop` |
| `serving`, `lin` | the worker that takes new requests; `_LINEAGES` of each |
| `journal`, `off`, `lines`, `known` | `thinkguard.jsonl`, `_FILE`, the tables `_BLOCKS`, `_REQS`, `_DROPPED` of each process |
| `evicted` | what cold turns took out for good |
| `prod`, `removed`, `lost`, `disturbed` | history: what the provider bound a block to, what was taken out, whether a record is missing, whether anything but plain turns happened |

A request is compressed (`raw`, or a form the compressor may change its mind about),
replayed (look-up and store in two steps), judged by the walk over its thinking blocks,
posted, answered, and perhaps re-queried by the expand loop, whose continuation thinking
is removed at the end. The client gives up, regenerates, edits; workers hand over and die;
appends fail and a peer compacts the journal.

Abstractions. An item is what the user side sent, its number of edits, and the form it
goes out in; a thinking block is a number that names its request. `Accepted` and
`OutStaysOut` except a history of which a record is `lost`: two processes that compact and
append without a lock can lose records, as the code accepts, and so can a failed write.
`ThinkingKept` is about a conversation in which nothing happened but turns. The caps of the
tables and the LRU are never reached.

### ConfigWrap

`path`, `backup`, `created`, `reg` with `regdir`, and `lock` are the config, the three kinds
of file beside it and the lock; `at` is each session in `restore_stale_backups` and then in
`_own_config`. `user` is what the user last wrote, `clean` whether a session has ended by
itself since the last kill. A kill frees the lock. A write replaces a file whole
(`_atomic_write_secure`), so no step leaves half of one. The user writes the config only
while nothing of distil stands beside it: what is written into a patched file is undone by
the restore.

### Receipts

`segs`, `act`, `cps`, `resume` are the files; `rlock` and `step` an append under its lock;
`ver` a pass of `verify()`, which takes none. An append may rotate first: write the
checkpoint, rename, then write the receipt into a new file; each may be the last thing a
process does, a seal may fail and back off, a line may be cut short. A receipt's number
stands for its hash. What a pass goes through line by line is a set of places (file, line):
`Met` are those of the receipts and `Holes` those of the other lines, `Latest` is the place
where the pass stops, and `Link` the hash that a receipt must carry, that of the one met
before it. A pass reads the files in one step, since a sealed one does not change, and a
listing in one step; it is repeated once when it fails, as in the code. `NoFalseAlarm` demands a right verdict of a
pass during which at most one segment is sealed. `EditFound` and `NoSilentGap` are about
the step in which a pass comes back with ok, under any seals but one kind: a pass is
`Unaware` of a seal when the active file was renamed away after its listing and it has met
no receipt in the fresh one, or went on there from where it had left the old one. Such a
pass returns ok with fewer receipts and no gap, since `verify` retries failures only
(`receipts.py:837`); its doc promises "the WHOLE history" (`receipts.py:801-803`). The two
properties say that this is the only way to miss an edit or a receipt.

### AuditBudget, CacheTtl, Restore

`AuditBudget`: `file` is the day, the spend and the reservations, rewritten under the lock;
`smp` the samples. A sample settles, fails to, or is lost with its process; the file may
become unreadable. `CapHolds` excepts a day on which a sample of an earlier day was
settled (`straddled`): `settle` then takes its estimate off the wrong day.

`CacheTtl`: `stored` is the file, `table` each worker's copy, `probe` and `flight` what
`plan`, `note_rewrite`, `end` and `observe_usage` of `coldpoint.py` keep. A worker reads the
file once, and takes a file it cannot read for an empty one, at that moment (`Copies`) and
when it merges (`TtlWrittenBadly`, which then overwrites what others had written); a failed
write leaves its copy changed. `OtherKey` is usage of another (provider, model, lifetime)
key: it writes the whole table, and past 256 keys it may drop this one. So bounds can be
lost, and nothing promises they are not; what `LearnedFromUsage` says is that those there
are were heard. Gaps are from a small set.

`Restore`: `blob` is one handle's file, which two texts may share, `store` the entry of the
handle in `mcp_store.json`, `job` each recorder in `record_restore` (exclusive create,
comparison, truncation and write in place). `OpenFails` is a directory or file that cannot
be opened: the code answers True, so the stub stands with no file (`loose`) and the handle
is free for another text. `CompareBlind` is a file that cannot be read at that moment and
is written over. `StoreAdd` is `distil_compress`, whose `_store_add` overwrites what the
handle had (`told`); `Expand` looks there first. `NeverAnother` is about the stubs recorded
with their file open (`stubs`). It excepts a file that was swept, has expired or could not
be read (`gone`): the handle is free then; and a handle that `distil_compress` was given
with another text.

### McpProxy, McpInstall

`McpProxy` has a thread per call (`call[k].pc`), from the listing of tools to the answer;
`pending` and `inbox` are `StdioBackend._pending` and what the server has not answered. A
server answers out of order, too late, or exits; writes fail; any exception on the
compressing path goes to the fail-open path, which may send only what was not sent.
Surfaces and routes are per server. What an answer says is the call it belongs to.

`McpInstall` has the config, the backup, the record and the command that runs. A command
holds the locks of config and record from its reads to its end and can stop before any
write. The user's editor takes no lock; it may save anything, an older file among it. A
file's bytes are its content, the set of entries that go through distil, and whose layout
it has, since a JSON config is laid out anew by each write. The editor does not remove the
backup while a command runs. The branch of `install` on distil's own last write is modelled
and not reached: there is nothing left to route in such a file.

### StreamSplice

`stream_with_expand` for one response: `blocks` of the answer that is read, `tail`
(`final_delta`), `nextIndex`, `shown` (the events written to the client) and `asked` (the
re-queries). One delta stands for many; pings and usage sums are left out. `cut` records
that an answer stopped short, after which a block of the client's may stay open.

### GatewayQuota, GatewayState, Savings

`GatewayQuota`: `used` is the tenant's pair in `_daily`; the day is read before the lock.
`late` counts charges made after the day they are dated; each may start a day's count once
more, which `DayCap` allows for.

`GatewayState`: the counters, the time of the last save, and threads in `record` and `save`.
All saves write one temporary name, so the model has files with handles: `names` are the
two names, `open` what a thread writes to. Two saves that overlap can rename a file that
is still being written, or put an older snapshot over a newer one; `mixed` records it, until
a save has run alone. (`config_wrap.py:159-161` describes this behaviour of a static
temporary name and avoids it there; the gateway's throttle makes it rare, and nothing in
its documentation speaks of it, so it is listed as a hazard and not as a finding.)

`Savings`: `cells` are the counters per model, `holder` the thread that flushes under the
lock, `listed` the rows it has written, `worker` and `overrun` the end of `worker_main`. A
failed append leaves rows and counters standing; `again` records it.

### MCParts

The parts above share no variable. `MCParts` has the variables of all of them and one more,
`part`, that names the one that moves. A behaviour of several parts side by side is, to
each part, a behaviour in which it moves and the others stutter, and every property speaks
of one part; so exploring the sum of the parts' states shows what exploring their product
would. `Restore` has a module of its own for its second run, `MCRestore`.

### MCFaults

`MCFaults` puts the cold point and the drift guard together in the same way, for the run in
which everything that can fail does.

## 4. What the runs check

| run | instance | shows |
|---|---|---|
| `coldpoint` | one worker that may die, two threads, one key with two conversations of up to two messages, three instants | evictions are decided only on an expired cache and stay, the in-flight count is exact, and `EvictionLedger` is implemented |
| `faults` | cold point: two workers, two threads, two ids, deaths, failing reads, writes, plans and compressions, audits; drift guard: one proxy, one shadow thread, two rows, threshold two, every failure | an id on the wire is on record but for a failure that is named; a hold sticks whatever fails |
| `coldpoint_death` | two requests of one lineage, one death, nothing that fails | violation of `WireOutlivesWorker`: a stub is forwarded before the thread that chose it has written it |
| `coldpoint_lru` | two lineages and an LRU of one | violation of `EvictedStaysEvicted`: a lineage dropped between the look-up and the lock starts empty |
| `coldpoint_audit` | audits | violation of `ColdOnlyWhenExpired`: an audit keeps the cache warm unseen |
| `coldpoint_ttl` | two lifetimes and a death | violation of `ColdOnlyWhenExpired`: the longest lifetime is forgotten |
| `drift` | a sampling and a watching proxy, two shadow threads, two rows, threshold one, deaths | rows are bet once, one receipt per trip, no restart or fold ends a hold, the watcher comes to see hold and release |
| `drift_release` | a reset whose write fails | violation of `FailedReleaseHolds`: it reports a failure and has released |
| `hotswap` | three processes, two versions, a reinstall, a death or a hang, two signals | no forgotten worker, no gap, no lingering drain, upgrades served |
| `hotswap_flush` | the end of a session with a request in flight | violation of `ShutdownDrains`: killed after 30 s, before it flushes |
| `parts` | the twelve parts of `MCParts`, each with the deaths, failed writes and overlaps of its bounds | the properties of section 3 from `Accepted` to `BookedOnce` |
| `restore` | two recorders of one text, an expansion between, no failure | violation of `ExpandExact`: an empty text that is no error |

The violations are disagreements between the code and what its own documentation says;
`PROJECT.json` quotes both under `findings`.

Why the bounds are enough. Two threads are what the critical sections need to overlap: a
third adds another overlap of the same kind. One lineage suffices where the LRU is not in
question, two where it is: a drop is met in `coldpoint_lru`, and `WireDurable` is proved for
any bound of the LRU. The clock's three instants hold a lifetime of one, its margin
and the instant after, with a further turn. For drift, two rows and a threshold of one let
two threads cross it together, each with a row of its own, leave a row for a double bet
after the trip, and let a migration fold part of the ledger; in `faults` the
threshold is two, so capital is carried from one fold to the next. For hot-swap, three
processes are a current, a draining and a starting one; two installs are a reinstall with
its window; one death or hang meets every state of the watch thread; two signals ask for a
hand-over during a hand-over and after it. Every bound is a constant of the module and
appears in the cfg.

The parts of `parts`: three requests are two finished turns and a third that replays both,
on two workers, with one hand-over, death, edit or failure, or two of these and two
requests (`MaxEvents` bounds the sum); three wraps are one that is killed, one that sweeps
and one that runs; four receipts with two to a segment are two seals, with one tear,
failure or edit; three samples compete for a cap of two; three planned turns overlap in
two workers; two recorders and two texts with one upset meet at one handle; two calls and
two ids meet an id that is reused, with two failures; two splices of two blocks hold a
mixed turn and a refused re-query; two saves and two killed commands put an older file
back under a newer record; four requests of the tenant meet a midnight; a handler and the
main thread save at once; three handlers book, flush and fail to append.

Symmetry (threads, workers, lineages, conversations, ids) is used for the safety runs of
the cold point only. Deadlock is not checked where the system may stop: at the clock's
last instant, when the ledger is full and everybody waits, when the session has ended, and,
in the parts, when the bounded requests, commands or samples are over.

### Fairness

The safety runs assume none. `Drift` assumes that a proxy which has started goes on (its
threads run, the watcher polls for ever: `_watch` is a loop with a timed wait), that a
shadow thread finishes its `observe`, and that a reset that began ends. No fairness makes a
proxy start, a sample arrive or a reset be called. `WatchersNotice` covers the proxies that
take no samples only: one that does can store an older result over a newer look and keep it
until the file changes again, where `drift.py:671-674` and `cli.py:226` speak of every
running proxy. `HotSwap` assumes that both threads of the supervisor run, that time passes,
that a sound worker gets ready within its time-out, and that a drain ends within its budget
unless it hangs (which `Wedge` lets it do). No fairness makes an install complete.

## 5. What is proved

For every value of the constants that meets the named assumption of the module.

| theorem | statement | under |
|---|---|---|
| `Coldpoint_proofs!TypeCorrect` | `Spec => []TypeOK` | |
| `Coldpoint_proofs!OneConversation` | `Spec => ColdIsOneConversation` | |
| `Coldpoint_proofs!InflightCounts` | `Spec => []InflightExact` | the LRU drops nothing |
| `Coldpoint_proofs!SurelyExpired` | `Spec => ColdOnlyWhenExpired` | one worker, one lifetime or no deaths, no drop, no audits, no plan that fails open |
| `Coldpoint_proofs!StaysEvicted` | `Spec => []EvictedStaysEvicted` | one worker, no drop, reads succeed, nothing fails open, `Sticky` |
| `Coldpoint_proofs!WireDurable` | `Spec => []WireIsDurable` | |
| `Coldpoint_proofs!WireOutlives` | `Spec => []WireOutlivesWorker` | nobody dies, reads and writes succeed |
| `Coldpoint_proofs!LedgerKept` | `Spec => KeepsLedger` | one worker in a single lifetime, no drop, no audits, reads succeed, nothing fails open |
| `Drift_proofs!TypeCorrect` | `Spec => []TypeOK` | |
| `Drift_proofs!HoldIsSticky` | `Spec => HoldSticks` | |
| `Drift_proofs!RowsBetOnce` | `Spec => []NoRowTwice` | `drift.json` can be read and written |
| `Drift_proofs!OneReceipt` | `Spec => []TripReceipted` | the same |
| `Drift_proofs!WatchersFollow` | `Spec => []WatchersUpToDate` | the same |
| `HotSwap_proofs!SwapInvariant` | `Spec => []SwapInv` | |
| `HotSwap_proofs!TypeCorrect` | `Spec => []TypeOK` | |
| `HotSwap_proofs!NeverForgotten` | `Spec => []NoneForgotten` | |
| `HotSwap_proofs!HandoverHasNoGap` | `Spec => NoHandoverGap` | |
| `HotSwap_proofs!CapIsEnforced` | `Spec => PollEndsDrains` | |
| `HotSwap_proofs!CurrentIsUp` | `Spec => []CurrentUp` | |
| `Setup_proofs!WrapInvariance` | `WrapSpec => []WrapInv` | |
| `Setup_proofs!WrapRecoverable` | `WrapSpec => []Recoverable` | |
| `Setup_proofs!WrapOwnPatch` | `WrapSpec => []OwnPatch` | |
| `Setup_proofs!WrapAsFound` | `WrapSpec => []AsFound` | |
| `Setup_proofs!InstallInvariant` | `InstallSpec => []InstallInv` | |
| `Setup_proofs!UndoIsExact` | `InstallSpec => ExactUndo` | |
| `Answers_proofs!SpliceInvariant` | `SpliceSpec => []SpliceInv` | |
| `Answers_proofs!ReadsOneMessage` | `SpliceSpec => []OneMessage` | |
| `Answers_proofs!ToolsAreRun` | `SpliceSpec => []ToolsRun` | |
| `Answers_proofs!GuardInvariant` | `Spec => []GuardInv` of `Requests` | |
| `Answers_proofs!RequestsTyped` | `Spec => []RequestsTypeOK` | |
| `Answers_proofs!RemovedStaysOut` | `Spec => OutStaysOut` | |
| `Answers_proofs!AcceptInvariant` | `Spec => []AcceptInv` of `Requests` | |
| `Answers_proofs!WhatGoesOutIsAccepted` | `Spec => []Accepted` | |
| `Answers_proofs!KeepInvariant` | `Spec => []KeepInv` of `Requests` | |
| `Answers_proofs!ThinkingIsKept` | `Spec => []ThinkingKept` | |
| `Answers_proofs!McpInvariance` | `McpSpec => []McpInv` | |
| `Answers_proofs!McpCalledOnce` | `McpSpec => []CalledOnce` | |
| `Answers_proofs!McpOwnAnswer` | `McpSpec => []OwnAnswer` | |
| `Answers_proofs!McpCancellable` | `McpSpec => []Cancellable` | |
| `Stores_proofs!TtlInvariant` | `TtlSpec => []TtlInv` | |
| `Stores_proofs!LearntFromUsage` | `TtlSpec => []LearnedFromUsage` | |
| `Stores_proofs!RestoreInvariant` | `RestoreSpec => []RestoreInv` | |
| `Stores_proofs!NeverAnotherText` | `RestoreSpec => []NeverAnother` | |
| `Stores_proofs!ReceiptsInvariant` | `ReceiptsSpec => []ReceiptsInv` | |
| `Stores_proofs!ChainVerifies` | `ReceiptsSpec => []ChainWhole` | |
| `Stores_proofs!HealthyIsTold` | `ReceiptsSpec => []NoFalseAlarm` | |
| `Stores_proofs!EditIsTold` | `ReceiptsSpec => EditFound` | |
| `Stores_proofs!EveryReceiptCounted` | `ReceiptsSpec => NoSilentGap` | |
| `Accounts_proofs!QuotaInvariant` | `QuotaSpec => []QuotaInv` | |
| `Accounts_proofs!DayIsCapped` | `QuotaSpec => []DayCap` | |
| `Accounts_proofs!SavingsInvariant` | `SavingsSpec => []SavingsInv` | |
| `Accounts_proofs!NothingDropped` | `SavingsSpec => []BookedOnce` | |
| `Accounts_proofs!StateInvariant` | `StateSpec => []StateInv` | |
| `Accounts_proofs!CountersSurvive` | `StateSpec => []AccountsKept` | |
| `Accounts_proofs!AuditBooks` | `AuditSpec => []AuditInv` | |
| `Accounts_proofs!CapIsKept` | `AuditSpec => []CapHolds` | |
| `Parts_proofs!PartsImplement` | `PartsSpec => Spec /\ WrapSpec /\ ...`, all twelve | |
| `Parts_proofs!PartsTyped` | `PartsSpec => []PartsTypeOK` | |

The conditions are not conveniences: the four violations of the cold point show what
happens without a bound on lineages, audits, lifetimes and deaths. "Nothing fails open" is
one too: a request without a plan refreshes the provider's cache uncounted, like an audit,
and forwards originals.

The argument for the cold point. The invariant is given at the end of `Coldpoint`, in named
parts. `Held`: a thread between the two sections has a state to write to. `Counted`: the
in-flight count is the number of open threads, which is why a verdict of "cold" means
that nobody is talking to the provider. `Cooling`: the provider has forgotten a lineage
at the latest a lifetime and the margin after the state's `last`, and a thread that has
read the clock read it no later than now; a request that waited for the lock is therefore
judged by an older clock, never a newer one. With `Counted`, "cold" implies that the
provider's time is over. `Straight`: a state that is not ambiguous has seen only prefixes
of its last list. `Kept`: whoever answers for a lineage (state, file, or a thread that has
read the file) knows every id on the wire that was not `lost`. `Durable`: what is on the
wire, or in a state, a thread or a copy of the file, is on disk, being written, or lost;
every step that takes an id out of the first two puts it into the third, so this needs no
condition at all, and it makes `Kept` survive a death. While nobody dies and the file can be
read and written nothing gets lost, which is `WireOutlives`.

The refinement. A step of `Coldpoint` is a step of `EvictionLedger` or changes nothing the
ledger shows. Two more invariants are needed. `Answered`: a state's set holds all that the
file has, and what a thread looked up while the worker did not know the lineage is what the
file still has; so a lineage that becomes known keeps its set, and a request forwards no
more than the set. `OneChooses`: a licence has one holder, so that the step which uses it
also ends it. `LedgerDecide` is where `SurelyExpired` is used: a licence is issued on a
verdict of "cold", and that is a moment at which the provider has forgotten the lineage. A
failed write breaks none of it; a read that fails would, since a lineage could come back
with less than the file has. A death would: what it lets the ledger forget is right, but
a second lifetime may be longer than the one the next worker knows, as `coldpoint_ttl` shows.

The argument for the drift guard. `Inv` adds to the types that whoever is between two
steps on the file holds its lock (`Exclusive`), that a booked row is in the ledger
(`Booked`), and that while the ledger is folded, while a reset is between its steps, and
when the file is of another budget, it records no hold that could be lost (`Undecided`). Then each write either keeps
the hold of what it read, or replaces a file that had none. `Histories` adds the rows:
evidence waiting to be carried over means that nobody has bet anything yet (`Unstarted`),
a booked row is new to this process and to every released one and booked by one thread
(`Rows`), and an untripped process has no receipt while a tripped one has one or its
writer is about to write it (`Trips`). The last needs that a process of an older schema
that is tripped is seen as held by every proxy that runs, so that nobody folds on it.
`Watched` adds the watchers: whoever has seen the file as it is now has loaded it, rows are
booked by proxies that sample, and a file that was archived is missing only while a reset
is between its steps. So outside a reset a missing file means that nobody has started
(`Unstarted`), and a watcher that takes no samples is up to date or has a replaced file to
look at. What is left of `WatchersNotice` is that the poll comes, which needs fairness.

The argument for the config wrap. `WrapInv` says who is inside the critical section and
holds the lock (`Holder`); that a session which has claimed the path is the only entry of
the registry, and one that restores has found none (`Entries`); which files stand at each
step (`FilesOK`); and that after a clean end only a session under way leaves traces
(`Traces`). A kill keeps the files and frees the lock, so the next session meets `FilesOK`
with an entry whose owner is dead. `Recoverable` and `OwnPatch` are parts of it; `AsFound`
follows from `Traces` when nobody is left.

The argument for the MCP proxy. `McpInv` relates a call's place to what it has sent, been
answered and left behind (`Progress`), and the ids each server is waited for to the calls
that wait (`Paired`). A wire id names its call, so a late answer meets either that call or
nobody. A call that was sent is never at a place from which the fail-open path sends.

The argument for the hot-swap. `NoneForgotten` speaks of the session while it runs. `SwapInv`
says it from the first boot (`Tracked`), which worker the current slot has before and after
the first one is ready (`BootOK`), that the slot of the new worker is taken while somebody
waits for it (`SlotOK`), and that a respawn replaces a dead worker (`RespawnOK`), whose
number cannot come back while the slot holds it. A respawn that overwrites the slot
therefore loses nothing. `HandoverHasNoGap`: only `Swapped` and the signal drain a worker
that serves, `Swapped` waits until its successor has reported, and that one is none of
those that are drained (`HeirOK`), so all that can have happened to it is a death. `DrainInv` (only a drain has an age; until shutdown
waits, every drain is on the list) makes a poll kill exactly the drains over the cap, which
is what `WedgesEnd` is without the fairness of the polls. `FrontInv` keeps the worker being
spawned apart from the current one, so a handover never drains what it installs.

The argument for the permanent install. What is on record was replaced by an install, and
routing it gave the bytes that were written (`Recorded`); an install under way backs up the
very file it routes (`InstallHolds`); an undo carries a clean file that was replaced by what
it read (`UndoHolds`). The user may save anything between any two steps, so nothing is said
of the config itself: `ExactUndo` compares it with what the command has read.

The stores. `TtlInv`: a probe in progress is about the only request in flight (`ProbeOK`), so
what is heard is said of the gap it has, and whatever the file and the copies have was heard
(`SaidOK`); a merge takes the lesser and the greater of two such bounds, and a table that
is empty, or overwrites the file, brings in nothing else. `RestoreInv`: until the file is
`gone`, one text has the handle (`OneText`), whether it is written, promised in a stub, or
about to be written by a thread that compared it. A stub without a file is promised
nothing, so another text can come after it; an answer given to such a stub stays harmless
because its text is the only one that can have the handle from then on (`AnswerOK`).

The argument for the receipt chain. `ReceiptsInv` says of the files that a number is on one
place only (`HashOnce`), what does not match its hash was edited (`Intact`), every receipt
links to the nearest one before it, in its file or the last receipt of the file before
(`Chained`), no segment is without a receipt (`NoneEmpty`), what was acknowledged is there
(`Filed`), and each segment has the checkpoint of what it holds, also the one about to be
renamed (`Committed`). A torn line keeps all of it: it is no receipt until a newline ends
it, and what is glued to it is none either. A resume point is `Sound`, the place of the
receipt it names and a count of no fewer lines than there are up to it, or `Stale`, in a
segment that does not have that receipt (`Resumable`); then `Usable` refuses it. A pass
lists the segments there were or more (`Listed`), and an edit it must find is ahead of it
(`ToFind`). A pass that meets a receipt in a fresh active file, after a seal it has not
listed, fails, because that receipt links into a file it does not have; so one that comes
back with ok has listed every file it read, or is `Unaware`. What a pass does line after line needs no induction here: a bad receipt, if
any, has a first one, and the least element of a set of numbers comes from the
well-foundedness of `<`.

The argument for the spliced stream. `SpliceInv` relates the events the client was shown to
what is being read: each event fits those before it (`Fits`), indices are handed out in
order (`Numbered`, `Indexed`), the client's open block is the one that is read (`OpenNow`),
the tail that is held back is that of the answer that is read (`TailHeld`), and a call the
client must run was shown from that answer (`ToolsNow`), which therefore is not followed by
a re-query. `Started` and `Ending` fix what comes first and last.

The argument for the thinking guard. While no record is lost, what was taken out is in the
journal, and a process knows of every removal before its offset (`Follows`); the lock of a
process has one holder (`OneHolds`), so between judging and appending its tables stand still
and a verdict keeps knowing what they say is out (`VerdictsOK`). A request that goes out
without a loss had its offset at the end of the journal; its verdict therefore knew all that
was out. Tables and journal are finite, which the proof needs because a process that
compacts writes its tables as lines (`DumpOK`).

The argument for what the provider accepts (`AcceptInv`, which takes `GuardInv` as given).
While no record is lost, a process knows the journal as far as it has read it (`Remembers`;
a compaction writes what gives the same tables back, `DumpBack`), and a verdict that waits
for its append is the one its tables would give again (`Judging`). An answer in a history
stands where the length of the prefix in the provider's books says (`Past`), so a block is
in one place of a request (`OnePlace`), and what followed a hidden round is out already. A
prefix names one answer: a later answer goes to a longer history (`Later`), and an earlier
request that goes out late marks a record as lost. Hence the journal keeps, of each answer
whose prefix the client has not edited since, the prefix that went out and the block before
it (`RecordsKept`), and what a guard infers of its block is what the provider bound. Messages
are edited to what they never were before (`Aged`), so a prefix in a request that is under
way is the provider's whenever the one in the client's history is (`Same`). A block may stay
after the blocks ahead of it that stay (`StayJudged`): `Stays` then says what `Accepted` asks.

The argument for what the freeze is for (`KeepInv`, which says nothing once a conversation
is `disturbed` by an edit, a regeneration, an eviction, a message that cannot be frozen, a
request given up, refused or over the byte cap, a hand-over or a crash).
One worker serves, it has read what it wrote, and one request is under way at a time
(`Alone`). Nothing was evicted, so the frozen state gives every message of the history back
as it went out (`Lined`, `Fitting`, `AllHits`). The worker's tables have the record of each
answer, with the prefix and the block before it that the provider bound (`HeldTo`); a failed
write of the journal loses nothing here, since the tables have it. So a block that is not out
stands over its prefix and after the block that `Foregoing` names (`AsSent`, `LastShown`),
each is judged (`AllJudged`) and stays (`AllStay`), and what a verdict removes was out
already; only what followed a hidden round ever is (`OnlyHidden`).

The accounts. `QuotaInv` bounds what a day admitted by `late` quotas and what the pair still
says was spent of it: a whole one when the pair is of a later day. `SavingsInv`: ledger and
counters balance with what was booked (`Balanced`, where the rows that a flush has written
no longer count as held), and after a drain in time nobody books behind the last flush
(`InTime`). `StateInv`: a save that met no other finds under the temporary name what it put
there (`LoneOK`), and the state name has a whole file (`KeptOK`); it needs the set of saver
threads to be finite, since a handle is free when fewer threads write than there are handles.
`AuditInv` counts the units of the cap that today's samples hold: the file either knows all
of them, as reserved or as spent, or refuses every sample (`Covered`), and a file of another
day has seen none of them (`Dated`).

The parts together. `MCParts` runs one part at a time. `PartsStart` and `PartsStep` say that
its first state is one of each part and that its steps are, to each part, a step of its own
or a stutter; so it implements all twelve, and their theorems hold of the very specification
that the run `parts` checks.

Only model-checked: liveness (`WatchersNotice`, `WedgesEnd`, `UpgradeServed`), since fairness
and ENABLED are out of the prover's reach. The safety that the first two rest on is proved
(`WatchersFollow`, `CapIsEnforced`).
Each part of the cold point's invariant is proved under the conditions of the theorems that
need it. The modules with theorems use no RECURSIVE operator.

## 6. What is not modelled

The parts with status `not_modelled` in `PROJECT.json`, each with its reason: those about
strings (compressors, adapters, the compression of tool definitions), real numbers
(certification, conformal bounds, codec) or I/O (relay, telemetry), which a model checker
does not reach; and ports and experiments. Within the modelled parts, section 3 names what
is left out; the certificate hold of the drift guard is the largest piece that could follow.

Measured in lines the modules stand for a small share of the program. Most of its lines are
transformations of text and JSON, tables of providers and prices, commands that print,
statistics and evaluation harnesses: each is sequential, keeps no state between calls, and
is covered by tests over examples. What keeps state that several threads, processes or
restarts touch is what is modelled here.

Beyond that: the advisory lock fails open when a file system does not support it
(`_filelock.py:157`); the modules assume it holds, as the code's own promises do. The key
store of the gateway and its per-minute window, the in-memory half of the restore store,
and the JSON-RPC framing of both MCP servers are left out. Hazards that no property
covers are listed in `PROJECT.json` with the reason.
