------------------------------- MODULE HotSwap -------------------------------
(***************************************************************************)
(* Hot-swap, src/distil/hotswap.py: a supervisor inside `distil wrap` owns *)
(* the listening socket and the proxy worker that serves it.  Its watch    *)
(* thread respawns a dead worker and hands over to a new one when the      *)
(* version on disk changes or on SIGUSR1; the main thread drains the       *)
(* workers when the session ends.                                          *)
(***************************************************************************)
EXTENDS Integers, FiniteSets

CONSTANTS
  Worker,       \* worker processes, numbered (a dead one's number is given to a later one)
  Version,      \* versions that can be installed
  First,        \* the version on disk when the session starts
  Broken,       \* versions whose worker never reports READY
  DrainBudget,  \* _DRAIN_BUDGET_S: a draining worker waits this long for its handlers
  DrainCap,     \* _DRAIN_CAP_S: the supervisor kills a drain that lasts longer
  StopWait,     \* shutdown() waits this long for each worker
  MaxInstalls,  \* bound: changes of what is on disk
  MaxCrashes,   \* bound: workers that die by themselves
  MaxAsks,      \* bound: signals that ask for a handover
  NONE          \* no worker, no readable version

ASSUME HotSwapAssumption ==
  /\ Worker \subseteq Nat /\ Broken \subseteq Version /\ First \in Version /\ NONE \notin Version \cup Worker
  /\ DrainBudget \in Nat \ {0} /\ StopWait \in Nat /\ MaxInstalls \in Nat /\ MaxAsks \in Nat
  /\ MaxCrashes \in Nat /\ DrainCap \in Nat /\ DrainBudget < DrainCap

VARIABLES
  disk,      \* installed_version(): NONE while a reinstall is under way
  state,     \* what each worker process does
  ver,       \* the code each worker runs
  age,       \* time since the worker was told to drain
  current,   \* _worker
  draining,  \* _draining
  failed,    \* _failed_version
  asked,     \* _handover_asked
  manual,    \* the watch thread's copy of it
  stopping,  \* _stopping
  watch,     \* where the watch thread is
  new,       \* the worker being spawned
  main,      \* where the main thread is
  procs,     \* shutdown(): the workers still waited for
  waited,    \* shutdown(): time spent waiting for the next one
  installs, crashes, asks  \* the bounds' counters

process == <<state, ver, age>>
super == <<current, draining, failed>>
flags == <<asked, manual, stopping>>
shut == <<main, procs, waited>>
world == <<disk, installs, crashes, asks>>
vars == <<process, super, flags, watch, new, shut, world>>

-----------------------------------------------------------------------------
Alive(w) == state[w] \in {"starting", "serving", "draining", "wedged"}

\* Popen.poll() tells the supervisor that the worker is gone.
Dead(w) == ~Alive(w)

\* A number no live worker has.  A dead one that _reap_drained has not dropped yet gives
\* up its number early, which nothing can tell.
Free(w) == ~Alive(w) /\ w \notin {current, new} \cup procs

\* The processes ws are gone, and what the model knows of them with them.
Gone(ws, how) ==
  /\ state' = [w \in Worker |-> IF w \in ws THEN how ELSE state[w]]
  /\ ver' = [w \in Worker |-> IF w \in ws THEN NONE ELSE ver[w]]
  /\ age' = [w \in Worker |-> IF w \in ws THEN 0 ELSE age[w]]

\* READY never comes: a half-installed package or a broken one.
Unready(w) == ver[w] = NONE \/ ver[w] \in Broken

Init ==
  /\ disk = First
  /\ state = [w \in Worker |-> "exited"]
  /\ ver = [w \in Worker |-> NONE]
  /\ age = [w \in Worker |-> 0]
  /\ current = NONE /\ draining = {} /\ failed = NONE
  /\ asked = FALSE /\ manual = FALSE /\ stopping = FALSE
  /\ watch = "off" /\ new = NONE
  /\ main = "boot" /\ procs = {} /\ waited = 0
  /\ installs = 0 /\ crashes = 0 /\ asks = 0

-----------------------------------------------------------------------------
(* Worker processes.                                                       *)

\* Popen: a fresh interpreter runs the code that is on disk now.
Spawn(w) ==
  /\ Free(w) /\ \A u \in Worker : Free(u) => w <= u
  /\ state' = [state EXCEPT ![w] = "starting"]
  /\ ver' = [ver EXCEPT ![w] = disk]
  /\ draining' = draining \ {w}
  /\ new' = w
  /\ UNCHANGED age

\* The worker accepts on the inherited socket and prints its READY line.
Ready(w) ==
  /\ state[w] = "starting" /\ ~Unready(w)
  /\ state' = [state EXCEPT ![w] = "serving"]
  /\ UNCHANGED <<ver, age, super, flags, watch, new, shut, world>>

\* The drain is over: the handlers in flight are done, or the budget is spent.  Savings and
\* shadow samples are flushed, and the worker exits.
Flush(w) ==
  /\ state[w] = "draining"
  /\ Gone({w}, "exited")
  /\ UNCHANGED <<super, flags, watch, new, shut, world>>

\* A worker dies by itself...
Die(w) ==
  /\ crashes < MaxCrashes /\ state[w] \in {"serving", "draining"}
  /\ crashes' = crashes + 1
  /\ Gone({w}, "exited")
  /\ UNCHANGED <<super, flags, watch, new, shut, disk, installs, asks>>

\* ... or never gets out of its drain.
Wedge(w) ==
  /\ crashes < MaxCrashes /\ state[w] = "draining"
  /\ crashes' = crashes + 1
  /\ state' = [state EXCEPT ![w] = "wedged"]
  /\ UNCHANGED <<ver, age, super, flags, watch, new, shut, disk, installs, asks>>

\* SIGTERM to the workers ws: those that live drain from now on.
Terminated(ws) ==
  [w \in Worker |-> IF w \in ws /\ state[w] = "serving" THEN "draining" ELSE state[w]]

\* Time passes, but not past the drain budget of a worker that keeps to it.
Tick ==
  /\ \A w \in Worker : state[w] = "draining" => age[w] < DrainBudget
  /\ age' = [w \in Worker |-> IF state[w] \in {"draining", "wedged"} /\ age[w] <= DrainCap
                              THEN age[w] + 1 ELSE age[w]]
  /\ waited' = IF main = "reap" /\ waited < StopWait THEN waited + 1 ELSE waited
  /\ UNCHANGED <<state, ver, super, flags, watch, new, main, procs, world>>

\* pip takes the package away, or has put a version in its place.
Install ==
  /\ installs < MaxInstalls /\ main # "exited"
  /\ IF disk = NONE THEN disk' \in Version ELSE disk' = NONE
  /\ installs' = installs + 1
  /\ UNCHANGED <<process, super, flags, watch, new, shut, crashes, asks>>

\* SIGUSR1.
Ask ==
  /\ main = "run" /\ ~asked /\ asks < MaxAsks
  /\ asked' = TRUE /\ asks' = asks + 1
  /\ UNCHANGED <<process, super, manual, stopping, watch, new, shut, disk, installs, crashes>>

-----------------------------------------------------------------------------
(* The watch thread.                                                       *)

\* The wait ends: return if the session is over, else read the event...
Wake ==
  /\ watch = "wait"
  /\ IF stopping THEN watch' = "gone" /\ UNCHANGED manual
     ELSE watch' = "clear" /\ manual' = asked
  /\ UNCHANGED <<process, super, asked, stopping, new, shut, world>>

\* Mutant: each poll restarts the clock (the comment in _reap_drained).
OverdueNever(w) == FALSE

\* _reap_drained: a drain that outlives the cap.
Overdue(w) == Alive(w) /\ age[w] > DrainCap

\* ... and clear it; then _reap_drained.
Tidy ==
  /\ watch = "clear"
  /\ asked' = FALSE
  /\ draining' = {w \in draining : Alive(w) /\ ~Overdue(w)}
  /\ Gone({w \in draining : Overdue(w)}, "killed")
  /\ watch' = "decide"
  /\ UNCHANGED <<current, failed, manual, stopping, new, shut, world>>

\* Is there a version on disk to hand over to?
NewVersion == disk # NONE /\ disk # ver[current] /\ disk # failed

Decide ==
  /\ watch = "decide"
  /\ watch' = IF Dead(current) THEN "respawn"
              ELSE IF manual \/ NewVersion THEN "handover" ELSE "wait"
  /\ UNCHANGED <<process, super, flags, new, shut, world>>

\* A dead worker is replaced, without the lock.
Respawn(w) ==
  /\ watch = "respawn"
  /\ Spawn(w)
  /\ watch' = "respawning"
  /\ UNCHANGED <<current, failed, flags, shut, world>>

\* _await_ready returned: whatever becomes of the worker, it is the current one.
Respawned ==
  /\ watch = "respawning" /\ state[new] # "starting"
  /\ current' = new /\ new' = NONE
  /\ watch' = "wait"
  /\ UNCHANGED <<process, draining, failed, flags, shut, world>>

\* _await_ready timed out: the worker is killed.
Killed == Gone({new}, "killed")

\* Mutant: the exception ends the watch thread.
RespawnFailsHard ==
  /\ watch = "respawning" /\ state[new] = "starting" /\ Unready(new)
  /\ Killed /\ new' = NONE
  /\ watch' = "gone"
  /\ UNCHANGED <<super, flags, shut, world>>

RespawnFails ==
  /\ watch = "respawning" /\ state[new] = "starting" /\ Unready(new)
  /\ Killed /\ new' = NONE
  /\ watch' = "wait"
  /\ UNCHANGED <<super, flags, shut, world>>

\* The watch thread holds _lock from the spawn to the end of _handover.
Locked == watch = "swapping"

\* _handover: the new worker is spawned.
Handover(w) ==
  /\ watch = "handover"
  /\ Spawn(w)
  /\ watch' = "swapping"
  /\ UNCHANGED <<current, failed, asked, manual, stopping, shut, world>>

\* Mutant: the old worker is told to drain and forgotten.
RetireForgetting(old) ==
  /\ state' = Terminated({old})
  /\ UNCHANGED draining

\* The old worker drains next to the new one.
Retire(old) ==
  /\ state' = Terminated({old})
  /\ draining' = IF Alive(old) THEN draining \cup {old} ELSE draining

\* Mutant: the old worker is told to drain without waiting for the READY line.
SwappedUnready ==
  /\ watch = "swapping"
  /\ Retire(current)
  /\ current' = new /\ new' = NONE
  /\ failed' = NONE
  /\ watch' = "wait"
  /\ UNCHANGED <<ver, age, asked, manual, stopping, shut, world>>

Swapped ==
  /\ watch = "swapping" /\ state[new] # "starting"
  /\ Retire(current)
  /\ current' = new /\ new' = NONE
  /\ failed' = NONE
  /\ watch' = "wait"
  /\ UNCHANGED <<ver, age, asked, manual, stopping, shut, world>>

\* The new worker failed: keep the old one, and do not try this version again.
SwapFails ==
  /\ watch = "swapping" /\ state[new] = "starting" /\ Unready(new)
  /\ Killed /\ new' = NONE
  /\ failed' = disk
  /\ watch' = "wait"
  /\ UNCHANGED <<current, draining, asked, manual, stopping, shut, world>>

-----------------------------------------------------------------------------
(* The main thread: start() and shutdown().                                *)

Boot(w) ==
  /\ main = "boot"
  /\ Spawn(w)
  /\ main' = "booting"
  /\ UNCHANGED <<current, failed, flags, watch, procs, waited, world>>

Booted ==
  /\ main = "booting" /\ state[new] # "starting"
  /\ current' = new /\ new' = NONE
  /\ watch' = "wait" /\ main' = "run"
  /\ UNCHANGED <<process, draining, failed, flags, procs, waited, world>>

\* wrap_run goes on without a supervisor.
BootFails ==
  /\ main = "booting" /\ state[new] = "starting" /\ Unready(new)
  /\ Killed /\ new' = NONE
  /\ main' = "fallback"
  /\ UNCHANGED <<super, flags, watch, procs, waited, world>>

\* The session is over.
Stop ==
  /\ main = "run"
  /\ stopping' = TRUE /\ main' = "stop"
  /\ UNCHANGED <<process, super, asked, manual, watch, new, procs, waited, world>>

\* Mutant: the list of shutdown() is not filtered.
KnownUnfiltered == {current, new} \cup draining

\* The workers the supervisor lists.
Known == {current} \cup draining

\* ... at one moment at which no handover is under way.
Snapshot ==
  /\ main = "stop" /\ ~Locked
  /\ procs' = Known
  /\ main' = "term"
  /\ UNCHANGED <<process, super, flags, watch, new, waited, world>>

Terminate ==
  /\ main = "term"
  /\ state' = Terminated(procs)
  /\ main' = "reap" /\ waited' = 0
  /\ UNCHANGED <<ver, age, super, flags, watch, new, procs, world>>

\* Each worker is waited for, and killed when the wait times out.
Reap(w) ==
  /\ main = "reap" /\ w \in procs
  /\ Dead(w) \/ waited >= StopWait
  /\ Gone({w} \cap {u \in Worker : Alive(u)}, "killed")
  /\ procs' = procs \ {w} /\ waited' = 0
  /\ UNCHANGED <<super, flags, watch, new, main, world>>

\* The wrap process exits and takes its daemon thread with it.
Exit ==
  /\ main = "reap" /\ procs = {}
  /\ main' = "exited" /\ watch' = "gone"
  /\ UNCHANGED <<process, super, flags, new, procs, waited, world>>

-----------------------------------------------------------------------------
Watch ==
  \/ Wake \/ Tidy \/ Decide
  \/ Respawned \/ RespawnFails \/ Swapped \/ SwapFails
  \/ \E w \in Worker : Respawn(w) \/ Handover(w)

Main ==
  \/ Booted \/ BootFails \/ Snapshot \/ Terminate \/ Exit
  \/ \E w \in Worker : Boot(w) \/ Reap(w)

Next ==
  \/ Watch \/ Main \/ Stop \/ Ask \/ Install \/ Tick
  \/ \E w \in Worker : Ready(w) \/ Flush(w) \/ Die(w) \/ Wedge(w)

Spec == Init /\ [][Next]_vars

\* Threads run, a sound worker gets ready within its timeout, and time passes.
Fairness ==
  /\ WF_vars(Watch) /\ WF_vars(Main) /\ WF_vars(Tick)
  /\ \A w \in Worker : WF_vars(Ready(w)) /\ WF_vars(Flush(w))

FairSpec == Spec /\ Fairness

-----------------------------------------------------------------------------
(* Properties.                                                             *)

TypeOK ==
  /\ disk \in Version \cup {NONE}
  /\ state \in [Worker -> {"starting", "serving", "draining", "wedged", "exited", "killed"}]
  /\ ver \in [Worker -> Version \cup {NONE}]
  /\ age \in [Worker -> 0..DrainCap + 1]
  /\ current \in Worker \cup {NONE} /\ new \in Worker \cup {NONE}
  /\ draining \subseteq Worker /\ procs \subseteq Worker
  /\ failed \in Version \cup {NONE}
  /\ asked \in BOOLEAN /\ manual \in BOOLEAN /\ stopping \in BOOLEAN
  /\ watch \in {"off", "wait", "clear", "decide", "respawn", "respawning", "handover",
                "swapping", "gone"}
  /\ main \in {"boot", "booting", "fallback", "run", "stop", "term", "reap", "exited"}
  /\ waited \in 0..StopWait
  /\ installs \in 0..MaxInstalls /\ crashes \in 0..MaxCrashes
  /\ asks \in 0..MaxAsks

\* While the session runs, every live worker is the current one, one being spawned or
\* one in the draining list: none is forgotten when it is replaced, so that shutdown()
\* can drain them all.
NoneForgotten ==
  main = "run" => \A w \in Worker : Alive(w) => w \in {current, new} \cup draining

\* A worker that serves is told to drain only by shutdown(), or in favour of another worker
\* that has reported READY and accepts on the same socket (docstring: "No handover gap").
\* That one may have died by itself since it reported, which the next poll of the watch
\* thread sees; a worker that is still starting, drains or was killed is never relied on.
NoHandoverGap ==
  [][\A w \in Worker : state[w] = "serving" /\ state'[w] = "draining" =>
       \/ main = "term"
       \/ /\ new \in Worker \ {w} /\ current' = new
          /\ state[new] \in {"serving", "exited"}]_vars

\* A worker that cannot get out of its drain is killed in the end, by the cap or by
\* shutdown (comments on _DRAIN_CAP_S and in _reap_drained: it must not linger).
WedgesEnd ==
  (\E w \in Worker : state[w] = "wedged") ~> (\A w \in Worker : state[w] # "wedged")

\* The version on disk, when it is sound and no failed handover was blamed on it.
Owed == disk \in Version \ (Broken \cup {failed})

Served == current # NONE /\ ver[current] = disk /\ state[current] = "serving"

\* While the session lasts, the worker catches up with the version on disk again and
\* again, through deaths of workers, reinstalls and requested handovers (docstring: live
\* sessions pick up upgrades without a restart).
UpgradeServed == []<>(Owed => Served \/ stopping \/ main = "fallback")

\* When the session is over every worker has been drained, so that its savings and its
\* shadow samples are flushed (doc of shutdown).
ShutdownDrains ==
  [][\A w \in Worker : state[w] = "draining" => state'[w] # "killed"]_vars
=============================================================================
