---------------------------- MODULE HotSwap_proofs ----------------------------
(***************************************************************************)
(* Proofs about the hot-swap supervisor (HotSwap), for any number of       *)
(* workers and versions: its type invariant, that no live worker is        *)
(* forgotten, and that no worker drains before its successor is there.     *)
(***************************************************************************)
EXTENDS HotSwap, TLAPS

\* Before the first worker is ready there is no watch thread and no current worker, and
\* both exist from then on.
BootOK ==
  IF main \in {"boot", "booting", "fallback"} THEN watch = "off" /\ current = NONE
  ELSE watch # "off" /\ current \in Worker

\* The slot of the worker being spawned is taken exactly while somebody waits for it; when
\* the wrap process exits it takes the watch thread with it in the middle of a spawn.
SlotOK ==
  /\ watch \in {"respawning", "swapping"} \/ main = "booting" => new \in Worker
  /\ new # NONE => watch \in {"respawning", "swapping"} \/ main \in {"booting", "exited"}

\* A worker is respawned only in place of a dead one, which stays dead: its number is not
\* free.
RespawnOK == watch \in {"respawn", "respawning"} => Dead(current)

\* NoneForgotten, from the first moment on.
Tracked ==
  main \in {"boot", "booting", "run"} =>
    \A w \in Worker : Alive(w) => w \in {current, new} \cup draining

\* The worker that a handover waits for is none of those that are told to drain; the wrap
\* process takes its watch thread with it.
HeirOK ==
  /\ main = "exited" => watch = "gone"
  /\ watch = "swapping" => /\ new \notin {current} \cup draining \cup procs
                           /\ state[new] \in {"starting", "serving", "exited"}

\* The inductive invariant.
SwapInv == TypeOK /\ BootOK /\ SlotOK /\ RespawnOK /\ HeirOK /\ Tracked
-----------------------------------------------------------------------------
LEMMA InitInv == Init => SwapInv
<1>. SUFFICES ASSUME Init PROVE SwapInv
  OBVIOUS
<1>0. asked \in BOOLEAN /\ manual \in BOOLEAN /\ stopping \in BOOLEAN
  BY Zenon DEF Init
<1>1. TypeOK
  BY <1>0, HotSwapAssumption DEF Init, TypeOK
<1>2. BootOK /\ SlotOK /\ RespawnOK /\ HeirOK /\ Tracked
  BY DEF Init, BootOK, SlotOK, RespawnOK, HeirOK, Tracked, Alive
<1>. QED
  BY <1>1, <1>2 DEF SwapInv

LEMMA WakeStep ==
  ASSUME SwapInv, Wake
  PROVE  SwapInv'
<1>. USE HotSwapAssumption DEF SwapInv, Wake, process, super, flags, shut, world
<1>1. TypeOK'
  BY DEF TypeOK, BootOK, SlotOK
<1>2. BootOK' /\ SlotOK' /\ RespawnOK' /\ HeirOK'
  BY DEF TypeOK, BootOK, SlotOK, RespawnOK, HeirOK, Alive, Dead
<1>3. Tracked'
  BY DEF TypeOK, BootOK, SlotOK, RespawnOK, Tracked, Alive, Dead
<1>. QED
  BY <1>1, <1>2, <1>3

LEMMA TidyStep ==
  ASSUME SwapInv, Tidy
  PROVE  SwapInv'
<1>. USE HotSwapAssumption DEF SwapInv, Gone, Overdue, process, super, flags, shut, world
<1>1. asked' \in BOOLEAN
  BY Zenon DEF Tidy
<1>2. state' \in [Worker -> {"starting", "serving", "draining", "wedged", "exited", "killed"}]
  BY DEF Tidy, TypeOK
<1>3. ver' \in [Worker -> Version \cup {NONE}] /\ age' \in [Worker -> 0..DrainCap + 1]
  BY DEF Tidy, TypeOK
<1>4. draining' \subseteq Worker /\ watch' = "decide"
      /\ UNCHANGED <<disk, current, failed, manual, stopping, new, main, procs, waited, installs, crashes, asks>>
  BY DEF Tidy, TypeOK
<1>5. TypeOK'
  BY <1>1, <1>2, <1>3, <1>4 DEF TypeOK
<1>6. BootOK' /\ SlotOK' /\ RespawnOK' /\ HeirOK'
  BY DEF Tidy, BootOK, SlotOK, RespawnOK, HeirOK
<1>7. Tracked'
  BY DEF Tidy, TypeOK, Tracked, Alive
<1>. QED
  BY <1>5, <1>6, <1>7

LEMMA DecideStep ==
  ASSUME SwapInv, Decide
  PROVE  SwapInv'
<1>. USE HotSwapAssumption DEF SwapInv, Decide, NewVersion, process, super, flags, shut, world
<1>1. TypeOK'
  BY DEF TypeOK, BootOK, SlotOK
<1>2. BootOK' /\ SlotOK' /\ RespawnOK' /\ HeirOK'
  BY DEF TypeOK, BootOK, SlotOK, RespawnOK, HeirOK, Alive, Dead
<1>3. Tracked'
  BY DEF TypeOK, BootOK, SlotOK, RespawnOK, Tracked, Alive, Dead
<1>. QED
  BY <1>1, <1>2, <1>3

LEMMA RespawnedStep ==
  ASSUME SwapInv, Respawned
  PROVE  SwapInv'
<1>. USE HotSwapAssumption DEF SwapInv, Respawned, process, super, flags, shut, world
<1>1. TypeOK'
  BY DEF TypeOK, BootOK, SlotOK
<1>2. BootOK' /\ SlotOK' /\ RespawnOK' /\ HeirOK'
  BY DEF TypeOK, BootOK, SlotOK, RespawnOK, HeirOK, Alive, Dead
<1>3. Tracked'
  BY DEF TypeOK, BootOK, SlotOK, RespawnOK, Tracked, Alive, Dead
<1>. QED
  BY <1>1, <1>2, <1>3

LEMMA RespawnFailsStep ==
  ASSUME SwapInv, RespawnFails
  PROVE  SwapInv'
<1>. USE HotSwapAssumption DEF SwapInv, RespawnFails, Killed, Gone, Unready, process, super, flags, shut, world
<1>1. TypeOK'
  BY DEF TypeOK, BootOK, SlotOK
<1>2. BootOK' /\ SlotOK' /\ RespawnOK' /\ HeirOK'
  BY DEF TypeOK, BootOK, SlotOK, RespawnOK, HeirOK, Alive, Dead
<1>3. Tracked'
  BY DEF TypeOK, BootOK, SlotOK, RespawnOK, Tracked, Alive, Dead
<1>. QED
  BY <1>1, <1>2, <1>3

LEMMA SwappedStep ==
  ASSUME SwapInv, Swapped
  PROVE  SwapInv'
<1>. USE HotSwapAssumption DEF SwapInv, Swapped, Retire, Terminated, process, super, flags, shut, world
<1>1. TypeOK'
  BY DEF TypeOK, BootOK, SlotOK
<1>2. BootOK' /\ SlotOK' /\ RespawnOK' /\ HeirOK'
  BY DEF TypeOK, BootOK, SlotOK, RespawnOK, HeirOK, Alive, Dead
<1>3. Tracked'
  BY DEF TypeOK, BootOK, SlotOK, RespawnOK, Tracked, Alive, Dead
<1>. QED
  BY <1>1, <1>2, <1>3

LEMMA SwapFailsStep ==
  ASSUME SwapInv, SwapFails
  PROVE  SwapInv'
<1>. USE HotSwapAssumption DEF SwapInv, SwapFails, Killed, Gone, Unready, process, super, flags, shut, world
<1>1. TypeOK'
  BY DEF TypeOK, BootOK, SlotOK
<1>2. BootOK' /\ SlotOK' /\ RespawnOK' /\ HeirOK'
  BY DEF TypeOK, BootOK, SlotOK, RespawnOK, HeirOK, Alive, Dead
<1>3. Tracked'
  BY DEF TypeOK, BootOK, SlotOK, RespawnOK, Tracked, Alive, Dead
<1>. QED
  BY <1>1, <1>2, <1>3

LEMMA RespawnStep ==
  ASSUME SwapInv, NEW w \in Worker, Respawn(w)
  PROVE  SwapInv'
<1>. USE HotSwapAssumption DEF SwapInv, Respawn, Spawn, Free, process, super, flags, shut, world
<1>1. TypeOK'
  BY DEF TypeOK, BootOK, SlotOK
<1>2. BootOK' /\ SlotOK' /\ RespawnOK' /\ HeirOK'
  BY DEF TypeOK, BootOK, SlotOK, RespawnOK, HeirOK, Alive, Dead
<1>3. Tracked'
  BY DEF TypeOK, BootOK, SlotOK, RespawnOK, Tracked, Alive, Dead
<1>. QED
  BY <1>1, <1>2, <1>3

LEMMA HandoverStep ==
  ASSUME SwapInv, NEW w \in Worker, Handover(w)
  PROVE  SwapInv'
<1>. USE HotSwapAssumption DEF SwapInv, Handover, Spawn, Free, process, super, flags, shut, world
<1>1. TypeOK'
  BY DEF TypeOK, BootOK, SlotOK
<1>2. BootOK' /\ SlotOK' /\ RespawnOK' /\ HeirOK'
  BY DEF TypeOK, BootOK, SlotOK, RespawnOK, HeirOK, Alive, Dead
<1>3. Tracked'
  BY DEF TypeOK, BootOK, SlotOK, RespawnOK, Tracked, Alive, Dead
<1>. QED
  BY <1>1, <1>2, <1>3

LEMMA BootedStep ==
  ASSUME SwapInv, Booted
  PROVE  SwapInv'
<1>. USE HotSwapAssumption DEF SwapInv, Booted, process, super, flags, shut, world
<1>1. TypeOK'
  BY DEF TypeOK, BootOK, SlotOK
<1>2. BootOK' /\ SlotOK' /\ RespawnOK' /\ HeirOK'
  BY DEF TypeOK, BootOK, SlotOK, RespawnOK, HeirOK, Alive, Dead
<1>3. Tracked'
  BY DEF TypeOK, BootOK, SlotOK, RespawnOK, Tracked, Alive, Dead
<1>. QED
  BY <1>1, <1>2, <1>3

LEMMA BootFailsStep ==
  ASSUME SwapInv, BootFails
  PROVE  SwapInv'
<1>. USE HotSwapAssumption DEF SwapInv, BootFails, Killed, Gone, Unready, process, super, flags, shut, world
<1>1. TypeOK'
  BY DEF TypeOK, BootOK, SlotOK
<1>2. BootOK' /\ SlotOK' /\ RespawnOK' /\ HeirOK'
  BY DEF TypeOK, BootOK, SlotOK, RespawnOK, HeirOK, Alive, Dead
<1>3. Tracked'
  BY DEF TypeOK, BootOK, SlotOK, RespawnOK, Tracked, Alive, Dead
<1>. QED
  BY <1>1, <1>2, <1>3

LEMMA SnapshotStep ==
  ASSUME SwapInv, Snapshot
  PROVE  SwapInv'
<1>. USE HotSwapAssumption DEF SwapInv, Snapshot, Locked, Known, process, super, flags, shut, world
<1>1. TypeOK'
  BY DEF TypeOK, BootOK, SlotOK
<1>2. BootOK' /\ SlotOK' /\ RespawnOK' /\ HeirOK'
  BY DEF TypeOK, BootOK, SlotOK, RespawnOK, HeirOK, Alive, Dead
<1>3. Tracked'
  BY DEF TypeOK, BootOK, SlotOK, RespawnOK, Tracked, Alive, Dead
<1>. QED
  BY <1>1, <1>2, <1>3

LEMMA TerminateStep ==
  ASSUME SwapInv, Terminate
  PROVE  SwapInv'
<1>. USE HotSwapAssumption DEF SwapInv, Terminate, Terminated, process, super, flags, shut, world
<1>1. TypeOK'
  BY DEF TypeOK, BootOK, SlotOK
<1>2. BootOK' /\ SlotOK' /\ RespawnOK' /\ HeirOK'
  BY DEF TypeOK, BootOK, SlotOK, RespawnOK, HeirOK, Alive, Dead
<1>3. Tracked'
  BY DEF TypeOK, BootOK, SlotOK, RespawnOK, Tracked, Alive, Dead
<1>. QED
  BY <1>1, <1>2, <1>3

LEMMA ExitStep ==
  ASSUME SwapInv, Exit
  PROVE  SwapInv'
<1>. USE HotSwapAssumption DEF SwapInv, Exit, process, super, flags, shut, world
<1>1. TypeOK'
  BY DEF TypeOK, BootOK, SlotOK
<1>2. BootOK' /\ SlotOK' /\ RespawnOK' /\ HeirOK'
  BY DEF TypeOK, BootOK, SlotOK, RespawnOK, HeirOK, Alive, Dead
<1>3. Tracked'
  BY DEF TypeOK, BootOK, SlotOK, RespawnOK, Tracked, Alive, Dead
<1>. QED
  BY <1>1, <1>2, <1>3

LEMMA BootStep ==
  ASSUME SwapInv, NEW w \in Worker, Boot(w)
  PROVE  SwapInv'
<1>. USE HotSwapAssumption DEF SwapInv, Boot, Spawn, Free, process, super, flags, shut, world
<1>1. TypeOK'
  BY DEF TypeOK, BootOK, SlotOK
<1>2. BootOK' /\ SlotOK' /\ RespawnOK' /\ HeirOK'
  BY DEF TypeOK, BootOK, SlotOK, RespawnOK, HeirOK, Alive, Dead
<1>3. Tracked'
  BY DEF TypeOK, BootOK, SlotOK, RespawnOK, Tracked, Alive, Dead
<1>. QED
  BY <1>1, <1>2, <1>3

LEMMA ReapStep ==
  ASSUME SwapInv, NEW w \in Worker, Reap(w)
  PROVE  SwapInv'
<1>. USE HotSwapAssumption DEF SwapInv, Reap, Gone, process, super, flags, shut, world
<1>1. TypeOK'
  BY DEF TypeOK, BootOK, SlotOK
<1>2. BootOK' /\ SlotOK' /\ RespawnOK' /\ HeirOK'
  BY DEF TypeOK, BootOK, SlotOK, RespawnOK, HeirOK, Alive, Dead
<1>3. Tracked'
  BY DEF TypeOK, BootOK, SlotOK, RespawnOK, Tracked, Alive, Dead
<1>. QED
  BY <1>1, <1>2, <1>3

LEMMA StopStep ==
  ASSUME SwapInv, Stop
  PROVE  SwapInv'
<1>. USE HotSwapAssumption DEF SwapInv, Stop, process, super, flags, shut, world
<1>1. TypeOK'
  BY DEF TypeOK, BootOK, SlotOK
<1>2. BootOK' /\ SlotOK' /\ RespawnOK' /\ HeirOK'
  BY DEF TypeOK, BootOK, SlotOK, RespawnOK, HeirOK, Alive, Dead
<1>3. Tracked'
  BY DEF TypeOK, BootOK, SlotOK, RespawnOK, Tracked, Alive, Dead
<1>. QED
  BY <1>1, <1>2, <1>3

LEMMA AskStep ==
  ASSUME SwapInv, Ask
  PROVE  SwapInv'
<1>. USE HotSwapAssumption DEF SwapInv, Ask, process, super, flags, shut, world
<1>1. TypeOK'
  BY DEF TypeOK, BootOK, SlotOK
<1>2. BootOK' /\ SlotOK' /\ RespawnOK' /\ HeirOK'
  BY DEF TypeOK, BootOK, SlotOK, RespawnOK, HeirOK, Alive, Dead
<1>3. Tracked'
  BY DEF TypeOK, BootOK, SlotOK, RespawnOK, Tracked, Alive, Dead
<1>. QED
  BY <1>1, <1>2, <1>3

LEMMA InstallStep ==
  ASSUME SwapInv, Install
  PROVE  SwapInv'
<1>. USE HotSwapAssumption DEF SwapInv, Install, process, super, flags, shut, world
<1>1. TypeOK'
  BY DEF TypeOK, BootOK, SlotOK
<1>2. BootOK' /\ SlotOK' /\ RespawnOK' /\ HeirOK'
  BY DEF TypeOK, BootOK, SlotOK, RespawnOK, HeirOK, Alive, Dead
<1>3. Tracked'
  BY DEF TypeOK, BootOK, SlotOK, RespawnOK, Tracked, Alive, Dead
<1>. QED
  BY <1>1, <1>2, <1>3

LEMMA TickStep ==
  ASSUME SwapInv, Tick
  PROVE  SwapInv'
<1>. USE HotSwapAssumption DEF SwapInv, Tick, process, super, flags, shut, world
<1>1. TypeOK'
  BY DEF TypeOK, BootOK, SlotOK
<1>2. BootOK' /\ SlotOK' /\ RespawnOK' /\ HeirOK'
  BY DEF TypeOK, BootOK, SlotOK, RespawnOK, HeirOK, Alive, Dead
<1>3. Tracked'
  BY DEF TypeOK, BootOK, SlotOK, RespawnOK, Tracked, Alive, Dead
<1>. QED
  BY <1>1, <1>2, <1>3

LEMMA ReadyStep ==
  ASSUME SwapInv, NEW w \in Worker, Ready(w)
  PROVE  SwapInv'
<1>. USE HotSwapAssumption DEF SwapInv, Ready, Unready, process, super, flags, shut, world
<1>1. TypeOK'
  BY DEF TypeOK, BootOK, SlotOK
<1>2. BootOK' /\ SlotOK' /\ RespawnOK' /\ HeirOK'
  BY DEF TypeOK, BootOK, SlotOK, RespawnOK, HeirOK, Alive, Dead
<1>3. Tracked'
  BY DEF TypeOK, BootOK, SlotOK, RespawnOK, Tracked, Alive, Dead
<1>. QED
  BY <1>1, <1>2, <1>3

LEMMA FlushStep ==
  ASSUME SwapInv, NEW w \in Worker, Flush(w)
  PROVE  SwapInv'
<1>. USE HotSwapAssumption DEF SwapInv, Flush, Gone, process, super, flags, shut, world
<1>1. TypeOK'
  BY DEF TypeOK, BootOK, SlotOK
<1>2. BootOK' /\ SlotOK' /\ RespawnOK' /\ HeirOK'
  BY DEF TypeOK, BootOK, SlotOK, RespawnOK, HeirOK, Alive, Dead
<1>3. Tracked'
  BY DEF TypeOK, BootOK, SlotOK, RespawnOK, Tracked, Alive, Dead
<1>. QED
  BY <1>1, <1>2, <1>3

LEMMA DieStep ==
  ASSUME SwapInv, NEW w \in Worker, Die(w)
  PROVE  SwapInv'
<1>. USE HotSwapAssumption DEF SwapInv, Die, Gone, process, super, flags, shut, world
<1>1. TypeOK'
  BY DEF TypeOK, BootOK, SlotOK
<1>2. BootOK' /\ SlotOK' /\ RespawnOK' /\ HeirOK'
  BY DEF TypeOK, BootOK, SlotOK, RespawnOK, HeirOK, Alive, Dead
<1>3. Tracked'
  BY DEF TypeOK, BootOK, SlotOK, RespawnOK, Tracked, Alive, Dead
<1>. QED
  BY <1>1, <1>2, <1>3

LEMMA WedgeStep ==
  ASSUME SwapInv, NEW w \in Worker, Wedge(w)
  PROVE  SwapInv'
<1>. USE HotSwapAssumption DEF SwapInv, Wedge, process, super, flags, shut, world
<1>1. TypeOK'
  BY DEF TypeOK, BootOK, SlotOK
<1>2. BootOK' /\ SlotOK' /\ RespawnOK' /\ HeirOK'
  BY DEF TypeOK, BootOK, SlotOK, RespawnOK, HeirOK, Alive, Dead
<1>3. Tracked'
  BY DEF TypeOK, BootOK, SlotOK, RespawnOK, Tracked, Alive, Dead
<1>. QED
  BY <1>1, <1>2, <1>3

LEMMA NextInv == SwapInv /\ [Next]_vars => SwapInv'
<1>. SUFFICES ASSUME SwapInv, [Next]_vars PROVE SwapInv'
  OBVIOUS
<1>1. CASE Wake
  BY <1>1, WakeStep
<1>2. CASE Tidy
  BY <1>2, TidyStep
<1>3. CASE Decide
  BY <1>3, DecideStep
<1>4. CASE Respawned
  BY <1>4, RespawnedStep
<1>5. CASE RespawnFails
  BY <1>5, RespawnFailsStep
<1>6. CASE Swapped
  BY <1>6, SwappedStep
<1>7. CASE SwapFails
  BY <1>7, SwapFailsStep
<1>8. ASSUME NEW w \in Worker, Respawn(w) PROVE SwapInv'
  BY <1>8, RespawnStep
<1>9. ASSUME NEW w \in Worker, Handover(w) PROVE SwapInv'
  BY <1>9, HandoverStep
<1>10. CASE Booted
  BY <1>10, BootedStep
<1>11. CASE BootFails
  BY <1>11, BootFailsStep
<1>12. CASE Snapshot
  BY <1>12, SnapshotStep
<1>13. CASE Terminate
  BY <1>13, TerminateStep
<1>14. CASE Exit
  BY <1>14, ExitStep
<1>15. ASSUME NEW w \in Worker, Boot(w) PROVE SwapInv'
  BY <1>15, BootStep
<1>16. ASSUME NEW w \in Worker, Reap(w) PROVE SwapInv'
  BY <1>16, ReapStep
<1>17. CASE Stop
  BY <1>17, StopStep
<1>18. CASE Ask
  BY <1>18, AskStep
<1>19. CASE Install
  BY <1>19, InstallStep
<1>20. CASE Tick
  BY <1>20, TickStep
<1>21. ASSUME NEW w \in Worker, Ready(w) PROVE SwapInv'
  BY <1>21, ReadyStep
<1>22. ASSUME NEW w \in Worker, Flush(w) PROVE SwapInv'
  BY <1>22, FlushStep
<1>23. ASSUME NEW w \in Worker, Die(w) PROVE SwapInv'
  BY <1>23, DieStep
<1>24. ASSUME NEW w \in Worker, Wedge(w) PROVE SwapInv'
  BY <1>24, WedgeStep
<1>25. CASE UNCHANGED vars
  BY <1>25 DEF vars, process, super, flags, shut, world, SwapInv, TypeOK, BootOK, SlotOK, RespawnOK, HeirOK, Tracked, Alive, Dead
<1>. QED
  BY <1>1, <1>2, <1>3, <1>4, <1>5, <1>6, <1>7, <1>8, <1>9, <1>10, <1>11, <1>12, <1>13, <1>14, <1>15, <1>16, <1>17, <1>18, <1>19, <1>20, <1>21, <1>22, <1>23, <1>24, <1>25 DEF Next, Watch, Main

THEOREM SwapInvariant == Spec => []SwapInv
<1>1. Init => SwapInv
  BY InitInv
<1>2. SwapInv /\ [Next]_vars => SwapInv'
  BY NextInv
<1>. QED
  BY <1>1, <1>2, PTL DEF Spec

\* Type correctness: every variable keeps to the values the supervisor's fields and its
\* processes can have.
THEOREM TypeCorrect == Spec => []TypeOK
<1>1. SwapInv => TypeOK
  BY DEF SwapInv
<1>. QED
  BY <1>1, SwapInvariant, PTL

\* NoneForgotten: while the session runs, shutdown() would find every live worker, because a
\* worker leaves the current slot only for the draining list, and leaves that one only dead.
THEOREM NeverForgotten == Spec => []NoneForgotten
<1>1. SwapInv => NoneForgotten
  BY DEF SwapInv, Tracked, NoneForgotten
<1>. QED
  BY <1>1, SwapInvariant, PTL

-----------------------------------------------------------------------------
(* No handover gap.                                                        *)

Drains(w) == state[w] = "serving" /\ state'[w] = "draining"

\* Only two steps tell a serving worker to drain: the end of a handover, whose new worker has
\* reported READY by then, and shutdown().
LEMMA DrainStep ==
  ASSUME SwapInv, [Next]_vars, NEW w \in Worker, Drains(w)
  PROVE  \/ main = "term"
         \/ /\ new \in Worker \ {w} /\ current' = new
            /\ state[new] \in {"serving", "exited"}
<1>. USE HotSwapAssumption DEF Drains, SwapInv, TypeOK, process, super, flags, shut, world
<1>1. CASE Terminate
  BY <1>1 DEF Terminate
<1>2. CASE Swapped
  BY <1>2 DEF Swapped, Retire, Terminated, BootOK, SlotOK, HeirOK
<1>3. CASE Watch /\ ~Swapped
  <2>1. CASE Wake \/ Decide \/ Respawned
    BY <2>1 DEF Wake, Decide, Respawned
  <2>2. CASE Tidy \/ RespawnFails \/ SwapFails
    BY <2>2 DEF Tidy, RespawnFails, SwapFails, Killed, Gone
  <2>3. ASSUME NEW u \in Worker, Respawn(u) \/ Handover(u) PROVE FALSE
    BY <2>3 DEF Respawn, Handover, Spawn
  <2>. QED
    BY <1>3, <2>1, <2>2, <2>3 DEF Watch
<1>4. CASE Main /\ ~Terminate
  <2>1. CASE Booted \/ Snapshot \/ Exit
    BY <2>1 DEF Booted, Snapshot, Exit
  <2>2. CASE BootFails
    BY <2>2 DEF BootFails, Killed, Gone
  <2>3. ASSUME NEW u \in Worker, Boot(u) \/ Reap(u) PROVE FALSE
    BY <2>3 DEF Boot, Reap, Spawn, Gone
  <2>. QED
    BY <1>4, <2>1, <2>2, <2>3 DEF Main
<1>5. CASE Stop \/ Ask \/ Install \/ Tick \/ UNCHANGED vars
  BY <1>5 DEF Stop, Ask, Install, Tick, vars
<1>6. ASSUME NEW u \in Worker, Ready(u) \/ Flush(u) \/ Die(u) \/ Wedge(u) PROVE FALSE
  BY <1>6 DEF Ready, Flush, Die, Wedge, Gone
<1>. QED
  BY <1>1, <1>2, <1>3, <1>4, <1>5, <1>6 DEF Next

\* NoHandoverGap: a serving worker is told to drain only by shutdown(), or in the step that
\* makes another worker the current one, which has reported READY (it may have died since)
\* and was told neither to drain nor killed.
THEOREM HandoverHasNoGap == Spec => NoHandoverGap
<1>1. SwapInv /\ [Next]_vars =>
        [\A w \in Worker : state[w] = "serving" /\ state'[w] = "draining" =>
           \/ main = "term"
           \/ /\ new \in Worker \ {w} /\ current' = new
              /\ state[new] \in {"serving", "exited"}]_vars
  BY DrainStep DEF Drains
<1>. QED
  BY <1>1, SwapInvariant, PTL DEF Spec, NoHandoverGap

-----------------------------------------------------------------------------
(* The drain cap.                                                          *)

\* Only the age of a drain is counted, and until shutdown() waits for the workers every
\* drain is on the list that the watch thread's polls go through.
DrainInv ==
  /\ \A w \in Worker : age[w] > 0 => state[w] \in {"draining", "wedged"}
  /\ main \notin {"reap", "exited"} =>
       \A w \in Worker : state[w] \in {"draining", "wedged"} => w \in draining

LEMMA DrainNext == SwapInv /\ DrainInv /\ [Next]_vars => DrainInv'
<1>. SUFFICES ASSUME SwapInv, DrainInv, [Next]_vars PROVE DrainInv'
  OBVIOUS
<1>. USE HotSwapAssumption DEF DrainInv, SwapInv, TypeOK, process, super, flags, shut, world
<1>1. CASE Wake \/ Decide \/ Respawned
  BY <1>1 DEF Wake, Decide, Respawned
<1>2. CASE Tidy
  BY <1>2 DEF Tidy, Gone, Overdue, Alive
<1>3. CASE RespawnFails \/ SwapFails \/ BootFails
  BY <1>3 DEF RespawnFails, SwapFails, BootFails, Killed, Gone
<1>4. CASE Swapped
  BY <1>4 DEF Swapped, Retire, Terminated, Alive
<1>5. ASSUME NEW w \in Worker, Respawn(w) \/ Handover(w) \/ Boot(w) PROVE DrainInv'
  BY <1>5 DEF Respawn, Handover, Boot, Spawn, Free, Alive
<1>6. CASE Booted \/ Snapshot \/ Exit
  BY <1>6 DEF Booted, Snapshot, Exit
<1>7. CASE Terminate
  BY <1>7 DEF Terminate, Terminated
<1>8. ASSUME NEW w \in Worker, Reap(w) PROVE DrainInv'
  BY <1>8 DEF Reap, Gone
<1>9. CASE Stop \/ Ask \/ Install \/ UNCHANGED vars
  BY <1>9 DEF Stop, Ask, Install, vars
<1>10. CASE Tick
  BY <1>10 DEF Tick
<1>11. ASSUME NEW w \in Worker, Ready(w) \/ Flush(w) \/ Die(w) \/ Wedge(w) PROVE DrainInv'
  BY <1>11 DEF Ready, Flush, Die, Wedge, Gone
<1>. QED
  BY <1>1, <1>2, <1>3, <1>4, <1>5, <1>6, <1>7, <1>8, <1>9, <1>10, <1>11 DEF Next, Watch, Main

\* A poll of the watch thread, before shutdown() waits for the workers, kills the workers
\* whose drain has outlived the cap and no other (_reap_drained).
PollEndsDrains ==
  [][Tidy /\ main \notin {"reap", "exited"} =>
       \A w \in Worker :
         state[w] # "killed" /\ state'[w] = "killed" <=>
         state[w] \in {"draining", "wedged"} /\ age[w] > DrainCap]_vars

\* However installs, deaths, handovers and requests interleave, no wedged worker escapes the
\* poll that finds it over the cap, and no worker that serves or drains in time is killed by
\* one: the safety half of WedgesEnd.
THEOREM CapIsEnforced == Spec => PollEndsDrains
<1>1. Init => DrainInv
  BY DEF Init, DrainInv
<1>2. SwapInv /\ DrainInv /\ [Next]_vars =>
        [Tidy /\ main \notin {"reap", "exited"} =>
           \A w \in Worker :
             state[w] # "killed" /\ state'[w] = "killed" <=>
             state[w] \in {"draining", "wedged"} /\ age[w] > DrainCap]_vars
  <2>. SUFFICES ASSUME SwapInv, DrainInv, Tidy, main \notin {"reap", "exited"}, NEW w \in Worker
                PROVE  state[w] # "killed" /\ state'[w] = "killed" <=>
                       state[w] \in {"draining", "wedged"} /\ age[w] > DrainCap
    OBVIOUS
  <2>. QED
    BY HotSwapAssumption DEF SwapInv, TypeOK, DrainInv, Tidy, Gone, Overdue, Alive
<1>. QED
  BY <1>1, <1>2, DrainNext, SwapInvariant, PTL DEF Spec, PollEndsDrains

-----------------------------------------------------------------------------
(* The worker that is counted on.                                          *)

\* While the session runs, the current worker accepts connections or is dead, and then the
\* next look of the watch thread replaces it.
CurrentUp == main = "run" => state[current] \in {"serving", "exited", "killed"}

\* The same until shutdown() has told its workers to drain; and a worker being spawned is
\* not the current one, nor was it told to drain.
FrontInv ==
  main \notin {"reap", "exited"} =>
    /\ main \in {"run", "stop", "term"} => state[current] \in {"serving", "exited", "killed"}
    /\ new # NONE => new # current /\ state[new] \notin {"draining", "wedged"}

LEMMA FrontNext == SwapInv /\ FrontInv /\ [Next]_vars => FrontInv'
<1>. SUFFICES ASSUME SwapInv, FrontInv, [Next]_vars PROVE FrontInv'
  OBVIOUS
<1>. USE HotSwapAssumption
     DEF FrontInv, SwapInv, TypeOK, BootOK, SlotOK, process, super, flags, shut, world
<1>1. CASE Wake \/ Decide \/ Respawned
  BY <1>1 DEF Wake, Decide, Respawned
<1>2. CASE Tidy
  BY <1>2 DEF Tidy, Gone
<1>3. CASE RespawnFails \/ SwapFails \/ BootFails
  BY <1>3 DEF RespawnFails, SwapFails, BootFails, Killed, Gone
<1>4. CASE Swapped
  BY <1>4 DEF Swapped, Retire, Terminated
<1>5. ASSUME NEW w \in Worker, Respawn(w) \/ Handover(w) \/ Boot(w) PROVE FrontInv'
  BY <1>5 DEF Respawn, Handover, Boot, Spawn, Free
<1>6. CASE Booted \/ Snapshot \/ Exit
  BY <1>6 DEF Booted, Snapshot, Exit
<1>7. CASE Terminate
  BY <1>7 DEF Terminate
<1>8. ASSUME NEW w \in Worker, Reap(w) PROVE FrontInv'
  BY <1>8 DEF Reap
<1>9. CASE Stop \/ Ask \/ Install \/ Tick \/ UNCHANGED vars
  BY <1>9 DEF Stop, Ask, Install, Tick, vars
<1>10. ASSUME NEW w \in Worker, Ready(w) \/ Flush(w) \/ Die(w) \/ Wedge(w) PROVE FrontInv'
  BY <1>10 DEF Ready, Flush, Die, Wedge, Gone
<1>. QED
  BY <1>1, <1>2, <1>3, <1>4, <1>5, <1>6, <1>7, <1>8, <1>9, <1>10 DEF Next, Watch, Main

\* The session never counts on a worker that drains: a handover tells the old worker only,
\* and what it installs was accepting or is dead (docstring: no handover gap).
THEOREM CurrentIsUp == Spec => []CurrentUp
<1>1. Init => FrontInv
  BY DEF Init, FrontInv
<1>2. FrontInv => CurrentUp
  BY DEF FrontInv, CurrentUp
<1>. QED
  BY <1>1, <1>2, FrontNext, SwapInvariant, PTL DEF Spec
=============================================================================
