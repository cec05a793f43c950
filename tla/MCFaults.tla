------------------------------ MODULE MCFaults ------------------------------
(***************************************************************************)
(* Cold-point recompression and the drift guard, with everything that can  *)
(* fail failing.  They share no variable: `part` names the one that moves, *)
(* the other keeps its initial state.  Cold-point is this module's own     *)
(* specification, the drift guard is instanced as D.                       *)
(***************************************************************************)
EXTENDS MCColdpoint, Sequences

CONSTANTS Proxy, Shadow, Sampler, Limit, MaxRows, CLI

VARIABLES part, file, archived, ledger, lock, phase, mem, next, upto, held, looked, step, row,
          result, cli, outcome, bets, spent, receipts, before

drift == <<file, archived, ledger, lock, phase, mem, next, upto, held, looked, step, row,
           result, cli, outcome, bets, spent, receipts, before>>

D == INSTANCE Drift WITH Proc <- Proxy, Thread <- Shadow, pc <- step, seen <- looked

faults == <<part, vars, drift>>

FaultsInit ==
  /\ part \in {"cold", "drift"}
  /\ Init /\ D!Init
  /\ part = "cold" => file = D!Missing /\ ledger = <<>>

FaultsNext ==
  /\ UNCHANGED part
  /\ \/ part = "cold" /\ Next /\ UNCHANGED drift
     \/ part = "drift" /\ D!Next /\ UNCHANGED vars

FaultsSpec == FaultsInit /\ [][FaultsNext]_faults

\* Drift's property of that name, whatever fails.
HoldSticks == D!HoldSticks
=============================================================================
