------------------------------ MODULE Savings ------------------------------
(***************************************************************************)
(* RuntimeSavings of src/distil/runtime.py in a worker of                  *)
(* src/distil/hotswap.py: handler threads book what their requests saved,  *)
(* some of them write the counters to the ledger, and the main thread      *)
(* writes what is left when the drain is over or has taken too long.       *)
(***************************************************************************)
EXTENDS Naturals, FiniteSets

CONSTANTS
  Booker,      \* handler threads, one request each
  Closer,      \* the worker's main thread
  ModelId,     \* models the requests may name
  NoBooker,    \* nobody holds the lock
  MaxRefusals  \* bound: appends to the ledger that fail

ASSUME SavingsAssumption ==
  Closer \notin Booker /\ NoBooker \notin Booker \cup {Closer} /\ MaxRefusals \in Nat

VARIABLES
  worker,    \* how far the worker's end has come
  overrun,   \* the drain took longer than _DRAIN_BUDGET_S
  place,     \* where each thread is
  cells,     \* by_model: the requests booked and not yet flushed
  holder,    \* the thread that flushes: it holds the lock all the while
  listed,    \* the models whose row the flush has appended
  ledger,    \* requests in the ledger's rows
  booked,    \* history: requests booked
  again,     \* history: a flush failed after it had appended a row
  refusals

savingsVars == <<worker, overrun, place, cells, holder, listed, ledger, booked, again, refusals>>

SavingsInit ==
  /\ worker = "serving" /\ overrun = FALSE
  /\ place = [b \in Booker \cup {Closer} |-> "new"]
  /\ cells = [i \in ModelId |-> 0] /\ holder = NoBooker /\ listed = {}
  /\ ledger = [i \in ModelId |-> 0] /\ booked = [i \in ModelId |-> 0]
  /\ again = FALSE /\ refusals = 0

Reaches(b, p) == place' = [place EXCEPT ![b] = p]
Running == worker \notin {"gone", "failed"}
Measured == {i \in ModelId : cells[i] > 0}

-----------------------------------------------------------------------------
\* A request comes in.
Accepts(b) ==
  /\ worker = "serving" /\ place[b] = "new"
  /\ Reaches(b, "relaying")
  /\ UNCHANGED <<worker, overrun, cells, holder, listed, ledger, booked, again, refusals>>

\* Mutant: the lock is not taken.
RecordsUnlocked(b) ==
  /\ Running /\ place[b] = "relaying"
  /\ \E i \in ModelId : /\ cells' = [cells EXCEPT ![i] = @ + 1]
                        /\ booked' = [booked EXCEPT ![i] = @ + 1]
  /\ Reaches(b, "booked")
  /\ UNCHANGED <<worker, overrun, holder, listed, ledger, again, refusals>>

\* record(), after a 2xx that was relayed whole.
Records(b) ==
  /\ Running /\ place[b] = "relaying" /\ holder = NoBooker
  /\ \E i \in ModelId : /\ cells' = [cells EXCEPT ![i] = @ + 1]
                        /\ booked' = [booked EXCEPT ![i] = @ + 1]
  /\ Reaches(b, "booked")
  /\ UNCHANGED <<worker, overrun, holder, listed, ledger, again, refusals>>

\* maybe_flush: enough requests or enough time, read under the lock and used after it.
Asks(b) ==
  /\ Running /\ place[b] = "booked" /\ holder = NoBooker
  /\ \/ Measured # {} /\ Reaches(b, "due")
     \/ Reaches(b, "done")
  /\ UNCHANGED <<worker, overrun, cells, holder, listed, ledger, booked, again, refusals>>

-----------------------------------------------------------------------------
(* flush().                                                                *)

Locks(b) ==
  /\ Running /\ place[b] = "due" /\ holder = NoBooker
  /\ IF Measured = {} THEN Reaches(b, "done") /\ UNCHANGED holder
                      ELSE Reaches(b, "flushing") /\ holder' = b
  /\ listed' = {}
  /\ UNCHANGED <<worker, overrun, cells, ledger, booked, again, refusals>>

\* One record per model.
Appends(b) ==
  /\ Running /\ place[b] = "flushing"
  /\ \E i \in Measured \ listed :
       /\ ledger' = [ledger EXCEPT ![i] = @ + cells[i]]
       /\ listed' = listed \cup {i}
  /\ UNCHANGED <<worker, overrun, place, cells, holder, booked, again, refusals>>

\* OSError: the counters stand, the rows already appended too.
AppendErrs(b) ==
  /\ Running /\ place[b] = "flushing" /\ Measured \ listed # {} /\ refusals < MaxRefusals
  /\ Reaches(b, "failed") /\ holder' = NoBooker
  /\ again' = (again \/ listed # {})
  /\ refusals' = refusals + 1
  /\ UNCHANGED <<worker, overrun, cells, listed, ledger, booked>>

Resets(b) ==
  /\ Running /\ place[b] = "flushing" /\ Measured \subseteq listed
  /\ cells' = [i \in ModelId |-> 0]
  /\ Reaches(b, "done") /\ holder' = NoBooker
  /\ UNCHANGED <<worker, overrun, listed, ledger, booked, again, refusals>>

-----------------------------------------------------------------------------
(* The worker's end.                                                       *)

\* SIGTERM: the accept loop stops.
Terminates ==
  /\ worker = "serving" /\ worker' = "draining"
  /\ UNCHANGED <<overrun, place, cells, holder, listed, ledger, booked, again, refusals>>

Joined == \A b \in Booker : place[b] \in {"new", "done", "failed"}

\* The join of the handlers, on a deadline.
Drains ==
  /\ worker = "draining" /\ worker' = "flushing" /\ Reaches(Closer, "due")
  /\ overrun' = ~Joined
  /\ UNCHANGED <<cells, holder, listed, ledger, booked, again, refusals>>

\* os._exit when a handler is still in flight, a plain return otherwise.
Exits ==
  /\ worker = "flushing" /\ place[Closer] = "done" /\ worker' = "gone"
  /\ UNCHANGED <<overrun, place, cells, holder, listed, ledger, booked, again, refusals>>

\* The error leaves the finally block: the interpreter joins the handlers without a deadline.
Fails ==
  /\ worker = "flushing" /\ place[Closer] = "failed" /\ Joined /\ worker' = "failed"
  /\ UNCHANGED <<overrun, place, cells, holder, listed, ledger, booked, again, refusals>>

SavingsNext ==
  \/ Terminates \/ Drains \/ Exits \/ Fails
  \/ \E b \in Booker : Accepts(b) \/ Records(b) \/ Asks(b)
  \/ \E b \in Booker \cup {Closer} : Locks(b) \/ Appends(b) \/ AppendErrs(b) \/ Resets(b)

SavingsSpec == SavingsInit /\ [][SavingsNext]_savingsVars

-----------------------------------------------------------------------------
(* Properties.                                                             *)

SavingsTypeOK ==
  /\ worker \in {"serving", "draining", "flushing", "gone", "failed"}
  /\ place \in [Booker \cup {Closer} ->
               {"new", "relaying", "booked", "due", "flushing", "done", "failed"}]
  /\ cells \in [ModelId -> Nat] /\ ledger \in [ModelId -> Nat] /\ booked \in [ModelId -> Nat]
  /\ holder \in Booker \cup {Closer, NoBooker} /\ listed \subseteq ModelId
  /\ {overrun, again} \subseteq BOOLEAN /\ refusals \in 0..MaxRefusals

\* "no savings are ever dropped" (hotswap.py:271): when the worker has ended by itself after
\* a drain in time, the ledger has every request that was booked, whoever flushed it; and it
\* never has one more often than it was booked, unless a flush failed after its first row
\* (runtime.py:142), which leaves that row standing and its counters too.
BookedOnce ==
  /\ worker = "gone" /\ ~overrun => \A i \in ModelId : ledger[i] >= booked[i]
  /\ ~again => \A i \in ModelId : ledger[i] <= booked[i]
=============================================================================
