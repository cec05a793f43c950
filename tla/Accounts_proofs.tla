---------------------------- MODULE Accounts_proofs ----------------------------
(***************************************************************************)
(* Proofs about the accounts distil keeps.  Three have a lock that covers  *)
(* only part of what it should: the tokens of a day (GatewayQuota), the    *)
(* tenants' counters and their file (GatewayState), and the savings of a   *)
(* worker (Savings).  The fourth is the audit's daily cap (AuditBudget).   *)
(***************************************************************************)
EXTENDS GatewayQuota, GatewayState, Savings, AuditBudget, FiniteSetTheorems, TLAPS

-----------------------------------------------------------------------------
(* GatewayQuota: the tokens of a day.                                      *)

\* What the charges dated d may have used up by now, late ones apart: the whole quota of a
\* day that is over, the count of the count's own day, nothing of a day still to come.
Spent(d) == IF d < used.day THEN Quota ELSE IF d = used.day THEN used.tokens ELSE 0

\* The inductive invariant.  DayCap alone is not inductive: it does not say that a charge
\* which starts a new count leaves the old day no more than its quota.
QuotaInv ==
  /\ QuotaTypeOK
  /\ used.day <= clockDay /\ used.tokens <= Quota
  /\ \A a \in Asker : asks[a].day <= clockDay
  /\ \A d \in 0..MaxDay : admitted[d] <= late * Quota + Spent(d)

\* One more late charge pays for one more quota.
LEMMA OneMore == \A n \in Nat : n * Quota \in Nat /\ (n + 1) * Quota = n * Quota + Quota
BY GatewayQuotaAssumption

LEMMA QuotaInitInv == QuotaInit => QuotaInv
<1>. SUFFICES ASSUME QuotaInit PROVE QuotaInv
  OBVIOUS
<1>1. QuotaTypeOK
  BY GatewayQuotaAssumption DEF QuotaInit, QuotaTypeOK
<1>2. \A d \in 0..MaxDay : admitted[d] <= late * Quota + Spent(d)
  BY GatewayQuotaAssumption DEF QuotaInit, Spent
<1>. QED
  BY <1>1, <1>2, GatewayQuotaAssumption DEF QuotaInit, QuotaInv

LEMMA ReadsDayStep ==
  ASSUME QuotaInv, NEW a \in Asker, ReadsDay(a)
  PROVE  QuotaInv'
<1>. USE GatewayQuotaAssumption DEF ReadsDay
<1>1. QuotaTypeOK' /\ \A b \in Asker : asks'[b].day <= clockDay
  BY DEF QuotaInv, QuotaTypeOK
<1>. QED
  BY <1>1 DEF QuotaInv, Spent

\* The count's own day goes on, or the count starts again on the day of the charge: a day
\* ahead of it is today and has admitted nothing yet but late charges, and any other day is
\* over, so that the charge is late itself.
LEMMA ChargesStep ==
  ASSUME QuotaInv, NEW a \in Asker, Charges(a)
  PROVE  QuotaInv'
<1>. DEFINE day == asks[a].day
            size == asks[a].size
<1>. USE GatewayQuotaAssumption
<1>1. /\ day \in 0..MaxDay /\ size \in Nat /\ day <= clockDay /\ clockDay \in Nat
      /\ used.tokens \in Nat /\ used.day \in 0..MaxDay /\ late \in Nat
      /\ UsedOn(a) \in Nat /\ UsedOn(a) + size <= Quota
  BY DEF QuotaInv, QuotaTypeOK, Charges, UsedOn
<1>2. /\ used' = [tokens |-> UsedOn(a) + size, day |-> day] /\ clockDay' = clockDay
      /\ admitted' = [admitted EXCEPT ![day] = @ + size]
      /\ late' = IF day # clockDay THEN late + 1 ELSE late
  BY DEF Charges
<1>3. QuotaTypeOK'
  <2>1. late' \in Nat /\ clockDay' \in 0..MaxDay /\ used' \in [tokens : Nat, day : 0..MaxDay]
    BY <1>1, <1>2 DEF QuotaInv, QuotaTypeOK
  <2>2. admitted' \in [0..MaxDay -> Nat]
    BY <1>1, <1>2 DEF QuotaInv, QuotaTypeOK
  <2>3. asks' \in [Asker -> [at : {"new", "dated", "admitted", "rejected"}, day : 0..MaxDay, size : Nat]]
    BY DEF QuotaInv, QuotaTypeOK, Charges
  <2>. QED
    BY <2>1, <2>2, <2>3 DEF QuotaTypeOK
<1>4. \A b \in Asker : asks'[b].day <= clockDay'
  BY <1>2 DEF QuotaInv, QuotaTypeOK, Charges
<1>5. ASSUME NEW d \in 0..MaxDay PROVE admitted'[d] <= late' * Quota + Spent(d)'
  <2>1. /\ admitted[d] \in Nat /\ late * Quota \in Nat
        /\ (late + 1) * Quota = late * Quota + Quota
        /\ admitted[d] <= late * Quota + Spent(d)
    BY <1>1, OneMore DEF QuotaInv, QuotaTypeOK
  <2>2. late' * Quota = IF day # clockDay THEN late * Quota + Quota ELSE late * Quota
    BY <1>2, <2>1
  <2>3. admitted'[d] = IF d = day THEN admitted[d] + size ELSE admitted[d]
    BY <1>1, <1>2 DEF QuotaInv, QuotaTypeOK
  <2>4. Spent(d)' = IF d < day THEN Quota ELSE IF d = day THEN UsedOn(a) + size ELSE 0
    BY <1>2 DEF Spent
  <2>5. used.tokens <= Quota /\ used.day <= clockDay
    BY DEF QuotaInv
  <2>6. CASE day = used.day
    BY <1>1, <2>1, <2>2, <2>3, <2>4, <2>5, <2>6 DEF Spent, UsedOn
  <2>7. CASE day # used.day /\ day = clockDay
    BY <1>1, <2>1, <2>2, <2>3, <2>4, <2>5, <2>7 DEF Spent, UsedOn
  <2>8. CASE day # used.day /\ day # clockDay
    BY <1>1, <2>1, <2>2, <2>3, <2>4, <2>5, <2>8 DEF Spent, UsedOn
  <2>. QED
    BY <2>6, <2>7, <2>8
<1>. QED
  BY <1>1, <1>2, <1>3, <1>4, <1>5 DEF QuotaInv

LEMMA QuotaNextInv == QuotaInv /\ [QuotaNext]_quotaVars => QuotaInv'
<1>. SUFFICES ASSUME QuotaInv, [QuotaNext]_quotaVars PROVE QuotaInv'
  OBVIOUS
<1>1. ASSUME NEW a \in Asker, ReadsDay(a) PROVE QuotaInv'
  BY <1>1, ReadsDayStep
<1>2. ASSUME NEW a \in Asker, Charges(a) PROVE QuotaInv'
  BY <1>2, ChargesStep
<1>3. ASSUME NEW a \in Asker, Rejects(a) PROVE QuotaInv'
  <2>1. QuotaTypeOK' /\ \A b \in Asker : asks'[b].day = asks[b].day
    BY <1>3 DEF Rejects, QuotaInv, QuotaTypeOK
  <2>. QED
    BY <1>3, <2>1 DEF Rejects, QuotaInv, Spent
<1>4. CASE DayPasses
  BY <1>4, GatewayQuotaAssumption DEF DayPasses, QuotaInv, QuotaTypeOK, Spent
<1>5. CASE UNCHANGED quotaVars
  BY <1>5 DEF quotaVars, QuotaInv, QuotaTypeOK, Spent
<1>. QED
  BY <1>1, <1>2, <1>3, <1>4, <1>5 DEF QuotaNext

THEOREM QuotaInvariant == QuotaSpec => []QuotaInv
<1>1. QuotaInit => QuotaInv
  BY QuotaInitInv
<1>2. QuotaInv /\ [QuotaNext]_quotaVars => QuotaInv'
  BY QuotaNextInv
<1>. QED
  BY <1>1, <1>2, PTL DEF QuotaSpec

\* DayCap: however the handler threads' reads of the day, charges and midnights interleave,
\* a day admits its quota, and once more for each charge made after the day it was dated.
THEOREM DayIsCapped == QuotaSpec => []DayCap
<1>1. ASSUME QuotaInv, NEW d \in 0..MaxDay PROVE admitted[d] <= (1 + late) * Quota
  <2>0. late \in Nat /\ 1 + late = late + 1
    BY <1>1 DEF QuotaInv, QuotaTypeOK
  <2>1. /\ admitted[d] \in Nat /\ late * Quota \in Nat /\ (1 + late) * Quota = late * Quota + Quota
        /\ admitted[d] <= late * Quota + Spent(d)
    BY <1>1, <2>0, OneMore DEF QuotaInv, QuotaTypeOK
  <2>2. Spent(d) \in 0..Quota
    BY <1>1, GatewayQuotaAssumption DEF Spent, QuotaInv, QuotaTypeOK
  <2>. QED
    BY <2>1, <2>2, GatewayQuotaAssumption
<1>2. QuotaInv => DayCap
  BY <1>1 DEF DayCap
<1>. QED
  BY <1>2, QuotaInvariant, PTL

-----------------------------------------------------------------------------
(* Savings: what a worker books, writes and leaves.                        *)

\* The lock is held through a flush, by the thread that flushes.
HolderOK == \A b \in Booker \cup {Closer} : place[b] = "flushing" <=> holder = b

\* What of a model's counter is in no row of the ledger yet: a flush under way has
\* appended the rows of the models it has listed, and resets the counters at its end.
Unflushed(i) == IF holder # NoBooker /\ i \in listed THEN 0 ELSE cells[i]

\* The books balance; after a flush that failed between two rows the ledger may have more.
Balanced ==
  \A i \in ModelId :
    /\ ledger[i] + Unflushed(i) >= booked[i]
    /\ ~again => ledger[i] + Unflushed(i) = booked[i]

\* The main thread flushes once, after the drain; the worker returns when that is done.
CloserOK ==
  /\ worker \in {"serving", "draining"} => place[Closer] = "new"
  /\ worker \notin {"serving", "draining"} => place[Closer] \in {"due", "flushing", "done", "failed"}
  /\ worker = "gone" => place[Closer] = "done"

\* After a drain in time no handler is in flight any more, so nothing is booked behind the
\* back of the last flush.
InTime ==
  worker \notin {"serving", "draining"} /\ ~overrun =>
    Joined /\ (place[Closer] = "done" => Measured = {})

\* The inductive invariant.  BookedOnce alone says nothing of a worker that still runs.
SavingsInv == SavingsTypeOK /\ HolderOK /\ Balanced /\ CloserOK /\ InTime

LEMMA SavingsInitInv == SavingsInit => SavingsInv
<1>. SUFFICES ASSUME SavingsInit PROVE SavingsInv
  OBVIOUS
<1>1. overrun \in BOOLEAN /\ again \in BOOLEAN
  BY Zenon DEF SavingsInit
<1>2. SavingsTypeOK
  BY <1>1, SavingsAssumption DEF SavingsInit, SavingsTypeOK
<1>3. HolderOK /\ CloserOK /\ InTime
  BY SavingsAssumption DEF SavingsInit, HolderOK, CloserOK, InTime
<1>4. Balanced
  BY DEF SavingsInit, Balanced, Unflushed
<1>. QED
  BY <1>2, <1>3, <1>4 DEF SavingsInv

\* Handlers come in, book and ask.
LEMMA HandlerStep ==
  ASSUME SavingsInv, NEW b \in Booker, Accepts(b) \/ Records(b) \/ Asks(b)
  PROVE  SavingsInv'
<1>. USE SavingsAssumption DEF SavingsInv, Reaches
<1>1. CASE Accepts(b)
  <2>1. SavingsTypeOK'
    BY <1>1 DEF Accepts, SavingsTypeOK
  <2>2. HolderOK' /\ CloserOK' /\ InTime'
    BY <1>1 DEF Accepts, SavingsTypeOK, HolderOK, CloserOK, InTime
  <2>3. Balanced'
    BY <1>1 DEF Accepts, Balanced, Unflushed
  <2>. QED
    BY <2>1, <2>2, <2>3
<1>2. CASE Records(b)
  <2>1. PICK i \in ModelId : /\ cells' = [cells EXCEPT ![i] = @ + 1]
                             /\ booked' = [booked EXCEPT ![i] = @ + 1]
    BY <1>2 DEF Records
  <2>2. SavingsTypeOK'
    BY <1>2, <2>1 DEF Records, SavingsTypeOK
  <2>3. HolderOK' /\ CloserOK'
    BY <1>2 DEF Records, SavingsTypeOK, HolderOK, CloserOK
  \* a handler in flight is not joined
  <2>4. InTime'
    BY <1>2 DEF Records, SavingsTypeOK, InTime, Joined
  <2>5. Balanced'
    BY <1>2, <2>1 DEF Records, SavingsTypeOK, Balanced, Unflushed
  <2>. QED
    BY <2>2, <2>3, <2>4, <2>5
<1>3. CASE Asks(b)
  <2>1. SavingsTypeOK'
    BY <1>3 DEF Asks, SavingsTypeOK
  <2>2. HolderOK' /\ CloserOK'
    BY <1>3 DEF Asks, SavingsTypeOK, HolderOK, CloserOK
  <2>3. InTime'
    BY <1>3 DEF Asks, SavingsTypeOK, InTime, Joined
  <2>4. Balanced'
    BY <1>3 DEF Asks, Balanced, Unflushed
  <2>. QED
    BY <2>1, <2>2, <2>3, <2>4
<1>. QED
  BY <1>1, <1>2, <1>3

\* flush(), by a handler or by the main thread.
LEMMA FlushStep ==
  ASSUME SavingsInv, NEW b \in Booker \cup {Closer}, Locks(b) \/ Appends(b) \/ AppendErrs(b) \/ Resets(b)
  PROVE  SavingsInv'
<1>. USE SavingsAssumption DEF SavingsInv, Reaches
<1>1. CASE Locks(b)
  <2>1. SavingsTypeOK'
    BY <1>1 DEF Locks, SavingsTypeOK
  <2>2. HolderOK' /\ CloserOK'
    BY <1>1 DEF Locks, SavingsTypeOK, HolderOK, CloserOK, Running
  <2>3. InTime'
    BY <1>1 DEF Locks, SavingsTypeOK, InTime, Joined, Measured, CloserOK
  <2>4. Balanced'
    BY <1>1 DEF Locks, Balanced, Unflushed
  <2>. QED
    BY <2>1, <2>2, <2>3, <2>4
<1>2. CASE Appends(b)
  <2>1. PICK i \in Measured \ listed :
          /\ ledger' = [ledger EXCEPT ![i] = @ + cells[i]]
          /\ listed' = listed \cup {i}
    BY <1>2 DEF Appends
  <2>2. i \in ModelId /\ i \notin listed
    BY <2>1 DEF Measured
  <2>3. SavingsTypeOK'
    BY <1>2, <2>1, <2>2 DEF Appends, SavingsTypeOK
  <2>4. HolderOK' /\ CloserOK' /\ InTime'
    BY <1>2 DEF Appends, HolderOK, CloserOK, InTime, Joined, Measured
  \* the row takes over what the counter said, which stands until the flush is over
  <2>5. Balanced'
    BY <1>2, <2>1, <2>2 DEF Appends, SavingsTypeOK, HolderOK, Balanced, Unflushed
  <2>. QED
    BY <2>3, <2>4, <2>5
<1>3. CASE AppendErrs(b)
  <2>1. again' \in BOOLEAN
    BY <1>3, Zenon DEF AppendErrs, SavingsTypeOK
  <2>2. SavingsTypeOK'
    BY <1>3, <2>1 DEF AppendErrs, SavingsTypeOK
  <2>3. HolderOK' /\ CloserOK'
    BY <1>3 DEF AppendErrs, SavingsTypeOK, HolderOK, CloserOK, Running
  <2>4. InTime'
    BY <1>3 DEF AppendErrs, SavingsTypeOK, InTime, Joined, Measured
  <2>5. ASSUME NEW i \in ModelId
        PROVE  /\ ledger'[i] + Unflushed(i)' >= booked'[i]
               /\ ~again' => ledger'[i] + Unflushed(i)' = booked'[i]
    <3>1. /\ ledger' = ledger /\ booked' = booked /\ Unflushed(i)' = cells[i]
          /\ Unflushed(i) \in {0, cells[i]}
          /\ listed = {} => Unflushed(i) = cells[i]
      BY <1>3 DEF AppendErrs, Unflushed
    <3>2. ~again' => ~again /\ listed = {}
      BY <1>3 DEF AppendErrs
    <3>. QED
      BY <3>1, <3>2 DEF Balanced, SavingsTypeOK
  <2>. QED
    BY <2>2, <2>3, <2>4, <2>5 DEF Balanced
<1>4. CASE Resets(b)
  <2>1. SavingsTypeOK'
    BY <1>4 DEF Resets, SavingsTypeOK
  <2>2. HolderOK' /\ CloserOK'
    BY <1>4 DEF Resets, SavingsTypeOK, HolderOK, CloserOK, Running
  <2>3. InTime'
    BY <1>4 DEF Resets, SavingsTypeOK, InTime, Joined, Measured
  <2>4. \A i \in ModelId : Unflushed(i) = 0 /\ Unflushed(i)' = 0
    BY <1>4 DEF Resets, SavingsTypeOK, HolderOK, Measured, Unflushed
  <2>5. Balanced'
    BY <1>4, <2>4 DEF Resets, Balanced
  <2>. QED
    BY <2>1, <2>2, <2>3, <2>5
<1>. QED
  BY <1>1, <1>2, <1>3, <1>4

\* The worker's end.
LEMMA SavingsEndStep ==
  ASSUME SavingsInv, Terminates \/ Drains \/ Exits \/ Fails
  PROVE  SavingsInv'
<1>. USE SavingsAssumption DEF SavingsInv, Reaches
<1>1. overrun' \in BOOLEAN
  BY Zenon DEF Terminates, Drains, Exits, Fails, SavingsTypeOK, Joined
<1>2. SavingsTypeOK'
  BY <1>1 DEF Terminates, Drains, Exits, Fails, SavingsTypeOK
<1>3. HolderOK' /\ CloserOK'
  BY DEF Terminates, Drains, Exits, Fails, SavingsTypeOK, HolderOK, CloserOK
<1>4. InTime'
  BY DEF Terminates, Drains, Exits, Fails, SavingsTypeOK, InTime, Joined, Measured
<1>5. Balanced'
  BY DEF Terminates, Drains, Exits, Fails, Balanced, Unflushed
<1>. QED
  BY <1>2, <1>3, <1>4, <1>5

LEMMA SavingsNextInv == SavingsInv /\ [SavingsNext]_savingsVars => SavingsInv'
<1>. SUFFICES ASSUME SavingsInv, [SavingsNext]_savingsVars PROVE SavingsInv'
  OBVIOUS
<1>1. CASE Terminates \/ Drains \/ Exits \/ Fails
  BY <1>1, SavingsEndStep
<1>2. ASSUME NEW b \in Booker, Accepts(b) \/ Records(b) \/ Asks(b) PROVE SavingsInv'
  BY <1>2, HandlerStep
<1>3. ASSUME NEW b \in Booker \cup {Closer}, Locks(b) \/ Appends(b) \/ AppendErrs(b) \/ Resets(b)
      PROVE  SavingsInv'
  BY <1>3, FlushStep
<1>4. CASE UNCHANGED savingsVars
  BY <1>4 DEF savingsVars, SavingsInv, SavingsTypeOK, HolderOK, Balanced, Unflushed, CloserOK,
              InTime, Joined, Measured
<1>. QED
  BY <1>1, <1>2, <1>3, <1>4 DEF SavingsNext

THEOREM SavingsInvariant == SavingsSpec => []SavingsInv
<1>1. SavingsInit => SavingsInv
  BY SavingsInitInv
<1>2. SavingsInv /\ [SavingsNext]_savingsVars => SavingsInv'
  BY SavingsNextInv
<1>. QED
  BY <1>1, <1>2, PTL DEF SavingsSpec

\* BookedOnce: a worker that ends after a drain in time leaves no request out of the ledger,
\* and none is ever there more often than it was booked unless a flush failed between rows.
THEOREM NothingDropped == SavingsSpec => []BookedOnce
<1>1. ASSUME SavingsInv PROVE BookedOnce
  <2>1. \A i \in ModelId : /\ ledger[i] \in Nat /\ booked[i] \in Nat /\ Unflushed(i) \in Nat
                           /\ ledger[i] + Unflushed(i) >= booked[i]
                           /\ ~again => ledger[i] + Unflushed(i) = booked[i]
    BY <1>1 DEF SavingsInv, SavingsTypeOK, Balanced, Unflushed
  <2>2. ASSUME worker = "gone", ~overrun, NEW i \in ModelId PROVE ledger[i] >= booked[i]
    <3>1. cells[i] = 0
      BY <1>1, <2>2 DEF SavingsInv, SavingsTypeOK, CloserOK, InTime, Measured
    <3>2. Unflushed(i) = 0
      BY <3>1 DEF Unflushed
    <3>. QED
      BY <2>1, <3>2
  <2>3. ASSUME ~again, NEW i \in ModelId PROVE ledger[i] <= booked[i]
    BY <2>1, <2>3
  <2>. QED
    BY <2>2, <2>3 DEF BookedOnce
<1>. QED
  BY <1>1, SavingsInvariant, PTL

-----------------------------------------------------------------------------
(* GatewayState: the tenants' counters and their file.                     *)

\* A thread has a file open exactly while it writes.
OpenOK == \A s \in Saver : open[s] # NoHandle <=> doing[s] = "writing"

\* No file has both names.
NamesOK == names.tmp # NoHandle => names.tmp # names.state

\* A save that has not met another one...
OneSaver == \A s, t \in Saving : s = t

\* ... finds under the temporary name what it has put there.
NotMet(s) ==
  /\ names.tmp # NoHandle
  /\ doing[s] = "writing" => open[s] = names.tmp /\ files[names.tmp] = Blank
  /\ doing[s] = "renaming" => files[names.tmp] = Whole(snap[s])

LoneOK == ~mixed \/ lone => OneSaver /\ \A s \in Saving : NotMet(s)

\* What the last save put in place is there, whole; at first there is nothing.
KeptOK ==
  ~mixed => IF names.state = NoHandle THEN saved = 0 ELSE files[names.state] = Whole(saved)

\* The inductive invariant.  AccountsKept alone does not say why the next rename is safe.
StateInv == StateTypeOK /\ OpenOK /\ NamesOK /\ LoneOK /\ KeptOK

LEMMA HandlesFinite ==
  /\ IsFiniteSet(Saver) /\ Cardinality(Saver) \in Nat \ {0}
  /\ IsFiniteSet(Handles) /\ Cardinality(Handles) = Cardinality(Saver) + 2
  /\ Handles \subseteq Nat /\ NoHandle \notin Handles
<1>1. IsFiniteSet(Saver)
  BY FS_AddElement, GatewayStateAssumption DEF Saver
<1>2. Cardinality(Saver) \in Nat
  BY <1>1, FS_CardinalityType
<1>3. Cardinality(Saver) # 0
  BY <1>1, FS_EmptySet DEF Saver
<1>4. IsFiniteSet(Handles) /\ Cardinality(Handles) = Cardinality(Saver) + 2
  BY <1>2, FS_Interval DEF Handles
<1>5. Handles \subseteq Nat /\ NoHandle \notin Handles
  BY <1>2, GatewayStateAssumption DEF Handles
<1>. QED
  BY <1>1, <1>2, <1>3, <1>4, <1>5

LEMMA AtMostOneMore ==
  ASSUME NEW S, NEW x, IsFiniteSet(S)
  PROVE  /\ IsFiniteSet(S \cup {x})
         /\ Cardinality(S) \in Nat /\ Cardinality(S \cup {x}) \in Nat
         /\ Cardinality(S \cup {x}) <= Cardinality(S) + 1
BY FS_AddElement, FS_CardinalityType

\* There is a file for every save: two have names, and of the others at most one for each
\* thread but the one that opens is still open.
LEMMA UnusedHandle ==
  ASSUME StateInv, NEW s \in Saver, doing[s] = "opening"
  PROVE  Unused \in Handles \ ({names.tmp, names.state} \cup {open[t] : t \in Saver})
<1>. DEFINE Others == Saver \ {s}
            Opened == {open[t] : t \in Others}
            f == [t \in Others |-> open[t]]
            Taken == (Opened \cup {names.tmp}) \cup {names.state}
<1>1. IsFiniteSet(Others) /\ Cardinality(Others) = Cardinality(Saver) - 1
  BY HandlesFinite, FS_RemoveElement
<1>2. f \in Surjection(Others, Opened)
  BY DEF Surjection
<1>3. IsFiniteSet(Opened) /\ Cardinality(Opened) <= Cardinality(Saver) - 1
  <2>. HIDE DEF f, Opened, Others
  <2>. QED
    BY <1>1, <1>2, FS_Surjection
<1>4. /\ IsFiniteSet(Taken) /\ Cardinality(Taken) \in Nat
      /\ Cardinality(Taken) <= Cardinality(Saver) + 1
  <2>. HIDE DEF f, Opened, Others
  <2>1. /\ IsFiniteSet(Opened \cup {names.tmp}) /\ Cardinality(Opened \cup {names.tmp}) \in Nat
        /\ Cardinality(Opened \cup {names.tmp}) <= Cardinality(Opened) + 1
        /\ Cardinality(Opened) \in Nat
    BY <1>3, AtMostOneMore
  <2>2. /\ IsFiniteSet(Taken) /\ Cardinality(Taken) \in Nat
        /\ Cardinality(Taken) <= Cardinality(Opened \cup {names.tmp}) + 1
    BY <2>1, AtMostOneMore
  <2>. HIDE DEF Taken
  <2>. QED
    BY <1>3, <2>1, <2>2, HandlesFinite
<1>6. PICK h \in Handles : h \notin Taken
  <2>. HIDE DEF Taken
  <2>1. ASSUME Handles \subseteq Taken PROVE FALSE
    <3>1. Cardinality(Handles) <= Cardinality(Taken)
      BY <2>1, <1>4, FS_Subset
    <3>. QED
      BY <3>1, <1>4, HandlesFinite
  <2>. QED
    BY <2>1
<1>7. open[s] = NoHandle
  BY DEF StateInv, OpenOK
<1>8. h \notin {names.tmp, names.state} \cup {open[t] : t \in Saver}
  BY <1>6, <1>7, HandlesFinite
<1>. QED
  BY <1>8 DEF Unused

LEMMA StateInitInv == StateInit => StateInv
<1>. SUFFICES ASSUME StateInit PROVE StateInv
  OBVIOUS
<1>1. interval \in BOOLEAN /\ lone \in BOOLEAN /\ mixed \in BOOLEAN
  BY Zenon DEF StateInit
<1>2. StateTypeOK
  BY <1>1, HandlesFinite, GatewayStateAssumption DEF StateInit, StateTypeOK, Blank
<1>3. OpenOK /\ NamesOK /\ LoneOK /\ KeptOK
  BY DEF StateInit, OpenOK, NamesOK, LoneOK, KeptOK, Saving, OneSaver
<1>. QED
  BY <1>2, <1>3 DEF StateInv

\* Nothing that a save has to find is touched.
LEMMA CountStep ==
  ASSUME StateInv, NEW s \in Saver,
         Counts(s) \/ CountsRejection(s) \/ Looks(s) \/ Claims(s) \/ Snapshots(s)
  PROVE  StateInv'
<1>. USE GatewayStateAssumption DEF Counts, CountsRejection, Looks, Claims, Snapshots, GoesTo
<1>1. /\ UNCHANGED <<open, names, files, saved, lone, mixed, mishaps>>
      /\ doing' \in [Saver -> {"idle", "looking", "claiming", "saving", "opening", "writing",
                               "renaming", "stopped"}]
      /\ counted' \in 0..MaxCounted /\ snap' \in [Saver -> 0..MaxCounted]
  BY DEF StateInv, StateTypeOK
<1>2. interval' \in BOOLEAN
  BY Zenon DEF StateInv, StateTypeOK
<1>3. StateTypeOK'
  BY <1>1, <1>2 DEF StateInv, StateTypeOK
<1>4. /\ Saving' = Saving
      /\ \A t \in Saver : doing'[t] = "writing" <=> doing[t] = "writing"
      /\ \A t \in Saving : doing'[t] = doing[t] /\ snap'[t] = snap[t]
  BY DEF StateInv, StateTypeOK, Saving
<1>. QED
  BY <1>1, <1>3, <1>4 DEF StateInv, OpenOK, NamesOK, LoneOK, KeptOK, Saving, OneSaver, NotMet

\* A save opens a file that no other save has, or it has met another one.
LEMMA OpensStep ==
  ASSUME StateInv, NEW s \in Saver, OpensTemp(s)
  PROVE  StateInv'
<1>. DEFINE h == IF names.tmp = NoHandle THEN Unused ELSE names.tmp
<1>1. h \in Handles /\ h # NoHandle /\ h # names.state
  BY UnusedHandle, HandlesFinite DEF OpensTemp, StateInv, StateTypeOK, NamesOK
<1>2. /\ doing[s] = "opening" /\ doing' = [doing EXCEPT ![s] = "writing"]
      /\ names' = [names EXCEPT !.tmp = h] /\ open' = [open EXCEPT ![s] = h]
      /\ files' = [files EXCEPT ![h] = Blank]
      /\ UNCHANGED <<counted, interval, snap, saved, mishaps>>
  BY DEF OpensTemp, GoesTo
<1>3. lone' = (Saving = {}) /\ mixed' = (mixed \/ Saving # {})
  BY DEF OpensTemp
<1>. HIDE DEF h
<1>4. lone' \in BOOLEAN /\ mixed' \in BOOLEAN
  BY <1>3, Zenon
<1>5. StateTypeOK'
  BY <1>1, <1>2, <1>4, GatewayStateAssumption DEF StateInv, StateTypeOK, Blank
<1>6. names'.tmp = h /\ names'.state = names.state
  BY <1>2 DEF StateInv, StateTypeOK
<1>7. OpenOK' /\ NamesOK'
  BY <1>1, <1>2, <1>6 DEF StateInv, StateTypeOK, OpenOK, NamesOK
<1>8. Saving' = Saving \cup {s}
  BY <1>2 DEF StateInv, StateTypeOK, Saving
<1>9. LoneOK'
  <2>1. CASE Saving = {}
    BY <1>1, <1>2, <1>6, <1>8, <2>1 DEF StateInv, StateTypeOK, LoneOK, OneSaver, NotMet
  <2>2. CASE Saving # {}
    BY <1>3, <2>2 DEF LoneOK
  <2>. QED
    BY <2>1, <2>2
<1>10. KeptOK'
  BY <1>1, <1>2, <1>3, <1>6 DEF StateInv, StateTypeOK, KeptOK
<1>. QED
  BY <1>5, <1>7, <1>9, <1>10 DEF StateInv

\* A write goes to the file that was opened; the state's own one is open only to a save that
\* has met another.
LEMMA WritesStep ==
  ASSUME StateInv, NEW s \in Saver, WritesTemp(s) \/ WriteErrs(s)
  PROVE  StateInv'
<1>. USE GatewayStateAssumption
<1>1. /\ doing[s] = "writing" /\ open[s] \in Handles
      /\ open' = [open EXCEPT ![s] = NoHandle]
      /\ UNCHANGED <<counted, interval, snap, names, saved, lone, mixed>>
  BY DEF WritesTemp, WriteErrs, StateInv, StateTypeOK, OpenOK
<1>2. PICK f \in [n : 0..MaxCounted, is : {"blank", "whole", "torn"}] :
        /\ files' = [files EXCEPT ![open[s]] = f]
        /\ WritesTemp(s) /\ files[open[s]] = Blank => f = Whole(snap[s])
  <2>. DEFINE Contents == [n : 0..MaxCounted, is : {"blank", "whole", "torn"}]
  <2>1. CASE WritesTemp(s)
    <3>1. PICK f \in Overlaid(files[open[s]], snap[s]) : files' = [files EXCEPT ![open[s]] = f]
      BY <2>1 DEF WritesTemp
    <3>2. snap[s] \in 0..MaxCounted /\ f \in {Whole(snap[s]), Torn}
      BY <3>1 DEF Overlaid, StateInv, StateTypeOK
    <3>3. f \in Contents
      BY <3>2 DEF Whole, Torn
    <3>4. files[open[s]] = Blank => f = Whole(snap[s])
      BY <3>1 DEF Overlaid, Blank
    <3>. QED
      BY <3>1, <3>3, <3>4
  <2>2. CASE ~WritesTemp(s)
    <3>1. files' = [files EXCEPT ![open[s]] = Torn]
      BY <2>2 DEF WriteErrs
    <3>2. Torn \in Contents
      BY DEF Torn
    <3>. QED
      BY <2>2, <3>1, <3>2
  <2>. QED
    BY <2>1, <2>2
<1>3. PICK goes \in {"renaming", "stopped", "idle"} :
        /\ doing' = [doing EXCEPT ![s] = goes]
        /\ goes = "renaming" => WritesTemp(s)
  BY DEF WritesTemp, WriteErrs, GoesTo, SaveOver
<1>4. StateTypeOK'
  <2>1. mishaps' \in 0..MaxMishaps
    BY DEF WritesTemp, WriteErrs, StateInv, StateTypeOK
  <2>. QED
    BY <1>1, <1>2, <1>3, <2>1 DEF StateInv, StateTypeOK
<1>5. OpenOK' /\ NamesOK'
  BY <1>1, <1>3 DEF StateInv, StateTypeOK, OpenOK, NamesOK
<1>6. Saving' = (Saving \ {s}) \cup (IF goes = "renaming" THEN {s} ELSE {}) /\ s \in Saving
  BY <1>1, <1>3 DEF StateInv, StateTypeOK, Saving
<1>7. ASSUME ~mixed \/ lone PROVE Saving = {s} /\ open[s] = names.tmp /\ files[names.tmp] = Blank
  BY <1>1, <1>6, <1>7 DEF StateInv, LoneOK, OneSaver, NotMet
<1>8. LoneOK'
  <2>. SUFFICES ASSUME (~mixed \/ lone)' PROVE OneSaver' /\ \A t \in Saving' : NotMet(t)'
    BY DEF LoneOK
  <2>1. ~mixed \/ lone
    BY <1>1
  <2>2. Saving' \subseteq {s}
    BY <1>6, <1>7, <2>1
  <2>3. OneSaver'
    BY <2>2 DEF OneSaver
  <2>4. ASSUME s \in Saving' PROVE NotMet(s)'
    <3>1. goes = "renaming" /\ doing'[s] = "renaming" /\ WritesTemp(s)
      BY <1>3, <2>4 DEF Saving, StateInv, StateTypeOK
    <3>2. names' = names /\ names.tmp \in Handles /\ names.tmp # NoHandle
      BY <1>1, <1>7, <2>1, HandlesFinite
    <3>3. files'[names.tmp] = Whole(snap[s]) /\ snap' = snap
      BY <1>1, <1>2, <1>7, <2>1, <3>1 DEF StateInv, StateTypeOK
    <3>. QED
      BY <3>1, <3>2, <3>3 DEF NotMet
  <2>. QED
    BY <2>2, <2>3, <2>4
<1>9. KeptOK'
  <2>. SUFFICES ASSUME ~mixed PROVE KeptOK'
    BY <1>1 DEF KeptOK
  <2>1. open[s] # names.state
    BY <1>1, <1>7, HandlesFinite DEF StateInv, NamesOK
  <2>. QED
    BY <1>1, <1>2, <2>1 DEF StateInv, StateTypeOK, KeptOK
<1>. QED
  BY <1>4, <1>5, <1>8, <1>9 DEF StateInv

\* A rename puts the file of the last save to open in place; a save that has met no other
\* puts its own.
LEMMA RenamesStep ==
  ASSUME StateInv, NEW s \in Saver, Renames(s)
  PROVE  StateInv'
<1>. USE GatewayStateAssumption
<1>1. PICK goes \in {"stopped", "idle"} : doing' = [doing EXCEPT ![s] = goes]
  BY DEF Renames, GoesTo, SaveOver
<1>2. /\ doing[s] = "renaming" /\ s \in Saving
      /\ UNCHANGED <<counted, interval, snap, open, lone, mishaps>>
  BY DEF Renames, Saving
<1>3. Saving' = Saving \ {s}
  BY <1>1 DEF StateInv, StateTypeOK, Saving
<1>4. OpenOK'
  BY <1>1, <1>2 DEF StateInv, StateTypeOK, OpenOK
<1>5. CASE names.tmp = NoHandle
  <2>1. UNCHANGED <<names, files, saved, mixed>>
    BY <1>5 DEF Renames
  \* a save that has met no other would have found the name
  <2>2. mixed /\ ~lone
    BY <1>2, <1>5 DEF StateInv, LoneOK, NotMet
  <2>3. StateTypeOK'
    BY <1>1, <1>2, <2>1 DEF StateInv, StateTypeOK
  <2>. QED
    BY <1>2, <1>4, <2>1, <2>2, <2>3 DEF StateInv, NamesOK, LoneOK, KeptOK
<1>6. CASE names.tmp # NoHandle
  <2>1. /\ names' = [tmp |-> NoHandle, state |-> names.tmp]
        /\ files' = [h \in Handles |-> IF h = names.tmp \/ \E t \in Saver : open[t] = h
                                      THEN files[h] ELSE Blank]
        /\ saved' = snap[s] /\ mixed' = (mixed /\ ~lone)
    BY <1>6 DEF Renames
  <2>2. mixed' \in BOOLEAN
    BY <2>1, Zenon
  <2>3. names.tmp \in Handles /\ snap[s] \in 0..MaxCounted
    BY <1>6 DEF StateInv, StateTypeOK
  <2>4. files' \in [Handles -> [n : 0..MaxCounted, is : {"blank", "whole", "torn"}]]
    BY <2>1 DEF StateInv, StateTypeOK, Blank
  <2>5. StateTypeOK'
    BY <1>1, <1>2, <2>1, <2>2, <2>3, <2>4 DEF StateInv, StateTypeOK
  <2>6. NamesOK'
    BY <2>1 DEF NamesOK
  <2>7. ASSUME ~mixed \/ lone PROVE Saving' = {} /\ files[names.tmp] = Whole(snap[s])
    BY <1>2, <1>3, <2>7 DEF StateInv, LoneOK, OneSaver, NotMet
  <2>8. LoneOK'
    BY <1>2, <2>1, <2>7 DEF LoneOK, OneSaver
  <2>9. KeptOK'
    BY <2>1, <2>3, <2>7, HandlesFinite DEF KeptOK
  <2>. QED
    BY <1>4, <2>5, <2>6, <2>8, <2>9 DEF StateInv
<1>. QED
  BY <1>5, <1>6

\* A file that is on disk is not touched by the end of the process.
LEMMA OnDiskType == StateInv => OnDisk \in 0..MaxCounted
BY GatewayStateAssumption DEF StateInv, StateTypeOK, OnDisk

LEMMA ProcessStep ==
  ASSUME StateInv, Stops \/ Restarts \/ TimeGoesBy
  PROVE  StateInv'
<1>. USE GatewayStateAssumption
<1>1. CASE Stops
  <2>1. /\ doing' = [doing EXCEPT ![Main] = "saving"] /\ doing[Main] = "idle" /\ Main \in Saver
        /\ UNCHANGED <<counted, interval, snap, open, names, files, saved, lone, mixed, mishaps>>
    BY <1>1 DEF Stops, GoesTo, Saver
  <2>2. StateTypeOK'
    BY <2>1 DEF StateInv, StateTypeOK
  <2>3. Saving' = Saving /\ \A t \in Saving : doing'[t] = doing[t]
    BY <2>1 DEF StateInv, StateTypeOK, Saving
  <2>4. OpenOK'
    BY <2>1 DEF StateInv, StateTypeOK, OpenOK
  <2>. QED
    BY <2>1, <2>2, <2>3, <2>4 DEF StateInv, NamesOK, LoneOK, KeptOK, OneSaver, NotMet
<1>2. CASE Restarts
  <2>1. /\ doing' = [s \in Saver |-> "idle"] /\ open' = [s \in Saver |-> NoHandle]
        /\ snap' = [s \in Saver |-> 0] /\ interval' = FALSE /\ counted' = OnDisk
        /\ UNCHANGED <<names, files, saved, lone, mixed>>
    BY <1>2 DEF Restarts
  <2>2. interval' \in BOOLEAN
    BY <2>1, Zenon
  <2>3. mishaps' \in 0..MaxMishaps
    BY <1>2 DEF Restarts, StateInv, StateTypeOK
  <2>4. StateTypeOK'
    <3>. HIDE DEF Restarts
    <3>1. /\ doing' \in [Saver -> {"idle", "looking", "claiming", "saving", "opening", "writing",
                                   "renaming", "stopped"}]
          /\ open' \in [Saver -> Handles \cup {NoHandle}] /\ snap' \in [Saver -> 0..MaxCounted]
          /\ counted' \in 0..MaxCounted
      BY <2>1, OnDiskType
    <3>2. UNCHANGED <<names, files, saved, lone, mixed>>
      BY <2>1
    <3>. QED
      BY <2>2, <2>3, <3>1, <3>2 DEF StateInv, StateTypeOK
  <2>5. OpenOK' /\ Saving' = {}
    BY <2>1 DEF OpenOK, Saving
  <2>. QED
    BY <2>1, <2>4, <2>5 DEF StateInv, NamesOK, LoneOK, KeptOK, OneSaver
<1>3. CASE TimeGoesBy
  <2>1. interval' \in BOOLEAN
    BY <1>3, Zenon DEF TimeGoesBy
  <2>. QED
    BY <1>3, <2>1 DEF TimeGoesBy, StateInv, StateTypeOK, OpenOK, NamesOK, LoneOK, KeptOK, Saving,
                      OneSaver, NotMet
<1>. QED
  BY <1>1, <1>2, <1>3

LEMMA StateNextInv == StateInv /\ [StateNext]_stateVars => StateInv'
<1>. SUFFICES ASSUME StateInv, [StateNext]_stateVars PROVE StateInv'
  OBVIOUS
<1>1. CASE Stops \/ Restarts \/ TimeGoesBy
  BY <1>1, ProcessStep
<1>2. ASSUME NEW s \in Saver,
             Counts(s) \/ CountsRejection(s) \/ Looks(s) \/ Claims(s) \/ Snapshots(s)
      PROVE  StateInv'
  BY <1>2, CountStep
<1>3. ASSUME NEW s \in Saver, OpensTemp(s) PROVE StateInv'
  BY <1>3, OpensStep
<1>4. ASSUME NEW s \in Saver, WritesTemp(s) \/ WriteErrs(s) PROVE StateInv'
  BY <1>4, WritesStep
<1>5. ASSUME NEW s \in Saver, Renames(s) PROVE StateInv'
  BY <1>5, RenamesStep
<1>6. CASE UNCHANGED stateVars
  BY <1>6 DEF stateVars, StateInv, StateTypeOK, OpenOK, NamesOK, LoneOK, KeptOK, Saving, OneSaver,
              NotMet
<1>. QED
  BY <1>1, <1>2, <1>3, <1>4, <1>5, <1>6 DEF StateNext

THEOREM StateInvariant == StateSpec => []StateInv
<1>1. StateInit => StateInv
  BY StateInitInv
<1>2. StateInv /\ [StateNext]_stateVars => StateInv'
  BY StateNextInv
<1>. QED
  BY <1>1, <1>2, PTL DEF StateSpec

\* AccountsKept: wherever the process is killed and whatever write fails, the file has what
\* the last save put in place, but from an overlap of saves to the next one that runs alone.
THEOREM CountersSurvive == StateSpec => []AccountsKept
<1>1. StateInv => AccountsKept
  BY DEF StateInv, StateTypeOK, KeptOK, AccountsKept, OnDisk, Whole
<1>. QED
  BY <1>1, StateInvariant, PTL

-----------------------------------------------------------------------------
(* AuditBudget: the daily cap of the audit.                                *)

Begun == {s \in Sample : smp[s].pc \in {"open", "done", "lost"} /\ smp[s].day = today}

\* The units of the cap that the samples begun today hold: of those still to be settled, or
\* never, and of those settled.
Units == {u \in Sample \X (1..Est) : u[1] \in Begun /\ u[2] <= Held(u[1])}
Reserved == {u \in Units : smp[u[1]].pc # "done"}
Charged == {u \in Units : smp[u[1]].pc = "done"}

\* A file of another day has seen no sample of today.
Dated == file.day # today => Begun = {}

\* The file knows what is reserved and what was charged, or refuses every sample.
Covered ==
  ~straddled /\ file.readable /\ file.day = today =>
    \/ file.spent >= Cap
    \/ Cardinality(Reserved) <= file.reserved /\ Cardinality(Charged) <= file.spent

\* The inductive invariant.  CapHolds alone does not say what the next reservation will find.
AuditInv == AuditTypeOK /\ Dated /\ Covered /\ (straddled \/ Cardinality(Units) <= Cap)

LEMMA UnitsFinite ==
  /\ IsFiniteSet(Units) /\ IsFiniteSet(Reserved) /\ IsFiniteSet(Charged)
  /\ Cardinality(Units) = Cardinality(Reserved) + Cardinality(Charged)
  /\ Cardinality(Units) \in Nat /\ Cardinality(Reserved) \in Nat /\ Cardinality(Charged) \in Nat
<1>1. IsFiniteSet(Sample \X (1..Est))
  <2>1. IsFiniteSet(1..Est) /\ IsFiniteSet(Sample)
    BY FS_Interval, AuditAssumption DEF Est
  <2>. QED
    BY <2>1, FS_Product, Zenon
<1>2. Units \in SUBSET (Sample \X (1..Est)) /\ Reserved \in SUBSET Units /\ Charged \in SUBSET Units
  BY DEF Units, Reserved, Charged
<1>3. IsFiniteSet(Units) /\ IsFiniteSet(Reserved) /\ IsFiniteSet(Charged)
  BY <1>1, <1>2, FS_Subset
<1>4. Units = Reserved \cup Charged /\ Reserved \cap Charged = {}
  BY DEF Reserved, Charged
<1>5. /\ Cardinality(Units) \in Nat /\ Cardinality(Reserved) \in Nat /\ Cardinality(Charged) \in Nat
      /\ Cardinality({}) = 0
  BY <1>3, FS_CardinalityType, FS_EmptySet
<1>6. Cardinality(Units) = Cardinality(Reserved) + Cardinality(Charged) - Cardinality({})
  BY <1>3, <1>4, FS_Union
<1>. QED
  BY <1>3, <1>5, <1>6

\* The units of one sample.
LEMMA UnitsOfOne ==
  ASSUME NEW s, NEW n \in Nat
  PROVE  IsFiniteSet({s} \X (1..n)) /\ Cardinality({s} \X (1..n)) = n
<1>1. IsFiniteSet({s}) /\ Cardinality({s}) = 1
  BY FS_Singleton
<1>2. IsFiniteSet(1..n) /\ Cardinality(1..n) = n
  BY FS_Interval
<1>3. IsFiniteSet({s} \X (1..n)) /\ Cardinality({s} \X (1..n)) = 1 * n
  <2>1. /\ IsFiniteSet({s} \X (1..n))
        /\ Cardinality({s} \X (1..n)) = Cardinality({s}) * Cardinality(1..n)
    BY <1>1, <1>2, FS_Product, Zenon
  <2>. QED
    BY <1>1, <1>2, <2>1, Zenon
<1>. QED
  BY <1>3

LEMMA TypeOfFile ==
  ASSUME AuditTypeOK
  PROVE  /\ file.day \in 0..today /\ file.spent \in Nat /\ file.reserved \in Nat
         /\ file.readable \in BOOLEAN /\ today \in 0..MaxDays /\ today \in Nat
         /\ Books.spent \in Nat /\ Books.reserved \in Nat /\ Books.day = today
         /\ Books.readable = TRUE
         /\ Books \in [day : 0..today, spent : Nat, reserved : Nat, readable : BOOLEAN]
<1>1. /\ file.day \in 0..today /\ file.spent \in Nat /\ file.reserved \in Nat
      /\ file.readable \in BOOLEAN /\ today \in 0..MaxDays /\ today \in Nat
  BY AuditAssumption DEF AuditTypeOK
<1>2. CASE ~file.readable
  <2>1. Books = [day |-> today, spent |-> Cap, reserved |-> 0, readable |-> TRUE]
    BY <1>2 DEF Books, FreshDay
  <2>2. TRUE \in BOOLEAN
    BY Zenon
  <2>. QED
    BY <1>1, <2>1, <2>2, AuditAssumption
<1>3. CASE file.readable /\ file.day # today
  BY <1>1, <1>3 DEF Books, FreshDay
<1>4. CASE file.readable /\ file.day = today
  BY <1>1, <1>4, AuditAssumption DEF Books, AuditTypeOK
<1>. QED
  BY <1>1, <1>2, <1>3, <1>4

\* What _update is handed covers the samples of today.
LEMMA BooksCover ==
  ASSUME AuditInv, ~straddled
  PROVE  \/ Books.spent >= Cap
         \/ Cardinality(Reserved) <= Books.reserved /\ Cardinality(Charged) <= Books.spent
<1>1. /\ file.readable \in BOOLEAN /\ file.day \in Nat /\ today \in Nat /\ AuditTypeOK
      /\ Books.spent \in Nat /\ Books.reserved \in Nat
  BY TypeOfFile DEF AuditInv
<1>2. CASE ~file.readable
  BY <1>1, <1>2, AuditAssumption DEF Books, FreshDay
<1>3. CASE file.readable /\ file.day # today
  <2>1. Reserved = {} /\ Charged = {}
    BY <1>3 DEF AuditInv, Dated, Units, Reserved, Charged
  <2>2. Cardinality(Reserved) = 0 /\ Cardinality(Charged) = 0
    BY <2>1, FS_EmptySet
  <2>. QED
    BY <1>1, <2>2
<1>4. CASE file.readable /\ file.day = today
  BY <1>4 DEF AuditInv, Covered, Books
<1>. QED
  BY <1>1, <1>2, <1>3, <1>4

\* Steps that leave the units as they are.
LEMMA SameUnits ==
  ASSUME Begun' = Begun, \A s \in Begun : Held(s)' = Held(s) /\ (smp'[s].pc = "done" <=> smp[s].pc = "done")
  PROVE  Units' = Units /\ Reserved' = Reserved /\ Charged' = Charged
<1>1. Units' = Units
  BY DEF Units
<1>2. \A u \in Units : u[1] \in Begun
  BY DEF Units
<1>. QED
  BY <1>1, <1>2 DEF Reserved, Charged

LEMMA AuditInitInv == AuditInit => AuditInv
<1>. SUFFICES ASSUME AuditInit PROVE AuditInv
  OBVIOUS
<1>1. straddled \in BOOLEAN /\ TRUE \in BOOLEAN
  BY Zenon DEF AuditInit
<1>2. AuditTypeOK
  BY <1>1, AuditAssumption DEF AuditInit, AuditTypeOK, FreshDay
<1>3. Begun = {}
  BY DEF AuditInit, Begun
<1>4. Units = {} /\ Reserved = {} /\ Charged = {} /\ Cardinality({}) = 0
  BY <1>3, FS_EmptySet DEF Units, Reserved, Charged
<1>. QED
  BY <1>2, <1>3, <1>4, AuditAssumption DEF AuditInv, Dated, Covered, AuditInit, FreshDay

\* _update before a sample: it is refused, or its estimate is reserved under the cap.
LEMMA ReserveStep ==
  ASSUME AuditInv, NEW s \in Sample, Reserve(s)
  PROVE  AuditInv'
<1>1. /\ AuditTypeOK /\ smp[s].pc = "new" /\ UNCHANGED <<today, straddled, breaks>>
      /\ Est \in Nat /\ Est > 0 /\ Cap \in Nat /\ DOMAIN smp = Sample
  BY AuditAssumption DEF AuditInv, Reserve, Est, AuditTypeOK
<1>2. /\ Books.spent \in Nat /\ Books.reserved \in Nat /\ Books.day = today /\ today \in Nat
      /\ Books.readable = TRUE
      /\ Books \in [day : 0..today, spent : Nat, reserved : Nat, readable : BOOLEAN]
  BY <1>1, TypeOfFile
<1>3. s \notin Begun
  BY <1>1 DEF Begun
<1>4. CASE file' = Books /\ smp' = [smp EXCEPT ![s].pc = "skipped"]
  <2>1. AuditTypeOK'
    BY <1>1, <1>2, <1>4 DEF AuditTypeOK
  <2>2. Begun' = Begun /\ \A q \in Begun : smp'[q] = smp[q]
    BY <1>1, <1>3, <1>4 DEF Begun
  <2>3. Units' = Units /\ Reserved' = Reserved /\ Charged' = Charged
    BY <2>2, SameUnits DEF Held
  <2>4. Covered'
    BY <1>1, <1>2, <1>4, <2>3, BooksCover DEF Covered
  <2>. QED
    BY <1>1, <1>2, <1>4, <2>1, <2>2, <2>3, <2>4 DEF AuditInv, Dated
<1>5. CASE /\ ~(Books.spent + Books.reserved + Est > Cap)
           /\ file' = [Books EXCEPT !.reserved = @ + Est]
           /\ smp' = [smp EXCEPT ![s].pc = "open", ![s].day = today]
  <2>1. /\ file'.spent = Books.spent /\ file'.reserved = Books.reserved + Est
        /\ file'.day = today /\ file'.readable = TRUE
        /\ file' \in [day : 0..today, spent : Nat, reserved : Nat, readable : BOOLEAN]
    BY <1>1, <1>2, <1>5
  <2>2. AuditTypeOK'
    BY <1>1, <1>2, <1>5, <2>1 DEF AuditTypeOK
  <2>3. /\ Begun' = Begun \cup {s} /\ \A q \in Begun : smp'[q] = smp[q] /\ Held(q)' = Held(q)
        /\ smp'[s].pc = "open" /\ Held(s)' = Est
    BY <1>1, <1>3, <1>5 DEF Begun, Held, AuditTypeOK
  <2>4. /\ Units' = Units \cup ({s} \X (1..Est)) /\ Units \cap ({s} \X (1..Est)) = {}
        /\ Reserved' = Reserved \cup ({s} \X (1..Est)) /\ Reserved \cap ({s} \X (1..Est)) = {}
        /\ Charged' = Charged
    <3>1. Est' = Est
      BY DEF Est
    <3>2. \A u : u \in Units' <=> u \in Units \/ u \in {s} \X (1..Est)
      <4>1. ASSUME NEW u \in Sample \X (1..Est)
            PROVE u \in Units' <=> u \in Units \/ u \in {s} \X (1..Est)
        <5>1. CASE u[1] = s
          <6>1. u[2] \in 1..Est /\ u[2] <= Est /\ u = <<u[1], u[2]>>
            BY <1>1, <4>1
          <6>2. QED
            BY <1>3, <2>3, <3>1, <5>1, <6>1 DEF Units
        <5>2. CASE u[1] # s
          BY <2>3, <3>1, <5>2 DEF Units
        <5>3. QED
          BY <5>1, <5>2
      <4>2. \A u : u \in Units' \/ u \in Units \/ u \in {s} \X (1..Est) => u \in Sample \X (1..Est)
        BY <3>1 DEF Units
      <4>. QED
        BY <4>1, <4>2
    <3>3. \A u \in Units : u[1] # s /\ smp'[u[1]] = smp[u[1]]
      BY <1>3, <2>3 DEF Units
    <3>4. \A u \in {s} \X (1..Est) : u[1] = s
      OBVIOUS
    <3>. QED
      BY <2>3, <3>2, <3>3, <3>4 DEF Reserved, Charged
  <2>5. /\ IsFiniteSet({s} \X (1..Est)) /\ Cardinality({s} \X (1..Est)) = Est
        /\ Cardinality({}) = 0
    BY <1>1, UnitsOfOne, FS_EmptySet
  <2>6. /\ Cardinality(Units') = Cardinality(Units) + Est - 0
        /\ Cardinality(Reserved') = Cardinality(Reserved) + Est - 0
    BY <2>4, <2>5, UnitsFinite, FS_Union
  <2>7. ~straddled => /\ Cardinality(Reserved) <= Books.reserved
                      /\ Cardinality(Charged) <= Books.spent
    BY <1>1, <1>2, <1>5, BooksCover
  <2>8. Covered'
    BY <1>1, <1>2, <2>1, <2>4, <2>6, <2>7, UnitsFinite DEF Covered
  <2>9. straddled \/ Cardinality(Units') <= Cap
    BY <1>1, <1>2, <1>5, <2>6, <2>7, UnitsFinite
  <2>. QED
    BY <1>1, <2>1, <2>2, <2>8, <2>9 DEF AuditInv, Dated
<1>. QED
  BY <1>1, <1>4, <1>5 DEF Reserve

\* A sample that is settled holds its cost, up to the estimate.
LEMMA SettleStep ==
  ASSUME AuditInv, NEW s \in Sample, Settle(s)
  PROVE  AuditInv'
<1>1. /\ AuditTypeOK /\ smp[s].pc = "open" /\ UNCHANGED <<today, breaks>>
      /\ Est \in Nat /\ Est > 0 /\ Cap \in Nat /\ DOMAIN smp = Sample /\ Est' = Est
      /\ smp' = [smp EXCEPT ![s].pc = "done"]
      /\ smp[s].paid \in Nat
  BY AuditAssumption DEF AuditInv, Settle, Est, AuditTypeOK
<1>2. /\ Books.spent \in Nat /\ Books.reserved \in Nat /\ Books.day = today /\ today \in Nat
      /\ Books.readable = TRUE
      /\ Books \in [day : 0..today, spent : Nat, reserved : Nat, readable : BOOLEAN]
  BY <1>1, TypeOfFile
<1>3. /\ file'.spent = Books.spent + smp[s].paid
      /\ file'.reserved = IF Books.reserved > Est THEN Books.reserved - Est ELSE 0
      /\ file'.day = today /\ file'.readable = TRUE
      /\ file' \in [day : 0..today, spent : Nat, reserved : Nat, readable : BOOLEAN]
  <2>1. PICK left \in Nat : left = IF Books.reserved > Est THEN Books.reserved - Est ELSE 0
    BY <1>1, <1>2
  <2>2. file' = [Books EXCEPT !.reserved = left, !.spent = Books.spent + smp[s].paid]
    BY <1>1, <1>2, <2>1 DEF Settle
  <2>3. Books.spent + smp[s].paid \in Nat
    BY <1>1, <1>2
  <2>. QED
    BY <1>2, <2>1, <2>2, <2>3
<1>4. PICK over \in BOOLEAN : over = (smp[s].day # today)
  BY Zenon
<1>5. straddled' \in BOOLEAN /\ (straddled' <=> straddled \/ over)
  BY <1>1, <1>4 DEF Settle, AuditTypeOK
<1>6. AuditTypeOK'
  BY <1>1, <1>2, <1>3, <1>5 DEF AuditTypeOK
<1>7. Dated'
  BY <1>1, <1>3 DEF Dated
<1>8. CASE straddled'
  BY <1>6, <1>7, <1>8 DEF AuditInv, Covered
<1>9. CASE ~straddled'
  <2>1. ~straddled /\ smp[s].day = today /\ s \in Begun
    BY <1>1, <1>4, <1>5, <1>9 DEF Begun
  <2>2. PICK h \in 0..Est : h = Held(s)' /\ h <= smp[s].paid
    BY <1>1 DEF Held
  <2>3. /\ Begun' = Begun /\ smp'[s].pc = "done" /\ Held(s) = Est
        /\ \A q \in Sample : q # s => smp'[q] = smp[q] /\ Held(q)' = Held(q)
    BY <1>1, <2>1 DEF Begun, Held
  <2>4. /\ Units' \subseteq Units
        /\ Reserved' = Reserved \ ({s} \X (1..Est)) /\ {s} \X (1..Est) \subseteq Reserved
        /\ Charged' = Charged \cup ({s} \X (1..h)) /\ Charged \cap ({s} \X (1..h)) = {}
    <3>1. ASSUME NEW u \in Sample \X (1..Est)
          PROVE  /\ u \in Units' => u \in Units
                 /\ u \in Reserved' <=> u \in Reserved /\ u \notin {s} \X (1..Est)
                 /\ u \in {s} \X (1..Est) => u \in Reserved
                 /\ u \in Charged' <=> u \in Charged \/ u \in {s} \X (1..h)
                 /\ u \in Charged => u \notin {s} \X (1..h)
      <4>0. u[2] \in 1..Est /\ u[2] <= Est /\ u = <<u[1], u[2]>> /\ u[2] \in Nat /\ u[2] >= 1
        BY <1>1, <3>1
      <4>1. CASE u[1] = s
        <5>1. u \in Units /\ u \in Reserved /\ u \in {s} \X (1..Est) /\ u \notin Charged
          BY <1>1, <2>1, <2>3, <4>0, <4>1 DEF Units, Reserved, Charged
        <5>2. u \in {s} \X (1..h) <=> u[2] <= h
          BY <4>0, <4>1
        <5>3. u \in Units' <=> u[2] <= h
          BY <1>1, <2>1, <2>2, <2>3, <4>0, <4>1 DEF Units
        <5>4. u \notin Reserved' /\ (u \in Charged' <=> u[2] <= h)
          BY <2>3, <4>1, <5>3 DEF Reserved, Charged
        <5>. QED
          BY <5>1, <5>2, <5>3, <5>4
      <4>2. CASE u[1] # s
        <5>1. u \notin {s} \X (1..Est) /\ u \notin {s} \X (1..h)
          BY <4>2
        <5>2. u \in Units' <=> u \in Units
          BY <1>1, <2>3, <4>2 DEF Units
        <5>3. (u \in Reserved' <=> u \in Reserved) /\ (u \in Charged' <=> u \in Charged)
          BY <2>3, <4>2, <5>2 DEF Reserved, Charged
        <5>. QED
          BY <5>1, <5>2, <5>3
      <4>. QED
        BY <4>1, <4>2
    <3>2. /\ \A u : u \in Units' \/ u \in Units \/ u \in {s} \X (1..Est) => u \in Sample \X (1..Est)
          /\ \A u : u \in {s} \X (1..h) => u \in Sample \X (1..Est)
      <4>1. 1..h \subseteq 1..Est
        BY <1>1
      <4>. QED
        BY <1>1, <4>1 DEF Units
    <3>3. Reserved \subseteq Units /\ Charged \subseteq Units /\ Reserved' \subseteq Units' /\ Charged' \subseteq Units'
      BY DEF Reserved, Charged
    <3>4. Units' \subseteq Units
      BY <3>1, <3>2
    <3>5. Reserved' = Reserved \ ({s} \X (1..Est)) /\ {s} \X (1..Est) \subseteq Reserved
      BY <3>1, <3>2, <3>3
    <3>6. Charged' = Charged \cup ({s} \X (1..h)) /\ Charged \cap ({s} \X (1..h)) = {}
      BY <3>1, <3>2, <3>3
    <3>. QED
      BY <3>4, <3>5, <3>6
  <2>5. /\ Cardinality({s} \X (1..Est)) = Est /\ Cardinality({}) = 0
        /\ IsFiniteSet({s} \X (1..h)) /\ Cardinality({s} \X (1..h)) = h
    <3>1. h \in Nat
      BY <1>1
    <3>. QED
      BY <1>1, <3>1, UnitsOfOne, FS_EmptySet
  <2>6. Cardinality(Reserved') = Cardinality(Reserved) - Est
    <3>1. Reserved \cap ({s} \X (1..Est)) = {s} \X (1..Est)
      BY <2>4
    <3>2. IsFiniteSet(Reserved) /\ IsFiniteSet({s} \X (1..Est))
      BY <1>1, UnitsFinite, UnitsOfOne
    <3>3. Cardinality(Reserved \ ({s} \X (1..Est))) = Cardinality(Reserved) - Cardinality(Reserved \cap ({s} \X (1..Est)))
      BY <3>2, FS_Difference, Zenon
    <3>4. Cardinality(Reserved') = Cardinality(Reserved) - Cardinality({s} \X (1..Est))
      BY <2>4, <3>1, <3>3, Zenon
    <3>. QED
      BY <2>5, <3>4
  <2>7. Cardinality(Charged') = Cardinality(Charged) + h - 0
    <3>1. IsFiniteSet(Charged) /\ IsFiniteSet({s} \X (1..h))
      BY <2>5, UnitsFinite
    <3>2. Cardinality(Charged \cup ({s} \X (1..h)))
            = Cardinality(Charged) + Cardinality({s} \X (1..h)) - Cardinality(Charged \cap ({s} \X (1..h)))
      BY <3>1, FS_Union, Zenon
    <3>. QED
      BY <2>4, <2>5, <3>2, Zenon
  <2>8. Cardinality(Units') <= Cardinality(Units) /\ Cardinality(Units') \in Nat /\ Cardinality(Reserved') \in Nat
    <3>1. Units' \in SUBSET Units /\ Reserved' \in SUBSET Reserved
      BY <2>4
    <3>2. IsFiniteSet(Units') /\ IsFiniteSet(Reserved') /\ Cardinality(Units') <= Cardinality(Units)
      BY <3>1, UnitsFinite, FS_Subset
    <3>. QED
      BY <3>2, FS_CardinalityType
  <2>9. Covered'
    <3>1. CASE Books.spent >= Cap
      BY <1>1, <1>2, <1>3, <3>1 DEF Covered
    <3>2. CASE Cardinality(Reserved) <= Books.reserved /\ Cardinality(Charged) <= Books.spent
      BY <1>1, <1>2, <1>3, <2>2, <2>6, <2>7, <2>8, <3>2, UnitsFinite DEF Covered
    <3>. QED
      BY <2>1, <3>1, <3>2, BooksCover
  <2>10. Cardinality(Units') <= Cap
    BY <1>1, <2>1, <2>8, UnitsFinite DEF AuditInv
  <2>. QED
    BY <1>6, <1>7, <2>9, <2>10 DEF AuditInv
<1>. QED
  BY <1>8, <1>9

\* Steps of one sample that change neither whether it has begun nor what it holds.
LEMMA QuietStep ==
  ASSUME AuditInv, NEW s \in Sample,
         \/ ReserveFails(s) \/ Answered(s) \/ SettleFails(s) \/ SampleDies(s)
  PROVE  AuditInv'
<1>1. /\ AuditTypeOK /\ UNCHANGED <<file, today, straddled>>
      /\ breaks' \in 0..MaxBreaks
  BY AuditAssumption DEF AuditInv, ReserveFails, Answered, SettleFails, SampleDies, AuditTypeOK, Break
<1>2. AuditTypeOK'
  <2>1. CASE ReserveFails(s)
    BY <1>1, <2>1 DEF AuditTypeOK, ReserveFails
  <2>2. CASE SettleFails(s) \/ SampleDies(s)
    BY <1>1, <2>2 DEF AuditTypeOK, SettleFails, SampleDies
  <2>3. CASE Answered(s)
    <3>1. PICK cost \in 0..2 : smp' = [smp EXCEPT ![s].arms = @ + 1, ![s].paid = @ + cost]
      BY <2>3 DEF Answered
    <3>2. smp[s].arms + 1 \in 0..Arms /\ smp[s].paid + cost \in Nat
      BY <1>1, <2>3, AuditAssumption DEF AuditTypeOK, Answered
    <3>3. smp' = [smp EXCEPT ![s] = [smp[s] EXCEPT !.arms = smp[s].arms + 1, !.paid = smp[s].paid + cost]]
      BY <1>1, <3>1 DEF AuditTypeOK
    <3>4. [smp[s] EXCEPT !.arms = smp[s].arms + 1, !.paid = smp[s].paid + cost]
            \in [pc : {"new", "skipped", "open", "done", "lost"}, day : 0..today, arms : 0..Arms, paid : Nat]
      BY <1>1, <3>2 DEF AuditTypeOK
    <3>5. smp' \in [Sample -> [pc : {"new", "skipped", "open", "done", "lost"}, day : 0..today,
                               arms : 0..Arms, paid : Nat]]
      BY <1>1, <3>3, <3>4, Zenon DEF AuditTypeOK
    <3>. QED
      BY <1>1, <3>5 DEF AuditTypeOK
  <2>. QED
    BY <2>1, <2>2, <2>3
<1>3. /\ Begun' = Begun
      /\ \A q \in Begun : Held(q)' = Held(q) /\ (smp'[q].pc = "done" <=> smp[q].pc = "done")
  <2>1. Est' = Est
    BY DEF Est
  <2>2. /\ \A q \in Sample : q # s => smp'[q] = smp[q]
        /\ smp'[s].day = smp[s].day /\ smp'[s].pc # "done" /\ smp[s].pc # "done"
        /\ (smp'[s].pc \in {"open", "done", "lost"} <=> smp[s].pc \in {"open", "done", "lost"})
    BY <1>1 DEF AuditTypeOK, ReserveFails, Answered, SettleFails, SampleDies
  <2>. QED
    BY <1>1, <2>1, <2>2 DEF Begun, Held
<1>4. Units' = Units /\ Reserved' = Reserved /\ Charged' = Charged
  BY <1>3, SameUnits
<1>. QED
  BY <1>1, <1>2, <1>3, <1>4 DEF AuditInv, Dated, Covered

LEMMA TruncatedStep ==
  ASSUME AuditInv, Truncated
  PROVE  AuditInv'
<1>1. /\ AuditTypeOK /\ UNCHANGED <<today, smp, straddled>> /\ breaks' \in 0..MaxBreaks
      /\ file' = [file EXCEPT !.readable = FALSE]
  BY AuditAssumption DEF AuditInv, Truncated, AuditTypeOK, Break
<1>2. FALSE \in BOOLEAN
  BY Zenon
<1>3. file'.readable = FALSE /\ file'.day = file.day
  BY <1>1 DEF AuditTypeOK
<1>4. AuditTypeOK'
  BY <1>1, <1>2 DEF AuditTypeOK
<1>5. Begun' = Begun /\ \A q \in Begun : Held(q)' = Held(q) /\ smp'[q] = smp[q]
  BY <1>1 DEF Begun, Held, Est
<1>6. Units' = Units /\ Reserved' = Reserved /\ Charged' = Charged
  BY <1>5, SameUnits
<1>. QED
  BY <1>1, <1>3, <1>4, <1>5, <1>6 DEF AuditInv, Dated, Covered

\* At midnight no sample of the new day has begun.
LEMMA MidnightStep ==
  ASSUME AuditInv, Midnight
  PROVE  AuditInv'
<1>1. /\ AuditTypeOK /\ UNCHANGED <<file, smp, breaks>> /\ today' = today + 1 /\ today \in Nat
      /\ today' \in 0..MaxDays /\ straddled' = FALSE /\ 0..today \subseteq 0..today'
  BY AuditAssumption DEF AuditInv, Midnight, AuditTypeOK
<1>2. straddled' \in BOOLEAN
  BY <1>1, Zenon
<1>3. AuditTypeOK'
  BY <1>1, <1>2 DEF AuditTypeOK
<1>4. Begun' = {} /\ file'.day # today'
  BY <1>1 DEF Begun, AuditTypeOK
<1>5. Units' = {}
  BY <1>4 DEF Units
<1>6. Cardinality(Units') = 0
  BY <1>5, FS_EmptySet
<1>. QED
  BY <1>3, <1>4, <1>6, AuditAssumption DEF AuditInv, Dated, Covered

LEMMA AuditNextInv == AuditInv /\ [AuditNext]_auditVars => AuditInv'
<1>. SUFFICES ASSUME AuditInv, [AuditNext]_auditVars PROVE AuditInv'
  OBVIOUS
<1>1. CASE \E s \in Sample : Reserve(s)
  BY <1>1, ReserveStep
<1>2. CASE \E s \in Sample : Settle(s)
  BY <1>2, SettleStep
<1>3. CASE \E s \in Sample : ReserveFails(s) \/ Answered(s) \/ SettleFails(s) \/ SampleDies(s)
  BY <1>3, QuietStep
<1>4. CASE Truncated
  BY <1>4, TruncatedStep
<1>5. CASE Midnight
  BY <1>5, MidnightStep
<1>6. CASE UNCHANGED auditVars
  <2>1. Begun' = Begun /\ \A q \in Begun : Held(q)' = Held(q) /\ smp'[q] = smp[q]
    BY <1>6 DEF auditVars, Begun, Held, Est
  <2>2. Units' = Units /\ Reserved' = Reserved /\ Charged' = Charged
    BY <2>1, SameUnits
  <2>. QED
    BY <1>6, <2>1, <2>2 DEF AuditInv, Dated, Covered, AuditTypeOK, auditVars
<1>. QED
  BY <1>1, <1>2, <1>3, <1>4, <1>5, <1>6 DEF AuditNext

\* The books of the audit, whatever dies, fails to be written or is truncated: the file covers
\* what the samples of today hold, or is exhausted, or a sample straddled midnight.
THEOREM AuditBooks == AuditSpec => []AuditInv
<1>1. AuditInit => AuditInv
  BY AuditInitInv
<1>2. AuditInv /\ [AuditNext]_auditVars => AuditInv'
  BY AuditNextInv
<1>. QED
  BY <1>1, <1>2, PTL DEF AuditSpec

\* The samples begun today fit the cap (Budget), for any number of samples, any cap and any
\* number of arms.
THEOREM CapIsKept == AuditSpec => []CapHolds
<1>1. AuditInv => CapHolds
  <2>. SUFFICES ASSUME AuditInv PROVE CapHolds
    OBVIOUS
  <2>1. Units = {u \in Sample \X (1..Est) : /\ smp[u[1]].pc \in {"open", "done", "lost"}
                                            /\ smp[u[1]].day = today /\ u[2] <= Held(u[1])}
    BY DEF Units, Begun
  <2>. QED
    BY <2>1 DEF AuditInv, CapHolds
<1>. QED
  BY <1>1, AuditBooks, PTL
=============================================================================
