-------------------------------- MODULE Drift --------------------------------
(***************************************************************************)
(* The drift guard, src/distil/drift.py.  Every proxy folds the paired     *)
(* differences of its shadow samples into ONE betting process, kept in     *)
(* drift.json under a file lock; when the capital proves a breach of the   *)
(* budget the file is "held" and every proxy serves lossless-only until    *)
(* `distil reset --drift-guard`.  Proxies read the file without the lock,  *)
(* in a watcher thread, and keep what they saw in DriftGuard.held.         *)
(***************************************************************************)
EXTENDS Integers, Sequences

CONSTANTS
  Proc,        \* proxies, hot-swap workers included
  Thread,      \* shadow threads, one sample at a time each
  Sampler,     \* the proxies that take shadow samples
  Limit,       \* harms in excess of agreements that prove a breach
  MaxRows,     \* bound: rows ever booked in shadow.jsonl
  CanCrash,    \* may a proxy die?
  CanFail,     \* may reads and writes of drift.json fail, the file be damaged or be
               \* another budget's, and a reset be killed halfway?
  CLI,         \* `distil reset --drift-guard`
  NONE         \* nobody, no row

ASSUME DriftAssumption ==
  /\ Sampler \subseteq Proc
  /\ Limit \in Nat \ {0} /\ MaxRows \in Nat
  /\ CanCrash \in BOOLEAN /\ CanFail \in BOOLEAN
  /\ Thread \cap Proc = {} /\ CLI \notin Thread \cup Proc /\ NONE \notin Thread \cup Proc \cup {CLI}

VARIABLES
  file,      \* drift.json
  archived,  \* is there a drift.json.reset-* beside it?
  ledger,    \* shadow.jsonl: what each guarded paired row measured
  lock,      \* who holds the file lock
  phase,     \* where each proxy is: its start, then its watcher
  mem,       \* _bootstrap: the state being folded
  next,      \* _bootstrap: the next row of shadow.jsonl
  upto,      \* _bootstrap: the rows that were there when it was read
  held,      \* DriftGuard.held
  seen,      \* DriftGuard._seen: no file, the file's key now, or another key
  pc,        \* where each shadow thread is
  row,       \* the proxy it belongs to and the row it has booked
  result,    \* the hold that fold() returned
  cli,       \* where `distil reset --drift-guard` is
  outcome,   \* what it reported
  bets,      \* history: how often each row was bet in the process in the file
  spent,     \* history: rows that were bet in a process released since
  receipts,  \* history: trip receipts of this betting process
  before     \* history: was the file held when the reset began?

shared == <<file, archived, ledger, lock>>
boot == <<mem, next, upto>>
guard == <<phase, held, seen>>
sample == <<pc, row, result>>
reset == <<cli, outcome, before>>
history == <<bets, spent>>
vars == <<shared, boot, guard, sample, reset, history, receipts>>

-----------------------------------------------------------------------------
(* drift.json: absent, unreadable, a LiveDrift, or JSON that was bet       *)
(* against another budget (or has lost the fields that say which).         *)

Loss == {"harm", "agree"}

\* level is the capital, current says that the file has this version's schema.
File == [kind : {"missing", "bad", "other", "state"}, level : 0..Limit,
         quarantined : BOOLEAN, current : BOOLEAN]

Fresh == [kind |-> "state", level |-> 0, quarantined |-> FALSE, current |-> TRUE]
Missing == [Fresh EXCEPT !.kind = "missing"]
Bad == [Fresh EXCEPT !.kind = "bad"]
Other == [Fresh EXCEPT !.kind = "other"]

Tripped(s) == s.kind = "state" /\ s.level >= Limit

\* LiveDrift.held.
Held(s) == s.kind = "bad" \/ s.quarantined \/ Tripped(s)

\* DriftMonitor.update: a tripped monitor refuses further updates.
Bet(s, loss) ==
  IF s.level >= Limit THEN s
  ELSE [s EXCEPT !.level = IF loss = "harm" THEN @ + 1 ELSE IF @ = 0 THEN 0 ELSE @ - 1]

\* What a reader may find: the file, or an error in its place.
Readings == {file} \cup {f \in {Bad} : CanFail /\ file.kind # "missing"}

\* Mutant: an unreadable file counts as none.
LoadForWriteForgetting(f, copied) == IF f.kind = "state" THEN f ELSE Fresh

\* _load_for_write: an unreadable file is copied aside and its successor is held; if
\* the copy failed, the state stays corrupt and _write refuses to replace the file.
\* Another budget's capital means nothing: start over, un-held whatever it recorded.
LoadForWrite(f, copied) ==
  CASE f.kind = "bad" -> IF copied THEN [Fresh EXCEPT !.quarantined = TRUE] ELSE Bad
    [] f.kind \in {"missing", "other"} -> Fresh
    [] OTHER -> f

Copied == IF CanFail THEN BOOLEAN ELSE {TRUE}

Written == IF CanFail THEN BOOLEAN ELSE {TRUE}

\* Every writer replaces the file whole; each guard's _seen is then another key.
Replace(f) ==
  /\ file' = f
  /\ seen' = [p \in Proc |-> IF seen[p] = "none" THEN "none" ELSE "old"]

\* LiveDrift._write: refused for a corrupt state; a failed write leaves the old file.
Write(s, ok) ==
  IF ok /\ s.kind # "bad" THEN Replace([s EXCEPT !.current = TRUE])
  ELSE UNCHANGED <<file, seen>>

\* The histories stop counting at 2, which is one too many.
OneMore(n) == IF n < 2 THEN n + 1 ELSE n

\* The row n was bet on top of what was there, and the file that says so was written.
Count(n, ok) == bets' = IF ok THEN [bets EXCEPT ![n] = OneMore(@)] ELSE bets

\* Mutant: whoever finds the process tripped writes its receipt.
TripsNowAgain(s, after) == Tripped(after)

\* LiveDrift.advance: did this call trip it?
TripsNow(s, after) == Tripped(after) /\ ~Tripped(s)

-----------------------------------------------------------------------------
\* A machine new to distil, or one with the file of an older schema.
Init ==
  /\ \/ file = Missing
     \/ \E l \in 0..Limit : file = [Fresh EXCEPT !.level = l, !.current = FALSE]
  /\ archived = FALSE
  /\ \E n \in 0..MaxRows : ledger \in [1..n -> Loss]
  /\ lock = NONE
  /\ mem = Fresh /\ next = 1 /\ upto = 0
  /\ phase = [p \in Proc |-> "down"]
  /\ held = [p \in Proc |-> FALSE]
  /\ seen = [p \in Proc |-> "none"]
  /\ pc = [t \in Thread |-> "idle"]
  /\ row = [t \in Thread |-> NONE]
  /\ result = [t \in Thread |-> FALSE]
  /\ cli = "idle" /\ outcome = "" /\ before = FALSE
  /\ bets = [n \in 1..MaxRows |-> 0] /\ spent = {}
  /\ receipts = 0

-----------------------------------------------------------------------------
(* The start of a proxy: _bootstrap under the file lock.                   *)

\* Mutant: every start folds the ledger.
MigratesAlways(f) == TRUE

\* Is the evidence in shadow.jsonl to be carried into the process?
Migrates(f) == \/ f.kind = "state" /\ ~Held(f) /\ ~f.current
               \/ f.kind = "missing" /\ ~archived

\* Nothing to fold: at most the quarantine of an unreadable file is written.
StartAsIs(p) ==
  /\ phase[p] = "down" /\ lock = NONE
  /\ \E f \in Readings, copied \in Copied, ok \in Written :
       LET s == LoadForWrite(f, copied)
       IN /\ ~Migrates(f)
          /\ IF s.quarantined THEN Write(s, ok) ELSE UNCHANGED <<file, seen>>
          /\ held' = [held EXCEPT ![p] = Held(s)]
  /\ phase' = [phase EXCEPT ![p] = "boot"]
  /\ UNCHANGED <<archived, ledger, lock, boot, sample, reset, history, receipts>>

StartFolding(p) ==
  /\ phase[p] = "down" /\ lock = NONE
  /\ Migrates(file)
  /\ lock' = p
  /\ mem' = Fresh /\ next' = 1 /\ upto' = Len(ledger)
  /\ phase' = [phase EXCEPT ![p] = "folding"]
  /\ UNCHANGED <<file, archived, ledger, held, seen, sample, reset, history, receipts>>

FoldingOver == Tripped(mem) \/ next > upto

FoldRow(p) ==
  /\ phase[p] = "folding" /\ ~FoldingOver
  /\ mem' = Bet(mem, ledger[next])
  /\ next' = next + 1
  /\ UNCHANGED <<shared, upto, guard, sample, reset, history, receipts>>

\* The folded state is written; a trip's receipt follows under the same lock.
EndFolding(p) ==
  /\ phase[p] = "folding" /\ FoldingOver
  /\ \E ok \in Written :
       /\ Write(mem, ok)
       /\ bets' = IF ok THEN [n \in 1..MaxRows |-> IF n < next THEN 1 ELSE 0] ELSE bets
  /\ held' = [held EXCEPT ![p] = Held(mem)]
  /\ IF TripsNow(Fresh, mem)
     THEN phase' = [phase EXCEPT ![p] = "receipt"] /\ UNCHANGED lock
     ELSE phase' = [phase EXCEPT ![p] = "boot"] /\ lock' = NONE
  /\ UNCHANGED <<archived, ledger, boot, sample, reset, spent, receipts>>

StartReceipt(p) ==
  /\ phase[p] = "receipt"
  /\ receipts' = OneMore(receipts)
  /\ lock' = NONE
  /\ phase' = [phase EXCEPT ![p] = "boot"]
  /\ UNCHANGED <<file, archived, ledger, boot, held, seen, sample, reset, history>>

-----------------------------------------------------------------------------
(* DriftGuard.refresh, at the start and then by the watcher: stat, then    *)
(* read if the key moved.                                                  *)

\* Mutant: only the file's presence is compared.
StaleByPresence(p) == (seen[p] = "none") # (file.kind = "missing")

Stale(p) == seen[p] = "old" \/ (seen[p] = "none" /\ file.kind # "missing")

Look(p) ==
  /\ phase[p] \in {"boot", "watch"} /\ Stale(p)
  /\ seen' = [seen EXCEPT ![p] = IF file.kind = "missing" THEN "none" ELSE "now"]
  /\ phase' = [phase EXCEPT ![p] = "look"]
  /\ UNCHANGED <<shared, boot, held, sample, reset, history, receipts>>

Load(p) ==
  /\ phase[p] = "look"
  /\ \E f \in Readings : held' = [held EXCEPT ![p] = Held(f)]
  /\ phase' = [phase EXCEPT ![p] = "watch"]
  /\ UNCHANGED <<shared, boot, seen, sample, reset, history, receipts>>

\* start() finds no file that it has not seen.
NothingNew(p) ==
  /\ phase[p] = "boot" /\ ~Stale(p)
  /\ phase' = [phase EXCEPT ![p] = "watch"]
  /\ UNCHANGED <<shared, boot, held, seen, sample, reset, history, receipts>>

-----------------------------------------------------------------------------
(* A shadow thread: book the row, fold it, set DriftGuard.held.            *)

\* A replay has measured its request in the mode served now: rows of a held proxy are
\* lossless-only and never bet.
Book(t, p, loss) ==
  /\ pc[t] = "idle" /\ p \in Sampler /\ phase[p] = "watch" /\ ~held[p]
  /\ Len(ledger) < MaxRows
  /\ ledger' = Append(ledger, loss)
  /\ row' = [row EXCEPT ![t] = [proc |-> p, n |-> Len(ledger) + 1]]
  /\ pc' = [pc EXCEPT ![t] = "booked"]
  /\ UNCHANGED <<file, archived, lock, boot, guard, result, reset, history, receipts>>

\* fold(): load, bet and save under the file lock.
Fold(t) ==
  /\ pc[t] = "booked" /\ lock = NONE
  /\ \E f \in Readings, copied \in Copied, ok \in Written :
       LET s == LoadForWrite(f, copied)
           after == Bet(s, ledger[row[t].n])
       IN /\ Write(after, ok)
          /\ Count(row[t].n, ok /\ ~Tripped(s))
          /\ result' = [result EXCEPT ![t] = Held(after)]
          /\ IF TripsNow(s, after)
             THEN pc' = [pc EXCEPT ![t] = "receipt"] /\ lock' = t
             ELSE pc' = [pc EXCEPT ![t] = "folded"] /\ UNCHANGED lock
  /\ UNCHANGED <<archived, ledger, boot, phase, held, row, reset, spent, receipts>>

\* _trip_receipt, still under the lock.
Receipt(t) ==
  /\ pc[t] = "receipt"
  /\ receipts' = OneMore(receipts)
  /\ lock' = NONE
  /\ pc' = [pc EXCEPT ![t] = "folded"]
  /\ UNCHANGED <<file, archived, ledger, boot, guard, row, result, reset, history>>

\* observe(): the hold fold() returned is stored after its lock was released.
Store(t) ==
  /\ pc[t] = "folded"
  /\ held' = [held EXCEPT ![row[t].proc] = result[t]]
  /\ pc' = [pc EXCEPT ![t] = "idle"]
  /\ row' = [row EXCEPT ![t] = NONE]
  /\ result' = [result EXCEPT ![t] = FALSE]
  /\ UNCHANGED <<shared, boot, phase, seen, reset, history, receipts>>

-----------------------------------------------------------------------------
(* release(): archive the file, then write a fresh one.                    *)

\* The histories start over with the betting process.
NewProcess ==
  /\ receipts' = 0
  /\ bets' = [n \in 1..MaxRows |-> 0]
  /\ spent' = spent \cup {n \in 1..MaxRows : bets[n] > 0}

Archive ==
  /\ cli = "idle" /\ lock = NONE
  /\ lock' = CLI /\ cli' = "archived"
  /\ outcome' = "" /\ before' = Held(file)
  /\ IF file.kind = "missing" THEN UNCHANGED <<file, seen, archived>>
     ELSE Replace(Missing) /\ archived' = TRUE
  /\ NewProcess
  /\ UNCHANGED <<ledger, boot, phase, held, sample>>

\* The command's last step and what it reports.
Renew(ok) ==
  /\ cli = "archived"
  /\ Write(Fresh, ok)
  /\ outcome' = IF ok THEN "released" ELSE "failed"
  /\ cli' = "idle" /\ lock' = NONE
  /\ UNCHANGED <<archived, ledger, boot, phase, held, sample, before, history, receipts>>

-----------------------------------------------------------------------------
\* A proxy dies: its threads and its locks go with it.
Crash(p) ==
  LET hit == {t \in Thread : row[t] # NONE /\ row[t].proc = p}
  IN /\ CanCrash /\ phase[p] # "down"
     /\ phase' = [phase EXCEPT ![p] = "down"]
     /\ held' = [held EXCEPT ![p] = FALSE]
     /\ seen' = [seen EXCEPT ![p] = "none"]
     /\ pc' = [t \in Thread |-> IF t \in hit THEN "idle" ELSE pc[t]]
     /\ row' = [t \in Thread |-> IF t \in hit THEN NONE ELSE row[t]]
     /\ result' = [t \in Thread |-> result[t] /\ t \notin hit]
     /\ lock' = IF lock \in hit \cup {p} THEN NONE ELSE lock
     /\ UNCHANGED <<file, archived, ledger, boot, reset, history, receipts>>

\* The reset command is killed.
Kill ==
  /\ CanFail /\ cli = "archived"
  /\ cli' = "idle" /\ lock' = NONE
  /\ UNCHANGED <<file, archived, ledger, boot, guard, sample, outcome, before, history, receipts>>

\* The file becomes unreadable while nobody is writing it.
Damage ==
  /\ CanFail /\ lock = NONE /\ file.kind = "state"
  /\ Replace(Bad)
  /\ UNCHANGED <<archived, ledger, lock, boot, phase, held, sample, reset, history, receipts>>

\* distil is upgraded to another budget, or damage leaves JSON without this one.
Rebudget ==
  /\ CanFail /\ lock = NONE /\ file.kind = "state"
  /\ Replace(Other) /\ NewProcess
  /\ UNCHANGED <<archived, ledger, lock, boot, phase, held, sample, reset>>

Start(p) == StartAsIs(p) \/ StartFolding(p)

Refresh(p) == Look(p) \/ Load(p) \/ NothingNew(p)

Proceed(p) == FoldRow(p) \/ EndFolding(p) \/ StartReceipt(p) \/ Refresh(p)

Observe(t) == Fold(t) \/ Receipt(t) \/ Store(t)

\* What may befall the reset command and the file, where anything fails.
Mishap(m) ==
  \/ m = "killed" /\ Kill
  \/ m = "damaged" /\ Damage
  \/ m = "rebudgeted" /\ Rebudget

Mishaps == {m \in {"killed", "damaged", "rebudgeted"} : CanFail}

Next ==
  \/ \E p \in Proc : Start(p) \/ Proceed(p) \/ Crash(p)
  \/ \E t \in Thread : Observe(t) \/ \E p \in Proc, loss \in Loss : Book(t, p, loss)
  \/ Archive \/ (\E ok \in Written : Renew(ok))
  \/ \E m \in Mishaps : Mishap(m)

Spec == Init /\ [][Next]_vars

\* The operating system runs every thread, and the watcher polls for ever.
Fairness ==
  /\ \A p \in Proc : WF_vars(Proceed(p))
  /\ \A t \in Thread : WF_vars(Observe(t))
  /\ WF_vars(\E ok \in Written : Renew(ok))

FairSpec == Spec /\ Fairness

-----------------------------------------------------------------------------
(* Properties.                                                             *)

TypeOK ==
  /\ file \in File /\ mem \in File
  /\ archived \in BOOLEAN
  /\ ledger \in Seq(Loss) /\ Len(ledger) <= MaxRows
  /\ lock \in Proc \cup Thread \cup {CLI, NONE}
  /\ next \in 1..(MaxRows + 1) /\ upto \in 0..Len(ledger)
  /\ phase \in [Proc -> {"down", "folding", "receipt", "boot", "look", "watch"}]
  /\ held \in [Proc -> BOOLEAN]
  /\ seen \in [Proc -> {"none", "old", "now"}]
  /\ pc \in [Thread -> {"idle", "booked", "receipt", "folded"}]
  /\ row \in [Thread -> [proc : Proc, n : 1..MaxRows] \cup {NONE}]
  /\ result \in [Thread -> BOOLEAN]
  /\ cli \in {"idle", "archived"} /\ outcome \in {"", "released", "failed"}
  /\ before \in BOOLEAN
  /\ bets \in [1..MaxRows -> 0..2] /\ spent \subseteq 1..MaxRows /\ receipts \in 0..2

\* A hold in drift.json, a trip or an unreadable file, outlives every restart, migration,
\* failed write, quarantine and fold of another proxy.  Two things end it: the reset
\* command ("cleared only by release", doc of LiveDrift), and a file that is of another
\* budget, or too damaged to tell (LiveDrift.load starts over without a hold).
HoldSticks ==
  [][Held(file) /\ ~Held(file') => cli' = "archived" \/ file'.kind = "other"]_vars

\* No row of shadow.jsonl is bet twice, by two proxies, by a restart after the row was
\* folded, or after a release (docs of fold and _bootstrap).
NoRowTwice == \A n \in 1..MaxRows : bets[n] <= 1 /\ (n \in spent => bets[n] = 0)

\* A trip has one receipt, whichever proxies cross the threshold together and whoever
\* folds after it; a death between the write and the receipt can lose it (doc of fold).
TripReceipted ==
  /\ receipts <= 1
  /\ ~CanCrash /\ lock = NONE /\ Tripped(file) /\ file.current => receipts = 1

Running(p) == phase[p] \in {"boot", "look", "watch"}

\* A proxy that takes no samples itself notices another proxy's trip, and a release,
\* without a restart (doc of DriftGuard): once nobody runs the reset command any more, it
\* comes to see a hold that stays, and the end of one that stays ended.
WatchersNotice ==
  \A p \in Proc \ Sampler :
    /\ <>[](cli = "idle" /\ Held(file)) => <>[](Running(p) => held[p])
    /\ <>[](cli = "idle" /\ ~Held(file)) => <>[](Running(p) => ~held[p])

\* A release that reports a failure has not released the hold (doc of release).
FailedReleaseHolds ==
  [][outcome # "failed" /\ outcome' = "failed" /\ before => Held(file')]_vars
=============================================================================
