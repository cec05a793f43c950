---------------------------- MODULE GatewayState ----------------------------
(***************************************************************************)
(* GatewayState of src/distil/gateway.py: the counters of the tenants, the *)
(* checkpoint a handler thread may write, the save at the end and the load *)
(* at the start.  All saves use one temporary name, and a rename takes     *)
(* away the file that another thread still has open.                       *)
(***************************************************************************)
EXTENDS Naturals, FiniteSets

CONSTANTS
  Handler,     \* handler threads
  Main,        \* the thread that serves and saves at the end
  NoHandle,    \* the name is of no file
  MaxCounted,  \* bound: requests counted
  MaxMishaps   \* bound: kills and failed writes

ASSUME GatewayStateAssumption ==
  /\ IsFiniteSet(Handler) /\ Main \notin Handler /\ NoHandle \notin Nat
  /\ MaxCounted \in Nat /\ MaxMishaps \in Nat

Saver == Handler \cup {Main}
Handles == 1..(Cardinality(Saver) + 2)

VARIABLES
  counted,   \* the counters in memory
  interval,  \* _CHECKPOINT_SECS have passed since _last_save
  doing,     \* where each thread is
  snap,      \* what each thread is about to write
  open,      \* the file each thread has open
  names,     \* the file that has the temporary name and the one that has the state's
  files,     \* what is in them
  saved,     \* history: what the last save put in place
  lone,      \* history: no save was under way when the last one opened its file
  mixed,     \* history: saves have overlapped, and none has run alone since
  mishaps

stateVars == <<counted, interval, doing, snap, open, names, files, saved, lone, mixed, mishaps>>

Blank == [n |-> 0, is |-> "blank"]
Whole(n) == [n |-> n, is |-> "whole"]
Torn == [n |-> 0, is |-> "torn"]

StateInit ==
  /\ counted = 0 /\ interval = FALSE
  /\ doing = [s \in Saver |-> "idle"] /\ snap = [s \in Saver |-> 0]
  /\ open = [s \in Saver |-> NoHandle]
  /\ names = [tmp |-> NoHandle, state |-> NoHandle]
  /\ files = [h \in Handles |-> Blank]
  /\ saved = 0 /\ lone = TRUE /\ mixed = FALSE /\ mishaps = 0

Saving == {s \in Saver : doing[s] \in {"writing", "renaming"}}
GoesTo(s, place) == doing' = [doing EXCEPT ![s] = place]
SaveOver(s) == GoesTo(s, IF s = Main THEN "stopped" ELSE "idle")

-----------------------------------------------------------------------------
\* record_quota_rejection(), under the lock; it writes no checkpoint.
CountsRejection(s) ==
  /\ s \in Handler /\ doing[s] = "idle" /\ counted < MaxCounted
  /\ counted' = counted + 1
  /\ UNCHANGED <<interval, doing, snap, open, names, files, saved, lone, mixed, mishaps>>

\* record(), under the lock.
Counts(s) ==
  /\ s \in Handler /\ doing[s] = "idle" /\ counted < MaxCounted
  /\ counted' = counted + 1
  /\ GoesTo(s, "looking")
  /\ UNCHANGED <<interval, snap, open, names, files, saved, lone, mixed, mishaps>>

\* The time of the last save is read, and written, without the lock.
Looks(s) ==
  /\ doing[s] = "looking"
  /\ GoesTo(s, IF interval THEN "claiming" ELSE "idle")
  /\ UNCHANGED <<counted, interval, snap, open, names, files, saved, lone, mixed, mishaps>>

Claims(s) ==
  /\ doing[s] = "claiming"
  /\ interval' = FALSE
  /\ GoesTo(s, "saving")
  /\ UNCHANGED <<counted, snap, open, names, files, saved, lone, mixed, mishaps>>

-----------------------------------------------------------------------------
(* save().                                                                 *)

Snapshots(s) ==
  /\ doing[s] = "saving"
  /\ snap' = [snap EXCEPT ![s] = counted]
  /\ GoesTo(s, "opening")
  /\ UNCHANGED <<counted, interval, open, names, files, saved, lone, mixed, mishaps>>

Unused == CHOOSE h \in Handles : h \notin {names.tmp, names.state} \cup {open[s] : s \in Saver}

\* Mutant: the state file is written in place.
OpensState(s) ==
  LET h == IF names.state = NoHandle THEN Unused ELSE names.state
  IN /\ doing[s] = "opening"
     /\ names' = [tmp |-> h, state |-> h] /\ open' = [open EXCEPT ![s] = h]
     /\ files' = [files EXCEPT ![h] = Blank]
     /\ GoesTo(s, "writing")
     /\ lone' = (Saving = {}) /\ mixed' = (mixed \/ Saving # {})
     /\ UNCHANGED <<counted, interval, snap, saved, mishaps>>

\* write_text on the temporary name, first half: what is there is cut to nothing.
OpensTemp(s) ==
  LET h == IF names.tmp = NoHandle THEN Unused ELSE names.tmp
  IN /\ doing[s] = "opening"
     /\ names' = [names EXCEPT !.tmp = h] /\ open' = [open EXCEPT ![s] = h]
     /\ files' = [files EXCEPT ![h] = Blank]
     /\ GoesTo(s, "writing")
     /\ lone' = (Saving = {}) /\ mixed' = (mixed \/ Saving # {})
     /\ UNCHANGED <<counted, interval, snap, saved, mishaps>>

\* What another thread wrote meanwhile may be longer and stick out at the end.
Overlaid(old, n) ==
  IF old.is = "blank" \/ (old.is = "whole" /\ old.n <= n) THEN {Whole(n)} ELSE {Whole(n), Torn}

WritesTemp(s) ==
  /\ doing[s] = "writing"
  /\ \E f \in Overlaid(files[open[s]], snap[s]) : files' = [files EXCEPT ![open[s]] = f]
  /\ open' = [open EXCEPT ![s] = NoHandle]
  /\ GoesTo(s, "renaming")
  /\ UNCHANGED <<counted, interval, snap, names, saved, lone, mixed, mishaps>>

\* Swallowed: the save is over.
WriteErrs(s) ==
  /\ doing[s] = "writing" /\ mishaps < MaxMishaps
  /\ files' = [files EXCEPT ![open[s]] = Torn]
  /\ open' = [open EXCEPT ![s] = NoHandle]
  /\ SaveOver(s)
  /\ mishaps' = mishaps + 1
  /\ UNCHANGED <<counted, interval, snap, names, saved, lone, mixed>>

\* replace_retrying; a name that is gone is an error, swallowed too.  A file that has
\* neither a name nor an open handle any more is as good as blank.
Renames(s) ==
  /\ doing[s] = "renaming"
  /\ IF names.tmp = NoHandle THEN UNCHANGED <<names, files, saved, mixed>>
     ELSE /\ names' = [tmp |-> NoHandle, state |-> names.tmp]
          /\ files' = [h \in Handles |-> IF h = names.tmp \/ \E t \in Saver : open[t] = h
                                        THEN files[h] ELSE Blank]
          /\ saved' = snap[s]
          /\ mixed' = (mixed /\ ~lone)
  /\ SaveOver(s)
  /\ UNCHANGED <<counted, interval, snap, open, lone, mishaps>>

-----------------------------------------------------------------------------
\* serve_gateway: the loop ends and the main thread saves; the handlers are daemons.
Stops ==
  /\ doing[Main] = "idle"
  /\ GoesTo(Main, "saving")
  /\ UNCHANGED <<counted, interval, snap, open, names, files, saved, lone, mixed, mishaps>>

\* load(): a file that cannot be read leaves the counters at nothing.
OnDisk == IF names.state # NoHandle /\ files[names.state].is = "whole" THEN files[names.state].n ELSE 0

\* The process is killed, or its last save is over, and the next one starts.
Restarts ==
  /\ \/ doing[Main] = "stopped" /\ UNCHANGED mishaps
     \/ doing[Main] # "stopped" /\ mishaps < MaxMishaps /\ mishaps' = mishaps + 1
  /\ counted' = OnDisk
  /\ interval' = FALSE
  /\ doing' = [s \in Saver |-> "idle"] /\ open' = [s \in Saver |-> NoHandle]
  /\ snap' = [s \in Saver |-> 0]
  /\ UNCHANGED <<names, files, saved, lone, mixed>>

\* _CHECKPOINT_SECS since the last save.
TimeGoesBy ==
  /\ ~interval /\ interval' = TRUE
  /\ UNCHANGED <<counted, doing, snap, open, names, files, saved, lone, mixed, mishaps>>

StateNext ==
  \/ Stops \/ Restarts \/ TimeGoesBy
  \/ \E s \in Saver : \/ Counts(s) \/ CountsRejection(s) \/ Looks(s) \/ Claims(s) \/ Snapshots(s)
                      \/ OpensTemp(s) \/ WritesTemp(s) \/ WriteErrs(s) \/ Renames(s)

StateSpec == StateInit /\ [][StateNext]_stateVars

-----------------------------------------------------------------------------
(* Properties.                                                             *)

StateTypeOK ==
  /\ {interval, lone, mixed} \subseteq BOOLEAN
  /\ doing \in [Saver -> {"idle", "looking", "claiming", "saving", "opening", "writing", "renaming",
                       "stopped"}]
  /\ snap \in [Saver -> 0..MaxCounted] /\ {counted, saved} \subseteq 0..MaxCounted
  /\ open \in [Saver -> Handles \cup {NoHandle}]
  /\ names \in [tmp : Handles \cup {NoHandle}, state : Handles \cup {NoHandle}]
  /\ files \in [Handles -> [n : 0..MaxCounted, is : {"blank", "whole", "torn"}]]
  /\ mishaps \in 0..MaxMishaps

\* "Atomically persist per-tenant counters" (save, gateway.py:264): wherever the process is
\* killed and whatever write fails, the next one finds what the last save put in place.  Not
\* so from two saves that overlap, which write one temporary file, to the next that runs alone.
AccountsKept == ~mixed => OnDisk = saved
=============================================================================
