---------------------------- MODULE AuditBudget ----------------------------
(***************************************************************************)
(* The daily cap of the compressor audit, Budget and Auditor.run() of      *)
(* src/distil/referee.py: samples of any process reserve an estimate in    *)
(* one file, replay three arms, and settle to what the provider reported.  *)
(* Every update is one critical section that ends in an atomic replace.    *)
(***************************************************************************)
EXTENDS Integers, FiniteSets

CONSTANTS
  Sample,    \* samples drawn by should_sample(), in any process
  Cap,       \* cap_usd, in arms
  Arms,      \* replays of one sample
  MaxDays,   \* bound: midnights
  MaxBreaks  \* bound: damage to the file, failed writes, deaths

ASSUME AuditAssumption ==
  /\ IsFiniteSet(Sample) /\ Cap \in Nat /\ Arms \in Nat \ {0} /\ MaxDays \in Nat /\ MaxBreaks \in Nat

VARIABLES
  file,      \* audit budget file: its day, what is spent and reserved; or unreadable
  today,
  smp,       \* the samples: where, begun on which day, arms answered, cost reported
  straddled, \* a sample begun on an earlier day was settled today
  breaks     \* the bound's counter

auditVars == <<file, today, smp, straddled, breaks>>

Est == Arms  \* estimate_usd of the arms: one unit for each
FreshDay == [day |-> today, spent |-> 0, reserved |-> 0, readable |-> TRUE]

AuditInit ==
  /\ today = 0
  /\ file = FreshDay
  /\ smp = [s \in Sample |-> [pc |-> "new", day |-> 0, arms |-> 0, paid |-> 0]]
  /\ straddled = FALSE /\ breaks = 0

-----------------------------------------------------------------------------
\* What _update hands to its function: an unreadable file counts as an exhausted day.
Books ==
  CASE ~file.readable -> [FreshDay EXCEPT !.spent = Cap]
    [] file.readable /\ file.day # today -> FreshDay
    [] OTHER -> file

Break == breaks < MaxBreaks /\ breaks' = breaks + 1

\* Mutant: open reservations do not count.
ReserveUnheld(s) ==
  /\ smp[s].pc = "new"
  /\ IF Books.spent + Est > Cap
     THEN file' = Books /\ smp' = [smp EXCEPT ![s].pc = "skipped"]
     ELSE /\ file' = [Books EXCEPT !.reserved = @ + Est]
          /\ smp' = [smp EXCEPT ![s].pc = "open", ![s].day = today]
  /\ UNCHANGED <<today, straddled, breaks>>

Reserve(s) ==
  /\ smp[s].pc = "new"
  /\ IF Books.spent + Books.reserved + Est > Cap
     THEN file' = Books /\ smp' = [smp EXCEPT ![s].pc = "skipped"]
     ELSE /\ file' = [Books EXCEPT !.reserved = @ + Est]
          /\ smp' = [smp EXCEPT ![s].pc = "open", ![s].day = today]
  /\ UNCHANGED <<today, straddled, breaks>>

\* The file cannot be written: no sample.
ReserveFails(s) ==
  /\ smp[s].pc = "new" /\ Break
  /\ smp' = [smp EXCEPT ![s].pc = "skipped"]
  /\ UNCHANGED <<file, today, straddled>>

\* An arm is answered: cached, as estimated, or dearer (cache writes, a long output).
Answered(s) ==
  /\ smp[s].pc = "open" /\ smp[s].arms < Arms
  /\ \E cost \in 0..2 : smp' = [smp EXCEPT ![s].arms = @ + 1, ![s].paid = @ + cost]
  /\ UNCHANGED <<file, today, straddled, breaks>>

\* After the last arm, or after one that failed.
Settle(s) ==
  /\ smp[s].pc = "open"
  /\ file' = [Books EXCEPT !.reserved = IF @ > Est THEN @ - Est ELSE 0, !.spent = @ + smp[s].paid]
  /\ smp' = [smp EXCEPT ![s].pc = "done"]
  /\ straddled' = (straddled \/ smp[s].day # today)
  /\ UNCHANGED <<today, breaks>>

\* The reservation stays until midnight.
SettleFails(s) ==
  /\ smp[s].pc = "open" /\ Break
  /\ smp' = [smp EXCEPT ![s].pc = "lost"]
  /\ UNCHANGED <<file, today, straddled>>

\* The process dies with the sample.
SampleDies(s) ==
  /\ smp[s].pc = "open" /\ Break
  /\ smp' = [smp EXCEPT ![s].pc = "lost"]
  /\ UNCHANGED <<file, today, straddled>>

\* The file on disk is damaged, from outside: its own writes are atomic.
Truncated ==
  /\ file.readable /\ Break
  /\ file' = [file EXCEPT !.readable = FALSE]
  /\ UNCHANGED <<today, smp, straddled>>

Midnight ==
  /\ today < MaxDays
  /\ today' = today + 1
  /\ straddled' = FALSE
  /\ UNCHANGED <<file, smp, breaks>>

AuditNext ==
  \/ \E s \in Sample :
       Reserve(s) \/ ReserveFails(s) \/ Answered(s) \/ Settle(s) \/ SettleFails(s) \/ SampleDies(s)
  \/ Truncated \/ Midnight

AuditSpec == AuditInit /\ [][AuditNext]_auditVars

-----------------------------------------------------------------------------
(* Properties.                                                             *)

AuditTypeOK ==
  /\ today \in 0..MaxDays /\ breaks \in 0..MaxBreaks /\ straddled \in BOOLEAN
  /\ file \in [day : 0..today, spent : Nat, reserved : Nat, readable : BOOLEAN]
  /\ smp \in [Sample -> [pc : {"new", "skipped", "open", "done", "lost"}, day : 0..today,
                         arms : 0..Arms, paid : Nat]]

\* What a sample holds of the cap: its estimate while it may still be charged, then its cost
\* up to the estimate.
Held(s) == IF smp[s].pc = "done" /\ smp[s].paid < Est THEN smp[s].paid ELSE Est

\* "No sample starts unless today's spend plus every open reservation plus its own estimate
\* fits under the cap" (Budget): the samples begun today fit, unit by unit, whatever died,
\* failed to be written or was truncated; a sample that is settled on a later day than it began
\* is excepted, since settle() then takes its estimate off the new day's reservations.
CapHolds ==
  straddled
  \/ Cardinality({u \in Sample \X (1..Est) :
                    /\ smp[u[1]].pc \in {"open", "done", "lost"} /\ smp[u[1]].day = today
                    /\ u[2] <= Held(u[1])}) <= Cap
=============================================================================
