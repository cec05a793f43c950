---------------------------- MODULE GatewayQuota ----------------------------
(***************************************************************************)
(* _RateLimiter.check_daily_tokens() of src/distil/gateway.py: the tokens  *)
(* of one tenant that a day admits.  A handler thread reads the day before *)
(* it takes the lock.                                                      *)
(***************************************************************************)
EXTENDS Naturals

CONSTANTS
  Asker,     \* handler threads with a request of the tenant
  Quota,     \* limit
  Sizes,     \* tokens a request may have
  MaxDay     \* bound: days that pass

ASSUME GatewayQuotaAssumption == Quota \in Nat /\ Sizes \subseteq Nat /\ MaxDay \in Nat

VARIABLES
  clockDay,  \* the clock's day
  used,      \* _daily: the tokens and the day they count for
  asks,      \* what each thread has read and wants
  admitted,  \* history: tokens let through, by the day their thread read
  late       \* history: charges made after the day they were dated

quotaVars == <<clockDay, used, asks, admitted, late>>

QuotaInit ==
  /\ clockDay = 0 /\ used = [tokens |-> 0, day |-> 0]
  /\ asks = [a \in Asker |-> [at |-> "new", day |-> 0, size |-> 0]]
  /\ admitted = [d \in 0..MaxDay |-> 0] /\ late = 0

\* The day is read without the lock.
ReadsDay(a) ==
  /\ asks[a].at = "new"
  /\ \E n \in Sizes : asks' = [asks EXCEPT ![a] = [at |-> "dated", day |-> clockDay, size |-> n]]
  /\ UNCHANGED <<clockDay, used, admitted, late>>

\* Mutant: the day of the count is not looked at before it is added to.
UsedOnceFull(a) == IF used.tokens >= Quota THEN 0 ELSE used.tokens

\* Another day than the count's: it starts at nothing.
UsedOn(a) == IF used.day # asks[a].day THEN 0 ELSE used.tokens

Charges(a) ==
  /\ asks[a].at = "dated" /\ UsedOn(a) + asks[a].size <= Quota
  /\ used' = [tokens |-> UsedOn(a) + asks[a].size, day |-> asks[a].day]
  /\ asks' = [asks EXCEPT ![a].at = "admitted"]
  /\ admitted' = [admitted EXCEPT ![asks[a].day] = @ + asks[a].size]
  /\ late' = IF asks[a].day # clockDay THEN late + 1 ELSE late
  /\ UNCHANGED clockDay

\* 429.
Rejects(a) ==
  /\ asks[a].at = "dated" /\ UsedOn(a) + asks[a].size > Quota
  /\ asks' = [asks EXCEPT ![a].at = "rejected"]
  /\ UNCHANGED <<clockDay, used, admitted, late>>

DayPasses ==
  /\ clockDay < MaxDay
  /\ clockDay' = clockDay + 1
  /\ UNCHANGED <<used, asks, admitted, late>>

QuotaNext == DayPasses \/ \E a \in Asker : ReadsDay(a) \/ Charges(a) \/ Rejects(a)

QuotaSpec == QuotaInit /\ [][QuotaNext]_quotaVars

-----------------------------------------------------------------------------
(* Properties.                                                             *)

QuotaTypeOK ==
  /\ clockDay \in 0..MaxDay /\ late \in Nat
  /\ used \in [tokens : Nat, day : 0..MaxDay]
  /\ asks \in [Asker -> [at : {"new", "dated", "admitted", "rejected"}, day : 0..MaxDay, size : Nat]]
  /\ admitted \in [0..MaxDay -> Nat]

\* "adding tokens stays within limit for today" (check_daily_tokens, gateway.py:195), and
\* what the unlocked read of the day costs: a charge dated the day before that gets the lock
\* after midnight takes the count back to its own day, so each may start the new day's
\* count, or its own, once more.
DayCap == \A d \in 0..MaxDay : admitted[d] <= (1 + late) * Quota
=============================================================================
