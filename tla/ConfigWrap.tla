----------------------------- MODULE ConfigWrap -----------------------------
(***************************************************************************)
(* The config file of an agent that `distil wrap` patches and restores:    *)
(* _own_config(), restore_stale_backups() and the registry of sessions in  *)
(* src/distil/config_wrap.py.  Every write of a file is a step of its own  *)
(* and a session may be killed between any two of them.  The lock is an    *)
(* advisory file lock that the system frees when its holder dies.          *)
(***************************************************************************)
EXTENDS Naturals, FiniteSets

CONSTANTS
  Session,   \* `distil wrap` processes
  Nobody,    \* no session
  MaxEdits   \* bound: times the user writes the config

ASSUME ConfigWrapAssumption == Nobody \notin Session /\ MaxEdits \in Nat

VARIABLES
  path,     \* the config file: the user's version of it and the session whose proxy it names
  backup,   \* <config>.distil-backup
  created,  \* <config>.distil-created: there was no file before
  reg,      \* the sessions with an entry in <config>.distil-sessions/
  regdir,   \* that directory exists
  lock,     \* <config>.distil-sessions.lock
  at,       \* where each session is
  user,     \* what the user last wrote
  clean     \* a session has ended by itself since one was killed

wrapVars == <<path, backup, created, reg, regdir, lock, at, user, clean>>

Absent == [v |-> 0, by |-> Nobody]
Live == {s \in Session : at[s] \notin {"new", "busy", "done", "dead"}}

WrapInit ==
  /\ path = Absent /\ backup = Absent /\ created = FALSE
  /\ reg = {} /\ regdir = FALSE /\ lock = Nobody
  /\ at = [s \in Session |-> "new"]
  /\ user = Absent /\ clean = TRUE

-----------------------------------------------------------------------------
\* Mutant: dead entries are not told from live ones.
PrunedToNothing(entries) == {{}}

\* _prune_dead_registrants: an entry stays when its process lives, or seems to because its
\* number was given to another process.
Pruned(entries) == {kept \in SUBSET entries : entries \cap Live \subseteq kept}

To(s, place) == at' = [at EXCEPT ![s] = place]

-----------------------------------------------------------------------------
(* restore_stale_backups(), at the start of every wrap.                    *)

\* _restore_one looks first, without the lock.
Look(s) ==
  /\ at[s] = "new"
  /\ To(s, IF backup # Absent \/ created \/ regdir THEN "sweep" ELSE "claim")
  /\ UNCHANGED <<path, backup, created, reg, regdir, lock, user, clean>>

\* A live session owns the path: nothing to sweep.
Sweep(s) ==
  /\ at[s] = "sweep" /\ lock = Nobody
  /\ \E kept \in Pruned(reg) :
       /\ reg' = kept
       /\ IF kept = {} THEN lock' = s /\ To(s, "restore") ELSE lock' = lock /\ To(s, "claim")
  /\ UNCHANGED <<path, backup, created, regdir, user, clean>>

\* The backup is moved over the config, or a file that was not there goes again.
Restore(s) ==
  /\ at[s] = "restore"
  /\ path' = IF backup # Absent THEN backup ELSE IF created THEN Absent ELSE path
  /\ backup' = Absent
  /\ To(s, IF backup = Absent /\ created THEN "unmark" ELSE "tidy")
  /\ UNCHANGED <<created, reg, regdir, lock, user, clean>>

Unmark(s) ==
  /\ at[s] = "unmark"
  /\ created' = FALSE
  /\ To(s, "tidy")
  /\ UNCHANGED <<path, backup, reg, regdir, lock, user, clean>>

Tidy(s) ==
  /\ at[s] = "tidy"
  /\ regdir' = (reg # {})
  /\ lock' = Nobody
  /\ To(s, "claim")
  /\ UNCHANGED <<path, backup, created, reg, user, clean>>

-----------------------------------------------------------------------------
(* _own_config().                                                          *)

\* A live session on the path: ConfigTargetBusy.  Otherwise the entry is made.
Claim(s) ==
  /\ at[s] = "claim" /\ lock = Nobody
  /\ \E kept \in Pruned(reg) :
       IF kept # {}
       THEN reg' = kept /\ To(s, "busy") /\ UNCHANGED <<regdir, lock>>
       ELSE reg' = {s} /\ To(s, "backup") /\ regdir' = TRUE /\ lock' = s
  /\ UNCHANGED <<path, backup, created, user, clean>>

\* Mutant: a backup that is there is written again.
BackUpAgain(s) ==
  /\ at[s] = "backup"
  /\ backup' = path
  /\ created' = (path = Absent)
  /\ To(s, "patch")
  /\ UNCHANGED <<path, reg, regdir, lock, user, clean>>

\* The true bytes are kept unless they are already.
BackUp(s) ==
  /\ at[s] = "backup"
  /\ IF backup = Absent /\ ~created
     THEN backup' = path /\ created' = (path = Absent)
     ELSE UNCHANGED <<backup, created>>
  /\ To(s, "patch")
  /\ UNCHANGED <<path, reg, regdir, lock, user, clean>>

\* render(); a file it cannot read ends the session as Kill does.
Patch(s) ==
  /\ at[s] = "patch"
  /\ path' = [path EXCEPT !.by = s]
  /\ lock' = Nobody
  /\ To(s, "run")
  /\ UNCHANGED <<backup, created, reg, regdir, user, clean>>

\* _release_session: the last one restores.
Release(s) ==
  /\ at[s] = "run" /\ lock = Nobody
  /\ \E kept \in Pruned(reg \ {s}) :
       /\ reg' = kept
       /\ regdir' = (regdir /\ kept # {})
       /\ IF kept = {}
          THEN lock' = s /\ To(s, "undo") /\ UNCHANGED clean
          ELSE To(s, "done") /\ clean' = TRUE /\ UNCHANGED lock
  /\ UNCHANGED <<path, backup, created, user>>

Undo(s) ==
  /\ at[s] = "undo"
  /\ path' = IF backup # Absent THEN backup ELSE IF created THEN Absent ELSE path
  /\ To(s, "forget")
  /\ UNCHANGED <<backup, created, reg, regdir, lock, user, clean>>

\* Mutant: the backup stays behind.
UnbackNot(s) ==
  /\ at[s] = "forget"
  /\ lock' = Nobody /\ clean' = TRUE
  /\ To(s, "done")
  /\ UNCHANGED <<path, backup, created, reg, regdir, user>>

\* What has been restored from goes.
Unback(s) ==
  /\ at[s] = "forget"
  /\ IF backup # Absent THEN backup' = Absent /\ UNCHANGED created
     ELSE created' = FALSE /\ UNCHANGED backup
  /\ lock' = Nobody /\ clean' = TRUE
  /\ To(s, "done")
  /\ UNCHANGED <<path, reg, regdir, user>>

-----------------------------------------------------------------------------
\* SIGKILL, power loss, or an error on the way in.
Kill(s) ==
  /\ s \in Live
  /\ To(s, "dead")
  /\ lock' = IF lock = s THEN Nobody ELSE lock
  /\ clean' = FALSE
  /\ UNCHANGED <<path, backup, created, reg, regdir, user>>

\* The user writes or removes the config while distil has left nothing beside it.
Write ==
  /\ lock = Nobody /\ backup = Absent /\ ~created /\ path.by = Nobody
  /\ user.v < MaxEdits
  /\ \E w \in {[v |-> user.v + 1, by |-> Nobody], Absent} : path' = w /\ user' = w
  /\ UNCHANGED <<backup, created, reg, regdir, lock, at, clean>>

WrapStep(s) ==
  \/ Look(s) \/ Sweep(s) \/ Restore(s) \/ Unmark(s) \/ Tidy(s)
  \/ Claim(s) \/ BackUp(s) \/ Patch(s) \/ Release(s) \/ Undo(s) \/ Unback(s) \/ Kill(s)

WrapNext == Write \/ \E s \in Session : WrapStep(s)

WrapSpec == WrapInit /\ [][WrapNext]_wrapVars

-----------------------------------------------------------------------------
(* Properties.                                                             *)

Wheres == {"new", "sweep", "restore", "unmark", "tidy", "claim", "backup", "patch", "run",
            "undo", "forget", "busy", "done", "dead"}
Inside == {"restore", "unmark", "tidy", "backup", "patch", "undo", "forget"}

WrapTypeOK ==
  /\ path \in [v : Nat, by : Session \cup {Nobody}]
  /\ backup \in [v : Nat, by : Session \cup {Nobody}]
  /\ user \in [v : Nat, by : {Nobody}]
  /\ created \in BOOLEAN /\ regdir \in BOOLEAN /\ clean \in BOOLEAN
  /\ reg \subseteq Session /\ lock \in Session \cup {Nobody}
  /\ at \in [Session -> Wheres]

\* "A crash at any point either leaves the config untouched or leaves
\* restore_stale_backups() exactly what it needs" (_own_config, config_wrap.py:554): the
\* backup is what the user wrote, the sentinel stands only for no file at all, and a
\* patched file has one of the two beside it.
Recoverable ==
  /\ backup # Absent => backup = user
  /\ backup = Absent /\ created => user = Absent
  /\ path = user \/ backup # Absent \/ created

\* A session that runs its agent finds its own proxy in the config until it ends, whoever
\* else starts, is refused, sweeps or dies (ConfigTargetBusy, _claim_session).
OwnPatch == \A s \in Session : at[s] = "run" => path.by = s

\* When the last session has ended by itself the config is what the user wrote and nothing
\* of distil is left beside it, whatever was killed before it (_release_session).
AsFound ==
  Live = {} /\ clean => path = user /\ backup = Absent /\ ~created
=============================================================================
