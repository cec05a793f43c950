---------------------------- MODULE Setup_proofs ----------------------------
(***************************************************************************)
(* Proofs about ConfigWrap, for any number of sessions and of edits, and   *)
(* about McpInstall, for any entries, contents, saves and killed commands. *)
(***************************************************************************)
EXTENDS ConfigWrap, McpInstall, TLAPS

USE ConfigWrapAssumption

-----------------------------------------------------------------------------
(* The inductive invariant.                                                *)

Pristine == path = user /\ backup = Absent /\ ~created

\* Who is inside the critical section holds the lock.
Holder == \A s \in Session : at[s] \in Inside <=> lock = s

\* A session that has claimed the path is the only entry; who restores it has found no entry.
Entries ==
  \A s \in Session :
    /\ at[s] \in {"backup", "patch", "run"} => reg = {s}
    /\ at[s] \in {"restore", "unmark", "tidy", "undo", "forget"} => reg = {}

\* What the files are at each step of the critical section.
FilesOK ==
  /\ backup = Absent \/ ~created
  /\ \A s \in Session :
       /\ at[s] = "patch" => backup # Absent \/ created
       /\ at[s] = "unmark" => created
       /\ at[s] \in {"unmark", "forget"} => path = user
       /\ at[s] = "tidy" => Pristine

\* After a clean end only a session that is under way leaves traces.
Traces == clean => Pristine \/ \E s \in Session : at[s] \in {"patch", "run", "undo", "forget"}

WrapInv == WrapTypeOK /\ Holder /\ Entries /\ FilesOK /\ Traces /\ Recoverable /\ OwnPatch

-----------------------------------------------------------------------------
(* The steps.                                                              *)

LEMMA WrapInitHolds == WrapInit => WrapInv
  <1> SUFFICES ASSUME WrapInit PROVE WrapInv
    OBVIOUS
  <1>1. WrapTypeOK
    BY DEF WrapInit, WrapTypeOK, Wheres, Absent
  <1>2. Holder /\ Entries /\ OwnPatch
    BY DEF WrapInit, Holder, Entries, OwnPatch, Inside
  <1>3. FilesOK /\ Traces /\ Recoverable
    BY DEF WrapInit, FilesOK, Traces, Recoverable, Pristine
  <1>4. QED
    BY <1>1, <1>2, <1>3 DEF WrapInv

\* A look without the lock changes no file.
LEMMA LookStep ==
  ASSUME WrapInv, NEW s \in Session, Look(s)
  PROVE  WrapInv'
  <1>1. WrapTypeOK'
    BY DEF WrapInv, Look, To, WrapTypeOK, Wheres
  <1>2. Holder'
    BY DEF WrapInv, Look, To, Holder, Inside
  <1>3. Entries'
    BY DEF WrapInv, Look, To, Entries
  <1>4. FilesOK'
    BY DEF WrapInv, Look, To, FilesOK, Pristine
  <1>5. Traces'
    BY DEF WrapInv, Look, To, Traces, Pristine
  <1>6. Recoverable'
    BY DEF WrapInv, Look, Recoverable
  <1>7. OwnPatch'
    BY DEF WrapInv, Look, To, OwnPatch
  <1>8. QED
    BY <1>1, <1>2, <1>3, <1>4, <1>5, <1>6, <1>7 DEF WrapInv

\* A sweep enters the critical section only when no entry is left.
LEMMA SweepStep ==
  ASSUME WrapInv, NEW s \in Session, Sweep(s)
  PROVE  WrapInv'
  <1>1. WrapTypeOK'
    BY DEF WrapInv, Sweep, To, WrapTypeOK, Wheres, Pruned
  <1>2. Holder'
    BY DEF WrapInv, Sweep, To, WrapTypeOK, Holder, Inside
  <1>3. Entries'
    BY DEF WrapInv, Sweep, To, WrapTypeOK, Entries, Pruned, Live
  <1>4. FilesOK'
    BY DEF WrapInv, Sweep, To, WrapTypeOK, FilesOK, Holder, Inside
  <1>5. Traces'
    BY DEF WrapInv, Sweep, To, WrapTypeOK, Traces, Pristine
  <1>6. Recoverable'
    BY DEF WrapInv, Sweep, Recoverable
  <1>7. OwnPatch'
    BY DEF WrapInv, Sweep, To, WrapTypeOK, OwnPatch
  <1>8. QED
    BY <1>1, <1>2, <1>3, <1>4, <1>5, <1>6, <1>7 DEF WrapInv

\* What is moved back is what the user wrote, and with it goes the only trace.
LEMMA RestoreStep ==
  ASSUME WrapInv, NEW s \in Session, Restore(s)
  PROVE  WrapInv'
  <1>1. WrapTypeOK'
    BY DEF WrapInv, Restore, To, WrapTypeOK, Wheres, Absent
  <1>2. Holder'
    BY DEF WrapInv, Restore, To, Holder, Inside
  <1>3. Entries'
    BY DEF WrapInv, Restore, To, Entries
  <1>4. FilesOK'
    BY DEF WrapInv, Restore, To, FilesOK, Pristine, Holder, Inside, Recoverable
  <1>5. Traces'
    BY DEF WrapInv, Restore, Traces, Pristine, Holder, Inside, Entries
  <1>6. Recoverable'
    BY DEF WrapInv, Restore, Recoverable, FilesOK
  <1>7. OwnPatch'
    BY DEF WrapInv, Restore, To, OwnPatch, Entries
  <1>8. QED
    BY <1>1, <1>2, <1>3, <1>4, <1>5, <1>6, <1>7 DEF WrapInv

\* The sentinel goes last, when there is no file again.
LEMMA UnmarkStep ==
  ASSUME WrapInv, NEW s \in Session, Unmark(s)
  PROVE  WrapInv'
  <1>1. WrapTypeOK'
    BY DEF WrapInv, Unmark, To, WrapTypeOK, Wheres
  <1>2. Holder'
    BY DEF WrapInv, Unmark, To, Holder, Inside
  <1>3. Entries'
    BY DEF WrapInv, Unmark, To, Entries
  <1>4. FilesOK'
    BY DEF WrapInv, Unmark, To, WrapTypeOK, FilesOK, Pristine, Holder, Inside
  <1>5. Traces'
    BY DEF WrapInv, Unmark, Traces, Pristine, Holder, Inside, Entries
  <1>6. Recoverable'
    BY DEF WrapInv, Unmark, Recoverable, FilesOK
  <1>7. OwnPatch'
    BY DEF WrapInv, Unmark, To, OwnPatch
  <1>8. QED
    BY <1>1, <1>2, <1>3, <1>4, <1>5, <1>6, <1>7 DEF WrapInv

\* A sweep leaves the section with nothing of distil there.
LEMMA TidyStep ==
  ASSUME WrapInv, NEW s \in Session, Tidy(s)
  PROVE  WrapInv'
  <1>1. WrapTypeOK'
    BY DEF WrapInv, Tidy, To, WrapTypeOK, Wheres
  <1>2. Holder'
    BY DEF WrapInv, Tidy, To, WrapTypeOK, Holder, Inside
  <1>3. Entries'
    BY DEF WrapInv, Tidy, To, Entries
  <1>4. FilesOK'
    BY DEF WrapInv, Tidy, To, FilesOK, Pristine
  <1>5. Traces'
    BY DEF WrapInv, Tidy, Traces, Pristine, Holder, Inside, Entries
  <1>6. Recoverable'
    BY DEF WrapInv, Tidy, Recoverable
  <1>7. OwnPatch'
    BY DEF WrapInv, Tidy, To, OwnPatch
  <1>8. QED
    BY <1>1, <1>2, <1>3, <1>4, <1>5, <1>6, <1>7 DEF WrapInv

\* A claim enters the section as the only entry.
LEMMA ClaimStep ==
  ASSUME WrapInv, NEW s \in Session, Claim(s)
  PROVE  WrapInv'
  <1>0. reg' \subseteq Session /\ regdir' \in BOOLEAN /\ lock' \in Session \cup {Nobody}
    BY DEF WrapInv, WrapTypeOK, Claim, Pruned
  <1>1. WrapTypeOK'
    BY <1>0 DEF WrapInv, Claim, To, WrapTypeOK, Wheres
  <1>2. Holder'
    BY DEF WrapInv, Claim, To, WrapTypeOK, Holder, Inside
  <1>3. Entries'
    BY DEF WrapInv, Claim, To, WrapTypeOK, Entries, Holder, Inside, Pruned, Live
  <1>4. FilesOK'
    BY DEF WrapInv, Claim, To, WrapTypeOK, FilesOK, Holder, Inside
  <1>5. Traces'
    BY DEF WrapInv, Claim, To, WrapTypeOK, Traces, Pristine
  <1>6. Recoverable'
    BY DEF WrapInv, Claim, Recoverable
  <1>7. OwnPatch'
    BY DEF WrapInv, Claim, To, WrapTypeOK, OwnPatch
  <1>8. QED
    BY <1>1, <1>2, <1>3, <1>4, <1>5, <1>6, <1>7 DEF WrapInv

\* A backup is made only of a config that is the user's.
LEMMA BackUpStep ==
  ASSUME WrapInv, NEW s \in Session, BackUp(s)
  PROVE  WrapInv'
  <1>1. WrapTypeOK'
    BY DEF WrapInv, BackUp, To, WrapTypeOK, Wheres
  <1>2. Holder'
    BY DEF WrapInv, BackUp, To, Holder, Inside
  <1>3. Entries'
    BY DEF WrapInv, BackUp, To, Entries
  <1>4. FilesOK'
    BY DEF WrapInv, BackUp, To, WrapTypeOK, FilesOK, Holder, Inside
  <1>5. Traces'
    BY DEF WrapInv, BackUp, To, WrapTypeOK, Traces
  <1>6. Recoverable'
    BY DEF WrapInv, BackUp, Recoverable
  <1>7. OwnPatch'
    BY DEF WrapInv, BackUp, To, OwnPatch
  <1>8. QED
    BY <1>1, <1>2, <1>3, <1>4, <1>5, <1>6, <1>7 DEF WrapInv

\* The config is patched when one of the two stands beside it.
LEMMA PatchStep ==
  ASSUME WrapInv, NEW s \in Session, Patch(s)
  PROVE  WrapInv'
  <1>1. WrapTypeOK'
    BY DEF WrapInv, Patch, To, WrapTypeOK, Wheres
  <1>2. Holder'
    BY DEF WrapInv, Patch, To, WrapTypeOK, Holder, Inside
  <1>3. Entries'
    BY DEF WrapInv, Patch, To, Entries
  <1>4. FilesOK'
    BY DEF WrapInv, Patch, To, FilesOK, Holder, Inside
  <1>5. Traces'
    BY DEF Patch, To, Traces
  <1>6. Recoverable'
    BY DEF WrapInv, Patch, Recoverable, FilesOK
  <1>7. OwnPatch'
    BY DEF WrapInv, Patch, To, OwnPatch, Entries
  <1>8. QED
    BY <1>1, <1>2, <1>3, <1>4, <1>5, <1>6, <1>7 DEF WrapInv

\* One entry at a time is there, so who releases is the last and restores.
LEMMA ReleaseStep ==
  ASSUME WrapInv, NEW s \in Session, Release(s)
  PROVE  WrapInv'
  <1>0. /\ reg' = {} /\ regdir' \in BOOLEAN /\ lock' = s /\ To(s, "undo") /\ at[s] = "run" /\ lock = Nobody
        /\ UNCHANGED <<path, backup, created, user, clean>>
    BY DEF WrapInv, WrapTypeOK, Release, Entries, Pruned
  <1>1. WrapTypeOK'
    BY <1>0 DEF WrapInv, To, WrapTypeOK, Wheres
  <1>2. Holder'
    BY <1>0 DEF WrapInv, To, WrapTypeOK, Holder, Inside
  <1>3. Entries'
    BY <1>0 DEF WrapInv, To, WrapTypeOK, Entries
  <1>4. FilesOK'
    BY <1>0 DEF WrapInv, To, FilesOK, Holder, Inside
  <1>5. Traces'
    BY <1>0 DEF To, Traces
  <1>6. Recoverable'
    BY <1>0 DEF WrapInv, Recoverable
  <1>7. OwnPatch'
    BY <1>0 DEF WrapInv, To, OwnPatch
  <1>8. QED
    BY <1>1, <1>2, <1>3, <1>4, <1>5, <1>6, <1>7 DEF WrapInv

\* What is restored is what the user wrote.
LEMMA UndoStep ==
  ASSUME WrapInv, NEW s \in Session, Undo(s)
  PROVE  WrapInv'
  <1>1. WrapTypeOK'
    BY DEF WrapInv, Undo, To, WrapTypeOK, Wheres
  <1>2. Holder'
    BY DEF WrapInv, Undo, To, Holder, Inside
  <1>3. Entries'
    BY DEF WrapInv, Undo, To, Entries
  <1>4. FilesOK'
    BY DEF WrapInv, Undo, To, FilesOK, Holder, Inside, Recoverable
  <1>5. Traces'
    BY DEF Undo, To, Traces
  <1>6. Recoverable'
    BY DEF WrapInv, Undo, Recoverable
  <1>7. OwnPatch'
    BY DEF WrapInv, Undo, To, OwnPatch, Entries
  <1>8. QED
    BY <1>1, <1>2, <1>3, <1>4, <1>5, <1>6, <1>7 DEF WrapInv

\* The trace goes when the config is the user's again.
LEMMA UnbackStep ==
  ASSUME WrapInv, NEW s \in Session, Unback(s)
  PROVE  WrapInv'
  <1>0. /\ backup' = Absent /\ created' = FALSE /\ lock' = Nobody /\ clean' = TRUE /\ To(s, "done")
        /\ at[s] = "forget" /\ UNCHANGED <<path, reg, regdir, user>>
    BY DEF WrapInv, WrapTypeOK, Unback, FilesOK
  <1>1. WrapTypeOK'
    BY <1>0 DEF WrapInv, To, WrapTypeOK, Wheres, Absent
  <1>2. Holder'
    BY <1>0 DEF WrapInv, To, WrapTypeOK, Holder, Inside
  <1>3. Entries'
    BY <1>0 DEF WrapInv, To, Entries
  <1>4. FilesOK'
    BY <1>0 DEF WrapInv, To, FilesOK, Holder, Inside
  <1>5. Traces'
    BY <1>0 DEF WrapInv, Traces, Pristine, FilesOK
  <1>6. Recoverable'
    BY <1>0 DEF WrapInv, Recoverable, FilesOK
  <1>7. OwnPatch'
    BY <1>0 DEF WrapInv, To, OwnPatch
  <1>8. QED
    BY <1>1, <1>2, <1>3, <1>4, <1>5, <1>6, <1>7 DEF WrapInv

\* A death frees the lock, touches no file and ends the cleanness.
LEMMA KillStep ==
  ASSUME WrapInv, NEW s \in Session, Kill(s)
  PROVE  WrapInv'
  <1>1. WrapTypeOK'
    BY DEF WrapInv, Kill, To, WrapTypeOK, Wheres
  <1>2. Holder'
    BY DEF WrapInv, Kill, To, WrapTypeOK, Holder, Inside
  <1>3. Entries'
    BY DEF WrapInv, Kill, To, Entries
  <1>4. FilesOK'
    BY DEF WrapInv, Kill, To, FilesOK, Pristine
  <1>5. Traces'
    BY DEF Kill, Traces
  <1>6. Recoverable'
    BY DEF WrapInv, Kill, Recoverable
  <1>7. OwnPatch'
    BY DEF WrapInv, Kill, To, OwnPatch
  <1>8. QED
    BY <1>1, <1>2, <1>3, <1>4, <1>5, <1>6, <1>7 DEF WrapInv

\* The user writes only while nothing of distil is there, so no session is patching or running.
LEMMA WrapWriteStep ==
  ASSUME WrapInv, Write
  PROVE  WrapInv'
  <1>1. /\ backup' = Absent /\ created' = FALSE /\ path' = user'
        /\ UNCHANGED <<backup, created, reg, regdir, lock, at, clean>>
    BY DEF Write
  <1>2. \A s \in Session : at[s] \notin Inside /\ at[s] # "run"
    BY DEF WrapInv, WrapTypeOK, Write, Holder, OwnPatch
  <1>3. WrapTypeOK'
    BY <1>1 DEF WrapInv, WrapTypeOK, Write, Absent
  <1>4. Holder' /\ Entries' /\ OwnPatch'
    BY <1>1, <1>2 DEF WrapInv, Holder, Entries, OwnPatch
  <1>5. FilesOK' /\ Traces' /\ Recoverable'
    BY <1>1, <1>2 DEF FilesOK, Traces, Recoverable, Pristine, Inside
  <1>6. QED
    BY <1>3, <1>4, <1>5 DEF WrapInv

-----------------------------------------------------------------------------
(* The invariant is one, and what follows from it.                         *)

LEMMA WrapNextHolds == WrapInv /\ [WrapNext]_wrapVars => WrapInv'
  <1> SUFFICES ASSUME WrapInv, [WrapNext]_wrapVars PROVE WrapInv'
    OBVIOUS
  <1>1. CASE Write
    BY <1>1, WrapWriteStep
  <1>2. ASSUME NEW s \in Session, WrapStep(s)
        PROVE  WrapInv'
    BY <1>2, LookStep, SweepStep, RestoreStep, UnmarkStep, TidyStep, ClaimStep, BackUpStep,
       PatchStep, ReleaseStep, UndoStep, UnbackStep, KillStep DEF WrapStep
  <1>3. CASE UNCHANGED wrapVars
    BY <1>3 DEF wrapVars, WrapInv, WrapTypeOK, Holder, Entries, FilesOK, Traces, Pristine,
                Recoverable, OwnPatch
  <1>4. QED
    BY <1>1, <1>2, <1>3 DEF WrapNext

\* Every state that is reached satisfies the inductive invariant.
THEOREM WrapInvariance == WrapSpec => []WrapInv
  BY WrapInitHolds, WrapNextHolds, PTL DEF WrapSpec

\* Every variable of the wrap keeps its type.
THEOREM WrapTyped == WrapSpec => []WrapTypeOK
  <1>1. WrapInv => WrapTypeOK
    BY DEF WrapInv
  <1>2. QED
    BY <1>1, WrapInvariance, PTL

\* Wherever _own_config, _release_session or the sweep of any number of sessions is killed,
\* what the user wrote is in the config or can be restored beside it.
THEOREM WrapRecoverable == WrapSpec => []Recoverable
  <1>1. WrapInv => Recoverable
    BY DEF WrapInv
  <1>2. QED
    BY <1>1, WrapInvariance, PTL

\* No session that starts, is refused, sweeps or dies takes the config from one that runs.
THEOREM WrapOwnPatch == WrapSpec => []OwnPatch
  <1>1. WrapInv => OwnPatch
    BY DEF WrapInv
  <1>2. QED
    BY <1>1, WrapInvariance, PTL

\* After the last session has ended by itself the config is as the user wrote it.
THEOREM WrapAsFound == WrapSpec => []AsFound
  <1>1. WrapInv => AsFound
    BY DEF WrapInv, Traces, Pristine, AsFound, Live
  <1>2. QED
    BY <1>1, WrapInvariance, PTL
-----------------------------------------------------------------------------
(* McpInstall.  The record of an install tells what it wrote and over what; *)
(* a command carries what it has read until it writes.                      *)

\* What was recorded had been replaced; routing it gave the bytes that were written.
Recorded ==
  record # NoFile =>
    /\ record.sha = Routed(record.backup)
    /\ record.restorable => record.backup.routed = {} /\ record.backup \in replaced

\* An install that is under way backs up the very file it routes.
InstallHolds ==
  command.next \in {"back up", "route", "record"} =>
    /\ command.read \in Bytes
    /\ command.backup = command.read
    /\ command.restorable => command.read.routed = {}
    /\ command.next = "record" => command.read \in replaced

\* An undo that is to restore has a clean file that was replaced by what stands there now.
UndoHolds ==
  /\ command.next = "restore" =>
       /\ command.backup \in replaced /\ command.backup.routed = {}
       /\ Routed(command.backup) = command.read
  /\ command.next = "unroute" => command.read \in Bytes

InstallInv == InstallTypeOK /\ Recorded /\ InstallHolds /\ UndoHolds

\* The two renderings give a file of the same content, with all entries routed or none.
LEMMA Renderings ==
  ASSUME NEW b \in Bytes
  PROVE  /\ Routed(b) \in Bytes /\ Routed(b).routed = Entry /\ Routed(b).text = b.text
         /\ Unrouted(b) \in Bytes /\ Unrouted(b).routed = {} /\ Unrouted(b).text = b.text
  BY DEF Bytes, Routed, Unrouted

LEMMA InstallInitHolds == InstallInit => InstallInv
  <1> SUFFICES ASSUME InstallInit PROVE InstallInv
    OBVIOUS
  <1>1. config \in Bytes
    BY DEF InstallInit, Bytes
  <1>2. command.next = "nothing"
    BY DEF InstallInit, NoCommand
  <1>3. InstallTypeOK
    BY <1>1, McpInstallAssumption DEF InstallInit, InstallTypeOK, NoCommand
  <1>4. QED
    BY <1>2, <1>3 DEF InstallInit, InstallInv, Recorded, InstallHolds, UndoHolds

LEMMA InstallStepHolds == InstallInv /\ [InstallNext]_installVars => InstallInv'
  <1> SUFFICES ASSUME InstallInv, [InstallNext]_installVars PROVE InstallInv'
    OBVIOUS
  <1> USE NoFileAssumption, McpInstallAssumption
  \* A file that is not wholly routed is never the one that a record speaks of.
  <1>a. config.routed # Entry => ~Backed(config)
    <2>1. SUFFICES ASSUME Backed(config) PROVE config.routed = Entry
      OBVIOUS
    <2>2. record # NoFile /\ record.sha = config /\ record.backup \in Bytes
      BY <2>1 DEF InstallInv, InstallTypeOK, Backed
    <2>3. QED
      BY <2>2, Renderings DEF InstallInv, Recorded
  <1>1. CASE InstallReads
    <2>a. PICK fresh \in BOOLEAN : fresh = (~Backed(config) /\ config.routed = {})
      BY Zenon
    <2>1. /\ command' = [next |-> "back up", read |-> config, backup |-> config,
                         restorable |-> fresh]
          /\ fresh => config.routed = {}
      BY <1>1, <1>a, <2>a DEF InstallReads
    <2>2. InstallTypeOK /\ UNCHANGED <<config, kept, record, replaced, saves, aborts>>
      BY <1>1 DEF InstallInv, InstallReads
    <2>3. config \in Bytes
      BY <2>2 DEF InstallTypeOK
    <2>4. InstallTypeOK'
      BY <2>1, <2>2, <2>3 DEF InstallTypeOK
    <2>5. Recorded' /\ UndoHolds'
      BY <2>1, <2>2 DEF InstallInv, Recorded, UndoHolds
    <2>6. InstallHolds'
      BY <2>1, <2>3 DEF InstallHolds
    <2>7. QED
      BY <2>4, <2>5, <2>6 DEF InstallInv
  <1>2. CASE InstallBacksUp
    <2>1. command.read \in Bytes
      BY <1>2 DEF InstallInv, InstallBacksUp, InstallHolds
    <2>2. InstallTypeOK'
      BY <1>2, <2>1 DEF InstallInv, InstallBacksUp, InstallTypeOK, Turn
    <2>3. QED
      BY <1>2, <2>2 DEF InstallInv, InstallBacksUp, Turn, Recorded, InstallHolds, UndoHolds,
         InstallTypeOK
  <1>3. CASE InstallRoutes
    <2>1. command.read \in Bytes /\ Routed(command.read) \in Bytes
      BY <1>3, Renderings DEF InstallInv, InstallRoutes, InstallHolds
    <2>2. InstallTypeOK'
      BY <1>3, <2>1 DEF InstallInv, InstallRoutes, InstallTypeOK, Turn
    <2>3. QED
      BY <1>3, <2>2 DEF InstallInv, InstallRoutes, Turn, Recorded, InstallHolds, UndoHolds,
         InstallTypeOK
  <1>4. CASE InstallRecords
    <2>1. /\ command.read \in Bytes /\ Routed(command.read) \in Bytes
          /\ command.backup = command.read /\ command.read \in replaced
          /\ command.restorable => command.read.routed = {}
      BY <1>4, Renderings DEF InstallInv, InstallRecords, InstallHolds
    <2>2. InstallTypeOK'
      BY <1>4, <2>1 DEF InstallInv, InstallRecords, InstallTypeOK, NoCommand
    <2>3. Recorded'
      BY <1>4, <2>1 DEF InstallRecords, Recorded, Routed
    <2>4. QED
      BY <1>4, <2>2, <2>3 DEF InstallInv, InstallRecords, NoCommand, InstallHolds, UndoHolds
  <1>5. CASE UndoReads
    <2>1. Restorable(config) =>
            /\ kept \in replaced /\ kept.routed = {} /\ Routed(kept) = config
      BY DEF InstallInv, Restorable, Recorded
    <2>2. InstallTypeOK'
      BY <1>5 DEF InstallInv, UndoReads, InstallTypeOK
    <2>3. QED
      BY <1>5, <2>1, <2>2 DEF InstallInv, UndoReads, Recorded, InstallHolds, UndoHolds,
         InstallTypeOK
  <1>6. CASE UndoRestores
    <2>1. command.backup \in Bytes
      BY <1>6 DEF InstallInv, UndoRestores, UndoHolds, InstallTypeOK
    <2>2. InstallTypeOK'
      BY <1>6, <2>1 DEF InstallInv, UndoRestores, InstallTypeOK, Turn
    <2>3. QED
      BY <1>6, <2>2 DEF InstallInv, UndoRestores, Turn, Recorded, InstallHolds, UndoHolds,
         InstallTypeOK
  <1>7. CASE UndoUnbacks
    <2>2. InstallTypeOK'
      BY <1>7 DEF InstallInv, UndoUnbacks, InstallTypeOK, Turn
    <2>3. QED
      BY <1>7, <2>2 DEF InstallInv, UndoUnbacks, Turn, Recorded, InstallHolds, UndoHolds,
         InstallTypeOK
  <1>8. CASE UndoUnroutes
    <2>1. Unrouted(command.read) \in Bytes
      BY <1>8, Renderings DEF InstallInv, UndoUnroutes, UndoHolds
    <2>a. CASE record = NoFile
      <3>1. command' = NoCommand
        BY <1>8, <2>a DEF UndoUnroutes
      <3>2. InstallTypeOK' /\ command'.next = "nothing"
        BY <1>8, <2>1, <3>1 DEF InstallInv, UndoUnroutes, InstallTypeOK, NoCommand
      <3>3. QED
        BY <1>8, <3>2 DEF InstallInv, UndoUnroutes, Recorded, InstallHolds, UndoHolds
    <2>b. CASE record # NoFile
      <3>1. command' = [command EXCEPT !.next = "forget"]
        BY <1>8, <2>b DEF UndoUnroutes, Turn
      <3>2. InstallTypeOK' /\ command'.next = "forget"
        BY <1>8, <2>1, <3>1 DEF InstallInv, UndoUnroutes, InstallTypeOK
      <3>3. QED
        BY <1>8, <3>2 DEF InstallInv, UndoUnroutes, Recorded, InstallHolds, UndoHolds
    <2>4. QED
      BY <2>a, <2>b
  <1>9. CASE UndoForgets
    BY <1>9 DEF InstallInv, UndoForgets, NoCommand, InstallTypeOK, Recorded, InstallHolds,
       UndoHolds
  <1>10. CASE Aborts
    <2>a. aborts \in 0..MaxAborts /\ aborts < MaxAborts /\ aborts' = aborts + 1
      BY <1>10, Zenon DEF InstallInv, Aborts, InstallTypeOK
    <2>1. aborts' \in 0..MaxAborts
      BY <2>a
    <2>2. InstallTypeOK' /\ command'.next = "nothing"
      BY <1>10, <2>1 DEF InstallInv, Aborts, NoCommand, InstallTypeOK
    <2>3. QED
      BY <1>10, <2>2 DEF InstallInv, Aborts, Recorded, InstallHolds, UndoHolds
  <1>11. CASE Saves
    <2>a. saves \in 0..MaxSaves /\ saves < MaxSaves /\ saves' = saves + 1
      BY <1>11, Zenon DEF InstallInv, Saves, InstallTypeOK
    <2>1. saves' \in 0..MaxSaves
      BY <2>a
    <2>2. config' \in Bytes /\ kept' \in Bytes \cup {NoFile}
      BY <1>11 DEF InstallInv, Saves, InstallTypeOK
    <2>3. InstallTypeOK'
      BY <1>11, <2>1, <2>2 DEF InstallInv, Saves, InstallTypeOK
    <2>4. QED
      BY <1>11, <2>3 DEF InstallInv, Saves, Recorded, InstallHolds, UndoHolds
  <1>12. CASE UNCHANGED installVars
    BY <1>12 DEF InstallInv, installVars, InstallTypeOK, Recorded, InstallHolds, UndoHolds
  <1>13. QED
    BY <1>1, <1>2, <1>3, <1>4, <1>5, <1>6, <1>7, <1>8, <1>9, <1>10, <1>11, <1>12
       DEF InstallNext

\* What a command that finds the file as it read it does to the file.
LEMMA CommandWrites ==
  ASSUME InstallInv, [InstallNext]_installVars,
         command # NoCommand, command' # command, config' # config, config = command.read
  PROVE  /\ config'.text = config.text
         /\ command.next \in {"restore", "unroute"} => config'.routed = {}
         /\ command.next = "restore" => config' \in replaced /\ Routed(config') = config
  <1>1. config \in Bytes
    BY DEF InstallInv, InstallTypeOK
  <1>2. InstallRoutes \/ UndoRestores \/ UndoUnroutes
    BY DEF InstallNext, installVars, InstallReads, InstallBacksUp, InstallRecords, UndoReads,
       UndoUnbacks, UndoForgets, Aborts, Saves
  <1>3. CASE InstallRoutes
    BY <1>1, <1>3, Renderings DEF InstallRoutes
  <1>4. CASE UndoUnroutes
    BY <1>1, <1>4, Renderings DEF UndoUnroutes
  <1>5. CASE UndoRestores
    <2>1. /\ config' = command.backup /\ command.next = "restore"
          /\ command.backup \in replaced /\ command.backup.routed = {}
          /\ Routed(command.backup) = config /\ command.backup \in Bytes
      BY <1>5 DEF InstallInv, UndoRestores, UndoHolds, InstallTypeOK
    <2>2. config.text = config'.text
      BY <2>1, Renderings
    <2>3. QED
      BY <2>1, <2>2
  <1>6. QED
    BY <1>2, <1>3, <1>4, <1>5

-----------------------------------------------------------------------------
\* The record and the commands agree with the files, whatever the user saves and
\* whichever command is killed.
THEOREM InstallInvariant == InstallSpec => []InstallInv
  BY InstallInitHolds, InstallStepHolds, PTL DEF InstallSpec

\* "can never put back a stale or half-wrapped file" (install.py:408-409): what an undo
\* restores is a clean file an install replaced, that routes to what stands there, and no
\* command changes the user's content of the file it read.
THEOREM UndoIsExact == InstallSpec => ExactUndo
  <1>1. InstallInv /\ [InstallNext]_installVars =>
          [command # NoCommand /\ command' # command /\ config' # config
             /\ config = command.read =>
             /\ config'.text = config.text
             /\ command.next \in {"restore", "unroute"} => config'.routed = {}
             /\ command.next = "restore" =>
                  config' \in replaced /\ Routed(config') = config]_installVars
    BY CommandWrites
  <1>2. QED
    BY <1>1, InstallInvariant, PTL DEF InstallSpec, ExactUndo
=============================================================================
