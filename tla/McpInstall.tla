----------------------------- MODULE McpInstall -----------------------------
(***************************************************************************)
(* install() and uninstall() of src/distil/mcpproxy/install.py on one      *)
(* client's config: the entries are routed through distil, and an undo     *)
(* puts back the bytes that were there or takes only distil's entries out. *)
(* A command holds the locks of the config and of the records throughout,  *)
(* and may be killed or fail at any write; the user's editor knows no lock.*)
(***************************************************************************)
EXTENDS Naturals

CONSTANTS
  Entry,       \* the stdio servers of the config
  Content,     \* what else may be in the file
  NoFile,      \* no backup, no record
  MaxSaves,    \* bound: times the user writes the config or removes the backup
  MaxAborts    \* bound: commands that do not come to their end

ASSUME McpInstallAssumption == MaxSaves \in Nat /\ MaxAborts \in Nat /\ Entry # {}

\* The bytes of a config: content, entries routed through distil, whose layout.
Bytes == [text : Content, routed : SUBSET Entry, layout : {"user", "distil"}]

ASSUME NoFileAssumption == NoFile \notin Bytes

VARIABLES
  config,    \* the client's config file
  kept,      \* <config>.distil-mcp-backup
  record,    \* its entry of installs.json: sha256, backup_sha256, restorable
  command,   \* the command that runs: what it does next and has read
  replaced,  \* history: the files that installs have replaced
  saves, aborts

installVars == <<config, kept, record, command, replaced, saves, aborts>>

NoCommand == [next |-> "nothing", read |-> NoFile, backup |-> NoFile, restorable |-> FALSE]

InstallInit ==
  /\ config \in [text : Content, routed : {{}}, layout : {"user"}]
  /\ kept = NoFile /\ record = NoFile /\ command = NoCommand /\ replaced = {}
  /\ saves = 0 /\ aborts = 0

-----------------------------------------------------------------------------
\* _render, for a JSON config: the file is laid out anew.
Routed(b) == [b EXCEPT !.routed = Entry, !.layout = "distil"]
Unrouted(b) == [b EXCEPT !.routed = {}, !.layout = "distil"]

\* The backup is what stands before the bytes that distil wrote last.
Backed(b) == record # NoFile /\ record.sha = b /\ kept # NoFile

Turn(next) == command' = [command EXCEPT !.next = next]

\* install(): locks, reads, renders.  Nothing left to route: the file stays.
InstallReads ==
  /\ command = NoCommand /\ config.routed # Entry
  /\ command' = [next |-> IF Backed(config) THEN "route" ELSE "back up",
                 read |-> config,
                 backup |-> IF Backed(config) THEN record.backup ELSE config,
                 restorable |-> ~Backed(config) /\ config.routed = {}]
  /\ UNCHANGED <<config, kept, record, replaced, saves, aborts>>

InstallBacksUp ==
  /\ command.next = "back up"
  /\ kept' = command.read
  /\ Turn("route")
  /\ UNCHANGED <<config, record, replaced, saves, aborts>>

InstallRoutes ==
  /\ command.next = "route"
  /\ config' = Routed(command.read) /\ replaced' = replaced \cup {command.read}
  /\ Turn("record")
  /\ UNCHANGED <<kept, record, saves, aborts>>

InstallRecords ==
  /\ command.next = "record"
  /\ record' = [sha |-> Routed(command.read), backup |-> command.backup,
                restorable |-> command.restorable]
  /\ command' = NoCommand
  /\ UNCHANGED <<config, kept, replaced, saves, aborts>>

-----------------------------------------------------------------------------
\* Mutant: the backup is not compared with the record.
RestorableAnyBackup(b) ==
  record # NoFile /\ record.restorable /\ kept # NoFile /\ record.sha = b

\* The file is what the last install wrote and the backup is the clean file it found.
Restorable(b) ==
  record # NoFile /\ record.restorable /\ kept # NoFile /\ kept = record.backup /\ record.sha = b

\* uninstall(): locks, reads, decides.
UndoReads ==
  /\ command = NoCommand
  /\ Restorable(config) \/ config.routed # {} \/ record # NoFile
  /\ command' = [next |-> IF Restorable(config) THEN "restore"
                          ELSE IF config.routed # {} THEN "unroute" ELSE "forget",
                 read |-> config, backup |-> kept, restorable |-> FALSE]
  /\ UNCHANGED <<config, kept, record, replaced, saves, aborts>>

UndoRestores ==
  /\ command.next = "restore"
  /\ config' = command.backup
  /\ Turn("unback")
  /\ UNCHANGED <<kept, record, replaced, saves, aborts>>

UndoUnbacks ==
  /\ command.next = "unback"
  /\ kept' = NoFile
  /\ Turn("forget")
  /\ UNCHANGED <<config, record, replaced, saves, aborts>>

UndoUnroutes ==
  /\ command.next = "unroute"
  /\ config' = Unrouted(command.read)
  /\ IF record = NoFile THEN command' = NoCommand ELSE Turn("forget")
  /\ UNCHANGED <<kept, record, replaced, saves, aborts>>

UndoForgets ==
  /\ command.next = "forget"
  /\ record' = NoFile /\ command' = NoCommand
  /\ UNCHANGED <<config, kept, replaced, saves, aborts>>

-----------------------------------------------------------------------------
\* A kill, or a write that fails; a file is replaced whole or not at all.
Aborts ==
  /\ command # NoCommand /\ aborts < MaxAborts
  /\ command' = NoCommand /\ aborts' = aborts + 1
  /\ UNCHANGED <<config, kept, record, replaced, saves>>

\* The user saves anything, what was there once among it, or removes the backup between
\* two commands.
Saves ==
  /\ saves < MaxSaves /\ saves' = saves + 1
  /\ \/ config' \in Bytes /\ UNCHANGED kept
     \/ kept # NoFile /\ command = NoCommand /\ kept' = NoFile /\ UNCHANGED config
  /\ UNCHANGED <<record, command, replaced, aborts>>

InstallNext ==
  \/ InstallReads \/ InstallBacksUp \/ InstallRoutes \/ InstallRecords
  \/ UndoReads \/ UndoRestores \/ UndoUnbacks \/ UndoUnroutes \/ UndoForgets
  \/ Aborts \/ Saves

InstallSpec == InstallInit /\ [][InstallNext]_installVars

-----------------------------------------------------------------------------
(* Properties.                                                             *)

InstallTypeOK ==
  /\ config \in Bytes /\ kept \in Bytes \cup {NoFile} /\ replaced \subseteq Bytes
  /\ record \in [sha : Bytes, backup : Bytes, restorable : BOOLEAN] \cup {NoFile}
  /\ command \in [next : {"nothing", "back up", "route", "record",
                          "restore", "unback", "unroute", "forget"},
                  read : Bytes \cup {NoFile}, backup : Bytes \cup {NoFile},
                  restorable : BOOLEAN]
  /\ saves \in 0..MaxSaves /\ aborts \in 0..MaxAborts

\* An undo "can never put back a stale or half-wrapped file" (install, install.py:408-409),
\* whichever command was killed before it and whatever the user saved in between: a command
\* that finds the file as it read it changes none of the user's content, an undo leaves no
\* entry routed, and the bytes it restores are a file that an install replaced and whose
\* routing gives the bytes that stand there now.
ExactUndo ==
  [][command # NoCommand /\ command' # command /\ config' # config /\ config = command.read =>
       /\ config'.text = config.text
       /\ command.next \in {"restore", "unroute"} => config'.routed = {}
       /\ command.next = "restore" => config' \in replaced /\ Routed(config') = config]_installVars
=============================================================================
