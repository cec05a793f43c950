------------------------------ MODULE Restore ------------------------------
(***************************************************************************)
(* One handle in the two stores of src/distil/mcp_server.py.  Proxies      *)
(* record the text a stub stands for in restore/ (record_restore), sweeps  *)
(* and expiry take the file away, distil_compress keeps its texts in       *)
(* mcp_store.json, and distil_expand looks in that one first.  Opening a   *)
(* file and writing it are two steps, and a write goes to the file that    *)
(* was opened, even if that has been unlinked since.                       *)
(***************************************************************************)
EXTENDS Integers, FiniteSets

CONSTANTS
  Text,      \* texts that have the handle: more than one is a collision of 32 bits
  Recorder,  \* threads of any process that record
  MaxUpsets  \* bound: sweeps, expiries, failed reads, opens and writes, deaths, compressions

ASSUME RestoreAssumption ==
  MaxUpsets \in Nat /\ Text \cap {"absent", "empty", "unreadable", "miss", "none"} = {}

VARIABLES
  blob,    \* restore/<handle>: which file it is, what it holds, whether it is past its TTL
  store,   \* what mcp_store.json has for the handle
  job,     \* what each recorder is doing
  stubs,   \* texts whose stub stands, recorded with the file open
  loose,   \* texts whose stub stands though no file could be opened
  told,    \* texts whose stub was given by distil_compress
  answer,  \* the last answer of distil_expand, and the text its stub stands for
  gone,    \* the file has been unlinked, expired or could not be read
  upsets   \* the bound's counter

stands == <<stubs, loose, told>>
restoreVars == <<blob, store, job, stands, answer, gone, upsets>>

Idler == [pc |-> "idle"]
File(ino, is) == [ino |-> ino, is |-> is, old |-> FALSE]
Unlinked == [blob EXCEPT !.is = "absent", !.old = FALSE]

RestoreInit ==
  /\ blob = File(0, "absent")
  /\ job = [w \in Recorder |-> Idler]
  /\ store = "absent" /\ stubs = {} /\ loose = {} /\ told = {}
  /\ answer = [asked |-> "none", got |-> "miss"]
  /\ gone = FALSE /\ upsets = 0

Upset == upsets < MaxUpsets /\ upsets' = upsets + 1

-----------------------------------------------------------------------------
(* record_restore().                                                       *)

StartRecord(w, t) ==
  /\ job[w].pc = "idle"
  /\ job' = [job EXCEPT ![w] = [pc |-> "open", t |-> t]]
  /\ UNCHANGED <<blob, store, stands, answer, gone, upsets>>

\* Mutant: looked for, and created later.
CreateLater(w) ==
  /\ job[w].pc = "open"
  /\ job' = [job EXCEPT ![w].pc = IF blob.is = "absent" THEN "rewrite" ELSE "compare"]
  /\ UNCHANGED <<blob, store, stands, answer, gone, upsets>>

\* Exclusive create: the first writer wins.
Create(w) ==
  /\ job[w].pc = "open"
  /\ IF blob.is = "absent"
     THEN /\ blob' = File(blob.ino + 1, "empty")
          /\ job' = [job EXCEPT ![w] = [pc |-> "write", t |-> @.t, ino |-> blob.ino + 1]]
     ELSE blob' = blob /\ job' = [job EXCEPT ![w].pc = "compare"]
  /\ UNCHANGED <<store, stands, answer, gone, upsets>>

\* No directory, or no file to be opened: the stub stands all the same.
OpenFails(w) ==
  /\ job[w].pc \in {"open", "rewrite"} /\ Upset
  /\ loose' = loose \cup {job[w].t}
  /\ job' = [job EXCEPT ![w] = Idler]
  /\ UNCHANGED <<blob, store, stubs, told, answer, gone>>

\* _live_restore_text: a file past its TTL goes as it is read; "" is a legacy plaintext.
Read == IF blob.old \/ blob.is \in {"absent", "unreadable"} THEN "miss" ELSE blob.is

\* Another text: a collision, no stub.  The same, or nothing to read: written again.
Compare(w) ==
  /\ job[w].pc = "compare"
  /\ job' = [job EXCEPT ![w] = IF Read \in {"miss", @.t} THEN [@ EXCEPT !.pc = "rewrite"] ELSE Idler]
  /\ blob' = IF blob.old THEN Unlinked ELSE blob
  /\ UNCHANGED <<store, stands, answer, gone, upsets>>

\* The file cannot be read just now, which is nothing to read.
CompareBlind(w) ==
  /\ job[w].pc = "compare" /\ blob.is # "absent" /\ ~blob.old /\ Upset
  /\ job' = [job EXCEPT ![w].pc = "rewrite"]
  /\ gone' = TRUE
  /\ UNCHANGED <<blob, store, stands, answer>>

\* open(p, "wb")
Truncate(w) ==
  /\ job[w].pc = "rewrite"
  /\ blob' = File(IF blob.is = "absent" THEN blob.ino + 1 ELSE blob.ino, "empty")
  /\ job' = [job EXCEPT ![w] = [pc |-> "write", t |-> @.t, ino |-> blob'.ino]]
  /\ UNCHANGED <<store, stands, answer, gone, upsets>>

WriteText(w) ==
  /\ job[w].pc = "write"
  /\ blob' = IF blob.ino = job[w].ino /\ blob.is # "absent" THEN File(blob.ino, job[w].t) ELSE blob
  /\ stubs' = stubs \cup {job[w].t}
  /\ job' = [job EXCEPT ![w] = Idler]
  /\ UNCHANGED <<store, loose, told, answer, gone, upsets>>

\* A write that fails leaves the file as it was opened, and the stub to the store in memory.
WriteFails(w) ==
  /\ job[w].pc = "write" /\ Upset
  /\ stubs' = stubs \cup {job[w].t}
  /\ job' = [job EXCEPT ![w] = Idler]
  /\ UNCHANGED <<blob, store, loose, told, answer, gone>>

RecorderDies(w) ==
  /\ job[w].pc # "idle" /\ Upset
  /\ job' = [job EXCEPT ![w] = Idler]
  /\ UNCHANGED <<blob, store, stands, answer, gone>>

-----------------------------------------------------------------------------
\* _sweep: past the cap, or the TTL.
SweepOut ==
  /\ blob.is # "absent" /\ Upset
  /\ blob' = Unlinked
  /\ gone' = TRUE
  /\ UNCHANGED <<store, job, stands, answer>>

\* Nobody has written it for DISTIL_RESTORE_TTL_DAYS.
Expire ==
  /\ blob.is # "absent" /\ ~blob.old /\ Upset
  /\ blob' = [blob EXCEPT !.old = TRUE]
  /\ gone' = TRUE
  /\ UNCHANGED <<store, job, stands, answer>>

\* The key was lost, or the file was cut short: it does not authenticate.
Spoil ==
  /\ blob.is \in Text /\ Upset
  /\ blob' = [blob EXCEPT !.is = "unreadable"]
  /\ gone' = TRUE
  /\ UNCHANGED <<store, job, stands, answer>>

\* distil_compress (_store_add) overwrites what the handle had; the stub stands even when the
\* store could not be saved.
StoreAdd(t) ==
  /\ Upset
  /\ told' = told \cup {t}
  /\ store' \in {t, store}
  /\ UNCHANGED <<blob, job, stubs, loose, answer, gone>>

\* distil_expand (_tool_expand): mcp_store.json first, which is empty where it cannot be read
\* and forgets the oldest handles, and then the file.
Expand(t) ==
  /\ t \in stubs \cup loose \cup told
  /\ \/ /\ store # "absent"
        /\ answer' = [asked |-> t, got |-> store] /\ blob' = blob
     \/ /\ answer' = [asked |-> t, got |-> Read]
        /\ blob' = IF blob.old THEN Unlinked ELSE blob
  /\ UNCHANGED <<store, job, stands, gone, upsets>>

RestoreNext ==
  \/ \E w \in Recorder :
       \/ \E t \in Text : StartRecord(w, t)
       \/ Create(w) \/ OpenFails(w) \/ Compare(w) \/ CompareBlind(w) \/ Truncate(w)
       \/ WriteText(w) \/ WriteFails(w) \/ RecorderDies(w)
  \/ SweepOut \/ Expire \/ Spoil
  \/ \E t \in Text : StoreAdd(t) \/ Expand(t)

RestoreSpec == RestoreInit /\ [][RestoreNext]_restoreVars

-----------------------------------------------------------------------------
(* Properties.                                                             *)

RestoreTypeOK ==
  /\ blob \in [ino : Nat, is : Text \cup {"absent", "empty", "unreadable"}, old : BOOLEAN]
  /\ job \in [Recorder -> {Idler} \cup [pc : {"open", "compare", "rewrite"}, t : Text]
                                \cup [pc : {"write"}, t : Text, ino : Nat]]
  /\ stubs \subseteq Text /\ loose \subseteq Text /\ told \subseteq Text
  /\ store \in Text \cup {"absent"} /\ gone \in BOOLEAN /\ upsets \in 0..MaxUpsets
  /\ answer \in [asked : Text \cup {"none"}, got : Text \cup {"miss", "empty"}]

\* "Keep the first writer; refuse the second" (record_restore): a stub that was recorded with
\* its file open is never expanded to another text, whoever records and writes at the same
\* time and whoever's open fails.  Not promised: for a stub whose file could not be opened (it
\* stands, and the handle is free for another text), after the file was swept, expired or not
\* readable (then it is free again), and once distil_compress was given another text of the
\* handle (_store_add overwrites and asks nobody).
NeverAnother ==
  \/ gone \/ ~(told \subseteq {answer.asked}) \/ answer.asked \notin stubs
  \/ answer.got \in {answer.asked, "miss", "empty"}

\* "Returns the original bytes as plain text ... An unknown, expired, or evicted handle returns
\* error" (the description of distil_expand): the text of the stub, or a miss.
ExpandExact == answer.got \in {answer.asked, "miss"}
=============================================================================
