----------------------------- MODULE ThinkGuard -----------------------------
(***************************************************************************)
(* The preserved-thinking guard, src/distil/thinkguard.py.  A thinking     *)
(* block is valid only over the prefix it was produced after, so the guard *)
(* records, per request, the prefix that went out and drops every block    *)
(* whose prefix distil has changed since.  Its tables live in the memory   *)
(* of each worker and in one journal all workers append to, with a lock    *)
(* per process and none between them.                                      *)
(*                                                                         *)
(* A prefix hash is the prefix itself.  A line of the journal is one unit  *)
(* of offset, whatever its length: an offset that is off by a peer's line  *)
(* skips that line, where the code may also read a half one and skip both. *)
(* The tables' caps (50,000 records) are never reached.                    *)
(***************************************************************************)
EXTENDS Integers, Sequences, FiniteSets, SequencesExt

CONSTANTS
  Proc,     \* worker processes
  Slack,    \* _SLACK: superseded lines tolerated before the journal is rewritten
  NoBlock   \* no thinking block

VARIABLES
  journal,  \* thinkguard.jsonl
  off,      \* _FILE["off"] of each process
  lines,    \* _FILE["lines"]
  known,    \* the tables of each process: blk is _BLOCKS, asked _REQS, out _DROPPED
  lost      \* a record is missing somewhere: a write failed, an offset jumped over a peer's
            \* lines, a rewrite left them out or moved the lines under a peer's offset, or
            \* a request nobody waits for wrote over the record of the one that answered

guardVars == <<journal, off, lines, known, lost>>

Nothing == [blk |-> << >>, asked |-> << >>, out |-> {}]

-----------------------------------------------------------------------------
(* Tables.                                                                 *)

\* A line of the journal: a block's production record, a request's, or a block that is out.
BlockLine(b, rec) == [t |-> "e", key |-> b, rec |-> rec]
AskedLine(o, rec) == [t |-> "r", key |-> o, rec |-> rec]
OutLine(b) == [t |-> "d", key |-> b]

\* What lines of one kind are about, and the last one about a key.
Keys(recs, t) == {recs[i].key : i \in {i \in DOMAIN recs : recs[i].t = t}}
LastOf(recs, t, key) == recs[Max({i \in DOMAIN recs : recs[i].t = t /\ recs[i].key = key})].rec

Updated(table, recs, t) ==
  [key \in DOMAIN table \cup Keys(recs, t) |->
     IF key \in Keys(recs, t) THEN LastOf(recs, t, key) ELSE table[key]]

\* _apply_line, line after line: a later record replaces an earlier one.
ApplyAll(t, recs) ==
  [blk |-> Updated(t.blk, recs, "e"), asked |-> Updated(t.asked, recs, "r"),
   out |-> t.out \cup Keys(recs, "d")]

\* What _sync() reads: nothing when the file is no longer than the offset.
Unread(p) == SubSeq(journal, off[p] + 1, Len(journal))

\* _compact: the tables as lines.
TableSize(t) == Cardinality(DOMAIN t.blk) + Cardinality(DOMAIN t.asked) + Cardinality(t.out)
Dump(t) ==
     SetToSeq({OutLine(b) : b \in t.out})
  \o SetToSeq({AskedLine(o, t.asked[o]) : o \in DOMAIN t.asked})
  \o SetToSeq({BlockLine(b, t.blk[b]) : b \in DOMAIN t.blk})

-----------------------------------------------------------------------------
(* Steps on the tables, taken with the lock of process p held.             *)

GuardInit ==
  /\ journal = << >> /\ lost = FALSE
  /\ off = [p \in Proc |-> 0] /\ lines = [p \in Proc |-> 0]
  /\ known = [p \in Proc |-> Nothing]

\* _sync: fold in what peers appended.
Sync(p) ==
  /\ known' = [known EXCEPT ![p] = ApplyAll(@, Unread(p))]
  /\ lines' = [lines EXCEPT ![p] = @ + Len(Unread(p))]
  /\ off' = [off EXCEPT ![p] = IF Len(journal) > @ THEN Len(journal) ELSE @]

\* _append: apply in memory, append to the file, and count the own lines only.  Too many
\* superseded lines: the file is replaced by what this process knows.
Persist(p, recs, late) ==
  LET t == ApplyAll(known[p], recs)
      n == lines[p] + Len(recs)
      full == n > 2 * TableSize(t) + Slack
  IN /\ known' = [known EXCEPT ![p] = t]
     /\ journal' = IF full THEN Dump(t) ELSE journal \o recs
     /\ off' = [off EXCEPT ![p] = IF full THEN Len(Dump(t)) ELSE @ + Len(recs)]
     /\ lines' = [lines EXCEPT ![p] = IF full THEN Len(Dump(t)) ELSE n]
     /\ lost' = (lost \/ late \/ off[p] # Len(journal) \/ (full /\ \E q \in Proc \ {p} : off[q] # 0))

\* ... and a write that fails leaves the records in memory only.
PersistFails(p, recs) ==
  /\ known' = [known EXCEPT ![p] = ApplyAll(@, recs)]
  /\ lost' = TRUE
  /\ UNCHANGED <<journal, off, lines>>

\* A process starts: its tables are read from the journal at its first _sync().
Forget(p) ==
  /\ known' = [known EXCEPT ![p] = Nothing]
  /\ off' = [off EXCEPT ![p] = 0]
  /\ lines' = [lines EXCEPT ![p] = 0]
  /\ UNCHANGED <<journal, lost>>

-----------------------------------------------------------------------------
(* The decision, _guard().  A thinking block at place: the message and the *)
(* block, the prefix the client sends before it and the prefix that goes   *)
(* out before it (o, f), the prefix of its message on the client's side    *)
(* (base), what its message holds before it (within) and the block before  *)
(* it there.                                                               *)

\* _infer: the request whose client prefix was this one produced the message.
Infer(t, pl) ==
  LET r == t.asked[pl.base]
  IN [f |-> r.f \o pl.within, o |-> pl.o, p |-> IF pl.before = NoBlock THEN r.p ELSE pl.before]

Known(t, pl) == pl.b \in DOMAIN t.blk \/ pl.base \in DOMAIN t.asked
Record(t, pl) == IF pl.b \in DOMAIN t.blk THEN t.blk[pl.b] ELSE Infer(t, pl)

\* Document order, and the last block of some.
Precedes(q, pl) == q.k < pl.k \/ (q.k = pl.k /\ q.b < pl.b)
LastBlock(places) ==
  IF places = {} THEN NoBlock ELSE (CHOOSE pl \in places : \A q \in places : ~Precedes(pl, q)).b

\* Mutant: what the client sent is compared, not what went out.
StaysAsSent(t, pl, prev) ==
  IF ~Known(t, pl) THEN pl.o = pl.f
  ELSE pl.o = Record(t, pl).o => prev = NoBlock \/ prev = Record(t, pl).p

\* May the block stay, prev being the last one that did?
Stays(t, pl, prev) ==
  IF ~Known(t, pl) THEN pl.o = pl.f
  ELSE IF pl.f = Record(t, pl).f THEN prev = NoBlock \/ prev = Record(t, pl).p
  ELSE pl.o # Record(t, pl).o

\* The walk judges the blocks that are not out, up to the first that may not stay: all later
\* ones go.
Judged(t, places) ==
  LET in == {pl \in places : pl.b \notin t.out}
      fails == {pl \in in : ~Stays(t, pl, LastBlock({q \in in : Precedes(q, pl)}))}
      judged == {pl \in in : \A q \in fails : ~Precedes(q, pl)}
  IN [all |-> judged, stay |-> judged \ fails]

\* What it infers of blocks that have no record.
Inferred(t, places) ==
  {BlockLine(pl.b, Infer(t, pl)) :
     pl \in {pl \in Judged(t, places).all : pl.b \notin DOMAIN t.blk /\ pl.base \in DOMAIN t.asked}}

\* Mutant: what was taken out is not recorded.
VerdictUnrecorded(t, places, o, f) ==
  LET stay == Judged(t, places).stay
  IN [remove |-> {pl.b : pl \in places \ stay}, prev |-> LastBlock(stay),
      recs |-> Append(SetToSeq(Inferred(t, places)), AskedLine(o, [f |-> f, p |-> LastBlock(stay)]))]

\* The verdict on the places of a request whose client prefix is o and whose own is f: what
\* goes, the last block that stays, and the lines to append.
Verdict(t, places, o, f) ==
  LET stay == Judged(t, places).stay
      remove == {pl.b : pl \in places \ stay}
  IN [remove |-> remove, prev |-> LastBlock(stay),
      recs |-> Append(SetToSeq(Inferred(t, places)) \o SetToSeq({OutLine(b) : b \in remove \ t.out}),
                      AskedLine(o, [f |-> f, p |-> LastBlock(stay)]))]
=============================================================================
