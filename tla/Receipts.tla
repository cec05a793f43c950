------------------------------ MODULE Receipts ------------------------------
(***************************************************************************)
(* The receipt chain, src/distil/receipts.py: every process appends to one *)
(* active file under a lock, a file that is full becomes the next sealed   *)
(* segment with a checkpoint, and verify() re-hashes the history, or what  *)
(* came after its resume point, without the lock.                          *)
(*                                                                         *)
(* A file is a sequence of what the appends wrote, whole or cut short.  A  *)
(* receipt's number stands for its hash; ok: its content still matches it; *)
(* nl: it ends the line.  What was cut short makes one line with what      *)
(* comes next, and that line is no receipt.  A place is a file's number    *)
(* and an entry's in it.                                                   *)
(***************************************************************************)
EXTENDS Integers, Sequences, FiniteSets, FiniteSetsExt

CONSTANTS
  Appender,     \* processes that append
  NoAppender,   \* the lock is free
  SegmentRows,  \* SEGMENT_BYTES, in appends
  MaxReceipts,  \* bound: receipts
  MaxTrouble    \* bound: torn writes, failed seals, deaths

ASSUME ReceiptsAssumption ==
  /\ NoAppender \notin Appender
  /\ SegmentRows \in Nat \ {0} /\ MaxReceipts \in Nat /\ MaxTrouble \in Nat

VARIABLES
  segs,     \* sealed segments: files, oldest first
  act,      \* receipts.jsonl; empty and missing read alike
  cps,      \* the segments' checkpoints: the receipts each commits to
  rlock,    \* who appends
  step,     \* how far
  backoff,  \* _seal_retry_at of each appender is in the future or just past
  resume,   \* receipts-verified.json
  ver,      \* the verifier
  whole,    \* receipts whose append came back without an error
  issued, trouble, damaged  \* receipts numbered; the bound's counter; a receipt was edited

receiptVars == <<segs, act, cps, rlock, step, backoff, resume, ver, whole, issued, trouble, damaged>>

Genesis == 0

\* Where the lines begin for a reader that starts after pos, and those that are receipts.
Begins(file, pos) == {i \in (pos + 1)..Len(file) : i = pos + 1 \/ file[i - 1].nl}

Rows(file, pos) ==
  {i \in Begins(file, pos) : file[i].id # Genesis /\ (file[i].nl \/ i = Len(file))}

\* What a checkpoint commits to: the receipts, each at its place.
Ids(file) == {<<i, file[i].id>> : i \in Rows(file, 0)}

NoResume == [count |-> 0, head |-> Genesis, file |-> 1, pos |-> 0, skipped |-> 0]
NoVerdict == [ok |-> TRUE, total |-> 0, skipped |-> 0]
Resting == [pc |-> "rest"]

ReceiptsInit ==
  /\ segs = << >> /\ act = << >> /\ cps = << >>
  /\ rlock = NoAppender /\ step = "none" /\ backoff = {}
  /\ resume = NoResume /\ ver = Resting
  /\ whole = {} /\ issued = 0 /\ trouble = 0 /\ damaged = FALSE

-----------------------------------------------------------------------------
(* append().                                                               *)

LastId(file) == IF Rows(file, 0) = {} THEN Genesis ELSE file[Max(Rows(file, 0))].id

\* head_hash: the last receipt of the active file, else of the newest segment.
HeadHash(file) ==
  IF Rows(file, 0) # {} \/ segs = << >> THEN LastId(file) ELSE LastId(segs[Len(segs)])

\* _maybe_rotate: a full file is sealed unless a seal failed less than a minute ago.
Begin(w) ==
  /\ rlock = NoAppender /\ issued < MaxReceipts
  /\ rlock' = w
  /\ \E seal \in IF Len(act) < SegmentRows THEN {FALSE} ELSE IF w \in backoff THEN BOOLEAN ELSE {TRUE} :
       step' = IF seal THEN "seal" ELSE "write"
  /\ UNCHANGED <<segs, act, cps, backoff, resume, ver, whole, issued, trouble, damaged>>

\* Mutant: the checkpoint is not written anew over one a crash left.
SealCheckpointOnce(w) ==
  /\ rlock = w /\ step = "seal"
  /\ cps' = IF Len(cps) > Len(segs) \/ Rows(act, 0) = {} THEN cps ELSE Append(cps, Ids(act))
  /\ step' = IF Rows(act, 0) = {} THEN "write" ELSE "rename"
  /\ backoff' = IF Rows(act, 0) = {} THEN backoff \cup {w} ELSE backoff \ {w}
  /\ UNCHANGED <<segs, act, rlock, resume, ver, whole, issued, trouble, damaged>>

\* _seal: first the checkpoint...
SealCheckpoint(w) ==
  /\ rlock = w /\ step = "seal"
  /\ cps' = IF Rows(act, 0) = {} THEN cps ELSE Append(SubSeq(cps, 1, Len(segs)), Ids(act))
  /\ step' = IF Rows(act, 0) = {} THEN "write" ELSE "rename"
  /\ backoff' = IF Rows(act, 0) = {} THEN backoff \cup {w} ELSE backoff \ {w}
  /\ UNCHANGED <<segs, act, rlock, resume, ver, whole, issued, trouble, damaged>>

\* ... then the rename.
SealRename(w) ==
  /\ rlock = w /\ step = "rename"
  /\ segs' = Append(segs, act)
  /\ act' = << >>
  /\ step' = "write"
  /\ UNCHANGED <<cps, rlock, backoff, resume, ver, whole, issued, trouble, damaged>>

\* Either step of a seal fails; the receipt goes into the full file.
SealFails(w) ==
  /\ rlock = w /\ step \in {"seal", "rename"} /\ trouble < MaxTrouble
  /\ trouble' = trouble + 1
  /\ step' = "write"
  /\ backoff' = backoff \cup {w}
  /\ UNCHANGED <<segs, act, cps, rlock, resume, ver, whole, issued, damaged>>

Written(w, id, nl) ==
  /\ rlock = w /\ step = "write"
  /\ act' = Append(act, [id |-> id, prev |-> HeadHash(act), ok |-> TRUE, nl |-> nl])
  /\ issued' = issued + 1
  /\ rlock' = NoAppender /\ step' = "none"
  /\ UNCHANGED <<segs, cps, backoff, resume, ver, damaged>>

WriteReceipt(w) ==
  /\ Written(w, issued + 1, TRUE)
  /\ whole' = whole \cup {issued + 1}
  /\ UNCHANGED trouble

\* A full disk or a death cuts the line short, by its newline at least.
WriteTorn(w) ==
  /\ trouble < MaxTrouble
  /\ \E id \in {Genesis, issued + 1} : Written(w, id, FALSE)
  /\ trouble' = trouble + 1
  /\ UNCHANGED whole

\* The appender dies between two steps; the system frees the lock.
AppenderDies(w) ==
  /\ rlock = w /\ trouble < MaxTrouble
  /\ trouble' = trouble + 1
  /\ rlock' = NoAppender /\ step' = "none"
  /\ backoff' = backoff \ {w}
  /\ UNCHANGED <<segs, act, cps, resume, ver, whole, issued, damaged>>

\* A receipt's content is changed on disk; its stored hash stays.
Edited(file) ==
  {[file EXCEPT ![i].ok = FALSE] : i \in {j \in Rows(file, 0) : file[j].nl}}

Damage ==
  /\ ~damaged /\ rlock = NoAppender
  /\ damaged' = TRUE
  /\ \/ act' \in Edited(act) /\ UNCHANGED segs
     \/ \E k \in DOMAIN segs : \E f \in Edited(segs[k]) :
          segs' = [segs EXCEPT ![k] = f] /\ UNCHANGED act
  /\ UNCHANGED <<cps, rlock, step, backoff, resume, ver, whole, issued, trouble>>

-----------------------------------------------------------------------------
(* verify().                                                               *)

Others(file, pos) == Begins(file, pos) \ Rows(file, pos)

\* File number f of the n listed segments and of the active file as it is now, and where in
\* it a reader starts that has a resume point.
ChainFile(n, f) == IF f <= n THEN segs[f] ELSE act
After(from, f) == IF f = from.file THEN from.pos ELSE 0
Row(n, e) == ChainFile(n, e[1])[e[2]]

\* The places of the receipts, and of the other lines, that the reader meets.
Met(n, from) == UNION {{f} \X Rows(ChainFile(n, f), After(from, f)) : f \in from.file..(n + 1)}
Holes(n, from) == UNION {{f} \X Others(ChainFile(n, f), After(from, f)) : f \in from.file..(n + 1)}

Before(d, e) == d[1] < e[1] \/ (d[1] = e[1] /\ d[2] < e[2])
Latest(places) == CHOOSE e \in places : \A d \in places : ~Before(e, d)

\* The hash that the receipt at place e must link to.
Link(n, from, e) ==
  LET earlier == {d \in Met(n, from) : Before(d, e)}
  IN IF earlier = {} THEN from.head ELSE Row(n, Latest(earlier)).id

Linked(n, from) == \A e \in Met(n, from) : Row(n, e).ok /\ Row(n, e).prev = Link(n, from, e)

\* _segment_mismatch
Sealed(n, first) == \A k \in first..n : k \in DOMAIN cps /\ cps[k] = Ids(segs[k])

\* _scan from a resume point: the verdict...
Scan(n, from) ==
  [ok |-> Linked(n, from) /\ Sealed(n, IF from.pos = 0 THEN from.file ELSE from.file + 1),
   total |-> from.count + Cardinality(Met(n, from)),
   skipped |-> from.skipped + Cardinality(Holes(n, from))]

\* Mutant: the gaps before the resume point are forgotten.
NextResumeClean(n, from) ==
  IF Met(n, from) = {} THEN from
  ELSE LET last == Latest(Met(n, from))
       IN [count |-> from.count + Cardinality(Met(n, from)), head |-> Row(n, last).id,
           file |-> last[1], pos |-> last[2], skipped |-> 0]

\* ... and the next resume point: the last receipt met, and the gaps before it.
NextResume(n, from) ==
  IF Met(n, from) = {} THEN from
  ELSE LET last == Latest(Met(n, from))
       IN [count |-> from.count + Cardinality(Met(n, from)), head |-> Row(n, last).id,
           file |-> last[1], pos |-> last[2],
           skipped |-> from.skipped + Cardinality({e \in Holes(n, from) : Before(e, last)})]

\* An edited receipt that a pass reads: any, or the one of the resume point or a later one.
EditAhead(full) ==
  \E e \in Met(Len(segs), NoResume) :
    ~Row(Len(segs), e).ok /\ (full \/ ~Before(e, <<resume.file, resume.pos>>))

\* _chain_files, and what was there when the pass began.
List(full) ==
  /\ ver.pc = "rest"
  /\ ver' = [pc |-> IF full \/ resume = NoResume THEN "scan" ELSE "peek", n |-> Len(segs),
             full |-> full, again |-> FALSE, from |-> NoResume, v |-> NoVerdict,
             seals |-> Len(segs), before |-> whole, edited |-> EditAhead(full)]
  /\ UNCHANGED <<segs, act, cps, rlock, step, backoff, resume, whole, issued, trouble, damaged>>

\* Mutant: the receipt of the resume point is not read again.
UsableUnread(n, r) == r.file <= n + 1

\* The receipt the resume point names is still there and still hashes to its name.
Usable(n, r) ==
  LET file == ChainFile(n, r.file)
  IN r.file <= n + 1 /\ r.pos \in Rows(file, r.pos - 1) /\ file[r.pos].id = r.head /\ file[r.pos].ok

Peek ==
  /\ ver.pc = "peek"
  /\ ver' = IF Usable(ver.n, resume) THEN [ver EXCEPT !.pc = "tail", !.from = resume]
            ELSE [ver EXCEPT !.pc = "scan"]
  /\ UNCHANGED <<segs, act, cps, rlock, step, backoff, resume, whole, issued, trouble, damaged>>

Told(v) == ver' = [ver EXCEPT !.pc = "told", !.v = v, !.from = NoResume]

\* A pass that is good moves the resume point.
Good(n, from) ==
  /\ Told(Scan(n, from))
  /\ resume' = IF Scan(n, from).total > 0 THEN NextResume(n, from) ELSE resume

\* A pass from the resume point that fails is not believed.
FromResume ==
  /\ ver.pc = "tail"
  /\ IF Scan(ver.n, ver.from).ok THEN Good(ver.n, ver.from)
     ELSE ver' = [ver EXCEPT !.pc = "scan", !.from = NoResume] /\ UNCHANGED resume
  /\ UNCHANGED <<segs, act, cps, rlock, step, backoff, whole, issued, trouble, damaged>>

\* Mutant: a failure is final.
ScanAllOnce ==
  /\ ver.pc = "scan"
  /\ IF Scan(ver.n, NoResume).ok THEN Good(ver.n, NoResume)
     ELSE Told(Scan(ver.n, NoResume)) /\ UNCHANGED resume
  /\ UNCHANGED <<segs, act, cps, rlock, step, backoff, whole, issued, trouble, damaged>>

\* The whole history, from its first line.
ScanAll ==
  /\ ver.pc = "scan"
  /\ LET v == Scan(ver.n, NoResume)
     IN \/ v.ok /\ Good(ver.n, NoResume)
        \/ ~v.ok /\ ver.again /\ Told(v) /\ UNCHANGED resume
        \/ ~v.ok /\ ~ver.again /\ ver' = [ver EXCEPT !.pc = "relist", !.v = v] /\ UNCHANGED resume
  /\ UNCHANGED <<segs, act, cps, rlock, step, backoff, whole, issued, trouble, damaged>>

\* A failure is run once more when the listing has changed.
Relist ==
  /\ ver.pc = "relist"
  /\ IF Len(segs) = ver.n THEN Told(ver.v)
     ELSE ver' = [ver EXCEPT !.n = Len(segs), !.again = TRUE,
                             !.pc = IF ver.full \/ resume = NoResume THEN "scan" ELSE "peek"]
  /\ UNCHANGED <<segs, act, cps, rlock, step, backoff, resume, whole, issued, trouble, damaged>>

Heard ==
  /\ ver.pc = "told"
  /\ ver' = Resting
  /\ UNCHANGED <<segs, act, cps, rlock, step, backoff, resume, whole, issued, trouble, damaged>>

-----------------------------------------------------------------------------
AppendStep(w) ==
  \/ Begin(w) \/ SealCheckpoint(w) \/ SealRename(w) \/ SealFails(w)
  \/ WriteReceipt(w) \/ WriteTorn(w) \/ AppenderDies(w)

ReceiptsNext ==
  \/ \E w \in Appender : AppendStep(w)
  \/ Damage
  \/ \E full \in BOOLEAN : List(full)
  \/ Peek \/ FromResume \/ ScanAll \/ Relist \/ Heard

ReceiptsSpec == ReceiptsInit /\ [][ReceiptsNext]_receiptVars

-----------------------------------------------------------------------------
(* Properties.                                                             *)

Line == [id : Nat, prev : Nat, ok : BOOLEAN, nl : BOOLEAN]
Point == [count : Nat, head : Nat, file : Nat \ {0}, pos : Nat, skipped : Nat]
Pass == [pc : {"scan", "peek", "tail", "relist", "told"}, n : Nat, full : BOOLEAN, again : BOOLEAN,
         from : Point, v : [ok : BOOLEAN, total : Nat, skipped : Nat],
         seals : Nat, before : SUBSET Nat, edited : BOOLEAN]

ReceiptsTypeOK ==
  /\ segs \in Seq(Seq(Line)) /\ act \in Seq(Line) /\ cps \in Seq(SUBSET (Nat \X Nat))
  /\ Len(cps) \in {Len(segs), Len(segs) + 1}
  /\ rlock \in Appender \cup {NoAppender} /\ backoff \subseteq Appender
  /\ step \in {"none", "seal", "rename", "write"} /\ (step = "none" <=> rlock = NoAppender)
  /\ resume \in Point /\ (ver = Resting \/ ver \in Pass)
  /\ whole \subseteq 1..issued /\ issued \in Nat /\ trouble \in 0..MaxTrouble /\ damaged \in BOOLEAN

\* Seals, failed seals, torn lines and deaths in any order leave a history that verifies:
\* each receipt links to the one before it, across segments too, and every segment has the
\* checkpoint that commits to its receipts ("Order is the crash story", _seal).
ChainWhole == ~damaged => Scan(Len(segs), NoResume).ok

\* "A real break survives the retry; a seal does not" (verify, receipts.py:834): a pass
\* during which one segment is sealed does not call a healthy chain broken.
NoFalseAlarm ==
  ver.pc = "told" /\ ~damaged /\ Len(segs) <= ver.seals + 1 => ver.v.ok

\* A segment was sealed after the last listing, and the pass cannot tell: it has met no
\* receipt in the fresh active file, or it went on there from where it left the old one.
Unaware ==
  /\ Len(segs) > ver.n
  /\ \/ \A e \in Met(ver.n, ver.from) : e[1] <= ver.n
     \/ ver.pc = "tail" /\ ver.from.file = ver.n + 1

\* A pass comes back with ok, and not unaware of a seal.
Approves == ver.pc \in {"scan", "tail"} /\ ver'.pc = "told" /\ ver'.v.ok /\ ~Unaware

\* A receipt edited before a pass began is found by it: by a full pass wherever it is, also
\* where an earlier pass has verified it, and by a resumed one from the last receipt already
\* verified onward ("RE-HASHED, not just compared", receipts.py:855).  A seal under the pass
\* does not hide it, as the first receipt of the fresh file does not link to the files
\* listed; it may hide it from a pass that is unaware of the seal, for verify() retries only
\* failures (receipts.py:837).
EditFound == [][Approves => ~ver.edited]_receiptVars

\* "A chain with holes in its file never reads as a clean VERIFIED" (Verdict.skipped): a
\* verdict without gaps counts every receipt that was written before the pass, from the
\* resume point or not, and with seals under the pass, unless it is unaware of one: that
\* one comes back with ok and fewer receipts ("the WHOLE history", receipts.py:801).
NoSilentGap ==
  [][Approves /\ ver'.v.skipped = 0 => ver'.v.total >= Cardinality(ver.before)]_receiptVars
=============================================================================
