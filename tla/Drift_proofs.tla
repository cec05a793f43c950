---------------------------- MODULE Drift_proofs ----------------------------
(***************************************************************************)
(* Proofs about Drift, for every set of proxies and shadow threads, every  *)
(* budget Limit and every number of rows: the latch of the hold, then its  *)
(* histories, which rows were bet and which receipts were written.         *)
(***************************************************************************)
EXTENDS Drift, SequenceTheorems, TLAPS

USE DriftAssumption

-----------------------------------------------------------------------------
(* The states of drift.json.                                               *)

LEMMA FileTypes ==
  /\ Fresh \in File /\ Missing \in File /\ Bad \in File /\ Other \in File
  /\ Fresh.kind = "state" /\ Missing.kind = "missing" /\ Bad.kind = "bad" /\ Other.kind = "other"
  /\ ~Held(Fresh) /\ ~Held(Missing) /\ Held(Bad) /\ ~Held(Other)
  /\ ~Tripped(Fresh) /\ ~Tripped(Missing) /\ ~Missing.quarantined /\ Fresh.current = TRUE
  <1>1. Fresh \in File /\ Missing \in File /\ Bad \in File /\ Other \in File
    <2>1. Fresh \in File
      BY DEF Fresh, File
    <2>2. QED
      BY <2>1 DEF Missing, Bad, Other, File
  <1>2. /\ Fresh.kind = "state" /\ Missing.kind = "missing" /\ Bad.kind = "bad"
        /\ Other.kind = "other"
    BY DEF Fresh, Missing, Bad, Other
  <1>3. Fresh.level = 0 /\ ~Fresh.quarantined /\ ~Missing.quarantined /\ ~Other.quarantined
    BY DEF Fresh, Missing, Other
  <1>4. Fresh.current = TRUE
    BY DEF Fresh
  <1>5. QED
    BY <1>1, <1>2, <1>3, <1>4 DEF Held, Tripped

\* A bet keeps everything but the level, and the level of a tripped monitor.
LEMMA BetEffect ==
  ASSUME NEW s \in File, NEW loss
  PROVE  /\ Bet(s, loss) \in File
         /\ Bet(s, loss).kind = s.kind /\ Bet(s, loss).quarantined = s.quarantined
         /\ Bet(s, loss).current = s.current
         /\ s.level >= Limit => Bet(s, loss) = s
  BY DEF Bet, File

LEMMA BetKeepsHold ==
  ASSUME NEW s \in File, NEW loss, Held(s)
  PROVE  Held(Bet(s, loss))
  BY BetEffect DEF Held, Tripped

\* A reading is the file or the marker of an unreadable one.
LEMMA ReadingType ==
  ASSUME TypeOK, NEW f \in Readings
  PROVE  f \in File /\ (f = file \/ f = Bad)
  BY FileTypes DEF Readings, TypeOK

LEMMA LoadForWriteType ==
  ASSUME NEW f \in File, NEW copied \in BOOLEAN
  PROVE  /\ LoadForWrite(f, copied) \in File
         /\ LoadForWrite(f, copied).kind \in {"state", "bad"}
         /\ f.kind = "state" => LoadForWrite(f, copied) = f
         /\ f.kind \in {"missing", "other"} => LoadForWrite(f, copied) = Fresh
         /\ f.kind = "bad" => Held(LoadForWrite(f, copied))
  <1> DEFINE Quarantined == [Fresh EXCEPT !.quarantined = TRUE]
  <1>1. Quarantined \in File /\ Quarantined.kind = "state" /\ Held(Quarantined)
    BY FileTypes DEF File, Held
  <1>2. CASE f.kind = "bad"
    <2>1. LoadForWrite(f, copied) = IF copied THEN Quarantined ELSE Bad
      BY <1>2 DEF LoadForWrite
    <2>2. QED
      BY <1>1, <1>2, <2>1, FileTypes
  <1>3. CASE f.kind \in {"missing", "other"}
    BY <1>3, FileTypes DEF LoadForWrite
  <1>4. CASE f.kind = "state"
    BY <1>4 DEF LoadForWrite
  <1>5. f.kind \in {"missing", "bad", "other", "state"}
    BY DEF File
  <1>6. QED
    BY <1>2, <1>3, <1>4, <1>5

\* What a write leaves: the old file, or the new state with this version's schema.
LEMMA WriteEffect ==
  ASSUME TypeOK, NEW s \in File, NEW ok, Write(s, ok)
  PROVE  /\ file' \in File /\ seen' \in [Proc -> {"none", "old", "now"}]
         /\ \/ file' = file
            \/ /\ file'.kind = s.kind /\ s.kind # "bad" /\ file'.current
               /\ Held(file') <=> Held(s)
               /\ Tripped(file') <=> Tripped(s)
         /\ ok = TRUE /\ s.kind # "bad" => file' = [s EXCEPT !.current = TRUE]
  <1>1. [s EXCEPT !.current = TRUE] \in File
    BY DEF File
  <1>2. CASE ok /\ s.kind # "bad"
    BY <1>1, <1>2 DEF Write, Replace, TypeOK, Held, Tripped, File
  <1>3. CASE ~(ok /\ s.kind # "bad")
    BY <1>3 DEF Write, TypeOK
  <1>4. QED
    BY <1>2, <1>3

-----------------------------------------------------------------------------
(* The inductive invariant.                                                *)

\* A thread that has booked a row knows which.
Booked ==
  \A t \in Thread : pc[t] # "idle" => row[t] \in [proc : Proc, n : 1..Len(ledger)]

\* Whoever is between two steps on drift.json holds its lock.
Exclusive ==
  /\ \A p \in Proc : phase[p] \in {"folding", "receipt"} => lock = p
  /\ \A t \in Thread : pc[t] = "receipt" => lock = t
  /\ cli = "archived" => lock = CLI

\* No hold is lost with a file that is missing or of another budget, and none is there to
\* be lost while shadow.jsonl is folded.
Undecided ==
  /\ file.kind \in {"missing", "other"} => ~Held(file)
  /\ cli = "archived" => file.kind = "missing"
  /\ \A p \in Proc : phase[p] = "folding" => Migrates(file)
  /\ mem.kind = "state"

Inv == TypeOK /\ Booked /\ Exclusive /\ Undecided

LEMMA MigratesUnheld ==
  ASSUME Undecided, Migrates(file)
  PROVE  ~Held(file)
  BY DEF Undecided, Migrates

-----------------------------------------------------------------------------
(* Types.                                                                  *)

LEMMA InitType == Init => TypeOK /\ Booked
  <1> SUFFICES ASSUME Init PROVE TypeOK /\ Booked
    OBVIOUS
  <1>1. file \in File
    <2>1. ASSUME NEW l \in 0..Limit
          PROVE  [Fresh EXCEPT !.level = l, !.current = FALSE] \in File
      BY FileTypes DEF File
    <2>2. QED
      BY <2>1, FileTypes DEF Init
  <1>2. ledger \in Seq(Loss) /\ Len(ledger) <= MaxRows /\ Len(ledger) \in Nat
    <2>1. PICK n \in 0..MaxRows : ledger \in [1..n -> Loss]
      BY DEF Init
    <2>2. n \in Nat
      BY <2>1
    <2>3. ledger \in Seq(Loss)
      BY <2>1, <2>2, SeqDef
    <2>4. 1..n = 1..Len(ledger) /\ Len(ledger) \in Nat
      BY <2>1, <2>3, LenProperties
    <2>5. Len(ledger) = 0 \/ Len(ledger) \in 1..n
      BY <2>4
    <2>6. QED
      BY <2>2, <2>3, <2>4, <2>5
  <1>3. Booked
    BY DEF Init, Booked
  <1>4. mem \in File
    BY FileTypes DEF Init
  <1>5. /\ phase \in [Proc -> {"down", "folding", "receipt", "boot", "look", "watch"}]
        /\ held \in [Proc -> BOOLEAN] /\ seen \in [Proc -> {"none", "old", "now"}]
    BY DEF Init
  <1>6. /\ pc \in [Thread -> {"idle", "booked", "receipt", "folded"}]
        /\ row \in [Thread -> [proc : Proc, n : 1..MaxRows] \cup {NONE}]
        /\ result \in [Thread -> BOOLEAN]
    BY DEF Init
  <1>7. bets \in [1..MaxRows -> 0..2] /\ spent \subseteq 1..MaxRows /\ receipts \in 0..2
    <2>1. bets = [n \in 1..MaxRows |-> 0] /\ spent = {} /\ receipts = 0
      BY DEF Init
    <2>2. QED
      BY <2>1
  <1>8. next \in 1..(MaxRows + 1) /\ upto \in 0..Len(ledger)
    <2>1. next = 1 /\ upto = 0
      BY DEF Init
    <2>2. QED
      BY <1>2, <2>1
  <1>9. /\ archived \in BOOLEAN /\ before \in BOOLEAN
        /\ lock \in Proc \cup Thread \cup {CLI, NONE}
        /\ cli \in {"idle", "archived"} /\ outcome \in {"", "released", "failed"}
    BY DEF Init
  <1>10. QED
    BY <1>1, <1>2, <1>3, <1>4, <1>5, <1>6, <1>7, <1>8, <1>9 DEF TypeOK

LEMMA CounterTypes ==
  ASSUME TypeOK
  PROVE  /\ Len(ledger) \in Nat /\ Len(ledger) <= MaxRows /\ MaxRows \in Nat
         /\ next \in 1..(MaxRows + 1) /\ upto \in Nat /\ upto <= Len(ledger)
  <1>1. ledger \in Seq(Loss) /\ Len(ledger) <= MaxRows /\ upto \in 0..Len(ledger)
    BY DEF TypeOK
  <1>2. Len(ledger) \in Nat
    BY <1>1, LenProperties
  <1>3. next \in 1..(MaxRows + 1)
    BY DEF TypeOK
  <1>4. QED
    BY <1>1, <1>2, <1>3

LEMMA OneMoreType ==
  ASSUME NEW n \in 0..2
  PROVE  OneMore(n) \in 0..2 /\ OneMore(n) <= n + 1
  BY DEF OneMore

\* A step leaves the threads and the rows alone.
LEMMA BookedSame ==
  ASSUME Booked, pc' = pc, row' = row, ledger' = ledger
  PROVE  Booked'
  BY DEF Booked

LEMMA StartType ==
  ASSUME Inv, NEW p \in Proc, Start(p)
  PROVE  TypeOK' /\ Booked'
  <1>0. TypeOK /\ Booked
    BY DEF Inv
  <1>1. CASE StartAsIs(p)
    <2>1. PICK f \in Readings, copied \in Copied, ok \in Written :
            LET s == LoadForWrite(f, copied)
            IN /\ IF s.quarantined THEN Write(s, ok) ELSE UNCHANGED <<file, seen>>
               /\ held' = [held EXCEPT ![p] = Held(s)]
      BY <1>1 DEF StartAsIs
    <2> DEFINE s == LoadForWrite(f, copied)
    <2>2. s \in File
      BY <1>0, ReadingType, LoadForWriteType DEF Copied
    <2>3. file' \in File /\ seen' \in [Proc -> {"none", "old", "now"}]
      <3>1. CASE s.quarantined
        BY <1>0, <2>1, <2>2, <3>1, WriteEffect
      <3>2. CASE ~s.quarantined
        BY <1>0, <2>1, <3>2 DEF TypeOK
      <3>3. QED
        BY <3>1, <3>2
    <2>4. held' \in [Proc -> BOOLEAN]
      <3>1. Held(s) \in BOOLEAN
        BY DEF Held
      <3>2. QED
        BY <1>0, <2>1, <3>1 DEF TypeOK
    <2>5. UNCHANGED <<archived, ledger, lock, boot, sample, reset, history, receipts>>
      BY <1>1 DEF StartAsIs
    <2>6. phase' \in [Proc -> {"down", "folding", "receipt", "boot", "look", "watch"}]
      BY <1>0, <1>1 DEF StartAsIs, TypeOK
    <2>7. QED
      BY <1>0, <2>3, <2>4, <2>5, <2>6, BookedSame DEF TypeOK, boot, sample, reset, history
  <1>2. CASE StartFolding(p)
    <2>1. mem' \in File /\ next' \in 1..(MaxRows + 1) /\ upto' \in 0..Len(ledger')
      BY <1>0, <1>2, FileTypes, CounterTypes DEF StartFolding
    <2>2. QED
      BY <1>0, <1>2, <2>1, BookedSame DEF StartFolding, TypeOK, sample, reset, history
  <1>3. QED
    BY <1>1, <1>2 DEF Start

LEMMA ProceedType ==
  ASSUME Inv, NEW p \in Proc, Proceed(p)
  PROVE  TypeOK' /\ Booked'
  <1>0. TypeOK /\ Booked
    BY DEF Inv
  <1>1. CASE FoldRow(p)
    <2>1. mem' \in File
      BY <1>0, <1>1, BetEffect DEF FoldRow, TypeOK
    <2>2. next' \in 1..(MaxRows + 1)
      BY <1>0, <1>1, CounterTypes DEF FoldRow, FoldingOver
    <2>3. QED
      BY <1>0, <1>1, <2>1, <2>2, BookedSame
      DEF FoldRow, TypeOK, shared, guard, sample, reset, history
  <1>2. CASE EndFolding(p)
    <2>1. PICK ok \in Written :
            /\ Write(mem, ok)
            /\ bets' = IF ok THEN [n \in 1..MaxRows |-> IF n < next THEN 1 ELSE 0] ELSE bets
      BY <1>2 DEF EndFolding
    <2>2. file' \in File /\ seen' \in [Proc -> {"none", "old", "now"}]
      BY <1>0, <2>1, WriteEffect DEF TypeOK
    <2>3. bets' \in [1..MaxRows -> 0..2]
      <3>1. bets \in [1..MaxRows -> 0..2]
        BY <1>0 DEF TypeOK
      <3>2. [n \in 1..MaxRows |-> IF n < next THEN 1 ELSE 0] \in [1..MaxRows -> 0..2]
        OBVIOUS
      <3>3. QED
        BY <2>1, <3>1, <3>2
    <2>4. held' \in [Proc -> BOOLEAN]
      <3>1. Held(mem) \in BOOLEAN
        BY DEF Held
      <3>2. QED
        BY <1>0, <1>2, <3>1 DEF EndFolding, TypeOK
    <2>5. /\ phase' \in [Proc -> {"down", "folding", "receipt", "boot", "look", "watch"}]
          /\ lock' \in Proc \cup Thread \cup {CLI, NONE}
      BY <1>0, <1>2 DEF EndFolding, TypeOK
    <2>6. UNCHANGED <<archived, ledger, boot, sample, reset, spent, receipts>>
      BY <1>2 DEF EndFolding
    <2>7. QED
      BY <1>0, <2>2, <2>3, <2>4, <2>5, <2>6, BookedSame DEF TypeOK, boot, sample, reset
  <1>3. CASE StartReceipt(p)
    <2>1. receipts' \in 0..2
      BY <1>0, <1>3, OneMoreType DEF StartReceipt, TypeOK
    <2>2. QED
      BY <1>0, <1>3, <2>1, BookedSame DEF StartReceipt, TypeOK, boot, sample, reset, history
  <1>4. CASE Look(p)
    BY <1>0, <1>4, BookedSame DEF Look, TypeOK, shared, boot, sample, reset, history
  <1>5. CASE Load(p)
    <2>1. held' \in [Proc -> BOOLEAN]
      <3>1. PICK f \in Readings : held' = [held EXCEPT ![p] = Held(f)]
        BY <1>5 DEF Load
      <3>2. Held(f) \in BOOLEAN
        BY DEF Held
      <3>3. QED
        BY <1>0, <3>1, <3>2 DEF TypeOK
    <2>2. phase' \in [Proc -> {"down", "folding", "receipt", "boot", "look", "watch"}]
      BY <1>0, <1>5 DEF Load, TypeOK
    <2>3. UNCHANGED <<shared, boot, seen, sample, reset, history, receipts>>
      BY <1>5 DEF Load
    <2>4. QED
      BY <1>0, <2>1, <2>2, <2>3, BookedSame DEF TypeOK, shared, boot, sample, reset, history
  <1>6. CASE NothingNew(p)
    BY <1>0, <1>6, BookedSame DEF NothingNew, TypeOK, shared, boot, sample, reset, history
  <1>7. QED
    BY <1>1, <1>2, <1>3, <1>4, <1>5, <1>6 DEF Proceed, Refresh

LEMMA BookType ==
  ASSUME Inv, NEW t \in Thread, NEW p \in Proc, NEW loss \in Loss, Book(t, p, loss)
  PROVE  TypeOK' /\ Booked'
  <1>0. TypeOK /\ Booked
    BY DEF Inv
  <1>1. /\ ledger' = Append(ledger, loss) /\ Len(ledger) < MaxRows
        /\ row' = [row EXCEPT ![t] = [proc |-> p, n |-> Len(ledger) + 1]]
        /\ pc' = [pc EXCEPT ![t] = "booked"]
    BY DEF Book
  <1>2. ledger' \in Seq(Loss) /\ Len(ledger') = Len(ledger) + 1
    <2>1. ledger \in Seq(Loss)
      BY <1>0 DEF TypeOK
    <2>2. QED
      BY <1>1, <2>1, AppendProperties
  <1>3. Len(ledger') <= MaxRows /\ upto \in 0..Len(ledger')
    BY <1>0, <1>1, <1>2, CounterTypes
  <1>4. row' \in [Thread -> [proc : Proc, n : 1..MaxRows] \cup {NONE}]
    <2>1. Len(ledger) + 1 \in 1..MaxRows
      BY <1>0, <1>1, CounterTypes
    <2>2. [proc |-> p, n |-> Len(ledger) + 1] \in [proc : Proc, n : 1..MaxRows]
      BY <2>1
    <2>3. row \in [Thread -> [proc : Proc, n : 1..MaxRows] \cup {NONE}]
      BY <1>0 DEF TypeOK
    <2>4. QED
      BY <1>1, <2>2, <2>3
  <1>5. pc' \in [Thread -> {"idle", "booked", "receipt", "folded"}]
    BY <1>0, <1>1 DEF TypeOK
  <1>6. TypeOK'
    BY <1>0, <1>2, <1>3, <1>4, <1>5 DEF Book, TypeOK, boot, guard, reset, history
  <1>7. Booked'
    <2> SUFFICES ASSUME NEW u \in Thread, pc'[u] # "idle"
                 PROVE  row'[u] \in [proc : Proc, n : 1..Len(ledger')]
      BY DEF Booked
    <2>1. CASE u = t
      <3>1. row'[u] = [proc |-> p, n |-> Len(ledger) + 1]
        BY <1>0, <1>1, <2>1 DEF TypeOK
      <3>2. Len(ledger) + 1 \in 1..Len(ledger')
        BY <1>0, <1>2, CounterTypes
      <3>3. QED
        BY <3>1, <3>2
    <2>2. CASE u # t
      <3>1. row'[u] = row[u] /\ pc'[u] = pc[u]
        BY <1>0, <1>1, <2>2 DEF TypeOK
      <3>2. row[u] \in [proc : Proc, n : 1..Len(ledger)]
        BY <1>0, <3>1 DEF Booked
      <3>3. QED
        BY <1>0, <1>2, <3>1, <3>2, CounterTypes
    <2>3. QED
      BY <2>1, <2>2
  <1>8. QED
    BY <1>6, <1>7

\* Fold reads a state, bets the thread's row in it and writes the result.
LEMMA FoldEffect ==
  ASSUME Inv, NEW t \in Thread, Fold(t)
  PROVE  \E s \in File, ok \in Written :
           /\ s.kind \in {"state", "bad"}
           /\ file.kind = "state" /\ ~CanFail => s = file
           /\ file.kind = "missing" => s = Fresh
           /\ Held(file) => Held(s)
           /\ LET after == Bet(s, ledger[row[t].n])
              IN /\ Write(after, ok)
                 /\ Count(row[t].n, ok /\ ~Tripped(s))
                 /\ result' = [result EXCEPT ![t] = Held(after)]
                 /\ IF TripsNow(s, after)
                    THEN pc' = [pc EXCEPT ![t] = "receipt"] /\ lock' = t
                    ELSE pc' = [pc EXCEPT ![t] = "folded"] /\ UNCHANGED lock
  <1>0. TypeOK
    BY DEF Inv
  <1>1. PICK f \in Readings, copied \in Copied, ok \in Written :
          LET s == LoadForWrite(f, copied)
              after == Bet(s, ledger[row[t].n])
          IN /\ Write(after, ok)
             /\ Count(row[t].n, ok /\ ~Tripped(s))
             /\ result' = [result EXCEPT ![t] = Held(after)]
             /\ IF TripsNow(s, after)
                THEN pc' = [pc EXCEPT ![t] = "receipt"] /\ lock' = t
                ELSE pc' = [pc EXCEPT ![t] = "folded"] /\ UNCHANGED lock
    BY DEF Fold
  <1> DEFINE s == LoadForWrite(f, copied)
  <1>2. f \in File /\ (f = file \/ f = Bad)
    BY <1>0, ReadingType
  <1>3. copied \in BOOLEAN
    BY DEF Copied
  <1>4. s \in File /\ s.kind \in {"state", "bad"}
    BY <1>2, <1>3, LoadForWriteType
  <1>5. file.kind = "missing" => f = file
    BY DEF Readings
  <1>6. ~CanFail => f = file
    BY DEF Readings
  <1>7. Held(file) => Held(s)
    <2>1. CASE f.kind = "bad"
      BY <1>2, <1>3, <2>1, LoadForWriteType
    <2>2. CASE f.kind # "bad"
      <3>1. f = file /\ f.kind \in {"missing", "other", "state"}
        BY <1>2, <2>2, FileTypes DEF File
      <3>2. f.kind \in {"missing", "other"} => ~Held(file)
        BY <3>1 DEF Inv, Undecided
      <3>3. QED
        BY <1>2, <1>3, <3>1, <3>2, LoadForWriteType
    <2>3. QED
      BY <2>1, <2>2
  <1>8. QED
    BY <1>1, <1>2, <1>3, <1>4, <1>5, <1>6, <1>7, LoadForWriteType

LEMMA ObserveType ==
  ASSUME Inv, NEW t \in Thread, Observe(t)
  PROVE  TypeOK' /\ Booked'
  <1>0. TypeOK /\ Booked
    BY DEF Inv
  <1>1. CASE Fold(t)
    <2>1. PICK s \in File, ok \in Written :
            LET after == Bet(s, ledger[row[t].n])
            IN /\ Write(after, ok)
               /\ Count(row[t].n, ok /\ ~Tripped(s))
               /\ result' = [result EXCEPT ![t] = Held(after)]
               /\ IF TripsNow(s, after)
                  THEN pc' = [pc EXCEPT ![t] = "receipt"] /\ lock' = t
                  ELSE pc' = [pc EXCEPT ![t] = "folded"] /\ UNCHANGED lock
      BY <1>1, FoldEffect
    <2> DEFINE after == Bet(s, ledger[row[t].n])
    <2>2. after \in File
      BY BetEffect
    <2>3. file' \in File /\ seen' \in [Proc -> {"none", "old", "now"}]
      BY <1>0, <2>1, <2>2, WriteEffect
    <2>4. bets' \in [1..MaxRows -> 0..2]
      BY <1>0, <2>1, OneMoreType DEF Count, TypeOK
    <2>5. result' \in [Thread -> BOOLEAN]
      <3>1. Held(after) \in BOOLEAN
        BY DEF Held
      <3>2. QED
        BY <1>0, <2>1, <3>1 DEF TypeOK
    <2>6. /\ pc' \in [Thread -> {"idle", "booked", "receipt", "folded"}]
          /\ lock' \in Proc \cup Thread \cup {CLI, NONE}
          /\ \A u \in Thread : pc'[u] # "idle" => pc[u] # "idle"
      BY <1>0, <1>1, <2>1 DEF Fold, TypeOK
    <2>7. UNCHANGED <<archived, ledger, boot, phase, held, row, reset, spent, receipts>>
      BY <1>1 DEF Fold
    <2>8. Booked'
      BY <1>0, <2>6, <2>7 DEF Booked
    <2>9. QED
      BY <1>0, <2>3, <2>4, <2>5, <2>6, <2>7, <2>8 DEF TypeOK, boot, reset
  <1>2. CASE Receipt(t)
    <2>1. receipts' \in 0..2
      BY <1>0, <1>2, OneMoreType DEF Receipt, TypeOK
    <2>2. Booked'
      BY <1>0, <1>2 DEF Receipt, Booked, TypeOK
    <2>3. QED
      BY <1>0, <1>2, <2>1, <2>2 DEF Receipt, TypeOK, boot, guard, reset, history
  <1>3. CASE Store(t)
    <2>1. row[t].proc \in Proc
      BY <1>0, <1>3 DEF Store, Booked
    <2>2. held' \in [Proc -> BOOLEAN]
      BY <1>0, <1>3 DEF Store, TypeOK
    <2>3. /\ pc' \in [Thread -> {"idle", "booked", "receipt", "folded"}]
          /\ row' \in [Thread -> [proc : Proc, n : 1..MaxRows] \cup {NONE}]
          /\ result' \in [Thread -> BOOLEAN]
      BY <1>0, <1>3 DEF Store, TypeOK
    <2>4. Booked'
      BY <1>0, <1>3 DEF Store, Booked, TypeOK, shared
    <2>5. QED
      BY <1>0, <1>3, <2>2, <2>3, <2>4 DEF Store, TypeOK, shared, boot, reset, history
  <1>4. QED
    BY <1>1, <1>2, <1>3 DEF Observe

LEMMA ResetType ==
  ASSUME Inv, NEW ok \in Written, Archive \/ Renew(ok)
  PROVE  TypeOK' /\ Booked'
  <1>0. TypeOK /\ Booked
    BY DEF Inv
  <1>1. CASE Archive
    <2>1. file' \in File /\ seen' \in [Proc -> {"none", "old", "now"}] /\ archived' \in BOOLEAN
      BY <1>0, <1>1, FileTypes DEF Archive, Replace, TypeOK
    <2>2. before' \in BOOLEAN
      <3>1. Held(file) \in BOOLEAN
        BY DEF Held
      <3>2. QED
        BY <1>1, <3>1 DEF Archive
    <2>3. bets' \in [1..MaxRows -> 0..2] /\ receipts' \in 0..2 /\ spent' \subseteq 1..MaxRows
      <3>1. /\ bets' = [n \in 1..MaxRows |-> 0] /\ receipts' = 0
            /\ spent' = spent \cup {n \in 1..MaxRows : bets[n] > 0}
            /\ spent \subseteq 1..MaxRows
        BY <1>0, <1>1 DEF Archive, NewProcess, TypeOK
      <3>2. bets' \in [1..MaxRows -> 0..2]
        BY <3>1
      <3>3. spent' \subseteq 1..MaxRows
        BY <3>1
      <3>4. QED
        BY <3>1, <3>2, <3>3
    <2>4. /\ lock' \in Proc \cup Thread \cup {CLI, NONE}
          /\ cli' \in {"idle", "archived"} /\ outcome' \in {"", "released", "failed"}
      BY <1>1 DEF Archive
    <2>5. UNCHANGED <<ledger, boot, phase, held, sample>>
      BY <1>1 DEF Archive
    <2>6. QED
      BY <1>0, <2>1, <2>2, <2>3, <2>4, <2>5, BookedSame DEF TypeOK, boot, sample
  <1>2. CASE Renew(ok)
    <2>1. file' \in File /\ seen' \in [Proc -> {"none", "old", "now"}]
      BY <1>0, <1>2, FileTypes, WriteEffect DEF Renew
    <2>2. /\ lock' \in Proc \cup Thread \cup {CLI, NONE}
          /\ cli' \in {"idle", "archived"} /\ outcome' \in {"", "released", "failed"}
      BY <1>2 DEF Renew
    <2>3. UNCHANGED <<archived, ledger, boot, phase, held, sample, before, history, receipts>>
      BY <1>2 DEF Renew
    <2>4. QED
      BY <1>0, <2>1, <2>2, <2>3, BookedSame DEF TypeOK, boot, sample, history
  <1>3. QED
    BY <1>1, <1>2

LEMMA WorldType ==
  ASSUME Inv, Kill \/ Damage \/ Rebudget \/ \E p \in Proc : Crash(p)
  PROVE  TypeOK' /\ Booked'
  <1>0. TypeOK /\ Booked
    BY DEF Inv
  <1>1. ASSUME NEW p \in Proc, Crash(p) PROVE TypeOK' /\ Booked'
    <2> DEFINE hit == {t \in Thread : row[t] # NONE /\ row[t].proc = p}
    <2>1. /\ pc' = [t \in Thread |-> IF t \in hit THEN "idle" ELSE pc[t]]
          /\ row' = [t \in Thread |-> IF t \in hit THEN NONE ELSE row[t]]
          /\ result' = [t \in Thread |-> result[t] /\ t \notin hit]
          /\ lock' = IF lock \in hit \cup {p} THEN NONE ELSE lock
      BY <1>1 DEF Crash
    <2>2. pc' \in [Thread -> {"idle", "booked", "receipt", "folded"}]
      BY <1>0, <2>1 DEF TypeOK
    <2>3. row' \in [Thread -> [proc : Proc, n : 1..MaxRows] \cup {NONE}]
      BY <1>0, <2>1 DEF TypeOK
    <2>4. result' \in [Thread -> BOOLEAN]
      BY <1>0, <2>1 DEF TypeOK
    <2>5. lock' \in Proc \cup Thread \cup {CLI, NONE}
      BY <1>0, <2>1 DEF TypeOK
    <2>6. /\ phase' \in [Proc -> {"down", "folding", "receipt", "boot", "look", "watch"}]
          /\ held' \in [Proc -> BOOLEAN] /\ seen' \in [Proc -> {"none", "old", "now"}]
      BY <1>0, <1>1 DEF Crash, TypeOK
    <2>7. UNCHANGED <<file, archived, ledger, boot, reset, history, receipts>>
      BY <1>1 DEF Crash
    <2>8. Booked'
      <3> SUFFICES ASSUME NEW t \in Thread, pc'[t] # "idle"
                   PROVE  row'[t] \in [proc : Proc, n : 1..Len(ledger')]
        BY DEF Booked
      <3>1. t \notin hit /\ row'[t] = row[t] /\ pc'[t] = pc[t]
        BY <2>1
      <3>2. QED
        BY <1>0, <2>7, <3>1 DEF Booked
    <2>9. QED
      BY <1>0, <2>2, <2>3, <2>4, <2>5, <2>6, <2>7, <2>8 DEF TypeOK, boot, reset, history
  <1>2. CASE Kill
    BY <1>0, <1>2, BookedSame DEF Kill, TypeOK, boot, guard, sample, history
  <1>3. CASE Damage
    BY <1>0, <1>3, FileTypes, BookedSame DEF Damage, Replace, TypeOK, boot, sample, reset, history
  <1>4. CASE Rebudget
    <2>1. file' \in File /\ seen' \in [Proc -> {"none", "old", "now"}]
      BY <1>0, <1>4, FileTypes DEF Rebudget, Replace, TypeOK
    <2>2. /\ bets' = [n \in 1..MaxRows |-> 0] /\ receipts' = 0
          /\ spent' = spent \cup {n \in 1..MaxRows : bets[n] > 0}
          /\ spent \subseteq 1..MaxRows
      BY <1>0, <1>4 DEF Rebudget, NewProcess, TypeOK
    <2>3. bets' \in [1..MaxRows -> 0..2] /\ receipts' \in 0..2
      BY <2>2
    <2>4. spent' \subseteq 1..MaxRows
      BY <2>2
    <2>5. UNCHANGED <<archived, ledger, lock, boot, phase, held, sample, reset>>
      BY <1>4 DEF Rebudget
    <2>6. QED
      BY <1>0, <2>1, <2>3, <2>4, <2>5, BookedSame DEF TypeOK, boot, sample, reset
  <1>5. QED
    BY <1>1, <1>2, <1>3, <1>4

LEMMA StepType == Inv /\ [Next]_vars => TypeOK' /\ Booked'
  <1> SUFFICES ASSUME Inv, [Next]_vars PROVE TypeOK' /\ Booked'
    OBVIOUS
  <1>1. ASSUME NEW p \in Proc, Start(p) \/ Proceed(p) PROVE TypeOK' /\ Booked'
    BY <1>1, StartType, ProceedType
  <1>2. ASSUME NEW p \in Proc, Crash(p) PROVE TypeOK' /\ Booked'
    BY <1>2, WorldType
  <1>3. ASSUME NEW t \in Thread, Observe(t) PROVE TypeOK' /\ Booked'
    BY <1>3, ObserveType
  <1>4. ASSUME NEW t \in Thread, NEW p \in Proc, NEW loss \in Loss, Book(t, p, loss)
        PROVE  TypeOK' /\ Booked'
    BY <1>4, BookType
  <1>5. CASE Archive
    <2>1. TRUE \in Written
      BY DEF Written
    <2>2. QED
      BY <1>5, <2>1, ResetType
  <1>6. ASSUME NEW ok \in Written, Renew(ok) PROVE TypeOK' /\ Booked'
    BY <1>6, ResetType
  <1>7. CASE Kill \/ Damage \/ Rebudget
    BY <1>7, WorldType
  <1>8. CASE UNCHANGED vars
    BY <1>8, BookedSame
    DEF Inv, TypeOK, vars, shared, boot, guard, sample, reset, history
  <1>9. QED
    BY <1>1, <1>2, <1>3, <1>4, <1>5, <1>6, <1>7, <1>8 DEF Next, Mishap

-----------------------------------------------------------------------------
(* The lock.                                                               *)

LEMMA LockSame ==
  ASSUME Exclusive, lock' = lock, cli' = cli,
         \A p \in Proc : phase'[p] \in {"folding", "receipt"} => phase'[p] = phase[p],
         \A t \in Thread : pc'[t] = "receipt" => pc'[t] = pc[t]
  PROVE  Exclusive'
  BY DEF Exclusive

LEMMA StepExclusive == Inv /\ [Next]_vars => Exclusive'
  <1> SUFFICES ASSUME Inv, [Next]_vars PROVE Exclusive'
    OBVIOUS
  <1>0. /\ TypeOK /\ Exclusive
        /\ phase \in [Proc -> {"down", "folding", "receipt", "boot", "look", "watch"}]
        /\ pc \in [Thread -> {"idle", "booked", "receipt", "folded"}]
    BY DEF Inv, TypeOK
  <1>1. ASSUME NEW p \in Proc, Start(p) PROVE Exclusive'
    BY <1>0, <1>1 DEF Start, StartAsIs, StartFolding, Exclusive, sample, reset
  <1>2. ASSUME NEW p \in Proc, Proceed(p) PROVE Exclusive'
    <2>1. CASE FoldRow(p)
      BY <1>0, <2>1, LockSame DEF FoldRow, shared, guard, sample, reset
    <2>2. CASE EndFolding(p)
      BY <1>0, <2>2 DEF EndFolding, Exclusive, sample, reset
    <2>3. CASE StartReceipt(p)
      BY <1>0, <2>3 DEF StartReceipt, Exclusive, sample, reset
    <2>4. CASE Refresh(p)
      BY <1>0, <2>4, LockSame DEF Refresh, Look, Load, NothingNew, shared, sample, reset
    <2>5. QED
      BY <1>2, <2>1, <2>2, <2>3, <2>4 DEF Proceed
  <1>3. ASSUME NEW p \in Proc, Crash(p) PROVE Exclusive'
    <2> DEFINE hit == {t \in Thread : row[t] # NONE /\ row[t].proc = p}
    <2>1. /\ phase' = [phase EXCEPT ![p] = "down"]
          /\ pc' = [t \in Thread |-> IF t \in hit THEN "idle" ELSE pc[t]]
          /\ lock' = IF lock \in hit \cup {p} THEN NONE ELSE lock
          /\ cli' = cli
      BY <1>3 DEF Crash, reset
    <2>2. QED
      BY <1>0, <2>1 DEF Exclusive
  <1>4. ASSUME NEW t \in Thread, Observe(t) PROVE Exclusive'
    <2>1. CASE Fold(t)
      <3>1. /\ lock = NONE /\ phase' = phase /\ cli' = cli
            /\ \/ pc' = [pc EXCEPT ![t] = "receipt"] /\ lock' = t
               \/ pc' = [pc EXCEPT ![t] = "folded"] /\ UNCHANGED lock
        BY <2>1 DEF Fold, reset
      <3>2. QED
        BY <1>0, <3>1 DEF Exclusive
    <2>2. CASE Receipt(t)
      BY <1>0, <2>2 DEF Receipt, Exclusive, guard, reset
    <2>3. CASE Store(t)
      BY <1>0, <2>3, LockSame DEF Store, shared, reset
    <2>4. QED
      BY <1>4, <2>1, <2>2, <2>3 DEF Observe
  <1>5. ASSUME NEW t \in Thread, NEW p \in Proc, NEW loss \in Loss, Book(t, p, loss)
        PROVE  Exclusive'
    BY <1>0, <1>5, LockSame DEF Book, guard, reset
  <1>6. CASE Archive
    BY <1>0, <1>6 DEF Archive, Exclusive, sample
  <1>7. ASSUME NEW ok \in Written, Renew(ok) PROVE Exclusive'
    BY <1>0, <1>7 DEF Renew, Exclusive, sample
  <1>8. CASE Kill
    BY <1>0, <1>8 DEF Kill, Exclusive, guard, sample
  <1>9. CASE Damage \/ Rebudget
    BY <1>0, <1>9, LockSame DEF Damage, Rebudget, reset, sample
  <1>10. CASE UNCHANGED vars
    BY <1>0, <1>10, LockSame DEF vars, shared, guard, sample, reset
  <1>11. QED
    BY <1>1, <1>2, <1>3, <1>4, <1>5, <1>6, <1>7, <1>8, <1>9, <1>10 DEF Next, Mishap

-----------------------------------------------------------------------------
(* The hold.                                                               *)

LEMMA FileSame ==
  ASSUME Undecided, file' = file, archived' = archived, mem' = mem, cli' = cli,
         \A p \in Proc : phase'[p] = "folding" => phase[p] = "folding"
  PROVE  Undecided'
  BY DEF Undecided, Migrates, Held, Tripped

\* Nobody is halfway through a step on drift.json when its lock is free.
LEMMA LockFree ==
  ASSUME Exclusive, lock = NONE
  PROVE  /\ \A p \in Proc : phase[p] \notin {"folding", "receipt"}
         /\ \A t \in Thread : pc[t] # "receipt"
         /\ cli # "archived"
  BY DEF Exclusive

\* With the lock free, a writer may leave any state that is there.
LEMMA FileWritten ==
  ASSUME Exclusive, Undecided, lock = NONE, mem' = mem, cli' = cli,
         file' = file \/ file'.kind \in {"state", "bad"},
         \A p \in Proc : phase'[p] = "folding" => phase[p] = "folding"
  PROVE  Undecided'
  BY LockFree DEF Undecided, Held, Tripped

LEMMA StepUndecided == Inv /\ [Next]_vars => Undecided'
  <1> SUFFICES ASSUME Inv, [Next]_vars PROVE Undecided'
    OBVIOUS
  <1>0. /\ TypeOK /\ Exclusive /\ Undecided /\ mem \in File /\ file \in File
        /\ phase \in [Proc -> {"down", "folding", "receipt", "boot", "look", "watch"}]
    BY DEF Inv, TypeOK
  <1>1. ASSUME NEW p \in Proc, StartAsIs(p) PROVE Undecided'
    <2>1. file' = file \/ file'.kind \in {"state", "bad"}
      <3>1. PICK f \in Readings, copied \in Copied, ok \in Written :
              LET s == LoadForWrite(f, copied)
              IN IF s.quarantined THEN Write(s, ok) ELSE UNCHANGED <<file, seen>>
        BY <1>1 DEF StartAsIs
      <3> DEFINE s == LoadForWrite(f, copied)
      <3>2. s \in File /\ s.kind \in {"state", "bad"}
        BY <1>0, ReadingType, LoadForWriteType DEF Copied
      <3>3. QED
        BY <1>0, <3>1, <3>2, WriteEffect
    <2>2. /\ lock = NONE /\ mem' = mem /\ cli' = cli
          /\ \A q \in Proc : phase'[q] = "folding" => phase[q] = "folding"
      BY <1>0, <1>1 DEF StartAsIs, boot, reset
    <2>3. QED
      BY <1>0, <2>1, <2>2, FileWritten
  <1>2. ASSUME NEW p \in Proc, StartFolding(p) PROVE Undecided'
    BY <1>0, <1>2, FileTypes DEF StartFolding, Undecided, Migrates, reset
  <1>3. ASSUME NEW p \in Proc, FoldRow(p) PROVE Undecided'
    BY <1>0, <1>3, BetEffect DEF FoldRow, Undecided, Migrates, shared, guard, reset
  <1>4. ASSUME NEW p \in Proc, EndFolding(p) PROVE Undecided'
    <2>1. PICK ok \in Written : Write(mem, ok)
      BY <1>4 DEF EndFolding
    <2>2. file' = file \/ file'.kind = "state"
      BY <1>0, <2>1, WriteEffect DEF Undecided
    <2>3. /\ mem' = mem /\ cli' = cli /\ lock = p
          /\ \A q \in Proc : phase'[q] # "folding"
      BY <1>0, <1>4 DEF EndFolding, Exclusive, boot, reset
    <2>4. cli # "archived"
      BY <1>0, <2>3 DEF Exclusive
    <2>5. QED
      BY <1>0, <2>2, <2>3, <2>4 DEF Undecided, Held, Tripped
  <1>5. ASSUME NEW p \in Proc, StartReceipt(p) \/ Refresh(p) PROVE Undecided'
    BY <1>0, <1>5, FileSame
    DEF StartReceipt, Refresh, Look, Load, NothingNew, shared, boot, reset
  <1>6. ASSUME NEW p \in Proc, Crash(p) PROVE Undecided'
    BY <1>0, <1>6, FileSame DEF Crash, boot, reset
  <1>7. ASSUME NEW t \in Thread, Fold(t) PROVE Undecided'
    <2>1. PICK s \in File, ok \in Written :
            s.kind \in {"state", "bad"} /\ Write(Bet(s, ledger[row[t].n]), ok)
      BY <1>7, FoldEffect
    <2>2. file' = file \/ file'.kind \in {"state", "bad"}
      <3> DEFINE after == Bet(s, ledger[row[t].n])
      <3>1. after \in File /\ after.kind = s.kind
        BY BetEffect
      <3>2. file' = file \/ file'.kind = after.kind
        BY <1>0, <2>1, <3>1, WriteEffect
      <3>3. QED
        BY <2>1, <3>1, <3>2
    <2>3. lock = NONE /\ mem' = mem /\ cli' = cli /\ phase' = phase
      BY <1>7 DEF Fold, boot, reset
    <2>4. QED
      BY <1>0, <2>2, <2>3, FileWritten
  <1>8. ASSUME NEW t \in Thread, Receipt(t) \/ Store(t) PROVE Undecided'
    BY <1>0, <1>8, FileSame DEF Receipt, Store, shared, boot, guard, reset
  <1>9. ASSUME NEW t \in Thread, NEW p \in Proc, NEW loss \in Loss, Book(t, p, loss)
        PROVE  Undecided'
    BY <1>0, <1>9, FileSame DEF Book, boot, guard, reset
  <1>10. CASE Archive
    <2>1. /\ lock = NONE /\ mem' = mem /\ phase' = phase /\ cli' = "archived"
          /\ (file.kind = "missing" /\ file' = file) \/ file' = Missing
      BY <1>10 DEF Archive, Replace, boot
    <2>2. \A p \in Proc : phase[p] # "folding"
      BY <1>0, <2>1, LockFree
    <2>3. QED
      BY <1>0, <2>1, <2>2, FileTypes DEF Undecided, Held, Tripped
  <1>11. ASSUME NEW ok \in Written, Renew(ok) PROVE Undecided'
    <2>1. /\ file' = file \/ file'.kind = "state"
          /\ cli' # "archived" /\ mem' = mem /\ phase' = phase /\ lock = CLI
      BY <1>0, <1>11, FileTypes, WriteEffect DEF Renew, Exclusive, boot
    <2>2. \A p \in Proc : phase[p] # "folding"
      BY <1>0, <2>1 DEF Exclusive
    <2>3. QED
      BY <1>0, <2>1, <2>2 DEF Undecided, Held, Tripped
  <1>12. CASE Kill
    BY <1>0, <1>12 DEF Kill, Undecided, Migrates, Held, Tripped, boot, guard
  <1>13. CASE Damage \/ Rebudget
    <2>1. /\ lock = NONE /\ phase' = phase /\ mem' = mem /\ cli' = cli
          /\ file' = Bad \/ file' = Other
      BY <1>13 DEF Damage, Rebudget, Replace, boot, reset
    <2>2. cli # "archived" /\ \A p \in Proc : phase[p] # "folding"
      BY <1>0, <2>1, LockFree DEF Exclusive
    <2>3. QED
      BY <1>0, <2>1, <2>2, FileTypes DEF Undecided
  <1>14. CASE UNCHANGED vars
    BY <1>0, <1>14, FileSame DEF vars, shared, boot, guard, reset
  <1>15. QED
    BY <1>1, <1>2, <1>3, <1>4, <1>5, <1>6, <1>7, <1>8, <1>9, <1>10, <1>11, <1>12, <1>13, <1>14
    DEF Next, Mishap, Start, Proceed, Observe

LEMMA InitInv == Init => Inv
  <1> SUFFICES ASSUME Init PROVE Inv
    OBVIOUS
  <1>1. Exclusive
    BY DEF Init, Exclusive
  <1>2. Undecided
    <2>1. file.kind \in {"missing", "other"} => ~Held(file)
      <3>1. CASE file = Missing
        BY <3>1, FileTypes
      <3>2. CASE \E l \in 0..Limit : file = [Fresh EXCEPT !.level = l, !.current = FALSE]
        BY <3>2, FileTypes DEF File
      <3>3. QED
        BY <3>1, <3>2 DEF Init
    <2>2. mem.kind = "state"
      BY FileTypes DEF Init
    <2>3. cli = "idle" /\ \A p \in Proc : phase[p] = "down"
      BY DEF Init
    <2>4. QED
      BY <2>1, <2>2, <2>3 DEF Undecided
  <1>3. QED
    BY <1>1, <1>2, InitType DEF Inv

THEOREM Invariance == Spec => []Inv
  <1>1. Inv /\ [Next]_vars => Inv'
    BY StepType, StepExclusive, StepUndecided DEF Inv
  <1>2. QED
    BY <1>1, InitInv, PTL DEF Spec

\* Type correctness of the guard, whatever fails.
THEOREM TypeCorrect == Spec => []TypeOK
  <1>1. Inv => TypeOK
    BY DEF Inv
  <1>2. QED
    BY <1>1, Invariance, PTL

LEMMA StepHold ==
  ASSUME Inv, [Next]_vars, Held(file), ~Held(file')
  PROVE  cli' = "archived" \/ file'.kind = "other"
  <1>0. /\ TypeOK /\ Exclusive /\ Undecided /\ mem \in File /\ file \in File
        /\ file' # file
    BY DEF Inv, TypeOK
  <1>1. ASSUME NEW p \in Proc, StartAsIs(p) PROVE FALSE
    <2>1. PICK f \in Readings, copied \in Copied, ok \in Written :
            LET s == LoadForWrite(f, copied)
            IN IF s.quarantined THEN Write(s, ok) ELSE UNCHANGED <<file, seen>>
      BY <1>1 DEF StartAsIs
    <2> DEFINE s == LoadForWrite(f, copied)
    <2>2. s \in File
      BY <1>0, ReadingType, LoadForWriteType DEF Copied
    <2>3. s.quarantined /\ Write(s, ok)
      BY <1>0, <2>1
    <2>4. Held(s)
      BY <2>3 DEF Held
    <2>5. QED
      BY <1>0, <2>2, <2>3, <2>4, WriteEffect
  <1>2. ASSUME NEW p \in Proc, EndFolding(p) PROVE FALSE
    BY <1>0, <1>2, MigratesUnheld DEF EndFolding, Undecided
  <1>3. ASSUME NEW t \in Thread, Fold(t) PROVE FALSE
    <2>1. PICK s \in File, ok \in Written :
            Held(s) /\ Write(Bet(s, ledger[row[t].n]), ok)
      BY <1>3, FoldEffect
    <2> DEFINE after == Bet(s, ledger[row[t].n])
    <2>2. after \in File /\ Held(after)
      BY <2>1, BetEffect, BetKeepsHold
    <2>3. QED
      BY <1>0, <2>1, <2>2, WriteEffect
  <1>4. CASE Archive
    BY <1>4 DEF Archive
  <1>5. ASSUME NEW ok \in Written, Renew(ok) PROVE FALSE
    BY <1>0, <1>5 DEF Renew, Undecided
  <1>6. CASE Damage \/ Rebudget
    <2>1. file' = Bad \/ file' = Other
      BY <1>6 DEF Damage, Rebudget, Replace
    <2>2. QED
      BY <2>1, FileTypes
  <1>7. CASE UNCHANGED file
    BY <1>0, <1>7
  <1>8. ASSUME NEW p \in Proc,
               \/ StartFolding(p) \/ FoldRow(p) \/ StartReceipt(p) \/ Refresh(p) \/ Crash(p)
        PROVE  UNCHANGED file
    BY <1>8 DEF StartFolding, FoldRow, StartReceipt, Refresh, Look, Load, NothingNew, Crash, shared
  <1>9. ASSUME NEW t \in Thread, \/ Receipt(t) \/ Store(t)
                                 \/ \E p \in Proc, loss \in Loss : Book(t, p, loss)
        PROVE  UNCHANGED file
    BY <1>9 DEF Receipt, Store, Book, shared
  <1>10. CASE Kill \/ UNCHANGED vars
    BY <1>7, <1>10 DEF Kill, vars, shared
  <1>11. QED
    BY <1>1, <1>2, <1>3, <1>4, <1>5, <1>6, <1>7, <1>8, <1>9, <1>10
    DEF Next, Mishap, Start, Proceed, Observe

\* The hold in drift.json ends only with the reset command or with a file of another budget
\* (an upgrade, or damage that leaves well-formed JSON without it): restarts, migrations,
\* unreadable files, refused copies, failed writes and folds keep it.
THEOREM HoldIsSticky == Spec => HoldSticks
  <1>1. Inv /\ [Next]_vars =>
          [Held(file) /\ ~Held(file') => cli' = "archived" \/ file'.kind = "other"]_vars
    BY StepHold
  <1>2. QED
    BY <1>1, Invariance, PTL DEF Spec, HoldSticks

-----------------------------------------------------------------------------
(* The histories, when drift.json can be read and written.                 *)

\* The file has never been damaged.
Intact ==
  /\ file.kind \in {"missing", "state"} /\ ~file.quarantined
  /\ ~mem.quarantined

\* As long as the evidence of shadow.jsonl is still to be carried over, no proxy has
\* started and nothing has been bet.
Unstarted ==
  Migrates(file) =>
    /\ \A p \in Proc : phase[p] \in {"down", "folding"}
    /\ \A t \in Thread : pc[t] = "idle"
    /\ \A n \in 1..MaxRows : bets[n] = 0
    /\ spent = {}

\* A booked row is new to the betting process and to every released one, and no two
\* threads have booked the same.
Rows ==
  /\ next <= upto + 1
  /\ \A n \in 1..MaxRows : n > Len(ledger) => bets[n] = 0 /\ n \notin spent
  /\ \A t \in Thread : pc[t] = "booked" => bets[row[t].n] = 0 /\ row[t].n \notin spent
  /\ \A t, u \in Thread : pc[t] = "booked" /\ pc[u] = "booked" /\ t # u => row[t].n # row[u].n
  /\ NoRowTwice

AtReceipt ==
  (\E p \in Proc : phase[p] = "receipt") \/ (\E t \in Thread : pc[t] = "receipt")

\* An untripped process has no receipt; a tripped one has one, or its writer is about to
\* write it; the process of an older schema is tripped only if every proxy holds.
Trips ==
  /\ receipts <= 1
  /\ ~Tripped(file) => receipts = 0
  /\ AtReceipt => receipts = 0 /\ Tripped(file) /\ file.current
  /\ ~CanCrash /\ Tripped(file) /\ file.current /\ ~AtReceipt => receipts = 1
  /\ file.kind = "state" /\ ~file.current =>
       /\ \A t \in Thread : pc[t] = "idle"
       /\ \A p \in Proc : phase[p] \in {"boot", "look", "watch"} => held[p]

Histories == Intact /\ Unstarted /\ Rows /\ Trips

-----------------------------------------------------------------------------
(* What the writers do to a file that can be read and written.             *)

LEMMA IntactChoices ==
  ASSUME ~CanFail
  PROVE  /\ \A f \in Readings : f = file
         /\ \A ok \in Written : ok = TRUE
         /\ \A copied \in Copied : copied = TRUE
  BY DEF Readings, Written, Copied

LEMMA CurrentType ==
  ASSUME NEW s \in File
  PROVE  LET c == [s EXCEPT !.current = TRUE]
         IN /\ c \in File /\ c.kind = s.kind /\ c.level = s.level
            /\ c.quarantined = s.quarantined /\ c.current
            /\ Tripped(c) <=> Tripped(s)
  BY DEF File, Tripped

LEMMA StartAsIsIntact ==
  ASSUME ~CanFail, Inv, Intact, NEW p \in Proc, StartAsIs(p)
  PROVE  /\ file' = file /\ lock = NONE /\ ~Migrates(file)
         /\ held' = [held EXCEPT ![p] = Held(file)]
  <1>1. PICK f \in Readings, copied \in Copied, ok \in Written :
          LET s == LoadForWrite(f, copied)
          IN /\ ~Migrates(f)
             /\ IF s.quarantined THEN Write(s, ok) ELSE UNCHANGED <<file, seen>>
             /\ held' = [held EXCEPT ![p] = Held(s)]
    BY DEF StartAsIs
  <1> DEFINE s == LoadForWrite(f, copied)
  <1>2. f = file /\ copied \in BOOLEAN /\ file \in File
    BY IntactChoices DEF Inv, TypeOK
  <1>3. CASE file.kind = "missing"
    <2>1. s = Fresh /\ ~Held(file)
      BY <1>2, <1>3, LoadForWriteType DEF Inv, Undecided
    <2>2. ~s.quarantined /\ Held(s) = Held(file)
      BY <2>1, FileTypes DEF Held
    <2>3. QED
      BY <1>1, <1>2, <2>2 DEF StartAsIs
  <1>4. CASE file.kind = "state"
    <2>1. s = file
      BY <1>2, <1>4, LoadForWriteType
    <2>2. QED
      BY <1>1, <1>2, <2>1 DEF StartAsIs, Intact
  <1>5. QED
    BY <1>2, <1>3, <1>4 DEF Intact, File

LEMMA EndFoldingIntact ==
  ASSUME ~CanFail, Inv, NEW p \in Proc, EndFolding(p)
  PROVE  /\ file' = [mem EXCEPT !.current = TRUE]
         /\ bets' = [n \in 1..MaxRows |-> IF n < next THEN 1 ELSE 0]
  <1>1. PICK ok \in Written :
          /\ Write(mem, ok)
          /\ bets' = IF ok THEN [n \in 1..MaxRows |-> IF n < next THEN 1 ELSE 0] ELSE bets
    BY DEF EndFolding
  <1>2. ok = TRUE /\ mem \in File /\ mem.kind # "bad"
    BY IntactChoices DEF Inv, TypeOK, Undecided
  <1>3. QED
    BY <1>1, <1>2, WriteEffect DEF Inv

LEMMA RenewIntact ==
  ASSUME ~CanFail, Inv, NEW ok \in Written, Renew(ok)
  PROVE  file' \in File /\ file'.kind = "state" /\ file'.current /\ ~Held(file')
  <1>1. ok = TRUE /\ Write(Fresh, ok)
    BY IntactChoices DEF Renew
  <1>2. file' = [Fresh EXCEPT !.current = TRUE]
    BY <1>1, FileTypes, WriteEffect DEF Inv
  <1>3. QED
    BY <1>2, FileTypes, CurrentType DEF Held

\* The state a thread folds its row into.
LEMMA FoldIntact ==
  ASSUME ~CanFail, Inv, Intact, NEW t \in Thread, Fold(t)
  PROVE  \E s \in File :
           LET after == Bet(s, ledger[row[t].n])
           IN /\ s.kind = "state" /\ ~s.quarantined
              /\ Tripped(s) <=> Tripped(file)
              /\ after \in File /\ after.kind = "state" /\ ~after.quarantined
              /\ Tripped(s) => Tripped(after)
              /\ file' = [after EXCEPT !.current = TRUE]
              /\ Count(row[t].n, ~Tripped(s))
              /\ IF TripsNow(s, after)
                 THEN pc' = [pc EXCEPT ![t] = "receipt"] /\ lock' = t
                 ELSE pc' = [pc EXCEPT ![t] = "folded"] /\ UNCHANGED lock
  <1>1. PICK s \in File, ok \in Written :
          /\ file.kind = "state" /\ ~CanFail => s = file
          /\ file.kind = "missing" => s = Fresh
          /\ LET after == Bet(s, ledger[row[t].n])
             IN /\ Write(after, ok)
                /\ Count(row[t].n, ok /\ ~Tripped(s))
                /\ IF TripsNow(s, after)
                   THEN pc' = [pc EXCEPT ![t] = "receipt"] /\ lock' = t
                   ELSE pc' = [pc EXCEPT ![t] = "folded"] /\ UNCHANGED lock
    BY FoldEffect
  <1> DEFINE after == Bet(s, ledger[row[t].n])
  <1>2. ok = TRUE /\ file \in File
    BY IntactChoices DEF Inv, TypeOK
  <1>3. s.kind = "state" /\ ~s.quarantined /\ (Tripped(s) <=> Tripped(file))
    <2>1. CASE file.kind = "missing"
      <3>1. s = Fresh
        BY <1>1, <2>1
      <3>2. QED
        BY <2>1, <3>1, FileTypes DEF Tripped, Held
    <2>2. CASE file.kind = "state"
      BY <1>1, <2>2 DEF Intact
    <2>3. QED
      BY <1>2, <2>1, <2>2 DEF Intact, File
  <1>4. after \in File /\ after.kind = "state" /\ ~after.quarantined
    BY <1>3, BetEffect
  <1>5. Tripped(s) => Tripped(after)
    BY BetEffect DEF Tripped
  <1>6. file' = [after EXCEPT !.current = TRUE]
    BY <1>1, <1>2, <1>4, WriteEffect DEF Inv
  <1>7. Count(row[t].n, ~Tripped(s))
    BY <1>1, <1>2
  <1>8. QED
    BY <1>1, <1>3, <1>4, <1>5, <1>6, <1>7

-----------------------------------------------------------------------------
(* The file stays intact, and the evidence is carried over once.           *)

LEMMA StepIntact ==
  ASSUME ~CanFail, Inv, Intact, [Next]_vars
  PROVE  Intact'
  <1>0. mem \in File /\ file \in File /\ mem.kind = "state"
    BY DEF Inv, TypeOK, Undecided
  <1>1. ASSUME NEW p \in Proc, StartAsIs(p) PROVE Intact'
    BY <1>1, StartAsIsIntact DEF StartAsIs, Intact, boot
  <1>2. ASSUME NEW p \in Proc, StartFolding(p) PROVE Intact'
    BY <1>2 DEF StartFolding, Intact, Fresh
  <1>3. ASSUME NEW p \in Proc, FoldRow(p) PROVE Intact'
    BY <1>0, <1>3, BetEffect DEF FoldRow, Intact, shared
  <1>4. ASSUME NEW p \in Proc, EndFolding(p) PROVE Intact'
    <2>1. file' = [mem EXCEPT !.current = TRUE] /\ mem' = mem
      BY <1>4, EndFoldingIntact DEF EndFolding, boot
    <2>2. QED
      BY <1>0, <2>1, CurrentType DEF Intact
  <1>5. ASSUME NEW t \in Thread, Fold(t) PROVE Intact'
    <2>1. PICK s \in File :
            LET after == Bet(s, ledger[row[t].n])
            IN /\ after \in File /\ after.kind = "state" /\ ~after.quarantined
               /\ file' = [after EXCEPT !.current = TRUE]
      BY <1>5, FoldIntact
    <2>2. mem' = mem
      BY <1>5 DEF Fold, boot
    <2>3. QED
      BY <2>1, <2>2, CurrentType DEF Intact
  <1>6. CASE Archive
    BY <1>6, FileTypes DEF Archive, Replace, Intact, boot
  <1>7. ASSUME NEW ok \in Written, Renew(ok) PROVE Intact'
    <2>1. file'.kind = "state" /\ ~file'.quarantined
      BY <1>7, RenewIntact DEF Held
    <2>2. mem' = mem
      BY <1>7 DEF Renew, boot
    <2>3. QED
      BY <2>1, <2>2 DEF Intact
  <1>8. CASE Damage \/ Rebudget
    BY <1>8 DEF Damage, Rebudget
  <1>9. CASE file' = file /\ mem' = mem
    BY <1>9 DEF Intact
  <1>10. ASSUME NEW p \in Proc, StartReceipt(p) \/ Refresh(p) \/ Crash(p)
         PROVE  file' = file /\ mem' = mem
    BY <1>10 DEF StartReceipt, Refresh, Look, Load, NothingNew, Crash, shared, boot
  <1>11. ASSUME NEW t \in Thread, \/ Receipt(t) \/ Store(t)
                                  \/ \E p \in Proc, loss \in Loss : Book(t, p, loss)
         PROVE  file' = file /\ mem' = mem
    BY <1>11 DEF Receipt, Store, Book, shared, boot
  <1>12. CASE Kill \/ UNCHANGED vars
    BY <1>9, <1>12 DEF Kill, vars, shared, boot
  <1>13. QED
    BY <1>1, <1>2, <1>3, <1>4, <1>5, <1>6, <1>7, <1>8, <1>9, <1>10, <1>11, <1>12
    DEF Next, Mishap, Start, Proceed, Observe

\* Evidence that is still to be carried over after a step was so before it.
LEMMA UnstartedSame ==
  ASSUME Unstarted, file' = file, archived' = archived, bets' = bets, spent' = spent,
         \A p \in Proc : phase[p] \in {"down", "folding"} => phase'[p] \in {"down", "folding"},
         \A t \in Thread : pc[t] = "idle" => pc'[t] = "idle"
  PROVE  Unstarted'
  BY DEF Unstarted, Migrates, Held, Tripped

LEMMA Carried ==
  ASSUME file'.kind = "state", file'.current
  PROVE  Unstarted'
  BY DEF Unstarted, Migrates

LEMMA StepUnstarted ==
  ASSUME ~CanFail, Inv, Intact, Unstarted, [Next]_vars
  PROVE  Unstarted'
  <1>0. /\ mem \in File /\ mem.kind = "state"
        /\ phase \in [Proc -> {"down", "folding", "receipt", "boot", "look", "watch"}]
        /\ pc \in [Thread -> {"idle", "booked", "receipt", "folded"}]
        /\ bets \in [1..MaxRows -> 0..2]
    BY DEF Inv, TypeOK, Undecided
  <1>1. ASSUME NEW p \in Proc, StartAsIs(p) PROVE Unstarted'
    BY <1>1, StartAsIsIntact DEF StartAsIs, Unstarted, Migrates, Held, Tripped
  <1>2. ASSUME NEW p \in Proc, StartFolding(p) PROVE Unstarted'
    BY <1>0, <1>2, UnstartedSame DEF StartFolding, sample, history
  <1>3. ASSUME NEW p \in Proc, FoldRow(p) PROVE Unstarted'
    BY <1>3, UnstartedSame DEF FoldRow, shared, guard, sample, history
  <1>4. ASSUME NEW p \in Proc, EndFolding(p) PROVE Unstarted'
    BY <1>0, <1>4, EndFoldingIntact, CurrentType, Carried
  <1>5. ASSUME NEW p \in Proc, StartReceipt(p) PROVE Unstarted'
    BY <1>0, <1>5 DEF StartReceipt, Unstarted, Migrates, sample, history
  <1>6. ASSUME NEW p \in Proc, Refresh(p) PROVE Unstarted'
    BY <1>0, <1>6, UnstartedSame
    DEF Refresh, Look, Load, NothingNew, shared, sample, history
  <1>7. ASSUME NEW p \in Proc, Crash(p) PROVE Unstarted'
    <2> DEFINE hit == {t \in Thread : row[t] # NONE /\ row[t].proc = p}
    <2>1. /\ phase' = [phase EXCEPT ![p] = "down"]
          /\ pc' = [t \in Thread |-> IF t \in hit THEN "idle" ELSE pc[t]]
          /\ UNCHANGED <<file, archived, history>>
      BY <1>7 DEF Crash
    <2>2. QED
      BY <1>0, <2>1, UnstartedSame DEF history
  <1>8. ASSUME NEW t \in Thread, Fold(t) PROVE Unstarted'
    <2>1. PICK s \in File :
            LET after == Bet(s, ledger[row[t].n])
            IN /\ after \in File /\ after.kind = "state"
               /\ file' = [after EXCEPT !.current = TRUE]
      BY <1>8, FoldIntact
    <2>2. QED
      BY <2>1, CurrentType, Carried
  <1>9. ASSUME NEW t \in Thread, Receipt(t) \/ Store(t) PROVE Unstarted'
    BY <1>0, <1>9, UnstartedSame DEF Receipt, Store, shared, guard, history
  <1>10. ASSUME NEW t \in Thread, NEW p \in Proc, NEW loss \in Loss, Book(t, p, loss)
         PROVE  Unstarted'
    <2>1. ~Migrates(file)
      BY <1>10 DEF Book, Unstarted
    <2>2. QED
      BY <1>10, <2>1 DEF Book, Unstarted, Migrates, Held, Tripped
  <1>11. CASE Archive
    <2>1. CASE file.kind = "missing"
      <3>1. /\ file' = file /\ archived' = archived /\ phase' = phase /\ pc' = pc
            /\ bets' = [n \in 1..MaxRows |-> 0]
            /\ spent' = spent \cup {n \in 1..MaxRows : bets[n] > 0}
        BY <1>11, <2>1 DEF Archive, NewProcess, sample
      <3>2. QED
        BY <3>1 DEF Unstarted, Migrates, Held, Tripped
    <2>2. CASE file.kind # "missing"
      BY <1>11, <2>2, FileTypes DEF Archive, Replace, Unstarted, Migrates
    <2>3. QED
      BY <2>1, <2>2
  <1>12. ASSUME NEW ok \in Written, Renew(ok) PROVE Unstarted'
    BY <1>12, RenewIntact, Carried
  <1>13. CASE Kill \/ Damage \/ Rebudget
    BY <1>13 DEF Kill, Damage, Rebudget
  <1>14. CASE UNCHANGED vars
    BY <1>14, UnstartedSame DEF vars, shared, guard, sample, history
  <1>15. QED
    BY <1>1, <1>2, <1>3, <1>4, <1>5, <1>6, <1>7, <1>8, <1>9, <1>10, <1>11, <1>12, <1>13, <1>14
    DEF Next, Mishap, Start, Proceed, Observe

-----------------------------------------------------------------------------
(* No row is bet twice.                                                    *)

LEMMA RowsSame ==
  ASSUME Rows, ledger' = ledger, bets' = bets, spent' = spent, row' = row,
         upto' = upto, next' <= upto + 1,
         \A t \in Thread : pc'[t] = "booked" => pc[t] = "booked"
  PROVE  Rows'
  BY DEF Rows, NoRowTwice

LEMMA StepRows ==
  ASSUME ~CanFail, Inv, Intact, Unstarted, Rows, [Next]_vars
  PROVE  Rows'
  <1>0. /\ next \in 1..(MaxRows + 1) /\ upto \in Nat /\ upto <= Len(ledger)
        /\ Len(ledger) \in Nat /\ MaxRows \in Nat
        /\ next <= upto + 1
        /\ pc \in [Thread -> {"idle", "booked", "receipt", "folded"}]
        /\ bets \in [1..MaxRows -> 0..2]
    BY CounterTypes DEF Inv, TypeOK, Rows
  <1>1. ASSUME NEW p \in Proc, StartAsIs(p) PROVE Rows'
    BY <1>0, <1>1, RowsSame DEF StartAsIs, boot, sample, history
  <1>2. ASSUME NEW p \in Proc, StartFolding(p) PROVE Rows'
    BY <1>0, <1>2 DEF StartFolding, Rows, NoRowTwice, sample, history
  <1>3. ASSUME NEW p \in Proc, FoldRow(p) PROVE Rows'
    BY <1>0, <1>3, RowsSame DEF FoldRow, FoldingOver, shared, sample, history
  <1>4. ASSUME NEW p \in Proc, EndFolding(p) PROVE Rows'
    <2>1. Migrates(file)
      BY <1>4 DEF EndFolding, Inv, Undecided
    <2>2. spent = {} /\ \A t \in Thread : pc[t] = "idle"
      BY <2>1 DEF Unstarted
    <2>3. /\ bets' = [n \in 1..MaxRows |-> IF n < next THEN 1 ELSE 0]
          /\ UNCHANGED <<ledger, boot, spent, pc>>
      BY <1>4, EndFoldingIntact DEF EndFolding, sample
    <2>4. \A n \in 1..MaxRows : n > Len(ledger) => bets'[n] = 0
      BY <1>0, <2>3
    <2>5. \A n \in 1..MaxRows : bets'[n] <= 1
      BY <2>3
    <2>6. QED
      BY <1>0, <2>2, <2>3, <2>4, <2>5 DEF Rows, NoRowTwice, boot
  <1>5. ASSUME NEW p \in Proc, StartReceipt(p) \/ Refresh(p) PROVE Rows'
    BY <1>0, <1>5, RowsSame
    DEF StartReceipt, Refresh, Look, Load, NothingNew, shared, boot, sample, history
  <1>6. ASSUME NEW p \in Proc, Crash(p) PROVE Rows'
    <2> DEFINE hit == {t \in Thread : row[t] # NONE /\ row[t].proc = p}
    <2>1. /\ pc' = [t \in Thread |-> IF t \in hit THEN "idle" ELSE pc[t]]
          /\ row' = [t \in Thread |-> IF t \in hit THEN NONE ELSE row[t]]
          /\ UNCHANGED <<ledger, boot, history>>
      BY <1>6 DEF Crash
    <2>2. \A t \in Thread : pc'[t] = "booked" => pc[t] = "booked" /\ row'[t] = row[t]
      BY <2>1
    <2>3. QED
      BY <1>0, <2>1, <2>2 DEF Rows, NoRowTwice, boot, history
  <1>7. ASSUME NEW t \in Thread, Fold(t) PROVE Rows'
    <2>1. /\ pc[t] = "booked" /\ row[t].n \in 1..Len(ledger)
          /\ UNCHANGED <<ledger, boot, row, spent>>
      BY <1>7 DEF Fold, Inv, Booked
    <2>2. \E b \in BOOLEAN : Count(row[t].n, b)
      BY <1>7, FoldIntact
    <2>3. pc'[t] # "booked" /\ \A u \in Thread : pc'[u] = "booked" => pc[u] = "booked"
      <3>1. \/ pc' = [pc EXCEPT ![t] = "receipt"]
            \/ pc' = [pc EXCEPT ![t] = "folded"]
        BY <1>7, FoldIntact
      <3>2. QED
        BY <1>0, <3>1
    <2>4. /\ bets[row[t].n] = 0 /\ row[t].n \notin spent
          /\ \A u \in Thread : pc[u] = "booked" /\ u # t => row[u].n # row[t].n
      BY <2>1 DEF Rows
    <2>5. /\ \A n \in 1..MaxRows : n # row[t].n => bets'[n] = bets[n]
          /\ bets'[row[t].n] \in {0, 1}
      BY <1>0, <2>1, <2>2, <2>4 DEF Count, OneMore
    <2>6. \A u \in Thread : pc[u] = "booked" => row[u].n \in 1..Len(ledger)
      BY DEF Inv, Booked
    <2>7. NoRowTwice'
      BY <2>1, <2>4, <2>5 DEF Rows, NoRowTwice
    <2>8. \A n \in 1..MaxRows : n > Len(ledger) => bets'[n] = 0 /\ n \notin spent
      BY <1>0, <2>1, <2>5 DEF Rows
    <2>9. \A u \in Thread : pc'[u] = "booked" => bets'[row[u].n] = 0 /\ row[u].n \notin spent
      <3> SUFFICES ASSUME NEW u \in Thread, pc'[u] = "booked"
                   PROVE  bets'[row[u].n] = 0 /\ row[u].n \notin spent
        OBVIOUS
      <3>1. pc[u] = "booked" /\ u # t
        BY <2>3
      <3>2. row[u].n \in 1..MaxRows /\ row[u].n # row[t].n
        BY <2>4, <2>6, <3>1, CounterTypes DEF Inv
      <3>3. QED
        BY <2>5, <3>1, <3>2 DEF Rows
    <2>10. QED
      BY <1>0, <2>1, <2>3, <2>7, <2>8, <2>9 DEF Rows, boot
  <1>8. ASSUME NEW t \in Thread, Receipt(t) PROVE Rows'
    BY <1>0, <1>8, RowsSame DEF Receipt, boot, history
  <1>9. ASSUME NEW t \in Thread, Store(t) PROVE Rows'
    <2>1. \A u \in Thread : pc'[u] = "booked" => pc[u] = "booked" /\ row'[u] = row[u]
      BY <1>0, <1>9 DEF Store, Inv, TypeOK
    <2>2. QED
      BY <1>0, <1>9, <2>1 DEF Store, Rows, NoRowTwice, shared, boot, history
  <1>10. ASSUME NEW t \in Thread, NEW p \in Proc, NEW loss \in Loss, Book(t, p, loss)
         PROVE  Rows'
    <2> DEFINE new == Len(ledger) + 1
    <2>1. /\ ledger' = Append(ledger, loss) /\ Len(ledger) < MaxRows
          /\ row' = [row EXCEPT ![t] = [proc |-> p, n |-> new]]
          /\ pc' = [pc EXCEPT ![t] = "booked"]
          /\ UNCHANGED <<boot, history>>
      BY <1>10 DEF Book
    <2>2. Len(ledger') = new /\ new \in 1..MaxRows
      <3>1. ledger \in Seq(Loss)
        BY DEF Inv, TypeOK
      <3>2. Len(ledger') = new
        BY <2>1, <3>1, AppendProperties
      <3>3. new \in 1..MaxRows
        BY <1>0, <2>1
      <3>4. QED
        BY <3>2, <3>3
    <2>3. row'[t].n = new /\ \A u \in Thread \ {t} : row'[u] = row[u] /\ pc'[u] = pc[u]
      BY <2>1 DEF Inv, TypeOK
    <2>4. bets[new] = 0 /\ new \notin spent
      BY <1>0, <2>2 DEF Rows
    <2>5. \A u \in Thread : pc[u] = "booked" => row[u].n \in Nat /\ row[u].n < new
      <3>1. \A u \in Thread : pc[u] = "booked" => row[u].n \in 1..Len(ledger)
        BY DEF Inv, Booked
      <3>2. QED
        BY <1>0, <3>1
    <2>6. \A n \in 1..MaxRows : n > Len(ledger') => bets[n] = 0 /\ n \notin spent
      BY <1>0, <2>2 DEF Rows
    <2>7. \A u \in Thread : pc'[u] = "booked" => bets[row'[u].n] = 0 /\ row'[u].n \notin spent
      BY <2>3, <2>4 DEF Rows
    <2>8. \A u, v \in Thread : pc'[u] = "booked" /\ pc'[v] = "booked" /\ u # v =>
            row'[u].n # row'[v].n
      BY <1>0, <2>3, <2>5 DEF Rows
    <2>9. QED
      BY <2>1, <2>6, <2>7, <2>8 DEF Rows, NoRowTwice, boot, history
  <1>11. CASE Archive
    <2>1. /\ bets' = [n \in 1..MaxRows |-> 0]
          /\ spent' = spent \cup {n \in 1..MaxRows : bets[n] > 0}
          /\ UNCHANGED <<ledger, boot, pc, row>>
      BY <1>11 DEF Archive, NewProcess, sample
    <2>2. \A t \in Thread : pc[t] = "booked" => row[t].n \in 1..MaxRows
      <3>1. \A t \in Thread : pc[t] = "booked" => row[t].n \in 1..Len(ledger)
        BY DEF Inv, Booked
      <3>2. QED
        BY <1>0, <3>1, CounterTypes DEF Inv
    <2>3. \A n \in 1..MaxRows : bets'[n] = 0 /\ (n \in spent' => n \in spent \/ bets[n] > 0)
      BY <2>1
    <2>4. QED
      BY <1>0, <2>1, <2>2, <2>3 DEF Rows, NoRowTwice, boot
  <1>12. ASSUME NEW ok \in Written, Renew(ok) PROVE Rows'
    BY <1>0, <1>12, RowsSame DEF Renew, boot, sample, history
  <1>13. CASE Kill \/ Damage \/ Rebudget
    BY <1>13 DEF Kill, Damage, Rebudget
  <1>14. CASE UNCHANGED vars
    BY <1>0, <1>14, RowsSame DEF vars, shared, boot, sample, history
  <1>15. QED
    BY <1>1, <1>2, <1>3, <1>4, <1>5, <1>6, <1>7, <1>8, <1>9, <1>10, <1>11, <1>12, <1>13, <1>14
    DEF Next, Mishap, Start, Proceed, Observe

-----------------------------------------------------------------------------
(* A trip has one receipt.                                                 *)

\* Steps that neither touch the file nor come to or from a receipt.
LEMMA TripsSame ==
  ASSUME Trips, file' = file, receipts' = receipts,
         \A p \in Proc : phase'[p] = "receipt" <=> phase[p] = "receipt",
         \A t \in Thread : pc'[t] = "receipt" <=> pc[t] = "receipt",
         file.kind = "state" /\ ~file.current =>
           /\ \A t \in Thread : pc'[t] = "idle"
           /\ \A p \in Proc : phase'[p] \in {"boot", "look", "watch"} => held'[p]
  PROVE  Trips'
  <1>1. (Tripped(file))' <=> Tripped(file)
    BY DEF Tripped
  <1>2. AtReceipt' <=> AtReceipt
    BY DEF AtReceipt
  <1>3. QED
    BY <1>1, <1>2 DEF Trips

\* A process of an older schema that some proxy has seen is held.
LEMMA OldIsHeld ==
  ASSUME Unstarted, file.kind = "state", ~file.current,
         NEW p \in Proc, phase[p] \in {"boot", "look", "watch"}
  PROVE  Held(file)
  BY DEF Unstarted, Migrates

LEMMA StepTrips ==
  ASSUME ~CanFail, Inv, Intact, Unstarted, Trips, [Next]_vars
  PROVE  Trips'
  <1>0. /\ mem \in File /\ file \in File /\ mem.kind = "state" /\ Exclusive
        /\ phase \in [Proc -> {"down", "folding", "receipt", "boot", "look", "watch"}]
        /\ pc \in [Thread -> {"idle", "booked", "receipt", "folded"}]
        /\ held \in [Proc -> BOOLEAN] /\ receipts \in 0..2
    BY DEF Inv, TypeOK, Undecided
  <1>1. ASSUME NEW p \in Proc, StartAsIs(p) PROVE Trips'
    <2>1. /\ file' = file /\ ~Migrates(file) /\ held' = [held EXCEPT ![p] = Held(file)]
          /\ phase[p] = "down" /\ phase' = [phase EXCEPT ![p] = "boot"]
          /\ pc' = pc /\ receipts' = receipts
      BY <1>1, StartAsIsIntact DEF StartAsIs, sample
    <2>2. file.kind = "state" /\ ~file.current => Held(file)
      BY <2>1 DEF Migrates
    <2>3. file.kind = "state" /\ ~file.current =>
            /\ \A t \in Thread : pc'[t] = "idle"
            /\ \A q \in Proc : phase'[q] \in {"boot", "look", "watch"} => held'[q]
      BY <1>0, <2>1, <2>2 DEF Trips
    <2>4. QED
      BY <1>0, <2>1, <2>3, TripsSame
  <1>2. ASSUME NEW p \in Proc, StartFolding(p) PROVE Trips'
    <2>1. /\ file' = file /\ held' = held /\ pc' = pc /\ receipts' = receipts
          /\ phase[p] = "down" /\ phase' = [phase EXCEPT ![p] = "folding"]
      BY <1>2 DEF StartFolding, sample
    <2>2. QED
      BY <1>0, <2>1, TripsSame DEF Trips
  <1>3. ASSUME NEW p \in Proc, FoldRow(p) PROVE Trips'
    BY <1>3, TripsSame DEF FoldRow, Trips, shared, guard, sample
  <1>4. ASSUME NEW p \in Proc, EndFolding(p) PROVE Trips'
    <2>1. /\ phase[p] = "folding" /\ Migrates(file) /\ receipts' = receipts /\ pc' = pc
          /\ IF TripsNow(Fresh, mem)
             THEN phase' = [phase EXCEPT ![p] = "receipt"]
             ELSE phase' = [phase EXCEPT ![p] = "boot"]
      BY <1>4 DEF EndFolding, Inv, Undecided, sample
    <2>2. receipts = 0
      BY <2>1, MigratesUnheld DEF Trips, Held, Inv
    <2>3. /\ \A t \in Thread : pc[t] # "receipt"
          /\ \A q \in Proc : phase[q] # "receipt"
      BY <2>1 DEF Unstarted
    <2>4. /\ file'.kind = "state" /\ file'.current
          /\ Tripped(file') <=> Tripped(mem)
      <3>1. file' = [mem EXCEPT !.current = TRUE]
        BY <1>4, EndFoldingIntact
      <3>2. QED
        BY <1>0, <3>1, CurrentType
    <2>5. CASE Tripped(mem)
      <3>1. phase' = [phase EXCEPT ![p] = "receipt"]
        BY <2>1, <2>5, FileTypes DEF TripsNow
      <3>2. AtReceipt'
        BY <1>0, <3>1 DEF AtReceipt
      <3>3. QED
        BY <2>1, <2>2, <2>4, <2>5, <3>2 DEF Trips, Tripped
    <2>6. CASE ~Tripped(mem)
      <3>1. phase' = [phase EXCEPT ![p] = "boot"]
        BY <2>1, <2>6 DEF TripsNow
      <3>2. ~AtReceipt'
        BY <1>0, <2>1, <2>3, <3>1 DEF AtReceipt
      <3>3. QED
        BY <2>1, <2>2, <2>4, <2>6, <3>2 DEF Trips, Tripped
    <2>7. QED
      BY <2>5, <2>6
  <1>5. ASSUME NEW p \in Proc, StartReceipt(p) PROVE Trips'
    <2>1. /\ phase[p] = "receipt" /\ receipts' = OneMore(receipts) /\ file' = file /\ pc' = pc
          /\ phase' = [phase EXCEPT ![p] = "boot"] /\ held' = held
      BY <1>5 DEF StartReceipt, sample
    <2>2. receipts = 0 /\ Tripped(file) /\ file.current
      BY <2>1 DEF Trips, AtReceipt
    <2>3. receipts' = 1
      BY <2>1, <2>2 DEF OneMore
    <2>4. ~AtReceipt'
      <3>1. lock = p
        BY <1>0, <2>1 DEF Exclusive
      <3>2. /\ \A q \in Proc : phase[q] = "receipt" => q = p
            /\ \A t \in Thread : pc[t] # "receipt"
        BY <1>0, <3>1, DriftAssumption DEF Exclusive
      <3>3. QED
        BY <1>0, <2>1, <3>2 DEF AtReceipt
    <2>5. QED
      BY <2>1, <2>2, <2>3, <2>4 DEF Trips, Tripped
  <1>6. ASSUME NEW p \in Proc, Refresh(p) PROVE Trips'
    <2>1. /\ file' = file /\ pc' = pc /\ receipts' = receipts
          /\ \A q \in Proc : phase'[q] = "receipt" <=> phase[q] = "receipt"
          /\ \A q \in Proc : phase'[q] \in {"boot", "look", "watch"}
                             => phase[q] \in {"boot", "look", "watch"}
      BY <1>0, <1>6 DEF Refresh, Look, Load, NothingNew, shared, sample
    <2>2. \A q \in Proc : held'[q] = held[q] \/ (phase[q] = "look" /\ held'[q] = Held(file))
      <3>1. CASE Load(p)
        <4>1. phase[p] = "look" /\ held' = [held EXCEPT ![p] = Held(file)]
          BY <3>1, IntactChoices DEF Load
        <4>2. QED
          BY <1>0, <4>1
      <3>2. CASE Look(p)
        BY <3>2 DEF Look
      <3>3. CASE NothingNew(p)
        BY <3>3 DEF NothingNew
      <3>4. QED
        BY <1>6, <3>1, <3>2, <3>3 DEF Refresh
    <2>3. file.kind = "state" /\ ~file.current =>
            /\ \A t \in Thread : pc'[t] = "idle"
            /\ \A q \in Proc : phase'[q] \in {"boot", "look", "watch"} => held'[q]
      BY <2>1, <2>2, OldIsHeld DEF Trips
    <2>4. QED
      BY <2>1, <2>3, TripsSame
  <1>7. ASSUME NEW p \in Proc, Crash(p) PROVE Trips'
    <2> DEFINE hit == {t \in Thread : row[t] # NONE /\ row[t].proc = p}
    <2>1. /\ CanCrash /\ file' = file /\ receipts' = receipts
          /\ phase' = [phase EXCEPT ![p] = "down"] /\ held' = [held EXCEPT ![p] = FALSE]
          /\ pc' = [t \in Thread |-> IF t \in hit THEN "idle" ELSE pc[t]]
      BY <1>7 DEF Crash
    <2>2. AtReceipt' => AtReceipt
      BY <1>0, <2>1 DEF AtReceipt
    <2>3. \A q \in Proc : phase'[q] \in {"boot", "look", "watch"}
                          => phase'[q] = phase[q] /\ held'[q] = held[q]
      BY <1>0, <2>1
    <2>4. \A t \in Thread : pc[t] = "idle" => pc'[t] = "idle"
      BY <2>1
    <2>5. QED
      BY <2>1, <2>2, <2>3, <2>4 DEF Trips, Tripped
  <1>8. ASSUME NEW t \in Thread, Fold(t) PROVE Trips'
    <2>1. PICK s \in File :
            LET after == Bet(s, ledger[row[t].n])
            IN /\ s.kind = "state"
               /\ Tripped(s) <=> Tripped(file)
               /\ after \in File /\ after.kind = "state"
               /\ Tripped(s) => Tripped(after)
               /\ file' = [after EXCEPT !.current = TRUE]
               /\ IF TripsNow(s, after)
                  THEN pc' = [pc EXCEPT ![t] = "receipt"] /\ lock' = t
                  ELSE pc' = [pc EXCEPT ![t] = "folded"] /\ UNCHANGED lock
      BY <1>8, FoldIntact
    <2> DEFINE after == Bet(s, ledger[row[t].n])
    <2>2. file'.kind = "state" /\ file'.current /\ (Tripped(file') <=> Tripped(after))
      BY <2>1, CurrentType
    <2>3. lock = NONE /\ pc[t] = "booked" /\ phase' = phase /\ receipts' = receipts
      BY <1>8 DEF Fold
    <2>4. ~AtReceipt
      BY <1>0, <2>3, LockFree DEF AtReceipt
    <2>5. Tripped(file) => file.current
      BY <2>3 DEF Trips, Tripped
    <2>6. CASE TripsNow(s, after)
      <3>1. AtReceipt'
        BY <1>0, <2>1, <2>6 DEF AtReceipt
      <3>2. Tripped(after) /\ ~Tripped(s)
        BY <2>6 DEF TripsNow
      <3>3. QED
        BY <2>1, <2>2, <2>3, <3>1, <3>2 DEF Trips, Tripped
    <2>7. CASE ~TripsNow(s, after)
      <3>1. ~AtReceipt'
        BY <1>0, <2>1, <2>3, <2>4, <2>7 DEF AtReceipt
      <3>2. Tripped(after) <=> Tripped(file)
        BY <2>1, <2>7 DEF TripsNow
      <3>3. QED
        BY <2>1, <2>2, <2>3, <2>4, <2>5, <3>1, <3>2 DEF Trips, Tripped
    <2>8. QED
      BY <2>6, <2>7
  <1>9. ASSUME NEW t \in Thread, Receipt(t) PROVE Trips'
    <2>1. /\ pc[t] = "receipt" /\ receipts' = OneMore(receipts) /\ file' = file /\ phase' = phase
          /\ pc' = [pc EXCEPT ![t] = "folded"]
      BY <1>9 DEF Receipt, guard
    <2>2. receipts = 0 /\ Tripped(file) /\ file.current
      BY <2>1 DEF Trips, AtReceipt
    <2>3. receipts' = 1
      BY <2>1, <2>2 DEF OneMore
    <2>4. ~AtReceipt'
      <3>1. lock = t
        BY <1>0, <2>1 DEF Exclusive
      <3>2. /\ \A u \in Thread : pc[u] = "receipt" => u = t
            /\ \A p \in Proc : phase[p] # "receipt"
        BY <1>0, <3>1, DriftAssumption DEF Exclusive
      <3>3. QED
        BY <1>0, <2>1, <3>2 DEF AtReceipt
    <2>5. QED
      BY <2>1, <2>2, <2>3, <2>4 DEF Trips, Tripped
  <1>10. ASSUME NEW t \in Thread, Store(t) PROVE Trips'
    <2>1. /\ pc[t] = "folded" /\ pc' = [pc EXCEPT ![t] = "idle"]
          /\ file' = file /\ phase' = phase /\ receipts' = receipts
      BY <1>10 DEF Store, shared
    <2>2. ~(file.kind = "state" /\ ~file.current)
      BY <2>1 DEF Trips
    <2>3. QED
      BY <1>0, <2>1, <2>2, TripsSame
  <1>11. ASSUME NEW t \in Thread, NEW p \in Proc, NEW loss \in Loss, Book(t, p, loss)
         PROVE  Trips'
    <2>1. /\ pc[t] = "idle" /\ phase[p] = "watch" /\ ~held[p]
          /\ pc' = [pc EXCEPT ![t] = "booked"]
          /\ file' = file /\ phase' = phase /\ receipts' = receipts
      BY <1>11 DEF Book, guard
    <2>2. ~(file.kind = "state" /\ ~file.current)
      BY <2>1 DEF Trips
    <2>3. QED
      BY <1>0, <2>1, <2>2, TripsSame
  <1>12. CASE Archive
    <2>1. /\ lock = NONE /\ receipts' = 0 /\ phase' = phase /\ pc' = pc
          /\ file'.kind = "missing"
      BY <1>12, FileTypes DEF Archive, NewProcess, Replace, sample
    <2>2. ~AtReceipt'
      BY <1>0, <2>1, LockFree DEF AtReceipt
    <2>3. QED
      BY <2>1, <2>2 DEF Trips, Tripped
  <1>13. ASSUME NEW ok \in Written, Renew(ok) PROVE Trips'
    <2>1. /\ cli = "archived" /\ receipts' = receipts /\ phase' = phase /\ pc' = pc
      BY <1>13 DEF Renew, sample
    <2>2. lock = CLI /\ file.kind = "missing"
      BY <1>0, <2>1 DEF Exclusive, Inv, Undecided
    <2>3. ~AtReceipt'
      BY <1>0, <2>1, <2>2, DriftAssumption DEF AtReceipt, Exclusive
    <2>4. receipts = 0
      BY <2>2 DEF Trips, Tripped
    <2>5. file'.kind = "state" /\ file'.current /\ ~Tripped(file')
      BY <1>13, RenewIntact DEF Held
    <2>6. QED
      BY <2>1, <2>3, <2>4, <2>5 DEF Trips, Tripped
  <1>14. CASE Kill \/ Damage \/ Rebudget
    BY <1>14 DEF Kill, Damage, Rebudget
  <1>15. CASE UNCHANGED vars
    BY <1>15, TripsSame DEF vars, shared, guard, sample, Trips
  <1>16. QED
    BY <1>1, <1>2, <1>3, <1>4, <1>5, <1>6, <1>7, <1>8, <1>9, <1>10, <1>11, <1>12, <1>13, <1>14,
       <1>15
    DEF Next, Mishap, Start, Proceed, Observe

-----------------------------------------------------------------------------
LEMMA InitHistories == Init => Histories
  <1> SUFFICES ASSUME Init PROVE Histories
    OBVIOUS
  <1>1. Intact
    <2>1. CASE file = Missing
      BY <2>1, FileTypes DEF Init, Intact, Fresh
    <2>2. CASE \E l \in 0..Limit : file = [Fresh EXCEPT !.level = l, !.current = FALSE]
      BY <2>2, FileTypes DEF Init, Intact, Fresh
    <2>3. QED
      BY <2>1, <2>2 DEF Init
  <1>2. /\ \A p \in Proc : phase[p] = "down"
        /\ \A t \in Thread : pc[t] = "idle"
        /\ \A n \in 1..MaxRows : bets[n] = 0
        /\ spent = {} /\ receipts = 0 /\ next = 1 /\ upto = 0
    BY DEF Init
  <1>3. Unstarted
    BY <1>2 DEF Unstarted
  <1>4. Rows
    BY <1>2 DEF Rows, NoRowTwice
  <1>5. Trips
    <2>1. file.kind = "missing" \/ file.current = FALSE
      BY FileTypes DEF Init, File
    <2>2. file.kind = "missing" => ~Tripped(file)
      BY DEF Tripped
    <2>3. QED
      BY <1>2, <2>1, <2>2 DEF Trips, AtReceipt
  <1>6. QED
    BY <1>1, <1>3, <1>4, <1>5 DEF Histories

THEOREM HistoriesInvariant ==
  ASSUME ~CanFail
  PROVE  Spec => [](Inv /\ Histories)
  <1>1. Inv /\ Histories /\ [Next]_vars => Histories'
    BY StepIntact, StepUnstarted, StepRows, StepTrips DEF Histories
  <1>2. Inv /\ [Next]_vars => Inv'
    BY StepType, StepExclusive, StepUndecided DEF Inv
  <1>3. QED
    BY <1>1, <1>2, InitInv, InitHistories, PTL DEF Spec

\* No row of shadow.jsonl is bet twice, whatever the order in which proxies start, fold,
\* die and are released, as long as drift.json can be read and written.
THEOREM RowsBetOnce ==
  ASSUME ~CanFail
  PROVE  Spec => []NoRowTwice
  <1>1. Inv /\ Histories => NoRowTwice
    BY DEF Histories, Rows
  <1>2. QED
    BY <1>1, HistoriesInvariant, PTL

\* A trip has at most one receipt, and one as soon as the lock is free when no proxy dies.
THEOREM OneReceipt ==
  ASSUME ~CanFail
  PROVE  Spec => []TripReceipted
  <1>1. Inv /\ Histories => TripReceipted
    <2> SUFFICES ASSUME Inv, Histories PROVE TripReceipted
      OBVIOUS
    <2>1. receipts <= 1
      BY DEF Histories, Trips
    <2>2. lock = NONE => ~AtReceipt
      BY LockFree DEF Inv, AtReceipt
    <2>3. QED
      BY <2>1, <2>2 DEF Histories, Trips, TripReceipted
  <1>2. QED
    BY <1>1, HistoriesInvariant, PTL
-----------------------------------------------------------------------------
(* The watchers, when drift.json can be read and written.                  *)

\* What a watcher that takes no samples holds is what the file says, unless the file has
\* been replaced since it looked (DriftGuard.refresh): the part of WatchersNotice that does
\* not depend on when the polls come.
WatchersUpToDate ==
  cli = "idle" =>
    \A p \in Proc \ Sampler : phase[p] = "watch" /\ ~Stale(p) => held[p] = Held(file)

\* A file that a reset took away is back when the reset ends; rows are booked by samplers;
\* and whoever has seen the file as it is now has loaded it, or is about to.
Watched ==
  /\ file.kind = "missing" /\ archived => cli = "archived"
  /\ \A t \in Thread : pc[t] # "idle" => row[t].proc \in Sampler
  /\ \A p \in Proc : phase[p] \notin {"look", "watch"} => seen[p] # "now"
  /\ \A p \in Proc \ Sampler : phase[p] = "watch" /\ seen[p] = "now" => held[p] = Held(file)

LEMMA NobodyUpToDate ==
  ASSUME TypeOK, NEW f, Replace(f)
  PROVE  \A p \in Proc : seen'[p] # "now"
  BY DEF Replace, TypeOK

\* A writer leaves a file that is there and that nobody has seen.
LEMMA WatchedWritten ==
  ASSUME Watched, file'.kind # "missing", \A p \in Proc : seen'[p] # "now",
         \A t \in Thread : pc'[t] # "idle" => pc[t] # "idle" /\ row'[t] = row[t]
  PROVE  Watched'
  BY DEF Watched

LEMMA WatchedStart ==
  ASSUME ~CanFail, Inv, Intact, Watched, NEW p \in Proc, Start(p)
  PROVE  Watched'
  <1>0. /\ phase \in [Proc -> {"down", "folding", "receipt", "boot", "look", "watch"}]
        /\ held \in [Proc -> BOOLEAN]
    BY DEF Inv, TypeOK
  <1>1. CASE StartAsIs(p)
    <2>1. file' = file /\ held' = [held EXCEPT ![p] = Held(file)] /\ phase[p] = "down"
      BY <1>1, StartAsIsIntact DEF StartAsIs
    <2>2. /\ phase' = [phase EXCEPT ![p] = "boot"] /\ archived' = archived
          /\ UNCHANGED <<row, pc, cli>>
      BY <1>1 DEF StartAsIs, sample, reset
    <2>3. \A q \in Proc : seen'[q] = "now" => seen[q] = "now"
      <3>1. PICK f \in Readings, copied \in Copied, ok \in Written :
              LET s == LoadForWrite(f, copied)
              IN IF s.quarantined THEN Write(s, ok) ELSE UNCHANGED <<file, seen>>
        BY <1>1 DEF StartAsIs
      <3> DEFINE s == LoadForWrite(f, copied)
      <3>2. CASE s.quarantined
        BY <3>1, <3>2, NobodyUpToDate DEF Write, Inv
      <3>3. CASE ~s.quarantined
        BY <3>1, <3>3
      <3>4. QED
        BY <3>2, <3>3
    <2>4. QED
      BY <1>0, <2>1, <2>2, <2>3 DEF Watched
  <1>2. CASE StartFolding(p)
    BY <1>0, <1>2 DEF StartFolding, Watched, sample, reset
  <1>3. QED
    BY <1>1, <1>2 DEF Start

LEMMA WatchedProceed ==
  ASSUME ~CanFail, Inv, Watched, NEW p \in Proc, Proceed(p)
  PROVE  Watched'
  <1>0. /\ phase \in [Proc -> {"down", "folding", "receipt", "boot", "look", "watch"}]
        /\ held \in [Proc -> BOOLEAN] /\ seen \in [Proc -> {"none", "old", "now"}]
    BY DEF Inv, TypeOK
  <1>1. CASE FoldRow(p)
    BY <1>1 DEF FoldRow, Watched, shared, guard, sample, reset
  <1>2. CASE EndFolding(p)
    <2>1. PICK ok \in Written : Write(mem, ok)
      BY <1>2 DEF EndFolding
    <2>2. ok = TRUE /\ mem.kind = "state" /\ mem \in File
      BY IntactChoices DEF Inv, TypeOK, Undecided
    <2>3. \A q \in Proc : seen'[q] # "now"
      BY <2>1, <2>2, NobodyUpToDate DEF Write, Inv
    <2>4. file'.kind = "state"
      BY <1>2, <2>2, EndFoldingIntact, CurrentType
    <2>5. QED
      BY <1>2, <2>3, <2>4, WatchedWritten DEF EndFolding, sample
  <1>3. CASE StartReceipt(p)
    BY <1>0, <1>3 DEF StartReceipt, Watched, sample, reset
  <1>4. CASE Look(p)
    BY <1>0, <1>4 DEF Look, Watched, shared, sample, reset
  <1>5. CASE Load(p)
    <2>1. held' = [held EXCEPT ![p] = Held(file)]
      BY <1>5, IntactChoices DEF Load
    <2>2. QED
      BY <1>0, <1>5, <2>1 DEF Load, Watched, shared, sample, reset
  <1>6. CASE NothingNew(p)
    BY <1>0, <1>6 DEF NothingNew, Watched, shared, sample, reset
  <1>7. QED
    BY <1>1, <1>2, <1>3, <1>4, <1>5, <1>6 DEF Proceed, Refresh

LEMMA WatchedSample ==
  ASSUME ~CanFail, Inv, Intact, Watched, NEW t \in Thread,
         Observe(t) \/ \E p \in Proc, loss \in Loss : Book(t, p, loss)
  PROVE  Watched'
  <1>0. /\ held \in [Proc -> BOOLEAN] /\ pc \in [Thread -> {"idle", "booked", "receipt", "folded"}]
        /\ row \in [Thread -> [proc : Proc, n : 1..MaxRows] \cup {NONE}]
    BY DEF Inv, TypeOK
  <1>1. CASE Fold(t)
    <2>1. PICK s \in File, ok \in Written :
            /\ s.kind \in {"state", "bad"}
            /\ file.kind = "state" => s = file
            /\ file.kind = "missing" => s = Fresh
            /\ Write(Bet(s, ledger[row[t].n]), ok)
      BY <1>1, FoldEffect
    <2>2. file \in File /\ s.kind = "state" /\ ok = TRUE
      BY <2>1, FileTypes, IntactChoices DEF Inv, TypeOK, Intact, File
    <2>3. Bet(s, ledger[row[t].n]) \in File /\ Bet(s, ledger[row[t].n]).kind = "state"
      BY <2>2, BetEffect
    <2>4. file'.kind = "state" /\ \A q \in Proc : seen'[q] # "now"
      <3>1. file' = [Bet(s, ledger[row[t].n]) EXCEPT !.current = TRUE]
        BY <2>1, <2>2, <2>3, WriteEffect DEF Inv
      <3>2. Replace([Bet(s, ledger[row[t].n]) EXCEPT !.current = TRUE])
        BY <2>1, <2>2, <2>3 DEF Write
      <3>3. QED
        BY <2>3, <3>1, <3>2, CurrentType, NobodyUpToDate DEF Inv
    <2>5. row' = row /\ \A u \in Thread : pc'[u] # "idle" => pc[u] # "idle"
      BY <1>0, <1>1 DEF Fold
    <2>6. QED
      BY <2>4, <2>5, WatchedWritten
  <1>2. CASE Receipt(t)
    BY <1>2 DEF Receipt, Watched, guard, reset
  <1>3. CASE Store(t)
    <2>1. row[t].proc \in Sampler
      BY <1>3 DEF Store, Watched
    <2>2. \A q \in Proc \ Sampler : held'[q] = held[q]
      BY <1>0, <1>3, <2>1 DEF Store
    <2>3. \A u \in Thread : pc'[u] # "idle" => pc[u] # "idle" /\ row'[u] = row[u]
      BY <1>0, <1>3 DEF Store
    <2>4. QED
      BY <1>3, <2>2, <2>3 DEF Store, Watched, shared, reset
  <1>4. ASSUME NEW p \in Proc, NEW loss \in Loss, Book(t, p, loss) PROVE Watched'
    BY <1>0, <1>4 DEF Book, Watched, guard, reset
  <1>5. QED
    BY <1>1, <1>2, <1>3, <1>4 DEF Observe

LEMMA WatchedReset ==
  ASSUME ~CanFail, Inv, Watched, Archive \/ \E ok \in Written : Renew(ok)
  PROVE  Watched'
  <1>1. CASE Archive
    <2>1. \A p \in Proc : seen'[p] = "now" => seen[p] = "now" /\ file' = file
      BY <1>1, NobodyUpToDate DEF Archive, Inv
    <2>2. QED
      BY <1>1, <2>1 DEF Archive, Watched, sample
  <1>2. ASSUME NEW ok \in Written, Renew(ok) PROVE Watched'
    <2>1. ok = TRUE /\ Write(Fresh, ok) /\ file'.kind = "state" /\ UNCHANGED <<row, pc>>
      BY <1>2, IntactChoices, RenewIntact DEF Renew, sample
    <2>2. \A p \in Proc : seen'[p] # "now"
      BY <2>1, FileTypes, NobodyUpToDate DEF Write, Inv
    <2>3. QED
      BY <2>1, <2>2, WatchedWritten
  <1>3. QED
    BY <1>1, <1>2

LEMMA StepWatched ==
  ASSUME ~CanFail, Inv, Intact, Watched, [Next]_vars
  PROVE  Watched'
  <1>1. ASSUME NEW p \in Proc, Crash(p) PROVE Watched'
    <2>1. /\ phase' = [phase EXCEPT ![p] = "down"] /\ held' = [held EXCEPT ![p] = FALSE]
          /\ seen' = [seen EXCEPT ![p] = "none"] /\ UNCHANGED <<file, archived, cli>>
          /\ \A t \in Thread : pc'[t] # "idle" => pc[t] # "idle" /\ row'[t] = row[t]
      BY <1>1 DEF Crash, reset
    <2>2. /\ phase \in [Proc -> {"down", "folding", "receipt", "boot", "look", "watch"}]
          /\ held \in [Proc -> BOOLEAN] /\ seen \in [Proc -> {"none", "old", "now"}]
      BY DEF Inv, TypeOK
    <2>3. QED
      BY <2>1, <2>2 DEF Watched
  <1>2. CASE Kill \/ Damage \/ Rebudget
    BY <1>2 DEF Kill, Damage, Rebudget
  <1>3. CASE UNCHANGED vars
    BY <1>3 DEF vars, shared, guard, sample, reset, Watched
  <1>4. QED
    BY <1>1, <1>2, <1>3, WatchedStart, WatchedProceed, WatchedSample, WatchedReset DEF Next, Mishap

\* Between resets, every watcher that takes no samples serves as drift.json says, or has
\* still to look at a file that was replaced; the hold of one proxy reaches all the others
\* however starts, folds, deaths and releases interleave, if drift.json can be read and
\* written.
THEOREM WatchersFollow ==
  ASSUME ~CanFail
  PROVE  Spec => []WatchersUpToDate
  <1>1. Init => Watched
    <2> SUFFICES ASSUME Init PROVE Watched
      OBVIOUS
    <2>1. /\ archived = FALSE /\ \A t \in Thread : pc[t] = "idle"
          /\ \A p \in Proc : seen[p] = "none"
      BY DEF Init
    <2>2. QED
      BY <2>1 DEF Watched
  <1>2. Inv /\ Histories /\ Watched /\ [Next]_vars => Watched'
    BY StepWatched DEF Histories
  <1>3. Inv /\ Histories /\ Watched => WatchersUpToDate
    <2> SUFFICES ASSUME Inv, Histories, Watched, cli = "idle",
                        NEW p \in Proc \ Sampler, phase[p] = "watch", ~Stale(p)
                 PROVE  held[p] = Held(file)
      BY DEF WatchersUpToDate
    <2>1. file.kind # "missing"
      <3> SUFFICES ASSUME file.kind = "missing" PROVE FALSE
        OBVIOUS
      <3>1. Migrates(file)
        BY DEF Watched, Migrates
      <3>2. QED
        BY <3>1 DEF Histories, Unstarted
    <2>2. seen[p] = "now"
      BY <2>1 DEF Stale, Inv, TypeOK
    <2>3. QED
      BY <2>2 DEF Watched
  <1>4. QED
    BY <1>1, <1>2, <1>3, HistoriesInvariant, PTL DEF Spec
=============================================================================
