--------------------------- MODULE Answers_proofs ---------------------------
(***************************************************************************)
(* Proofs about what a client is answered: the events of a spliced stream  *)
(* (StreamSplice), for any number of re-queries and blocks, the calls of   *)
(* the MCP proxy (McpProxy), for all servers, client ids and numbers of    *)
(* calls, and the requests of a conversation whose thinking the guard      *)
(* keeps or takes out (Requests), for any number of workers and turns.     *)
(***************************************************************************)
EXTENDS McpProxy, StreamSplice, Requests, SequenceTheorems, FiniteSetTheorems,
        WellFoundedInduction, TLAPS

-----------------------------------------------------------------------------
(* StreamSplice: what the client reads of a spliced answer.                *)

ShownOpen == {m \in 1..Len(shown) : shown[m].t = "open"}

\* What OneMessage says of an event of a block, for any number of indices.
EventFits(n) ==
  /\ shown[n].kind # "expand"
  /\ shown[n].t = "start" => n = 1
  /\ shown[n].t = "open" => /\ shown[n].i = Cardinality({m \in 1..(n - 1) : shown[m].t = "open"})
                            /\ cut \/ \A i \in Nat : ~Opened(i, n - 1)
  /\ shown[n].t \in {"delta", "close"} => Opened(shown[n].i, n - 1)

Fits == \A n \in DOMAIN shown : EventFits(n)

\* The next index is the number of blocks the client was shown.
Numbered ==
  /\ nextIndex = Cardinality(ShownOpen)
  /\ \A m \in ShownOpen : shown[m].i < nextIndex

\* The tail and the terminator are the last two events, of a message that is ended.
Ending ==
  /\ phase # "ended" => \A n \in DOMAIN shown : shown[n].t \notin {"tail", "stop"}
  /\ phase = "ended" =>
       /\ shown # << >> /\ shown[Len(shown)].t = "stop"
       /\ \A n \in DOMAIN shown :
            /\ shown[n].t = "stop" => n = Len(shown)
            /\ shown[n].t = "tail" => n = Len(shown) - 1 /\ (cut \/ \A i \in Nat : ~Opened(i, n - 1))

Going == phase \in {"reading", "sending"}

\* The client was shown the start before anything else.
Started == Going => /\ shown # << >> => shown[1].t = "start"
                    /\ begun => shown # << >>

\* The block the client has open is the block that is read, and no other unless an answer
\* stopped inside one.
Facing == InBlock /\ blocks[Len(blocks)].kind # "expand"

OpenNow ==
  Going => /\ phase = "reading" /\ Facing => Opened(blocks[Len(blocks)].at, Len(shown))
           /\ ~cut => \A i \in Nat : Opened(i, Len(shown)) =>
                        phase = "reading" /\ Facing /\ blocks[Len(blocks)].at = i

\* The stop_reason that is held back is that of the answer that is read, and its last event.
TailHeld ==
  tail # NoTail => /\ begun /\ ~InBlock /\ tail.of = splice
                   /\ Has("tool") => tail.reason = "tool_use"

\* A call the client must run is in the answer that is read.
ToolsNow ==
  /\ \A n \in DOMAIN shown : shown[n].t = "open" /\ shown[n].kind = "tool" =>
       /\ phase = "reading" => Has("tool") /\ shown[n].of = splice
       /\ phase # "sending"

\* The blocks of the client's have an index toward it.
Indexed == \A b \in DOMAIN blocks : blocks[b].kind # "expand" => blocks[b].at \in Nat

SpliceInv ==
  /\ SpliceTypeOK /\ Fits /\ Numbered /\ Ending /\ Started /\ OpenNow /\ TailHeld /\ ToolsNow
  /\ Indexed /\ ToolsRun
  /\ phase = "reading" => Len(asked) = splice
  /\ phase = "sending" => \/ asked = << >> /\ splice = 0 /\ blocks = << >>
                          \/ Len(asked) = splice + 1

-----------------------------------------------------------------------------
(* What a step does to the events.                                         *)

LEMMA SpliceShapes ==
  ASSUME SpliceTypeOK
  PROVE  /\ shown \in Seq(ClientEvents) /\ DOMAIN shown = 1..Len(shown) /\ Len(shown) \in Nat
         /\ \A n \in DOMAIN shown : shown[n] \in ClientEvents
         /\ shown = << >> <=> Len(shown) = 0
         /\ blocks \in Seq(AnswerBlocks) /\ DOMAIN blocks = 1..Len(blocks) /\ Len(blocks) \in Nat
         /\ \A b \in DOMAIN blocks : blocks[b] \in AnswerBlocks
         /\ blocks = << >> <=> Len(blocks) = 0
         /\ Last(blocks) = blocks[Len(blocks)] /\ Last(shown) = shown[Len(shown)]
  <1>1. shown \in Seq(ClientEvents) /\ blocks \in Seq(AnswerBlocks)
    BY DEF SpliceTypeOK
  <1>2. QED
    BY <1>1, LenProperties, ElementOfSeq, EmptySeq DEF Last

\* An event more leaves those before it as they were.
LEMMA Shows ==
  ASSUME SpliceTypeOK, NEW e \in ClientEvents, shown' = Append(shown, e)
  PROVE  /\ shown' \in Seq(ClientEvents) /\ Len(shown') = Len(shown) + 1
         /\ DOMAIN shown' = 1..(Len(shown) + 1)
         /\ \A m \in 1..Len(shown) : shown'[m] = shown[m]
         /\ shown'[Len(shown) + 1] = e
  BY SpliceShapes, AppendProperties, LenProperties

\* A block of the client's is open after n events, whatever follows.
LEMMA OpenedBefore ==
  ASSUME NEW k \in Nat, \A m \in 1..k : shown'[m] = shown[m], NEW i, NEW n \in 0..k
  PROVE  Opened(i, n)' <=> Opened(i, n)
  BY DEF Opened

LEMMA OpenedAfter ==
  ASSUME NEW k \in Nat, \A m \in 1..k : shown'[m] = shown[m], NEW i
  PROVE  Opened(i, k + 1)' <=> \/ shown'[k + 1].t = "open" /\ shown'[k + 1].i = i
                               \/ /\ Opened(i, k)
                                  /\ ~(shown'[k + 1].t = "close" /\ shown'[k + 1].i = i)
  <1>1. \A m \in 1..(k + 1) : m \in 1..k \/ m = k + 1
    OBVIOUS
  <1>2. 1..k \subseteq 1..(k + 1) /\ k + 1 \in 1..(k + 1)
    OBVIOUS
  <1>3. ASSUME Opened(i, k + 1)'
        PROVE  \/ shown'[k + 1].t = "open" /\ shown'[k + 1].i = i
               \/ Opened(i, k) /\ ~(shown'[k + 1].t = "close" /\ shown'[k + 1].i = i)
    <2>1. PICK m \in 1..(k + 1) : /\ shown'[m].t = "open" /\ shown'[m].i = i
                                  /\ \A l \in m..(k + 1) : ~(shown'[l].t = "close" /\ shown'[l].i = i)
      BY <1>3 DEF Opened
    <2>2. CASE m = k + 1
      BY <2>1, <2>2
    <2>3. CASE m \in 1..k
      <3>1. k + 1 \in m..(k + 1) /\ m..k \subseteq m..(k + 1) /\ m..k \subseteq 1..k
        BY <2>3
      <3>2. QED
        BY <2>1, <2>3, <3>1 DEF Opened
    <2>4. QED
      BY <1>1, <2>2, <2>3
  <1>4. ASSUME shown'[k + 1].t = "open" /\ shown'[k + 1].i = i PROVE Opened(i, k + 1)'
    <2>1. \A l \in (k + 1)..(k + 1) : l = k + 1
      OBVIOUS
    <2>2. QED
      BY <1>2, <1>4, <2>1 DEF Opened
  <1>5. ASSUME Opened(i, k), ~(shown'[k + 1].t = "close" /\ shown'[k + 1].i = i)
        PROVE  Opened(i, k + 1)'
    <2>1. PICK m \in 1..k : /\ shown[m].t = "open" /\ shown[m].i = i
                            /\ \A l \in m..k : ~(shown[l].t = "close" /\ shown[l].i = i)
      BY <1>5 DEF Opened
    <2>2. \A l \in m..(k + 1) : l = k + 1 \/ (l \in m..k /\ l \in 1..k)
      OBVIOUS
    <2>3. \A l \in m..(k + 1) : ~(shown'[l].t = "close" /\ shown'[l].i = i)
      BY <1>5, <2>1, <2>2
    <2>4. QED
      BY <1>2, <2>1, <2>3 DEF Opened
  <1>6. QED
    BY <1>3, <1>4, <1>5

\* What a step that shows nothing leaves alone.
LEMMA FitsBefore ==
  ASSUME NEW k \in Nat, \A m \in 1..k : shown'[m] = shown[m], cut => cut',
         NEW n \in 1..k, EventFits(n)
  PROVE  EventFits(n)'
  <1>1. n - 1 \in 0..k /\ 1..(n - 1) \subseteq 1..k
    OBVIOUS
  <1>2. {m \in 1..(n - 1) : shown'[m].t = "open"} = {m \in 1..(n - 1) : shown[m].t = "open"}
    BY <1>1
  <1>3. \A i : Opened(i, n - 1)' <=> Opened(i, n - 1)
    BY <1>1, OpenedBefore
  <1>4. QED
    BY <1>2, <1>3 DEF EventFits

\* One event of a block.
LEMMA ShowStep ==
  ASSUME SpliceInv, phase = "reading", NEW e \in ClientEvents, shown' = Append(shown, e), cut' = cut,
         e.t \in {"start", "open", "delta", "close"}, e.kind # "expand",
         e.t = "start" => shown = << >>,
         e.t = "open" => e.i = nextIndex /\ (cut \/ \A i \in Nat : ~Opened(i, Len(shown))),
         e.t \in {"delta", "close"} => Opened(e.i, Len(shown)),
         nextIndex' = IF e.t = "open" THEN nextIndex + 1 ELSE nextIndex
  PROVE  /\ Fits' /\ Numbered'
         /\ \A n \in DOMAIN shown' : shown'[n].t \notin {"tail", "stop"}
  <1>0. PICK k : k = Len(shown)
    OBVIOUS
  <1>1. SpliceTypeOK /\ k \in Nat /\ DOMAIN shown = 1..k /\ nextIndex \in Nat
    BY <1>0, SpliceShapes DEF SpliceInv, SpliceTypeOK
  <1>2. /\ DOMAIN shown' = 1..(k + 1) /\ Len(shown') = k + 1
        /\ \A m \in 1..k : shown'[m] = shown[m]
        /\ shown'[k + 1] = e
    BY <1>0, <1>1, Shows
  <1>3. \A m \in 1..(k + 1) : m \in 1..k \/ m = k + 1
    BY <1>1
  <1>4. ShownOpen' = ShownOpen \cup (IF e.t = "open" THEN {k + 1} ELSE {}) /\ k + 1 \notin ShownOpen
    <2>1. ShownOpen = {m \in 1..k : shown[m].t = "open"}
      BY <1>0 DEF ShownOpen
    <2>2. ShownOpen' = {m \in 1..(k + 1) : shown'[m].t = "open"}
      BY <1>2 DEF ShownOpen
    <2>3. QED
      BY <1>1, <1>2, <1>3, <2>1, <2>2
  <1>5. IsFiniteSet(ShownOpen)
    <2>1. ShownOpen \in SUBSET (1..k) /\ IsFiniteSet(1..k)
      BY <1>0, <1>1, FS_Interval DEF ShownOpen
    <2>2. QED
      BY <2>1, FS_Subset
  <1>6. Numbered'
    <2>1. nextIndex = Cardinality(ShownOpen) /\ \A m \in ShownOpen : shown[m].i < nextIndex
      BY DEF SpliceInv, Numbered
    <2>2. ShownOpen \subseteq 1..k
      BY <1>0 DEF ShownOpen
    <2>3. \A m \in ShownOpen : shown[m].i \in Nat
      BY <1>1, <2>2, SpliceShapes DEF ClientEvents
    <2>4. CASE e.t = "open"
      <3>1. Cardinality(ShownOpen') = nextIndex + 1
        BY <1>4, <1>5, <2>1, <2>4, FS_AddElement
      <3>2. \A m \in ShownOpen' : shown'[m].i < nextIndex + 1
        BY <1>1, <1>2, <1>4, <2>1, <2>2, <2>3, <2>4
      <3>3. QED
        BY <2>4, <3>1, <3>2 DEF Numbered
    <2>5. CASE e.t # "open"
      BY <1>2, <1>4, <2>1, <2>2, <2>5 DEF Numbered
    <2>6. QED
      BY <2>4, <2>5
  <1>7. ASSUME NEW n \in 1..k PROVE EventFits(n)'
    BY <1>1, <1>2, <1>7, FitsBefore DEF SpliceInv, Fits
  <1>8. EventFits(k + 1)'
    <2>0. k \in 0..k /\ k \in Nat
      BY <1>1
    <2>1. \A i : Opened(i, k)' <=> Opened(i, k)
      BY <1>2, <2>0, OpenedBefore
    <2>2. {m \in 1..((k + 1) - 1) : shown'[m].t = "open"} = ShownOpen /\ (k + 1) - 1 = k
      BY <1>0, <1>1, <1>2 DEF ShownOpen
    <2>3. e.t = "open" => e.i = Cardinality(ShownOpen)
      BY DEF SpliceInv, Numbered
    <2>4. e.t = "start" => k + 1 = 1
      BY <1>0, <1>1, SpliceShapes
    <2>5. \A i : Opened(i, (k + 1) - 1)' <=> Opened(i, Len(shown))
      BY <1>0, <2>1, <2>2
    <2>6. QED
      BY <1>2, <2>2, <2>3, <2>4, <2>5 DEF EventFits
  <1>9. \A n \in DOMAIN shown' : shown'[n].t \notin {"tail", "stop"}
    BY <1>1, <1>2, <1>3 DEF SpliceInv, Ending
  <1>10. QED
    <2>1. \A n \in 1..(k + 1) : EventFits(n)'
      BY <1>3, <1>7, <1>8
    <2>2. QED
      BY <1>2, <1>6, <1>9, <2>1 DEF Fits

\* No event.
LEMMA StillStep ==
  ASSUME SpliceInv, UNCHANGED <<shown, nextIndex>>, cut => cut'
  PROVE  /\ Fits' /\ Numbered' /\ Len(shown') = Len(shown)
         /\ \A i, n : Opened(i, n)' <=> Opened(i, n)
  <1>1. \A i, n : Opened(i, n)' <=> Opened(i, n)
    BY DEF Opened
  <1>2. Numbered'
    BY DEF SpliceInv, Numbered, ShownOpen
  <1>3. Fits'
    BY <1>1 DEF SpliceInv, Fits, EventFits
  <1>4. QED
    BY <1>1, <1>2, <1>3

\* The blocks after a step on the last of them.
LEMMA BlockAppended ==
  ASSUME SpliceTypeOK, NEW b \in AnswerBlocks, blocks' = Append(blocks, b)
  PROVE  /\ blocks' \in Seq(AnswerBlocks) /\ Len(blocks') = Len(blocks) + 1 /\ Last(blocks') = b
         /\ blocks' # << >> /\ blocks'[Len(blocks')] = b
         /\ DOMAIN blocks' = DOMAIN blocks \cup {Len(blocks) + 1}
         /\ \A m \in DOMAIN blocks : blocks'[m] = blocks[m]
  <1>1. blocks \in Seq(AnswerBlocks) /\ DOMAIN blocks = 1..Len(blocks) /\ Len(blocks) \in Nat
    BY SpliceShapes
  <1>2. /\ blocks' \in Seq(AnswerBlocks) /\ Len(blocks') = Len(blocks) + 1
        /\ blocks'[Len(blocks) + 1] = b
        /\ \A m \in 1..Len(blocks) : blocks'[m] = blocks[m]
    BY <1>1, AppendProperties
  <1>3. DOMAIN blocks' = 1..(Len(blocks) + 1)
    BY <1>2, LenProperties
  <1>4. 1..(Len(blocks) + 1) = 1..Len(blocks) \cup {Len(blocks) + 1}
    BY <1>1
  <1>5. blocks' # << >>
    BY <1>1, <1>2, EmptySeq
  <1>6. QED
    BY <1>1, <1>2, <1>3, <1>4, <1>5 DEF Last

LEMMA TopBlock ==
  ASSUME SpliceTypeOK, InBlock, NEW b \in AnswerBlocks, blocks' = [blocks EXCEPT ![Len(blocks)] = b]
  PROVE  /\ blocks' \in Seq(AnswerBlocks) /\ Len(blocks') = Len(blocks) /\ Last(blocks') = b
         /\ blocks' # << >> /\ blocks'[Len(blocks')] = b
         /\ DOMAIN blocks' = DOMAIN blocks /\ Len(blocks) \in DOMAIN blocks
         /\ \A m \in DOMAIN blocks : blocks'[m] = IF m = Len(blocks) THEN b ELSE blocks[m]
  <1>1. /\ blocks \in Seq(AnswerBlocks) /\ DOMAIN blocks = 1..Len(blocks) /\ Len(blocks) \in Nat
        /\ Len(blocks) # 0
    BY SpliceShapes DEF InBlock
  <1>2. Len(blocks) \in 1..Len(blocks)
    BY <1>1
  <1>3. blocks' \in Seq(AnswerBlocks) /\ Len(blocks') = Len(blocks) /\ DOMAIN blocks' = DOMAIN blocks
    BY <1>1, <1>2, ExceptSeq, LenProperties
  <1>4. \A m \in DOMAIN blocks : blocks'[m] = IF m = Len(blocks) THEN b ELSE blocks[m]
    OBVIOUS
  <1>5. blocks' # << >>
    BY <1>1, <1>3, EmptySeq
  <1>6. QED
    BY <1>1, <1>2, <1>3, <1>4, <1>5 DEF Last

-----------------------------------------------------------------------------
(* The steps of an answer.                                                 *)

SameTurn == phase = "reading" /\ phase' = phase /\ UNCHANGED <<splice, asked, cut>>

\* What is left to show of a step within an answer.
LEMMA TurnStep ==
  ASSUME SpliceInv, SameTurn, begun' \in BOOLEAN, nextIndex' \in Nat,
         blocks' \in Seq(AnswerBlocks), shown' \in Seq(ClientEvents),
         tail' \in [reason : {"none", "tool_use", "end_turn"}, of : 0..MaxSplices],
         Fits', Numbered', \A n \in DOMAIN shown' : shown'[n].t \notin {"tail", "stop"},
         Started', OpenNow', TailHeld', ToolsNow', Indexed'
  PROVE  SpliceInv'
  <1>1. SpliceTypeOK'
    BY DEF SpliceInv, SpliceTypeOK, SameTurn
  <1>2. Ending' /\ ToolsRun'
    BY DEF SpliceInv, Ending, ToolsRun, SameTurn
  <1>3. QED
    BY <1>1, <1>2 DEF SpliceInv, SameTurn

LEMMA MessageStartStep == ASSUME SpliceInv, MessageStart PROVE SpliceInv'
  <1>1. /\ phase = "reading" /\ SameTurn /\ begun' = TRUE
        /\ UNCHANGED <<blocks, tail, nextIndex, splice, cut>> /\ phase' = phase
    BY DEF MessageStart, Reading, SameTurn
  <1>2. SpliceTypeOK /\ begun' \in BOOLEAN /\ nextIndex' \in Nat /\ blocks' \in Seq(AnswerBlocks)
        /\ tail' \in [reason : {"none", "tool_use", "end_turn"}, of : 0..MaxSplices]
    BY <1>1, Zenon DEF SpliceInv, SpliceTypeOK
  <1>3. TailHeld' /\ Indexed'
    BY <1>1, <1>2 DEF SpliceInv, TailHeld, Indexed, InBlock, Has
  <1>4. CASE shown' = shown /\ shown # << >>
    <2>1. Fits' /\ Numbered' /\ Len(shown') = Len(shown) /\ \A i, n : Opened(i, n)' <=> Opened(i, n)
      BY <1>1, <1>4, StillStep
    <2>2. Started' /\ ToolsNow' /\ shown' \in Seq(ClientEvents)
      BY <1>1, <1>2, <1>4 DEF SpliceInv, SpliceTypeOK, Started, Going, ToolsNow, Has
    <2>3. OpenNow'
      BY <1>1, <1>4, <2>1 DEF SpliceInv, OpenNow, Going, Facing, InBlock
    <2>4. \A n \in DOMAIN shown' : shown'[n].t \notin {"tail", "stop"}
      BY <1>1, <1>4 DEF SpliceInv, Ending
    <2>5. QED
      BY <1>1, <1>2, <1>3, <2>1, <2>2, <2>3, <2>4, TurnStep
  <1>5. CASE shown' # shown \/ shown = << >>
    <2>0. PICK e : e = Event("start", 0, "none", splice)
      OBVIOUS
    <2>1. e \in ClientEvents /\ e.t = "start" /\ e.kind = "none"
      BY <1>2, <2>0 DEF Event, ClientEvents, SpliceTypeOK
    <2>2. shown = << >> /\ shown' = Append(shown, e)
      <3>1. CASE shown = << >>
        BY <1>1, <2>0, <3>1 DEF MessageStart, Show
      <3>2. CASE shown # << >>
        <4>1. shown[1].t = "start" /\ 1 \in DOMAIN shown
          BY <1>1, <1>2, <3>2, SpliceShapes DEF SpliceInv, Started, Going
        <4>2. QED
          BY <1>5, <3>2, <4>1 DEF MessageStart
      <3>3. QED
        BY <3>1, <3>2
    <2>3. /\ Fits' /\ Numbered'
          /\ \A n \in DOMAIN shown' : shown'[n].t \notin {"tail", "stop"}
      BY <1>1, <2>1, <2>2, ShowStep DEF SameTurn
    <2>4. /\ shown' \in Seq(ClientEvents) /\ Len(shown') = 1 /\ Len(shown) = 0 /\ DOMAIN shown' = 1..1
          /\ shown'[1] = e /\ shown' # << >>
      <3>1. Len(shown) = 0 /\ shown' \in Seq(ClientEvents) /\ Len(shown') = 0 + 1 /\ shown'[0 + 1] = e
            /\ DOMAIN shown' = 1..(0 + 1)
        BY <1>2, <2>1, <2>2, Shows, SpliceShapes
      <3>2. QED
        BY <3>1, EmptySeq
    <2>5. Started' /\ ToolsNow'
      BY <1>1, <2>1, <2>4 DEF Started, Going, ToolsNow
    <2>6. \A i : ~Opened(i, 1)' /\ ~Opened(i, Len(shown))
      <3>1. \A i : ~Opened(i, 1)'
        BY <2>1, <2>4 DEF Opened
      <3>2. \A i : ~Opened(i, 0)
        BY DEF Opened
      <3>3. QED
        BY <2>4, <3>1, <3>2
    <2>7. OpenNow'
      <3>1. ~Facing
        BY <1>1, <1>2, <2>6, SpliceShapes DEF SpliceInv, OpenNow, Going
      <3>2. ~Facing'
        BY <1>1, <3>1 DEF Facing, InBlock
      <3>3. \A i : ~Opened(i, Len(shown))'
        BY <2>6, <2>4 DEF Opened
      <3>4. QED
        BY <3>2, <3>3 DEF OpenNow
    <2>8. QED
      BY <1>1, <1>2, <1>3, <2>3, <2>4, <2>5, <2>7, TurnStep
  <1>6. QED
    BY <1>4, <1>5

LEMMA BlockStartStep ==
  ASSUME SpliceInv, NEW kind \in {"text", "tool", "expand"}, BlockStart(kind)
  PROVE  SpliceInv'
  <1>1. /\ phase = "reading" /\ SameTurn /\ begun = TRUE /\ ~InBlock /\ tail = NoTail
        /\ UNCHANGED <<begun, tail, splice, cut>> /\ phase' = phase
    BY Zenon DEF BlockStart, Reading, SameTurn, SpliceInv, SpliceTypeOK
  <1>2. SpliceTypeOK /\ begun' \in BOOLEAN /\ nextIndex \in Nat
        /\ tail' \in [reason : {"none", "tool_use", "end_turn"}, of : 0..MaxSplices]
    BY <1>1, Zenon DEF SpliceInv, SpliceTypeOK
  <1>3. TailHeld'
    BY <1>1 DEF TailHeld, NoTail
  <1>4. cut \/ \A i \in Nat : ~Opened(i, Len(shown))
    BY <1>1 DEF SpliceInv, OpenNow, Going, Facing
  <1>5. PICK b : b = [kind |-> kind, at |-> IF kind = "expand" THEN Hidden ELSE nextIndex,
                      open |-> TRUE, fed |-> FALSE]
    OBVIOUS
  <1>6. /\ b \in AnswerBlocks /\ b.kind = kind /\ b.open = TRUE
        /\ kind # "expand" => b.at = nextIndex
    BY <1>2, <1>5 DEF AnswerBlocks
  <1>7. blocks' = Append(blocks, b)
    BY <1>5 DEF BlockStart, NewIndex
  <1>8. /\ blocks' \in Seq(AnswerBlocks) /\ Last(blocks') = b /\ blocks' # << >>
        /\ blocks'[Len(blocks')] = b /\ DOMAIN blocks' = DOMAIN blocks \cup {Len(blocks) + 1}
        /\ \A m \in DOMAIN blocks : blocks'[m] = blocks[m]
        /\ Len(blocks') = Len(blocks) + 1
    BY <1>2, <1>6, <1>7, BlockAppended
  <1>9. Indexed'
    BY <1>2, <1>6, <1>8 DEF SpliceInv, Indexed
  <1>10. Facing' <=> kind # "expand"
    BY <1>6, <1>8 DEF Facing, InBlock
  <1>11. /\ Has("tool") => Has("tool")'
         /\ kind = "tool" => Has("tool")'
    BY <1>6, <1>8 DEF Has
  <1>12. CASE kind = "expand"
    <2>1. UNCHANGED <<nextIndex, shown>>
      BY <1>12 DEF BlockStart
    <2>2. Fits' /\ Numbered' /\ Len(shown') = Len(shown) /\ \A i, n : Opened(i, n)' <=> Opened(i, n)
      BY <1>1, <2>1, StillStep
    <2>3. Started' /\ ToolsNow' /\ shown' \in Seq(ClientEvents) /\ nextIndex' \in Nat
      BY <1>1, <1>2, <1>11, <2>1 DEF SpliceInv, SpliceTypeOK, Started, Going, ToolsNow
    <2>4. OpenNow'
      BY <1>1, <1>4, <1>10, <1>12, <2>2 DEF OpenNow
    <2>5. \A n \in DOMAIN shown' : shown'[n].t \notin {"tail", "stop"}
      BY <1>1, <2>1 DEF SpliceInv, Ending
    <2>6. QED
      BY <1>1, <1>2, <1>3, <1>8, <1>9, <2>2, <2>3, <2>4, <2>5, TurnStep
  <1>13. CASE kind # "expand"
    <2>0. PICK e : e = Event("open", nextIndex, kind, splice)
      OBVIOUS
    <2>1. /\ e \in ClientEvents /\ e.t = "open" /\ e.kind = kind /\ e.i = nextIndex /\ e.of = splice
          /\ shown' = Append(shown, e) /\ nextIndex' = nextIndex + 1
      BY <1>2, <1>13, <2>0 DEF Event, ClientEvents, SpliceTypeOK, BlockStart, Show, NewIndex
    <2>2. /\ Fits' /\ Numbered'
          /\ \A n \in DOMAIN shown' : shown'[n].t \notin {"tail", "stop"}
      BY <1>1, <1>4, <1>13, <2>1, ShowStep
    <2>3. PICK k : k = Len(shown)
      OBVIOUS
    <2>4. /\ shown' \in Seq(ClientEvents) /\ Len(shown') = k + 1 /\ k \in Nat /\ DOMAIN shown' = 1..(k + 1)
          /\ \A m \in 1..k : shown'[m] = shown[m]
          /\ shown'[k + 1] = e /\ DOMAIN shown = 1..k
      BY <1>2, <2>1, <2>3, Shows, SpliceShapes
    <2>5. Started' /\ nextIndex' \in Nat
      <3>1. shown # << >> /\ shown[1].t = "start" /\ k # 0
        BY <1>1, <1>2, <2>3, SpliceShapes DEF SpliceInv, Started, Going
      <3>2. 1 \in 1..k /\ shown' # << >>
        BY <2>4, <3>1, EmptySeq
      <3>3. QED
        BY <1>2, <2>1, <2>4, <3>1, <3>2 DEF Started
    <2>6. ToolsNow'
      <3>1. \A n \in 1..(k + 1) : n \in 1..k \/ n = k + 1
        BY <2>4
      <3>2. QED
        BY <1>1, <1>11, <2>1, <2>4, <3>1 DEF SpliceInv, ToolsNow
    <2>7. OpenNow'
      <3>1. \A i : Opened(i, k + 1)' <=> i = nextIndex \/ Opened(i, k)
        BY <2>1, <2>4, OpenedAfter
      <3>2. \A i : Opened(i, Len(shown))' <=> Opened(i, k + 1)'
        BY <2>4 DEF Opened
      <3>3. QED
        BY <1>1, <1>4, <1>6, <1>8, <1>10, <1>13, <2>3, <3>1, <3>2 DEF OpenNow
    <2>8. QED
      BY <1>1, <1>2, <1>3, <1>8, <1>9, <2>2, <2>4, <2>5, <2>6, <2>7, TurnStep
  <1>14. QED
    BY <1>12, <1>13

\* The last block goes on or ends.
LEMMA BlockGoesStep ==
  ASSUME SpliceInv, BlockDelta \/ BlockStop
  PROVE  SpliceInv'
  <1>1. /\ phase = "reading" /\ SameTurn /\ InBlock
        /\ UNCHANGED <<begun, tail, splice, cut, nextIndex>> /\ phase' = phase
    BY DEF BlockDelta, BlockStop, Reading, SameTurn
  <1>2. SpliceTypeOK /\ begun' \in BOOLEAN /\ nextIndex' \in Nat
        /\ tail' \in [reason : {"none", "tool_use", "end_turn"}, of : 0..MaxSplices]
    BY <1>1, Zenon DEF SpliceInv, SpliceTypeOK
  <1>3. PICK k, j : k = Len(shown) /\ j = Len(blocks)
    OBVIOUS
  <1>4. /\ j \in DOMAIN blocks /\ blocks[j] \in AnswerBlocks /\ Last(blocks) = blocks[j]
        /\ blocks[j].open /\ DOMAIN blocks = 1..j /\ j \in Nat /\ k \in Nat /\ DOMAIN shown = 1..k
    BY <1>1, <1>2, <1>3, SpliceShapes DEF InBlock
  <1>5. PICK t \in {"delta", "close"} :
          /\ t = "delta" => BlockDelta
          /\ t = "close" => BlockStop
    OBVIOUS
  <1>6. PICK b : b = IF t = "delta" THEN [blocks[j] EXCEPT !.fed = TRUE]
                     ELSE [blocks[j] EXCEPT !.open = FALSE]
    OBVIOUS
  <1>7. /\ b \in AnswerBlocks /\ b.kind = blocks[j].kind /\ b.at = blocks[j].at
        /\ b.open <=> t = "delta"
        /\ blocks' = [blocks EXCEPT ![Len(blocks)] = b]
    BY <1>3, <1>4, <1>5, <1>6 DEF AnswerBlocks, BlockDelta, BlockStop
  <1>8. /\ blocks' \in Seq(AnswerBlocks) /\ Len(blocks') = j /\ Last(blocks') = b /\ blocks' # << >>
        /\ blocks'[j] = b /\ DOMAIN blocks' = DOMAIN blocks
        /\ \A m \in DOMAIN blocks : blocks'[m] = IF m = j THEN b ELSE blocks[m]
    BY <1>1, <1>2, <1>3, <1>7, TopBlock
  <1>9. Indexed' /\ (Has("tool")' <=> Has("tool"))
    BY <1>4, <1>7, <1>8 DEF SpliceInv, Indexed, Has
  <1>10. TailHeld'
    BY <1>1 DEF SpliceInv, TailHeld, NoTail
  <1>11. /\ Facing <=> blocks[j].kind # "expand"
         /\ Facing' <=> t = "delta" /\ blocks[j].kind # "expand"
    BY <1>1, <1>3, <1>7, <1>8 DEF Facing, InBlock
  <1>12. CASE blocks[j].kind = "expand"
    <2>1. shown' = shown
      BY <1>4, <1>5, <1>12 DEF BlockDelta, BlockStop, ToClient
    <2>2. Fits' /\ Numbered' /\ Len(shown') = Len(shown) /\ \A i, n : Opened(i, n)' <=> Opened(i, n)
      BY <1>1, <2>1, StillStep
    <2>3. Started' /\ ToolsNow' /\ shown' \in Seq(ClientEvents)
      BY <1>1, <1>2, <1>9, <2>1 DEF SpliceInv, SpliceTypeOK, Started, Going, ToolsNow
    <2>4. OpenNow'
      BY <1>1, <1>11, <1>12, <2>2 DEF SpliceInv, OpenNow, Going
    <2>5. \A n \in DOMAIN shown' : shown'[n].t \notin {"tail", "stop"}
      BY <1>1, <2>1 DEF SpliceInv, Ending
    <2>6. QED
      BY <1>1, <1>2, <1>8, <1>9, <1>10, <2>2, <2>3, <2>4, <2>5, TurnStep
  <1>13. CASE blocks[j].kind # "expand"
    <2>0. PICK e : e = Event(t, blocks[j].at, blocks[j].kind, splice)
      OBVIOUS
    <2>1. /\ blocks[j].at \in Nat /\ Opened(blocks[j].at, k)
          /\ ~cut => \A i \in Nat : Opened(i, k) => i = blocks[j].at
      BY <1>1, <1>3, <1>4, <1>11, <1>13 DEF SpliceInv, Indexed, OpenNow, Going
    <2>2. /\ e \in ClientEvents /\ e.t = t /\ e.kind # "expand" /\ e.i = blocks[j].at
          /\ shown' = Append(shown, e)
      <3>1. /\ e.t = t /\ e.kind = blocks[j].kind /\ e.i = blocks[j].at /\ e.of = splice
            /\ e \in ClientEvents
        BY <1>2, <1>4, <1>13, <2>0, <2>1 DEF Event, ClientEvents, AnswerBlocks, SpliceTypeOK
      <3>2. shown' = Append(shown, e)
        BY <1>4, <1>5, <1>13, <2>0 DEF BlockDelta, BlockStop, ToClient, Show
      <3>3. QED
        BY <1>13, <3>1, <3>2
    <2>3. /\ Fits' /\ Numbered'
          /\ \A n \in DOMAIN shown' : shown'[n].t \notin {"tail", "stop"}
      BY <1>1, <1>3, <2>1, <2>2, ShowStep
    <2>4. /\ shown' \in Seq(ClientEvents) /\ Len(shown') = k + 1 /\ DOMAIN shown' = 1..(k + 1)
          /\ \A m \in 1..k : shown'[m] = shown[m]
          /\ shown'[k + 1] = e
      BY <1>2, <1>3, <2>2, Shows, SpliceShapes
    <2>5. Started'
      <3>1. k # 0 /\ shown[1].t = "start"
        <4>1. PICK m \in 1..k : TRUE
          BY <2>1 DEF Opened
        <4>2. k # 0 /\ shown # << >>
          BY <1>2, <1>3, <1>4, <4>1, SpliceShapes
        <4>3. QED
          BY <1>1, <4>2 DEF SpliceInv, Started, Going
      <3>2. 1 \in 1..k /\ shown' # << >>
        BY <1>4, <2>4, <3>1, EmptySeq
      <3>3. QED
        BY <2>4, <3>1, <3>2 DEF Started
    <2>6. ToolsNow'
      <3>1. \A n \in 1..(k + 1) : n \in 1..k \/ n = k + 1
        BY <1>4
      <3>2. QED
        BY <1>1, <1>4, <1>9, <2>2, <2>4, <3>1 DEF SpliceInv, ToolsNow
    <2>7. OpenNow'
      <3>1. \A i : Opened(i, k + 1)' <=> Opened(i, k) /\ ~(t = "close" /\ i = blocks[j].at)
        BY <1>4, <2>2, <2>4, OpenedAfter
      <3>2. \A i : Opened(i, Len(shown))' <=> Opened(i, k + 1)'
        BY <2>4 DEF Opened
      <3>3. blocks'[Len(blocks')].at = blocks[j].at
        BY <1>7, <1>8
      <3>4. QED
        BY <1>1, <1>11, <1>13, <2>1, <3>1, <3>2, <3>3 DEF OpenNow
    <2>8. QED
      BY <1>1, <1>2, <1>8, <1>9, <1>10, <2>3, <2>4, <2>5, <2>6, <2>7, TurnStep
  <1>14. QED
    BY <1>12, <1>13

LEMMA MessageDeltaStep == ASSUME SpliceInv, MessageDelta PROVE SpliceInv'
  <1>1. /\ phase = "reading" /\ SameTurn /\ ~InBlock /\ begun
        /\ UNCHANGED <<begun, splice, cut, nextIndex, blocks, shown>> /\ phase' = phase
    BY DEF MessageDelta, Reading, SameTurn
  <1>2. /\ SpliceTypeOK /\ begun' \in BOOLEAN /\ nextIndex' \in Nat
        /\ blocks' \in Seq(AnswerBlocks) /\ shown' \in Seq(ClientEvents) /\ splice \in 0..MaxSplices
    BY <1>1, Zenon DEF SpliceInv, SpliceTypeOK
  <1>3. PICK r \in {"tool_use", "end_turn"} :
          /\ tail' = [reason |-> r, of |-> splice]
          /\ Has("tool") => r = "tool_use"
    BY DEF MessageDelta
  <1>4. /\ tail' \in [reason : {"none", "tool_use", "end_turn"}, of : 0..MaxSplices]
        /\ tail'.of = splice /\ (Has("tool") => tail'.reason = "tool_use")
    BY <1>2, <1>3
  <1>41. TailHeld'
    BY <1>1, <1>4 DEF TailHeld, InBlock, Has
  <1>5. Fits' /\ Numbered' /\ Len(shown') = Len(shown) /\ \A i, n : Opened(i, n)' <=> Opened(i, n)
    BY <1>1, StillStep
  <1>6. Started' /\ ToolsNow' /\ Indexed'
    BY <1>1 DEF SpliceInv, Started, Going, ToolsNow, Has, Indexed
  <1>7. OpenNow'
    BY <1>1, <1>5 DEF SpliceInv, OpenNow, Going, Facing, InBlock
  <1>8. \A n \in DOMAIN shown' : shown'[n].t \notin {"tail", "stop"}
    BY <1>1 DEF SpliceInv, Ending
  <1>9. QED
    BY <1>1, <1>2, <1>4, <1>41, <1>5, <1>6, <1>7, <1>8, TurnStep

-----------------------------------------------------------------------------
(* The end of an answer and of the message.                                *)

\* The terminator goes out, after the tail if there is one.
LEMMA ClosedStep ==
  ASSUME SpliceInv, Going, Closed, UNCHANGED <<splice, begun, blocks, tail, nextIndex, asked>>,
         cut => cut', cut' \in BOOLEAN,
         tail # NoTail => cut' \/ \A i \in Nat : ~Opened(i, Len(shown))
  PROVE  SpliceInv'
  <1>1. SpliceTypeOK /\ phase' = "ended"
    BY DEF SpliceInv, Closed
  <1>2. PICK k, te, se : /\ k = Len(shown) /\ te = Event("tail", 0, tail.reason, tail.of)
                         /\ se = Event("stop", 0, "none", splice)
    OBVIOUS
  <1>3. /\ shown \in Seq(ClientEvents) /\ k \in Nat /\ DOMAIN shown = 1..k
        /\ \A n \in 1..k : shown[n].t \notin {"tail", "stop"}
    BY <1>1, <1>2, SpliceShapes DEF SpliceInv, Ending, Going
  <1>4. /\ te \in ClientEvents /\ te.t = "tail" /\ te.kind = tail.reason /\ te.of = tail.of
        /\ se \in ClientEvents /\ se.t = "stop" /\ se.kind = "none" /\ te.kind # "expand"
    BY <1>1, <1>2 DEF Event, ClientEvents, SpliceTypeOK
  <1>5. PICK j \in {k, k + 1} :
          /\ shown' \in Seq(ClientEvents) /\ Len(shown') = j + 1 /\ DOMAIN shown' = 1..(j + 1)
          /\ \A m \in 1..k : shown'[m] = shown[m]
          /\ j = k + 1 => shown'[k + 1] = te /\ tail # NoTail
          /\ shown'[j + 1] = se
    <2>1. CASE tail = NoTail
      <3>1. shown' = shown \o <<se>>
        BY <1>2, <1>3, <2>1, ConcatEmptySeq DEF Closed
      <3>2. <<se>> \in Seq(ClientEvents) /\ Len(<<se>>) = 1 /\ <<se>>[1] = se
        BY <1>4
      <3>3. shown' \in Seq(ClientEvents) /\ Len(shown') = k + 1
            /\ (\A m \in 1..(k + 1) : shown'[m] = IF m <= k THEN shown[m] ELSE <<se>>[m - k])
        BY <1>2, <1>3, <3>1, <3>2, ConcatProperties
      <3>4. k + 1 \in 1..(k + 1) /\ (k + 1) - k = 1 /\ ~(k + 1 <= k) /\ 1..k \subseteq 1..(k + 1)
            /\ k # k + 1
        BY <1>3
      <3>5. DOMAIN shown' = 1..(k + 1)
        BY <3>3, LenProperties
      <3>6. QED
        BY <1>3, <3>2, <3>3, <3>4, <3>5
    <2>2. CASE tail # NoTail
      <3>1. shown' = (shown \o <<te>>) \o <<se>>
        BY <1>2, <2>2 DEF Closed
      <3>2. PICK s : s = shown \o <<te>>
        OBVIOUS
      <3>3. <<se>> \in Seq(ClientEvents) /\ Len(<<se>>) = 1 /\ <<se>>[1] = se
            /\ <<te>> \in Seq(ClientEvents) /\ Len(<<te>>) = 1 /\ <<te>>[1] = te
        BY <1>4
      <3>4. s \in Seq(ClientEvents) /\ Len(s) = k + 1
            /\ (\A m \in 1..(k + 1) : s[m] = IF m <= k THEN shown[m] ELSE <<te>>[m - k])
        BY <1>2, <1>3, <3>2, <3>3, ConcatProperties
      <3>5. shown' \in Seq(ClientEvents) /\ Len(shown') = (k + 1) + 1
            /\ (\A m \in 1..((k + 1) + 1) :
                  shown'[m] = IF m <= k + 1 THEN s[m] ELSE <<se>>[m - (k + 1)])
        BY <3>1, <3>2, <3>3, <3>4, ConcatProperties
      <3>6. /\ k + 1 \in 1..(k + 1) /\ (k + 1) - k = 1 /\ ~(k + 1 <= k) /\ 1..k \subseteq 1..(k + 1)
            /\ (k + 1) + 1 \in 1..((k + 1) + 1) /\ ((k + 1) + 1) - (k + 1) = 1
            /\ ~((k + 1) + 1 <= k + 1) /\ 1..(k + 1) \subseteq 1..((k + 1) + 1)
            /\ \A m \in 1..k : m <= k /\ m <= k + 1
        BY <1>3
      <3>7. DOMAIN shown' = 1..((k + 1) + 1)
        BY <3>5, LenProperties
      <3>8. /\ \A m \in 1..k : shown'[m] = shown[m]
            /\ shown'[k + 1] = te /\ shown'[(k + 1) + 1] = se
        <4>1. \A m \in 1..k : s[m] = shown[m] /\ shown'[m] = s[m]
          BY <3>4, <3>5, <3>6
        <4>2. s[k + 1] = te /\ shown'[k + 1] = s[k + 1]
          <5>1. s[k + 1] = <<te>>[1]
            BY <3>4, <3>6
          <5>2. k + 1 <= k + 1 /\ k + 1 \in 1..((k + 1) + 1)
            BY <1>3
          <5>3. shown'[k + 1] = s[k + 1]
            BY <3>5, <5>2
          <5>4. QED
            BY <3>3, <5>1, <5>3
        <4>3. shown'[(k + 1) + 1] = <<se>>[1]
          BY <3>5, <3>6
        <4>4. QED
          BY <3>3, <4>1, <4>2, <4>3
      <3>9. QED
        BY <2>2, <3>5, <3>7, <3>8
    <2>3. QED
      BY <2>1, <2>2
  <1>6. /\ \A n \in 1..(j + 1) : n \in 1..k \/ n = j + 1 \/ (n = k + 1 /\ j = k + 1)
        /\ k + 1 = j + 1 \/ k + 1 = j
        /\ j \in Nat /\ j + 1 # 0 /\ 1..k \subseteq 1..(j + 1) /\ (j + 1) - 1 = j
    BY <1>3, <1>5
  <1>7. SpliceTypeOK'
    BY <1>1, <1>5 DEF SpliceTypeOK
  <1>8. Fits'
    <2>1. ASSUME NEW n \in 1..k PROVE EventFits(n)'
      BY <1>3, <1>5, <2>1, FitsBefore DEF SpliceInv, Fits
    <2>2. ASSUME NEW n \in 1..(j + 1), n \notin 1..k PROVE EventFits(n)'
      BY <1>4, <1>5, <1>6, <2>2 DEF EventFits
    <2>3. \A n \in 1..(j + 1) : EventFits(n)'
      BY <2>1, <2>2
    <2>4. QED
      BY <1>5, <2>3 DEF Fits
  <1>9. Numbered'
    <2>1. ShownOpen = {m \in 1..k : shown[m].t = "open"}
      BY <1>2 DEF ShownOpen
    <2>2. ShownOpen' = {m \in 1..(j + 1) : shown'[m].t = "open"}
      BY <1>5 DEF ShownOpen
    <2>3. ShownOpen' = ShownOpen /\ ShownOpen \subseteq 1..k
      BY <1>4, <1>5, <1>6, <2>1, <2>2
    <2>4. QED
      BY <1>5, <2>3 DEF SpliceInv, Numbered
  <1>10. Ending'
    <2>1. \A i : Opened(i, k)' <=> Opened(i, k)
      BY <1>3, <1>5, OpenedBefore
    <2>2. ASSUME j = k + 1 PROVE cut' \/ \A i \in Nat : ~Opened(i, (k + 1) - 1)'
      <3>1. cut' \/ \A i \in Nat : ~Opened(i, k)
        BY <1>2, <1>5, <2>2
      <3>2. (k + 1) - 1 = k
        BY <1>3
      <3>3. QED
        BY <2>1, <3>1, <3>2
    <2>3. shown' # << >>
      BY <1>5, <1>6, EmptySeq
    <2>4. ASSUME NEW n \in 1..(j + 1)
          PROVE  /\ shown'[n].t = "stop" => n = j + 1
                 /\ shown'[n].t = "tail" => n = k + 1 /\ j = k + 1
      BY <1>3, <1>4, <1>5, <1>6, <2>4
    <2>5. \A n \in DOMAIN shown' :
            /\ shown'[n].t = "stop" => n = Len(shown')
            /\ shown'[n].t = "tail" => n = Len(shown') - 1
                                       /\ (cut' \/ \A i \in Nat : ~Opened(i, n - 1)')
      BY <1>5, <1>6, <2>2, <2>4
    <2>6. QED
      BY <1>1, <1>4, <1>5, <2>3, <2>5 DEF Ending
  <1>11. Started' /\ OpenNow' /\ ToolsNow' /\ Indexed'
    BY <1>1 DEF SpliceInv, Started, OpenNow, Going, ToolsNow, Indexed
  <1>12. TailHeld'
    BY DEF SpliceInv, TailHeld, NoTail, InBlock, Has
  <1>13. ToolsRun'
    <2>1. ASSUME NEW n \in DOMAIN shown', NEW m \in DOMAIN shown',
                 shown'[n].t = "open", shown'[n].kind = "tool", shown'[m].t = "tail"
          PROVE  shown'[m].kind = "tool_use" /\ shown'[m].of = shown'[n].of
      <3>1. n \in 1..k /\ m = k + 1 /\ j = k + 1
        BY <1>3, <1>4, <1>5, <1>6, <2>1
      <3>2. /\ shown[n].t = "open" /\ shown[n].kind = "tool" /\ shown'[n] = shown[n]
            /\ shown'[m] = te /\ tail # NoTail
        BY <1>5, <2>1, <3>1
      <3>3. Has("tool") /\ shown[n].of = splice
        BY <1>3, <3>1, <3>2 DEF SpliceInv, ToolsNow, Going
      <3>4. QED
        BY <1>4, <3>2, <3>3 DEF SpliceInv, TailHeld
    <2>2. QED
      BY <2>1 DEF SpliceInv, ToolsRun
  <1>14. QED
    BY <1>1, <1>7, <1>8, <1>9, <1>10, <1>11, <1>12, <1>13 DEF SpliceInv

LEMMA AnswerEndsStep ==
  ASSUME SpliceInv, MessageStop \/ StopsShort
  PROVE  SpliceInv'
  <1>1. /\ phase = "reading" /\ AnswerEnds /\ UNCHANGED <<splice, begun, blocks, tail, nextIndex>>
        /\ cut => cut'
        /\ (MessageStop /\ cut' = cut) \/ cut'
    BY DEF MessageStop, StopsShort, Reading
  <1>2. cut' \in BOOLEAN /\ SpliceTypeOK
    BY Zenon DEF MessageStop, StopsShort, SpliceInv, SpliceTypeOK
  <1>3. cut' \/ (~InBlock /\ \A i \in Nat : ~Opened(i, Len(shown)))
    <2>1. MessageStop /\ cut' = cut => ~InBlock
      BY DEF SpliceInv, TailHeld, MessageStop
    <2>2. QED
      BY <1>1, <2>1 DEF SpliceInv, OpenNow, Going, Facing
  <1>4. CASE Closed /\ UNCHANGED asked
    BY <1>1, <1>2, <1>3, <1>4, ClosedStep DEF Going
  <1>5. CASE /\ ~Terminal /\ phase' = "sending" /\ asked' = Append(asked, Replayed)
             /\ UNCHANGED shown
    <2>1. ~Has("tool")
      BY <1>5 DEF Terminal
    <2>2. Replayed \in [kinds : Seq({"text", "tool", "expand"}), answered : SUBSET Nat]
      <3>1. /\ blocks \in Seq(AnswerBlocks) /\ DOMAIN blocks = 1..Len(blocks) /\ Len(blocks) \in Nat
            /\ \A b \in DOMAIN blocks : blocks[b] \in AnswerBlocks
        BY <1>2, SpliceShapes
      <3>2. [b \in DOMAIN blocks |-> blocks[b].kind] \in Seq({"text", "tool", "expand"})
        <4>1. \A b \in 1..Len(blocks) : blocks[b].kind \in {"text", "tool", "expand"}
          BY <3>1 DEF AnswerBlocks
        <4>2. [b \in 1..Len(blocks) |-> blocks[b].kind] \in Seq({"text", "tool", "expand"})
          BY <3>1, <4>1, SeqDef
        <4>3. QED
          BY <3>1, <4>2
      <3>3. {b \in DOMAIN blocks : blocks[b].kind = "expand"} \in SUBSET Nat
        BY <3>1
      <3>4. QED
        BY <3>2, <3>3 DEF Replayed
    <2>3. /\ asked' \in Seq([kinds : Seq({"text", "tool", "expand"}), answered : SUBSET Nat])
          /\ Len(asked') = Len(asked) + 1 /\ Len(asked) = splice /\ splice \in Nat
          /\ DOMAIN asked' = 1..(splice + 1) /\ DOMAIN asked = 1..splice
          /\ \A q \in 1..splice : asked'[q] = asked[q]
          /\ asked'[splice + 1] = Replayed
      <3>1. asked \in Seq([kinds : Seq({"text", "tool", "expand"}), answered : SUBSET Nat])
            /\ Len(asked) = splice /\ splice \in Nat
        BY <1>1, <1>2, SpliceAssumption DEF SpliceInv, SpliceTypeOK
      <3>2. QED
        BY <1>5, <2>2, <3>1, AppendProperties, LenProperties
    <2>4. SpliceTypeOK'
      BY <1>1, <1>2, <1>5, <2>3 DEF SpliceTypeOK
    <2>5. Fits' /\ Numbered' /\ Len(shown') = Len(shown) /\ \A i, n : Opened(i, n)' <=> Opened(i, n)
      BY <1>1, <1>5, StillStep
    <2>6. Ending' /\ Started' /\ TailHeld' /\ Indexed'
      BY <1>1, <1>5 DEF SpliceInv, Ending, Started, Going, TailHeld, Indexed, InBlock, Has
    <2>7. OpenNow'
      BY <1>3, <1>5, <2>5 DEF OpenNow
    <2>8. ToolsNow'
      BY <1>1, <1>5, <2>1 DEF SpliceInv, ToolsNow
    <2>9. ToolsRun'
      <3>1. \A n \in DOMAIN shown' : shown'[n].t # "tail"
        BY <1>1, <1>5 DEF SpliceInv, Ending
      <3>2. ASSUME NEW b \in DOMAIN Replayed.kinds, Replayed.kinds[b] # "text"
            PROVE  b \in Replayed.answered
        <4>1. blocks[b].kind \in {"text", "tool", "expand"} /\ b \in DOMAIN blocks
          BY <1>2, SpliceShapes DEF Replayed, AnswerBlocks
        <4>2. QED
          BY <2>1, <3>2, <4>1 DEF Replayed, Has
      <3>3. \A q \in 1..(splice + 1) : q \in 1..splice \/ q = splice + 1
        BY <2>3
      <3>4. QED
        BY <2>3, <3>1, <3>2, <3>3 DEF SpliceInv, ToolsRun
    <2>10. QED
      BY <1>1, <1>5, <2>3, <2>4, <2>5, <2>6, <2>7, <2>8, <2>9 DEF SpliceInv
  <1>6. QED
    BY <1>1, <1>4, <1>5 DEF AnswerEnds

LEMMA SendStep ==
  ASSUME SpliceInv, Opens \/ Continues \/ RequeryEnds \/ Breaks
  PROVE  SpliceInv'
  <1>1. SpliceTypeOK
    BY DEF SpliceInv
  <1>2. CASE RequeryEnds
    <2>1. phase = "sending" /\ Closed /\ UNCHANGED <<splice, begun, blocks, tail, nextIndex, asked, cut>>
      BY <1>2 DEF RequeryEnds
    <2>2. cut' \in BOOLEAN
      BY <1>1, <2>1 DEF SpliceTypeOK
    <2>3. cut \/ \A i \in Nat : ~Opened(i, Len(shown))
      BY <2>1 DEF SpliceInv, OpenNow, Going
    <2>4. QED
      BY <2>1, <2>2, <2>3, ClosedStep DEF Going
  <1>3. CASE Opens \/ Continues \/ Breaks
    <2>1. UNCHANGED <<shown, nextIndex, asked, cut>> /\ phase # "ended" /\ phase' # "ended"
      BY <1>3 DEF Opens, Continues, Breaks, Reading
    <2>2. Fits' /\ Numbered' /\ Len(shown') = Len(shown) /\ \A i, n : Opened(i, n)' <=> Opened(i, n)
      BY <2>1, StillStep
    <2>3. Ending' /\ ToolsRun'
      BY <2>1 DEF SpliceInv, Ending, ToolsRun
    <2>4. CASE Breaks
      <3>1. phase' = "dropped" /\ UNCHANGED <<splice, begun, blocks, tail>>
        BY <2>4 DEF Breaks
      <3>2. SpliceTypeOK'
        BY <1>1, <2>1, <3>1 DEF SpliceTypeOK
      <3>3. Started' /\ OpenNow' /\ ToolsNow' /\ Indexed'
        BY <2>1, <3>1 DEF SpliceInv, Started, OpenNow, Going, ToolsNow, Indexed
      <3>4. TailHeld'
        BY <2>1, <3>1 DEF SpliceInv, TailHeld, NoTail, InBlock, Has
      <3>5. QED
        BY <2>2, <2>3, <3>1, <3>2, <3>3, <3>4 DEF SpliceInv
    <2>5. CASE Opens
      <3>1. phase = "sending" /\ phase' \in {"reading", "raw"} /\ asked = << >>
            /\ UNCHANGED <<splice, begun, blocks, tail>>
        BY <2>5 DEF Opens, First
      <3>2. SpliceTypeOK'
        BY <1>1, <2>1, <3>1 DEF SpliceTypeOK
      <3>3. Started' /\ ToolsNow' /\ Indexed'
        BY <2>1, <3>1 DEF SpliceInv, Started, Going, ToolsNow, Indexed
      <3>4. TailHeld'
        BY <2>1, <3>1 DEF SpliceInv, TailHeld, NoTail, InBlock, Has
      <3>5. Len(asked) = splice
        <4>1. Len(asked) = 0 /\ splice \in Nat
          BY <1>1, <3>1, SpliceAssumption DEF SpliceTypeOK
        <4>2. QED
          BY <1>1, <3>1, <4>1 DEF SpliceInv, SpliceTypeOK
      <3>6. OpenNow'
        <4>1. blocks = << >>
          <5>1. splice + 1 # splice
            BY <1>1 DEF SpliceTypeOK
          <5>2. QED
            BY <3>1, <3>5, <5>1 DEF SpliceInv
        <4>2. QED
          BY <2>1, <2>2, <3>1, <4>1 DEF SpliceInv, OpenNow, Going, Facing, InBlock
      <3>7. QED
        BY <2>1, <2>2, <2>3, <3>1, <3>2, <3>3, <3>4, <3>5, <3>6 DEF SpliceInv
    <2>6. CASE Continues
      <3>1. /\ phase = "sending" /\ phase' = "reading" /\ asked # << >> /\ splice < MaxSplices
            /\ splice' = splice + 1 /\ begun' = FALSE /\ blocks' = << >> /\ tail' = NoTail
        BY <2>6 DEF Continues, First
      <3>2. /\ splice \in 0..MaxSplices /\ MaxSplices \in Nat /\ splice' \in 0..MaxSplices
            /\ Len(asked) = splice + 1
        BY <1>1, <3>1, SpliceAssumption DEF SpliceInv, SpliceTypeOK
      <3>3. blocks' \in Seq(AnswerBlocks) /\ DOMAIN blocks' = {}
        BY <3>1, EmptySeq
      <3>4. SpliceTypeOK'
        <4>1. Len(asked') \in {splice', splice' + 1}
          BY <2>1, <3>1, <3>2
        <4>2. tail' \in [reason : {"none", "tool_use", "end_turn"}, of : 0..MaxSplices]
          BY <3>1, <3>2 DEF NoTail
        <4>3. begun' \in BOOLEAN
          BY <3>1, Zenon
        <4>4. QED
          BY <1>1, <2>1, <3>1, <3>2, <3>3, <4>1, <4>2, <4>3 DEF SpliceTypeOK
      <3>5. Started' /\ ToolsNow' /\ Indexed' /\ TailHeld'
        BY <2>1, <3>1, <3>3 DEF SpliceInv, Started, Going, ToolsNow, Indexed, TailHeld
      <3>6. OpenNow'
        BY <2>1, <2>2, <3>1 DEF SpliceInv, OpenNow, Going, Facing, InBlock
      <3>7. QED
        BY <2>1, <2>2, <2>3, <3>1, <3>2, <3>4, <3>5, <3>6 DEF SpliceInv
    <2>7. QED
      BY <1>3, <2>4, <2>5, <2>6
  <1>4. QED
    BY <1>2, <1>3

-----------------------------------------------------------------------------
(* The theorems about the spliced stream.                                  *)

LEMMA SpliceInitInv == SpliceInit => SpliceInv
  <1> SUFFICES ASSUME SpliceInit PROVE SpliceInv
    OBVIOUS
  <1>1. begun \in BOOLEAN /\ cut \in BOOLEAN
    BY Zenon DEF SpliceInit
  <1>2. SpliceTypeOK
    <2>1. blocks \in Seq(AnswerBlocks) /\ shown \in Seq(ClientEvents) /\ asked = << >>
          /\ asked \in Seq([kinds : Seq({"text", "tool", "expand"}), answered : SUBSET Nat])
      BY EmptySeq DEF SpliceInit
    <2>2. splice \in 0..MaxSplices /\ nextIndex \in Nat /\ Len(asked) = splice
      BY <2>1, SpliceAssumption DEF SpliceInit
    <2>3. tail \in [reason : {"none", "tool_use", "end_turn"}, of : 0..MaxSplices]
      BY <2>2 DEF SpliceInit, NoTail
    <2>4. QED
      BY <1>1, <2>1, <2>2, <2>3 DEF SpliceInit, SpliceTypeOK
  <1>3. ShownOpen = {} /\ DOMAIN shown = {} /\ DOMAIN blocks = {} /\ DOMAIN asked = {}
    BY DEF SpliceInit, ShownOpen
  <1>4. Numbered
    BY <1>3, FS_EmptySet DEF SpliceInit, Numbered
  <1>5. OpenNow
    <2>1. \A i : ~Opened(i, Len(shown))
      BY DEF SpliceInit, Opened
    <2>2. QED
      BY <2>1 DEF SpliceInit, OpenNow
  <1>6. Fits /\ Ending /\ Started /\ TailHeld /\ ToolsNow /\ Indexed /\ ToolsRun
    BY <1>3 DEF SpliceInit, Fits, Ending, Started, TailHeld, ToolsNow, Indexed, ToolsRun
  <1>7. QED
    BY <1>2, <1>4, <1>5, <1>6 DEF SpliceInv, SpliceInit

LEMMA SpliceNextInv == SpliceInv /\ [SpliceNext]_spliceVars => SpliceInv'
  <1> SUFFICES ASSUME SpliceInv, [SpliceNext]_spliceVars PROVE SpliceInv'
    OBVIOUS
  <1>1. CASE UNCHANGED spliceVars
    <2>1. UNCHANGED <<phase, splice, begun, blocks, tail, nextIndex, shown, asked, cut>>
      BY <1>1 DEF spliceVars
    <2>2. Fits' /\ Numbered' /\ Len(shown') = Len(shown) /\ \A i, n : Opened(i, n)' <=> Opened(i, n)
      BY <2>1, StillStep
    <2>3. SpliceTypeOK'
      BY <2>1 DEF SpliceInv, SpliceTypeOK
    <2>4. Ending'
      BY <2>1, <2>2 DEF SpliceInv, Ending
    <2>5. Started' /\ ToolsNow' /\ Indexed' /\ ToolsRun'
      BY <2>1 DEF SpliceInv, Started, Going, ToolsNow, Has, Indexed, ToolsRun
    <2>6. TailHeld'
      BY <2>1 DEF SpliceInv, TailHeld, NoTail, InBlock, Has
    <2>7. OpenNow'
      BY <2>1, <2>2 DEF SpliceInv, OpenNow, Going, Facing, InBlock
    <2>8. QED
      BY <2>1, <2>2, <2>3, <2>4, <2>5, <2>6, <2>7 DEF SpliceInv
  <1>2. CASE Opens \/ Continues \/ RequeryEnds \/ Breaks
    BY <1>2, SendStep
  <1>3. CASE MessageStart
    BY <1>3, MessageStartStep
  <1>4. CASE BlockDelta \/ BlockStop
    BY <1>4, BlockGoesStep
  <1>5. CASE MessageDelta
    BY <1>5, MessageDeltaStep
  <1>6. CASE MessageStop \/ StopsShort
    BY <1>6, AnswerEndsStep
  <1>7. ASSUME NEW kind \in {"text", "tool", "expand"}, BlockStart(kind) PROVE SpliceInv'
    BY <1>7, BlockStartStep
  <1>8. QED
    BY <1>1, <1>2, <1>3, <1>4, <1>5, <1>6, <1>7 DEF SpliceNext

\* What the client has open, has been promised and is still owed at any event of any answer.
THEOREM SpliceInvariant == SpliceSpec => []SpliceInv
  BY SpliceInitInv, SpliceNextInv, PTL DEF SpliceSpec

\* OneMessage: for any number of re-queries and of blocks, and wherever answers stop short,
\* the client reads one message: one start, blocks numbered in order, one open at a time,
\* and the terminator last.
THEOREM ReadsOneMessage == SpliceSpec => []OneMessage
  <1>1. ASSUME SpliceInv PROVE OneMessage
    <2>1. /\ SpliceTypeOK /\ nextIndex \in Nat /\ DOMAIN shown = 1..Len(shown)
          /\ \A n \in DOMAIN shown : shown[n] \in ClientEvents
          /\ shown # << >> => Last(shown) = shown[Len(shown)] /\ Len(shown) \in DOMAIN shown
      BY <1>1, SpliceShapes DEF SpliceInv, SpliceTypeOK
    <2>2. ASSUME NEW n \in DOMAIN shown
          PROVE  LET e == shown[n]
                     open == {i \in 0..nextIndex : Opened(i, n - 1)}
                 IN /\ e.kind # "expand"
                    /\ e.t = "start" => n = 1
                    /\ e.t = "open" => /\ e.i = Cardinality({m \in 1..(n - 1) : shown[m].t = "open"})
                                       /\ open = {} \/ cut
                    /\ e.t \in {"delta", "close"} => e.i \in open
                    /\ e.t = "tail" => n = Len(shown) - 1 /\ (open = {} \/ cut)
                    /\ e.t = "stop" => n = Len(shown)
      <3>1. EventFits(n)
        BY <1>1, <2>2 DEF SpliceInv, Fits
      <3>2. 0..nextIndex \subseteq Nat /\ shown[n].i \in Nat
        BY <2>1 DEF ClientEvents
      <3>3. shown[n].t \in {"tail", "stop"} => phase = "ended"
        BY <1>1 DEF SpliceInv, Ending
      <3>4. shown[n].t \in {"delta", "close"} => shown[n].i \in 0..nextIndex
        <4>1. ASSUME Opened(shown[n].i, n - 1) PROVE shown[n].i \in 0..nextIndex
          <5>1. PICK m \in 1..(n - 1) : shown[m].t = "open" /\ shown[m].i = shown[n].i
            BY <4>1 DEF Opened
          <5>2. m \in ShownOpen
            BY <2>1, <5>1 DEF ShownOpen
          <5>3. shown[n].i < nextIndex
            BY <1>1, <5>1, <5>2 DEF SpliceInv, Numbered
          <5>4. QED
            BY <2>1, <3>2, <5>3
        <4>2. QED
          BY <3>1, <4>1 DEF EventFits
      <3>5. QED
        BY <1>1, <3>1, <3>2, <3>3, <3>4 DEF EventFits, SpliceInv, Ending
    <2>3. phase = "ended" <=> shown # << >> /\ Last(shown).t = "stop"
      BY <1>1, <2>1 DEF SpliceInv, Ending
    <2>4. QED
      BY <2>2, <2>3 DEF OneMessage
  <1>2. QED
    BY <1>1, SpliceInvariant, PTL

\* ToolsRun: no call of the client's is left unanswered in a replayed turn, and the message
\* ends with the stop_reason of the answer the call came with.
THEOREM ToolsAreRun == SpliceSpec => []ToolsRun
  <1>1. SpliceInv => ToolsRun
    BY DEF SpliceInv
  <1>2. QED
    BY <1>1, SpliceInvariant, PTL

-----------------------------------------------------------------------------
USE McpAssumption

-----------------------------------------------------------------------------
(* McpProxy: the inductive invariant.                                      *)

\* Until a call is sent it has reached nobody, and what waits or was woken was sent.
Progress ==
  \A k \in DOMAIN call :
    /\ call[k].pc \in {"listing", "fetching", "routing", "calling", "raw"} => ~call[k].sent /\ ran[k] = 0
    /\ call[k].pc = "writing" => call[k].sent /\ ran[k] = 0
    /\ call[k].pc \in {"waiting", "woken"} => call[k].sent

\* What servers hold and what is waited for bears the id of its call; who is waited for waits,
\* for the server of its tool.
Paired ==
  \A s \in Server :
    /\ \A m \in inbox[s] : m.id = m.k
    /\ \A w \in pending[s] : w.id = w.k /\ w.k \in DOMAIN call /\ call[w.k].pc = "waiting" /\ call[w.k].srv = s

McpInv == McpTypeOK /\ Progress /\ Paired /\ CalledOnce /\ OwnAnswer /\ Cancellable

-----------------------------------------------------------------------------
(* What an action does to the requests.                                    *)

LEMMA Numbers ==
  ASSUME McpTypeOK
  PROVE  /\ DOMAIN call = 1..Len(call) /\ DOMAIN ran = DOMAIN call /\ Len(call) \in Nat
         /\ \A k \in DOMAIN call : call[k] \in Calls /\ ran[k] \in Nat /\ k \in Nat
  <1>1. call \in Seq(Calls) /\ ran \in Seq(Nat) /\ Len(ran) = Len(call)
    BY DEF McpTypeOK
  <1>2. QED
    BY <1>1, LenProperties, ElementOfSeq

\* One request is at another place.
LEMMA Moved ==
  ASSUME McpTypeOK, NEW k \in DOMAIN call, NEW v \in Calls, call' = [call EXCEPT ![k] = v]
  PROVE  /\ call' \in Seq(Calls) /\ Len(call') = Len(call) /\ DOMAIN call' = DOMAIN call
         /\ call'[k] = v /\ \A j \in DOMAIN call : j # k => call'[j] = call[j]
  <1>1. call \in Seq(Calls) /\ k \in 1..Len(call)
    BY Numbers DEF McpTypeOK
  <1>2. QED
    BY <1>1, ExceptSeq, LenProperties

\* No request starts or stops running.
LEMMA SameRuns ==
  ASSUME Cancellable, DOMAIN call' = DOMAIN call, inflight' = inflight,
         \A j \in DOMAIN call :
           call'[j].id = call[j].id /\ call'[j].srv = call[j].srv /\ Sent(j)' = Sent(j)
  PROVE  Cancellable'
  BY DEF Cancellable, WireId

Unsent == {"listing", "fetching", "routing", "calling", "raw"}

\* Steps of a request that is not sent yet.
LEMMA Handled ==
  ASSUME McpInv, NEW k \in DOMAIN call, NEW v \in Calls, call' = [call EXCEPT ![k] = v],
         call[k].pc \in Unsent, v.pc \in Unsent \cup {"answered"},
         v.id = call[k].id, v.srv = call[k].srv, v.sent = call[k].sent,
         v.with \in {call[k].with, Error},
         surfaces' \subseteq Server, routes' \subseteq Server, jolts' \in 0..MaxJolts,
         UNCHANGED unwired
  PROVE  McpInv'
  <1>1. /\ call' \in Seq(Calls) /\ Len(call') = Len(call) /\ DOMAIN call' = DOMAIN call
        /\ call'[k] = v /\ \A j \in DOMAIN call : j # k => call'[j] = call[j]
    BY Moved DEF McpInv
  <1>2. McpTypeOK'
    BY <1>1 DEF McpInv, McpTypeOK, unwired
  <1>3. Progress'
    BY <1>1 DEF McpInv, Progress, unwired, Unsent
  <1>4. Paired'
    BY <1>1 DEF McpInv, Paired, unwired, Unsent
  <1>5. CalledOnce'
    BY <1>1 DEF McpInv, CalledOnce, unwired
  <1>6. OwnAnswer'
    BY <1>1 DEF McpInv, OwnAnswer, Result, Error, Unsaid
  <1>7. Cancellable'
    BY <1>1, SameRuns DEF McpInv, Sent, unwired, Unsent
  <1>8. QED
    BY <1>2, <1>3, <1>4, <1>5, <1>6, <1>7 DEF McpInv

\* A request that was sent ends its wait with an error before it got anything to wait for, or
\* after it.
LEMMA Ended ==
  ASSUME McpInv, NEW k \in DOMAIN call, NEW v \in Calls, call' = [call EXCEPT ![k] = v],
         call[k].pc \in {"writing", "woken"}, v.pc = "woken",
         v.id = call[k].id, v.srv = call[k].srv, v.sent = call[k].sent, v.with = Error,
         surfaces' \subseteq Server, routes' \subseteq Server, jolts' \in 0..MaxJolts,
         UNCHANGED unwired
  PROVE  McpInv'
  <1>1. /\ call' \in Seq(Calls) /\ Len(call') = Len(call) /\ DOMAIN call' = DOMAIN call
        /\ call'[k] = v /\ \A j \in DOMAIN call : j # k => call'[j] = call[j]
    BY Moved DEF McpInv
  <1>2. McpTypeOK'
    BY <1>1 DEF McpInv, McpTypeOK, unwired
  <1>3. Progress'
    BY <1>1 DEF McpInv, Progress, unwired
  <1>4. Paired'
    BY <1>1 DEF McpInv, Paired, unwired
  <1>5. CalledOnce'
    BY <1>1 DEF McpInv, CalledOnce, unwired
  <1>6. OwnAnswer'
    BY <1>1 DEF McpInv, OwnAnswer, Result, Error, Unsaid
  <1>7. Cancellable'
    BY <1>1, SameRuns DEF McpInv, Sent, unwired
  <1>8. QED
    BY <1>2, <1>3, <1>4, <1>5, <1>6, <1>7 DEF McpInv

-----------------------------------------------------------------------------
(* The steps.                                                              *)

LEMMA McpInitHolds == McpInit => McpInv
  <1> SUFFICES ASSUME McpInit PROVE McpInv
    OBVIOUS
  <1>1. call \in Seq(Calls) /\ ran \in Seq(Nat) /\ Len(ran) = Len(call) /\ DOMAIN call = {}
    BY EmptySeq DEF McpInit
  <1>2. McpTypeOK
    BY <1>1 DEF McpInit, McpTypeOK
  <1>3. QED
    BY <1>1, <1>2 DEF McpInit, McpInv, Progress, Paired, CalledOnce, OwnAnswer, Cancellable

LEMMA JoltType ==
  ASSUME McpTypeOK, Jolt \/ UNCHANGED jolts
  PROVE  jolts' \in 0..MaxJolts
  BY DEF McpTypeOK, Jolt

LEMMA ReceiveStep ==
  ASSUME McpInv, NEW i \in ClientId, NEW s \in Server, Receive(i, s)
  PROVE  McpInv'
  <1> DEFINE v == [id |-> i, srv |-> s, pc |-> "listing", has |-> {}, sent |-> FALSE, with |-> Unsaid]
  <1>1. v \in Calls
    BY DEF Calls, Unsaid
  <1>2. /\ call' = Append(call, v) /\ ran' = Append(ran, 0)
        /\ UNCHANGED <<surfaces, routes, inflight, pending, inbox, exited, jolts>>
    BY DEF Receive
  <1>3. /\ call' \in Seq(Calls) /\ ran' \in Seq(Nat) /\ Len(ran') = Len(call')
        /\ DOMAIN call' = DOMAIN call \cup {Len(call) + 1} /\ Len(call) + 1 \notin DOMAIN call
        /\ call'[Len(call) + 1] = v /\ ran'[Len(call) + 1] = 0
        /\ \A j \in DOMAIN call : call'[j] = call[j] /\ ran'[j] = ran[j]
    BY <1>1, <1>2, Numbers, AppendProperties, LenProperties DEF McpInv, McpTypeOK
  <1>4. McpTypeOK'
    BY <1>2, <1>3 DEF McpInv, McpTypeOK
  <1>5. Progress'
    BY <1>3 DEF McpInv, Progress
  <1>6. Paired'
    BY <1>2, <1>3 DEF McpInv, Paired
  <1>7. CalledOnce'
    BY <1>3 DEF McpInv, CalledOnce
  <1>8. OwnAnswer'
    BY <1>3 DEF McpInv, OwnAnswer, Result, Error, Unsaid
  <1>9. Cancellable'
    <2>1. \A j \in DOMAIN call' : Sent(j)' <=> j \in DOMAIN call /\ Sent(j)
      BY <1>3 DEF Sent
    <2>2. QED
      BY <1>2, <1>3, <2>1 DEF McpInv, Cancellable, WireId
  <1>10. QED
    BY <1>4, <1>5, <1>6, <1>7, <1>8, <1>9 DEF McpInv

LEMMA ListingStep ==
  ASSUME McpInv, NEW k \in DOMAIN call, Listing(k)
  PROVE  McpInv'
  <1>1. call[k] \in Calls
    BY Numbers DEF McpInv
  <1>2. PICK pc \in {"routing", "fetching"}, has \in SUBSET Server :
          call' = [call EXCEPT ![k] = [[call[k] EXCEPT !.pc = pc] EXCEPT !.has = has]]
    <2>1. CASE surfaces = Server
      BY <2>1 DEF Listing
    <2>2. CASE surfaces # Server
      BY <2>2 DEF Listing
    <2>3. QED
      BY <2>1, <2>2
  <1> DEFINE v == [[call[k] EXCEPT !.pc = pc] EXCEPT !.has = has]
  <1>3. v \in Calls /\ v.pc = pc /\ v.id = call[k].id
        /\ v.srv = call[k].srv /\ v.sent = call[k].sent /\ v.with = call[k].with
    BY <1>1 DEF Calls
  <1>4. /\ call' = [call EXCEPT ![k] = v] /\ call[k].pc \in Unsent /\ UNCHANGED unwired
        /\ surfaces' \subseteq Server /\ routes' \subseteq Server /\ jolts' \in 0..MaxJolts
    BY <1>2 DEF Listing, McpInv, McpTypeOK, Unsent
  <1> HIDE DEF v
  <1>5. v.pc \in Unsent \cup {"answered"}
    BY <1>3 DEF Unsent
  <1>6. QED
    BY <1>3, <1>4, <1>5, Handled

LEMMA FetchedStep ==
  ASSUME McpInv, NEW k \in DOMAIN call, Fetched(k)
  PROVE  McpInv'
  <1> DEFINE v == [[call[k] EXCEPT !.pc = "routing"] EXCEPT !.has = surfaces']
  <1>1. call[k] \in Calls
    BY Numbers DEF McpInv
  <1>2. surfaces' \subseteq Server /\ routes' = surfaces'
    BY <1>1 DEF Fetched, McpInv, McpTypeOK, Calls
  <1>3. v \in Calls /\ v.pc = "routing" /\ v.id = call[k].id
        /\ v.srv = call[k].srv /\ v.sent = call[k].sent /\ v.with = call[k].with
    BY <1>1, <1>2 DEF Calls
  <1>4. /\ call' = [call EXCEPT ![k] = v] /\ call[k].pc \in Unsent /\ UNCHANGED unwired
        /\ jolts' \in 0..MaxJolts
    BY DEF Fetched, McpInv, McpTypeOK, Unsent
  <1> HIDE DEF v
  <1>5. v.pc \in Unsent \cup {"answered"}
    BY <1>3 DEF Unsent
  <1>6. QED
    BY <1>2, <1>3, <1>4, <1>5, Handled

LEMMA CallAnswered ==
  ASSUME McpInv, NEW k \in DOMAIN call, Answer(k, Error), call[k].pc \in Unsent,
         UNCHANGED <<surfaces, routes, unwired>>, Jolt \/ UNCHANGED jolts
  PROVE  McpInv'
  <1> DEFINE v == [[call[k] EXCEPT !.pc = "answered"] EXCEPT !.with = Error]
  <1>1. call[k] \in Calls
    BY Numbers DEF McpInv
  <1>2. v \in Calls /\ v.pc = "answered" /\ v.id = call[k].id
        /\ v.srv = call[k].srv /\ v.sent = call[k].sent /\ v.with = Error
    BY <1>1 DEF Calls, Error
  <1>3. call' = [call EXCEPT ![k] = v]
    BY DEF Answer
  <1>4. /\ surfaces' \subseteq Server /\ routes' \subseteq Server /\ jolts' \in 0..MaxJolts
        /\ UNCHANGED unwired
    BY JoltType DEF McpInv, McpTypeOK
  <1> HIDE DEF v
  <1>5. QED
    BY <1>2, <1>3, <1>4, Handled

LEMMA Went ==
  ASSUME McpInv, NEW k \in DOMAIN call, NEW place \in Unsent, Goto(k, place), call[k].pc \in Unsent,
         UNCHANGED <<surfaces, routes, unwired>>, Jolt \/ UNCHANGED jolts
  PROVE  McpInv'
  <1> DEFINE v == [call[k] EXCEPT !.pc = place]
  <1>1. call[k] \in Calls
    BY Numbers DEF McpInv
  <1>2. v \in Calls /\ v.pc = place /\ v.id = call[k].id
        /\ v.srv = call[k].srv /\ v.sent = call[k].sent /\ v.with = call[k].with
    BY <1>1 DEF Calls, Unsent
  <1>3. call' = [call EXCEPT ![k] = v]
    BY DEF Goto
  <1>4. /\ surfaces' \subseteq Server /\ routes' \subseteq Server /\ jolts' \in 0..MaxJolts
        /\ UNCHANGED unwired
    BY JoltType DEF McpInv, McpTypeOK
  <1> HIDE DEF v
  <1>5. QED
    BY <1>2, <1>3, <1>4, Handled

LEMMA GaveUp ==
  ASSUME McpInv, NEW k \in DOMAIN call, call' = Woken(k, Error), call[k].pc \in {"writing", "woken"},
         UNCHANGED <<surfaces, routes, unwired>>, Jolt \/ UNCHANGED jolts
  PROVE  McpInv'
  <1> DEFINE v == [[call[k] EXCEPT !.pc = "woken"] EXCEPT !.with = Error]
  <1>1. call[k] \in Calls
    BY Numbers DEF McpInv
  <1>2. v \in Calls /\ v.pc = "woken" /\ v.id = call[k].id
        /\ v.srv = call[k].srv /\ v.sent = call[k].sent /\ v.with = Error
    BY <1>1 DEF Calls, Error
  <1>3. call' = [call EXCEPT ![k] = v]
    BY DEF Woken
  <1>4. /\ surfaces' \subseteq Server /\ routes' \subseteq Server /\ jolts' \in 0..MaxJolts
        /\ UNCHANGED unwired
    BY JoltType DEF McpInv, McpTypeOK
  <1> HIDE DEF v
  <1>5. QED
    BY <1>2, <1>3, <1>4, Ended

LEMMA FetchFailsStep ==
  ASSUME McpInv, NEW k \in DOMAIN call, FetchFails(k)
  PROVE  McpInv'
  BY CallAnswered DEF FetchFails, Unsent

LEMMA RouteStep ==
  ASSUME McpInv, NEW k \in DOMAIN call, Route(k)
  PROVE  McpInv'
  <1>1. CASE call[k].srv \notin routes
    BY <1>1, CallAnswered DEF Route, Unsent
  <1>2. CASE call[k].srv \in routes
    <2>1. PICK place \in {"calling", "raw"} : Goto(k, place)
      BY <1>2 DEF Route
    <2>2. QED
      BY <2>1, Went DEF Route, Unsent
  <1>3. QED
    BY <1>1, <1>2

LEMMA StumbleStep ==
  ASSUME McpInv, NEW k \in DOMAIN call, Stumble(k)
  PROVE  McpInv'
  <1>1. CASE call[k].sent
    BY <1>1, GaveUp DEF Stumble, McpInv, Progress
  <1>2. CASE ~call[k].sent
    BY <1>2, Went DEF Stumble, McpInv, Progress, Unsent
  <1>3. QED
    BY <1>1, <1>2

LEMMA SendFailsStep ==
  ASSUME McpInv, NEW k \in DOMAIN call, SendFails(k)
  PROVE  McpInv'
  BY GaveUp DEF SendFails


-----------------------------------------------------------------------------
(* Steps of servers, clients and time, which only end waits and lose what  *)
(* servers hold.                                                           *)

\* A function of the requests that differs from them at most where it is another request.
LEMMA SameLength ==
  ASSUME McpTypeOK, DOMAIN call' = DOMAIN call, call' = [k \in DOMAIN call |-> call'[k]],
         \A k \in DOMAIN call : call'[k] \in Calls
  PROVE  call' \in Seq(Calls) /\ Len(call') = Len(call)
  <1>1. DOMAIN call = 1..Len(call) /\ Len(call) \in Nat
    BY Numbers
  <1>2. call' \in [1..Len(call) -> Calls]
    BY <1>1
  <1>3. call' \in Seq(Calls)
    BY <1>1, <1>2, SeqDef
  <1>4. QED
    BY <1>1, <1>2, <1>3, LenProperties

LEMMA WaitsEnd ==
  ASSUME McpInv, DOMAIN call' = DOMAIN call, call' = [k \in DOMAIN call |-> call'[k]],
         \A k \in DOMAIN call :
           \/ call'[k] = call[k]
           \/ /\ call[k].pc \in {"waiting", "woken"} /\ call'[k].pc = "woken" /\ call'[k] \in Calls
              /\ call'[k].id = call[k].id /\ call'[k].srv = call[k].srv /\ call'[k].sent = call[k].sent
              /\ call'[k].with \in {Error, Result(k)},
         pending' \in [Server -> SUBSET Wire], inbox' \in [Server -> SUBSET Wire],
         \A s \in Server :
           /\ pending'[s] \subseteq pending[s] /\ inbox'[s] \subseteq inbox[s]
           /\ \A w \in pending'[s] : call'[w.k] = call[w.k],
         surfaces' \subseteq Server, exited' \subseteq Server, jolts' \in 0..MaxJolts,
         UNCHANGED <<routes, inflight, ran>>
  PROVE  McpInv'
  <1>1. call' \in Seq(Calls) /\ Len(call') = Len(call)
    <2>1. \A k \in DOMAIN call : call'[k] \in Calls
      BY Numbers DEF McpInv
    <2>2. QED
      BY <2>1, SameLength DEF McpInv
  <1>2. McpTypeOK'
    BY <1>1 DEF McpInv, McpTypeOK
  <1>3. Progress'
    BY DEF McpInv, Progress
  <1>4. Paired'
    BY DEF McpInv, Paired
  <1>5. CalledOnce'
    BY DEF McpInv, CalledOnce
  <1>6. OwnAnswer'
    BY DEF McpInv, OwnAnswer, Result, Error, Unsaid
  <1>7. Cancellable'
    <2>1. \A j \in DOMAIN call :
            call'[j].id = call[j].id /\ call'[j].srv = call[j].srv /\ Sent(j)' = Sent(j)
      BY DEF Sent
    <2>2. QED
      BY <2>1, SameRuns DEF McpInv
  <1>8. QED
    BY <1>2, <1>3, <1>4, <1>5, <1>6, <1>7 DEF McpInv

LEMMA ListChangedStep ==
  ASSUME McpInv, NEW s \in Server, ListChanged(s)
  PROVE  McpInv'
  <1>1. /\ UNCHANGED <<call, pending, inbox, exited, routes, inflight, ran>>
        /\ surfaces' \subseteq Server /\ jolts' \in 0..MaxJolts
    BY JoltType DEF ListChanged, McpInv, McpTypeOK, unwired
  <1>2. call = [k \in DOMAIN call |-> call[k]]
    BY DEF McpInv, McpTypeOK
  <1>3. QED
    BY <1>1, <1>2, WaitsEnd DEF McpInv, McpTypeOK

LEMMA CancelStep ==
  ASSUME McpInv, NEW i \in ClientId, Cancel(i)
  PROVE  McpInv'
  <1>1. /\ UNCHANGED <<call, surfaces, routes, inflight, pending, exited, ran>> /\ jolts' \in 0..MaxJolts
    BY JoltType DEF Cancel, McpInv
  <1>2. call = [k \in DOMAIN call |-> call[k]]
    BY DEF McpInv, McpTypeOK
  <1>3. inbox' \in [Server -> SUBSET Wire] /\ \A s \in Server : inbox'[s] \subseteq inbox[s]
    BY DEF Cancel, McpInv, McpTypeOK
  <1>4. QED
    BY <1>1, <1>2, <1>3, WaitsEnd DEF McpInv, McpTypeOK

LEMMA TimesOutStep ==
  ASSUME McpInv, NEW k \in DOMAIN call, TimesOut(k)
  PROVE  McpInv'
  <1> DEFINE v == [[call[k] EXCEPT !.pc = "woken"] EXCEPT !.with = Error]
  <1>1. call[k] \in Calls
    BY Numbers DEF McpInv
  <1>2. v \in Calls /\ v.pc = "woken" /\ v.id = call[k].id
        /\ v.srv = call[k].srv /\ v.sent = call[k].sent /\ v.with = Error
    BY <1>1 DEF Calls, Error
  <1>3. call' = [call EXCEPT ![k] = v]
    BY DEF TimesOut, Woken
  <1>4. /\ UNCHANGED <<surfaces, routes, inflight, inbox, exited, ran>> /\ jolts' \in 0..MaxJolts
        /\ pending' = [s \in Server |-> {w \in pending[s] : w.id # k}]
        /\ call[k].pc \in {"waiting", "woken"}
    BY JoltType DEF TimesOut, McpInv, WireId
  <1> HIDE DEF v
  <1>5. DOMAIN call' = DOMAIN call /\ call' = [j \in DOMAIN call |-> call'[j]]
        /\ call'[k] = v /\ \A j \in DOMAIN call : j # k => call'[j] = call[j]
    BY <1>3
  <1>6. pending' \in [Server -> SUBSET Wire] /\ \A s \in Server : pending'[s] \subseteq pending[s]
    BY <1>4 DEF McpInv, McpTypeOK
  <1>7. \A s \in Server : \A w \in pending'[s] : call'[w.k] = call[w.k]
    BY <1>4, <1>5 DEF McpInv, Paired
  <1>8. QED
    BY <1>2, <1>4, <1>5, <1>6, <1>7, WaitsEnd DEF McpInv, McpTypeOK

LEMMA ServeStep ==
  ASSUME McpInv, NEW s \in Server, Serve(s)
  PROVE  McpInv'
  <1>1. PICK m \in inbox[s] :
          /\ inbox' = [inbox EXCEPT ![s] = @ \ {m}]
          /\ pending' = [pending EXCEPT ![s] = @ \ {w \in pending[s] : w.id = m.id}]
          /\ call' = [k \in DOMAIN call |->
                        IF \E w \in {w \in pending[s] : w.id = m.id} : w.k = k
                        THEN [call[k] EXCEPT !.pc = "woken", !.with = Result(m.k)] ELSE call[k]]
    BY DEF Serve
  <1>2. UNCHANGED <<surfaces, routes, inflight, exited, ran, jolts>>
    BY DEF Serve
  <1>3. m \in Wire /\ m.id = m.k
    BY DEF McpInv, McpTypeOK, Paired
  <1>4. ASSUME NEW k \in DOMAIN call
        PROVE  \/ call'[k] = call[k] /\ \A w \in pending[s] : w.id = m.id => w.k # k
               \/ /\ call[k].pc = "waiting" /\ call'[k].pc = "woken" /\ call'[k] \in Calls
                  /\ call'[k].id = call[k].id /\ call'[k].srv = call[k].srv /\ call'[k].sent = call[k].sent
                  /\ call'[k].with = Result(k) /\ k = m.id /\ call[k].srv = s
    <2>1. call[k] \in Calls
      BY Numbers DEF McpInv
    <2>2. CASE \E w \in {w \in pending[s] : w.id = m.id} : w.k = k
      <3>1. call[k].pc = "waiting" /\ k = m.id /\ call[k].srv = s
        BY <2>2 DEF McpInv, Paired
      <3>2. call'[k] = [[call[k] EXCEPT !.pc = "woken"] EXCEPT !.with = Result(k)]
        BY <1>1, <1>3, <2>2, <3>1
      <3>3. Result(k) \in [is : {"nothing", "error", "result"}, to : Nat]
        BY <1>3, <3>1 DEF Result, Wire
      <3>4. QED
        BY <2>1, <3>1, <3>2, <3>3 DEF Calls
    <2>3. CASE ~ \E w \in {w \in pending[s] : w.id = m.id} : w.k = k
      BY <1>1, <2>3
    <2>4. QED
      BY <2>2, <2>3
  <1>5. /\ pending' \in [Server -> SUBSET Wire] /\ inbox' \in [Server -> SUBSET Wire]
        /\ \A t \in Server : pending'[t] \subseteq pending[t] /\ inbox'[t] \subseteq inbox[t]
        /\ \A w \in pending'[s] : w.id # m.id
    BY <1>1 DEF McpInv, McpTypeOK
  <1>6. \A t \in Server : \A w \in pending'[t] : call'[w.k] = call[w.k]
    <2> SUFFICES ASSUME NEW t \in Server, NEW w \in pending'[t] PROVE call'[w.k] = call[w.k]
      OBVIOUS
    <2>1. w.id = w.k /\ w.k \in DOMAIN call /\ call[w.k].srv = t
      BY <1>5 DEF McpInv, Paired
    <2>2. CASE w.k # m.id
      BY <1>4, <2>1, <2>2
    <2>3. CASE w.k = m.id
      BY <1>4, <1>5, <2>1, <2>3
    <2>4. QED
      BY <2>2, <2>3
  <1>7. DOMAIN call' = DOMAIN call /\ call' = [j \in DOMAIN call |-> call'[j]]
    BY <1>1
  <1>8. QED
    BY <1>2, <1>4, <1>5, <1>6, <1>7, WaitsEnd DEF McpInv, McpTypeOK

LEMMA ExitStep ==
  ASSUME McpInv, NEW s \in Server, Exit(s)
  PROVE  McpInv'
  <1>1. /\ inbox' = [inbox EXCEPT ![s] = {}] /\ pending' = [pending EXCEPT ![s] = {}]
        /\ call' = [k \in DOMAIN call |->
                      IF \E w \in pending[s] : w.k = k
                      THEN [call[k] EXCEPT !.pc = "woken", !.with = Error] ELSE call[k]]
        /\ UNCHANGED <<surfaces, routes, inflight, ran>> /\ exited' = exited \cup {s}
    BY DEF Exit
  <1>2. jolts' \in 0..MaxJolts /\ exited' \subseteq Server
    BY <1>1, JoltType DEF Exit, McpInv, McpTypeOK
  <1>3. ASSUME NEW k \in DOMAIN call
        PROVE  \/ call'[k] = call[k]
               \/ /\ call[k].pc = "waiting" /\ call'[k].pc = "woken" /\ call'[k] \in Calls
                  /\ call'[k].id = call[k].id /\ call'[k].srv = call[k].srv /\ call'[k].sent = call[k].sent
                  /\ call'[k].with = Error /\ call[k].srv = s
    <2>1. call[k] \in Calls
      BY Numbers DEF McpInv
    <2>2. CASE \E w \in pending[s] : w.k = k
      <3>1. call[k].pc = "waiting" /\ call[k].srv = s
        BY <2>2 DEF McpInv, Paired
      <3>2. call'[k] = [[call[k] EXCEPT !.pc = "woken"] EXCEPT !.with = Error]
        BY <1>1, <2>2
      <3>3. Error \in [is : {"nothing", "error", "result"}, to : Nat]
        BY DEF Error
      <3>4. QED
        BY <2>1, <3>1, <3>2, <3>3 DEF Calls
    <2>3. CASE ~ \E w \in pending[s] : w.k = k
      BY <1>1, <2>3
    <2>4. QED
      BY <2>2, <2>3
  <1>4. /\ pending' \in [Server -> SUBSET Wire] /\ inbox' \in [Server -> SUBSET Wire]
        /\ \A t \in Server : pending'[t] \subseteq pending[t] /\ inbox'[t] \subseteq inbox[t]
        /\ pending'[s] = {}
    BY <1>1 DEF McpInv, McpTypeOK
  <1>5. \A t \in Server : \A w \in pending'[t] : call'[w.k] = call[w.k]
    <2> SUFFICES ASSUME NEW t \in Server, NEW w \in pending'[t] PROVE call'[w.k] = call[w.k]
      OBVIOUS
    <2>1. w.k \in DOMAIN call /\ call[w.k].srv = t /\ t # s
      BY <1>4 DEF McpInv, Paired
    <2>2. QED
      BY <1>3, <2>1
  <1>6. DOMAIN call' = DOMAIN call /\ call' = [j \in DOMAIN call |-> call'[j]]
    BY <1>1
  <1>7. QED
    BY <1>1, <1>2, <1>3, <1>4, <1>5, <1>6, WaitsEnd DEF McpInv, McpTypeOK

-----------------------------------------------------------------------------
(* Steps that put a call on its way, and take it off.                      *)

LEMMA CallStep ==
  ASSUME McpInv, NEW k \in DOMAIN call, Call(k)
  PROVE  McpInv'
  <1> DEFINE v == [[call[k] EXCEPT !.pc = "writing"] EXCEPT !.sent = TRUE]
  <1>1. call[k] \in Calls /\ k \in Nat
    BY Numbers DEF McpInv
  <1>2. v \in Calls /\ v.pc = "writing" /\ v.id = call[k].id
        /\ v.srv = call[k].srv /\ v.sent = TRUE /\ v.with = call[k].with
    BY <1>1 DEF Calls
  <1>3. call' = [call EXCEPT ![k] = v] /\ call[k].pc \in {"calling", "raw"}
    BY DEF Call
  <1>4. /\ UNCHANGED <<surfaces, routes, pending, inbox, exited, ran, jolts>>
        /\ inflight' = [inflight EXCEPT ![call[k].id] = @ \cup {<<call[k].srv, k>>}]
    BY DEF Call, Register, WireId
  <1> HIDE DEF v
  <1>5. /\ call' \in Seq(Calls) /\ Len(call') = Len(call) /\ DOMAIN call' = DOMAIN call
        /\ call'[k] = v /\ \A j \in DOMAIN call : j # k => call'[j] = call[j]
    BY <1>2, <1>3, Moved DEF McpInv
  <1>6. inflight' \in [ClientId -> SUBSET (Server \X Nat)]
    BY <1>1, <1>4 DEF McpInv, McpTypeOK, Calls
  <1>7. McpTypeOK'
    BY <1>4, <1>5, <1>6 DEF McpInv, McpTypeOK
  <1>8. Progress'
    BY <1>2, <1>3, <1>4, <1>5 DEF McpInv, Progress
  <1>9. Paired'
    BY <1>3, <1>4, <1>5 DEF McpInv, Paired
  <1>10. CalledOnce'
    BY <1>4, <1>5 DEF McpInv, CalledOnce
  <1>11. OwnAnswer'
    BY <1>2, <1>5 DEF McpInv, OwnAnswer, Result, Error, Unsaid
  <1>12. Cancellable'
    <2>1. ~Sent(k) /\ Sent(k)' /\ \A j \in DOMAIN call : j # k => Sent(j)' = Sent(j)
      BY <1>2, <1>3, <1>5 DEF Sent
    <2> SUFFICES ASSUME NEW i \in ClientId
                 PROVE  inflight'[i] = {<<call'[j].srv, j>> : j \in {j \in DOMAIN call : call'[j].id = i /\ Sent(j)'}}
      BY <1>5 DEF Cancellable, WireId
    <2>2. inflight[i] = {<<call[j].srv, j>> : j \in {j \in DOMAIN call : call[j].id = i /\ Sent(j)}}
      BY DEF McpInv, Cancellable, WireId
    <2>3. inflight'[i] = IF i = call[k].id THEN inflight[i] \cup {<<call[k].srv, k>>} ELSE inflight[i]
      BY <1>4 DEF McpInv, McpTypeOK
    <2>4. QED
      BY <1>2, <1>5, <2>1, <2>2, <2>3
  <1>13. QED
    BY <1>7, <1>8, <1>9, <1>10, <1>11, <1>12 DEF McpInv

LEMMA FinishStep ==
  ASSUME McpInv, NEW k \in DOMAIN call, Finish(k)
  PROVE  McpInv'
  <1> DEFINE v == [call[k] EXCEPT !.pc = "answered"]
  <1>1. call[k] \in Calls /\ k \in Nat
    BY Numbers DEF McpInv
  <1>2. v \in Calls /\ v.pc = "answered" /\ v.id = call[k].id
        /\ v.srv = call[k].srv /\ v.sent = call[k].sent /\ v.with = call[k].with
    BY <1>1 DEF Calls
  <1>3. call' = [call EXCEPT ![k] = v] /\ call[k].pc = "woken"
    BY DEF Finish, Goto
  <1>4. /\ UNCHANGED <<surfaces, routes, pending, inbox, exited, ran, jolts>>
        /\ inflight' = [inflight EXCEPT ![call[k].id] = @ \ {<<call[k].srv, k>>}]
    BY DEF Finish, WireId
  <1> HIDE DEF v
  <1>5. /\ call' \in Seq(Calls) /\ Len(call') = Len(call) /\ DOMAIN call' = DOMAIN call
        /\ call'[k] = v /\ \A j \in DOMAIN call : j # k => call'[j] = call[j]
    BY <1>2, <1>3, Moved DEF McpInv
  <1>6. inflight' \in [ClientId -> SUBSET (Server \X Nat)]
    BY <1>1, <1>4 DEF McpInv, McpTypeOK, Calls
  <1>7. McpTypeOK'
    BY <1>4, <1>5, <1>6 DEF McpInv, McpTypeOK
  <1>8. Progress'
    BY <1>2, <1>4, <1>5 DEF McpInv, Progress
  <1>9. Paired'
    BY <1>3, <1>4, <1>5 DEF McpInv, Paired
  <1>10. CalledOnce'
    BY <1>4, <1>5 DEF McpInv, CalledOnce
  <1>11. OwnAnswer'
    BY <1>2, <1>5 DEF McpInv, OwnAnswer, Result, Error, Unsaid
  <1>12. Cancellable'
    <2>1. Sent(k) /\ ~Sent(k)' /\ \A j \in DOMAIN call : j # k => Sent(j)' = Sent(j)
      BY <1>2, <1>3, <1>5 DEF Sent, McpInv, Progress
    <2> SUFFICES ASSUME NEW i \in ClientId
                 PROVE  inflight'[i] = {<<call'[j].srv, j>> : j \in {j \in DOMAIN call : call'[j].id = i /\ Sent(j)'}}
      BY <1>5 DEF Cancellable, WireId
    <2>2. inflight[i] = {<<call[j].srv, j>> : j \in {j \in DOMAIN call : call[j].id = i /\ Sent(j)}}
      BY DEF McpInv, Cancellable, WireId
    <2>3. inflight'[i] = IF i = call[k].id THEN inflight[i] \ {<<call[k].srv, k>>} ELSE inflight[i]
      BY <1>4 DEF McpInv, McpTypeOK
    <2>4. QED
      BY <1>2, <1>5, <2>1, <2>2, <2>3
  <1>13. QED
    BY <1>7, <1>8, <1>9, <1>10, <1>11, <1>12 DEF McpInv

LEMMA SendOffStep ==
  ASSUME McpInv, NEW k \in DOMAIN call, SendOff(k)
  PROVE  McpInv'
  <1> DEFINE v == [call[k] EXCEPT !.pc = "waiting"]
  <1> DEFINE s == call[k].srv
  <1>1. call[k] \in Calls /\ k \in Nat /\ s \in Server
    BY Numbers DEF McpInv, Calls
  <1>2. v \in Calls /\ v.pc = "waiting" /\ v.id = call[k].id
        /\ v.srv = s /\ v.sent = call[k].sent /\ v.with = call[k].with
    BY <1>1 DEF Calls
  <1>3. call' = [call EXCEPT ![k] = v] /\ call[k].pc = "writing"
    BY DEF SendOff, Goto
  <1>4. /\ UNCHANGED <<surfaces, routes, inflight, exited, jolts>>
        /\ pending' = [pending EXCEPT ![s] = {w \in @ : w.id # k} \cup {[id |-> k, k |-> k]}]
        /\ inbox' = [inbox EXCEPT ![s] = @ \cup {[id |-> k, k |-> k]}]
        /\ ran' = [ran EXCEPT ![k] = @ + 1]
    BY DEF SendOff, WireId
  <1> HIDE DEF v, s
  <1>5. /\ call' \in Seq(Calls) /\ Len(call') = Len(call) /\ DOMAIN call' = DOMAIN call
        /\ call'[k] = v /\ \A j \in DOMAIN call : j # k => call'[j] = call[j]
    BY <1>2, <1>3, Moved DEF McpInv
  <1>6. /\ ran' \in Seq(Nat) /\ Len(ran') = Len(ran) /\ ran'[k] = 1
        /\ \A j \in DOMAIN call : j # k => ran'[j] = ran[j]
    <2>1. ran \in Seq(Nat) /\ k \in 1..Len(ran) /\ DOMAIN ran = DOMAIN call /\ ran[k] = 0
      BY <1>3, Numbers DEF McpInv, McpTypeOK, Progress
    <2>2. ran' = [ran EXCEPT ![k] = 1]
      BY <1>4, <2>1
    <2>3. QED
      BY <2>1, <2>2, ExceptSeq
  <1>7. pending' \in [Server -> SUBSET Wire] /\ inbox' \in [Server -> SUBSET Wire]
    BY <1>1, <1>4 DEF McpInv, McpTypeOK, Wire
  <1>8. McpTypeOK'
    BY <1>4, <1>5, <1>6, <1>7 DEF McpInv, McpTypeOK
  <1>9. Progress'
    BY <1>2, <1>3, <1>5, <1>6 DEF McpInv, Progress
  <1>10. Paired'
    <2> SUFFICES ASSUME NEW t \in Server
                 PROVE  /\ \A m \in inbox'[t] : m.id = m.k
                        /\ \A w \in pending'[t] :
                             w.id = w.k /\ w.k \in DOMAIN call /\ call'[w.k].pc = "waiting" /\ call'[w.k].srv = t
      BY <1>5 DEF Paired
    <2>1. /\ \A m \in inbox'[t] : m \in inbox[t] \/ m = [id |-> k, k |-> k]
          /\ \A w \in pending'[t] : w \in pending[t] \/ (w = [id |-> k, k |-> k] /\ t = s)
      BY <1>1, <1>4 DEF McpInv, McpTypeOK
    <2>2. QED
      BY <1>2, <1>3, <1>5, <2>1 DEF McpInv, Paired
  <1>11. CalledOnce'
    BY <1>5, <1>6 DEF McpInv, CalledOnce
  <1>12. OwnAnswer'
    BY <1>2, <1>5 DEF McpInv, OwnAnswer, Result, Error, Unsaid
  <1>13. Cancellable'
    <2>1. \A j \in DOMAIN call :
            call'[j].id = call[j].id /\ call'[j].srv = call[j].srv /\ Sent(j)' = Sent(j)
      BY <1>2, <1>3, <1>5 DEF Sent, s
    <2>2. QED
      BY <1>4, <1>5, <2>1, SameRuns DEF McpInv
  <1>14. QED
    BY <1>8, <1>9, <1>10, <1>11, <1>12, <1>13 DEF McpInv

-----------------------------------------------------------------------------
(* The invariant is one, and what follows from it.                         *)

LEMMA McpNextHolds == McpInv /\ [McpNext]_mcpVars => McpInv'
  <1> SUFFICES ASSUME McpInv, [McpNext]_mcpVars PROVE McpInv'
    OBVIOUS
  <1>1. CASE \E i \in ClientId, s \in Server : Receive(i, s)
    BY <1>1, ReceiveStep
  <1>2. ASSUME NEW k \in DOMAIN call,
               \/ Listing(k) \/ Fetched(k) \/ FetchFails(k) \/ Route(k) \/ Stumble(k)
               \/ Call(k) \/ SendOff(k) \/ SendFails(k) \/ TimesOut(k) \/ Finish(k)
        PROVE  McpInv'
    BY <1>2, ListingStep, FetchedStep, FetchFailsStep, RouteStep, StumbleStep, CallStep,
       SendOffStep, SendFailsStep, TimesOutStep, FinishStep
  <1>3. ASSUME NEW s \in Server, Serve(s) \/ Exit(s) \/ ListChanged(s)
        PROVE  McpInv'
    BY <1>3, ServeStep, ExitStep, ListChangedStep
  <1>4. CASE \E i \in ClientId : Cancel(i)
    BY <1>4, CancelStep
  <1>5. CASE UNCHANGED mcpVars
    BY <1>5 DEF mcpVars, McpInv, McpTypeOK, Progress, Paired, CalledOnce, OwnAnswer, Cancellable, Sent
  <1>6. QED
    BY <1>1, <1>2, <1>3, <1>4, <1>5 DEF McpNext

\* Every state that is reached satisfies the inductive invariant.
THEOREM McpInvariance == McpSpec => []McpInv
  BY McpInitHolds, McpNextHolds, PTL DEF McpSpec

\* Every variable of the proxy keeps its type, for any number of servers, ids and calls.
THEOREM McpTyped == McpSpec => []McpTypeOK
  <1>1. McpInv => McpTypeOK
    BY DEF McpInv
  <1>2. QED
    BY <1>1, McpInvariance, PTL

\* handle() and the raw path never send one call to a server twice.
THEOREM McpCalledOnce == McpSpec => []CalledOnce
  <1>1. McpInv => CalledOnce
    BY DEF McpInv
  <1>2. QED
    BY <1>1, McpInvariance, PTL

\* No answer of StdioBackend._read reaches a request other than the one the server answered.
THEOREM McpOwnAnswer == McpSpec => []OwnAnswer
  <1>1. McpInv => OwnAnswer
    BY DEF McpInv
  <1>2. QED
    BY <1>1, McpInvariance, PTL

\* The table that _request keeps names, at every moment, the calls under way and no others.
THEOREM McpCancellable == McpSpec => []Cancellable
  <1>1. McpInv => Cancellable
    BY DEF McpInv
  <1>2. QED
    BY <1>1, McpInvariance, PTL

-----------------------------------------------------------------------------
(* ThinkGuard: tables and lines of the journal.                            *)

IsSeq(recs) == \E S : recs \in Seq(S)

TableOK(t) == IsFiniteSet(DOMAIN t.blk) /\ IsFiniteSet(DOMAIN t.asked) /\ IsFiniteSet(t.out)

LEMMA SetInSeq ==
  ASSUME NEW S, IsFiniteSet(S)
  PROVE  /\ SetToSeq(S) \in Seq(S)
         /\ \A x \in S : \E i \in 1..Len(SetToSeq(S)) : SetToSeq(S)[i] = x
<1>. DEFINE n == Cardinality(S)
            seq == SetToSeq(S)
<1>1. n \in Nat /\ ExistsBijection(1..n, S)
  BY FS_CardinalityType
<1>2. PICK g : g \in Bijection(1..n, S)
  BY <1>1 DEF ExistsBijection
<1>3. g \in [1..n -> S] /\ IsInjective(g)
  BY <1>2 DEF Bijection, Injection
<1>4. seq \in [1..n -> S] /\ IsInjective(seq)
  BY <1>3 DEF SetToSeq
<1>5. seq \in Injection(1..n, S)
  BY <1>4 DEF Injection
<1>6. IsFiniteSet(1..n) /\ Cardinality(1..n) = n
  BY <1>1, FS_Interval
<1>7. seq \in Surjection(1..n, S)
  BY <1>5, <1>6, FS_Injection
<1>8. seq \in Seq(S) /\ Len(seq) = n
  BY <1>1, <1>4, SeqDef, LenProperties
<1>. QED
  BY <1>7, <1>8 DEF Surjection

LEMMA KeysOf ==
  ASSUME NEW S, NEW recs \in Seq(S), NEW t
  PROVE  /\ IsFiniteSet(Keys(recs, t))
         /\ \A key : key \in Keys(recs, t) <=> \E i \in 1..Len(recs) : recs[i].t = t /\ recs[i].key = key
<1>1. Len(recs) \in Nat /\ DOMAIN recs = 1..Len(recs)
  BY LenProperties
<1>. DEFINE D == {i \in DOMAIN recs : recs[i].t = t}
            F == [i \in D |-> recs[i].key]
<1>2. IsFiniteSet(1..Len(recs))
  BY <1>1, FS_Interval
<1>3. IsFiniteSet(D)
  BY <1>1, <1>2, FS_Subset
<1>4. F \in Surjection(D, Keys(recs, t))
  BY DEF Surjection, Keys
<1>5. IsFiniteSet(Keys(recs, t))
  BY <1>3, <1>4, FS_Surjection
<1>. QED
  BY <1>1, <1>5 DEF Keys

LEMMA KeyAt ==
  ASSUME NEW recs, IsSeq(recs), NEW t, NEW key
  PROVE  key \in Keys(recs, t) <=> \E i \in 1..Len(recs) : recs[i].t = t /\ recs[i].key = key
BY KeysOf DEF IsSeq

LEMMA KeysConcat ==
  ASSUME NEW S, NEW r1 \in Seq(S), NEW r2 \in Seq(S), NEW t
  PROVE  Keys(r1 \o r2, t) = Keys(r1, t) \cup Keys(r2, t)
<1>. DEFINE r == r1 \o r2
<1>1. /\ r \in Seq(S) /\ Len(r) = Len(r1) + Len(r2) /\ Len(r1) \in Nat /\ Len(r2) \in Nat
      /\ \A i \in 1..(Len(r1) + Len(r2)) : r[i] = IF i <= Len(r1) THEN r1[i] ELSE r2[i - Len(r1)]
  BY ConcatProperties, LenProperties
<1>5. IsSeq(r) /\ IsSeq(r1) /\ IsSeq(r2)
  BY <1>1 DEF IsSeq
<1>. HIDE DEF r
<1>2. ASSUME NEW key \in Keys(r, t) PROVE key \in Keys(r1, t) \cup Keys(r2, t)
  <2>1. PICK i \in 1..Len(r) : r[i].t = t /\ r[i].key = key
    BY <1>2, <1>5, KeyAt
  <2>2. CASE i <= Len(r1)
    BY <1>1, <2>1, <2>2, <1>5, KeyAt
  <2>3. CASE i > Len(r1)
    <3>1. i - Len(r1) \in 1..Len(r2) /\ r2[i - Len(r1)] = r[i]
      BY <1>1, <2>1, <2>3
    <3>. QED
      BY <2>1, <3>1, <1>5, KeyAt
  <2>. QED
    BY <1>1, <2>1, <2>2, <2>3
<1>3. ASSUME NEW key \in Keys(r1, t) PROVE key \in Keys(r, t)
  <2>1. PICK i \in 1..Len(r1) : r1[i].t = t /\ r1[i].key = key
    BY <1>3, <1>5, KeyAt
  <2>2. i \in 1..Len(r) /\ r[i] = r1[i]
    BY <1>1, <2>1
  <2>. QED
    BY <1>1, <2>1, <2>2, <1>5, KeyAt
<1>4. ASSUME NEW key \in Keys(r2, t) PROVE key \in Keys(r, t)
  <2>1. PICK i \in 1..Len(r2) : r2[i].t = t /\ r2[i].key = key
    BY <1>4, <1>5, KeyAt
  <2>. DEFINE j == i + Len(r1)
  <2>3. j \in 1..(Len(r1) + Len(r2)) /\ ~(j <= Len(r1)) /\ j - Len(r1) = i
    BY <1>1, <2>1
  <2>. HIDE DEF j
  <2>2. j \in 1..Len(r) /\ r[j] = r2[i]
    BY <1>1, <2>3
  <2>. QED
    BY <1>1, <2>1, <2>2, <1>5, KeyAt
<1>. QED
  BY <1>2, <1>3, <1>4 DEF r

LEMMA LinesConcat ==
  ASSUME NEW r1, NEW r2, IsSeq(r1), IsSeq(r2)
  PROVE  /\ IsSeq(r1 \o r2) /\ Len(r1 \o r2) = Len(r1) + Len(r2)
         /\ Len(r1) \in Nat /\ Len(r2) \in Nat
         /\ \A i \in 1..Len(r1) : (r1 \o r2)[i] = r1[i]
         /\ \A i \in 1..Len(r2) : (r1 \o r2)[Len(r1) + i] = r2[i]
         /\ \A t : Keys(r1 \o r2, t) = Keys(r1, t) \cup Keys(r2, t)
<1>1. PICK S1 : r1 \in Seq(S1)
  BY DEF IsSeq
<1>2. PICK S2 : r2 \in Seq(S2)
  BY DEF IsSeq
<1>3. r1 \in Seq(S1 \cup S2) /\ r2 \in Seq(S1 \cup S2)
  BY <1>1, <1>2, SeqMonotonic
<1>4. /\ r1 \o r2 \in Seq(S1 \cup S2) /\ Len(r1 \o r2) = Len(r1) + Len(r2)
      /\ Len(r1) \in Nat /\ Len(r2) \in Nat
      /\ \A i \in 1..(Len(r1) + Len(r2)) :
           (r1 \o r2)[i] = IF i <= Len(r1) THEN r1[i] ELSE r2[i - Len(r1)]
  BY <1>3, ConcatProperties, LenProperties
<1>5. \A t : Keys(r1 \o r2, t) = Keys(r1, t) \cup Keys(r2, t)
  BY <1>3, KeysConcat
<1>. QED
  BY <1>4, <1>5 DEF IsSeq

LEMMA ApplyAllOK ==
  ASSUME NEW t, TableOK(t), NEW recs, IsSeq(recs)
  PROVE  TableOK(ApplyAll(t, recs)) /\ ApplyAll(t, recs).out = t.out \cup Keys(recs, "d")
<1>1. PICK S : recs \in Seq(S)
  BY DEF IsSeq
<1>2. IsFiniteSet(Keys(recs, "e")) /\ IsFiniteSet(Keys(recs, "r")) /\ IsFiniteSet(Keys(recs, "d"))
  BY <1>1, KeysOf
<1>3. /\ IsFiniteSet(DOMAIN t.blk \cup Keys(recs, "e"))
      /\ IsFiniteSet(DOMAIN t.asked \cup Keys(recs, "r")) /\ IsFiniteSet(t.out \cup Keys(recs, "d"))
  BY <1>2, FS_Union DEF TableOK
<1>. QED
  BY <1>3 DEF TableOK, ApplyAll, Updated

LEMMA DumpOK ==
  ASSUME NEW t, TableOK(t)
  PROVE  IsSeq(Dump(t)) /\ Keys(Dump(t), "d") = t.out
<1>. DEFINE D == {OutLine(b) : b \in t.out}
            A == {AskedLine(o, t.asked[o]) : o \in DOMAIN t.asked}
            B == {BlockLine(b, t.blk[b]) : b \in DOMAIN t.blk}
<1>1. IsFiniteSet(D) /\ IsFiniteSet(A) /\ IsFiniteSet(B)
  <2>. DEFINE fD == [b \in t.out |-> OutLine(b)]
              fA == [o \in DOMAIN t.asked |-> AskedLine(o, t.asked[o])]
              fB == [b \in DOMAIN t.blk |-> BlockLine(b, t.blk[b])]
  <2>1. fD \in Surjection(t.out, D) /\ fA \in Surjection(DOMAIN t.asked, A)
        /\ fB \in Surjection(DOMAIN t.blk, B)
    BY DEF Surjection
  <2>. QED
    BY <2>1, FS_Surjection DEF TableOK
<1>2. /\ SetToSeq(D) \in Seq(D) /\ SetToSeq(A) \in Seq(A) /\ SetToSeq(B) \in Seq(B)
      /\ \A x \in D : \E i \in 1..Len(SetToSeq(D)) : SetToSeq(D)[i] = x
  BY <1>1, SetInSeq
<1>5. IsSeq(SetToSeq(D)) /\ IsSeq(SetToSeq(A)) /\ IsSeq(SetToSeq(B))
  BY <1>2 DEF IsSeq
<1>. DEFINE sD == SetToSeq(D)
            sA == SetToSeq(A)
            sB == SetToSeq(B)
<1>8. (\A b \in t.out : OutLine(b) \in D) /\ \A x \in D : x.t = "d" /\ x.key \in t.out
  BY DEF OutLine
<1>9. \A b : OutLine(b).t = "d" /\ OutLine(b).key = b
  BY DEF OutLine
<1>10. (\A x \in A : x.t = "r") /\ \A x \in B : x.t = "e"
  BY DEF AskedLine, BlockLine
<1>11. IsSeq(sD) /\ IsSeq(sA) /\ IsSeq(sB)
  BY <1>5
<1>12. /\ \A i \in 1..Len(sD) : sD[i] \in D
       /\ \A i \in 1..Len(sA) : sA[i] \in A
       /\ \A i \in 1..Len(sB) : sB[i] \in B
  BY <1>2, ElementOfSeq
<1>13. \A x \in D : \E i \in 1..Len(sD) : sD[i] = x
  BY <1>2
<1>14. Dump(t) = (sD \o sA) \o sB
  BY DEF Dump
<1>. HIDE DEF sD, sA, sB, D, A, B
<1>3. Keys(sD, "d") = t.out
  <2>1. ASSUME NEW b \in t.out PROVE b \in Keys(sD, "d")
    <3>1. PICK i \in 1..Len(sD) : sD[i] = OutLine(b)
      BY <1>8, <1>13
    <3>. QED
      BY <1>9, <1>11, <3>1, KeyAt
  <2>2. ASSUME NEW b \in Keys(sD, "d") PROVE b \in t.out
    <3>1. PICK i \in 1..Len(sD) : sD[i].key = b
      BY <1>11, <2>2, KeyAt
    <3>. QED
      BY <1>8, <1>12, <3>1
  <2>. QED
    BY <2>1, <2>2
<1>4. Keys(sA, "d") = {} /\ Keys(sB, "d") = {}
  <2>1. ASSUME NEW key \in Keys(sA, "d") PROVE FALSE
    BY <1>10, <1>11, <1>12, <2>1, KeyAt
  <2>2. ASSUME NEW key \in Keys(sB, "d") PROVE FALSE
    BY <1>10, <1>11, <1>12, <2>2, KeyAt
  <2>. QED
    BY <2>1, <2>2
<1>. DEFINE sDA == sD \o sA
<1>6. IsSeq(sDA) /\ Keys(sDA, "d") = t.out
  <2>1. IsSeq(sDA) /\ \A k : Keys(sDA, k) = Keys(sD, k) \cup Keys(sA, k)
    BY <1>11, LinesConcat
  <2>. QED
    BY <1>3, <1>4, <2>1
<1>7. IsSeq(sDA \o sB) /\ Keys(sDA \o sB, "d") = t.out
  <2>. HIDE DEF sDA
  <2>1. IsSeq(sDA \o sB) /\ \A k : Keys(sDA \o sB, k) = Keys(sDA, k) \cup Keys(sB, k)
    BY <1>6, <1>11, LinesConcat
  <2>. QED
    BY <1>4, <1>6, <2>1
<1>. QED
  BY <1>7, <1>14

\* The verdict takes out every block that is out, and says so of what it takes out anew.
LEMMA VerdictOK ==
  ASSUME NEW t, TableOK(t), NEW places, IsFiniteSet(places), NEW o, NEW f
  PROVE  LET v == Verdict(t, places, o, f)
         IN /\ IsSeq(v.recs)
            /\ v.remove \subseteq t.out \cup Keys(v.recs, "d")
            /\ \A pl \in places : pl.b \in t.out => pl.b \in v.remove
<1>. DEFINE stay == Judged(t, places).stay
            remove == {pl.b : pl \in places \ stay}
            Out == {OutLine(b) : b \in remove \ t.out}
            In == Inferred(t, places)
            ask == AskedLine(o, [f |-> f, p |-> LastBlock(stay)])
            v == Verdict(t, places, o, f)
<1>1. v.remove = remove /\ v.recs = Append(SetToSeq(In) \o SetToSeq(Out), ask)
  BY DEF Verdict
<1>2. \A pl \in stay : pl.b \notin t.out
  BY DEF Judged
<1>3. IsFiniteSet(remove)
  <2>1. IsFiniteSet(places \ stay)
    BY FS_Subset
  <2>2. [pl \in places \ stay |-> pl.b] \in Surjection(places \ stay, remove)
    BY DEF Surjection
  <2>. QED
    BY <2>1, <2>2, FS_Surjection
<1>4. IsFiniteSet(Out)
  <2>1. IsFiniteSet(remove \ t.out)
    BY <1>3, FS_Subset
  <2>2. [b \in remove \ t.out |-> OutLine(b)] \in Surjection(remove \ t.out, Out)
    BY DEF Surjection
  <2>. QED
    BY <2>1, <2>2, FS_Surjection
<1>5. IsFiniteSet(In)
  <2>. DEFINE P == {pl \in Judged(t, places).all :
                      pl.b \notin DOMAIN t.blk /\ pl.base \in DOMAIN t.asked}
  <2>1. P \subseteq places
    BY DEF Judged
  <2>2. IsFiniteSet(P)
    BY <2>1, FS_Subset
  <2>3. [pl \in P |-> BlockLine(pl.b, Infer(t, pl))] \in Surjection(P, In)
    BY DEF Surjection, Inferred
  <2>. QED
    BY <2>2, <2>3, FS_Surjection
<1>6. /\ SetToSeq(In) \in Seq(In) /\ SetToSeq(Out) \in Seq(Out)
      /\ \A x \in Out : \E i \in 1..Len(SetToSeq(Out)) : SetToSeq(Out)[i] = x
  BY <1>4, <1>5, SetInSeq
<1>7. IsSeq(SetToSeq(In)) /\ IsSeq(SetToSeq(Out))
  BY <1>6 DEF IsSeq
<1>8. remove \ t.out \subseteq Keys(SetToSeq(Out), "d")
  <2>. SUFFICES ASSUME NEW b \in remove \ t.out PROVE b \in Keys(SetToSeq(Out), "d")
    OBVIOUS
  <2>1. PICK i \in 1..Len(SetToSeq(Out)) : SetToSeq(Out)[i] = OutLine(b)
    BY <1>6
  <2>. QED
    BY <1>6, <2>1, KeysOf DEF OutLine
<1>. DEFINE both == SetToSeq(In) \o SetToSeq(Out)
<1>9. IsSeq(both) /\ Keys(SetToSeq(Out), "d") \subseteq Keys(both, "d")
  <2>1. IsSeq(both) /\ \A k : Keys(both, k) = Keys(SetToSeq(In), k) \cup Keys(SetToSeq(Out), k)
    BY <1>7, LinesConcat
  <2>. QED
    BY <2>1
<1>10. IsSeq(Append(both, ask)) /\ Keys(both, "d") \subseteq Keys(Append(both, ask), "d")
  <2>1. PICK S : both \in Seq(S)
    BY <1>9 DEF IsSeq
  <2>2. both \in Seq(S \cup {ask})
    BY <2>1, SeqMonotonic
  <2>3. /\ Append(both, ask) \in Seq(S \cup {ask}) /\ Len(Append(both, ask)) = Len(both) + 1
        /\ \A i \in 1..Len(both) : Append(both, ask)[i] = both[i]
    BY <2>2, AppendProperties
  <2>4. \A i \in 1..Len(both) : i \in 1..Len(Append(both, ask))
    BY <2>2, <2>3, LenProperties
  <2>5. IsSeq(Append(both, ask))
    BY <2>3 DEF IsSeq
  <2>. HIDE DEF both, ask
  <2>6. Keys(both, "d") \subseteq Keys(Append(both, ask), "d")
    <3>. SUFFICES ASSUME NEW key \in Keys(both, "d") PROVE key \in Keys(Append(both, ask), "d")
      OBVIOUS
    <3>. DEFINE all == Append(both, ask)
    <3>1. PICK i \in 1..Len(both) : both[i].t = "d" /\ both[i].key = key
      BY <1>9, KeyAt
    <3>2. i \in 1..Len(all) /\ all[i] = both[i] /\ IsSeq(all)
      BY <2>3, <2>4, <2>5, <3>1
    <3>. HIDE DEF all
    <3>3. key \in Keys(all, "d")
      BY <3>1, <3>2, KeyAt
    <3>. QED
      BY <3>3 DEF all
  <2>. QED
    BY <2>5, <2>6
<1>11. \A pl \in places : pl.b \in t.out => pl.b \in remove
  BY <1>2
<1>12. v.remove \subseteq t.out \cup Keys(v.recs, "d")
  BY <1>1, <1>8, <1>9, <1>10
<1>. QED
  BY <1>1, <1>10, <1>11, <1>12

Less == OpToRel(<, Nat)

LEMMA LeastOf ==
  ASSUME NEW T, T \subseteq Nat, T # {}
  PROVE  \E x \in T : \A y \in T : x <= y
<1>1. IsWellFoundedOn(Less, Nat)
  BY NatLessThanWellFounded, Zenon DEF Less
<1>2. PICK x \in T : \A y \in T : ~(<<y, x>> \in Less)
  BY <1>1, WFMin
<1>3. \A a, b \in Nat : <<b, a>> \in Less <=> b < a
  BY DEF OpToRel, Less
<1>4. \A y \in T : ~(y < x)
  BY <1>2, <1>3, Zenon
<1>. QED
  BY <1>4

LEMMA GreatestOf ==
  ASSUME NEW T, T \subseteq Nat, T # {}, NEW n \in Nat, \A x \in T : x <= n
  PROVE  Max(T) \in T /\ \A y \in T : y <= Max(T)
<1>. DEFINE Rest == {n - x : x \in T}
<1>1. Rest \subseteq Nat /\ Rest # {}
  OBVIOUS
<1>2. PICK m \in Rest : \A y \in Rest : m <= y
  BY <1>1, LeastOf
<1>3. PICK x \in T : m = n - x
  BY <1>2
<1>4. \A y \in T : y <= x
  BY <1>2, <1>3
<1>5. x \in T /\ \A y \in T : x >= y
  BY <1>4
<1>. QED
  BY <1>5 DEF Max

-----------------------------------------------------------------------------
USE DEF Spare

-----------------------------------------------------------------------------
(* Requests: what the client, the requests and the journal have in common. *)

TurnItem == [u : Nat, a : Nat, x : {"plain", "spliced", "requeried"}]

\* An assistant's item holds finitely many blocks.
FormsOK(turns, fwd) == \A j \in Items(turns) : ~User(j) => IsFiniteSet(fwd[j])

WellMade(q) ==
  /\ {"st", "p", "turns"} \subseteq DOMAIN q /\ q.p \in Proc
  /\ q.turns \in Seq(TurnItem) /\ q.turns # << >>
  /\ q.st # "new" => "fwd" \in DOMAIN q /\ FormsOK(q.turns, q.fwd)

ClientOK ==
  /\ hist \in Seq(TurnItem) /\ live \in Nat
  /\ live # 0 => req[live].turns = Append(hist, Open(0))

RequestsOK == IsSeq(req) /\ \A r \in DOMAIN req : Active(r) => WellMade(req[r])

LineagesOK ==
  /\ DOMAIN lin = Proc
  /\ \A p \in Proc : lin[p] # Cold =>
       /\ Len(lin[p].canon) \in Nat
       /\ \A j \in 1..Len(lin[p].canon) : ~User(j) => IsFiniteSet(lin[p].fwd[j])

TablesOK ==
  /\ IsSeq(journal) /\ off \in [Proc -> Nat] /\ lines \in [Proc -> Nat]
  /\ DOMAIN known = Proc /\ \A p \in Proc : TableOK(known[p])

\* As long as no record is lost, the journal says of every block that was taken out that it
\* is out, and a process has taken in what stands before its offset.
Follows ==
  ~lost =>
    /\ removed \subseteq Keys(journal, "d")
    /\ \A p \in Proc :
         /\ off[p] <= Len(journal) /\ known[p].out \subseteq Keys(journal, "d")
         /\ \A i \in 1..off[p] : journal[i].t = "d" => journal[i].key \in known[p].out

Holds(r) == Active(r) /\ req[r].st \in {"judged", "tainted"}

\* The lock of a process has one holder.
OneHolds == \A r, s \in DOMAIN req : Holds(r) /\ Holds(s) /\ req[r].p = req[s].p => r = s

\* A verdict knows every block that its process knows is out, until the lock is released.
VerdictsOK ==
  \A r \in DOMAIN req : Active(r) /\ req[r].st = "judged" =>
    LET v == req[r].verdict
        out == known[req[r].p].out
    IN /\ IsSeq(v.recs) /\ v.remove \subseteq out \cup Keys(v.recs, "d")
       /\ \A pl \in Places(req[r].turns, req[r].fwd) : pl.b \in out => pl.b \in v.remove

GuardInv ==
  /\ RequestsTypeOK /\ ClientOK /\ RequestsOK /\ LineagesOK
  /\ TablesOK /\ Follows /\ OneHolds /\ VerdictsOK

-----------------------------------------------------------------------------
(* Steps on the journal.                                                   *)

LEMMA SyncOK ==
  ASSUME TablesOK, Follows, NEW p \in Proc, Sync(p), UNCHANGED <<journal, lost, removed>>
  PROVE  /\ TablesOK' /\ Follows'
         /\ IsSeq(Unread(p)) /\ known'[p] = ApplyAll(known[p], Unread(p))
         /\ \A q \in Proc \ {p} : known'[q] = known[q]
<1>. DEFINE un == Unread(p)
<1>1. PICK S : journal \in Seq(S)
  BY DEF TablesOK, IsSeq
<1>2. Len(journal) \in Nat /\ off[p] \in Nat /\ lines[p] \in Nat
  BY <1>1, LenProperties DEF TablesOK
<1>3. /\ un \in Seq(S) /\ Len(un) = (IF off[p] + 1 <= Len(journal) THEN Len(journal) - off[p] ELSE 0)
      /\ \A i \in 1..(Len(journal) - off[p]) : un[i] = journal[off[p] + i]
  <2>1. \A i \in (off[p] + 1)..Len(journal) : journal[i] \in S
    BY <1>1, <1>2, ElementOfSeq
  <2>. QED
    BY <1>2, <2>1, SubSeqProperties DEF Unread
<1>4. IsSeq(un) /\ Len(un) \in Nat /\ IsSeq(journal)
  BY <1>1, <1>2, <1>3 DEF IsSeq
<1>5. /\ TableOK(ApplyAll(known[p], un))
      /\ ApplyAll(known[p], un).out = known[p].out \cup Keys(un, "d")
  BY <1>4, ApplyAllOK DEF TablesOK
<1>6. /\ known'[p] = ApplyAll(known[p], un) /\ \A q \in Proc \ {p} : known'[q] = known[q]
      /\ DOMAIN known' = Proc
  BY DEF Sync, TablesOK
<1>7. /\ off' \in [Proc -> Nat] /\ lines' \in [Proc -> Nat]
      /\ off'[p] = (IF Len(journal) > off[p] THEN Len(journal) ELSE off[p])
      /\ \A q \in Proc \ {p} : off'[q] = off[q]
  BY <1>2, <1>4 DEF Sync, TablesOK
<1>8. TablesOK'
  BY <1>5, <1>6, <1>7 DEF TablesOK
<1>9. Follows'
  <2>. SUFFICES ASSUME ~lost, NEW q \in Proc
                PROVE /\ off'[q] <= Len(journal) /\ known'[q].out \subseteq Keys(journal, "d")
                      /\ \A i \in 1..off'[q] : journal[i].t = "d" => journal[i].key \in known'[q].out
    BY DEF Follows
  <2>1. CASE q # p
    BY <1>6, <1>7, <2>1 DEF Follows
  <2>2. CASE q = p
    <3>1. /\ off[p] <= Len(journal) /\ known[p].out \subseteq Keys(journal, "d")
          /\ \A i \in 1..off[p] : journal[i].t = "d" => journal[i].key \in known[p].out
      BY DEF Follows
    <3>2. off'[p] = Len(journal) /\ Len(un) = Len(journal) - off[p]
      BY <1>2, <1>3, <1>7, <3>1
    <3>3. ASSUME NEW i \in 1..Len(journal), journal[i].t = "d"
          PROVE journal[i].key \in known'[p].out
      <4>1. CASE i <= off[p]
        BY <1>2, <1>5, <1>6, <3>1, <3>3, <4>1
      <4>2. CASE i > off[p]
        <5>. DEFINE j == i - off[p]
        <5>1. j \in 1..(Len(journal) - off[p]) /\ off[p] + j = i
          BY <1>2, <4>2
        <5>. HIDE DEF j
        <5>2. j \in 1..Len(un) /\ un[j] = journal[i]
          BY <1>3, <3>2, <5>1
        <5>. HIDE DEF un
        <5>3. journal[i].key \in Keys(un, "d")
          BY <1>4, <3>3, <5>2, KeyAt
        <5>. QED
          BY <1>5, <1>6, <5>3
      <4>. QED
        BY <1>2, <4>1, <4>2
    <3>4. Keys(un, "d") \subseteq Keys(journal, "d")
      <4>. SUFFICES ASSUME NEW key \in Keys(un, "d") PROVE key \in Keys(journal, "d")
        OBVIOUS
      <4>. HIDE DEF un
      <4>1. PICK j \in 1..Len(un) : un[j].t = "d" /\ un[j].key = key
        BY <1>4, KeyAt
      <4>2. un[j] = journal[off[p] + j] /\ off[p] + j \in 1..Len(journal)
        BY <1>2, <1>3, <3>2, <4>1
      <4>. QED
        BY <1>4, <4>1, <4>2, KeyAt
    <3>. QED
      BY <1>2, <1>5, <1>6, <2>2, <3>1, <3>2, <3>3, <3>4
  <2>. QED
    BY <2>1, <2>2
<1>. QED
  BY <1>4, <1>6, <1>8, <1>9

LEMMA PersistOK ==
  ASSUME TablesOK, Follows, NEW p \in Proc, NEW recs, IsSeq(recs), NEW late, Persist(p, recs, late),
         removed' \subseteq removed \cup known[p].out \cup Keys(recs, "d")
  PROVE  TablesOK' /\ Follows' /\ \A q \in Proc \ {p} : known'[q] = known[q]
<1>. DEFINE t == ApplyAll(known[p], recs)
            full == lines[p] + Len(recs) > 2 * TableSize(t) + Slack
<1>1. IsSeq(journal) /\ off[p] \in Nat /\ lines[p] \in Nat /\ TableOK(known[p])
  BY DEF TablesOK
<1>2. TableOK(t) /\ t.out = known[p].out \cup Keys(recs, "d")
  BY <1>1, ApplyAllOK
<1>3. IsSeq(Dump(t)) /\ Keys(Dump(t), "d") = t.out
  BY <1>2, DumpOK
<1>4. Len(Dump(t)) \in Nat /\ Len(recs) \in Nat /\ Len(journal) \in Nat
  BY <1>1, <1>3, LenProperties DEF IsSeq
<1>5. /\ IsSeq(journal \o recs) /\ Len(journal \o recs) = Len(journal) + Len(recs)
      /\ \A i \in 1..Len(journal) : (journal \o recs)[i] = journal[i]
      /\ \A i \in 1..Len(recs) : (journal \o recs)[Len(journal) + i] = recs[i]
      /\ Keys(journal \o recs, "d") = Keys(journal, "d") \cup Keys(recs, "d")
  BY <1>1, LinesConcat
<1>6. /\ known'[p] = t /\ DOMAIN known' = Proc /\ \A q \in Proc \ {p} : known'[q] = known[q]
      /\ journal' = (IF full THEN Dump(t) ELSE journal \o recs)
      /\ off' = [off EXCEPT ![p] = IF full THEN Len(Dump(t)) ELSE @ + Len(recs)]
      /\ lines' = [lines EXCEPT ![p] = IF full THEN Len(Dump(t)) ELSE lines[p] + Len(recs)]
      /\ ~lost' => ~lost /\ off[p] = Len(journal) /\ (full => \A q \in Proc \ {p} : off[q] = 0)
  BY DEF Persist, TablesOK
<1>. HIDE DEF t, full
<1>7. /\ off' \in [Proc -> Nat] /\ lines' \in [Proc -> Nat]
      /\ off'[p] = (IF full THEN Len(Dump(t)) ELSE off[p] + Len(recs))
      /\ \A q \in Proc \ {p} : off'[q] = off[q]
  BY <1>1, <1>4, <1>6 DEF TablesOK
<1>8. TablesOK'
  BY <1>2, <1>3, <1>5, <1>6, <1>7 DEF TablesOK
<1>9. Follows'
  <2>. SUFFICES ASSUME ~lost' PROVE Follows'
    BY DEF Follows
  <2>1. /\ ~lost /\ off[p] = Len(journal) /\ (full => \A q \in Proc \ {p} : off[q] = 0)
        /\ removed \subseteq Keys(journal, "d")
        /\ \A q \in Proc : /\ off[q] <= Len(journal) /\ known[q].out \subseteq Keys(journal, "d")
                           /\ \A i \in 1..off[q] : journal[i].t = "d" => journal[i].key \in known[q].out
    BY <1>6 DEF Follows
  <2>2. Keys(journal, "d") \subseteq known[p].out
    <3>. SUFFICES ASSUME NEW key \in Keys(journal, "d") PROVE key \in known[p].out
      OBVIOUS
    <3>1. PICK i \in 1..Len(journal) : journal[i].t = "d" /\ journal[i].key = key
      BY <1>1, KeyAt
    <3>. QED
      BY <2>1, <3>1
  <2>3. Keys(journal', "d") = t.out /\ removed' \subseteq t.out
    BY <1>2, <1>3, <1>5, <1>6, <2>1, <2>2
  <2>4. \A q \in Proc : known'[q].out \subseteq Keys(journal', "d")
    BY <1>2, <1>6, <2>1, <2>2, <2>3
  <2>5. \A i \in 1..Len(journal') : journal'[i].t = "d" => journal'[i].key \in t.out
    <3>1. IsSeq(journal')
      BY <1>8 DEF TablesOK
    <3>. QED
      BY <2>3, <3>1, KeyAt
  <2>6. off'[p] = Len(journal')
    BY <1>5, <1>6, <1>7, <2>1
  <2>7. ASSUME NEW q \in Proc \ {p}
        PROVE /\ off'[q] <= Len(journal')
              /\ \A i \in 1..off'[q] : journal'[i].t = "d" => journal'[i].key \in known'[q].out
    <3>1. CASE full
      BY <1>3, <1>4, <1>6, <1>7, <2>1, <3>1
    <3>2. CASE ~full
      <4>1. off[q] \in Nat /\ off[q] <= Len(journal) /\ off'[q] = off[q] /\ known'[q] = known[q]
        BY <1>6, <1>7, <2>1 DEF TablesOK
      <4>2. \A i \in 1..off[q] : journal'[i] = journal[i]
        BY <1>4, <1>5, <1>6, <3>2, <4>1
      <4>. QED
        BY <1>4, <1>5, <1>6, <2>1, <3>2, <4>1, <4>2
    <3>. QED
      BY <3>1, <3>2
  <2>8. Len(journal') \in Nat
    BY <1>4, <1>5, <1>6
  <2>9. /\ off'[p] <= Len(journal')
        /\ \A i \in 1..off'[p] : journal'[i].t = "d" => journal'[i].key \in known'[p].out
    BY <1>6, <2>5, <2>6, <2>8
  <2>10. \A q \in Proc : /\ off'[q] <= Len(journal')
                         /\ \A i \in 1..off'[q] : journal'[i].t = "d" => journal'[i].key \in known'[q].out
    BY <2>7, <2>9
  <2>. QED
    BY <2>3, <2>4, <2>10 DEF Follows
<1>. QED
  BY <1>6, <1>8, <1>9

LEMMA PersistFailsOK ==
  ASSUME TablesOK, NEW p \in Proc, NEW recs, IsSeq(recs), PersistFails(p, recs)
  PROVE  TablesOK' /\ Follows' /\ \A q \in Proc \ {p} : known'[q] = known[q]
<1>1. TableOK(ApplyAll(known[p], recs))
  BY ApplyAllOK DEF TablesOK
<1>2. /\ known'[p] = ApplyAll(known[p], recs) /\ DOMAIN known' = Proc
      /\ \A q \in Proc \ {p} : known'[q] = known[q]
  BY DEF PersistFails, TablesOK
<1>. QED
  BY <1>1, <1>2 DEF PersistFails, TablesOK, Follows

LEMMA ForgetOK ==
  ASSUME TablesOK, Follows, NEW p \in Proc, Forget(p), UNCHANGED removed
  PROVE  TablesOK' /\ Follows' /\ \A q \in Proc \ {p} : known'[q] = known[q]
<1>1. TableOK(Nothing) /\ Nothing.out = {}
  BY FS_EmptySet DEF TableOK, Nothing
<1>2. /\ known'[p] = Nothing /\ DOMAIN known' = Proc /\ \A q \in Proc \ {p} : known'[q] = known[q]
      /\ off' \in [Proc -> Nat] /\ lines' \in [Proc -> Nat]
      /\ off'[p] = 0 /\ \A q \in Proc \ {p} : off'[q] = off[q]
      /\ journal' = journal /\ lost' = lost
  BY DEF Forget, TablesOK
<1>3. TablesOK'
  BY <1>1, <1>2 DEF TablesOK
<1>4. Len(journal) \in Nat
  BY LenProperties DEF TablesOK, IsSeq
<1>5. Follows'
  BY <1>1, <1>2, <1>4 DEF Follows
<1>. QED
  BY <1>2, <1>3, <1>5

-----------------------------------------------------------------------------
(* Items, places and forms.                                                *)

LEMMA BlocksFinite ==
  ASSUME NEW t \in TurnItem
  PROVE  IsFiniteSet(Blocks(t))
<1>1. IsFiniteSet({2 * t.a}) /\ IsFiniteSet({2 * t.a + 1})
  BY FS_Singleton
<1>2. IsFiniteSet({2 * t.a, 2 * t.a + 1})
  <2>1. IsFiniteSet({2 * t.a} \cup {2 * t.a + 1})
    BY <1>1, FS_Union
  <2>2. {2 * t.a} \cup {2 * t.a + 1} = {2 * t.a, 2 * t.a + 1}
    OBVIOUS
  <2>. QED
    BY <2>1, <2>2
<1>3. t.x \in {"plain", "spliced", "requeried"}
  BY DEF TurnItem
<1>. QED
  BY <1>1, <1>2, <1>3 DEF Blocks

LEMMA TheItems ==
  ASSUME NEW turns \in Seq(TurnItem), turns # << >>
  PROVE  /\ Len(turns) \in Nat \ {0}
         /\ \A j \in Items(turns) : TurnOf(j) \in 1..Len(turns) /\ turns[TurnOf(j)] \in TurnItem
         /\ \A k \in 1..(Len(turns) - 1) : 2 * k \in Items(turns) /\ ~User(2 * k)
         /\ Len(Canon(turns)) = 2 * Len(turns) - 1
<1>1. Len(turns) \in Nat \ {0}
  BY EmptySeq
<1>2. \A j \in Items(turns) : TurnOf(j) \in 1..Len(turns)
  BY <1>1 DEF Items, TurnOf
<1>3. \A j \in Items(turns) : turns[TurnOf(j)] \in TurnItem
  BY <1>2, ElementOfSeq
<1>4. \A k \in 1..(Len(turns) - 1) : 2 * k \in Items(turns) /\ ~User(2 * k)
  BY <1>1 DEF Items, User
<1>5. Len(Canon(turns)) = 2 * Len(turns) - 1
  <2>. DEFINE c == Canon(turns)
              n == 2 * Len(turns) - 1
              S == {c[j] : j \in 1..n}
  <2>1. n \in Nat /\ Items(turns) = 1..n
    BY <1>1 DEF Items
  <2>4. c = [j \in 1..n |-> IF User(j) THEN <<turns[TurnOf(j)].u>>
                            ELSE <<turns[TurnOf(j)].a, turns[TurnOf(j)].x>>]
    BY <2>1 DEF Canon
  <2>. HIDE DEF n, c
  <2>5. c \in [1..n -> S]
    BY <2>4
  <2>2. c \in Seq(S) /\ DOMAIN c = 1..n
    BY <2>1, <2>5, SeqDef
  <2>3. Len(c) \in Nat /\ DOMAIN c = 1..Len(c)
    BY <2>2, LenProperties
  <2>6. Len(c) = n
    BY <2>1, <2>2, <2>3
  <2>. QED
    BY <2>6 DEF c, n
<1>. QED
  BY <1>1, <1>2, <1>3, <1>4, <1>5

LEMMA PlacesFinite ==
  ASSUME NEW turns \in Seq(TurnItem), turns # << >>, NEW fwd, FormsOK(turns, fwd)
  PROVE  IsFiniteSet(Places(turns, fwd))
<1>. DEFINE n == Len(turns) - 1
            In(k) == {Place(turns, fwd, k, b) : b \in fwd[2 * k]}
            all == {In(k) : k \in 1..n}
<1>1. Len(turns) \in Nat \ {0} /\ \A k \in 1..n : 2 * k \in Items(turns) /\ ~User(2 * k)
  BY TheItems
<1>2. ASSUME NEW k \in 1..n PROVE IsFiniteSet(In(k))
  <2>1. IsFiniteSet(fwd[2 * k])
    BY <1>1 DEF FormsOK
  <2>2. [b \in fwd[2 * k] |-> Place(turns, fwd, k, b)] \in Surjection(fwd[2 * k], In(k))
    BY DEF Surjection
  <2>. QED
    BY <2>1, <2>2, FS_Surjection
<1>3. IsFiniteSet(1..n)
  BY <1>1, FS_Interval
<1>4. [k \in 1..n |-> In(k)] \in Surjection(1..n, all)
  <2>. HIDE DEF In
  <2>. QED
    BY DEF Surjection
<1>5. IsFiniteSet(all)
  BY <1>3, <1>4, FS_Surjection
<1>6. \A T \in all : IsFiniteSet(T)
  BY <1>2
<1>7. IsFiniteSet(UNION all)
  BY <1>5, <1>6, FS_UNION
<1>. QED
  BY <1>7 DEF Places

\* What the compressor makes, and what is put out as it came.
LEMMA FreshForms ==
  ASSUME NEW turns \in Seq(TurnItem), turns # << >>, NEW form, NEW ev
  PROVE  /\ DOMAIN Raw(turns) = Items(turns) /\ FormsOK(turns, Raw(turns))
         /\ DOMAIN Compressed(turns, form, ev) = Items(turns)
         /\ FormsOK(turns, Compressed(turns, form, ev))
<1>1. ASSUME NEW j \in Items(turns), ~User(j)
      PROVE IsFiniteSet(Raw(turns)[j]) /\ IsFiniteSet(Compressed(turns, form, ev)[j])
  <2>1. IsFiniteSet(Blocks(turns[TurnOf(j)]))
    BY TheItems, BlocksFinite
  <2>2. IsFiniteSet(Blocks(turns[TurnOf(j)]) \ ev.blocks)
    BY <2>1, FS_Subset
  <2>3. Raw(turns)[j] = Blocks(turns[TurnOf(j)])
    BY <1>1 DEF Raw
  <2>4. Compressed(turns, form, ev)[j] = Blocks(turns[TurnOf(j)]) \ ev.blocks
    BY <1>1 DEF Compressed
  <2>. QED
    BY <2>1, <2>2, <2>3, <2>4
<1>2. DOMAIN Raw(turns) = Items(turns) /\ DOMAIN Compressed(turns, form, ev) = Items(turns)
  BY DEF Raw, Compressed
<1>. QED
  BY <1>1, <1>2 DEF FormsOK

\* What is replayed comes from items the lineage has.
LEMMA ReplayForms ==
  ASSUME LineagesOK, NEW p \in Proc, NEW turns \in Seq(TurnItem), turns # << >>, NEW fresh,
         DOMAIN fresh = Items(turns), FormsOK(turns, fresh), NEW freeze, NEW stuck
  PROVE  FormsOK(turns, Replay(lin[p], Canon(turns), fresh, freeze, stuck))
<1>. DEFINE prev == lin[p]
            canon == Canon(turns)
            h == Hits(prev, canon, fresh, freeze, stuck)
            limit == IF Len(canon) < Len(prev.canon) THEN Len(canon) ELSE Len(prev.canon)
            same(i) == canon[i] = prev.canon[i] /\ (freeze \/ fresh[i] = prev.fwd[i]) /\ i # stuck
            T == {g \in 0..limit : \A i \in 1..g : same(i)}
<1>1. Len(canon) \in Nat /\ Len(turns) \in Nat
  BY TheItems
<1>2. ASSUME prev # Cold PROVE h \in 0..Len(prev.canon)
  <2>1. Len(prev.canon) \in Nat
    BY <1>2 DEF LineagesOK
  <2>2. limit \in Nat /\ limit <= Len(prev.canon)
    BY <1>1, <2>1
  <2>3. T \subseteq Nat /\ 0 \in T /\ \A x \in T : x <= limit
    BY <2>2
  <2>4. Max(T) \in T
    BY <2>2, <2>3, GreatestOf
  <2>5. h = Max(T)
    BY <1>2 DEF Hits
  <2>. QED
    BY <2>1, <2>2, <2>4, <2>5
<1>3. prev = Cold => h = 0
  BY DEF Hits
<1>4. ASSUME NEW j \in Items(turns), ~User(j)
      PROVE IsFiniteSet(Replay(prev, canon, fresh, freeze, stuck)[j])
  <2>1. Replay(prev, canon, fresh, freeze, stuck)[j] = IF j <= h THEN prev.fwd[j] ELSE fresh[j]
    BY DEF Replay
  <2>2. j \in Nat \ {0}
    BY <1>1 DEF Items
  <2>. HIDE DEF h
  <2>3. CASE j <= h
    <3>1. prev # Cold
      BY <1>3, <2>2, <2>3
    <3>2. Len(prev.canon) \in Nat /\ h \in 0..Len(prev.canon)
      BY <1>2, <3>1 DEF LineagesOK
    <3>3. j \in 1..Len(prev.canon)
      BY <2>2, <2>3, <3>2
    <3>. QED
      BY <1>4, <2>1, <2>3, <3>1, <3>3 DEF LineagesOK
  <2>4. CASE ~(j <= h)
    BY <1>4, <2>1, <2>4 DEF FormsOK
  <2>. QED
    BY <2>3, <2>4
<1>. QED
  BY <1>4 DEF FormsOK

-----------------------------------------------------------------------------
(* Steps on a request.                                                     *)

\* The client waits for an open request, and has the answers of closed ones.
ClientAsks == live # 0 => Active(live)
HasAnswers == \A k \in DOMAIN hist : hist[k].a \in DOMAIN req /\ ~Active(hist[k].a)

\* A step that changes one request and leaves it open.
OneStep(r, q) ==
  /\ r \in DOMAIN req /\ Active(r) /\ req' = [req EXCEPT ![r] = q]
  /\ WellMade(q) /\ q.turns = req[r].turns
  /\ q.st \in {"compressed", "replayed", "judged", "posted", "requeried", "tainted"}
  /\ hist' = hist /\ live' = live /\ serving' = serving

LEMMA OneStepOK ==
  ASSUME GuardInv, NEW r, NEW q, OneStep(r, q)
  PROVE  /\ ClientOK' /\ RequestsOK'
         /\ DOMAIN req' = DOMAIN req /\ req'[r] = q
         /\ \A s \in DOMAIN req \ {r} : req'[s] = req[s] /\ Active(s)' = Active(s)
         /\ Active(r)'
         /\ \A s \in DOMAIN req : req'[s].st \in {"new", "compressed", "replayed", "judged", "posted",
                                                 "requeried", "tainted", "done"}
         /\ ClientAsks' /\ HasAnswers' /\ serving' \in Proc
<1>1. PICK S : req \in Seq(S)
  BY DEF GuardInv, RequestsOK, IsSeq
<1>2. /\ req' = [req EXCEPT ![r] = q] /\ r \in DOMAIN req /\ Active(r) /\ q.st # "done" /\ WellMade(q)
      /\ q.turns = req[r].turns /\ hist' = hist /\ live' = live /\ serving' = serving
  BY DEF OneStep
<1>3. IsSeq(req')
  <2>1. req \in Seq(S \cup {q}) /\ r \in 1..Len(req)
    BY <1>1, <1>2, SeqMonotonic, LenProperties
  <2>2. [req EXCEPT ![r] = q] \in Seq(S \cup {q})
    BY <2>1, ExceptSeq
  <2>. QED
    BY <1>2, <2>2 DEF IsSeq
<1>4. DOMAIN req' = DOMAIN req /\ req'[r] = q /\ \A s \in DOMAIN req \ {r} : req'[s] = req[s]
  BY <1>2
<1>5. Active(r)' /\ \A s \in DOMAIN req \ {r} : Active(s)' = Active(s)
  BY <1>2, <1>4 DEF Active
<1>6. RequestsOK'
  BY <1>2, <1>3, <1>4, <1>5 DEF GuardInv, RequestsOK
<1>7. live # 0 => live \in DOMAIN req
  BY DEF GuardInv, RequestsTypeOK, Active
<1>8. ClientOK'
  BY <1>2, <1>4, <1>7 DEF GuardInv, ClientOK
<1>9. HasAnswers'
  <2>1. \A k \in DOMAIN hist : hist[k].a \in DOMAIN req /\ ~Active(hist[k].a)
    BY DEF GuardInv, RequestsTypeOK
  <2>2. \A k \in DOMAIN hist : hist[k].a # r
    BY <1>2, <2>1
  <2>. QED
    BY <1>2, <1>4, <2>1, <2>2 DEF HasAnswers, Active
<1>10. ClientAsks'
  BY <1>2, <1>4, <1>5, <1>7 DEF GuardInv, RequestsTypeOK, ClientAsks, Active
<1>11. \A s \in DOMAIN req : req'[s].st \in {"new", "compressed", "replayed", "judged", "posted",
                                            "requeried", "tainted", "done"}
  BY <1>4 DEF GuardInv, RequestsTypeOK, OneStep
<1>12. serving' \in Proc
  BY <1>2 DEF GuardInv, RequestsTypeOK
<1>. QED
  BY <1>4, <1>5, <1>6, <1>8, <1>9, <1>10, <1>11, <1>12

\* What of the type the steps share: the offsets, the counter and the provider's books.
LEMMA TypeKept ==
  ASSUME NEW r, NEW q, GuardInv, OneStep(r, q), TablesOK', odds' \in 0..MaxOdds,
         DOMAIN prod' = UNION {{2 * s, 2 * s + 1} : s \in {s \in DOMAIN req' : 2 * s \in DOMAIN prod'}}
  PROVE  RequestsTypeOK'
BY OneStepOK DEF RequestsTypeOK, TablesOK, ClientAsks, HasAnswers

\* A request that holds no lock before and after, or keeps it.
LEMMA LockKept ==
  ASSUME NEW r, NEW q, GuardInv, OneStep(r, q), q.p = req[r].p,
         q.st \in {"judged", "tainted"} => Holds(r) \/ ~Locked(q.p)
  PROVE  OneHolds'
<1>1. /\ DOMAIN req' = DOMAIN req /\ req'[r] = q /\ r \in DOMAIN req /\ Active(r)
      /\ \A s \in DOMAIN req \ {r} : req'[s] = req[s] /\ Active(s)' = Active(s)
  BY OneStepOK DEF OneStep
<1>2. \A s \in DOMAIN req \ {r} : Holds(s)' = Holds(s)
  BY <1>1 DEF Holds
<1>3. ASSUME NEW s \in DOMAIN req \ {r}, Holds(r)', Holds(s), req[s].p = q.p PROVE FALSE
  <2>1. q.st \in {"judged", "tainted"}
    BY <1>1, <1>3 DEF Holds
  <2>2. Locked(q.p)
    BY <1>3 DEF Locked, Holds
  <2>3. Holds(r)
    BY <2>1, <2>2
  <2>. QED
    BY <1>1, <1>3, <2>3 DEF GuardInv, OneHolds
<1>4. ASSUME NEW s \in DOMAIN req', NEW u \in DOMAIN req', Holds(s)', Holds(u)', req'[s].p = req'[u].p
      PROVE s = u
  <2>1. CASE s # r /\ u # r
    BY <1>1, <1>2, <1>4, <2>1 DEF GuardInv, OneHolds
  <2>2. CASE s = r /\ u # r
    BY <1>1, <1>2, <1>3, <1>4, <2>2
  <2>3. CASE s # r /\ u = r
    BY <1>1, <1>2, <1>3, <1>4, <2>3
  <2>. QED
    BY <2>1, <2>2, <2>3
<1>. QED
  BY <1>4 DEF OneHolds

\* The verdicts of the other processes stand, and q's if it has one.
LEMMA VerdictsKept ==
  ASSUME NEW r, NEW q, GuardInv, OneStep(r, q), q.p = req[r].p,
         \/ known' = known
         \/ (Holds(r) \/ ~Locked(q.p)) /\ \A p \in Proc \ {q.p} : known'[p] = known[p],
         q.st = "judged" =>
           LET out == known'[q.p].out
           IN /\ IsSeq(q.verdict.recs)
              /\ q.verdict.remove \subseteq out \cup Keys(q.verdict.recs, "d")
              /\ \A pl \in Places(q.turns, q.fwd) : pl.b \in out => pl.b \in q.verdict.remove
  PROVE  VerdictsOK'
<1>1. /\ DOMAIN req' = DOMAIN req /\ req'[r] = q /\ r \in DOMAIN req /\ Active(r)
      /\ \A s \in DOMAIN req \ {r} : req'[s] = req[s] /\ Active(s)' = Active(s)
  BY OneStepOK DEF OneStep
<1>2. ASSUME NEW s \in DOMAIN req \ {r}, Active(s), req[s].st = "judged"
      PROVE known'[req[s].p] = known[req[s].p]
  <2>1. CASE known' = known
    BY <2>1
  <2>2. CASE (Holds(r) \/ ~Locked(q.p)) /\ \A p \in Proc \ {q.p} : known'[p] = known[p]
    <3>1. req[s].p # q.p
      <4>1. CASE Holds(r)
        BY <1>1, <1>2, <4>1 DEF GuardInv, OneHolds, Holds
      <4>2. CASE ~Locked(q.p)
        BY <1>2, <4>2 DEF Locked
      <4>. QED
        BY <2>2, <4>1, <4>2
    <3>2. req[s].p \in Proc
      BY <1>2 DEF GuardInv, RequestsOK, WellMade
    <3>. QED
      BY <2>2, <3>1, <3>2
  <2>. QED
    BY <2>1, <2>2
<1>3. ASSUME NEW s \in DOMAIN req', Active(s)', req'[s].st = "judged"
      PROVE LET v == req'[s].verdict
                out == known'[req'[s].p].out
            IN /\ IsSeq(v.recs) /\ v.remove \subseteq out \cup Keys(v.recs, "d")
               /\ \A pl \in Places(req'[s].turns, req'[s].fwd) : pl.b \in out => pl.b \in v.remove
  <2>1. CASE s = r
    BY <1>1, <1>3, <2>1
  <2>2. CASE s # r
    <3>1. req'[s] = req[s] /\ Active(s) /\ s \in DOMAIN req \ {r}
      BY <1>1, <1>3, <2>2
    <3>2. known'[req[s].p] = known[req[s].p] /\ req[s].st = "judged"
      BY <1>2, <1>3, <3>1
    <3>. QED
      BY <3>1, <3>2 DEF GuardInv, VerdictsOK
  <2>. QED
    BY <2>1, <2>2
<1>. QED
  BY <1>3 DEF VerdictsOK

BookKeys == DOMAIN prod = UNION {{2 * s, 2 * s + 1} : s \in {s \in DOMAIN req : 2 * s \in DOMAIN prod}}

\* A verdict knows what its process knows is out.
Knows(q, out) ==
  /\ IsSeq(q.verdict.recs) /\ q.verdict.remove \subseteq out \cup Keys(q.verdict.recs, "d")
  /\ \A pl \in Places(q.turns, q.fwd) : pl.b \in out => pl.b \in q.verdict.remove

LEMMA OneStepInv ==
  ASSUME GuardInv, NEW r, NEW q, OneStep(r, q), q.p = req[r].p,
         TablesOK', Follows', LineagesOK', BookKeys', odds' \in 0..MaxOdds,
         q.st \in {"judged", "tainted"} => Holds(r) \/ ~Locked(q.p),
         \/ known' = known
         \/ (Holds(r) \/ ~Locked(q.p)) /\ \A p \in Proc \ {q.p} : known'[p] = known[p],
         q.st = "judged" => Knows(q, known'[q.p].out)
  PROVE  GuardInv'
<1>1. RequestsTypeOK'
  BY TypeKept DEF BookKeys
<1>2. OneHolds'
  BY LockKept
<1>3. VerdictsOK'
  BY VerdictsKept DEF Knows
<1>4. ClientOK' /\ RequestsOK'
  BY OneStepOK
<1>. QED
  BY <1>1, <1>2, <1>3, <1>4 DEF GuardInv

\* A step that leaves the journal, the tables and the books alone.
LEMMA TablesKept ==
  ASSUME TablesOK, Follows, UNCHANGED <<guardVars, removed>>
  PROVE  TablesOK' /\ Follows'
BY DEF TablesOK, Follows, guardVars

LEMMA BooksKept ==
  ASSUME GuardInv, UNCHANGED prod, DOMAIN req' = DOMAIN req
  PROVE  BookKeys'
<1>1. BookKeys
  BY DEF GuardInv, RequestsTypeOK, BookKeys
<1>. QED
  BY <1>1 DEF BookKeys

LEMMA LineagesKept ==
  ASSUME LineagesOK, UNCHANGED lin
  PROVE  LineagesOK'
BY DEF LineagesOK

LEMMA OddsKept ==
  ASSUME GuardInv
  PROVE  odds \in 0..MaxOdds /\ (odds < MaxOdds => odds + 1 \in 0..MaxOdds)
BY RequestsAssumption DEF GuardInv, RequestsTypeOK

LEMMA OpenRequest ==
  ASSUME GuardInv, NEW r \in DOMAIN req, Active(r)
  PROVE  /\ WellMade(req[r]) /\ req[r].p \in Proc /\ req[r].turns \in Seq(TurnItem)
         /\ req[r].turns # << >>
         /\ TablesOK /\ Follows /\ LineagesOK
BY DEF GuardInv, RequestsOK, WellMade

-----------------------------------------------------------------------------
(* One action after the other.                                             *)

LEMMA CompressOK ==
  ASSUME GuardInv, NEW r \in DOMAIN req, Active(r), NEW form, NEW cold, NEW stuck, NEW raises,
         Compress(r, form, cold, stuck, raises)
  PROVE  GuardInv'
<1>. DEFINE turns == req[r].turns
            ev == IF cold = 0 THEN evicted
                  ELSE [items |-> evicted.items \cup {<<cold, turns[cold].u>>},
                        blocks |-> evicted.blocks \cup ThinkingAfter(turns, cold)]
            fresh == IF raises THEN Raw(turns) ELSE Compressed(turns, form, ev)
            fwd == Replay(lin[req[r].p], Canon(turns), fresh, cold = 0, stuck)
            q == [st |-> "compressed", p |-> req[r].p, turns |-> turns, fwd |-> fwd]
<1>1. /\ req' = [req EXCEPT ![r] = q]
      /\ UNCHANGED <<guardVars, clientVars, serving, lin, provider>>
      /\ odds' = odds \/ (odds < MaxOdds /\ odds' = odds + 1)
  BY DEF Compress
<1>2. /\ WellMade(req[r]) /\ req[r].p \in Proc /\ turns \in Seq(TurnItem) /\ turns # << >>
      /\ TablesOK /\ Follows /\ LineagesOK
  BY OpenRequest
<1>3. DOMAIN fresh = Items(turns) /\ FormsOK(turns, fresh)
  <2>. HIDE DEF turns, ev
  <2>. QED
    BY <1>2, FreshForms
<1>4. FormsOK(turns, fwd)
  <2>. HIDE DEF turns, fresh
  <2>. QED
    BY <1>2, <1>3, ReplayForms
<1>. HIDE DEF fwd
<1>5. WellMade(q)
  BY <1>2, <1>4 DEF WellMade
<1>6. OneStep(r, q)
  BY <1>1, <1>5 DEF OneStep, clientVars
<1>7. TablesOK' /\ Follows' /\ LineagesOK' /\ BookKeys' /\ known' = known
  BY <1>1, <1>2, TablesKept, LineagesKept, BooksKept DEF provider, guardVars
<1>8. odds' \in 0..MaxOdds
  BY <1>1, OddsKept
<1>9. q.p = req[r].p /\ q.st = "compressed"
  OBVIOUS
<1>. HIDE DEF q
<1>. QED
  BY <1>6, <1>7, <1>8, <1>9, OneStepInv

LEMMA RememberOK ==
  ASSUME GuardInv, NEW r \in DOMAIN req, Active(r), Remember(r)
  PROVE  GuardInv'
<1>. DEFINE q == [req[r] EXCEPT !.st = "replayed"]
            turns == req[r].turns
<1>1. /\ req' = [req EXCEPT ![r] = q] /\ req[r].st = "compressed"
      /\ lin' = [lin EXCEPT ![req[r].p] = Lineage(Canon(req[r].turns), req[r].fwd)]
      /\ UNCHANGED <<guardVars, clientVars, worldVars, evicted, provider>>
  BY DEF Remember
<1>2. /\ WellMade(req[r]) /\ req[r].p \in Proc /\ turns \in Seq(TurnItem) /\ turns # << >>
      /\ TablesOK /\ Follows /\ LineagesOK
  BY OpenRequest
<1>3. FormsOK(turns, req[r].fwd)
  BY <1>1, <1>2 DEF WellMade
<1>4. q.st = "replayed" /\ q.p = req[r].p /\ q.turns = turns /\ WellMade(q)
  BY <1>1, <1>2 DEF WellMade
<1>5. OneStep(r, q)
  BY <1>1, <1>4 DEF OneStep, clientVars, worldVars
<1>6. LineagesOK'
  <2>1. /\ Len(Canon(turns)) \in Nat
        /\ \A j \in 1..Len(Canon(turns)) : ~User(j) => IsFiniteSet(req[r].fwd[j])
    <3>1. Len(turns) \in Nat \ {0} /\ Len(Canon(turns)) = 2 * Len(turns) - 1
      BY <1>2, TheItems
    <3>. QED
      BY <1>3, <3>1 DEF FormsOK, Items
  <2>. QED
    BY <1>1, <1>2, <2>1 DEF LineagesOK, Lineage
<1>7. TablesOK' /\ Follows' /\ BookKeys' /\ known' = known
  BY <1>1, <1>2, TablesKept, BooksKept DEF provider, guardVars
<1>8. odds' \in 0..MaxOdds
  BY <1>1, OddsKept DEF worldVars
<1>. HIDE DEF q
<1>. QED
  BY <1>4, <1>5, <1>6, <1>7, <1>8, OneStepInv

LEMMA UntrackedOK ==
  ASSUME GuardInv, NEW r \in DOMAIN req, Active(r), NEW form, Untracked(r, form)
  PROVE  GuardInv'
<1>. DEFINE turns == req[r].turns
            fwd == Compressed(turns, form, evicted)
            q == [st |-> "replayed", p |-> req[r].p, turns |-> turns, fwd |-> fwd]
<1>1. /\ req' = [req EXCEPT ![r] = q] /\ lin' = [lin EXCEPT ![req[r].p] = Cold]
      /\ UNCHANGED <<guardVars, clientVars, serving, provider>>
      /\ odds < MaxOdds /\ odds' = odds + 1
  BY DEF Untracked
<1>2. /\ WellMade(req[r]) /\ req[r].p \in Proc /\ turns \in Seq(TurnItem) /\ turns # << >>
      /\ TablesOK /\ Follows /\ LineagesOK
  BY OpenRequest
<1>3. FormsOK(turns, fwd)
  <2>. HIDE DEF turns
  <2>. QED
    BY <1>2, FreshForms
<1>. HIDE DEF fwd
<1>4. WellMade(q)
  BY <1>2, <1>3 DEF WellMade
<1>5. OneStep(r, q)
  BY <1>1, <1>4 DEF OneStep, clientVars
<1>6. LineagesOK'
  BY <1>1, <1>2 DEF LineagesOK
<1>7. TablesOK' /\ Follows' /\ BookKeys' /\ known' = known
  BY <1>1, <1>2, TablesKept, BooksKept DEF provider, guardVars
<1>8. odds' \in 0..MaxOdds
  BY <1>1, OddsKept
<1>9. q.p = req[r].p /\ q.st = "replayed"
  OBVIOUS
<1>. HIDE DEF q
<1>. QED
  BY <1>5, <1>6, <1>7, <1>8, <1>9, OneStepInv

LEMMA GuardOK ==
  ASSUME GuardInv, NEW r \in DOMAIN req, Active(r), Guard(r)
  PROVE  GuardInv'
<1>. DEFINE p == req[r].p
            turns == req[r].turns
            fwd == req[r].fwd
            n == Len(turns)
            t == ApplyAll(known[p], Unread(p))
            o == ClientPrefix(turns, n)
            f == Prefix("with distil_expand", turns, fwd, n)
            v == Verdict(t, Places(turns, fwd), o, f)
            q == [st |-> "judged", p |-> p, turns |-> turns, fwd |-> fwd, verdict |-> v]
<1>1. /\ req' = [req EXCEPT ![r] = q] /\ req[r].st = "replayed" /\ ~Locked(p) /\ Sync(p)
      /\ UNCHANGED <<journal, lost, clientVars, worldVars, lin, evicted, provider>>
  BY DEF Guard
<1>2. /\ WellMade(req[r]) /\ p \in Proc /\ turns \in Seq(TurnItem) /\ turns # << >>
      /\ TablesOK /\ Follows /\ LineagesOK
  BY OpenRequest
<1>3. FormsOK(turns, fwd)
  BY <1>1, <1>2 DEF WellMade
<1>4. /\ TablesOK' /\ Follows' /\ IsSeq(Unread(p)) /\ known'[p] = t
      /\ \A s \in Proc \ {p} : known'[s] = known[s]
  BY <1>1, <1>2, SyncOK DEF provider
<1>5. TableOK(t)
  BY <1>2, <1>4, ApplyAllOK DEF TablesOK
<1>6. IsFiniteSet(Places(turns, fwd))
  <2>. HIDE DEF turns, fwd
  <2>. QED
    BY <1>2, <1>3, PlacesFinite
<1>. HIDE DEF t, o, f
<1>7. /\ IsSeq(v.recs) /\ v.remove \subseteq t.out \cup Keys(v.recs, "d")
      /\ \A pl \in Places(turns, fwd) : pl.b \in t.out => pl.b \in v.remove
  BY <1>5, <1>6, VerdictOK
<1>. HIDE DEF v
<1>8. WellMade(q)
  BY <1>2, <1>3 DEF WellMade
<1>9. OneStep(r, q)
  BY <1>1, <1>8 DEF OneStep, clientVars, worldVars
<1>10. LineagesOK' /\ BookKeys'
  BY <1>1, <1>2, LineagesKept, BooksKept DEF provider
<1>11. odds' \in 0..MaxOdds
  BY <1>1, OddsKept DEF worldVars
<1>12. Knows(q, known'[q.p].out)
  BY <1>4, <1>7 DEF Knows
<1>13. q.p = req[r].p
  OBVIOUS
<1>. HIDE DEF q
<1>. QED
  BY <1>1, <1>4, <1>9, <1>10, <1>11, <1>12, <1>13, OneStepInv

\* What the two ways to send a request out have in common.
LEMMA PostedOK ==
  ASSUME GuardInv, NEW r \in DOMAIN req, Active(r), Posted(r), TablesOK', Follows',
         \A p \in Proc \ {req[r].p} : known'[p] = known[p], odds' \in 0..MaxOdds
  PROVE  GuardInv'
<1>. DEFINE q == [st |-> "posted", p |-> req[r].p, turns |-> req[r].turns,
                  fwd |-> req[r].fwd, remove |-> req[r].verdict.remove, iters |-> 0]
<1>1. /\ req' = [req EXCEPT ![r] = q] /\ req[r].st = "judged"
      /\ UNCHANGED <<clientVars, serving, disturbed, lin, evicted>>
      /\ DOMAIN prod' = {2 * r, 2 * r + 1} \cup DOMAIN prod
  BY DEF Posted
<1>2. WellMade(req[r]) /\ LineagesOK
  BY OpenRequest
<1>3. WellMade(q)
  BY <1>1, <1>2 DEF WellMade
<1>4. OneStep(r, q)
  BY <1>1, <1>3 DEF OneStep, clientVars
<1>5. LineagesOK'
  BY <1>1, <1>2, LineagesKept
<1>6. BookKeys'
  <2>1. DOMAIN req' = DOMAIN req /\ DOMAIN req \subseteq Nat
    BY <1>1, LenProperties DEF GuardInv, RequestsOK, IsSeq
  <2>2. BookKeys
    BY DEF GuardInv, RequestsTypeOK, BookKeys
  <2>. DEFINE PostedAgo == {s \in DOMAIN req : 2 * s \in DOMAIN prod}
              PostedNow == {s \in DOMAIN req' : 2 * s \in DOMAIN prod'}
  <2>3. PostedNow = PostedAgo \cup {r}
    BY <1>1, <2>1
  <2>. HIDE DEF PostedAgo, PostedNow
  <2>4. DOMAIN prod' = UNION {{2 * s, 2 * s + 1} : s \in PostedNow}
    BY <1>1, <2>2, <2>3 DEF BookKeys, PostedAgo
  <2>. QED
    BY <2>4 DEF BookKeys, PostedNow
<1>7. q.p = req[r].p /\ q.st = "posted" /\ Holds(r)
  BY <1>1 DEF Holds
<1>. HIDE DEF q
<1>. QED
  BY <1>4, <1>5, <1>6, <1>7, OneStepInv

LEMMA ForwardOK ==
  ASSUME GuardInv, NEW r \in DOMAIN req, Active(r), Forward(r) \/ ForwardUnsaved(r)
  PROVE  GuardInv'
<1>. DEFINE v == req[r].verdict
            p == req[r].p
<1>1. /\ Posted(r) /\ req[r].st = "judged" /\ removed' = removed \cup v.remove
      /\ odds' = odds \/ (odds < MaxOdds /\ odds' = odds + 1)
      /\ Persist(p, v.recs, Late(r)) \/ PersistFails(p, v.recs)
  BY DEF Forward, ForwardUnsaved, Posted
<1>2. p \in Proc /\ TablesOK /\ Follows
  BY OpenRequest
<1>3. IsSeq(v.recs) /\ v.remove \subseteq known[p].out \cup Keys(v.recs, "d")
  BY <1>1 DEF GuardInv, VerdictsOK
<1>. HIDE DEF v, p
<1>4. removed' \subseteq removed \cup known[p].out \cup Keys(v.recs, "d")
  BY <1>1, <1>3
<1>5. TablesOK' /\ Follows' /\ \A s \in Proc \ {p} : known'[s] = known[s]
  <2>1. CASE Persist(p, v.recs, Late(r))
    BY <1>2, <1>3, <1>4, <2>1, PersistOK
  <2>2. CASE PersistFails(p, v.recs)
    BY <1>2, <1>3, <2>2, PersistFailsOK
  <2>. QED
    BY <1>1, <2>1, <2>2
<1>6. odds' \in 0..MaxOdds
  BY <1>1, OddsKept
<1>. QED
  BY <1>1, <1>5, <1>6, PostedOK DEF p

LEMMA RequeryOK ==
  ASSUME GuardInv, NEW r \in DOMAIN req, Active(r), Requery(r)
  PROVE  GuardInv'
<1>. DEFINE q == [req[r] EXCEPT !.st = "requeried", !.iters = @ + 1]
<1>1. /\ req' = [req EXCEPT ![r] = q] /\ req[r].st = "posted"
      /\ UNCHANGED <<guardVars, clientVars, worldVars, lin, evicted, provider>>
  BY DEF Requery
<1>2. WellMade(req[r]) /\ TablesOK /\ Follows /\ LineagesOK
  BY OpenRequest
<1>3. q.st = "requeried" /\ q.p = req[r].p /\ q.turns = req[r].turns /\ WellMade(q)
  BY <1>1, <1>2 DEF WellMade
<1>4. OneStep(r, q)
  BY <1>1, <1>3 DEF OneStep, clientVars, worldVars
<1>5. TablesOK' /\ Follows' /\ LineagesOK' /\ BookKeys' /\ known' = known
  BY <1>1, <1>2, TablesKept, LineagesKept, BooksKept DEF provider, guardVars
<1>6. odds' \in 0..MaxOdds
  BY <1>1, OddsKept DEF worldVars
<1>. HIDE DEF q
<1>. QED
  BY <1>3, <1>4, <1>5, <1>6, OneStepInv

LEMMA TaintOK ==
  ASSUME GuardInv, NEW r \in DOMAIN req, Active(r), Taint(r)
  PROVE  GuardInv'
<1>. DEFINE q == [req[r] EXCEPT !.st = "tainted"]
            p == req[r].p
<1>1. /\ req' = [req EXCEPT ![r] = q] /\ req[r].st = "requeried" /\ ~Locked(p) /\ Sync(p)
      /\ UNCHANGED <<journal, lost, clientVars, worldVars, lin, evicted, provider>>
  BY DEF Taint
<1>2. WellMade(req[r]) /\ TablesOK /\ Follows /\ LineagesOK /\ p \in Proc
  BY OpenRequest
<1>3. q.st = "tainted" /\ q.p = p /\ q.turns = req[r].turns /\ WellMade(q)
  BY <1>1, <1>2 DEF WellMade
<1>4. OneStep(r, q)
  BY <1>1, <1>3 DEF OneStep, clientVars, worldVars
<1>5. TablesOK' /\ Follows' /\ \A s \in Proc \ {p} : known'[s] = known[s]
  BY <1>1, <1>2, SyncOK DEF provider
<1>6. LineagesOK' /\ BookKeys'
  BY <1>1, <1>2, LineagesKept, BooksKept DEF provider
<1>7. odds' \in 0..MaxOdds
  BY <1>1, OddsKept DEF worldVars
<1>. HIDE DEF q
<1>. QED
  BY <1>1, <1>3, <1>4, <1>5, <1>6, <1>7, OneStepInv

LEMMA DropOK ==
  ASSUME GuardInv, NEW r \in DOMAIN req, Active(r), Drop(r)
  PROVE  GuardInv'
<1>. DEFINE q == [req[r] EXCEPT !.st = "posted"]
            p == req[r].p
            recs == <<OutLine(2 * r + 1)>>
<1>1. /\ req' = [req EXCEPT ![r] = q] /\ req[r].st = "tainted" /\ removed' = removed \cup {2 * r + 1}
      /\ Persist(p, recs, FALSE)
      /\ UNCHANGED <<clientVars, worldVars, lin, evicted, prod>>
  BY DEF Drop
<1>2. WellMade(req[r]) /\ TablesOK /\ Follows /\ LineagesOK /\ p \in Proc
  BY OpenRequest
<1>3. q.st = "posted" /\ q.p = p /\ q.turns = req[r].turns /\ WellMade(q) /\ Holds(r)
  BY <1>1, <1>2 DEF WellMade, Holds
<1>4. OneStep(r, q)
  BY <1>1, <1>3 DEF OneStep, clientVars, worldVars
<1>5. IsSeq(recs) /\ Len(recs) = 1 /\ recs[1] = OutLine(2 * r + 1)
  <2>1. recs \in Seq({OutLine(2 * r + 1)})
    OBVIOUS
  <2>. QED
    BY <2>1 DEF IsSeq
<1>. HIDE DEF recs
<1>6. 2 * r + 1 \in Keys(recs, "d")
  BY <1>5, KeyAt DEF OutLine
<1>7. removed' \subseteq removed \cup known[p].out \cup Keys(recs, "d")
  BY <1>1, <1>6
<1>8. TablesOK' /\ Follows' /\ \A s \in Proc \ {p} : known'[s] = known[s]
  BY <1>1, <1>2, <1>5, <1>7, PersistOK
<1>9. LineagesOK' /\ BookKeys'
  BY <1>1, <1>2, LineagesKept, BooksKept
<1>10. odds' \in 0..MaxOdds
  BY <1>1, OddsKept DEF worldVars
<1>. HIDE DEF q
<1>. QED
  BY <1>3, <1>4, <1>8, <1>9, <1>10, OneStepInv

-----------------------------------------------------------------------------
(* Requests that come to an end.                                           *)

Ends ==
  /\ req' = [s \in DOMAIN req |-> req'[s]]
  /\ \A s \in DOMAIN req : req'[s] = req[s] \/ req'[s] = Idle

LEMMA EndsOK ==
  ASSUME GuardInv, Ends, \A s \in DOMAIN req : Active(s)' => known'[req[s].p] = known[req[s].p]
  PROVE  /\ RequestsOK' /\ OneHolds' /\ VerdictsOK'
         /\ DOMAIN req' = DOMAIN req
         /\ \A s \in DOMAIN req : Active(s)' => Active(s) /\ req'[s] = req[s]
         /\ \A s \in DOMAIN req' : req'[s].st \in {"new", "compressed", "replayed", "judged", "posted",
                                                  "requeried", "tainted", "done"}
<1>1. DOMAIN req' = DOMAIN req
  BY DEF Ends
<1>2. \A s \in DOMAIN req : Active(s)' => Active(s) /\ req'[s] = req[s]
  BY <1>1 DEF Ends, Active, Idle
<1>3. IsSeq(req')
  <2>1. PICK S : req \in Seq(S)
    BY DEF GuardInv, RequestsOK, IsSeq
  <2>. DEFINE n == Len(req)
              T == S \cup {Idle}
  <2>2. n \in Nat /\ DOMAIN req = 1..n /\ \A s \in 1..n : req[s] \in S
    BY <2>1, LenProperties, ElementOfSeq
  <2>3. \A s \in 1..n : req'[s] \in T
    BY <2>2 DEF Ends
  <2>. HIDE DEF n, T
  <2>4. req' = [s \in 1..n |-> req'[s]]
    BY <2>2 DEF Ends
  <2>. DEFINE g == req'
  <2>5. g = [s \in 1..n |-> g[s]] /\ \A s \in 1..n : g[s] \in T
    BY <2>3, <2>4
  <2>. HIDE DEF g
  <2>6. g \in [1..n -> T]
    BY <2>5
  <2>7. g \in Seq(T)
    BY <2>2, <2>6, SeqDef
  <2>. QED
    BY <2>7 DEF IsSeq, g
<1>4. RequestsOK'
  BY <1>1, <1>2, <1>3 DEF GuardInv, RequestsOK
<1>5. \A s \in DOMAIN req : Holds(s)' => Holds(s) /\ req'[s] = req[s]
  BY <1>2 DEF Holds
<1>6. OneHolds'
  BY <1>1, <1>5 DEF GuardInv, OneHolds
<1>7. VerdictsOK'
  BY <1>1, <1>2 DEF GuardInv, VerdictsOK
<1>8. \A s \in DOMAIN req' : req'[s].st \in {"new", "compressed", "replayed", "judged", "posted",
                                             "requeried", "tainted", "done"}
  BY <1>1 DEF GuardInv, RequestsTypeOK, Ends, Idle
<1>. QED
  BY <1>1, <1>2, <1>4, <1>6, <1>7, <1>8

\* One request ends.
LEMMA OneEnds ==
  ASSUME GuardInv, NEW r \in DOMAIN req, req' = [req EXCEPT ![r] = Idle]
  PROVE  /\ Ends /\ DOMAIN req' = DOMAIN req /\ ~Active(r)'
         /\ \A s \in DOMAIN req \ {r} : req'[s] = req[s] /\ Active(s)' = Active(s)
<1>1. DOMAIN req' = DOMAIN req /\ req'[r] = Idle /\ \A s \in DOMAIN req \ {r} : req'[s] = req[s]
  OBVIOUS
<1>2. req' = [s \in DOMAIN req |-> req'[s]]
  OBVIOUS
<1>. QED
  BY <1>1, <1>2 DEF Ends, Active, Idle

\* Answers stay answers while requests end.
LEMMA AnswersStay ==
  ASSUME GuardInv, Ends, hist' = hist
  PROVE  HasAnswers'
<1>1. \A k \in DOMAIN hist : hist[k].a \in DOMAIN req /\ ~Active(hist[k].a)
  BY DEF GuardInv, RequestsTypeOK
<1>2. DOMAIN req' = DOMAIN req /\ \A s \in DOMAIN req : ~Active(s) => req'[s] = req[s] \/ req'[s] = Idle
  BY DEF Ends
<1>3. \A s \in DOMAIN req : ~Active(s) => ~Active(s)'
  BY <1>2 DEF Active, Idle
<1>. QED
  BY <1>1, <1>2, <1>3 DEF HasAnswers, Active

LEMMA OffsetsTyped ==
  ASSUME TablesOK
  PROVE  \A p \in Proc : off[p] \in Nat /\ lines[p] \in Nat
BY DEF TablesOK

LEMMA RelayOK ==
  ASSUME GuardInv, NEW r \in DOMAIN req, Active(r), Relay(r)
  PROVE  GuardInv'
<1>. DEFINE q == req[r]
            n == Len(q.turns)
<1>1. /\ req' = [req EXCEPT ![r] = Idle]
      /\ UNCHANGED <<guardVars, worldVars, lin, evicted, provider>>
      /\ \/ live # r /\ UNCHANGED <<hist, live>>
         \/ /\ live = r /\ live' = 0
            /\ \E x \in {"plain", "spliced", "requeried"} :
                 hist' = [q.turns EXCEPT ![n].a = r, ![n].x = x]
  BY DEF Relay
<1>2. /\ WellMade(req[r]) /\ q.turns \in Seq(TurnItem) /\ q.turns # << >>
      /\ TablesOK /\ Follows /\ LineagesOK
  BY OpenRequest
<1>3. /\ Ends /\ DOMAIN req' = DOMAIN req /\ ~Active(r)'
      /\ \A s \in DOMAIN req \ {r} : req'[s] = req[s] /\ Active(s)' = Active(s)
  BY <1>1, OneEnds
<1>4. TablesOK' /\ Follows' /\ LineagesOK' /\ BookKeys' /\ known' = known
  BY <1>1, <1>2, <1>3, TablesKept, LineagesKept, BooksKept DEF provider, guardVars
<1>5. RequestsOK' /\ OneHolds' /\ VerdictsOK'
      /\ \A s \in DOMAIN req' : req'[s].st \in {"new", "compressed", "replayed", "judged", "posted",
                                               "requeried", "tainted", "done"}
  BY <1>3, <1>4, EndsOK
<1>6. hist \in Seq(TurnItem) /\ live \in Nat /\ (live # 0 => req[live].turns = Append(hist, Open(0)))
      /\ ClientAsks /\ HasAnswers
  BY DEF GuardInv, ClientOK, RequestsTypeOK, ClientAsks, HasAnswers
<1>7. ClientOK' /\ ClientAsks' /\ HasAnswers'
  <2>1. CASE live # r /\ UNCHANGED <<hist, live>>
    <3>1. HasAnswers'
      BY <1>3, <2>1, AnswersStay
    <3>2. live # 0 => live \in DOMAIN req \ {r}
      BY <1>6, <2>1 DEF ClientAsks, Active
    <3>3. ClientOK'
      BY <1>3, <1>6, <2>1, <3>2 DEF ClientOK
    <3>4. ClientAsks'
      <4>1. live' # 0 => live \in DOMAIN req' /\ req'[live] = req[live] /\ Active(live)
        BY <1>3, <1>6, <2>1, <3>2 DEF ClientAsks
      <4>. QED
        BY <2>1, <4>1 DEF ClientAsks, Active
    <3>. QED
      BY <3>1, <3>3, <3>4
  <2>2. CASE /\ live = r /\ live' = 0
             /\ \E x \in {"plain", "spliced", "requeried"} :
                  hist' = [q.turns EXCEPT ![n].a = r, ![n].x = x]
    <3>1. PICK x \in {"plain", "spliced", "requeried"} : hist' = [q.turns EXCEPT ![n].a = r, ![n].x = x]
      BY <2>2
    <3>2. r \in Nat \ {0} /\ n \in Nat \ {0} /\ q.turns[n] \in TurnItem
      BY <1>2, LenProperties, ElementOfSeq, EmptySeq DEF GuardInv, RequestsOK, IsSeq
    <3>3. live # 0 /\ q.turns = Append(hist, Open(0))
      BY <1>6, <2>2, <3>2
    <3>. DEFINE last == [[q.turns[n] EXCEPT !.a = r] EXCEPT !.x = x]
    <3>4. last \in TurnItem /\ last.a = r
      BY <3>2 DEF TurnItem
    <3>5. hist' = [q.turns EXCEPT ![n] = last]
      BY <1>2, <3>1, <3>2, LenProperties
    <3>6. n = Len(hist) + 1 /\ Len(hist) \in Nat /\ \A k \in 1..Len(hist) : q.turns[k] = hist[k]
      <4>1. Open(0) \in TurnItem
        BY DEF Open, TurnItem
      <4>. QED
        BY <1>6, <3>3, <4>1, AppendProperties, LenProperties
    <3>. HIDE DEF last, n
    <3>7. /\ hist' \in Seq(TurnItem) /\ DOMAIN hist' = 1..n /\ hist'[n] = last
          /\ \A k \in 1..Len(hist) : hist'[k] = hist[k]
      <4>1. /\ [q.turns EXCEPT ![n] = last] \in Seq(TurnItem) /\ Len([q.turns EXCEPT ![n] = last]) = n
            /\ \A k \in 1..n : [q.turns EXCEPT ![n] = last][k] = IF k = n THEN last ELSE q.turns[k]
        BY <1>2, <3>2, <3>4, ExceptSeq DEF n
      <4>. QED
        BY <3>2, <3>5, <3>6, <4>1, LenProperties
    <3>8. HasAnswers'
      <4>1. \A k \in 1..Len(hist) : hist[k].a \in DOMAIN req /\ ~Active(hist[k].a)
        BY <1>6, LenProperties DEF HasAnswers
      <4>2. \A k \in 1..n : k = n \/ k \in 1..Len(hist)
        BY <3>6
      <4>. QED
        BY <1>3, <3>4, <3>7, <4>1, <4>2 DEF HasAnswers, Active
    <3>9. ClientOK' /\ ClientAsks'
      BY <2>2, <3>7 DEF ClientOK, ClientAsks
    <3>. QED
      BY <3>8, <3>9
  <2>. QED
    BY <1>1, <2>1, <2>2
<1>8. odds' \in 0..MaxOdds /\ serving' \in Proc
  BY <1>1, OddsKept DEF worldVars, GuardInv, RequestsTypeOK
<1>9. RequestsTypeOK'
  BY <1>4, <1>5, <1>7, <1>8, OffsetsTyped DEF RequestsTypeOK, ClientAsks, HasAnswers, BookKeys, TablesOK
<1>. QED
  BY <1>4, <1>5, <1>7, <1>9 DEF GuardInv

LEMMA RefusedOK ==
  ASSUME GuardInv, NEW r \in DOMAIN req, Active(r), Refused(r)
  PROVE  GuardInv'
<1>1. /\ req' = [req EXCEPT ![r] = Idle]
      /\ live' = (IF live = r THEN 0 ELSE live) /\ odds < MaxOdds /\ odds' = odds + 1
      /\ UNCHANGED <<guardVars, hist, serving, lin, evicted, provider>>
  BY DEF Refused
<1>2. TablesOK /\ Follows /\ LineagesOK
  BY OpenRequest
<1>3. /\ Ends /\ DOMAIN req' = DOMAIN req
      /\ \A s \in DOMAIN req \ {r} : req'[s] = req[s] /\ Active(s)' = Active(s)
  BY <1>1, OneEnds
<1>4. TablesOK' /\ Follows' /\ LineagesOK' /\ BookKeys' /\ known' = known
  BY <1>1, <1>2, <1>3, TablesKept, LineagesKept, BooksKept DEF provider, guardVars
<1>5. RequestsOK' /\ OneHolds' /\ VerdictsOK'
      /\ \A s \in DOMAIN req' : req'[s].st \in {"new", "compressed", "replayed", "judged", "posted",
                                               "requeried", "tainted", "done"}
  BY <1>3, <1>4, EndsOK
<1>6. /\ hist \in Seq(TurnItem) /\ live \in Nat /\ (live # 0 => req[live].turns = Append(hist, Open(0)))
      /\ (live # 0 => live \in DOMAIN req /\ Active(live))
  BY DEF GuardInv, ClientOK, RequestsTypeOK, Active
<1>7. live' # 0 => live' = live /\ live \in DOMAIN req \ {r}
  BY <1>1, <1>6
<1>8. ClientOK'
  BY <1>1, <1>3, <1>6, <1>7 DEF ClientOK
<1>9. ClientAsks'
  <2>1. live' # 0 => live' \in DOMAIN req' /\ req'[live'] = req[live] /\ Active(live)
    BY <1>3, <1>6, <1>7
  <2>. QED
    BY <2>1 DEF ClientAsks, Active
<1>10. HasAnswers'
  BY <1>1, <1>3, AnswersStay
<1>11. odds' \in 0..MaxOdds /\ serving' \in Proc
  BY <1>1, OddsKept DEF GuardInv, RequestsTypeOK
<1>12. RequestsTypeOK'
  BY <1>4, <1>5, <1>9, <1>10, <1>11, OffsetsTyped
     DEF RequestsTypeOK, ClientAsks, HasAnswers, BookKeys, TablesOK
<1>. QED
  BY <1>4, <1>5, <1>8, <1>12 DEF GuardInv

LEMMA DieOK ==
  ASSUME GuardInv, NEW p \in Proc, Die(p)
  PROVE  GuardInv'
<1>1. /\ req' = [s \in DOMAIN req |-> IF Active(s) /\ req[s].p = p THEN Idle ELSE req[s]]
      /\ live' = (IF live # 0 /\ req[live].p = p THEN 0 ELSE live)
      /\ lin' = [lin EXCEPT ![p] = Cold] /\ Forget(p) /\ odds < MaxOdds /\ odds' = odds + 1
      /\ UNCHANGED <<hist, serving, evicted, provider>>
  BY DEF Die
<1>2. TablesOK /\ Follows /\ LineagesOK
  BY DEF GuardInv
<1>3. DOMAIN req' = DOMAIN req
      /\ \A s \in DOMAIN req : req'[s] = IF Active(s) /\ req[s].p = p THEN Idle ELSE req[s]
  BY <1>1
<1>4. Ends
  <2>1. req' = [s \in DOMAIN req |-> req'[s]]
    BY <1>1
  <2>. QED
    BY <1>3, <2>1 DEF Ends
<1>5. TablesOK' /\ Follows' /\ \A q \in Proc \ {p} : known'[q] = known[q]
  BY <1>1, <1>2, ForgetOK DEF provider
<1>6. LineagesOK' /\ BookKeys'
  BY <1>1, <1>2, <1>3, BooksKept DEF LineagesOK, provider
<1>7. \A s \in DOMAIN req : Active(s)' => known'[req[s].p] = known[req[s].p]
  <2>1. \A s \in DOMAIN req : Active(s)' => Active(s) /\ req[s].p # p
    BY <1>3 DEF Active, Idle
  <2>2. \A s \in DOMAIN req : Active(s) => req[s].p \in Proc
    BY DEF GuardInv, RequestsOK, WellMade
  <2>. QED
    BY <1>5, <2>1, <2>2
<1>8. RequestsOK' /\ OneHolds' /\ VerdictsOK'
      /\ \A s \in DOMAIN req' : req'[s].st \in {"new", "compressed", "replayed", "judged", "posted",
                                               "requeried", "tainted", "done"}
  BY <1>4, <1>7, EndsOK
<1>9. /\ hist \in Seq(TurnItem) /\ live \in Nat /\ (live # 0 => req[live].turns = Append(hist, Open(0)))
      /\ (live # 0 => live \in DOMAIN req /\ Active(live))
  BY DEF GuardInv, ClientOK, RequestsTypeOK, Active
<1>10. live' # 0 => live' = live /\ live \in DOMAIN req /\ req'[live] = req[live]
  BY <1>1, <1>3, <1>9
<1>11. live' \in Nat
  BY <1>1, <1>9
<1>12. ClientOK'
  BY <1>1, <1>9, <1>10, <1>11 DEF ClientOK
<1>13. ClientAsks'
  BY <1>3, <1>9, <1>10 DEF ClientAsks, Active
<1>14. HasAnswers'
  BY <1>1, <1>4, AnswersStay
<1>15. odds' \in 0..MaxOdds /\ serving' \in Proc
  BY <1>1, OddsKept DEF GuardInv, RequestsTypeOK
<1>16. RequestsTypeOK'
  BY <1>5, <1>6, <1>8, <1>13, <1>14, <1>15, OffsetsTyped
     DEF RequestsTypeOK, ClientAsks, HasAnswers, BookKeys, TablesOK
<1>. QED
  BY <1>5, <1>6, <1>8, <1>12, <1>16 DEF GuardInv

-----------------------------------------------------------------------------
(* Steps of the client.                                                    *)

LEMMA SendOK ==
  ASSUME GuardInv, Send
  PROVE  GuardInv'
<1>0. PICK n \in Nat : n = Len(req)
  BY LenProperties DEF GuardInv, RequestsOK, IsSeq
<1>. DEFINE q == [st |-> "new", p |-> serving, turns |-> Append(hist, Open(0))]
<1>1. /\ live = 0 /\ req' = Append(req, q) /\ live' = n + 1
      /\ UNCHANGED <<guardVars, hist, worldVars, lin, evicted, provider>>
  BY <1>0 DEF Send
<1>2. /\ RequestsTypeOK /\ IsSeq(req) /\ hist \in Seq(TurnItem) /\ TablesOK /\ Follows /\ LineagesOK
      /\ HasAnswers /\ BookKeys /\ serving \in Proc
  BY DEF GuardInv, ClientOK, RequestsOK, HasAnswers, RequestsTypeOK, BookKeys
<1>3. /\ DOMAIN req = 1..n /\ IsSeq(req') /\ DOMAIN req' = 1..(n + 1)
      /\ req'[n + 1] = q /\ \A s \in 1..n : req'[s] = req[s]
  <2>1. PICK S : req \in Seq(S)
    BY <1>2 DEF IsSeq
  <2>2. req \in Seq(S \cup {q})
    BY <2>1, SeqMonotonic
  <2>3. /\ Append(req, q) \in Seq(S \cup {q}) /\ Len(Append(req, q)) = n + 1
        /\ \A s \in 1..n : Append(req, q)[s] = req[s]
        /\ Append(req, q)[n + 1] = q
    BY <1>0, <2>2, AppendProperties
  <2>. QED
    BY <1>0, <1>1, <2>2, <2>3, LenProperties DEF IsSeq
<1>4. q.turns \in Seq(TurnItem) /\ q.turns # << >>
  <2>1. Open(0) \in TurnItem
    BY DEF Open, TurnItem
  <2>. QED
    BY <1>2, <2>1, AppendProperties
<1>5. WellMade(q) /\ q.st = "new"
  BY <1>2, <1>4 DEF WellMade
<1>6. q.turns = Append(hist, Open(0))
  OBVIOUS
<1>. HIDE DEF q
<1>7. /\ Active(n + 1)' /\ ~Holds(n + 1)'
      /\ \A s \in 1..n : Active(s)' = Active(s) /\ Holds(s)' = Holds(s)
  BY <1>3, <1>5 DEF Active, Holds
<1>8. \A s \in DOMAIN req' : s = n + 1 \/ s \in 1..n
  BY <1>3
<1>9. RequestsOK'
  <2>1. \A s \in 1..n : Active(s)' => WellMade(req'[s])
    BY <1>3, <1>7 DEF GuardInv, RequestsOK
  <2>2. WellMade(req'[n + 1])
    BY <1>3, <1>5
  <2>3. \A s \in DOMAIN req' : Active(s)' => WellMade(req'[s])
    BY <1>8, <2>1, <2>2
  <2>. QED
    BY <1>3, <2>3 DEF RequestsOK
<1>10. OneHolds'
  BY <1>3, <1>7, <1>8 DEF GuardInv, OneHolds
<1>11. known' = known
  BY <1>1 DEF guardVars
<1>12. VerdictsOK'
  <2>1. \A s \in DOMAIN req' : Active(s)' /\ req'[s].st = "judged" =>
          s \in DOMAIN req /\ Active(s) /\ req'[s] = req[s]
    BY <1>3, <1>5, <1>7, <1>8
  <2>. QED
    BY <1>11, <2>1 DEF GuardInv, VerdictsOK
<1>13. ClientOK' /\ ClientAsks'
  BY <1>1, <1>2, <1>3, <1>6, <1>7 DEF ClientOK, ClientAsks, Active
<1>14. HasAnswers'
  BY <1>1, <1>2, <1>3, <1>7 DEF HasAnswers, Active
<1>15. BookKeys'
  <2>1. \A b \in DOMAIN prod : \E s \in 1..n : b = 2 * s \/ b = 2 * s + 1
    BY <1>2, <1>3 DEF BookKeys
  <2>2. 2 * (n + 1) \notin DOMAIN prod
    <3>1. ASSUME 2 * (n + 1) \in DOMAIN prod PROVE FALSE
      <4>1. PICK s \in 1..n : 2 * (n + 1) = 2 * s \/ 2 * (n + 1) = 2 * s + 1
        BY <2>1, <3>1
      <4>. QED
        BY <1>3, <4>1
    <3>. QED
      BY <3>1
  <2>3. prod' = prod
    BY <1>1 DEF provider
  <2>4. {s \in DOMAIN req' : 2 * s \in DOMAIN prod} = {s \in DOMAIN req : 2 * s \in DOMAIN prod}
    BY <1>3, <1>8, <2>2
  <2>. QED
    BY <1>2, <2>3, <2>4 DEF BookKeys
<1>16. TablesOK' /\ Follows' /\ LineagesOK'
  BY <1>1, <1>2, TablesKept, LineagesKept DEF provider
<1>17. \A s \in DOMAIN req' : req'[s].st \in {"new", "compressed", "replayed", "judged", "posted",
                                             "requeried", "tainted", "done"}
  BY <1>2, <1>3, <1>5, <1>8 DEF RequestsTypeOK
<1>18. odds' \in 0..MaxOdds /\ serving' \in Proc
  BY <1>1, <1>2, OddsKept DEF worldVars
<1>19. RequestsTypeOK'
  BY <1>13, <1>14, <1>15, <1>16, <1>17, <1>18, OffsetsTyped
     DEF RequestsTypeOK, ClientAsks, HasAnswers, BookKeys, TablesOK
<1>. QED
  BY <1>9, <1>10, <1>12, <1>13, <1>16, <1>19 DEF GuardInv

\* The history, the client's wait and the serving worker change; the requests do not.
LEMMA ClientMoves ==
  ASSUME GuardInv, UNCHANGED <<guardVars, req, lin, evicted, provider>>,
         hist' \in Seq(TurnItem), live' = 0 \/ (live' = live /\ hist' = hist),
         \A k \in DOMAIN hist' : \E j \in DOMAIN hist : hist'[k].a = hist[j].a,
         odds' \in 0..MaxOdds, serving' \in Proc
  PROVE  GuardInv'
<1>1. TablesOK' /\ Follows' /\ LineagesOK' /\ BookKeys'
  BY TablesKept, LineagesKept, BooksKept DEF GuardInv, provider
<1>2. RequestsOK' /\ OneHolds' /\ VerdictsOK'
  BY DEF GuardInv, RequestsOK, OneHolds, VerdictsOK, Holds, Active, guardVars
<1>3. ClientOK'
  BY DEF GuardInv, ClientOK
<1>4. RequestsTypeOK'
  BY <1>1, OffsetsTyped DEF GuardInv, RequestsTypeOK, Active, BookKeys, TablesOK
<1>. QED
  BY <1>1, <1>2, <1>3, <1>4 DEF GuardInv

LEMMA ClientStepOK ==
  ASSUME GuardInv,
         \/ GiveUp \/ HandOver
         \/ \E k \in 0..(Len(hist) - 1) : Regenerate(k)
         \/ \E k \in 1..Len(hist) : Edit(k)
  PROVE  GuardInv'
<1>1. /\ hist \in Seq(TurnItem) /\ Len(hist) \in Nat /\ DOMAIN hist = 1..Len(hist) /\ serving \in Proc
      /\ odds \in 0..MaxOdds /\ (odds < MaxOdds => odds + 1 \in 0..MaxOdds)
  BY OddsKept, LenProperties DEF GuardInv, ClientOK, RequestsTypeOK
<1>2. CASE GiveUp
  BY <1>1, <1>2, ClientMoves DEF GiveUp
<1>3. CASE HandOver
  BY <1>1, <1>3, ClientMoves DEF HandOver, clientVars
<1>4. ASSUME NEW k \in 0..(Len(hist) - 1), Regenerate(k) PROVE GuardInv'
  <2>1. \A i \in 1..k : hist[i] \in TurnItem
    BY <1>1, ElementOfSeq
  <2>2. /\ SubSeq(hist, 1, k) \in Seq(TurnItem) /\ Len(SubSeq(hist, 1, k)) = k
        /\ \A i \in 1..k : SubSeq(hist, 1, k)[i] = hist[i]
    BY <2>1, SubSeqProperties
  <2>3. hist' \in Seq(TurnItem) /\ \A i \in DOMAIN hist' : i \in DOMAIN hist /\ hist'[i] = hist[i]
    BY <1>1, <1>4, <2>2, LenProperties DEF Regenerate
  <2>. QED
    BY <1>1, <1>4, <2>3, ClientMoves DEF Regenerate
<1>5. ASSUME NEW k \in 1..Len(hist), Edit(k) PROVE GuardInv'
  <2>. DEFINE turn == [hist[k] EXCEPT !.u = @ + 1]
  <2>0. hist[k] \in TurnItem
    BY <1>1, ElementOfSeq
  <2>1. turn \in TurnItem /\ turn.a = hist[k].a
    BY <2>0 DEF TurnItem
  <2>2. hist' = [hist EXCEPT ![k] = turn]
    BY <1>1, <1>5 DEF Edit
  <2>. HIDE DEF turn
  <2>3. hist' \in Seq(TurnItem) /\ DOMAIN hist' = DOMAIN hist /\ \A i \in DOMAIN hist : hist'[i].a = hist[i].a
    BY <1>1, <2>1, <2>2, ExceptSeq
  <2>. QED
    BY <1>1, <1>5, <2>3, ClientMoves DEF Edit
<1>. QED
  BY <1>2, <1>3, <1>4, <1>5

-----------------------------------------------------------------------------
LEMMA GuardStart ==
  ASSUME Init
  PROVE  GuardInv
<1>1. Min(Proc) \in Proc
  <2>1. PICK x \in Proc : \A y \in Proc : x <= y
    BY RequestsAssumption, LeastOf
  <2>. QED
    BY <2>1 DEF Min
<1>2. IsSeq(<< >>) /\ DOMAIN << >> = {} /\ Len(<< >>) = 0 /\ << >> \in Seq(TurnItem)
  <2>1. << >> \in Seq(TurnItem)
    OBVIOUS
  <2>. QED
    BY <2>1, EmptySeq DEF IsSeq
<1>3. TableOK(Nothing) /\ Nothing.out = {}
  BY FS_EmptySet DEF TableOK, Nothing
<1>4. TablesOK
  BY <1>2, <1>3 DEF TablesOK, Init, GuardInit
<1>5. Follows
  BY <1>2, <1>3 DEF Follows, Init, GuardInit
<1>6. LineagesOK
  BY DEF LineagesOK, Init
<1>7. RequestsOK /\ OneHolds /\ VerdictsOK /\ ClientOK
  BY <1>2 DEF RequestsOK, OneHolds, VerdictsOK, ClientOK, Init
<1>8. RequestsTypeOK
  BY <1>1, <1>2, <1>4, RequestsAssumption DEF RequestsTypeOK, Init, TablesOK
<1>. QED
  BY <1>4, <1>5, <1>6, <1>7, <1>8 DEF GuardInv

LEMMA RequestStepOK ==
  ASSUME GuardInv, NEW r \in DOMAIN req, Active(r), Step(r)
  PROVE  GuardInv'
BY CompressOK, UntrackedOK, RememberOK, GuardOK, ForwardOK, RequeryOK, TaintOK, DropOK, RelayOK,
   RefusedOK DEF Step

LEMMA GuardStep ==
  ASSUME GuardInv, [Next]_vars
  PROVE  GuardInv'
<1>1. CASE Send
  BY <1>1, SendOK
<1>2. CASE \/ GiveUp \/ HandOver
           \/ \E k \in 0..(Len(hist) - 1) : Regenerate(k)
           \/ \E k \in 1..Len(hist) : Edit(k)
  BY <1>2, ClientStepOK
<1>3. CASE \E r \in DOMAIN req : Active(r) /\ Step(r)
  BY <1>3, RequestStepOK
<1>4. CASE \E p \in Proc : Die(p)
  BY <1>4, DieOK
<1>5. CASE UNCHANGED vars
  <2>1. UNCHANGED <<guardVars, req, lin, evicted, provider, hist, live, odds, serving>>
    BY <1>5 DEF vars, clientVars, worldVars
  <2>2. hist \in Seq(TurnItem) /\ odds \in 0..MaxOdds /\ serving \in Proc
    BY DEF GuardInv, ClientOK, RequestsTypeOK
  <2>. QED
    BY <2>1, <2>2, ClientMoves
<1>. QED
  BY <1>1, <1>2, <1>3, <1>4, <1>5 DEF Next

\* Journal, offsets and tables agree on what is out, the lock of a worker has one holder, and
\* a verdict under way knows what its worker knows (_guard, thinkguard.py:282).
THEOREM GuardInvariant == Spec => []GuardInv
<1>1. Init => GuardInv
  BY GuardStart
<1>2. GuardInv /\ [Next]_vars => GuardInv'
  BY GuardStep
<1>. QED
  BY <1>1, <1>2, PTL DEF Spec

\* Requests, the client's wait and answers, and the provider's books have their types
\* (compress_or_forward, serve_core.py:258).
THEOREM RequestsTyped == Spec => []RequestsTypeOK
<1>1. GuardInv => RequestsTypeOK
  BY DEF GuardInv
<1>. QED
  BY <1>1, GuardInvariant, PTL

\* A request that is judged goes out by Forward or ForwardUnsaved, and only so.
LEMMA PostedBy ==
  ASSUME GuardInv, [Next]_vars, NEW r \in DOMAIN req, req[r].st = "judged", req'[r].st = "posted"
  PROVE  Active(r) /\ (Forward(r) \/ ForwardUnsaved(r))
<1>1. Active(r)
  BY DEF Active
<1>2. req' # req
  OBVIOUS
<1>3. ASSUME NEW s \in DOMAIN req, Active(s), Step(s) PROVE Forward(r) \/ ForwardUnsaved(r)
  <2>1. req'[r] # req[r]
    OBVIOUS
  <2>2. CASE s = r
    <3>1. ~(Remember(r) \/ Guard(r) \/ Requery(r) \/ Taint(r) \/ Drop(r) \/ Relay(r) \/ Refused(r))
      BY DEF Remember, Guard, Requery, Taint, Drop, Relay, Refused
    <3>2. \A form, cold, stuck, raises : ~Compress(r, form, cold, stuck, raises)
      BY DEF Compress
    <3>3. \A form : ~Untracked(r, form)
      BY DEF Untracked
    <3>. QED
      BY <1>3, <2>2, <3>1, <3>2, <3>3 DEF Step
  <2>3. CASE s # r
    <3>1. \E x : req' = [req EXCEPT ![s] = x]
      <4>1. Remember(s) \/ Taint(s) \/ Drop(s) \/ Requery(s) => \E x : req' = [req EXCEPT ![s] = x]
        BY DEF Remember, Taint, Drop, Requery
      <4>2. Relay(s) \/ Refused(s) \/ Guard(s) => \E x : req' = [req EXCEPT ![s] = x]
        BY DEF Relay, Refused, Guard
      <4>3. Forward(s) \/ ForwardUnsaved(s) => \E x : req' = [req EXCEPT ![s] = x]
        BY DEF Forward, ForwardUnsaved, Posted
      <4>4. \A form : Untracked(s, form) => \E x : req' = [req EXCEPT ![s] = x]
        BY DEF Untracked
      <4>5. \A form, cold, stuck, raises :
              Compress(s, form, cold, stuck, raises) => \E x : req' = [req EXCEPT ![s] = x]
        BY DEF Compress
      <4>. QED
        BY <1>3, <4>1, <4>2, <4>3, <4>4, <4>5 DEF Step
    <3>. QED
      BY <2>1, <2>3, <3>1
  <2>. QED
    BY <2>2, <2>3
<1>4. ~Send
  <2>1. ASSUME Send PROVE req'[r] = req[r]
    <3>1. PICK S : req \in Seq(S)
      BY DEF GuardInv, RequestsOK, IsSeq
    <3>. QED
      BY <2>1, <3>1 DEF Send
  <2>. QED
    BY <2>1
<1>5. \A p \in Proc : ~Die(p)
  BY DEF Die, Idle
<1>6. ~UNCHANGED vars /\ ~GiveUp /\ ~HandOver /\ ~(\E k : Regenerate(k)) /\ ~(\E k : Edit(k))
  BY <1>2 DEF vars, GiveUp, HandOver, Regenerate, Edit
<1>. QED
  BY <1>1, <1>3, <1>4, <1>5, <1>6 DEF Next

\* What went out goes on from a verdict that knew everything that was out.
LEMMA NothingReturns ==
  ASSUME GuardInv, [Next]_vars, NEW r \in DOMAIN req,
         req[r].st = "judged", req'[r].st = "posted", ~lost'
  PROVE  \A pl \in Kept(r)' : pl.b \notin removed
<1>. DEFINE p == req[r].p
            v == req[r].verdict
            turns == req[r].turns
            fwd == req[r].fwd
<1>1. Active(r) /\ (Forward(r) \/ ForwardUnsaved(r))
  BY PostedBy
<1>2. Forward(r)
  BY <1>1 DEF ForwardUnsaved, PersistFails
<1>3. /\ Persist(p, v.recs, Late(r))
      /\ req' = [req EXCEPT ![r] = [st |-> "posted", p |-> p, turns |-> turns,
                                    fwd |-> fwd, remove |-> v.remove, iters |-> 0]]
  BY <1>2 DEF Forward, Posted
<1>4. ~lost /\ off[p] = Len(journal)
  BY <1>3 DEF Persist
<1>5. p \in Proc /\ TablesOK /\ Follows
  BY <1>1, OpenRequest
<1>6. removed \subseteq known[p].out
  <2>1. /\ removed \subseteq Keys(journal, "d")
        /\ \A i \in 1..Len(journal) : journal[i].t = "d" => journal[i].key \in known[p].out
    BY <1>4, <1>5 DEF Follows
  <2>2. IsSeq(journal)
    BY <1>5 DEF TablesOK
  <2>3. ASSUME NEW b \in removed PROVE b \in known[p].out
    <3>1. PICK i \in 1..Len(journal) : journal[i].t = "d" /\ journal[i].key = b
      BY <2>1, <2>2, KeyAt
    <3>. QED
      BY <2>1, <3>1
  <2>. QED
    BY <2>3
<1>7. \A pl \in Places(turns, fwd) : pl.b \in known[p].out => pl.b \in v.remove
  BY <1>1 DEF GuardInv, VerdictsOK
<1>. HIDE DEF p, v
<1>8. Kept(r)' = {pl \in Places(turns, fwd) : pl.b \notin v.remove}
  <2>1. req'[r].turns = turns /\ req'[r].fwd = fwd /\ req'[r].remove = v.remove
    BY <1>3
  <2>. QED
    BY <2>1 DEF Kept
<1>. QED
  BY <1>6, <1>7, <1>8

\* "The removal is persisted so a removed block is never re-added" (thinkguard.py:21): while
\* no record is lost, what was taken out never goes out again, from any worker.
THEOREM RemovedStaysOut == Spec => OutStaysOut
<1>. DEFINE A == \A r \in DOMAIN req :
                   req[r].st = "judged" /\ req'[r].st = "posted" /\ ~lost' =>
                     \A pl \in Kept(r)' : pl.b \notin removed
<1>1. GuardInv /\ [Next]_vars => A
  BY NothingReturns
<1>2. GuardInv /\ [Next]_vars => [A]_vars
  BY <1>1
<1>3. [][A]_vars => OutStaysOut
  BY DEF OutStaysOut
<1>. HIDE DEF A
<1>4. Spec => [][A]_vars
  BY <1>2, GuardInvariant, PTL DEF Spec
<1>. QED
  BY <1>3, <1>4

-----------------------------------------------------------------------------
(* ThinkGuard: what tables make of lines.                                  *)

LEMMA LastAt ==
  ASSUME NEW recs, IsSeq(recs), NEW t, NEW key, key \in Keys(recs, t)
  PROVE  \E i \in 1..Len(recs) :
           /\ recs[i].t = t /\ recs[i].key = key /\ LastOf(recs, t, key) = recs[i].rec
           /\ \A j \in 1..Len(recs) : recs[j].t = t /\ recs[j].key = key => j <= i
<1>. DEFINE at == {i \in DOMAIN recs : recs[i].t = t /\ recs[i].key = key}
<1>1. Len(recs) \in Nat /\ DOMAIN recs = 1..Len(recs)
  BY LenProperties DEF IsSeq
<1>2. at \subseteq Nat /\ at # {} /\ \A x \in at : x <= Len(recs)
  BY <1>1, KeyAt
<1>. HIDE DEF at
<1>3. Max(at) \in at /\ \A y \in at : y <= Max(at)
  BY <1>1, <1>2, GreatestOf
<1>4. LastOf(recs, t, key) = recs[Max(at)].rec
  BY DEF LastOf, at
<1>. QED
  BY <1>1, <1>3, <1>4 DEF at

LEMMA LastConcat ==
  ASSUME NEW r1, NEW r2, IsSeq(r1), IsSeq(r2), NEW t, NEW key
  PROVE  /\ key \in Keys(r2, t) => LastOf(r1 \o r2, t, key) = LastOf(r2, t, key)
         /\ key \notin Keys(r2, t) /\ key \in Keys(r1, t) =>
              LastOf(r1 \o r2, t, key) = LastOf(r1, t, key)
<1>. DEFINE r == r1 \o r2
            m == Len(r1)
            n == Len(r2)
<1>1. /\ IsSeq(r) /\ Len(r) = m + n /\ m \in Nat /\ n \in Nat
      /\ \A i \in 1..m : r[i] = r1[i]
      /\ \A i \in 1..n : r[m + i] = r2[i]
      /\ Keys(r, t) = Keys(r1, t) \cup Keys(r2, t)
  BY LinesConcat
<1>. HIDE DEF r, m, n
<1>2. ASSUME NEW i \in 1..(m + n), ~(i <= m) PROVE i - m \in 1..n /\ r[i] = r2[i - m]
  <2>1. i - m \in 1..n /\ m + (i - m) = i
    BY <1>1, <1>2
  <2>. QED
    BY <1>1, <2>1
<1>3. ASSUME key \in Keys(r2, t) PROVE LastOf(r, t, key) = LastOf(r2, t, key)
  <2>1. PICK i \in 1..(m + n) :
          /\ r[i].t = t /\ r[i].key = key /\ LastOf(r, t, key) = r[i].rec
          /\ \A j \in 1..(m + n) : r[j].t = t /\ r[j].key = key => j <= i
    BY <1>1, <1>3, LastAt
  <2>2. PICK j \in 1..n :
          /\ r2[j].t = t /\ r2[j].key = key /\ LastOf(r2, t, key) = r2[j].rec
          /\ \A l \in 1..n : r2[l].t = t /\ r2[l].key = key => l <= j
    BY <1>3, LastAt DEF n
  <2>3. m + j \in 1..(m + n) /\ r[m + j] = r2[j]
    BY <1>1
  <2>4. m + j <= i
    BY <2>1, <2>2, <2>3
  <2>5. ~(i <= m)
    BY <1>1, <2>4
  <2>6. i - m \in 1..n /\ r[i] = r2[i - m]
    BY <1>2, <2>5
  <2>7. i - m <= j
    BY <2>1, <2>2, <2>6
  <2>8. i = m + j
    BY <1>1, <2>4, <2>7
  <2>. QED
    BY <2>1, <2>2, <2>3, <2>8
<1>4. ASSUME key \notin Keys(r2, t), key \in Keys(r1, t)
      PROVE LastOf(r, t, key) = LastOf(r1, t, key)
  <2>1. PICK i \in 1..(m + n) :
          /\ r[i].t = t /\ r[i].key = key /\ LastOf(r, t, key) = r[i].rec
          /\ \A j \in 1..(m + n) : r[j].t = t /\ r[j].key = key => j <= i
    BY <1>1, <1>4, LastAt
  <2>2. PICK j \in 1..m :
          /\ r1[j].t = t /\ r1[j].key = key /\ LastOf(r1, t, key) = r1[j].rec
          /\ \A l \in 1..m : r1[l].t = t /\ r1[l].key = key => l <= j
    BY <1>4, LastAt DEF m
  <2>3. i <= m
    BY <1>2, <1>4, <2>1, KeyAt DEF n
  <2>4. j \in 1..(m + n) /\ r[j] = r1[j] /\ i \in 1..m /\ r[i] = r1[i]
    BY <1>1, <2>3
  <2>5. i <= j /\ j <= i
    BY <2>1, <2>2, <2>4
  <2>6. i = j
    BY <2>5
  <2>. QED
    BY <2>1, <2>2, <2>4, <2>6
<1>. QED
  BY <1>3, <1>4 DEF r

LEMMA UpdatedTwice ==
  ASSUME NEW table, NEW r1, NEW r2, IsSeq(r1), IsSeq(r2), NEW t
  PROVE  Updated(Updated(table, r1, t), r2, t) = Updated(table, r1 \o r2, t)
<1>1. Keys(r1 \o r2, t) = Keys(r1, t) \cup Keys(r2, t)
  BY LinesConcat
<1>2. \A key : /\ key \in Keys(r2, t) => LastOf(r1 \o r2, t, key) = LastOf(r2, t, key)
               /\ key \notin Keys(r2, t) /\ key \in Keys(r1, t) =>
                    LastOf(r1 \o r2, t, key) = LastOf(r1, t, key)
  BY LastConcat
<1>. QED
  BY <1>1, <1>2, Zenon DEF Updated

LEMMA ApplyTwice ==
  ASSUME NEW t, NEW r1, NEW r2, IsSeq(r1), IsSeq(r2)
  PROVE  ApplyAll(ApplyAll(t, r1), r2) = ApplyAll(t, r1 \o r2)
<1>1. Keys(r1 \o r2, "d") = Keys(r1, "d") \cup Keys(r2, "d")
  BY LinesConcat
<1>2. /\ Updated(Updated(t.blk, r1, "e"), r2, "e") = Updated(t.blk, r1 \o r2, "e")
      /\ Updated(Updated(t.asked, r1, "r"), r2, "r") = Updated(t.asked, r1 \o r2, "r")
  BY UpdatedTwice
<1>. QED
  BY <1>1, <1>2 DEF ApplyAll

LEMMA ApplyNone == ApplyAll(Nothing, << >>) = Nothing
<1>1. \A t : Keys(<< >>, t) = {}
  BY DEF Keys
<1>2. \A t : Updated(<< >>, << >>, t) = << >>
  <2>. TAKE t
  <2>1. Updated(<< >>, << >>, t) \in [1..0 -> {0}]
    BY <1>1 DEF Updated
  <2>2. Updated(<< >>, << >>, t) \in Seq({0}) /\ DOMAIN Updated(<< >>, << >>, t) = 1..0
    BY <2>1, SeqDef
  <2>3. Len(Updated(<< >>, << >>, t)) = 0
    BY <2>2, LenProperties
  <2>. QED
    BY <2>2, <2>3, EmptySeq
<1>. QED
  BY <1>1, <1>2 DEF ApplyAll, Nothing

\* A table that is written as lines and read again is the same.
LEMMA DumpBack ==
  ASSUME NEW t, TableOK(t),
         t = [blk |-> [b \in DOMAIN t.blk |-> t.blk[b]],
              asked |-> [o \in DOMAIN t.asked |-> t.asked[o]], out |-> t.out]
  PROVE  ApplyAll(Nothing, Dump(t)) = t
<1>. DEFINE D == {OutLine(b) : b \in t.out}
            A == {AskedLine(o, t.asked[o]) : o \in DOMAIN t.asked}
            B == {BlockLine(b, t.blk[b]) : b \in DOMAIN t.blk}
            d == Dump(t)
            sD == SetToSeq(D)
            sA == SetToSeq(A)
            sB == SetToSeq(B)
<1>1. IsFiniteSet(D) /\ IsFiniteSet(A) /\ IsFiniteSet(B)
  <2>. DEFINE fD == [b \in t.out |-> OutLine(b)]
              fA == [o \in DOMAIN t.asked |-> AskedLine(o, t.asked[o])]
              fB == [b \in DOMAIN t.blk |-> BlockLine(b, t.blk[b])]
  <2>1. /\ fD \in Surjection(t.out, D) /\ fA \in Surjection(DOMAIN t.asked, A)
        /\ fB \in Surjection(DOMAIN t.blk, B)
    BY DEF Surjection
  <2>2. IsFiniteSet(t.out) /\ IsFiniteSet(DOMAIN t.asked) /\ IsFiniteSet(DOMAIN t.blk)
    BY DEF TableOK
  <2>. QED
    BY <2>1, <2>2, FS_Surjection
<1>2. /\ sD \in Seq(D) /\ sA \in Seq(A) /\ sB \in Seq(B)
      /\ \A x \in A : \E i \in 1..Len(sA) : sA[i] = x
      /\ \A x \in B : \E i \in 1..Len(sB) : sB[i] = x
  BY <1>1, SetInSeq
<1>3. IsSeq(sD) /\ IsSeq(sA) /\ IsSeq(sB)
  BY <1>2 DEF IsSeq
<1>4. d = (sD \o sA) \o sB
  BY DEF Dump
<1>5. /\ \A x \in D : x.t = "d"
      /\ \A x \in A : x.t = "r" /\ x.key \in DOMAIN t.asked /\ x.rec = t.asked[x.key]
      /\ \A x \in B : x.t = "e" /\ x.key \in DOMAIN t.blk /\ x.rec = t.blk[x.key]
  BY DEF OutLine, AskedLine, BlockLine
<1>6. /\ \A o \in DOMAIN t.asked : \E x \in A : x.key = o
      /\ \A b \in DOMAIN t.blk : \E x \in B : x.key = b
  <2>1. \A o \in DOMAIN t.asked : AskedLine(o, t.asked[o]) \in A /\ AskedLine(o, t.asked[o]).key = o
    BY DEF AskedLine
  <2>2. \A b \in DOMAIN t.blk : BlockLine(b, t.blk[b]) \in B /\ BlockLine(b, t.blk[b]).key = b
    BY DEF BlockLine
  <2>. HIDE DEF A, B
  <2>. QED
    BY <2>1, <2>2
<1>7. /\ \A i \in 1..Len(sD) : sD[i] \in D
      /\ \A i \in 1..Len(sA) : sA[i] \in A
      /\ \A i \in 1..Len(sB) : sB[i] \in B
  BY <1>2, ElementOfSeq
<1>8. IsSeq(d) /\ Keys(d, "d") = t.out
  BY DumpOK
<1>. HIDE DEF d, sD, sA, sB, D, A, B
<1>9. /\ IsSeq(sD \o sA) /\ \A k : Keys(sD \o sA, k) = Keys(sD, k) \cup Keys(sA, k)
      /\ \A k : Keys(d, k) = Keys(sD \o sA, k) \cup Keys(sB, k)
  BY <1>3, <1>4, LinesConcat
<1>10. /\ Keys(sD, "r") = {} /\ Keys(sD, "e") = {} /\ Keys(sA, "e") = {} /\ Keys(sB, "r") = {}
       /\ Keys(sA, "r") = DOMAIN t.asked /\ Keys(sB, "e") = DOMAIN t.blk
  <2>1. /\ \A key : key \notin Keys(sD, "r") /\ key \notin Keys(sD, "e")
        /\ \A key : key \notin Keys(sA, "e") /\ key \notin Keys(sB, "r")
    BY <1>3, <1>5, <1>7, KeyAt
  <2>2. ASSUME NEW key PROVE key \in Keys(sA, "r") <=> key \in DOMAIN t.asked
    <3>1. key \in Keys(sA, "r") => key \in DOMAIN t.asked
      BY <1>3, <1>5, <1>7, KeyAt
    <3>2. ASSUME key \in DOMAIN t.asked PROVE key \in Keys(sA, "r")
      <4>1. PICK x \in A : x.key = key
        BY <1>6, <3>2
      <4>2. PICK i \in 1..Len(sA) : sA[i] = x
        BY <1>2
      <4>. QED
        BY <1>3, <1>5, <4>1, <4>2, KeyAt
    <3>. QED
      BY <3>1, <3>2
  <2>3. ASSUME NEW key PROVE key \in Keys(sB, "e") <=> key \in DOMAIN t.blk
    <3>1. key \in Keys(sB, "e") => key \in DOMAIN t.blk
      BY <1>3, <1>5, <1>7, KeyAt
    <3>2. ASSUME key \in DOMAIN t.blk PROVE key \in Keys(sB, "e")
      <4>1. PICK x \in B : x.key = key
        BY <1>6, <3>2
      <4>2. PICK i \in 1..Len(sB) : sB[i] = x
        BY <1>2
      <4>. QED
        BY <1>3, <1>5, <4>1, <4>2, KeyAt
    <3>. QED
      BY <3>1, <3>2
  <2>. QED
    BY <2>1, <2>2, <2>3
<1>11. Keys(d, "r") = DOMAIN t.asked /\ Keys(d, "e") = DOMAIN t.blk
  BY <1>9, <1>10
<1>12. \A b \in DOMAIN t.blk : LastOf(d, "e", b) = t.blk[b]
  <2>. TAKE b \in DOMAIN t.blk
  <2>1. LastOf(d, "e", b) = LastOf(sB, "e", b)
    BY <1>3, <1>4, <1>9, <1>10, LastConcat
  <2>2. PICK i \in 1..Len(sB) : sB[i].key = b /\ LastOf(sB, "e", b) = sB[i].rec
    BY <1>3, <1>10, LastAt
  <2>. QED
    BY <1>5, <1>7, <2>1, <2>2
<1>13. \A o \in DOMAIN t.asked : LastOf(d, "r", o) = t.asked[o]
  <2>. TAKE o \in DOMAIN t.asked
  <2>1. LastOf(d, "r", o) = LastOf(sD \o sA, "r", o)
    BY <1>3, <1>4, <1>9, <1>10, LastConcat
  <2>2. LastOf(sD \o sA, "r", o) = LastOf(sA, "r", o)
    BY <1>3, <1>10, LastConcat
  <2>3. PICK i \in 1..Len(sA) : sA[i].key = o /\ LastOf(sA, "r", o) = sA[i].rec
    BY <1>3, <1>10, LastAt
  <2>. QED
    BY <1>5, <1>7, <2>1, <2>2, <2>3
<1>14. /\ Updated(Nothing.blk, d, "e") = [b \in DOMAIN t.blk |-> t.blk[b]]
       /\ Updated(Nothing.asked, d, "r") = [o \in DOMAIN t.asked |-> t.asked[o]]
  <2>1. DOMAIN Nothing.blk = {} /\ DOMAIN Nothing.asked = {}
    BY DEF Nothing
  <2>. QED
    BY <1>11, <1>12, <1>13, <2>1 DEF Updated
<1>15. ApplyAll(Nothing, d) = t
  BY <1>8, <1>14 DEF ApplyAll, Nothing
<1>. QED
  BY <1>15 DEF d

\* What lines make of a table has the shape of one.
LEMMA ApplyShape ==
  ASSUME NEW t, NEW recs
  PROVE  LET u == ApplyAll(t, recs)
         IN u = [blk |-> [b \in DOMAIN u.blk |-> u.blk[b]],
                 asked |-> [o \in DOMAIN u.asked |-> u.asked[o]], out |-> u.out]
BY DEF ApplyAll, Updated

-----------------------------------------------------------------------------
(* Requests: what the provider accepts.                                    *)

WentOut == {"posted", "requeried", "tainted"}

\* What the journal says.
Tab == ApplyAll(Nothing, journal)

\* As long as no record is lost, a process knows the journal as far as it has read it.
Remembers ==
  ~lost => \A p \in Proc :
    off[p] <= Len(journal) /\ known[p] = ApplyAll(Nothing, SubSeq(journal, 1, off[p]))

\* A verdict is the one its process would give again, until the lock is released.
Full(turns, fwd) == Prefix("with distil_expand", turns, fwd, Len(turns))
Asked(turns) == ClientPrefix(turns, Len(turns))
Judging ==
  \A r \in DOMAIN req : Active(r) /\ req[r].st = "judged" =>
    LET q == req[r]
    IN q.verdict = Verdict(known[q.p], Places(q.turns, q.fwd), Asked(q.turns), Full(q.turns, q.fwd))

\* No item goes out with a block that is not its own.
FormsIn(turns, fwd) == \A k \in 1..(Len(turns) - 1) : fwd[2 * k] \subseteq Blocks(turns[k])
Formed ==
  /\ \A r \in DOMAIN req : Active(r) /\ req[r].st # "new" => FormsIn(req[r].turns, req[r].fwd)
  /\ \A p \in Proc : lin[p] # Cold =>
       \A j \in 1..Len(lin[p].canon) : ~User(j) =>
         lin[p].fwd[j] \subseteq Blocks([u |-> 0, a |-> lin[p].canon[j][1], x |-> lin[p].canon[j][2]])

\* The answers in a history: whose they are, where they stand, and that what followed a
\* hidden round is out.
Past(turns, n) ==
  \A k \in 1..n :
    LET a == turns[k].a
    IN /\ a \in DOMAIN req /\ ~Active(a) /\ 2 * a \in DOMAIN prod /\ Len(prod[2 * a].o) = 2 * k
       /\ turns[k].x # "plain" => 2 * a + 1 \in removed
Pasts ==
  /\ Past(hist, Len(hist))
  /\ \A r \in DOMAIN req : Active(r) => Past(req[r].turns, Len(req[r].turns) - 1)

\* What went out is in the provider's books as it went out.
InBook(made) == IsSeq(made.f) /\ made = [f |-> made.f, o |-> made.o, p |-> made.p]
Booked ==
  /\ live # 0 => live = Len(req)
  /\ \A b \in DOMAIN prod : InBook(prod[b])
  /\ \A r \in DOMAIN req : Active(r) /\ req[r].st \in WentOut =>
       /\ {"remove", "iters"} \subseteq DOMAIN req[r]
       /\ 2 * r \in DOMAIN prod /\ prod[2 * r].o = Asked(req[r].turns)
       /\ req[r].iters # 0 /\ req[r].st = "posted" => 2 * r + 1 \in removed

\* A request that came after an answer the client has is longer than what was answered.
Later ==
  \A k \in DOMAIN hist, r \in DOMAIN req : Active(r) /\ r > hist[k].a => Len(req[r].turns) > k

\* Messages are edited, never restored: a prefix the client changed after its answer stays
\* changed, and a request that has the answer over the old prefix means it was not changed.
Unedited(turns, k) == ClientPrefix(turns, k) = prod[2 * turns[k].a].o
Aged == \A k \in DOMAIN hist : \A e \in 1..k : prod[2 * hist[k].a].o[2 * e][1] \in 0..hist[e].u
Same ==
  \A r \in DOMAIN req, k \in DOMAIN hist :
    Active(r) /\ k < Len(req[r].turns) /\ req[r].turns[k].a = hist[k].a /\ Unedited(hist, k)
      => Unedited(req[r].turns, k)

\* The journal has the record of every answer the client has over the prefix it was given
\* for, and of the one it waits for.
RecordOK(a) ==
  LET made == prod[2 * a]
  IN /\ made.o \in DOMAIN Tab.asked /\ Tab.asked[made.o] = [f |-> made.f, p |-> made.p]
     /\ 2 * a \in DOMAIN Tab.blk => Tab.blk[2 * a] = made
RecordsKept ==
  ~lost =>
    /\ \A k \in DOMAIN hist : Unedited(hist, k) => RecordOK(hist[k].a)
    /\ live # 0 /\ req[live].st \in WentOut => RecordOK(live)
    /\ \A b \in DOMAIN Tab.blk : \E a \in DOMAIN req : ~Active(a) /\ b \in {2 * a, 2 * a + 1}

Fine(places, pl) ==
  LET ahead == {q \in places : Precedes(q, pl)}
  IN pl.base = prod[pl.b].o =>
       pl.f = prod[pl.b].f /\ (ahead # {} => LastBlock(ahead) = prod[pl.b].p)
Accepting ==
  live # 0 /\ req[live].st \in WentOut /\ ~lost => \A pl \in Kept(live) : Fine(Kept(live), pl)

AcceptInv ==
  Remembers /\ Judging /\ Formed /\ Pasts /\ Booked /\ Later /\ Aged /\ Same /\ RecordsKept /\ Accepting

-----------------------------------------------------------------------------
(* Steps on the journal.                                                   *)

LEMMA WholeSeq ==
  ASSUME NEW s, IsSeq(s)
  PROVE  /\ Len(s) \in Nat /\ SubSeq(s, 1, Len(s)) = s /\ SubSeq(s, 1, 0) = << >>
         /\ \A n \in 0..Len(s) : /\ IsSeq(SubSeq(s, 1, n)) /\ IsSeq(SubSeq(s, n + 1, Len(s)))
                                 /\ SubSeq(s, 1, n) \o SubSeq(s, n + 1, Len(s)) = s
<1>1. PICK S : s \in Seq(S)
  BY DEF IsSeq
<1>2. Len(s) \in Nat /\ \A i \in 1..Len(s) : s[i] \in S
  BY <1>1, LenProperties, ElementOfSeq
<1>3. SubSeq(s, 1, Len(s)) = s
  BY <1>1, SubSeqFull
<1>4. SubSeq(s, 1, 0) = << >>
  BY SubSeqEmpty
<1>5. ASSUME NEW n \in 0..Len(s)
      PROVE /\ IsSeq(SubSeq(s, 1, n)) /\ IsSeq(SubSeq(s, n + 1, Len(s)))
            /\ SubSeq(s, 1, n) \o SubSeq(s, n + 1, Len(s)) = s
  <2>1. SubSeq(s, 1, n) \in Seq(S)
    <3>1. n \in Int /\ \A i \in 1..n : s[i] \in S
      BY <1>2
    <3>. QED
      BY <3>1, SubSeqProperties
  <2>2. SubSeq(s, n + 1, Len(s)) \in Seq(S)
    <3>1. n + 1 \in Int /\ Len(s) \in Int /\ \A i \in (n + 1)..Len(s) : s[i] \in S
      BY <1>2
    <3>. QED
      BY <3>1, SubSeqProperties
  <2>3. SubSeq(s, 1, n) \o SubSeq(s, n + 1, Len(s)) = s
    <3>1. 1 \in 1..(Len(s) + 1) /\ n \in (1 - 1)..Len(s) /\ Len(s) \in n..Len(s)
      BY <1>2
    <3>. QED
      BY <1>1, <1>3, <3>1, ConcatAdjacentSubSeq
  <2>. QED
    BY <2>1, <2>2, <2>3 DEF IsSeq
<1>. QED
  BY <1>2, <1>3, <1>4, <1>5

LEMMA SameStart ==
  ASSUME NEW s, NEW r, IsSeq(s), IsSeq(r), NEW n \in 0..Len(s)
  PROVE  SubSeq(s \o r, 1, n) = SubSeq(s, 1, n)
<1>1. PICK S : s \in Seq(S)
  BY DEF IsSeq
<1>2. PICK R : r \in Seq(R)
  BY DEF IsSeq
<1>3. s \in Seq(S \cup R) /\ r \in Seq(S \cup R) /\ Len(s) \in Nat /\ Len(r) \in Nat
  BY <1>1, <1>2, SeqMonotonic, LenProperties
<1>4. CASE n = 0
  BY <1>4, SubSeqEmpty
<1>5. CASE n # 0
  <2>1. 1 \in 1..Len(s) /\ n \in 1..Len(s)
    BY <1>3, <1>5
  <2>. QED
    BY <1>3, <2>1, SubSeqOfConcat1
<1>. QED
  BY <1>4, <1>5

LEMMA ReadTwice ==
  ASSUME NEW t, NEW r1, NEW r2, NEW r, IsSeq(r1), IsSeq(r2), r1 \o r2 = r
  PROVE  ApplyAll(ApplyAll(t, r1), r2) = ApplyAll(t, r)
<1>1. \A s, u : IsSeq(s) /\ IsSeq(u) => ApplyAll(ApplyAll(t, s), u) = ApplyAll(t, s \o u)
  BY ApplyTwice
<1>. QED
  BY <1>1, Zenon

LEMMA SyncRemembers ==
  ASSUME TablesOK, Remembers, NEW p \in Proc, Sync(p), UNCHANGED <<journal, lost>>
  PROVE  Remembers' /\ (~lost => known'[p] = Tab) /\ Tab' = Tab
<1>1. /\ IsSeq(journal) /\ Len(journal) \in Nat /\ off[p] \in Nat
      /\ SubSeq(journal, 1, Len(journal)) = journal
  BY WholeSeq DEF TablesOK
<1>2. /\ known'[p] = ApplyAll(known[p], Unread(p)) /\ \A q \in Proc \ {p} : known'[q] = known[q]
      /\ off'[p] = (IF Len(journal) > off[p] THEN Len(journal) ELSE off[p])
      /\ \A q \in Proc \ {p} : off'[q] = off[q]
  BY DEF Sync, TablesOK
<1>3. ASSUME ~lost PROVE known'[p] = Tab /\ off'[p] = Len(journal)
  <2>1. off[p] <= Len(journal) /\ known[p] = ApplyAll(Nothing, SubSeq(journal, 1, off[p]))
    BY <1>3 DEF Remembers
  <2>2. /\ IsSeq(SubSeq(journal, 1, off[p])) /\ IsSeq(Unread(p))
        /\ SubSeq(journal, 1, off[p]) \o Unread(p) = journal
    <3>1. off[p] \in 0..Len(journal)
      BY <1>1, <2>1
    <3>. QED
      BY <1>1, <3>1, WholeSeq DEF Unread
  <2>3. ApplyAll(ApplyAll(Nothing, SubSeq(journal, 1, off[p])), Unread(p)) = ApplyAll(Nothing, journal)
    BY <2>2, ReadTwice
  <2>4. off'[p] = Len(journal)
    BY <1>1, <1>2, <2>1
  <2>. QED
    BY <1>2, <2>1, <2>3, <2>4, Zenon DEF Tab
<1>4. Remembers'
  <2>. SUFFICES ASSUME ~lost, NEW q \in Proc
                PROVE off'[q] <= Len(journal) /\ known'[q] = ApplyAll(Nothing, SubSeq(journal, 1, off'[q]))
    BY DEF Remembers
  <2>1. CASE q = p
    <3>1. SubSeq(journal, 1, off'[p]) = journal
      BY <1>1, <1>3, Zenon
    <3>2. known'[p] = ApplyAll(Nothing, SubSeq(journal, 1, off'[p]))
      BY <1>3, <3>1, Zenon DEF Tab
    <3>. QED
      BY <1>1, <1>3, <2>1, <3>2
  <2>2. CASE q # p
    <3>1. off[q] <= Len(journal) /\ known[q] = ApplyAll(Nothing, SubSeq(journal, 1, off[q]))
      BY DEF Remembers
    <3>. QED
      BY <1>2, <2>2, <3>1, Zenon
  <2>. QED
    BY <2>1, <2>2
<1>. QED
  BY <1>3, <1>4 DEF Tab

LEMMA PersistRemembers ==
  ASSUME TablesOK, Remembers, NEW p \in Proc, NEW recs, IsSeq(recs), NEW late, Persist(p, recs, late)
  PROVE  /\ Remembers'
         /\ ~lost' => ~lost /\ ~late /\ known[p] = Tab /\ Tab' = ApplyAll(Tab, recs)
<1>. DEFINE t == ApplyAll(known[p], recs)
            full == lines[p] + Len(recs) > 2 * TableSize(t) + Slack
<1>1. /\ IsSeq(journal) /\ Len(journal) \in Nat /\ TableOK(known[p])
      /\ SubSeq(journal, 1, Len(journal)) = journal
  BY WholeSeq DEF TablesOK
<1>2. TableOK(t)
  BY <1>1, ApplyAllOK
<1>3. ApplyAll(Nothing, Dump(t)) = t /\ IsSeq(Dump(t))
  BY <1>2, ApplyShape, DumpBack, DumpOK
<1>4. /\ known'[p] = t /\ \A q \in Proc \ {p} : known'[q] = known[q]
      /\ journal' = (IF full THEN Dump(t) ELSE journal \o recs)
      /\ off'[p] = (IF full THEN Len(Dump(t)) ELSE off[p] + Len(recs))
      /\ \A q \in Proc \ {p} : off'[q] = off[q]
      /\ ~lost' => ~lost /\ ~late /\ off[p] = Len(journal) /\ (full => \A q \in Proc \ {p} : off[q] = 0)
  BY DEF Persist, TablesOK
<1>. HIDE DEF t, full
<1>5. SUFFICES ASSUME ~lost'
               PROVE Remembers' /\ known[p] = Tab /\ Tab' = ApplyAll(Tab, recs)
  BY <1>4 DEF Remembers
<1>6. /\ off[p] = Len(journal)
      /\ \A q \in Proc : off[q] <= Len(journal) /\ known[q] = ApplyAll(Nothing, SubSeq(journal, 1, off[q]))
  BY <1>4, <1>5 DEF Remembers
<1>7. known[p] = Tab
  BY <1>1, <1>6 DEF Tab
<1>8. /\ IsSeq(journal \o recs) /\ Len(journal \o recs) = Len(journal) + Len(recs) /\ Len(recs) \in Nat
      /\ \A i \in 1..Len(journal) : (journal \o recs)[i] = journal[i]
  BY <1>1, LinesConcat
<1>9. Tab' = t /\ off'[p] = Len(journal') /\ IsSeq(journal')
  <2>1. CASE full
    BY <1>3, <1>4, <2>1 DEF Tab
  <2>2. CASE ~full
    <3>1. ApplyAll(Nothing, journal \o recs) = ApplyAll(Tab, recs)
      BY <1>1, ApplyTwice DEF Tab
    <3>. QED
      BY <1>4, <1>6, <1>7, <1>8, <2>2, <3>1 DEF Tab, t
  <2>. QED
    BY <2>1, <2>2
<1>10. ASSUME NEW q \in Proc
       PROVE off'[q] <= Len(journal') /\ known'[q] = ApplyAll(Nothing, SubSeq(journal', 1, off'[q]))
  <2>1. Len(journal') \in Nat /\ SubSeq(journal', 1, Len(journal')) = journal' /\ SubSeq(journal', 1, 0) = << >>
    BY <1>9, WholeSeq
  <2>2. CASE q = p
    <3>1. SubSeq(journal', 1, off'[p]) = journal'
      BY <1>9, <2>1, Zenon
    <3>2. known'[p] = ApplyAll(Nothing, SubSeq(journal', 1, off'[p]))
      BY <1>4, <1>9, <3>1, Zenon DEF Tab
    <3>. QED
      BY <1>9, <2>1, <2>2, <3>2
  <2>3. CASE q # p /\ full
    <3>1. off[q] = 0 /\ off'[q] = 0 /\ known'[q] = known[q]
      BY <1>4, <1>5, <2>3
    <3>2. known[q] = ApplyAll(Nothing, SubSeq(journal, 1, 0))
      BY <1>6, <3>1
    <3>3. SubSeq(journal, 1, 0) = << >>
      BY <1>1, WholeSeq
    <3>4. known'[q] = ApplyAll(Nothing, SubSeq(journal', 1, off'[q]))
      BY <2>1, <3>1, <3>2, <3>3, Zenon
    <3>. QED
      BY <2>1, <3>1, <3>4
  <2>4. CASE q # p /\ ~full
    <3>1. off[q] \in Nat /\ off[q] <= Len(journal) /\ off'[q] = off[q] /\ journal' = journal \o recs
      BY <1>4, <1>6, <2>4 DEF TablesOK
    <3>2. SubSeq(journal \o recs, 1, off[q]) = SubSeq(journal, 1, off[q])
      BY <1>1, <1>8, <3>1, SameStart
    <3>3. known'[q] = known[q] /\ known[q] = ApplyAll(Nothing, SubSeq(journal, 1, off[q]))
      BY <1>4, <1>6, <2>4
    <3>4. SubSeq(journal', 1, off'[q]) = SubSeq(journal, 1, off[q])
      BY <3>1, <3>2, Zenon
    <3>5. off'[q] <= Len(journal')
      BY <1>1, <1>8, <3>1
    <3>. QED
      BY <3>3, <3>4, <3>5, Zenon
  <2>. QED
    BY <2>2, <2>3, <2>4
<1>. QED
  BY <1>7, <1>9, <1>10 DEF Remembers, t

LEMMA ForgetRemembers ==
  ASSUME TablesOK, Remembers, NEW p \in Proc, Forget(p)
  PROVE  Remembers' /\ Tab' = Tab /\ journal' = journal /\ lost' = lost
<1>1. IsSeq(journal) /\ Len(journal) \in Nat /\ SubSeq(journal, 1, 0) = << >>
  BY WholeSeq DEF TablesOK
<1>2. /\ known'[p] = Nothing /\ \A q \in Proc \ {p} : known'[q] = known[q]
      /\ off'[p] = 0 /\ \A q \in Proc \ {p} : off'[q] = off[q]
      /\ journal' = journal /\ lost' = lost
  BY DEF Forget, TablesOK
<1>3. known'[p] = ApplyAll(Nothing, SubSeq(journal', 1, off'[p]))
  BY <1>1, <1>2, ApplyNone, Zenon
<1>4. Remembers'
  <2>. SUFFICES ASSUME ~lost, NEW q \in Proc
                PROVE off'[q] <= Len(journal') /\ known'[q] = ApplyAll(Nothing, SubSeq(journal', 1, off'[q]))
    BY <1>2 DEF Remembers
  <2>1. CASE q = p
    BY <1>1, <1>2, <1>3, <2>1
  <2>2. CASE q # p
    <3>1. off[q] <= Len(journal) /\ known[q] = ApplyAll(Nothing, SubSeq(journal, 1, off[q]))
      BY DEF Remembers
    <3>. QED
      BY <1>2, <2>2, <3>1, Zenon
  <2>. QED
    BY <2>1, <2>2
<1>. QED
  BY <1>2, <1>4 DEF Tab

-----------------------------------------------------------------------------
(* Prefixes.                                                               *)

LEMMA ThePrefix ==
  ASSUME NEW tools, NEW turns, NEW fwd, NEW k \in Nat \ {0}
  PROVE  /\ IsSeq(Prefix(tools, turns, fwd, k)) /\ Len(Prefix(tools, turns, fwd, k)) = 2 * k
         /\ \A e \in 1..k : \A i \in Nat : i = 2 * e =>
              Prefix(tools, turns, fwd, k)[i] = <<turns[e].u, fwd[i - 1]>>
<1>. DEFINE item(j) == IF User(j) THEN <<turns[TurnOf(j)].u, fwd[j]>> ELSE <<turns[TurnOf(j)].a>>
            n == 2 * k - 1
            items == [j \in 1..n |-> item(j)]
            first == <<<<tools>>>>
            S == {item(j) : j \in 1..n}
<1>0. n \in Nat
  OBVIOUS
<1>1. 1 + n = 2 * k /\ first \in Seq({<<tools>>}) /\ Len(first) = 1
  OBVIOUS
<1>2. Prefix(tools, turns, fwd, k) = first \o items
  BY DEF Prefix
<1>3. IsSeq(items) /\ Len(items) = n /\ \A j \in 1..n : items[j] = item(j)
  <2>. HIDE DEF item, n
  <2>1. items \in [1..n -> S]
    OBVIOUS
  <2>2. items \in Seq(S) /\ DOMAIN items = 1..n
    BY <1>0, <2>1, SeqDef
  <2>3. Len(items) \in Nat /\ DOMAIN items = 1..Len(items)
    BY <2>2, LenProperties
  <2>4. Len(items) = n
    BY <1>0, <2>2, <2>3
  <2>. QED
    BY <2>2, <2>4 DEF IsSeq
<1>4. IsSeq(first)
  BY <1>1 DEF IsSeq
<1>5. \A e \in 1..k : /\ item(2 * e - 1) = <<turns[e].u, fwd[2 * e - 1]>>
                      /\ 2 * e - 1 \in 1..n /\ 1 + (2 * e - 1) = 2 * e
  BY DEF User, TurnOf
<1>. HIDE DEF items, first, item, n
<1>6. /\ IsSeq(first \o items) /\ Len(first \o items) = 1 + n
      /\ \A i \in 1..n : (first \o items)[1 + i] = items[i]
  <2>1. /\ IsSeq(first \o items) /\ Len(first \o items) = Len(first) + Len(items)
        /\ \A i \in 1..Len(items) : (first \o items)[Len(first) + i] = items[i]
    BY <1>3, <1>4, LinesConcat
  <2>. QED
    BY <1>0, <1>1, <1>3, <2>1
<1>7. \A e \in 1..k : (first \o items)[2 * e] = <<turns[e].u, fwd[2 * e - 1]>>
  <2>. TAKE e \in 1..k
  <2>1. PICK j \in 1..n : j = 2 * e - 1 /\ 1 + j = 2 * e /\ item(j) = <<turns[e].u, fwd[2 * e - 1]>>
    BY <1>5
  <2>2. (first \o items)[1 + j] = item(j)
    BY <1>3, <1>6
  <2>. QED
    BY <2>1, <2>2
<1>. QED
  BY <1>0, <1>1, <1>2, <1>6, <1>7

LEMMA TheClientPrefix ==
  ASSUME NEW turns \in Seq(TurnItem), NEW k \in 1..Len(turns)
  PROVE  /\ IsSeq(ClientPrefix(turns, k)) /\ Len(ClientPrefix(turns, k)) = 2 * k
         /\ \A e \in 1..k : \A i \in Nat : i = 2 * e => ClientPrefix(turns, k)[i] = <<turns[e].u, "raw">>
<1>1. Len(turns) \in Nat /\ k \in Nat \ {0}
  BY LenProperties
<1>2. \A e \in 1..k : Raw(turns)[2 * e - 1] = "raw"
  <2>. TAKE e \in 1..k
  <2>1. 2 * e - 1 \in Items(turns) /\ User(2 * e - 1)
    BY <1>1 DEF Items, User
  <2>. QED
    BY <2>1 DEF Raw
<1>3. PICK tools : ClientPrefix(turns, k) = Prefix(tools, turns, Raw(turns), k)
  BY DEF ClientPrefix
<1>4. \A e \in 1..k : \A i \in Nat : i = 2 * e => ClientPrefix(turns, k)[i] = <<turns[e].u, Raw(turns)[i - 1]>>
  <2>1. ASSUME NEW raw, NEW e \in 1..k, NEW i \in Nat, i = 2 * e
        PROVE Prefix(tools, turns, raw, k)[i] = <<turns[e].u, raw[i - 1]>>
    BY <1>1, <2>1, ThePrefix
  <2>. QED
    BY <1>3, <2>1, Zenon
<1>5. ASSUME NEW e \in 1..k, NEW i \in Nat, i = 2 * e PROVE ClientPrefix(turns, k)[i] = <<turns[e].u, "raw">>
  BY <1>2, <1>4, <1>5
<1>6. IsSeq(ClientPrefix(turns, k)) /\ Len(ClientPrefix(turns, k)) = 2 * k
  BY <1>1, <1>3, ThePrefix
<1>. QED
  BY <1>5, <1>6

\* A client prefix is made of what the user side sent and of the answers before it.
LEMMA SamePrefix ==
  ASSUME NEW t1 \in Seq(TurnItem), NEW t2 \in Seq(TurnItem), NEW k \in 1..Len(t1), k <= Len(t2),
         \A e \in 1..k : t1[e].u = t2[e].u, \A e \in 1..(k - 1) : t1[e].a = t2[e].a
  PROVE  ClientPrefix(t1, k) = ClientPrefix(t2, k)
<1>. DEFINE item(t, j) == IF User(j) THEN <<t[TurnOf(j)].u, Raw(t)[j]>> ELSE <<t[TurnOf(j)].a>>
<1>1. Len(t1) \in Nat /\ Len(t2) \in Nat
  BY LenProperties
<1>2. ASSUME NEW j \in 1..(2 * k - 1) PROVE item(t1, j) = item(t2, j)
  <2>1. j \in Items(t1) /\ j \in Items(t2)
    BY <1>1 DEF Items
  <2>2. CASE User(j)
    <3>1. TurnOf(j) \in 1..k
      BY <1>1, <2>2 DEF User, TurnOf
    <3>2. Raw(t1)[j] = "raw" /\ Raw(t2)[j] = "raw"
      BY <2>1, <2>2 DEF Raw
    <3>. QED
      BY <2>2, <3>1, <3>2
  <2>3. CASE ~User(j)
    <3>1. TurnOf(j) \in 1..(k - 1)
      <4>1. j % 2 = 0 /\ j = 2 * (j \div 2)
        BY <2>3 DEF User
      <4>2. PICK m \in Int : j = 2 * m
        BY <4>1
      <4>3. TurnOf(j) = m
        BY <4>2 DEF TurnOf
      <4>. QED
        BY <1>1, <4>2, <4>3
    <3>. QED
      BY <2>3, <3>1
  <2>. QED
    BY <2>2, <2>3
<1>3. [j \in 1..(2 * k - 1) |-> item(t1, j)] = [j \in 1..(2 * k - 1) |-> item(t2, j)]
  BY <1>2
<1>. QED
  BY <1>3 DEF ClientPrefix, Prefix

-----------------------------------------------------------------------------
(* The places of a request.                                                *)

LEMMA TheBlocks ==
  ASSUME NEW t \in TurnItem, NEW b \in Blocks(t)
  PROVE  /\ t.a \in Nat /\ b \in {2 * t.a, 2 * t.a + 1} /\ b \in Nat
         /\ b = 2 * t.a + 1 => t.x # "plain"
         /\ b = 2 * t.a => {c \in Blocks(t) : c < b} = {}
<1>1. t.a \in Nat /\ t.x \in {"plain", "spliced", "requeried"}
  BY DEF TurnItem
<1>2. Blocks(t) \subseteq {2 * t.a, 2 * t.a + 1} /\ (t.x = "plain" => Blocks(t) = {2 * t.a})
  BY <1>1 DEF Blocks
<1>. QED
  BY <1>1, <1>2

LEMMA PlaceAt ==
  ASSUME NEW turns \in Seq(TurnItem), turns # << >>, NEW fwd, FormsIn(turns, fwd),
         NEW pl \in Places(turns, fwd)
  PROVE  \E k \in 1..(Len(turns) - 1) :
           /\ pl = Place(turns, fwd, k, pl.b) /\ pl.k = k /\ pl.base = ClientPrefix(turns, k)
           /\ turns[k] \in TurnItem /\ pl.b \in {2 * turns[k].a, 2 * turns[k].a + 1} /\ pl.b \in Nat
           /\ pl.b = 2 * turns[k].a + 1 => turns[k].x # "plain"
           /\ pl.b = 2 * turns[k].a =>
                /\ pl.within = << >> /\ pl.before = NoBlock /\ pl.o = pl.base
                /\ pl.f = Prefix("with distil_expand", turns, fwd, k)
<1>1. PICK k \in 1..(Len(turns) - 1) : \E b \in fwd[2 * k] : pl = Place(turns, fwd, k, b)
  BY DEF Places
<1>0. PICK b \in fwd[2 * k] : pl = Place(turns, fwd, k, b)
  BY <1>1
<1>2. Len(turns) \in Nat \ {0} /\ k \in 1..Len(turns) /\ turns[k] \in TurnItem
  <2>1. Len(turns) \in Nat \ {0}
    BY EmptySeq
  <2>2. k \in 1..Len(turns)
    BY <2>1
  <2>. QED
    BY <2>1, <2>2, ElementOfSeq
<1>3. b \in Blocks(turns[k])
  BY DEF FormsIn
<1>4. /\ b \in {2 * turns[k].a, 2 * turns[k].a + 1} /\ b \in Nat
      /\ b = 2 * turns[k].a + 1 => turns[k].x # "plain"
      /\ b = 2 * turns[k].a => {c \in Blocks(turns[k]) : c < b} = {}
  BY <1>2, <1>3, TheBlocks
<1>5. pl.b = b /\ pl.k = k /\ pl.base = ClientPrefix(turns, k)
  BY <1>0 DEF Place
<1>6. ASSUME b = 2 * turns[k].a
      PROVE /\ pl.within = << >> /\ pl.before = NoBlock /\ pl.o = pl.base
            /\ pl.f = Prefix("with distil_expand", turns, fwd, k)
  <2>. DEFINE o == ClientPrefix(turns, k)
              f == Prefix("with distil_expand", turns, fwd, k)
  <2>1. /\ pl.within = << >> /\ pl.before = NoBlock /\ pl.base = o
        /\ pl.o = o \o << >> /\ pl.f = f \o << >>
    BY <1>0, <1>4, <1>6 DEF Place
  <2>2. IsSeq(o) /\ IsSeq(f)
    <3>1. k \in Nat \ {0}
      OBVIOUS
    <3>. QED
      BY <1>2, <3>1, TheClientPrefix, ThePrefix
  <2>. HIDE DEF o, f
  <2>3. \A s : IsSeq(s) => s \o << >> = s
    BY ConcatEmptySeq DEF IsSeq
  <2>. QED
    BY <2>1, <2>2, <2>3 DEF o, f
<1>. QED
  BY <1>0, <1>2, <1>4, <1>5, <1>6

LEMMA OnePlace ==
  ASSUME NEW turns \in Seq(TurnItem), turns # << >>, NEW fwd, FormsIn(turns, fwd), Past(turns, Len(turns) - 1),
         NEW p1 \in Places(turns, fwd), NEW p2 \in Places(turns, fwd),
         p1.b = p2.b \/ (p1.k = p2.k /\ p1.b % 2 = p2.b % 2)
  PROVE  p1 = p2
<1>1. PICK k1 \in 1..(Len(turns) - 1) :
        /\ p1 = Place(turns, fwd, k1, p1.b) /\ p1.k = k1 /\ turns[k1] \in TurnItem
        /\ p1.b \in {2 * turns[k1].a, 2 * turns[k1].a + 1}
  BY PlaceAt
<1>2. PICK k2 \in 1..(Len(turns) - 1) :
        /\ p2 = Place(turns, fwd, k2, p2.b) /\ p2.k = k2 /\ turns[k2] \in TurnItem
        /\ p2.b \in {2 * turns[k2].a, 2 * turns[k2].a + 1}
  BY PlaceAt
<1>3. turns[k1].a \in Nat /\ turns[k2].a \in Nat
  BY <1>1, <1>2 DEF TurnItem
<1>4. p1.b = p2.b /\ k1 = k2
  <2>1. CASE p1.b = p2.b
    <3>1. turns[k1].a = turns[k2].a
      <4>1. PICK a1 \in Nat : a1 = turns[k1].a
        BY <1>3
      <4>2. PICK a2 \in Nat : a2 = turns[k2].a
        BY <1>3
      <4>3. PICK b : b = p1.b /\ b = p2.b
        BY <2>1
      <4>4. (b = 2 * a1 \/ b = 2 * a1 + 1) /\ (b = 2 * a2 \/ b = 2 * a2 + 1)
        BY <1>1, <1>2, <4>1, <4>2, <4>3
      <4>5. a1 = a2
        BY <4>4
      <4>. QED
        BY <4>1, <4>2, <4>5
    <3>2. Len(prod[2 * turns[k1].a].o) = 2 * k1 /\ Len(prod[2 * turns[k2].a].o) = 2 * k2
      BY DEF Past
    <3>3. 2 * k1 = 2 * k2
      BY <3>1, <3>2
    <3>. QED
      BY <2>1, <3>3
  <2>2. CASE p1.k = p2.k /\ p1.b % 2 = p2.b % 2
    <3>1. k1 = k2
      BY <1>1, <1>2, <2>2
    <3>2. PICK a \in Nat : a = turns[k1].a
      BY <1>3
    <3>3. p1.b \in {2 * a, 2 * a + 1} /\ p2.b \in {2 * a, 2 * a + 1}
      BY <1>1, <1>2, <3>1, <3>2
    <3>4. (2 * a) % 2 = 0 /\ (2 * a + 1) % 2 = 1
      BY <3>2
    <3>. QED
      BY <2>2, <3>1, <3>3, <3>4
  <2>. QED
    BY <2>1, <2>2
<1>. QED
  BY <1>1, <1>2, <1>4

-----------------------------------------------------------------------------
(* The verdict.                                                            *)

\* A block that stays may stay after the blocks that stay ahead of it.
LEMMA StayJudged ==
  ASSUME NEW t, NEW places, \A pl \in places : pl.k \in Nat /\ pl.b \in Nat,
         NEW pl \in Judged(t, places).stay
  PROVE  /\ pl \in places /\ pl.b \notin t.out
         /\ Stays(t, pl, LastBlock({q \in Judged(t, places).stay : Precedes(q, pl)}))
<1>. DEFINE in == {q \in places : q.b \notin t.out}
            fails == {q \in in : ~Stays(t, q, LastBlock({z \in in : Precedes(z, q)}))}
            judged == {q \in in : \A z \in fails : ~Precedes(z, q)}
            stay == judged \ fails
<1>1. Judged(t, places).stay = stay
  BY DEF Judged
<1>2. pl \in in /\ pl \notin fails /\ \A z \in fails : ~Precedes(z, pl)
  BY <1>1
<1>3. Stays(t, pl, LastBlock({z \in in : Precedes(z, pl)}))
  BY <1>2
<1>4. in \subseteq places /\ fails \subseteq in
  OBVIOUS
<1>. HIDE DEF in, fails
<1>5. ASSUME NEW q \in in, Precedes(q, pl) PROVE q \in stay
  <2>1. q \notin fails
    BY <1>2, <1>5
  <2>2. ASSUME NEW z \in fails PROVE ~Precedes(z, q)
    <3>1. ~Precedes(z, pl)
      BY <1>2
    <3>2. z.k \in Nat /\ z.b \in Nat /\ q.k \in Nat /\ q.b \in Nat /\ pl.k \in Nat /\ pl.b \in Nat
      BY <1>2, <1>4
    <3>. QED
      BY <1>5, <3>1, <3>2 DEF Precedes
  <2>. QED
    BY <2>1, <2>2
<1>6. {z \in in : Precedes(z, pl)} = {q \in stay : Precedes(q, pl)}
  BY <1>5
<1>7. pl \in places /\ pl.b \notin t.out
  BY <1>2 DEF in
<1>. QED
  BY <1>1, <1>3, <1>6, <1>7

LEMMA LastBlockOf ==
  ASSUME NEW S, S # {}, NEW n \in Nat, \A pl \in S : pl.k \in 0..n,
         \A p, q \in S : p.k = q.k => p = q, \A pl \in S : pl.b \in Nat
  PROVE  \E pl \in S : LastBlock(S) = pl.b
<1>. DEFINE T == {pl.k : pl \in S}
<1>1. T \subseteq Nat /\ T # {} /\ \A x \in T : x <= n
  OBVIOUS
<1>2. Max(T) \in T /\ \A y \in T : y <= Max(T)
  BY <1>1, GreatestOf
<1>3. PICK p \in S : p.k = Max(T)
  BY <1>2
<1>4. \A q \in S : q.k <= p.k
  BY <1>2, <1>3
<1>5. \A q \in S : ~Precedes(p, q)
  <2>. TAKE q \in S
  <2>1. q.k \in Nat /\ p.k \in Nat /\ q.k <= p.k /\ p.b \in Nat
    BY <1>4
  <2>2. p.k = q.k => p = q
    OBVIOUS
  <2>. QED
    BY <2>1, <2>2 DEF Precedes
<1>. QED
  BY <1>5 DEF LastBlock

\* The lines of a verdict: one about the request, and what it infers of blocks without a record.
LEMMA VerdictLines ==
  ASSUME NEW t, TableOK(t), NEW places, IsFiniteSet(places), NEW o, NEW f
  PROVE  LET v == Verdict(t, places, o, f)
         IN /\ v.prev = LastBlock(Judged(t, places).stay)
            /\ v.remove = {pl.b : pl \in places \ Judged(t, places).stay}
            /\ Keys(v.recs, "r") = {o} /\ LastOf(v.recs, "r", o) = [f |-> f, p |-> v.prev]
            /\ \A b \in Keys(v.recs, "e") : \E pl \in places :
                 /\ pl.b = b /\ b \notin DOMAIN t.blk /\ pl.base \in DOMAIN t.asked
                 /\ LastOf(v.recs, "e", b) = Infer(t, pl)
            /\ \A b \in Keys(v.recs, "d") : b \in v.remove \ t.out
<1>. DEFINE stay == Judged(t, places).stay
            remove == {pl.b : pl \in places \ stay}
            Outs == {OutLine(b) : b \in remove \ t.out}
            In == Inferred(t, places)
            ask == AskedLine(o, [f |-> f, p |-> LastBlock(stay)])
            v == Verdict(t, places, o, f)
            S == In \cup Outs \cup {ask}
<1>1. /\ v.remove = remove /\ v.prev = LastBlock(stay)
      /\ v.recs = Append(SetToSeq(In) \o SetToSeq(Outs), ask)
  BY DEF Verdict
<1>2. IsFiniteSet(Outs)
  <2>1. IsFiniteSet(places \ stay)
    BY FS_Subset
  <2>2. [pl \in places \ stay |-> pl.b] \in Surjection(places \ stay, remove)
    BY DEF Surjection
  <2>3. IsFiniteSet(remove)
    BY <2>1, <2>2, FS_Surjection
  <2>4. IsFiniteSet(remove \ t.out)
    BY <2>3, FS_Subset
  <2>5. [b \in remove \ t.out |-> OutLine(b)] \in Surjection(remove \ t.out, Outs)
    BY DEF Surjection
  <2>. QED
    BY <2>4, <2>5, FS_Surjection
<1>. DEFINE P == {pl \in Judged(t, places).all :
                    pl.b \notin DOMAIN t.blk /\ pl.base \in DOMAIN t.asked}
<1>3. P \subseteq places /\ In = {BlockLine(pl.b, Infer(t, pl)) : pl \in P}
  BY DEF Judged, Inferred
<1>4. IsFiniteSet(In)
  <2>1. IsFiniteSet(P)
    BY <1>3, FS_Subset
  <2>2. [pl \in P |-> BlockLine(pl.b, Infer(t, pl))] \in Surjection(P, In)
    BY <1>3 DEF Surjection
  <2>. QED
    BY <2>1, <2>2, FS_Surjection
<1>5. SetToSeq(In) \in Seq(S) /\ SetToSeq(Outs) \in Seq(S)
  <2>1. SetToSeq(In) \in Seq(In) /\ SetToSeq(Outs) \in Seq(Outs)
    BY <1>2, <1>4, SetInSeq
  <2>. HIDE DEF In, Outs, ask
  <2>. QED
    BY <2>1, SeqMonotonic
<1>6. /\ \A x \in In : /\ x.t = "e"
                       /\ \E pl \in places : /\ pl.b = x.key /\ pl.b \notin DOMAIN t.blk
                                             /\ pl.base \in DOMAIN t.asked /\ x.rec = Infer(t, pl)
      /\ \A x \in Outs : x.t = "d" /\ x.key \in remove \ t.out
      /\ ask.t = "r" /\ ask.key = o /\ ask.rec = [f |-> f, p |-> LastBlock(stay)]
  <2>1. \A x \in In : /\ x.t = "e"
                      /\ \E pl \in places : /\ pl.b = x.key /\ pl.b \notin DOMAIN t.blk
                                            /\ pl.base \in DOMAIN t.asked /\ x.rec = Infer(t, pl)
    <3>. TAKE x \in In
    <3>1. PICK pl \in P : x = BlockLine(pl.b, Infer(t, pl))
      BY <1>3
    <3>2. pl \in places /\ pl.b \notin DOMAIN t.blk /\ pl.base \in DOMAIN t.asked
      BY <1>3
    <3>. HIDE DEF In, P
    <3>. QED
      BY <3>1, <3>2 DEF BlockLine
  <2>2. \A x \in Outs : x.t = "d" /\ x.key \in remove \ t.out
    <3>. TAKE x \in Outs
    <3>1. PICK b \in remove \ t.out : x = OutLine(b)
      OBVIOUS
    <3>. HIDE DEF remove, Outs
    <3>. QED
      BY <3>1 DEF OutLine
  <2>3. ask.t = "r" /\ ask.key = o /\ ask.rec = [f |-> f, p |-> LastBlock(stay)]
    BY DEF AskedLine
  <2>. QED
    BY <2>1, <2>2, <2>3
<1>. DEFINE both == SetToSeq(In) \o SetToSeq(Outs)
            recs == Append(both, ask)
            n == Len(both) + 1
<1>. HIDE DEF In, Outs, ask, P, remove, stay
<1>7. both \in Seq(S) /\ ask \in S
  BY <1>5, ConcatProperties
<1>. HIDE DEF both
<1>8. recs \in Seq(S) /\ Len(recs) = n /\ recs[n] = ask /\ n \in Nat /\ n \in 1..Len(recs)
  BY <1>7, AppendProperties, LenProperties
<1>9. IsSeq(recs) /\ \A i \in 1..Len(recs) : recs[i] \in In \/ recs[i] \in Outs \/ recs[i] = ask
  BY <1>8, ElementOfSeq DEF IsSeq
<1>. HIDE DEF recs, n, S
<1>10. \A key : key \in Keys(recs, "r") <=> key = o
  BY <1>6, <1>8, <1>9, KeyAt
<1>11. LastOf(recs, "r", o) = [f |-> f, p |-> LastBlock(stay)]
  <2>1. o \in Keys(recs, "r")
    BY <1>10
  <2>2. PICK i \in 1..Len(recs) : recs[i].t = "r" /\ LastOf(recs, "r", o) = recs[i].rec
    BY <1>9, <2>1, LastAt
  <2>3. recs[i] = ask
    BY <1>6, <1>9, <2>2
  <2>. QED
    BY <1>6, <2>2, <2>3
<1>12. \A b \in Keys(recs, "e") : \E pl \in places :
         /\ pl.b = b /\ b \notin DOMAIN t.blk /\ pl.base \in DOMAIN t.asked
         /\ LastOf(recs, "e", b) = Infer(t, pl)
  <2>. TAKE b \in Keys(recs, "e")
  <2>1. PICK i \in 1..Len(recs) : /\ recs[i].t = "e" /\ recs[i].key = b
                                  /\ LastOf(recs, "e", b) = recs[i].rec
    BY <1>9, LastAt
  <2>2. recs[i] \in In
    BY <1>6, <1>9, <2>1
  <2>. QED
    BY <1>6, <2>1, <2>2
<1>13. \A b \in Keys(recs, "d") : b \in remove \ t.out
  <2>. TAKE b \in Keys(recs, "d")
  <2>1. PICK i \in 1..Len(recs) : recs[i].t = "d" /\ recs[i].key = b
    BY <1>9, KeyAt
  <2>2. recs[i] \in Outs
    BY <1>6, <1>9, <2>1
  <2>. QED
    BY <1>6, <2>1, <2>2
<1>14. v.recs = recs
  BY <1>1 DEF recs, both
<1>15. v.prev = LastBlock(stay) /\ v.remove = {pl.b : pl \in places \ stay} /\ v.remove = remove
  BY <1>1 DEF remove
<1>. HIDE DEF v
<1>16. Keys(recs, "r") = {o}
  BY <1>10
<1>. QED
  BY <1>11, <1>12, <1>14, <1>15, <1>16, <1>13 DEF v, stay

-----------------------------------------------------------------------------
(* Steps that bring the client no answer.                                  *)

Unheard == Pasts /\ Booked /\ Later /\ Aged /\ Same /\ RecordsKept /\ Accepting

Carries ==
  /\ hist' = hist /\ live' \in {live, 0} /\ DOMAIN req' = DOMAIN req
  /\ \A s \in DOMAIN req : Active(s)' => Active(s) /\ req'[s].turns = req[s].turns
  /\ \A s \in DOMAIN req : ~Active(s) /\ 2 * s \in DOMAIN prod =>
       2 * s \in DOMAIN prod' /\ prod'[2 * s] = prod[2 * s]
  /\ removed \subseteq removed'

\* The answers of a history stay where they are.
LEMMA PastStays ==
  ASSUME Carries, NEW turns, NEW n, Past(turns, n)
  PROVE  /\ Past(turns, n)'
         /\ \A k \in 1..n : prod'[2 * turns[k].a] = prod[2 * turns[k].a]
<1>1. ASSUME NEW k \in 1..n
      PROVE LET a == turns[k].a
            IN /\ a \in DOMAIN req' /\ ~(Active(a)') /\ 2 * a \in DOMAIN prod' /\ prod'[2 * a] = prod[2 * a]
               /\ Len(prod'[2 * a].o) = 2 * k
               /\ turns[k].x # "plain" => 2 * a + 1 \in removed'
  <2>1. PICK a : a = turns[k].a
    OBVIOUS
  <2>2. /\ a \in DOMAIN req /\ ~Active(a) /\ 2 * a \in DOMAIN prod /\ Len(prod[2 * a].o) = 2 * k
        /\ turns[k].x # "plain" => 2 * a + 1 \in removed
    BY <2>1 DEF Past
  <2>3. a \in DOMAIN req' /\ ~(Active(a)') /\ 2 * a \in DOMAIN prod' /\ prod'[2 * a] = prod[2 * a]
    BY <2>2 DEF Carries
  <2>4. turns[k].x # "plain" => 2 * a + 1 \in removed'
    BY <2>2 DEF Carries
  <2>. QED
    BY <2>1, <2>2, <2>3, <2>4
<1>. QED
  BY <1>1 DEF Past

LEMMA CarriedOn ==
  ASSUME GuardInv, Carries, Pasts, Later, Aged, Same
  PROVE  /\ Pasts' /\ Later' /\ Aged' /\ Same'
         /\ \A k \in DOMAIN hist : prod'[2 * hist[k].a] = prod[2 * hist[k].a]
<1>1. /\ hist' = hist /\ DOMAIN req' = DOMAIN req /\ DOMAIN hist = 1..Len(hist)
      /\ \A s \in DOMAIN req : Active(s)' => Active(s) /\ req'[s].turns = req[s].turns
  BY LenProperties DEF Carries, GuardInv, ClientOK
<1>2. Past(hist, Len(hist))' /\ \A k \in DOMAIN hist : prod'[2 * hist[k].a] = prod[2 * hist[k].a]
  <2>1. PICK h, n : h = hist /\ n = Len(hist)
    OBVIOUS
  <2>2. Past(h, n)
    BY <2>1 DEF Pasts
  <2>3. Past(h, n)' /\ \A k \in 1..n : prod'[2 * h[k].a] = prod[2 * h[k].a]
    BY <2>2, PastStays
  <2>. QED
    BY <1>1, <2>1, <2>3 DEF Past
<1>3. ASSUME NEW s \in DOMAIN req, Active(s)'
      PROVE /\ Past(req[s].turns, Len(req[s].turns) - 1)'
            /\ \A k \in 1..(Len(req[s].turns) - 1) :
                 prod'[2 * req[s].turns[k].a] = prod[2 * req[s].turns[k].a]
  <2>1. PICK turns, n : turns = req[s].turns /\ n = Len(req[s].turns) - 1
    OBVIOUS
  <2>2. Past(turns, n)
    BY <1>1, <1>3, <2>1 DEF Pasts
  <2>3. Past(turns, n)' /\ \A k \in 1..n : prod'[2 * turns[k].a] = prod[2 * turns[k].a]
    BY <2>2, PastStays
  <2>4. req'[s].turns = req[s].turns
    BY <1>1, <1>3
  <2>. QED
    BY <2>1, <2>3, <2>4 DEF Past
<1>4. Pasts'
  BY <1>1, <1>2, <1>3 DEF Pasts
<1>5. Later'
  BY <1>1 DEF Later
<1>6. Aged'
  BY <1>1, <1>2 DEF Aged
<1>7. Same'
  <2>. SUFFICES ASSUME NEW s \in DOMAIN req, NEW k \in DOMAIN hist, Active(s)', k < Len(req[s].turns),
                       req[s].turns[k].a = hist[k].a, Unedited(hist, k)'
                PROVE  Unedited(req[s].turns, k)'
    BY <1>1 DEF Same, Unedited
  <2>1. prod'[2 * hist[k].a] = prod[2 * hist[k].a]
    BY <1>2
  <2>2. Unedited(hist, k)
    BY <1>1, <2>1 DEF Unedited
  <2>3. Unedited(req[s].turns, k)
    BY <1>1, <2>2 DEF Same
  <2>. QED
    BY <1>1, <2>1, <2>3 DEF Unedited
<1>. QED
  BY <1>2, <1>4, <1>5, <1>6, <1>7

\* A step that nothing goes out by.
Quiet ==
  /\ hist' = hist /\ live' \in {live, 0} /\ DOMAIN req' = DOMAIN req /\ prod' = prod
  /\ removed \subseteq removed'
  /\ \A s \in DOMAIN req : Active(s)' =>
       /\ Active(s) /\ req'[s].turns = req[s].turns
       /\ req'[s].st \in WentOut =>
            /\ req[s].st \in WentOut /\ req'[s].fwd = req[s].fwd /\ req'[s].remove = req[s].remove
            /\ {"remove", "iters"} \subseteq DOMAIN req'[s]
            /\ req'[s].st = "posted" /\ req'[s].iters # 0 => 2 * s + 1 \in removed'
  /\ ~lost' => ~lost /\ Tab'.asked = Tab.asked /\ Tab'.blk = Tab.blk

LEMMA QuietKept ==
  ASSUME GuardInv, GuardInv', Unheard, Quiet
  PROVE  Unheard'
<1>1. Carries
  BY DEF Quiet, Carries
<1>2. /\ Pasts' /\ Later' /\ Aged' /\ Same'
      /\ \A k \in DOMAIN hist : hist[k].a \in DOMAIN req /\ ~Active(hist[k].a)
  BY <1>1, CarriedOn DEF Unheard, GuardInv, RequestsTypeOK
<1>3. /\ IsSeq(req) /\ IsSeq(req') /\ (live # 0 => Active(live)) /\ (live' # 0 => Active(live)')
  BY DEF GuardInv, RequestsOK, RequestsTypeOK, Active
<1>4. Len(req') = Len(req)
  BY <1>3, LenProperties DEF Quiet, IsSeq
<1>5. /\ live' # 0 => live' = live
      /\ live' # 0 /\ req'[live'].st \in WentOut =>
           /\ req[live].st \in WentOut /\ req'[live].turns = req[live].turns
           /\ req'[live].fwd = req[live].fwd /\ req'[live].remove = req[live].remove
  BY <1>3 DEF Quiet, Active
<1>6. Booked'
  <2>1. live' # 0 => live' = Len(req')
    BY <1>4, <1>5 DEF Unheard, Booked
  <2>2. \A b \in DOMAIN prod' : InBook(prod'[b])
    BY DEF Unheard, Booked, Quiet
  <2>3. ASSUME NEW s \in DOMAIN req, Active(s)', req'[s].st \in WentOut
        PROVE /\ {"remove", "iters"} \subseteq DOMAIN req'[s]
              /\ 2 * s \in DOMAIN prod' /\ prod'[2 * s].o = Asked(req'[s].turns)
              /\ req'[s].iters # 0 /\ req'[s].st = "posted" => 2 * s + 1 \in removed'
    BY <2>3 DEF Unheard, Booked, Quiet
  <2>. QED
    BY <2>1, <2>2, <2>3 DEF Booked, Quiet
<1>7. RecordsKept'
  <2>. SUFFICES ASSUME ~lost'
                PROVE /\ \A k \in DOMAIN hist' : Unedited(hist, k)' => RecordOK(hist[k].a)'
                      /\ live' # 0 /\ req'[live'].st \in WentOut => RecordOK(live)'
                      /\ \A b \in DOMAIN Tab'.blk :
                           \E a \in DOMAIN req : ~(Active(a)') /\ b \in {2 * a, 2 * a + 1}
    BY DEF RecordsKept, Quiet
  <2>1. ~lost /\ Tab'.asked = Tab.asked /\ Tab'.blk = Tab.blk /\ prod' = prod /\ hist' = hist
    BY DEF Quiet
  <2>3. live' # 0 /\ req'[live'].st \in WentOut => RecordOK(live)'
    <3>1. live' # 0 /\ req'[live'].st \in WentOut => live' = live /\ RecordOK(live)
      BY <1>5, <2>1 DEF Unheard, RecordsKept
    <3>. QED
      BY <2>1, <3>1 DEF RecordOK
  <2>4. \A k \in DOMAIN hist' : Unedited(hist, k)' => RecordOK(hist[k].a)'
    <3>1. \A k \in DOMAIN hist : Unedited(hist, k) => RecordOK(hist[k].a)
      BY <2>1 DEF Unheard, RecordsKept
    <3>2. \A k \in DOMAIN hist : Unedited(hist, k)' = Unedited(hist, k)
      BY <2>1 DEF Unedited
    <3>. QED
      BY <2>1, <3>1, <3>2 DEF RecordOK
  <2>5. \A b \in DOMAIN Tab'.blk : \E a \in DOMAIN req : ~(Active(a)') /\ b \in {2 * a, 2 * a + 1}
    <3>1. \A b \in DOMAIN Tab.blk : \E a \in DOMAIN req : ~Active(a) /\ b \in {2 * a, 2 * a + 1}
      BY <2>1 DEF Unheard, RecordsKept
    <3>2. \A a \in DOMAIN req : ~Active(a) => ~(Active(a)')
      BY DEF Quiet
    <3>. QED
      BY <2>1, <3>1, <3>2
  <2>. QED
    BY <2>3, <2>4, <2>5
<1>8. Accepting'
  <2>. SUFFICES ASSUME live' # 0, req'[live'].st \in WentOut, ~lost'
                PROVE (\A pl \in Kept(live) : Fine(Kept(live), pl))'
    BY DEF Accepting
  <2>1. live # 0 /\ req[live].st \in WentOut /\ ~lost /\ live' = live /\ prod' = prod
    BY <1>5 DEF Quiet
  <2>2. \A pl \in Kept(live) : Fine(Kept(live), pl)
    BY <2>1 DEF Unheard, Accepting
  <2>3. Kept(live)' = Kept(live)
    BY <1>5, <2>1 DEF Kept
  <2>4. \A places, pl : Fine(places, pl)' = Fine(places, pl)
    BY <2>1 DEF Fine
  <2>. QED
    BY <2>2, <2>3, <2>4
<1>. QED
  BY <1>2, <1>6, <1>7, <1>8 DEF Unheard

\* Verdicts and forms of requests a step leaves alone.
LEMMA JudgingKept ==
  ASSUME Judging, DOMAIN req' = DOMAIN req,
         \A s \in DOMAIN req : Active(s)' /\ req'[s].st = "judged" =>
           Active(s) /\ req'[s] = req[s] /\ known'[req[s].p] = known[req[s].p]
  PROVE  Judging'
BY DEF Judging

LEMMA FormedKept ==
  ASSUME Formed, DOMAIN req' = DOMAIN req, \A p \in Proc : lin'[p] = lin[p] \/ lin'[p] = Cold,
         \A s \in DOMAIN req : Active(s)' /\ req'[s].st # "new" =>
           /\ Active(s) /\ req[s].st # "new"
           /\ req'[s].turns = req[s].turns /\ req'[s].fwd = req[s].fwd
  PROVE  Formed'
<1>1. \A s \in DOMAIN req : Active(s)' /\ req'[s].st # "new" => FormsIn(req'[s].turns, req'[s].fwd)
  BY DEF Formed
<1>2. \A p \in Proc : lin'[p] # Cold => lin'[p] = lin[p] /\ lin[p] # Cold
  OBVIOUS
<1>3. \A p \in Proc : lin'[p] # Cold =>
        \A j \in 1..Len(lin'[p].canon) : ~User(j) =>
          lin'[p].fwd[j] \subseteq Blocks([u |-> 0, a |-> lin'[p].canon[j][1], x |-> lin'[p].canon[j][2]])
  BY <1>2 DEF Formed
<1>. QED
  BY <1>1, <1>3 DEF Formed

-----------------------------------------------------------------------------
(* Forms: an item goes out with blocks of its own.                         *)

LEMMA EvenItems ==
  ASSUME NEW turns \in Seq(TurnItem), turns # << >>, NEW fwd
  PROVE  FormsIn(turns, fwd) <=>
           \A j \in Items(turns) : ~User(j) => fwd[j] \subseteq Blocks(turns[TurnOf(j)])
<1>1. Len(turns) \in Nat \ {0}
  BY EmptySeq
<1>2. ASSUME NEW k \in 1..(Len(turns) - 1)
      PROVE \A j \in Nat : j = 2 * k => j \in Items(turns) /\ ~User(j) /\ TurnOf(j) = k
  BY <1>1 DEF Items, User, TurnOf
<1>3. ASSUME NEW j \in Items(turns), ~User(j)
      PROVE TurnOf(j) \in 1..(Len(turns) - 1) /\ j = 2 * TurnOf(j)
  <2>1. j \in 1..(2 * Len(turns) - 1) /\ j % 2 = 0 /\ j = 2 * (j \div 2)
    BY <1>1, <1>3 DEF User, Items
  <2>2. PICK m \in Int : j = 2 * m
    BY <2>1
  <2>3. TurnOf(j) = m
    BY <2>2 DEF TurnOf
  <2>. QED
    BY <1>1, <2>1, <2>2, <2>3
<1>4. ASSUME FormsIn(turns, fwd), NEW j \in Items(turns), ~User(j)
      PROVE fwd[j] \subseteq Blocks(turns[TurnOf(j)])
  <2>1. PICK k \in 1..(Len(turns) - 1) : k = TurnOf(j) /\ j = 2 * k
    BY <1>3, <1>4
  <2>2. fwd[2 * k] \subseteq Blocks(turns[k])
    BY <1>4 DEF FormsIn
  <2>. QED
    BY <2>1, <2>2
<1>5. ASSUME \A j \in Items(turns) : ~User(j) => fwd[j] \subseteq Blocks(turns[TurnOf(j)]),
             NEW k \in 1..(Len(turns) - 1)
      PROVE fwd[2 * k] \subseteq Blocks(turns[k])
  <2>1. PICK j \in Nat : j = 2 * k
    BY <1>1
  <2>2. j \in Items(turns) /\ ~User(j) /\ TurnOf(j) = k
    BY <1>2, <2>1
  <2>3. fwd[j] \subseteq Blocks(turns[k])
    BY <1>5, <2>2
  <2>. QED
    BY <2>1, <2>3
<1>. QED
  BY <1>4, <1>5 DEF FormsIn

LEMMA FreshIn ==
  ASSUME NEW turns \in Seq(TurnItem), turns # << >>, NEW form, NEW ev
  PROVE  FormsIn(turns, Raw(turns)) /\ FormsIn(turns, Compressed(turns, form, ev))
<1>1. \A j \in Items(turns) : ~User(j) =>
        /\ Raw(turns)[j] \subseteq Blocks(turns[TurnOf(j)])
        /\ Compressed(turns, form, ev)[j] \subseteq Blocks(turns[TurnOf(j)])
  BY DEF Raw, Compressed
<1>. QED
  BY <1>1, EvenItems

\* An item of the lineage that the client left alone has the blocks of the item it is sent for.
LEMMA LineageAt ==
  ASSUME NEW turns \in Seq(TurnItem), turns # << >>, NEW j \in Items(turns), ~User(j)
  PROVE  Blocks([u |-> 0, a |-> Canon(turns)[j][1], x |-> Canon(turns)[j][2]]) = Blocks(turns[TurnOf(j)])
<1>1. Canon(turns)[j] = <<turns[TurnOf(j)].a, turns[TurnOf(j)].x>>
  BY DEF Canon
<1>2. PICK a, x : a = turns[TurnOf(j)].a /\ x = turns[TurnOf(j)].x
  OBVIOUS
<1>3. Canon(turns)[j][1] = a /\ Canon(turns)[j][2] = x
  BY <1>1, <1>2
<1>4. Blocks([u |-> 0, a |-> a, x |-> x]) = Blocks(turns[TurnOf(j)])
  BY <1>2 DEF Blocks
<1>. QED
  BY <1>3, <1>4

LEMMA ReplayIn ==
  ASSUME LineagesOK, Formed, NEW p \in Proc, NEW turns \in Seq(TurnItem), turns # << >>, NEW fresh,
         DOMAIN fresh = Items(turns), FormsIn(turns, fresh), NEW freeze, NEW stuck
  PROVE  FormsIn(turns, Replay(lin[p], Canon(turns), fresh, freeze, stuck))
<1>. DEFINE prev == lin[p]
            canon == Canon(turns)
            h == Hits(prev, canon, fresh, freeze, stuck)
            limit == IF Len(canon) < Len(prev.canon) THEN Len(canon) ELSE Len(prev.canon)
            same(i) == canon[i] = prev.canon[i] /\ (freeze \/ fresh[i] = prev.fwd[i]) /\ i # stuck
            T == {g \in 0..limit : \A i \in 1..g : same(i)}
<1>1. Len(canon) \in Nat /\ Len(turns) \in Nat
  BY TheItems
<1>2. ASSUME prev # Cold
      PROVE h \in 0..Len(prev.canon) /\ \A i \in 1..h : canon[i] = prev.canon[i]
  <2>1. Len(prev.canon) \in Nat
    BY <1>2 DEF LineagesOK
  <2>2. limit \in Nat /\ limit <= Len(prev.canon)
    BY <1>1, <2>1
  <2>3. T \subseteq Nat /\ 0 \in T /\ \A x \in T : x <= limit
    BY <2>2
  <2>4. Max(T) \in T
    BY <2>2, <2>3, GreatestOf
  <2>5. h = Max(T)
    BY <1>2 DEF Hits
  <2>6. \A x \in T : x \in 0..limit /\ \A i \in 1..x : canon[i] = prev.canon[i]
    OBVIOUS
  <2>. HIDE DEF T, h, limit, canon, prev
  <2>. QED
    BY <2>1, <2>2, <2>4, <2>5, <2>6
<1>3. prev = Cold => h = 0
  BY DEF Hits
<1>4. ASSUME NEW j \in Items(turns), ~User(j)
      PROVE Replay(prev, canon, fresh, freeze, stuck)[j] \subseteq Blocks(turns[TurnOf(j)])
  <2>1. Replay(prev, canon, fresh, freeze, stuck)[j] = IF j <= h THEN prev.fwd[j] ELSE fresh[j]
    BY DEF Replay
  <2>2. j \in Nat \ {0}
    BY <1>1 DEF Items
  <2>. HIDE DEF h
  <2>3. CASE j <= h
    <3>1. prev # Cold
      BY <1>3, <2>2, <2>3
    <3>2. /\ Len(prev.canon) \in Nat /\ h \in 0..Len(prev.canon)
          /\ \A i \in 1..h : canon[i] = prev.canon[i]
      BY <1>2, <3>1 DEF LineagesOK
    <3>3. j \in 1..Len(prev.canon) /\ canon[j] = prev.canon[j]
      BY <2>2, <2>3, <3>2
    <3>4. prev.fwd[j] \subseteq Blocks([u |-> 0, a |-> prev.canon[j][1], x |-> prev.canon[j][2]])
      BY <1>4, <3>1, <3>3 DEF Formed
    <3>5. Blocks([u |-> 0, a |-> canon[j][1], x |-> canon[j][2]]) = Blocks(turns[TurnOf(j)])
      BY <1>4, LineageAt
    <3>6. prev.fwd[j] \subseteq Blocks(turns[TurnOf(j)])
      BY <3>3, <3>4, <3>5
    <3>. QED
      BY <2>1, <2>3, <3>6
  <2>4. CASE ~(j <= h)
    <3>1. fresh[j] \subseteq Blocks(turns[TurnOf(j)])
      BY <1>4, EvenItems
    <3>. QED
      BY <2>1, <2>4, <3>1
  <2>. QED
    BY <2>3, <2>4
<1>. HIDE DEF prev, canon
<1>. QED
  BY <1>4, EvenItems DEF prev, canon

-----------------------------------------------------------------------------
(* One action after the other: requests on their way.                      *)

\* A step on one request that stays open, before it goes out or after.
LEMMA OnItsWay ==
  ASSUME GuardInv, NEW r \in DOMAIN req, Active(r), NEW q, req' = [req EXCEPT ![r] = q],
         q.turns = req[r].turns, UNCHANGED <<clientVars, prod>>, removed \subseteq removed',
         ~lost' => ~lost /\ Tab'.asked = Tab.asked /\ Tab'.blk = Tab.blk,
         q.st \in WentOut =>
           /\ req[r].st \in WentOut /\ q.fwd = req[r].fwd /\ q.remove = req[r].remove
           /\ {"remove", "iters"} \subseteq DOMAIN q
           /\ q.st = "posted" /\ q.iters # 0 => 2 * r + 1 \in removed'
  PROVE  /\ DOMAIN req' = DOMAIN req /\ req'[r] = q
         /\ \A s \in DOMAIN req : s # r => req'[s] = req[s] /\ Active(s)' = Active(s)
         /\ Booked => Quiet
<1>1. /\ DOMAIN req' = DOMAIN req /\ req'[r] = q
      /\ \A s \in DOMAIN req : s # r => req'[s] = req[s]
  BY DEF GuardInv, RequestsOK, IsSeq
<1>2. \A s \in DOMAIN req : s # r => Active(s)' = Active(s)
  BY <1>1 DEF Active
<1>3. ASSUME Booked, NEW s \in DOMAIN req, Active(s)'
      PROVE /\ Active(s) /\ req'[s].turns = req[s].turns
            /\ req'[s].st \in WentOut =>
                 /\ req[s].st \in WentOut /\ req'[s].fwd = req[s].fwd /\ req'[s].remove = req[s].remove
                 /\ {"remove", "iters"} \subseteq DOMAIN req'[s]
                 /\ req'[s].st = "posted" /\ req'[s].iters # 0 => 2 * s + 1 \in removed'
  <2>1. CASE s = r
    BY <1>1, <2>1
  <2>2. CASE s # r
    <3>1. req'[s] = req[s] /\ Active(s)
      BY <1>1, <1>2, <1>3, <2>2
    <3>2. /\ req[s].st = "posted" /\ req[s].iters # 0 => 2 * s + 1 \in removed
          /\ req[s].st \in WentOut => {"remove", "iters"} \subseteq DOMAIN req[s]
      BY <1>3, <3>1 DEF Booked, WentOut
    <3>. QED
      BY <3>1, <3>2
  <2>. QED
    BY <2>1, <2>2
<1>. QED
  BY <1>1, <1>2, <1>3 DEF Quiet, clientVars

LEMMA MemoryKept ==
  ASSUME Remembers, UNCHANGED guardVars
  PROVE  Remembers' /\ Tab' = Tab /\ lost' = lost /\ known' = known
BY DEF Remembers, guardVars, Tab

LEMMA TheParts == AcceptInv <=> Remembers /\ Judging /\ Formed /\ Unheard
BY DEF AcceptInv, Unheard

LEMMA CompressAccepts ==
  ASSUME GuardInv, GuardInv', AcceptInv, NEW r \in DOMAIN req, Active(r),
         NEW form, NEW cold, NEW stuck, NEW raises, Compress(r, form, cold, stuck, raises)
  PROVE  AcceptInv'
<1>. DEFINE turns == req[r].turns
            ev == IF cold = 0 THEN evicted
                  ELSE [items |-> evicted.items \cup {<<cold, turns[cold].u>>},
                        blocks |-> evicted.blocks \cup ThinkingAfter(turns, cold)]
            fresh == IF raises THEN Raw(turns) ELSE Compressed(turns, form, ev)
            fwd == Replay(lin[req[r].p], Canon(turns), fresh, cold = 0, stuck)
            q == [st |-> "compressed", p |-> req[r].p, turns |-> turns, fwd |-> fwd]
<1>1. /\ req' = [req EXCEPT ![r] = q] /\ UNCHANGED <<guardVars, clientVars, lin, prod, removed>>
  BY DEF Compress, provider
<1>2. req[r].p \in Proc /\ turns \in Seq(TurnItem) /\ turns # << >> /\ LineagesOK
  BY OpenRequest
<1>3. Remembers /\ Judging /\ Formed /\ Unheard /\ Booked
  BY TheParts DEF Unheard
<1>4. FormsIn(turns, fwd)
  <2>1. DOMAIN fresh = Items(turns) /\ FormsIn(turns, fresh)
    <3>. HIDE DEF turns, ev
    <3>. QED
      BY <1>2, FreshForms, FreshIn
  <2>. HIDE DEF turns, fresh
  <2>. QED
    BY <1>2, <1>3, <2>1, ReplayIn
<1>. HIDE DEF fwd
<1>5. q.st = "compressed" /\ q.turns = req[r].turns /\ q.fwd = fwd /\ q.st \notin WentOut
  BY DEF WentOut
<1>. HIDE DEF q
<1>6. Remembers' /\ Tab' = Tab /\ lost' = lost /\ known' = known
  BY <1>1, <1>3, MemoryKept
<1>7. /\ DOMAIN req' = DOMAIN req /\ req'[r] = q /\ Quiet
      /\ \A s \in DOMAIN req : s # r => req'[s] = req[s] /\ Active(s)' = Active(s)
  BY <1>1, <1>3, <1>5, <1>6, OnItsWay
<1>8. Unheard'
  BY <1>3, <1>7, QuietKept
<1>9. Judging'
  BY <1>3, <1>5, <1>6, <1>7, JudgingKept
<1>10. Formed'
  <2>1. \A s \in DOMAIN req : Active(s)' /\ req'[s].st # "new" => FormsIn(req'[s].turns, req'[s].fwd)
    BY <1>3, <1>4, <1>5, <1>7 DEF Formed
  <2>. QED
    BY <1>1, <1>3, <1>7, <2>1 DEF Formed
<1>. QED
  BY <1>6, <1>8, <1>9, <1>10, TheParts DEF AcceptInv, Unheard

LEMMA RememberAccepts ==
  ASSUME GuardInv, GuardInv', AcceptInv, NEW r \in DOMAIN req, Active(r), Remember(r)
  PROVE  AcceptInv'
<1>. DEFINE turns == req[r].turns
            fwd == req[r].fwd
            q == [req[r] EXCEPT !.st = "replayed"]
<1>1. /\ req' = [req EXCEPT ![r] = q] /\ req[r].st = "compressed"
      /\ lin' = [lin EXCEPT ![req[r].p] = Lineage(Canon(turns), fwd)]
      /\ UNCHANGED <<guardVars, clientVars, prod, removed>>
  BY DEF Remember, provider
<1>2. req[r].p \in Proc /\ turns \in Seq(TurnItem) /\ turns # << >> /\ LineagesOK /\ WellMade(req[r])
  BY OpenRequest
<1>3. Remembers /\ Judging /\ Formed /\ Unheard /\ Booked
  BY TheParts DEF Unheard
<1>4. FormsIn(turns, fwd)
  BY <1>1, <1>3 DEF Formed
<1>5. q.st = "replayed" /\ q.turns = req[r].turns /\ q.fwd = fwd /\ q.st \notin WentOut
  BY <1>1, <1>2 DEF WentOut, WellMade
<1>. HIDE DEF q
<1>6. Remembers' /\ Tab' = Tab /\ lost' = lost /\ known' = known
  BY <1>1, <1>3, MemoryKept
<1>7. /\ DOMAIN req' = DOMAIN req /\ req'[r] = q /\ Quiet
      /\ \A s \in DOMAIN req : s # r => req'[s] = req[s] /\ Active(s)' = Active(s)
  BY <1>1, <1>3, <1>5, <1>6, OnItsWay
<1>8. Unheard'
  BY <1>3, <1>7, QuietKept
<1>9. Judging'
  BY <1>3, <1>5, <1>6, <1>7, JudgingKept
<1>10. Formed'
  <2>1. \A s \in DOMAIN req : Active(s)' /\ req'[s].st # "new" => FormsIn(req'[s].turns, req'[s].fwd)
    BY <1>3, <1>4, <1>5, <1>7 DEF Formed
  <2>2. \A j \in 1..Len(Canon(turns)) : ~User(j) =>
          fwd[j] \subseteq Blocks([u |-> 0, a |-> Canon(turns)[j][1], x |-> Canon(turns)[j][2]])
    <3>. SUFFICES ASSUME NEW j \in 1..Len(Canon(turns)), ~User(j)
                  PROVE fwd[j] \subseteq Blocks([u |-> 0, a |-> Canon(turns)[j][1], x |-> Canon(turns)[j][2]])
      OBVIOUS
    <3>. HIDE DEF turns, fwd
    <3>1. j \in Items(turns)
      BY <1>2, TheItems DEF Items
    <3>2. fwd[j] \subseteq Blocks(turns[TurnOf(j)])
      BY <1>2, <1>4, <3>1, EvenItems
    <3>. QED
      BY <1>2, <3>1, <3>2, LineageAt
  <2>3. ASSUME NEW p \in Proc, lin'[p] # Cold
        PROVE \A j \in 1..Len(lin'[p].canon) : ~User(j) =>
                lin'[p].fwd[j] \subseteq Blocks([u |-> 0, a |-> lin'[p].canon[j][1], x |-> lin'[p].canon[j][2]])
    <3>1. CASE p = req[r].p
      <4>1. lin'[p].canon = Canon(turns) /\ lin'[p].fwd = fwd
        BY <1>1, <1>2, <3>1 DEF LineagesOK, Lineage
      <4>. HIDE DEF turns, fwd
      <4>. QED
        BY <2>2, <4>1
    <3>2. CASE p # req[r].p
      <4>1. lin'[p] = lin[p]
        BY <1>1, <1>2, <3>2 DEF LineagesOK
      <4>. QED
        BY <1>3, <2>3, <4>1 DEF Formed
    <3>. QED
      BY <3>1, <3>2
  <2>. QED
    BY <1>7, <2>1, <2>3 DEF Formed
<1>. QED
  BY <1>6, <1>8, <1>9, <1>10 DEF AcceptInv, Unheard

LEMMA UntrackedAccepts ==
  ASSUME GuardInv, GuardInv', AcceptInv, NEW r \in DOMAIN req, Active(r), NEW form, Untracked(r, form)
  PROVE  AcceptInv'
<1>. DEFINE turns == req[r].turns
            fwd == Compressed(turns, form, evicted)
            q == [st |-> "replayed", p |-> req[r].p, turns |-> turns, fwd |-> fwd]
<1>1. /\ req' = [req EXCEPT ![r] = q] /\ lin' = [lin EXCEPT ![req[r].p] = Cold]
      /\ UNCHANGED <<guardVars, clientVars, prod, removed>>
  BY DEF Untracked, provider
<1>2. req[r].p \in Proc /\ turns \in Seq(TurnItem) /\ turns # << >> /\ LineagesOK
  BY OpenRequest
<1>3. Remembers /\ Judging /\ Formed /\ Unheard /\ Booked
  BY TheParts DEF Unheard
<1>4. FormsIn(turns, fwd)
  <2>. HIDE DEF turns
  <2>. QED
    BY <1>2, FreshIn
<1>. HIDE DEF fwd
<1>5. q.st = "replayed" /\ q.turns = req[r].turns /\ q.fwd = fwd /\ q.st \notin WentOut
  BY DEF WentOut
<1>. HIDE DEF q
<1>6. Remembers' /\ Tab' = Tab /\ lost' = lost /\ known' = known
  BY <1>1, <1>3, MemoryKept
<1>7. /\ DOMAIN req' = DOMAIN req /\ req'[r] = q /\ Quiet
      /\ \A s \in DOMAIN req : s # r => req'[s] = req[s] /\ Active(s)' = Active(s)
  BY <1>1, <1>3, <1>5, <1>6, OnItsWay
<1>8. Unheard'
  BY <1>3, <1>7, QuietKept
<1>9. Judging'
  BY <1>3, <1>5, <1>6, <1>7, JudgingKept
<1>10. Formed'
  <2>1. \A s \in DOMAIN req : Active(s)' /\ req'[s].st # "new" => FormsIn(req'[s].turns, req'[s].fwd)
    BY <1>3, <1>4, <1>5, <1>7 DEF Formed
  <2>2. \A p \in Proc : lin'[p] = lin[p] \/ lin'[p] = Cold
    BY <1>1, <1>2 DEF LineagesOK
  <2>3. \A p \in Proc : lin'[p] # Cold =>
          \A j \in 1..Len(lin'[p].canon) : ~User(j) =>
            lin'[p].fwd[j] \subseteq Blocks([u |-> 0, a |-> lin'[p].canon[j][1], x |-> lin'[p].canon[j][2]])
    <3>1. \A p \in Proc : lin'[p] # Cold => lin'[p] = lin[p] /\ lin[p] # Cold
      BY <2>2
    <3>. QED
      BY <1>3, <3>1 DEF Formed
  <2>. QED
    BY <1>7, <2>1, <2>3 DEF Formed
<1>. QED
  BY <1>6, <1>8, <1>9, <1>10 DEF AcceptInv, Unheard

LEMMA GuardAccepts ==
  ASSUME GuardInv, GuardInv', AcceptInv, NEW r \in DOMAIN req, Active(r), Guard(r)
  PROVE  AcceptInv'
<1>. DEFINE p == req[r].p
            turns == req[r].turns
            fwd == req[r].fwd
            n == Len(turns)
            t == ApplyAll(known[p], Unread(p))
            o == ClientPrefix(turns, n)
            f == Prefix("with distil_expand", turns, fwd, n)
            v == Verdict(t, Places(turns, fwd), o, f)
            q == [st |-> "judged", p |-> p, turns |-> turns, fwd |-> fwd, verdict |-> v]
<1>1. /\ req' = [req EXCEPT ![r] = q] /\ req[r].st = "replayed" /\ ~Locked(p) /\ Sync(p)
      /\ UNCHANGED <<journal, lost, clientVars, lin, prod, removed>>
  BY DEF Guard, provider
<1>2. p \in Proc /\ TablesOK /\ Follows
  BY OpenRequest
<1>3. Remembers /\ Judging /\ Formed /\ Unheard /\ Booked
  BY TheParts DEF Unheard
<1>4. v = Verdict(t, Places(turns, fwd), Asked(turns), Full(turns, fwd))
  BY DEF Asked, Full
<1>. HIDE DEF t, v
<1>5. /\ q.st = "judged" /\ q.p = p /\ q.turns = req[r].turns /\ q.fwd = req[r].fwd /\ q.verdict = v
      /\ q.st \notin WentOut
  BY DEF WentOut
<1>. HIDE DEF q
<1>6. Remembers' /\ Tab' = Tab /\ lost' = lost
  BY <1>1, <1>2, <1>3, SyncRemembers
<1>7. known'[p] = t /\ \A s \in Proc \ {p} : known'[s] = known[s]
  BY <1>1, <1>2, SyncOK DEF t
<1>8. /\ DOMAIN req' = DOMAIN req /\ req'[r] = q /\ Quiet
      /\ \A s \in DOMAIN req : s # r => req'[s] = req[s] /\ Active(s)' = Active(s)
  <2>1. /\ UNCHANGED <<clientVars, prod>> /\ removed \subseteq removed'
        /\ ~lost' => ~lost /\ Tab'.asked = Tab.asked /\ Tab'.blk = Tab.blk
    BY <1>1, <1>6
  <2>. QED
    BY <1>1, <1>3, <1>5, <2>1, OnItsWay
<1>9. Unheard'
  BY <1>3, <1>8, QuietKept
<1>10. Judging'
  <2>. SUFFICES ASSUME NEW s \in DOMAIN req, Active(s)', req'[s].st = "judged"
                PROVE req'[s].verdict = Verdict(known'[req'[s].p], Places(req'[s].turns, req'[s].fwd),
                                                Asked(req'[s].turns), Full(req'[s].turns, req'[s].fwd))
    BY <1>8 DEF Judging
  <2>1. CASE s = r
    BY <1>4, <1>5, <1>7, <1>8, <2>1
  <2>2. CASE s # r
    <3>1. Active(s) /\ req'[s] = req[s] /\ req[s].p \in Proc /\ req[s].p # p
      BY <1>1, <1>8, <2>2, OpenRequest DEF Locked
    <3>. QED
      BY <1>3, <1>7, <3>1 DEF Judging
  <2>. QED
    BY <2>1, <2>2
<1>11. Formed'
  BY <1>1, <1>3, <1>5, <1>8, FormedKept
<1>. QED
  BY <1>6, <1>9, <1>10, <1>11 DEF AcceptInv, Unheard

LEMMA OutOnly ==
  ASSUME NEW t, t.asked = [o \in DOMAIN t.asked |-> t.asked[o]], t.blk = [b \in DOMAIN t.blk |-> t.blk[b]],
         NEW recs, IsSeq(recs), \A i \in 1..Len(recs) : recs[i].t = "d"
  PROVE  ApplyAll(t, recs).asked = t.asked /\ ApplyAll(t, recs).blk = t.blk
<1>1. \A key : key \notin Keys(recs, "r") /\ key \notin Keys(recs, "e")
  BY KeyAt
<1>2. Keys(recs, "r") = {} /\ Keys(recs, "e") = {}
  BY <1>1
<1>. QED
  BY <1>2 DEF ApplyAll, Updated

LEMMA RequeryAccepts ==
  ASSUME GuardInv, GuardInv', AcceptInv, NEW r \in DOMAIN req, Active(r), Requery(r)
  PROVE  AcceptInv'
<1>. DEFINE q == [req[r] EXCEPT !.st = "requeried", !.iters = @ + 1]
<1>1. /\ req' = [req EXCEPT ![r] = q] /\ req[r].st = "posted"
      /\ UNCHANGED <<guardVars, clientVars, lin, prod, removed>>
  BY DEF Requery, provider
<1>2. WellMade(req[r])
  BY OpenRequest
<1>3. Remembers /\ Judging /\ Formed /\ Unheard /\ Booked
  BY TheParts DEF Unheard
<1>4. {"remove", "iters"} \subseteq DOMAIN req[r] /\ {"st", "p", "turns", "fwd"} \subseteq DOMAIN req[r]
  BY <1>1, <1>2, <1>3 DEF Booked, WentOut, WellMade
<1>5. /\ q.st = "requeried" /\ q.turns = req[r].turns /\ q.fwd = req[r].fwd /\ q.remove = req[r].remove
      /\ {"remove", "iters"} \subseteq DOMAIN q /\ req[r].st \in WentOut
  BY <1>1, <1>4 DEF WentOut
<1>. HIDE DEF q
<1>6. Remembers' /\ Tab' = Tab /\ lost' = lost /\ known' = known
  BY <1>1, <1>3, MemoryKept
<1>7. /\ DOMAIN req' = DOMAIN req /\ req'[r] = q /\ Quiet
      /\ \A s \in DOMAIN req : s # r => req'[s] = req[s] /\ Active(s)' = Active(s)
  BY <1>1, <1>3, <1>5, <1>6, OnItsWay
<1>8. Unheard'
  BY <1>3, <1>7, QuietKept
<1>9. Judging'
  BY <1>3, <1>5, <1>6, <1>7, JudgingKept
<1>10. Formed'
  BY <1>1, <1>3, <1>5, <1>7, FormedKept
<1>. QED
  BY <1>6, <1>8, <1>9, <1>10 DEF AcceptInv, Unheard

LEMMA TaintAccepts ==
  ASSUME GuardInv, GuardInv', AcceptInv, NEW r \in DOMAIN req, Active(r), Taint(r)
  PROVE  AcceptInv'
<1>. DEFINE q == [req[r] EXCEPT !.st = "tainted"]
            p == req[r].p
<1>1. /\ req' = [req EXCEPT ![r] = q] /\ req[r].st = "requeried" /\ ~Locked(p) /\ Sync(p)
      /\ UNCHANGED <<journal, lost, clientVars, lin, prod, removed>>
  BY DEF Taint, provider
<1>2. WellMade(req[r]) /\ p \in Proc /\ TablesOK /\ Follows
  BY OpenRequest
<1>3. Remembers /\ Judging /\ Formed /\ Unheard /\ Booked
  BY TheParts DEF Unheard
<1>4. {"remove", "iters"} \subseteq DOMAIN req[r] /\ {"st", "p", "turns", "fwd"} \subseteq DOMAIN req[r]
  BY <1>1, <1>2, <1>3 DEF Booked, WentOut, WellMade
<1>5. /\ q.st = "tainted" /\ q.turns = req[r].turns /\ q.fwd = req[r].fwd /\ q.remove = req[r].remove
      /\ {"remove", "iters"} \subseteq DOMAIN q /\ req[r].st \in WentOut
  BY <1>1, <1>4 DEF WentOut
<1>. HIDE DEF q
<1>6. Remembers' /\ Tab' = Tab /\ lost' = lost
  BY <1>1, <1>2, <1>3, SyncRemembers
<1>7. \A s \in Proc \ {p} : known'[s] = known[s]
  BY <1>1, <1>2, SyncOK
<1>8. /\ DOMAIN req' = DOMAIN req /\ req'[r] = q /\ Quiet
      /\ \A s \in DOMAIN req : s # r => req'[s] = req[s] /\ Active(s)' = Active(s)
  <2>1. /\ UNCHANGED <<clientVars, prod>> /\ removed \subseteq removed'
        /\ ~lost' => ~lost /\ Tab'.asked = Tab.asked /\ Tab'.blk = Tab.blk
    BY <1>1, <1>6
  <2>. QED
    BY <1>1, <1>3, <1>5, <2>1, OnItsWay
<1>9. Unheard'
  BY <1>3, <1>8, QuietKept
<1>10. Judging'
  <2>1. ASSUME NEW s \in DOMAIN req, Active(s)', req'[s].st = "judged"
        PROVE Active(s) /\ req'[s] = req[s] /\ known'[req[s].p] = known[req[s].p]
    <3>1. s # r
      BY <1>5, <1>8, <2>1
    <3>2. Active(s) /\ req'[s] = req[s] /\ req[s].p \in Proc /\ req[s].p # p
      BY <1>1, <1>8, <2>1, <3>1, OpenRequest DEF Locked
    <3>. QED
      BY <1>7, <3>2
  <2>. QED
    BY <1>3, <1>8, <2>1, JudgingKept
<1>11. Formed'
  BY <1>1, <1>3, <1>5, <1>8, FormedKept
<1>. QED
  BY <1>6, <1>9, <1>10, <1>11 DEF AcceptInv, Unheard

LEMMA DropAccepts ==
  ASSUME GuardInv, GuardInv', AcceptInv, NEW r \in DOMAIN req, Active(r), Drop(r)
  PROVE  AcceptInv'
<1>. DEFINE q == [req[r] EXCEPT !.st = "posted"]
            p == req[r].p
            recs == <<OutLine(2 * r + 1)>>
<1>1. /\ req' = [req EXCEPT ![r] = q] /\ req[r].st = "tainted" /\ removed' = removed \cup {2 * r + 1}
      /\ Persist(p, recs, FALSE) /\ UNCHANGED <<clientVars, lin, prod>>
  BY DEF Drop
<1>2. WellMade(req[r]) /\ p \in Proc /\ TablesOK /\ Follows
  BY OpenRequest
<1>3. Remembers /\ Judging /\ Formed /\ Unheard /\ Booked
  BY TheParts DEF Unheard
<1>4. {"remove", "iters"} \subseteq DOMAIN req[r] /\ {"st", "p", "turns", "fwd"} \subseteq DOMAIN req[r]
  BY <1>1, <1>2, <1>3 DEF Booked, WentOut, WellMade
<1>5. /\ q.st = "posted" /\ q.turns = req[r].turns /\ q.fwd = req[r].fwd /\ q.remove = req[r].remove
      /\ {"remove", "iters"} \subseteq DOMAIN q /\ req[r].st \in WentOut
  BY <1>1, <1>4 DEF WentOut
<1>. HIDE DEF q
<1>6. IsSeq(recs) /\ \A i \in 1..Len(recs) : recs[i].t = "d"
  <2>1. recs \in Seq({OutLine(2 * r + 1)}) /\ Len(recs) = 1 /\ recs[1] = OutLine(2 * r + 1)
    OBVIOUS
  <2>2. OutLine(2 * r + 1).t = "d"
    BY DEF OutLine
  <2>. HIDE DEF recs
  <2>. QED
    BY <2>1, <2>2 DEF IsSeq
<1>. HIDE DEF recs
<1>7. Remembers' /\ (~lost' => ~lost /\ Tab' = ApplyAll(Tab, recs))
  BY <1>1, <1>2, <1>3, <1>6, PersistRemembers
<1>8. ~lost' => ~lost /\ Tab'.asked = Tab.asked /\ Tab'.blk = Tab.blk
  <2>1. Tab.asked = [o \in DOMAIN Tab.asked |-> Tab.asked[o]] /\ Tab.blk = [b \in DOMAIN Tab.blk |-> Tab.blk[b]]
    BY DEF Tab, ApplyAll, Updated
  <2>2. ApplyAll(Tab, recs).asked = Tab.asked /\ ApplyAll(Tab, recs).blk = Tab.blk
    BY <1>6, <2>1, OutOnly
  <2>. QED
    BY <1>7, <2>2
<1>9. \A s \in Proc \ {p} : known'[s] = known[s]
  BY <1>1, <1>2 DEF Persist, TablesOK
<1>10. /\ DOMAIN req' = DOMAIN req /\ req'[r] = q /\ Quiet
       /\ \A s \in DOMAIN req : s # r => req'[s] = req[s] /\ Active(s)' = Active(s)
  <2>1. UNCHANGED <<clientVars, prod>> /\ removed \subseteq removed' /\ 2 * r + 1 \in removed'
    BY <1>1
  <2>. QED
    BY <1>1, <1>3, <1>5, <1>8, <2>1, OnItsWay
<1>11. Unheard'
  BY <1>3, <1>10, QuietKept
<1>12. Judging'
  <2>1. ASSUME NEW s \in DOMAIN req, Active(s)', req'[s].st = "judged"
        PROVE Active(s) /\ req'[s] = req[s] /\ known'[req[s].p] = known[req[s].p]
    <3>1. s # r
      BY <1>5, <1>10, <2>1
    <3>2. Active(s) /\ req'[s] = req[s] /\ req[s].p \in Proc
      BY <1>10, <2>1, <3>1, OpenRequest
    <3>3. req[s].p # p
      BY <1>1, <2>1, <3>1, <3>2 DEF GuardInv, OneHolds, Holds
    <3>. QED
      BY <1>9, <3>2, <3>3
  <2>. QED
    BY <1>3, <1>10, <2>1, JudgingKept
<1>13. Formed'
  BY <1>1, <1>3, <1>5, <1>10, FormedKept
<1>. QED
  BY <1>7, <1>11, <1>12, <1>13 DEF AcceptInv, Unheard

-----------------------------------------------------------------------------
(* Requests that come to an end, and a client that waits no longer.        *)

LEMMA EndsAccepts ==
  ASSUME GuardInv, GuardInv', AcceptInv, Ends, hist' = hist, live' \in {live, 0}, UNCHANGED <<prod, removed>>,
         Remembers', lost' = lost, Tab' = Tab, \A p \in Proc : lin'[p] = lin[p] \/ lin'[p] = Cold,
         \A s \in DOMAIN req : Active(s)' => known'[req[s].p] = known[req[s].p]
  PROVE  AcceptInv'
<1>1. Remembers /\ Judging /\ Formed /\ Unheard /\ Booked
  BY TheParts DEF Unheard
<1>2. DOMAIN req' = DOMAIN req /\ \A s \in DOMAIN req : Active(s)' => Active(s) /\ req'[s] = req[s]
  BY EndsOK
<1>3. Quiet
  BY <1>1, <1>2 DEF Quiet, Booked
<1>4. Unheard'
  BY <1>1, <1>3, QuietKept
<1>5. Judging'
  BY <1>1, <1>2, JudgingKept
<1>6. Formed'
  BY <1>1, <1>2, FormedKept
<1>. QED
  BY <1>4, <1>5, <1>6 DEF AcceptInv, Unheard

LEMMA RefusedAccepts ==
  ASSUME GuardInv, GuardInv', AcceptInv, NEW r \in DOMAIN req, Active(r),
         \/ Refused(r)
         \/ Relay(r) /\ live # r
  PROVE  AcceptInv'
<1>1. /\ req' = [req EXCEPT ![r] = Idle] /\ hist' = hist /\ live' \in {live, 0}
      /\ UNCHANGED <<guardVars, lin, prod, removed>>
  BY DEF Refused, Relay, provider
<1>2. Ends
  BY <1>1, OneEnds
<1>3. Remembers' /\ Tab' = Tab /\ lost' = lost /\ known' = known
  BY <1>1, MemoryKept DEF AcceptInv
<1>. QED
  BY <1>1, <1>2, <1>3, EndsAccepts

LEMMA DieAccepts ==
  ASSUME GuardInv, GuardInv', AcceptInv, NEW p \in Proc, Die(p)
  PROVE  AcceptInv'
<1>1. /\ req' = [s \in DOMAIN req |-> IF Active(s) /\ req[s].p = p THEN Idle ELSE req[s]]
      /\ live' \in {live, 0} /\ lin' = [lin EXCEPT ![p] = Cold] /\ Forget(p)
      /\ hist' = hist /\ UNCHANGED <<prod, removed>>
  BY DEF Die, provider
<1>2. TablesOK /\ Follows /\ LineagesOK /\ Remembers
  BY DEF GuardInv, AcceptInv
<1>3. DOMAIN req' = DOMAIN req
      /\ \A s \in DOMAIN req : req'[s] = IF Active(s) /\ req[s].p = p THEN Idle ELSE req[s]
  BY <1>1
<1>4. Ends
  <2>1. req' = [s \in DOMAIN req |-> req'[s]]
    BY <1>1
  <2>. QED
    BY <1>3, <2>1 DEF Ends
<1>5. Remembers' /\ Tab' = Tab /\ lost' = lost /\ \A q \in Proc \ {p} : known'[q] = known[q]
  BY <1>1, <1>2, ForgetRemembers DEF Forget, TablesOK
<1>6. \A q \in Proc : lin'[q] = lin[q] \/ lin'[q] = Cold
  BY <1>1, <1>2 DEF LineagesOK
<1>7. \A s \in DOMAIN req : Active(s)' => known'[req[s].p] = known[req[s].p]
  <2>1. \A s \in DOMAIN req : Active(s)' => Active(s) /\ req[s].p # p
    BY <1>3 DEF Active, Idle
  <2>2. \A s \in DOMAIN req : Active(s) => req[s].p \in Proc
    BY DEF GuardInv, RequestsOK, WellMade
  <2>. QED
    BY <1>5, <2>1, <2>2
<1>. QED
  BY <1>1, <1>4, <1>5, <1>6, <1>7, EndsAccepts

LEMMA WaitAccepts ==
  ASSUME GuardInv, GuardInv', AcceptInv, GiveUp \/ HandOver \/ UNCHANGED vars
  PROVE  AcceptInv'
<1>1. /\ req' = req /\ hist' = hist /\ live' \in {live, 0}
      /\ UNCHANGED <<guardVars, lin, prod, removed>>
  BY DEF GiveUp, HandOver, vars, clientVars, provider
<1>2. Ends
  <2>1. PICK S : req \in Seq(S)
    BY DEF GuardInv, RequestsOK, IsSeq
  <2>2. req = [s \in DOMAIN req |-> req[s]]
    BY <2>1
  <2>. QED
    BY <1>1, <2>2 DEF Ends
<1>3. Remembers' /\ Tab' = Tab /\ lost' = lost /\ known' = known
  BY <1>1, MemoryKept DEF AcceptInv
<1>. QED
  BY <1>1, <1>2, <1>3, EndsAccepts

-----------------------------------------------------------------------------
(* The client sends, and rewrites its history.                             *)

LEMMA PastGrows ==
  ASSUME NEW t1, NEW t2, NEW n, Past(t1, n), \A k \in 1..n : t2[k].a = t1[k].a /\ t2[k].x = t1[k].x,
         DOMAIN req \subseteq DOMAIN req', \A s \in DOMAIN req : ~Active(s) => ~(Active(s)'),
         prod' = prod, removed \subseteq removed'
  PROVE  Past(t2, n)'
<1>1. ASSUME NEW k \in 1..n
      PROVE LET a == t2[k].a
            IN /\ a \in DOMAIN req' /\ ~(Active(a)') /\ 2 * a \in DOMAIN prod' /\ Len(prod'[2 * a].o) = 2 * k
               /\ t2[k].x # "plain" => 2 * a + 1 \in removed'
  <2>1. PICK a : a = t1[k].a /\ a = t2[k].a
    OBVIOUS
  <2>2. /\ a \in DOMAIN req /\ ~Active(a) /\ 2 * a \in DOMAIN prod /\ Len(prod[2 * a].o) = 2 * k
        /\ t2[k].x # "plain" => 2 * a + 1 \in removed
    BY <2>1 DEF Past
  <2>3. a \in DOMAIN req' /\ ~(Active(a)') /\ 2 * a \in DOMAIN prod' /\ Len(prod'[2 * a].o) = 2 * k
    BY <2>2
  <2>4. t2[k].x # "plain" => 2 * a + 1 \in removed'
    BY <2>2
  <2>. QED
    BY <2>1, <2>3, <2>4
<1>. QED
  BY <1>1 DEF Past

LEMMA Appended ==
  ASSUME IsSeq(req), NEW q, req' = Append(req, q), NEW n, n = Len(req)
  PROVE  /\ n \in Nat /\ DOMAIN req = 1..n /\ DOMAIN req' = 1..(n + 1) /\ Len(req') = n + 1
         /\ req'[n + 1] = q /\ \A s \in 1..n : req'[s] = req[s]
<1>1. PICK S : req \in Seq(S)
  BY DEF IsSeq
<1>2. req \in Seq(S \cup {q})
  BY <1>1, SeqMonotonic
<1>3. n \in Nat
  BY <1>1, LenProperties
<1>4. /\ Append(req, q) \in Seq(S \cup {q}) /\ Len(Append(req, q)) = n + 1
      /\ \A s \in 1..n : Append(req, q)[s] = req[s]
      /\ Append(req, q)[n + 1] = q
  BY <1>2, <1>3, AppendProperties
<1>. QED
  BY <1>2, <1>3, <1>4, LenProperties

LEMMA SendAccepts ==
  ASSUME GuardInv, GuardInv', AcceptInv, Send
  PROVE  AcceptInv'
<1>0. PICK n \in Nat : n = Len(req)
  BY LenProperties DEF GuardInv, RequestsOK, IsSeq
<1>. DEFINE turns == Append(hist, Open(0))
            q == [st |-> "new", p |-> serving, turns |-> turns]
<1>1. /\ live = 0 /\ req' = Append(req, q) /\ live' = n + 1
      /\ UNCHANGED <<guardVars, hist, lin, prod, removed>>
  BY <1>0 DEF Send, provider
<1>2. /\ IsSeq(req) /\ IsSeq(req') /\ hist \in Seq(TurnItem) /\ DOMAIN hist = 1..Len(hist) /\ Len(hist) \in Nat
      /\ Remembers /\ Judging /\ Formed /\ Unheard
  BY TheParts, LenProperties DEF GuardInv, ClientOK, RequestsOK
<1>3. /\ DOMAIN req = 1..n /\ DOMAIN req' = 1..(n + 1) /\ Len(req') = n + 1
      /\ req'[n + 1] = q /\ \A s \in 1..n : req'[s] = req[s]
  BY <1>0, <1>1, <1>2, Appended
<1>4. turns \in Seq(TurnItem) /\ Len(turns) = Len(hist) + 1 /\ \A k \in 1..Len(hist) : turns[k] = hist[k]
  <2>1. Open(0) \in TurnItem
    BY DEF Open, TurnItem
  <2>. QED
    BY <1>2, <2>1, AppendProperties
<1>5. q.st = "new" /\ q.turns = turns /\ q.st \notin WentOut
  BY DEF WentOut
<1>. HIDE DEF q, turns
<1>6. /\ Active(n + 1)' /\ \A s \in 1..n : Active(s)' = Active(s)
      /\ \A s \in DOMAIN req' : s = n + 1 \/ s \in 1..n
  BY <1>3, <1>5 DEF Active
<1>7. Remembers' /\ Tab' = Tab /\ lost' = lost /\ known' = known
  BY <1>1, <1>2, MemoryKept
<1>8. Judging' /\ Formed'
  <2>1. Judging'
    BY <1>2, <1>3, <1>5, <1>6, <1>7 DEF Judging
  <2>2. \A s \in DOMAIN req' : Active(s)' /\ req'[s].st # "new" => FormsIn(req'[s].turns, req'[s].fwd)
    BY <1>2, <1>3, <1>5, <1>6 DEF Formed
  <2>. QED
    BY <1>1, <1>2, <2>1, <2>2 DEF Formed
<1>9. Pasts'
  <2>1. /\ DOMAIN req \subseteq DOMAIN req' /\ \A s \in DOMAIN req : ~Active(s) => ~(Active(s)')
        /\ prod' = prod /\ removed \subseteq removed' /\ hist' = hist
    BY <1>1, <1>3, <1>6
  <2>2. Past(hist, Len(hist))'
    <3>1. PICK h, m : h = hist /\ m = Len(hist)
      OBVIOUS
    <3>2. Past(h, m)
      BY <1>2, <3>1 DEF Unheard, Pasts
    <3>3. Past(h, m)'
      BY <2>1, <3>2, PastGrows
    <3>. QED
      BY <2>1, <3>1, <3>3 DEF Past
  <2>3. ASSUME NEW s \in 1..n, Active(s)' PROVE Past(req[s].turns, Len(req[s].turns) - 1)'
    <3>1. PICK h, m : h = req[s].turns /\ m = Len(req[s].turns) - 1
      OBVIOUS
    <3>2. Past(h, m)
      BY <1>2, <1>3, <1>6, <2>3, <3>1 DEF Unheard, Pasts
    <3>3. Past(h, m)'
      BY <2>1, <3>2, PastGrows
    <3>4. req'[s] = req[s]
      BY <1>3
    <3>. QED
      BY <3>1, <3>3, <3>4 DEF Past
  <2>4. Past(req[n + 1].turns, Len(req[n + 1].turns) - 1)'
    <3>1. PICK h, m : h = hist /\ m = Len(hist)
      OBVIOUS
    <3>2. PICK t : t = turns
      OBVIOUS
    <3>3. Past(h, m) /\ \A k \in 1..m : t[k] = h[k]
      BY <1>2, <1>4, <3>1, <3>2 DEF Unheard, Pasts
    <3>4. Past(t, m)'
      BY <2>1, <3>3, PastGrows
    <3>5. req'[n + 1].turns = t /\ Len(t) - 1 = m
      BY <1>2, <1>3, <1>4, <1>5, <3>1, <3>2
    <3>. QED
      BY <3>4, <3>5 DEF Past
  <2>. QED
    BY <1>3, <1>6, <2>1, <2>2, <2>3, <2>4 DEF Pasts
<1>10. Booked'
  <2>1. \A s \in DOMAIN req' : Active(s)' /\ req'[s].st \in WentOut =>
          /\ {"remove", "iters"} \subseteq DOMAIN req'[s]
          /\ 2 * s \in DOMAIN prod' /\ prod'[2 * s].o = Asked(req'[s].turns)
          /\ req'[s].iters # 0 /\ req'[s].st = "posted" => 2 * s + 1 \in removed'
    BY <1>1, <1>2, <1>3, <1>5, <1>6 DEF Unheard, Booked
  <2>. QED
    BY <1>1, <1>2, <1>3, <2>1 DEF Unheard, Booked
<1>11. Later'
  <2>1. \A k \in DOMAIN hist, s \in 1..n : Active(s)' /\ s > hist[k].a => Len(req'[s].turns) > k
    BY <1>2, <1>3, <1>6 DEF Unheard, Later
  <2>2. \A k \in DOMAIN hist : Len(req'[n + 1].turns) > k
    BY <1>2, <1>3, <1>4, <1>5
  <2>. QED
    BY <1>1, <1>6, <2>1, <2>2 DEF Later
<1>12. Aged'
  BY <1>1, <1>2 DEF Unheard, Aged
<1>13. Same'
  <2>. SUFFICES ASSUME NEW s \in DOMAIN req', NEW k \in DOMAIN hist, Active(s)', k < Len(req'[s].turns),
                       req'[s].turns[k].a = hist[k].a, Unedited(hist, k)
                PROVE  Unedited(req'[s].turns, k)
    BY <1>1 DEF Same, Unedited
  <2>1. CASE s = n + 1
    <3>1. turns[k] = hist[k] /\ k \in 1..Len(hist) /\ k <= Len(turns)
      BY <1>2, <1>4
    <3>2. /\ \A e \in 1..k : hist[e].u = turns[e].u
          /\ \A e \in 1..(k - 1) : hist[e].a = turns[e].a
      BY <1>2, <1>4
    <3>3. ClientPrefix(hist, k) = ClientPrefix(turns, k)
      BY <1>2, <1>4, <3>1, <3>2, SamePrefix
    <3>4. req'[s].turns = turns
      BY <1>3, <1>5, <2>1
    <3>. QED
      BY <3>1, <3>3, <3>4 DEF Unedited
  <2>2. CASE s \in 1..n
    BY <1>2, <1>3, <1>6, <2>2 DEF Unheard, Same
  <2>. QED
    BY <1>6, <2>1, <2>2
<1>14. RecordsKept'
  <2>1. req'[live'].st \notin WentOut
    BY <1>1, <1>3, <1>5
  <2>2. ~lost => /\ \A k \in DOMAIN hist : Unedited(hist, k) => RecordOK(hist[k].a)
                 /\ \A b \in DOMAIN Tab.blk : \E a \in DOMAIN req : ~Active(a) /\ b \in {2 * a, 2 * a + 1}
    BY <1>2 DEF Unheard, RecordsKept
  <2>3. ~lost => \A k \in DOMAIN hist' : Unedited(hist, k)' => RecordOK(hist[k].a)'
    <3>1. \A k \in DOMAIN hist : Unedited(hist, k)' = Unedited(hist, k)
      BY <1>1 DEF Unedited
    <3>. QED
      BY <1>1, <1>7, <2>2, <3>1 DEF RecordOK
  <2>4. ~lost => \A b \in DOMAIN Tab'.blk :
                   \E a \in DOMAIN req' : ~(Active(a)') /\ b \in {2 * a, 2 * a + 1}
    <3>1. \A a \in DOMAIN req : ~Active(a) => a \in DOMAIN req' /\ ~(Active(a)')
      BY <1>3, <1>6
    <3>. QED
      BY <1>7, <2>2, <3>1
  <2>. QED
    BY <1>7, <2>1, <2>3, <2>4 DEF RecordsKept
<1>15. Accepting'
  <2>1. req'[live'].st \notin WentOut
    BY <1>1, <1>3, <1>5
  <2>. QED
    BY <2>1 DEF Accepting
<1>. QED
  BY <1>7, <1>8, <1>9, <1>10, <1>11, <1>12, <1>13, <1>14, <1>15 DEF AcceptInv

\* The history gets shorter, or a message of it changes for good.
LEMMA HistoryMoves ==
  ASSUME GuardInv, GuardInv', AcceptInv, live = 0, live' = 0, UNCHANGED <<guardVars, req, lin, prod, removed>>,
         DOMAIN hist' \subseteq DOMAIN hist,
         \A k \in DOMAIN hist' : /\ hist'[k].a = hist[k].a /\ hist'[k].x = hist[k].x
                                 /\ hist[k].u <= hist'[k].u
                                 /\ Unedited(hist, k)' => Unedited(hist, k)
  PROVE  AcceptInv'
<1>1. /\ hist \in Seq(TurnItem) /\ hist' \in Seq(TurnItem) /\ Len(hist) \in Nat /\ Len(hist') \in Nat
      /\ DOMAIN hist = 1..Len(hist) /\ DOMAIN hist' = 1..Len(hist')
      /\ Remembers /\ Judging /\ Formed /\ Unheard
  BY TheParts, LenProperties DEF GuardInv, ClientOK
<1>2. Remembers' /\ Tab' = Tab /\ lost' = lost /\ known' = known
  BY <1>1, MemoryKept
<1>3. Judging' /\ Formed'
  BY <1>1, <1>2 DEF Judging, Formed, Active
<1>4. \A s : Active(s)' = Active(s)
  BY DEF Active
<1>5. Pasts'
  <2>1. Past(hist, Len(hist))'
    <3>1. PICK h, m : h = hist /\ m = Len(hist')
      OBVIOUS
    <3>2. PICK g : g = hist'
      OBVIOUS
    <3>3. Past(h, m) /\ \A k \in 1..m : g[k].a = h[k].a /\ g[k].x = h[k].x
      BY <1>1, <3>1, <3>2 DEF Unheard, Pasts, Past
    <3>4. Past(g, m)'
      BY <1>4, <3>3, PastGrows
    <3>. QED
      BY <3>1, <3>2, <3>4 DEF Past
  <2>2. \A s \in DOMAIN req : Active(s) => Past(req[s].turns, Len(req[s].turns) - 1)'
    BY <1>1, <1>4 DEF Unheard, Pasts, Past
  <2>. QED
    BY <1>4, <2>1, <2>2 DEF Pasts
<1>6. Booked'
  BY <1>1, <1>4 DEF Unheard, Booked
<1>7. Later'
  BY <1>1, <1>4 DEF Unheard, Later
<1>8. Aged'
  <2>. SUFFICES ASSUME NEW k \in DOMAIN hist', NEW e \in 1..k
                PROVE prod'[2 * hist'[k].a].o[2 * e][1] \in 0..hist'[e].u
    BY DEF Aged
  <2>1. k \in DOMAIN hist /\ e \in DOMAIN hist' /\ hist'[k].a = hist[k].a /\ hist[e].u <= hist'[e].u
    BY <1>1
  <2>2. PICK was : was = prod[2 * hist[k].a].o[2 * e][1]
    OBVIOUS
  <2>3. was \in 0..hist[e].u
    BY <1>1, <2>1, <2>2 DEF Unheard, Aged
  <2>4. hist[e] \in TurnItem /\ hist'[e] \in TurnItem
    BY <1>1, <2>1, ElementOfSeq
  <2>5. was \in 0..hist'[e].u
    BY <2>1, <2>3, <2>4 DEF TurnItem
  <2>. QED
    BY <2>1, <2>2, <2>5
<1>9. Same'
  <2>. SUFFICES ASSUME NEW s \in DOMAIN req, NEW k \in DOMAIN hist', Active(s), k < Len(req[s].turns),
                       req[s].turns[k].a = hist'[k].a, Unedited(hist, k)'
                PROVE  Unedited(req[s].turns, k)
    BY <1>4 DEF Same, Unedited
  <2>1. k \in DOMAIN hist /\ hist'[k].a = hist[k].a /\ Unedited(hist, k)
    OBVIOUS
  <2>. QED
    BY <1>1, <2>1 DEF Unheard, Same
<1>10. RecordsKept'
  <2>1. ~lost => \A k \in DOMAIN hist : Unedited(hist, k) => RecordOK(hist[k].a)
    BY <1>1 DEF Unheard, RecordsKept
  <2>2. ~lost => \A k \in DOMAIN hist' : Unedited(hist, k)' => RecordOK(hist[k].a)'
    BY <1>2, <2>1 DEF RecordOK
  <2>3. ~lost => \A b \in DOMAIN Tab'.blk :
                   \E a \in DOMAIN req' : ~(Active(a)') /\ b \in {2 * a, 2 * a + 1}
    BY <1>1, <1>2, <1>4 DEF Unheard, RecordsKept
  <2>. QED
    BY <1>2, <2>2, <2>3 DEF RecordsKept
<1>11. Accepting'
  BY DEF Accepting
<1>. QED
  BY <1>2, <1>3, <1>5, <1>6, <1>7, <1>8, <1>9, <1>10, <1>11 DEF AcceptInv

LEMMA RegenerateAccepts ==
  ASSUME GuardInv, GuardInv', AcceptInv, NEW k \in 0..(Len(hist) - 1), Regenerate(k)
  PROVE  AcceptInv'
<1>1. /\ live = 0 /\ live' = 0 /\ hist' = SubSeq(hist, 1, k)
      /\ UNCHANGED <<guardVars, req, lin, prod, removed>>
  BY DEF Regenerate, provider
<1>2. /\ hist \in Seq(TurnItem) /\ hist' \in Seq(TurnItem) /\ Len(hist) \in Nat /\ DOMAIN hist = 1..Len(hist)
  BY LenProperties DEF GuardInv, ClientOK
<1>3. DOMAIN hist' = 1..k /\ Len(hist') = k /\ \A i \in 1..k : hist'[i] = hist[i]
  <2>1. \A i \in 1..k : hist[i] \in TurnItem
    BY <1>2, ElementOfSeq
  <2>2. /\ Len(SubSeq(hist, 1, k)) = k
        /\ \A i \in 1..k : SubSeq(hist, 1, k)[i] = hist[i]
    BY <1>2, <2>1, SubSeqProperties
  <2>. QED
    BY <1>1, <1>2, <2>2, LenProperties
<1>4. ASSUME NEW j \in 1..k PROVE Unedited(hist, j)' => Unedited(hist, j)
  <2>1. PICK h \in Seq(TurnItem) : h = hist'
    BY <1>2
  <2>2. ClientPrefix(h, j) = ClientPrefix(hist, j)
    <3>1. Len(h) = k /\ j \in 1..Len(h) /\ j <= Len(hist)
      BY <1>2, <1>3, <2>1
    <3>2. (\A e \in 1..j : h[e].u = hist[e].u) /\ (\A e \in 1..(j - 1) : h[e].a = hist[e].a)
      BY <1>3, <2>1
    <3>. QED
      BY <1>2, <3>1, <3>2, SamePrefix
  <2>3. h[j].a = hist[j].a
    BY <1>3, <2>1
  <2>. QED
    BY <1>1, <2>1, <2>2, <2>3 DEF Unedited
<1>5. \A j \in 1..k : j \in DOMAIN hist /\ hist[j].u <= hist'[j].u
  <2>. TAKE j \in 1..k
  <2>1. j \in DOMAIN hist /\ hist[j] \in TurnItem
    BY <1>2, ElementOfSeq
  <2>. QED
    BY <1>3, <2>1 DEF TurnItem
<1>. QED
  BY <1>1, <1>3, <1>4, <1>5, HistoryMoves

LEMMA EditAccepts ==
  ASSUME GuardInv, GuardInv', AcceptInv, NEW k \in 1..Len(hist), Edit(k)
  PROVE  AcceptInv'
<1>. DEFINE turn == [hist[k] EXCEPT !.u = @ + 1]
<1>1. /\ live = 0 /\ live' = 0 /\ hist' = [hist EXCEPT ![k] = turn]
      /\ UNCHANGED <<guardVars, req, lin, prod, removed>>
  BY LenProperties DEF Edit, provider, GuardInv, ClientOK
<1>2. /\ hist \in Seq(TurnItem) /\ hist' \in Seq(TurnItem) /\ Len(hist) \in Nat /\ DOMAIN hist = 1..Len(hist)
      /\ hist[k] \in TurnItem
  BY LenProperties, ElementOfSeq DEF GuardInv, ClientOK
<1>3. turn.u = hist[k].u + 1 /\ turn.a = hist[k].a /\ turn.x = hist[k].x /\ hist[k].u \in Nat
  BY <1>2 DEF TurnItem
<1>. HIDE DEF turn
<1>4. /\ DOMAIN hist' = DOMAIN hist /\ Len(hist') = Len(hist) /\ hist'[k] = turn
      /\ \A i \in DOMAIN hist \ {k} : hist'[i] = hist[i]
  BY <1>1, <1>2, LenProperties
<1>5. ASSUME NEW j \in DOMAIN hist
      PROVE hist'[j].a = hist[j].a /\ hist'[j].x = hist[j].x /\ hist[j].u <= hist'[j].u
  <2>1. CASE j = k
    BY <1>3, <1>4, <2>1
  <2>2. CASE j # k
    <3>1. hist[j] \in TurnItem
      BY <1>2, ElementOfSeq
    <3>. QED
      BY <1>4, <2>2, <3>1 DEF TurnItem
  <2>. QED
    BY <2>1, <2>2
<1>6. ASSUME NEW j \in DOMAIN hist PROVE Unedited(hist, j)' => Unedited(hist, j)
  <2>1. PICK h \in Seq(TurnItem) : h = hist'
    BY <1>2
  <2>2. CASE j < k
    <3>1. ClientPrefix(h, j) = ClientPrefix(hist, j)
      <4>1. j \in 1..Len(h) /\ j <= Len(hist)
        BY <1>2, <1>4, <2>1
      <4>2. (\A e \in 1..j : h[e].u = hist[e].u) /\ (\A e \in 1..(j - 1) : h[e].a = hist[e].a)
        BY <1>2, <1>4, <2>1, <2>2
      <4>. QED
        BY <1>2, <4>1, <4>2, SamePrefix
    <3>. QED
      BY <1>1, <1>5, <2>1, <3>1 DEF Unedited
  <2>3. CASE j >= k
    <3>. SUFFICES ASSUME Unedited(hist, j)' PROVE FALSE
      OBVIOUS
    <3>1. PICK o : o = prod[2 * hist[j].a].o
      OBVIOUS
    <3>2. ClientPrefix(h, j) = o
      BY <1>1, <1>5, <2>1, <3>1 DEF Unedited
    <3>3. j \in 1..Len(h) /\ k \in 1..j
      BY <1>2, <1>4, <2>1, <2>3
    <3>4. PICK i \in Nat : i = 2 * k
      BY <1>2
    <3>5. o[i] = <<h[k].u, "raw">>
      BY <3>2, <3>3, <3>4, TheClientPrefix
    <3>6. o[i][1] \in 0..hist[k].u
      BY <3>1, <3>3, <3>4 DEF AcceptInv, Aged
    <3>7. h[k].u = hist[k].u + 1
      BY <1>3, <1>4, <2>1
    <3>. QED
      BY <1>3, <3>5, <3>6, <3>7
  <2>. QED
    BY <1>2, <2>2, <2>3
<1>. QED
  BY <1>1, <1>4, <1>5, <1>6, HistoryMoves

-----------------------------------------------------------------------------
(* The client gets its answer.                                             *)

\* The client's new history: the turns of the request, the last one answered.
LEMMA Relayed ==
  ASSUME GuardInv, NEW r \in DOMAIN req, Active(r), Relay(r), live = r,
         NEW turns, turns = req[r].turns, NEW n, n = Len(turns)
  PROVE  \E x \in {"plain", "spliced", "requeried"} :
           /\ x # "plain" => req[r].iters # 0
           /\ n = Len(hist) + 1 /\ \A k \in 1..Len(hist) : turns[k] = hist[k]
           /\ DOMAIN hist' = 1..n /\ Len(hist') = n /\ hist'[n].a = r /\ hist'[n].x = x
           /\ hist'[n].u = turns[n].u /\ turns[n] \in TurnItem
           /\ \A k \in 1..Len(hist) : hist'[k] = hist[k]
<1>1. turns \in Seq(TurnItem) /\ turns # << >>
  BY OpenRequest
<1>2. PICK x \in {"plain", "spliced", "requeried"} :
        /\ hist' = [turns EXCEPT ![n].a = r, ![n].x = x]
        /\ x # "plain" => req[r].iters # 0
  BY DEF Relay
<1>3. /\ hist \in Seq(TurnItem) /\ Len(hist) \in Nat /\ r \in Nat \ {0}
  BY LenProperties DEF GuardInv, ClientOK, RequestsOK, IsSeq
<1>4. /\ n = Len(hist) + 1 /\ \A k \in 1..Len(hist) : turns[k] = hist[k]
  <2>1. Open(0) \in TurnItem
    BY DEF Open, TurnItem
  <2>2. turns = Append(hist, Open(0))
    BY <1>3 DEF GuardInv, ClientOK
  <2>. QED
    BY <1>3, <2>1, <2>2, AppendProperties, LenProperties
<1>5. /\ DOMAIN hist' = 1..n /\ Len(hist') = n /\ hist'[n].a = r /\ hist'[n].x = x /\ hist'[n].u = turns[n].u
      /\ turns[n] \in TurnItem /\ \A k \in 1..Len(hist) : hist'[k] = hist[k]
  <2>. DEFINE last == [[turns[n] EXCEPT !.a = r] EXCEPT !.x = x]
  <2>0. n \in 1..Len(turns) /\ n \in Nat
    BY <1>3, <1>4
  <2>1. n \in 1..Len(turns) /\ turns[n] \in TurnItem
    <3>. HIDE DEF last
    <3>. QED
      BY <1>1, <2>0, ElementOfSeq
  <2>2. last.a = r /\ last.x = x /\ last.u = turns[n].u /\ last \in TurnItem
    BY <1>3, <2>1 DEF TurnItem
  <2>3. hist' = [turns EXCEPT ![n] = last]
    BY <1>1, <1>2, <2>1, LenProperties
  <2>. HIDE DEF last
  <2>4. /\ [turns EXCEPT ![n] = last] \in Seq(TurnItem) /\ Len([turns EXCEPT ![n] = last]) = n
        /\ \A k \in 1..n : [turns EXCEPT ![n] = last][k] = IF k = n THEN last ELSE turns[k]
    BY <1>1, <2>1, <2>2, ExceptSeq
  <2>5. DOMAIN hist' = 1..n /\ Len(hist') = n
    BY <2>3, <2>4, LenProperties
  <2>6. hist'[n] = last /\ \A k \in 1..Len(hist) : hist'[k] = hist[k]
    BY <1>3, <1>4, <2>3, <2>4
  <2>. QED
    BY <2>1, <2>2, <2>5, <2>6
<1>. QED
  BY <1>2, <1>4, <1>5

LEMMA RelayAccepts ==
  ASSUME GuardInv, GuardInv', AcceptInv, NEW r \in DOMAIN req, Active(r), Relay(r), live = r
  PROVE  AcceptInv'
<1>0. PICK turns \in Seq(TurnItem) : turns = req[r].turns /\ turns # << >>
  BY OpenRequest
<1>. DEFINE n == Len(turns)
<1>1. PICK x \in {"plain", "spliced", "requeried"} :
        /\ x # "plain" => req[r].iters # 0
        /\ n = Len(hist) + 1 /\ \A k \in 1..Len(hist) : turns[k] = hist[k]
        /\ DOMAIN hist' = 1..n /\ Len(hist') = n /\ hist'[n].a = r /\ hist'[n].x = x
        /\ hist'[n].u = turns[n].u /\ turns[n] \in TurnItem
        /\ \A k \in 1..Len(hist) : hist'[k] = hist[k]
  BY <1>0, Relayed
<1>2. /\ req' = [req EXCEPT ![r] = Idle] /\ live' = 0 /\ req[r].st = "posted"
      /\ UNCHANGED <<guardVars, lin, prod, removed>>
  BY DEF Relay, provider
<1>3. /\ hist \in Seq(TurnItem) /\ hist' \in Seq(TurnItem) /\ Len(hist) \in Nat /\ DOMAIN hist = 1..Len(hist)
      /\ Remembers /\ Judging /\ Formed /\ Unheard
  BY TheParts, LenProperties DEF GuardInv, ClientOK
<1>4. r \in Nat \ {0} /\ r = Len(req) /\ DOMAIN req = 1..r
  BY <1>3, LenProperties DEF GuardInv, RequestsOK, IsSeq, Unheard, Booked
<1>5. n = Len(hist) + 1 /\ \A k \in 1..Len(hist) : turns[k] = hist[k]
  BY <1>1
<1>6. /\ DOMAIN hist' = 1..n /\ Len(hist') = n /\ hist'[n].a = r /\ hist'[n].x = x /\ hist'[n].u = turns[n].u
      /\ turns[n] \in TurnItem /\ \A k \in 1..Len(hist) : hist'[k] = hist[k]
  BY <1>1
<1>. HIDE DEF n
<1>7. \A k \in 1..n : k = n \/ k \in 1..Len(hist)
  BY <1>3, <1>5
<1>8. /\ DOMAIN req' = DOMAIN req /\ ~(Active(r)') /\ Ends
      /\ \A s \in DOMAIN req \ {r} : req'[s] = req[s] /\ Active(s)' = Active(s)
  BY <1>2, OneEnds
<1>9. /\ \A s \in DOMAIN req : Active(s)' => Active(s) /\ req'[s] = req[s] /\ s # r /\ s < r
      /\ \A s \in DOMAIN req : ~Active(s) => ~(Active(s)')
  BY <1>4, <1>8
<1>10. Remembers' /\ Tab' = Tab /\ lost' = lost /\ known' = known
  BY <1>2, <1>3, MemoryKept
<1>11. Judging' /\ Formed'
  BY <1>2, <1>3, <1>8, <1>9, <1>10, JudgingKept, FormedKept
<1>12. /\ 2 * r \in DOMAIN prod /\ prod[2 * r].o = Asked(turns)
       /\ x # "plain" => 2 * r + 1 \in removed
  BY <1>0, <1>1, <1>2, <1>3 DEF Unheard, Booked, WentOut
<1>13. n \in 1..Len(turns) /\ n \in Nat \ {0} /\ Asked(turns) = ClientPrefix(turns, n)
  BY <1>3, <1>5 DEF Asked, n
<1>14. Pasts'
  <2>1. /\ DOMAIN req \subseteq DOMAIN req' /\ prod' = prod /\ removed \subseteq removed'
        /\ \A s \in DOMAIN req : ~Active(s) => ~(Active(s)')
    BY <1>2, <1>8, <1>9
  <2>2. PICK g, m : g = hist' /\ m = Len(hist)
    OBVIOUS
  <2>3. Past(g, m)'
    <3>1. PICK h : h = hist
      OBVIOUS
    <3>2. Past(h, m) /\ \A k \in 1..m : g[k].a = h[k].a /\ g[k].x = h[k].x
      BY <1>3, <1>6, <2>2, <3>1 DEF Unheard, Pasts
    <3>. QED
      BY <2>1, <3>2, PastGrows
  <2>4. /\ r \in DOMAIN req' /\ ~(Active(r)') /\ 2 * r \in DOMAIN prod' /\ Len(prod'[2 * r].o) = 2 * n
        /\ x # "plain" => 2 * r + 1 \in removed'
    BY <1>2, <1>8, <1>12, <1>13, TheClientPrefix
  <2>5. Past(hist, Len(hist))'
    <3>1. ASSUME NEW k \in 1..n
          PROVE LET a == g[k].a
                IN /\ a \in DOMAIN req' /\ ~(Active(a)') /\ 2 * a \in DOMAIN prod' /\ Len(prod'[2 * a].o) = 2 * k
                   /\ g[k].x # "plain" => 2 * a + 1 \in removed'
      <4>1. CASE k = n
        BY <1>6, <2>2, <2>4, <4>1
      <4>2. CASE k \in 1..m
        BY <2>3, <4>2 DEF Past
      <4>. QED
        BY <1>7, <2>2, <4>1, <4>2
    <3>. QED
      BY <1>6, <2>2, <3>1 DEF Past
  <2>6. ASSUME NEW s \in DOMAIN req, Active(s)' PROVE Past(req[s].turns, Len(req[s].turns) - 1)'
    <3>1. PICK h, l : h = req[s].turns /\ l = Len(req[s].turns) - 1
      OBVIOUS
    <3>2. Past(h, l)
      BY <1>3, <1>9, <2>6, <3>1 DEF Unheard, Pasts
    <3>3. Past(h, l)'
      BY <2>1, <3>2, PastGrows
    <3>4. req'[s] = req[s]
      BY <1>9, <2>6
    <3>. QED
      BY <3>1, <3>3, <3>4 DEF Past
  <2>. QED
    BY <1>8, <2>5, <2>6 DEF Pasts
<1>15. Booked'
  <2>1. \A s \in DOMAIN req : Active(s)' /\ req'[s].st \in WentOut =>
          /\ {"remove", "iters"} \subseteq DOMAIN req'[s]
          /\ 2 * s \in DOMAIN prod' /\ prod'[2 * s].o = Asked(req'[s].turns)
          /\ req'[s].iters # 0 /\ req'[s].st = "posted" => 2 * s + 1 \in removed'
    BY <1>2, <1>3, <1>9 DEF Unheard, Booked
  <2>. QED
    BY <1>2, <1>3, <1>8, <2>1 DEF Unheard, Booked
<1>16. Later'
  <2>. SUFFICES ASSUME NEW k \in 1..n, NEW s \in DOMAIN req, Active(s)', s > hist'[k].a
                PROVE Len(req'[s].turns) > k
    BY <1>6, <1>8 DEF Later
  <2>1. CASE k = n
    BY <1>4, <1>6, <1>9, <2>1
  <2>2. CASE k \in 1..Len(hist)
    <3>1. hist'[k].a = hist[k].a /\ Active(s) /\ req'[s] = req[s]
      BY <1>6, <1>9, <2>2
    <3>. QED
      BY <1>3, <2>2, <3>1 DEF Unheard, Later
  <2>. QED
    BY <1>7, <2>1, <2>2
<1>17. Aged'
  <2>. SUFFICES ASSUME NEW k \in 1..n, NEW e \in 1..k
                PROVE prod'[2 * hist'[k].a].o[2 * e][1] \in 0..hist'[e].u
    BY <1>6 DEF Aged
  <2>1. e \in 1..n
    BY <1>13
  <2>2. hist'[e].u = turns[e].u /\ turns[e].u \in Nat
    <3>1. turns[e] \in TurnItem
      BY <1>0, <2>1, ElementOfSeq DEF n
    <3>. QED
      BY <1>5, <1>6, <1>7, <2>1, <3>1 DEF TurnItem
  <2>3. CASE k = n
    <3>1. PICK i \in Nat : i = 2 * e
      BY <2>1, <1>13
    <3>2. ClientPrefix(turns, n)[i] = <<turns[e].u, "raw">>
      BY <1>13, <2>1, <3>1, TheClientPrefix
    <3>3. prod'[2 * hist'[k].a].o = ClientPrefix(turns, n)
      BY <1>2, <1>6, <1>12, <1>13, <2>3
    <3>. QED
      BY <2>2, <3>1, <3>2, <3>3
  <2>4. CASE k \in 1..Len(hist)
    <3>1. e \in 1..Len(hist)
      BY <1>3, <2>4
    <3>2. hist'[k].a = hist[k].a /\ hist'[e].u = hist[e].u /\ prod' = prod
      BY <1>2, <1>6, <2>4, <3>1
    <3>3. prod[2 * hist[k].a].o[2 * e][1] \in 0..hist[e].u
      BY <1>3, <2>4 DEF Unheard, Aged
    <3>. QED
      BY <3>2, <3>3
  <2>. QED
    BY <1>7, <2>3, <2>4
<1>18. ASSUME NEW k \in 1..Len(hist) PROVE Unedited(hist, k)' = Unedited(hist, k)
  <2>1. PICK h \in Seq(TurnItem) : h = hist'
    BY <1>3
  <2>2. k \in 1..Len(h) /\ k <= Len(hist) /\ Len(h) = n
    BY <1>3, <1>5, <1>6, <2>1
  <2>3. (\A e \in 1..k : h[e].u = hist[e].u) /\ (\A e \in 1..(k - 1) : h[e].a = hist[e].a)
    BY <1>3, <1>6, <2>1
  <2>4. ClientPrefix(h, k) = ClientPrefix(hist, k)
    BY <1>3, <2>2, <2>3, SamePrefix
  <2>5. h[k].a = hist[k].a
    BY <1>6, <2>1
  <2>. QED
    BY <1>2, <2>1, <2>4, <2>5 DEF Unedited
<1>19. Same'
  <2>. SUFFICES ASSUME NEW s \in DOMAIN req, NEW k \in 1..n, Active(s)', k < Len(req[s].turns),
                       req[s].turns[k].a = hist'[k].a, Unedited(hist, k)'
                PROVE  Unedited(req[s].turns, k)
    BY <1>2, <1>6, <1>8, <1>9 DEF Same, Unedited
  <2>1. CASE k = n
    <3>1. Active(s) /\ req[s].turns[k].a = r /\ WellMade(req[s])
      BY <1>6, <1>9, <2>1, OpenRequest
    <3>2. k \in 1..(Len(req[s].turns) - 1)
      BY <1>13, <3>1, LenProperties DEF WellMade
    <3>3. ~Active(req[s].turns[k].a)
      BY <1>3, <3>1, <3>2 DEF Unheard, Pasts, Past
    <3>. QED
      BY <3>1, <3>3
  <2>2. CASE k \in 1..Len(hist)
    <3>1. hist'[k].a = hist[k].a /\ Unedited(hist, k) /\ Active(s)
      BY <1>6, <1>9, <1>18, <2>2
    <3>. QED
      BY <1>3, <2>2, <3>1 DEF Unheard, Same
  <2>. QED
    BY <1>7, <2>1, <2>2
<1>20. RecordsKept'
  <2>. SUFFICES ASSUME ~lost PROVE /\ \A k \in 1..n : Unedited(hist, k)' => RecordOK(hist[k].a)'
                                   /\ \A b \in DOMAIN Tab'.blk :
                                        \E a \in DOMAIN req : ~(Active(a)') /\ b \in {2 * a, 2 * a + 1}
    BY <1>2, <1>6, <1>8, <1>10 DEF RecordsKept
  <2>1. /\ \A k \in 1..Len(hist) : Unedited(hist, k) => RecordOK(hist[k].a)
        /\ RecordOK(r)
        /\ \A b \in DOMAIN Tab.blk : \E a \in DOMAIN req : ~Active(a) /\ b \in {2 * a, 2 * a + 1}
    BY <1>2, <1>3, <1>4 DEF Unheard, RecordsKept, WentOut
  <2>2. ASSUME NEW k \in 1..n, Unedited(hist, k)' PROVE RecordOK(hist[k].a)'
    <3>1. RecordOK(hist'[k].a)
      <4>1. CASE k = n
        BY <1>6, <2>1, <4>1
      <4>2. CASE k \in 1..Len(hist)
        BY <1>6, <1>18, <2>1, <2>2, <4>2
      <4>. QED
        BY <1>7, <4>1, <4>2
    <3>. QED
      BY <1>2, <1>10, <3>1 DEF RecordOK
  <2>. QED
    BY <1>9, <1>10, <2>1, <2>2
<1>21. Accepting'
  BY <1>2 DEF Accepting
<1>. QED
  BY <1>10, <1>11, <1>14, <1>15, <1>16, <1>17, <1>19, <1>20, <1>21 DEF AcceptInv

-----------------------------------------------------------------------------
(* A request goes out.                                                     *)

\* What Posted changes, and what it leaves to the other requests.
LEMMA PostedFrame ==
  ASSUME GuardInv, Unheard, NEW r \in DOMAIN req, Active(r), Posted(r)
  PROVE  LET q == req[r]
         IN /\ DOMAIN req' = DOMAIN req /\ req'[r].st = "posted" /\ req'[r].turns = q.turns
            /\ req'[r].fwd = q.fwd /\ req'[r].remove = q.verdict.remove
            /\ \A s \in DOMAIN req : s # r => req'[s] = req[s]
            /\ \A s \in DOMAIN req : Active(s)' = Active(s)
            /\ 2 * r \in DOMAIN prod'
            /\ prod'[2 * r] = [f |-> Full(q.turns, q.fwd), o |-> Asked(q.turns), p |-> q.verdict.prev]
            /\ \A b \in DOMAIN prod : b \notin {2 * r, 2 * r + 1} => b \in DOMAIN prod' /\ prod'[b] = prod[b]
            /\ Carries /\ Booked'
<1>. DEFINE q == req[r]
            f == Full(q.turns, q.fwd)
            o == Asked(q.turns)
            out == [st |-> "posted", p |-> q.p, turns |-> q.turns, fwd |-> q.fwd,
                    remove |-> q.verdict.remove, iters |-> 0]
            bound(b) == [f |-> IF b = 2 * r THEN f ELSE Append(f, <<-1>>), o |-> o, p |-> q.verdict.prev]
<1>1. /\ req' = [req EXCEPT ![r] = out] /\ req[r].st = "judged"
      /\ prod' = [b \in DOMAIN prod \cup {2 * r, 2 * r + 1} |->
                    IF b \in {2 * r, 2 * r + 1} THEN bound(b) ELSE prod[b]]
      /\ removed' = removed \cup q.verdict.remove /\ hist' = hist /\ live' = live
  BY DEF Posted, Full, Asked, clientVars
<1>2. /\ IsSeq(req) /\ IsSeq(req') /\ DOMAIN req \subseteq Nat \ {0} /\ DOMAIN req' = DOMAIN req
      /\ Len(req') = Len(req)
  <2>1. PICK S : req \in Seq(S)
    BY DEF GuardInv, RequestsOK, IsSeq
  <2>2. req \in Seq(S \cup {out})
    BY <2>1, SeqMonotonic
  <2>3. req' \in Seq(S \cup {out}) /\ Len(req') = Len(req)
    BY <1>1, <2>2, ExceptSeq
  <2>4. DOMAIN req = 1..Len(req) /\ Len(req) \in Nat
    BY <2>1, LenProperties
  <2>. QED
    BY <1>1, <2>1, <2>3, <2>4 DEF IsSeq
<1>3. req'[r] = out /\ \A s \in DOMAIN req : s # r => req'[s] = req[s]
  BY <1>1
<1>4. \A s \in DOMAIN req : Active(s)' = Active(s)
  BY <1>2, <1>3 DEF Active
<1>5. /\ q.turns \in Seq(TurnItem) /\ Len(q.turns) \in Nat \ {0}
  BY OpenRequest, LenProperties, EmptySeq
<1>6. IsSeq(f) /\ IsSeq(Append(f, <<-1>>))
  <2>1. IsSeq(f)
    BY <1>5, ThePrefix DEF Full
  <2>2. PICK S : f \in Seq(S)
    BY <2>1 DEF IsSeq
  <2>. HIDE DEF f
  <2>3. f \in Seq(S \cup {<<-1>>})
    BY <2>2, SeqMonotonic
  <2>. QED
    BY <2>1, <2>3, AppendProperties DEF IsSeq
<1>7. /\ 2 * r \in DOMAIN prod' /\ prod'[2 * r] = [f |-> f, o |-> o, p |-> q.verdict.prev]
      /\ \A b \in DOMAIN prod : b \notin {2 * r, 2 * r + 1} => b \in DOMAIN prod' /\ prod'[b] = prod[b]
      /\ \A b \in DOMAIN prod' : b \notin {2 * r, 2 * r + 1} => b \in DOMAIN prod
  BY <1>1
<1>8. \A b \in {2 * r, 2 * r + 1} : b \in DOMAIN prod' /\ prod'[b] = bound(b) /\ InBook(bound(b))
  BY <1>1, <1>6 DEF InBook
<1>. HIDE DEF f, o, bound
<1>9. Carries
  <2>1. \A s \in DOMAIN req : ~Active(s) /\ 2 * s \in DOMAIN prod =>
          2 * s \in DOMAIN prod' /\ prod'[2 * s] = prod[2 * s]
    <3>. SUFFICES ASSUME NEW s \in DOMAIN req, ~Active(s), 2 * s \in DOMAIN prod
                  PROVE 2 * s \in DOMAIN prod' /\ prod'[2 * s] = prod[2 * s]
      OBVIOUS
    <3>1. s # r /\ s \in Nat /\ r \in Nat
      BY <1>2
    <3>2. 2 * s \notin {2 * r, 2 * r + 1}
      BY <3>1
    <3>. QED
      BY <1>7, <3>2
  <2>2. \A s \in DOMAIN req : req'[s].turns = req[s].turns
    BY <1>3
  <2>. QED
    BY <1>1, <1>2, <1>4, <2>1, <2>2 DEF Carries
<1>10. Booked'
  <2>1. \A b \in DOMAIN prod' : InBook(prod'[b])
    BY <1>7, <1>8 DEF Unheard, Booked
  <2>2. live' # 0 => live' = Len(req')
    BY <1>1, <1>2 DEF Unheard, Booked
  <2>3. ASSUME NEW s \in DOMAIN req, Active(s)', req'[s].st \in WentOut
        PROVE /\ {"remove", "iters"} \subseteq DOMAIN req'[s]
              /\ 2 * s \in DOMAIN prod' /\ prod'[2 * s].o = Asked(req'[s].turns)
              /\ req'[s].iters # 0 /\ req'[s].st = "posted" => 2 * s + 1 \in removed'
    <3>1. CASE s = r
      BY <1>3, <1>7, <3>1 DEF o
    <3>2. CASE s # r
      <4>1. /\ req'[s] = req[s] /\ {"remove", "iters"} \subseteq DOMAIN req[s]
            /\ 2 * s \in DOMAIN prod /\ prod[2 * s].o = Asked(req[s].turns)
            /\ req[s].iters # 0 /\ req[s].st = "posted" => 2 * s + 1 \in removed
        BY <1>3, <1>4, <2>3, <3>2 DEF Unheard, Booked
      <4>2. 2 * s \notin {2 * r, 2 * r + 1}
        BY <1>2, <3>2
      <4>3. 2 * s \in DOMAIN prod' /\ prod'[2 * s] = prod[2 * s]
        BY <1>7, <4>1, <4>2
      <4>. QED
        BY <1>1, <4>1, <4>3
    <3>. QED
      BY <3>1, <3>2
  <2>. QED
    BY <1>2, <2>1, <2>2, <2>3 DEF Booked
<1>. QED
  BY <1>1, <1>2, <1>3, <1>4, <1>7, <1>9, <1>10 DEF f, o

\* The lock is released, and the other workers' verdicts are left alone.
LEMMA PostedKept ==
  ASSUME GuardInv, AcceptInv, NEW r \in DOMAIN req, Active(r), Posted(r),
         \A p \in Proc \ {req[r].p} : known'[p] = known[p]
  PROVE  Judging' /\ Formed' /\ Pasts' /\ Booked' /\ Later' /\ Aged' /\ Same'
<1>1. /\ req[r].st = "judged" /\ lin' = lin
  BY DEF Posted
<1>2. Judging /\ Formed /\ Unheard
  BY TheParts
<1>3. /\ DOMAIN req' = DOMAIN req /\ Carries /\ Booked'
      /\ req'[r].st = "posted" /\ req'[r].turns = req[r].turns /\ req'[r].fwd = req[r].fwd
      /\ \A s \in DOMAIN req : s # r => req'[s] = req[s]
      /\ \A s \in DOMAIN req : Active(s)' = Active(s)
  BY <1>2, PostedFrame
<1>4. Judging'
  <2>1. ASSUME NEW s \in DOMAIN req, Active(s)', req'[s].st = "judged"
        PROVE Active(s) /\ req'[s] = req[s] /\ known'[req[s].p] = known[req[s].p]
    <3>1. s # r /\ Active(s) /\ req'[s] = req[s]
      BY <1>3, <2>1
    <3>2. Holds(s) /\ Holds(r)
      BY <1>1, <2>1, <3>1 DEF Holds
    <3>3. req[s].p # req[r].p
      BY <3>1, <3>2 DEF GuardInv, OneHolds
    <3>4. req[s].p \in Proc
      BY <3>1, OpenRequest
    <3>. QED
      BY <3>1, <3>3, <3>4
  <2>. QED
    BY <1>2, <1>3, <2>1, JudgingKept
<1>5. Formed'
  <2>1. \A s \in DOMAIN req : Active(s)' /\ req'[s].st # "new" =>
          /\ Active(s) /\ req[s].st # "new"
          /\ req'[s].turns = req[s].turns /\ req'[s].fwd = req[s].fwd
    BY <1>1, <1>3
  <2>. QED
    BY <1>1, <1>2, <1>3, <2>1, FormedKept
<1>6. Pasts' /\ Later' /\ Aged' /\ Same'
  BY <1>2, <1>3, CarriedOn DEF Unheard
<1>. QED
  BY <1>3, <1>4, <1>5, <1>6

\* What the journal says once the records of a request are appended.
LEMMA Saved ==
  ASSUME GuardInv, AcceptInv, NEW r \in DOMAIN req, Active(r), Forward(r), ~lost'
  PROVE  LET q == req[r]
             places == Places(q.turns, q.fwd)
             o == Asked(q.turns)
         IN /\ Remembers' /\ ~lost /\ ~Late(r) /\ removed \subseteq Tab.out
            /\ q.verdict.prev = LastBlock(Judged(Tab, places).stay)
            /\ q.verdict.remove = {pl.b : pl \in places \ Judged(Tab, places).stay}
            /\ DOMAIN Tab'.asked = DOMAIN Tab.asked \cup {o}
            /\ Tab'.asked[o] = [f |-> Full(q.turns, q.fwd), p |-> q.verdict.prev]
            /\ \A key \in DOMAIN Tab.asked : key # o => Tab'.asked[key] = Tab.asked[key]
            /\ \A b \in DOMAIN Tab.blk : b \in DOMAIN Tab'.blk /\ Tab'.blk[b] = Tab.blk[b]
            /\ \A b \in DOMAIN Tab'.blk : b \notin DOMAIN Tab.blk =>
                 \E pl \in places : pl.b = b /\ pl.base \in DOMAIN Tab.asked /\ Tab'.blk[b] = Infer(Tab, pl)
<1>. DEFINE q == req[r]
            p == q.p
            v == q.verdict
            places == Places(q.turns, q.fwd)
            o == Asked(q.turns)
            f == Full(q.turns, q.fwd)
<1>1. Posted(r) /\ Persist(p, v.recs, Late(r)) /\ q.st = "judged"
  BY DEF Forward, Posted
<1>2. p \in Proc /\ TablesOK /\ Follows /\ WellMade(q) /\ q.turns \in Seq(TurnItem) /\ q.turns # << >>
  BY OpenRequest
<1>3. Remembers /\ Judging
  BY TheParts
<1>4. IsSeq(v.recs)
  BY <1>1 DEF GuardInv, VerdictsOK
<1>5. Remembers' /\ ~lost /\ ~Late(r) /\ known[p] = Tab /\ Tab' = ApplyAll(Tab, v.recs)
  BY <1>1, <1>2, <1>3, <1>4, PersistRemembers
<1>6. TableOK(Tab) /\ IsFiniteSet(places)
  <2>1. FormsOK(q.turns, q.fwd)
    BY <1>1, <1>2 DEF WellMade
  <2>. QED
    BY <1>2, <1>5, <2>1, PlacesFinite DEF TablesOK
<1>7. v = Verdict(Tab, places, o, f)
  BY <1>1, <1>3, <1>5 DEF Judging
<1>. HIDE DEF v, places, o, f
<1>8. /\ v.prev = LastBlock(Judged(Tab, places).stay)
      /\ v.remove = {pl.b : pl \in places \ Judged(Tab, places).stay}
      /\ Keys(v.recs, "r") = {o} /\ LastOf(v.recs, "r", o) = [f |-> f, p |-> v.prev]
      /\ \A b \in Keys(v.recs, "e") : \E pl \in places :
           /\ pl.b = b /\ b \notin DOMAIN Tab.blk /\ pl.base \in DOMAIN Tab.asked
           /\ LastOf(v.recs, "e", b) = Infer(Tab, pl)
  BY <1>6, <1>7, VerdictLines
<1>9. /\ Tab'.asked = Updated(Tab.asked, v.recs, "r") /\ Tab'.blk = Updated(Tab.blk, v.recs, "e")
  BY <1>5 DEF ApplyAll
<1>10. /\ DOMAIN Tab'.asked = DOMAIN Tab.asked \cup {o} /\ Tab'.asked[o] = [f |-> f, p |-> v.prev]
       /\ \A key \in DOMAIN Tab.asked : key # o => Tab'.asked[key] = Tab.asked[key]
  BY <1>8, <1>9 DEF Updated
<1>11. /\ \A b \in DOMAIN Tab.blk : b \in DOMAIN Tab'.blk /\ Tab'.blk[b] = Tab.blk[b]
       /\ \A b \in DOMAIN Tab'.blk : b \notin DOMAIN Tab.blk =>
            \E pl \in places : pl.b = b /\ pl.base \in DOMAIN Tab.asked /\ Tab'.blk[b] = Infer(Tab, pl)
  <2>1. /\ DOMAIN Tab'.blk = DOMAIN Tab.blk \cup Keys(v.recs, "e")
        /\ \A b \in DOMAIN Tab'.blk :
             Tab'.blk[b] = IF b \in Keys(v.recs, "e") THEN LastOf(v.recs, "e", b) ELSE Tab.blk[b]
    BY <1>9 DEF Updated
  <2>. QED
    BY <1>8, <2>1
<1>12. removed \subseteq Tab.out
  <2>1. IsSeq(journal) /\ removed \subseteq Keys(journal, "d") /\ TableOK(Nothing)
    BY <1>2, <1>5, FS_EmptySet DEF Follows, TablesOK, TableOK, Nothing
  <2>2. Tab.out = Nothing.out \cup Keys(journal, "d")
    BY <2>1, ApplyAllOK DEF Tab
  <2>. QED
    BY <2>1, <2>2
<1>. QED
  BY <1>5, <1>8, <1>10, <1>11, <1>12 DEF v, places, o, f

\* A place stands for the answer a to turn k.
StandsFor(turns, pl, k, a) ==
  /\ a = turns[k].a /\ ~Active(a) /\ 2 * a \in DOMAIN prod /\ Len(prod[2 * a].o) = 2 * k
  /\ pl.k = k /\ pl.base = ClientPrefix(turns, k) /\ pl.b \in {2 * a, 2 * a + 1} /\ pl.b \in Nat
  /\ pl.b = 2 * a + 1 => 2 * a + 1 \in removed
  /\ pl.b = 2 * a =>
       /\ pl.within = << >> /\ pl.before = NoBlock /\ pl.o = pl.base

LEMMA OthersBlocks ==
  ASSUME GuardInv, AcceptInv, NEW r \in DOMAIN req, Active(r), req[r].st # "new"
  PROVE  LET turns == req[r].turns
             fwd == req[r].fwd
         IN /\ FormsIn(turns, fwd) /\ Past(turns, Len(turns) - 1)
            /\ \A pl \in Places(turns, fwd) : \E k \in 1..(Len(turns) - 1) :
                 turns[k].a \in DOMAIN req /\ turns[k].a # r /\ StandsFor(turns, pl, k, turns[k].a)
<1>0. PICK turns, fwd : turns = req[r].turns /\ fwd = req[r].fwd /\ turns # << >> /\ turns \in Seq(TurnItem)
  BY OpenRequest
<1>1. FormsIn(turns, fwd) /\ Past(turns, Len(turns) - 1)
  BY <1>0, TheParts DEF Formed, Unheard, Pasts
<1>2. ASSUME NEW pl \in Places(turns, fwd)
      PROVE \E k \in 1..(Len(turns) - 1) :
              turns[k].a \in DOMAIN req /\ turns[k].a # r /\ StandsFor(turns, pl, k, turns[k].a)
  <2>1. PICK k \in 1..(Len(turns) - 1) :
           /\ pl = Place(turns, fwd, k, pl.b) /\ pl.k = k /\ pl.base = ClientPrefix(turns, k)
           /\ turns[k] \in TurnItem /\ pl.b \in {2 * turns[k].a, 2 * turns[k].a + 1} /\ pl.b \in Nat
           /\ pl.b = 2 * turns[k].a + 1 => turns[k].x # "plain"
           /\ pl.b = 2 * turns[k].a =>
                /\ pl.within = << >> /\ pl.before = NoBlock /\ pl.o = pl.base
                /\ pl.f = Prefix("with distil_expand", turns, fwd, k)
    BY <1>0, <1>1, <1>2, PlaceAt
  <2>2. PICK a : a = turns[k].a
    OBVIOUS
  <2>3. /\ a \in DOMAIN req /\ ~Active(a) /\ 2 * a \in DOMAIN prod /\ Len(prod[2 * a].o) = 2 * k
        /\ turns[k].x # "plain" => 2 * a + 1 \in removed
    BY <1>1, <2>2 DEF Past
  <2>4. StandsFor(turns, pl, k, a)
    BY <2>1, <2>2, <2>3 DEF StandsFor
  <2>. QED
    BY <2>2, <2>3, <2>4
<1>. QED
  BY <1>0, <1>1, <1>2

LEMMA SavedRecords ==
  ASSUME GuardInv, AcceptInv, NEW r \in DOMAIN req, Active(r), Forward(r), ~lost'
  PROVE  RecordsKept'
<1>0. PICK turns, fwd : turns = req[r].turns /\ fwd = req[r].fwd /\ turns # << >> /\ turns \in Seq(TurnItem)
  BY OpenRequest
<1>1. Posted(r) /\ req[r].st = "judged"
  BY DEF Forward, Posted
<1>2. Unheard /\ Pasts /\ Booked /\ Later /\ Same /\ RecordsKept
  BY TheParts DEF Unheard
<1>3. /\ DOMAIN req' = DOMAIN req /\ Carries
      /\ \A s \in DOMAIN req : s # r => req'[s] = req[s]
      /\ \A s \in DOMAIN req : Active(s)' = Active(s)
      /\ 2 * r \in DOMAIN prod'
      /\ prod'[2 * r] = [f |-> Full(turns, fwd), o |-> Asked(turns), p |-> req[r].verdict.prev]
      /\ \A b \in DOMAIN prod : b \notin {2 * r, 2 * r + 1} => b \in DOMAIN prod' /\ prod'[b] = prod[b]
  BY <1>0, <1>1, <1>2, PostedFrame
<1>4. /\ hist' = hist /\ live' = live /\ DOMAIN hist = 1..Len(hist) /\ Len(hist) \in Nat
      /\ \A k \in DOMAIN hist : prod'[2 * hist[k].a] = prod[2 * hist[k].a]
  <2>1. hist' = hist /\ live' = live /\ DOMAIN hist = 1..Len(hist) /\ Len(hist) \in Nat
    BY <1>1, LenProperties DEF Posted, clientVars, GuardInv, ClientOK
  <2>2. \A k \in DOMAIN hist : prod'[2 * hist[k].a] = prod[2 * hist[k].a]
    BY <1>2, <1>3, CarriedOn DEF Unheard
  <2>. QED
    BY <2>1, <2>2
<1>5. DOMAIN req = 1..Len(req) /\ Len(req) \in Nat /\ (live # 0 => live = Len(req) /\ Active(live))
  BY <1>2, LenProperties DEF GuardInv, RequestsOK, IsSeq, Booked, RequestsTypeOK
<1>. DEFINE o == Asked(turns)
            places == Places(turns, fwd)
<1>6. /\ ~lost /\ ~Late(r)
      /\ DOMAIN Tab'.asked = DOMAIN Tab.asked \cup {o}
      /\ Tab'.asked[o] = [f |-> Full(turns, fwd), p |-> req[r].verdict.prev]
      /\ \A key \in DOMAIN Tab.asked : key # o => Tab'.asked[key] = Tab.asked[key]
      /\ \A b \in DOMAIN Tab.blk : b \in DOMAIN Tab'.blk /\ Tab'.blk[b] = Tab.blk[b]
      /\ \A b \in DOMAIN Tab'.blk : b \notin DOMAIN Tab.blk =>
           \E pl \in places : pl.b = b /\ pl.base \in DOMAIN Tab.asked /\ Tab'.blk[b] = Infer(Tab, pl)
  BY <1>0, Saved
<1>7. \A pl \in places : \E k \in 1..(Len(turns) - 1) :
        turns[k].a \in DOMAIN req /\ turns[k].a # r /\ StandsFor(turns, pl, k, turns[k].a)
  <2>1. req[r].st # "new"
    BY <1>1
  <2>. QED
    BY <1>0, <2>1, OthersBlocks
<1>. DEFINE n == Len(turns)
<1>8. n \in Nat \ {0} /\ Len(o) = 2 * n
  BY <1>0, TheClientPrefix, LenProperties, EmptySeq DEF Asked
<1>9. ASSUME NEW a \in DOMAIN req, a > r, 2 * a \in DOMAIN prod PROVE prod[2 * a].o # o
  <2>1. PICK b \in DOMAIN prod : b = 2 * a
    BY <1>9
  <2>2. b > 2 * r + 1 /\ b % 2 = 0
    BY <1>5, <1>9, <2>1
  <2>3. prod[b].o # ClientPrefix(req[r].turns, Len(req[r].turns))
    BY <1>6, <2>2 DEF Late
  <2>. QED
    BY <1>0, <2>1, <2>3 DEF Asked
<1>10. \A b \in DOMAIN Tab.blk : \E a \in DOMAIN req : ~Active(a) /\ b \in {2 * a, 2 * a + 1}
  BY <1>2, <1>6 DEF RecordsKept
<1>. HIDE DEF o, places, n
<1>11. ASSUME NEW b \in DOMAIN Tab'.blk
       PROVE \E a \in DOMAIN req : ~Active(a) /\ b \in {2 * a, 2 * a + 1}
  <2>1. CASE b \in DOMAIN Tab.blk
    BY <1>10, <2>1
  <2>2. CASE b \notin DOMAIN Tab.blk
    <3>1. PICK pl \in places : pl.b = b
      BY <1>6, <1>11, <2>2
    <3>2. PICK k \in 1..(Len(turns) - 1) :
            turns[k].a \in DOMAIN req /\ turns[k].a # r /\ StandsFor(turns, pl, k, turns[k].a)
      BY <1>7
    <3>. QED
      BY <3>1, <3>2 DEF StandsFor
  <2>. QED
    BY <2>1, <2>2
<1>12. ASSUME NEW s \in DOMAIN req, Active(s) PROVE 2 * s \notin DOMAIN Tab'.blk
  <2>. SUFFICES ASSUME 2 * s \in DOMAIN Tab'.blk PROVE FALSE
    OBVIOUS
  <2>1. PICK a \in DOMAIN req : ~Active(a) /\ 2 * s \in {2 * a, 2 * a + 1}
    BY <1>11
  <2>2. a \in Nat /\ s \in Nat
    BY <1>5
  <2>3. a = s
    BY <2>1, <2>2
  <2>. QED
    BY <1>12, <2>1, <2>3
\* the answers the client has
<1>13. ASSUME NEW k \in DOMAIN hist, Unedited(hist, k)' PROVE RecordOK(hist[k].a)'
  <2>1. PICK a \in DOMAIN req : a = hist[k].a /\ ~Active(a)
    BY DEF GuardInv, RequestsTypeOK
  <2>2. PICK made : made = prod[2 * a]
    OBVIOUS
  <2>3. /\ a # r /\ 2 * a \in DOMAIN prod /\ InBook(made) /\ Len(made.o) = 2 * k /\ prod'[2 * a] = made
    BY <1>2, <1>4, <2>1, <2>2 DEF Pasts, Past, Booked
  <2>4. Unedited(hist, k) /\ ClientPrefix(hist, k) = made.o
    BY <1>4, <1>13, <2>1, <2>2 DEF Unedited
  <2>5. /\ made.o \in DOMAIN Tab.asked /\ Tab.asked[made.o] = [f |-> made.f, p |-> made.p]
        /\ 2 * a \in DOMAIN Tab.blk => Tab.blk[2 * a] = made
    BY <1>2, <1>6, <2>1, <2>2, <2>4 DEF RecordsKept, RecordOK
  <2>6. made.o # o
    <3>1. CASE a > r
      BY <1>9, <2>2, <2>3, <3>1
    <3>2. CASE r > a
      <4>1. n > k
        BY <1>0, <1>2, <2>1, <3>2 DEF Later, n
      <4>. QED
        BY <1>4, <1>8, <2>3, <4>1
    <3>. QED
      BY <1>5, <2>3, <3>1, <3>2
  <2>7. made.o \in DOMAIN Tab'.asked /\ Tab'.asked[made.o] = [f |-> made.f, p |-> made.p]
    BY <1>6, <2>5, <2>6
  <2>8. ASSUME 2 * a \in DOMAIN Tab'.blk PROVE Tab'.blk[2 * a] = made
    <3>1. CASE 2 * a \in DOMAIN Tab.blk
      BY <1>6, <2>5, <3>1
    <3>2. CASE 2 * a \notin DOMAIN Tab.blk
      <4>1. PICK pl \in places : pl.b = 2 * a /\ pl.base \in DOMAIN Tab.asked /\ Tab'.blk[2 * a] = Infer(Tab, pl)
        BY <1>6, <2>8, <3>2
      <4>2. PICK e \in 1..(Len(turns) - 1) : turns[e].a \in DOMAIN req /\ StandsFor(turns, pl, e, turns[e].a)
        BY <1>7
      <4>3. PICK c \in DOMAIN req : c = turns[e].a /\ StandsFor(turns, pl, e, c)
        BY <4>2
      <4>4. c = a
        <5>1. c \in Nat /\ a \in Nat /\ 2 * a \in {2 * c, 2 * c + 1}
          BY <1>5, <4>1, <4>3 DEF StandsFor
        <5>. QED
          BY <5>1
      <4>5. e = k
        <5>1. Len(made.o) = 2 * e /\ e \in Nat
          BY <1>8, <2>2, <4>3, <4>4 DEF n, StandsFor
        <5>. QED
          BY <1>4, <2>3, <5>1
      <4>6. pl.base = made.o
        <5>1. k < Len(req[r].turns) /\ req[r].turns[k].a = hist[k].a
          <6>1. k \in Nat /\ n = Len(req[r].turns) /\ k \in 1..(n - 1)
            BY <1>0, <1>4, <4>5 DEF n
          <6>2. turns[k].a = hist[k].a
            BY <2>1, <4>3, <4>4, <4>5
          <6>. QED
            BY <1>0, <1>8, <6>1, <6>2
        <5>2. Unedited(req[r].turns, k)
          BY <1>2, <2>4, <5>1 DEF Same
        <5>3. ClientPrefix(turns, k) = prod[2 * turns[k].a].o
          BY <1>0, <5>2 DEF Unedited
        <5>4. pl.base = ClientPrefix(turns, k) /\ turns[k].a = a
          BY <4>3, <4>4, <4>5 DEF StandsFor
        <5>. QED
          BY <2>2, <5>3, <5>4
      <4>7. Infer(Tab, pl) = [f |-> made.f \o << >>, o |-> made.o, p |-> made.p]
        <5>1. pl.within = << >> /\ pl.before = NoBlock /\ pl.o = made.o
          BY <4>1, <4>3, <4>4, <4>6 DEF StandsFor
        <5>2. PICK rec : rec = Tab.asked[pl.base] /\ rec.f = made.f /\ rec.p = made.p
          BY <2>5, <4>6
        <5>. QED
          BY <5>1, <5>2 DEF Infer
      <4>8. made.f \o << >> = made.f
        <5>1. PICK S : made.f \in Seq(S)
          BY <2>3 DEF InBook, IsSeq
        <5>. QED
          BY <5>1
      <4>. QED
        BY <2>3, <4>1, <4>7, <4>8 DEF InBook
    <3>. QED
      BY <3>1, <3>2
  <2>. QED
    BY <1>4, <2>1, <2>3, <2>7, <2>8 DEF RecordOK
\* the one it waits for
<1>14. ASSUME live' # 0, req'[live'].st \in WentOut PROVE RecordOK(live)'
  <2>1. live \in DOMAIN req /\ Active(live) /\ live' = live
    BY <1>4, <1>5, <1>14 DEF Active
  <2>2. 2 * live \notin DOMAIN Tab'.blk
    BY <1>12, <2>1
  <2>3. CASE live = r
    BY <1>3, <1>4, <1>6, <2>2, <2>3 DEF RecordOK, o
  <2>4. CASE live # r
    <3>1. req[live].st \in WentOut /\ live > r
      BY <1>3, <1>5, <1>14, <2>1, <2>4
    <3>2. PICK made : made = prod[2 * live]
      OBVIOUS
    <3>3. /\ 2 * live \in DOMAIN prod /\ made.o \in DOMAIN Tab.asked
          /\ Tab.asked[made.o] = [f |-> made.f, p |-> made.p]
      <4>1. 2 * live \in DOMAIN prod
        BY <1>2, <2>1, <3>1 DEF Booked
      <4>2. RecordOK(live)
        BY <1>2, <1>4, <1>6, <1>14, <3>1 DEF RecordsKept
      <4>. QED
        BY <3>2, <4>1, <4>2 DEF RecordOK
    <3>4. made.o # o
      BY <1>9, <2>1, <3>1, <3>2, <3>3
    <3>5. prod'[2 * live] = made
      <4>1. 2 * live \notin {2 * r, 2 * r + 1}
        BY <1>5, <2>4
      <4>. QED
        BY <1>3, <3>2, <3>3, <4>1
    <3>6. made.o \in DOMAIN Tab'.asked /\ Tab'.asked[made.o] = [f |-> made.f, p |-> made.p]
      BY <1>6, <3>3, <3>4
    <3>. QED
      BY <2>1, <2>2, <3>5, <3>6 DEF RecordOK
  <2>. QED
    BY <2>3, <2>4
<1>. QED
  BY <1>3, <1>4, <1>11, <1>13, <1>14 DEF RecordsKept

\* The last block of some before a place.
BlockBefore(places, pl) == LastBlock({q \in places : Precedes(q, pl)})

\* What stays in the request the client waits for goes out over the prefix it was made over.
LEMMA StaysFine ==
  ASSUME GuardInv, AcceptInv, NEW r \in DOMAIN req, Active(r), req[r].st # "new", live = r, ~lost,
         removed \subseteq Tab.out,
         NEW places, places = Places(req[r].turns, req[r].fwd),
         NEW pl \in Judged(Tab, places).stay
  PROVE  /\ pl \in places /\ pl.b % 2 = 0 /\ pl.b \in Nat \ {0, 1} /\ pl.k \in 1..(Len(req[r].turns) - 1)
         /\ pl.b \in DOMAIN prod /\ pl.b # 2 * r /\ pl.b # 2 * r + 1
         /\ pl.base = prod[pl.b].o =>
              /\ pl.f = prod[pl.b].f
              /\ BlockBefore(Judged(Tab, places).stay, pl) \in {NoBlock, prod[pl.b].p}
<1>0. PICK turns, fwd : turns = req[r].turns /\ fwd = req[r].fwd /\ turns # << >> /\ turns \in Seq(TurnItem)
  BY OpenRequest
<1>1. Unheard /\ Pasts /\ Booked /\ Later /\ Same /\ RecordsKept
  BY TheParts DEF Unheard
<1>2. \A q \in places : \E k \in 1..(Len(turns) - 1) :
        turns[k].a \in DOMAIN req /\ turns[k].a # r /\ StandsFor(turns, q, k, turns[k].a)
  BY <1>0, OthersBlocks
<1>3. Len(turns) \in Nat \ {0}
  BY <1>0, LenProperties, EmptySeq
<1>4. \A q \in places : q.k \in Nat /\ q.b \in Nat
  <2>. TAKE q \in places
  <2>1. PICK k \in 1..(Len(turns) - 1) : StandsFor(turns, q, k, turns[k].a)
    BY <1>2
  <2>. QED
    BY <1>3, <2>1 DEF StandsFor
<1>5. /\ pl \in places /\ pl.b \notin Tab.out
      /\ Stays(Tab, pl, BlockBefore(Judged(Tab, places).stay, pl))
  BY <1>4, StayJudged DEF BlockBefore
<1>6. PICK prev : prev = BlockBefore(Judged(Tab, places).stay, pl)
  OBVIOUS
<1>7. PICK k \in 1..(Len(turns) - 1), a \in DOMAIN req : a = turns[k].a /\ a # r /\ StandsFor(turns, pl, k, a)
  BY <1>2, <1>5
<1>8. DOMAIN req \subseteq Nat \ {0}
  BY LenProperties DEF GuardInv, RequestsOK, IsSeq
<1>9. pl.b = 2 * a
  BY <1>5, <1>7 DEF StandsFor
<1>10. pl.b % 2 = 0 /\ pl.b \in Nat \ {0, 1} /\ pl.b # 2 * r /\ pl.b # 2 * r + 1
  <2>1. a \in Nat \ {0} /\ r \in Nat \ {0}
    BY <1>7, <1>8
  <2>. QED
    BY <1>7, <1>9, <2>1
<1>11. /\ 2 * a \in DOMAIN prod /\ pl.k = k /\ pl.base = ClientPrefix(turns, k)
       /\ pl.within = << >> /\ pl.before = NoBlock /\ pl.o = pl.base
  BY <1>7, <1>9 DEF StandsFor
<1>12. PICK made : made = prod[2 * a] /\ InBook(made)
  BY <1>1, <1>11 DEF Booked
<1>13. ASSUME pl.base = made.o PROVE pl.f = made.f /\ (prev = NoBlock \/ prev = made.p)
  <2>1. /\ hist \in Seq(TurnItem) /\ Len(hist) \in Nat /\ DOMAIN hist = 1..Len(hist)
        /\ turns = Append(hist, Open(0)) /\ Open(0) \in TurnItem
    BY <1>0, <1>8, LenProperties DEF GuardInv, ClientOK, Open, TurnItem
  <2>2. Len(turns) = Len(hist) + 1 /\ \A e \in 1..Len(hist) : turns[e] = hist[e]
    BY <2>1, AppendProperties
  <2>3. k \in 1..Len(hist) /\ k \in 1..Len(turns)
    BY <2>1, <2>2
  <2>4. (\A e \in 1..k : turns[e].u = hist[e].u) /\ \A e \in 1..(k - 1) : turns[e].a = hist[e].a
    BY <2>1, <2>2, <2>3
  <2>5. ClientPrefix(turns, k) = ClientPrefix(hist, k)
    <3>1. PICK h : h = hist
      OBVIOUS
    <3>2. h \in Seq(TurnItem) /\ k <= Len(h)
      BY <2>1, <2>3, <3>1
    <3>3. (\A e \in 1..k : turns[e].u = h[e].u) /\ \A e \in 1..(k - 1) : turns[e].a = h[e].a
      BY <2>4, <3>1
    <3>4. ClientPrefix(turns, k) = ClientPrefix(h, k)
      BY <1>0, <2>3, <3>2, <3>3, SamePrefix
    <3>. QED
      BY <3>1, <3>4
  <2>6. hist[k].a = a
    BY <1>7, <2>2, <2>3
  <2>7. Unedited(hist, k)
    BY <1>11, <1>12, <1>13, <2>5, <2>6 DEF Unedited
  <2>8. RecordOK(a)
    BY <1>1, <2>1, <2>3, <2>6, <2>7 DEF RecordsKept
  <2>9. /\ made.o \in DOMAIN Tab.asked /\ Tab.asked[made.o] = [f |-> made.f, p |-> made.p]
        /\ 2 * a \in DOMAIN Tab.blk => Tab.blk[2 * a] = made
    BY <1>12, <2>8 DEF RecordOK
  <2>10. Infer(Tab, pl) = made
    <3>1. made.f \o << >> = made.f
      <4>1. PICK S : made.f \in Seq(S)
        BY <1>12 DEF InBook, IsSeq
      <4>. QED
        BY <4>1
    <3>2. PICK rec : rec = Tab.asked[pl.base] /\ rec.f = made.f /\ rec.p = made.p
      BY <1>13, <2>9
    <3>3. Infer(Tab, pl) = [f |-> made.f \o << >>, o |-> made.o, p |-> made.p]
      BY <1>11, <1>13, <3>2 DEF Infer
    <3>. QED
      BY <1>12, <3>1, <3>3 DEF InBook
  <2>11. Known(Tab, pl) /\ Record(Tab, pl) = made
    BY <1>9, <1>13, <2>9, <2>10 DEF Known, Record
  <2>12. Stays(Tab, pl, prev)
    BY <1>5, <1>6
  <2>13. pl.o = made.o
    BY <1>11, <1>13
  <2>. QED
    BY <2>11, <2>12, <2>13 DEF Stays
<1>. QED
  BY <1>0, <1>5, <1>6, <1>7, <1>9, <1>10, <1>11, <1>12, <1>13

LEMMA SavedAccepts ==
  ASSUME GuardInv, AcceptInv, NEW r \in DOMAIN req, Active(r), Forward(r), ~lost'
  PROVE  Accepting'
<1>1. Posted(r) /\ req[r].st = "judged" /\ live' = live
  BY DEF Forward, Posted, clientVars
<1>2. Unheard /\ Accepting
  BY TheParts DEF Unheard
<1>3. /\ DOMAIN req' = DOMAIN req
      /\ req'[r].turns = req[r].turns /\ req'[r].fwd = req[r].fwd
      /\ req'[r].remove = req[r].verdict.remove
      /\ \A s \in DOMAIN req : s # r => req'[s] = req[s]
      /\ \A b \in DOMAIN prod : b \notin {2 * r, 2 * r + 1} => b \in DOMAIN prod' /\ prod'[b] = prod[b]
  BY <1>1, <1>2, PostedFrame
<1>4. PICK places : places = Places(req[r].turns, req[r].fwd)
  OBVIOUS
<1>5. /\ ~lost /\ removed \subseteq Tab.out
      /\ req[r].verdict.remove = {pl.b : pl \in places \ Judged(Tab, places).stay}
  BY <1>4, Saved
<1>6. /\ live # 0 => live \in DOMAIN req /\ Active(live)
      /\ DOMAIN req \subseteq Nat
  BY LenProperties DEF GuardInv, RequestsOK, IsSeq, RequestsTypeOK, Active
<1>7. SUFFICES ASSUME live # 0, req'[live].st \in WentOut
               PROVE  (\A pl \in Kept(live) : Fine(Kept(live), pl))'
  BY <1>1 DEF Accepting
<1>8. CASE live # r
  <2>1. req'[live] = req[live] /\ req[live].st \in WentOut /\ req[live].st # "new"
    BY <1>3, <1>6, <1>7, <1>8 DEF WentOut
  <2>2. PICK K : K = Kept(live)
    OBVIOUS
  <2>3. Kept(live)' = K
    BY <1>1, <2>1, <2>2 DEF Kept
  <2>4. \A pl \in K : Fine(K, pl)
    BY <1>2, <1>5, <1>7, <2>1, <2>2 DEF Accepting
  <2>5. ASSUME NEW pl \in K PROVE prod'[pl.b] = prod[pl.b]
    <3>1. pl \in Places(req[live].turns, req[live].fwd)
      BY <2>2 DEF Kept
    <3>2. PICK a \in DOMAIN req : /\ ~Active(a) /\ 2 * a \in DOMAIN prod /\ pl.b \in {2 * a, 2 * a + 1}
      BY <1>6, <1>7, <2>1, <3>1, OthersBlocks DEF StandsFor
    <3>3. a # r /\ a \in Nat /\ r \in Nat
      BY <1>6, <3>2
    <3>4. pl.b \notin {2 * r, 2 * r + 1}
      BY <3>2, <3>3
    <3>5. pl.b \in DOMAIN prod
      <4>1. {2 * a, 2 * a + 1} \subseteq DOMAIN prod
        BY <3>2 DEF GuardInv, RequestsTypeOK
      <4>. QED
        BY <3>2, <4>1
    <3>. QED
      BY <1>3, <3>4, <3>5
  <2>6. \A pl \in K : Fine(K, pl)'
    BY <2>4, <2>5 DEF Fine
  <2>. QED
    BY <1>1, <2>3, <2>6
<1>9. CASE live = r
  <2>1. PICK stay : stay = Judged(Tab, places).stay
    OBVIOUS
  <2>2. PICK turns, fwd : turns = req[r].turns /\ fwd = req[r].fwd /\ turns # << >> /\ turns \in Seq(TurnItem)
    BY OpenRequest
  <2>3. /\ FormsIn(turns, fwd) /\ Past(turns, Len(turns) - 1) /\ places = Places(turns, fwd)
        /\ Len(turns) \in Nat
    BY <1>1, <1>4, <2>2, OthersBlocks, LenProperties
  <2>4. \A pl \in stay :
          /\ pl \in places /\ pl.b % 2 = 0 /\ pl.b \in Nat \ {0, 1} /\ pl.k \in 1..(Len(turns) - 1)
          /\ pl.b \in DOMAIN prod /\ pl.b # 2 * r /\ pl.b # 2 * r + 1
          /\ pl.base = prod[pl.b].o =>
              /\ pl.f = prod[pl.b].f
              /\ BlockBefore(stay, pl) \in {NoBlock, prod[pl.b].p}
    <3>. TAKE pl \in stay
    <3>1. req[r].st # "new"
      BY <1>1
    <3>2. pl \in Judged(Tab, places).stay
      BY <2>1
    <3>3. /\ pl \in places /\ pl.b % 2 = 0 /\ pl.b \in Nat \ {0, 1} /\ pl.k \in 1..(Len(req[r].turns) - 1)
          /\ pl.b \in DOMAIN prod /\ pl.b # 2 * r /\ pl.b # 2 * r + 1
          /\ pl.base = prod[pl.b].o =>
              /\ pl.f = prod[pl.b].f
              /\ BlockBefore(Judged(Tab, places).stay, pl) \in {NoBlock, prod[pl.b].p}
      BY <1>4, <1>5, <1>9, <3>1, <3>2, StaysFine
    <3>. QED
      BY <2>1, <2>2, <3>3
  <2>5. Kept(r)' = stay
    <3>1. Kept(r)' = {pl \in places : pl.b \notin {q.b : q \in places \ stay}}
      BY <1>3, <1>4, <1>5, <2>1 DEF Kept
    <3>2. \A p1, p2 \in places : p1.b = p2.b => p1 = p2
      BY <2>2, <2>3, OnePlace
    <3>3. ASSUME NEW pl \in stay, NEW q \in places \ stay PROVE pl.b # q.b
      BY <2>4, <3>2, <3>3
    <3>4. ASSUME NEW pl \in places, pl.b \notin {q.b : q \in places \ stay} PROVE pl \in stay
      BY <3>4
    <3>. QED
      BY <2>4, <3>1, <3>3, <3>4
  <2>6. ASSUME NEW pl \in stay, pl.base = prod[pl.b].o, {q \in stay : Precedes(q, pl)} # {}
        PROVE  LastBlock({q \in stay : Precedes(q, pl)}) = prod[pl.b].p
    <3>. DEFINE ahead == {q \in stay : Precedes(q, pl)}
    <3>1. \A q \in ahead : /\ q \in places /\ q.k \in 0..Len(turns) /\ q.b \in Nat /\ q.b # 0 /\ q.b % 2 = 0
      <4>. TAKE q \in ahead
      <4>1. q \in stay
        OBVIOUS
      <4>. HIDE DEF ahead
      <4>2. q \in places /\ q.k \in 1..(Len(turns) - 1) /\ q.b \in Nat \ {0, 1} /\ q.b % 2 = 0
        BY <2>4, <4>1
      <4>. QED
        BY <2>3, <4>2
    <3>2. \A p1, p2 \in ahead : p1.k = p2.k => p1 = p2
      BY <2>2, <2>3, <3>1, OnePlace
    <3>3. ahead = {q \in stay : Precedes(q, pl)}
      OBVIOUS
    <3>. HIDE DEF ahead
    <3>4. \E q \in ahead : LastBlock(ahead) = q.b
      BY <2>3, <2>6, <3>1, <3>2, <3>3, LastBlockOf
    <3>5. LastBlock(ahead) # NoBlock
      BY <3>1, <3>4, RequestsAssumption
    <3>6. LastBlock(ahead) = NoBlock \/ LastBlock(ahead) = prod[pl.b].p
      BY <2>4, <2>6, <3>3 DEF BlockBefore
    <3>. QED
      BY <3>3, <3>5, <3>6
  <2>7. \A pl \in stay : prod'[pl.b] = prod[pl.b]
    BY <1>3, <2>4
  <2>8. \A pl \in stay : Fine(stay, pl)'
    BY <2>4, <2>6, <2>7 DEF Fine
  <2>. QED
    BY <1>1, <1>9, <2>5, <2>8
<1>. QED
  BY <1>8, <1>9

LEMMA ForwardAccepts ==
  ASSUME GuardInv, GuardInv', AcceptInv, NEW r \in DOMAIN req, Active(r), Forward(r) \/ ForwardUnsaved(r)
  PROVE  AcceptInv'
<1>1. Posted(r) /\ req[r].p \in Proc /\ TablesOK
  BY OpenRequest DEF Forward, ForwardUnsaved
<1>2. \A p \in Proc \ {req[r].p} : known'[p] = known[p]
  BY <1>1 DEF Forward, ForwardUnsaved, Persist, PersistFails, TablesOK
<1>3. Judging' /\ Formed' /\ Pasts' /\ Booked' /\ Later' /\ Aged' /\ Same'
  BY <1>1, <1>2, PostedKept
<1>4. Remembers' /\ RecordsKept' /\ Accepting'
  <2>1. CASE lost'
    BY <2>1 DEF Remembers, RecordsKept, Accepting
  <2>2. CASE ~lost'
    <3>1. Forward(r)
      BY <2>2 DEF ForwardUnsaved, PersistFails
    <3>2. Remembers'
      BY <2>2, <3>1, Saved
    <3>. QED
      BY <2>2, <3>1, <3>2, SavedRecords, SavedAccepts
  <2>. QED
    BY <2>1, <2>2
<1>. QED
  BY <1>3, <1>4 DEF AcceptInv

-----------------------------------------------------------------------------
LEMMA AcceptStart ==
  ASSUME Init
  PROVE  AcceptInv
<1>1. /\ IsSeq(<< >>) /\ DOMAIN << >> = {} /\ Len(<< >>) = 0
      /\ SubSeq(<< >>, 1, 0) = << >>
  <2>1. << >> \in Seq({})
    OBVIOUS
  <2>2. SubSeq(<< >>, 1, 0) = << >>
    BY SubSeqEmpty
  <2>. QED
    BY <2>1, <2>2, EmptySeq DEF IsSeq
<1>2. /\ hist = << >> /\ live = 0 /\ req = << >> /\ prod = << >> /\ lin = [p \in Proc |-> Cold]
      /\ journal = << >> /\ off = [p \in Proc |-> 0] /\ known = [p \in Proc |-> Nothing]
  BY DEF Init, GuardInit
<1>3. Remembers
  <2>. SUFFICES ASSUME NEW p \in Proc
                PROVE off[p] <= Len(journal) /\ known[p] = ApplyAll(Nothing, SubSeq(journal, 1, off[p]))
    BY DEF Remembers
  <2>1. off[p] = 0 /\ known[p] = Nothing
    BY <1>2
  <2>2. SubSeq(journal, 1, off[p]) = << >>
    BY <1>1, <1>2, <2>1
  <2>3. known[p] = ApplyAll(Nothing, SubSeq(journal, 1, off[p]))
    BY <2>1, <2>2, ApplyNone, Zenon
  <2>4. off[p] <= Len(journal)
    BY <1>1, <1>2, <2>1
  <2>. QED
    BY <2>3, <2>4
<1>4. Judging /\ Formed
  BY <1>1, <1>2 DEF Judging, Formed
<1>5. Pasts
  BY <1>1, <1>2 DEF Pasts, Past
<1>6. Booked /\ Later /\ Aged /\ Same
  BY <1>1, <1>2 DEF Booked, Later, Aged, Same
<1>7. RecordsKept /\ Accepting
  <2>1. Tab = Nothing
    BY <1>2, ApplyNone DEF Tab
  <2>2. DOMAIN Tab.blk = {}
    BY <1>1, <2>1 DEF Nothing
  <2>. QED
    BY <1>1, <1>2, <2>2 DEF RecordsKept, Accepting
<1>. QED
  BY <1>3, <1>4, <1>5, <1>6, <1>7 DEF AcceptInv

LEMMA RequestStepAccepts ==
  ASSUME GuardInv, GuardInv', AcceptInv, NEW r \in DOMAIN req, Active(r), Step(r)
  PROVE  AcceptInv'
<1>1. CASE \E form, cold, stuck, raises : Compress(r, form, cold, stuck, raises)
  BY <1>1, CompressAccepts
<1>2. CASE \E form : Untracked(r, form)
  BY <1>2, UntrackedAccepts
<1>3. CASE Remember(r) \/ Guard(r)
  BY <1>3, RememberAccepts, GuardAccepts
<1>4. CASE Forward(r) \/ ForwardUnsaved(r)
  BY <1>4, ForwardAccepts
<1>5. CASE Requery(r) \/ Taint(r) \/ Drop(r)
  BY <1>5, RequeryAccepts, TaintAccepts, DropAccepts
<1>6. CASE Relay(r) \/ Refused(r)
  BY <1>6, RelayAccepts, RefusedAccepts
<1>. QED
  BY <1>1, <1>2, <1>3, <1>4, <1>5, <1>6 DEF Step

LEMMA AcceptStep ==
  ASSUME GuardInv, AcceptInv, [Next]_vars
  PROVE  AcceptInv'
<1>0. GuardInv'
  BY GuardStep
<1>1. CASE Send
  BY <1>0, <1>1, SendAccepts
<1>2. CASE GiveUp \/ HandOver \/ UNCHANGED vars
  BY <1>0, <1>2, WaitAccepts
<1>3. CASE \E k \in 0..(Len(hist) - 1) : Regenerate(k)
  BY <1>0, <1>3, RegenerateAccepts
<1>4. CASE \E k \in 1..Len(hist) : Edit(k)
  BY <1>0, <1>4, EditAccepts
<1>5. CASE \E r \in DOMAIN req : Active(r) /\ Step(r)
  BY <1>0, <1>5, RequestStepAccepts
<1>6. CASE \E p \in Proc : Die(p)
  BY <1>0, <1>6, DieAccepts
<1>. QED
  BY <1>1, <1>2, <1>3, <1>4, <1>5, <1>6 DEF Next

\* What the journal, the provider's books and the client's history say of an answer agree as
\* long as no record is lost, and so do a verdict under way and the tables it was reached on
\* (_guard, thinkguard.py:282; _infer; _append, thinkguard.py:153).
THEOREM AcceptInvariant == Spec => []AcceptInv
<1>1. Init => AcceptInv
  BY AcceptStart
<1>2. GuardInv /\ AcceptInv /\ [Next]_vars => AcceptInv'
  BY AcceptStep
<1>. QED
  BY <1>1, <1>2, GuardInvariant, PTL DEF Spec

\* The provider accepts what goes out (_guard, thinkguard.py:273): as long as no record is
\* lost, a thinking block left in a request goes out over the prefix it was made over and
\* after the block that came before it then, unless the client edited that prefix.
THEOREM WhatGoesOutIsAccepted == Spec => []Accepted
<1>1. AcceptInv => Accepted
  BY DEF AcceptInv, Accepting, Fine, Accepted, WentOut
<1>. QED
  BY <1>1, AcceptInvariant, PTL

-----------------------------------------------------------------------------
(* What a conversation in which nothing but turns happened keeps.          *)

Table == known[serving]

\* The block before the answer of turn k when nothing was taken out but what followed a
\* hidden round: that of the last answer whose first block the client was shown.
Foregoing(turns, k, m) ==
  \/ m = NoBlock /\ \A j \in 1..(k - 1) : turns[j].x = "requeried"
  \/ \E j \in 1..(k - 1) : /\ turns[j].x # "requeried" /\ m = 2 * turns[j].a
                           /\ \A i \in (j + 1)..(k - 1) : turns[i].x = "requeried"

\* The forms of the items are those the answers were given over, and no block is missing.
SentAs(turns, n, fwd) ==
  \A k \in 1..n : prod[2 * turns[k].a].f = Prefix("with distil_expand", turns, fwd, k)
AllBlocks(turns, n, fwd) == \A k \in 1..n : fwd[2 * k] = Blocks(turns[k])

\* The worker has the record of an answer, and of every answer the client has.
Holding(a) ==
  LET made == prod[2 * a]
  IN /\ made.o \in DOMAIN Table.asked /\ Table.asked[made.o] = [f |-> made.f, p |-> made.p]
     /\ 2 * a \in DOMAIN Table.blk => Table.blk[2 * a] = made
HeldAt(turns, k) ==
  LET a == turns[k].a
  IN /\ Unedited(turns, k) /\ Holding(a) /\ Foregoing(turns, k, prod[2 * a].p)
     /\ turns[k].x # "plain" => 2 * a + 1 \in Table.out
HeldTo(turns, n) == \A k \in 1..n : HeldAt(turns, k)

\* One worker, which has read what it wrote, one request at a time, nothing evicted.
Alone ==
  /\ off[serving] = Len(journal) /\ evicted = [items |-> {}, blocks |-> {}]
  /\ \A r \in DOMAIN req : Active(r) => r = live /\ req[r].p = serving

\* What is out followed a hidden round, and an inferred record is of an answer that ended.
OnlyHidden ==
  /\ \A b \in Table.out : b % 2 = 1
  /\ \A b \in DOMAIN Table.blk : \E a \in DOMAIN req : ~Active(a) /\ b \in {2 * a, 2 * a + 1}

\* The lineage is the history as it went out, and so is the request the client waits for.
Lined ==
  /\ hist = << >> <=> lin[serving] = Cold
  /\ hist # << >> =>
       /\ lin[serving].canon = Canon(hist)
       /\ SentAs(hist, Len(hist), lin[serving].fwd) /\ AllBlocks(hist, Len(hist) - 1, lin[serving].fwd)
Fitting(q) ==
  /\ SentAs(q.turns, Len(q.turns) - 1, q.fwd) /\ AllBlocks(q.turns, Len(q.turns) - 1, q.fwd)
  /\ q.st # "compressed" => lin[serving] = Lineage(Canon(q.turns), q.fwd)
Frozen ==
  /\ live = 0 \/ req[live].st \in {"new", "compressed"} => Lined
  /\ live # 0 /\ req[live].st # "new" => Fitting(req[live])

\* What went out for the client is recorded as it went out, over all blocks but hidden ones.
OutAs(r, q) ==
  LET made == prod[2 * r]
  IN /\ made.f = Full(q.turns, q.fwd) /\ made.o = Asked(q.turns) /\ Holding(r)
     /\ Foregoing(q.turns, Len(q.turns), made.p)
     /\ \A b \in q.remove : b % 2 = 1
     /\ q.iters # 0 /\ q.st = "posted" => 2 * r + 1 \in Table.out
Out == live # 0 /\ req[live].st \in WentOut => OutAs(live, req[live])

Keeping == Alone /\ OnlyHidden /\ HeldTo(hist, Len(hist)) /\ Frozen /\ Out
KeepInv == ~disturbed => Keeping

-----------------------------------------------------------------------------
\* What the worker knows of answers stays, and nothing but what followed hidden rounds is
\* taken out.
TableStays ==
  /\ \A o \in DOMAIN Table.asked : o \in DOMAIN Table'.asked /\ Table'.asked[o] = Table.asked[o]
  /\ \A b \in DOMAIN Table'.blk : b \in DOMAIN Table.blk /\ Table'.blk[b] = Table.blk[b]
  /\ Table.out \subseteq Table'.out /\ \A b \in Table'.out : b % 2 = 1

LEMMA HoldingStays ==
  ASSUME NEW a, Holding(a), prod'[2 * a] = prod[2 * a], TableStays
  PROVE  Holding(a)'
BY DEF Holding, TableStays

LEMMA HeldStays ==
  ASSUME NEW turns, NEW n, HeldTo(turns, n), TableStays,
         \A k \in 1..n : prod'[2 * turns[k].a] = prod[2 * turns[k].a]
  PROVE  HeldTo(turns, n)'
<1>1. ASSUME NEW k \in 1..n PROVE HeldAt(turns, k)'
  <2>1. HeldAt(turns, k) /\ prod'[2 * turns[k].a] = prod[2 * turns[k].a]
    BY DEF HeldTo
  <2>2. Holding(turns[k].a)'
    BY <2>1, HoldingStays DEF HeldAt
  <2>3. Unedited(turns, k)'
    BY <2>1 DEF HeldAt, Unedited
  <2>4. Foregoing(turns, k, prod'[2 * turns[k].a].p)
    BY <2>1 DEF HeldAt
  <2>5. turns[k].x # "plain" => 2 * turns[k].a + 1 \in Table'.out
    BY <2>1 DEF HeldAt, TableStays
  <2>. QED
    BY <2>2, <2>3, <2>4, <2>5 DEF HeldAt, Foregoing
<1>. QED
  BY <1>1 DEF HeldTo

\* A step of the request the client waits for that leaves it open.
Calm(r, q) ==
  /\ r \in DOMAIN req /\ r = live /\ live # 0 /\ Active(r) /\ req' = [req EXCEPT ![r] = q]
  /\ q.p = serving /\ q.st # "done" /\ q.turns = req[r].turns
  /\ prod' = prod /\ hist' = hist /\ live' = live /\ serving' = serving /\ evicted' = evicted
  /\ TableStays /\ off'[serving] = Len(journal')

LEMMA CalmKeeps ==
  ASSUME GuardInv, Keeping, NEW r, NEW q, Calm(r, q)
  PROVE  /\ Alone' /\ OnlyHidden' /\ HeldTo(hist, Len(hist))'
         /\ req'[r] = q /\ live' = r /\ live # 0
<1>1. /\ DOMAIN req' = DOMAIN req /\ req'[r] = q
      /\ \A s \in DOMAIN req : s # r => req'[s] = req[s]
  BY DEF Calm
<1>2. \A s \in DOMAIN req : Active(s)' <=> Active(s)
  BY <1>1 DEF Calm, Active
<1>3. Alone'
  BY <1>1, <1>2 DEF Calm, Keeping, Alone
<1>4. OnlyHidden'
  <2>1. \A b \in Table'.out : b % 2 = 1
    BY DEF Calm, TableStays
  <2>2. ASSUME NEW b \in DOMAIN Table'.blk
        PROVE  \E a \in DOMAIN req' : ~(Active(a)') /\ b \in {2 * a, 2 * a + 1}
    <3>1. b \in DOMAIN Table.blk
      BY DEF Calm, TableStays
    <3>2. PICK a \in DOMAIN req : ~Active(a) /\ b \in {2 * a, 2 * a + 1}
      BY <3>1 DEF Keeping, OnlyHidden
    <3>. QED
      BY <1>1, <1>2, <3>2
  <2>. QED
    BY <2>1, <2>2 DEF OnlyHidden
<1>5. HeldTo(hist, Len(hist))'
  <2>1. PICK h, n : h = hist /\ n = Len(hist)
    OBVIOUS
  <2>2. HeldTo(h, n)'
    BY <2>1, HeldStays DEF Calm, Keeping
  <2>. QED
    BY <2>1, <2>2 DEF Calm
<1>. QED
  BY <1>1, <1>3, <1>4, <1>5 DEF Calm

\* A step past the replay that keeps what the request sends.
LEMMA QuietKeeps ==
  ASSUME GuardInv, Keeping, NEW r, NEW q, Calm(r, q), lin' = lin, q.fwd = req[r].fwd,
         req[r].st \notin {"new", "compressed"}, q.st \notin {"new", "compressed"},
         q.st \in WentOut =>
           /\ req[r].st \in WentOut /\ q.remove = req[r].remove
           /\ q.iters # 0 /\ q.st = "posted" => 2 * r + 1 \in Table'.out
  PROVE  Keeping'
<1>1. Alone' /\ OnlyHidden' /\ HeldTo(hist, Len(hist))' /\ req'[r] = q /\ live' = r /\ live # 0 /\ live = r
  BY CalmKeeps DEF Calm
<1>2. PICK turns, fwd : turns = q.turns /\ fwd = q.fwd /\ turns = req[r].turns /\ fwd = req[r].fwd
  BY DEF Calm
<1>3. Frozen'
  <2>1. Fitting(req[r])
    BY <1>1 DEF Keeping, Frozen
  <2>2. SentAs(turns, Len(turns) - 1, fwd) /\ AllBlocks(turns, Len(turns) - 1, fwd)
        /\ lin[serving] = Lineage(Canon(turns), fwd)
    BY <1>2, <2>1 DEF Fitting
  <2>3. SentAs(turns, Len(turns) - 1, fwd)' /\ lin'[serving'] = Lineage(Canon(turns), fwd)
    BY <2>2 DEF Calm, SentAs
  <2>4. Fitting(q)'
    BY <1>2, <2>2, <2>3 DEF Fitting
  <2>. QED
    BY <1>1, <2>4 DEF Frozen
<1>4. Out'
  <2>1. SUFFICES ASSUME q.st \in WentOut PROVE OutAs(r, q)'
    BY <1>1 DEF Out
  <2>2. OutAs(r, req[r]) /\ prod' = prod /\ TableStays
    BY <1>1, <2>1 DEF Keeping, Out, Calm
  <2>3. Holding(r)'
    BY <2>2, HoldingStays DEF OutAs
  <2>4. /\ prod[2 * r].f = Full(turns, fwd) /\ prod[2 * r].o = Asked(turns)
        /\ Foregoing(turns, Len(turns), prod[2 * r].p)
        /\ \A b \in q.remove : b % 2 = 1
    BY <1>2, <2>1, <2>2 DEF OutAs
  <2>5. q.iters # 0 /\ q.st = "posted" => 2 * r + 1 \in Table'.out
    BY <2>1
  <2>. QED
    BY <1>2, <2>2, <2>3, <2>4, <2>5 DEF OutAs
<1>. QED
  BY <1>1, <1>3, <1>4 DEF Keeping

\* What ApplyAll() does when the lines say nothing of answers.
LEMMA NothingNew ==
  ASSUME NEW t, NEW recs, Keys(recs, "r") = {}, Keys(recs, "e") = {}, NEW u, u = ApplyAll(t, recs)
  PROVE  /\ DOMAIN u.asked = DOMAIN t.asked /\ \A o \in DOMAIN t.asked : u.asked[o] = t.asked[o]
         /\ DOMAIN u.blk = DOMAIN t.blk /\ \A b \in DOMAIN t.blk : u.blk[b] = t.blk[b]
         /\ u.out = t.out \cup Keys(recs, "d")
BY DEF ApplyAll, Updated

LEMMA NoLines ==
  ASSUME NEW t
  PROVE  Keys(<< >>, t) = {}
BY DEF Keys

\* A worker that is alone reads nothing new.
LEMMA AloneReads ==
  ASSUME GuardInv, Keeping, Sync(serving), journal' = journal, serving' = serving
  PROVE  TableStays /\ off'[serving] = Len(journal')
<1>1. serving \in Proc /\ off[serving] = Len(journal) /\ off[serving] \in Nat
  BY DEF Keeping, Alone, GuardInv, RequestsTypeOK
<1>2. Unread(serving) = << >>
  <2>1. IsSeq(journal) /\ Len(journal) \in Nat
    BY WholeSeq DEF GuardInv, TablesOK
  <2>2. PICK S : journal \in Seq(S)
    BY <2>1 DEF IsSeq
  <2>. QED
    BY <1>1, <2>1, <2>2 DEF Unread
<1>3. PICK t : t = known[serving]
  OBVIOUS
<1>4. known'[serving] = ApplyAll(t, << >>)
  BY <1>1, <1>2, <1>3 DEF Sync, GuardInv, TablesOK
<1>5. /\ DOMAIN known'[serving].asked = DOMAIN t.asked
      /\ \A o \in DOMAIN t.asked : known'[serving].asked[o] = t.asked[o]
      /\ DOMAIN known'[serving].blk = DOMAIN t.blk
      /\ \A b \in DOMAIN t.blk : known'[serving].blk[b] = t.blk[b]
      /\ known'[serving].out = t.out
  <2>1. Keys(<< >>, "r") = {} /\ Keys(<< >>, "e") = {} /\ Keys(<< >>, "d") = {}
    BY NoLines
  <2>2. PICK recs, u : recs = << >> /\ u = ApplyAll(t, recs)
    OBVIOUS
  <2>3. /\ DOMAIN u.asked = DOMAIN t.asked /\ \A o \in DOMAIN t.asked : u.asked[o] = t.asked[o]
        /\ DOMAIN u.blk = DOMAIN t.blk /\ \A b \in DOMAIN t.blk : u.blk[b] = t.blk[b]
        /\ u.out = t.out \cup Keys(recs, "d")
    BY <2>1, <2>2, NothingNew
  <2>. QED
    BY <1>4, <2>1, <2>2, <2>3
<1>6. TableStays
  BY <1>3, <1>5 DEF TableStays, Table, Keeping, OnlyHidden
<1>7. off'[serving] = Len(journal')
  BY <1>1 DEF Sync, GuardInv, TablesOK
<1>. QED
  BY <1>6, <1>7

LEMMA Undisturbed ==
  ASSUME NEW r \in DOMAIN req, Active(r), Keeping, UNCHANGED <<guardVars, serving>>
  PROVE  TableStays /\ off'[serving] = Len(journal') /\ r = live /\ req[r].p = serving
BY DEF guardVars, TableStays, Table, Keeping, Alone, OnlyHidden

LEMMA AtWork ==
  ASSUME GuardInv, NEW r \in DOMAIN req, Active(r), Keeping
  PROVE  r = live /\ live # 0 /\ req[r].p = serving /\ serving \in Proc
<1>1. r # 0
  BY LenProperties DEF GuardInv, RequestsOK, IsSeq
<1>. QED
  BY <1>1 DEF Keeping, Alone, GuardInv, RequestsTypeOK

LEMMA RequeryKeeps ==
  ASSUME GuardInv, AcceptInv, Keeping, NEW r \in DOMAIN req, Active(r), Requery(r)
  PROVE  Keeping'
<1>1. PICK q : q = [req[r] EXCEPT !.st = "requeried", !.iters = @ + 1]
  OBVIOUS
<1>2. {"st", "p", "turns", "fwd"} \subseteq DOMAIN req[r] /\ {"remove", "iters"} \subseteq DOMAIN req[r]
  <2>1. req[r].st = "posted"
    BY DEF Requery
  <2>2. WellMade(req[r])
    BY OpenRequest
  <2>3. Booked
    BY TheParts DEF Unheard
  <2>. QED
    BY <2>1, <2>2, <2>3 DEF WellMade, Booked, WentOut
<1>3. /\ q.st = "requeried" /\ q.p = req[r].p /\ q.turns = req[r].turns /\ q.fwd = req[r].fwd
      /\ q.remove = req[r].remove
  BY <1>1, <1>2
<1>4. req' = [req EXCEPT ![r] = q] /\ req[r].st = "posted"
  BY <1>1 DEF Requery
<1>5. Calm(r, q)
  BY <1>3, <1>4, Undisturbed, AtWork DEF Calm, Requery, clientVars, worldVars, provider
<1>6. lin' = lin
  BY DEF Requery
<1>. QED
  BY <1>3, <1>4, <1>5, <1>6, QuietKeeps DEF WentOut

LEMMA TaintKeeps ==
  ASSUME GuardInv, AcceptInv, Keeping, NEW r \in DOMAIN req, Active(r), Taint(r)
  PROVE  Keeping'
<1>1. PICK q : q = [req[r] EXCEPT !.st = "tainted"]
  OBVIOUS
<1>2. {"st", "p", "turns", "fwd"} \subseteq DOMAIN req[r] /\ {"remove", "iters"} \subseteq DOMAIN req[r]
  <2>1. req[r].st = "requeried"
    BY DEF Taint
  <2>2. WellMade(req[r])
    BY OpenRequest
  <2>3. Booked
    BY TheParts DEF Unheard
  <2>. QED
    BY <2>1, <2>2, <2>3 DEF WellMade, Booked, WentOut
<1>3. /\ q.st = "tainted" /\ q.p = req[r].p /\ q.turns = req[r].turns /\ q.fwd = req[r].fwd
      /\ q.remove = req[r].remove
  BY <1>1, <1>2
<1>4. req' = [req EXCEPT ![r] = q] /\ req[r].st = "requeried"
  BY <1>1 DEF Taint
<1>5. r = live /\ live # 0 /\ req[r].p = serving
  BY AtWork
<1>6. TableStays /\ off'[serving] = Len(journal')
  BY <1>5, AloneReads DEF Taint, worldVars
<1>7. Calm(r, q)
  BY <1>3, <1>4, <1>5, <1>6 DEF Calm, Taint, clientVars, worldVars, provider
<1>8. lin' = lin
  BY DEF Taint
<1>. QED
  BY <1>3, <1>4, <1>7, <1>8, QuietKeeps DEF WentOut

LEMMA GuardKeeps ==
  ASSUME GuardInv, AcceptInv, Keeping, NEW r \in DOMAIN req, Active(r), Guard(r)
  PROVE  Keeping'
<1>1. PICK v : req' = [req EXCEPT ![r] = [st |-> "judged", p |-> req[r].p, turns |-> req[r].turns,
                                        fwd |-> req[r].fwd, verdict |-> v]]
  BY DEF Guard
<1>2. PICK q : q = [st |-> "judged", p |-> req[r].p, turns |-> req[r].turns, fwd |-> req[r].fwd,
                    verdict |-> v]
  OBVIOUS
<1>3. q.st = "judged" /\ q.p = req[r].p /\ q.turns = req[r].turns /\ q.fwd = req[r].fwd
  BY <1>2
<1>4. req' = [req EXCEPT ![r] = q] /\ req[r].st = "replayed"
  BY <1>1, <1>2 DEF Guard
<1>5. r = live /\ live # 0 /\ req[r].p = serving
  BY AtWork
<1>6. TableStays /\ off'[serving] = Len(journal')
  BY <1>5, AloneReads DEF Guard, worldVars
<1>7. Calm(r, q)
  BY <1>3, <1>4, <1>5, <1>6 DEF Calm, Guard, clientVars, worldVars, provider
<1>8. lin' = lin
  BY DEF Guard
<1>. QED
  BY <1>3, <1>4, <1>7, <1>8, QuietKeeps DEF WentOut

\* Two histories that agree up to turn k, in the forms of the user's items too, have one prefix.
LEMMA OnePrefix ==
  ASSUME NEW tools, NEW t1, NEW t2, NEW f1, NEW f2, NEW k \in Nat \ {0},
         \A e \in 1..k : t1[e].u = t2[e].u, \A e \in 1..(k - 1) : t1[e].a = t2[e].a,
         \A j \in 1..(2 * k - 1) : User(j) => f1[j] = f2[j]
  PROVE  Prefix(tools, t1, f1, k) = Prefix(tools, t2, f2, k)
<1>. DEFINE item(t, f, j) == IF User(j) THEN <<t[TurnOf(j)].u, f[j]>> ELSE <<t[TurnOf(j)].a>>
<1>1. ASSUME NEW j \in 1..(2 * k - 1) PROVE item(t1, f1, j) = item(t2, f2, j)
  <2>1. CASE User(j)
    <3>1. TurnOf(j) \in 1..k
      BY <2>1 DEF User, TurnOf
    <3>. QED
      BY <2>1, <3>1
  <2>2. CASE ~User(j)
    <3>1. TurnOf(j) \in 1..(k - 1)
      <4>1. j % 2 = 0 /\ j = 2 * (j \div 2)
        BY <2>2 DEF User
      <4>2. PICK m \in Int : j = 2 * m
        BY <4>1
      <4>3. TurnOf(j) = m
        BY <4>2 DEF TurnOf
      <4>. QED
        BY <4>2, <4>3
    <3>. QED
      BY <2>2, <3>1
  <2>. QED
    BY <2>1, <2>2
<1>2. [j \in 1..(2 * k - 1) |-> item(t1, f1, j)] = [j \in 1..(2 * k - 1) |-> item(t2, f2, j)]
  BY <1>1
<1>. QED
  BY <1>2 DEF Prefix

\* The request the client waits for has its history, and one turn more.
LEMMA TheTurns ==
  ASSUME GuardInv, NEW r \in DOMAIN req, Active(r), Keeping
  PROVE  /\ hist \in Seq(TurnItem) /\ Len(hist) \in Nat /\ req[r].turns \in Seq(TurnItem) /\ req[r].turns # << >>
         /\ Len(req[r].turns) = Len(hist) + 1 /\ \A k \in 1..Len(hist) : req[r].turns[k] = hist[k]
<1>1. req[r].turns \in Seq(TurnItem) /\ req[r].turns # << >> /\ hist \in Seq(TurnItem) /\ Len(hist) \in Nat
  BY OpenRequest, LenProperties DEF GuardInv, ClientOK
<1>2. Open(0) \in TurnItem
  BY DEF Open, TurnItem
<1>3. req[r].turns = Append(hist, Open(0))
  BY AtWork DEF GuardInv, ClientOK
<1>. QED
  BY <1>1, <1>2, <1>3, AppendProperties

\* A worker that is alone and appends has read all it wrote.
LEMMA AloneWrites ==
  ASSUME GuardInv, Keeping, NEW recs, IsSeq(recs), serving' = serving,
         (\E late : Persist(serving, recs, late)) \/ PersistFails(serving, recs)
  PROVE  off'[serving] = Len(journal') /\ known'[serving] = ApplyAll(known[serving], recs)
<1>1. /\ serving \in Proc /\ off[serving] = Len(journal) /\ off \in [Proc -> Nat]
      /\ DOMAIN known = Proc /\ IsSeq(journal)
  BY DEF Keeping, Alone, GuardInv, RequestsTypeOK, TablesOK
<1>2. CASE \E late : Persist(serving, recs, late)
  <2>1. PICK full, t : /\ t = ApplyAll(known[serving], recs)
                       /\ known' = [known EXCEPT ![serving] = t]
                       /\ journal' = IF full THEN Dump(t) ELSE journal \o recs
                       /\ off' = [off EXCEPT ![serving] = IF full THEN Len(Dump(t)) ELSE @ + Len(recs)]
    BY <1>2 DEF Persist
  <2>2. Len(journal \o recs) = Len(journal) + Len(recs)
    BY <1>1, LinesConcat
  <2>. QED
    BY <1>1, <2>1, <2>2
<1>3. CASE PersistFails(serving, recs)
  BY <1>1, <1>3 DEF PersistFails
<1>. QED
  BY <1>2, <1>3

LEMMA DropKeeps ==
  ASSUME GuardInv, AcceptInv, Keeping, NEW r \in DOMAIN req, Active(r), Drop(r)
  PROVE  Keeping'
<1>1. PICK q : q = [req[r] EXCEPT !.st = "posted"]
  OBVIOUS
<1>2. {"st", "p", "turns", "fwd"} \subseteq DOMAIN req[r] /\ {"remove", "iters"} \subseteq DOMAIN req[r]
  <2>1. req[r].st = "tainted"
    BY DEF Drop
  <2>2. WellMade(req[r])
    BY OpenRequest
  <2>3. Booked
    BY TheParts DEF Unheard
  <2>. QED
    BY <2>1, <2>2, <2>3 DEF WellMade, Booked, WentOut
<1>3. /\ q.st = "posted" /\ q.p = req[r].p /\ q.turns = req[r].turns /\ q.fwd = req[r].fwd
      /\ q.remove = req[r].remove
  BY <1>1, <1>2
<1>4. req' = [req EXCEPT ![r] = q] /\ req[r].st = "tainted" /\ serving' = serving /\ lin' = lin
  BY <1>1 DEF Drop, worldVars
<1>5. r = live /\ live # 0 /\ req[r].p = serving /\ serving \in Proc /\ r \in Nat
  BY AtWork, LenProperties DEF GuardInv, RequestsOK, IsSeq
<1>6. PICK recs : recs = <<OutLine(2 * r + 1)>>
  OBVIOUS
<1>7. /\ IsSeq(recs) /\ Keys(recs, "d") = {2 * r + 1}
      /\ Keys(recs, "r") = {} /\ Keys(recs, "e") = {}
  <2>1. recs \in Seq({OutLine(2 * r + 1)})
    BY <1>6
  <2>2. Len(recs) = 1 /\ DOMAIN recs = {1} /\ recs[1].t = "d" /\ recs[1].key = 2 * r + 1
    BY <1>6 DEF OutLine
  <2>. QED
    BY <2>1, <2>2 DEF IsSeq, Keys
<1>8. Persist(serving, recs, FALSE)
  BY <1>5, <1>6 DEF Drop
<1>9. PICK t, u : t = known[serving] /\ u = known'[serving] /\ u = ApplyAll(t, recs)
  BY <1>4, <1>7, <1>8, AloneWrites
<1>10. off'[serving] = Len(journal')
  BY <1>4, <1>7, <1>8, AloneWrites
<1>11. /\ DOMAIN u.asked = DOMAIN t.asked /\ \A o \in DOMAIN t.asked : u.asked[o] = t.asked[o]
       /\ DOMAIN u.blk = DOMAIN t.blk /\ \A b \in DOMAIN t.blk : u.blk[b] = t.blk[b]
       /\ u.out = t.out \cup {2 * r + 1}
  BY <1>7, <1>9, NothingNew
<1>12. TableStays /\ 2 * r + 1 \in Table'.out
  <2>1. Table = t /\ Table' = u
    BY <1>4, <1>9 DEF Table
  <2>2. (2 * r + 1) % 2 = 1
    BY <1>5
  <2>. QED
    BY <1>11, <2>1, <2>2 DEF TableStays, Keeping, OnlyHidden
<1>13. Calm(r, q)
  BY <1>3, <1>4, <1>5, <1>10, <1>12 DEF Calm, Drop, clientVars, worldVars
<1>. QED
  BY <1>3, <1>4, <1>12, <1>13, QuietKeeps DEF WentOut

LEMMA RememberKeeps ==
  ASSUME GuardInv, AcceptInv, Keeping, NEW r \in DOMAIN req, Active(r), Remember(r)
  PROVE  Keeping'
<1>1. PICK q : q = [req[r] EXCEPT !.st = "replayed"]
  OBVIOUS
<1>2. {"st", "p", "turns", "fwd"} \subseteq DOMAIN req[r] /\ req[r].st = "compressed"
  BY OpenRequest DEF WellMade, Remember
<1>3. q.st = "replayed" /\ q.p = req[r].p /\ q.turns = req[r].turns /\ q.fwd = req[r].fwd
  BY <1>1, <1>2
<1>4. req' = [req EXCEPT ![r] = q]
  BY <1>1 DEF Remember
<1>5. r = live /\ live # 0 /\ req[r].p = serving /\ serving \in Proc
  BY AtWork
<1>6. Calm(r, q)
  BY <1>3, <1>4, <1>5, Undisturbed DEF Calm, Remember, clientVars, worldVars, provider
<1>7. Alone' /\ OnlyHidden' /\ HeldTo(hist, Len(hist))' /\ req'[r] = q /\ live' = r
  BY <1>6, CalmKeeps
<1>8. PICK turns, fwd : turns = q.turns /\ fwd = q.fwd /\ turns = req[r].turns /\ fwd = req[r].fwd
  BY <1>3
<1>9. lin'[serving'] = Lineage(Canon(turns), fwd)
  BY <1>5, <1>8 DEF Remember, worldVars, GuardInv, LineagesOK
<1>10. SentAs(turns, Len(turns) - 1, fwd)' /\ AllBlocks(turns, Len(turns) - 1, fwd)
  <2>1. Fitting(req[r])
    BY <1>2, <1>5 DEF Keeping, Frozen
  <2>2. prod' = prod
    BY DEF Remember, provider
  <2>. QED
    BY <1>8, <2>1, <2>2 DEF Fitting, SentAs
<1>11. Frozen'
  <2>1. Fitting(q)'
    BY <1>8, <1>9, <1>10 DEF Fitting
  <2>. QED
    BY <1>3, <1>5, <1>7, <2>1 DEF Frozen
<1>12. Out'
  BY <1>3, <1>7 DEF Out, WentOut
<1>. QED
  BY <1>7, <1>11, <1>12 DEF Keeping

\* Two histories that agree on the turns before an item agree on the item.
LEMMA OneCanon ==
  ASSUME NEW t1, NEW t2, NEW n \in Nat, Len(t1) = n, Len(t2) = n,
         \A e \in 1..n : t1[e].u = t2[e].u,
         \A e \in 1..(n - 1) : t1[e].a = t2[e].a /\ t1[e].x = t2[e].x
  PROVE  Canon(t1) = Canon(t2)
<1>. DEFINE item(t, j) == IF User(j) THEN <<t[TurnOf(j)].u>> ELSE <<t[TurnOf(j)].a, t[TurnOf(j)].x>>
<1>1. Items(t1) = 1..(2 * n - 1) /\ Items(t2) = 1..(2 * n - 1)
  BY DEF Items
<1>2. ASSUME NEW j \in 1..(2 * n - 1) PROVE item(t1, j) = item(t2, j)
  <2>1. CASE User(j)
    <3>1. TurnOf(j) \in 1..n
      BY <2>1 DEF User, TurnOf
    <3>. QED
      BY <2>1, <3>1
  <2>2. CASE ~User(j)
    <3>1. TurnOf(j) \in 1..(n - 1)
      <4>1. j % 2 = 0 /\ j = 2 * (j \div 2)
        BY <2>2 DEF User
      <4>2. PICK m \in Int : j = 2 * m
        BY <4>1
      <4>3. TurnOf(j) = m
        BY <4>2 DEF TurnOf
      <4>. QED
        BY <4>2, <4>3
    <3>. QED
      BY <2>2, <3>1
  <2>. QED
    BY <2>1, <2>2
<1>3. [j \in 1..(2 * n - 1) |-> item(t1, j)] = [j \in 1..(2 * n - 1) |-> item(t2, j)]
  BY <1>2
<1>. QED
  BY <1>1, <1>3 DEF Canon

LEMMA KeepStart ==
  ASSUME Init
  PROVE  Keeping
<1>1. /\ serving \in Proc /\ hist = << >> /\ live = 0 /\ req = << >> /\ lin[serving] = Cold
      /\ known[serving] = Nothing /\ off[serving] = 0 /\ journal = << >>
      /\ evicted = [items |-> {}, blocks |-> {}]
  <2>1. serving \in Proc
    BY GuardStart DEF GuardInv, RequestsTypeOK
  <2>. QED
    BY <2>1 DEF Init, GuardInit
<1>2. Alone
  BY <1>1 DEF Alone, Active
<1>3. OnlyHidden
  BY <1>1 DEF OnlyHidden, Table, Nothing
<1>4. HeldTo(hist, Len(hist)) /\ Frozen /\ Out
  BY <1>1 DEF HeldTo, Frozen, Lined, Out
<1>. QED
  BY <1>2, <1>3, <1>4 DEF Keeping

LEMMA SendKeeps ==
  ASSUME GuardInv, Keeping, Send
  PROVE  Keeping'
<1>1. PICK n : n = Len(req)
  OBVIOUS
<1>2. PICK q : /\ q.st = "new" /\ q.p = serving /\ req' = Append(req, q)
  <2>1. [st |-> "new", p |-> serving, turns |-> Append(hist, Open(0))].st = "new"
    OBVIOUS
  <2>2. [st |-> "new", p |-> serving, turns |-> Append(hist, Open(0))].p = serving
    OBVIOUS
  <2>. QED
    BY <2>1, <2>2 DEF Send
<1>3. /\ n \in Nat /\ DOMAIN req = 1..n /\ DOMAIN req' = 1..(n + 1)
      /\ req'[n + 1] = q /\ \A s \in 1..n : req'[s] = req[s]
  BY <1>1, <1>2, Appended DEF GuardInv, RequestsOK
<1>4. /\ live = 0 /\ live' = n + 1 /\ UNCHANGED <<guardVars, hist, serving, lin, evicted, prod>>
  BY <1>1 DEF Send, worldVars, provider
<1>5. \A s \in DOMAIN req : ~Active(s) /\ ~(Active(s)') /\ s \in DOMAIN req'
  BY <1>3, <1>4 DEF Keeping, Alone, Active
<1>6. Alone'
  <2>1. \A s \in DOMAIN req' : s = n + 1 \/ s \in DOMAIN req
    BY <1>3
  <2>. QED
    BY <1>2, <1>3, <1>4, <1>5, <2>1 DEF Keeping, Alone, guardVars
<1>7. OnlyHidden'
  BY <1>4, <1>5 DEF Keeping, OnlyHidden, Table, guardVars
<1>8. HeldTo(hist, Len(hist))'
  <2>1. PICK h, m : h = hist /\ m = Len(hist)
    OBVIOUS
  <2>2. TableStays
    BY <1>4 DEF guardVars, TableStays, Table, Keeping, OnlyHidden
  <2>3. HeldTo(h, m)'
    BY <1>4, <2>1, <2>2, HeldStays DEF Keeping
  <2>. QED
    BY <1>4, <2>1, <2>3
<1>9. Frozen'
  <2>1. Lined
    BY <1>4 DEF Keeping, Frozen
  <2>2. Lined'
    <3>1. PICK h, m, l : h = hist /\ m = Len(hist) /\ l = lin[serving]
      OBVIOUS
    <3>2. h # << >> => SentAs(h, m, l.fwd)'
      BY <1>4, <2>1, <3>1 DEF Lined, SentAs
    <3>. QED
      BY <1>4, <2>1, <3>1, <3>2 DEF Lined
  <2>. QED
    BY <1>2, <1>3, <1>4, <2>2 DEF Frozen
<1>10. Out'
  BY <1>2, <1>3, <1>4 DEF Out, WentOut
<1>. QED
  BY <1>6, <1>7, <1>8, <1>9, <1>10 DEF Keeping

LEMMA RelayKeeps ==
  ASSUME GuardInv, GuardInv', AcceptInv, Keeping, NEW r \in DOMAIN req, Active(r), Relay(r)
  PROVE  Keeping'
<1>0. PICK turns, n, fwd : turns = req[r].turns /\ n = Len(turns) /\ fwd = req[r].fwd
  OBVIOUS
<1>1. r = live /\ live # 0 /\ req[r].p = serving /\ serving \in Proc
  BY AtWork
<1>2. PICK x \in {"plain", "spliced", "requeried"} :
        /\ x # "plain" => req[r].iters # 0
        /\ n = Len(hist) + 1 /\ \A k \in 1..Len(hist) : turns[k] = hist[k]
        /\ DOMAIN hist' = 1..n /\ Len(hist') = n /\ hist'[n].a = r /\ hist'[n].x = x
        /\ hist'[n].u = turns[n].u /\ turns[n] \in TurnItem
        /\ \A k \in 1..Len(hist) : hist'[k] = hist[k]
  BY <1>0, <1>1, Relayed
<1>3. /\ turns \in Seq(TurnItem) /\ turns # << >> /\ hist' \in Seq(TurnItem) /\ Len(hist) \in Nat /\ n \in Nat \ {0}
  <2>1. turns \in Seq(TurnItem) /\ turns # << >> /\ hist' \in Seq(TurnItem) /\ hist \in Seq(TurnItem)
    BY <1>0, OpenRequest DEF GuardInv, ClientOK
  <2>. QED
    BY <1>2, <2>1, LenProperties
<1>4. /\ live' = 0 /\ req' = [req EXCEPT ![r] = Idle] /\ req[r].st = "posted"
      /\ UNCHANGED <<guardVars, serving, lin, evicted, prod>>
  BY <1>1 DEF Relay, worldVars, provider
<1>5. /\ DOMAIN req' = DOMAIN req /\ \A s \in DOMAIN req : ~(Active(s)')
  <2>1. \A s \in DOMAIN req : s # r => ~Active(s)
    BY <1>1 DEF Keeping, Alone
  <2>2. DOMAIN req' = DOMAIN req /\ req'[r] = Idle /\ \A s \in DOMAIN req : s # r => req'[s] = req[s]
    BY <1>4
  <2>. QED
    BY <2>1, <2>2 DEF Active, Idle
<1>6. Alone'
  BY <1>4, <1>5 DEF Keeping, Alone, guardVars
<1>7. OnlyHidden'
  BY <1>4, <1>5 DEF Keeping, OnlyHidden, Table, guardVars
<1>8. PICK g : g = hist'
  OBVIOUS
<1>9. /\ g \in Seq(TurnItem) /\ Len(g) = n /\ g[n].a = r /\ g[n].x = x
      /\ \A k \in 1..n : g[k].u = turns[k].u
      /\ \A k \in 1..(n - 1) : g[k].a = turns[k].a /\ g[k].x = turns[k].x
      /\ \A k \in 1..(n - 1) : g[k] = turns[k] /\ turns[k] = hist[k]
  BY <1>2, <1>3, <1>8
<1>10. OutAs(r, req[r]) /\ Fitting(req[r]) /\ lin[serving] = Lineage(Canon(turns), fwd)
  BY <1>0, <1>1, <1>4 DEF Keeping, Out, WentOut, Frozen, Fitting
<1>11. TableStays
  BY <1>4 DEF guardVars, TableStays, Table, Keeping, OnlyHidden
<1>12. HeldTo(hist, Len(hist))'
  <2>1. ASSUME NEW k \in 1..(n - 1) PROVE HeldAt(g, k)'
    <3>1. PICK h : h = hist /\ h \in Seq(TurnItem) /\ Len(h) = n - 1
      BY <1>2, <1>3 DEF GuardInv, ClientOK
    <3>2. HeldAt(h, k)
      <4>1. \A j \in 1..Len(hist) : HeldAt(hist, j)
        BY DEF Keeping, HeldTo
      <4>2. k \in 1..Len(hist)
        BY <3>1
      <4>. QED
        BY <3>1, <4>1, <4>2
    <3>3. g[k] = h[k] /\ \A j \in 1..k : g[j] = h[j]
      <4>1. \A j \in 1..(n - 1) : g[j] = h[j]
        BY <1>9, <3>1
      <4>2. n \in Nat /\ k \in 1..(n - 1) /\ \A j \in 1..k : j \in 1..(n - 1)
        BY <1>3
      <4>. QED
        BY <4>1, <4>2
    <3>4. ClientPrefix(h, k) = ClientPrefix(g, k)
      <4>1. k \in 1..Len(h) /\ k <= Len(g)
        BY <1>3, <1>9, <3>1
      <4>2. (\A e \in 1..k : h[e].u = g[e].u) /\ \A e \in 1..(k - 1) : h[e].a = g[e].a
        BY <1>3, <3>3
      <4>. QED
        BY <1>9, <3>1, <4>1, <4>2, SamePrefix
    <3>5. Unedited(g, k)'
      BY <1>4, <3>2, <3>3, <3>4 DEF HeldAt, Unedited
    <3>6. Holding(g[k].a)'
      BY <1>4, <1>11, <3>2, <3>3, HoldingStays DEF HeldAt
    <3>7. Foregoing(g, k, prod[2 * g[k].a].p)
      <4>1. Foregoing(h, k, prod[2 * g[k].a].p)
        BY <3>2, <3>3 DEF HeldAt
      <4>2. \A j \in 1..(k - 1) : g[j] = h[j]
        BY <3>3
      <4>. QED
        BY <4>1, <4>2 DEF Foregoing
    <3>8. g[k].x # "plain" => 2 * g[k].a + 1 \in Table'.out
      BY <1>11, <3>2, <3>3 DEF HeldAt, TableStays
    <3>. QED
      BY <1>4, <3>5, <3>6, <3>7, <3>8 DEF HeldAt, Foregoing
  <2>2. HeldAt(g, n)'
    <3>1. prod[2 * r].o = Asked(turns) /\ Holding(r) /\ Foregoing(turns, n, prod[2 * r].p)
      BY <1>0, <1>10 DEF OutAs
    <3>2. ClientPrefix(turns, n) = ClientPrefix(g, n)
      <4>1. n \in 1..Len(turns) /\ n <= Len(g)
        BY <1>0, <1>3, <1>9
      <4>2. (\A e \in 1..n : turns[e].u = g[e].u) /\ \A e \in 1..(n - 1) : turns[e].a = g[e].a
        BY <1>9
      <4>. QED
        BY <1>3, <1>9, <4>1, <4>2, SamePrefix
    <3>3. Unedited(g, n)'
      BY <1>0, <1>4, <1>9, <3>1, <3>2 DEF Unedited, Asked
    <3>4. Holding(r)'
      BY <1>4, <1>11, <3>1, HoldingStays
    <3>5. Foregoing(g, n, prod[2 * r].p)
      BY <1>9, <3>1 DEF Foregoing
    <3>6. x # "plain" => 2 * r + 1 \in Table'.out
      BY <1>2, <1>4, <1>10, <1>11 DEF OutAs, TableStays
    <3>. QED
      BY <1>4, <1>9, <3>3, <3>4, <3>5, <3>6 DEF HeldAt, Foregoing
  <2>3. \A k \in 1..n : k = n \/ k \in 1..(n - 1)
    BY <1>3
  <2>4. HeldTo(g, n)'
    BY <2>1, <2>2, <2>3 DEF HeldTo
  <2>. QED
    BY <1>8, <1>9, <2>4
<1>13. Frozen'
  <2>1. lin'[serving'] # Cold
    BY <1>4, <1>10 DEF Lineage, Cold
  <2>2. Canon(g) = Canon(turns)
    BY <1>0, <1>3, <1>9, OneCanon
  <2>3. SentAs(turns, n - 1, fwd) /\ AllBlocks(turns, n - 1, fwd)
    BY <1>0, <1>10 DEF Fitting
  <2>4. ASSUME NEW k \in 1..n PROVE prod[2 * g[k].a].f = Prefix("with distil_expand", g, fwd, k)
    <3>1. Prefix("with distil_expand", g, fwd, k) = Prefix("with distil_expand", turns, fwd, k)
      <4>1. k \in Nat \ {0} /\ (\A e \in 1..k : g[e].u = turns[e].u) /\ \A e \in 1..(k - 1) : g[e].a = turns[e].a
        BY <1>3, <1>9
      <4>2. PICK f, tools : f = fwd /\ tools = "with distil_expand"
        OBVIOUS
      <4>3. \A j \in 1..(2 * k - 1) : User(j) => fwd[j] = f[j]
        BY <4>2
      <4>4. Prefix(tools, g, fwd, k) = Prefix(tools, turns, f, k)
        BY <4>1, <4>3, OnePrefix
      <4>. QED
        BY <4>2, <4>4
    <3>2. CASE k = n
      <4>1. prod[2 * r].f = Full(turns, fwd)
        BY <1>0, <1>10 DEF OutAs
      <4>. QED
        BY <1>0, <1>9, <3>1, <3>2, <4>1 DEF Full
    <3>3. CASE k \in 1..(n - 1)
      BY <1>9, <2>3, <3>1, <3>3 DEF SentAs
    <3>. QED
      <4>1. k = n \/ k \in 1..(n - 1)
        BY <1>3
      <4>. QED
        BY <3>2, <3>3, <4>1
  <2>5. SentAs(g, n, fwd)'
    BY <1>4, <2>4 DEF SentAs
  <2>6. AllBlocks(g, n - 1, fwd)
    BY <1>9, <2>3 DEF AllBlocks
  <2>7. lin'[serving'].canon = Canon(g) /\ lin'[serving'].fwd = fwd
    BY <1>4, <1>10, <2>2 DEF Lineage
  <2>8. g # << >>
    BY <1>3, <1>9
  <2>9. Lined'
    BY <1>8, <1>9, <2>1, <2>5, <2>6, <2>7, <2>8 DEF Lined
  <2>. QED
    BY <1>4, <2>9 DEF Frozen
<1>14. Out'
  BY <1>4 DEF Out
<1>. QED
  BY <1>6, <1>7, <1>12, <1>13, <1>14 DEF Keeping

\* With the decisions frozen, every item of the lineage goes out as it went out before.
LEMMA AllHits ==
  ASSUME NEW prev, prev # Cold, NEW canon, NEW fresh, NEW n \in Nat,
         Len(prev.canon) = n, Len(canon) \in Nat, n <= Len(canon),
         \A i \in 1..n : canon[i] = prev.canon[i]
  PROVE  Hits(prev, canon, fresh, TRUE, 0) = n
<1>. DEFINE limit == IF Len(canon) < Len(prev.canon) THEN Len(canon) ELSE Len(prev.canon)
            same(i) == canon[i] = prev.canon[i] /\ (TRUE \/ fresh[i] = prev.fwd[i]) /\ i # 0
            T == {h \in 0..limit : \A i \in 1..h : same(i)}
<1>1. limit = n
  OBVIOUS
<1>2. T \subseteq Nat /\ n \in T /\ \A x \in T : x <= n
  BY <1>1
<1>3. Max(T) \in T /\ \A y \in T : y <= Max(T)
  BY <1>2, GreatestOf
<1>4. Hits(prev, canon, fresh, TRUE, 0) = Max(T)
  BY DEF Hits
<1>. HIDE DEF T
<1>5. PICK top : top = Max(T)
  OBVIOUS
<1>6. top \in Nat /\ top <= n /\ n <= top
  BY <1>2, <1>3, <1>5
<1>7. top = n
  BY <1>6
<1>. QED
  BY <1>4, <1>5, <1>7

LEMMA CompressKeeps ==
  ASSUME GuardInv, AcceptInv, Keeping, NEW r \in DOMAIN req, Active(r),
         NEW form, NEW cold, NEW stuck, NEW raises, Compress(r, form, cold, stuck, raises), ~disturbed'
  PROVE  Keeping'
<1>1. r = live /\ live # 0 /\ req[r].p = serving /\ serving \in Proc
  BY AtWork
<1>2. PICK turns, n, m : turns = req[r].turns /\ n = Len(turns) /\ m = Len(hist)
  OBVIOUS
<1>3. PICK h : h = hist
  OBVIOUS
<1>4. /\ turns \in Seq(TurnItem) /\ turns # << >> /\ n = m + 1 /\ m \in Nat /\ n \in Nat
      /\ h \in Seq(TurnItem) /\ Len(h) = m /\ \A k \in 1..m : turns[k] = h[k]
  BY <1>2, <1>3, TheTurns
<1>5. cold = 0 /\ stuck = 0 /\ evicted' = evicted
  BY DEF Compress
<1>6. PICK fresh : /\ fresh = IF raises THEN Raw(turns) ELSE Compressed(turns, form, evicted)
                   /\ req' = [req EXCEPT ![r] = [st |-> "compressed", p |-> serving, turns |-> turns,
                         fwd |-> Replay(lin[serving], Canon(turns), fresh, TRUE, 0)]]
  BY <1>1, <1>2, <1>5 DEF Compress
<1>7. PICK fwd, q : /\ fwd = Replay(lin[serving], Canon(turns), fresh, TRUE, 0)
                    /\ q = [st |-> "compressed", p |-> serving, turns |-> turns, fwd |-> fwd]
  OBVIOUS
<1>8. /\ q.st = "compressed" /\ q.p = serving /\ q.turns = turns /\ q.fwd = fwd
      /\ req' = [req EXCEPT ![r] = q]
  BY <1>6, <1>7
<1>9. req[r].st = "new" /\ UNCHANGED <<guardVars, hist, live, serving, lin, prod>>
  BY DEF Compress, clientVars, provider
<1>10. Calm(r, q)
  BY <1>1, <1>2, <1>5, <1>8, <1>9, Undisturbed DEF Calm
<1>11. Alone' /\ OnlyHidden' /\ HeldTo(hist, Len(hist))' /\ req'[r] = q /\ live' = r
  BY <1>10, CalmKeeps
<1>12. Lined
  BY <1>1, <1>9 DEF Keeping, Frozen
<1>13. /\ DOMAIN fresh = Items(turns) /\ Items(turns) = 1..(2 * n - 1)
       /\ \A k \in 1..m : fresh[2 * k] = Blocks(turns[k])
  <2>1. evicted.items = {} /\ evicted.blocks = {}
    BY DEF Keeping, Alone
  <2>2. DOMAIN fresh = Items(turns) /\ Items(turns) = 1..(2 * n - 1)
    BY <1>2, <1>6 DEF Raw, Compressed, Items
  <2>3. ASSUME NEW k \in 1..m PROVE fresh[2 * k] = Blocks(turns[k])
    <3>1. PICK j \in Items(turns) : j = 2 * k
      BY <1>4, <2>2
    <3>2. ~User(j) /\ TurnOf(j) = k
      BY <1>4, <3>1 DEF User, TurnOf
    <3>3. Raw(turns)[j] = Blocks(turns[k]) /\ Compressed(turns, form, evicted)[j] = Blocks(turns[k]) \ {}
      BY <2>1, <3>1, <3>2 DEF Raw, Compressed
    <3>. QED
      BY <1>6, <3>1, <3>3
  <2>. QED
    BY <2>2, <2>3
<1>14. /\ SentAs(turns, m, fwd) /\ AllBlocks(turns, m, fwd)
  <2>1. CASE h = << >>
    <3>1. m = 0
      BY <1>4, <2>1
    <3>. QED
      BY <3>1 DEF SentAs, AllBlocks
  <2>2. CASE h # << >>
    <3>1. PICK l : l = lin[serving]
      OBVIOUS
    <3>2. /\ l # Cold /\ l.canon = Canon(h)
          /\ SentAs(h, m, l.fwd) /\ AllBlocks(h, m - 1, l.fwd)
      BY <1>2, <1>3, <1>12, <2>2, <3>1 DEF Lined
    <3>3. m \in Nat \ {0} /\ Len(Canon(h)) = 2 * m - 1 /\ Len(Canon(turns)) = 2 * n - 1
      BY <1>2, <1>4, <2>2, TheItems
    <3>4. ASSUME NEW j \in 1..(2 * m - 1) PROVE Canon(turns)[j] = Canon(h)[j]
      <4>1. j \in Items(h) /\ j \in Items(turns)
        BY <1>4, <1>13, <3>3 DEF Items
      <4>2. TurnOf(j) \in 1..m
        BY <1>4, <2>2, <4>1, TheItems
      <4>3. turns[TurnOf(j)] = h[TurnOf(j)]
        BY <1>4, <4>2
      <4>. QED
        BY <4>1, <4>3 DEF Canon
    <3>5. PICK i \in Nat : i = 2 * m - 1
      BY <3>3
    <3>6. Hits(l, Canon(turns), fresh, TRUE, 0) = i
      <4>1. PICK canon : canon = Canon(turns)
        OBVIOUS
      <4>2. Len(l.canon) = i /\ Len(canon) \in Nat /\ i <= Len(canon) /\ \A j \in 1..i : canon[j] = l.canon[j]
        <5>1. Len(l.canon) = i
          BY <3>2, <3>3, <3>5
        <5>2. Len(canon) = 2 * n - 1 /\ Len(canon) \in Nat /\ i <= Len(canon)
          BY <1>4, <3>3, <3>5, <4>1
        <5>3. \A j \in 1..i : canon[j] = l.canon[j]
          BY <3>2, <3>4, <3>5, <4>1
        <5>. QED
          BY <5>1, <5>2, <5>3
      <4>3. Hits(l, canon, fresh, TRUE, 0) = i
        BY <3>2, <4>2, AllHits
      <4>. QED
        BY <4>1, <4>3
    <3>7. \A j \in 1..(2 * n - 1) : fwd[j] = IF j <= i THEN l.fwd[j] ELSE fresh[j]
      BY <1>7, <1>13, <3>1, <3>6 DEF Replay
    <3>8. ASSUME NEW k \in 1..m PROVE prod[2 * turns[k].a].f = Prefix("with distil_expand", turns, fwd, k)
      <4>1. turns[k] = h[k] /\ prod[2 * h[k].a].f = Prefix("with distil_expand", h, l.fwd, k)
        BY <1>4, <3>2 DEF SentAs
      <4>2. k \in Nat \ {0} /\ (\A e \in 1..k : h[e].u = turns[e].u) /\ \A e \in 1..(k - 1) : h[e].a = turns[e].a
        BY <1>4
      <4>3. PICK lf, tools : lf = l.fwd /\ tools = "with distil_expand"
        OBVIOUS
      <4>4. \A j \in 1..(2 * k - 1) : User(j) => lf[j] = fwd[j]
        <5>. TAKE j \in 1..(2 * k - 1)
        <5>1. j \in 1..(2 * n - 1) /\ j <= i
          BY <1>4, <3>5
        <5>. QED
          BY <3>7, <4>3, <5>1
      <4>5. Prefix(tools, h, lf, k) = Prefix(tools, turns, fwd, k)
        BY <4>2, <4>4, OnePrefix
      <4>. QED
        BY <4>1, <4>3, <4>5
    <3>9. ASSUME NEW k \in 1..m PROVE fwd[2 * k] = Blocks(turns[k])
      <4>1. PICK j \in 1..(2 * n - 1) : j = 2 * k
        BY <1>4
      <4>2. CASE k = m
        BY <1>4, <1>13, <3>5, <3>7, <4>1, <4>2
      <4>3. CASE k \in 1..(m - 1)
        <5>1. l.fwd[2 * k] = Blocks(h[k])
          BY <3>2, <4>3 DEF AllBlocks
        <5>2. j <= i
          BY <1>4, <3>5, <4>1, <4>3
        <5>. QED
          BY <1>4, <3>7, <4>1, <5>1, <5>2
      <4>. QED
        BY <1>4, <4>2, <4>3
    <3>. QED
      BY <3>8, <3>9 DEF SentAs, AllBlocks
  <2>. QED
    BY <2>1, <2>2
<1>15. Fitting(q)'
  <2>1. prod' = prod /\ n - 1 = m
    BY <1>4, <1>9
  <2>2. SentAs(turns, m, fwd)'
    BY <1>14, <2>1 DEF SentAs
  <2>. QED
    BY <1>2, <1>8, <1>14, <2>1, <2>2 DEF Fitting
<1>16. Lined'
  <2>1. PICK l : l = lin[serving]
    OBVIOUS
  <2>2. h # << >> => SentAs(h, m, l.fwd)'
    BY <1>2, <1>3, <1>9, <1>12, <2>1 DEF Lined, SentAs
  <2>. QED
    BY <1>2, <1>3, <1>9, <1>12, <2>1, <2>2 DEF Lined
<1>17. Frozen'
  BY <1>11, <1>15, <1>16 DEF Frozen
<1>18. Out'
  BY <1>8, <1>11 DEF Out, WentOut
<1>. QED
  BY <1>11, <1>17, <1>18 DEF Keeping

-----------------------------------------------------------------------------
(* The verdict when nothing but turns happened.                            *)

\* When every block that is not out may stay, all of them do.
LEMMA AllJudged ==
  ASSUME NEW t, NEW places, NEW in, in = {pl \in places : pl.b \notin t.out},
         \A pl \in in : Stays(t, pl, BlockBefore(in, pl))
  PROVE  Judged(t, places).stay = in
<1>. DEFINE fails == {pl \in in : ~Stays(t, pl, LastBlock({q \in in : Precedes(q, pl)}))}
            judged == {pl \in in : \A q \in fails : ~Precedes(q, pl)}
<1>1. fails = {}
  BY DEF BlockBefore
<1>2. judged \ fails = in
  BY <1>1
<1>3. Judged(t, places).stay = judged \ fails
  BY DEF Judged
<1>. QED
  BY <1>2, <1>3

\* Some blocks are the first one of every answer whose first block the client was shown.
Shown(turns, n, in) ==
  /\ \A pl \in in : pl.k \in 1..n /\ turns[pl.k].x # "requeried" /\ pl.b = 2 * turns[pl.k].a /\ pl.b \in Nat
  /\ \A k \in 1..n : turns[k].x # "requeried" => \E pl \in in : pl.k = k

LEMMA LastShown ==
  ASSUME NEW turns, NEW n \in Nat, NEW in, Shown(turns, n, in), NEW k \in 1..(n + 1)
  PROVE  Foregoing(turns, k, LastBlock({q \in in : q.k < k}))
<1>1. PICK S : S = {q \in in : q.k < k}
  OBVIOUS
<1>2. CASE S = {}
  <2>1. LastBlock(S) = NoBlock
    BY <1>2 DEF LastBlock
  <2>2. ASSUME NEW j \in 1..(k - 1), turns[j].x # "requeried" PROVE FALSE
    <3>1. j \in 1..n /\ j < k
      OBVIOUS
    <3>2. PICK pl \in in : pl.k = j
      BY <2>2, <3>1 DEF Shown
    <3>. QED
      BY <1>1, <1>2, <3>1, <3>2
  <2>. QED
    BY <1>1, <2>1, <2>2 DEF Foregoing
<1>3. CASE S # {}
  <2>1. PICK T : T = {q.k : q \in S}
    OBVIOUS
  <2>2. \A q \in S : q \in in /\ q.k \in 1..n /\ q.k < k /\ q.b = 2 * turns[q.k].a /\ q.b \in Nat
    BY <1>1 DEF Shown
  <2>3. T \subseteq Nat /\ T # {} /\ \A x \in T : x <= n
    BY <1>3, <2>1, <2>2
  <2>4. Max(T) \in T /\ \A y \in T : y <= Max(T)
    BY <2>3, GreatestOf
  <2>5. PICK p \in S : p.k = Max(T)
    BY <2>1, <2>4
  <2>6. ASSUME NEW q \in S PROVE ~Precedes(p, q)
    <3>1. q.k <= p.k /\ q.k \in Nat /\ p.k \in Nat
      BY <2>1, <2>2, <2>4, <2>5
    <3>2. q.k = p.k => q.b = p.b /\ q.b \in Nat
      BY <2>2
    <3>. QED
      BY <3>1, <3>2 DEF Precedes
  <2>7. PICK c : c = CHOOSE pl \in S : \A q \in S : ~Precedes(pl, q)
    OBVIOUS
  <2>8. c \in S /\ \A q \in S : ~Precedes(c, q)
    BY <2>6, <2>7
  <2>9. LastBlock(S) = c.b
    BY <1>3, <2>7 DEF LastBlock
  <2>10. c.k \in 1..(k - 1) /\ turns[c.k].x # "requeried" /\ c.b = 2 * turns[c.k].a
    BY <1>1, <2>2, <2>8 DEF Shown
  <2>11. ASSUME NEW i \in (c.k + 1)..(k - 1), turns[i].x # "requeried" PROVE FALSE
    <3>1. i \in 1..n /\ i < k /\ c.k < i
      BY <2>10
    <3>2. PICK q \in in : q.k = i
      BY <2>11, <3>1 DEF Shown
    <3>3. q \in S
      BY <1>1, <3>1, <3>2
    <3>. QED
      BY <2>8, <3>1, <3>2, <3>3 DEF Precedes
  <2>. QED
    BY <1>1, <2>9, <2>10, <2>11 DEF Foregoing
<1>. QED
  BY <1>2, <1>3

LEMMA OneForegoing ==
  ASSUME NEW turns, NEW k \in Nat, NEW m1, NEW m2, Foregoing(turns, k, m1), Foregoing(turns, k, m2)
  PROVE  m1 = m2
<1>1. CASE \A j \in 1..(k - 1) : turns[j].x = "requeried"
  BY <1>1 DEF Foregoing
<1>2. CASE ~\A j \in 1..(k - 1) : turns[j].x = "requeried"
  <2>1. PICK j1 \in 1..(k - 1) : /\ turns[j1].x # "requeried" /\ m1 = 2 * turns[j1].a
                                 /\ \A i \in (j1 + 1)..(k - 1) : turns[i].x = "requeried"
    BY <1>2 DEF Foregoing
  <2>2. PICK j2 \in 1..(k - 1) : /\ turns[j2].x # "requeried" /\ m2 = 2 * turns[j2].a
                                 /\ \A i \in (j2 + 1)..(k - 1) : turns[i].x = "requeried"
    BY <1>2 DEF Foregoing
  <2>3. ~(j1 < j2) /\ ~(j2 < j1)
    BY <2>1, <2>2
  <2>4. j1 = j2
    BY <2>3
  <2>. QED
    BY <2>1, <2>2, <2>4
<1>. QED
  BY <1>1, <1>2

\* Where the blocks are when none is missing.
LEMMA WholePlaces ==
  ASSUME NEW turns, NEW n \in Nat, Len(turns) = n + 1, NEW fwd, AllBlocks(turns, n, fwd)
  PROVE  /\ \A pl \in Places(turns, fwd) : pl.k \in 1..n /\ pl.b \in Blocks(turns[pl.k])
         /\ \A k \in 1..n : \A b \in Blocks(turns[k]) : \E pl \in Places(turns, fwd) : pl.k = k /\ pl.b = b
<1>1. \A k, b : Place(turns, fwd, k, b).k = k /\ Place(turns, fwd, k, b).b = b
  BY DEF Place
<1>2. Places(turns, fwd) = UNION {{Place(turns, fwd, k, b) : b \in fwd[2 * k]} : k \in 1..n}
  BY DEF Places
<1>3. ASSUME NEW pl \in Places(turns, fwd) PROVE pl.k \in 1..n /\ pl.b \in Blocks(turns[pl.k])
  <2>0. PICK k \in 1..n : \E b \in fwd[2 * k] : pl = Place(turns, fwd, k, b)
    BY <1>2
  <2>1. PICK b \in fwd[2 * k] : pl = Place(turns, fwd, k, b)
    BY <2>0
  <2>. QED
    BY <1>1, <2>1 DEF AllBlocks
<1>4. ASSUME NEW k \in 1..n, NEW b \in Blocks(turns[k])
      PROVE \E pl \in Places(turns, fwd) : pl.k = k /\ pl.b = b
  <2>1. b \in fwd[2 * k]
    BY DEF AllBlocks
  <2>2. Place(turns, fwd, k, b) \in Places(turns, fwd)
    <3>1. Place(turns, fwd, k, b) \in {Place(turns, fwd, k, c) : c \in fwd[2 * k]}
      BY <2>1
    <3>2. {Place(turns, fwd, k, c) : c \in fwd[2 * k]}
             \in {{Place(turns, fwd, j, c) : c \in fwd[2 * j]} : j \in 1..n}
      OBVIOUS
    <3>. QED
      BY <1>2, <3>1, <3>2
  <2>. QED
    BY <1>1, <2>2
<1>. QED
  BY <1>3, <1>4

LEMMA OddEven ==
  ASSUME NEW a \in Nat, NEW b \in {2 * a, 2 * a + 1}
  PROVE  (b % 2 = 1 <=> b = 2 * a + 1) /\ b \in Nat /\ 2 * a # 2 * a + 1
OBVIOUS

LEMMA BlocksShown ==
  ASSUME NEW t \in TurnItem
  PROVE  /\ Blocks(t) \subseteq {2 * t.a, 2 * t.a + 1} /\ t.a \in Nat
         /\ 2 * t.a \in Blocks(t) <=> t.x # "requeried"
         /\ 2 * t.a + 1 \in Blocks(t) => t.x # "plain"
<1>1. t.a \in Nat /\ t.x \in {"plain", "spliced", "requeried"}
  BY DEF TurnItem
<1>. QED
  BY <1>1 DEF Blocks

\* A block that is not out stands where it stood, and its record is the provider's.
StandsAsSent(turns, pl) ==
  LET made == prod[pl.b]
  IN /\ pl.k \in 1..Len(hist) /\ pl.b = 2 * turns[pl.k].a /\ turns[pl.k].x # "requeried"
     /\ turns[pl.k] = hist[pl.k] /\ pl.b \in Nat
     /\ Infer(Table, pl) = made /\ Known(Table, pl) /\ Record(Table, pl) = made /\ pl.f = made.f
     /\ Foregoing(turns, pl.k, made.p)

LEMMA AsSent ==
  ASSUME GuardInv, AcceptInv, Keeping, NEW r \in DOMAIN req, Active(r), req[r].st = "judged",
         NEW turns, turns = req[r].turns, NEW fwd, fwd = req[r].fwd, NEW pl \in Places(turns, fwd)
  PROVE  /\ \E a \in DOMAIN req : ~Active(a) /\ pl.b \in {2 * a, 2 * a + 1}
         /\ pl.b \in Table.out \/ StandsAsSent(turns, pl)
<1>1. PICK h, m : h = hist /\ m = Len(hist)
  OBVIOUS
<1>2. /\ turns \in Seq(TurnItem) /\ turns # << >> /\ m \in Nat /\ Len(turns) = m + 1
      /\ h \in Seq(TurnItem) /\ Len(h) = m /\ \A k \in 1..m : turns[k] = h[k]
  BY <1>1, TheTurns
<1>3. SentAs(turns, m, fwd) /\ AllBlocks(turns, m, fwd)
  <2>1. Fitting(req[r])
    BY AtWork DEF Keeping, Frozen
  <2>2. SentAs(turns, Len(turns) - 1, fwd) /\ AllBlocks(turns, Len(turns) - 1, fwd)
    BY <2>1 DEF Fitting
  <2>3. Len(turns) - 1 = m
    BY <1>2
  <2>. QED
    BY <2>2, <2>3
<1>4. FormsIn(turns, fwd)
  BY OthersBlocks
<1>5. PICK k \in 1..(Len(turns) - 1) : turns[k].a \in DOMAIN req /\ StandsFor(turns, pl, k, turns[k].a)
  BY OthersBlocks
<1>6. PICK a \in DOMAIN req : a = turns[k].a /\ StandsFor(turns, pl, k, a)
  BY <1>5
<1>7. /\ k \in 1..m /\ pl.k = k /\ pl.base = ClientPrefix(turns, k) /\ ~Active(a)
      /\ pl.b \in {2 * a, 2 * a + 1} /\ 2 * a \in DOMAIN prod
  BY <1>2, <1>6 DEF StandsFor
<1>8. turns[k] = h[k] /\ h[k] \in TurnItem /\ a \in Nat /\ h[k].a = a
  <2>1. turns[k] = h[k] /\ h[k] \in TurnItem
    BY <1>2, <1>7, ElementOfSeq
  <2>. QED
    BY <1>6, <2>1 DEF TurnItem
<1>9. pl.b \in Blocks(h[k])
  BY <1>2, <1>3, <1>7, <1>8, WholePlaces
<1>10. HeldAt(h, k)
  BY <1>1, <1>7 DEF Keeping, HeldTo
<1>11. CASE pl.b = 2 * a + 1
  <2>1. h[k].x # "plain"
    BY <1>8, <1>9, <1>11, BlocksShown
  <2>. QED
    BY <1>7, <1>8, <1>10, <1>11, <2>1 DEF HeldAt
<1>12. CASE pl.b = 2 * a
  <2>1. h[k].x # "requeried"
    BY <1>8, <1>9, <1>12, BlocksShown
  <2>2. pl.within = << >> /\ pl.before = NoBlock /\ pl.o = pl.base
    BY <1>6, <1>12 DEF StandsFor
  <2>3. PICK made : made = prod[2 * a] /\ InBook(made)
    BY <1>7, TheParts DEF Unheard, Booked
  <2>4. /\ ClientPrefix(h, k) = made.o /\ Holding(a) /\ Foregoing(h, k, made.p)
    BY <1>8, <1>10, <2>3 DEF HeldAt, Unedited
  <2>5. ClientPrefix(turns, k) = ClientPrefix(h, k)
    <3>1. k \in 1..Len(turns) /\ k <= Len(h)
      BY <1>2, <1>7
    <3>2. (\A e \in 1..k : turns[e].u = h[e].u) /\ \A e \in 1..(k - 1) : turns[e].a = h[e].a
      BY <1>2, <1>7
    <3>. QED
      BY <1>2, <3>1, <3>2, SamePrefix
  <2>6. pl.f = made.f
    <3>1. PICK j \in 1..(Len(turns) - 1) :
            /\ pl = Place(turns, fwd, j, pl.b) /\ pl.k = j /\ pl.base = ClientPrefix(turns, j)
            /\ turns[j] \in TurnItem /\ pl.b \in {2 * turns[j].a, 2 * turns[j].a + 1} /\ pl.b \in Nat
            /\ pl.b = 2 * turns[j].a + 1 => turns[j].x # "plain"
            /\ pl.b = 2 * turns[j].a =>
                 /\ pl.within = << >> /\ pl.before = NoBlock /\ pl.o = pl.base
                 /\ pl.f = Prefix("with distil_expand", turns, fwd, j)
      <4>1. turns \in Seq(TurnItem) /\ turns # << >>
        BY <1>2
      <4>. QED
        BY <4>1, <1>4, PlaceAt
    <3>2. pl.f = Prefix("with distil_expand", turns, fwd, k)
      BY <1>6, <1>7, <1>12, <3>1
    <3>3. prod[2 * turns[k].a].f = Prefix("with distil_expand", turns, fwd, k)
      BY <1>3, <1>7 DEF SentAs
    <3>. QED
      BY <1>6, <2>3, <3>2, <3>3
  <2>7. /\ made.o \in DOMAIN Table.asked /\ Table.asked[made.o] = [f |-> made.f, p |-> made.p]
        /\ 2 * a \in DOMAIN Table.blk => Table.blk[2 * a] = made
    BY <2>3, <2>4 DEF Holding
  <2>8. pl.base = made.o
    BY <1>7, <2>4, <2>5
  <2>9. Infer(Table, pl) = made
    <3>1. made.f \o << >> = made.f
      <4>1. PICK S : made.f \in Seq(S)
        BY <2>3 DEF InBook, IsSeq
      <4>. QED
        BY <4>1
    <3>2. PICK rec : rec = Table.asked[pl.base] /\ rec.f = made.f /\ rec.p = made.p
      BY <2>7, <2>8
    <3>3. Infer(Table, pl) = [f |-> made.f \o << >>, o |-> made.o, p |-> made.p]
      BY <2>2, <2>8, <3>2 DEF Infer
    <3>. QED
      BY <2>3, <3>1, <3>3 DEF InBook
  <2>10. Known(Table, pl) /\ Record(Table, pl) = made
    BY <1>12, <2>7, <2>8, <2>9 DEF Known, Record
  <2>11. Foregoing(turns, k, made.p)
    <3>1. \A j \in 1..(k - 1) : turns[j] = h[j]
      BY <1>2, <1>7
    <3>. QED
      BY <2>4, <3>1 DEF Foregoing
  <2>12. pl.b \in Nat
    BY <1>8, <1>12
  <2>13. StandsAsSent(turns, pl)
    BY <1>1, <1>6, <1>7, <1>8, <1>12, <2>1, <2>3, <2>6, <2>9, <2>10, <2>11, <2>12 DEF StandsAsSent
  <2>. QED
    BY <1>7, <2>13
<1>. QED
  BY <1>7, <1>11, <1>12

\* Whatever is not out stays, and the last block of it is the one before the answer.
LEMMA AllStay ==
  ASSUME GuardInv, AcceptInv, Keeping, NEW r \in DOMAIN req, Active(r), req[r].st = "judged",
         NEW turns, turns = req[r].turns, NEW fwd, fwd = req[r].fwd,
         NEW places, places = Places(turns, fwd),
         NEW in, in = {pl \in places : pl.b \notin Table.out}
  PROVE  Judged(Table, places).stay = in /\ Foregoing(turns, Len(turns), LastBlock(in))
<1>1. PICK m : m = Len(hist) /\ m \in Nat /\ Len(turns) = m + 1
               /\ turns \in Seq(TurnItem)
  BY TheTurns
<1>2. \A pl \in in : StandsAsSent(turns, pl)
  BY AsSent
<1>3. AllBlocks(turns, m, fwd)
  <2>1. Fitting(req[r])
    BY AtWork DEF Keeping, Frozen
  <2>2. AllBlocks(turns, Len(turns) - 1, fwd) /\ Len(turns) - 1 = m
    BY <1>1, <2>1 DEF Fitting
  <2>. QED
    BY <2>2
<1>4. Shown(turns, m, in)
  <2>1. ASSUME NEW pl \in in
        PROVE  pl.k \in 1..m /\ turns[pl.k].x # "requeried" /\ pl.b = 2 * turns[pl.k].a /\ pl.b \in Nat
    BY <1>1, <1>2 DEF StandsAsSent
  <2>2. ASSUME NEW k \in 1..m, turns[k].x # "requeried" PROVE \E pl \in in : pl.k = k
    <3>1. turns[k] \in TurnItem
      BY <1>1, ElementOfSeq
    <3>2. PICK b \in Blocks(turns[k]) : b = 2 * turns[k].a /\ turns[k].a \in Nat
      BY <2>2, <3>1, BlocksShown
    <3>3. PICK pl \in places : pl.k = k /\ pl.b = b
      <4>1. m \in Nat /\ Len(turns) = m + 1
        BY <1>1
      <4>2. PICK W : W = Places(turns, fwd)
        OBVIOUS
      <4>3. \E pl \in W : pl.k = k /\ pl.b = b
        BY <1>3, <3>2, <4>1, <4>2, WholePlaces
      <4>. QED
        BY <4>2, <4>3
    <3>4. b % 2 = 0
      BY <3>2
    <3>5. b \notin Table.out
      BY <3>4 DEF Keeping, OnlyHidden
    <3>. QED
      BY <3>3, <3>5
  <2>. QED
    BY <2>1, <2>2 DEF Shown
<1>5. ASSUME NEW pl \in in PROVE Stays(Table, pl, BlockBefore(in, pl))
  <2>1. pl.k \in 1..m /\ StandsAsSent(turns, pl)
    BY <1>2, <1>4 DEF Shown
  <2>2. PICK k \in 1..m : k = pl.k
    BY <2>1
  <2>3. \A q \in in : Precedes(q, pl) <=> q.k < k
    <3>. TAKE q \in in
    <3>1. /\ q.k \in 1..m /\ q.b = 2 * turns[q.k].a /\ q.b \in Nat
          /\ pl.k \in 1..m /\ pl.b = 2 * turns[pl.k].a /\ pl.b \in Nat
      BY <1>4 DEF Shown
    <3>2. q.k = pl.k => q.b = pl.b
      BY <3>1
    <3>. QED
      BY <2>2, <3>1, <3>2 DEF Precedes
  <2>4. BlockBefore(in, pl) = LastBlock({q \in in : q.k < k})
    <3>1. {q \in in : Precedes(q, pl)} = {q \in in : q.k < k}
      BY <2>3
    <3>. QED
      BY <3>1 DEF BlockBefore
  <2>5. Foregoing(turns, k, BlockBefore(in, pl))
    <3>1. k \in 1..(m + 1)
      BY <1>1
    <3>. QED
      BY <1>1, <1>4, <2>4, <3>1, LastShown
  <2>6. PICK made, prev : made = prod[pl.b] /\ prev = BlockBefore(in, pl)
    OBVIOUS
  <2>7. /\ Known(Table, pl) /\ Record(Table, pl) = made /\ pl.f = made.f
        /\ Foregoing(turns, k, made.p)
    BY <2>1, <2>2, <2>6 DEF StandsAsSent
  <2>8. prev = made.p
    BY <1>1, <2>5, <2>6, <2>7, OneForegoing
  <2>. QED
    BY <2>6, <2>7, <2>8 DEF Stays
<1>6. Judged(Table, places).stay = in
  BY <1>5, AllJudged
<1>7. Foregoing(turns, Len(turns), LastBlock(in))
  <2>1. {q \in in : q.k < m + 1} = in
    BY <1>1, <1>4 DEF Shown
  <2>2. PICK k \in 1..(m + 1) : k = m + 1
    BY <1>1
  <2>3. Foregoing(turns, k, LastBlock({q \in in : q.k < k}))
    BY <1>1, <1>4, LastShown
  <2>. QED
    BY <1>1, <2>1, <2>2, <2>3
<1>. QED
  BY <1>6, <1>7

\* What the worker knows when it has appended the verdict's lines.
LEMMA VerdictWritten ==
  ASSUME GuardInv, AcceptInv, Keeping, NEW r \in DOMAIN req, Active(r), req[r].st = "judged",
         NEW turns, turns = req[r].turns, NEW fwd, fwd = req[r].fwd, NEW v, v = req[r].verdict,
         NEW t, t = Table, NEW u, u = ApplyAll(t, v.recs)
  PROVE  /\ \A b \in v.remove : b \in t.out
         /\ Foregoing(turns, Len(turns), v.prev)
         /\ Asked(turns) \in DOMAIN u.asked /\ u.asked[Asked(turns)] = [f |-> Full(turns, fwd), p |-> v.prev]
         /\ \A key \in DOMAIN t.asked : key # Asked(turns) => key \in DOMAIN u.asked /\ u.asked[key] = t.asked[key]
         /\ \A b \in DOMAIN t.blk : b \in DOMAIN u.blk /\ u.blk[b] = t.blk[b]
         /\ \A b \in DOMAIN u.blk : b \notin DOMAIN t.blk =>
              \E pl \in Places(turns, fwd) : pl.b = b /\ u.blk[b] = Infer(t, pl)
         /\ u.out = t.out
<1>1. /\ req[r].p = serving /\ serving \in Proc /\ turns \in Seq(TurnItem) /\ turns # << >>
      /\ FormsOK(turns, fwd) /\ TableOK(t)
  <2>1. FormsOK(turns, fwd)
    BY OpenRequest DEF WellMade
  <2>. QED
    BY <2>1, AtWork, OpenRequest DEF GuardInv, TablesOK, Table
<1>2. PICK places, o, f : places = Places(turns, fwd) /\ o = Asked(turns) /\ f = Full(turns, fwd)
  OBVIOUS
<1>3. IsFiniteSet(places)
  BY <1>1, <1>2, PlacesFinite
<1>4. v = Verdict(t, places, o, f)
  <2>1. Judging
    BY TheParts
  <2>. QED
    BY <1>1, <1>2, <2>1 DEF Judging, Table
<1>5. IsSeq(v.recs)
  BY DEF GuardInv, VerdictsOK
<1>6. /\ v.prev = LastBlock(Judged(t, places).stay)
      /\ v.remove = {pl.b : pl \in places \ Judged(t, places).stay}
      /\ Keys(v.recs, "r") = {o} /\ LastOf(v.recs, "r", o) = [f |-> f, p |-> v.prev]
      /\ \A b \in Keys(v.recs, "e") : \E pl \in places :
           /\ pl.b = b /\ b \notin DOMAIN t.blk /\ pl.base \in DOMAIN t.asked
           /\ LastOf(v.recs, "e", b) = Infer(t, pl)
      /\ \A b \in Keys(v.recs, "d") : b \in v.remove \ t.out
  <2>1. TableOK(t) /\ IsFiniteSet(places)
    BY <1>1, <1>3
  <2>. QED
    BY <1>4, <2>1, VerdictLines
<1>7. PICK in : in = {pl \in places : pl.b \notin t.out}
  OBVIOUS
<1>8. Judged(t, places).stay = in /\ Foregoing(turns, Len(turns), LastBlock(in))
  BY <1>2, <1>7, AllStay
<1>9. \A b \in v.remove : b \in t.out
  BY <1>6, <1>7, <1>8
<1>10. u.asked = Updated(t.asked, v.recs, "r") /\ u.blk = Updated(t.blk, v.recs, "e")
       /\ u.out = t.out \cup Keys(v.recs, "d")
  BY DEF ApplyAll
<1>11. /\ o \in DOMAIN u.asked /\ u.asked[o] = [f |-> f, p |-> v.prev]
       /\ \A key \in DOMAIN t.asked : key # o => key \in DOMAIN u.asked /\ u.asked[key] = t.asked[key]
  BY <1>6, <1>10 DEF Updated
<1>12. /\ \A b \in DOMAIN t.blk : b \in DOMAIN u.blk /\ u.blk[b] = t.blk[b]
       /\ \A b \in DOMAIN u.blk : b \notin DOMAIN t.blk =>
            \E pl \in places : pl.b = b /\ u.blk[b] = Infer(t, pl)
  <2>1. /\ DOMAIN u.blk = DOMAIN t.blk \cup Keys(v.recs, "e")
        /\ \A b \in DOMAIN u.blk :
             u.blk[b] = IF b \in Keys(v.recs, "e") THEN LastOf(v.recs, "e", b) ELSE t.blk[b]
    BY <1>10 DEF Updated
  <2>. QED
    BY <1>6, <2>1
<1>13. u.out = t.out
  BY <1>6, <1>9, <1>10
<1>. QED
  BY <1>2, <1>6, <1>8, <1>9, <1>11, <1>12, <1>13

LEMMA ForwardKeeps ==
  ASSUME GuardInv, AcceptInv, Keeping, NEW r \in DOMAIN req, Active(r), Forward(r) \/ ForwardUnsaved(r)
  PROVE  Keeping'
<1>1. Posted(r) /\ req[r].st = "judged"
  BY DEF Forward, ForwardUnsaved, Posted
<1>2. PICK turns, fwd, v, n, m :
        /\ turns = req[r].turns /\ fwd = req[r].fwd /\ v = req[r].verdict /\ n = Len(turns) /\ m = Len(hist)
  OBVIOUS
<1>3. r = live /\ live # 0 /\ req[r].p = serving /\ serving \in Proc
  BY AtWork
<1>4. PICK h : /\ h = hist /\ h \in Seq(TurnItem) /\ Len(h) = m /\ m \in Nat /\ n = m + 1
               /\ turns \in Seq(TurnItem) /\ turns # << >> /\ \A k \in 1..m : turns[k] = h[k]
  BY <1>2, TheTurns
<1>5. PICK t, u : t = Table /\ u = known'[serving]
  OBVIOUS
<1>6. /\ UNCHANGED <<hist, live, serving, lin, evicted>>
      /\ req'[r].p = serving /\ req'[r].iters = 0
  BY <1>1, <1>3 DEF Posted, clientVars
<1>7. IsSeq(v.recs)
  BY <1>1, <1>2 DEF GuardInv, VerdictsOK
<1>8. off'[serving] = Len(journal') /\ u = ApplyAll(t, v.recs) /\ Table' = u
  <2>1. (\E late : Persist(serving, v.recs, late)) \/ PersistFails(serving, v.recs)
    BY <1>2, <1>3 DEF Forward, ForwardUnsaved
  <2>. QED
    BY <1>5, <1>6, <1>7, <2>1, AloneWrites DEF Table
<1>9. /\ DOMAIN req' = DOMAIN req /\ req'[r].st = "posted" /\ req'[r].turns = turns
      /\ req'[r].fwd = fwd /\ req'[r].remove = v.remove
      /\ \A s \in DOMAIN req : s # r => req'[s] = req[s]
      /\ \A s \in DOMAIN req : Active(s)' = Active(s)
      /\ prod'[2 * r] = [f |-> Full(turns, fwd), o |-> Asked(turns), p |-> v.prev]
      /\ \A b \in DOMAIN prod : b \notin {2 * r, 2 * r + 1} => b \in DOMAIN prod' /\ prod'[b] = prod[b]
  <2>1. Unheard
    BY TheParts
  <2>. QED
    BY <1>1, <1>2, <2>1, PostedFrame
<1>10. /\ \A b \in v.remove : b \in t.out
       /\ Foregoing(turns, n, v.prev)
       /\ Asked(turns) \in DOMAIN u.asked /\ u.asked[Asked(turns)] = [f |-> Full(turns, fwd), p |-> v.prev]
       /\ \A key \in DOMAIN t.asked : key # Asked(turns) => key \in DOMAIN u.asked /\ u.asked[key] = t.asked[key]
       /\ \A b \in DOMAIN t.blk : b \in DOMAIN u.blk /\ u.blk[b] = t.blk[b]
       /\ \A b \in DOMAIN u.blk : b \notin DOMAIN t.blk =>
            \E pl \in Places(turns, fwd) : pl.b = b /\ u.blk[b] = Infer(t, pl)
       /\ u.out = t.out
  BY <1>1, <1>2, <1>5, <1>8, VerdictWritten
<1>11. DOMAIN req \subseteq Nat \ {0}
  BY LenProperties DEF GuardInv, RequestsOK, IsSeq
<1>12. \A b \in t.out : b % 2 = 1
  BY <1>5 DEF Keeping, OnlyHidden
<1>13. Alone'
  <2>1. \A s \in DOMAIN req' : Active(s)' => s = live' /\ req'[s].p = serving'
    BY <1>3, <1>6, <1>9 DEF Keeping, Alone
  <2>. QED
    BY <1>6, <1>8, <2>1 DEF Keeping, Alone
<1>14. OnlyHidden'
  <2>1. ASSUME NEW b \in DOMAIN u.blk PROVE \E a \in DOMAIN req : ~Active(a) /\ b \in {2 * a, 2 * a + 1}
    <3>1. CASE b \in DOMAIN t.blk
      BY <1>5, <3>1 DEF Keeping, OnlyHidden
    <3>2. CASE b \notin DOMAIN t.blk
      <4>1. PICK pl \in Places(turns, fwd) : pl.b = b
        BY <1>10, <3>2
      <4>. QED
        BY <1>1, <1>2, <4>1, AsSent
    <3>. QED
      BY <3>1, <3>2
  <2>. QED
    BY <1>8, <1>9, <1>10, <1>12, <2>1 DEF OnlyHidden
<1>15. ASSUME NEW k \in 1..m
       PROVE  /\ HeldAt(h, k) /\ h[k] \in TurnItem /\ h[k].a \in DOMAIN req /\ ~Active(h[k].a)
              /\ prod'[2 * h[k].a] = prod[2 * h[k].a]
  <2>1. HeldAt(h, k) /\ h[k] \in TurnItem
    BY <1>2, <1>4, ElementOfSeq DEF Keeping, HeldTo
  <2>2. PICK a : a = h[k].a /\ a \in DOMAIN req /\ ~Active(a) /\ 2 * a \in DOMAIN prod
    <3>1. Past(hist, Len(hist))
      BY TheParts DEF Unheard, Pasts
    <3>. QED
      BY <1>2, <1>4, <3>1 DEF Past
  <2>3. a # r /\ a \in Nat /\ r \in Nat
    BY <1>11, <2>2
  <2>4. 2 * a \notin {2 * r, 2 * r + 1}
    BY <2>3
  <2>. QED
    BY <1>9, <2>1, <2>2, <2>4
<1>16. HeldTo(hist, Len(hist))'
  <2>1. ASSUME NEW k \in 1..m PROVE HeldAt(h, k)'
    <3>1. PICK a, made : a = h[k].a /\ made = prod[2 * a] /\ prod'[2 * a] = made /\ a \in Nat
      BY <1>15 DEF TurnItem
    <3>2. /\ ClientPrefix(h, k) = made.o /\ Holding(a) /\ Foregoing(h, k, made.p)
          /\ h[k].x # "plain" => 2 * a + 1 \in t.out
      BY <1>5, <1>15, <3>1 DEF HeldAt, Unedited
    <3>3. /\ made.o \in DOMAIN t.asked /\ t.asked[made.o] = [f |-> made.f, p |-> made.p]
          /\ 2 * a \in DOMAIN t.blk => t.blk[2 * a] = made
      BY <1>5, <3>1, <3>2 DEF Holding
    <3>4. made.o # Asked(turns)
      <4>1. k \in 1..Len(h) /\ h \in Seq(TurnItem)
        BY <1>4
      <4>2. n \in 1..Len(turns) /\ turns \in Seq(TurnItem)
        BY <1>2, <1>4
      <4>3. Len(made.o) = 2 * k
        <5>1. Len(ClientPrefix(h, k)) = 2 * k
          BY <4>1, TheClientPrefix
        <5>. QED
          BY <3>2, <5>1
      <4>4. Len(Asked(turns)) = 2 * n
        <5>1. Len(ClientPrefix(turns, n)) = 2 * n
          BY <4>2, TheClientPrefix
        <5>. QED
          BY <1>2, <5>1 DEF Asked
      <4>5. 2 * k # 2 * n
        BY <1>4
      <4>. QED
        BY <4>3, <4>4, <4>5
    <3>5. made.o \in DOMAIN u.asked /\ u.asked[made.o] = [f |-> made.f, p |-> made.p]
      BY <1>10, <3>3, <3>4
    <3>6. ASSUME 2 * a \in DOMAIN u.blk PROVE u.blk[2 * a] = made
      <4>1. CASE 2 * a \in DOMAIN t.blk
        BY <1>10, <3>3, <4>1
      <4>2. CASE 2 * a \notin DOMAIN t.blk
        <5>1. PICK pl \in Places(turns, fwd) : pl.b = 2 * a /\ u.blk[2 * a] = Infer(t, pl)
          BY <1>10, <3>6, <4>2
        <5>2. pl.b \notin t.out
          <6>1. (2 * a) % 2 = 0
            BY <3>1
          <6>. QED
            BY <1>12, <5>1, <6>1
        <5>3. StandsAsSent(turns, pl)
          BY <1>1, <1>2, <1>5, <5>2, AsSent
        <5>4. Infer(t, pl) = prod[pl.b]
          BY <1>5, <5>3 DEF StandsAsSent
        <5>. QED
          BY <3>1, <5>1, <5>4
      <4>. QED
        BY <4>1, <4>2
    <3>7. Holding(a)'
      BY <1>8, <3>1, <3>5, <3>6 DEF Holding
    <3>. QED
      BY <1>8, <1>10, <3>1, <3>2, <3>7 DEF HeldAt, Unedited, Foregoing
  <2>2. HeldTo(h, m)'
    BY <2>1 DEF HeldTo
  <2>. QED
    BY <1>2, <1>4, <1>6, <2>2
<1>17. Frozen'
  <2>1. Fitting(req[r])
    BY <1>1, <1>3 DEF Keeping, Frozen
  <2>2. SentAs(turns, m, fwd) /\ AllBlocks(turns, m, fwd) /\ lin[serving] = Lineage(Canon(turns), fwd)
    <3>1. n - 1 = m
      BY <1>4
    <3>. QED
      BY <1>1, <1>2, <2>1, <3>1 DEF Fitting
  <2>3. SentAs(turns, m, fwd)'
    BY <1>4, <1>15, <2>2 DEF SentAs
  <2>4. Fitting(req[r])'
    <3>1. Len(turns) - 1 = m
      BY <1>2, <1>4
    <3>. QED
      BY <1>6, <1>9, <2>2, <2>3, <3>1 DEF Fitting
  <2>. QED
    BY <1>3, <1>6, <1>9, <2>4 DEF Frozen
<1>18. Out'
  <2>1. 2 * r \notin DOMAIN u.blk
    <3>1. ASSUME 2 * r \in DOMAIN u.blk PROVE FALSE
      <4>1. PICK a \in DOMAIN req : ~Active(a) /\ 2 * r \in {2 * a, 2 * a + 1}
        BY <1>8, <1>9, <1>14, <3>1 DEF OnlyHidden
      <4>2. a \in Nat /\ r \in Nat
        BY <1>11
      <4>3. a = r
        BY <4>1, <4>2
      <4>. QED
        BY <4>1, <4>3
    <3>. QED
      BY <3>1
  <2>2. PICK made : made = prod'[2 * r] /\ made.f = Full(turns, fwd) /\ made.o = Asked(turns) /\ made.p = v.prev
    BY <1>9
  <2>3. Holding(r)'
    BY <1>8, <1>10, <2>1, <2>2 DEF Holding
  <2>4. OutAs(r, req[r])'
    BY <1>2, <1>6, <1>9, <1>10, <1>12, <2>2, <2>3 DEF OutAs
  <2>. QED
    BY <1>3, <1>6, <2>4 DEF Out
<1>. QED
  BY <1>13, <1>14, <1>16, <1>17, <1>18 DEF Keeping

-----------------------------------------------------------------------------
\* Every other step is something other than a turn.
LEMMA KeepStep ==
  ASSUME GuardInv, GuardInv', AcceptInv, KeepInv, [Next]_vars
  PROVE  KeepInv'
<1>. SUFFICES ASSUME ~disturbed' PROVE Keeping'
  BY DEF KeepInv
<1>1. CASE Send
  <2>1. disturbed' = disturbed
    BY <1>1 DEF Send, worldVars
  <2>. QED
    BY <1>1, <2>1, SendKeeps DEF KeepInv
<1>2. CASE \/ GiveUp \/ HandOver
           \/ \E k \in 0..(Len(hist) - 1) : Regenerate(k)
           \/ \E k \in 1..Len(hist) : Edit(k)
           \/ \E p \in Proc : Die(p)
  BY <1>2 DEF GiveUp, HandOver, Regenerate, Edit, Die
<1>3. ASSUME NEW r \in DOMAIN req, Active(r), Step(r) PROVE Keeping'
  <2>1. ASSUME NEW form, NEW cold, NEW stuck, NEW raises, Compress(r, form, cold, stuck, raises)
        PROVE  Keeping'
    <3>1. ~disturbed
      BY <2>1 DEF Compress
    <3>. QED
      BY <1>3, <2>1, <3>1, CompressKeeps DEF KeepInv
  <2>2. CASE \/ Refused(r) \/ \E form \in [1..Len(req[r].turns) -> Forms] : Untracked(r, form)
    BY <2>2 DEF Refused, Untracked
  <2>3. CASE Remember(r) \/ Guard(r) \/ Requery(r) \/ Taint(r) \/ Drop(r) \/ Relay(r)
    <3>1. ~disturbed
      BY <2>3 DEF Remember, Guard, Requery, Taint, Drop, Relay, worldVars
    <3>. QED
      BY <1>3, <2>3, <3>1, RememberKeeps, GuardKeeps, RequeryKeeps, TaintKeeps, DropKeeps, RelayKeeps DEF KeepInv
  <2>4. CASE Forward(r) \/ ForwardUnsaved(r)
    <3>1. ~disturbed
      BY <2>4 DEF Forward, ForwardUnsaved, Posted
    <3>. QED
      BY <1>3, <2>4, <3>1, ForwardKeeps DEF KeepInv
  <2>. QED
    BY <1>3, <2>1, <2>2, <2>3, <2>4 DEF Step
<1>4. CASE UNCHANGED vars
  <2>1. Keeping /\ UNCHANGED <<guardVars, hist, live, req, serving, lin, evicted, prod>>
    BY <1>4 DEF vars, clientVars, worldVars, provider, KeepInv
  <2>2. Alone' /\ OnlyHidden'
    BY <2>1 DEF Keeping, Alone, OnlyHidden, Active, Table, guardVars
  <2>3. TableStays
    BY <2>1 DEF guardVars, TableStays, Table, Keeping, OnlyHidden
  <2>4. HeldTo(hist, Len(hist))'
    <3>1. PICK h, m : h = hist /\ m = Len(hist)
      OBVIOUS
    <3>2. HeldTo(h, m)'
      BY <2>1, <2>3, <3>1, HeldStays DEF Keeping
    <3>. QED
      BY <2>1, <3>1, <3>2
  <2>5. Frozen'
    BY <2>1 DEF Keeping, Frozen, Lined, Fitting, SentAs
  <2>6. Out'
    BY <2>1 DEF Keeping, Out, OutAs, Holding, Table, guardVars
  <2>. QED
    BY <2>2, <2>4, <2>5, <2>6 DEF Keeping
<1>. QED
  BY <1>1, <1>2, <1>3, <1>4 DEF Next

\* As long as nothing but turns happened, the worker has the record of every answer as it was
\* sent and replays the history as it went out.
THEOREM KeepInvariant == Spec => []KeepInv
<1>1. Init => KeepInv
  BY KeepStart DEF KeepInv
<1>2. GuardInv /\ GuardInv' /\ AcceptInv /\ KeepInv /\ [Next]_vars => KeepInv'
  BY KeepStep
<1>. QED
  BY <1>1, <1>2, GuardInvariant, AcceptInvariant, PTL DEF Spec

\* ThinkingKept (replay, prefixreplay.py:361, and _guard, thinkguard.py:273): however the
\* compressor changes its mind or fails, the guard takes no thinking out of a conversation in
\* which nothing but turns happened, other than what followed a hidden round.
THEOREM ThinkingIsKept == Spec => []ThinkingKept
<1>1. GuardInv /\ KeepInv => ThinkingKept
  <2>. SUFFICES ASSUME GuardInv, KeepInv, NEW r \in DOMAIN req, req[r].st = "posted", ~disturbed,
                       NEW b \in req[r].remove
                PROVE  b % 2 = 1
    BY DEF ThinkingKept
  <2>1. Keeping /\ Active(r)
    BY DEF KeepInv, Active
  <2>2. OutAs(r, req[r])
    BY <2>1, AtWork DEF Keeping, Out, WentOut
  <2>. QED
    BY <2>2 DEF OutAs
<1>. QED
  BY <1>1, GuardInvariant, KeepInvariant, PTL
=============================================================================
