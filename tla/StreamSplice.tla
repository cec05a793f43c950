---------------------------- MODULE StreamSplice ----------------------------
(***************************************************************************)
(* stream_with_expand() of src/distil/streamexpand.py: the events of the   *)
(* provider's answer go to the client as they come, a distil_expand call   *)
(* is kept back, answered by a re-query, and the re-query's answer is      *)
(* spliced into the same client message.  An answer may stop short and the *)
(* connection may break at any event.                                      *)
(***************************************************************************)
EXTENDS Integers, Sequences, FiniteSets, SequencesExt

CONSTANTS
  MaxSplices,  \* max_iters
  MaxBlocks    \* bound: content blocks of one answer

ASSUME SpliceAssumption == MaxSplices \in Nat /\ MaxBlocks \in Nat \ {0}

VARIABLES
  phase,      \* "sending", "reading", or how it ended: "ended", "raw", "dropped"
  splice,     \* it: re-queries answered
  begun,      \* message_start of the answer being read has come
  blocks,     \* its blocks: kind, index toward the client, state
  tail,       \* final_delta: the stop_reason and the answer it came with
  nextIndex,  \* next client-side index
  shown,      \* events written to the client
  asked,      \* the re-queries: the blocks replayed and those answered
  cut         \* history: an answer stopped short

spliceVars == <<phase, splice, begun, blocks, tail, nextIndex, shown, asked, cut>>

Hidden == -1  \* no client index
NoTail == [reason |-> "none", of |-> 0]
Event(t, i, kind, of) == [t |-> t, i |-> i, kind |-> kind, of |-> of]

SpliceInit ==
  /\ phase = "sending" /\ splice = 0 /\ begun = FALSE
  /\ blocks = << >> /\ tail = NoTail /\ nextIndex = 0
  /\ shown = << >> /\ asked = << >> /\ cut = FALSE

-----------------------------------------------------------------------------
(* Events of an answer.  The provider opens one block at a time.           *)

Reading == phase = "reading"
InBlock == blocks # << >> /\ Last(blocks).open
Show(e) == shown' = Append(shown, e)
Has(kind) == \E b \in DOMAIN blocks : blocks[b].kind = kind

\* Only the first message_start reaches the client.
MessageStart ==
  /\ Reading /\ ~begun
  /\ begun' = TRUE
  /\ IF \E n \in DOMAIN shown : shown[n].t = "start" THEN UNCHANGED shown
     ELSE Show(Event("start", 0, "none", splice))
  /\ UNCHANGED <<phase, splice, blocks, tail, nextIndex, asked, cut>>

\* Mutant: the index counts the blocks that are kept back.
IndexOf(kind) == nextIndex + Len(SelectSeq(blocks, LAMBDA b : b.kind = "expand"))

NewIndex(kind) == nextIndex

BlockStart(kind) ==
  /\ Reading /\ begun /\ ~InBlock /\ tail = NoTail /\ Len(blocks) < MaxBlocks
  /\ IF kind = "expand"
     THEN /\ blocks' = Append(blocks, [kind |-> kind, at |-> Hidden, open |-> TRUE, fed |-> FALSE])
          /\ UNCHANGED <<nextIndex, shown>>
     ELSE /\ blocks' = Append(blocks, [kind |-> kind, at |-> NewIndex(kind), open |-> TRUE, fed |-> FALSE])
          /\ nextIndex' = nextIndex + 1
          /\ Show(Event("open", NewIndex(kind), kind, splice))
  /\ UNCHANGED <<phase, splice, begun, tail, asked, cut>>

ToClient(t) ==
  IF Last(blocks).kind = "expand" THEN UNCHANGED shown
  ELSE Show(Event(t, Last(blocks).at, Last(blocks).kind, splice))

\* _accumulate, for the replay; one delta stands for many.
BlockDelta ==
  /\ Reading /\ InBlock /\ ~Last(blocks).fed
  /\ blocks' = [blocks EXCEPT ![Len(blocks)].fed = TRUE]
  /\ ToClient("delta")
  /\ UNCHANGED <<phase, splice, begun, tail, nextIndex, asked, cut>>

BlockStop ==
  /\ Reading /\ InBlock
  /\ blocks' = [blocks EXCEPT ![Len(blocks)].open = FALSE]
  /\ ToClient("close")
  /\ UNCHANGED <<phase, splice, begun, tail, nextIndex, asked, cut>>

\* Held until it is known whether the turn is the last.
MessageDelta ==
  /\ Reading /\ begun /\ ~InBlock /\ tail = NoTail
  /\ tail' = [reason |-> IF Has("tool") \/ Has("expand") THEN "tool_use" ELSE "end_turn", of |-> splice]
  /\ UNCHANGED <<phase, splice, begun, blocks, nextIndex, shown, asked, cut>>

-----------------------------------------------------------------------------
(* The end of an answer.                                                   *)

\* _close_stream, and the same at the end of a terminal turn.
Closed ==
  /\ phase' = "ended"
  /\ shown' = shown \o (IF tail = NoTail THEN << >> ELSE <<Event("tail", 0, tail.reason, tail.of)>>)
                    \o <<Event("stop", 0, "none", splice)>>

\* Mutant: the turn is spliced although the client has a tool to run.
TerminalUnmixed == ~Has("expand")

\* No expansion, or a call that only the client can run.
Terminal == ~Has("expand") \/ Has("tool")

\* resolve_expands answers every expansion, if only with a miss, and the turn is replayed.
Replayed ==
  [kinds |-> [b \in DOMAIN blocks |-> blocks[b].kind],
   answered |-> {b \in DOMAIN blocks : blocks[b].kind = "expand"}]

AnswerEnds ==
  \/ Terminal /\ Closed /\ UNCHANGED asked
  \/ ~Terminal /\ phase' = "sending" /\ asked' = Append(asked, Replayed) /\ UNCHANGED shown

MessageStop ==
  /\ Reading /\ tail # NoTail
  /\ AnswerEnds
  /\ UNCHANGED <<splice, begun, blocks, tail, nextIndex, cut>>

\* The answer is over before its message_stop, or is no event stream.
StopsShort ==
  /\ Reading /\ cut' = TRUE
  /\ AnswerEnds
  /\ UNCHANGED <<splice, begun, blocks, tail, nextIndex>>

\* Reading or writing fails.
Breaks ==
  /\ Reading
  /\ phase' = "dropped"
  /\ UNCHANGED <<splice, begun, blocks, tail, nextIndex, shown, asked, cut>>

-----------------------------------------------------------------------------
(* send().                                                                 *)

First == asked = << >>

\* The first response is an event stream, or goes to the client as it is.
Opens ==
  /\ phase = "sending" /\ First
  /\ phase' \in {"reading", "raw"}
  /\ UNCHANGED <<splice, begun, blocks, tail, nextIndex, shown, asked, cut>>

\* The answer of a re-query is read from its first event, indices continue.
Continues ==
  /\ phase = "sending" /\ ~First /\ splice < MaxSplices
  /\ phase' = "reading" /\ splice' = splice + 1
  /\ begun' = FALSE /\ blocks' = << >> /\ tail' = NoTail
  /\ UNCHANGED <<nextIndex, shown, asked, cut>>

\* The re-query is refused, or was one too many.
RequeryEnds ==
  /\ phase = "sending" /\ ~First
  /\ Closed
  /\ UNCHANGED <<splice, begun, blocks, tail, nextIndex, asked, cut>>

SpliceNext ==
  \/ Opens \/ Continues \/ RequeryEnds
  \/ MessageStart \/ BlockDelta \/ BlockStop \/ MessageDelta \/ MessageStop \/ StopsShort \/ Breaks
  \/ \E kind \in {"text", "tool", "expand"} : BlockStart(kind)

SpliceSpec == SpliceInit /\ [][SpliceNext]_spliceVars

-----------------------------------------------------------------------------
(* Properties.                                                             *)

AnswerBlocks == [kind : {"text", "tool", "expand"}, at : Nat \cup {Hidden}, open : BOOLEAN, fed : BOOLEAN]
ClientEvents == [t : {"start", "open", "delta", "close", "tail", "stop"}, i : Nat,
           kind : {"none", "text", "tool", "expand", "tool_use", "end_turn"}, of : 0..MaxSplices]

SpliceTypeOK ==
  /\ phase \in {"sending", "reading", "ended", "raw", "dropped"}
  /\ splice \in 0..MaxSplices /\ begun \in BOOLEAN /\ cut \in BOOLEAN /\ nextIndex \in Nat
  /\ tail \in [reason : {"none", "tool_use", "end_turn"}, of : 0..MaxSplices]
  /\ Len(asked) \in {splice, splice + 1}
  /\ blocks \in Seq(AnswerBlocks) /\ shown \in Seq(ClientEvents)
  /\ asked \in Seq([kinds : Seq({"text", "tool", "expand"}), answered : SUBSET Nat])

\* Client-side block i is open after the first n events.
Opened(i, n) ==
  \E m \in 1..n : /\ shown[m].t = "open" /\ shown[m].i = i
                  /\ \A l \in m..n : ~(shown[l].t = "close" /\ shown[l].i = i)

\* "The client sees ONE coherent message and never the internal tool" (test_streamexpand.py:5):
\* however many answers are spliced, whichever of them stops short or is refused, it starts
\* once, its blocks are numbered in order and one is open at a time unless an answer stopped
\* inside one, and it ends with its terminator unless the connection broke.
OneMessage ==
  /\ \A n \in DOMAIN shown :
       LET e == shown[n]
           open == {i \in 0..nextIndex : Opened(i, n - 1)}
       IN /\ e.kind # "expand"
          /\ e.t = "start" => n = 1
          /\ e.t = "open" => /\ e.i = Cardinality({m \in 1..(n - 1) : shown[m].t = "open"})
                             /\ open = {} \/ cut
          /\ e.t \in {"delta", "close"} => e.i \in open
          /\ e.t = "tail" => n = Len(shown) - 1 /\ (open = {} \/ cut)
          /\ e.t = "stop" => n = Len(shown)
  /\ phase = "ended" <=> shown # << >> /\ Last(shown).t = "stop"

\* A tool call that reaches the client is the client's to run: the message ends with the
\* stop_reason of that call's own answer, and no replayed turn holds a call without its
\* result ("the agent reported success with the disk untouched", stream_with_expand).
ToolsRun ==
  /\ \A n, m \in DOMAIN shown :
       shown[n].t = "open" /\ shown[n].kind = "tool" /\ shown[m].t = "tail" =>
         shown[m].kind = "tool_use" /\ shown[m].of = shown[n].of
  /\ \A k \in DOMAIN asked : \A b \in DOMAIN asked[k].kinds :
       asked[k].kinds[b] # "text" => b \in asked[k].answered
=============================================================================
