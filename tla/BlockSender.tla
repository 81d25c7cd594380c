---------------------------- MODULE BlockSender -----------------------------
(***************************************************************************)
(* The sending half of a transfer: the generators that turn one stored     *)
(* object into Buffers.                                                    *)
(*                                                                         *)
(*   reader.read_multiblock_directory / read_block   walk the object       *)
(*   client.skip_requested_blocks                    drops what the peer   *)
(*                                                   says it has           *)
(*   client.serialize_to_buffer.send_file            head and separator    *)
(*                                                                         *)
(* They are generators: they run only while the consumer has asked for the *)
(* next Buffer, and stand still between a yield and the next pull.  What   *)
(* the filter knows about the peer's requests is therefore read at one     *)
(* pull and used at a later one, while requests go on arriving; and what   *)
(* the filter has let through, send_file still holds in its hand, waiting  *)
(* for the peer's pause to end, before it yields it.                       *)
(***************************************************************************)
EXTENDS BlockObjects

CONSTANTS
    Window,     \* how many Buffers may be on their way
    MayBreak,   \* blocks that may be missing or corrupt when they are opened
    MayVanish   \* blocks whose files may disappear after they were verified

ASSUME SenderAssumption ==
    /\ Window \in Nat \ {0}
    /\ MayBreak \subseteq Block
    /\ MayVanish \subseteq Block

VARIABLES
    spc,         \* where the generators stand
    walk,        \* the suspended readers: a node and the next item of it
    stack,       \* skip_requested_blocks: the blocks that are open
    opened,      \* and for each, whether its start marker was sent
    skippingAt,  \* depth of the block being skipped, 0 for Python's None
    skip,        \* control._skip: the blocks the peer asked not to get
    wire,        \* the Buffers sent and not yet received
    inHand,      \* whether send_file still has the last of them in its hand
    heldOpen,    \* history: blocks open for a reader of every Buffer sent
    crossed,     \* history: such a reader has met an IntersectionError
    late         \* history: pieces yielded of a block asked to be skipped

filterVars == <<stack, opened, skippingAt>>
sentVars   == <<wire, inHand, heldOpen, crossed>>
vars       == <<spc, walk, filterVars, skip, sentVars, late>>

Init ==
    /\ spc = "head"
    /\ walk = <<[node |-> Root, pos |-> 1]>>
    /\ stack = <<>>
    /\ opened = <<>>
    /\ skippingAt = 0
    /\ skip = {}
    /\ wire = <<>>
    /\ inHand = FALSE
    /\ heldOpen = <<>>
    /\ crossed = FALSE
    /\ late = 0

-----------------------------------------------------------------------------
(* The walk.                                                                *)

Top        == Last(walk)
TopItem    == Body[Top.node][Top.pos]
AtEnd      == Top.pos > Len(Body[Top.node])
Advance    == [walk EXCEPT ![Len(walk)].pos = @ + 1]

(* Whether the blocks met at level k of the walk are announced by markers.  *)
Framed(k)  == k <= BlockDepth

(* Whether item p of node n opens a new file of plain bytes, and the first  *)
(* item after that file.                                                    *)
OpensFile(n, p) ==
    /\ Body[n][p] \in Chunk
    /\ p > 1 => Body[n][p - 1] \in Block
FileEnd(n, p) ==
    Min({q \in p..(Len(Body[n]) + 1) :
            q = Len(Body[n]) + 1 \/ Body[n][q] \in Block})

(* The consumer has asked for the next Buffer and there is room for it, and *)
(* send_file has none in its hand.                                          *)
Pulled == ~inHand /\ Len(wire) < Window

Send(b) == wire' = Append(wire, b)

-----------------------------------------------------------------------------
(* The filter.                                                              *)

(* The shallowest open block that the peer has asked to skip, 0 if none.    *)
OutermostSkipped ==
    LET requested == {d \in 1..Len(stack) : stack[d] \in skip}
    IN  IF requested = {} THEN 0 ELSE Min(requested)

(* A marker goes out.  A reader that has seen every Buffer so far closes    *)
(* the block if it has it open, and the innermost open one must be it.      *)
SendMarker(c) ==
    /\ Send(Marker(c))
    /\ inHand' = TRUE
    /\ IF c \in ToSet(heldOpen)
         THEN /\ heldOpen' = Front(heldOpen)
              /\ crossed' = (crossed \/ Last(heldOpen) # c)
         ELSE /\ heldOpen' = Append(heldOpen, c)
              /\ UNCHANGED crossed

(* Mutants of CloseMarker: the depth is counted down like a nesting level,  *)
(* the end marker is dropped like everything else in a skip, and the skip   *)
(* is not over when its block is.                                           *)
CloseCountsDown(c) ==
    /\ stack' = Front(stack)
    /\ opened' = Front(opened)
    /\ skippingAt' = skippingAt - 1
    /\ spc' = "body"
    /\ IF Last(opened) THEN SendMarker(c) ELSE UNCHANGED sentVars
CloseIsDropped(c) ==
    /\ stack' = Front(stack)
    /\ opened' = Front(opened)
    /\ skippingAt' = IF skippingAt = Len(stack) THEN 0 ELSE skippingAt
    /\ spc' = "body"
    /\ IF Last(opened) /\ skippingAt = 0 THEN SendMarker(c) ELSE UNCHANGED sentVars
CloseKeepsSkipping(c) ==
    /\ stack' = Front(stack)
    /\ opened' = Front(opened)
    /\ UNCHANGED skippingAt
    /\ spc' = "body"
    /\ IF Last(opened) THEN SendMarker(c) ELSE UNCHANGED sentVars

(* The marker of the innermost open block is its end marker.                *)
CloseMarker(c) ==
    /\ stack' = Front(stack)
    /\ opened' = Front(opened)
    /\ skippingAt' = IF skippingAt = Len(stack) THEN 0 ELSE skippingAt
    /\ spc' = "body"
    /\ IF Last(opened) THEN SendMarker(c) ELSE UNCHANGED sentVars

(* Mutant of OpenMarker: every block counts as opened, the skipped too.     *)
OpenAlwaysCounts(c) ==
    /\ stack' = Append(stack, c)
    /\ opened' = Append(opened, TRUE)
    /\ UNCHANGED skippingAt
    /\ IF skippingAt = 0
         THEN /\ SendMarker(c)
              /\ spc' = "marked"
         ELSE /\ UNCHANGED sentVars
              /\ spc' = "body"

(* Any other marker is a start marker.                                      *)
OpenMarker(c) ==
    /\ stack' = Append(stack, c)
    /\ opened' = Append(opened, skippingAt = 0)
    /\ UNCHANGED skippingAt
    /\ IF skippingAt = 0
         THEN /\ SendMarker(c)
              /\ spc' = "marked"
         ELSE /\ UNCHANGED sentVars
              /\ spc' = "body"

Closes(c) == stack # <<>> /\ Last(stack) = c

FilterMarker(c) ==
    \/ Closes(c) /\ CloseMarker(c)
    \/ ~Closes(c) /\ OpenMarker(c)

-----------------------------------------------------------------------------
(* The steps of the sender.                                                 *)

SendHead ==
    /\ spc = "head"
    /\ Pulled
    /\ Send(Header)
    /\ spc' = "body"
    /\ UNCHANGED <<walk, filterVars, skip, inHand, heldOpen, crossed>>

(* The filter lets a piece through to send_file.                            *)
SendChunk ==
    /\ Send(ChunkOf(TopItem))
    /\ inHand' = TRUE

(* Mutant of ReadChunk: requests are looked at after markers only.          *)
ReadChunkBlindly ==
    /\ spc = "body"
    /\ Pulled
    /\ ~AtEnd
    /\ TopItem \in Chunk
    /\ walk' = Advance
    /\ IF skippingAt = 0 THEN SendChunk ELSE UNCHANGED <<wire, inHand>>
    /\ UNCHANGED <<spc, filterVars, skip, heldOpen, crossed>>

(* A piece of plain bytes comes to the filter, which looks at the requests  *)
(* again unless it is skipping already.                                     *)
ReadChunk ==
    /\ spc = "body"
    /\ Pulled
    /\ ~AtEnd
    /\ TopItem \in Chunk
    /\ walk' = Advance
    /\ skippingAt' = IF skippingAt = 0 THEN OutermostSkipped ELSE skippingAt
    /\ IF skippingAt' = 0 THEN SendChunk ELSE UNCHANGED <<wire, inHand>>
    /\ UNCHANGED <<spc, stack, opened, skip, heldOpen, crossed>>

(* The reader comes to a block of the node: the marker, if this level is    *)
(* framed, and then the reader of that block.                               *)
EnterBlock ==
    /\ spc = "body"
    /\ Pulled
    /\ ~AtEnd
    /\ TopItem \in Block
    /\ walk' = Append(Advance, [node |-> TopItem, pos |-> 1])
    /\ IF Framed(Len(walk))
         THEN FilterMarker(TopItem)
         ELSE UNCHANGED <<spc, filterVars, sentVars>>
    /\ UNCHANGED skip

(* The pull after a start marker: only now does the filter ask whether the  *)
(* block that marker opened, or one around it, is to be skipped.            *)
Resume ==
    /\ spc = "marked"
    /\ Pulled
    /\ skippingAt' = OutermostSkipped
    /\ spc' = "body"
    /\ UNCHANGED <<walk, stack, opened, skip, sentVars>>

(* Mutant of ReadFails: the error goes out, and the walk stands where it is. *)
ReadFailsAgain ==
    /\ spc = "body"
    /\ Pulled
    /\ Len(walk) > 1
    /\ Top.pos = 1
    /\ Top.node \in MayBreak
    /\ Send(Error)
    /\ UNCHANGED <<spc, walk, filterVars, skip, inHand, heldOpen, crossed>>

(* read_block finds the block missing, or its bytes not those its id names. *)
ReadFails ==
    /\ spc = "body"
    /\ Pulled
    /\ Len(walk) > 1
    /\ Top.pos = 1
    /\ Top.node \in MayBreak
    /\ Send(Error)
    /\ spc' = "failed"
    /\ UNCHANGED <<walk, filterVars, skip, inHand, heldOpen, crossed>>

(* read_file_by_chunks cannot open the file, and says so to nobody: the     *)
(* walk goes on after it.                                                   *)
FileVanishes ==
    /\ spc = "body"
    /\ Pulled
    /\ ~AtEnd
    /\ OpensFile(Top.node, Top.pos)
    /\ Top.node \in MayVanish
    /\ walk' = [walk EXCEPT ![Len(walk)].pos = FileEnd(Top.node, Top.pos)]
    /\ UNCHANGED <<spc, filterVars, skip, sentVars>>

(* A block is read to its end: the same marker again.                       *)
LeaveBlock ==
    /\ spc = "body"
    /\ Pulled
    /\ AtEnd
    /\ Len(walk) > 1
    /\ walk' = Front(walk)
    /\ IF Framed(Len(walk) - 1)
         THEN FilterMarker(Top.node)
         ELSE UNCHANGED <<spc, filterVars, sentVars>>
    /\ UNCHANGED skip

(* The object is read to its end.                                           *)
SendSeparator ==
    /\ spc = "body"
    /\ Pulled
    /\ AtEnd
    /\ Len(walk) = 1
    /\ Send(Separator)
    /\ spc' = "done"
    /\ UNCHANGED <<walk, filterVars, skip, inHand, heldOpen, crossed>>

(* send_file has waited, as long as the peer's pause lasted, and yields     *)
(* what the filter let through before.                                      *)
Yield ==
    /\ inHand
    /\ inHand' = FALSE
    /\ UNCHANGED <<spc, walk, filterVars, skip, wire, heldOpen, crossed>>

(* The pieces yielded since a block was asked for that is still open.       *)
OpenAsked == \E d \in 1..Len(stack) : stack[d] \in skip
ChunkInHand == inHand /\ Last(wire).kind = "chunk"
CountLate ==
    late' = IF ~OpenAsked' THEN 0
            ELSE IF ChunkInHand /\ ~inHand' THEN late + 1 ELSE late

SenderStep ==
    /\ \/ SendHead \/ ReadChunk \/ EnterBlock \/ Resume \/ ReadFails
       \/ FileVanishes \/ LeaveBlock \/ SendSeparator \/ Yield
    /\ CountLate

(* A skip request of the peer is read off the other direction.              *)
Observe(b) ==
    /\ skip' = skip \cup {b}
    /\ UNCHANGED <<spc, walk, filterVars, sentVars, late>>

(* The consumer takes a Buffer that was yielded.                            *)
Consume ==
    /\ wire # <<>>
    /\ inHand => Len(wire) > 1
    /\ wire' = Tail(wire)
    /\ UNCHANGED <<spc, walk, filterVars, skip, inHand, heldOpen, crossed, late>>

(* On its own the sender is faced with any peer: one that asks for any      *)
(* block at any time.                                                       *)
Next ==
    \/ SenderStep
    \/ \E b \in Block : Observe(b)
    \/ Consume

Spec == Init /\ [][Next]_vars

(* The consumer goes on pulling and the generators run when pulled; what    *)
(* send_file has in its hand goes out, for no pause of the peer is forever. *)
FairSpec == Spec /\ WF_vars(SenderStep) /\ WF_vars(Consume)

-----------------------------------------------------------------------------
(* Properties.                                                              *)

(* The variables have the values the code gives them.                       *)
TypeOK ==
    /\ spc \in {"head", "body", "marked", "done", "failed"}
    /\ walk \in Seq([node : Node, pos : Nat \ {0}])
    /\ stack \in Seq(Block)
    /\ opened \in Seq(BOOLEAN)
    /\ skippingAt \in Nat
    /\ skip \subseteq Block
    /\ wire \in Seq(Buffer)
    /\ inHand \in BOOLEAN
    /\ heldOpen \in Seq(Block)
    /\ crossed \in BOOLEAN

(* Whatever the peer asks for, and whenever, the markers that are sent nest *)
(* properly: no reader of the stream ever meets the end of a block while    *)
(* another one is open in it (the parser's IntersectionError).  The         *)
(* docstring of skip_requested_blocks: "an end marker is emitted if and     *)
(* only if its start marker was".                                           *)
NoIntersection == ~crossed

(* The stream of an object is not finished while a block of it is open:     *)
(* every terminator the receiver's drain loop scans for has been sent.      *)
TerminatorsComplete == spc = "done" => heldOpen = <<>>

(* The strengthening that makes the two invariants above inductive.         *)

(* The readers go down from the object, each into a block of the last.      *)
WalkDescends ==
    /\ Len(walk) > 0
    /\ walk[1].node = Root
    /\ \A i \in 2..Len(walk) : walk[i].node \in Block
    /\ \A i, j \in 1..Len(walk) :
          i < j => Rank[walk[j].node] < Rank[walk[i].node]

(* The filter has understood which marker is a start and which an end: its  *)
(* stack is the path of the walk, as far down as levels are framed.         *)
StackFollowsWalk ==
    /\ Len(stack) = IF Framed(Len(walk) - 1) THEN Len(walk) - 1 ELSE BlockDepth
    /\ \A i \in 1..Len(stack) : stack[i] = walk[i + 1].node

(* The blocks open at the reader are an initial part of that path, the ones *)
(* whose start marker went out, and all of it unless a skip is in force     *)
(* that began in one of them.                                               *)
ReaderHoldsOpened ==
    /\ Len(heldOpen) <= Len(stack)
    /\ Len(opened) = Len(stack)
    /\ \A i \in 1..Len(heldOpen) : heldOpen[i] = stack[i]
    /\ \A i \in 1..Len(stack) : opened[i] <=> i <= Len(heldOpen)
    /\ Len(heldOpen) < Len(stack) => skippingAt \in 1..Len(heldOpen)
    /\ skippingAt <= Len(stack)
    /\ ~crossed

FramingInv ==
    /\ TypeOK
    /\ WalkDescends
    /\ StackFollowsWalk
    /\ ReaderHoldsOpened
    /\ spc = "marked" => skippingAt = 0
    /\ spc = "done" => Len(walk) = 1

(* What is being left out lies in an open block that the peer did ask to    *)
(* skip: the cached depth never outlives that block.                        *)
DropsOnlyWhatWasAsked ==
    skippingAt # 0 => /\ skippingAt <= Len(stack)
                      /\ stack[skippingAt] \in skip

(* A request that lands while its block is being sent stops it: of that     *)
(* block, and of the blocks nested in it, at most one more piece goes out,  *)
(* the one that the filter had let through already and send_file held in    *)
(* its hand.  The README of the sources: "the sender stops at the first     *)
(* chunk after the request lands".                                          *)
StopsAtTheRequest == late \in 0..1

(* A walk that passes over plain bytes has sent them, unless it is leaving  *)
(* out a block: a block that cannot be read aborts the stream.  The comment *)
(* in read_block: "a bad block must abort the stream, not silently produce  *)
(* a payload-less Block() marker."                                          *)
BadBlockAborts ==
    [][(\E i \in DOMAIN walk' : i = Len(walk) /\ walk'[i].pos > walk[i].pos
                                /\ TopItem \in Chunk)
          => wire' # wire \/ skippingAt' # 0]_vars

(* The stream comes to its end, by the separator or by an error.            *)
StreamEnds == <>(spc \in {"done", "failed"})
=============================================================================
