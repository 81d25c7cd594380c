------------------------- MODULE BlockSenderProofs --------------------------
(***************************************************************************)
(* What holds of the sender for every object, every set of blocks, every   *)
(* depth of framing and every peer.                                        *)
(***************************************************************************)
EXTENDS BlockSender, StreamReader, SequenceLemmas

(* The least element of a set of naturals is one of its elements.           *)
LEMMA MinFacts ==
    ASSUME NEW T \in SUBSET Nat, T # {}
    PROVE  Min(T) \in T
<1>1. \E n \in T : \A m \in T : n <= m
  BY LeastNat
<1> QED
  BY <1>1 DEF Min

(* The depth that the scan of the requests returns: no depth at all, or     *)
(* that of an open block the peer asked to skip.                            *)
LEMMA OutermostSkippedFacts ==
    ASSUME stack \in Seq(Block)
    PROVE  /\ OutermostSkipped \in 0..Len(stack)
           /\ OutermostSkipped # 0 => stack[OutermostSkipped] \in skip
           /\ OutermostSkipped = 0 => \A d \in 1..Len(stack) : stack[d] \notin skip
<1> DEFINE requested == {d \in 1..Len(stack) : stack[d] \in skip}
<1>1. Len(stack) \in Nat
  BY LenProperties
<1>2. CASE requested = {}
  BY <1>1, <1>2 DEF OutermostSkipped
<1>3. CASE requested # {}
  <2>1. requested \in SUBSET Nat
    BY <1>1
  <2>2. Min(requested) \in requested
    BY <1>3, <2>1, MinFacts
  <2>3. OutermostSkipped = Min(requested)
    BY <1>3 DEF OutermostSkipped
  <2>4. QED
    BY <1>1, <2>2, <2>3
<1>4. QED
  BY <1>2, <1>3

(* A file of plain bytes ends after the item it begins at.                  *)
LEMMA FileEndFacts ==
    ASSUME NEW n \in Node, NEW p \in Nat \ {0}, p <= Len(Body[n])
    PROVE  FileEnd(n, p) \in Nat \ {0}
<1> DEFINE ends == {q \in p..(Len(Body[n]) + 1) :
                      q = Len(Body[n]) + 1 \/ Body[n][q] \in Block}
<1>1. Len(Body[n]) \in Nat
  BY ObjectsAssumption, LenProperties
<1>2. ends \in SUBSET (Nat \ {0})
  BY <1>1
<1>3. Len(Body[n]) + 1 \in ends
  BY <1>1
<1>4. Min(ends) \in ends
  BY <1>2, <1>3, MinFacts
<1>5. QED
  BY <1>2, <1>4 DEF FileEnd

-----------------------------------------------------------------------------
(* Types.                                                                   *)

(* Every kind of Buffer that the filter sends is a Buffer.                  *)
LEMMA BufferTypes ==
    /\ Header \in Buffer /\ Separator \in Buffer /\ Error \in Buffer
    /\ \A x \in Chunk : ChunkOf(x) \in Buffer
    /\ \A b \in Block : Marker(b) \in Buffer
BY DEF Buffer, Header, Separator, Error, ChunkOf, Marker

(* Sending a Buffer keeps the type of what was sent.                        *)
LEMMA SendTypes ==
    ASSUME TypeOK, NEW b \in Buffer, Send(b)
    PROVE  wire' \in Seq(Buffer)
BY AppendProperties DEF TypeOK, Send

(* Sending a marker keeps the types of the readers' bookkeeping as well.    *)
LEMMA SendMarkerTypes ==
    ASSUME TypeOK, NEW c \in Block, SendMarker(c)
    PROVE  /\ wire' \in Seq(Buffer)
           /\ inHand' \in BOOLEAN
           /\ heldOpen' \in Seq(Block)
           /\ crossed' \in BOOLEAN
<1>1. wire' \in Seq(Buffer) /\ inHand' \in BOOLEAN
  BY BufferTypes, SendTypes DEF SendMarker
<1>2. CASE c \in ToSet(heldOpen)
  <2>1. heldOpen # <<>>
    BY <1>2 DEF ToSet
  <2>2. Front(heldOpen) \in Seq(Block)
    BY <2>1, FrontFacts DEF TypeOK
  <2>3. QED
    BY <1>1, <1>2, <2>2 DEF SendMarker
<1>3. CASE c \notin ToSet(heldOpen)
  <2>1. Append(heldOpen, c) \in Seq(Block)
    BY AppendProperties DEF TypeOK
  <2>2. QED
    BY <1>1, <1>3, <2>1 DEF SendMarker, TypeOK
<1>4. QED
  BY <1>2, <1>3

(* A marker changes the filter and what is sent, within their types.        *)
LEMMA FilterMarkerTypes ==
    ASSUME TypeOK, Len(opened) = Len(stack), NEW c \in Block, FilterMarker(c)
    PROVE  /\ spc' \in {"body", "marked"}
           /\ stack' \in Seq(Block)
           /\ opened' \in Seq(BOOLEAN)
           /\ skippingAt' \in Nat
           /\ wire' \in Seq(Buffer)
           /\ inHand' \in BOOLEAN
           /\ heldOpen' \in Seq(Block)
           /\ crossed' \in BOOLEAN
<1>1. /\ wire' \in Seq(Buffer) /\ inHand' \in BOOLEAN
      /\ heldOpen' \in Seq(Block) /\ crossed' \in BOOLEAN
  BY SendMarkerTypes
     DEF FilterMarker, CloseMarker, OpenMarker, sentVars, TypeOK
<1>2. CASE Closes(c) /\ CloseMarker(c)
  <2>1. stack # <<>>
    BY <1>2 DEF Closes
  <2>2. opened # <<>>
    BY <2>1, EmptySeq DEF TypeOK
  <2>3. Front(stack) \in Seq(Block) /\ Front(opened) \in Seq(BOOLEAN)
    BY <2>1, <2>2, FrontFacts DEF TypeOK
  <2>4. QED
    BY <1>1, <1>2, <2>3 DEF CloseMarker, TypeOK
<1>3. CASE ~Closes(c) /\ OpenMarker(c)
  <2>1. Append(stack, c) \in Seq(Block)
    BY AppendProperties DEF TypeOK
  <2>2. Append(opened, skippingAt = 0) \in Seq(BOOLEAN)
    <3>1. (skippingAt = 0) \in BOOLEAN
      OBVIOUS
    <3>2. QED
      BY <3>1, AppendProperties DEF TypeOK
  <2>3. QED
    BY <1>1, <1>3, <2>1, <2>2 DEF OpenMarker, TypeOK
<1>4. QED
  BY <1>2, <1>3 DEF FilterMarker

-----------------------------------------------------------------------------
(* The walk.                                                                *)

(* A reader of the body of a node, and its place in it.                     *)
Reader == [node : Node, pos : Nat \ {0}]

(* The innermost reader is one of the readers, and reads a body.            *)
LEMMA TopFacts ==
    ASSUME TypeOK, Len(walk) > 0
    PROVE  /\ Len(walk) \in Nat \ {0}
           /\ Top = walk[Len(walk)]
           /\ Top \in Reader
           /\ Body[Top.node] \in Seq(Item)
           /\ Len(Body[Top.node]) \in Nat
<1>1. Len(walk) \in Nat \ {0}
  BY LenProperties DEF TypeOK
<1>2. walk[Len(walk)] \in Reader
  <2>1. walk \in Seq(Reader)
    BY DEF TypeOK, Reader
  <2>2. Len(walk) \in 1..Len(walk)
    BY <1>1
  <2>3. QED
    BY <2>1, <2>2, ElementOfSeq
<1>3. Top = walk[Len(walk)]
  BY DEF Top, Last
<1>4. Body[Top.node] \in Seq(Item)
  BY <1>2, <1>3, ObjectsAssumption DEF Reader
<1>5. QED
  BY <1>1, <1>2, <1>3, <1>4, LenProperties

(* A reader that moves on stays the reader of its node.                     *)
LEMMA MoveFacts ==
    ASSUME TypeOK, Len(walk) > 0, NEW p \in Nat \ {0},
           NEW moved, moved = [walk EXCEPT ![Len(walk)].pos = p]
    PROVE  /\ moved \in Seq(Reader)
           /\ Len(moved) = Len(walk)
           /\ \A i \in 1..Len(walk) : moved[i].node = walk[i].node
<1> DEFINE e == [walk[Len(walk)] EXCEPT !.pos = p]
<1>1. /\ Len(walk) \in Nat \ {0}
      /\ walk[Len(walk)] \in Reader
  BY TopFacts
<1>2. e \in Reader /\ e.node = walk[Len(walk)].node
  BY <1>1 DEF Reader
<1>3. moved = [walk EXCEPT ![Len(walk)] = e]
  OBVIOUS
<1>4. walk \in Seq(Reader)
  BY DEF TypeOK, Reader
<1> HIDE DEF e
<1>5. /\ moved \in Seq(Reader)
      /\ Len(moved) = Len(walk)
      /\ \A i \in 1..Len(walk) :
            moved[i] = IF i = Len(walk) THEN e ELSE walk[i]
  BY <1>1, <1>2, <1>3, <1>4, ExceptSeq
<1>6. QED
  BY <1>2, <1>5

(* A move of the innermost reader keeps the shape of the walk, and the      *)
(* filter's place on it.                                                    *)
LEMMA MoveKeepsWalk ==
    ASSUME TypeOK, WalkDescends, NEW p \in Nat \ {0},
           walk' = [walk EXCEPT ![Len(walk)].pos = p]
    PROVE  /\ walk' \in Seq(Reader)
           /\ WalkDescends'
           /\ Len(walk') = Len(walk)
           /\ StackFollowsWalk /\ UNCHANGED stack => StackFollowsWalk'
<1>1. /\ walk' \in Seq(Reader)
      /\ Len(walk') = Len(walk)
      /\ \A i \in 1..Len(walk) : walk'[i].node = walk[i].node
  BY MoveFacts DEF WalkDescends
<1>2. Len(walk) \in Nat \ {0}
  BY TopFacts DEF WalkDescends
<1>3. WalkDescends'
  BY <1>1, <1>2 DEF WalkDescends
<1>4. ASSUME StackFollowsWalk, UNCHANGED stack
      PROVE  StackFollowsWalk'
  <2>1. BlockDepth \in Nat \ {0}
    BY ObjectsAssumption
  <2>2. \A i \in 1..Len(stack) : i + 1 \in 1..Len(walk)
    BY <1>2, <2>1, <1>4 DEF StackFollowsWalk, Framed
  <2>3. QED
    BY <1>1, <1>2, <1>4, <2>2 DEF StackFollowsWalk, Framed
<1>5. QED
  BY <1>1, <1>3, <1>4

(* A reader that comes to a block starts a reader of that block, which is   *)
(* none of the nodes being read.                                            *)
LEMMA PushFacts ==
    ASSUME TypeOK, WalkDescends, ~AtEnd, TopItem \in Block,
           walk' = Append(Advance, [node |-> TopItem, pos |-> 1])
    PROVE  /\ walk' \in Seq(Reader)
           /\ Len(walk') = Len(walk) + 1
           /\ \A i \in 1..Len(walk) : walk'[i].node = walk[i].node
           /\ walk'[Len(walk) + 1].node = TopItem
           /\ \A i \in 1..Len(walk) : Rank[TopItem] < Rank[walk[i].node]
           /\ WalkDescends'
<1> DEFINE r == [node |-> TopItem, pos |-> 1]
<1>1. /\ Len(walk) \in Nat \ {0}
      /\ Top = walk[Len(walk)]
      /\ Top \in Reader
      /\ Len(Body[Top.node]) \in Nat
  BY TopFacts DEF WalkDescends
<1>2. /\ Advance \in Seq(Reader)
      /\ Len(Advance) = Len(walk)
      /\ \A i \in 1..Len(walk) : Advance[i].node = walk[i].node
  <2>1. Top.pos + 1 \in Nat \ {0}
    BY <1>1 DEF Reader
  <2>2. Advance = [walk EXCEPT ![Len(walk)].pos = Top.pos + 1]
    BY <1>1 DEF Advance
  <2>3. QED
    BY <2>1, <2>2, MoveFacts DEF WalkDescends
<1>3. r \in Reader /\ r.node = TopItem
  BY DEF Reader, Node
<1> HIDE DEF r
<1>4. /\ walk' \in Seq(Reader)
      /\ Len(walk') = Len(walk) + 1
      /\ \A i \in 1..Len(walk) : walk'[i] = Advance[i]
      /\ walk'[Len(walk) + 1] = r
  <2>1. walk' = Append(Advance, r)
    BY DEF r
  <2>2. QED
    BY <1>2, <1>3, <2>1, AppendProperties
<1>5. \A i \in 1..Len(walk) : walk'[i].node = walk[i].node
  BY <1>2, <1>4
<1>6. Rank[TopItem] < Rank[Top.node]
  <2>1. Top.pos \in 1..Len(Body[Top.node])
    BY <1>1 DEF AtEnd, Reader
  <2>2. QED
    BY <1>1, <2>1, ObjectsAssumption DEF TopItem, Reader
<1>7. \A i \in 1..Len(walk) : walk[i].node \in Node
  <2>1. walk \in Seq(Reader)
    BY DEF TypeOK, Reader
  <2>2. \A i \in 1..Len(walk) : walk[i] \in Reader
    BY <2>1, ElementOfSeq
  <2>3. QED
    BY <2>2 DEF Reader
<1>8. \A n \in Node : Rank[n] \in Nat
  BY ObjectsAssumption
<1>9. \A i \in 1..Len(walk) : Rank[TopItem] < Rank[walk[i].node]
  <2> TAKE i \in 1..Len(walk)
  <2>1. CASE i = Len(walk)
    BY <1>1, <1>6, <2>1
  <2>2. CASE i # Len(walk)
    <3>1. Rank[Top.node] < Rank[walk[i].node]
      BY <1>1, <2>2 DEF WalkDescends
    <3>2. TopItem \in Node /\ Top.node \in Node
      BY <1>1 DEF Node, Reader
    <3>3. QED
      BY <1>6, <1>7, <1>8, <3>1, <3>2
  <2>3. QED
    BY <2>1, <2>2
<1>10. WalkDescends'
  <2>1. Len(walk') > 0
    BY <1>1, <1>4
  <2>2. walk'[1].node = Root
    BY <1>1, <1>5 DEF WalkDescends
  <2>3. ASSUME NEW i \in 2..Len(walk') PROVE walk'[i].node \in Block
    <3>1. CASE i = Len(walk) + 1
      BY <1>3, <1>4, <3>1
    <3>2. CASE i # Len(walk) + 1
      <4>1. i \in 2..Len(walk) /\ i \in 1..Len(walk)
        BY <1>1, <1>4, <3>2
      <4>2. QED
        BY <1>5, <4>1 DEF WalkDescends
    <3>3. QED
      BY <3>1, <3>2
  <2>4. ASSUME NEW i \in 1..Len(walk'), NEW j \in 1..Len(walk'), i < j
        PROVE  Rank[walk'[j].node] < Rank[walk'[i].node]
    <3>1. i \in 1..Len(walk)
      BY <1>1, <1>4, <2>4
    <3>2. CASE j = Len(walk) + 1
      BY <1>3, <1>4, <1>5, <1>9, <3>1, <3>2
    <3>3. CASE j # Len(walk) + 1
      <4>1. j \in 1..Len(walk)
        BY <1>1, <1>4, <3>3
      <4>2. QED
        BY <1>5, <2>4, <3>1, <4>1 DEF WalkDescends
    <3>4. QED
      BY <3>2, <3>3
  <2>5. QED
    BY <2>1, <2>2, <2>3, <2>4 DEF WalkDescends
<1>11. QED
  BY <1>3, <1>4, <1>5, <1>9, <1>10

(* A reader that is done leaves the readers above it as they were.          *)
LEMMA PopFacts ==
    ASSUME TypeOK, WalkDescends, Len(walk) > 1, walk' = Front(walk)
    PROVE  /\ walk' \in Seq(Reader)
           /\ Len(walk) \in Nat
           /\ Len(walk') = Len(walk) - 1
           /\ \A i \in 1..(Len(walk) - 1) : walk'[i] = walk[i]
           /\ Top.node = walk[Len(walk)].node
           /\ Top.node \in Block
           /\ WalkDescends'
<1>1. Len(walk) \in Nat
  BY TopFacts
<1>2. walk \in Seq(Reader) /\ walk # <<>>
  BY <1>1, EmptySeq DEF TypeOK, Reader
<1>3. /\ walk' \in Seq(Reader)
      /\ Len(walk') = Len(walk) - 1
      /\ \A i \in 1..(Len(walk) - 1) : walk'[i] = walk[i]
  BY <1>2, FrontFacts
<1>4. Top.node = walk[Len(walk)].node
  BY DEF Top, Last
<1>5. Top.node \in Block
  <2>1. Len(walk) \in 2..Len(walk)
    BY <1>1
  <2>2. QED
    BY <1>4, <2>1 DEF WalkDescends
<1>6. WalkDescends'
  <2>1. /\ 1 \in 1..(Len(walk) - 1)
        /\ \A i \in 1..(Len(walk) - 1) : i \in 1..Len(walk)
        /\ \A i \in 2..(Len(walk) - 1) :
              i \in 2..Len(walk) /\ i \in 1..(Len(walk) - 1)
    BY <1>1
  <2>2. Len(walk') > 0
    BY <1>1, <1>3
  <2>3. QED
    BY <1>3, <2>1, <2>2 DEF WalkDescends
<1>7. QED
  BY <1>1, <1>3, <1>4, <1>5, <1>6

-----------------------------------------------------------------------------
(* The markers.                                                             *)

(* The marker of a block that is not open opens it.                         *)
LEMMA StartMarker ==
    ASSUME TypeOK, ReaderHoldsOpened, NEW c \in Block,
           \A i \in 1..Len(stack) : stack[i] # c,
           FilterMarker(c)
    PROVE  /\ OpenMarker(c)
           /\ stack' = Append(stack, c)
           /\ ReaderHoldsOpened'
           /\ spc' = "marked" => skippingAt' = 0
<1>1. /\ Len(stack) \in Nat /\ Len(opened) \in Nat /\ Len(heldOpen) \in Nat
      /\ stack # <<>> => Len(stack) \in 1..Len(stack)
  BY EmptySeq, LenProperties DEF TypeOK
<1>2. ~Closes(c)
  BY <1>1 DEF Closes, Last
<1>3. OpenMarker(c)
  BY <1>2 DEF FilterMarker
<1>4. /\ stack' = Append(stack, c)
      /\ Len(stack') = Len(stack) + 1
      /\ \A i \in 1..Len(stack) : stack'[i] = stack[i]
      /\ stack'[Len(stack) + 1] = c
  BY <1>3, AppendProperties DEF OpenMarker, TypeOK
<1>5. /\ Len(opened') = Len(opened) + 1
      /\ \A i \in 1..Len(opened) : opened'[i] = opened[i]
      /\ opened'[Len(opened) + 1] <=> skippingAt = 0
  <2> DEFINE e == (skippingAt = 0)
  <2>1. opened' = Append(opened, e) /\ e \in BOOLEAN
    BY <1>3 DEF OpenMarker
  <2> HIDE DEF e
  <2>2. /\ Len(opened') = Len(opened) + 1
        /\ \A i \in 1..Len(opened) : opened'[i] = opened[i]
        /\ opened'[Len(opened) + 1] = e
    BY <2>1, AppendProperties DEF TypeOK
  <2>3. QED
    BY <2>2, Zenon DEF e
<1>6. CASE skippingAt = 0
  <2>1. Len(heldOpen) = Len(stack)
    BY <1>1, <1>6 DEF ReaderHoldsOpened
  <2>2. c \notin ToSet(heldOpen)
    <3>1. DOMAIN heldOpen = 1..Len(heldOpen)
      BY LenProperties DEF TypeOK
    <3>2. \A i \in 1..Len(heldOpen) : heldOpen[i] # c
      BY <1>1, <2>1 DEF ReaderHoldsOpened
    <3>3. QED
      BY <3>1, <3>2 DEF ToSet
  <2>3. heldOpen' = Append(heldOpen, c) /\ ~crossed'
    BY <1>3, <1>6, <2>2 DEF OpenMarker, SendMarker, ReaderHoldsOpened
  <2>4. /\ Len(heldOpen') = Len(heldOpen) + 1
        /\ \A i \in 1..Len(heldOpen) : heldOpen'[i] = heldOpen[i]
        /\ heldOpen'[Len(heldOpen) + 1] = c
    BY <2>3, AppendProperties DEF TypeOK
  <2>5. skippingAt' = 0
    BY <1>3, <1>6 DEF OpenMarker
  <2>6. \A i \in 1..Len(heldOpen') : heldOpen'[i] = stack'[i]
    BY <1>1, <1>4, <2>1, <2>4 DEF ReaderHoldsOpened
  <2>7. \A i \in 1..Len(stack') : opened'[i] <=> i <= Len(heldOpen')
    BY <1>1, <1>4, <1>5, <1>6, <2>1, <2>4 DEF ReaderHoldsOpened
  <2>8. QED
    BY <1>1, <1>3, <1>4, <1>5, <2>1, <2>3, <2>4, <2>5, <2>6, <2>7
       DEF ReaderHoldsOpened
<1>7. CASE skippingAt # 0
  <2>1. /\ UNCHANGED heldOpen
        /\ ~crossed'
        /\ skippingAt' = skippingAt
        /\ spc' = "body"
    BY <1>3, <1>7 DEF OpenMarker, ReaderHoldsOpened, sentVars
  <2>2. \A i \in 1..Len(heldOpen') : heldOpen'[i] = stack'[i]
    BY <1>1, <1>4, <2>1 DEF ReaderHoldsOpened
  <2>3. skippingAt \in 1..Len(heldOpen)
    BY <1>1, <1>7 DEF ReaderHoldsOpened, TypeOK
  <2>4. \A i \in 1..Len(stack') : opened'[i] <=> i <= Len(heldOpen')
    BY <1>1, <1>4, <1>5, <1>7, <2>1 DEF ReaderHoldsOpened
  <2>5. QED
    BY <1>1, <1>3, <1>4, <1>5, <2>1, <2>2, <2>3, <2>4 DEF ReaderHoldsOpened
<1>8. QED
  BY <1>6, <1>7

(* The marker of the innermost open block closes it: it goes out if and     *)
(* only if the reader has the block open, as the innermost one.             *)
LEMMA EndMarker ==
    ASSUME TypeOK, ReaderHoldsOpened, NEW c \in Block,
           stack # <<>>, stack[Len(stack)] = c,
           \A i, j \in 1..Len(stack) : i < j => stack[i] # stack[j],
           FilterMarker(c)
    PROVE  /\ CloseMarker(c)
           /\ stack' = Front(stack)
           /\ ReaderHoldsOpened'
<1>1. /\ Len(stack) \in Nat \ {0} /\ Len(opened) \in Nat /\ Len(heldOpen) \in Nat
      /\ Len(opened) = Len(stack)
  BY EmptySeq, LenProperties DEF TypeOK, ReaderHoldsOpened
<1>2. CloseMarker(c)
  BY DEF FilterMarker, Closes, Last
<1>3. /\ Len(stack') = Len(stack) - 1
      /\ \A i \in 1..(Len(stack) - 1) : stack'[i] = stack[i]
  BY <1>2, FrontFacts DEF CloseMarker, TypeOK
<1>4. /\ Len(opened') = Len(stack) - 1
      /\ \A i \in 1..(Len(stack) - 1) : opened'[i] = opened[i]
  <2>1. opened # <<>>
    BY <1>1, EmptySeq
  <2>2. QED
    BY <1>1, <1>2, <2>1, FrontFacts DEF CloseMarker, TypeOK
<1>5. Last(opened) <=> Len(heldOpen) = Len(stack)
  <2>1. Len(stack) \in 1..Len(stack)
    BY <1>1
  <2>2. opened[Len(stack)] <=> Len(stack) <= Len(heldOpen)
    BY <2>1 DEF ReaderHoldsOpened
  <2>3. Len(stack) <= Len(heldOpen) <=> Len(heldOpen) = Len(stack)
    BY <1>1 DEF ReaderHoldsOpened
  <2>4. QED
    BY <1>1, <2>2, <2>3 DEF Last
<1>6. skippingAt' <= Len(stack')
  <2>1. CASE skippingAt = Len(stack)
    BY <1>1, <1>2, <1>3, <2>1 DEF CloseMarker
  <2>2. CASE skippingAt # Len(stack)
    BY <1>1, <1>2, <1>3, <2>2 DEF CloseMarker, ReaderHoldsOpened, TypeOK
  <2>3. QED
    BY <2>1, <2>2
<1>7. CASE Len(heldOpen) = Len(stack)
  <2>1. heldOpen[Len(heldOpen)] = c /\ Len(heldOpen) \in 1..Len(heldOpen)
    BY <1>1, <1>7 DEF ReaderHoldsOpened
  <2>2. c \in ToSet(heldOpen) /\ heldOpen # <<>>
    BY <1>1, <1>7, <2>1, EmptySeq, LenProperties DEF ToSet, TypeOK
  <2>3. heldOpen' = Front(heldOpen) /\ ~crossed'
    BY <1>2, <1>5, <1>7, <2>1, <2>2
       DEF CloseMarker, SendMarker, Last, ReaderHoldsOpened
  <2>4. /\ Len(heldOpen') = Len(heldOpen) - 1
        /\ \A i \in 1..(Len(heldOpen) - 1) : heldOpen'[i] = heldOpen[i]
    BY <2>2, <2>3, FrontFacts DEF TypeOK
  <2>5. Len(heldOpen') = Len(stack')
    BY <1>3, <1>7, <2>4
  <2>6. \A i \in 1..Len(heldOpen') : heldOpen'[i] = stack'[i]
    BY <1>1, <1>3, <1>7, <2>4 DEF ReaderHoldsOpened
  <2>7. \A i \in 1..Len(stack') : opened'[i] <=> i <= Len(heldOpen')
    BY <1>1, <1>3, <1>4, <1>7, <2>5 DEF ReaderHoldsOpened
  <2>8. QED
    BY <1>1, <1>2, <1>3, <1>4, <1>6, <2>3, <2>5, <2>6, <2>7
       DEF ReaderHoldsOpened, CloseMarker
<1>8. CASE Len(heldOpen) # Len(stack)
  <2>1. UNCHANGED heldOpen /\ ~crossed'
    BY <1>2, <1>5, <1>8 DEF CloseMarker, sentVars, ReaderHoldsOpened
  <2>2. Len(heldOpen) <= Len(stack) - 1 /\ skippingAt \in 1..Len(heldOpen)
    BY <1>1, <1>8 DEF ReaderHoldsOpened
  <2>3. skippingAt' = skippingAt
    BY <1>1, <1>2, <2>2 DEF CloseMarker
  <2>4. \A i \in 1..Len(heldOpen') : heldOpen'[i] = stack'[i]
    <3>1. \A i \in 1..Len(heldOpen) : i \in 1..(Len(stack) - 1)
      BY <1>1, <2>2 DEF TypeOK
    <3>2. \A i \in 1..Len(heldOpen) : heldOpen[i] = stack[i]
      BY <1>1 DEF ReaderHoldsOpened
    <3> QED
      BY <1>3, <2>1, <3>1, <3>2
  <2>5. \A i \in 1..Len(stack') : opened'[i] <=> i <= Len(heldOpen')
    BY <1>1, <1>3, <1>4, <2>1 DEF ReaderHoldsOpened
  <2>6. QED
    BY <1>1, <1>2, <1>3, <1>4, <1>6, <2>1, <2>2, <2>3, <2>4, <2>5
       DEF ReaderHoldsOpened, CloseMarker
<1>9. QED
  BY <1>7, <1>8

-----------------------------------------------------------------------------
(* The inductive invariant.                                                 *)

(* At the start one reader is at the first item and no block is open.       *)
LEMMA FramingInit == Init => FramingInv
<1> SUFFICES ASSUME Init PROVE FramingInv
  OBVIOUS
<1> DEFINE r == [node |-> Root, pos |-> 1]
<1>1. r \in Reader /\ r.node = Root
  BY DEF Reader, Node
<1>2. walk = <<r>>
  BY DEF Init
<1> HIDE DEF r
<1>3. /\ walk \in Seq(Reader)
      /\ Len(walk) = 1
      /\ walk[1] = r
  BY <1>1, <1>2
<1>4. TypeOK
  BY <1>3, EmptySeq DEF Init, TypeOK, Reader
<1>5. WalkDescends
  BY <1>1, <1>3 DEF WalkDescends
<1>6. StackFollowsWalk
  BY <1>3, ObjectsAssumption DEF Init, StackFollowsWalk, Framed
<1>7. ReaderHoldsOpened
  BY DEF Init, ReaderHoldsOpened
<1>8. QED
  BY <1>3, <1>4, <1>5, <1>6, <1>7 DEF Init, FramingInv

(* The nodes on the filter's stack lie on the walk, one below the other.    *)
LEMMA StackFacts ==
    ASSUME FramingInv
    PROVE  /\ Len(stack) \in Nat
           /\ Len(walk) \in Nat \ {0}
           /\ \A i \in 1..Len(stack) : i + 1 \in 1..Len(walk)
           /\ \A i, j \in 1..Len(stack) : i < j => stack[i] # stack[j]
<1>1. Len(stack) \in Nat /\ Len(walk) \in Nat \ {0}
  BY LenProperties, TopFacts DEF FramingInv, TypeOK, WalkDescends
<1>2. \A i \in 1..Len(stack) : i + 1 \in 1..Len(walk)
  BY <1>1, ObjectsAssumption DEF FramingInv, StackFollowsWalk, Framed
<1>3. \A n \in Node : Rank[n] \in Nat
  BY ObjectsAssumption
<1>4. ASSUME NEW i \in 1..Len(stack), NEW j \in 1..Len(stack), i < j
      PROVE  stack[i] # stack[j]
  <2>1. Rank[walk[j + 1].node] < Rank[walk[i + 1].node]
    BY <1>1, <1>2, <1>4 DEF FramingInv, WalkDescends
  <2>2. stack[i] \in Node
    BY ElementOfSeq DEF FramingInv, TypeOK, Node
  <2>3. stack[i] = walk[i + 1].node /\ stack[j] = walk[j + 1].node
    BY DEF FramingInv, StackFollowsWalk
  <2>4. QED
    BY <1>3, <2>1, <2>2, <2>3
<1>5. QED
  BY <1>1, <1>2, <1>4

(* A piece moves the innermost reader and nothing else of the framing.      *)
LEMMA ReadChunkStep == FramingInv /\ ReadChunk => FramingInv'
<1> SUFFICES ASSUME FramingInv, ReadChunk PROVE FramingInv'
  OBVIOUS
<1>1. /\ Len(stack) \in Nat
      /\ Top = walk[Len(walk)]
      /\ Top \in Reader
      /\ Len(walk) \in Nat \ {0}
      /\ Len(heldOpen) \in Nat
  BY StackFacts, TopFacts, LenProperties DEF FramingInv, WalkDescends, TypeOK
<1>2. /\ walk' \in Seq(Reader)
      /\ WalkDescends'
      /\ Len(walk') = Len(walk)
      /\ StackFollowsWalk'
  <2>1. Top.pos + 1 \in Nat \ {0}
    BY <1>1 DEF Reader
  <2>2. walk' = [walk EXCEPT ![Len(walk)].pos = Top.pos + 1]
    BY <1>1 DEF ReadChunk, Advance
  <2>3. QED
    BY <2>1, <2>2, MoveKeepsWalk DEF FramingInv, ReadChunk
<1>3. /\ skippingAt' \in 0..Len(stack)
      /\ skippingAt # 0 => skippingAt' = skippingAt
  BY <1>1, OutermostSkippedFacts
     DEF ReadChunk, FramingInv, TypeOK, ReaderHoldsOpened
<1>4. wire' \in Seq(Buffer) /\ inHand' \in BOOLEAN
  BY BufferTypes, SendTypes DEF ReadChunk, SendChunk, FramingInv, TypeOK
<1>5. TypeOK'
  BY <1>1, <1>2, <1>3, <1>4 DEF ReadChunk, FramingInv, TypeOK, Reader
<1>6. ReaderHoldsOpened'
  BY <1>1, <1>3 DEF ReadChunk, FramingInv, ReaderHoldsOpened, TypeOK
<1>7. QED
  BY <1>2, <1>5, <1>6 DEF ReadChunk, FramingInv

(* A file that is gone is passed over: the reader moves past its pieces.    *)
LEMMA FileVanishesStep == FramingInv /\ FileVanishes => FramingInv'
<1> SUFFICES ASSUME FramingInv, FileVanishes PROVE FramingInv'
  OBVIOUS
<1>1. /\ Top \in Reader
      /\ Len(Body[Top.node]) \in Nat
  BY TopFacts DEF FramingInv, WalkDescends
<1>2. FileEnd(Top.node, Top.pos) \in Nat \ {0}
  BY <1>1, FileEndFacts DEF FileVanishes, AtEnd, Reader
<1>3. /\ walk' \in Seq(Reader)
      /\ WalkDescends'
      /\ Len(walk') = Len(walk)
      /\ StackFollowsWalk'
  BY <1>2, MoveKeepsWalk DEF FileVanishes, FramingInv, filterVars
<1>4. TypeOK'
  BY <1>3 DEF FileVanishes, FramingInv, TypeOK, Reader, filterVars, sentVars
<1>5. QED
  BY <1>3, <1>4
     DEF FileVanishes, FramingInv, ReaderHoldsOpened, filterVars, sentVars

(* A start marker opens the block the reader has come to.                   *)
LEMMA EnterBlockStep == FramingInv /\ EnterBlock => FramingInv'
<1> SUFFICES ASSUME FramingInv, EnterBlock PROVE FramingInv'
  OBVIOUS
<1>1. /\ walk' \in Seq(Reader)
      /\ Len(walk') = Len(walk) + 1
      /\ \A i \in 1..Len(walk) : walk'[i].node = walk[i].node
      /\ walk'[Len(walk) + 1].node = TopItem
      /\ \A i \in 1..Len(walk) : Rank[TopItem] < Rank[walk[i].node]
      /\ WalkDescends'
  BY PushFacts DEF EnterBlock, FramingInv
<1>2. /\ Len(stack) \in Nat
      /\ Len(walk) \in Nat \ {0}
      /\ \A i \in 1..Len(stack) : i + 1 \in 1..Len(walk)
  BY StackFacts
<1>3. TopItem \in Block /\ spc = "body"
  BY DEF EnterBlock
<1>4. BlockDepth \in Nat \ {0}
  BY ObjectsAssumption
<1>5. CASE Framed(Len(walk))
  <2>1. FilterMarker(TopItem)
    BY <1>5 DEF EnterBlock
  <2>2. \A i \in 1..Len(stack) : stack[i] # TopItem
    <3>1. \A i \in 1..Len(stack) : stack[i] = walk[i + 1].node
      BY DEF FramingInv, StackFollowsWalk
    <3>2. \A n \in Node : Rank[n] \in Nat
      BY ObjectsAssumption
    <3>3. QED
      BY <1>1, <1>2, <1>3, <3>1, <3>2 DEF Node
  <2>3. /\ stack' = Append(stack, TopItem)
        /\ ReaderHoldsOpened'
        /\ spc' = "marked" => skippingAt' = 0
    BY <1>3, <2>1, <2>2, StartMarker DEF FramingInv
  <2>4. Len(stack) = Len(walk) - 1
    BY <1>2, <1>4, <1>5 DEF FramingInv, StackFollowsWalk, Framed
  <2>5. /\ Len(stack') = Len(stack) + 1
        /\ \A i \in 1..Len(stack) : stack'[i] = stack[i]
        /\ stack'[Len(stack) + 1] = TopItem
    BY <1>3, <2>3, AppendProperties DEF FramingInv, TypeOK
  <2>6. StackFollowsWalk'
    <3>1. Framed(Len(walk') - 1) /\ Len(stack') = Len(walk') - 1
      BY <1>1, <1>2, <1>5, <2>4, <2>5 DEF Framed
    <3>2. ASSUME NEW i \in 1..Len(stack')
          PROVE  stack'[i] = walk'[i + 1].node
      <4>1. CASE i = Len(stack) + 1
        BY <1>1, <1>2, <2>4, <2>5, <4>1
      <4>2. CASE i # Len(stack) + 1
        <5>1. i \in 1..Len(stack)
          BY <1>2, <2>5, <4>2
        <5>2. QED
          BY <1>1, <1>2, <2>5, <5>1 DEF FramingInv, StackFollowsWalk
      <4>3. QED
        BY <4>1, <4>2
    <3>3. QED
      BY <3>1, <3>2 DEF StackFollowsWalk, Framed
  <2>7. TypeOK' /\ spc' # "done"
    <3>1. Len(opened) = Len(stack) /\ TypeOK
      BY DEF FramingInv, ReaderHoldsOpened
    <3>2. /\ spc' \in {"body", "marked"}
          /\ stack' \in Seq(Block)
          /\ opened' \in Seq(BOOLEAN)
          /\ skippingAt' \in Nat
          /\ wire' \in Seq(Buffer)
          /\ inHand' \in BOOLEAN
          /\ heldOpen' \in Seq(Block)
          /\ crossed' \in BOOLEAN
      BY <1>3, <2>1, <3>1, FilterMarkerTypes
    <3>3. skip' \subseteq Block
      BY <3>1 DEF EnterBlock, TypeOK
    <3>4. QED
      BY <1>1, <3>2, <3>3 DEF TypeOK, Reader
  <2>8. QED
    BY <1>1, <2>3, <2>6, <2>7 DEF FramingInv
<1>6. CASE ~Framed(Len(walk))
  <2>1. UNCHANGED <<spc, stack, opened, skippingAt, skip, wire, inHand, heldOpen,
                    crossed>>
    BY <1>6 DEF EnterBlock, filterVars, sentVars
  <2>2. TypeOK'
    BY <1>1, <2>1 DEF FramingInv, TypeOK, Reader
  <2>3. ReaderHoldsOpened'
    BY <2>1 DEF FramingInv, ReaderHoldsOpened
  <2>4. Len(stack) = BlockDepth /\ Len(walk) > BlockDepth
    BY <1>2, <1>4, <1>6 DEF FramingInv, StackFollowsWalk, Framed
  <2>5. StackFollowsWalk'
    <3>1. ~Framed(Len(walk') - 1) /\ Len(stack') = BlockDepth
      BY <1>1, <1>2, <1>4, <2>1, <2>4 DEF Framed
    <3>2. ASSUME NEW i \in 1..Len(stack')
          PROVE  stack'[i] = walk'[i + 1].node
      <4>1. i \in 1..Len(stack) /\ i + 1 \in 1..Len(walk)
        BY <1>2, <1>4, <2>1, <2>4
      <4>2. stack[i] = walk[i + 1].node
        BY <4>1 DEF FramingInv, StackFollowsWalk
      <4>3. QED
        BY <1>1, <2>1, <4>1, <4>2
    <3>3. QED
      BY <3>1, <3>2 DEF StackFollowsWalk
  <2>6. QED
    BY <1>1, <1>3, <2>1, <2>2, <2>3, <2>5 DEF FramingInv
<1>7. QED
  BY <1>5, <1>6

(* An end marker closes the block whose reader is done.                     *)
LEMMA LeaveBlockStep == FramingInv /\ LeaveBlock => FramingInv'
<1> SUFFICES ASSUME FramingInv, LeaveBlock PROVE FramingInv'
  OBVIOUS
<1>1. /\ walk' \in Seq(Reader)
      /\ Len(walk') = Len(walk) - 1
      /\ \A i \in 1..(Len(walk) - 1) : walk'[i] = walk[i]
      /\ Top.node = walk[Len(walk)].node
      /\ Top.node \in Block
      /\ WalkDescends'
  BY PopFacts DEF LeaveBlock, FramingInv
<1>2. /\ Len(stack) \in Nat
      /\ Len(walk) \in Nat \ {0}
      /\ Len(walk) > 1
      /\ \A i, j \in 1..Len(stack) : i < j => stack[i] # stack[j]
  BY StackFacts DEF LeaveBlock
<1>3. BlockDepth \in Nat \ {0}
  BY ObjectsAssumption
<1>4. spc = "body"
  BY DEF LeaveBlock
<1>5. CASE Framed(Len(walk) - 1)
  <2>1. FilterMarker(Top.node)
    BY <1>5 DEF LeaveBlock
  <2>2. Len(stack) = Len(walk) - 1
    BY <1>5 DEF FramingInv, StackFollowsWalk
  <2>3. stack # <<>> /\ stack[Len(stack)] = Top.node
    <3>1. Len(stack) \in 1..Len(stack) /\ Len(stack) + 1 = Len(walk)
      BY <1>2, <2>2
    <3>2. stack[Len(stack)] = walk[Len(walk)].node
      BY <3>1 DEF FramingInv, StackFollowsWalk
    <3>3. QED
      BY <1>1, <1>2, <2>2, <3>1, <3>2, EmptySeq DEF FramingInv, TypeOK
  <2>4. /\ stack' = Front(stack)
        /\ ReaderHoldsOpened'
        /\ spc' = "body"
    BY <1>1, <1>2, <2>1, <2>3, EndMarker DEF FramingInv, CloseMarker
  <2>5. /\ Len(stack') = Len(stack) - 1
        /\ \A i \in 1..(Len(stack) - 1) : stack'[i] = stack[i]
    BY <2>3, <2>4, FrontFacts DEF FramingInv, TypeOK
  <2>6. StackFollowsWalk'
    <3>1. Framed(Len(walk') - 1) /\ Len(stack') = Len(walk') - 1
      BY <1>1, <1>2, <1>3, <1>5, <2>2, <2>5 DEF Framed
    <3>2. \A i \in 1..Len(stack') : stack'[i] = walk'[i + 1].node
      BY <1>1, <1>2, <2>2, <2>5 DEF FramingInv, StackFollowsWalk
    <3>3. QED
      BY <3>1, <3>2 DEF StackFollowsWalk, Framed
  <2>7. TypeOK'
    <3>1. Len(opened) = Len(stack) /\ TypeOK
      BY DEF FramingInv, ReaderHoldsOpened
    <3>2. /\ spc' \in {"body", "marked"}
          /\ stack' \in Seq(Block)
          /\ opened' \in Seq(BOOLEAN)
          /\ skippingAt' \in Nat
          /\ wire' \in Seq(Buffer)
          /\ inHand' \in BOOLEAN
          /\ heldOpen' \in Seq(Block)
          /\ crossed' \in BOOLEAN
      BY <1>1, <2>1, <3>1, FilterMarkerTypes
    <3>3. skip' \subseteq Block
      BY <3>1 DEF LeaveBlock, TypeOK
    <3>4. QED
      BY <1>1, <3>2, <3>3 DEF TypeOK, Reader
  <2>8. QED
    BY <1>1, <2>4, <2>6, <2>7 DEF FramingInv
<1>6. CASE ~Framed(Len(walk) - 1)
  <2>1. UNCHANGED <<spc, stack, opened, skippingAt, skip, wire, inHand, heldOpen,
                    crossed>>
    BY <1>6 DEF LeaveBlock, filterVars, sentVars
  <2>2. TypeOK'
    BY <1>1, <2>1 DEF FramingInv, TypeOK, Reader
  <2>3. ReaderHoldsOpened'
    BY <2>1 DEF FramingInv, ReaderHoldsOpened
  <2>4. Len(stack) = BlockDepth /\ Len(walk) - 1 > BlockDepth
    BY <1>2, <1>3, <1>6 DEF FramingInv, StackFollowsWalk, Framed
  <2>5. Len(stack') = IF Framed(Len(walk') - 1) THEN Len(walk') - 1 ELSE BlockDepth
    BY <1>1, <1>2, <1>3, <2>1, <2>4 DEF Framed
  <2>6. \A i \in 1..Len(stack') : stack'[i] = walk'[i + 1].node
    BY <1>1, <1>2, <1>3, <2>1, <2>4 DEF FramingInv, StackFollowsWalk
  <2>7. StackFollowsWalk'
    BY <2>5, <2>6 DEF StackFollowsWalk, Framed
  <2>8. QED
    BY <1>1, <1>4, <2>1, <2>2, <2>3, <2>7 DEF FramingInv
<1>7. QED
  BY <1>5, <1>6

(* The steps that leave the walk where it is.                               *)
LEMMA StandingStep ==
    FramingInv /\ (SendHead \/ Resume \/ ReadFails \/ SendSeparator) => FramingInv'
<1> SUFFICES ASSUME FramingInv, SendHead \/ Resume \/ ReadFails \/ SendSeparator
             PROVE  FramingInv'
  OBVIOUS
<1>1. /\ Len(stack) \in Nat /\ Len(heldOpen) \in Nat
      /\ OutermostSkipped \in 0..Len(stack)
  BY StackFacts, OutermostSkippedFacts, LenProperties DEF FramingInv, TypeOK
<1>2. UNCHANGED <<walk, stack, opened, skip, inHand, heldOpen, crossed>>
  BY DEF SendHead, Resume, ReadFails, SendSeparator, filterVars, sentVars
<1>3. WalkDescends' /\ StackFollowsWalk'
  BY <1>2 DEF FramingInv, WalkDescends, StackFollowsWalk, Framed
<1>4. wire' \in Seq(Buffer)
  BY BufferTypes, SendTypes
     DEF SendHead, Resume, ReadFails, SendSeparator, sentVars, FramingInv, TypeOK
<1>5. CASE Resume
  <2>1. TypeOK'
    BY <1>1, <1>2, <1>4, <1>5 DEF Resume, FramingInv, TypeOK
  <2>2. ReaderHoldsOpened'
    BY <1>1, <1>2, <1>5 DEF Resume, FramingInv, ReaderHoldsOpened
  <2>3. QED
    BY <1>3, <1>5, <2>1, <2>2 DEF Resume, FramingInv
<1>6. CASE SendHead \/ ReadFails \/ SendSeparator
  <2>1. skippingAt' = skippingAt /\ spc' \in {"body", "failed", "done"}
    BY <1>6 DEF SendHead, ReadFails, SendSeparator, filterVars
  <2>2. TypeOK' /\ ReaderHoldsOpened'
    BY <1>2, <1>4, <2>1 DEF FramingInv, TypeOK, ReaderHoldsOpened
  <2>3. spc' = "done" => Len(walk') = 1
    BY <1>2, <1>6 DEF SendHead, ReadFails, SendSeparator
  <2>4. QED
    BY <1>3, <2>1, <2>2, <2>3 DEF FramingInv
<1>7. QED
  BY <1>5, <1>6

(* The steps of the peer and of the consumer, and the yield of what was     *)
(* let through before.                                                      *)
LEMMA OutsideStep ==
    ASSUME FramingInv,
           UNCHANGED <<spc, walk, stack, opened, skippingAt, heldOpen, crossed>>,
           skip' \subseteq Block, wire' \in Seq(Buffer), inHand' \in BOOLEAN
    PROVE  FramingInv'
<1>1. TypeOK'
  BY DEF FramingInv, TypeOK
<1>2. WalkDescends' /\ StackFollowsWalk' /\ ReaderHoldsOpened'
  BY DEF FramingInv, WalkDescends, StackFollowsWalk, ReaderHoldsOpened, Framed
<1>3. QED
  BY <1>1, <1>2 DEF FramingInv

(* Every step keeps the invariant: one case per action.                     *)
LEMMA FramingNext == FramingInv /\ [Next]_vars => FramingInv'
<1> SUFFICES ASSUME FramingInv, [Next]_vars PROVE FramingInv'
  OBVIOUS
<1>1. CASE Yield
  <2>1. skip' \subseteq Block /\ wire' \in Seq(Buffer) /\ inHand' \in BOOLEAN
    BY <1>1 DEF Yield, FramingInv, TypeOK
  <2>2. QED
    BY <1>1, <2>1, OutsideStep DEF Yield, filterVars
<1>2. CASE SenderStep
  BY <1>1, <1>2, ReadChunkStep, EnterBlockStep, FileVanishesStep, LeaveBlockStep,
     StandingStep DEF SenderStep
<1>3. CASE \E b \in Block : Observe(b)
  <2>1. skip' \subseteq Block /\ wire' \in Seq(Buffer) /\ inHand' \in BOOLEAN
    BY <1>3 DEF Observe, FramingInv, TypeOK, sentVars
  <2>2. QED
    BY <1>3, <2>1, OutsideStep DEF Observe, filterVars, sentVars
<1>4. CASE Consume
  <2>1. skip' \subseteq Block /\ wire' \in Seq(Buffer) /\ inHand' \in BOOLEAN
    BY <1>4, HeadTailProperties DEF Consume, FramingInv, TypeOK
  <2>2. QED
    BY <1>4, <2>1, OutsideStep DEF Consume, filterVars
<1>5. CASE UNCHANGED vars
  <2>1. skip' \subseteq Block /\ wire' \in Seq(Buffer) /\ inHand' \in BOOLEAN
    BY <1>5 DEF vars, FramingInv, TypeOK, sentVars
  <2>2. QED
    BY <1>5, <2>1, OutsideStep DEF vars, filterVars, sentVars
<1>6. QED
  BY <1>2, <1>3, <1>4, <1>5 DEF Next

(* The stack of skip_requested_blocks, the walk of the generators below it  *)
(* and the blocks that the peer was sent a marker of never get out of step: *)
(* what the peer holds open is the outer part of the stack, and the rest of *)
(* it lies inside the block that is being skipped.                          *)
THEOREM FramingCorrect == Spec => []FramingInv
BY FramingInit, FramingNext, PTL DEF Spec

-----------------------------------------------------------------------------
(* The stream as a reader takes it.                                         *)

(* Where a reader is that has taken every Buffer sent.                      *)
AtSent == At(heldOpen, walk[1].pos)

RootBound == walk[1].pos <= Len(Body[Root]) + 1

LEMMA SentFacts ==
    ASSUME FramingInv
    PROVE  /\ Len(walk) \in Nat \ {0} /\ (Len(walk) = 1 \/ Len(walk) > 1)
           /\ stack \in Seq(Block) /\ Len(stack) \in Nat
           /\ heldOpen \in Seq(Block) /\ Len(heldOpen) \in Nat
           /\ walk[1].node = Root /\ walk[1].pos \in Nat \ {0}
           /\ Len(Body[Root]) \in Nat
           /\ AtSent \in Place
           /\ Len(walk) = 1 => stack = <<>> /\ heldOpen = <<>> /\ skippingAt = 0
           /\ Len(walk) > 1 => stack # <<>> /\ heldOpen # <<>>
           /\ skippingAt = 0 => heldOpen = stack
<1>1. TypeOK /\ WalkDescends /\ StackFollowsWalk /\ ReaderHoldsOpened
  BY DEF FramingInv
<1>2. /\ Len(walk) \in Nat \ {0} /\ Len(stack) \in Nat /\ Len(heldOpen) \in Nat
      /\ stack \in Seq(Block) /\ heldOpen \in Seq(Block)
  BY <1>1, StackFacts, LenProperties DEF TypeOK
<1>3. walk[1].node = Root /\ walk[1].pos \in Nat \ {0}
  <2>1. walk \in Seq(Reader) /\ 1 \in 1..Len(walk)
    BY <1>1, <1>2 DEF TypeOK, Reader
  <2>2. walk[1] \in Reader
    BY <2>1, ElementOfSeq
  <2> QED
    BY <1>1, <2>2 DEF WalkDescends, Reader
<1>4. Len(Body[Root]) \in Nat
  BY ObjectsAssumption, LenProperties DEF Node
<1>5. AtSent \in Place
  BY <1>2, <1>3 DEF AtSent, At, Place
<1>6. /\ Len(stack) = IF Len(walk) - 1 <= BlockDepth THEN Len(walk) - 1 ELSE BlockDepth
      /\ BlockDepth \in Nat \ {0}
  BY <1>1, ObjectsAssumption DEF StackFollowsWalk, Framed
<1>7. /\ Len(heldOpen) <= Len(stack) /\ skippingAt \in Nat /\ skippingAt <= Len(stack)
      /\ Len(heldOpen) < Len(stack) => skippingAt \in 1..Len(heldOpen)
      /\ \A i \in 1..Len(heldOpen) : heldOpen[i] = stack[i]
  BY <1>1 DEF ReaderHoldsOpened, TypeOK
<1>8. Len(walk) = 1 => stack = <<>> /\ heldOpen = <<>> /\ skippingAt = 0
  <2> SUFFICES ASSUME Len(walk) = 1
               PROVE  stack = <<>> /\ heldOpen = <<>> /\ skippingAt = 0
    OBVIOUS
  <2>1. Len(stack) = 0 /\ Len(heldOpen) = 0 /\ skippingAt = 0
    BY <1>2, <1>6, <1>7
  <2> QED
    BY <1>2, <2>1, EmptySeq
<1>9. Len(walk) > 1 => stack # <<>> /\ heldOpen # <<>>
  <2> SUFFICES ASSUME Len(walk) > 1 PROVE stack # <<>> /\ heldOpen # <<>>
    OBVIOUS
  <2>1. Len(stack) > 0 /\ Len(heldOpen) > 0
    BY <1>2, <1>6, <1>7
  <2> QED
    BY <2>1, EmptySeq
<1>10. skippingAt = 0 => heldOpen = stack
  <2> SUFFICES ASSUME skippingAt = 0 PROVE heldOpen = stack
    OBVIOUS
  <2>1. Len(heldOpen) = Len(stack)
    BY <1>2, <1>7
  <2> QED
    BY <1>2, <1>7, <2>1
<1>11. Len(walk) = 1 \/ Len(walk) > 1
  <2>1. \A n \in Nat \ {0} : n = 1 \/ n > 1
    OBVIOUS
  <2> QED
    BY <1>2, <2>1
<1> QED
  BY <1>2, <1>3, <1>4, <1>5, <1>8, <1>9, <1>10, <1>11

(* A start marker, and an end marker.                                       *)
LEMMA MarkerOpens ==
    ASSUME heldOpen \in Seq(Block), NEW c \in Block,
           \A i \in 1..Len(heldOpen) : heldOpen[i] # c, SendMarker(c)
    PROVE  heldOpen' = Append(heldOpen, c) /\ Send(Marker(c))
<1>1. c \notin ToSet(heldOpen)
  BY DEF ToSet
<1> QED
  BY <1>1 DEF SendMarker

LEMMA MarkerCloses ==
    ASSUME heldOpen \in Seq(Block), NEW c \in Block, heldOpen # <<>>,
           heldOpen[Len(heldOpen)] = c, SendMarker(c)
    PROVE  heldOpen' = Front(heldOpen) /\ Send(Marker(c))
<1>1. Len(heldOpen) \in Nat \ {0}
  BY EmptySeq, LenProperties
<1>2. c \in ToSet(heldOpen)
  BY <1>1 DEF ToSet
<1> QED
  BY <1>2 DEF SendMarker

(* A sender that moves on sends what a reader at its place has reason to    *)
(* take, or nothing, and what it leaves out leaves the reader in place.     *)
Still == wire' = wire /\ AtSent' = AtSent
Moves(b) ==
    /\ Send(b)
    /\ Goes(AtSent, b, AtSent')
    /\ b.kind # "eof"
    /\ b.kind = "error" => spc' = "failed"

LEMMA ReadChunkMoves ==
    ASSUME FramingInv, RootBound, ReadChunk
    PROVE  RootBound' /\ (Still \/ \E b \in Buffer : Moves(b))
<1>1. /\ Len(walk) \in Nat \ {0} /\ walk[1].pos \in Nat \ {0} /\ walk[1].node = Root
      /\ Len(Body[Root]) \in Nat
      /\ Len(walk) = 1 => stack = <<>> /\ heldOpen = <<>> /\ skippingAt = 0
      /\ Len(walk) > 1 => heldOpen # <<>>
  BY SentFacts
<1>2. /\ heldOpen' = heldOpen /\ TopItem \in Chunk /\ ~AtEnd
      /\ walk' = [walk EXCEPT ![Len(walk)].pos = @ + 1]
      /\ IF skippingAt' = 0 THEN Send(ChunkOf(TopItem)) ELSE wire' = wire
  BY DEF ReadChunk, SendChunk, Advance
<1>3. ChunkOf(TopItem) \in Buffer
  BY <1>2, BufferTypes
<1>4. walk \in Seq(Reader)
  BY DEF FramingInv, TypeOK, Reader
<1>5. CASE Len(walk) = 1
  <2>1. Top = walk[1]
    BY <1>5 DEF Top, Last
  <2>2. walk'[1].pos = walk[1].pos + 1
    BY <1>2, <1>4, <1>5
  <2>3. skippingAt' = 0
    <3>1. OutermostSkipped = 0
      <4>1. {d \in 1..Len(stack) : stack[d] \in skip} = {}
        BY <1>1, <1>5
      <4> QED
        BY <4>1 DEF OutermostSkipped
    <3> QED
      BY <1>1, <1>5, <3>1 DEF ReadChunk
  <2>4. /\ walk[1].pos <= Len(Body[Root]) /\ TopItem = Body[Root][walk[1].pos]
    BY <1>1, <1>2, <2>1 DEF AtEnd, TopItem
  <2>5. RootBound'
    BY <1>1, <2>2, <2>4 DEF RootBound
  <2>6. Goes(AtSent, ChunkOf(TopItem), AtSent')
    BY <1>1, <1>2, <1>5, <2>2, <2>4
    DEF Goes, MeetsItem, NextIs, AtSent, At, ChunkOf
  <2> QED
    BY <1>2, <1>3, <2>3, <2>5, <2>6 DEF Moves, ChunkOf
<1>6. CASE Len(walk) > 1
  <2>1. walk'[1] = walk[1]
    BY <1>1, <1>2, <1>4, <1>6
  <2>2. AtSent' = AtSent /\ RootBound'
    BY <1>2, <2>1 DEF AtSent, RootBound
  <2>3. Goes(AtSent, ChunkOf(TopItem), AtSent')
    BY <1>1, <1>6, <2>2 DEF Goes, PassesOn, ChunkOf, AtSent, At
  <2> QED
    BY <1>2, <1>3, <2>2, <2>3 DEF Moves, Still, ChunkOf
<1> QED
  BY <1>5, <1>6, SentFacts

LEMMA EnterBlockMoves ==
    ASSUME FramingInv, RootBound, EnterBlock
    PROVE  RootBound' /\ (Still \/ \E b \in Buffer : Moves(b))
<1>1. /\ Len(walk) \in Nat \ {0} /\ walk[1].pos \in Nat \ {0} /\ walk[1].node = Root
      /\ Len(Body[Root]) \in Nat
      /\ stack \in Seq(Block) /\ Len(stack) \in Nat
      /\ heldOpen \in Seq(Block)
      /\ Len(walk) = 1 => stack = <<>> /\ heldOpen = <<>> /\ skippingAt = 0
      /\ Len(walk) > 1 => heldOpen # <<>>
      /\ skippingAt = 0 => heldOpen = stack
  BY SentFacts
<1>2. /\ TopItem \in Block /\ ~AtEnd /\ walk \in Seq(Reader)
      /\ walk' = Append([walk EXCEPT ![Len(walk)].pos = @ + 1],
                        [node |-> TopItem, pos |-> 1])
  BY DEF EnterBlock, Advance, FramingInv, TypeOK, Reader
<1>3. Marker(TopItem) \in Buffer /\ BlockDepth \in Nat \ {0}
  BY <1>2, BufferTypes, ObjectsAssumption
<1>4. ASSUME Framed(Len(walk))
      PROVE  /\ \A i \in 1..Len(stack) : stack[i] # TopItem
             /\ Len(stack) = Len(walk) - 1 /\ Len(walk) <= BlockDepth
             /\ OpenMarker(TopItem)
  <2>1. /\ \A i \in 1..Len(walk) : Rank[TopItem] < Rank[walk[i].node]
    BY PushFacts DEF EnterBlock, FramingInv
  <2>2. \A i \in 1..Len(stack) : stack[i] # TopItem
    <3>1. \A i \in 1..Len(stack) : i + 1 \in 1..Len(walk) /\ stack[i] = walk[i + 1].node
      BY StackFacts DEF FramingInv, StackFollowsWalk
    <3>2. \A n \in Node : Rank[n] \in Nat
      BY ObjectsAssumption
    <3> QED
      BY <1>2, <2>1, <3>1, <3>2 DEF Node
  <2>3. OpenMarker(TopItem)
    BY <1>2, <1>4, <2>2, StartMarker DEF EnterBlock, FramingInv
  <2>4. Len(walk) - 1 <= BlockDepth /\ Len(walk) <= BlockDepth
    BY <1>1, <1>3, <1>4 DEF Framed
  <2>5. Len(stack) = Len(walk) - 1
    BY <2>4 DEF FramingInv, StackFollowsWalk, Framed
  <2> QED
    BY <2>2, <2>3, <2>4, <2>5
<1>5. CASE Len(walk) = 1
  <2>1. Framed(Len(walk)) /\ Top = walk[1]
    BY <1>3, <1>5 DEF Framed, Top, Last
  <2>2. walk'[1].pos = walk[1].pos + 1
    BY <1>2, <1>5
  <2>3. walk[1].pos <= Len(Body[Root]) /\ TopItem = Body[Root][walk[1].pos]
    BY <1>1, <1>2, <2>1 DEF AtEnd, TopItem
  <2>4. RootBound'
    BY <1>1, <2>2, <2>3 DEF RootBound
  <2>5. SendMarker(TopItem)
    BY <1>1, <1>4, <1>5, <2>1 DEF OpenMarker
  <2>6. heldOpen' = Append(heldOpen, TopItem) /\ Send(Marker(TopItem))
    BY <1>1, <1>2, <1>4, <1>5, <2>1, <2>5, MarkerOpens
  <2>7. heldOpen' = <<TopItem>>
    BY <1>1, <1>2, <1>5, <2>6
  <2>8. Goes(AtSent, Marker(TopItem), AtSent')
    BY <1>1, <1>5, <2>2, <2>3, <2>7
    DEF Goes, MeetsItem, NextIs, AtSent, At, Marker
  <2> QED
    BY <1>3, <2>4, <2>6, <2>8 DEF Moves, Marker
<1>6. CASE Len(walk) > 1
  <2>1. walk'[1] = walk[1]
    BY <1>1, <1>2, <1>6
  <2>2. RootBound' /\ walk'[1].pos = walk[1].pos
    BY <2>1 DEF RootBound
  <2>3. CASE ~Framed(Len(walk)) \/ (Framed(Len(walk)) /\ skippingAt # 0)
    <3>1. UNCHANGED <<wire, heldOpen>>
      BY <1>4, <2>3 DEF EnterBlock, OpenMarker, sentVars
    <3> QED
      BY <2>2, <3>1 DEF Still, AtSent
  <2>4. CASE Framed(Len(walk)) /\ skippingAt = 0
    <3>1. SendMarker(TopItem)
      BY <1>4, <2>4 DEF OpenMarker
    <3>2. heldOpen' = Append(heldOpen, TopItem) /\ Send(Marker(TopItem))
      BY <1>1, <1>2, <1>4, <2>4, <3>1, MarkerOpens
    <3>3. Len(heldOpen) < BlockDepth
      BY <1>1, <1>3, <1>4, <2>4
    <3>4. Goes(AtSent, Marker(TopItem), AtSent')
      BY <1>1, <1>4, <1>6, <2>2, <2>4, <3>2, <3>3
      DEF Goes, OpensBlock, AtSent, At, Marker
    <3> QED
      BY <1>3, <2>2, <3>2, <3>4 DEF Moves, Marker
  <2> QED
    BY <2>2, <2>3, <2>4
<1> QED
  BY <1>5, <1>6, SentFacts

LEMMA LeaveBlockMoves ==
    ASSUME FramingInv, RootBound, LeaveBlock
    PROVE  RootBound' /\ (Still \/ \E b \in Buffer : Moves(b))
<1>1. /\ Len(walk) \in Nat \ {0} /\ Len(walk) > 1
      /\ stack \in Seq(Block) /\ Len(stack) \in Nat
      /\ heldOpen \in Seq(Block) /\ Len(heldOpen) \in Nat
      /\ heldOpen # <<>> /\ stack # <<>>
  BY SentFacts DEF LeaveBlock
<1>2. /\ \A i \in 1..(Len(walk) - 1) : walk'[i] = walk[i]
      /\ Top.node = walk[Len(walk)].node /\ Top.node \in Block
  BY PopFacts DEF LeaveBlock, FramingInv
<1>3. walk'[1] = walk[1] /\ Marker(Top.node) \in Buffer /\ BlockDepth \in Nat \ {0}
  BY <1>1, <1>2, BufferTypes, ObjectsAssumption
<1>4. RootBound' /\ walk'[1].pos = walk[1].pos
  BY <1>3 DEF RootBound
<1>5. CASE ~Framed(Len(walk) - 1)
  <2>1. UNCHANGED <<wire, heldOpen>>
    BY <1>5 DEF LeaveBlock, sentVars
  <2> QED
    BY <1>4, <2>1 DEF Still, AtSent
<1>6. CASE Framed(Len(walk) - 1)
  <2>1. Len(stack) = Len(walk) - 1
    BY <1>6 DEF FramingInv, StackFollowsWalk
  <2>2. stack[Len(stack)] = Top.node
    <3>1. Len(stack) \in 1..Len(stack) /\ Len(stack) + 1 = Len(walk)
      BY <1>1, <2>1
    <3> QED
      BY <1>2, <3>1 DEF FramingInv, StackFollowsWalk
  <2>3. CloseMarker(Top.node)
    <3>1. \A i, j \in 1..Len(stack) : i < j => stack[i] # stack[j]
      BY StackFacts
    <3> QED
      BY <1>1, <1>2, <1>6, <2>2, <3>1, EndMarker DEF LeaveBlock, FramingInv
  <2>4. CASE ~Last(opened)
    BY <1>4, <2>3, <2>4 DEF CloseMarker, sentVars, Still, AtSent
  <2>5. CASE Last(opened)
    <3>1. Len(opened) = Len(stack) /\ Last(opened) = opened[Len(stack)]
      BY DEF FramingInv, ReaderHoldsOpened, Last
    <3>2. Len(stack) \in 1..Len(stack)
      BY <1>1, <2>1
    <3>3. Len(stack) = Len(heldOpen) /\ heldOpen[Len(heldOpen)] = Top.node
      <4>1. Len(stack) <= Len(heldOpen) /\ Len(heldOpen) <= Len(stack)
        BY <2>5, <3>1, <3>2 DEF FramingInv, ReaderHoldsOpened
      <4>2. Len(stack) = Len(heldOpen)
        BY <1>1, <4>1
      <4> QED
        BY <2>2, <3>2, <4>2 DEF FramingInv, ReaderHoldsOpened
    <3>4. heldOpen' = Front(heldOpen) /\ Send(Marker(Top.node))
      BY <1>1, <1>2, <2>3, <2>5, <3>3, MarkerCloses DEF CloseMarker
    <3>5. Goes(AtSent, Marker(Top.node), AtSent')
      BY <1>1, <1>4, <3>3, <3>4 DEF Goes, ClosesBlock, AtSent, At, Marker, Front
    <3> QED
      BY <1>3, <1>4, <3>4, <3>5 DEF Moves, Marker
  <2> QED
    BY <2>4, <2>5
<1> QED
  BY <1>5, <1>6

LEMMA SenderMoves ==
    ASSUME FramingInv, RootBound, SenderStep
    PROVE  RootBound' /\ (Still \/ \E b \in Buffer : Moves(b))
<1>1. Header \in Buffer /\ Error \in Buffer /\ Separator \in Buffer
  BY BufferTypes
<1>2. CASE SendHead
  <2>1. RootBound' /\ AtSent' = AtSent /\ Send(Header)
    BY <1>2 DEF SendHead, RootBound, AtSent
  <2> QED
    BY <1>1, <2>1 DEF Moves, Goes, PassesOn, Header
<1>3. CASE Resume \/ Yield
  BY <1>3 DEF Resume, Yield, RootBound, Still, AtSent, sentVars
<1>4. CASE ReadFails
  <2>1. RootBound' /\ AtSent' = AtSent /\ Send(Error) /\ spc' = "failed"
    BY <1>4 DEF ReadFails, RootBound, AtSent
  <2> QED
    BY <1>1, <2>1 DEF Moves, Goes, PassesOn, Error
<1>5. CASE FileVanishes
  <2>1. Len(walk) \in Nat \ {0} /\ walk[1].node = Root /\ walk \in Seq(Reader)
    BY SentFacts DEF FramingInv, TypeOK, Reader
  <2>2. Len(walk) # 1
    BY <1>5, <2>1, SenderAssumption, ObjectsAssumption DEF FileVanishes, Top, Last
  <2>3. walk'[1] = walk[1]
    BY <1>5, <2>1, <2>2 DEF FileVanishes
  <2> QED
    BY <1>5, <2>3 DEF FileVanishes, RootBound, Still, AtSent, sentVars
<1>6. CASE SendSeparator
  <2>1. RootBound' /\ AtSent' = AtSent /\ Send(Separator)
    BY <1>6 DEF SendSeparator, RootBound, AtSent
  <2>2. /\ heldOpen = <<>> /\ walk[1].pos \in Nat /\ Len(Body[Root]) \in Nat
        /\ walk[1].node = Root /\ Len(walk) = 1
    BY <1>6, SentFacts DEF SendSeparator
  <2>3. walk[1].pos = Len(Body[Root]) + 1
    BY <1>6, <2>2 DEF SendSeparator, AtEnd, Top, Last, RootBound
  <2>4. Goes(AtSent, Separator, AtSent')
    BY <2>1, <2>2, <2>3 DEF Goes, PassesOn, Separator, AtSent, At
  <2> QED
    BY <1>1, <2>1, <2>4 DEF Moves, Separator
<1> QED
  BY <1>2, <1>3, <1>4, <1>5, <1>6, ReadChunkMoves, EnterBlockMoves, LeaveBlockMoves
  DEF SenderStep

-----------------------------------------------------------------------------
(* What the Buffers sent have told.                                         *)

(* Every reader of the walk has come from an item of its node, and each but *)
(* the innermost one waits behind the block that the next one reads.        *)
Reads(w) ==
    \A k \in 1..Len(w) :
        /\ w[k].pos <= Len(Body[w[k].node]) + 1
        /\ k < Len(w) => w[k].pos > 1 /\ Body[w[k].node][w[k].pos - 1] = w[k + 1].node
WalkReads == Reads(walk)

(* The bytes of the first p items of a node, those that each reader of a    *)
(* walk has passed, and the bytes passed below the level m.                 *)
Upto(n, p)  == BytesOf(SubSeq(Body[n], 1, p))
Done(w, k)  == IF k = Len(w) THEN w[k].pos - 1 ELSE w[k].pos - 2
Given(w)    == [k \in 1..Len(w) |-> Upto(w[k].node, Done(w, k))]
Inner(g, m) == FlattenSeq(SubSeq(g, m + 1, Len(g)))

(* Of m framed blocks whose readers have passed the bytes g, the i-th has   *)
(* been told; and a reader at t knows it of every block held open that is   *)
(* sent in full.                                                            *)
Spoken(m, g, i) == IF i < m THEN g[i + 1] ELSE Inner(g, m)
Tells(held, m, g, A, t) ==
    /\ t \in Hearing
    /\ t.open = held
    /\ \A i \in 1..Len(held) :
          (\A j \in 1..i : held[j] \notin A) => t.fed[i] = Spoken(m, g, i)
Speaks(A, t) == Tells(heldOpen, Len(stack), Given(walk), A, t)

LEMMA UptoFacts ==
    ASSUME ContentLaws
    PROVE  \A n \in Node :
             /\ Body[n] \in Seq(Item) /\ Len(Body[n]) \in Nat
             /\ \A p \in 0..Len(Body[n]) : Upto(n, p) \in Seq(Chunk)
             /\ Upto(n, 0) = <<>>
             /\ Upto(n, Len(Body[n])) = Expand[n] /\ Expand[n] \in Seq(Chunk)
             /\ \A p \in 1..Len(Body[n]) :
                  /\ Body[n][p] \in Chunk =>
                       Upto(n, p) = Upto(n, p - 1) \o <<Body[n][p]>>
                  /\ Body[n][p] \in Block =>
                       Upto(n, p) = Upto(n, p - 1) \o Expand[Body[n][p]]
<1> SUFFICES ASSUME NEW n \in Node
    PROVE  /\ Body[n] \in Seq(Item) /\ Len(Body[n]) \in Nat
           /\ \A p \in 0..Len(Body[n]) : Upto(n, p) \in Seq(Chunk)
           /\ Upto(n, 0) = <<>>
           /\ Upto(n, Len(Body[n])) = Expand[n] /\ Expand[n] \in Seq(Chunk)
           /\ \A p \in 1..Len(Body[n]) :
                /\ Body[n][p] \in Chunk =>
                     Upto(n, p) = Upto(n, p - 1) \o <<Body[n][p]>>
                /\ Body[n][p] \in Block =>
                     Upto(n, p) = Upto(n, p - 1) \o Expand[Body[n][p]]
  OBVIOUS
<1>1. Body[n] \in Seq(Item) /\ Len(Body[n]) \in Nat
  BY ObjectsAssumption, LenProperties
<1>2. PICK s : s = Body[n]
  OBVIOUS
<1>3. \A p \in 0..Len(s) :
        /\ SubSeq(s, 1, p) \in Seq(Item)
        /\ p = 0 => SubSeq(s, 1, p) = <<>>
        /\ p > 0 => SubSeq(s, 1, p) = Append(SubSeq(s, 1, p - 1), s[p])
        /\ p = Len(s) => SubSeq(s, 1, p) = s
  BY <1>1, <1>2, FirstFacts
<1>4. 0 \in 0..Len(s) /\ Len(s) \in 0..Len(s)
  BY <1>1, <1>2
<1>5. \A p \in 0..Len(s) : Upto(n, p) \in Seq(Chunk)
  BY <1>2, <1>3 DEF Upto, ContentLaws
<1>6. Upto(n, 0) = <<>>
  BY <1>2, <1>3, <1>4 DEF Upto, ContentLaws
<1>7. Upto(n, Len(s)) = Expand[n] /\ Expand[n] \in Seq(Chunk)
  BY <1>2, <1>3, <1>4 DEF Upto, ContentLaws
<1>8. ASSUME NEW p \in 1..Len(s)
      PROVE  /\ s[p] \in Chunk => Upto(n, p) = Upto(n, p - 1) \o <<s[p]>>
             /\ s[p] \in Block => Upto(n, p) = Upto(n, p - 1) \o Expand[s[p]]
  <2>1. p \in 0..Len(s) /\ p - 1 \in 0..Len(s) /\ p > 0
    BY <1>1, <1>2
  <2>2. PICK q : q = SubSeq(s, 1, p - 1)
    OBVIOUS
  <2>3. q \in Seq(Item) /\ SubSeq(s, 1, p) = Append(q, s[p])
    BY <1>3, <2>1, <2>2
  <2>4. Upto(n, p) = BytesOf(Append(q, s[p])) /\ Upto(n, p - 1) = BytesOf(q)
    BY <1>2, <2>2, <2>3 DEF Upto
  <2>5. s[p] \in Chunk => Upto(n, p) = Upto(n, p - 1) \o <<s[p]>>
    <3> SUFFICES ASSUME s[p] \in Chunk PROVE Upto(n, p) = Upto(n, p - 1) \o <<s[p]>>
      OBVIOUS
    <3>1. PICK all : all = BytesOf(q)
      OBVIOUS
    <3>2. all \in Seq(Chunk) /\ BytesOf(Append(q, s[p])) = Append(all, s[p])
      BY <2>3, <3>1, Zenon DEF ContentLaws
    <3>3. all \o <<s[p]>> = Append(all, s[p])
      BY <3>2, AppendFacts
    <3> QED
      BY <2>4, <3>1, <3>2, <3>3, Zenon
  <2>6. s[p] \in Block => Upto(n, p) = Upto(n, p - 1) \o Expand[s[p]]
    BY <2>3, <2>4, Zenon DEF ContentLaws
  <2> QED
    BY <2>5, <2>6
<1> QED
  BY <1>1, <1>2, <1>5, <1>6, <1>7, <1>8

(* A walk of readers that have read, and what it has passed.                *)
LEMMA GivenFacts ==
    ASSUME ContentLaws, NEW w \in Seq(Reader), Reads(w)
    PROVE  /\ Len(w) \in Nat
           /\ \A k \in 1..Len(w) :
                /\ w[k] \in Reader /\ w[k].node \in Node /\ w[k].pos \in Nat \ {0}
                /\ Done(w, k) \in 0..Len(Body[w[k].node])
           /\ Given(w) \in Seq(Seq(Chunk))
           /\ Len(Given(w)) = Len(w)
           /\ \A k \in 1..Len(w) : /\ Given(w)[k] = Upto(w[k].node, Done(w, k))
                                   /\ Given(w)[k] \in Seq(Chunk)
<1>1. Len(w) \in Nat /\ \A k \in 1..Len(w) : w[k] \in Reader
  BY ElementOfSeq, LenProperties
<1>2. \A k \in 1..Len(w) : w[k].node \in Node /\ w[k].pos \in Nat \ {0}
  BY <1>1 DEF Reader
<1>3. \A n \in Node : Len(Body[n]) \in Nat
  BY UptoFacts
<1>4. \A k \in 1..Len(w) : Done(w, k) \in 0..Len(Body[w[k].node])
  <2> TAKE k \in 1..Len(w)
  <2>1. Len(Body[w[k].node]) \in Nat /\ w[k].pos \in Nat \ {0} /\ k \in Nat
    BY <1>1, <1>2, <1>3
  <2>2. w[k].pos <= Len(Body[w[k].node]) + 1 /\ (k < Len(w) => w[k].pos > 1)
    BY DEF Reads
  <2>3. k = Len(w) \/ k < Len(w)
    BY <1>1
  <2> QED
    BY <2>1, <2>2, <2>3 DEF Done
<1>5. \A k \in 1..Len(w) : Upto(w[k].node, Done(w, k)) \in Seq(Chunk)
  BY <1>2, <1>4, UptoFacts
<1>6. PICK V : V = Seq(Chunk)
  OBVIOUS
<1>7. /\ Given(w) \in Seq(V) /\ Len(Given(w)) = Len(w)
      /\ \A k \in 1..Len(w) : Given(w)[k] = Upto(w[k].node, Done(w, k))
  BY <1>1, <1>5, <1>6 DEF Given
<1> QED
  BY <1>1, <1>2, <1>4, <1>5, <1>6, <1>7

LEMMA DoneSame ==
    \A v, w : Len(v) = Len(w) => \A k : v[k] = w[k] => Done(v, k) = Done(w, k)
BY DEF Done

(* A reader passes a piece, comes to a block, and leaves one.               *)
LEMMA GivenPiece ==
    ASSUME ContentLaws, NEW w \in Seq(Reader), w # <<>>, Reads(w), NEW v, NEW c,
           v = [w EXCEPT ![Len(w)].pos = @ + 1],
           w[Len(w)].pos <= Len(Body[w[Len(w)].node]),
           Body[w[Len(w)].node][w[Len(w)].pos] = c, c \in Chunk
    PROVE  /\ Reads(v) /\ Len(v) = Len(w) /\ v \in Seq(Reader)
           /\ Grows(Given(w), Given(v), <<c>>)
<1>1. PICK n : n = Len(w)
  OBVIOUS
<1>2. PICK r : r = w[n]
  OBVIOUS
<1>3. /\ n \in Nat \ {0} /\ r \in Reader /\ r.node \in Node /\ r.pos \in Nat \ {0}
  BY <1>1, <1>2, GivenFacts, EmptySeq
<1>4. PICK x : x = [r EXCEPT !.pos = @ + 1]
  OBVIOUS
<1>5. x \in Reader /\ x.node = r.node /\ x.pos = r.pos + 1
  <2>1. PICK p : p = r.pos + 1
    OBVIOUS
  <2>2. p \in Nat \ {0} /\ x = [r EXCEPT !.pos = p]
    BY <1>3, <1>4, <2>1
  <2>3. x \in Reader /\ x.node = r.node /\ x.pos = p
    BY <1>3, <2>2 DEF Reader
  <2> QED
    BY <2>1, <2>3
<1>6. v = [w EXCEPT ![n] = x]
  BY <1>1, <1>2, <1>4
<1>7. /\ v \in Seq(Reader) /\ Len(v) = n
      /\ \A k \in 1..n : v[k] = IF k = n THEN x ELSE w[k]
  BY <1>1, <1>3, <1>5, <1>6, ExceptSeq
<1>8. Reads(v)
  <2> SUFFICES ASSUME NEW k \in 1..n
      PROVE  /\ v[k].pos <= Len(Body[v[k].node]) + 1
             /\ k < n => v[k].pos > 1 /\ Body[v[k].node][v[k].pos - 1] = v[k + 1].node
    BY <1>7 DEF Reads
  <2>1. CASE k = n
    <3>1. Len(Body[r.node]) \in Nat
      BY <1>3, UptoFacts
    <3> QED
      BY <1>1, <1>2, <1>3, <1>5, <1>7, <2>1, <3>1
  <2>2. CASE k # n
    <3>1. k + 1 \in 1..n /\ v[k] = w[k] /\ v[k + 1].node = w[k + 1].node
      BY <1>2, <1>3, <1>5, <1>7, <2>2
    <3> QED
      BY <1>1, <3>1 DEF Reads
  <2> QED
    BY <2>1, <2>2
<1>9. \A k \in 1..n : /\ Given(w)[k] = Upto(w[k].node, Done(w, k))
                      /\ Given(v)[k] = Upto(v[k].node, Done(v, k))
  BY <1>1, <1>7, <1>8, GivenFacts
<1>10. \A k \in 1..n : k # n => Given(v)[k] = Given(w)[k]
  <2>1. \A k \in 1..n : k # n => v[k] = w[k] /\ Done(v, k) = Done(w, k)
    <3>1. \A k \in 1..n : k # n => v[k] = w[k]
      BY <1>7, Zenon
    <3>2. Len(v) = Len(w)
      BY <1>1, <1>7
    <3>3. ASSUME NEW k, v[k] = w[k] PROVE Done(v, k) = Done(w, k)
      BY <3>2, <3>3, DoneSame, Zenon
    <3> QED
      BY <3>1, <3>3, Zenon
  <2> QED
    BY <1>9, <2>1, Zenon
<1>11. Given(v)[n] = Given(w)[n] \o <<c>>
  <2>1. n \in 1..n
    BY <1>3
  <2>2. Done(w, n) = r.pos - 1 /\ Done(v, n) = r.pos
    BY <1>1, <1>2, <1>3, <1>5, <1>7, <2>1 DEF Done
  <2>3. Given(w)[n] = Upto(r.node, r.pos - 1) /\ Given(v)[n] = Upto(r.node, r.pos)
    <3>1. v[n] = x
      BY <1>7, <2>1, Zenon
    <3> QED
      BY <1>2, <1>5, <1>9, <2>1, <2>2, <3>1, Zenon
  <2>4. r.pos \in 1..Len(Body[r.node]) /\ Body[r.node][r.pos] = c
    <3>1. Len(Body[r.node]) \in Nat
      BY <1>3, UptoFacts
    <3>2. r.pos <= Len(Body[r.node]) /\ Body[r.node][r.pos] = c
      BY <1>1, <1>2, Zenon
    <3>3. r.pos \in 1..Len(Body[r.node])
      BY <1>3, <3>1, <3>2
    <3> QED
      BY <3>2, <3>3
  <2>5. Upto(r.node, r.pos) = Upto(r.node, r.pos - 1) \o <<c>>
    <3>1. \A d \in Node : \A p \in 1..Len(Body[d]) :
            Body[d][p] \in Chunk => Upto(d, p) = Upto(d, p - 1) \o <<Body[d][p]>>
      BY UptoFacts, Zenon
    <3> QED
      BY <1>3, <2>4, <3>1, Zenon
  <2> QED
    BY <2>3, <2>5, Zenon
<1>12. Len(Given(w)) = n /\ Len(Given(v)) = n
  BY <1>1, <1>7 DEF Given
<1>13. Grows(Given(w), Given(v), <<c>>)
  BY <1>10, <1>11, <1>12, Zenon DEF Grows
<1> QED
  BY <1>1, <1>7, <1>8, <1>13

LEMMA GivenEnters ==
    ASSUME ContentLaws, NEW w \in Seq(Reader), w # <<>>, Reads(w), NEW v, NEW b,
           v = Append([w EXCEPT ![Len(w)].pos = @ + 1], [node |-> b, pos |-> 1]),
           w[Len(w)].pos <= Len(Body[w[Len(w)].node]),
           Body[w[Len(w)].node][w[Len(w)].pos] = b, b \in Block
    PROVE  /\ Reads(v) /\ Len(v) = Len(w) + 1 /\ v \in Seq(Reader)
           /\ \A k \in 1..Len(w) : Given(v)[k] = Given(w)[k]
           /\ Given(v)[Len(w) + 1] = <<>>
<1>1. PICK n : n = Len(w)
  OBVIOUS
<1>2. PICK r : r = w[n]
  OBVIOUS
<1>3. /\ n \in Nat \ {0} /\ r \in Reader /\ r.node \in Node /\ r.pos \in Nat \ {0}
  BY <1>1, <1>2, GivenFacts, EmptySeq
<1>4. PICK x : x = [r EXCEPT !.pos = @ + 1]
  OBVIOUS
<1>5. x \in Reader /\ x.node = r.node /\ x.pos = r.pos + 1
  <2>1. PICK p : p = r.pos + 1
    OBVIOUS
  <2>2. p \in Nat \ {0} /\ x = [r EXCEPT !.pos = p]
    BY <1>3, <1>4, <2>1
  <2>3. x \in Reader /\ x.node = r.node /\ x.pos = p
    BY <1>3, <2>2 DEF Reader
  <2> QED
    BY <2>1, <2>3
<1>6. PICK m : m = [w EXCEPT ![n] = x]
  OBVIOUS
<1>7. /\ m \in Seq(Reader) /\ Len(m) = n
      /\ \A k \in 1..n : m[k] = IF k = n THEN x ELSE w[k]
  BY <1>1, <1>3, <1>5, <1>6, ExceptSeq
<1>8. PICK y : y = [node |-> b, pos |-> 1]
  OBVIOUS
<1>9. y \in Reader /\ y.node = b /\ y.pos = 1 /\ b \in Node
  BY <1>8 DEF Reader, Node
<1>10. v = Append(m, y)
  BY <1>1, <1>2, <1>4, <1>6, <1>8
<1>11. /\ v \in Seq(Reader) /\ Len(v) = n + 1 /\ v[n + 1] = y
       /\ \A k \in 1..n : v[k] = IF k = n THEN x ELSE w[k]
  <2>1. /\ Append(m, y) \in Seq(Reader) /\ Len(Append(m, y)) = n + 1
        /\ Append(m, y)[n + 1] = y /\ \A k \in 1..n : Append(m, y)[k] = m[k]
    BY <1>7, <1>9, AppendProperties
  <2> QED
    BY <1>7, <1>10, <2>1, Zenon
<1>12. Len(Body[r.node]) \in Nat /\ Len(Body[b]) \in Nat
  BY <1>3, <1>9, UptoFacts
<1>13. Reads(v)
  <2> SUFFICES ASSUME NEW k \in 1..(n + 1)
      PROVE  /\ v[k].pos <= Len(Body[v[k].node]) + 1
             /\ k < n + 1 => /\ v[k].pos > 1
                             /\ Body[v[k].node][v[k].pos - 1] = v[k + 1].node
    BY <1>11 DEF Reads
  <2>1. CASE k = n + 1
    BY <1>3, <1>9, <1>11, <1>12, <2>1
  <2>2. CASE k = n
    <3>1. v[k] = x /\ v[k + 1] = y /\ x.pos - 1 = r.pos
      BY <1>3, <1>5, <1>11, <2>2
    <3>2. Body[x.node][x.pos - 1] = y.node
      BY <1>1, <1>2, <1>5, <1>9, <3>1
    <3>3. x.pos > 1 /\ x.pos <= Len(Body[x.node]) + 1
      BY <1>1, <1>2, <1>3, <1>5, <1>12
    <3> QED
      BY <3>1, <3>2, <3>3
  <2>3. CASE k \notin {n, n + 1}
    <3>1. k \in 1..n /\ k + 1 \in 1..n /\ v[k] = w[k] /\ v[k + 1].node = w[k + 1].node
      BY <1>2, <1>3, <1>5, <1>11, <2>3
    <3> QED
      BY <1>1, <2>3, <3>1 DEF Reads
  <2> QED
    BY <2>1, <2>2, <2>3
<1>14. /\ \A k \in 1..n : /\ Given(w)[k] = Upto(w[k].node, Done(w, k))
                          /\ Given(v)[k] = Upto(v[k].node, Done(v, k))
       /\ Given(v)[n + 1] = Upto(y.node, Done(v, n + 1))
  <2>1. \A k \in 1..(n + 1) : Given(v)[k] = Upto(v[k].node, Done(v, k))
    BY <1>11, <1>13, GivenFacts
  <2>2. \A k \in 1..n : Given(w)[k] = Upto(w[k].node, Done(w, k))
    BY <1>1, GivenFacts
  <2>3. n + 1 \in 1..(n + 1) /\ \A k \in 1..n : k \in 1..(n + 1)
    BY <1>3
  <2> QED
    BY <1>11, <2>1, <2>2, <2>3, Zenon
<1>15. Given(v)[n + 1] = <<>>
  <2>1. Done(v, n + 1) = 0
    BY <1>9, <1>11 DEF Done
  <2> QED
    BY <1>9, <1>14, <2>1, UptoFacts
<1>16. \A k \in 1..n : Given(v)[k] = Given(w)[k]
  <2> TAKE k \in 1..n
  <2>1. v[k].node = w[k].node
    BY <1>2, <1>5, <1>11
  <2>2. Done(v, k) = Done(w, k)
    <3>1. k # n + 1
      BY <1>3
    <3>2. k = n => v[k].pos - 2 = w[k].pos - 1
      BY <1>2, <1>3, <1>5, <1>11
    <3>3. k # n => v[k] = w[k]
      BY <1>11
    <3> QED
      BY <1>1, <1>11, <3>1, <3>2, <3>3 DEF Done
  <2> QED
    BY <1>14, <2>1, <2>2, Zenon
<1> QED
  BY <1>1, <1>11, <1>13, <1>15, <1>16

LEMMA GivenLeaves ==
    ASSUME ContentLaws, NEW w \in Seq(Reader), Reads(w), NEW v,
           Len(w) > 1, v = Front(w), NEW b, b = w[Len(w)].node, b \in Block,
           w[Len(w)].pos > Len(Body[w[Len(w)].node])
    PROVE  /\ Reads(v) /\ Len(v) = Len(w) - 1 /\ v \in Seq(Reader)
           /\ Given(w)[Len(w)] = Expand[b]
           /\ Grows(Front(Given(w)), Given(v), Expand[b])
<1>1. PICK n : n = Len(w)
  OBVIOUS
<1>2. /\ n \in Nat /\ n > 1
      /\ \A k \in 1..n : /\ w[k].node \in Node /\ w[k].pos \in Nat \ {0}
                         /\ Given(w)[k] = Upto(w[k].node, Done(w, k))
  BY <1>1, GivenFacts
<1>3. /\ v \in Seq(Reader) /\ Len(v) = n - 1
      /\ \A k \in 1..(n - 1) : v[k] = w[k]
  <2>1. w # <<>>
    BY <1>1, <1>2
  <2> QED
    BY <1>1, <2>1, FrontFacts
<1>4. Reads(v)
  <2> SUFFICES ASSUME NEW k \in 1..(n - 1)
      PROVE  /\ v[k].pos <= Len(Body[v[k].node]) + 1
             /\ k < n - 1 => /\ v[k].pos > 1
                             /\ Body[v[k].node][v[k].pos - 1] = v[k + 1].node
    BY <1>3 DEF Reads
  <2>1. k \in 1..n /\ k < n /\ (k < n - 1 => k + 1 \in 1..(n - 1))
    BY <1>2
  <2> QED
    BY <1>1, <1>3, <2>1 DEF Reads
<1>5. \A k \in 1..(n - 1) : Given(v)[k] = Upto(w[k].node, Done(v, k))
  BY <1>3, <1>4, GivenFacts
<1>6. \A k \in 1..(n - 1) : k \in 1..n /\ (k # n - 1 => Done(v, k) = Done(w, k))
  BY <1>1, <1>2, <1>3 DEF Done
<1>7. \A k \in 1..(n - 1) : k # n - 1 => Given(v)[k] = Given(w)[k]
  BY <1>2, <1>5, <1>6, Zenon
<1>8. Given(w)[n] = Expand[b]
  <2>1. n \in 1..n /\ b \in Node /\ Len(Body[b]) \in Nat
    BY <1>2, UptoFacts DEF Node
  <2>2. w[n].pos <= Len(Body[b]) + 1 /\ w[n].pos > Len(Body[b]) /\ w[n].pos \in Nat
    BY <1>1, <1>2, <2>1 DEF Reads
  <2>3. Done(w, n) = Len(Body[b])
    BY <1>1, <2>1, <2>2 DEF Done
  <2>4. Given(w)[n] = Upto(b, Len(Body[b]))
    BY <1>1, <1>2, <2>1, <2>3, Zenon
  <2> QED
    BY <2>1, <2>4, UptoFacts
<1>9. Given(v)[n - 1] = Given(w)[n - 1] \o Expand[b]
  <2>1. PICK r : r = w[n - 1]
    OBVIOUS
  <2>2. n - 1 \in 1..n /\ n - 1 \in 1..(n - 1) /\ n - 1 < n /\ (n - 1) + 1 = n
    BY <1>2
  <2>3. r.node \in Node /\ r.pos \in Nat /\ Len(Body[r.node]) \in Nat
    BY <1>2, <2>1, <2>2, UptoFacts
  <2>4. r.pos <= Len(Body[r.node]) + 1 /\ r.pos > 1 /\ Body[r.node][r.pos - 1] = b
    BY <1>1, <2>1, <2>2 DEF Reads
  <2>5. Done(w, n - 1) = r.pos - 2 /\ Done(v, n - 1) = r.pos - 1
    BY <1>1, <1>2, <1>3, <2>1, <2>2 DEF Done
  <2>6. /\ Given(w)[n - 1] = Upto(r.node, r.pos - 2)
        /\ Given(v)[n - 1] = Upto(r.node, r.pos - 1)
    BY <1>2, <1>5, <2>1, <2>2, <2>5, Zenon
  <2>7. r.pos - 1 \in 1..Len(Body[r.node]) /\ (r.pos - 1) - 1 = r.pos - 2
    BY <2>3, <2>4
  <2>8. Upto(r.node, r.pos - 1) = Upto(r.node, r.pos - 2) \o Expand[b]
    <3>1. PICK p : p = r.pos - 1
      OBVIOUS
    <3>2. Upto(r.node, p) = Upto(r.node, p - 1) \o Expand[b]
      BY <2>3, <2>4, <2>7, <3>1, UptoFacts
    <3> QED
      BY <2>7, <3>1, <3>2
  <2> QED
    BY <2>6, <2>8, Zenon
<1>10. Grows(Front(Given(w)), Given(v), Expand[b])
  <2>1. PICK V : V = Seq(Chunk)
    OBVIOUS
  <2>2. PICK g : g = Given(w)
    OBVIOUS
  <2>3. PICK h : h = Given(v)
    OBVIOUS
  <2>4. g \in Seq(V) /\ Len(g) = n /\ Len(h) = n - 1
    BY <1>1, <1>3, <1>4, <2>1, <2>2, <2>3, GivenFacts
  <2>5. Len(Front(g)) = n - 1 /\ \A k \in 1..(n - 1) : Front(g)[k] = g[k]
    <3>1. g # <<>>
      BY <1>2, <2>4
    <3> QED
      BY <2>4, <3>1, FrontFacts
  <2>6. ASSUME NEW k \in 1..(n - 1)
        PROVE  h[k] = IF k = n - 1 THEN Front(g)[k] \o Expand[b] ELSE Front(g)[k]
    BY <1>7, <1>9, <2>2, <2>3, <2>5, Zenon
  <2> QED
    BY <2>2, <2>3, <2>4, <2>5, <2>6, Zenon DEF Grows
<1> QED
  BY <1>1, <1>3, <1>4, <1>8, <1>10

(* The bytes passed below a level, when the innermost reader passes bytes,  *)
(* when it comes to a block, and when it leaves one.                        *)
LEMMA InnerAlone ==
    ASSUME NEW S, NEW g \in Seq(Seq(S)), NEW m \in Nat, Len(g) = m + 1
    PROVE  Inner(g, m) = g[m + 1]
<1>1. PICK V : V = Seq(S)
  OBVIOUS
<1>2. PICK r : r = SubSeq(g, m + 1, Len(g))
  OBVIOUS
<1>3. r \in Seq(V) /\ Len(r) = 1 /\ r[1] = g[m + 1]
  <2>1. /\ r \in Seq(V) /\ Len(r) = Len(g) - m
        /\ \A i \in 1..(Len(g) - m) : r[i] = g[m + i]
    BY <1>1, <1>2, RestFacts
  <2>2. Len(g) - m = 1 /\ 1 \in 1..1
    OBVIOUS
  <2> QED
    BY <2>1, <2>2
<1>4. Front(r) = <<>> /\ Last(r) = r[1] /\ r = Append(Front(r), Last(r)) /\ r[1] \in V
  <2>0. Len(r) # 0
    BY <1>3
  <2>1. r # <<>>
    BY <1>3, <2>0, EmptySeq, Zenon
  <2>2. /\ Front(r) \in Seq(V) /\ Len(Front(r)) = Len(r) - 1
        /\ Last(r) = r[Len(r)] /\ Last(r) \in V /\ r = Append(Front(r), Last(r))
    BY <1>3, <2>1, FrontFacts
  <2> QED
    BY <1>3, <2>2, EmptySeq
<1>5. FlattenSeq(Append(<<>>, r[1])) = FlattenSeq(<<>>) \o r[1]
  <2>1. <<>> \in Seq(Seq(S))
    OBVIOUS
  <2> QED
    BY <1>1, <1>4, <2>1, FlattenFacts, Zenon
<1>6. FlattenSeq(<<>>) \o r[1] = r[1]
  BY <1>1, <1>4, FlattenFacts, ConcatEmptySeq
<1> QED
  BY <1>2, <1>3, <1>4, <1>5, <1>6, Zenon DEF Inner

LEMMA InnerGrows ==
    ASSUME NEW S, NEW g \in Seq(Seq(S)), NEW h \in Seq(Seq(S)), NEW m \in Nat,
           m < Len(g), NEW s \in Seq(S), Grows(g, h, s)
    PROVE  Inner(h, m) = Inner(g, m) \o s
<1>1. PICK V : V = Seq(S)
  OBVIOUS
<1>2. PICK n : n = Len(g)
  OBVIOUS
<1>3. PICK r : r = SubSeq(g, m + 1, n)
  OBVIOUS
<1>4. PICK q : q = SubSeq(h, m + 1, n)
  OBVIOUS
<1>5. n \in Nat /\ m < n /\ Len(h) = n
  BY <1>2, LenProperties DEF Grows
<1>6. r \in Seq(V) /\ Len(r) = n - m /\ \A i \in 1..(n - m) : r[i] = g[m + i]
  BY <1>1, <1>2, <1>3, RestFacts
<1>7. q \in Seq(V) /\ Len(q) = n - m /\ \A i \in 1..(n - m) : q[i] = h[m + i]
  <2>1. Len(h) = n /\ m < Len(h) /\ h \in Seq(V)
    BY <1>1, <1>5
  <2>2. /\ SubSeq(h, m + 1, Len(h)) \in Seq(V)
        /\ Len(SubSeq(h, m + 1, Len(h))) = Len(h) - m
        /\ \A i \in 1..(Len(h) - m) : SubSeq(h, m + 1, Len(h))[i] = h[m + i]
    BY <2>1, RestFacts
  <2> QED
    BY <1>4, <2>1, <2>2, Zenon
<1>8. \A i \in 1..(n - m) : m + i \in 1..n /\ (m + i = n <=> i = n - m)
  BY <1>5
<1>9. \A i \in 1..Len(r) : q[i] = IF i = Len(r) THEN r[i] \o s ELSE r[i]
  <2> TAKE i \in 1..Len(r)
  <2>1. /\ m + i \in 1..n /\ (m + i = n <=> i = Len(r))
        /\ r[i] = g[m + i] /\ q[i] = h[m + i]
    BY <1>6, <1>7, <1>8, Zenon
  <2>2. h[m + i] = IF m + i = n THEN g[m + i] \o s ELSE g[m + i]
    BY <1>2, <2>1, Zenon DEF Grows
  <2> QED
    BY <2>1, <2>2, Zenon
<1>10. /\ r # <<>> /\ Grows(r, q, s)
       /\ r \in Seq(Seq(S)) /\ q \in Seq(Seq(S))
  <2>1. Len(r) # 0 /\ Len(q) = Len(r)
    BY <1>5, <1>6, <1>7
  <2>2. r # <<>>
    BY <1>6, <2>1, EmptySeq, Zenon
  <2> QED
    BY <1>1, <1>6, <1>7, <1>9, <2>1, <2>2, Zenon DEF Grows
<1>11. FlattenSeq(q) = FlattenSeq(r) \o s
  BY <1>10, LastGrows
<1> QED
  BY <1>2, <1>3, <1>4, <1>5, <1>11, Zenon DEF Inner

LEMMA InnerEnters ==
    ASSUME NEW S, NEW g \in Seq(Seq(S)), NEW h \in Seq(Seq(S)), NEW m \in Nat,
           m < Len(g), Len(h) = Len(g) + 1, NEW s \in Seq(S), h[Len(g) + 1] = s,
           \A k \in 1..Len(g) : h[k] = g[k]
    PROVE  Inner(h, m) = Inner(g, m) \o s
<1>1. PICK V : V = Seq(S)
  OBVIOUS
<1>2. PICK n : n = Len(g)
  OBVIOUS
<1>3. PICK r : r = SubSeq(g, m + 1, n)
  OBVIOUS
<1>4. PICK l : l = Len(h)
  OBVIOUS
<1>5. n \in Nat /\ m < n /\ l = n + 1
  BY <1>2, <1>4, LenProperties
<1>12. PICK q : q = SubSeq(h, m + 1, l)
  OBVIOUS
<1>6. r \in Seq(V) /\ Len(r) = n - m /\ \A i \in 1..(n - m) : r[i] = g[m + i]
  BY <1>1, <1>2, <1>3, RestFacts
<1>7. q \in Seq(V) /\ Len(q) = l - m /\ \A i \in 1..(l - m) : q[i] = h[m + i]
  <2>1. m < Len(h) /\ h \in Seq(V)
    <3>1. m < l
      BY <1>5
    <3> QED
      BY <1>1, <1>4, <3>1, Zenon
  <2>2. /\ SubSeq(h, m + 1, Len(h)) \in Seq(V)
        /\ Len(SubSeq(h, m + 1, Len(h))) = Len(h) - m
        /\ \A i \in 1..(Len(h) - m) : SubSeq(h, m + 1, Len(h))[i] = h[m + i]
    <3>1. \A z \in Seq(V), k \in Nat :
             k < Len(z) =>
                /\ SubSeq(z, k + 1, Len(z)) \in Seq(V)
                /\ Len(SubSeq(z, k + 1, Len(z))) = Len(z) - k
                /\ \A i \in 1..(Len(z) - k) : SubSeq(z, k + 1, Len(z))[i] = z[k + i]
      BY RestFacts
    <3> QED
      BY <2>1, <3>1, Zenon
  <2> QED
    BY <1>4, <1>12, <2>2, Zenon
<1>8. Append(r, s) \in Seq(V) /\ Len(Append(r, s)) = n - m + 1
      /\ Append(r, s)[n - m + 1] = s
      /\ \A i \in 1..(n - m) : Append(r, s)[i] = r[i]
  BY <1>1, <1>6, AppendProperties
<1>9. q = Append(r, s)
  <2> SUFFICES ASSUME NEW i \in 1..(l - m) PROVE q[i] = Append(r, s)[i]
    <3>1. Len(q) = Len(Append(r, s))
      BY <1>5, <1>7, <1>8
    <3> QED
      BY <1>7, <1>8, <3>1, SeqEqual
  <2>1. CASE i = n - m + 1
    <3>1. m + i = n + 1
      BY <1>5, <2>1
    <3> QED
      BY <1>2, <1>7, <1>8, <2>1, <3>1
  <2>2. CASE i # n - m + 1
    <3>1. i \in 1..(n - m) /\ m + i \in 1..n
      BY <1>5, <2>2
    <3> QED
      BY <1>2, <1>6, <1>7, <1>8, <3>1
  <2> QED
    BY <2>1, <2>2
<1>10. FlattenSeq(Append(r, s)) = FlattenSeq(r) \o s
  BY <1>1, <1>6, FlattenFacts, Zenon
<1> QED
  BY <1>2, <1>3, <1>4, <1>9, <1>10, <1>12, Zenon DEF Inner

LEMMA InnerLeaves ==
    ASSUME NEW S, NEW g \in Seq(Seq(S)), NEW h \in Seq(Seq(S)), NEW m \in Nat,
           m < Len(h), g # <<>>, NEW s \in Seq(S), g[Len(g)] = s,
           Grows(Front(g), h, s)
    PROVE  Inner(h, m) = Inner(g, m)
<1>1. PICK f : f = Front(g)
  OBVIOUS
<1>2. PICK V : V = Seq(S)
  OBVIOUS
<1>3. /\ f \in Seq(V) /\ Len(f) = Len(g) - 1 /\ Len(g) \in Nat \ {0}
      /\ \A k \in 1..(Len(g) - 1) : f[k] = g[k]
  BY <1>1, <1>2, FrontFacts
<1>4. Grows(f, h, s) /\ Len(f) = Len(h)
  BY <1>1 DEF Grows
<1>5. Inner(g, m) = Inner(f, m) \o s
  <2>1. /\ m < Len(f) /\ Len(g) = Len(f) + 1 /\ g[Len(f) + 1] = s
        /\ f \in Seq(Seq(S)) /\ \A k \in 1..Len(f) : g[k] = f[k]
    BY <1>2, <1>3, <1>4
  <2> QED
    BY <2>1, InnerEnters
<1>6. Inner(h, m) = Inner(f, m) \o s
  <2>1. f \in Seq(Seq(S)) /\ m < Len(f)
    BY <1>2, <1>3, <1>4
  <2> QED
    BY <1>4, <2>1, InnerGrows, Zenon
<1> QED
  BY <1>5, <1>6

(* More of one is told: of the last of n framed blocks.                     *)
More(n, m, g, h, s) ==
    \A i \in 1..n : Spoken(n, h, i) =
        IF i = n THEN Spoken(m, g, i) \o s ELSE Spoken(m, g, i)

(* What is told of the framed blocks by a piece, by a block that is not     *)
(* framed, at its start and at its end, and by one that is.                 *)
LEMMA SpokenPiece ==
    ASSUME NEW g \in Seq(Seq(Chunk)), NEW h \in Seq(Seq(Chunk)), NEW m \in Nat,
           m < Len(g), NEW s \in Seq(Chunk), Grows(g, h, s)
    PROVE  More(m, m, g, h, s)
<1>1. Inner(h, m) = Inner(g, m) \o s
  BY InnerGrows
<1>2. \A i \in 1..m : ~(m < m) /\ (i # m => i < m)
  OBVIOUS
<1>3. \A i \in 1..m : i < m => i + 1 \in 1..Len(g) /\ i + 1 # Len(g)
  BY LenProperties
<1>4. \A i \in 1..m : i < m => h[i + 1] = g[i + 1]
  BY <1>3, Zenon DEF Grows
<1>5. ASSUME NEW i \in 1..m, i = m PROVE Spoken(m, h, i) = Spoken(m, g, i) \o s
  BY <1>1, <1>2, <1>5, Zenon DEF Spoken
<1>6. ASSUME NEW i \in 1..m, i # m PROVE Spoken(m, h, i) = Spoken(m, g, i)
  BY <1>2, <1>4, <1>6, Zenon DEF Spoken
<1> QED
  BY <1>5, <1>6, Zenon DEF More

LEMMA SpokenDeeper ==
    ASSUME NEW g \in Seq(Seq(Chunk)), NEW h \in Seq(Seq(Chunk)), NEW m \in Nat,
           m < Len(g), Len(h) = Len(g) + 1, h[Len(g) + 1] = <<>>,
           \A k \in 1..Len(g) : h[k] = g[k]
    PROVE  \A i \in 1..m : Spoken(m, h, i) = Spoken(m, g, i)
<1>1. <<>> \in Seq(Chunk)
  OBVIOUS
<1>2. Inner(h, m) = Inner(g, m) \o <<>>
  BY <1>1, InnerEnters
<1>3. Inner(g, m) \in Seq(Chunk)
  <2>1. PICK V : V = Seq(Chunk)
    OBVIOUS
  <2>2. SubSeq(g, m + 1, Len(g)) \in Seq(V)
    BY <2>1, RestFacts
  <2> QED
    BY <2>1, <2>2, FlattenFacts, Zenon DEF Inner
<1>4. Inner(h, m) = Inner(g, m)
  BY <1>2, <1>3, ConcatEmptySeq
<1>5. \A i \in 1..m : i + 1 \in 1..(m + 1) /\ (i < m => i + 1 \in 1..Len(g))
  BY LenProperties
<1> QED
  BY <1>4, <1>5, Zenon DEF Spoken

LEMMA SpokenHigher ==
    ASSUME NEW g \in Seq(Seq(Chunk)), NEW h \in Seq(Seq(Chunk)), NEW m \in Nat,
           m < Len(h), g # <<>>, NEW s \in Seq(Chunk), g[Len(g)] = s,
           Grows(Front(g), h, s)
    PROVE  \A i \in 1..m : Spoken(m, h, i) = Spoken(m, g, i)
<1>1. Inner(h, m) = Inner(g, m)
  BY InnerLeaves
<1>2. PICK f : f = Front(g)
  OBVIOUS
<1>3. \A k \in 1..Len(f) : f[k] = g[k]
  <2>1. PICK V : V = Seq(Chunk)
    OBVIOUS
  <2>2. /\ Front(g) \in Seq(V) /\ Len(Front(g)) = Len(g) - 1
        /\ \A k \in 1..(Len(g) - 1) : Front(g)[k] = g[k]
    BY <2>1, FrontFacts
  <2> QED
    BY <1>2, <2>2
<1>4. Len(h) = Len(f)
  BY <1>2 DEF Grows
<1>5. \A i \in 1..m : i < m => i + 1 \in 1..Len(f) /\ i + 1 # Len(f)
  BY <1>4, LenProperties
<1>6. \A i \in 1..m : i < m => h[i + 1] = g[i + 1]
  BY <1>2, <1>3, <1>5, Zenon DEF Grows
<1> QED
  BY <1>1, <1>6, Zenon DEF Spoken

LEMMA SpokenOpens ==
    ASSUME NEW g \in Seq(Seq(Chunk)), NEW h \in Seq(Seq(Chunk)), NEW m \in Nat,
           Len(g) = m + 1, Len(h) = m + 2, h[m + 2] = <<>>,
           \A k \in 1..Len(g) : h[k] = g[k]
    PROVE  /\ \A i \in 1..m : Spoken(m + 1, h, i) = Spoken(m, g, i)
           /\ Spoken(m + 1, h, m + 1) = <<>>
<1>1. Inner(g, m) = g[m + 1]
  BY InnerAlone
<1>2. Inner(h, m + 1) = <<>>
  <2>1. PICK l : l = m + 1
    OBVIOUS
  <2>2. l \in Nat /\ Len(h) = l + 1 /\ h[l + 1] = <<>>
    BY <2>1
  <2> QED
    BY <2>1, <2>2, InnerAlone
<1>3. /\ \A i \in 1..m : i < m + 1 /\ i + 1 \in 1..Len(g) /\ (~(i < m) => i = m)
      /\ ~(m + 1 < m + 1)
  OBVIOUS
<1>4. \A i \in 1..m : Spoken(m + 1, h, i) = g[i + 1]
  BY <1>3, Zenon DEF Spoken
<1>5. \A i \in 1..m : Spoken(m, g, i) = g[i + 1]
  BY <1>1, <1>3, Zenon DEF Spoken
<1>6. Spoken(m + 1, h, m + 1) = <<>>
  BY <1>2, <1>3, Zenon DEF Spoken
<1> QED
  BY <1>4, <1>5, <1>6, Zenon

LEMMA SpokenCloses ==
    ASSUME NEW g \in Seq(Seq(Chunk)), NEW h \in Seq(Seq(Chunk)), NEW m \in Nat, m > 0,
           Len(g) = m + 1, NEW s \in Seq(Chunk), g[m + 1] = s, Grows(Front(g), h, s)
    PROVE  /\ Spoken(m, g, m) = s
           /\ More(m - 1, m, g, h, s)
<1>1. Inner(g, m) = s
  BY InnerAlone
<1>2. PICK f : f = Front(g)
  OBVIOUS
<1>3. Len(f) = m /\ \A k \in 1..m : f[k] = g[k]
  <2>1. PICK V : V = Seq(Chunk)
    OBVIOUS
  <2>2. /\ Len(Front(g)) = Len(g) - 1
        /\ \A k \in 1..(Len(g) - 1) : Front(g)[k] = g[k]
    <3>1. g # <<>>
      OBVIOUS
    <3> QED
      BY <2>1, <3>1, FrontFacts
  <2>3. Len(g) - 1 = m
    OBVIOUS
  <2> QED
    BY <1>2, <2>2, <2>3, Zenon
<1>4. PICK l : l = m - 1
  OBVIOUS
<1>5. l \in Nat /\ m = l + 1
  BY <1>4
<1>6. \A i \in 1..l : /\ i < m /\ i + 1 \in 1..m /\ (i + 1 = m <=> i = l)
                      /\ (~(i < l) => i = l)
  BY <1>5
<1>7. Len(h) = l + 1
  BY <1>2, <1>3, <1>5 DEF Grows
<1>8. Inner(h, l) = h[l + 1]
  BY <1>5, <1>7, InnerAlone
<1>9. \A i \in 1..l : Spoken(l, h, i) = h[i + 1]
  BY <1>6, <1>8, Zenon DEF Spoken
<1>10. \A i \in 1..l : Spoken(m, g, i) = f[i + 1]
  BY <1>3, <1>6, Zenon DEF Spoken
<1>11. \A k \in 1..m : h[k] = IF k = m THEN f[k] \o s ELSE f[k]
  BY <1>2, <1>3, Zenon DEF Grows
<1>12. ASSUME NEW i \in 1..l
       PROVE  Spoken(l, h, i) = IF i = l THEN Spoken(m, g, i) \o s ELSE Spoken(m, g, i)
  <2>1. i + 1 \in 1..m /\ (i + 1 = m <=> i = l)
    BY <1>6
  <2>2. h[i + 1] = IF i + 1 = m THEN f[i + 1] \o s ELSE f[i + 1]
    BY <1>11, <2>1, Zenon
  <2>3. Spoken(l, h, i) = h[i + 1] /\ Spoken(m, g, i) = f[i + 1]
    BY <1>9, <1>10, Zenon
  <2> QED
    BY <2>1, <2>2, <2>3, Zenon
<1>13. ~(m < m)
  OBVIOUS
<1>14. Spoken(m, g, m) = s
  BY <1>1, <1>13, Zenon DEF Spoken
<1> QED
  BY <1>4, <1>12, <1>14, Zenon DEF More

(* What a reader makes of a piece and of a marker.                          *)
LEMMA PieceIsHeard ==
    ASSUME NEW t \in Hearing, NEW c \in Chunk
    PROVE  \E u \in Hearing : PieceHeard(t, ChunkOf(c), u)
<1>1. PICK V : V = Seq(Chunk)
  OBVIOUS
<1>2. PICK n : n = Len(t.open)
  OBVIOUS
<1>3. t.open \in Seq(Block) /\ t.fed \in Seq(V) /\ Len(t.fed) = n /\ n \in Nat
  BY <1>1, <1>2 DEF Hearing
<1>4. PICK f : f = [i \in 1..n |-> IF i = n THEN Append(t.fed[i], c) ELSE t.fed[i]]
  OBVIOUS
<1>5. \A i \in 1..n : t.fed[i] \in V /\ Append(t.fed[i], c) \in V
  BY <1>1, <1>3, ElementOfSeq, AppendProperties
<1>6. /\ f \in Seq(V) /\ Len(f) = n
      /\ \A i \in 1..n : f[i] = IF i = n THEN Append(t.fed[i], c) ELSE t.fed[i]
  BY <1>3, <1>4, <1>5
<1>7. PICK u : u = [open |-> t.open, fed |-> f]
  OBVIOUS
<1>8. u.open = t.open /\ u.fed = f
  BY <1>7
<1>9. u \in Hearing
  BY <1>1, <1>2, <1>3, <1>6, <1>7 DEF Hearing
<1>10. PieceHeard(t, ChunkOf(c), u)
  <2>1. ChunkOf(c).kind = "chunk" /\ ChunkOf(c).val = c
    BY DEF ChunkOf
  <2> QED
    BY <1>2, <1>6, <1>8, <2>1, Zenon DEF PieceHeard
<1> QED
  BY <1>9, <1>10

LEMMA StartIsHeard ==
    ASSUME NEW t \in Hearing, NEW c \in Block, \A i \in 1..Len(t.open) : t.open[i] # c
    PROVE  \E u \in Hearing : StartHeard(t, Marker(c), u)
<1>1. PICK V : V = Seq(Chunk)
  OBVIOUS
<1>2. PICK n : n = Len(t.open)
  OBVIOUS
<1>3. t.open \in Seq(Block) /\ t.fed \in Seq(V) /\ Len(t.fed) = n /\ <<>> \in V
  BY <1>1, <1>2 DEF Hearing
<1>4. PICK f : f = Append(t.fed, <<>>)
  OBVIOUS
<1>5. f \in Seq(V) /\ Len(f) = n + 1 /\ f[n + 1] = <<>> /\ \A i \in 1..n : f[i] = t.fed[i]
  BY <1>3, <1>4, AppendProperties
<1>6. PICK o : o = Append(t.open, c)
  OBVIOUS
<1>7. o \in Seq(Block) /\ Len(o) = n + 1
  BY <1>2, <1>3, <1>6, AppendProperties
<1>8. PICK u : u = [open |-> o, fed |-> f]
  OBVIOUS
<1>9. u.open = o /\ u.fed = f
  BY <1>8
<1>10. u \in Hearing
  BY <1>1, <1>5, <1>7, <1>8 DEF Hearing
<1>11. StartHeard(t, Marker(c), u)
  <2>1. Marker(c).kind = "block" /\ Marker(c).val = c
    BY DEF Marker
  <2> QED
    BY <1>2, <1>5, <1>6, <1>9, <2>1, Zenon DEF StartHeard
<1> QED
  BY <1>10, <1>11

LEMMA EndIsHeard ==
    ASSUME ContentLaws, NEW t \in Hearing, NEW c \in Block, NEW A,
           t.open # <<>>, t.open[Len(t.open)] = c,
           (\A i \in 1..Len(t.open) : t.open[i] \notin A)
              => t.fed[Len(t.open)] = Expand[c]
    PROVE  \E u \in Hearing : EndHeard(A, t, Marker(c), u)
<1>1. PICK V : V = Seq(Chunk)
  OBVIOUS
<1>2. PICK n : n = Len(t.open)
  OBVIOUS
<1>3. /\ t.open \in Seq(Block) /\ t.fed \in Seq(V) /\ Len(t.fed) = n /\ n \in Nat \ {0}
      /\ Expand[c] \in V
  BY <1>1, <1>2, EmptySeq DEF Hearing, ContentLaws, Node
<1>4. PICK m : m = n - 1
  OBVIOUS
<1>5. PICK f : f = [i \in 1..m |-> IF i = m THEN t.fed[i] \o Expand[c] ELSE t.fed[i]]
  OBVIOUS
<1>6. m \in Nat /\ \A i \in 1..m : i \in 1..n
  BY <1>3, <1>4
<1>7. \A i \in 1..m : t.fed[i] \in V /\ t.fed[i] \o Expand[c] \in V
  <2>1. \A i \in 1..m : t.fed[i] \in V
    BY <1>3, <1>6, ElementOfSeq
  <2>2. \A x, y \in Seq(Chunk) : x \o y \in Seq(Chunk)
    BY ConcatProperties
  <2> QED
    BY <1>1, <1>3, <2>1, <2>2, Zenon
<1>8. /\ f \in Seq(V) /\ Len(f) = m
      /\ \A i \in 1..m : f[i] = IF i = m THEN t.fed[i] \o Expand[c] ELSE t.fed[i]
  BY <1>5, <1>6, <1>7
<1>9. PICK o : o = SubSeq(t.open, 1, m)
  OBVIOUS
<1>10. o \in Seq(Block) /\ Len(o) = m
  <2>1. m \in 0..Len(t.open)
    BY <1>2, <1>3, <1>4
  <2> QED
    BY <1>3, <1>9, <2>1, FirstFacts
<1>11. PICK u : u = [open |-> o, fed |-> f]
  OBVIOUS
<1>12. u.open = o /\ u.fed = f
  BY <1>11
<1>13. u \in Hearing
  BY <1>1, <1>8, <1>10, <1>11 DEF Hearing
<1>14. EndHeard(A, t, Marker(c), u)
  <2>1. Marker(c).kind = "block" /\ Marker(c).val = c
    BY DEF Marker
  <2> QED
    BY <1>2, <1>4, <1>8, <1>9, <1>12, <2>1, Zenon DEF EndHeard
<1> QED
  BY <1>13, <1>14

(* A reader that is told, at a piece, a start and an end, and when nothing  *)
(* of what it is told changes.                                              *)
LEMMA TellsSame ==
    ASSUME NEW held, NEW m, NEW g, NEW A, NEW t, Tells(held, m, g, A, t), NEW n, NEW h,
           \A i \in 1..Len(held) : (\A j \in 1..i : held[j] \notin A)
              => Spoken(n, h, i) = Spoken(m, g, i)
    PROVE  Tells(held, n, h, A, t)
BY Zenon DEF Tells

LEMMA TellsPiece ==
    ASSUME NEW held \in Seq(Block), NEW m \in Nat, Len(held) = m,
           NEW g \in Seq(Seq(Chunk)), NEW h \in Seq(Seq(Chunk)), m < Len(g),
           NEW c \in Chunk, Grows(g, h, <<c>>),
           NEW A, NEW t, Tells(held, m, g, A, t),
           NEW u \in Hearing, PieceHeard(t, ChunkOf(c), u)
    PROVE  Tells(held, m, h, A, u)
<1>0. \A x \in Seq(Chunk) : x \o <<c>> = Append(x, c)
  BY AppendFacts
<1>1. \A i \in 1..m : Spoken(m, h, i) =
         IF i = m THEN Spoken(m, g, i) \o <<c>> ELSE Spoken(m, g, i)
  <2>1. PICK s : s = <<c>>
    OBVIOUS
  <2>2. s \in Seq(Chunk) /\ Grows(g, h, s)
    BY <2>1
  <2>3. More(m, m, g, h, s)
    BY <2>2, SpokenPiece
  <2> QED
    BY <2>1, <2>3, Zenon DEF More
<1>2. /\ t.open = held /\ u.open = held
      /\ \A i \in 1..m : u.fed[i] = IF i = m THEN Append(t.fed[i], c) ELSE t.fed[i]
  <2>1. ChunkOf(c).val = c
    BY DEF ChunkOf
  <2> QED
    BY <2>1, Zenon DEF Tells, PieceHeard
<1>3. \A i \in 1..m : t.fed[i] \in Seq(Chunk)
  <2>1. PICK V : V = Seq(Chunk)
    OBVIOUS
  <2>2. t.fed \in Seq(V) /\ Len(t.fed) = m
    BY <1>2, <2>1 DEF Tells, Hearing
  <2> QED
    BY <2>1, <2>2, ElementOfSeq
<1>4. ASSUME NEW i \in 1..m, \A j \in 1..i : held[j] \notin A
      PROVE  u.fed[i] = Spoken(m, h, i)
  <2>1. t.fed[i] = Spoken(m, g, i)
    BY <1>4, Zenon DEF Tells
  <2>2. CASE i = m
    BY <1>0, <1>1, <1>2, <1>3, <2>1, <2>2, Zenon
  <2>3. CASE i # m
    BY <1>1, <1>2, <2>1, <2>3, Zenon
  <2> QED
    BY <2>2, <2>3
<1> QED
  BY <1>2, <1>4, Zenon DEF Tells

LEMMA TellsStart ==
    ASSUME NEW held \in Seq(Block), NEW m \in Nat, Len(held) = m, NEW g, NEW h,
           NEW c \in Block, NEW A, NEW t, Tells(held, m, g, A, t),
           \A i \in 1..m : Spoken(m + 1, h, i) = Spoken(m, g, i),
           Spoken(m + 1, h, m + 1) = <<>>,
           NEW u \in Hearing, StartHeard(t, Marker(c), u)
    PROVE  Tells(Append(held, c), m + 1, h, A, u)
<1>1. PICK o : o = Append(held, c)
  OBVIOUS
<1>2. o \in Seq(Block) /\ Len(o) = m + 1 /\ \A i \in 1..m : o[i] = held[i]
  BY <1>1, AppendProperties
<1>3. /\ t.open = held /\ u.open = o
      /\ \A i \in 1..m : u.fed[i] = t.fed[i]
      /\ u.fed[m + 1] = <<>>
  <2>1. Marker(c).val = c
    BY DEF Marker
  <2> QED
    BY <1>1, <2>1, Zenon DEF Tells, StartHeard
<1>4. ASSUME NEW i \in 1..(m + 1), \A j \in 1..i : o[j] \notin A
      PROVE  u.fed[i] = Spoken(m + 1, h, i)
  <2>1. CASE i = m + 1
    BY <1>3, <2>1, Zenon
  <2>2. CASE i # m + 1
    <3>1. i \in 1..m /\ \A j \in 1..i : j \in 1..m
      BY <2>2
    <3>2. t.fed[i] = Spoken(m, g, i)
      BY <1>2, <1>4, <3>1, Zenon DEF Tells
    <3> QED
      BY <1>3, <3>1, <3>2, Zenon
  <2> QED
    BY <2>1, <2>2
<1> QED
  BY <1>1, <1>2, <1>3, <1>4, Zenon DEF Tells

LEMMA TellsEnd ==
    ASSUME NEW held \in Seq(Block), NEW m \in Nat, m > 0, Len(held) = m,
           NEW g, NEW h, NEW c \in Block, NEW A, NEW t, Tells(held, m, g, A, t),
           More(m - 1, m, g, h, Expand[c]),
           NEW u \in Hearing, EndHeard(A, t, Marker(c), u)
    PROVE  Tells(Front(held), m - 1, h, A, u)
<1>1. PICK o : o = Front(held)
  OBVIOUS
<1>2. PICK l : l = m - 1
  OBVIOUS
<1>3. Len(o) = l /\ \A i \in 1..l : o[i] = held[i]
  <2>1. held # <<>>
    OBVIOUS
  <2> QED
    BY <1>1, <1>2, <2>1, FrontFacts
<1>4. /\ t.open = held /\ u.open = o
      /\ \A i \in 1..l : u.fed[i] = IF i = l THEN t.fed[i] \o Expand[c] ELSE t.fed[i]
  <2>1. Marker(c).val = c
    BY DEF Marker
  <2> QED
    BY <1>1, <1>2, <2>1, Zenon DEF Tells, EndHeard, Front
<1>5. ASSUME NEW i \in 1..l, \A j \in 1..i : o[j] \notin A
      PROVE  u.fed[i] = Spoken(l, h, i)
  <2>1. i \in 1..m /\ \A j \in 1..i : j \in 1..l
    BY <1>2
  <2>2. t.fed[i] = Spoken(m, g, i)
    BY <1>3, <1>5, <2>1, Zenon DEF Tells
  <2> QED
    BY <1>2, <1>4, <2>2, Zenon DEF More
<1> QED
  BY <1>1, <1>2, <1>3, <1>4, <1>5, Zenon DEF Tells

(* What a step of the sender does to a reader that was told everything: it  *)
(* sends nothing, and there is nothing to tell, or what it sends tells it.  *)
Told(A, t) ==
    \/ wire' = wire /\ Tells(heldOpen', Len(stack'), Given(walk'), A, t)
    \/ \E b \in Buffer, u \in Hearing :
          /\ Send(b)
          /\ Hears(A, t, b, u)
          /\ Tells(heldOpen', Len(stack'), Given(walk'), A, u)

LEMMA SpeakingFacts ==
    ASSUME ContentLaws, FramingInv, WalkReads
    PROVE  /\ walk \in Seq(Reader) /\ walk # <<>> /\ Len(walk) \in Nat \ {0}
           /\ Top = walk[Len(walk)] /\ Reads(walk)
           /\ Given(walk) \in Seq(Seq(Chunk)) /\ Len(Given(walk)) = Len(walk)
           /\ stack \in Seq(Block) /\ Len(stack) \in Nat /\ Len(stack) < Len(walk)
           /\ heldOpen \in Seq(Block) /\ Len(heldOpen) \in Nat
           /\ Len(heldOpen) <= Len(stack)
           /\ \A i \in 1..Len(heldOpen) : heldOpen[i] = stack[i]
           /\ skippingAt = 0 => heldOpen = stack
           /\ skippingAt \in Nat /\ skippingAt <= Len(stack)
           /\ Len(heldOpen) < Len(stack) => skippingAt \in 1..Len(heldOpen)
<1>1. /\ walk \in Seq(Reader) /\ Len(walk) \in Nat \ {0} /\ Top = walk[Len(walk)]
  BY TopFacts DEF FramingInv, TypeOK, WalkDescends, Reader
<1>2. walk # <<>>
  BY <1>1, EmptySeq
<1>3. Given(walk) \in Seq(Seq(Chunk)) /\ Len(Given(walk)) = Len(walk)
  BY <1>1, GivenFacts DEF WalkReads
<1>4. Len(stack) < Len(walk)
  <2>1. Len(stack) \in Nat /\ \A i \in 1..Len(stack) : i + 1 \in 1..Len(walk)
    BY StackFacts
  <2>2. CASE Len(stack) = 0
    BY <1>1, <2>2
  <2>3. CASE Len(stack) # 0
    <3>1. Len(stack) \in 1..Len(stack)
      BY <2>1, <2>3
    <3>2. Len(stack) + 1 \in 1..Len(walk)
      BY <2>1, <3>1
    <3> QED
      BY <1>1, <2>1, <3>2
  <2> QED
    BY <2>2, <2>3
<1>5. /\ stack \in Seq(Block) /\ Len(stack) \in Nat
      /\ heldOpen \in Seq(Block) /\ Len(heldOpen) \in Nat
      /\ skippingAt = 0 => heldOpen = stack
  BY SentFacts
<1>6. /\ Len(heldOpen) <= Len(stack) /\ skippingAt \in Nat /\ skippingAt <= Len(stack)
      /\ \A i \in 1..Len(heldOpen) : heldOpen[i] = stack[i]
      /\ Len(heldOpen) < Len(stack) => skippingAt \in 1..Len(heldOpen)
  BY DEF FramingInv, ReaderHoldsOpened, TypeOK
<1> QED
  BY <1>1, <1>2, <1>3, <1>4, <1>5, <1>6 DEF WalkReads

(* The blocks that are held open as far as the skipped one are not all sent *)
(* in full.                                                                 *)
LEMMA SkippedIsAsked ==
    ASSUME ContentLaws, FramingInv, WalkReads, NEW A, NEW d \in 1..Len(stack),
           stack[d] \in A, NEW i \in 1..Len(heldOpen),
           \A j \in 1..i : heldOpen[j] \notin A
    PROVE  i < d
<1>1. /\ Len(stack) \in Nat /\ Len(heldOpen) \in Nat /\ Len(heldOpen) <= Len(stack)
      /\ \A j \in 1..Len(heldOpen) : heldOpen[j] = stack[j]
  BY SpeakingFacts
<1>2. SUFFICES ASSUME ~(i < d) PROVE FALSE
  OBVIOUS
<1>3. d \in 1..i /\ d \in 1..Len(heldOpen)
  BY <1>1, <1>2
<1> QED
  BY <1>1, <1>3, Zenon

LEMMA ReadChunkTells ==
    ASSUME ContentLaws, FramingInv, WalkReads, DropsOnlyWhatWasAsked,
           NEW A, skip \subseteq A, NEW t, Speaks(A, t), ReadChunk
    PROVE  WalkReads' /\ Told(A, t)
<1>1. /\ walk \in Seq(Reader) /\ walk # <<>> /\ Len(walk) \in Nat \ {0}
      /\ Top = walk[Len(walk)] /\ Reads(walk)
      /\ Given(walk) \in Seq(Seq(Chunk)) /\ Len(Given(walk)) = Len(walk)
      /\ stack \in Seq(Block) /\ Len(stack) \in Nat /\ Len(stack) < Len(walk)
      /\ heldOpen \in Seq(Block) /\ Len(heldOpen) \in Nat
      /\ Len(heldOpen) <= Len(stack)
      /\ skippingAt = 0 => heldOpen = stack
      /\ skippingAt \in Nat /\ skippingAt <= Len(stack)
  BY SpeakingFacts
<1>2. PICK v : v = walk'
  OBVIOUS
<1>3. PICK c : c = TopItem
  OBVIOUS
<1>4. /\ c \in Chunk /\ v = [walk EXCEPT ![Len(walk)].pos = @ + 1]
      /\ ~(Top.pos > Len(Body[Top.node])) /\ Body[Top.node][Top.pos] = c
      /\ heldOpen' = heldOpen /\ stack' = stack
      /\ skippingAt' = IF skippingAt = 0 THEN OutermostSkipped ELSE skippingAt
      /\ IF skippingAt' = 0 THEN Send(ChunkOf(c)) ELSE wire' = wire
  BY <1>2, <1>3 DEF ReadChunk, SendChunk, Advance, AtEnd, TopItem
<1>5. walk[Len(walk)].pos <= Len(Body[walk[Len(walk)].node])
  <2>1. Top.pos \in Nat /\ Len(Body[Top.node]) \in Nat
    BY TopFacts DEF FramingInv, WalkDescends, Reader
  <2> QED
    BY <1>1, <1>4, <2>1
<1>6. /\ Reads(v) /\ Len(v) = Len(walk) /\ v \in Seq(Reader)
      /\ Grows(Given(walk), Given(v), <<c>>)
  BY <1>1, <1>4, <1>5, GivenPiece
<1>7. Given(v) \in Seq(Seq(Chunk))
  BY <1>6, GivenFacts
<1>8. WalkReads'
  BY <1>2, <1>6 DEF WalkReads
<1>9. CASE skippingAt' = 0
  <2>1. heldOpen = stack
    BY <1>1, <1>4, <1>9
  <2>2. t \in Hearing /\ Tells(heldOpen, Len(stack), Given(walk), A, t)
    BY DEF Speaks, Tells
  <2>3. PICK u \in Hearing : PieceHeard(t, ChunkOf(c), u)
    BY <1>4, <2>2, PieceIsHeard
  <2>4. Tells(heldOpen, Len(stack), Given(v), A, u)
    BY <1>1, <1>4, <1>6, <1>7, <2>1, <2>2, <2>3, TellsPiece
  <2>5. Send(ChunkOf(c)) /\ ChunkOf(c) \in Buffer
    BY <1>4, <1>9, BufferTypes
  <2> QED
    BY <1>2, <1>4, <1>8, <2>3, <2>4, <2>5, Zenon DEF Told, Hears
<1>10. CASE skippingAt' # 0
  <2>1. PICK d : d = skippingAt'
    OBVIOUS
  <2>2. d \in 1..Len(stack) /\ stack[d] \in A
    <3>1. CASE skippingAt = 0
      BY <1>1, <1>4, <1>10, <2>1, <3>1, OutermostSkippedFacts
    <3>2. CASE skippingAt # 0
      BY <1>1, <1>4, <2>1, <3>2 DEF DropsOnlyWhatWasAsked
    <3> QED
      BY <3>1, <3>2
  <2>3. More(Len(stack), Len(stack), Given(walk), Given(v), <<c>>)
    <3>1. PICK s : s = <<c>>
      OBVIOUS
    <3>2. s \in Seq(Chunk) /\ Grows(Given(walk), Given(v), s)
      BY <1>4, <1>6, <3>1
    <3> QED
      BY <1>1, <1>7, <3>1, <3>2, SpokenPiece
  <2>4. ASSUME NEW i \in 1..Len(heldOpen), \A j \in 1..i : heldOpen[j] \notin A
        PROVE  Spoken(Len(stack), Given(v), i) = Spoken(Len(stack), Given(walk), i)
    <3>1. i < d
      BY <2>2, <2>4, SkippedIsAsked
    <3>2. i \in 1..Len(stack) /\ i # Len(stack)
      BY <1>1, <2>2, <3>1
    <3> QED
      BY <2>3, <3>2, Zenon DEF More
  <2>5. Tells(heldOpen, Len(stack), Given(v), A, t)
    BY <2>4, TellsSame DEF Speaks
  <2> QED
    BY <1>2, <1>4, <1>8, <1>10, <2>5, Zenon DEF Told
<1> QED
  BY <1>9, <1>10

LEMMA EnterBlockTells ==
    ASSUME ContentLaws, FramingInv, WalkReads,
           NEW A, NEW t, Speaks(A, t), EnterBlock
    PROVE  WalkReads' /\ Told(A, t)
<1>1. /\ walk \in Seq(Reader) /\ walk # <<>> /\ Len(walk) \in Nat \ {0}
      /\ Top = walk[Len(walk)] /\ Reads(walk)
      /\ Given(walk) \in Seq(Seq(Chunk)) /\ Len(Given(walk)) = Len(walk)
      /\ stack \in Seq(Block) /\ Len(stack) \in Nat /\ Len(stack) < Len(walk)
      /\ heldOpen \in Seq(Block) /\ Len(heldOpen) \in Nat
      /\ Len(heldOpen) <= Len(stack)
      /\ skippingAt = 0 => heldOpen = stack
  BY SpeakingFacts
<1>2. PICK v : v = walk'
  OBVIOUS
<1>3. PICK b : b = TopItem
  OBVIOUS
<1>4. /\ b \in Block
      /\ v = Append([walk EXCEPT ![Len(walk)].pos = @ + 1], [node |-> b, pos |-> 1])
      /\ ~(Top.pos > Len(Body[Top.node])) /\ Body[Top.node][Top.pos] = b
  BY <1>2, <1>3 DEF EnterBlock, Advance, AtEnd, TopItem
<1>5. walk[Len(walk)].pos <= Len(Body[walk[Len(walk)].node])
  <2>1. Top.pos \in Nat /\ Len(Body[Top.node]) \in Nat
    BY TopFacts DEF FramingInv, WalkDescends, Reader
  <2> QED
    BY <1>1, <1>4, <2>1
<1>6. /\ Reads(v) /\ Len(v) = Len(walk) + 1 /\ v \in Seq(Reader)
      /\ \A k \in 1..Len(walk) : Given(v)[k] = Given(walk)[k]
      /\ Given(v)[Len(walk) + 1] = <<>>
  <2>1. walk \in Seq(Reader) /\ walk # <<>> /\ Reads(walk) /\ b \in Block
    BY <1>1, <1>4, Zenon
  <2>2. Body[walk[Len(walk)].node][walk[Len(walk)].pos] = b
    BY <1>1, <1>4, Zenon
  <2>3. v = Append([walk EXCEPT ![Len(walk)].pos = @ + 1], [node |-> b, pos |-> 1])
    BY <1>4, Zenon
  <2> QED
    BY <1>5, <2>1, <2>2, <2>3, GivenEnters
<1>7. Given(v) \in Seq(Seq(Chunk)) /\ Len(Given(v)) = Len(v)
  BY <1>6, GivenFacts
<1>8. WalkReads'
  BY <1>2, <1>6 DEF WalkReads
<1>9. PICK m : m = Len(stack)
  OBVIOUS
<1>10. t \in Hearing /\ t.open = heldOpen /\ Tells(heldOpen, m, Given(walk), A, t)
  BY <1>9 DEF Speaks, Tells
<1>11. CASE ~Framed(Len(walk))
  <2>1. wire' = wire /\ heldOpen' = heldOpen /\ stack' = stack
    BY <1>11 DEF EnterBlock, filterVars, sentVars
  <2>2. \A i \in 1..m : Spoken(m, Given(v), i) = Spoken(m, Given(walk), i)
    <3>1. PICK g : g = Given(walk)
      OBVIOUS
    <3>2. PICK h : h = Given(v)
      OBVIOUS
    <3>3. /\ m \in Nat /\ m < Len(g) /\ Len(h) = Len(g) + 1
          /\ g \in Seq(Seq(Chunk)) /\ h \in Seq(Seq(Chunk))
          /\ h[Len(g) + 1] = <<>>
      BY <1>1, <1>6, <1>7, <1>9, <3>1, <3>2, Zenon
    <3>4. \A k \in 1..Len(g) : h[k] = g[k]
      BY <1>1, <1>6, <3>1, <3>2, Zenon
    <3>5. \A i \in 1..m : Spoken(m, h, i) = Spoken(m, g, i)
      BY <3>3, <3>4, SpokenDeeper
    <3> QED
      BY <3>1, <3>2, <3>5, Zenon
  <2>3. \A i \in 1..Len(heldOpen) : i \in 1..m
    BY <1>1, <1>9
  <2>4. Tells(heldOpen, m, Given(v), A, t)
    BY <1>10, <2>2, <2>3, TellsSame
  <2> QED
    BY <1>2, <1>8, <1>9, <2>1, <2>4, Zenon DEF Told
<1>12. CASE Framed(Len(walk))
  <2>1. /\ \A i \in 1..Len(stack) : stack[i] # b
        /\ m = Len(walk) - 1
        /\ OpenMarker(b)
    <3>1. \A i \in 1..Len(walk) : Rank[TopItem] < Rank[walk[i].node]
      BY PushFacts DEF EnterBlock, FramingInv
    <3>2. \A i \in 1..Len(stack) : stack[i] # b
      <4>1. \A i \in 1..Len(stack) : i + 1 \in 1..Len(walk) /\ stack[i] = walk[i + 1].node
        BY StackFacts DEF FramingInv, StackFollowsWalk
      <4>2. \A n \in Node : Rank[n] \in Nat
        BY ObjectsAssumption
      <4>3. b \in Node
        BY <1>4 DEF Node
      <4>4. ASSUME NEW i \in 1..Len(stack), stack[i] = b PROVE FALSE
        <5>1. Rank[b] < Rank[b]
          BY <1>3, <3>1, <4>1, <4>4, Zenon
        <5> QED
          BY <4>2, <4>3, <5>1
      <4> QED
        BY <4>4
    <3>3. OpenMarker(b)
      BY <1>3, <1>4, <1>12, <3>2, StartMarker DEF EnterBlock, FramingInv
    <3>4. Framed(Len(walk) - 1)
      BY <1>1, <1>12, ObjectsAssumption DEF Framed
    <3>5. m = Len(walk) - 1
      BY <1>9, <3>4 DEF FramingInv, StackFollowsWalk
    <3> QED
      BY <3>2, <3>3, <3>5
  <2>2. stack' = Append(stack, b) /\ Len(stack') = m + 1
    <3>1. stack' = Append(stack, b)
      BY <2>1 DEF OpenMarker
    <3>2. Len(Append(stack, b)) = Len(stack) + 1
      BY <1>1, <1>4, AppendProperties
    <3> QED
      BY <1>9, <3>1, <3>2
  <2>3. /\ \A i \in 1..m : Spoken(m + 1, Given(v), i) = Spoken(m, Given(walk), i)
        /\ Spoken(m + 1, Given(v), m + 1) = <<>>
    <3>1. PICK g : g = Given(walk)
      OBVIOUS
    <3>2. PICK h : h = Given(v)
      OBVIOUS
    <3>3. m \in Nat /\ Len(walk) = m + 1 /\ Len(walk) + 1 = m + 2
      BY <1>1, <2>1
    <3>4. /\ Len(g) = m + 1 /\ Len(h) = m + 2 /\ h[m + 2] = <<>>
          /\ g \in Seq(Seq(Chunk)) /\ h \in Seq(Seq(Chunk))
      BY <1>1, <1>6, <1>7, <3>1, <3>2, <3>3, Zenon
    <3>5. \A k \in 1..Len(g) : h[k] = g[k]
      BY <1>1, <1>6, <3>1, <3>2, Zenon
    <3>6. /\ \A i \in 1..m : Spoken(m + 1, h, i) = Spoken(m, g, i)
          /\ Spoken(m + 1, h, m + 1) = <<>>
      BY <3>3, <3>4, <3>5, SpokenOpens
    <3> QED
      BY <3>1, <3>2, <3>6, Zenon
  <2>4. CASE skippingAt # 0
    <3>1. wire' = wire /\ heldOpen' = heldOpen
      BY <2>1, <2>4 DEF OpenMarker, sentVars
    <3>2. \A i \in 1..Len(heldOpen) : i \in 1..m
      BY <1>1, <1>9
    <3>3. Tells(heldOpen, m + 1, Given(v), A, t)
      BY <1>10, <2>3, <3>2, TellsSame
    <3> QED
      BY <1>2, <1>8, <2>2, <3>1, <3>3, Zenon DEF Told
  <2>5. CASE skippingAt = 0
    <3>1. SendMarker(b) /\ heldOpen = stack
      BY <1>1, <2>1, <2>5 DEF OpenMarker
    <3>2. \A i \in 1..Len(heldOpen) : heldOpen[i] # b
      BY <2>1, <3>1
    <3>3. heldOpen' = Append(heldOpen, b) /\ Send(Marker(b)) /\ Marker(b) \in Buffer
      BY <1>1, <1>4, <3>1, <3>2, MarkerOpens, BufferTypes
    <3>4. PICK u \in Hearing : StartHeard(t, Marker(b), u)
      BY <1>4, <1>10, <3>2, StartIsHeard
    <3>5. Tells(Append(heldOpen, b), m + 1, Given(v), A, u)
      <4>1. m \in Nat /\ Len(heldOpen) = m
        BY <1>1, <1>9, <3>1
      <4>2. PICK g : g = Given(walk)
        OBVIOUS
      <4>3. PICK h : h = Given(v)
        OBVIOUS
      <4>4. /\ heldOpen \in Seq(Block) /\ b \in Block /\ Tells(heldOpen, m, g, A, t)
            /\ u \in Hearing /\ StartHeard(t, Marker(b), u)
        BY <1>1, <1>4, <1>10, <3>4, <4>2, Zenon
      <4>5. /\ \A i \in 1..m : Spoken(m + 1, h, i) = Spoken(m, g, i)
            /\ Spoken(m + 1, h, m + 1) = <<>>
        BY <2>3, <4>2, <4>3, Zenon
      <4>6. Tells(Append(heldOpen, b), m + 1, h, A, u)
        BY <4>1, <4>4, <4>5, TellsStart
      <4> QED
        BY <4>3, <4>6, Zenon
    <3> QED
      BY <1>2, <1>8, <2>2, <3>3, <3>4, <3>5, Zenon DEF Told, Hears
  <2> QED
    BY <2>4, <2>5
<1> QED
  BY <1>11, <1>12

LEMMA LeaveBlockTells ==
    ASSUME ContentLaws, FramingInv, WalkReads, DropsOnlyWhatWasAsked,
           NEW A, skip \subseteq A, NEW t, Speaks(A, t), LeaveBlock
    PROVE  WalkReads' /\ Told(A, t)
<1>1. /\ walk \in Seq(Reader) /\ walk # <<>> /\ Len(walk) \in Nat /\ Len(walk) > 1
      /\ Top = walk[Len(walk)] /\ Reads(walk)
      /\ Given(walk) \in Seq(Seq(Chunk)) /\ Len(Given(walk)) = Len(walk)
      /\ stack \in Seq(Block) /\ Len(stack) \in Nat /\ Len(stack) < Len(walk)
      /\ heldOpen \in Seq(Block) /\ Len(heldOpen) \in Nat
      /\ Len(heldOpen) <= Len(stack)
      /\ \A i \in 1..Len(heldOpen) : heldOpen[i] = stack[i]
      /\ skippingAt \in Nat /\ skippingAt <= Len(stack)
      /\ Len(heldOpen) < Len(stack) => skippingAt \in 1..Len(heldOpen)
  BY SpeakingFacts DEF LeaveBlock
<1>2. PICK v : v = walk'
  OBVIOUS
<1>3. PICK b : b = Top.node
  OBVIOUS
<1>4. /\ b \in Block /\ b = walk[Len(walk)].node /\ v = Front(walk)
      /\ Top.pos > Len(Body[Top.node])
  BY <1>1, <1>2, <1>3, PopFacts DEF LeaveBlock, FramingInv, AtEnd
<1>5. /\ Reads(v) /\ Len(v) = Len(walk) - 1 /\ v \in Seq(Reader)
      /\ Given(walk)[Len(walk)] = Expand[b]
      /\ Grows(Front(Given(walk)), Given(v), Expand[b])
  <2>1. walk[Len(walk)].pos > Len(Body[walk[Len(walk)].node])
    BY <1>1, <1>4
  <2> QED
    BY <1>1, <1>4, <2>1, GivenLeaves
<1>6. /\ Given(v) \in Seq(Seq(Chunk)) /\ Len(Given(v)) = Len(v)
      /\ Expand[b] \in Seq(Chunk) /\ Given(walk) # <<>>
  <2>1. Given(v) \in Seq(Seq(Chunk)) /\ Len(Given(v)) = Len(v)
    BY <1>5, GivenFacts
  <2>2. Len(Given(walk)) # 0
    BY <1>1
  <2> QED
    BY <1>4, <2>1, <2>2 DEF ContentLaws, Node
<1>7. WalkReads'
  BY <1>2, <1>5 DEF WalkReads
<1>8. PICK m : m = Len(stack)
  OBVIOUS
<1>9. t \in Hearing /\ t.open = heldOpen /\ Tells(heldOpen, m, Given(walk), A, t)
  BY <1>8 DEF Speaks, Tells
<1>10. CASE ~Framed(Len(walk) - 1)
  <2>1. wire' = wire /\ heldOpen' = heldOpen /\ stack' = stack
    BY <1>10 DEF LeaveBlock, filterVars, sentVars
  <2>2. m < Len(Given(v)) /\ m \in Nat
    <3>1. PICK n : n = Len(walk)
      OBVIOUS
    <3>2. Len(Given(v)) = n - 1 /\ n \in Nat
      BY <1>1, <1>5, <1>6, <3>1
    <3>3. m = BlockDepth /\ ~(n - 1 <= BlockDepth) /\ BlockDepth \in Nat
      BY <1>8, <1>10, <3>1, ObjectsAssumption DEF FramingInv, StackFollowsWalk, Framed
    <3> QED
      BY <3>2, <3>3
  <2>3. \A i \in 1..m : Spoken(m, Given(v), i) = Spoken(m, Given(walk), i)
    <3>1. PICK g : g = Given(walk)
      OBVIOUS
    <3>2. PICK h : h = Given(v)
      OBVIOUS
    <3>3. PICK x : x = Expand[b]
      OBVIOUS
    <3>4. /\ m < Len(h) /\ m \in Nat /\ g # <<>> /\ g[Len(g)] = x /\ x \in Seq(Chunk)
          /\ g \in Seq(Seq(Chunk)) /\ h \in Seq(Seq(Chunk)) /\ Grows(Front(g), h, x)
      BY <1>1, <1>5, <1>6, <2>2, <3>1, <3>2, <3>3, Zenon
    <3>5. \A i \in 1..m : Spoken(m, h, i) = Spoken(m, g, i)
      BY <3>4, SpokenHigher
    <3> QED
      BY <3>1, <3>2, <3>5, Zenon
  <2>4. \A i \in 1..Len(heldOpen) : i \in 1..m
    BY <1>1, <1>8
  <2>5. Tells(heldOpen, m, Given(v), A, t)
    BY <1>9, <2>3, <2>4, TellsSame
  <2> QED
    BY <1>2, <1>7, <1>8, <2>1, <2>5, Zenon DEF Told
<1>11. CASE Framed(Len(walk) - 1)
  <2>1. m = Len(walk) - 1 /\ m \in Nat /\ m > 0 /\ m \in 1..m
    <3>1. m = Len(walk) - 1
      BY <1>8, <1>11 DEF FramingInv, StackFollowsWalk
    <3> QED
      BY <1>1, <3>1
  <2>2. stack # <<>> /\ stack[m] = b
    <3>1. stack[m] = walk[m + 1].node
      BY <1>8, <2>1 DEF FramingInv, StackFollowsWalk
    <3>2. m + 1 = Len(walk)
      BY <1>1, <2>1
    <3>3. m # 0
      BY <2>1
    <3> QED
      BY <1>1, <1>4, <1>8, <3>1, <3>2, <3>3, EmptySeq
  <2>3. CloseMarker(b)
    <3>1. \A i, j \in 1..Len(stack) : i < j => stack[i] # stack[j]
      BY StackFacts
    <3> QED
      BY <1>3, <1>4, <1>8, <1>11, <2>2, <3>1, EndMarker DEF LeaveBlock, FramingInv
  <2>4. Len(stack') = m - 1
    BY <1>1, <1>8, <2>2, <2>3, FrontFacts DEF CloseMarker
  <2>5. /\ Spoken(m, Given(walk), m) = Expand[b]
        /\ More(m - 1, m, Given(walk), Given(v), Expand[b])
    <3>1. Len(Given(walk)) = m + 1 /\ Given(walk)[m + 1] = Expand[b]
      BY <1>1, <1>5, <2>1
    <3> QED
      BY <1>1, <1>5, <1>6, <2>1, <3>1, SpokenCloses
  <2>6. Last(opened) <=> Len(heldOpen) = m
    <3>1. Len(opened) = m /\ Last(opened) = opened[m]
      BY <1>8 DEF FramingInv, ReaderHoldsOpened, Last
    <3>2. opened[m] <=> m <= Len(heldOpen)
      BY <1>8, <2>1 DEF FramingInv, ReaderHoldsOpened
    <3>3. m <= Len(heldOpen) <=> Len(heldOpen) = m
      BY <1>1, <1>8
    <3> QED
      BY <3>1, <3>2, <3>3
  <2>7. CASE Len(heldOpen) # m
    <3>1. wire' = wire /\ heldOpen' = heldOpen
      BY <2>3, <2>6, <2>7 DEF CloseMarker, sentVars
    <3>2. /\ skippingAt \in 1..Len(heldOpen) /\ skippingAt \in 1..Len(stack)
          /\ stack[skippingAt] \in A /\ Len(heldOpen) <= m - 1
      <4>1. Len(heldOpen) < Len(stack)
        BY <1>1, <1>8, <2>7
      <4> QED
        BY <1>1, <1>8, <4>1 DEF DropsOnlyWhatWasAsked
    <3>3. ASSUME NEW i \in 1..Len(heldOpen), \A j \in 1..i : heldOpen[j] \notin A
          PROVE  Spoken(m - 1, Given(v), i) = Spoken(m, Given(walk), i)
      <4>1. i < skippingAt
        BY <3>2, <3>3, SkippedIsAsked
      <4>2. i \in 1..(m - 1) /\ i # m - 1
        <5>1. PICK l : l = Len(heldOpen)
          OBVIOUS
        <5>2. l \in Nat /\ l <= m - 1 /\ skippingAt \in 1..l /\ i \in 1..l
          BY <1>1, <3>2, <5>1
        <5> QED
          BY <2>1, <4>1, <5>2
      <4> QED
        BY <2>5, <4>2, Zenon DEF More
    <3>4. Tells(heldOpen, m - 1, Given(v), A, t)
      BY <1>9, <3>3, TellsSame
    <3> QED
      BY <1>2, <1>7, <2>4, <3>1, <3>4, Zenon DEF Told
  <2>8. CASE Len(heldOpen) = m
    <3>1. SendMarker(b) /\ heldOpen # <<>> /\ heldOpen[Len(heldOpen)] = b
      <4>1. heldOpen[m] = stack[m]
        BY <1>1, <2>1, <2>8
      <4>2. Len(heldOpen) # 0
        BY <2>1, <2>8
      <4> QED
        BY <1>1, <2>2, <2>3, <2>6, <2>8, <4>1, <4>2, EmptySeq DEF CloseMarker
    <3>2. heldOpen' = Front(heldOpen) /\ Send(Marker(b)) /\ Marker(b) \in Buffer
      BY <1>1, <1>4, <3>1, MarkerCloses, BufferTypes
    <3>3. (\A i \in 1..Len(heldOpen) : heldOpen[i] \notin A)
             => t.fed[Len(heldOpen)] = Expand[b]
      BY <1>9, <2>1, <2>5, <2>8, Zenon DEF Tells
    <3>4. PICK u \in Hearing : EndHeard(A, t, Marker(b), u)
      BY <1>4, <1>9, <3>1, <3>3, EndIsHeard
    <3>5. Tells(Front(heldOpen), m - 1, Given(v), A, u)
      BY <1>1, <1>4, <1>9, <2>1, <2>5, <2>8, <3>4, TellsEnd
    <3> QED
      BY <1>2, <1>7, <2>4, <3>2, <3>4, <3>5, Zenon DEF Told, Hears
  <2> QED
    BY <2>7, <2>8
<1> QED
  BY <1>10, <1>11

(* However a sender moves on, if no file vanishes under it: a reader that   *)
(* has taken every Buffer sent is told all that the sender has passed, but  *)
(* of the blocks that were asked to be skipped and of those inside them.    *)
LEMMA SenderTells ==
    ASSUME ContentLaws, FramingInv, WalkReads, DropsOnlyWhatWasAsked, MayVanish = {},
           NEW A, skip \subseteq A, NEW t, Speaks(A, t), SenderStep
    PROVE  WalkReads' /\ Told(A, t)
<1>1. t \in Hearing /\ Tells(heldOpen, Len(stack), Given(walk), A, t)
  BY DEF Speaks, Tells
<1>2. CASE Resume \/ Yield
  BY <1>1, <1>2 DEF Resume, Yield, WalkReads, Told, filterVars, sentVars
<1>3. ASSUME NEW b \in Buffer, Send(b), b.kind \notin {"chunk", "block"},
             UNCHANGED <<walk, stack, heldOpen>>
      PROVE  WalkReads' /\ Told(A, t)
  <2>1. Hears(A, t, b, t)
    BY <1>3 DEF Hears, OtherHeard
  <2> QED
    BY <1>1, <1>3, <2>1 DEF WalkReads, Told
<1>4. CASE SendHead
  BY <1>3, <1>4, BufferTypes DEF SendHead, filterVars, Header
<1>5. CASE ReadFails
  BY <1>3, <1>5, BufferTypes DEF ReadFails, filterVars, Error
<1>6. CASE SendSeparator
  BY <1>3, <1>6, BufferTypes DEF SendSeparator, filterVars, Separator
<1>7. ~FileVanishes
  BY DEF FileVanishes
<1> QED
  BY <1>2, <1>4, <1>5, <1>6, <1>7, ReadChunkTells, EnterBlockTells, LeaveBlockTells
  DEF SenderStep

(* At the start nothing has been told, and what is to be skipped only adds  *)
(* to what a reader is not told.                                            *)
NothingHeard == [open |-> <<>>, fed |-> <<>>]

LEMMA NothingIsHeard == NothingHeard \in Hearing
<1>1. <<>> \in Seq(Block) /\ <<>> \in Seq(Seq(Chunk)) /\ Len(<<>>) = Len(<<>>)
  OBVIOUS
<1> QED
  BY <1>1 DEF NothingHeard, Hearing

LEMMA TellsInit ==
    ASSUME Init, NEW A
    PROVE  WalkReads /\ Speaks(A, NothingHeard)
<1>1. PICK r : r = [node |-> Root, pos |-> 1]
  OBVIOUS
<1>2. r.node = Root /\ r.pos = 1 /\ walk = <<r>>
  BY <1>1 DEF Init
<1>3. Len(Body[Root]) \in Nat
  BY ObjectsAssumption, LenProperties DEF Node
<1>4. Len(walk) = 1 /\ walk[1] = r
  BY <1>2
<1>5. WalkReads
  BY <1>2, <1>3, <1>4 DEF WalkReads, Reads
<1>6. Speaks(A, NothingHeard)
  <2>1. heldOpen = <<>> /\ NothingHeard.open = <<>>
    BY DEF Init, NothingHeard
  <2>2. 1..Len(<<>>) = {}
    OBVIOUS
  <2> QED
    BY <2>1, <2>2, NothingIsHeard DEF Speaks, Tells
<1> QED
  BY <1>5, <1>6

LEMMA SpeaksMore ==
    ASSUME NEW A, NEW B, A \subseteq B, NEW t, Speaks(A, t)
    PROVE  Speaks(B, t)
BY DEF Speaks, Tells

LEMMA HearsMore ==
    ASSUME NEW A, NEW B, A \subseteq B, NEW h, NEW b, NEW t, Hears(A, h, b, t)
    PROVE  Hears(B, h, b, t)
BY DEF Hears, EndHeard

-----------------------------------------------------------------------------
(* The results.                                                             *)

(* Every variable of the sender keeps its type: the generators of           *)
(* reader.read_multiblock_directory and client.skip_requested_blocks never  *)
(* pop an empty stack or read past the end of an object.                    *)
THEOREM TypeCorrect == Spec => []TypeOK
<1>1. FramingInv => TypeOK
  BY DEF FramingInv
<1>2. QED
  BY <1>1, FramingCorrect, PTL

(* However an object is nested, however deep it is framed and whatever the  *)
(* peer asks to skip at whatever moment, no reader of what                  *)
(* skip_requested_blocks lets through meets crossing blocks.                *)
THEOREM NeverIntersects == Spec => []NoIntersection
<1>1. FramingInv => NoIntersection
  BY DEF FramingInv, ReaderHoldsOpened, NoIntersection
<1>2. QED
  BY <1>1, FramingCorrect, PTL

(* When send_file sends the separator, the end marker of every block whose  *)
(* start marker went out has gone out too.                                  *)
THEOREM AlwaysTerminated == Spec => []TerminatorsComplete
<1>1. FramingInv => TerminatorsComplete
  <2> SUFFICES ASSUME FramingInv, spc = "done" PROVE heldOpen = <<>>
    BY DEF TerminatorsComplete
  <2>1. Len(walk) = 1
    BY DEF FramingInv
  <2>2. Len(stack) = 0
    BY <2>1, ObjectsAssumption DEF FramingInv, StackFollowsWalk, Framed
  <2>3. Len(heldOpen) = 0
    BY <2>2, LenProperties DEF FramingInv, ReaderHoldsOpened, TypeOK
  <2>4. QED
    BY <2>3, EmptySeq DEF FramingInv, TypeOK
<1>2. QED
  BY <1>1, FramingCorrect, PTL

(* No step makes the filter leave out what was not asked to be skipped.     *)
LEMMA DropsNext ==
    ASSUME FramingInv, DropsOnlyWhatWasAsked, [Next]_vars
    PROVE  DropsOnlyWhatWasAsked'
<1>1. /\ Len(stack) \in Nat /\ skippingAt \in Nat /\ skippingAt <= Len(stack)
      /\ stack \in Seq(Block)
  BY StackFacts DEF FramingInv, TypeOK, ReaderHoldsOpened
<1>2. /\ OutermostSkipped \in 0..Len(stack)
      /\ OutermostSkipped # 0 => stack[OutermostSkipped] \in skip
  BY <1>1, OutermostSkippedFacts
<1>3. CASE ReadChunk \/ Resume
  BY <1>1, <1>2, <1>3 DEF ReadChunk, Resume, DropsOnlyWhatWasAsked
<1>4. CASE UNCHANGED <<stack, skippingAt>> /\ skip \subseteq skip'
  BY <1>4 DEF DropsOnlyWhatWasAsked
<1>5. ASSUME NEW c \in Block, FilterMarker(c), UNCHANGED skip
      PROVE  DropsOnlyWhatWasAsked'
  <2>1. CASE Closes(c) /\ CloseMarker(c)
    <3>1. stack # <<>> /\ stack' = Front(stack)
      BY <2>1 DEF Closes, CloseMarker
    <3>2. /\ Len(stack') = Len(stack) - 1
          /\ \A i \in 1..(Len(stack) - 1) : stack'[i] = stack[i]
      BY <1>1, <3>1, FrontFacts
    <3>3. skippingAt' # 0 => skippingAt' = skippingAt /\ skippingAt # Len(stack)
      BY <2>1 DEF CloseMarker
    <3>4. QED
      BY <1>1, <1>5, <3>2, <3>3 DEF DropsOnlyWhatWasAsked
  <2>2. CASE ~Closes(c) /\ OpenMarker(c)
    <3>1. stack' = Append(stack, c) /\ skippingAt' = skippingAt
      BY <2>2 DEF OpenMarker
    <3>2. /\ Len(stack') = Len(stack) + 1
          /\ \A i \in 1..Len(stack) : stack'[i] = stack[i]
      BY <1>1, <3>1, AppendProperties
    <3>3. QED
      BY <1>1, <1>5, <3>1, <3>2 DEF DropsOnlyWhatWasAsked
  <2>3. QED
    BY <1>5, <2>1, <2>2 DEF FilterMarker
<1>6. CASE EnterBlock
  BY <1>4, <1>5, <1>6 DEF EnterBlock, filterVars
<1>7. CASE LeaveBlock
  <2>1. Top.node \in Block
    BY <1>7, PopFacts DEF LeaveBlock, FramingInv
  <2>2. QED
    BY <1>4, <1>5, <1>7, <2>1 DEF LeaveBlock, filterVars
<1>8. CASE SendHead \/ ReadFails \/ FileVanishes \/ SendSeparator \/ Yield
  BY <1>4, <1>8
     DEF SendHead, ReadFails, FileVanishes, SendSeparator, Yield, filterVars
<1>9. CASE (\E b \in Block : Observe(b)) \/ Consume \/ UNCHANGED vars
  BY <1>4, <1>9 DEF Observe, Consume, vars, filterVars
<1>10. QED
  BY <1>3, <1>6, <1>7, <1>8, <1>9 DEF Next, SenderStep

(* The cached depth of the skip is at every moment that of an open block    *)
(* which the peer asked for.                                                *)
THEOREM DropsOnlyAsked == Spec => []DropsOnlyWhatWasAsked
<1>1. Init => DropsOnlyWhatWasAsked
  BY DEF Init, DropsOnlyWhatWasAsked
<1>2. FramingInv /\ DropsOnlyWhatWasAsked /\ [Next]_vars => DropsOnlyWhatWasAsked'
  BY DropsNext
<1>3. QED
  BY <1>1, <1>2, FramingCorrect, PTL DEF Spec

(* What stops the sender: once a piece went out of a block that is asked    *)
(* for, send_file has no other one in its hand, and the filter lets none    *)
(* through to it before that block is closed.                               *)
LandedInv ==
    /\ StopsAtTheRequest
    /\ late = 1 => OpenAsked /\ ~ChunkInHand

(* The filter lets no piece through while an open block is asked for.       *)
LEMMA NonePassesAsked ==
    ASSUME FramingInv, SenderStep
    PROVE  OpenAsked' => ~ChunkInHand'
<1>1. wire \in Seq(Buffer) /\ Len(stack) \in Nat
  BY StackFacts DEF FramingInv, TypeOK
<1>2. ASSUME NEW b \in Buffer, Send(b) PROVE Last(wire') = b
  BY <1>1, <1>2, AppendProperties DEF Send, Last
<1>3. ASSUME inHand' = inHand, Pulled PROVE ~ChunkInHand'
  BY <1>3 DEF Pulled, ChunkInHand
<1>4. CASE ReadChunk
  <2>1. CASE skippingAt' = 0
    <3>1. OutermostSkipped = 0
      BY <1>4, <2>1 DEF ReadChunk
    <3>2. ~OpenAsked
      BY <1>1, <3>1, OutermostSkippedFacts DEF OpenAsked, FramingInv, TypeOK
    <3> QED
      BY <1>4, <3>2 DEF ReadChunk, OpenAsked
  <2>2. CASE skippingAt' # 0
    BY <1>3, <1>4, <2>2 DEF ReadChunk
  <2> QED
    BY <2>1, <2>2
<1>5. ASSUME NEW c \in Block, FilterMarker(c), Pulled PROVE ~ChunkInHand'
  <2>1. Send(Marker(c)) \/ inHand' = inHand
    BY <1>5 DEF FilterMarker, CloseMarker, OpenMarker, SendMarker, sentVars
  <2>2. CASE Send(Marker(c))
    BY <1>2, <2>2, BufferTypes DEF ChunkInHand, Marker
  <2> QED
    BY <1>3, <1>5, <2>1, <2>2
<1>6. CASE EnterBlock
  BY <1>3, <1>5, <1>6 DEF EnterBlock, sentVars
<1>7. CASE LeaveBlock
  <2>1. Top.node \in Block
    BY <1>7, PopFacts DEF LeaveBlock, FramingInv
  <2> QED
    BY <1>3, <1>5, <1>7, <2>1 DEF LeaveBlock, sentVars
<1>8. CASE SendHead \/ Resume \/ ReadFails \/ FileVanishes \/ SendSeparator
  BY <1>3, <1>8 DEF SendHead, Resume, ReadFails, FileVanishes, SendSeparator, sentVars
<1>9. CASE Yield
  BY <1>9 DEF Yield, ChunkInHand
<1> QED
  BY <1>4, <1>6, <1>7, <1>8, <1>9 DEF SenderStep

LEMMA LandedNext ==
    ASSUME FramingInv, LandedInv, [Next]_vars
    PROVE  LandedInv'
<1>1. wire \in Seq(Buffer) /\ Len(stack) \in Nat
  BY StackFacts DEF FramingInv, TypeOK
<1>2. late \in 0..1
  BY DEF LandedInv, StopsAtTheRequest
<1>3. CASE SenderStep
  <2>1. CountLate
    BY <1>3 DEF SenderStep
  <2>2. late' \in 0..1
    BY <1>2, <2>1 DEF CountLate, LandedInv
  <2>3. late' = 1 => OpenAsked'
    BY <2>1 DEF CountLate
  <2> QED
    BY <1>3, <2>2, <2>3, NonePassesAsked DEF LandedInv, StopsAtTheRequest
<1>4. ASSUME late' = late, OpenAsked => OpenAsked', ChunkInHand' => ChunkInHand
      PROVE  LandedInv'
  BY <1>4 DEF LandedInv, StopsAtTheRequest
<1>5. CASE \E b \in Block : Observe(b)
  BY <1>4, <1>5 DEF Observe, OpenAsked, ChunkInHand, filterVars, sentVars
<1>6. CASE Consume
  <2>1. inHand => Last(Tail(wire)) = Last(wire)
    <3> SUFFICES ASSUME Len(wire) > 1 PROVE Last(Tail(wire)) = Last(wire)
      BY <1>6 DEF Consume
    <3> QED
      BY <1>1, LenProperties, HeadTailProperties DEF Last
  <2>2. ChunkInHand' => ChunkInHand
    BY <1>6, <2>1 DEF Consume, ChunkInHand
  <2>3. OpenAsked => OpenAsked'
    BY <1>6 DEF Consume, OpenAsked, filterVars
  <2> QED
    BY <1>4, <1>6, <2>2, <2>3 DEF Consume
<1>7. CASE UNCHANGED vars
  BY <1>4, <1>7 DEF vars, OpenAsked, ChunkInHand, filterVars, sentVars
<1> QED
  BY <1>3, <1>5, <1>6, <1>7 DEF Next

(* When a request lands, at most one more piece goes out of the block it    *)
(* names or of one inside it: the piece that send_file held in its hand,    *)
(* for the filter asks again at every piece.                                *)
THEOREM RequestsAreObeyed == Spec => []StopsAtTheRequest
<1>1. Init => LandedInv
  BY DEF Init, LandedInv, StopsAtTheRequest
<1>2. FramingInv /\ LandedInv /\ [Next]_vars => LandedInv'
  BY LandedNext
<1>3. LandedInv => StopsAtTheRequest
  BY DEF LandedInv
<1>4. QED
  BY <1>1, <1>2, <1>3, FramingCorrect, PTL DEF Spec
=============================================================================
