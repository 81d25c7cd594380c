------------------------ MODULE BlockTransferProofs -------------------------
(***************************************************************************)
(* What holds of a transfer, for every object, store and skip requests.    *)
(***************************************************************************)
EXTENDS BlockTransfer, StreamReader, SequenceLemmas

RP == INSTANCE BlockReceiverProofs
SP == INSTANCE BlockSenderProofs

-----------------------------------------------------------------------------
(* The two halves with their proofs: an INSTANCE has its own names for      *)
(* what it is made of.                                                      *)

LEMMA HalvesAssume ==
  /\ RP!ReceiverAssumption /\ RP!ObjectsAssumption /\ RP!HashAssumption
  /\ SP!SenderAssumption /\ SP!ObjectsAssumption /\ SP!HashAssumption
<1>1. /\ RP!Node = Node /\ RP!Item = Item /\ R!Item = Item
      /\ SP!Node = Node /\ SP!Item = Item
  BY DEF Node, Item, RP!Node, RP!Item, R!Item, SP!Node, SP!Item
<1>2. RP!Expand = Expand /\ SP!Expand = Expand
  BY <1>1 DEF Expand, RP!Expand, SP!Expand, RP!FlattenSeq, SP!FlattenSeq, FlattenSeq
<1> QED
  BY <1>1, <1>2, ObjectsAssumption, HashAssumption, HalvesAssumption
  DEF R!ReceiverAssumption, S!SenderAssumption, RP!ReceiverAssumption,
      SP!SenderAssumption, RP!ObjectsAssumption, SP!ObjectsAssumption,
      RP!HashAssumption, SP!HashAssumption, ObjectsAssumption, HashAssumption

LEMMA SameInit == /\ R!Init => RP!Init
                  /\ S!Init => SP!Init
BY DEF R!Init, RP!Init, S!Init, SP!Init, R!Empty, RP!Empty,
       R!StoresBefore, RP!StoresBefore, R!FormsOf, RP!FormsOf, 
       R!Expand, RP!Expand, R!FlattenSeq, RP!FlattenSeq, R!Node, RP!Node

LEMMA SameInvariants ==
  /\ RP!StoreIntegrity <=> R!StoreIntegrity
BY DEF R!StoreIntegrity, RP!StoreIntegrity, R!Exists, RP!Exists, R!BytesOf,
       RP!BytesOf, R!Expand, RP!Expand, R!FlattenSeq, RP!FlattenSeq, R!Node, RP!Node

LEMMA SameStore ==
  /\ R!Expand = RP!Expand
  /\ \A b : R!Exists(b) <=> RP!Exists(b)
  /\ \A b : R!Readable(b) <=> RP!Readable(b)
  /\ \A b : R!StoredBytes(b) = RP!StoredBytes(b)
  /\ \A items : R!WbpFails(items) <=> RP!WbpFails(items)
  /\ \A items, b : R!Replaces(items, b) <=> RP!Replaces(items, b)
<1>1. R!Expand = RP!Expand
  BY DEF R!Expand, RP!Expand, R!FlattenSeq, RP!FlattenSeq, R!Node, RP!Node
<1>2. \A b : R!Exists(b) <=> RP!Exists(b)
  BY DEF R!Exists, RP!Exists
<1>3. \A b : R!Readable(b) <=> RP!Readable(b)
  BY DEF R!Readable, RP!Readable, R!Exists, RP!Exists
<1>4. \A b : R!StoredBytes(b) = RP!StoredBytes(b)
  BY DEF R!StoredBytes, RP!StoredBytes, R!FormOf, RP!FormOf, R!Exists, RP!Exists,
         R!FlattenSeq, RP!FlattenSeq
<1>5. \A items : R!WbpFails(items) <=> RP!WbpFails(items)
  BY <1>3 DEF R!WbpFails, RP!WbpFails
<1>6. \A items, b : R!Replaces(items, b) <=> RP!Replaces(items, b)
  BY <1>2 DEF R!Replaces, RP!Replaces, R!IsDirectory, RP!IsDirectory
<1> QED
  BY <1>1, <1>2, <1>3, <1>4, <1>5, <1>6

LEMMA SameFed == \A items, bytes : R!Fed(items, bytes) = RP!Fed(items, bytes)
BY DEF R!Fed, RP!Fed

LEMMA SameReceiverStep == R!ReceiverStep => RP!ReceiverStep
<1> USE DEF R!Arrives, RP!Arrives, R!Arrived, RP!Arrived, R!Take, RP!Take,
            R!Exhausted, RP!Exhausted, R!Fails, RP!Fails, R!parserVars,
            RP!parserVars, R!requestVars, RP!requestVars, R!LevelEnds,
            RP!LevelEnds, R!Last, RP!Last, R!Front, RP!Front, R!ToSet, RP!ToSet
<1>1. R!Begin => RP!Begin
  BY DEF R!Begin, RP!Begin
<1>2. R!TakeHead => RP!TakeHead
  BY DEF R!TakeHead, RP!TakeHead
<1>3. R!TakeChunk => RP!TakeChunk
  BY SameFed DEF R!TakeChunk, RP!TakeChunk
<1>4. R!TakeStart => RP!TakeStart
  BY SameStore DEF R!TakeStart, RP!TakeStart, R!Request, RP!Request
<1>5. R!TakeTooDeep => RP!TakeTooDeep
  BY DEF R!TakeTooDeep, RP!TakeTooDeep
<1>6. R!SaveOrDrain => RP!SaveOrDrain
  BY SameFed, SameStore DEF R!SaveOrDrain, RP!SaveOrDrain, R!Empty, RP!Empty
<1>7. R!TakeEnd => RP!TakeEnd
  BY DEF R!TakeEnd, RP!TakeEnd
<1>8. R!TakeCrossing => RP!TakeCrossing
  BY DEF R!TakeCrossing, RP!TakeCrossing
<1>9. R!CloseDrain => RP!CloseDrain
  BY SameFed, SameStore DEF R!CloseDrain, RP!CloseDrain
<1>10. R!CloseContent => RP!CloseContent
  BY SameStore DEF R!CloseContent, RP!CloseContent
<1>11. R!Publish => RP!Publish
  BY SameStore DEF R!Publish, RP!Publish
<1>12. R!Rename => RP!Rename
  BY SameStore DEF R!Rename, RP!Rename
<1>13. R!Deliver => RP!Deliver
  BY SameStore DEF R!Deliver, RP!Deliver
<1>14. R!TakeSeparator => RP!TakeSeparator
  BY <1>13 DEF R!TakeSeparator, RP!TakeSeparator
<1>15. R!TakeEof => RP!TakeEof
  BY <1>13 DEF R!TakeEof, RP!TakeEof
<1>16. R!TakeError => RP!TakeError
  BY DEF R!TakeError, RP!TakeError
<1> QED
  BY <1>1, <1>2, <1>3, <1>4, <1>5, <1>6, <1>7, <1>8, <1>9, <1>10, <1>11, <1>12,
     <1>14, <1>15, <1>16 DEF R!ReceiverStep, RP!ReceiverStep

LEMMA SameOthers ==
  ASSUME NEW b \in Block
  PROVE  /\ R!OtherStores(b) => RP!OtherStores(b)
         /\ R!CleanUp(b) => RP!CleanUp(b)
BY SameStore DEF R!OtherStores, RP!OtherStores, R!CleanUp, RP!CleanUp, R!IsDirectory,
   RP!IsDirectory, R!parserVars, RP!parserVars, R!requestVars, RP!requestVars

LEMMA SameSenderStep == S!SenderStep => SP!SenderStep
<1> USE DEF S!Pulled, SP!Pulled, S!Send, SP!Send, S!Top, SP!Top, S!TopItem,
            SP!TopItem, S!AtEnd, SP!AtEnd, S!Advance, SP!Advance, S!Framed, SP!Framed,
            S!Last, SP!Last, S!Front, SP!Front, S!ToSet, SP!ToSet, S!filterVars,
            SP!filterVars, S!sentVars, SP!sentVars
<1>1. S!OutermostSkipped = SP!OutermostSkipped
  BY DEF S!OutermostSkipped, SP!OutermostSkipped, S!Min, SP!Min
<1>2. \A c : S!FilterMarker(c) => SP!FilterMarker(c)
  <2>1. \A c : S!SendMarker(c) => SP!SendMarker(c)
    BY DEF S!SendMarker, SP!SendMarker, S!Marker, SP!Marker
  <2> QED
    BY <2>1 DEF S!FilterMarker, SP!FilterMarker, S!Closes, SP!Closes, S!CloseMarker,
       SP!CloseMarker, S!OpenMarker, SP!OpenMarker
<1>3. S!SendHead => SP!SendHead
  BY DEF S!SendHead, SP!SendHead, S!Header, SP!Header
<1>4. S!ReadChunk => SP!ReadChunk
  BY <1>1 DEF S!ReadChunk, SP!ReadChunk, S!SendChunk, SP!SendChunk, S!ChunkOf, SP!ChunkOf
<1>5. S!EnterBlock => SP!EnterBlock
  BY <1>2 DEF S!EnterBlock, SP!EnterBlock
<1>6. S!Resume => SP!Resume
  BY <1>1 DEF S!Resume, SP!Resume
<1>7. S!ReadFails => SP!ReadFails
  BY DEF S!ReadFails, SP!ReadFails, S!Error, SP!Error
<1>8. S!FileVanishes => SP!FileVanishes
  BY DEF S!FileVanishes, SP!FileVanishes, S!OpensFile, SP!OpensFile, S!FileEnd,
     SP!FileEnd, S!Min, SP!Min
<1>9. S!LeaveBlock => SP!LeaveBlock
  BY <1>2 DEF S!LeaveBlock, SP!LeaveBlock
<1>10. S!SendSeparator => SP!SendSeparator
  BY DEF S!SendSeparator, SP!SendSeparator, S!Separator, SP!Separator
<1>11. S!Yield => SP!Yield
  BY DEF S!Yield, SP!Yield
<1>12. S!CountLate => SP!CountLate
  BY DEF S!CountLate, SP!CountLate, S!OpenAsked, SP!OpenAsked, S!ChunkInHand,
     SP!ChunkInHand
<1> QED
  BY <1>3, <1>4, <1>5, <1>6, <1>7, <1>8, <1>9, <1>10, <1>11, <1>12
  DEF S!SenderStep, SP!SenderStep

-----------------------------------------------------------------------------
(* Each half keeps its own invariant, whatever the other one does.          *)

HalvesInv == RP!ReceiverInv /\ SP!FramingInv

LEMMA HalvesInit == Init => HalvesInv
BY HalvesAssume, SameInit, RP!ReceiverInit, SP!FramingInit DEF Init, HalvesInv

LEMMA BufferFacts ==
  /\ RP!Buffer = Buffer /\ SP!Buffer = Buffer
  /\ Eof \in Buffer /\ S!Eof = Eof
  /\ HalvesInv => wire \in Seq(Buffer) /\ upstream \in Seq(Block)
<1>1. RP!Buffer = Buffer /\ SP!Buffer = Buffer
  BY DEF RP!Buffer, SP!Buffer, Buffer
<1> QED
  BY <1>1 DEF Eof, S!Eof, Buffer, HalvesInv, RP!ReceiverInv, RP!TypeOK

(* What the receiver keeps, if only the stream changes under it.            *)
LEMMA ReceiverStands ==
  ASSUME HalvesInv, wire' \in Seq(Buffer), upstream' \in Seq(Block),
         UNCHANGED <<receiverVars, store>>
  PROVE  RP!ReceiverInv'
BY HalvesAssume, BufferFacts, RP!WireStep DEF HalvesInv, receiverVars, RP!parserVars

(* What the sender keeps, if at most a Buffer is taken from it.             *)
LEMMA SenderStands ==
  ASSUME HalvesInv, UNCHANGED <<senderVars, skip>>,
         wire' = wire \/ (wire # <<>> /\ wire' = Tail(wire))
  PROVE  SP!FramingInv'
<1>1. skip \subseteq Block /\ wire \in Seq(Buffer) /\ inHand \in BOOLEAN
  BY BufferFacts DEF HalvesInv, SP!FramingInv, SP!TypeOK
<1>2. skip' \subseteq Block /\ wire' \in Seq(SP!Buffer) /\ inHand' \in BOOLEAN
  BY <1>1, BufferFacts, HeadTailProperties DEF senderVars
<1> QED
  BY <1>2, HalvesAssume, SP!OutsideStep DEF HalvesInv, senderVars

LEMMA ReceiverTakes ==
  ASSUME R!ReceiverStep
  PROVE  wire' = wire \/ (wire # <<>> /\ wire' = Tail(wire))
BY DEF R!ReceiverStep, R!Begin, R!TakeHead, R!TakeChunk, R!TakeStart, R!TakeTooDeep,
       R!SaveOrDrain, R!TakeEnd, R!TakeCrossing, R!CloseDrain, R!CloseContent, R!Publish,
       R!Rename, R!TakeSeparator, R!TakeEof, R!TakeError, R!Arrives, R!Take

LEMMA HalvesNext == HalvesInv /\ [Next]_vars => HalvesInv'
<1> SUFFICES ASSUME HalvesInv, [Next]_vars PROVE HalvesInv'
  OBVIOUS
<1>1. wire \in Seq(Buffer) /\ upstream \in Seq(Block)
  BY BufferFacts
<1>2. CASE Sending
  <2>1. SP!FramingInv'
    BY <1>2, HalvesAssume, SameSenderStep, SP!FramingNext DEF Sending, HalvesInv, SP!Next
  <2>2. wire' \in Seq(Buffer)
    BY <2>1, BufferFacts DEF SP!FramingInv, SP!TypeOK
  <2> QED
    BY <1>1, <1>2, <2>1, <2>2, ReceiverStands DEF Sending, HalvesInv
<1>3. CASE Cut
  <2>1. wire' \in Seq(Buffer)
    BY <1>1, <1>3, BufferFacts, AppendProperties DEF Cut, S!Send
  <2>2. SP!FramingInv'
    BY <1>3, <2>1, BufferFacts
    DEF Cut, HalvesInv, SP!FramingInv, SP!TypeOK, SP!WalkDescends, SP!StackFollowsWalk,
        SP!ReaderHoldsOpened, SP!Framed
  <2> QED
    BY <1>1, <1>3, <2>1, <2>2, ReceiverStands DEF Cut, HalvesInv
<1>4. CASE Receiving
  <2>1. RP!ReceiverInv'
    BY <1>4, HalvesAssume, SameReceiverStep, RP!ReceiverStepKeeps DEF Receiving, HalvesInv
  <2>2. SP!FramingInv'
    BY <1>4, ReceiverTakes, SenderStands DEF Receiving
  <2> QED
    BY <2>1, <2>2 DEF HalvesInv
<1>5. CASE RequestArrives
  <2>1. Head(upstream) \in Block /\ Tail(upstream) \in Seq(Block)
    BY <1>1, <1>5, HeadTailProperties DEF RequestArrives
  <2>2. SP!Observe(Head(upstream))
    BY <1>5 DEF RequestArrives, S!Observe, SP!Observe, S!filterVars, SP!filterVars,
                S!sentVars, SP!sentVars
  <2>3. SP!FramingInv'
    BY <2>1, <2>2, HalvesAssume, SP!FramingNext DEF HalvesInv, SP!Next
  <2>4. wire' = wire /\ upstream' = Tail(upstream) /\ UNCHANGED <<receiverVars, store>>
    BY <1>5 DEF RequestArrives, S!Observe, S!sentVars
  <2> QED
    BY <1>1, <2>1, <2>3, <2>4, ReceiverStands DEF HalvesInv
<1>6. CASE OtherStreams \/ CleanUps
  <2>1. PICK b \in Block : R!OtherStores(b) \/ R!CleanUp(b)
    BY <1>6 DEF OtherStreams, CleanUps
  <2>2. RP!ReceiverInv'
    BY <2>1, HalvesAssume, SameOthers, RP!OthersStep DEF HalvesInv
  <2>3. UNCHANGED <<senderVars, skip, wire>>
    BY <1>6, <2>1 DEF OtherStreams, CleanUps, R!OtherStores, R!CleanUp
  <2> QED
    BY <2>2, <2>3, SenderStands DEF HalvesInv
<1>7. CASE UNCHANGED vars
  BY <1>1, <1>7, ReceiverStands, SenderStands DEF vars, HalvesInv
<1> QED
  BY <1>2, <1>3, <1>4, <1>5, <1>6, <1>7 DEF Next, Finished

(* However the stream ends, and whatever the other streams and the clean-up *)
(* do meanwhile, what a transfer leaves in the block directory is right:    *)
(* the receiver never relies on what its peer does for that.                *)
THEOREM TransferStoresRight == Spec => []StoreSound
<1>1. Spec => []HalvesInv
  BY HalvesInit, HalvesNext, PTL DEF Spec
<1>2. HalvesInv => StoreSound
  BY SameInvariants DEF HalvesInv, RP!ReceiverInv, StoreSound
<1> QED
  BY <1>1, <1>2, PTL

-----------------------------------------------------------------------------
(* A reader at s that takes all of w is at t then.                          *)
Steps == {g \in Place \X Buffer \X Place : Goes(g[1], g[2], g[3])}
Run(s, w, t) == Leads(Steps, Place, s, w, t)

LEMMA RunStart == ASSUME NEW s \in Place PROVE Run(s, <<>>, s)
BY LeadsStart DEF Run

LEMMA RunOver ==
  ASSUME NEW w \in Seq(Buffer), NEW s, NEW t, Run(s, w, t)
  PROVE  s \in Place /\ t \in Place /\ (w = <<>> => s = t)
BY LeadsOver DEF Run

LEMMA RunExtends ==
  ASSUME NEW w \in Seq(Buffer), NEW b \in Buffer, NEW s, NEW t, NEW u \in Place,
         Run(s, w, t), Goes(t, b, u)
  PROVE  Run(s, Append(w, b), u)
<1>1. <<t, b, u>> \in Steps
  BY RunOver DEF Steps
<1> QED
  BY <1>1, LeadsExtends DEF Run

LEMMA RunTakes ==
  ASSUME NEW w \in Seq(Buffer), w # <<>>, NEW s, NEW t, Run(s, w, t)
  PROVE  \E u \in Place : Goes(s, Head(w), u) /\ Run(u, Tail(w), t)
<1>1. PICK u \in Place : <<s, Head(w), u>> \in Steps /\ Leads(Steps, Place, u, Tail(w), t)
  BY LeadsTakes DEF Run
<1> QED
  BY <1>1 DEF Run, Steps

-----------------------------------------------------------------------------

(* InStep folds the markers on their way into what the parser has open.     *)

LEMMA MaxFacts ==
  ASSUME NEW n \in Nat, NEW s \in SUBSET (1..n), s # {}
  PROVE  Max(s) \in s /\ \A x \in s : x <= Max(s)
<1> DEFINE T == {k \in Nat : \A x \in s : x <= k}
<1>1. T \subseteq Nat /\ n \in T
  OBVIOUS
<1>2. PICK k \in T : \A l \in T : k <= l
  <2> HIDE DEF T
  <2> QED
    BY <1>1, LeastNat
<1>3. k \in s
  <2> SUFFICES ASSUME k \notin s PROVE FALSE
    OBVIOUS
  <2>1. \A x \in s : x \in 1..n /\ x <= k /\ x # k
    BY <1>2
  <2>2. k # 0
    <3>1. PICK y \in s : TRUE
      OBVIOUS
    <3> QED
      BY <2>1, <3>1
  <2>3. \A x \in s : x <= k - 1
    BY <1>2, <2>1, <2>2
  <2>4. k - 1 \in T
    BY <1>2, <2>2, <2>3
  <2> QED
    BY <1>2, <2>4
<1>4. \A x \in s : k >= x
  BY <1>2
<1>5. \E m \in s : \A x \in s : m >= x
  BY <1>3, <1>4
<1>6. Max(s) \in s /\ \A x \in s : Max(s) >= x
  BY <1>5 DEF Max
<1> QED
  BY <1>6

LEMMA AfterMarkerType ==
  ASSUME NEW open \in Seq(Block), NEW b \in Buffer
  PROVE  AfterMarker(open, b) \in Seq(Block)
<1>1. b.kind = "block" => b.val \in Block
  BY DEF Buffer
<1>2. CASE b.val \in ToSet(open)
  <2>1. open # <<>>
    BY <1>2 DEF ToSet
  <2>2. Front(open) \in Seq(Block)
    BY <2>1, FrontFacts
  <2> QED
    BY <1>2, <2>2 DEF AfterMarker
<1> QED
  BY <1>1, <1>2, AppendProperties DEF AfterMarker

FoldBody(base, w) ==
    [s \in SUBSET (1..Len(w)) |->
        [f \in [SUBSET (1..Len(w)) -> Seq(Block)] |->
            IF s = {} THEN base
                      ELSE AfterMarker(f[s \ {Max(s)}], w[Max(s)])]]

LEMMA FoldExists ==
  ASSUME NEW base \in Seq(Block), NEW w \in Seq(Buffer)
  PROVE  HasSolution(FoldBody(base, w), SUBSET (1..Len(w)), Seq(Block))
<1> DEFINE n == Len(w)
           N == SUBSET (1..n)
           G == FoldBody(base, w)
           rank == [s \in N |-> IF s = {} THEN 0 ELSE Max(s)]
<1>1. n \in Nat /\ \A i \in 1..n : w[i] \in Buffer
  OBVIOUS
<1> HIDE DEF n
<1>2. \A s \in N : s # {} => Max(s) \in 1..n /\ Max(s) \in s /\ \A x \in s : x <= Max(s)
  BY <1>1, MaxFacts
<1>3. \A s \in N : s # {} => s \ {Max(s)} \in N /\ rank[s \ {Max(s)}] < rank[s]
  <2> SUFFICES ASSUME NEW s \in N, s # {}
               PROVE  s \ {Max(s)} \in N /\ rank[s \ {Max(s)}] < rank[s]
    OBVIOUS
  <2> DEFINE r == s \ {Max(s)}
  <2>1. r \in N /\ rank[s] = Max(s) /\ Max(s) \in 1..n
    BY <1>2
  <2>2. r # {} => Max(r) \in r
    BY <1>2, <2>1
  <2>3. r # {} => Max(r) < Max(s)
    BY <1>2, <2>1, <2>2
  <2> QED
    BY <2>1, <2>3
<1>4. rank \in [N -> Nat]
  BY <1>2
<1>5. ASSUME NEW s \in N, NEW f \in [N -> Seq(Block)]
      PROVE  G[s][f] = IF s = {} THEN base
                       ELSE AfterMarker(f[s \ {Max(s)}], w[Max(s)])
  BY DEF FoldBody, n
<1> HIDE DEF G, N, rank
<1>6. \A s \in N : \A f \in [N -> Seq(Block)] : G[s][f] \in Seq(Block)
  <2> SUFFICES ASSUME NEW s \in N, NEW f \in [N -> Seq(Block)]
               PROVE  G[s][f] \in Seq(Block)
    OBVIOUS
  <2>1. CASE s = {}
    BY <1>5, <2>1
  <2>2. CASE s # {}
    <3>1. f[s \ {Max(s)}] \in Seq(Block) /\ w[Max(s)] \in Buffer
      BY <1>1, <1>2, <1>3, <2>2
    <3> QED
      BY <1>5, <2>2, <3>1, AfterMarkerType
  <2> QED
    BY <2>1, <2>2
<1>7. LooksDown(G, N, Seq(Block), rank)
  <2> SUFFICES ASSUME NEW s \in N, NEW f \in [N -> Seq(Block)],
                      NEW g \in [N -> Seq(Block)],
                      \A r \in N : rank[r] < rank[s] => f[r] = g[r]
               PROVE  G[s][f] = G[s][g]
    BY DEF LooksDown
  <2>1. s # {} => f[s \ {Max(s)}] = g[s \ {Max(s)}]
    BY <1>3
  <2> QED
    BY <1>5, <2>1
<1>8. <<>> \in Seq(Block)
  OBVIOUS
<1>9. WellDefined(G, N, Seq(Block), rank)
  BY <1>4, <1>6, <1>7, <1>8 DEF WellDefined
<1>10. HasSolution(G, N, Seq(Block))
  <2>1. PICK V : V = Seq(Block)
    OBVIOUS
  <2>2. WellDefined(G, N, V, rank)
    BY <1>9, <2>1
  <2>3. HasSolution(G, N, V)
    BY <2>2, RecursionExists
  <2> QED
    BY <2>1, <2>3
<1> QED
  BY <1>10 DEF G, N, n

LEMMA FoldFacts ==
  ASSUME NEW base \in Seq(Block), NEW w \in Seq(Buffer)
  PROVE  \E f :
            /\ f[{}] = base
            /\ \A s \in SUBSET (1..Len(w)) : s # {} =>
                  f[s] = AfterMarker(f[s \ {Max(s)}], w[Max(s)])
            /\ FoldLeft(AfterMarker, base, w) = f[1..Len(w)]
<1> DEFINE n == Len(w)
           N == SUBSET (1..n)
           Is(f) == f = [s \in N |-> IF s = {} THEN base
                                     ELSE AfterMarker(f[s \ {Max(s)}], w[Max(s)])]
           F == CHOOSE f : Is(f)
<1>1. PICK g \in [N -> Seq(Block)] : \A s \in N : g[s] = FoldBody(base, w)[s][g]
  BY FoldExists DEF HasSolution
<1>2. Is(g)
  BY <1>1 DEF FoldBody
<1>3. Is(F)
  <2> HIDE DEF Is
  <2> QED
    BY <1>2
<1>4. DOMAIN w = 1..n /\ 1..n \in N
  BY LenProperties
<1>5. FoldLeft(AfterMarker, base, w) = F[1..n]
  BY <1>4 DEF FoldLeft, MapThenFoldSet
<1>6. \A s \in N : F[s] = IF s = {} THEN base
                          ELSE AfterMarker(F[s \ {Max(s)}], w[Max(s)])
  BY <1>3
<1> HIDE DEF F
<1>7. {} \in N
  OBVIOUS
<1> HIDE DEF N
<1> QED
  BY <1>5, <1>6, <1>7 DEF N

(* A run leads the fold where it leads a reader.                            *)
LEMMA RunFolds ==
  ASSUME NEW w \in Seq(Buffer), NEW s, NEW t, Run(s, w, t)
  PROVE  FoldLeft(AfterMarker, s.open, w) = t.open
<1> DEFINE n == Len(w)
<1>1. n \in Nat /\ \A i \in 1..n : w[i] \in Buffer
  OBVIOUS
<1>2. PICK at \in [0..n -> Place] :
        at[0] = s /\ at[n] = t /\ \A i \in 1..n : Goes(at[i - 1], w[i], at[i])
  BY DEF Run, Leads, Steps
<1> HIDE DEF n
<1>3. s.open \in Seq(Block)
  BY <1>1, <1>2 DEF Place
<1>4. PICK f : /\ f[{}] = s.open
               /\ \A r \in SUBSET (1..n) : r # {} =>
                     f[r] = AfterMarker(f[r \ {Max(r)}], w[Max(r)])
               /\ FoldLeft(AfterMarker, s.open, w) = f[1..n]
  BY <1>3, FoldFacts DEF n
<1>5. ASSUME NEW i \in 1..n
      PROVE  AfterMarker(at[i - 1].open, w[i]) = at[i].open
  <2> DEFINE a == at[i - 1]
             b == w[i]
             c == at[i]
  <2>1. a \in Place /\ c \in Place /\ Goes(a, b, c)
    BY <1>1, <1>2
  <2> HIDE DEF a, b, c
  <2>2. a.open \in Seq(Block) /\ Len(a.open) \in Nat /\ DOMAIN a.open = 1..Len(a.open)
        /\ (a.open # <<>> => Len(a.open) \in 1..Len(a.open))
    BY <2>1, LenProperties, EmptySeq DEF Place
  <2>3. AfterMarker(a.open, b) = c.open
    <3>1. CASE MeetsItem(a, b, c)
      <4>1. ToSet(a.open) = {}
        BY <3>1 DEF MeetsItem, ToSet
      <4>2. Append(<<>>, b.val) = <<b.val>>
        OBVIOUS
      <4> QED
        BY <3>1, <4>1, <4>2 DEF MeetsItem, AfterMarker, At
    <3>2. CASE OpensBlock(a, b, c)
      <4>1. b.val \notin ToSet(a.open)
        BY <2>2, <3>2 DEF OpensBlock, ToSet
      <4> QED
        BY <3>2, <4>1 DEF OpensBlock, AfterMarker, At
    <3>3. CASE ClosesBlock(a, b, c)
      <4>1. b.val \in ToSet(a.open)
        BY <2>2, <3>3 DEF ClosesBlock, ToSet
      <4> QED
        BY <3>3, <4>1 DEF ClosesBlock, AfterMarker, At, Front
    <3>4. CASE PassesOn(a, b, c)
      BY <3>4 DEF PassesOn, AfterMarker
    <3> QED
      BY <2>1, <3>1, <3>2, <3>3, <3>4 DEF Goes
  <2> QED
    BY <2>3 DEF a, b, c
<1> DEFINE T == {k \in Nat : k <= n => f[1..k] = at[k].open}
<1>6. 0 \in T
  <2>1. 1..0 = {}
    OBVIOUS
  <2> QED
    BY <1>2, <1>4, <2>1
<1>7. ASSUME NEW k \in Nat, k \in T PROVE k + 1 \in T
  <2> SUFFICES ASSUME k + 1 <= n PROVE f[1..(k + 1)] = at[k + 1].open
    OBVIOUS
  <2> DEFINE r == 1..(k + 1)
  <2>1. r \in SUBSET (1..n) /\ r # {} /\ k + 1 \in 1..n
    <3>1. k + 1 \in r /\ k + 1 \in 1..n
      BY <1>1
    <3>2. ASSUME NEW x \in r PROVE x \in 1..n
      BY <1>1
    <3> QED
      BY <3>1, <3>2
  <2>2. Max(r) = k + 1
    <3>1. Max(r) \in r /\ \A x \in r : x <= Max(r)
      BY <1>1, <2>1, MaxFacts
    <3> QED
      BY <3>1
  <2>3. r \ {k + 1} = 1..k
    OBVIOUS
  <2>4. f[r] = AfterMarker(f[1..k], w[k + 1])
    <3> HIDE DEF r
    <3>1. f[r] = AfterMarker(f[r \ {Max(r)}], w[Max(r)])
      BY <1>4, <2>1
    <3> QED
      BY <2>2, <2>3, <3>1
  <2>5. f[1..k] = at[(k + 1) - 1].open
    <3>1. k <= n /\ (k + 1) - 1 = k
      BY <1>1
    <3> QED
      BY <1>7, <3>1
  <2> QED
    BY <1>5, <2>1, <2>4, <2>5
<1>8. Nat \subseteq T
  <2> HIDE DEF T
  <2> QED
    BY <1>6, <1>7, NatSetInduction
<1>9. f[1..n] = at[n].open
  BY <1>1, <1>8
<1> QED
  BY <1>2, <1>4, <1>9

-----------------------------------------------------------------------------
(* The two halves in step: what is on its way takes the receiver from where *)
(* it is to where the sender is.                                            *)

LEMMA SamePlaces ==
  /\ RP!Place = Place /\ SP!Place = Place
  /\ \A s, b, t : RP!Goes(s, b, t) <=> Goes(s, b, t)
  /\ \A s, b, t : SP!Goes(s, b, t) <=> Goes(s, b, t)
BY DEF RP!Place, SP!Place, Place, RP!Goes, SP!Goes, Goes, RP!MeetsItem, SP!MeetsItem,
       MeetsItem, RP!OpensBlock, SP!OpensBlock, OpensBlock, RP!ClosesBlock,
       SP!ClosesBlock, ClosesBlock, RP!PassesOn, SP!PassesOn, PassesOn, RP!At, SP!At, At,
       RP!NextIs, SP!NextIs, NextIs

(* An error and a cut are the last things that a sender says.               *)
LastWords ==
    \A i \in 1..Len(wire) :
        /\ wire[i].kind \in {"error", "eof"} => spc = "failed"
        /\ wire[i].kind = "eof" => WriterDies

OnItsWay == ~Over /\ ~RP!AtEof => Run(RP!AtRead, wire, SP!AtSent)

Handed ==
    rpc = "delivered" =>
        /\ IsPrefix(object, Body[Root])
        /\ object = Body[Root] \/ (WriterDies /\ spc = "failed")

StreamInv ==
    /\ HalvesInv
    /\ SP!RootBound
    /\ RP!Reading
    /\ OnItsWay
    /\ LastWords
    /\ Handed

LEMMA StreamInit == Init => StreamInv
<1> SUFFICES ASSUME Init PROVE StreamInv
  OBVIOUS
<1>1. HalvesInv
  BY HalvesInit
<1>2. /\ walk = <<[node |-> Root, pos |-> 1]>> /\ heldOpen = <<>> /\ wire = <<>>
      /\ rpc = "idle" /\ blocks = <<>> /\ levels = 0
      /\ saving = <<R!Empty(Root)>>
  BY DEF Init, S!Init, R!Init
<1>3. walk[1].pos = 1 /\ saving[1].items = <<>> /\ Len(saving) = 1
  BY <1>2 DEF R!Empty
<1>4. Len(<<>>) = 0 /\ \A i \in 1..0 : FALSE
  OBVIOUS
<1>5. Len(Body[Root]) \in Nat
  BY ObjectsAssumption, LenProperties DEF Node
<1>6. SP!RootBound
  BY <1>3, <1>5 DEF SP!RootBound
<1>7. RP!Reading
  BY <1>2, <1>3, <1>4 DEF RP!Reading, RP!Got
<1>8. OnItsWay
  <2>1. RP!AtRead = At(<<>>, 1) /\ SP!AtSent = At(<<>>, 1)
    BY <1>2, <1>3, <1>4 DEF RP!AtRead, RP!Got, RP!At, SP!AtSent, SP!At, At
  <2>2. At(<<>>, 1) \in Place
    BY DEF At, Place
  <2> QED
    BY <1>2, <2>1, <2>2, RunStart DEF OnItsWay
<1>9. LastWords /\ Handed
  BY <1>2, <1>4 DEF LastWords, Handed
<1> QED
  BY <1>1, <1>6, <1>7, <1>8, <1>9 DEF StreamInv

(* A sender that has failed says nothing more, and no cut is on its way     *)
(* before.                                                                  *)
LEMMA SenderAlive ==
  ASSUME LastWords, wire \in Seq(Buffer), spc # "failed"
  PROVE  ~RP!AtEof /\ \A i \in 1..Len(wire) : wire[i].kind \notin {"error", "eof"}
<1>1. \A i \in 1..Len(wire) : wire[i].kind \notin {"error", "eof"}
  BY DEF LastWords
<1>2. wire # <<>> => Head(wire) = wire[1] /\ 1 \in 1..Len(wire)
  BY EmptySeq
<1> QED
  BY <1>1, <1>2 DEF RP!AtEof

LEMMA BufferSent ==
  ASSUME LastWords, wire \in Seq(Buffer), spc # "failed", NEW b \in Buffer,
         wire' = Append(wire, b), b.kind \in {"error", "eof"} => spc' = "failed",
         b.kind = "eof" => WriterDies
  PROVE  LastWords'
<1>1. /\ Len(wire) \in Nat /\ Len(wire') = Len(wire) + 1 /\ wire'[Len(wire) + 1] = b
      /\ \A i \in 1..Len(wire) : wire'[i] = wire[i]
  BY AppendProperties
<1>2. \A i \in 1..Len(wire) : wire[i].kind \notin {"error", "eof"}
  BY SenderAlive
<1>3. \A i \in 1..(Len(wire) + 1) : i \in 1..Len(wire) \/ i = Len(wire) + 1
  BY <1>1
<1> QED
  BY <1>1, <1>2, <1>3 DEF LastWords

(* A sender that has failed yields what it had in its hand at most.         *)
LEMMA SenderWorks == S!SenderStep => spc # "failed" \/ S!Yield
BY DEF S!SenderStep, S!SendHead, S!ReadChunk, S!EnterBlock, S!Resume, S!ReadFails,
       S!FileVanishes, S!LeaveBlock, S!SendSeparator

LEMMA ReceiverWorks == R!ReceiverStep => ~Over
BY DEF R!ReceiverStep, R!Begin, R!TakeHead, R!TakeChunk, R!TakeStart, R!TakeTooDeep,
       R!SaveOrDrain, R!TakeEnd, R!TakeCrossing, R!CloseDrain, R!CloseContent,
       R!Publish, R!Rename, R!TakeSeparator, R!TakeEof, R!TakeError, R!Arrives,
       R!Exhausted, Over

(* The receiver's place and what it has do not change with the rest.        *)
LEMMA ReadingStands ==
  ASSUME RP!Reading, UNCHANGED <<rpc, blocks, levels, saving>>
  PROVE  RP!Reading' /\ RP!AtRead' = RP!AtRead
BY DEF RP!Reading, RP!Got, RP!AtRead

(* The place of the sender is a place, before a step and after it.          *)
Placed == SP!AtSent \in Place

LEMMA SentPlace == HalvesInv => Placed
BY HalvesAssume, SamePlaces, SP!SentFacts DEF HalvesInv, Placed

LEMMA SentPlaceThen == HalvesInv' => SP!AtSent' \in Place
<1>1. HalvesInv' => Placed'
  BY SentPlace, PTL
<1> QED
  BY <1>1 DEF Placed

LEMMA SendingStream == StreamInv /\ Sending => StreamInv' \/ S!Yield
<1> SUFFICES ASSUME StreamInv, Sending, ~S!Yield PROVE StreamInv'
  OBVIOUS
<1>1. /\ HalvesInv /\ SP!RootBound /\ RP!Reading /\ OnItsWay /\ LastWords
      /\ ~Over /\ S!SenderStep /\ UNCHANGED <<rpc, object>>
      /\ UNCHANGED <<rpc, blocks, levels, saving>>
  BY DEF StreamInv, Sending, receiverVars
<1>2. wire \in Seq(Buffer) /\ spc # "failed"
  BY <1>1, BufferFacts, SenderWorks
<1>3. ~RP!AtEof
  BY <1>1, <1>2, SenderAlive
<1>4. HalvesInv'
  BY <1>1, HalvesNext DEF Next
<1>5. RP!Reading' /\ RP!AtRead' = RP!AtRead
  BY <1>1, ReadingStands
<1>6. Run(RP!AtRead, wire, SP!AtSent)
  BY <1>1, <1>3 DEF OnItsWay
<1>7. SP!RootBound' /\ (SP!Still \/ \E b \in SP!Buffer : SP!Moves(b))
  BY <1>1, HalvesAssume, SameSenderStep, SP!SenderMoves DEF HalvesInv
<1>8. Handed'
  BY <1>1 DEF Handed, Over
<1>9. CASE SP!Still
  <2>1. OnItsWay'
    BY <1>5, <1>6, <1>9 DEF SP!Still, OnItsWay
  <2>2. LastWords'
    BY <1>1, <1>2, <1>9, SenderAlive DEF SP!Still, LastWords
  <2> QED
    BY <1>4, <1>5, <1>7, <1>8, <2>1, <2>2 DEF StreamInv
<1>10. CASE \E b \in SP!Buffer : SP!Moves(b)
  <2>1. PICK b \in Buffer : SP!Moves(b)
    BY <1>10, BufferFacts
  <2>2. /\ wire' = Append(wire, b) /\ Goes(SP!AtSent, b, SP!AtSent')
        /\ b.kind # "eof" /\ (b.kind = "error" => spc' = "failed")
    BY <2>1, SamePlaces DEF SP!Moves, SP!Send
  <2>3. SP!AtSent' \in Place
    BY <1>4, SentPlaceThen
  <2>4. Run(RP!AtRead, wire', SP!AtSent')
    BY <1>2, <1>6, <2>2, <2>3, RunExtends
  <2>5. OnItsWay'
    BY <1>5, <2>4 DEF OnItsWay
  <2>6. LastWords'
    BY <1>1, <1>2, <2>2, BufferSent
  <2> QED
    BY <1>4, <1>5, <1>7, <1>8, <2>5, <2>6 DEF StreamInv
<1> QED
  BY <1>7, <1>9, <1>10

LEMMA CutStream == StreamInv /\ Cut => StreamInv'
<1> SUFFICES ASSUME StreamInv, Cut PROVE StreamInv'
  OBVIOUS
<1>1. /\ HalvesInv /\ SP!RootBound /\ RP!Reading /\ OnItsWay /\ LastWords
      /\ WriterDies /\ spc # "failed" /\ spc' = "failed" /\ wire' = Append(wire, Eof)
      /\ UNCHANGED <<walk, heldOpen>> /\ UNCHANGED <<rpc, object>>
      /\ UNCHANGED <<rpc, blocks, levels, saving>>
  BY BufferFacts DEF StreamInv, Cut, S!Send, receiverVars
<1>2. wire \in Seq(Buffer) /\ Eof \in Buffer /\ Eof.kind = "eof"
  BY <1>1, BufferFacts DEF Eof
<1>3. HalvesInv'
  BY <1>1, HalvesNext DEF Next
<1>4. RP!Reading' /\ RP!AtRead' = RP!AtRead
  BY <1>1, ReadingStands
<1>5. SP!RootBound' /\ SP!AtSent' = SP!AtSent
  BY <1>1 DEF SP!RootBound, SP!AtSent
<1>6. Handed'
  BY <1>1 DEF StreamInv, Handed
<1>7. OnItsWay'
  <2> SUFFICES ASSUME ~Over PROVE Run(RP!AtRead, wire', SP!AtSent)
    BY <1>1, <1>4, <1>5 DEF OnItsWay, Over
  <2>1. Run(RP!AtRead, wire, SP!AtSent)
    BY <1>1, <1>2, SenderAlive DEF OnItsWay
  <2>2. Goes(SP!AtSent, Eof, SP!AtSent)
    BY <1>2 DEF Goes, PassesOn
  <2>3. SP!AtSent \in Place
    BY <1>2, <2>1, RunOver
  <2> QED
    BY <1>1, <1>2, <2>1, <2>2, <2>3, RunExtends
<1>8. LastWords'
  BY <1>1, <1>2, BufferSent
<1> QED
  BY <1>3, <1>4, <1>5, <1>6, <1>7, <1>8 DEF StreamInv

LEMMA ReceivingStream == StreamInv /\ Receiving => StreamInv'
<1> SUFFICES ASSUME StreamInv, Receiving PROVE StreamInv'
  OBVIOUS
<1>1. /\ HalvesInv /\ SP!RootBound /\ RP!Reading /\ OnItsWay /\ LastWords /\ Handed
      /\ R!ReceiverStep /\ UNCHANGED <<spc, walk, heldOpen>>
  BY DEF StreamInv, Receiving, senderVars
<1>2. wire \in Seq(Buffer) /\ ~Over
  BY <1>1, BufferFacts, ReceiverWorks
<1>3. HalvesInv'
  BY <1>1, HalvesNext DEF Next
<1>4. SP!RootBound' /\ SP!AtSent' = SP!AtSent
  BY <1>1 DEF SP!RootBound, SP!AtSent
<1>5. ~RP!AtEof => Run(RP!AtRead, wire, SP!AtSent)
  BY <1>1, <1>2 DEF OnItsWay
<1>6. wire # <<>> /\ ~RP!AtEof =>
         \E u \in Place : /\ Goes(RP!AtRead, Head(wire), u)
                          /\ Run(u, Tail(wire), SP!AtSent)
  BY <1>2, <1>5, RunTakes
<1>7. wire # <<>> /\ ~RP!AtEof => \E u : RP!Goes(RP!AtRead, Head(wire), u)
  BY <1>6, SamePlaces
<1>8. /\ RP!Reading'
      /\ RP!Pauses \/ RP!Reads \/ RP!Ended' \/ (RP!AtEof /\ wire' = wire)
      /\ rpc' = "delivered" =>
            RP!IsPrefix(object', Body[Root]) /\ (RP!AtEof \/ object' = Body[Root])
  BY <1>1, <1>7, HalvesAssume, SameReceiverStep, RP!ReceiverMoves DEF HalvesInv
<1>9. Handed'
  <2>1. RP!AtEof => WriterDies /\ spc = "failed"
    <3> SUFFICES ASSUME RP!AtEof PROVE WriterDies /\ spc = "failed"
      OBVIOUS
    <3>1. Head(wire) = wire[1] /\ 1 \in 1..Len(wire)
      BY <1>2, EmptySeq DEF RP!AtEof
    <3> QED
      BY <1>1, <3>1 DEF LastWords, RP!AtEof
  <2> QED
    BY <1>1, <1>8, <2>1 DEF Handed, RP!IsPrefix, IsPrefix
<1>10. LastWords'
  <2>1. wire' = wire \/ (wire # <<>> /\ wire' = Tail(wire))
    BY <1>1, ReceiverTakes
  <2>2. CASE wire' = wire
    BY <1>1, <2>2 DEF LastWords
  <2>3. CASE wire # <<>> /\ wire' = Tail(wire)
    <3>1. /\ Len(wire') = Len(wire) - 1 /\ Len(wire) \in Nat
          /\ \A i \in 1..(Len(wire) - 1) : wire'[i] = wire[i + 1]
      BY <1>2, <2>3, HeadTailProperties
    <3>2. \A i \in 1..(Len(wire) - 1) : i + 1 \in 1..Len(wire)
      BY <3>1
    <3> QED
      BY <1>1, <3>1, <3>2 DEF LastWords
  <2> QED
    BY <2>1, <2>2, <2>3
<1>11. OnItsWay'
  <2> SUFFICES ASSUME ~Over', ~RP!AtEof'
               PROVE  Run(RP!AtRead', wire', SP!AtSent)
    BY <1>4 DEF OnItsWay
  <2>1. ~RP!Ended'
    BY DEF Over, RP!Ended
  <2>2. CASE RP!AtEof /\ wire' = wire
    BY <2>2 DEF RP!AtEof
  <2>3. CASE RP!Pauses
    <3>1. ~RP!AtEof /\ wire' = wire /\ RP!AtRead' = RP!AtRead
      BY <2>3 DEF RP!Pauses, RP!AtEof
    <3> QED
      BY <1>5, <3>1
  <2>4. CASE RP!Reads
    <3>1. wire # <<>> /\ ~RP!AtEof /\ wire' = Tail(wire)
      BY <2>4 DEF RP!Reads, RP!AtEof
    <3>2. PICK u \in Place : /\ Goes(RP!AtRead, Head(wire), u)
                             /\ Run(u, Tail(wire), SP!AtSent)
      BY <1>6, <3>1
    <3>3. RP!AtRead' = u
      BY <2>4, <3>2, SamePlaces DEF RP!Reads
    <3> QED
      BY <3>1, <3>2, <3>3
  <2> QED
    BY <1>8, <2>1, <2>2, <2>3, <2>4
<1> QED
  BY <1>3, <1>4, <1>8, <1>9, <1>10, <1>11 DEF StreamInv

LEMMA StreamNext == StreamInv /\ [Next]_vars => StreamInv'
<1> SUFFICES ASSUME StreamInv, [Next]_vars PROVE StreamInv'
  OBVIOUS
<1>1. CASE \/ RequestArrives \/ OtherStreams \/ CleanUps \/ UNCHANGED vars
           \/ Sending /\ S!Yield
  <2>1. UNCHANGED <<spc, walk, heldOpen, rpc, blocks, levels, saving, object, wire>>
    BY <1>1 DEF RequestArrives, OtherStreams, CleanUps, Sending, vars, senderVars,
                receiverVars, S!Observe, S!sentVars, S!Yield, R!OtherStores, R!CleanUp,
                R!parserVars
  <2>2. HalvesInv'
    BY HalvesNext DEF StreamInv
  <2>3. SP!RootBound' /\ SP!AtSent' = SP!AtSent
    BY <2>1 DEF StreamInv, SP!RootBound, SP!AtSent
  <2>4. RP!Reading' /\ RP!AtRead' = RP!AtRead
    BY <2>1, ReadingStands DEF StreamInv
  <2>5. OnItsWay' /\ LastWords' /\ Handed'
    BY <2>1, <2>3, <2>4 DEF StreamInv, OnItsWay, LastWords, Handed, Over, RP!AtEof
  <2> QED
    BY <2>2, <2>3, <2>4, <2>5 DEF StreamInv
<1> QED
  BY <1>1, SendingStream, CutStream, ReceivingStream DEF Next, Finished

(* Where every stream ends with a separator or an error, the object that a  *)
(* transfer hands to its caller is the one that was sent, whatever the peer *)
(* asked to skip, when its requests came, and whatever other streams stored *)
(* and a clean-up removed meanwhile.                                        *)
THEOREM DeliversTheObject == ~WriterDies => (Spec => []DeliveredExact)
<1> SUFFICES ASSUME ~WriterDies PROVE Spec => []DeliveredExact
  OBVIOUS
<1>1. Spec => []StreamInv
  BY StreamInit, StreamNext, PTL DEF Spec
<1>2. StreamInv => DeliveredExact
  BY DEF StreamInv, Handed, DeliveredExact
<1> QED
  BY <1>1, <1>2, PTL

(* And where a stream may be cut without an error, it is a first part of    *)
(* the object, and all of it if the sender finished.                        *)
THEOREM DeliversAPrefix == Spec => []DeliveredPrefix
<1>1. Spec => []StreamInv
  BY StreamInit, StreamNext, PTL DEF Spec
<1>2. StreamInv => DeliveredPrefix
  BY DEF StreamInv, Handed, DeliveredPrefix
<1> QED
  BY <1>1, <1>2, PTL

(* The markers on their way always take the parser from what it has open to *)
(* what the sender believes it to have open.                                *)
THEOREM NeverOutOfStep == ~WriterDies => (Spec => []InStep)
<1> SUFFICES ASSUME ~WriterDies PROVE Spec => []InStep
  OBVIOUS
<1>1. Spec => []StreamInv
  BY StreamInit, StreamNext, PTL DEF Spec
<1>2. StreamInv => InStep
  <2> SUFFICES ASSUME StreamInv, ~Over
               PROVE  FoldLeft(AfterMarker, blocks, wire) = heldOpen
    BY DEF InStep
  <2>1. wire \in Seq(Buffer) /\ LastWords /\ OnItsWay
    BY BufferFacts DEF StreamInv
  <2>2. ~RP!AtEof
    <3> SUFFICES ASSUME RP!AtEof PROVE FALSE
      OBVIOUS
    <3>1. Head(wire) = wire[1] /\ 1 \in 1..Len(wire)
      BY <2>1, EmptySeq DEF RP!AtEof
    <3> QED
      BY <2>1, <3>1 DEF LastWords, RP!AtEof
  <2>3. Run(RP!AtRead, wire, SP!AtSent)
    BY <2>1, <2>2 DEF OnItsWay
  <2>4. RP!AtRead.open = blocks /\ SP!AtSent.open = heldOpen
    BY DEF RP!AtRead, RP!At, SP!AtSent, SP!At
  <2> QED
    BY <2>1, <2>3, <2>4, RunFolds
<1> QED
  BY <1>1, <1>2, PTL

-----------------------------------------------------------------------------
(* What a transfer may fail for.                                            *)

(* A rename meets nothing that was not stored after the last look.          *)
RenamesUnmet == rpc = "rename" => others > 0 \/ ~R!Exists(Last(saving).id)

Costs ==
    /\ cause # "intersection"
    /\ cause = "nesting" => BlockDepth > MaxNesting
    /\ cause = "rename" => others > 0
    /\ cause = "peer" => spc = "failed"

CostInv == StreamInv /\ RenamesUnmet /\ Costs /\ others \in Nat

LEMMA CostInit == Init => CostInv
BY StreamInit, ObjectsAssumption, HalvesAssumption
DEF R!ReceiverAssumption, Init, R!Init, CostInv, RenamesUnmet, Costs

LEMMA ReceivingCosts == CostInv /\ Receiving => (RenamesUnmet /\ Costs)'
<1> SUFFICES ASSUME CostInv, Receiving PROVE (RenamesUnmet /\ Costs)'
  OBVIOUS
<1>1. /\ HalvesInv /\ RP!Reading /\ OnItsWay /\ LastWords /\ RenamesUnmet /\ Costs
      /\ R!ReceiverStep /\ spc' = spc /\ others' = others
  BY DEF CostInv, StreamInv, Receiving, senderVars, counters
<1>2. wire \in Seq(Buffer) /\ ~Over
  BY <1>1, BufferFacts, ReceiverWorks
<1>3. wire # <<>> /\ ~RP!AtEof => \E u : RP!Goes(RP!AtRead, Head(wire), u)
  <2> SUFFICES ASSUME wire # <<>>, ~RP!AtEof
               PROVE  \E u : RP!Goes(RP!AtRead, Head(wire), u)
    OBVIOUS
  <2>1. Run(RP!AtRead, wire, SP!AtSent)
    BY <1>1, <1>2 DEF OnItsWay
  <2> QED
    BY <1>2, <2>1, RunTakes, SamePlaces
<1>4. /\ \/ cause' = cause
         \/ cause' \in {"reread", "mismatch", "wbp"}
         \/ cause' = "peer" /\ wire # <<>> /\ Head(wire).kind = "error"
         \/ cause' = "nesting" /\ BlockDepth > MaxNesting
         \/ cause' = "rename" /\ rpc = "rename" /\ RP!Exists(RP!Last(saving).id)
      /\ rpc' = "rename" => ~RP!Exists(RP!Last(saving).id)'
  BY <1>1, <1>3, HalvesAssume, SameReceiverStep, RP!FailsFor DEF HalvesInv
<1>5. wire # <<>> /\ Head(wire).kind = "error" => spc = "failed"
  <2> SUFFICES ASSUME wire # <<>>, Head(wire).kind = "error" PROVE spc = "failed"
    OBVIOUS
  <2>1. Head(wire) = wire[1] /\ 1 \in 1..Len(wire)
    BY <1>2, EmptySeq
  <2> QED
    BY <1>1, <2>1 DEF LastWords
<1>6. RenamesUnmet'
  BY <1>4 DEF RenamesUnmet, R!Exists, RP!Exists, RP!Last, Last
<1>7. Costs'
  BY <1>1, <1>4, <1>5
  DEF Costs, RenamesUnmet, R!Exists, RP!Exists, RP!Last, Last
<1> QED
  BY <1>6, <1>7

LEMMA CostNext == CostInv /\ [Next]_vars => CostInv'
<1> SUFFICES ASSUME CostInv, [Next]_vars PROVE CostInv'
  OBVIOUS
<1>1. StreamInv'
  BY StreamNext DEF CostInv
<1>2. CASE Receiving
  BY <1>1, <1>2, ReceivingCosts DEF CostInv, Receiving, counters
<1>3. CASE Sending \/ Cut \/ RequestArrives \/ UNCHANGED vars
  <2>1. UNCHANGED <<rpc, cause, saving, store, others>>
    BY <1>3 DEF Sending, Cut, RequestArrives, vars, receiverVars, counters
  <2>2. spc = "failed" => spc' = "failed"
    BY <1>3, SenderWorks
    DEF Sending, Cut, RequestArrives, vars, senderVars, S!Observe, S!filterVars, S!Yield
  <2> QED
    BY <1>1, <2>1, <2>2 DEF CostInv, RenamesUnmet, Costs, R!Exists
<1>4. CASE OtherStreams
  <2>1. UNCHANGED <<rpc, cause, saving, spc>> /\ others' = others + 1
    BY <1>4 DEF OtherStreams, R!OtherStores, senderVars
  <2>2. others' \in Nat /\ others' > 0
    BY <2>1 DEF CostInv
  <2> QED
    BY <1>1, <2>1, <2>2 DEF CostInv, RenamesUnmet, Costs
<1>5. CASE CleanUps
  <2>1. PICK b \in Block : R!CleanUp(b)
    BY <1>5 DEF CleanUps
  <2>2. /\ UNCHANGED <<rpc, cause, saving, spc, others>>
        /\ store' = [store EXCEPT ![b] = None]
    BY <1>5, <2>1 DEF CleanUps, R!CleanUp, senderVars
  <2>3. \A c : ~R!Exists(c) => ~(R!Exists(c)')
    <3>1. DOMAIN store = Block
      BY DEF CostInv, StreamInv, HalvesInv, RP!ReceiverInv, RP!TypeOK
    <3> QED
      BY <2>2, <3>1 DEF R!Exists
  <2> QED
    BY <1>1, <2>2, <2>3 DEF CostInv, RenamesUnmet, Costs, R!Exists
<1> QED
  BY <1>2, <1>3, <1>4, <1>5 DEF Next, Finished

(* Where the sender frames no deeper than the receiver takes, its markers   *)
(* never cost a transfer, whatever was skipped: the receiver never meets an *)
(* intersection or too deep a block, a rename is met only by a block that   *)
(* another stream has stored, and the peer is only heard to have failed     *)
(* when it has.                                                             *)
THEOREM RacesAreHarmless ==
    BlockDepth <= MaxNesting => (Spec => []RacesCostNothing)
<1> SUFFICES ASSUME BlockDepth <= MaxNesting PROVE Spec => []RacesCostNothing
  OBVIOUS
<1>1. Spec => []CostInv
  BY CostInit, CostNext, PTL DEF Spec
<1>2. ~(BlockDepth > MaxNesting)
  BY ObjectsAssumption, HalvesAssumption DEF R!ReceiverAssumption
<1>3. CostInv => RacesCostNothing
  BY <1>2 DEF CostInv, Costs, RacesCostNothing
<1> QED
  BY <1>1, <1>3, PTL

-----------------------------------------------------------------------------
(* Bytes and blocks are missed only after a removal: what the receiver has  *)
(* of each block is what it was told, what is on its way tells it the rest, *)
(* and the sender has told all but what was asked to be skipped, which is   *)
(* stored here.                                                             *)

LEMMA SameHeard ==
  /\ RP!Hearing = Hearing /\ SP!Hearing = Hearing
  /\ \A A, s, b, t : RP!Hears(A, s, b, t) <=> Hears(A, s, b, t)
  /\ \A A, s, b, t : SP!Hears(A, s, b, t) <=> Hears(A, s, b, t)
<1>1. RP!Expand = Expand /\ SP!Expand = Expand
  BY DEF RP!Expand, SP!Expand, Expand, RP!FlattenSeq, SP!FlattenSeq, FlattenSeq,
         RP!Node, SP!Node, Node
<1> QED
  BY <1>1
  DEF RP!Hearing, SP!Hearing, Hearing, RP!Hears, SP!Hears, Hears, RP!PieceHeard,
      SP!PieceHeard, PieceHeard, RP!StartHeard, SP!StartHeard, StartHeard,
      RP!EndHeard, SP!EndHeard, EndHeard, RP!OtherHeard, SP!OtherHeard, OtherHeard

LEMMA ContentHolds == SP!ContentLaws
<1>1. /\ RP!Expand = SP!Expand /\ RP!Node = SP!Node /\ RP!Item = SP!Item
      /\ \A items : RP!BytesOf(items) = SP!BytesOf(items)
  <2>1. RP!Expand = SP!Expand /\ RP!Node = SP!Node /\ RP!Item = SP!Item
    BY DEF RP!Expand, SP!Expand, RP!FlattenSeq, SP!FlattenSeq, RP!Node, SP!Node,
           RP!Item, SP!Item
  <2> QED
    BY <2>1 DEF RP!BytesOf, SP!BytesOf, RP!FlattenSeq, SP!FlattenSeq
<1>2. RP!Expand \in [RP!Node -> Seq(Chunk)]
      /\ \A n \in RP!Node : RP!Expand[n] = RP!BytesOf(Body[n])
  BY HalvesAssume, RP!ExpandFacts
<1>3. /\ RP!BytesOf(<<>>) = <<>>
      /\ \A items \in Seq(RP!Item) :
         /\ RP!BytesOf(items) \in Seq(Chunk)
         /\ \A c \in Chunk : RP!BytesOf(Append(items, c)) = Append(RP!BytesOf(items), c)
         /\ \A b \in Block : RP!BytesOf(Append(items, b)) = RP!BytesOf(items) \o RP!Expand[b]
  BY HalvesAssume, RP!BytesOfFacts
<1> QED
  BY <1>1, <1>2, <1>3 DEF SP!ContentLaws

(* The Buffers on their way take a listener from what the receiver has to   *)
(* what the sender has told.                                                *)
Heard(A) == {g \in Hearing \X Buffer \X Hearing : Hears(A, g[1], g[2], g[3])}
Understood ==
    \E A, s, t : /\ A = asked
                 /\ RP!Listens(s)
                 /\ SP!Speaks(A, t)
                 /\ Leads(Heard(A), Hearing, s, wire, t)

(* What the sender was asked to skip, or will have been, was asked for.     *)
Requested == skip \cup ToSet(upstream) \subseteq asked

Listening ==
    /\ RP!Attends
    /\ SP!WalkReads
    /\ SP!DropsOnlyWhatWasAsked
    /\ Requested
    /\ Understood

ReasonInv ==
    /\ StreamInv
    /\ removals \in Nat
    /\ removals = 0 /\ ~Over => Listening
    /\ FailsForAReason

LEMMA HeardMore ==
  ASSUME NEW A, NEW B, A \subseteq B PROVE Heard(A) \subseteq Heard(B)
<1>1. \A g : Hears(A, g[1], g[2], g[3]) => Hears(B, g[1], g[2], g[3])
  BY DEF Hears, EndHeard
<1> QED
  BY <1>1 DEF Heard

LEMMA ReasonInit == Init => ReasonInv
<1> SUFFICES ASSUME Init PROVE ReasonInv
  OBVIOUS
<1>1. StreamInv
  BY StreamInit
<1>2. RP!Init /\ SP!Init
  BY SameInit DEF Init
<1>3. PICK A : A = asked
  OBVIOUS
<1>4. SP!WalkReads /\ SP!Speaks(A, SP!NothingHeard)
  BY <1>2, HalvesAssume, SP!TellsInit
<1>5. SP!DropsOnlyWhatWasAsked /\ Requested /\ wire = <<>> /\ removals = 0 /\ cause = None
  <2>1. skippingAt = 0 /\ skip = {} /\ upstream = <<>> /\ asked = {} /\ wire = <<>>
        /\ removals = 0 /\ cause = None
    BY DEF Init, S!Init, R!Init
  <2>2. ToSet(<<>>) = {}
    <3>1. DOMAIN <<>> = {}
      OBVIOUS
    <3> QED
      BY <3>1 DEF ToSet
  <2> QED
    BY <2>1, <2>2 DEF SP!DropsOnlyWhatWasAsked, Requested
<1>6. RP!HeldInv
  BY <1>2, HalvesAssume, RP!HeldAtInit
<1>7. RP!Depth /\ RP!Settled /\ RP!Whole /\ RP!Listens([open |-> <<>>, fed |-> <<>>])
  BY <1>2, HalvesAssume, RP!ListensInit
<1>8. RP!Attends
  BY <1>1, <1>6, <1>7 DEF RP!Attends, RP!HeldInv, StreamInv, RP!Reading
<1>9. Understood
  <2> DEFINE h == [open |-> <<>>, fed |-> <<>>]
  <2>1. h \in Hearing /\ SP!NothingHeard = h
    BY HalvesAssume, SameHeard, SP!NothingIsHeard DEF SP!NothingHeard
  <2> HIDE DEF h
  <2>2. Leads(Heard(A), Hearing, h, <<>>, h)
    BY <2>1, LeadsStart
  <2>3. RP!Listens(h)
    BY <1>7 DEF h
  <2> QED
    BY <1>3, <1>4, <1>5, <2>1, <2>2, <2>3 DEF Understood
<1>10. FailsForAReason
  BY <1>5, HalvesAssumption DEF FailsForAReason, R!ReceiverAssumption
<1> QED
  BY <1>1, <1>4, <1>5, <1>8, <1>9, <1>10 DEF ReasonInv, Listening

(* Whatever the sender does is told to whom listens to all of it.           *)
LEMMA ListeningSent ==
  ASSUME StreamInv, Listening, MayVanish = {}, Sending
  PROVE  Listening'
<1>1. /\ HalvesInv /\ SP!WalkReads /\ SP!DropsOnlyWhatWasAsked /\ SP!SenderStep
      /\ skip \subseteq asked /\ ToSet(upstream) \subseteq asked /\ wire \in Seq(Buffer)
      /\ UNCHANGED <<rpc, cause, blocks, levels, saving, draining, object, asked, store>>
      /\ UNCHANGED <<upstream, skip>>
  <2>1. skip' = skip
    BY DEF Sending, S!SenderStep, S!SendHead, S!ReadChunk, S!EnterBlock, S!Resume,
           S!ReadFails, S!FileVanishes, S!LeaveBlock, S!SendSeparator, S!Yield
  <2> QED
    BY <2>1, SameSenderStep, BufferFacts
    DEF StreamInv, Listening, Sending, Requested, receiverVars, counters
<1>2. SP!FramingInv /\ HalvesInv'
  BY <1>1, HalvesNext DEF HalvesInv, Next
<1>3. SP!DropsOnlyWhatWasAsked'
  BY <1>1, <1>2, HalvesAssume, SP!DropsNext DEF SP!Next
<1>4. PICK A, s, t : /\ A = asked
                     /\ RP!Listens(s)
                     /\ SP!Speaks(A, t)
                     /\ Leads(Heard(A), Hearing, s, wire, t)
  BY DEF Listening, Understood
<1>6. SP!WalkReads' /\ SP!Told(A, t)
  BY <1>1, <1>2, <1>4, HalvesAssume, ContentHolds, SP!SenderTells
<1>7. RP!Attends'
  <2>1. RP!ReceiverInv'
    BY <1>2 DEF HalvesInv
  <2> QED
    BY <1>1, <2>1
    DEF Listening, RP!Attends, RP!StoreHeld, RP!FilesHeld, RP!Depth, RP!OpenAt,
        RP!Settled, RP!Whole, RP!Exists
<1>8. RP!Listens(s)'
  BY <1>1, <1>4 DEF RP!Listens, RP!Come
<1>9. Understood'
  <2>1. CASE /\ wire' = wire
             /\ SP!Tells(heldOpen', Len(stack'), SP!Given(walk'), A, t)
    <3>1. SP!Speaks(A, t)'
      BY <2>1 DEF SP!Speaks
    <3> QED
      BY <1>1, <1>4, <1>8, <2>1, <3>1 DEF Understood
  <2>2. CASE \E b \in SP!Buffer, u \in SP!Hearing :
                /\ SP!Send(b)
                /\ SP!Hears(A, t, b, u)
                /\ SP!Tells(heldOpen', Len(stack'), SP!Given(walk'), A, u)
    <3>1. PICK b \in Buffer, u \in Hearing :
                /\ wire' = Append(wire, b)
                /\ Hears(A, t, b, u)
                /\ SP!Tells(heldOpen', Len(stack'), SP!Given(walk'), A, u)
      BY <2>2, SameHeard, BufferFacts DEF SP!Send
    <3>2. t \in Hearing
      BY <1>1, <1>4, LeadsOver
    <3>3. <<t, b, u>> \in Heard(A)
      BY <3>1, <3>2 DEF Heard
    <3>4. Leads(Heard(A), Hearing, s, wire', u)
      BY <1>1, <1>4, <3>1, <3>3, LeadsExtends
    <3>5. SP!Speaks(A, u)'
      BY <3>1 DEF SP!Speaks
    <3> QED
      BY <1>1, <1>4, <1>8, <3>4, <3>5 DEF Understood
  <2> QED
    BY <1>6, <2>1, <2>2 DEF SP!Told
<1>10. Requested'
  BY <1>1 DEF Requested
<1> QED
  BY <1>3, <1>6, <1>7, <1>9, <1>10 DEF Listening

(* What the head of the stream is, where no stream is cut.                  *)
LEMMA HeadGoes ==
  ASSUME StreamInv, ~Over, ~WriterDies, wire # <<>>
  PROVE  /\ Head(wire).kind # "eof"
         /\ Head(wire).kind = "separator" => blocks = <<>>
<1>1. wire \in Seq(Buffer) /\ LastWords /\ OnItsWay
  BY BufferFacts DEF StreamInv
<1>2. Head(wire) = wire[1] /\ 1 \in 1..Len(wire)
  BY <1>1, EmptySeq
<1>3. Head(wire).kind # "eof"
  BY <1>1, <1>2 DEF LastWords
<1>4. Run(RP!AtRead, wire, SP!AtSent)
  BY <1>1, <1>3 DEF OnItsWay, RP!AtEof
<1>5. PICK u : Goes(RP!AtRead, Head(wire), u)
  BY <1>1, <1>4, RunTakes
<1>6. RP!AtRead.open = blocks
  BY DEF RP!AtRead, RP!At
<1> QED
  BY <1>3, <1>5, <1>6 DEF Goes, MeetsItem, OpensBlock, ClosesBlock, PassesOn

LEMMA StillAsked ==
  ASSUME R!ReceiverStep
  PROVE  \/ UNCHANGED <<asked, upstream>>
         \/ \E b : asked' = asked \cup {b} /\ upstream' = Append(upstream, b)
<1> USE DEF R!requestVars
<1>1. CASE R!TakeStart
  BY <1>1 DEF R!TakeStart, R!Request
<1>2. CASE ~R!TakeStart
  BY <1>2
  DEF R!ReceiverStep, R!Begin, R!TakeHead, R!TakeChunk, R!TakeTooDeep, R!SaveOrDrain,
      R!TakeEnd, R!TakeCrossing, R!CloseDrain, R!CloseContent, R!Publish, R!Rename,
      R!TakeSeparator, R!TakeEof, R!TakeError
<1> QED
  BY <1>1, <1>2

(* What the receiver takes tells it what it misses nothing of; what it asks *)
(* for now is among what it asked for when that comes to be skipped.        *)
LEMMA ListeningTakes ==
  ASSUME StreamInv, Listening, ~WriterDies, Receiving
  PROVE  /\ cause' = cause \/ cause' \notin {"mismatch", "reread", "wbp"}
         /\ ~Over' => Listening'
<1>1. /\ HalvesInv /\ R!ReceiverStep /\ RP!ReceiverStep /\ ~Over
      /\ RP!Attends /\ wire \in Seq(Buffer) /\ upstream \in Seq(Block)
      /\ UNCHANGED <<walk, stack, heldOpen, skippingAt, skip>>
  BY SameReceiverStep, ReceiverWorks, BufferFacts
  DEF StreamInv, Listening, Receiving, senderVars
<1>2. PICK A, s, t : /\ A = asked
                     /\ RP!Listens(s)
                     /\ SP!Speaks(A, t)
                     /\ Leads(Heard(A), Hearing, s, wire, t)
  BY DEF Listening, Understood
<1>3. wire # <<>> => \E u \in Hearing : /\ Hears(A, s, Head(wire), u)
                                        /\ Leads(Heard(A), Hearing, u, Tail(wire), t)
  <2> SUFFICES ASSUME wire # <<>>
               PROVE  \E u \in Hearing : /\ Hears(A, s, Head(wire), u)
                                         /\ Leads(Heard(A), Hearing, u, Tail(wire), t)
    OBVIOUS
  <2>1. PICK u \in Hearing : /\ <<s, Head(wire), u>> \in Heard(A)
                             /\ Leads(Heard(A), Hearing, u, Tail(wire), t)
    BY <1>1, <1>2, LeadsTakes
  <2> QED
    BY <2>1 DEF Heard
<1>4. /\ cause' = cause \/ cause' \notin {"mismatch", "reread", "wbp"}
      /\ \/ RP!Ended'
         \/ /\ RP!Depth' /\ RP!Settled' /\ RP!Whole'
            /\ (wire' = wire /\ RP!Listens(s)') \/ RP!Takes(s)
  <2>1. wire # <<>> => /\ Head(wire).kind # "eof"
                       /\ Head(wire).kind = "separator" => blocks = <<>>
                       /\ \E u : RP!Hears(asked, s, Head(wire), u)
    BY <1>1, <1>2, <1>3, HeadGoes, SameHeard
  <2> QED
    BY <1>1, <1>2, <2>1, HalvesAssume, RP!ReceiverHears
<1> SUFFICES ASSUME ~Over' PROVE Listening'
  BY <1>4
<1>5. /\ RP!Depth' /\ RP!Settled' /\ RP!Whole'
      /\ (wire' = wire /\ RP!Listens(s)') \/ RP!Takes(s)
  BY <1>4 DEF RP!Ended, Over
<1>6. RP!Attends'
  <2>1. StreamInv'
    BY StreamNext DEF Next
  <2>2. RP!ReceiverInv' /\ levels' = Len(blocks')
    BY <2>1 DEF StreamInv, HalvesInv, RP!Reading
  <2>3. RP!HeldInv
    BY <1>1 DEF RP!HeldInv, RP!Attends, RP!ObjectHeld, Over
  <2>4. RP!StoreHeld' /\ RP!FilesHeld'
    BY <1>1, <2>3, HalvesAssume, RP!ReceiverHolds
  <2> QED
    BY <1>5, <2>2, <2>4 DEF RP!Attends
<1>7. asked \subseteq asked' /\ Requested'
  <2>1. Requested /\ \A b : b \in ToSet(upstream) => b \in asked
    BY DEF Listening, Requested
  <2>2. CASE UNCHANGED <<asked, upstream>>
    BY <1>1, <2>1, <2>2 DEF Requested
  <2>3. CASE \E b : asked' = asked \cup {b} /\ upstream' = Append(upstream, b)
    <3>1. PICK b : asked' = asked \cup {b} /\ upstream' = Append(upstream, b)
      BY <2>3
    <3>2. ToSet(upstream') \subseteq ToSet(upstream) \cup {b}
      BY <1>1, <3>1 DEF ToSet
    <3> QED
      BY <1>1, <2>1, <3>1, <3>2 DEF Requested
  <2> QED
    BY <1>1, <2>2, <2>3, StillAsked
<1>8. PICK B : B = asked'
  OBVIOUS
<1>9. SP!Speaks(B, t)'
  <2>1. SP!Speaks(B, t)
    BY <1>2, <1>7, <1>8, HalvesAssume, SP!SpeaksMore
  <2> QED
    BY <1>1, <2>1 DEF SP!Speaks
<1>10. ASSUME NEW u, NEW w, Leads(Heard(A), Hearing, u, w, t)
       PROVE  Leads(Heard(B), Hearing, u, w, t)
  BY <1>2, <1>7, <1>8, <1>10, HeardMore, LeadsMore
<1>11. Understood'
  <2>1. CASE wire' = wire /\ RP!Listens(s)'
    <3>1. Leads(Heard(B), Hearing, s, wire', t)
      BY <1>2, <1>10, <2>1
    <3> QED
      BY <1>8, <1>9, <2>1, <3>1 DEF Understood
  <2>2. CASE RP!Takes(s)
    <3>1. wire # <<>> /\ wire' = Tail(wire)
      BY <2>2 DEF RP!Takes
    <3>2. PICK u \in Hearing : /\ Hears(A, s, Head(wire), u)
                               /\ Leads(Heard(A), Hearing, u, Tail(wire), t)
      BY <1>3, <3>1
    <3>3. RP!Listens(u)'
      BY <1>2, <2>2, <3>2, SameHeard DEF RP!Takes
    <3>4. Leads(Heard(B), Hearing, u, wire', t)
      BY <1>10, <3>1, <3>2
    <3> QED
      BY <1>8, <1>9, <3>3, <3>4 DEF Understood
  <2> QED
    BY <1>5, <2>1, <2>2
<1>12. SP!WalkReads' /\ SP!DropsOnlyWhatWasAsked'
  BY <1>1 DEF Listening, SP!WalkReads, SP!DropsOnlyWhatWasAsked
<1> QED
  BY <1>6, <1>7, <1>11, <1>12 DEF Listening

LEMMA ListeningStands ==
  ASSUME StreamInv, Listening, ~Over, RequestArrives \/ OtherStreams \/ UNCHANGED vars
  PROVE  Listening'
<1>1. HalvesInv' /\ HalvesInv
  BY HalvesNext DEF StreamInv, Next
<1>2. PICK A, s, t : /\ A = asked
                     /\ RP!Listens(s)
                     /\ SP!Speaks(A, t)
                     /\ Leads(Heard(A), Hearing, s, wire, t)
  BY DEF Listening, Understood
<1>3. UNCHANGED <<rpc, blocks, levels, saving, draining, asked, wire, walk, stack, heldOpen,
                  skippingAt>>
  BY DEF RequestArrives, OtherStreams, vars, senderVars, receiverVars, S!Observe,
         S!filterVars, S!sentVars, R!OtherStores, R!parserVars, R!requestVars
<1>4. SP!WalkReads' /\ SP!Speaks(A, t)'
  BY <1>2, <1>3 DEF Listening, SP!WalkReads, SP!Speaks
<1>5. CASE RequestArrives \/ UNCHANGED vars
  <2>1. store' = store /\ object' = object
    BY <1>5 DEF RequestArrives, vars, receiverVars
  <2>2. RP!Attends'
    BY <1>1, <1>3, <2>1
    DEF HalvesInv, Listening, RP!Attends, RP!StoreHeld, RP!FilesHeld, RP!Depth,
        RP!OpenAt, RP!Settled, RP!Whole, RP!Exists
  <2>3. Understood'
    BY <1>2, <1>3, <1>4 DEF Understood, RP!Listens, RP!Come
  <2>4. skip \subseteq skip' /\ Requested'
    <3>1. CASE RequestArrives
      <4>1. upstream # <<>> /\ upstream \in Seq(Block)
            /\ skip' = skip \cup {Head(upstream)} /\ upstream' = Tail(upstream)
        BY <1>1, <3>1, BufferFacts DEF RequestArrives, S!Observe
      <4>2. Head(upstream) \in ToSet(upstream) /\ ToSet(Tail(upstream)) \subseteq ToSet(upstream)
        BY <4>1 DEF ToSet
      <4> QED
        BY <1>3, <4>1, <4>2 DEF Listening, Requested
    <3>2. CASE UNCHANGED vars
      BY <3>2 DEF vars, receiverVars, Listening, Requested
    <3> QED
      BY <1>5, <3>1, <3>2
  <2>5. SP!DropsOnlyWhatWasAsked'
    BY <1>3, <2>4 DEF Listening, SP!DropsOnlyWhatWasAsked
  <2> QED
    BY <1>4, <2>2, <2>3, <2>4, <2>5 DEF Listening
<1>6. CASE OtherStreams
  <2>1. PICK b \in Block : R!OtherStores(b)
    BY <1>6 DEF OtherStreams
  <2>2. RP!OtherStores(b) /\ RP!ObjectHeld
    BY <2>1, SameOthers DEF RP!ObjectHeld, Over
  <2>3. RP!Attends' /\ RP!Listens(s)'
    BY <1>2, <2>2, HalvesAssume, RP!OthersHear DEF Listening
  <2>4. UNCHANGED <<skip, upstream>>
    BY <1>6, <2>1 DEF OtherStreams, R!OtherStores, R!requestVars
  <2>5. Requested' /\ SP!DropsOnlyWhatWasAsked'
    BY <1>3, <2>4 DEF Listening, Requested, SP!DropsOnlyWhatWasAsked
  <2>6. Understood'
    BY <1>2, <1>3, <1>4, <2>3 DEF Understood
  <2> QED
    BY <1>4, <2>3, <2>5, <2>6 DEF Listening
<1> QED
  BY <1>5, <1>6

LEMMA ReasonNext ==
  ASSUME MayVanish = {}, ~WriterDies
  PROVE  ReasonInv /\ [Next]_vars => ReasonInv'
<1> SUFFICES ASSUME ReasonInv, [Next]_vars PROVE ReasonInv'
  OBVIOUS
<1>1. StreamInv' /\ StreamInv /\ removals \in Nat /\ FailsForAReason
  BY StreamNext DEF ReasonInv
<1>2. removals' \in Nat /\ removals <= removals'
  BY <1>1 DEF Next, Sending, Cut, Receiving, RequestArrives, OtherStreams, CleanUps,
              Finished, vars, counters
<1>3. CASE removals' > 0
  BY <1>1, <1>2, <1>3 DEF ReasonInv, FailsForAReason
<1>4. CASE removals' = 0
  <2>1. removals = 0 /\ ~CleanUps
    BY <1>1, <1>2, <1>4 DEF CleanUps
  <2>2. CASE Over
    <3>1. UNCHANGED <<rpc, cause>>
      BY <2>1, <2>2, ReceiverWorks
      DEF Next, Sending, Cut, Receiving, RequestArrives, OtherStreams, Finished, vars,
          receiverVars, R!OtherStores
    <3> QED
      BY <1>1, <1>2, <1>4, <2>1, <2>2, <3>1 DEF ReasonInv, FailsForAReason, Over
  <2>3. CASE ~Over
    <3>1. Listening /\ ~Cut
      BY <2>1, <2>3 DEF ReasonInv, Cut
    <3>2. CASE Receiving
      <4>1. /\ cause' = cause \/ cause' \notin {"mismatch", "reread", "wbp"}
            /\ ~Over' => Listening'
        BY <1>1, <3>1, <3>2, ListeningTakes
      <4> QED
        BY <1>1, <1>2, <1>4, <2>1, <4>1 DEF ReasonInv, FailsForAReason
    <3>3. CASE Sending \/ RequestArrives \/ OtherStreams \/ UNCHANGED vars
      <4>1. Listening'
        BY <1>1, <2>3, <3>1, <3>3, ListeningSent, ListeningStands
      <4>2. cause' = cause
        BY <3>3 DEF Sending, RequestArrives, OtherStreams, vars, receiverVars,
                    R!OtherStores
      <4> QED
        BY <1>1, <1>2, <1>4, <2>1, <4>1, <4>2 DEF ReasonInv, FailsForAReason
    <3> QED
      BY <2>1, <3>1, <3>2, <3>3 DEF Next, Finished
  <2> QED
    BY <2>2, <2>3
<1> QED
  BY <1>2, <1>3, <1>4

(* Where no file of the sender disappears unnoticed and every stream ends   *)
(* with a separator or an error, a transfer never fails for wrong bytes, a  *)
(* block it cannot read again or one it cannot measure, unless a clean-up   *)
(* has removed something: for every object, however its blocks are nested   *)
(* and framed, whatever the peer asked to skip and when each request came,  *)
(* and whatever other streams stored meanwhile.                             *)
THEOREM FailuresHaveReasons ==
    MayVanish = {} /\ ~WriterDies => (Spec => []FailsForAReason)
<1> SUFFICES ASSUME MayVanish = {}, ~WriterDies PROVE Spec => []FailsForAReason
  OBVIOUS
<1>1. ReasonInv /\ [Next]_vars => ReasonInv'
  BY ReasonNext
<1>2. Spec => []ReasonInv
  BY <1>1, ReasonInit, PTL DEF Spec
<1>3. ReasonInv => FailsForAReason
  BY DEF ReasonInv
<1> QED
  BY <1>2, <1>3, PTL

-----------------------------------------------------------------------------
(* The transfer implements the promise of ObjectTransfer.                   *)

LEMMA Outcomes ==
  /\ Outcome = "delivered" <=> rpc = "delivered"
  /\ Outcome = "failed" <=> rpc \in {"failed", "ended"}
  /\ Outcome = "pending" <=> ~Over
  /\ Outcome \in {"pending", "delivered", "failed"}
BY DEF Outcome, Over

LEMMA ReceiverDecides ==
  ASSUME R!ReceiverStep
  PROVE  /\ ~Over
         /\ \/ ~Over' /\ object' = object
            \/ rpc' \in {"failed", "ended"} /\ UNCHANGED <<object, store>>
            \/ /\ rpc' = "delivered"
               /\ UNCHANGED store
               /\ ~R!WbpFails(object')
<1>1. ~Over
  BY ReceiverWorks
<1>2. CASE R!Begin
  BY <1>1, <1>2 DEF R!Begin, R!Fails, Over
<1>3. CASE R!TakeHead \/ R!TakeChunk \/ R!TakeEnd \/ R!TakeStart \/ R!SaveOrDrain
  BY <1>3 DEF R!TakeHead, R!TakeChunk, R!TakeEnd, R!TakeStart, R!SaveOrDrain,
              R!Arrives, Over
<1>4. CASE R!TakeTooDeep \/ R!TakeCrossing \/ R!TakeError
  BY <1>1, <1>4 DEF R!TakeTooDeep, R!TakeCrossing, R!TakeError, R!Fails
<1>5. CASE R!CloseDrain \/ R!CloseContent
  BY <1>1, <1>5 DEF R!CloseDrain, R!CloseContent, R!Fails, Over
<1>6. CASE R!Publish \/ R!Rename
  BY <1>1, <1>6 DEF R!Publish, R!Rename, R!Fails, Over
<1>7. CASE R!TakeSeparator \/ R!TakeEof
  <2>1. CASE levels = 0
    <3>1. R!Deliver /\ UNCHANGED store
      BY <1>7, <2>1 DEF R!TakeSeparator, R!TakeEof
    <3> QED
      BY <1>1, <3>1 DEF R!Deliver, R!Fails
  <2>2. CASE levels # 0
    BY <1>1, <1>7, <2>2 DEF R!TakeSeparator, R!TakeEof, Over
  <2> QED
    BY <2>1, <2>2
<1> QED
  BY <1>1, <1>2, <1>3, <1>4, <1>5, <1>6, <1>7 DEF R!ReceiverStep

(* What can be read can be read in full.                                    *)
LEMMA ReadableIsUsable ==
  ASSUME StreamInv, NEW b \in Block, R!Readable(b)
  PROVE  b \in Usable
<1>1. RP!StoreOK
  BY HalvesAssume, RP!InvParts DEF StreamInv, HalvesInv
<1>2. RP!Readable(b)
  BY SameStore
<1>3. RP!StoredBytes(b) = RP!Expand[b]
  BY <1>1, <1>2, HalvesAssume, RP!StoredBytesFacts
<1>4. RP!Expand = Expand
  BY DEF RP!Expand, Expand, RP!FlattenSeq, FlattenSeq, RP!Node, Node
<1> QED
  BY <1>3, <1>4, SameStore DEF Usable

LEMMA StoreStands == UNCHANGED store => UNCHANGED Usable
BY DEF Usable, R!Readable, R!StoredBytes, R!FormOf, R!Exists, R!FlattenSeq

LEMMA PromiseInit == Init => Promise!Init
BY Outcomes DEF Init, R!Init, Promise!Init, Usable, Over

LEMMA DeliveryKept ==
  ASSUME MakesWbp, ~WriterDies, StreamInv, StreamInv', Receiving,
         rpc' = "delivered"
  PROVE  Promise!Deliver
<1>1. ~Over /\ UNCHANGED store /\ ~R!WbpFails(object')
  BY ReceiverDecides DEF Receiving, Over
<1>2. object' = Body[Root]
  BY DEF StreamInv, Handed
<1>3. Outcome = "pending" /\ Outcome' = "delivered"
  BY <1>1, Outcomes DEF Outcome
<1>4. {Body[Root][i] : i \in DOMAIN Body[Root]} \cap Block \subseteq Usable
  <2> SUFFICES ASSUME NEW i \in DOMAIN Body[Root], Body[Root][i] \in Block
               PROVE  Body[Root][i] \in Usable
    OBVIOUS
  <2>1. R!Readable(Body[Root][i])
    BY <1>1, <1>2 DEF R!WbpFails
  <2> QED
    BY <2>1, ReadableIsUsable
<1> QED
  BY <1>1, <1>2, <1>3, <1>4, StoreStands DEF Promise!Deliver

LEMMA PromiseNext ==
  ASSUME MakesWbp, ~WriterDies, StreamInv, StreamInv', [Next]_vars
  PROVE  [Promise!Next]_(Promise!vars)
<1>1. Usable' \in SUBSET Block
  BY DEF Usable
<1>2. ASSUME UNCHANGED <<Outcome, object>> PROVE Promise!Next
  BY <1>1, <1>2 DEF Promise!Next, Promise!StoreChanges
<1>3. CASE UNCHANGED <<rpc, object>>
  BY <1>2, <1>3 DEF Outcome
<1>4. CASE Receiving
  <2>1. R!ReceiverStep
    BY <1>4 DEF Receiving
  <2>2. CASE ~Over' /\ object' = object
    <3>1. Outcome = "pending" /\ Outcome' = "pending"
      BY <2>1, <2>2, ReceiverDecides DEF Outcome, Over
    <3> QED
      BY <1>2, <2>2, <3>1
  <2>3. CASE rpc' \in {"failed", "ended"} /\ UNCHANGED <<object, store>>
    <3>1. Outcome = "pending" /\ Outcome' = "failed"
      BY <2>1, <2>3, ReceiverDecides DEF Outcome, Over
    <3> QED
      BY <2>3, <3>1, StoreStands DEF Promise!Next, Promise!Fail
  <2>4. CASE rpc' = "delivered"
    BY <1>4, <2>4, DeliveryKept DEF Promise!Next
  <2> QED
    BY <2>1, <2>2, <2>3, <2>4, ReceiverDecides
<1>5. CASE OtherStreams \/ CleanUps
  BY <1>3, <1>5 DEF OtherStreams, CleanUps, R!OtherStores, R!CleanUp
<1>6. CASE Sending \/ Cut \/ RequestArrives \/ Finished \/ UNCHANGED vars
  BY <1>3, <1>6 DEF Sending, Cut, RequestArrives, Finished, vars, receiverVars
<1> QED
  BY <1>4, <1>5, <1>6 DEF Next

(* The safety half of KeepsPromise, for every object, store and race: each  *)
(* step of a transfer is a step of ObjectTransfer or none of its business.  *)
(* The caller gets an error or the object, once, and when it gets the       *)
(* object every block the object points to reads back as what its id names. *)
THEOREM TransferRefinesPromise ==
    MakesWbp /\ ~WriterDies =>
        (Spec => Promise!Init /\ [][Promise!Next]_(Promise!vars))
<1> SUFFICES ASSUME MakesWbp, ~WriterDies
             PROVE  Spec => Promise!Init /\ [][Promise!Next]_(Promise!vars)
  OBVIOUS
<1>1. Spec => []StreamInv
  BY StreamInit, StreamNext, PTL DEF Spec
<1>2. StreamInv /\ StreamInv' /\ [Next]_vars => [Promise!Next]_(Promise!vars)
  BY PromiseNext
<1> QED
  BY <1>1, <1>2, PromiseInit, PTL DEF Spec
=============================================================================
