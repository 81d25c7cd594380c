------------------------ MODULE MessageFramingProofs ------------------------
(***************************************************************************)
(* PauseHolds, for any scripts, indices, bounds and messages to send back. *)
(* Nothing but FlowSignal's own steps touches the signal; and it is not    *)
(* late <= 2 that is inductive, but that the late Buffers are the last     *)
(* things the serializer did: no wait is passed while the signal is closed.*)
(*                                                                         *)
(* ParsedAsSent, for the same.  ParseInv says that the stream, what is on  *)
(* the wire and what the sender has at hand, without skip requests, is the *)
(* rest of the message being parsed and the messages of the script after   *)
(* those received; what that rest begins with decides what the parser does.*)
(***************************************************************************)
EXTENDS MessageFraming, SequenceLemmas

Paused == ~open /\ ~changing

SignalInv ==
    /\ work \in Work
    /\ pc \in Nat \ {0}
    /\ late \in {0, 1, 2}
    /\ Paused /\ late >= 1 => pc > 1 /\ work[pc - 1] = "yield"
    /\ Paused /\ late = 2 => pc > 2 /\ work[pc - 2] = "yield"

SignalStep == Change \/ SetOpen \/ SerializerStep \/ UNCHANGED signalVars

(* Every step of the stream is a step of the signal or leaves it alone.     *)
LEMMA StepsOfTheSignal == [Next]_vars => SignalStep
<1> SUFFICES ASSUME [Next]_vars PROVE SignalStep
  OBVIOUS
<1>1. CASE SenderStep
  BY <1>1 DEF SenderStep, NextMessage, SendBuffer, SendEnds, SignalStep
<1>2. CASE SendSkip \/ Breaks
  BY <1>2 DEF SendSkip, Breaks, SignalStep
<1>3. CASE ParserStep
  <2>1. CASE Drop \/ BeginMessage \/ BeginPart \/ StreamStops \/ StreamRaises
    BY <2>1 DEF Drop, BeginMessage, BeginPart, StreamStops, StreamRaises, SignalStep
  <2>2. CASE TakeChunk \/ TakeOther \/ TakeStart \/ TakeInBlock \/ TakeEnd
    <3>1. Take
      BY <2>2 DEF TakeChunk, TakeOther, TakeStart, TakeInBlock, TakeEnd
    <3> QED
      BY <3>1 DEF Take, SignalStep
  <2>3. CASE OpensAgain
    BY <2>3 DEF OpensAgain, SignalStep
  <2> QED
    BY <1>3, <2>1, <2>2, <2>3 DEF ParserStep
<1>4. CASE OwnStep
  BY <1>4 DEF OwnStep, SignalStep
<1>5. CASE UNCHANGED vars
  BY <1>5 DEF vars, SignalStep
<1> QED
  BY <1>1, <1>2, <1>3, <1>4, <1>5 DEF Next

(* However the signal, the parser and the serializer take turns, SignalInv  *)
(* stays true.                                                              *)
LEMMA SignalInvInductive == SignalInv /\ SignalStep => SignalInv'
<1> SUFFICES ASSUME SignalInv, SignalStep PROVE SignalInv'
  OBVIOUS
<1> USE DEF SignalInv, Paused
<1>1. CASE Pause
  BY <1>1 DEF Pause
<1>2. CASE Notify
  BY <1>2 DEF Notify
<1>3. CASE SetOpen
  BY <1>3 DEF SetOpen
<1>4. CASE Test
  BY <1>4 DEF Test, Turn
<1>5. CASE Park
  BY <1>5 DEF Park
<1>6. CASE Yield
  <2>1. CASE open \/ changing
    BY <1>6, <2>1 DEF Yield, Turn
  <2>2. CASE Paused
    <3>1. late < 2
      <4> SUFFICES ASSUME late = 2 PROVE FALSE
        OBVIOUS
      <4>1. pc > 2 /\ work[pc - 2] = "yield" /\ work[pc - 1] = "yield"
        BY <2>2
      <4>2. pc \in DOMAIN work /\ work[pc] = "yield"
        BY <1>6, WorkAssumption DEF Yield, Turn, Done
      <4>3. "wait" \in {work[pc - 2], work[pc - 1], work[pc]}
        BY <4>1, <4>2, WorkAssumption DEF WaitsOften
      <4> QED
        BY <4>1, <4>2, <4>3
    <3>2. late' = late + 1 /\ pc' = pc + 1 /\ work[pc] = "yield" /\ work' = work
      BY <1>6, <2>2 DEF Yield, Turn
    <3> QED
      BY <2>2, <3>1, <3>2
  <2> QED
    BY <2>1, <2>2
<1>7. CASE Ask
  BY <1>7 DEF Ask
<1>8. CASE UNCHANGED signalVars
  BY <1>8 DEF signalVars
<1> QED
  BY <1>1, <1>2, <1>3, <1>4, <1>5, <1>6, <1>7, <1>8
     DEF SignalStep, Change, SerializerStep

(* Once paused, the serializer sends two more Buffers of messages at most,  *)
(* whatever the messages and whenever the pauses come (utils.py, Signal),   *)
(* and however many skip requests it sends beside them.                     *)
THEOREM PauseIsKept == Spec => []PauseHolds
<1>1. Init => SignalInv
  BY DEF Init, SignalInit, SignalInv
<1>2. SignalInv /\ [Next]_vars => SignalInv'
  BY StepsOfTheSignal, SignalInvInductive
<1>3. SignalInv => PauseHolds
  BY DEF SignalInv, PauseHolds
<1> QED
  BY <1>1, <1>2, <1>3, PTL DEF Spec

-----------------------------------------------------------------------------
(* ParsedAsSent.  What is left of the stream, the Buffers on their way and  *)
(* those to come, is what is left of the message being parsed and of the    *)
(* messages after it.  First, what messages are in Buffers.                 *)

Bare == [head : Index \cup {None}, chunk : Seq(Piece) \cup {None}, marker : BOOLEAN,
         separator : BOOLEAN, skip : {FALSE}, signal : {FALSE}]
OnWire == [head : Index \cup {None}, chunk : Seq(Piece) \cup {None}, marker : BOOLEAN,
           separator : BOOLEAN, skip : {FALSE}, signal : BOOLEAN] \cup {Skip}
Result == [index : Index, pieces : Seq(Piece)]

PiecesIn  == [h \in Held |-> h.pieces]
BuffersIn == [h \in Held |-> ItemBuffers(h)]
BuffersOf == [m \in Message |-> Buffers(m)]
Unsigned(b) == [b EXCEPT !.signal = FALSE]
Kept      == [b \in OnWire |-> IF b.skip THEN <<>> ELSE <<Unsigned(b)>>]

PiecesOf(items)     == FlatMap(PiecesIn, items)
ItemsBuffers(items) == FlatMap(BuffersIn, items)
AllBuffers(ms)      == FlatMap(BuffersOf, ms)
Core(w)             == FlatMap(Kept, w)

LEMMA ChunksFacts ==
  ASSUME NEW p \in Seq(Piece)
  PROVE  /\ Chunks(p) \in Seq(Bare)
         /\ p = <<>> => Chunks(p) = <<>>
         /\ p # <<>> => Chunks(p) = <<ChunkOf(Head(p))>> \o Chunks(Tail(p))
<1>1. /\ Len(p) \in Nat /\ DOMAIN p = 1..Len(p)
      /\ \A i \in 1..Len(p) : p[i] \in Piece
  BY LenProperties, ElementOfSeq
<1>2. \A x \in Piece : ChunkOf(x) \in Bare
  <2> SUFFICES ASSUME NEW x \in Piece PROVE ChunkOf(x) \in Bare
    OBVIOUS
  <2>1. <<x>> \in Seq(Piece)
    OBVIOUS
  <2> QED
    BY <2>1 DEF ChunkOf, Blank, Bare
<1>3. ASSUME NEW q \in Seq(Piece)
      PROVE  /\ Chunks(q) \in Seq(Bare) /\ Len(Chunks(q)) = Len(q)
             /\ \A i \in 1..Len(q) : Chunks(q)[i] = ChunkOf(q[i])
  <2>1. Len(q) \in Nat /\ DOMAIN q = 1..Len(q) /\ \A i \in 1..Len(q) : q[i] \in Piece
    BY LenProperties, ElementOfSeq
  <2>2. Chunks(q) = [i \in 1..Len(q) |-> ChunkOf(q[i])]
    BY <2>1 DEF Chunks
  <2>3. \A i \in 1..Len(q) : ChunkOf(q[i]) \in Bare
    BY <1>2, <2>1
  <2>4. Chunks(q) \in Seq(Bare)
    BY <2>1, <2>2, <2>3, IsASeq
  <2>5. DOMAIN Chunks(q) = 1..Len(q)
    BY <2>2
  <2>6. Len(Chunks(q)) = Len(q)
    BY <2>1, <2>4, <2>5, LenProperties
  <2> QED
    BY <2>2, <2>4, <2>6
<1>4. ASSUME p = <<>> PROVE Chunks(p) = <<>>
  BY <1>3, <1>4, EmptySeq
<1>5. ASSUME p # <<>> PROVE Chunks(p) = <<ChunkOf(Head(p))>> \o Chunks(Tail(p))
  <2>1. /\ Head(p) \in Piece /\ Tail(p) \in Seq(Piece)
        /\ Len(Tail(p)) = Len(p) - 1
        /\ \A i \in 1..Len(Tail(p)) : Tail(p)[i] = p[i + 1]
        /\ Len(p) \in Nat \ {0} /\ Head(p) = p[1]
    BY <1>5, HeadTailProperties, EmptySeq
  <2> DEFINE one == <<ChunkOf(Head(p))>>
             rest == Chunks(Tail(p))
             all == Chunks(p)
  <2>2. one \in Seq(Bare) /\ Len(one) = 1 /\ one[1] = ChunkOf(p[1])
    BY <1>2, <2>1
  <2>3. /\ rest \in Seq(Bare) /\ Len(rest) = Len(p) - 1
        /\ \A i \in 1..(Len(p) - 1) : rest[i] = ChunkOf(Tail(p)[i])
    BY <1>3, <2>1
  <2>4. /\ all \in Seq(Bare) /\ Len(all) = Len(p)
        /\ \A i \in 1..Len(p) : all[i] = ChunkOf(p[i])
    BY <1>3
  <2> HIDE DEF one, rest, all
  <2>5. /\ one \o rest \in Seq(Bare) /\ Len(one \o rest) = Len(p)
        /\ \A i \in 1..Len(p) : (one \o rest)[i] = IF i <= 1 THEN one[i] ELSE rest[i - 1]
    <3>1. /\ one \o rest \in Seq(Bare) /\ Len(one \o rest) = Len(one) + Len(rest)
          /\ \A i \in 1..(Len(one) + Len(rest)) :
                (one \o rest)[i] = IF i <= Len(one) THEN one[i] ELSE rest[i - Len(one)]
      BY <2>2, <2>3, ConcatProperties
    <3>2. Len(one) + Len(rest) = Len(p)
      BY <2>1, <2>2, <2>3
    <3> QED
      BY <2>2, <3>1, <3>2
  <2>6. ASSUME NEW i \in 1..Len(p) PROVE (one \o rest)[i] = all[i]
    <3>1. CASE i = 1
      BY <2>2, <2>4, <2>5, <3>1
    <3>2. CASE i # 1
      <4>1. i - 1 \in 1..(Len(p) - 1) /\ i - 1 + 1 = i
        BY <2>1, <3>2
      <4>2. rest[i - 1] = ChunkOf(p[i])
        BY <2>1, <2>3, <4>1
      <4> QED
        BY <2>1, <2>4, <2>5, <3>2, <4>2
    <3> QED
      BY <3>1, <3>2
  <2>7. one \o rest = all
    BY <2>4, <2>5, <2>6, SeqEqual
  <2> QED
    BY <2>7 DEF one, rest, all
<1> QED
  BY <1>3, <1>4, <1>5

(* The single Buffers.                                                      *)
LEMMA BareFacts ==
  /\ Marker \in Bare /\ Separator \in Bare
  /\ \A i \in Index : HeadOf(i) \in Bare
  /\ \A x \in Piece : ChunkOf(x) \in Bare
  /\ Skip \in OnWire
<1>1. Marker \in Bare /\ Separator \in Bare /\ Skip \in OnWire
  BY DEF Marker, Separator, Blank, Bare, OnWire
<1>2. \A i \in Index : HeadOf(i) \in Bare
  BY DEF HeadOf, Blank, Bare
<1>3. ASSUME NEW x \in Piece PROVE ChunkOf(x) \in Bare
  <2>1. <<x>> \in Seq(Piece)
    OBVIOUS
  <2> QED
    BY <2>1 DEF ChunkOf, Blank, Bare
<1> QED
  BY <1>1, <1>2, <1>3

LEMMA PiecesFacts ==
  /\ PiecesOf(<<>>) = <<>>
  /\ \A m \in Message : Pieces(m) = PiecesOf(m.items)
  /\ \A items \in Seq(Held) :
       /\ PiecesOf(items) \in Seq(Piece)
       /\ items # <<>> => /\ Head(items) \in Held /\ Tail(items) \in Seq(Held)
                          /\ PiecesOf(items) = Head(items).pieces \o PiecesOf(Tail(items))
<1>1. Maps(PiecesIn, Held, Seq(Piece))
  BY DEF Maps, PiecesIn, Held
<1>2. ASSUME NEW m \in Message PROVE Pieces(m) = PiecesOf(m.items)
  <2>1. m.items \in Seq(Held)
    BY DEF Message
  <2>2. DOMAIN m.items = 1..Len(m.items) /\ \A i \in 1..Len(m.items) : m.items[i] \in Held
    BY <2>1, LenProperties, ElementOfSeq
  <2>3. [i \in DOMAIN m.items |-> m.items[i].pieces] = Each(PiecesIn, m.items)
    BY <2>2 DEF Each, PiecesIn
  <2> QED
    BY <2>3 DEF Pieces, PiecesOf, FlatMap
<1>3. PiecesOf(<<>>) = <<>>
  BY <1>1, FlatMapFacts DEF PiecesOf
<1>4. ASSUME NEW items \in Seq(Held)
      PROVE  /\ PiecesOf(items) \in Seq(Piece)
             /\ items # <<>> => PiecesOf(items) = PiecesIn[Head(items)] \o PiecesOf(Tail(items))
  BY <1>1, FlatMapFacts DEF PiecesOf
<1>5. ASSUME NEW items \in Seq(Held), items # <<>>
      PROVE  Head(items) \in Held /\ Tail(items) \in Seq(Held)
  BY <1>5, HeadTailProperties
<1>6. \A h \in Held : PiecesIn[h] = h.pieces
  BY DEF PiecesIn
<1> QED
  BY <1>2, <1>3, <1>4, <1>5, <1>6

LEMMA ItemsFacts ==
  /\ ItemsBuffers(<<>>) = <<>>
  /\ \A h \in Held : ItemBuffers(h) \in Seq(Bare)
  /\ \A items \in Seq(Held) :
       /\ ItemsBuffers(items) \in Seq(Bare)
       /\ items # <<>> =>
            ItemsBuffers(items) = ItemBuffers(Head(items)) \o ItemsBuffers(Tail(items))
<1>1. ASSUME NEW h \in Held PROVE ItemBuffers(h) \in Seq(Bare)
  <2>1. h.pieces \in Seq(Piece)
    BY DEF Held
  <2>2. Chunks(h.pieces) \in Seq(Bare)
    BY <2>1, ChunksFacts
  <2>3. <<Marker>> \in Seq(Bare)
    BY BareFacts
  <2>4. <<Marker>> \o Chunks(h.pieces) \in Seq(Bare)
    BY <2>2, <2>3, ConcatProperties
  <2>5. <<Marker>> \o Chunks(h.pieces) \o <<Marker>> \in Seq(Bare)
    BY <2>3, <2>4, ConcatProperties
  <2> QED
    BY <2>2, <2>5 DEF ItemBuffers
<1>2. Maps(BuffersIn, Held, Seq(Bare))
  BY <1>1 DEF Maps, BuffersIn
<1>3. ItemsBuffers(<<>>) = <<>>
  BY <1>2, FlatMapFacts DEF ItemsBuffers
<1>4. ASSUME NEW items \in Seq(Held)
      PROVE  /\ ItemsBuffers(items) \in Seq(Bare)
             /\ items # <<>> =>
                  ItemsBuffers(items) = BuffersIn[Head(items)] \o ItemsBuffers(Tail(items))
  BY <1>2, FlatMapFacts DEF ItemsBuffers
<1>5. \A items \in Seq(Held) : items # <<>> => Head(items) \in Held
  BY HeadTailProperties
<1>6. \A h \in Held : BuffersIn[h] = ItemBuffers(h)
  BY DEF BuffersIn
<1> QED
  BY <1>1, <1>3, <1>4, <1>5, <1>6

(* A small message is one Buffer; another begins with a head and no chunk.  *)
SmallBuffer(m) == [HeadOf(m.index) EXCEPT !.chunk = Pieces(m), !.separator = TRUE]

LEMMA BuffersFacts ==
  ASSUME NEW m \in Message
  PROVE  /\ Buffers(m) \in Seq(Bare)
         /\ SmallBuffer(m) \in Bare
         /\ m.small => Buffers(m) = <<SmallBuffer(m)>> \o <<>>
         /\ ~m.small => Buffers(m) = <<HeadOf(m.index)>>
                                       \o (ItemsBuffers(m.items) \o <<Separator>>)
<1>1. m.items \in Seq(Held) /\ m.index \in Index /\ m.small \in BOOLEAN
  BY DEF Message
<1>2. Pieces(m) \in Seq(Piece)
  BY <1>1, PiecesFacts
<1>3. SmallBuffer(m) \in Bare
  BY <1>1, <1>2 DEF SmallBuffer, HeadOf, Blank, Bare
<1>4. DOMAIN m.items = 1..Len(m.items) /\ \A i \in 1..Len(m.items) : m.items[i] \in Held
  BY <1>1, LenProperties, ElementOfSeq
<1>5. [i \in DOMAIN m.items |-> ItemBuffers(m.items[i])] = Each(BuffersIn, m.items)
  BY <1>4 DEF Each, BuffersIn
<1> DEFINE a == <<HeadOf(m.index)>>
           b == ItemsBuffers(m.items)
           c == <<Separator>>
<1>6. ~m.small => Buffers(m) = (a \o b) \o c
  BY <1>5 DEF Buffers, ItemsBuffers, FlatMap
<1>7. a \in Seq(Bare) /\ b \in Seq(Bare) /\ c \in Seq(Bare)
  BY <1>1, BareFacts, ItemsFacts
<1>8. <<SmallBuffer(m)>> \in Seq(Bare)
  BY <1>3
<1>9. m.small => Buffers(m) = <<SmallBuffer(m)>> /\ Buffers(m) = <<SmallBuffer(m)>> \o <<>>
  BY <1>8, ConcatEmptySeq DEF Buffers, SmallBuffer
<1> HIDE DEF a, b, c
<1>10. (a \o b) \o c = a \o (b \o c) /\ b \o c \in Seq(Bare)
  <2>1. (a \o b) \o c = a \o (b \o c)
    BY <1>7, ConcatAssociative
  <2>2. b \o c \in Seq(Bare)
    BY <1>7, ConcatProperties
  <2> QED
    BY <2>1, <2>2
<1>11. a \o (b \o c) \in Seq(Bare)
  BY <1>7, <1>10, ConcatProperties
<1>12. Buffers(m) \in Seq(Bare)
  BY <1>1, <1>6, <1>8, <1>9, <1>10, <1>11
<1> QED
  BY <1>3, <1>6, <1>9, <1>10, <1>12 DEF a, b, c

LEMMA AllBuffersFacts ==
  /\ AllBuffers(<<>>) = <<>>
  /\ \A ms \in Seq(Message) :
       /\ AllBuffers(ms) \in Seq(Bare)
       /\ ms # <<>> => AllBuffers(ms) = Buffers(Head(ms)) \o AllBuffers(Tail(ms))
<1>1. Maps(BuffersOf, Message, Seq(Bare))
  BY BuffersFacts DEF Maps, BuffersOf
<1>2. AllBuffers(<<>>) = <<>>
  BY <1>1, FlatMapFacts DEF AllBuffers
<1>3. ASSUME NEW ms \in Seq(Message)
      PROVE  /\ AllBuffers(ms) \in Seq(Bare)
             /\ ms # <<>> => AllBuffers(ms) = BuffersOf[Head(ms)] \o AllBuffers(Tail(ms))
  BY <1>1, FlatMapFacts DEF AllBuffers
<1>4. \A ms \in Seq(Message) : ms # <<>> => Head(ms) \in Message
  BY HeadTailProperties
<1>5. \A m \in Message : BuffersOf[m] = Buffers(m)
  BY DEF BuffersOf
<1> QED
  BY <1>2, <1>3, <1>4, <1>5

(* Buffers on their way: a skip request is none of them.                    *)
LEMMA CoreFacts ==
  /\ Core(<<>>) = <<>>
  /\ \A w \in Seq(OnWire) :
       /\ Core(w) \in Seq(Bare)
       /\ Core(Append(w, Skip)) = Core(w)
       /\ \A b \in OnWire : ~b.skip => /\ Unsigned(b) \in Bare
                                       /\ Core(Append(w, b)) = Core(w) \o <<Unsigned(b)>>
       /\ w # <<>> =>
            /\ Head(w) \in OnWire /\ Tail(w) \in Seq(OnWire)
            /\ Head(w).skip => Core(w) = Core(Tail(w))
            /\ ~Head(w).skip => Core(w) = <<Unsigned(Head(w))>> \o Core(Tail(w))
<1>1. ASSUME NEW b \in OnWire, ~b.skip PROVE Unsigned(b) \in Bare
  BY <1>1 DEF OnWire, Bare, Unsigned, Skip, Blank
<1>2. Maps(Kept, OnWire, Seq(Bare))
  <2> SUFFICES ASSUME NEW b \in OnWire
               PROVE  (IF b.skip THEN <<>> ELSE <<Unsigned(b)>>) \in Seq(Bare)
    BY DEF Maps, Kept
  <2>1. CASE b.skip
    BY <2>1, EmptySeq
  <2>2. CASE ~b.skip
    BY <1>1, <2>2
  <2> QED
    BY <2>1, <2>2
<1>3. Core(<<>>) = <<>>
  BY <1>2, FlatMapFacts DEF Core
<1>4. ASSUME NEW w \in Seq(OnWire)
      PROVE  /\ Core(w) \in Seq(Bare)
             /\ \A b \in OnWire : Core(Append(w, b)) = Core(w) \o Kept[b]
             /\ w # <<>> => Core(w) = Kept[Head(w)] \o Core(Tail(w))
  BY <1>2, FlatMapFacts DEF Core
<1>5. \A b \in OnWire : /\ b.skip => Kept[b] = <<>>
                        /\ ~b.skip => Kept[b] = <<Unsigned(b)>>
  BY DEF Kept
<1>6. ASSUME NEW w \in Seq(OnWire), w # <<>>
      PROVE  Head(w) \in OnWire /\ Tail(w) \in Seq(OnWire)
  BY <1>6, HeadTailProperties
<1>7. ASSUME NEW w \in Seq(OnWire) PROVE Core(Append(w, Skip)) = Core(w)
  <2>1. Skip \in OnWire /\ Skip.skip
    BY BareFacts DEF Skip, Blank
  <2>2. Core(Append(w, Skip)) = Core(w) \o <<>>
    BY <1>4, <1>5, <2>1
  <2> QED
    BY <1>4, <2>2, ConcatEmptySeq
<1>8. ASSUME NEW w \in Seq(OnWire), w # <<>>, Head(w).skip PROVE Core(w) = Core(Tail(w))
  <2>1. Core(w) = <<>> \o Core(Tail(w))
    BY <1>4, <1>5, <1>6, <1>8
  <2> QED
    BY <1>4, <1>6, <1>8, <2>1, ConcatEmptySeq
<1>9. ASSUME NEW w \in Seq(OnWire), NEW b \in OnWire, ~b.skip
      PROVE  Core(Append(w, b)) = Core(w) \o <<Unsigned(b)>>
  BY <1>4, <1>5, <1>9
<1>10. ASSUME NEW w \in Seq(OnWire), w # <<>>, ~Head(w).skip
       PROVE  Core(w) = <<Unsigned(Head(w))>> \o Core(Tail(w))
  BY <1>4, <1>5, <1>6, <1>10
<1>11. \A w \in Seq(OnWire) : Core(w) \in Seq(Bare)
  BY <1>4
<1> QED
  BY <1>1, <1>3, <1>6, <1>7, <1>8, <1>9, <1>10, <1>11

-----------------------------------------------------------------------------
(* The script, from the side of its end and from that of its beginning.     *)

FramingTypes ==
    /\ script \in Seq(Message)
    /\ toSend \in Seq(Message)
    /\ out \in Seq(Bare)
    /\ wire \in Seq(OnWire)
    /\ receiver \in Receiver
    /\ parsing \in [index : Index, headed : BOOLEAN, pieces : Seq(Piece)]
    /\ received \in Seq(Result)

ExpectedOf == [m \in Message |-> Expected(m)]

(* The Buffers after k messages, and what k messages are parsed to.         *)
After(k) == AllBuffers(SubSeq(script, k + 1, Len(script)))
Got(k)   == FlatMap(ExpectedOf, SubSeq(script, 1, k))

(* What is yielded for a message, of whatever receiver.                     *)
LEMMA ResultTypes ==
  ASSUME NEW i \in Index, NEW p \in Seq(Piece)
  PROVE  /\ <<[index |-> i, pieces |-> p]>> \in Seq(Result)
         /\ <<[index |-> 1, pieces |-> <<>>]>> \in Seq(Result)
         /\ <<>> \in Seq(Result)
<1>1. 1 \in Index
  BY FramingAssumption
<1>2. /\ [index |-> i, pieces |-> p] \in Result
      /\ [index |-> 1, pieces |-> <<>>] \in Result
  BY <1>1 DEF Result
<1> QED
  BY <1>2

LEMMA OutcomeType ==
  ASSUME NEW i \in Index, NEW p \in Seq(Piece)
  PROVE  Outcome(i, p) \in Seq(Result)
BY ResultTypes DEF Outcome

LEMMA ExpectedMaps == Maps(ExpectedOf, Message, Seq(Result))
<1> SUFFICES ASSUME NEW m \in Message PROVE Expected(m) \in Seq(Result)
  BY DEF Maps, ExpectedOf
<1>1. m.index \in Index /\ m.items \in Seq(Held)
  BY DEF Message
<1>2. Pieces(m) \in Seq(Piece)
  BY <1>1, PiecesFacts
<1> QED
  BY <1>1, <1>2, ResultTypes DEF Expected

(* What the parser makes of a message it has read whole is what is expected *)
(* of it, and it does not raise.                                            *)
LEMMA WholeIsExpected ==
  ASSUME NEW m \in Message, Readable(m), parsing.index = m.index
  PROVE  Outcome(m.index, Pieces(m)) = Expected(m) /\ ~Unlisted(Pieces(m))
BY DEF Outcome, Expected, Bytesless, Empties, Unlisted, Readable

(* Which indices the receiver knows.                                        *)
LEMMA ReceiverFacts ==
  ASSUME receiver \in Receiver
  PROVE  /\ Known \subseteq Index
         /\ First \in Known
         /\ receiver.mode \in [Known -> {"memory", "disk"}]
<1>1. receiver.mode \in Modes /\ 0 \in DOMAIN receiver.mode
  BY FramingAssumption
<1>2. PICK known \in SUBSET Index : receiver.mode \in [known -> {"memory", "disk"}]
  BY <1>1 DEF Modes
<1>3. Known = known
  BY <1>2 DEF Known
<1> QED
  BY <1>1, <1>2, <1>3 DEF First, Known

LEMMA ScriptFacts ==
  ASSUME script \in Seq(Message)
  PROVE  /\ Len(script) \in Nat
         /\ After(0) = AllBuffers(script)
         /\ After(Len(script)) = <<>>
         /\ Got(0) = <<>>
         /\ \A k \in 0..Len(script) : After(k) \in Seq(Bare) /\ Got(k) \in Seq(Result)
         /\ \A k \in 0..(Len(script) - 1) :
              /\ k + 1 \in 0..Len(script)
              /\ script[k + 1] \in Message
              /\ After(k) = Buffers(script[k + 1]) \o After(k + 1)
              /\ Got(k + 1) = Got(k) \o Expected(script[k + 1])
<1>1. Len(script) \in Nat /\ \A i \in 1..Len(script) : script[i] \in Message
  BY LenProperties, ElementOfSeq
<1>2. ASSUME NEW i \in Nat \ {0}, NEW j \in Nat, j <= Len(script)
      PROVE  SubSeq(script, i, j) \in Seq(Message)
  <2>1. \A n \in i..j : script[n] \in Message
    BY <1>1, <1>2
  <2> QED
    BY <2>1, SubSeqProperties
<1>3. After(0) = AllBuffers(script)
  <2>1. SubSeq(script, 0 + 1, Len(script)) = script
    BY SubSeqFull
  <2> QED
    BY <2>1 DEF After
<1>4. After(Len(script)) = <<>> /\ Got(0) = <<>>
  <2>1. /\ SubSeq(script, Len(script) + 1, Len(script)) = <<>>
        /\ SubSeq(script, 1, 0) = <<>>
    BY <1>1, SubSeqEmpty
  <2>2. FlatMap(ExpectedOf, <<>>) = <<>>
    BY ExpectedMaps, FlatMapFacts
  <2> QED
    BY <2>1, <2>2, AllBuffersFacts DEF After, Got
<1>5. ASSUME NEW k \in 0..Len(script)
      PROVE  After(k) \in Seq(Bare) /\ Got(k) \in Seq(Result)
  <2>1. /\ SubSeq(script, k + 1, Len(script)) \in Seq(Message)
        /\ SubSeq(script, 1, k) \in Seq(Message)
    BY <1>1, <1>2
  <2>2. FlatMap(ExpectedOf, SubSeq(script, 1, k)) \in Seq(Result)
    BY <2>1, ExpectedMaps, FlatMapFacts
  <2> QED
    BY <2>1, <2>2, AllBuffersFacts DEF After, Got
<1>6. ASSUME NEW k \in 0..(Len(script) - 1)
      PROVE  /\ k + 1 \in 0..Len(script)
             /\ script[k + 1] \in Message
             /\ After(k) = Buffers(script[k + 1]) \o After(k + 1)
             /\ Got(k + 1) = Got(k) \o Expected(script[k + 1])
  <2>1. /\ k + 1 \in 1..Len(script) /\ Len(script) \in (k + 1)..Len(script)
        /\ k \in Nat /\ k + 1 - 1 = k
    BY <1>1
  <2> DEFINE s == SubSeq(script, k + 1, Len(script))
             t == SubSeq(script, 1, k + 1)
             u == SubSeq(script, 1, k)
  <2>2. Head(s) = script[k + 1] /\ Tail(s) = SubSeq(script, k + 1 + 1, Len(script))
    BY <2>1, HeadTailOfSubSeq
  <2>3. s \in Seq(Message) /\ u \in Seq(Message)
    BY <1>1, <1>2, <2>1
  <2>4. s # <<>>
    <3>1. \A n \in (k + 1)..Len(script) : script[n] \in Message
      BY <1>1, <2>1
    <3>2. Len(s) = IF k + 1 <= Len(script) THEN Len(script) - (k + 1) + 1 ELSE 0
      BY <1>1, <2>1, <3>1, SubSeqProperties
    <3>3. Len(s) # 0
      BY <1>1, <2>1, <3>2
    <3> QED
      BY <3>3, EmptySeq
  <2>5. t = u \o <<script[k + 1]>>
    <3>1. 1 \in 1..Len(script) /\ k + 1 \in 1..Len(script)
      BY <1>1, <2>1
    <3>2. t = SubSeq(script, 1, k + 1 - 1) \o <<script[k + 1]>>
      BY <3>1, SubSeqRecursiveSecond
    <3> QED
      BY <2>1, <3>2
  <2>6. t = Append(u, script[k + 1])
    BY <1>1, <2>1, <2>3, <2>5, AppendIsConcat
  <2>7. After(k) = AllBuffers(s) /\ After(k + 1) = AllBuffers(Tail(s))
    BY <2>2 DEF After
  <2>8. Got(k + 1) = FlatMap(ExpectedOf, t) /\ Got(k) = FlatMap(ExpectedOf, u)
    BY DEF Got
  <2> HIDE DEF s, t, u
  <2>9. AllBuffers(s) = Buffers(Head(s)) \o AllBuffers(Tail(s))
    BY <2>3, <2>4, AllBuffersFacts
  <2> DEFINE m == script[k + 1]
  <2>10. m \in Message
    BY <1>1, <2>1
  <2>11. t = Append(u, m) /\ Head(s) = m
    BY <2>2, <2>6
  <2>12. ExpectedOf[m] = Expected(m)
    BY <2>10 DEF ExpectedOf
  <2> HIDE DEF m
  <2>13. FlatMap(ExpectedOf, t) = FlatMap(ExpectedOf, u) \o ExpectedOf[m]
    <3>1. FlatMap(ExpectedOf, Append(u, m)) = FlatMap(ExpectedOf, u) \o ExpectedOf[m]
      BY <2>3, <2>10, ExpectedMaps, FlatMapFacts
    <3> QED
      BY <2>11, <3>1
  <2>14. /\ m \in Message /\ After(k) = Buffers(m) \o After(k + 1)
         /\ Got(k + 1) = Got(k) \o Expected(m)
    BY <2>7, <2>8, <2>9, <2>10, <2>11, <2>12, <2>13
  <2> QED
    BY <1>1, <2>1, <2>14 DEF m
<1> QED
  BY <1>1, <1>3, <1>4, <1>5, <1>6

(* ReadableScript is the script as far as its first message that is not.    *)
Bad      == {k \in DOMAIN script : ~Readable(script[k])}
Least(B) == CHOOSE k \in B : \A l \in B : k <= l

LEMMA ReadableFacts ==
  ASSUME script \in Seq(Message)
  PROVE  /\ Len(ReadableScript) \in 0..Len(script)
         /\ \A k \in 1..Len(ReadableScript) : Readable(script[k])
         /\ ReadableScript = script <=> Len(ReadableScript) = Len(script)
         /\ ExpectedAll = Got(Len(ReadableScript))
         /\ \A k \in 0..Len(ReadableScript) : IsPrefix(Got(k), ExpectedAll)
<1>1. Len(script) \in Nat /\ \A i \in 1..Len(script) : script[i] \in Message
      /\ DOMAIN script = 1..Len(script)
  BY LenProperties, ElementOfSeq
<1> DEFINE bad == {k \in DOMAIN script : ~Readable(script[k])}
<1>2. \E r \in 0..Len(script) : /\ ReadableScript = SubSeq(script, 1, r)
                                /\ \A k \in 1..r : Readable(script[k])
  <2>1. CASE bad = {}
    <3>1. ReadableScript = SubSeq(script, 1, Len(script))
      BY <2>1, SubSeqFull DEF ReadableScript
    <3>2. \A k \in 1..Len(script) : Readable(script[k])
      BY <1>1, <2>1
    <3> QED
      BY <1>1, <3>1, <3>2
  <2>2. CASE bad # {}
    <3>1. bad \in SUBSET Nat
      BY <1>1
    <3> DEFINE f == CHOOSE k \in bad : \A l \in bad : k <= l
    <3>2. f \in bad /\ \A l \in bad : f <= l
      BY <2>2, <3>1, LeastNat
    <3>3. ReadableScript = SubSeq(script, 1, f - 1)
      BY <2>2 DEF ReadableScript
    <3> HIDE DEF f
    <3>4. f \in 1..Len(script) /\ f - 1 \in 0..Len(script)
      BY <1>1, <3>2
    <3>5. ASSUME NEW k \in 1..(f - 1) PROVE Readable(script[k])
      <4>1. k \in DOMAIN script /\ ~(f <= k)
        BY <1>1, <3>4
      <4> QED
        BY <3>2, <4>1
    <3> QED
      BY <3>3, <3>4, <3>5
  <2> QED
    BY <2>1, <2>2
<1> HIDE DEF bad
<1>3. PICK r \in 0..Len(script) : /\ ReadableScript = SubSeq(script, 1, r)
                                  /\ \A k \in 1..r : Readable(script[k])
  BY <1>2
<1>4. /\ ReadableScript \in Seq(Message) /\ Len(ReadableScript) = r
      /\ \A k \in 1..r : ReadableScript[k] = script[k]
  <2>1. \A n \in 1..r : script[n] \in Message
    BY <1>1
  <2>2. /\ SubSeq(script, 1, r) \in Seq(Message)
        /\ Len(SubSeq(script, 1, r)) = (IF 1 <= r THEN r - 1 + 1 ELSE 0)
        /\ \A i \in 1..(r - 1 + 1) : SubSeq(script, 1, r)[i] = script[1 + i - 1]
    BY <1>1, <2>1, SubSeqProperties
  <2> QED
    BY <1>1, <1>3, <2>2
<1>5. ReadableScript = script <=> r = Len(script)
  BY <1>3, <1>4, SubSeqFull
<1>6. ExpectedAll = Got(r)
  <2>1. DOMAIN ReadableScript = 1..Len(ReadableScript)
        /\ \A k \in 1..Len(ReadableScript) : ReadableScript[k] \in Message
    BY <1>4, LenProperties, ElementOfSeq
  <2>2. [k \in DOMAIN ReadableScript |-> Expected(ReadableScript[k])]
          = Each(ExpectedOf, ReadableScript)
    BY <2>1 DEF Each, ExpectedOf
  <2> QED
    BY <1>3, <2>2 DEF ExpectedAll, Got, FlatMap
<1>7. ASSUME NEW k \in 0..r PROVE IsPrefix(Got(k), Got(r))
  <2> DEFINE u == SubSeq(script, 1, k)
             v == SubSeq(script, k + 1, r)
  <2>1. SubSeq(script, 1, r) = u \o v
    <3>1. /\ 1 \in 1..(Len(script) + 1) /\ k \in (1 - 1)..Len(script)
          /\ r \in k..Len(script)
      BY <1>1
    <3> QED
      BY <3>1, ConcatAdjacentSubSeq
  <2>2. u \in Seq(Message) /\ v \in Seq(Message)
    <3>1. /\ \A n \in 1..k : script[n] \in Message
          /\ \A n \in (k + 1)..r : script[n] \in Message
      BY <1>1
    <3> QED
      BY <3>1, SubSeqProperties
  <2> HIDE DEF u, v
  <2>3. /\ FlatMap(ExpectedOf, u) \in Seq(Result) /\ FlatMap(ExpectedOf, v) \in Seq(Result)
        /\ FlatMap(ExpectedOf, u \o v) = FlatMap(ExpectedOf, u) \o FlatMap(ExpectedOf, v)
    BY <2>2, ExpectedMaps, FlatMapFacts
  <2>4. IsPrefix(FlatMap(ExpectedOf, u), FlatMap(ExpectedOf, u \o v))
    BY <2>3, PrefixFacts
  <2> QED
    BY <2>1, <2>4 DEF Got, u
<1> QED
  BY <1>1, <1>3, <1>4, <1>5, <1>6, <1>7

(* All of this is about the script and the receiver, which stay.            *)
LEMMA ScriptStays ==
  ASSUME script' = script, receiver' = receiver
  PROVE  /\ ReadableScript' = ReadableScript
         /\ ExpectedAll' = ExpectedAll
         /\ \A k : After(k)' = After(k) /\ Got(k)' = Got(k)
         /\ \A i, p : Outcome(i, p)' = Outcome(i, p)
<1>1. \A i, p : Outcome(i, p)' = Outcome(i, p)
  BY DEF Outcome, Empties
<1>2. \A m : Expected(m)' = Expected(m) /\ Readable(m)' = Readable(m)
  BY DEF Expected, Readable, Bytesless, Known
<1>3. ReadableScript' = ReadableScript
  <2>1. /\ ReadableScript = IF Bad = {} THEN script ELSE SubSeq(script, 1, Least(Bad) - 1)
        /\ ReadableScript' = IF Bad' = {} THEN script'
                                           ELSE SubSeq(script', 1, Least(Bad') - 1)
    BY DEF ReadableScript, Bad, Least
  <2>2. Bad' = Bad
    BY <1>2 DEF Bad
  <2> QED
    BY <2>1, <2>2
<1>4. ExpectedAll' = ExpectedAll
  BY <1>2, <1>3 DEF ExpectedAll
<1>5. ExpectedOf' = ExpectedOf
  BY <1>2 DEF ExpectedOf
<1>6. \A k : Got(k)' = Got(k)
  BY <1>5 DEF Got
<1>7. \A k : After(k)' = After(k)
  BY DEF After
<1> QED
  BY <1>1, <1>3, <1>4, <1>6, <1>7

-----------------------------------------------------------------------------
(* What is left of a message of which the head was taken, and of the        *)
(* stream: outside of a block or within one, some pieces, then items.       *)

Ending(k)            == <<Separator>> \o After(k)
Following(items, k)  == ItemsBuffers(items) \o Ending(k)
Outside(ps, items, k) == Chunks(ps) \o Following(items, k)
Within(ps, items, k) == Chunks(ps) \o (<<Marker>> \o Following(items, k))

NoBlocks(items) == \A i \in 1..Len(items) : ~items[i].block

(* Outside of a block: a chunk, the separator, or the marker of a block.    *)
ChunkNext(rest, left, plain, k) ==
    \E p \in Piece, ps \in Seq(Piece), items \in Seq(Held) :
        /\ rest = <<ChunkOf(p)>> \o Outside(ps, items, k)
        /\ left = <<p>> \o (ps \o PiecesOf(items))
        /\ plain => NoBlocks(items)
EndNext(rest, left, k) == rest = Ending(k) /\ left = <<>>
BlockNext(rest, left, k) ==
    \E ps \in Seq(Piece), items \in Seq(Held) :
        /\ rest = <<Marker>> \o Within(ps, items, k)
        /\ left = ps \o PiecesOf(items)

(* Sequences of the two kinds that are taken apart here.                    *)
Joins(S) ==
    /\ <<>> \in Seq(S)
    /\ \A s \in Seq(S) : s \o <<>> = s /\ <<>> \o s = s
    /\ \A s, t \in Seq(S) : /\ s \o t \in Seq(S)
                            /\ s # <<>> \/ t # <<>> => s \o t # <<>>
    /\ \A s, t, u \in Seq(S) : (s \o t) \o u = s \o (t \o u)

LEMMA SequencesJoin == \A S : Joins(S)
<1> SUFFICES ASSUME NEW S PROVE Joins(S)
  OBVIOUS
<1>1. <<>> \in Seq(S) /\ \A s \in Seq(S) : s \o <<>> = s /\ <<>> \o s = s
  BY EmptySeq, ConcatEmptySeq
<1>2. \A s, t \in Seq(S) : s \o t \in Seq(S)
  BY ConcatProperties
<1>3. \A s, t \in Seq(S) : s # <<>> \/ t # <<>> => s \o t # <<>>
  BY ConcatEqualIffEmpty
<1>4. \A s, t, u \in Seq(S) : (s \o t) \o u = s \o (t \o u)
  BY ConcatAssociative
<1> QED
  BY <1>1, <1>2, <1>3, <1>4 DEF Joins

LEMMA BareJoins ==
    /\ <<>> \in Seq(Bare)
    /\ \A s \in Seq(Bare) : s \o <<>> = s /\ <<>> \o s = s
    /\ \A s, t \in Seq(Bare) : /\ s \o t \in Seq(Bare)
                               /\ s # <<>> \/ t # <<>> => s \o t # <<>>
    /\ \A s, t, u \in Seq(Bare) : (s \o t) \o u = s \o (t \o u)
BY SequencesJoin DEF Joins

(* The same, with the sequences named only as such.                         *)
IsBare(s) == s \in Seq(Bare)

LEMMA BareJoin ==
    \A s, t : IsBare(s) /\ IsBare(t) => IsBare(s \o t)
BY BareJoins DEF IsBare

Regroups(s, t, u) == (s \o t) \o u = s \o (t \o u)

LEMMA BareRegroups ==
    \A s, t, u : IsBare(s) /\ IsBare(t) /\ IsBare(u) => Regroups(s, t, u)
BY BareJoins DEF IsBare, Regroups

LEMMA PiecesJoin ==
    /\ <<>> \in Seq(Piece)
    /\ \A s \in Seq(Piece) : s \o <<>> = s /\ <<>> \o s = s
    /\ \A s, t \in Seq(Piece) : s \o t \in Seq(Piece)
    /\ \A s, t, u \in Seq(Piece) : (s \o t) \o u = s \o (t \o u)
BY SequencesJoin DEF Joins

IsPieces(s) == s \in Seq(Piece)

LEMMA PiecesRegroup ==
    \A s, t, u : IsPieces(s) /\ IsPieces(t) /\ IsPieces(u) => Regroups(s, t, u)
BY PiecesJoin DEF IsPieces, Regroups

LEMMA LeftTypes ==
  ASSUME script \in Seq(Message), NEW k \in 0..Len(script),
         NEW ps \in Seq(Piece), NEW items \in Seq(Held)
  PROVE  /\ Ending(k) \in Seq(Bare) /\ Ending(k) # <<>>
         /\ Following(items, k) \in Seq(Bare)
         /\ Outside(ps, items, k) \in Seq(Bare) /\ Outside(ps, items, k) # <<>>
         /\ Within(ps, items, k) \in Seq(Bare) /\ Within(ps, items, k) # <<>>
<1>1. After(k) \in Seq(Bare) /\ ItemsBuffers(items) \in Seq(Bare)
      /\ Chunks(ps) \in Seq(Bare)
  BY ScriptFacts, ItemsFacts, ChunksFacts
<1>2. <<Separator>> \in Seq(Bare) /\ <<Separator>> # <<>>
      /\ <<Marker>> \in Seq(Bare) /\ <<Marker>> # <<>>
  BY BareFacts
<1>3. \A s, t \in Seq(Bare) : /\ s \o t \in Seq(Bare)
                              /\ s # <<>> \/ t # <<>> => s \o t # <<>>
  BY ConcatProperties, ConcatEqualIffEmpty
<1>4. Ending(k) \in Seq(Bare) /\ Ending(k) # <<>>
  BY <1>1, <1>2, <1>3 DEF Ending
<1>5. Following(items, k) \in Seq(Bare) /\ Following(items, k) # <<>>
  BY <1>1, <1>3, <1>4 DEF Following
<1>6. Outside(ps, items, k) \in Seq(Bare) /\ Outside(ps, items, k) # <<>>
  BY <1>1, <1>3, <1>5 DEF Outside
<1>7. <<Marker>> \o Following(items, k) \in Seq(Bare)
      /\ <<Marker>> \o Following(items, k) # <<>>
  BY <1>2, <1>3, <1>5
<1>8. Within(ps, items, k) \in Seq(Bare) /\ Within(ps, items, k) # <<>>
  BY <1>1, <1>3, <1>7 DEF Within
<1> QED
  BY <1>4, <1>5, <1>6, <1>8

(* The first piece, if there is one.                                        *)
LEMMA FirstPiece ==
  ASSUME NEW ps \in Seq(Piece), ps # <<>>, NEW s \in Seq(Bare), NEW t \in Seq(Piece)
  PROVE  /\ Head(ps) \in Piece /\ Tail(ps) \in Seq(Piece)
         /\ Chunks(ps) \o s = <<ChunkOf(Head(ps))>> \o (Chunks(Tail(ps)) \o s)
         /\ ps \o t = <<Head(ps)>> \o (Tail(ps) \o t)
<1>1. Head(ps) \in Piece /\ Tail(ps) \in Seq(Piece) /\ ps = <<Head(ps)>> \o Tail(ps)
  BY HeadTailProperties, HeadThenTail
<1>2. Chunks(ps) = <<ChunkOf(Head(ps))>> \o Chunks(Tail(ps))
  BY ChunksFacts
<1> DEFINE a == <<ChunkOf(Head(ps))>>
           b == Chunks(Tail(ps))
           c == <<Head(ps)>>
           d == Tail(ps)
<1>3. a \in Seq(Bare) /\ b \in Seq(Bare) /\ c \in Seq(Piece) /\ d \in Seq(Piece)
  <2>1. ChunkOf(Head(ps)) \in Bare
    BY <1>1, BareFacts
  <2>2. b \in Seq(Bare)
    BY <1>1, ChunksFacts
  <2> QED
    BY <1>1, <2>1, <2>2
<1>4. Chunks(ps) = a \o b /\ ps = c \o d
  BY <1>1, <1>2
<1> HIDE DEF a, b, c, d
<1>5. (a \o b) \o s = a \o (b \o s)
  <2>1. IsBare(a) /\ IsBare(b) /\ IsBare(s)
    BY <1>3 DEF IsBare
  <2>2. Regroups(a, b, s)
    BY <2>1, BareRegroups
  <2> QED
    BY <2>2 DEF Regroups
<1>6. (c \o d) \o t = c \o (d \o t)
  <2>1. IsPieces(c) /\ IsPieces(d) /\ IsPieces(t)
    BY <1>3 DEF IsPieces
  <2>2. Regroups(c, d, t)
    BY <2>1, PiecesRegroup
  <2> QED
    BY <2>2 DEF Regroups
<1> QED
  BY <1>1, <1>4, <1>5, <1>6 DEF a, b, c, d

(* The first item.                                                          *)
LEMMA FirstItem ==
  ASSUME script \in Seq(Message), NEW k \in 0..Len(script),
         NEW items \in Seq(Held), items # <<>>
  PROVE  /\ Head(items).pieces \in Seq(Piece) /\ Tail(items) \in Seq(Held)
         /\ Head(items) = items[1]
         /\ NoBlocks(items) => ~Head(items).block /\ NoBlocks(Tail(items))
         /\ PiecesOf(items) = Head(items).pieces \o PiecesOf(Tail(items))
         /\ ~Head(items).block =>
              Following(items, k) = Outside(Head(items).pieces, Tail(items), k)
         /\ Head(items).block =>
              Following(items, k) = <<Marker>> \o Within(Head(items).pieces, Tail(items), k)
<1> DEFINE h == Head(items)
           t == Tail(items)
<1>1. /\ h \in Held /\ t \in Seq(Held) /\ h = items[1]
      /\ Len(items) \in Nat \ {0} /\ Len(t) = Len(items) - 1
      /\ \A i \in 1..Len(t) : t[i] = items[i + 1]
  BY HeadTailProperties, EmptySeq
<1>2. h.pieces \in Seq(Piece) /\ h.block \in BOOLEAN
  BY <1>1 DEF Held
<1>3. PiecesOf(items) = h.pieces \o PiecesOf(t)
  BY PiecesFacts
<1>4. NoBlocks(items) => ~h.block /\ NoBlocks(t)
  <2> SUFFICES ASSUME NoBlocks(items) PROVE ~h.block /\ NoBlocks(t)
    OBVIOUS
  <2>1. ~h.block
    BY <1>1 DEF NoBlocks
  <2>2. ASSUME NEW i \in 1..Len(t) PROVE ~t[i].block
    <3>1. i + 1 \in 1..Len(items)
      BY <1>1
    <3> QED
      BY <1>1, <3>1 DEF NoBlocks
  <2> QED
    BY <2>1, <2>2 DEF NoBlocks
<1> DEFINE c == Chunks(h.pieces)
           r == ItemsBuffers(t)
           e == Ending(k)
           m == <<Marker>>
<1>5. c \in Seq(Bare) /\ r \in Seq(Bare) /\ e \in Seq(Bare) /\ m \in Seq(Bare)
      /\ Following(t, k) = r \o e
  <2>1. c \in Seq(Bare)
    BY <1>2, ChunksFacts
  <2>2. r \in Seq(Bare)
    BY <1>1, ItemsFacts
  <2>3. e \in Seq(Bare)
    BY LeftTypes, PiecesJoin
  <2>4. m \in Seq(Bare)
    BY BareFacts
  <2> QED
    BY <2>1, <2>2, <2>3, <2>4 DEF Following
<1>6. /\ ~h.block => Following(items, k) = (c \o r) \o e
      /\ h.block => Following(items, k) = (((m \o c) \o m) \o r) \o e
  <2>1. ItemsBuffers(items) = ItemBuffers(h) \o r
    BY ItemsFacts
  <2>2. ItemBuffers(h) = IF h.block THEN (m \o c) \o m ELSE c
    BY DEF ItemBuffers
  <2> QED
    BY <2>1, <2>2 DEF Following
<1>7. Outside(h.pieces, t, k) = c \o (r \o e) /\ Within(h.pieces, t, k) = c \o (m \o (r \o e))
  BY <1>5 DEF Outside, Within
<1> HIDE DEF h, t, c, r, e, m
<1>8. (c \o r) \o e = c \o (r \o e)
  <2>1. IsBare(c) /\ IsBare(r) /\ IsBare(e)
    BY <1>5 DEF IsBare
  <2>2. Regroups(c, r, e)
    BY <2>1, BareRegroups
  <2> QED
    BY <2>2 DEF Regroups
<1>9. (((m \o c) \o m) \o r) \o e = m \o (c \o (m \o (r \o e)))
  <2>1. IsBare(m) /\ IsBare(c) /\ IsBare(r) /\ IsBare(e)
    BY <1>5 DEF IsBare
  <2>2. IsBare(m \o c) /\ IsBare(r \o e)
    BY <2>1, BareJoin
  <2>3. IsBare((m \o c) \o m) /\ IsBare(m \o (r \o e))
    BY <2>1, <2>2, BareJoin
  <2>4. Regroups((m \o c) \o m, r, e)
    BY <2>1, <2>3, BareRegroups
  <2>5. Regroups(m \o c, m, r \o e)
    BY <2>1, <2>2, BareRegroups
  <2>6. Regroups(m, c, m \o (r \o e))
    BY <2>1, <2>3, BareRegroups
  <2> QED
    BY <2>4, <2>5, <2>6, Zenon DEF Regroups
<1> QED
  BY <1>1, <1>2, <1>3, <1>4, <1>6, <1>7, <1>8, <1>9 DEF h, t, c, r, e, m

(* Within a block: a chunk, or the marker at its end.                       *)
LEMMA NextWithin ==
  ASSUME script \in Seq(Message), NEW k \in 0..Len(script),
         NEW ps \in Seq(Piece), NEW items \in Seq(Held)
  PROVE  \/ /\ ps # <<>> /\ Head(ps) \in Piece /\ Tail(ps) \in Seq(Piece)
            /\ Within(ps, items, k) = <<ChunkOf(Head(ps))>> \o Within(Tail(ps), items, k)
            /\ ps \o PiecesOf(items) = <<Head(ps)>> \o (Tail(ps) \o PiecesOf(items))
         \/ /\ ps = <<>>
            /\ Within(ps, items, k) = <<Marker>> \o Outside(ps, items, k)
<1>1. Following(items, k) \in Seq(Bare) /\ <<Marker>> \in Seq(Bare)
  BY LeftTypes, BareFacts
<1>2. <<Marker>> \o Following(items, k) \in Seq(Bare)
  BY <1>1, ConcatProperties
<1>3. CASE ps = <<>>
  <2>1. Chunks(ps) = <<>>
    BY <1>3, ChunksFacts
  <2>2. /\ Within(ps, items, k) = <<Marker>> \o Following(items, k)
        /\ Outside(ps, items, k) = Following(items, k)
    BY <1>1, <1>2, <2>1, ConcatEmptySeq DEF Within, Outside
  <2> QED
    BY <1>3, <2>2
<1>4. CASE ps # <<>>
  <2>1. PiecesOf(items) \in Seq(Piece)
    BY PiecesFacts
  <2> DEFINE s == <<Marker>> \o Following(items, k)
  <2>2. /\ Head(ps) \in Piece /\ Tail(ps) \in Seq(Piece)
        /\ Chunks(ps) \o s = <<ChunkOf(Head(ps))>> \o (Chunks(Tail(ps)) \o s)
        /\ ps \o PiecesOf(items) = <<Head(ps)>> \o (Tail(ps) \o PiecesOf(items))
    <3> HIDE DEF s
    <3>1. s \in Seq(Bare)
      BY <1>2 DEF s
    <3> QED
      BY <1>4, <2>1, <3>1, FirstPiece
  <2> QED
    BY <1>4, <2>2 DEF Within
<1> QED
  BY <1>3, <1>4

LEMMA NextOutside ==
  ASSUME script \in Seq(Message), NEW k \in 0..Len(script)
  PROVE  \A items \in Seq(Held) : \A ps \in Seq(Piece) :
            \/ ChunkNext(Outside(ps, items, k), ps \o PiecesOf(items), NoBlocks(items), k)
            \/ EndNext(Outside(ps, items, k), ps \o PiecesOf(items), k)
            \/ ~NoBlocks(items) /\ BlockNext(Outside(ps, items, k), ps \o PiecesOf(items), k)
<1> DEFINE Next1(ps, items) ==
      \/ ChunkNext(Outside(ps, items, k), ps \o PiecesOf(items), NoBlocks(items), k)
      \/ EndNext(Outside(ps, items, k), ps \o PiecesOf(items), k)
      \/ ~NoBlocks(items) /\ BlockNext(Outside(ps, items, k), ps \o PiecesOf(items), k)
    T == {n \in Nat : \A items \in Seq(Held) : Len(items) = n =>
                        \A ps \in Seq(Piece) : Next1(ps, items)}
<1>1. ASSUME NEW items \in Seq(Held), NEW ps \in Seq(Piece), ps # <<>>
      PROVE  Next1(ps, items)
  <2>1. Following(items, k) \in Seq(Bare) /\ PiecesOf(items) \in Seq(Piece)
    BY LeftTypes, PiecesFacts
  <2>2. /\ Head(ps) \in Piece /\ Tail(ps) \in Seq(Piece)
        /\ Outside(ps, items, k) = <<ChunkOf(Head(ps))>> \o Outside(Tail(ps), items, k)
        /\ ps \o PiecesOf(items) = <<Head(ps)>> \o (Tail(ps) \o PiecesOf(items))
    BY <1>1, <2>1, FirstPiece DEF Outside
  <2>3. ChunkNext(Outside(ps, items, k), ps \o PiecesOf(items), NoBlocks(items), k)
    BY <2>2 DEF ChunkNext
  <2> QED
    BY <2>3
<1>2. ASSUME NEW items \in Seq(Held)
      PROVE  /\ Outside(<<>>, items, k) = Following(items, k)
             /\ <<>> \o PiecesOf(items) = PiecesOf(items)
  <2>1. Chunks(<<>>) = <<>> /\ Following(items, k) \in Seq(Bare)
        /\ PiecesOf(items) \in Seq(Piece)
    BY ChunksFacts, LeftTypes, PiecesFacts, EmptySeq
  <2> QED
    BY <2>1, ConcatEmptySeq DEF Outside
<1>3. 0 \in T
  <2> SUFFICES ASSUME NEW items \in Seq(Held), Len(items) = 0, NEW ps \in Seq(Piece),
                      ps = <<>>
               PROVE  Next1(ps, items)
    BY <1>1
  <2>1. items = <<>>
    BY EmptySeq
  <2>2. Ending(k) \in Seq(Bare)
    BY LeftTypes, EmptySeq
  <2>3. Following(items, k) = Ending(k) /\ PiecesOf(items) = <<>>
    BY <2>1, <2>2, ItemsFacts, PiecesFacts, ConcatEmptySeq DEF Following
  <2>4. EndNext(Outside(ps, items, k), ps \o PiecesOf(items), k)
    BY <1>2, <2>3 DEF EndNext
  <2> QED
    BY <2>4
<1>4. ASSUME NEW n \in Nat, n \in T PROVE n + 1 \in T
  <2> SUFFICES ASSUME NEW items \in Seq(Held), Len(items) = n + 1, NEW ps \in Seq(Piece),
                      ps = <<>>
               PROVE  Next1(ps, items)
    BY <1>1
  <2>1. items # <<>>
    BY EmptySeq
  <2> DEFINE h == Head(items)
             t == Tail(items)
  <2>2. /\ h.pieces \in Seq(Piece) /\ t \in Seq(Held)
        /\ NoBlocks(items) => ~h.block /\ NoBlocks(t)
        /\ PiecesOf(items) = h.pieces \o PiecesOf(t)
        /\ ~h.block => Following(items, k) = Outside(h.pieces, t, k)
        /\ h.block => Following(items, k) = <<Marker>> \o Within(h.pieces, t, k)
        /\ Len(t) = n
    <3>1. Len(t) = n
      BY <2>1, HeadTailProperties
    <3> QED
      BY <2>1, <3>1, FirstItem
  <2> HIDE DEF h, t
  <2>3. /\ Outside(ps, items, k) = Following(items, k)
        /\ ps \o PiecesOf(items) = h.pieces \o PiecesOf(t)
    BY <1>2, <2>2
  <2>4. CASE h.block
    <3>1. BlockNext(Outside(ps, items, k), ps \o PiecesOf(items), k)
      BY <2>2, <2>3, <2>4 DEF BlockNext
    <3> QED
      BY <2>2, <2>4, <3>1
  <2>5. CASE ~h.block
    <3>1. Next1(h.pieces, t)
      BY <1>4, <2>2
    <3>2. /\ Outside(ps, items, k) = Outside(h.pieces, t, k)
          /\ ps \o PiecesOf(items) = h.pieces \o PiecesOf(t)
          /\ NoBlocks(items) => NoBlocks(t)
      BY <2>2, <2>3, <2>5
    <3>3. ASSUME NEW r, NEW l, ChunkNext(r, l, NoBlocks(t), k)
          PROVE  ChunkNext(r, l, NoBlocks(items), k)
      BY <3>2, <3>3 DEF ChunkNext
    <3> QED
      BY <3>1, <3>2, <3>3
  <2> QED
    BY <2>4, <2>5
<1> HIDE DEF T
<1>5. Nat \subseteq T
  BY <1>3, <1>4, NatSetInduction
<1> QED
  <2> SUFFICES ASSUME NEW items \in Seq(Held), NEW ps \in Seq(Piece)
               PROVE  Next1(ps, items)
    OBVIOUS
  <2>1. Len(items) \in Nat
    BY LenProperties
  <2> QED
    BY <1>5, <2>1 DEF T

-----------------------------------------------------------------------------
(* Where in a message the parser is, by what is left of the stream.         *)

InStages  == {"block part", "block"}
OutStages == {"part", "message"}

(* It has taken nothing of message k + 1.                                   *)
Fresh(stage, pieces, rest, k) ==
    stage \in OutStages /\ pieces = <<>> /\ rest = After(k)

(* It has taken its head, and has these pieces.  In memory no block is left.*)
Midway(stage, pieces, rest, k) ==
    \E ps \in Seq(Piece), items \in Seq(Held) :
        /\ Pieces(script[k + 1]) = pieces \o (ps \o PiecesOf(items))
        /\ \/ stage \in OutStages /\ rest = Outside(ps, items, k + 1)
           \/ stage \in InStages /\ rest = Within(ps, items, k + 1)
        /\ receiver.mode[script[k + 1].index] = "memory" =>
             stage = "message" /\ NoBlocks(items)

InMessage(stage, pieces, rest, k) ==
    Fresh(stage, pieces, rest, k) \/ Midway(stage, pieces, rest, k)

OnDisk(k) == receiver.mode[script[k + 1].index] # "memory"

(* The first Buffer of what is left is determined.                          *)
LEMMA FirstBuffer ==
  ASSUME NEW b \in Bare, NEW c \in Bare, NEW s \in Seq(Bare), NEW t \in Seq(Bare),
         <<b>> \o s = <<c>> \o t
  PROVE  b = c /\ s = t
BY SameHeadSameTail

Begins(rest, b, left) == b \in Bare /\ left \in Seq(Bare) /\ rest = <<b>> \o left

LEMMA BeginsOnce ==
    \A rest, b, c, s, t : Begins(rest, b, s) /\ Begins(rest, c, t) => b = c /\ s = t
<1> SUFFICES ASSUME NEW rest, NEW b, NEW c, NEW s, NEW t,
                    Begins(rest, b, s), Begins(rest, c, t)
             PROVE  b = c /\ s = t
  OBVIOUS
<1>1. b \in Bare /\ c \in Bare /\ s \in Seq(Bare) /\ t \in Seq(Bare)
      /\ <<b>> \o s = <<c>> \o t
  BY DEF Begins
<1> QED
  BY <1>1, FirstBuffer

(* The Buffers after k messages are those of the next and of the others.    *)
LEMMA AfterFacts ==
  ASSUME script \in Seq(Message), NEW k \in 0..(Len(script) - 1)
  PROVE  LET m == script[k + 1]
         IN  /\ m \in Message /\ m.items \in Seq(Held) /\ k + 1 \in 0..Len(script)
             /\ After(k + 1) \in Seq(Bare)
             /\ m.small => After(k) = <<SmallBuffer(m)>> \o After(k + 1)
             /\ ~m.small => After(k) = <<HeadOf(m.index)>> \o Outside(<<>>, m.items, k + 1)
             /\ Outside(<<>>, m.items, k + 1) \in Seq(Bare)
<1> DEFINE m == script[k + 1]
<1>1. /\ m \in Message /\ k + 1 \in 0..Len(script) /\ m.items \in Seq(Held)
      /\ After(k) = Buffers(m) \o After(k + 1) /\ After(k + 1) \in Seq(Bare)
  <2>1. m \in Message /\ k + 1 \in 0..Len(script) /\ After(k) = Buffers(m) \o After(k + 1)
    BY ScriptFacts
  <2>2. After(k + 1) \in Seq(Bare)
    BY <2>1, ScriptFacts
  <2> QED
    BY <2>1, <2>2 DEF Message
<1>2. CASE m.small
  <2>1. Buffers(m) = <<SmallBuffer(m)>> /\ SmallBuffer(m) \in Bare
    <3>1. Buffers(m) = <<SmallBuffer(m)>> \o <<>> /\ SmallBuffer(m) \in Bare
      BY <1>1, <1>2, BuffersFacts
    <3>2. <<SmallBuffer(m)>> \in Seq(Bare)
      BY <3>1
    <3> QED
      BY <3>1, <3>2, BareJoins
  <2>2. Outside(<<>>, m.items, k + 1) \in Seq(Bare)
    BY <1>1, LeftTypes, PiecesJoin
  <2> QED
    BY <1>1, <1>2, <2>1, <2>2
<1>3. CASE ~m.small
  <2> DEFINE h == <<HeadOf(m.index)>>
             i == ItemsBuffers(m.items)
             s == <<Separator>>
             a == After(k + 1)
  <2>1. Buffers(m) = h \o (i \o s)
    BY <1>1, <1>3, BuffersFacts
  <2>2. IsBare(h) /\ IsBare(i) /\ IsBare(s) /\ IsBare(a)
    <3>1. HeadOf(m.index) \in Bare /\ Separator \in Bare
      BY <1>1, BareFacts DEF Message
    <3>2. i \in Seq(Bare)
      BY <1>1, ItemsFacts
    <3> QED
      BY <1>1, <3>1, <3>2 DEF IsBare
  <2>3. Outside(<<>>, m.items, k + 1) = i \o (s \o a)
    <3>1. Chunks(<<>>) = <<>>
      BY PiecesJoin, ChunksFacts
    <3>2. Following(m.items, k + 1) = i \o (s \o a)
      BY DEF Following, Ending
    <3>3. Following(m.items, k + 1) \in Seq(Bare)
      BY <1>1, LeftTypes, PiecesJoin
    <3>4. <<>> \o Following(m.items, k + 1) = Following(m.items, k + 1)
      BY <3>3, BareJoins
    <3> QED
      BY <3>1, <3>2, <3>4 DEF Outside
  <2>4. Outside(<<>>, m.items, k + 1) \in Seq(Bare)
    BY <1>1, LeftTypes, PiecesJoin
  <2>5. (h \o (i \o s)) \o a = h \o (i \o (s \o a))
    <3> HIDE DEF h, i, s, a
    <3>1. IsBare(i \o s)
      BY <2>2, BareJoin
    <3>2. Regroups(h, i \o s, a) /\ Regroups(i, s, a)
      BY <2>2, <3>1, BareRegroups
    <3> QED
      BY <3>2 DEF Regroups
  <2> QED
    BY <1>1, <1>3, <2>1, <2>3, <2>4, <2>5
<1> QED
  BY <1>2, <1>3

(* Between messages what comes next is a head of the next message.          *)
LEMMA ReadBetween ==
  ASSUME script \in Seq(Message), NEW k \in 0..Len(script)
  PROVE  /\ After(k) = <<>> => k = Len(script)
         /\ k < Len(script) =>
              /\ After(k) # <<>>
              /\ \A b \in Bare, left \in Seq(Bare) : After(k) = <<b>> \o left =>
                    b.head = script[k + 1].index /\ b.head # None
<1> SUFFICES ASSUME k < Len(script)
             PROVE  /\ After(k) # <<>>
                    /\ \A b \in Bare, left \in Seq(Bare) : After(k) = <<b>> \o left =>
                          b.head = script[k + 1].index /\ b.head # None
  <2>1. Len(script) \in Nat
    BY LenProperties
  <2> QED
    BY <2>1
<1>1. k \in 0..(Len(script) - 1)
  BY LenProperties
<1> DEFINE m == script[k + 1]
<1>2. PICK c \in Bare, t \in Seq(Bare) : After(k) = <<c>> \o t /\ c.head = m.index
  <2>1. m \in Message
    BY <1>1, AfterFacts
  <2>2. CASE m.small
    <3>1. SmallBuffer(m).head = m.index
      BY DEF SmallBuffer, HeadOf, Blank
    <3>2. SmallBuffer(m) \in Bare
      BY <2>1, BuffersFacts
    <3> QED
      BY <1>1, <2>2, <3>1, <3>2, AfterFacts
  <2>3. CASE ~m.small
    <3>1. HeadOf(m.index) \in Bare /\ HeadOf(m.index).head = m.index
      BY <2>1, BareFacts DEF Message, HeadOf, Blank
    <3> QED
      BY <1>1, <2>3, <3>1, AfterFacts
  <2> QED
    BY <2>2, <2>3
<1>3. m.index # None
  BY <1>1, AfterFacts, FramingAssumption DEF Message
<1>4. <<c>> \in Seq(Bare) /\ <<c>> # <<>>
  OBVIOUS
<1>5. After(k) # <<>>
  BY <1>2, <1>4, BareJoins
<1>6. ASSUME NEW b \in Bare, NEW left \in Seq(Bare), After(k) = <<b>> \o left
      PROVE  b.head = m.index
  <2>1. Begins(After(k), b, left) /\ Begins(After(k), c, t)
    BY <1>2, <1>6 DEF Begins
  <2>2. b = c
    BY <2>1, BeginsOnce
  <2> QED
    BY <1>2, <2>2
<1> QED
  BY <1>3, <1>5, <1>6

(* A Buffer read outside of a block ends the message with all its pieces,   *)
(* or leaves it midway, or begins a block, not in memory.                   *)
WholeBy(b, pieces, left, k) ==
    /\ \/ b.chunk # None /\ b.separator /\ pieces \o b.chunk = Pieces(script[k + 1])
       \/ b.chunk = None /\ b.separator /\ pieces = Pieces(script[k + 1])
    /\ left = After(k + 1)

MidwayBy(b, pieces, left, k) ==
    \/ /\ b.chunk # None /\ ~b.separator
       /\ Midway("message", pieces \o b.chunk, left, k)
    \/ /\ b.chunk = None /\ b.head # None /\ ~b.separator
       /\ Midway("message", pieces, left, k)

IntoBlock(pieces, left, k) ==
    OnDisk(k) /\ Midway("block", pieces, left, k) /\ Midway("block part", pieces, left, k)

LEMMA ReadInMessage ==
  ASSUME script \in Seq(Message), NEW k \in 0..(Len(script) - 1),
         Readable(script[k + 1]), NEW pieces \in Seq(Piece),
         NEW b \in Bare, NEW left \in Seq(Bare),
         InMessage("message", pieces, <<b>> \o left, k)
  PROVE  \/ ~b.marker /\ WholeBy(b, pieces, left, k)
         \/ ~b.marker /\ MidwayBy(b, pieces, left, k)
         \/ b.marker /\ IntoBlock(pieces, left, k)
<1> DEFINE m == script[k + 1]
<1>1. /\ m \in Message /\ m.items \in Seq(Held) /\ k + 1 \in 0..Len(script)
      /\ After(k + 1) \in Seq(Bare)
  BY AfterFacts
<1>2. CASE Fresh("message", pieces, <<b>> \o left, k)
  <2>1. pieces = <<>> /\ <<b>> \o left = After(k)
    BY <1>2 DEF Fresh
  <2>2. CASE m.small
    <3>1. /\ SmallBuffer(m) \in Bare /\ SmallBuffer(m).chunk = Pieces(m)
          /\ SmallBuffer(m).separator /\ ~SmallBuffer(m).marker
      BY <1>1, BuffersFacts DEF SmallBuffer, HeadOf, Blank
    <3>2. Pieces(m) \in Seq(Piece) /\ Pieces(m) # None
      BY <1>1, PiecesFacts, FramingAssumption
    <3>3. After(k) = <<SmallBuffer(m)>> \o After(k + 1)
      BY <2>2, AfterFacts
    <3>4. b = SmallBuffer(m) /\ left = After(k + 1)
      <4>1. /\ Begins(<<b>> \o left, b, left)
            /\ Begins(<<b>> \o left, SmallBuffer(m), After(k + 1))
        BY <1>1, <2>1, <3>1, <3>3 DEF Begins
      <4> QED
        BY <4>1, BeginsOnce
    <3>5. pieces \o b.chunk = Pieces(m)
      BY <2>1, <3>1, <3>2, <3>4, PiecesJoin
    <3> QED
      BY <3>1, <3>2, <3>4, <3>5 DEF WholeBy
  <2>3. CASE ~m.small
    <3>1. /\ HeadOf(m.index) \in Bare /\ HeadOf(m.index).head = m.index /\ m.index # None
          /\ HeadOf(m.index).chunk = None
          /\ ~HeadOf(m.index).marker /\ ~HeadOf(m.index).separator
      BY <1>1, BareFacts, FramingAssumption DEF Message, HeadOf, Blank
    <3>2. /\ After(k) = <<HeadOf(m.index)>> \o Outside(<<>>, m.items, k + 1)
          /\ Outside(<<>>, m.items, k + 1) \in Seq(Bare)
      BY <2>3, AfterFacts
    <3>3. b = HeadOf(m.index) /\ left = Outside(<<>>, m.items, k + 1)
      <4>1. /\ Begins(<<b>> \o left, b, left)
            /\ Begins(<<b>> \o left, HeadOf(m.index), Outside(<<>>, m.items, k + 1))
        BY <2>1, <3>1, <3>2 DEF Begins
      <4> QED
        BY <4>1, BeginsOnce
    <3>4. Pieces(m) = pieces \o (<<>> \o PiecesOf(m.items))
      BY <1>1, <2>1, PiecesFacts, PiecesJoin
    <3>5. receiver.mode[m.index] = "memory" => NoBlocks(m.items)
      <4>1. DOMAIN m.items = 1..Len(m.items)
        BY <1>1, LenProperties
      <4> QED
        BY <4>1 DEF Readable, NoBlocks
    <3>6. Midway("message", pieces, left, k)
      BY <1>1, <3>3, <3>4, <3>5, PiecesJoin DEF Midway, OutStages
    <3> QED
      BY <3>1, <3>3, <3>6 DEF MidwayBy
  <2> QED
    BY <2>2, <2>3
<1>3. CASE Midway("message", pieces, <<b>> \o left, k)
  <2>1. PICK ps \in Seq(Piece), items \in Seq(Held) :
          /\ Pieces(m) = pieces \o (ps \o PiecesOf(items))
          /\ <<b>> \o left = Outside(ps, items, k + 1)
          /\ receiver.mode[m.index] = "memory" => NoBlocks(items)
    BY <1>3 DEF Midway, OutStages, InStages
  <2> DEFINE rest == Outside(ps, items, k + 1)
             tail == ps \o PiecesOf(items)
  <2>2. CASE ChunkNext(rest, tail, NoBlocks(items), k + 1)
    <3>1. PICK p \in Piece, qs \in Seq(Piece), its \in Seq(Held) :
            /\ rest = <<ChunkOf(p)>> \o Outside(qs, its, k + 1)
            /\ tail = <<p>> \o (qs \o PiecesOf(its))
            /\ NoBlocks(items) => NoBlocks(its)
      BY <2>2 DEF ChunkNext
    <3>2. /\ ChunkOf(p) \in Bare /\ ChunkOf(p).chunk = <<p>>
          /\ ~ChunkOf(p).marker /\ ~ChunkOf(p).separator
      BY BareFacts DEF ChunkOf, Blank
    <3>3. <<p>> \in Seq(Piece) /\ <<p>> # None
      <4>1. <<p>> \in Seq(Piece)
        OBVIOUS
      <4> QED
        BY <4>1, FramingAssumption
    <3>4. b = ChunkOf(p) /\ left = Outside(qs, its, k + 1)
      <4>1. Outside(qs, its, k + 1) \in Seq(Bare)
        BY <1>1, LeftTypes
      <4>2. /\ Begins(<<b>> \o left, b, left)
            /\ Begins(<<b>> \o left, ChunkOf(p), Outside(qs, its, k + 1))
        BY <2>1, <3>1, <3>2, <4>1 DEF Begins
      <4> QED
        BY <4>2, BeginsOnce
    <3>5. Pieces(m) = (pieces \o <<p>>) \o (qs \o PiecesOf(its))
      <4> DEFINE x == pieces
                 y == <<p>>
                 z == qs \o PiecesOf(its)
      <4>1. IsPieces(x) /\ IsPieces(y) /\ IsPieces(z)
        <5>1. z \in Seq(Piece)
          BY PiecesFacts, PiecesJoin
        <5> QED
          BY <3>3, <5>1 DEF IsPieces
      <4>2. Pieces(m) = x \o (y \o z)
        BY <2>1, <3>1
      <4> HIDE DEF x, y, z
      <4>3. Regroups(x, y, z)
        BY <4>1, PiecesRegroup
      <4>4. Pieces(m) = (x \o y) \o z
        BY <4>2, <4>3 DEF Regroups
      <4> QED
        BY <4>4 DEF x, y, z
    <3>6. Midway("message", pieces \o b.chunk, left, k)
      BY <2>1, <3>1, <3>2, <3>4, <3>5 DEF Midway, OutStages
    <3> QED
      BY <3>2, <3>3, <3>4, <3>6 DEF MidwayBy
  <2>3. CASE EndNext(rest, tail, k + 1)
    <3>1. rest = <<Separator>> \o After(k + 1) /\ tail = <<>>
      BY <2>3 DEF EndNext, Ending
    <3>2. /\ Separator \in Bare /\ Separator.separator /\ ~Separator.marker
          /\ Separator.chunk = None
      BY BareFacts DEF Separator, Blank
    <3>3. b = Separator /\ left = After(k + 1)
      <4>1. /\ Begins(<<b>> \o left, b, left)
            /\ Begins(<<b>> \o left, Separator, After(k + 1))
        BY <1>1, <2>1, <3>1, <3>2 DEF Begins
      <4> QED
        BY <4>1, BeginsOnce
    <3>4. pieces = Pieces(m)
      BY <2>1, <3>1, PiecesJoin
    <3> QED
      BY <3>2, <3>3, <3>4 DEF WholeBy
  <2>4. CASE ~NoBlocks(items) /\ BlockNext(rest, tail, k + 1)
    <3>1. PICK qs \in Seq(Piece), its \in Seq(Held) :
            /\ rest = <<Marker>> \o Within(qs, its, k + 1)
            /\ tail = qs \o PiecesOf(its)
      BY <2>4 DEF BlockNext
    <3>2. Marker \in Bare /\ Marker.marker
      BY BareFacts DEF Marker, Blank
    <3>3. b = Marker /\ left = Within(qs, its, k + 1)
      <4>1. Within(qs, its, k + 1) \in Seq(Bare)
        BY <1>1, LeftTypes
      <4>2. /\ Begins(<<b>> \o left, b, left)
            /\ Begins(<<b>> \o left, Marker, Within(qs, its, k + 1))
        BY <2>1, <3>1, <3>2, <4>1 DEF Begins
      <4> QED
        BY <4>2, BeginsOnce
    <3>4. receiver.mode[m.index] # "memory"
      BY <2>1, <2>4
    <3> QED
      BY <2>1, <3>1, <3>2, <3>3, <3>4 DEF IntoBlock, OnDisk, Midway, InStages
  <2> QED
    BY <1>1, <2>2, <2>3, <2>4, NextOutside
<1> QED
  BY <1>2, <1>3 DEF InMessage

(* Within a block, a Buffer has its next piece or ends it, not in memory.   *)
LEMMA ReadInBlock ==
  ASSUME script \in Seq(Message), NEW k \in 0..(Len(script) - 1),
         NEW pieces \in Seq(Piece), NEW b \in Bare, NEW left \in Seq(Bare),
         InMessage("block", pieces, <<b>> \o left, k)
  PROVE  \/ ~b.marker /\ b.chunk # None /\ Midway("block", pieces \o b.chunk, left, k)
         \/ b.marker /\ OnDisk(k) /\ Midway("part", pieces, left, k)
<1> DEFINE m == script[k + 1]
<1>1. m \in Message /\ k + 1 \in 0..Len(script)
  BY AfterFacts
<1>2. PICK ps \in Seq(Piece), items \in Seq(Held) :
        /\ Pieces(m) = pieces \o (ps \o PiecesOf(items))
        /\ <<b>> \o left = Within(ps, items, k + 1)
        /\ receiver.mode[m.index] # "memory"
  BY DEF InMessage, Fresh, Midway, OutStages, InStages
<1>3. CASE /\ ps # <<>> /\ Head(ps) \in Piece /\ Tail(ps) \in Seq(Piece)
           /\ Within(ps, items, k + 1)
                = <<ChunkOf(Head(ps))>> \o Within(Tail(ps), items, k + 1)
           /\ ps \o PiecesOf(items) = <<Head(ps)>> \o (Tail(ps) \o PiecesOf(items))
  <2> DEFINE p  == Head(ps)
             qs == Tail(ps)
  <2>1. /\ ChunkOf(p) \in Bare /\ ChunkOf(p).chunk = <<p>> /\ ~ChunkOf(p).marker
    BY <1>3, BareFacts DEF ChunkOf, Blank
  <2>2. <<p>> \in Seq(Piece) /\ <<p>> # None
    <3>1. <<p>> \in Seq(Piece)
      BY <1>3
    <3> QED
      BY <3>1, FramingAssumption
  <2>3. b = ChunkOf(p) /\ left = Within(qs, items, k + 1)
    <3>1. Within(qs, items, k + 1) \in Seq(Bare)
      BY <1>1, <1>3, LeftTypes
    <3>2. /\ Begins(<<b>> \o left, b, left)
          /\ Begins(<<b>> \o left, ChunkOf(p), Within(qs, items, k + 1))
      BY <1>2, <1>3, <2>1, <3>1 DEF Begins
    <3> QED
      BY <3>2, BeginsOnce
  <2>4. Pieces(m) = (pieces \o <<p>>) \o (qs \o PiecesOf(items))
    <3> DEFINE x == pieces
               y == <<p>>
               z == qs \o PiecesOf(items)
    <3>1. IsPieces(x) /\ IsPieces(y) /\ IsPieces(z)
      <4>1. z \in Seq(Piece)
        BY <1>3, PiecesFacts, PiecesJoin
      <4> QED
        BY <2>2, <4>1 DEF IsPieces
    <3>2. Pieces(m) = x \o (y \o z)
      BY <1>2, <1>3
    <3> HIDE DEF x, y, z
    <3>3. Regroups(x, y, z)
      BY <3>1, PiecesRegroup
    <3>4. Pieces(m) = (x \o y) \o z
      BY <3>2, <3>3 DEF Regroups
    <3> QED
      BY <3>4 DEF x, y, z
  <2>5. Midway("block", pieces \o b.chunk, left, k)
    BY <1>2, <1>3, <2>1, <2>3, <2>4 DEF Midway, InStages
  <2> QED
    BY <2>1, <2>2, <2>3, <2>5
<1>4. CASE ps = <<>> /\ Within(ps, items, k + 1) = <<Marker>> \o Outside(ps, items, k + 1)
  <2>1. Marker \in Bare /\ Marker.marker
    BY BareFacts DEF Marker, Blank
  <2>2. b = Marker /\ left = Outside(ps, items, k + 1)
    <3>1. Outside(ps, items, k + 1) \in Seq(Bare)
      BY <1>1, LeftTypes
    <3>2. /\ Begins(<<b>> \o left, b, left)
          /\ Begins(<<b>> \o left, Marker, Outside(ps, items, k + 1))
      BY <1>2, <1>4, <2>1, <3>1 DEF Begins
    <3> QED
      BY <3>2, BeginsOnce
  <2> QED
    BY <1>2, <2>1, <2>2 DEF OnDisk, Midway, OutStages
<1> QED
  BY <1>1, <1>3, <1>4, NextWithin

-----------------------------------------------------------------------------
(* The stream, and where in the script the parser is.                       *)

ToCome == out \o AllBuffers(toSend)
Rest   == Core(wire) \o ToCome

SaneAt(stage, now, got, rest) ==
    \E k \in 0..Len(ReadableScript) :
        /\ got = Got(k)
        /\ \/ stage = "between" /\ rest = After(k)
           \/ /\ k < Len(ReadableScript)
              /\ now.index = script[k + 1].index
              /\ InMessage(stage, now.pieces, rest, k)
           \/ stage \in {"raised", "stuck"}
           \/ stage = "ended" /\ k = Len(script)

(* It reads as it should, or has read past what it can.                     *)
Sane   == SaneAt(parser, parsing, received, Rest)
Beyond == ReadableScript # script /\ IsPrefix(ExpectedAll, received)

(* To a parser that does not know skip requests, they only stand where they *)
(* are taken for the beginning of the message that follows.                 *)
Inert(s) == s # <<>> /\ s[1].head \in {None, First}
SkipsInert ==
    receiver.aware \/ \A i \in 1..Len(wire) : wire[i].skip =>
        Inert(Core(SubSeq(wire, i + 1, Len(wire))) \o ToCome)

ParseInv ==
    /\ FramingTypes
    /\ sending = "ended" => out = <<>> /\ toSend = <<>>
    /\ ~stray => SkipsInert /\ (Sane \/ Beyond)

(* What is said here of the parser is said of it after a step as well.      *)
LEMMA SaneStays ==
  ASSUME script' = script, receiver' = receiver,
         SaneAt(parser', parsing', received', Rest')
  PROVE  Sane'
<1>1. ReadableScript' = ReadableScript /\ Len(script') = Len(script)
  BY ScriptStays
<1>2. \A k : After(k)' = After(k) /\ Got(k)' = Got(k)
  BY ScriptStays
<1>3. PICK k \in 0..Len(ReadableScript) :
        /\ received' = Got(k)
        /\ \/ parser' = "between" /\ Rest' = After(k)
           \/ /\ k < Len(ReadableScript)
              /\ parsing'.index = script[k + 1].index
              /\ InMessage(parser', parsing'.pieces, Rest', k)
           \/ parser' \in {"raised", "stuck"}
           \/ parser' = "ended" /\ k = Len(script)
  BY DEF SaneAt
<1>4. \A ps, items : /\ Outside(ps, items, k + 1)' = Outside(ps, items, k + 1)
                     /\ Within(ps, items, k + 1)' = Within(ps, items, k + 1)
  BY <1>2 DEF Outside, Within, Following, Ending
<1>5. InMessage(parser', parsing'.pieces, Rest', k) => InMessage(parser, parsing.pieces, Rest, k)'
  BY <1>2, <1>4 DEF InMessage, Fresh, Midway
<1> QED
  BY <1>1, <1>2, <1>3, <1>5 DEF Sane, SaneAt

-----------------------------------------------------------------------------
(* Whatever the sender does, the stream stays what it was.                  *)

LEMMA RestTypes ==
  ASSUME FramingTypes
  PROVE  ToCome \in Seq(Bare) /\ Rest \in Seq(Bare)
<1>1. ToCome \in Seq(Bare)
  BY AllBuffersFacts, BareJoins DEF ToCome, FramingTypes
<1>2. Core(wire) \in Seq(Bare)
  BY CoreFacts DEF FramingTypes
<1> QED
  BY <1>1, <1>2, BareJoins DEF Rest

(* A message begins with a Buffer of its index.                             *)
LEMMA BuffersBegin ==
  ASSUME NEW m \in Message
  PROVE  \E c \in Bare, t \in Seq(Bare) : Buffers(m) = <<c>> \o t /\ c.head = m.index
<1>1. CASE m.small
  <2>1. SmallBuffer(m).head = m.index
    BY DEF SmallBuffer, HeadOf, Blank
  <2>2. Buffers(m) = <<SmallBuffer(m)>> \o <<>> /\ SmallBuffer(m) \in Bare
    BY <1>1, BuffersFacts
  <2> QED
    BY <2>1, <2>2, BareJoins
<1>2. CASE ~m.small
  <2> DEFINE t == ItemsBuffers(m.items) \o <<Separator>>
  <2>1. HeadOf(m.index).head = m.index /\ HeadOf(m.index) \in Bare
    BY BareFacts DEF Message, HeadOf, Blank
  <2>2. t \in Seq(Bare)
    <3>1. ItemsBuffers(m.items) \in Seq(Bare) /\ <<Separator>> \in Seq(Bare)
      BY ItemsFacts, BareFacts DEF Message
    <3> QED
      BY <3>1, BareJoins
  <2>3. Buffers(m) = <<HeadOf(m.index)>> \o t
    BY <1>2, BuffersFacts
  <2> QED
    BY <2>1, <2>2, <2>3
<1> QED
  BY <1>1, <1>2

(* The first Buffer of <<b>> \o s.                                          *)
LEMMA FirstIs ==
  ASSUME NEW b \in Bare, NEW s \in Seq(Bare)
  PROVE  <<b>> \o s # <<>> /\ (<<b>> \o s)[1] = b /\ <<b>> \o s \in Seq(Bare)
<1>1. <<b>> \in Seq(Bare) /\ Len(<<b>>) = 1 /\ <<b>>[1] = b /\ <<b>> # <<>>
  OBVIOUS
<1>2. /\ <<b>> \o s \in Seq(Bare)
      /\ \A i \in 1..(Len(<<b>>) + Len(s)) :
           (<<b>> \o s)[i] = IF i <= Len(<<b>>) THEN <<b>>[i] ELSE s[i - Len(<<b>>)]
  BY <1>1, ConcatProperties
<1>3. Len(s) \in Nat /\ 1 \in 1..(Len(<<b>>) + Len(s)) /\ 1 <= Len(<<b>>)
  BY <1>1, LenProperties
<1>4. (<<b>> \o s)[1] = b
  BY <1>1, <1>2, <1>3
<1>5. <<b>> \o s # <<>>
  BY <1>1, BareJoins
<1> QED
  BY <1>2, <1>4, <1>5

(* The next message's Buffers come to what the sender has at hand.          *)
LEMMA NextMessageKeeps ==
  ASSUME FramingTypes, NextMessage
  PROVE  ToCome' = ToCome /\ wire' = wire /\ FramingTypes'
<1>1. /\ out = <<>> /\ toSend # <<>> /\ toSend \in Seq(Message)
      /\ out' = Buffers(Head(toSend)) /\ toSend' = Tail(toSend)
      /\ UNCHANGED <<wire, parsing, received, receiver, script>>
  BY DEF FramingTypes, NextMessage, receiverVars
<1>2. Head(toSend) \in Message /\ Tail(toSend) \in Seq(Message)
  BY <1>1, HeadTailProperties
<1>3. AllBuffers(toSend) = out' \o AllBuffers(toSend') /\ AllBuffers(toSend) \in Seq(Bare)
  BY <1>1, AllBuffersFacts
<1>4. ToCome = AllBuffers(toSend)
  BY <1>1, <1>3, BareJoins DEF ToCome
<1>5. ToCome' = out' \o AllBuffers(toSend')
  BY DEF ToCome, AllBuffers
<1>6. out' \in Seq(Bare)
  BY <1>1, <1>2, BuffersFacts
<1>7. FramingTypes'
  BY <1>1, <1>2, <1>6 DEF FramingTypes
<1> QED
  BY <1>1, <1>3, <1>4, <1>5, <1>7

(* A Buffer goes out: whatever was on the wire before it.                   *)
LEMMA SendBufferKeeps ==
  ASSUME FramingTypes, SendBuffer
  PROVE  /\ FramingTypes'
         /\ \E b \in OnWire :
              /\ ~b.skip /\ wire' = Append(wire, b)
              /\ \A w \in Seq(OnWire) : Core(Append(w, b)) \o ToCome' = Core(w) \o ToCome
<1>1. /\ out # <<>> /\ out \in Seq(Bare) /\ out' = Tail(out)
      /\ toSend \in Seq(Message) /\ toSend' = toSend /\ wire \in Seq(OnWire)
      /\ UNCHANGED <<parsing, received, receiver, script>>
  BY DEF FramingTypes, SendBuffer, receiverVars
<1>2. PICK s \in BOOLEAN : wire' = Append(wire, [Head(out) EXCEPT !.signal = s])
  BY DEF SendBuffer
<1> DEFINE b == [Head(out) EXCEPT !.signal = s]
<1>3. /\ Head(out) \in Bare /\ Tail(out) \in Seq(Bare)
      /\ out = <<Head(out)>> \o Tail(out)
  BY <1>1, HeadTailProperties, HeadThenTail
<1>4. b \in OnWire /\ ~b.skip /\ Unsigned(b) = Head(out)
  BY <1>3 DEF Bare, OnWire, Unsigned
<1>5. FramingTypes'
  <2>1. wire' \in Seq(OnWire)
    BY <1>1, <1>2, <1>4
  <2> QED
    BY <1>1, <1>3, <2>1 DEF FramingTypes
<1>6. ASSUME NEW w \in Seq(OnWire)
      PROVE  Core(Append(w, b)) \o ToCome' = Core(w) \o ToCome
  <2> DEFINE c == Core(w)
             h == <<Head(out)>>
             t == Tail(out)
             a == AllBuffers(toSend)
  <2>1. IsBare(c) /\ IsBare(h) /\ IsBare(t) /\ IsBare(a)
    <3>1. c \in Seq(Bare)
      BY CoreFacts
    <3>2. a \in Seq(Bare)
      BY <1>1, AllBuffersFacts
    <3>3. h \in Seq(Bare)
      BY <1>3
    <3> QED
      BY <1>3, <3>1, <3>2, <3>3 DEF IsBare
  <2>2. Core(Append(w, b)) = c \o h
    BY <1>4, CoreFacts
  <2>3. ToCome' = t \o a
    BY <1>1 DEF ToCome, AllBuffers
  <2>4. ToCome = (h \o t) \o a
    BY <1>3 DEF ToCome
  <2> HIDE DEF b, c, h, t, a
  <2>5. IsBare(t \o a)
    BY <2>1, BareJoin
  <2>6. Regroups(h, t, a) /\ Regroups(c, h, t \o a)
    BY <2>1, <2>5, BareRegroups
  <2>7. (c \o h) \o (t \o a) = c \o ((h \o t) \o a)
    BY <2>6 DEF Regroups
  <2> QED
    BY <2>2, <2>3, <2>4, <2>7 DEF c
<1> QED
  BY <1>2, <1>4, <1>5, <1>6

(* A skip request goes out: nothing of the stream.                          *)
LEMMA SendSkipKeeps ==
  ASSUME FramingTypes, SendSkip
  PROVE  /\ FramingTypes'
         /\ wire' = Append(wire, Skip) /\ ToCome' = ToCome
         /\ \A w \in Seq(OnWire) : Core(Append(w, Skip)) = Core(w)
<1>1. UNCHANGED <<toSend, out, parsing, received, receiver, script>>
  BY DEF SendSkip, receiverVars
<1>2. wire' = Append(wire, Skip) /\ wire' \in Seq(OnWire)
  BY BareFacts DEF SendSkip, FramingTypes
<1> QED
  BY <1>1, <1>2, CoreFacts DEF FramingTypes, ToCome, AllBuffers

(* Unless it is stray, what follows a skip request begins a message of      *)
(* index First, or goes on with one.                                        *)
LEMMA NotStray ==
  ASSUME FramingTypes, ~BeforeAnother
  PROVE  Inert(ToCome)
<1>1. /\ out \in Seq(Bare) /\ toSend \in Seq(Message) /\ AllBuffers(toSend) \in Seq(Bare)
  BY AllBuffersFacts DEF FramingTypes
<1>2. CASE out = <<>>
  <2>1. toSend # <<>> /\ Head(toSend).index = First
    BY <1>2 DEF BeforeAnother
  <2>2. Head(toSend) \in Message /\ Tail(toSend) \in Seq(Message)
    BY <1>1, <2>1, HeadTailProperties
  <2>3. PICK c \in Bare, t \in Seq(Bare) : Buffers(Head(toSend)) = <<c>> \o t /\ c.head = First
    BY <2>1, <2>2, BuffersBegin
  <2> DEFINE a == <<c>>
             r == AllBuffers(Tail(toSend))
  <2>4. r \in Seq(Bare) /\ a \in Seq(Bare)
    <3>1. r \in Seq(Bare)
      BY <2>2, AllBuffersFacts
    <3>2. a \in Seq(Bare)
      OBVIOUS
    <3> QED
      BY <3>1, <3>2
  <2>5. ToCome = (a \o t) \o r
    BY <1>1, <1>2, <2>1, <2>3, AllBuffersFacts, BareJoins DEF ToCome
  <2>6. (a \o t) \o r = a \o (t \o r) /\ t \o r \in Seq(Bare)
    <3>1. IsBare(a) /\ IsBare(t) /\ IsBare(r)
      BY <2>4 DEF IsBare
    <3> HIDE DEF a, r
    <3>2. IsBare(t \o r)
      BY <3>1, BareJoin
    <3>3. Regroups(a, t, r)
      BY <3>1, BareRegroups
    <3> QED
      BY <3>2, <3>3 DEF IsBare, Regroups
  <2> QED
    BY <2>3, <2>5, <2>6, FirstIs DEF Inert
<1>3. CASE out # <<>>
  <2>1. Head(out).head \in {None, First}
    BY <1>3 DEF BeforeAnother
  <2>2. Head(out) \in Bare /\ Tail(out) \in Seq(Bare) /\ out = <<Head(out)>> \o Tail(out)
    BY <1>1, <1>3, HeadTailProperties, HeadThenTail
  <2> DEFINE a == <<Head(out)>>
             t == Tail(out)
             r == AllBuffers(toSend)
  <2>3. ToCome = (a \o t) \o r
    BY <2>2 DEF ToCome
  <2>4. (a \o t) \o r = a \o (t \o r) /\ t \o r \in Seq(Bare)
    <3>1. IsBare(a) /\ IsBare(t) /\ IsBare(r)
      BY <1>1, <2>2 DEF IsBare
    <3> HIDE DEF a, t, r
    <3>2. IsBare(t \o r)
      BY <3>1, BareJoin
    <3>3. Regroups(a, t, r)
      BY <3>1, BareRegroups
    <3> QED
      BY <3>2, <3>3 DEF IsBare, Regroups
  <2> QED
    BY <2>1, <2>2, <2>3, <2>4, FirstIs DEF Inert
<1> QED
  BY <1>2, <1>3

-----------------------------------------------------------------------------
(* The skip requests on the wire.                                           *)

LEMMA FromTail ==
  ASSUME NEW S, NEW s \in Seq(S), s # <<>>
  PROVE  /\ SubSeq(s, 2, Len(s)) = Tail(s)
         /\ \A i \in 1..Len(Tail(s)) :
              /\ i + 1 \in 1..Len(s) /\ Tail(s)[i] = s[i + 1]
              /\ SubSeq(Tail(s), i + 1, Len(Tail(s))) = SubSeq(s, i + 1 + 1, Len(s))
<1> DEFINE n == Len(s)
           t == Tail(s)
<1>1. /\ n \in Nat \ {0} /\ t \in Seq(S) /\ Len(t) = n - 1
      /\ \A i \in 1..(n - 1) : t[i] = s[i + 1] /\ s[i + 1] \in S
  BY HeadTailProperties, EmptySeq, LenProperties, ElementOfSeq
<1>2. ASSUME NEW j \in 2..(n + 1)
      PROVE  /\ SubSeq(s, j, n) \in Seq(S)
             /\ Len(SubSeq(s, j, n)) = n + 1 - j
             /\ \A i \in 1..(n + 1 - j) : SubSeq(s, j, n)[i] = s[j + i - 1]
  <2>1. j \in 1..(n + 1) /\ n \in (j - 1)..n
    BY <1>1
  <2>2. \A i \in j..n : s[i] \in S
    BY <1>1, ElementOfSeq
  <2>3. /\ SubSeq(s, j, n) \in Seq(S)
        /\ Len(SubSeq(s, j, n)) = IF j <= n THEN n - j + 1 ELSE 0
        /\ \A i \in 1..(n - j + 1) : SubSeq(s, j, n)[i] = s[j + i - 1]
    BY <1>1, <2>2, SubSeqProperties
  <2> QED
    BY <1>1, <2>3
<1>3. SubSeq(s, 2, n) = t
  <2>1. 2 \in 2..(n + 1)
    BY <1>1
  <2>2. \A i \in 1..(n - 1) : SubSeq(s, 2, n)[i] = t[i]
    BY <1>1, <1>2, <2>1
  <2>3. Len(SubSeq(s, 2, n)) = n - 1 /\ SubSeq(s, 2, n) \in Seq(S)
    BY <1>1, <1>2, <2>1
  <2> QED
    BY <1>1, <2>2, <2>3, SeqEqual
<1>4. ASSUME NEW i \in 1..Len(t)
      PROVE  SubSeq(t, i + 1, Len(t)) = SubSeq(s, i + 1 + 1, n)
  <2> DEFINE a == SubSeq(t, i + 1, Len(t))
             b == SubSeq(s, i + 1 + 1, n)
  <2>1. /\ a \in Seq(S)
        /\ Len(a) = IF i + 1 <= Len(t) THEN Len(t) - (i + 1) + 1 ELSE 0
        /\ \A j \in 1..(Len(t) - (i + 1) + 1) : a[j] = t[i + 1 + j - 1]
    <3>1. \A j \in 1..Len(t) : t[j] \in S
      BY <1>1
    <3> HIDE DEF t
    <3>2. i + 1 \in 1..(Len(t) + 1) /\ Len(t) \in i..Len(t) /\ i + 1 \in Int
      BY <1>1
    <3>3. \A j \in (i + 1)..Len(t) : t[j] \in S
      BY <1>1, <3>1
    <3> QED
      BY <1>1, <3>2, <3>3, SubSeqProperties
  <2>2. /\ b \in Seq(S) /\ Len(b) = n + 1 - (i + 1 + 1)
        /\ \A j \in 1..(n + 1 - (i + 1 + 1)) : b[j] = s[i + 1 + 1 + j - 1]
    <3>1. i + 1 + 1 \in 2..(n + 1)
      BY <1>1
    <3> QED
      BY <1>2, <3>1
  <2> HIDE DEF a, b, t, n
  <2>3. Len(a) = n - 1 - i /\ \A j \in 1..(n - 1 - i) : a[j] = t[i + j]
    <3>1. n - 1 - i = Len(t) - (i + 1) + 1
      BY <1>1
    <3>2. \A j \in 1..(n - 1 - i) : i + 1 + j - 1 = i + j
      BY <1>1
    <3> QED
      BY <1>1, <2>1, <3>1, <3>2
  <2>4. Len(b) = n - 1 - i /\ \A j \in 1..(n - 1 - i) : b[j] = s[i + j + 1]
    <3>1. n - 1 - i = n + 1 - (i + 1 + 1)
      BY <1>1
    <3>2. \A j \in 1..(n - 1 - i) : i + 1 + 1 + j - 1 = i + j + 1
      BY <1>1
    <3> QED
      BY <2>2, <3>1, <3>2
  <2>5. \A j \in 1..(n - 1 - i) : t[i + j] = s[i + j + 1]
    <3>1. \A j \in 1..(n - 1 - i) : i + j \in 1..(n - 1)
      BY <1>1
    <3> QED
      BY <1>1, <3>1
  <2>6. \A j \in 1..Len(a) : a[j] = b[j]
    BY <2>3, <2>4, <2>5
  <2>7. a = b
    BY <2>1, <2>2, <2>3, <2>4, <2>6, SeqEqual
  <2> QED
    BY <2>7 DEF a, b, n
<1> QED
  BY <1>1, <1>3, <1>4

(* t is s and then x, from any of its places as well.                       *)
Extends(s, x, t, S) ==
    /\ Len(t) = Len(s) + 1 /\ t[Len(s) + 1] = x
    /\ SubSeq(t, Len(s) + 2, Len(s) + 1) = <<>>
    /\ \A i \in 1..Len(s) :
         /\ t[i] = s[i]
         /\ SubSeq(s, i + 1, Len(s)) \in Seq(S)
         /\ SubSeq(t, i + 1, Len(s) + 1) = Append(SubSeq(s, i + 1, Len(s)), x)

LEMMA FromAppend ==
  ASSUME NEW S, NEW s \in Seq(S), NEW x \in S
  PROVE  Extends(s, x, Append(s, x), S)
<1> DEFINE n == Len(s)
           t == Append(s, x)
<1>1. /\ n \in Nat /\ t \in Seq(S) /\ Len(t) = n + 1 /\ t[n + 1] = x
      /\ \A i \in 1..n : t[i] = s[i] /\ s[i] \in S
  BY AppendProperties, LenProperties, ElementOfSeq
<1> HIDE DEF t
<1>2. \A i \in 1..(n + 1) : t[i] \in S
  BY <1>1
<1>3. SubSeq(t, n + 2, n + 1) = <<>>
  <2>1. /\ SubSeq(t, n + 2, n + 1) \in Seq(S)
        /\ Len(SubSeq(t, n + 2, n + 1)) = IF n + 2 <= n + 1 THEN n + 1 - (n + 2) + 1 ELSE 0
    BY <1>1, <1>2, SubSeqProperties
  <2> QED
    BY <1>1, <2>1, EmptySeq
<1>4. ASSUME NEW i \in 1..n
      PROVE  /\ SubSeq(s, i + 1, n) \in Seq(S)
             /\ SubSeq(t, i + 1, n + 1) = Append(SubSeq(s, i + 1, n), x)
  <2> DEFINE a == SubSeq(s, i + 1, n)
             b == SubSeq(t, i + 1, n + 1)
             c == Append(a, x)
  <2>1. /\ a \in Seq(S) /\ Len(a) = n - i
        /\ \A j \in 1..(n - i) : a[j] = s[i + j]
    <3>1. /\ a \in Seq(S) /\ Len(a) = IF i + 1 <= n THEN n - (i + 1) + 1 ELSE 0
          /\ \A j \in 1..(n - (i + 1) + 1) : a[j] = s[i + 1 + j - 1]
      BY <1>1, SubSeqProperties
    <3> QED
      BY <1>1, <3>1
  <2>2. /\ b \in Seq(S) /\ Len(b) = n - i + 1
        /\ \A j \in 1..(n - i + 1) : b[j] = t[i + j]
    <3>1. /\ b \in Seq(S)
          /\ Len(b) = IF i + 1 <= n + 1 THEN n + 1 - (i + 1) + 1 ELSE 0
          /\ \A j \in 1..(n + 1 - (i + 1) + 1) : b[j] = t[i + 1 + j - 1]
      BY <1>1, <1>2, SubSeqProperties
    <3> QED
      BY <1>1, <3>1
  <2> HIDE DEF a, b
  <2>3. /\ c \in Seq(S) /\ Len(c) = Len(a) + 1 /\ c[Len(a) + 1] = x
        /\ \A j \in 1..Len(a) : c[j] = a[j]
    BY <2>1, AppendProperties
  <2> HIDE DEF c
  <2>4. \A j \in 1..(n - i + 1) : b[j] = c[j]
    <3> SUFFICES ASSUME NEW j \in 1..(n - i + 1) PROVE b[j] = c[j]
      OBVIOUS
    <3>1. CASE j = n - i + 1
      <4>1. i + j = n + 1 /\ j = Len(a) + 1
        BY <1>1, <2>1, <3>1
      <4> QED
        BY <1>1, <2>2, <2>3, <4>1
    <3>2. CASE j # n - i + 1
      <4>1. j \in 1..(n - i) /\ i + j \in 1..n
        BY <1>1, <3>2
      <4> QED
        BY <1>1, <2>1, <2>2, <2>3, <4>1
    <3> QED
      BY <3>1, <3>2
  <2>5. b = c
    <3>1. Len(b) = Len(c)
      BY <1>1, <2>1, <2>2, <2>3
    <3> QED
      BY <2>2, <2>3, <2>4, <3>1, SeqEqual
  <2> QED
    BY <2>1, <2>5 DEF a, b, c
<1> QED
  BY <1>1, <1>3, <1>4 DEF t, Extends

(* They stay harmless when a Buffer comes after them, ...                   *)
LEMMA SkipsAppend ==
  ASSUME FramingTypes, SkipsInert, receiver' = receiver,
         NEW b \in OnWire, wire' = Append(wire, b),
         \A w \in Seq(OnWire) : Core(Append(w, b)) \o ToCome' = Core(w) \o ToCome,
         b.skip => receiver.aware \/ Inert(ToCome')
  PROVE  SkipsInert'
<1> SUFFICES ASSUME ~receiver.aware, NEW i \in 1..Len(wire'), wire'[i].skip
             PROVE  Inert(Core(SubSeq(wire', i + 1, Len(wire'))) \o ToCome')
  BY DEF SkipsInert, Inert, Core, First, Known
<1>1. wire \in Seq(OnWire) /\ Len(wire) \in Nat
  BY LenProperties DEF FramingTypes
<1>2. /\ Len(wire') = Len(wire) + 1 /\ wire'[Len(wire) + 1] = b
      /\ SubSeq(wire', Len(wire) + 2, Len(wire) + 1) = <<>>
      /\ \A j \in 1..Len(wire) :
           /\ wire'[j] = wire[j]
           /\ SubSeq(wire, j + 1, Len(wire)) \in Seq(OnWire)
           /\ SubSeq(wire', j + 1, Len(wire) + 1)
                = Append(SubSeq(wire, j + 1, Len(wire)), b)
  <2>1. Extends(wire, b, wire', OnWire)
    BY <1>1, FromAppend
  <2> QED
    BY <2>1 DEF Extends
<1>3. CASE i = Len(wire) + 1
  <2>1. i + 1 = Len(wire) + 2 /\ Inert(ToCome')
    BY <1>1, <1>2, <1>3
  <2>2. Core(SubSeq(wire', i + 1, Len(wire'))) = <<>>
    BY <1>2, <2>1, CoreFacts
  <2>3. <<>> \o ToCome' = ToCome'
    <3>1. <<>> \o ToCome = ToCome
      BY RestTypes, BareJoins
    <3>2. Core(<<>>) = <<>> /\ <<>> \in Seq(OnWire)
      BY CoreFacts, EmptySeq
    <3>3. Core(Append(<<>>, b)) \o ToCome' = ToCome
      BY <3>1, <3>2
    <3> QED
      OBVIOUS
  <2> QED
    BY <2>1, <2>2, <2>3
<1>4. CASE i # Len(wire) + 1
  <2>1. i \in 1..Len(wire) /\ wire[i].skip
    BY <1>1, <1>2, <1>4
  <2>2. Inert(Core(SubSeq(wire, i + 1, Len(wire))) \o ToCome)
    BY <2>1 DEF SkipsInert
  <2> QED
    BY <1>2, <2>1, <2>2
<1> QED
  BY <1>3, <1>4

(* ... and when the first Buffer is read.                                   *)
LEMMA SkipsTail ==
  ASSUME FramingTypes, SkipsInert, receiver' = receiver,
         wire # <<>>, wire' = Tail(wire), ToCome' = ToCome
  PROVE  SkipsInert'
<1> SUFFICES ASSUME ~receiver.aware, NEW i \in 1..Len(wire'), wire'[i].skip
             PROVE  Inert(Core(SubSeq(wire', i + 1, Len(wire'))) \o ToCome')
  BY DEF SkipsInert, Inert, Core, First, Known
<1>1. wire \in Seq(OnWire)
  BY DEF FramingTypes
<1>2. /\ i + 1 \in 1..Len(wire) /\ wire'[i] = wire[i + 1]
      /\ SubSeq(wire', i + 1, Len(wire')) = SubSeq(wire, i + 1 + 1, Len(wire))
  BY <1>1, FromTail
<1>3. wire[i + 1].skip
  BY <1>2
<1>4. Inert(Core(SubSeq(wire, i + 1 + 1, Len(wire))) \o ToCome)
  BY <1>2, <1>3 DEF SkipsInert
<1> QED
  BY <1>2, <1>4

-----------------------------------------------------------------------------
(* What the parser reads is the first of the stream.                        *)

Leftover == Core(Tail(wire)) \o ToCome

LEMMA WireHead ==
  ASSUME FramingTypes, wire # <<>>
  PROVE  LET b == Unsigned(Buffer)
         IN  /\ Buffer \in OnWire /\ Tail(wire) \in Seq(OnWire)
             /\ b.head = Buffer.head /\ b.chunk = Buffer.chunk
             /\ b.marker = Buffer.marker /\ b.separator = Buffer.separator
             /\ Leftover \in Seq(Bare)
             /\ Buffer.skip => Buffer = Skip /\ Rest = Leftover
             /\ ~Buffer.skip => b \in Bare /\ Rest = <<b>> \o Leftover
<1> DEFINE b == Unsigned(Buffer)
           c == Core(Tail(wire))
<1>1. /\ Buffer \in OnWire /\ Tail(wire) \in Seq(OnWire)
      /\ Buffer.skip => Core(wire) = c
      /\ ~Buffer.skip => Core(wire) = <<b>> \o c
  BY CoreFacts DEF FramingTypes, Buffer
<1>2. Buffer.skip => Buffer = Skip
  BY <1>1 DEF OnWire
<1>3. ~Buffer.skip => b \in Bare
  BY <1>1, CoreFacts
<1>4. /\ b.head = Buffer.head /\ b.chunk = Buffer.chunk
      /\ b.marker = Buffer.marker /\ b.separator = Buffer.separator
  BY <1>1 DEF Unsigned, OnWire, Skip, Blank
<1>5. c \in Seq(Bare) /\ ToCome \in Seq(Bare) /\ Leftover \in Seq(Bare)
  BY <1>1, CoreFacts, RestTypes, BareJoins DEF Leftover
<1>6. ASSUME ~Buffer.skip PROVE Rest = <<b>> \o Leftover
  <2> DEFINE x == <<b>>
             z == ToCome
  <2>1. IsBare(x) /\ IsBare(c) /\ IsBare(z)
    BY <1>3, <1>5, <1>6 DEF IsBare
  <2>2. Rest = (x \o c) \o z
    BY <1>1, <1>6 DEF Rest
  <2>3. Leftover = c \o z
    BY DEF Leftover
  <2> HIDE DEF x, c, z
  <2>4. Regroups(x, c, z)
    BY <2>1, BareRegroups
  <2>5. Rest = x \o Leftover
    BY <2>2, <2>3, <2>4 DEF Regroups
  <2> QED
    BY <2>5 DEF x
<1> QED
  BY <1>1, <1>2, <1>3, <1>4, <1>5, <1>6 DEF Rest, Leftover

(* The parser takes Buffers from the wire, and nothing from the sender.     *)
Reads == /\ UNCHANGED <<script, receiver, out, toSend, sending, stray>>
         /\ \/ wire' = wire
            \/ wire # <<>> /\ wire' = Tail(wire)
         /\ \/ received' = received
            \/ \E p \in Seq(Piece) : received' = received \o Outcome(parsing.index, p)

LEMMA ParserReads ==
  ASSUME FramingTypes, ParserStep
  PROVE  Reads /\ FramingTypes'
<1>1. /\ parsing \in [index : Index, headed : BOOLEAN, pieces : Seq(Piece)]
      /\ received \in Seq(Result) /\ wire \in Seq(OnWire)
  BY DEF FramingTypes
<1>2. Known \subseteq Index /\ <<>> \in Seq(Piece)
  BY ReceiverFacts, PiecesJoin DEF FramingTypes
<1>3. wire # <<>> => Tail(wire) \in Seq(OnWire) /\ SoFar \in Seq(Piece)
  <2> SUFFICES ASSUME wire # <<>> PROVE Tail(wire) \in Seq(OnWire) /\ SoFar \in Seq(Piece)
    OBVIOUS
  <2>1. Buffer \in OnWire /\ Tail(wire) \in Seq(OnWire)
    BY WireHead
  <2>2. Buffer.chunk \in Seq(Piece) \cup {None}
    BY <2>1, <1>2 DEF OnWire, Skip, Blank
  <2> QED
    BY <1>1, <2>1, <2>2, PiecesJoin DEF SoFar
<1> DEFINE Typed == parsing' \in [index : Index, headed : BOOLEAN, pieces : Seq(Piece)]
           Adds == \/ received' = received
                   \/ \E p \in Seq(Piece) : received' = received \o Outcome(parsing.index, p)
<1>4. ASSUME NEW p \in Seq(Piece), MessageEnds(p) PROVE Typed /\ Adds
  <2>1. NoMessage \in [index : Index, headed : BOOLEAN, pieces : Seq(Piece)]
    BY <1>2, FramingAssumption DEF NoMessage
  <2> QED
    BY <1>1, <1>4, <2>1 DEF MessageEnds
<1>5. ASSUME NEW p \in Seq(Piece), NEW stage, GoesOn(p, stage) PROVE Typed /\ Adds
  BY <1>1, <1>5 DEF GoesOn
<1>6. /\ ToSender /\ Typed /\ Adds
      /\ \/ wire' = wire
         \/ wire # <<>> /\ wire' = Tail(wire)
  <2>1. CASE Drop
    BY <1>1, <2>1 DEF Drop, Arrived, receiverVars
  <2>2. CASE BeginMessage
    <3>1. ToSender /\ wire' = wire /\ received' = received
      BY <2>2 DEF BeginMessage
    <3>2. \/ parsing' = parsing
          \/ \E i \in Known, h \in BOOLEAN :
                parsing' = [index |-> i, headed |-> h, pieces |-> <<>>]
      BY <2>2 DEF BeginMessage
    <3>3. \A i \in Known, h \in BOOLEAN :
             [index |-> i, headed |-> h, pieces |-> <<>>]
               \in [index : Index, headed : BOOLEAN, pieces : Seq(Piece)]
      BY <1>2
    <3>4. Typed
      <4>1. CASE parsing' = parsing
        BY <1>1, <4>1
      <4>2. CASE parsing' # parsing
        BY <3>2, <3>3, <4>2
      <4> QED
        BY <4>1, <4>2
    <3> QED
      BY <3>1, <3>4
  <2>3. CASE BeginPart
    <3>1. ToSender /\ wire' = wire /\ received' = received /\ parsing' = parsing
      BY <2>3 DEF BeginPart
    <3> QED
      BY <1>1, <3>1
  <2>4. CASE TakeChunk
    <3>1. wire # <<>> /\ ToSender /\ wire' = Tail(wire)
      BY <2>4 DEF TakeChunk, At, Arrived, Take
    <3>2. MessageEnds(SoFar) \/ GoesOn(SoFar, "message")
      BY <2>4 DEF TakeChunk
    <3> QED
      BY <1>3, <1>4, <1>5, <3>1, <3>2
  <2>5. CASE TakeOther
    <3>1. wire # <<>> /\ ToSender /\ wire' = Tail(wire)
      BY <2>5 DEF TakeOther, At, Arrived, Take
    <3>2. MessageEnds(parsing.pieces) \/ GoesOn(parsing.pieces, "message")
      BY <2>5 DEF TakeOther
    <3> QED
      BY <1>1, <1>4, <1>5, <3>1, <3>2
  <2>6. CASE TakeStart
    <3>1. wire # <<>> /\ ToSender /\ wire' = Tail(wire)
      BY <2>6 DEF TakeStart, At, Arrived, Take
    <3>2. GoesOn(parsing.pieces, "block") \/ GoesOn(parsing.pieces, "block part")
      BY <2>6 DEF TakeStart
    <3> QED
      BY <1>1, <1>5, <3>1, <3>2
  <2>7. CASE TakeInBlock
    <3>1. wire # <<>> /\ ToSender /\ wire' = Tail(wire) /\ GoesOn(SoFar, "block")
      BY <2>7 DEF TakeInBlock, At, Arrived, Take
    <3> QED
      BY <1>3, <1>5, <3>1
  <2>8. CASE TakeEnd
    <3>1. wire # <<>> /\ ToSender /\ wire' = Tail(wire)
      BY <2>8 DEF TakeEnd, At, Arrived, Take
    <3>2. MessageEnds(parsing.pieces) \/ GoesOn(parsing.pieces, "part")
      BY <2>8 DEF TakeEnd
    <3> QED
      BY <1>1, <1>4, <1>5, <3>1, <3>2
  <2>9. CASE StreamStops
    <3>1. ToSender /\ wire' = wire
      BY <2>9 DEF StreamStops
    <3>2. \/ parsing' = parsing /\ received' = received
          \/ MessageEnds(parsing.pieces)
      BY <2>9 DEF StreamStops
    <3>3. CASE parsing' = parsing /\ received' = received
      BY <1>1, <3>1, <3>3
    <3>4. CASE MessageEnds(parsing.pieces)
      BY <1>1, <1>4, <3>1, <3>4
    <3> QED
      BY <3>2, <3>3, <3>4
  <2>10. CASE StreamRaises \/ OpensAgain
    <3>1. ToSender /\ wire' = wire /\ received' = received /\ parsing' = parsing
      BY <2>10 DEF StreamRaises, OpensAgain, receiverVars
    <3> QED
      BY <1>1, <3>1
  <2> QED
    BY <2>1, <2>2, <2>3, <2>4, <2>5, <2>6, <2>7, <2>8, <2>9, <2>10 DEF ParserStep
<1>7. Reads
  BY <1>6 DEF Reads, ToSender, senderVars
<1>8. received' \in Seq(Result)
  <2> SUFFICES ASSUME NEW p \in Seq(Piece),
                      received' = received \o Outcome(parsing.index, p)
               PROVE  received' \in Seq(Result)
    BY <1>1, <1>6
  <2>1. Outcome(parsing.index, p) \in Seq(Result)
    BY <1>1, OutcomeType
  <2> QED
    BY <1>1, <2>1, ConcatProperties
<1>9. wire' \in Seq(OnWire)
  BY <1>1, <1>3, <1>6
<1> QED
  BY <1>6, <1>7, <1>8, <1>9 DEF FramingTypes, Reads

(* Once it has read past what it can, it has.                               *)
LEMMA BeyondStays ==
  ASSUME FramingTypes, Reads, Beyond
  PROVE  Beyond'
<1>1. ReadableScript' = ReadableScript /\ ExpectedAll' = ExpectedAll /\ script' = script
  BY ScriptStays DEF Reads
<1>2. received \in Seq(Result) /\ script \in Seq(Message) /\ parsing.index \in Index
  BY DEF FramingTypes
<1>3. ExpectedAll \in Seq(Result)
  BY <1>2, ReadableFacts, ScriptFacts
<1>4. IsPrefix(ExpectedAll, received')
  <2> SUFFICES ASSUME NEW p \in Seq(Piece),
                      received' = received \o Outcome(parsing.index, p)
               PROVE  IsPrefix(ExpectedAll, received')
    BY DEF Reads, Beyond
  <2>1. Outcome(parsing.index, p) \in Seq(Result)
    BY <1>2, OutcomeType
  <2> QED
    BY <1>2, <1>3, <2>1, PrefixFacts DEF Beyond
<1> QED
  BY <1>1, <1>4 DEF Beyond

(* The rest of the stream after a step of the parser.                       *)
LEMMA RestAfter ==
  ASSUME FramingTypes, Reads
  PROVE  /\ ToCome' = ToCome
         /\ wire' = wire => Rest' = Rest
         /\ wire' = Tail(wire) => Rest' = Leftover
<1>1. ToCome' = ToCome
  BY DEF ToCome, AllBuffers, Reads
<1>2. Rest' = Core(wire') \o ToCome'
  BY DEF Rest, Core
<1> QED
  BY <1>1, <1>2 DEF Rest, Leftover

-----------------------------------------------------------------------------
(* Each step of the parser leaves it where it should be.                    *)

InMessageStages == OutStages \cup InStages

(* It is in the message that comes after those received.                    *)
InNext(k) == /\ k < Len(ReadableScript)
             /\ received = Got(k)
             /\ parsing.index = script[k + 1].index

LEMMA WhereItIs ==
  ASSUME FramingTypes, Sane, parser \in InMessageStages
  PROVE  \E k \in 0..(Len(script) - 1) :
           /\ InNext(k) /\ Readable(script[k + 1])
           /\ k + 1 \in 0..Len(ReadableScript)
           /\ InMessage(parser, parsing.pieces, Rest, k)
<1>1. script \in Seq(Message) /\ Len(script) \in Nat
  BY LenProperties DEF FramingTypes
<1>2. PICK k \in 0..Len(ReadableScript) :
        /\ InNext(k)
        /\ InMessage(parser, parsing.pieces, Rest, k)
  BY DEF Sane, SaneAt, InMessageStages, OutStages, InStages, InNext
<1>3. /\ Len(ReadableScript) \in 0..Len(script)
      /\ \A n \in 1..Len(ReadableScript) : Readable(script[n])
  BY <1>1, ReadableFacts
<1>4. k \in 0..(Len(script) - 1) /\ k + 1 \in 1..Len(ReadableScript)
  BY <1>1, <1>2, <1>3 DEF InNext
<1>5. k + 1 \in 0..Len(ReadableScript)
  BY <1>3, <1>4
<1> QED
  BY <1>2, <1>3, <1>4, <1>5

LEMMA WholeReads ==
  ASSUME FramingTypes, NEW k \in 0..(Len(script) - 1), InNext(k),
         k + 1 \in 0..Len(ReadableScript),
         MessageEnds(Pieces(script[k + 1])), Rest' = After(k + 1)
  PROVE  SaneAt(parser', parsing', received', Rest')
<1> DEFINE m == script[k + 1]
<1>1. Outcome(m.index, Pieces(m)) = Expected(m) /\ ~Unlisted(Pieces(m))
  <2>1. m \in Message
    BY ScriptFacts DEF FramingTypes
  <2>2. k + 1 \in 1..Len(ReadableScript)
    BY ReadableFacts DEF FramingTypes
  <2>3. Readable(m)
    BY <2>2, ReadableFacts DEF FramingTypes
  <2>4. parsing.index = m.index
    BY DEF InNext
  <2> QED
    BY <2>1, <2>3, <2>4, WholeIsExpected
<1>2. /\ parser' = "between"
      /\ received' = Got(k) \o Outcome(script[k + 1].index, Pieces(script[k + 1]))
  BY <1>1 DEF MessageEnds, InNext
<1>3. Got(k + 1) = Got(k) \o Expected(script[k + 1])
  BY ScriptFacts DEF FramingTypes
<1>4. received' = Got(k + 1)
  BY <1>1, <1>2, <1>3
<1> QED
  BY <1>2, <1>4 DEF SaneAt

LEMMA MidwayReads ==
  ASSUME FramingTypes, NEW k \in 0..(Len(script) - 1), InNext(k),
         k + 1 \in 0..Len(ReadableScript),
         NEW p, NEW stage, GoesOn(p, stage), Midway(stage, p, Rest', k)
  PROVE  SaneAt(parser', parsing', received', Rest')
<1>1. /\ parser' = stage /\ parsing' = [parsing EXCEPT !.pieces = p]
      /\ received' = Got(k)
  BY DEF GoesOn, InNext
<1>2. parsing'.index = script[k + 1].index /\ parsing'.pieces = p
  BY <1>1 DEF FramingTypes, InNext
<1>3. InMessage(parser', parsing'.pieces, Rest', k)
  BY <1>1, <1>2 DEF InMessage
<1>4. k \in 0..Len(ReadableScript) /\ k < Len(ReadableScript)
  <2>1. Len(ReadableScript) \in Nat
    BY ReadableFacts, LenProperties DEF FramingTypes
  <2> QED
    BY <2>1 DEF InNext
<1> QED
  BY <1>1, <1>2, <1>3, <1>4 DEF SaneAt

(* Nothing of the stream is taken, and nothing of the parser changes.       *)
LEMMA StaysSane ==
  ASSUME Sane, UNCHANGED receiverVars, Rest' = Rest
  PROVE  SaneAt(parser', parsing', received', Rest')
BY DEF Sane, SaneAt, receiverVars

LEMMA DropReads ==
  ASSUME FramingTypes, Sane, Drop
  PROVE  SaneAt(parser', parsing', received', Rest')
<1>1. ParserStep /\ wire # <<>> /\ wire' = Tail(wire) /\ Buffer.skip /\ UNCHANGED receiverVars
  BY DEF ParserStep, Drop, Arrived
<1>2. Rest' = Leftover /\ Rest = Leftover
  BY <1>1, ParserReads, RestAfter, WireHead
<1> QED
  BY <1>1, <1>2, StaysSane

(* A skip request that is taken for a part of a message adds nothing to it. *)
LEMMA SkipReads ==
  ASSUME FramingTypes, wire # <<>>, Buffer.skip, Sane, parser \in {"message", "block"},
         ParserStep, wire' = Tail(wire), GoesOn(SoFar, parser)
  PROVE  SaneAt(parser', parsing', received', Rest')
<1>1. Rest' = Leftover /\ Rest = Leftover
  BY ParserReads, RestAfter, WireHead
<1>2. Buffer.chunk = <<>> /\ <<>> # None
  BY WireHead, PiecesJoin, FramingAssumption DEF Skip, Blank
<1>3. parsing \in [index : Index, headed : BOOLEAN, pieces : Seq(Piece)]
  BY DEF FramingTypes
<1>4. SoFar = parsing.pieces
  <2>1. SoFar = parsing.pieces \o <<>>
    BY <1>2 DEF SoFar
  <2> QED
    BY <1>3, <2>1, PiecesJoin
<1>5. parsing' = parsing
  BY <1>3, <1>4 DEF GoesOn
<1> QED
  BY <1>1, <1>5, StaysSane DEF GoesOn, receiverVars

LEMMA TakeChunkReads ==
  ASSUME FramingTypes, Sane, TakeChunk
  PROVE  SaneAt(parser', parsing', received', Rest')
<1>1. /\ ParserStep /\ parser = "message" /\ wire # <<>> /\ wire' = Tail(wire)
      /\ ~Buffer.marker /\ Buffer.chunk # None
      /\ IF Buffer.separator THEN MessageEnds(SoFar) ELSE GoesOn(SoFar, "message")
  BY DEF ParserStep, TakeChunk, At, Arrived, Take
<1>2. CASE Buffer.skip
  <2>1. ~Buffer.separator
    BY <1>1, <1>2, WireHead DEF Skip, Blank
  <2> QED
    BY <1>1, <1>2, <2>1, SkipReads
<1>3. CASE ~Buffer.skip
  <2> DEFINE b == Unsigned(Buffer)
  <2>1. /\ b \in Bare /\ Leftover \in Seq(Bare) /\ Rest = <<b>> \o Leftover
        /\ Rest' = Leftover
        /\ ~b.marker /\ b.chunk # None
        /\ SoFar = parsing.pieces \o b.chunk /\ b.separator = Buffer.separator
    <3>1. Rest' = Leftover
      BY <1>1, ParserReads, RestAfter
    <3> QED
      BY <1>1, <1>3, <3>1, WireHead DEF SoFar
  <2>2. PICK k \in 0..(Len(script) - 1) :
          /\ InNext(k) /\ Readable(script[k + 1]) /\ k + 1 \in 0..Len(ReadableScript)
          /\ InMessage("message", parsing.pieces, Rest, k)
    BY <1>1, WhereItIs DEF InMessageStages, OutStages
  <2>3. \/ WholeBy(b, parsing.pieces, Leftover, k)
        \/ MidwayBy(b, parsing.pieces, Leftover, k)
    <3>1. script \in Seq(Message) /\ parsing.pieces \in Seq(Piece)
      BY DEF FramingTypes
    <3>2. InMessage("message", parsing.pieces, <<b>> \o Leftover, k)
      BY <2>1, <2>2
    <3> HIDE DEF b
    <3> QED
      BY <2>1, <2>2, <3>1, <3>2, ReadInMessage
  <2>4. CASE Buffer.separator
    <3>1. SoFar = Pieces(script[k + 1]) /\ Leftover = After(k + 1)
      BY <2>1, <2>3, <2>4 DEF WholeBy, MidwayBy
    <3>2. MessageEnds(Pieces(script[k + 1]))
      BY <1>1, <2>4, <3>1
    <3> QED
      BY <2>1, <2>2, <3>1, <3>2, WholeReads
  <2>5. CASE ~Buffer.separator
    <3>1. Midway("message", SoFar, Leftover, k)
      BY <2>1, <2>3, <2>5 DEF WholeBy, MidwayBy
    <3>2. GoesOn(SoFar, "message") /\ Midway("message", SoFar, Rest', k)
      BY <1>1, <2>1, <2>5, <3>1
    <3> QED
      BY <2>2, <3>2, MidwayReads
  <2> QED
    BY <2>4, <2>5
<1> QED
  BY <1>2, <1>3

(* No skip request has a marker or is without a chunk.                      *)
LEMMA NoSkip ==
  ASSUME FramingTypes, wire # <<>>, Buffer.marker \/ Buffer.chunk = None
  PROVE  ~Buffer.skip
<1> SUFFICES ASSUME Buffer.skip PROVE FALSE
  OBVIOUS
<1>1. Buffer = Skip
  BY WireHead
<1>2. ~Buffer.marker /\ Buffer.chunk = <<>>
  BY <1>1 DEF Skip, Blank
<1>3. <<>> # None
  BY PiecesJoin, FramingAssumption
<1> QED
  BY <1>2, <1>3

LEMMA TakeOtherReads ==
  ASSUME FramingTypes, Sane, TakeOther
  PROVE  SaneAt(parser', parsing', received', Rest')
<1>1. /\ ParserStep /\ parser = "message" /\ wire # <<>> /\ wire' = Tail(wire)
      /\ ~Buffer.marker /\ Buffer.chunk = None
      /\ IF Buffer.head # None /\ ~Buffer.separator
           THEN GoesOn(parsing.pieces, "message")
           ELSE MessageEnds(parsing.pieces)
  BY DEF ParserStep, TakeOther, At, Arrived, Take
<1> DEFINE b == Unsigned(Buffer)
<1>2. /\ b \in Bare /\ Leftover \in Seq(Bare) /\ Rest = <<b>> \o Leftover
      /\ Rest' = Leftover
      /\ ~b.marker /\ b.chunk = None
      /\ b.separator = Buffer.separator /\ b.head = Buffer.head
  <2>1. Rest' = Leftover /\ ~Buffer.skip
    BY <1>1, ParserReads, RestAfter, NoSkip
  <2> QED
    BY <1>1, <2>1, WireHead
<1>3. PICK k \in 0..(Len(script) - 1) :
        /\ InNext(k) /\ Readable(script[k + 1]) /\ k + 1 \in 0..Len(ReadableScript)
        /\ InMessage("message", parsing.pieces, Rest, k)
  BY <1>1, WhereItIs DEF InMessageStages, OutStages
<1>4. \/ WholeBy(b, parsing.pieces, Leftover, k)
      \/ MidwayBy(b, parsing.pieces, Leftover, k)
  <2>1. script \in Seq(Message) /\ parsing.pieces \in Seq(Piece)
    BY DEF FramingTypes
  <2>2. InMessage("message", parsing.pieces, <<b>> \o Leftover, k)
    BY <1>2, <1>3
  <2> HIDE DEF b
  <2> QED
    BY <1>2, <1>3, <2>1, <2>2, ReadInMessage
<1>5. CASE Buffer.separator
  <2>1. parsing.pieces = Pieces(script[k + 1]) /\ Leftover = After(k + 1)
    BY <1>2, <1>4, <1>5 DEF WholeBy, MidwayBy
  <2>2. MessageEnds(Pieces(script[k + 1]))
    BY <1>1, <1>5, <2>1
  <2> QED
    BY <1>2, <1>3, <2>1, <2>2, WholeReads
<1>6. CASE ~Buffer.separator
  <2>1. b.head # None /\ Midway("message", parsing.pieces, Leftover, k)
    BY <1>2, <1>4, <1>6 DEF WholeBy, MidwayBy
  <2>2. GoesOn(parsing.pieces, "message") /\ Midway("message", parsing.pieces, Rest', k)
    BY <1>1, <1>2, <1>6, <2>1
  <2> QED
    BY <1>3, <2>2, MidwayReads
<1> QED
  BY <1>5, <1>6

LEMMA TakeStartReads ==
  ASSUME FramingTypes, Sane, TakeStart
  PROVE  SaneAt(parser', parsing', received', Rest')
<1>1. /\ ParserStep /\ parser = "message" /\ wire # <<>> /\ wire' = Tail(wire)
      /\ Buffer.marker
      /\ \/ GoesOn(parsing.pieces, "block")
         \/ GoesOn(parsing.pieces, "block part")
  BY DEF ParserStep, TakeStart, At, Arrived, Take
<1> DEFINE b == Unsigned(Buffer)
<1>2. /\ b \in Bare /\ Leftover \in Seq(Bare) /\ Rest = <<b>> \o Leftover
      /\ Rest' = Leftover
      /\ b.marker
  <2>1. Rest' = Leftover /\ ~Buffer.skip
    BY <1>1, ParserReads, RestAfter, NoSkip
  <2> QED
    BY <1>1, <2>1, WireHead
<1>3. PICK k \in 0..(Len(script) - 1) :
        /\ InNext(k) /\ Readable(script[k + 1]) /\ k + 1 \in 0..Len(ReadableScript)
        /\ InMessage("message", parsing.pieces, Rest, k)
  BY <1>1, WhereItIs DEF InMessageStages, OutStages
<1>4. IntoBlock(parsing.pieces, Leftover, k)
  <2>1. script \in Seq(Message) /\ parsing.pieces \in Seq(Piece)
    BY DEF FramingTypes
  <2>2. InMessage("message", parsing.pieces, <<b>> \o Leftover, k)
    BY <1>2, <1>3
  <2> HIDE DEF b
  <2> QED
    BY <1>2, <1>3, <2>1, <2>2, ReadInMessage
<1>5. PICK stage \in InStages : GoesOn(parsing.pieces, stage)
  BY <1>1 DEF InStages
<1>6. Midway(stage, parsing.pieces, Rest', k)
  BY <1>2, <1>4, <1>5 DEF IntoBlock, InStages
<1> QED
  BY <1>3, <1>5, <1>6, MidwayReads

LEMMA TakeInBlockReads ==
  ASSUME FramingTypes, Sane, TakeInBlock
  PROVE  SaneAt(parser', parsing', received', Rest')
<1>1. /\ ParserStep /\ parser = "block" /\ wire # <<>> /\ wire' = Tail(wire)
      /\ ~Buffer.marker /\ GoesOn(SoFar, "block")
  BY DEF ParserStep, TakeInBlock, At, Arrived, Take
<1>2. CASE Buffer.skip
  BY <1>1, <1>2, SkipReads
<1>3. CASE ~Buffer.skip
  <2> DEFINE b == Unsigned(Buffer)
  <2>1. /\ b \in Bare /\ Leftover \in Seq(Bare) /\ Rest = <<b>> \o Leftover
        /\ Rest' = Leftover
        /\ ~b.marker /\ b.chunk = Buffer.chunk
    <3>1. Rest' = Leftover
      BY <1>1, ParserReads, RestAfter
    <3> QED
      BY <1>1, <1>3, <3>1, WireHead
  <2>2. PICK k \in 0..(Len(script) - 1) :
          /\ InNext(k) /\ k + 1 \in 0..Len(ReadableScript)
          /\ InMessage("block", parsing.pieces, Rest, k)
    BY <1>1, WhereItIs DEF InMessageStages, InStages
  <2>3. b.chunk # None /\ Midway("block", parsing.pieces \o b.chunk, Leftover, k)
    <3>1. script \in Seq(Message) /\ parsing.pieces \in Seq(Piece)
      BY DEF FramingTypes
    <3>2. InMessage("block", parsing.pieces, <<b>> \o Leftover, k)
      BY <2>1, <2>2
    <3> HIDE DEF b
    <3> QED
      BY <2>1, <2>2, <3>1, <3>2, ReadInBlock
  <2>4. SoFar = parsing.pieces \o b.chunk
    BY <2>1, <2>3 DEF SoFar
  <2>5. Midway("block", SoFar, Rest', k)
    BY <2>1, <2>3, <2>4
  <2> QED
    BY <1>1, <2>2, <2>5, MidwayReads
<1> QED
  BY <1>2, <1>3

LEMMA TakeEndReads ==
  ASSUME FramingTypes, Sane, TakeEnd
  PROVE  SaneAt(parser', parsing', received', Rest')
<1>1. /\ ParserStep /\ parser = "block" /\ wire # <<>> /\ wire' = Tail(wire)
      /\ Buffer.marker
      /\ IF receiver.mode[parsing.index] = "disk"
           THEN GoesOn(parsing.pieces, "part")
           ELSE MessageEnds(parsing.pieces)
  BY DEF ParserStep, TakeEnd, At, Arrived, Take
<1> DEFINE b == Unsigned(Buffer)
<1>2. /\ b \in Bare /\ Leftover \in Seq(Bare) /\ Rest = <<b>> \o Leftover
      /\ Rest' = Leftover
      /\ b.marker
  <2>1. Rest' = Leftover /\ ~Buffer.skip
    BY <1>1, ParserReads, RestAfter, NoSkip
  <2> QED
    BY <1>1, <2>1, WireHead
<1>3. PICK k \in 0..(Len(script) - 1) :
        /\ InNext(k) /\ Readable(script[k + 1]) /\ k + 1 \in 0..Len(ReadableScript)
        /\ InMessage("block", parsing.pieces, Rest, k)
  BY <1>1, WhereItIs DEF InMessageStages, InStages
<1>4. OnDisk(k) /\ Midway("part", parsing.pieces, Leftover, k)
  <2>1. script \in Seq(Message) /\ parsing.pieces \in Seq(Piece)
    BY DEF FramingTypes
  <2>2. InMessage("block", parsing.pieces, <<b>> \o Leftover, k)
    BY <1>2, <1>3
  <2> HIDE DEF b
  <2> QED
    BY <1>2, <1>3, <2>1, <2>2, ReadInBlock
<1>5. receiver.mode[parsing.index] = "disk"
  <2>1. parsing.index \in Known /\ receiver.mode[parsing.index] # "memory"
    BY <1>3, <1>4 DEF InNext, Readable, OnDisk
  <2>2. receiver.mode \in [Known -> {"memory", "disk"}]
    BY ReceiverFacts DEF FramingTypes
  <2> QED
    BY <2>1, <2>2
<1>6. GoesOn(parsing.pieces, "part") /\ Midway("part", parsing.pieces, Rest', k)
  BY <1>1, <1>2, <1>4, <1>5
<1> QED
  BY <1>3, <1>6, MidwayReads

(* Between messages, the head tells the next message of the script.         *)
LEMMA NextInScript ==
  ASSUME FramingTypes, SkipsInert, wire # <<>>, Passes,
         NEW k \in 0..Len(script), Rest = After(k)
  PROVE  /\ k \in 0..(Len(script) - 1)
         /\ (IF Buffer.head = None THEN First ELSE Buffer.head) = script[k + 1].index
<1>1. script \in Seq(Message) /\ Len(script) \in Nat /\ wire \in Seq(OnWire)
  BY LenProperties DEF FramingTypes
<1>2. CASE ~Buffer.skip
  <2> DEFINE b == Unsigned(Buffer)
  <2>1. b \in Bare /\ Leftover \in Seq(Bare) /\ After(k) = <<b>> \o Leftover
        /\ b.head = Buffer.head
    BY <1>2, WireHead
  <2>2. After(k) # <<>>
    BY <2>1, FirstIs
  <2>3. k < Len(script)
    BY <1>1, <2>2, ScriptFacts
  <2>4. b.head = script[k + 1].index /\ b.head # None
    BY <1>1, <2>1, <2>3, ReadBetween
  <2> QED
    BY <1>1, <2>1, <2>3, <2>4
<1>3. CASE Buffer.skip
  <2>1. ~receiver.aware /\ Buffer = Skip /\ Buffer.head = None /\ Rest = Leftover
    BY <1>3, WireHead DEF Passes, Skip, Blank
  <2>2. 1 \in 1..Len(wire) /\ wire[1].skip
    <3>1. Len(wire) \in Nat \ {0} /\ Head(wire) = wire[1]
      BY <1>1, HeadTailProperties, EmptySeq
    <3> QED
      BY <1>3, <3>1 DEF Buffer
  <2>3. Inert(After(k))
    <3>1. Inert(Core(SubSeq(wire, 1 + 1, Len(wire))) \o ToCome)
      BY <2>1, <2>2 DEF SkipsInert
    <3>2. SubSeq(wire, 1 + 1, Len(wire)) = Tail(wire)
      BY <1>1, FromTail
    <3> QED
      BY <2>1, <3>1, <3>2 DEF Leftover
  <2>4. k < Len(script)
    BY <1>1, <2>3, ScriptFacts DEF Inert
  <2>5. k \in 0..(Len(script) - 1)
    BY <1>1, <2>4
  <2>6. script[k + 1].index = First
    <3> DEFINE m == script[k + 1]
    <3>1. m \in Message /\ After(k) = Buffers(m) \o After(k + 1)
      BY <1>1, <2>5, ScriptFacts
    <3>2. After(k) \in Seq(Bare) /\ After(k) # <<>>
      BY <1>1, <2>3, ScriptFacts DEF Inert
    <3>3. Head(After(k)) \in Bare /\ Tail(After(k)) \in Seq(Bare)
          /\ After(k) = <<Head(After(k))>> \o Tail(After(k))
          /\ Head(After(k)) = After(k)[1]
      BY <3>2, HeadTailProperties, HeadThenTail
    <3>4. After(k)[1].head = m.index /\ After(k)[1].head # None
      BY <1>1, <2>4, <3>3, ReadBetween
    <3> QED
      BY <2>3, <3>4 DEF Inert
  <2> QED
    BY <2>1, <2>5, <2>6
<1> QED
  BY <1>2, <1>3

LEMMA BeginMessageReads ==
  ASSUME FramingTypes, SkipsInert, Sane, BeginMessage
  PROVE  SaneAt(parser', parsing', received', Rest') \/ Beyond
<1> DEFINE i == IF Buffer.head = None THEN First ELSE Buffer.head
<1>1. /\ ParserStep /\ parser = "between" /\ Passes /\ wire # <<>>
      /\ wire' = wire /\ received' = received
      /\ IF i \notin Known
           THEN parser' = "raised"
           ELSE /\ parsing' = [index |-> i, headed |-> Buffer.head # None,
                               pieces |-> <<>>]
                /\ parser' \in OutStages
  BY DEF ParserStep, BeginMessage, At, Arrived, OutStages
<1>2. /\ script \in Seq(Message) /\ Len(script) \in Nat
      /\ Len(ReadableScript) \in 0..Len(script) /\ Rest' = Rest
  BY <1>1, ReadableFacts, LenProperties, ParserReads, RestAfter DEF FramingTypes
<1>3. PICK k \in 0..Len(ReadableScript) : received = Got(k) /\ Rest = After(k)
  BY <1>1 DEF Sane, SaneAt, InMessage, Fresh, Midway, OutStages, InStages
<1>4. k \in 0..(Len(script) - 1) /\ i = script[k + 1].index
  BY <1>1, <1>2, <1>3, NextInScript
<1>5. CASE i \notin Known
  BY <1>1, <1>3, <1>5 DEF SaneAt
<1>6. CASE i \in Known /\ k < Len(ReadableScript)
  <2>1. InMessage(parser', parsing'.pieces, Rest', k)
    BY <1>1, <1>2, <1>3, <1>6 DEF InMessage, Fresh
  <2>2. parsing'.index = script[k + 1].index
    BY <1>1, <1>4, <1>6
  <2> QED
    BY <1>1, <1>3, <1>6, <2>1, <2>2 DEF SaneAt
<1>7. CASE k = Len(ReadableScript)
  <2>1. ReadableScript # script
    BY <1>2, <1>4, <1>7
  <2>2. received = ExpectedAll /\ IsPrefix(Got(k), ExpectedAll)
    BY <1>2, <1>3, <1>7, ReadableFacts
  <2> QED
    BY <1>3, <2>1, <2>2 DEF Beyond
<1>8. k < Len(ReadableScript) \/ k = Len(ReadableScript)
  BY <1>2
<1> QED
  BY <1>5, <1>6, <1>7, <1>8

LEMMA BeginPartReads ==
  ASSUME FramingTypes, Sane, BeginPart
  PROVE  SaneAt(parser', parsing', received', Rest')
<1>1. /\ ParserStep /\ parser \in {"part", "block part"}
      /\ \/ parser' = "stuck"
         \/ parser = "part" /\ parser' = "message"
         \/ parser = "block part" /\ parser' = "block"
      /\ wire' = wire /\ received' = received /\ parsing' = parsing
  <2>1. /\ ParserStep /\ parser \in {"part", "block part"}
        /\ wire' = wire /\ received' = received /\ parsing' = parsing
    BY DEF ParserStep, BeginPart
  <2>2. parser' = CASE ~open           -> "stuck"
                    [] parser = "part" -> "message"
                    [] OTHER           -> "block"
    BY DEF BeginPart
  <2>3. CASE open
    <3>1. CASE parser = "part"
      BY <2>1, <2>2, <2>3, <3>1
    <3>2. CASE parser # "part"
      BY <2>1, <2>2, <2>3, <3>2
    <3> QED
      BY <3>1, <3>2
  <2>4. CASE ~open
    <3>1. CASE parser = "part"
      BY <2>1, <2>2, <2>4, <3>1
    <3>2. CASE parser # "part"
      BY <2>1, <2>2, <2>4, <3>2
    <3> QED
      BY <3>1, <3>2
  <2> QED
    BY <2>3, <2>4
<1>2. Rest' = Rest
  BY <1>1, ParserReads, RestAfter
<1>3. PICK k \in 0..(Len(script) - 1) :
        /\ InNext(k) /\ k + 1 \in 0..Len(ReadableScript)
        /\ InMessage(parser, parsing.pieces, Rest, k)
  BY <1>1, WhereItIs DEF InMessageStages, OutStages, InStages
<1>4. k \in 0..Len(ReadableScript)
  <2>1. Len(ReadableScript) \in Nat
    BY ReadableFacts, LenProperties DEF FramingTypes
  <2> QED
    BY <1>3, <2>1 DEF InNext
<1>5. CASE parser' = "stuck"
  BY <1>1, <1>3, <1>4, <1>5 DEF SaneAt, InNext
<1>6. ASSUME parser' # "stuck" PROVE InMessage(parser', parsing.pieces, Rest, k)
  BY <1>1, <1>3, <1>6 DEF InMessage, Fresh, Midway, OutStages, InStages
<1>7. CASE parser' # "stuck"
  BY <1>1, <1>2, <1>3, <1>4, <1>6, <1>7 DEF SaneAt, InNext
<1> QED
  BY <1>5, <1>7

(* If the stream ends, the script is read: nothing is left of it.           *)
LEMMA StreamStopsReads ==
  ASSUME FramingTypes, sending = "ended" => out = <<>> /\ toSend = <<>>,
         Sane, StreamStops
  PROVE  SaneAt(parser', parsing', received', Rest')
<1>1. /\ wire = <<>> /\ sending = "ended" /\ parser \in {"between", "message"}
      /\ parser = "between" => parser' = "ended" /\ received' = received
  BY DEF StreamStops
<1>2. Rest = <<>>
  <2>1. ToCome = <<>>
    BY <1>1, AllBuffersFacts, BareJoins DEF ToCome
  <2> QED
    BY <1>1, <2>1, CoreFacts, BareJoins DEF Rest
<1>3. script \in Seq(Message) /\ Len(script) \in Nat /\ Len(ReadableScript) \in 0..Len(script)
  BY ReadableFacts, LenProperties DEF FramingTypes
<1>4. CASE parser = "between"
  <2>1. PICK k \in 0..Len(ReadableScript) : received = Got(k) /\ Rest = After(k)
    BY <1>4 DEF Sane, SaneAt, InMessage, Fresh, Midway, OutStages, InStages
  <2>2. k = Len(script)
    BY <1>2, <1>3, <2>1, ReadBetween
  <2> QED
    BY <1>1, <1>4, <2>1, <2>2 DEF SaneAt
<1>5. CASE parser = "message"
  <2>1. PICK k \in 0..(Len(script) - 1) :
          /\ InNext(k) /\ k + 1 \in 0..Len(ReadableScript)
          /\ InMessage("message", parsing.pieces, Rest, k)
    BY <1>5, WhereItIs DEF InMessageStages, OutStages
  <2>2. After(k) # <<>>
    BY <1>3, <2>1, ReadBetween
  <2>3. k + 1 \in 0..Len(script)
    BY <1>3
  <2>4. \A ps \in Seq(Piece), items \in Seq(Held) : Outside(ps, items, k + 1) # <<>>
    BY <1>3, <2>3, LeftTypes
  <2>5. Rest # <<>>
    BY <2>1, <2>2, <2>4 DEF InMessage, Fresh, Midway, OutStages, InStages
  <2> QED
    BY <1>2, <2>5
<1> QED
  BY <1>1, <1>4, <1>5

LEMMA StreamRaisesReads ==
  ASSUME Sane, StreamRaises
  PROVE  SaneAt(parser', parsing', received', Rest')
BY DEF Sane, SaneAt, StreamRaises

-----------------------------------------------------------------------------
(* ParseInv is inductive.                                                   *)

LEMMA ParseInvInit == Init => ParseInv
<1> SUFFICES ASSUME Init PROVE ParseInv
  OBVIOUS
<1>1. /\ script \in Seq(Message) /\ receiver \in Receiver /\ toSend = script
      /\ out = <<>> /\ wire = <<>> /\ sending = "yes" /\ parser = "between"
      /\ parsing = [index |-> 0, headed |-> FALSE, pieces |-> <<>>]
      /\ received = <<>>
  BY FramingAssumption DEF Init, FramingInit, NoMessage
<1>2. 0 \in Index /\ <<>> \in Seq(Piece) /\ <<>> \in Seq(Bare)
      /\ <<>> \in Seq(OnWire) /\ <<>> \in Seq(Result)
  BY FramingAssumption, EmptySeq
<1>3. FramingTypes
  BY <1>1, <1>2 DEF FramingTypes
<1>4. Rest = After(0)
  <2>1. ToCome = AllBuffers(script) /\ ToCome \in Seq(Bare)
    BY <1>1, <1>3, AllBuffersFacts, BareJoins DEF ToCome
  <2> QED
    BY <1>1, <2>1, CoreFacts, BareJoins, ScriptFacts DEF Rest
<1>5. Sane
  <2>1. received = Got(0) /\ 0 \in 0..Len(ReadableScript)
    <3>1. Len(ReadableScript) \in Nat
      BY <1>1, ReadableFacts, LenProperties
    <3> QED
      BY <1>1, <3>1, ScriptFacts
  <2> QED
    BY <1>1, <1>4, <2>1 DEF Sane, SaneAt
<1>6. SkipsInert
  <2>1. Len(wire) = 0
    BY <1>1
  <2> QED
    BY <2>1 DEF SkipsInert
<1> QED
  BY <1>1, <1>3, <1>5, <1>6 DEF ParseInv

(* The parser and the script as they are, and the same of the stream left.  *)
LEMMA SenderKeepsSane ==
  ASSUME UNCHANGED <<receiverVars, receiver, script>>, Rest' = Rest, Sane \/ Beyond
  PROVE  Sane' \/ Beyond'
<1>1. CASE Sane
  BY <1>1, StaysSane, SaneStays
<1>2. CASE Beyond
  BY <1>2, ScriptStays DEF Beyond, receiverVars
<1> QED
  BY <1>1, <1>2

LEMMA SenderKeepsInv ==
  ASSUME ParseInv, SenderStep \/ SendSkip \/ Breaks
  PROVE  ParseInv'
<1> USE DEF ParseInv
<1>1. CASE NextMessage
  <2>1. ToCome' = ToCome /\ wire' = wire /\ FramingTypes'
    BY <1>1, NextMessageKeeps
  <2>2. /\ UNCHANGED <<receiverVars, receiver, script, stray, sending>> /\ sending = "yes"
    BY <1>1 DEF NextMessage
  <2>3. Rest' = Rest
    BY <2>1 DEF Rest, Core
  <2>4. SkipsInert => SkipsInert'
    BY <2>1, <2>2 DEF SkipsInert, Inert, Core, First, Known
  <2> QED
    BY <2>1, <2>2, <2>3, <2>4, SenderKeepsSane
<1>2. CASE SendBuffer
  <2>1. FramingTypes'
    BY <1>2, SendBufferKeeps
  <2>2. PICK b \in OnWire :
          /\ ~b.skip /\ wire' = Append(wire, b)
          /\ \A w \in Seq(OnWire) : Core(Append(w, b)) \o ToCome' = Core(w) \o ToCome
    BY <1>2, SendBufferKeeps
  <2>3. /\ UNCHANGED <<receiverVars, receiver, script, stray, sending>> /\ sending = "yes"
    BY <1>2 DEF SendBuffer
  <2>4. Rest' = Rest
    <3>1. Core(wire') \o ToCome' = Core(wire) \o ToCome
      BY <2>2 DEF FramingTypes
    <3>2. Rest' = Core(wire') \o ToCome'
      BY DEF Rest, Core
    <3> QED
      BY <3>1, <3>2 DEF Rest
  <2>5. SkipsInert => SkipsInert'
    BY <2>2, <2>3, SkipsAppend
  <2> QED
    BY <2>1, <2>3, <2>4, <2>5, SenderKeepsSane
<1>3. CASE SendSkip
  <2>1. /\ FramingTypes' /\ wire' = Append(wire, Skip) /\ ToCome' = ToCome
        /\ \A w \in Seq(OnWire) : Core(Append(w, Skip)) = Core(w)
    BY <1>3, SendSkipKeeps
  <2>2. /\ UNCHANGED <<receiverVars, receiver, script, sending>> /\ sending = "yes"
        /\ stray' = (stray \/ (~receiver.aware /\ BeforeAnother))
    BY <1>3 DEF SendSkip
  <2>3. Rest' = Rest
    <3>1. Core(wire') = Core(wire)
      BY <2>1 DEF FramingTypes
    <3>2. Rest' = Core(wire') \o ToCome'
      BY DEF Rest, Core
    <3> QED
      BY <2>1, <3>1, <3>2 DEF Rest
  <2>4. ~stray' /\ SkipsInert => SkipsInert'
    <3> SUFFICES ASSUME ~stray', SkipsInert PROVE SkipsInert'
      OBVIOUS
    <3>1. receiver.aware \/ Inert(ToCome')
      BY <2>1, <2>2, NotStray DEF Inert
    <3>2. Skip \in OnWire
      BY BareFacts
    <3>3. \A w \in Seq(OnWire) : Core(Append(w, Skip)) \o ToCome' = Core(w) \o ToCome
      BY <2>1
    <3> QED
      BY <2>1, <2>2, <3>1, <3>2, <3>3, SkipsAppend
  <2> QED
    BY <2>1, <2>2, <2>3, <2>4, SenderKeepsSane
<1>4. CASE SendEnds \/ Breaks
  <2>1. /\ UNCHANGED <<toSend, out, wire, receiverVars, receiver, script, stray>>
        /\ sending' = "ended" => out = <<>> /\ toSend = <<>>
    BY <1>4 DEF SendEnds, Breaks
  <2>2. ToCome' = ToCome /\ Rest' = Rest /\ FramingTypes'
    BY <2>1 DEF ToCome, Rest, Core, AllBuffers, FramingTypes, receiverVars
  <2>3. SkipsInert => SkipsInert'
    BY <2>1, <2>2 DEF SkipsInert, Inert, Core, First, Known
  <2> QED
    BY <2>1, <2>2, <2>3, SenderKeepsSane
<1> QED
  BY <1>1, <1>2, <1>3, <1>4 DEF SenderStep

LEMMA ParserKeepsInv ==
  ASSUME ParseInv, ParserStep
  PROVE  ParseInv'
<1> USE DEF ParseInv
<1>1. Reads /\ FramingTypes'
  BY ParserReads
<1>2. sending' = "ended" => out' = <<>> /\ toSend' = <<>>
  BY <1>1 DEF Reads
<1>3. SkipsInert => SkipsInert'
  <2>1. ToCome' = ToCome
    BY <1>1, RestAfter
  <2>2. CASE wire' = wire
    BY <1>1, <2>1, <2>2 DEF Reads, SkipsInert, Inert, Core, First, Known
  <2>3. CASE wire # <<>> /\ wire' = Tail(wire)
    BY <1>1, <2>1, <2>3, SkipsTail DEF Reads
  <2> QED
    BY <1>1, <2>2, <2>3 DEF Reads
<1>4. ASSUME SkipsInert, Sane
      PROVE  SaneAt(parser', parsing', received', Rest') \/ Beyond
  <2>1. CASE OpensAgain
    <3>1. UNCHANGED receiverVars /\ wire' = wire
      BY <2>1 DEF OpensAgain
    <3> QED
      BY <1>1, <1>4, <3>1, RestAfter, StaysSane
  <2> QED
    BY <1>4, <2>1, DropReads, BeginMessageReads, BeginPartReads, TakeChunkReads,
       TakeOtherReads, TakeStartReads, TakeInBlockReads, TakeEndReads,
       StreamStopsReads, StreamRaisesReads DEF ParserStep
<1>5. ASSUME SkipsInert, Sane \/ Beyond PROVE Sane' \/ Beyond'
  <2>1. SaneAt(parser', parsing', received', Rest') \/ Beyond
    BY <1>4, <1>5
  <2>2. SaneAt(parser', parsing', received', Rest') => Sane'
    BY <1>1, SaneStays DEF Reads
  <2>3. Beyond => Beyond'
    BY <1>1, BeyondStays
  <2> QED
    BY <2>1, <2>2, <2>3
<1> QED
  BY <1>1, <1>2, <1>3, <1>5 DEF Reads

LEMMA OtherStepsKeepInv ==
  ASSUME ParseInv, OwnStep \/ UNCHANGED vars
  PROVE  ParseInv'
<1> USE DEF ParseInv
<1>1. /\ UNCHANGED <<toSend, out, wire, sending, stray, receiverVars, receiver, script>>
  BY DEF OwnStep, ToSender, vars, senderVars
<1>2. ToCome' = ToCome /\ Rest' = Rest /\ FramingTypes'
  BY <1>1 DEF ToCome, Rest, Core, AllBuffers, FramingTypes, receiverVars
<1>3. SkipsInert => SkipsInert'
  BY <1>1, <1>2 DEF SkipsInert, Inert, Core, First, Known
<1> QED
  BY <1>1, <1>2, <1>3, SenderKeepsSane

(* The messages sent are the messages read, for any scripts, indices,       *)
(* pieces, receivers and bounds (client.py, parse_from_buffer and           *)
(* serialize_to_buffer; control.py, StreamControl.reader and writer).       *)
THEOREM MessagesAreRead == Spec => []ParsedAsSent
<1>1. Init => ParseInv
  BY ParseInvInit
<1>2. ParseInv /\ [Next]_vars => ParseInv'
  BY SenderKeepsInv, ParserKeepsInv, OtherStepsKeepInv DEF Next
<1>3. ParseInv => ParsedAsSent
  <2> SUFFICES ASSUME FramingTypes, Sane \/ Beyond
               PROVE  /\ \/ IsPrefix(received, ExpectedAll)
                         \/ IsPrefix(ExpectedAll, received) /\ ReadableScript # script
                      /\ parser = "ended" => IsPrefix(ExpectedAll, received)
    BY DEF ParseInv, ParsedAsSent
  <2>1. CASE Sane
    <3>1. PICK k \in 0..Len(ReadableScript) :
            received = Got(k) /\ (parser = "ended" => k = Len(script))
      BY <2>1 DEF Sane, SaneAt, InMessage, Fresh, Midway, OutStages, InStages
    <3>2. /\ IsPrefix(Got(k), ExpectedAll)
          /\ ExpectedAll = Got(Len(ReadableScript))
          /\ Len(ReadableScript) \in 0..Len(script)
      BY ReadableFacts DEF FramingTypes
    <3>3. parser = "ended" => k = Len(ReadableScript)
      <4>1. Len(script) \in Nat
        BY LenProperties DEF FramingTypes
      <4> QED
        BY <3>1, <3>2, <4>1
    <3> QED
      BY <3>1, <3>2, <3>3
  <2>2. CASE Beyond
    BY <2>2 DEF Beyond
  <2> QED
    BY <2>1, <2>2
<1> QED
  BY <1>1, <1>2, <1>3, PTL DEF Spec
=============================================================================
