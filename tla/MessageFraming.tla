--------------------------- MODULE MessageFraming ---------------------------
(***************************************************************************)
(* How several messages share one stream of Buffers: serialize_to_buffer   *)
(* of one party, with its skip requests between its Buffers, and           *)
(* parse_from_buffer of the other, which may not know skip requests.       *)
(* Buffers can carry the signal that pauses and resumes the parser's own   *)
(* sending side (FlowSignal).  What happens within a message kept on disk  *)
(* is BlockReceiver's; here a block is what lies between its two markers.  *)
(***************************************************************************)
EXTENDS FlowSignal, SequencesExt

CONSTANTS
    Index,       \* the indices a sender may use
    Piece,       \* the pieces of bytes that a chunk holds
    Script,      \* what the sender may have to send: sequences of messages
    Receiver,    \* who may receive it
    MaxSkips,    \* bound: the skip requests it has to send
    MaxSignals,  \* bound: the Buffers that carry a signal
    MaxInFlight, \* bound: the Buffers on the wire
    None

(* A message is one Buffer, if it is small, or a head, what it holds and a  *)
(* separator.  It holds plain pieces and blocks.                            *)
Held    == [block : BOOLEAN, pieces : Seq(Piece)]
Message == [index : Index, small : BOOLEAN, items : Seq(Held)]

(* Every receiver knows index 0, which is bytes.                            *)
Modes == UNION {[known -> {"memory", "disk"}] : known \in SUBSET Index}

ASSUME FramingAssumption ==
    /\ Index \subseteq Nat /\ {0, 1} \subseteq Index
    /\ None \notin Index \cup Seq(Piece)
    /\ Script \subseteq Seq(Message)
    /\ Receiver \subseteq [aware : BOOLEAN, empty : BOOLEAN, mode : Modes]
    /\ \A r \in Receiver : 0 \in DOMAIN r.mode /\ (r.empty => 1 \in DOMAIN r.mode)

VARIABLES
    toSend,    \* the messages not begun
    out,       \* the rest of the Buffers of the message being sent
    wire,      \* the Buffers on their way
    sending,   \* "yes", "ended", "broken"
    skips,     \* how many skip requests were sent
    signals,   \* how many signals were sent
    parser,    \* "between", "part", "message", "block part", "block",
               \* "stuck", "ended", "raised"
    parsing,   \* the message being parsed: its index, whether that was given
               \* by a head, and what it has so far
    received,  \* the messages parse_from_buffer has yielded
    receiver,  \* aware of skip requests or not, the mode of each index it
               \* knows, and whether indices[1] is Empty
    script,    \* history: what there was to send
    stray      \* history: a skip request went out where it is no padding

senderVars   == <<toSend, out, sending, skips, signals, stray>>
receiverVars == <<parser, parsing, received>>
vars == <<senderVars, wire, receiverVars, receiver, script, signalVars>>

-----------------------------------------------------------------------------
(* The Buffers of a message.                                                *)

Blank == [head |-> None, chunk |-> None, marker |-> FALSE, separator |-> FALSE,
          skip |-> FALSE, signal |-> FALSE]

Skip       == [Blank EXCEPT !.skip = TRUE, !.chunk = <<>>]
Separator  == [Blank EXCEPT !.separator = TRUE]
Marker     == [Blank EXCEPT !.marker = TRUE]
HeadOf(i)  == [Blank EXCEPT !.head = i]
ChunkOf(x) == [Blank EXCEPT !.chunk = <<x>>]

Pieces(m) == FlattenSeq([i \in DOMAIN m.items |-> m.items[i].pieces])

Chunks(pieces) == [i \in DOMAIN pieces |-> ChunkOf(pieces[i])]

ItemBuffers(item) ==
    IF item.block THEN <<Marker>> \o Chunks(item.pieces) \o <<Marker>>
                  ELSE Chunks(item.pieces)

Buffers(m) ==
    IF m.small
      THEN <<[HeadOf(m.index) EXCEPT !.chunk = Pieces(m), !.separator = TRUE]>>
      ELSE <<HeadOf(m.index)>>
           \o FlattenSeq([i \in DOMAIN m.items |-> ItemBuffers(m.items[i])])
           \o <<Separator>>

-----------------------------------------------------------------------------

Known == DOMAIN receiver.mode  \* `indices`

(* The index of a message without a head.                                   *)
First == IF 1 \in Known THEN 1 ELSE 0

NoMessage == [index |-> 0, headed |-> FALSE, pieces |-> <<>>]

FramingInit ==
    /\ script \in Script
    /\ receiver \in Receiver
    /\ toSend = script
    /\ out = <<>>
    /\ wire = <<>>
    /\ sending = "yes"
    /\ skips = 0
    /\ signals = 0
    /\ parser = "between"
    /\ parsing = NoMessage
    /\ received = <<>>
    /\ stray = FALSE

(* payload(): the Buffers of the next message.                              *)
NextMessage ==
    /\ sending = "yes"
    /\ out = <<>> /\ toSend # <<>>
    /\ out' = Buffers(Head(toSend))
    /\ toSend' = Tail(toSend)
    /\ UNCHANGED <<wire, sending, skips, signals, stray, receiverVars, receiver,
                   script, signalVars>>

SendBuffer ==
    /\ sending = "yes"
    /\ out # <<>>
    /\ Len(wire) < MaxInFlight
    /\ \E s \in BOOLEAN :
        /\ s => signals < MaxSignals
        /\ signals' = IF s THEN signals + 1 ELSE signals
        /\ wire' = Append(wire, [Head(out) EXCEPT !.signal = s])
    /\ out' = Tail(out)
    /\ UNCHANGED <<toSend, sending, skips, stray, receiverVars, receiver, script,
                   signalVars>>

(* A skip request goes out before any Buffer, or after the last.  To a peer *)
(* that does not know it, it begins a message of index First.               *)
BeforeAnother ==
    \/ out = <<>> /\ (toSend = <<>> \/ Head(toSend).index # First)
    \/ out # <<>> /\ Head(out).head # None /\ Head(out).head # First

SendSkip ==
    /\ sending = "yes"
    /\ skips < MaxSkips
    /\ Len(wire) < MaxInFlight
    /\ wire' = Append(wire, Skip)
    /\ skips' = skips + 1
    /\ stray' = (stray \/ (~receiver.aware /\ BeforeAnother))
    /\ UNCHANGED <<toSend, out, sending, signals, receiverVars, receiver, script,
                   signalVars>>

SendEnds ==
    /\ sending = "yes"
    /\ out = <<>> /\ toSend = <<>>
    /\ sending' = "ended"
    /\ UNCHANGED <<toSend, out, wire, skips, signals, stray, receiverVars,
                   receiver, script, signalVars>>

(* The call fails under way.                                                *)
Breaks ==
    /\ sending = "yes"
    /\ sending' = "broken"
    /\ UNCHANGED <<toSend, out, wire, skips, signals, stray, receiverVars,
                   receiver, script, signalVars>>

-----------------------------------------------------------------------------
(* parse_from_buffer.  Its main loop looks at a Buffer and puts it back for *)
(* parser_iterator to read again.                                           *)

Arrived == wire # <<>> /\ ~changing

At(stage) == parser = stage /\ Arrived

Buffer == Head(wire)

ToSender == UNCHANGED <<senderVars, receiver, script>>

(* StreamControl.reader: a Buffer that is nothing but a request is dropped. *)
Drop ==
    /\ Arrived
    /\ parser \in {"between", "message", "block"}
    /\ receiver.aware /\ Buffer.skip
    /\ wire' = Tail(wire)
    /\ ToSender /\ UNCHANGED <<receiverVars, signalVars>>

Passes == ~(receiver.aware /\ Buffer.skip)

BeginMessage ==
    /\ At("between") /\ Passes
    /\ LET i == IF Buffer.head = None THEN First ELSE Buffer.head
       IN  IF i \notin Known
             THEN parser' = "raised" /\ UNCHANGED parsing
             ELSE /\ parsing' = [index |-> i, headed |-> Buffer.head # None,
                                 pieces |-> <<>>]
                  /\ parser' = IF receiver.mode[i] = "disk" THEN "part" ELSE "message"
    /\ ToSender /\ UNCHANGED <<wire, received, signalVars>>

(* save_chunks_to_file waits on the signal that only this thread opens.     *)
BeginPart ==
    /\ parser \in {"part", "block part"} /\ ~changing
    /\ parser' = CASE ~open           -> "stuck"
                   [] parser = "part" -> "message"
                   [] OTHER           -> "block"
    /\ ToSender /\ UNCHANGED <<wire, parsing, received, signalVars>>

(* In memory a message without bytes is EmptyBufferException.               *)
Empties(index, pieces) == receiver.mode[index] = "memory" /\ pieces = <<>>

(* Mutant of Outcome: Empty is yielded whatever indices[1] is.              *)
OutcomeAlwaysEmpty(index, pieces) ==
    IF Empties(index, pieces) THEN <<[index |-> 1, pieces |-> <<>>]>>
                              ELSE <<[index |-> index, pieces |-> pieces]>>

(* What is yielded for a message.                                           *)
Outcome(index, pieces) ==
    IF ~Empties(index, pieces) THEN <<[index |-> index, pieces |-> pieces]>>
    ELSE IF receiver.empty     THEN <<[index |-> 1, pieces |-> <<>>]>>
    ELSE <<>>

(* To see whether to yield Empty, indices[1] is looked up.                  *)
Unlisted(pieces) ==
    Empties(parsing.index, pieces) /\ parsing.headed /\ 1 \notin Known

MessageEnds(pieces) ==
    IF Unlisted(pieces)
      THEN parser' = "raised" /\ UNCHANGED <<parsing, received>>
      ELSE /\ parser' = "between"
           /\ parsing' = NoMessage
           /\ received' = received \o Outcome(parsing.index, pieces)

GoesOn(pieces, stage) ==
    /\ parser' = stage
    /\ parsing' = [parsing EXCEPT !.pieces = pieces]
    /\ UNCHANGED received

(* Each Buffer that parser_iterator reads may change the signal first.      *)
Take ==
    /\ wire' = Tail(wire)
    /\ ToSender
    /\ IF Buffer.signal THEN Change ELSE UNCHANGED signalVars

SoFar == parsing.pieces \o (IF Buffer.chunk = None THEN <<>> ELSE Buffer.chunk)

(* Mutant of TakeChunk: the separator of a Buffer with a chunk is missed.   *)
TakeChunkOnly ==
    /\ At("message") /\ Passes
    /\ ~Buffer.marker /\ Buffer.chunk # None
    /\ Take
    /\ GoesOn(SoFar, "message")

(* Bytes, and maybe the end with them.                                      *)
TakeChunk ==
    /\ At("message") /\ Passes
    /\ ~Buffer.marker /\ Buffer.chunk # None
    /\ Take
    /\ IF Buffer.separator THEN MessageEnds(SoFar) ELSE GoesOn(SoFar, "message")

(* A head is passed over; what is neither head nor chunk ends the message.  *)
TakeOther ==
    /\ At("message") /\ Passes
    /\ ~Buffer.marker /\ Buffer.chunk = None
    /\ Take
    /\ IF Buffer.head # None /\ ~Buffer.separator
         THEN GoesOn(parsing.pieces, "message")
         ELSE MessageEnds(parsing.pieces)

(* A block that is kept on disk and is not held goes to a file of its own.  *)
TakeStart ==
    /\ At("message") /\ Passes
    /\ Buffer.marker
    /\ Take
    /\ \/ GoesOn(parsing.pieces, "block")
       \/ /\ receiver.mode[parsing.index] = "disk"
          /\ GoesOn(parsing.pieces, "block part")

(* Within a block, its bytes, sent or read from the store.                  *)
TakeInBlock ==
    /\ At("block") /\ Passes
    /\ ~Buffer.marker
    /\ Take
    /\ GoesOn(SoFar, "block")

(* After a block the iterator of the message ends too.  On disk there is    *)
(* another for the next part; in memory that was the message.               *)
TakeEnd ==
    /\ At("block") /\ Passes
    /\ Buffer.marker
    /\ Take
    /\ IF receiver.mode[parsing.index] = "disk"
         THEN GoesOn(parsing.pieces, "part")
         ELSE MessageEnds(parsing.pieces)

(* The iterator stops: the message is what there is.  Or it raises: there   *)
(* is no message.                                                           *)
StreamStops ==
    /\ wire = <<>> /\ sending = "ended" /\ ~changing
    /\ parser \in {"between", "message"}
    /\ IF parser = "between"
         THEN parser' = "ended" /\ UNCHANGED <<parsing, received>>
         ELSE MessageEnds(parsing.pieces)
    /\ ToSender /\ UNCHANGED <<wire, signalVars>>

StreamRaises ==
    /\ wire = <<>> /\ sending = "broken" /\ ~changing
    /\ parser \in {"between", "message", "block"}
    /\ parser' = "raised"
    /\ ToSender /\ UNCHANGED <<wire, parsing, received, signalVars>>

OpensAgain == SetOpen /\ ToSender /\ UNCHANGED <<wire, receiverVars>>

-----------------------------------------------------------------------------

SenderStep == NextMessage \/ SendBuffer \/ SendEnds

ParserStep ==
    \/ Drop \/ BeginMessage \/ BeginPart
    \/ TakeChunk \/ TakeOther \/ TakeStart \/ TakeInBlock \/ TakeEnd
    \/ StreamStops \/ StreamRaises \/ OpensAgain

OwnStep ==
    /\ SerializerStep
    /\ ToSender /\ UNCHANGED <<wire, receiverVars>>

Init == FramingInit /\ SignalInit

Next == SenderStep \/ SendSkip \/ Breaks \/ ParserStep \/ OwnStep

(* gRPC goes on pulling from a generator while the call is alive, and the   *)
(* caller goes on iterating.                                                *)
Fairness == WF_vars(SenderStep) /\ WF_vars(ParserStep) /\ WF_vars(OwnStep)

Spec == Init /\ [][Next]_vars /\ Fairness

-----------------------------------------------------------------------------

(* What the sender of a message may count on: it is yielded whole, under    *)
(* its own index.  That is not promised of one without bytes to a peer that *)
(* parses it in memory: Empty stands for it, under index 1, where that is   *)
(* Empty, and nothing elsewhere.                                            *)
Bytesless(m) == Pieces(m) = <<>> /\ receiver.mode[m.index] = "memory"

Expected(m) ==
    IF ~Bytesless(m)       THEN <<[index |-> m.index, pieces |-> Pieces(m)]>>
    ELSE IF receiver.empty THEN <<[index |-> 1, pieces |-> <<>>]>>
    ELSE <<>>

(* A message with a block, parsed in memory, is cut after the block, and    *)
(* the rest is read as other messages.  One with an unknown index raises,   *)
(* and so does one without bytes in memory where index 1 is unknown.        *)
Readable(m) ==
    /\ m.index \in Known
    /\ receiver.mode[m.index] = "memory" =>
            \A i \in DOMAIN m.items : ~m.items[i].block
    /\ Bytesless(m) => 1 \in Known

ReadableScript ==
    LET bad == {k \in DOMAIN script : ~Readable(script[k])}
    IN  IF bad = {} THEN script
        ELSE SubSeq(script, 1, (CHOOSE k \in bad : \A l \in bad : k <= l) - 1)

ExpectedAll ==
    FlattenSeq([k \in DOMAIN ReadableScript |-> Expected(ReadableScript[k])])

(* Whatever forms the messages were sent in, wherever skip requests and     *)
(* signals came between their Buffers and whenever the call broke off, the  *)
(* parser yields the messages sent, in order, each whole and under its own  *)
(* index, up to the first it cannot read; and if it ends, all of them.      *)
(* Excepted are those without bytes that are parsed in memory: for them it  *)
(* yields Empty or nothing, as Expected says, and the others are not        *)
(* affected.  A peer that does not know skip requests reads the same, as    *)
(* long as none is sent ahead of a message of another index than the first, *)
(* or at the end.                                                           *)
ParsedAsSent ==
    ~stray =>
        /\ IsPrefix(received, ExpectedAll)
           \/ (IsPrefix(ExpectedAll, received) /\ ReadableScript # script)
        /\ parser = "ended" => IsPrefix(ExpectedAll, received)

(* Once the parser has seen a pause, the serializer sends two more Buffers  *)
(* of its messages at most, a separator and the head after it: it waits     *)
(* around all others.  Its skip requests no pause holds (see Ask).          *)
PauseHolds == late <= 2

(* The parser, which alone could open it, waits on the signal.              *)
Stuck == parser = "stuck"

(* The serializer waits, and nobody is left to open the signal: it was      *)
(* paused for good, or went to wait after the wake-up.                      *)
LeftPaused ==
    /\ parser = "ended"
    /\ waiting = "parked"
    /\ ~open \/ missed

(* A call comes to its end: the parser raises, or it ends and the           *)
(* serializer has sent all it had, unless one of those two happens.         *)
Completes ==
    <>(\/ parser = "raised"
       \/ parser = "ended" /\ Done
       \/ Stuck \/ LeftPaused)
=============================================================================
