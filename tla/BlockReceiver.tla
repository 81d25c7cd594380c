--------------------------- MODULE BlockReceiver ----------------------------
(***************************************************************************)
(* The receiving half of a transfer: client.parse_from_buffer saving one   *)
(* message to disk, and the block store it saves the blocks to.            *)
(*                                                                         *)
(* The code is a tower of generators.  parser_iterator recurses once per   *)
(* open block and passes Buffers up; save_to_dir, save_block_content (one  *)
(* per block being stored) and the drain loop of save_chunks_to_block      *)
(* consume them.  Between two steps of this tower other streams of the     *)
(* node store blocks in the same directory and a clean-up removes them:    *)
(* whether a block exists is asked three times per block, and each answer  *)
(* may be stale when it is used.                                           *)
(***************************************************************************)
EXTENDS BlockObjects

CONSTANTS
    MaxNesting,  \* MAX_BLOCK_NESTING
    Asking,      \* whether a StreamControl is there to send requests through
    MakesWbp     \* not Enviroment.skip_wbp_generation

ASSUME ReceiverAssumption ==
    /\ MaxNesting \in Nat \ {0}
    /\ Asking \in BOOLEAN
    /\ MakesWbp \in BOOLEAN
    /\ None \notin {"peer", "nesting", "intersection", "reread", "mismatch", "wbp",
                   "rename"}
    /\ None \notin Seq(Item)

VARIABLES
    rpc,       \* where the tower of generators stands
    cause,     \* why it raised, None while it has not
    blocks,    \* parser_iterator: the open blocks
    levels,    \* how many parser_iterators of open blocks are running
    saving,    \* what is being written: the object, and in it blocks
    draining,  \* the block whose Buffers are thrown away, None if none
    object,    \* the items of the object that was delivered, None before
    store,     \* the block directory: what each block is stored as, or None
    asked,     \* control._asked
    upstream,  \* the requests queued and not yet read by the peer
    wire       \* the Buffers on their way here

parserVars  == <<blocks, levels>>
requestVars == <<asked, upstream>>
vars == <<rpc, cause, parserVars, saving, draining, object, store, requestVars, wire>>

(* One file tree being written: the items it has so far, and the bytes that *)
(* its hasher has been fed.                                                 *)
Empty(n) == [id |-> n, items |-> <<>>, hashed |-> <<>>]

Stored == Seq(Item) \cup {None}

(* What the block directory may hold before: some blocks, each as one file  *)
(* or in the form it was built in, and with a directory what it points to.  *)
FormsOf(b) == {None, Expand[b], Body[b]}
StoresBefore ==
    {s \in [Block -> UNION {FormsOf(b) : b \in Block}] :
        \A b \in Block :
            /\ s[b] \in FormsOf(b)
            /\ s[b] # None => \A i \in DOMAIN s[b] :
                                s[b][i] \in Block => s[s[b][i]] # None}

Init ==
    /\ rpc = "idle"
    /\ cause = None
    /\ blocks = <<>>
    /\ levels = 0
    /\ saving = <<Empty(Root)>>
    /\ draining = None
    /\ object = None
    /\ store \in StoresBefore
    /\ asked = {}
    /\ upstream = <<>>
    /\ wire = <<>>

-----------------------------------------------------------------------------
(* The block store.                                                         *)

Exists(b) == store[b] # None

(* Whether every file that b's expansion is read from is there.             *)
Readable(b) ==
    LET readable[c \in Block] ==
            /\ Exists(c)
            /\ \A i \in DOMAIN store[c] : store[c][i] \in Block => readable[store[c][i]]
    IN  readable[b]

(* What read_block(ignore_blocks=True) reads for b when it is readable.     *)
FormOf(c) == IF Exists(c) THEN store[c] ELSE <<>>
StoredBytes(b) ==
    LET bytes[c \in Block] ==
            FlattenSeq([i \in 1..Len(FormOf(c)) |->
                          IF FormOf(c)[i] \in Block THEN bytes[FormOf(c)[i]]
                                                    ELSE <<FormOf(c)[i]>>])
    IN  bytes[b]

(* generate_wbp_file has to measure every block of a directory.             *)
WbpFails(items) ==
    /\ MakesWbp
    /\ \E i \in DOMAIN items : items[i] \in Block /\ ~Readable(items[i])

(* os.replace(ready, final): a file replaces a file; a directory does not   *)
(* replace a file nor a directory that holds something, nor a file a        *)
(* directory.                                                               *)
Replaces(items, b) ==
    Exists(b) => ~IsDirectory(items) /\ ~IsDirectory(store[b])

-----------------------------------------------------------------------------
(* Steps of the tower.                                                      *)

Arrived == Head(wire)
Arrives(kind) == rpc = "read" /\ wire # <<>> /\ Arrived.kind = kind
Take == wire' = Tail(wire)

(* The iterator of the outermost open block has ended, with consumers still *)
(* waiting on it: each of them ends in turn, and nothing is read meanwhile. *)
Exhausted ==
    /\ rpc = "read"
    /\ levels = 0
    /\ draining # None \/ Len(saving) > 1

Fails(why) == rpc' = "failed" /\ cause' = why

(* Bytes reach the file being written, and the hashers of every block       *)
(* around them.                                                             *)
Fed(items, bytes) ==
    [i \in 1..Len(saving) |->
        [saving[i] EXCEPT
            !.items  = IF i = Len(saving) THEN @ \o items ELSE @,
            !.hashed = IF saving[i].id = Root THEN @ ELSE @ \o bytes]]

(* Mutant of LevelEnds: the iterator is not counted out.                    *)
LevelStays(left) ==
    /\ levels' = levels
    /\ blocks' = IF levels = 1 THEN <<>> ELSE left

(* The iterator of one open block ends.  `blocks` is looked at only by      *)
(* running iterators: the next message part starts with an empty one.       *)
LevelEnds(left) ==
    /\ levels' = levels - 1
    /\ blocks' = IF levels = 1 THEN <<>> ELSE left

(* The first Buffer of the message is put back and read by parser_iterator. *)
Begin ==
    /\ rpc = "idle"
    /\ wire # <<>>
    /\ \/ /\ Arrived.kind = "error"
          /\ Fails("peer")
       \/ /\ Arrived.kind = "eof"
          /\ rpc' = "ended"
          /\ UNCHANGED cause
       \/ /\ Arrived.kind \notin {"error", "eof"}
          /\ rpc' = "read"
          /\ UNCHANGED cause
    /\ UNCHANGED <<parserVars, saving, draining, object, store, requestVars, wire>>

(* A head has neither chunk nor separator: parser_iterator reads on.        *)
TakeHead ==
    /\ Arrives("head")
    /\ ~Exhausted
    /\ Take
    /\ UNCHANGED <<rpc, cause, parserVars, saving, draining, object, store, requestVars>>

(* Mutant of TakeChunk: what is drained is written all the same.            *)
TakeChunkAlways ==
    /\ Arrives("chunk")
    /\ ~Exhausted
    /\ Take
    /\ saving' = Fed(<<Arrived.val>>, <<Arrived.val>>)
    /\ UNCHANGED <<rpc, cause, parserVars, draining, object, store, requestVars>>

TakeChunk ==
    /\ Arrives("chunk")
    /\ ~Exhausted
    /\ Take
    /\ saving' = IF draining = None THEN Fed(<<Arrived.val>>, <<Arrived.val>>) ELSE saving
    /\ UNCHANGED <<rpc, cause, parserVars, draining, object, store, requestVars>>

(* request_skip: at most one request per block and call.                    *)
Request(b) ==
    IF Asking /\ b \notin asked
      THEN /\ asked' = asked \cup {b}
           /\ upstream' = Append(upstream, b)
      ELSE UNCHANGED requestVars

(* The marker of a block that is not open: a start.  The first check of the *)
(* store decides whether to ask the peer to skip it.                        *)
TakeStart ==
    /\ Arrives("block")
    /\ ~Exhausted
    /\ Arrived.val \notin ToSet(blocks)
    /\ Len(blocks) < MaxNesting
    /\ Take
    /\ blocks' = Append(blocks, Arrived.val)
    /\ levels' = levels + 1
    /\ IF Exists(Arrived.val) THEN Request(Arrived.val) ELSE UNCHANGED requestVars
    /\ rpc' = IF draining = None THEN "second" ELSE "read"
    /\ UNCHANGED <<cause, saving, draining, object, store>>

TakeTooDeep ==
    /\ Arrives("block")
    /\ ~Exhausted
    /\ Arrived.val \notin ToSet(blocks)
    /\ Len(blocks) >= MaxNesting
    /\ Take
    /\ Fails("nesting")
    /\ UNCHANGED <<parserVars, saving, draining, object, store, requestVars>>

(* Mutant of SaveOrDrain: the pointer is enough.                            *)
AlwaysDrain ==
    /\ rpc = "second"
    /\ saving' = Fed(<<Last(blocks)>>, <<>>)
    /\ draining' = Last(blocks)
    /\ rpc' = "read"
    /\ UNCHANGED <<cause, parserVars, object, store, requestVars, wire>>

(* save_chunks_to_block: the pointer goes into `_.json`, and the second     *)
(* check of the store decides between saving and draining.                  *)
SaveOrDrain ==
    /\ rpc = "second"
    /\ LET b == Last(blocks)
           pointed == Fed(<<b>>, <<>>)
       IN  IF Exists(b)
             THEN saving' = pointed /\ draining' = b
             ELSE saving' = Append(pointed, Empty(b)) /\ UNCHANGED draining
    /\ rpc' = "read"
    /\ UNCHANGED <<cause, parserVars, object, store, requestVars, wire>>

(* The marker of an open block: an end.  It ends what consumes that block,  *)
(* unless the block lies inside one that is drained.                        *)
TakeEnd ==
    /\ Arrives("block")
    /\ ~Exhausted
    /\ Arrived.val \in ToSet(blocks)
    /\ Last(blocks) = Arrived.val
    /\ Take
    /\ LevelEnds(Front(blocks))
    /\ rpc' = IF draining \in {None, Arrived.val} THEN "close" ELSE "read"
    /\ UNCHANGED <<cause, saving, draining, object, store, requestVars>>

TakeCrossing ==
    /\ Arrives("block")
    /\ ~Exhausted
    /\ Arrived.val \in ToSet(blocks)
    /\ Last(blocks) # Arrived.val
    /\ Take
    /\ Fails("intersection")
    /\ UNCHANGED <<parserVars, saving, draining, object, store, requestVars>>

(* Mutant of CloseDrain: the hashers around it get nothing.                 *)
CloseDrainUnfed ==
    /\ rpc = "close" \/ Exhausted
    /\ draining # None
    /\ rpc' = "read"
    /\ draining' = None
    /\ UNCHANGED <<saving, cause, parserVars, object, store, requestVars, wire>>

(* The drain loop is over.  The hashers around it are fed the bytes of the  *)
(* block held here.                                                         *)
CloseDrain ==
    /\ rpc = "close" \/ Exhausted
    /\ draining # None
    /\ \/ /\ Len(saving) = 1
          /\ rpc' = "read"
          /\ UNCHANGED <<saving, cause>>
       \/ /\ Len(saving) > 1
          /\ Readable(draining)
          /\ saving' = Fed(<<>>, StoredBytes(draining))
          /\ rpc' = "read"
          /\ UNCHANGED cause
       \/ /\ Len(saving) > 1
          /\ ~Readable(draining)
          /\ Fails("reread")
          /\ UNCHANGED saving
    /\ draining' = None
    /\ UNCHANGED <<parserVars, object, store, requestVars, wire>>

(* Mutant of CloseContent: the id is taken at its word.                     *)
CloseUnverified ==
    /\ rpc = "close" \/ Exhausted
    /\ draining = None
    /\ Len(saving) > 1
    /\ rpc' = "publish"
    /\ UNCHANGED <<cause, parserVars, saving, draining, object, store, requestVars, wire>>

(* save_block_content has the whole block: its bytes must be those its id   *)
(* names, and a directory needs its wbp file.                               *)
CloseContent ==
    /\ rpc = "close" \/ Exhausted
    /\ draining = None
    /\ Len(saving) > 1
    /\ LET done == Last(saving)
       IN  \/ /\ done.hashed # Expand[done.id]
              /\ Fails("mismatch")
           \/ /\ done.hashed = Expand[done.id]
              /\ WbpFails(done.items)
              /\ Fails("wbp")
           \/ /\ done.hashed = Expand[done.id]
              /\ ~WbpFails(done.items)
              /\ rpc' = "publish"
              /\ UNCHANGED cause
    /\ UNCHANGED <<parserVars, saving, draining, object, store, requestVars, wire>>

(* The third check: another stream may have stored the block meanwhile.     *)
Publish ==
    /\ rpc = "publish"
    /\ IF Exists(Last(saving).id)
         THEN /\ saving' = Front(saving)
              /\ rpc' = "read"
         ELSE /\ rpc' = "rename"
              /\ UNCHANGED saving
    /\ UNCHANGED <<cause, parserVars, draining, object, store, requestVars, wire>>

Rename ==
    /\ rpc = "rename"
    /\ LET done == Last(saving)
       IN  IF Replaces(done.items, done.id)
             THEN /\ store' = [store EXCEPT ![done.id] = done.items]
                  /\ saving' = Front(saving)
                  /\ rpc' = "read"
                  /\ UNCHANGED cause
             ELSE /\ Fails("rename")
                  /\ UNCHANGED <<store, saving>>
    /\ UNCHANGED <<parserVars, draining, object, requestVars, wire>>

(* Mutant of Deliver: the object is not measured.                           *)
DeliverUnmeasured ==
    /\ object' = saving[1].items
    /\ rpc' = "delivered"
    /\ UNCHANGED cause

(* The end of the message: save_to_dir writes `_.json` and the wbp file of  *)
(* an object that has blocks, and the object is handed to the caller.       *)
Deliver ==
    IF WbpFails(saving[1].items)
      THEN /\ Fails("wbp")
           /\ UNCHANGED object
      ELSE /\ object' = saving[1].items
           /\ rpc' = "delivered"
           /\ UNCHANGED cause

(* A separator ends the innermost iterator, which is that of the message    *)
(* if no block is open.                                                     *)
TakeSeparator ==
    /\ Arrives("separator")
    /\ ~Exhausted
    /\ Take
    /\ IF levels = 0
         THEN Deliver /\ UNCHANGED parserVars
         ELSE LevelEnds(blocks) /\ UNCHANGED <<rpc, cause, object>>
    /\ UNCHANGED <<saving, draining, store, requestVars>>

(* Mutant of TakeEof: inside a block, more is waited for.                   *)
TakeEofOutside ==
    /\ Arrives("eof")
    /\ ~Exhausted
    /\ levels = 0
    /\ Deliver
    /\ UNCHANGED <<parserVars, saving, draining, store, requestVars, wire>>

(* The stream stops without an error.  Every iterator that asks for more    *)
(* gets StopIteration, and to each it is the end of what it was reading.    *)
TakeEof ==
    /\ Arrives("eof")
    /\ ~Exhausted
    /\ IF levels = 0
         THEN Deliver /\ UNCHANGED parserVars
         ELSE /\ levels' = 0
              /\ blocks' = <<>>
              /\ UNCHANGED <<rpc, cause, object>>
    /\ UNCHANGED <<saving, draining, store, requestVars, wire>>

TakeError ==
    /\ Arrives("error")
    /\ ~Exhausted
    /\ Take
    /\ Fails("peer")
    /\ UNCHANGED <<parserVars, saving, draining, object, store, requestVars>>

ReceiverStep ==
    \/ Begin \/ TakeHead \/ TakeChunk \/ TakeStart \/ TakeTooDeep \/ SaveOrDrain
    \/ TakeEnd \/ TakeCrossing \/ CloseDrain \/ CloseContent \/ Publish \/ Rename
    \/ TakeSeparator \/ TakeEof \/ TakeError

-----------------------------------------------------------------------------
(* Everybody else who uses the block directory.                             *)

(* Another stream, or create_block, stores a block it has the bytes of: as  *)
(* one file, or as a directory of blocks it has stored before.              *)
OtherStores(b) ==
    /\ ~Exists(b)
    /\ \/ store' = [store EXCEPT ![b] = Expand[b]]
       \/ /\ IsDirectory(Body[b])
          /\ \A i \in DOMAIN Body[b] : Body[b][i] \in Block => Exists(Body[b][i])
          /\ store' = [store EXCEPT ![b] = Body[b]]
    /\ UNCHANGED <<rpc, cause, parserVars, saving, draining, object, requestVars, wire>>

(* The documented clean-up, rm -rf on the block directory, reaches a block. *)
CleanUp(b) ==
    /\ Exists(b)
    /\ store' = [store EXCEPT ![b] = None]
    /\ UNCHANGED <<rpc, cause, parserVars, saving, draining, object, requestVars, wire>>

(* The peer sends any Buffer, in any order.                                 *)
PeerSends ==
    /\ \E b \in Buffer : wire' = Append(wire, b)
    /\ UNCHANGED <<rpc, cause, parserVars, saving, draining, object, store,
                   requestVars>>

Next ==
    \/ ReceiverStep
    \/ PeerSends
    \/ \E b \in Block : OtherStores(b)
    \/ \E b \in Block : CleanUp(b)

Spec == Init /\ [][Next]_vars

-----------------------------------------------------------------------------
(* Properties.                                                              *)

Frame == [id : Node, items : Seq(Item), hashed : Seq(Chunk)]

(* Every variable has the values the code gives it.                         *)
TypeOK ==
    /\ rpc \in {"idle", "read", "second", "close", "publish", "rename",
                "delivered", "ended", "failed"}
    /\ cause \in {None, "peer", "nesting", "intersection", "reread",
                  "mismatch", "wbp", "rename"}
    /\ blocks \in Seq(Block)
    /\ levels \in 0..Len(blocks)
    /\ saving \in Seq(Frame) /\ saving # <<>>
    /\ draining \in Block \cup {None}
    /\ object \in Stored
    /\ store \in [Block -> Stored]
    /\ asked \subseteq Block
    /\ upstream \in Seq(Block)
    /\ wire \in Seq(Buffer)

(* A block id is a claim about the bytes, and the store holds the bytes its *)
(* ids name: whatever a stream says, however it is cut, and whatever is     *)
(* stored or removed meanwhile (docstring of save_block_content).           *)
StoreIntegrity == \A b \in Block : Exists(b) => BytesOf(store[b]) = Expand[b]

(* The strengthening that makes the two invariants above inductive.         *)

(* What is being saved is a path from the object into blocks, and as far as *)
(* the parser still runs it is the path of blocks that the parser has open: *)
(* up to the one that is drained, and but for the one just opened or ended. *)
OpenAt ==
    IF rpc = "second" THEN Len(saving)
    ELSE IF rpc = "read" \/ draining # None THEN Len(saving) - 1
    ELSE Len(saving) - 2

SavesWhatIsOpen ==
    /\ saving[1].id = Root
    /\ \A i \in 2..Len(saving) : saving[i].id \in Block
    /\ \A i, j \in 1..Len(blocks) : i < j => blocks[i] # blocks[j]
    /\ levels = 0 => blocks = <<>> /\ rpc # "second"
    /\ levels > 0 /\ rpc \in {"read", "second", "close", "publish", "rename"} =>
          /\ IF rpc = "read" /\ draining # None
               THEN Len(blocks) >= Len(saving) /\ blocks[Len(saving)] = draining
               ELSE Len(blocks) = OpenAt
          /\ \A i \in 2..Len(saving) :
                i - 1 <= Len(blocks) => blocks[i - 1] = saving[i].id

(* A hasher has been fed the bytes of the items before the one that is      *)
(* being saved or drained, and of that one what its own hasher was fed.     *)
HashersFed ==
    \A i \in 2..Len(saving) :
        LET items == saving[i].items
            inner == IF i < Len(saving) THEN saving[i + 1].id ELSE draining
            fed   == IF i < Len(saving) THEN saving[i + 1].hashed ELSE <<>>
        IN  IF inner = None
              THEN saving[i].hashed = BytesOf(items)
              ELSE /\ items # <<>>
                   /\ Last(items) = inner
                   /\ saving[i].hashed = BytesOf(Front(items)) \o fed

(* A block neither stored nor being saved points to itself.                 *)
NoSelfPointer ==
    /\ \A b \in Block : Exists(b) =>
          \A i \in 1..Len(store[b]) : store[b][i] # b
    /\ \A k \in 2..Len(saving) : \A i \in 1..Len(saving[k].items) :
          saving[k].items[i] # saving[k].id

ReceiverInv ==
    /\ TypeOK
    /\ StoreIntegrity
    /\ SavesWhatIsOpen
    /\ rpc # "failed" => HashersFed
    /\ NoSelfPointer
    /\ rpc = "idle" => levels = 0
    /\ rpc = "second" => draining = None
    /\ rpc \in {"publish", "rename"} =>
          /\ draining = None
          /\ Len(saving) > 1
          /\ Last(saving).hashed = Expand[Last(saving).id]

(* No pointer is left without its block: what a directory in the store      *)
(* points to is stored, and so is what a delivered object points to.  Only  *)
(* where nothing is removed.                                                *)
PointersHeld ==
    /\ \A b \in Block : Exists(b) => Readable(b)
    /\ rpc = "delivered" =>
          \A i \in DOMAIN object : object[i] \in Block => Readable(object[i])
=============================================================================
