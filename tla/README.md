# A TLA+ model of bee-rpc over gRPC (Python)

bee-rpc sends objects larger than a protobuf message may be. An object is cut
into `Buffer`s, and its parts that have an identity, its *blocks*, are sent
between two markers that carry the block's id, the hash of its bytes. A node
that holds a block already asks its peer to leave it out. This directory models
that program: what is sent, what is stored, what may go wrong between the
threads and the nodes, and what nevertheless holds. Paths are those of the
repository (`src/bee_rpc/...` is written without its prefix).

## 1. The system

| component | state | operations | interacts with |
|---|---|---|---|
| block sender: `reader.py`, `client.skip_requested_blocks`, `send_file` | the suspended readers; `stack`, `opened`, `skipping_at` of the filter | one generator step per pulled Buffer | reads `StreamControl._skip`, writes the stream |
| block receiver: `client.parse_from_buffer`, `save_chunks_to_*`, `save_block_content` | `blocks` of `parser_iterator`; files being written and their hashers; the drain loop | one step per Buffer; three checks of the store per block; rename into place | reads the stream, writes the block directory, asks through `StreamControl` |
| block directory (`Enviroment.block_dir`) | a file or a multiblock directory per block id | `block_exists`, `read_block`, store, copy, split, remove | shared by all streams of the node, `create_block` and an operator's `rm -rf` |
| `control.StreamControl` | `_asked`, `_skip`, `_outbound` under a lock; `_outbound_ready`, `_sending_done` events | `request_skip`, `pending_outbound`, `next_outbound`, `observe`, `reader`, `watch` | the parser's and the serializer's threads of one call |
| `client.client_grpc` and a handler | `response_done`; the hold loop; a watcher thread | call, parse, hold, abandon | two directions of one gRPC call |
| message framing: heads, indices, `parse_message`, `send_message` | the message being parsed | one message after another, in memory or on disk | parser and serializer |
| `utils.Signal` | `open`, a condition | `change`, `wait` | shared by parser and serializer |
| lengths: `block_driver.py`, `block_builder.py`, `utils.py`, `validate_lengths_tree.py` | none | varints, pruned and expanded lengths, `wbp.bin` | called on every stored directory |
| hash types: `utils.py` | none | resolve, inherit, compress | every pointer |
| `block_splitter.py` | a block on disk | rewrite a flat block as a directory, two renames | the block directory |

What is hard here: a marker is a start or an end by what is open, and each end
keeps that for itself; whether to skip is decided at one pull of a generator
and used at later ones while requests go on landing; the existence of a block
is asked three times and may change in between; every generator takes the end
of what it reads for the end of what it was doing; two threads share a queue
whose event is not under its lock; and a direction of a call is held open for
answers to the other. `PROJECT.json` lists each at its line under "hazards".

What makes the components correct:

- *sender*: markers nest for any reader of the stream; every start marker sent
  gets its end marker; nothing is left out that was not asked for, and of what
  was, at most one more piece is sent once the request is there.
- *receiver*: the store holds the bytes its ids name; a pointer has its block.
- *both*: what is delivered is what was sent; the two never disagree on what is
  open; a transfer ends, and fails only for something done to it from outside.
- *StreamControl and the call*: requests are neither lost, repeated nor
  overtaken; the held direction ends; the call completes.
- *framing*: of several messages in one stream each is parsed whole, in order
  and under its own index, whatever else comes between its Buffers; one without
  bytes is a case of its own.
- *signal*: a pause holds the messages back, and nothing waits for ever but where the code has
  nobody to wake it.
- *block store*: a block's path has a whole block or nothing; nothing that was
  stored is lost but by being removed; a process that dies spoils nothing.
- *lengths and hash types*: a stored object and its forms with and without
  blocks are worth the same bytes, and the same id wherever they are made.

## 2. The modules

```
BlockObjects ─┬─ BlockSender ───┬── BlockSenderProofs ────┐
              ├─ BlockReceiver ─┼── BlockReceiverProofs ──┤
              │                 └── BlockTransfer ────────┴── BlockTransferProofs
              └─ StreamReader (used by these three modules of proofs)
BlockTransfer ··implements··> ObjectTransfer
StreamControl ── GrpcCall ── GrpcCallProofs
FlowSignal ── MessageFraming ── MessageFramingProofs
BlockStore ── BlockStoreProofs
BlockStore ··implements··> AtomicStore
SequenceLemmas: naturals, sequences, recursion (used by the block and framing proofs)
HashTypes ─┬─ HashTypesProofs
           └─ WireMessages ── BlockBuilder ── BlockDriver ── StoredObject
```

**BlockObjects** has the data: a node (the object or a block) is a sequence of
items, chunks and block ids, as `_.json` and the files beside it give it;
`Expand` is its flat content. A block's id stands for its hash: `HashAssumption`
says that no two blocks have the same content. `Rank` says that
blocks do not contain themselves, which a hash rules out, without recursion.
The forms of `Buffer` that a stored object is serialized to are records;
`Error` and `Eof` are the two ways in which the iterator of Buffers stops.
**StreamReader** has definitions that only the proofs use: where a reader is that
knows the object (`Place`), and where the next Buffer takes it (`Goes`); and
what one has been told that does not know it (`Hearing`, `Hears`): the blocks open
to it, each with the bytes that have come of it.

**BlockSender**: `walk` is the stack of suspended `read_multiblock_directory`
and `read_file_by_chunks` generators, `stack`, `opened`, `skippingAt` are the
filter's variables, `skip` is `control._skip`. A step is what happens between
two points where other threads can matter: a pull gives a chunk (`ReadChunk`),
a start marker (`EnterBlock`, and `Resume` for the part after the `yield`,
where the filter looks at the requests), an end marker (`LeaveBlock`), the head
or the separator. `ReadFails` and `FileVanishes` are a block that is missing or
corrupt when opened, and one that goes away after it was verified. What the filter
lets through is `inHand` until `send_file` has waited on the signal and yields it
(`Yield`; client.py:1061-1063): requests land in between, and the consumer does not
have it yet. `late` is history: the pieces yielded since a block that is open was
asked for. `heldOpen`
and `crossed` are history: what a reader of every Buffer sent has open. The
scan of `outermost_skipped` is one step: requests that land during it are
treated as landed after it.

**BlockReceiver**: `blocks` and `levels` are `parser_iterator`'s open blocks and
running iterators, `saving` the object and the blocks being written with what
their hashers were fed, `draining` the block whose Buffers are thrown away.
`TakeStart` has the first check of the store, `SaveOrDrain` the second,
`Publish` the third, `Rename` the rename: other streams (`OtherStores`) and the
clean-up (`CleanUp`) act between any two. `Exhausted` is the tower of loops over
an iterator that has ended. Reading back a drained block for the hashers, and
measuring the blocks for `wbp.bin`, are one step each. Temporary files are not
modelled.

**BlockTransfer** joins the two by the stream and, in the other direction,
`upstream`, the requests not yet read. The receiver gets only what `send_file`
has yielded. `Cut` ends the stream without an error,
as the file of a writer that died does. **ObjectTransfer** is what this promises
to a caller who knows nothing of Buffers: an error or the whole object, with
every block it points to readable at that moment.

**StreamControl** has the operations of the object two threads share, split
where the lock is released; **GrpcCall** has the threads: the feeder (gRPC's
thread in `request_stream`, `next_outbound` with its timeout), the parser (the
caller's), and a server whose handler takes one message and watches, takes one
and does not, or reads its request to the end before it responds. gRPC itself is
external: bounded room per direction, and a feeder that cannot send is let go
when the call is over.

**FlowSignal** has `utils.Signal` at the granularity of its two threads: the
test of `open` and the wait on the condition are two steps, and so are
`notify_all` and the assignment after it. What a serializer does is a sequence
of waits and yields, as each form of message has it: `SmallMessage`,
`LargeMessage`, `StoredFile`, `StoredDirectory`. `WorkAssumption` says that there
are never three Buffers of messages in a row without a wait; TLC checks it of every
three messages in a row. `Ask` is a skip request of this party: it goes out ahead of
a Buffer, after the last or while the direction is held open
(client.py:1162-1166, 1244-1248), and waits for nothing.

**MessageFraming** joins a sender, a parser and, by the signal, what the
parser's own party sends. `Buffers` is what `serialize_to_buffer` makes of a
message: one Buffer with head, chunk and separator, or a head, pieces and
markers, and a separator. Skip requests go out between any two. `parser` is
where `parse_from_buffer` is, in its main loop or in one of the two ways to take
a message, and a step is a Buffer taken. A message without bytes, taken in memory,
ends as `EmptyBufferException` (`Empties`), which `Outcome` makes Empty or nothing,
or which raises where there is no `indices[1]` to look at (`Unlisted`). The parser
may be a peer from before skip
requests (`receiver.aware`), that reads one as an empty chunk. What a block on
disk is made of is left to `BlockReceiver`.

**BlockStore** has the block directory as entries on disk and the operations on
it as programs, one step per access: `create_block`, by copying or moving,
`save_block_content`, `split_block`, `copy_block_if_exists`, the removal of a
block. An entry is as much of a *form* of a block as has been written: the one
file, or a directory of parts and blocks. `Replaces` and `Refuses` are what
`rename(2)` does. A process may die between any two steps, a write may fail, and
a split reads its block before it writes. **AtomicStore** is what this is to its
users, and what `BlockReceiver` takes it for: a block comes and goes in one step.

**HashTypes** is a descent into a stored tree with the context of hash types
that goes down with it. **WireMessages** has protobuf messages as bytes, as far
as lengths and positions see them, with `Radix` values in a byte of a varint.
**BlockBuilder** and **BlockDriver** are `block_builder.py`, the walk of
`block_splitter.py` and `block_driver.py` as functions on those bytes, next to
reference definitions (`Encloses`, `Serialized`, `Repointed`, `Inlined`) that
say what they should give without saying how. **StoredObject** takes an object
through them: built or split in some place of a tree, regenerated, built again,
while its blocks change from files to directories. The recursive operators of
these modules keep them out of reach of the proofs; `HashTypes` has none.

Definitions whose comment begins with "Mutant" are plausible bugs; no
specification uses them. Each is put in the place of the definition it is a
mutant of, to see that the property it is listed with in `PROJECT.json` notices.

## 3. The runs

| run | module, bounds | question | result |
|---|---|---|---|
| `sender` | MCBlockSender; a block held twice in a row, blocks 4 deep of which 3 levels are framed, 2 Buffers on their way, any request at any time | does the filter keep its two promises against any peer? | holds |
| `receiver` | MCBlockReceiver; a directory block and a flat one, any 6 Buffers, 1 block stored and 1 removed by others | can any stream spoil the store? | no |
| `transfer_shared` | MCBlockTransfer, Small; a block inside another and again after it, 1 Buffer on its way, every store before, 1 stored and 1 removed meanwhile | do races between requests, blocks and the store cost or falsify a transfer? | only a removal or a rename conflict costs one, none falsifies it |
| `transfer_faults` | MCBlockTransfer, Deep; 3 levels framed, 2 accepted, an unreadable block, a vanishing file, a stream cut anywhere | what do failures of the sender leave behind? | a prefix or an error, nothing wrong in the store |
| `grpc_call` | MCGrpcCall; two blocks asked for, one of them met twice, room for 1 Buffer each way, all handlers that can serve the call | do requests survive two threads, and does everything end? | yes |
| `lengths` | MCStoredObject; 260 messages, blocks of 0, 2, 9 and 19 bytes, Radix 4, three places in a tree | are positions, lengths, bytes and ids those of the reference definitions? | yes, for messages as the code takes them to be |
| `block_store` | MCBlockStore; two processes with one operation each, three blocks of which one has the others in it, 1 removal, 1 crash, any write may fail | can processes that share a directory, or die in it, spoil it? | no: it is an atomic store |
| `framing` | MCMessageFraming; 4 scripts of two messages, with bytes and without; index 2 known, 3 not, 1 known or not and Empty or not, each in memory or on disk; 1 skip request each way and 2 signals anywhere, 2 Buffers on their way, two messages to send back | is every message parsed as the one that was sent, and does the call end? | yes, with exceptions that are named |
| `truncated` | Small, cut anywhere | is a stream without separator refused? | no: finding |
| `rename` | Small, one block stored by another stream | is "written meanwhile by another stream" always handled? | no: finding |
| `vanished` | MCBlockSender | does a bad block always abort the stream? | no: finding |
| `drained_request` | MCGrpcCall, a handler that reads its request to the end | does a call complete with block_skip as without? | no: finding |

The bounds: framing has to do with a block, the block around it and the block
after it; four levels and a repetition have all of these at framed and unframed
levels. Six Buffers are what it takes to store a directory block from nothing (two
markers for it, two for the block in it, one chunk each). One block stored and
one removed meanwhile reach each of the three checks, before and after, since
TLC tries every moment and every initial store. One Buffer on its way is the
hardest case for flow control and, in `sender`, two show that the window plays
no part. In `lengths`, with Radix 4 a length has one byte below 4, two below 16 and
three below 64, so that replacing a block by its pointer makes a length around
it shorter, the length around that one shorter in turn, or leaves both. In
`block_store` every race of the code is one of two processes: a check and what
is done on it, a rename and a reader, the two renames of a split. A removal and
a crash are one each since a second finds nothing new to be between. In
`framing` every form of message is followed by another of another kind, and
two signals are a pause and a resumption. `Modes`, `MaxSent`, `MaxOthers`, `MaxRemovals`, `MaxCrashes`, `MaxHashes`, `MaxLevels`, `MaxSkips`, `MaxAsks`, `MaxSignals`, `MaxInFlight`, `Window`, `Room` and
`MaxNesting` (32 in the code) are the only bounds; the sender's state space is
finite by itself.

*Safety.* `FramingInv`, `ReceiverInv` and `KeptInv` are the inductive invariants of
the sender, the receiver and the queue of requests (section 4).
`InStep` says that the parser's open blocks and the markers on their way make up
what the sender believes open. `RacesCostNothing` says that the protocol's own
races never cost a transfer: no crossing request makes the parser meet an
intersection or too deep a block, a rename fails only over what another stream
stored, and a peer is heard to fail only if it did. `FailsForAReason` says that
bytes or blocks are missed only after a clean-up removed something.
`StoreIntegrity` and `PointersKept` are about the block directory after any
stream whatever. `RequestsKept` is conservation and order of skip requests.
`FinalWhole`, `NotLost`, `CopiesExact` and `NoLitter` are about the block
directory and every process over it; `IsAtomicStore` is the refinement.

Some properties hold with an exception, which is then part of their statement:

- `BuiltExact` and `SplitMatchesBuild` are about `Narrow` messages: field numbers
  below 16 and characters of one byte, since `search_on_message` counts a tag as
  one byte and a string as its characters (block_builder.py:288, 291). For
  others its positions are wrong, which no property covers; the splitter's
  (`SplitExact`) never are.
- `RoundTrip` is about places whose first inherited type is the node's
  (`KeyFirst`). The driver writes each pointer with a single hash, the block's key
  (`block_pointer`, utils.py:328-346), and inside a tree it leaves the type out. The
  hash is at index 0, so what reads it again gives it the first inherited type; where
  that is not the node's, the pointer no longer names the block, and the object is
  not built the same. On the wire this does not occur: there each pointer carries
  its own types (client.py:441-445).
- `CopiesExact` excepts the copy of a directory from which something was removed
  or split while it was read: `copy_block_if_exists` compares no hash there. The
  comment at client.py:81-83, by which a directory's id is not the hash of its
  flat content, is at odds with reader.py:84-87, which relies on its being just that.
- `NotLost` counts a block as there while a split has put it aside. If the split
  dies or fails before its second rename it stays there (block_splitter.py:243,
  251), whole but under a name that nobody looks for.
- `ParsedAsSent` promises of a message without bytes that is parsed in memory only
  what `Expected` says, which uses none of the parser's definitions: an Empty, as
  from index 1 and whatever the message's own index, where index 1 is Empty, and
  nothing elsewhere (client.py:813-815, 930-937). The messages around it are not
  affected.
- `ParsedAsSent` is about messages before the first that is not `Readable`: one
  with an unknown index raises, and so does one without bytes in memory where
  index 1 is unknown (`KeyError` at client.py:932); one with a block in it, parsed in memory, is cut
  after the block, whose iterator ends its own, and the rest is read as other
  messages. For a peer that does not know skip requests it supposes that none was
  `stray`. "Inert everywhere it can land" (control.py:41-42) is not so ahead of a
  message of another index than the first, or after the last: there it begins
  a message.
- `PauseHolds` allows two Buffers, a separator and the head of the next message,
  around which `send_file` does not wait. It counts the Buffers of messages: skip
  requests of the paused party are held by no pause, and any number of them may go
  out during one (client.py:1162-1166, 1244-1248).
- `StopsAtTheRequest` allows one piece, the one `send_file` had in its hand when the
  request landed. "The sender stops at the first chunk after the request lands"
  (README.md:76 of the sources) is so for the chunks that the filter has yet to see.

A mode is any assignment of memory or disk to the indices. How a caller's
argument becomes one has a surprise of its own: an index that a dictionary of
modes leaves out gets `[False]` (client.py:683), which is true, and so memory,
where the signature says "Write on disk by default" (client.py:634).

*Liveness.* `BlockTransfer` assumes weak fairness of the sender and of the
receiver: two threads of two processes that the scheduler runs. That `send_file`
yields what it has in its hand assumes also that no pause of its peer lasts for
ever; what happens where one does is the subject of `framing`. Nothing assumes
that a request ever arrives, that another stream stores, or that the caller
drops a call. `GrpcCall` assumes weak fairness of its four threads; the wait in
`next_outbound` ends with the event or after 50 ms, either being a step. The
network keeps order and loses nothing while the call lasts, as gRPC does.
`MessageFraming` assumes weak fairness of sender, parser and serializer: gRPC
goes on pulling from a generator while the call is alive, and the caller goes on
iterating. Nothing assumes that a peer which paused resumes. `Completes` says
that a call then ends, but for two cases: the parser waits on the signal that
only it can open (`Stuck`, client.py:494), and the serializer waits when the parser
is done, because the pause was never lifted or because the wake-up came between
its test and its wait (`LeftPaused`). That `Signal` is "thread safe because the
open var is only used by one thread" (utils.py:99) does not rule the second out.
`block_store` and `lengths` have no liveness: an operation there is a sequence of
steps without a wait.

*Deadlock* is checked in the transfer and call runs. It is off in `framing`,
`block_store` and `lengths`, which come to an end (that `framing` does so rightly is
`Completes`), and in `sender`, `receiver` and `vanished`, where the component is alone with an environment
that has a bounded number of Buffers to send or has all it wants.

## 4. The proofs

Each theorem holds for every value of the constants that the assumptions named
with it admit. TLC evaluates every assumption on the instances of section 3.

`BlockSenderProofs` proves, for every object, every `block_depth`, every window
and every peer:

| theorem | states |
|---|---|
| `FramingCorrect` | `Spec => []FramingInv` |
| `TypeCorrect` | `Spec => []TypeOK` |
| `NeverIntersects` | `Spec => []NoIntersection` |
| `AlwaysTerminated` | `Spec => []TerminatorsComplete` |
| `DropsOnlyAsked` | `Spec => []DropsOnlyWhatWasAsked` |
| `RequestsAreObeyed` | `Spec => []StopsAtTheRequest` |

from `ObjectsAssumption` and `SenderAssumption` only. `NoIntersection` is not
inductive: it depends on what is open at the reader being an initial part of
the filter's stack, and this on the stack being the path of the walk.
`FramingInv` says so:

- `WalkDescends`: the ranks fall along the walk, so no block is open twice,
  which is what makes "the marker of the innermost open block" mean an end;
- `StackFollowsWalk`: `stack` is the path of the walk, as far as it is framed;
- `ReaderHoldsOpened`: `heldOpen` is an initial part of `stack`, `opened` says
  which, and where it is not all of it the skip in force began in a block the
  reader has open. So an end marker that is sent closes the reader's innermost
  block, and one that is not sent was not opened.

Each action preserves it (`FramingNext`, a step per action). TLC checks
`FramingInv` too. `RequestsAreObeyed` needs it and an invariant of its own,
`LandedInv`: once a piece went out of a block that is asked for, `send_file` has no
other one in its hand. It stays so because the filter lets no piece through while an
open block is asked for (`NonePassesAsked`), whatever depth it has cached, by what
`OutermostSkipped` finds (`OutermostSkippedFacts`); a request that lands while a piece
is in hand starts the count from zero.

`BlockReceiverProofs` proves, for every store to begin with and every peer (the
receiver's `Spec` lets `PeerSends` put any Buffer on the wire):

| theorem | states |
|---|---|
| `PathIsSound` | `Spec => []ReceiverInv` |
| `ReceiverTypes` | `Spec => []TypeOK` |
| `StoreIsSound` | `Spec => []StoreIntegrity` |
| `ReadsAreExact` | what can be read of a block in full is what its id names |
| `PointersStand` | `Spec /\ [][no CleanUp]_vars => []PointersHeld`: where nothing is removed, what is pointed to is stored, all the way down |

from `ObjectsAssumption`, `HashAssumption` and `ReceiverAssumption`.
`StoreIntegrity` looks at finished blocks; what makes it stay is what is said of
the unfinished ones. `ReceiverInv` has:

- `SavesWhatIsOpen`: what is being saved is the object and then the path of the
  blocks the parser has open, each the last item of the one around it;
- `HashersFed`: each hasher on that path was fed the bytes of the items before
  the one that is open, and with them all that the open ones were fed;
- `NoSelfPointer`: no block, stored or being saved, points to itself, since the
  marker of an open block is its end;
- `Last(saving).hashed` is the block's content from the check on (`publish`,
  `rename`).

A block that is already stored is drained and read back into the hashers above
it, and what is read must be what the id names. Nothing in the receiver looks for
cycles among the directories it stores. There are none: a block inside another has
at most its length, and one of the same length has the same bytes, so it would be
that block itself, by `HashAssumption`, and `NoSelfPointer` excludes that. So
pointers lead to shorter blocks (`PointersShorter`), and what reading gives follows by
induction on the length (`StoredBytesFacts`). `PointersStand` adds `HeldInv`, that
the blocks in what is being written are stored, but for the open one.

`BlockTransferProofs` proves of the two together, for every object, store,
window and sequence of requests:

| theorem | states | if |
|---|---|---|
| `TransferStoresRight` | `Spec => []StoreSound` | |
| `DeliversAPrefix` | `Spec => []DeliveredPrefix` | |
| `DeliversTheObject` | `Spec => []DeliveredExact` | `~WriterDies` |
| `NeverOutOfStep` | `Spec => []InStep` | `~WriterDies` |
| `RacesAreHarmless` | `Spec => []RacesCostNothing` | `BlockDepth <= MaxNesting` |
| `FailuresHaveReasons` | `Spec => []FailsForAReason` | `MayVanish = {}`, `~WriterDies` |
| `TransferRefinesPromise` | each step is one of `ObjectTransfer` or none of its business | `MakesWbp`, `~WriterDies` |

from the assumptions of the two halves and `TransferAssumption`. The conditions are not
for the proof's sake. A stream that is cut without an error (`WriterDies`) can be
delivered short, which is the finding of `truncated`, and its parser then closes blocks
that the sender has open. A sender that frames deeper than its peer accepts is refused,
as it should be: `Deep` has such a one. A file that goes away after it was verified, or
a stream that is cut, makes bytes missing that nothing removed from the peer's store.
Without wbp files nothing looks at the blocks of a finished object any more, so that one
of them may have been removed by then.

The argument compares both ends with a reader that knows the object. `Run(s, w, t)`
says that the Buffers `w` take such a reader from `s` to `t`. `StreamInv` is
`FramingInv` and `ReceiverInv`, and in addition: what is on the wire takes a
reader from where the receiver is to where the sender is (`OnItsWay`); what the
receiver has of the object is what a reader there has met (`Reading`); an error or
the end is the last thing that is said (`LastWords`). A sender's step adds a
Buffer at one end of the run, a receiver's takes one from the other, and skipping,
draining and the crossing of requests do not enter: what is left out of a block
is left out between its markers, where a reader is not moved. `InStep` folds the
markers of that same run. `CostInv` adds that a reader never meets a block inside
itself or one deeper than `BlockDepth`, and that a rename meets only what came
after the third check. For the refinement, delivering is the step that matters:
`generate_wbp_file` has just measured every block of the object, so each is readable at
that moment, and by `ReadsAreExact` reads as it should.

`FailsForAReason` depends on every part of the protocol: what is left out inside a
block that is skipped, what the parser hands on while it drains, what the receiver
reads back from its store where the sender left it out. A wrong byte in any of them
would be a mismatch at some hash. The invariant of `FailuresHaveReasons`,
`ReasonInv`, says what holds as long as nothing was removed and the call goes on
(`Listening`):

- `DropsOnlyWhatWasAsked`, `Requested`: the sender leaves out only what is inside a
  block that the receiver has asked it to skip, now or by a request on its way;
- `WalkReads`: what the sender has met of each open block is what the block
  begins with (`Given`);
- `Understood`: the Buffers on their way take a listener (`Hearing`) from what the
  receiver has (`Listens`) to what the sender has told (`Speaks`), where a block
  may end with bytes missing only if it, or one around it, was asked for;
- `Attends`: the parser is as deep as what is being saved (`Depth`); what is drained
  or was asked for is stored, so that nothing that is being saved was asked for
  (`Settled`), and each block that is saved is fed all of its bytes and has its
  content when it closes (`Whole`); and whatever is pointed to is stored
  (`StoreHeld`, `FilesHeld`), so that it can be read back and measured.

Hence a block that closes was told in full, its hash is its id, and none of the
three checks finds anything. A removal ends most of this at once, `Settled` and
`StoreHeld` above all.

`GrpcCallProofs` proves of a call, for every script, payload, room and set of
ways to handle it:

| theorem | states |
|---|---|
| `RequestsNeverLost` | `Spec => []RequestsKept` |
| `RequestsInHand` | `Spec => []KeptInv` |
| `CallTypes` | `Spec => []TypeOK` |

from `CallAssumption` only. `RequestsKept` says nothing of where the feeder
stands, and a feeder that took a batch while it held another would drop the one
it held: `KeptInv` adds `BatchInHand`, that requests are in hand only where the
feeder is about to send them, and one at a time while the direction is held
open. TLC checks `KeptInv` too. That the values of a call have their types needs
it as well: what is in the feeder's hand goes on the wire.

`BlockStoreProofs` proves of the block directory, for any processes, blocks,
forms, crashes and removals:

| theorem | states |
|---|---|
| `BlocksAreWhole` | `Spec => []FinalWhole` |
| `DirectoryIsAtomicStore` | `Spec => IsAtomicStore` |
| `NothingIsLost` | `Spec => []NotLost` |
| `NothingIsLeft` | `Spec => []NoLitter` |
| `CopiesAreExact` | `Spec => []CopiesExact` |

from `StoreAssumption`, and the last from `ContentAssumption` too: each form of a
block cuts its content into consecutive pieces. None follows from what is at the
blocks' paths: a rename puts there what a process has written beside, so the invariant `Inv`
says of each process at each of its stages (`Progress`) what its temporary entry
is: begun from a form of its block; good, once it was verified; complete, where
it is about to be placed. For the refinement each action is one of three: it leaves every path alone, it stores
one block that was absent, or it takes one away. Renaming is the case that needs
`Inv` (what is placed is of a known form) and what `Replaces` says of rename.

`NotLost` adds `LostInv` to `Inv`. A former form that is aside must outlast the
steps of every other process, and its own split must not drop it before the new
form is in place: `Kept` asks that who keeps it is not about to drop it. And what
returns must have found a stored block: `Found` says from which stage on that is
known, which for a copy is as soon as it has opened the block. `NoLitter` adds
`BesideInv`, which says of a process at each stage which of the three places
beside the blocks are empty, and that only a split gets to where one is put aside.
`CopiesExact` adds `CopyInv`: unless something was removed or split since it
began, the directory that a copy reads is still of the form it began with, and
what it has so far is the content up to where that form cuts it.

`HashTypesProofs`, for every chain of pointers:

| theorem | states |
|---|---|
| `TypesAreNearest` | `HashSpec => []ContextIsNearest` |
| `OmittingKeepsTheKey` | what a pointer may leave out changes neither its types nor its key |

`MessageFramingProofs`, for every script, receiver, bound and work:

| theorem | states |
|---|---|
| `PauseIsKept` | `Spec => []PauseHolds` |
| `MessagesAreRead` | `Spec => []ParsedAsSent` |

The first is from `WorkAssumption`. `late <= 2` is not inductive: `SignalInv` adds that while
the signal is closed the late Buffers are the last things the serializer did with
its messages, so that a third would be three yields in a row; skip requests in
between do not move it in its work. No other part of the stream touches
the signal (`StepsOfTheSignal`).

The second is from `FramingAssumption`, for any messages in any forms and
receivers that know any indices. What `Expected` says a message is yielded as, a whole
message but for one without bytes in memory, is not taken from the parser: that
`Outcome` gives just that is part of what is proved.
`ParsedAsSent` compares what was received with the script and says nothing of the
Buffers between; `ParseInv` does. Leave the skip requests out of what is on the
wire and of what the sender still has to put there (`Core`, `ToCome`): that `Rest`
is what is left of the message being parsed, and then the Buffers of the messages
after those received (`Sane`). So what `Rest` begins with decides what the parser
does next, and a Buffer taken leaves a shorter `Rest` of the same kind. Once a
message that is not `Readable` was met, only what was received before it counts
(`Beyond`). To a peer that knows no skip requests one is an empty chunk, which is
why each must stand where it is taken as padding (`SkipsInert`), or the stream is
`stray`. A block in a message is passed by an induction over its items
(`NextOutside`).

`SequenceLemmas` has what the proofs need of recursive functions. `FlattenSeq` is
one, and so are `Expand`, `Readable` and `StoredBytes`: that there is a function
which satisfies such an equation, and only one, is proved there, and
what it computes by induction on a set of naturals (`NatSetInduction`), such as the lengths
up to which blocks are read as they should be.

Model-checked only: liveness (`StreamEnds`, `Terminates`, `RequestDirectionEnds`,
`CallCompletes`, `Completes`, the fairness of `KeepsPromise`), which the provers
cannot reach; `PointersKept`, whose count of removals only the MC module has
(`PointersStand` is the same without it); and the properties of `StoredObject`
but for `ContextIsNearest`, since `WireMessages`, `BlockBuilder` and `BlockDriver` have
recursive operators, in whose presence the prover has no arithmetic.

## 5. Not modelled, and what is left

- Temporary directories outside the block directory (`save_to_dir`, the caches of
  the builder, client.py:885), whose names nobody else knows; names with random
  suffixes are taken to be distinct everywhere.
- A block's nested blocks are files in the instance of `block_store`; the
  module, and its proofs, have any forms.
- A skip Buffer that carries payload too (control.py:184): nothing sends one.
- Several messages *and* the store in one model: `MessageFraming` has a message
  on disk as its bytes, `BlockReceiver` has one message.
- Debug output and wording, the memory manager, protobuf's own parser,
  `buffer_pb2.py` (generated), packaging.

Proofs worth adding: that positions and lengths are right (`SplitExact` above all), with the functions of
`WireMessages` and `BlockBuilder` written as recursive functions or folds.
