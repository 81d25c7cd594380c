--------------------------- MODULE BlockTransfer ----------------------------
(***************************************************************************)
(* One object sent from one node to another: BlockSender and BlockReceiver *)
(* joined by the stream of Buffers and, the other way, by the skip         *)
(* requests, while other streams and a clean-up work on the receiver's     *)
(* block directory.                                                        *)
(*                                                                         *)
(* A skip request is on its way while the block it names goes on arriving, *)
(* and may reach the sender before, inside or after that block, or never.  *)
(***************************************************************************)
EXTENDS BlockObjects

CONSTANTS
    Window, MayBreak, MayVanish,   \* of the sender
    MaxNesting, Asking, MakesWbp,  \* of the receiver
    WriterDies,  \* whether the stream may stop anywhere without an error
    MaxOthers,   \* how many blocks other streams store meanwhile
    MaxRemovals  \* how many blocks the clean-up removes meanwhile

ASSUME TransferAssumption ==
    /\ WriterDies \in BOOLEAN
    /\ MaxOthers \in Nat
    /\ MaxRemovals \in Nat

VARIABLES
    spc, walk, stack, opened, skippingAt, skip, inHand, heldOpen, crossed, late,
    rpc, cause, blocks, levels, saving, draining, object, store,
    asked, upstream, wire,
    others, removals

S == INSTANCE BlockSender
R == INSTANCE BlockReceiver

ASSUME HalvesAssumption == S!SenderAssumption /\ R!ReceiverAssumption

senderVars   == <<spc, walk, stack, opened, skippingAt, inHand, heldOpen, crossed, late>>
receiverVars == <<rpc, cause, blocks, levels, saving, draining, object, asked>>
counters     == <<others, removals>>
vars == <<senderVars, receiverVars, skip, store, upstream, wire, counters>>

Init ==
    /\ S!Init
    /\ R!Init
    /\ others = 0
    /\ removals = 0

Over == rpc \in {"delivered", "ended", "failed"}

(* The sender is pulled for as long as the call or the reader lives.        *)
Sending ==
    /\ ~Over
    /\ S!SenderStep
    /\ UNCHANGED <<receiverVars, store, upstream, counters>>

(* The writer of a .bee file dies between two Buffers, and the file is read *)
(* up to there: read_bee_file ends without an error.                        *)
Cut ==
    /\ WriterDies
    /\ spc \in {"body", "marked"}
    /\ S!Pulled
    /\ S!Send(Eof)
    /\ spc' = "failed"
    /\ UNCHANGED <<walk, stack, opened, skippingAt, inHand, heldOpen, crossed, late,
                   receiverVars, skip, store, upstream, counters>>

(* Of the stream, the receiver has what was yielded to it.                  *)
Receiving ==
    /\ R!ReceiverStep
    /\ inHand /\ Len(wire) = 1 => rpc # "idle" /\ UNCHANGED wire
    /\ UNCHANGED <<senderVars, skip, counters>>

(* A skip request arrives at the sender (StreamControl.reader and watch).   *)
RequestArrives ==
    /\ upstream # <<>>
    /\ S!Observe(Head(upstream))
    /\ upstream' = Tail(upstream)
    /\ UNCHANGED <<receiverVars, store, counters>>

OtherStreams ==
    /\ others < MaxOthers
    /\ \E b \in Block : R!OtherStores(b)
    /\ others' = others + 1
    /\ UNCHANGED <<senderVars, skip, removals>>

CleanUps ==
    /\ removals < MaxRemovals
    /\ \E b \in Block : R!CleanUp(b)
    /\ removals' = removals + 1
    /\ UNCHANGED <<senderVars, skip, others>>

(* Nothing is left to do.                                                   *)
Finished == Over /\ UNCHANGED vars

Next ==
    \/ Sending \/ Cut \/ Receiving \/ RequestArrives
    \/ OtherStreams \/ CleanUps \/ Finished

(* The threads of both sides are scheduled, and no pause lasts forever;     *)
(* nothing says that a request ever arrives.                                *)
Spec == Init /\ [][Next]_vars /\ WF_vars(Sending) /\ WF_vars(Receiving)

-----------------------------------------------------------------------------
(* Properties.                                                              *)

(* What is handed to the caller is the object that was sent: no piece that  *)
(* was dropped from the stream for a skip is missing from it, and none is   *)
(* there twice.                                                             *)
DeliveredExact == rpc = "delivered" => object = Body[Root]

(* Where the stream may be cut without an error, it is still that object or *)
(* an initial part of it, and all of it if the sender finished: no piece is *)
(* lost or misplaced inside what is there, whatever was being skipped.      *)
DeliveredPrefix ==
    rpc = "delivered" => /\ IsPrefix(object, Body[Root])
                         /\ spc = "done" => object = Body[Root]

(* A block that another stream stores at the same time is met with, not     *)
(* failed over: the comment at the check before the rename is "Written      *)
(* meanwhile by another stream."                                            *)
OthersDoNotFailIt == cause # "rename"

(* What the parser has open, and the markers on their way, make up what the *)
(* sender believes to be open there: the two ends never get out of step,    *)
(* whatever was skipped (the invariants skip_requested_blocks promises).    *)
AfterMarker(open, b) ==
    IF b.kind # "block" THEN open
    ELSE IF b.val \in ToSet(open) THEN Front(open) ELSE Append(open, b.val)
InStep == ~Over => FoldLeft(AfterMarker, blocks, wire) = heldOpen

(* The protocol's own races, a request that crosses the block it names, and *)
(* markers nested as the sender frames them, never cost a transfer; a block *)
(* another stream stored is the only thing a rename can meet, and only a    *)
(* sender that failed is heard to have failed.                              *)
RacesCostNothing ==
    /\ cause \notin {"intersection", "nesting"}
    /\ cause = "rename" => others > 0
    /\ cause = "peer" => spc = "failed"

(* And bytes or blocks are only ever missed after a clean-up: whatever was  *)
(* skipped, drained or saved, left alone a transfer can only succeed.       *)
FailsForAReason == cause \in {"mismatch", "reread", "wbp"} => removals > 0

(* However the stream ends, what it left in the block directory is right.   *)
StoreSound == R!StoreIntegrity

(* Sooner or later the caller gets the object or an error.                  *)
Terminates == <>Over

(* The transfer implements the promise of ObjectTransfer.                   *)
Usable == {b \in Block : R!Readable(b) /\ R!StoredBytes(b) = Expand[b]}
Outcome ==
    CASE rpc = "delivered" -> "delivered"
      [] rpc \in {"failed", "ended"} -> "failed"
      [] OTHER -> "pending"
Promise == INSTANCE ObjectTransfer WITH
    Content <- Body[Root],
    Needed  <- {Body[Root][i] : i \in DOMAIN Body[Root]} \cap Block,
    usable  <- Usable,
    outcome <- Outcome,
    got     <- object
KeepsPromise == Promise!Spec
=============================================================================
