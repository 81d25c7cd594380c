-------------------------- MODULE MCBlockReceiver ---------------------------
(* BlockReceiver faced with a peer that sends any Buffers in any order, and *)
(* with other users of the block directory.  C is a flat block and A holds  *)
(* it; the object is whatever the Buffers say.                              *)
EXTENDS BlockReceiver

CONSTANTS A, C, x, y,
    MaxSent,     \* Buffers the peer sends
    MaxOthers,   \* blocks other streams store
    MaxRemovals  \* blocks the clean-up removes

VARIABLES sent, others, removals

MCBlock == {A, C}
MCChunk == {x, y}
MCBody  == (Root :> <<A, C>>) @@ (A :> <<C, y>>) @@ (C :> <<x>>)
MCRank  == (Root :> 2) @@ (A :> 1) @@ (C :> 0)

counters == <<sent, others, removals>>

MCInit ==
    /\ Init
    /\ sent = 0 /\ others = 0 /\ removals = 0

MCNext ==
    \/ ReceiverStep /\ UNCHANGED counters
    \/ /\ sent < MaxSent
       /\ wire = <<>>
       /\ PeerSends
       /\ sent' = sent + 1
       /\ UNCHANGED <<others, removals>>
    \/ /\ others < MaxOthers
       /\ \E b \in Block : OtherStores(b)
       /\ others' = others + 1
       /\ UNCHANGED <<sent, removals>>
    \/ /\ removals < MaxRemovals
       /\ \E b \in Block : CleanUp(b)
       /\ removals' = removals + 1
       /\ UNCHANGED <<sent, others>>

MCSpec == MCInit /\ [][MCNext]_<<vars, counters>>

(* Where nothing is removed, no pointer is left without its block.          *)
PointersKept == removals = 0 => PointersHeld
=============================================================================
