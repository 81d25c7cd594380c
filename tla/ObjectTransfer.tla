--------------------------- MODULE ObjectTransfer ---------------------------
(***************************************************************************)
(* What sending one object promises, without Buffers, markers or skips:    *)
(* the caller gets either an error or the whole object, at one moment, and *)
(* at that moment every block the object points to can be read.            *)
(***************************************************************************)
CONSTANTS
    Block,   \* the ids of the blocks
    Content, \* the items of the object at the sender
    Needed,  \* the blocks the object points to
    None

VARIABLES
    usable,  \* the blocks that can be read in full from the block directory
    outcome, \* "pending", "delivered" or "failed"
    got      \* what the caller was handed

vars == <<usable, outcome, got>>

Init ==
    /\ usable \in SUBSET Block
    /\ outcome = "pending"
    /\ got = None

(* The directory is shared: this transfer, others and the clean-up change   *)
(* it, before and after.                                                    *)
StoreChanges ==
    /\ usable' \in SUBSET Block
    /\ UNCHANGED <<outcome, got>>

Deliver ==
    /\ outcome = "pending"
    /\ Needed \subseteq usable
    /\ outcome' = "delivered"
    /\ got' = Content
    /\ UNCHANGED usable

Fail ==
    /\ outcome = "pending"
    /\ outcome' = "failed"
    /\ UNCHANGED <<usable, got>>

Next == StoreChanges \/ Deliver \/ Fail

Spec == Init /\ [][Next]_vars /\ WF_vars(Deliver \/ Fail)
=============================================================================
