---------------------------- MODULE AtomicStore -----------------------------
(***************************************************************************)
(* What the block directory is to those who use it: a block is there,      *)
(* whole and in one of its forms, or it is not.  It comes and goes in one  *)
(* step, one block at a time.  BlockReceiver has its store like this, and  *)
(* what others do to it as these two steps.                                *)
(***************************************************************************)
CONSTANTS Block, Shape, None

VARIABLE store

Init == store \in [Block -> Shape \cup {None}]

Store(b, s) ==
    /\ store[b] = None
    /\ store' = [store EXCEPT ![b] = s]

TakeAway(b) ==
    /\ store[b] # None
    /\ store' = [store EXCEPT ![b] = None]

Next == \E b \in Block : TakeAway(b) \/ \E s \in Shape : Store(b, s)

Spec == Init /\ [][Next]_store
=============================================================================
