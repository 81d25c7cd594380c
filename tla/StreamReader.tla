--------------------------- MODULE StreamReader -----------------------------
(***************************************************************************)
(* A reader that knows which object a stream is made from.  The proofs of  *)
(* the sender, the receiver and the transfer compare the Buffers with it.  *)
(***************************************************************************)
EXTENDS BlockObjects

(* Where a reader of the stream is: the blocks that are open to it, and the *)
(* first item of the object that it has not met.                            *)
Place == [open : Seq(Block), next : Nat \ {0}]
At(open, next) == [open |-> open, next |-> next]

NextIs(s, x) == s.next <= Len(Body[Root]) /\ Body[Root][s.next] = x

(* A reader at s that takes the Buffer b is at t then, and b is a Buffer    *)
(* that a sender of this object has reason to send there.                   *)
MeetsItem(s, b, t) ==
    /\ s.open = <<>>
    /\ b.kind \in {"chunk", "block"}
    /\ NextIs(s, b.val)
    /\ t = At(IF b.kind = "block" THEN <<b.val>> ELSE <<>>, s.next + 1)
OpensBlock(s, b, t) ==
    /\ s.open # <<>>
    /\ b.kind = "block"
    /\ Len(s.open) < BlockDepth
    /\ \A i \in 1..Len(s.open) : s.open[i] # b.val
    /\ t = At(Append(s.open, b.val), s.next)
ClosesBlock(s, b, t) ==
    /\ s.open # <<>>
    /\ b.kind = "block"
    /\ s.open[Len(s.open)] = b.val
    /\ t = At(SubSeq(s.open, 1, Len(s.open) - 1), s.next)
PassesOn(s, b, t) ==
    /\ t = s
    /\ \/ b.kind \in {"head", "error", "eof"}
       \/ b.kind = "chunk" /\ s.open # <<>>
       \/ b.kind = "separator" /\ s.open = <<>> /\ s.next = Len(Body[Root]) + 1

Goes(s, b, t) ==
    \/ MeetsItem(s, b, t) \/ OpensBlock(s, b, t)
    \/ ClosesBlock(s, b, t) \/ PassesOn(s, b, t)

-----------------------------------------------------------------------------
(* What a reader of the stream has been told: the blocks that are open to   *)
(* it, and for each what has come of it, where a block inside it that ended *)
(* counts with all of its bytes.                                            *)
Hearing == {h \in [open : Seq(Block), fed : Seq(Seq(Chunk))] : Len(h.fed) = Len(h.open)}

(* h becomes t by the Buffer b.  A block ends with all of its bytes, unless *)
(* it, or a block around it, is in A: those are not sent in full.           *)
PieceHeard(h, b, t) ==
    /\ b.kind = "chunk"
    /\ t.open = h.open
    /\ \A i \in 1..Len(h.open) :
          t.fed[i] = IF i = Len(h.open) THEN Append(h.fed[i], b.val) ELSE h.fed[i]
StartHeard(h, b, t) ==
    /\ b.kind = "block"
    /\ \A i \in 1..Len(h.open) : h.open[i] # b.val
    /\ t.open = Append(h.open, b.val)
    /\ \A i \in 1..Len(h.open) : t.fed[i] = h.fed[i]
    /\ t.fed[Len(h.open) + 1] = <<>>
EndHeard(A, h, b, t) ==
    /\ b.kind = "block"
    /\ h.open # <<>>
    /\ h.open[Len(h.open)] = b.val
    /\ (\A i \in 1..Len(h.open) : h.open[i] \notin A)
          => h.fed[Len(h.open)] = Expand[b.val]
    /\ t.open = SubSeq(h.open, 1, Len(h.open) - 1)
    /\ \A i \in 1..(Len(h.open) - 1) :
          t.fed[i] = IF i = Len(h.open) - 1 THEN h.fed[i] \o Expand[b.val] ELSE h.fed[i]
OtherHeard(h, b, t) == b.kind \notin {"chunk", "block"} /\ t = h

Hears(A, h, b, t) ==
    \/ PieceHeard(h, b, t) \/ StartHeard(h, b, t)
    \/ EndHeard(A, h, b, t) \/ OtherHeard(h, b, t)

(* What is known of Expand and BytesOf where they are used.                 *)
ContentLaws ==
    /\ \A n \in Node : Expand[n] \in Seq(Chunk) /\ Expand[n] = BytesOf(Body[n])
    /\ BytesOf(<<>>) = <<>>
    /\ \A items \in Seq(Item) :
         /\ BytesOf(items) \in Seq(Chunk)
         /\ \A c \in Chunk : BytesOf(Append(items, c)) = Append(BytesOf(items), c)
         /\ \A b \in Block : BytesOf(Append(items, b)) = BytesOf(items) \o Expand[b]
=============================================================================
