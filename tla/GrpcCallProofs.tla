--------------------------- MODULE GrpcCallProofs ---------------------------
(***************************************************************************)
(* What holds of every call.  Of the queue of skip requests: none is lost, *)
(* repeated or overtaken between the two threads that share it.  And the   *)
(* types of the variables of all four threads.                             *)
(***************************************************************************)
EXTENDS GrpcCall, SequenceTheorems, TLAPS

(* Sequences: moving the head of one queue to the end of the one before it  *)
(* changes nothing about the two together.                                  *)
LEMMA HandOver ==
    ASSUME NEW S, NEW p \in Seq(S), NEW q \in Seq(S), q # <<>>
    PROVE  /\ Append(p, Head(q)) \in Seq(S)
           /\ Tail(q) \in Seq(S)
           /\ Head(q) \in S
           /\ Append(p, Head(q)) \o Tail(q) = p \o q
<1>1. /\ Head(q) \in S
      /\ Tail(q) \in Seq(S)
  BY HeadTailProperties
<1>2. Append(p, Head(q)) = p \o <<Head(q)>>
  BY <1>1, AppendIsConcat
<1>3. <<Head(q)>> \o Tail(q) = q
  <2> DEFINE t == <<Head(q)>> \o Tail(q)
  <2>1. /\ <<Head(q)>> \in Seq(S)
        /\ Len(<<Head(q)>>) = 1
        /\ <<Head(q)>>[1] = q[1]
    BY <1>1
  <2>2. /\ Len(q) \in Nat \ {0}
        /\ Len(Tail(q)) = Len(q) - 1
        /\ \A i \in 1..(Len(q) - 1) : Tail(q)[i] = q[i + 1]
    BY HeadTailProperties, EmptySeq
  <2>3. /\ t \in Seq(S)
        /\ Len(t) = 1 + Len(Tail(q))
        /\ \A i \in 1..(1 + Len(Tail(q))) :
              t[i] = IF i <= 1 THEN <<Head(q)>>[i] ELSE Tail(q)[i - 1]
    BY <1>1, <2>1, ConcatProperties
  <2> HIDE DEF t
  <2>4. Len(t) = Len(q) /\ \A i \in 1..Len(t) : t[i] = q[i]
    BY <2>1, <2>2, <2>3
  <2>5. QED
    BY <2>3, <2>4, SeqEqual DEF t
<1>4. (p \o <<Head(q)>>) \o Tail(q) = p \o (<<Head(q)>> \o Tail(q))
  BY <1>1, ConcatAssociative
<1>5. Append(p, Head(q)) \in Seq(S)
  BY <1>1, AppendProperties
<1>6. QED
  BY <1>1, <1>2, <1>3, <1>4, <1>5

(* An element that is not in a sequence may be appended to it: it is in it  *)
(* then, and every element is there once, if it was before.                 *)
LEMMA AppendNew ==
    ASSUME NEW S, NEW s \in Seq(S), NEW e \in S, e \notin ToSet(s), IsInjective(s)
    PROVE  /\ Append(s, e) \in Seq(S)
           /\ ToSet(Append(s, e)) = ToSet(s) \cup {e}
           /\ IsInjective(Append(s, e))
<1> DEFINE n == Len(s)
           t == Append(s, e)
<1>1. /\ n \in Nat
      /\ DOMAIN s = 1..n
  BY LenProperties
<1>2. /\ t \in Seq(S)
      /\ Len(t) = n + 1
      /\ \A i \in 1..n : t[i] = s[i]
      /\ t[n + 1] = e
  BY AppendProperties
<1>3. DOMAIN t = 1..(n + 1)
  BY <1>2, LenProperties
<1> HIDE DEF n, t
<1>4. ToSet(t) = ToSet(s) \cup {e}
  BY <1>1, <1>2, <1>3 DEF ToSet
<1>5. \A i \in 1..n : s[i] # e
  BY <1>1 DEF ToSet
<1>6. IsInjective(t)
  BY <1>1, <1>2, <1>3, <1>5 DEF IsInjective
<1>7. QED
  BY <1>2, <1>4, <1>6 DEF t

-----------------------------------------------------------------------------
(* The invariant.                                                           *)

(* At the start nothing is asked for and nothing queued.                    *)
LEMMA KeptInit == Init => KeptInv
<1> SUFFICES ASSUME Init PROVE KeptInv
  OBVIOUS
<1>1. /\ asked = {} /\ outbound = <<>> /\ batch = <<>>
      /\ order = <<>> /\ sentUp = <<>> /\ feeder = "payload"
  BY DEF Init, ControlInit
<1>2. <<>> \in Seq(Block)
  OBVIOUS
<1>3. (<<>> \o <<>>) \o <<>> = <<>>
  BY <1>2, ConcatEmptySeq
<1>4. ToSet(<<>>) = {} /\ IsInjective(<<>>)
  BY DEF ToSet, IsInjective
<1>5. QED
  BY <1>1, <1>2, <1>3, <1>4 DEF KeptInv, BatchInHand, RequestsKept

(* Where the requests are, and where the feeder stands, is all the          *)
(* invariant looks at.                                                      *)
keptVars == <<asked, outbound, order, batch, sentUp, feeder>>

(* A step that changes none of these keeps the invariant.                   *)
LEMMA KeptUnchanged == KeptInv /\ UNCHANGED keptVars => KeptInv'
BY DEF KeptInv, BatchInHand, RequestsKept, keptVars

(* The steps of the feeder that leave every request where it is.            *)
LEMMA FeederMoves ==
    ASSUME KeptInv,
           UNCHANGED <<asked, outbound, order, batch, sentUp>>,
           batch = <<>> \/ feeder' \in {"sending", "ended"},
           feeder' # "forwarding"
    PROVE  KeptInv'
BY DEF KeptInv, BatchInHand, RequestsKept

(* A request goes from the feeder's hand onto the wire.                     *)
LEMMA SendRequestKeeps ==
    ASSUME KeptInv, SendRequest, UNCHANGED controlVars
    PROVE  /\ sentUp' \in Seq(Block) /\ batch' \in Seq(Block)
           /\ sentUp' \o batch' = sentUp \o batch
<1>1. /\ batch # <<>> /\ batch \in Seq(Block) /\ sentUp \in Seq(Block)
      /\ sentUp' = Append(sentUp, Head(batch))
      /\ batch' = Tail(batch)
  BY DEF SendRequest, KeptInv
<1>2. QED
  BY <1>1, HandOver

(* The first part of the queue becomes what the feeder has in hand.         *)
LEMMA TakePendingKeeps == KeptInv /\ TakePending => KeptInv'
<1> SUFFICES ASSUME KeptInv, TakePending PROVE KeptInv'
  OBVIOUS
<1>1. /\ feeder = "taking" /\ batch = <<>>
      /\ batch' = outbound /\ outbound' = <<>>
      /\ feeder' \in {"sending", "clearing"}
      /\ UNCHANGED <<asked, order, sentUp>>
  BY DEF TakePending, TakeAll, GoTo, KeptInv, BatchInHand
<1>2. /\ sentUp \in Seq(Block) /\ outbound \in Seq(Block) /\ order \in Seq(Block)
      /\ (sentUp \o <<>>) \o outbound = order
  BY <1>1 DEF KeptInv, RequestsKept
<1>3. (sentUp \o outbound) \o <<>> = order
  <2>1. sentUp \o <<>> = sentUp
    BY <1>2, ConcatEmptySeq
  <2>2. sentUp \o outbound = order
    BY <1>2, <2>1
  <2>3. QED
    BY <1>2, <2>2, ConcatEmptySeq
<1>4. QED
  BY <1>1, <1>2, <1>3 DEF KeptInv, BatchInHand, RequestsKept

(* One request is taken in hand while the direction is held open.           *)
LEMMA PopQueuedKeeps == KeptInv /\ PopQueued => KeptInv'
<1> SUFFICES ASSUME KeptInv, PopQueued PROVE KeptInv'
  OBVIOUS
<1>1. /\ batch = <<>> /\ outbound # <<>>
      /\ batch' = <<Head(outbound)>> /\ outbound' = Tail(outbound)
      /\ feeder' = "forwarding"
      /\ UNCHANGED <<asked, order, sentUp>>
  BY DEF PopQueued, TakeOne, GoTo, KeptInv, BatchInHand
<1>2. /\ sentUp \in Seq(Block) /\ outbound \in Seq(Block) /\ order \in Seq(Block)
      /\ (sentUp \o <<>>) \o outbound = order
  BY <1>1 DEF KeptInv, RequestsKept
<1>3. Head(outbound) \in Block /\ Tail(outbound) \in Seq(Block)
  BY <1>1, <1>2, HeadTailProperties
<1>4. sentUp \o outbound = order
  BY <1>2, ConcatEmptySeq
<1>5. sentUp \o <<Head(outbound)>> = Append(sentUp, Head(outbound))
  BY <1>2, <1>3, AppendIsConcat
<1>6. (sentUp \o <<Head(outbound)>>) \o Tail(outbound) = order
  <2>1. Append(sentUp, Head(outbound)) \o Tail(outbound) = sentUp \o outbound
    BY <1>1, <1>2, HandOver
  <2>2. (sentUp \o <<Head(outbound)>>) \o Tail(outbound)
            = Append(sentUp, Head(outbound)) \o Tail(outbound)
    BY <1>5, Zenon
  <2>3. QED
    BY <1>4, <2>1, <2>2, Zenon
<1>7. Tail(<<Head(outbound)>>) = <<>> /\ <<Head(outbound)>> \in Seq(Block)
  BY <1>3
<1>8. QED
  BY <1>1, <1>2, <1>3, <1>6, <1>7 DEF KeptInv, BatchInHand, RequestsKept

-----------------------------------------------------------------------------
(* Every step of the feeder keeps the invariant.                            *)
LEMMA FeedKeeps == KeptInv /\ Feed => KeptInv'
<1> SUFFICES ASSUME KeptInv, Feed PROVE KeptInv'
  OBVIOUS
<1>1. CASE PullPayload
  BY <1>1, FeederMoves DEF PullPayload, GoTo, controlVars, KeptInv, BatchInHand
<1>2. CASE TakePending
  BY <1>2, TakePendingKeeps
<1>3. CASE ClearAfterTaking
  BY <1>3, FeederMoves DEF ClearAfterTaking, ClearReady, GoTo
<1>4. CASE SendPending
  <2>1. SendRequest /\ feeder = "sending" /\ UNCHANGED <<controlVars, feeder>>
    BY <1>4 DEF SendPending
  <2>2. QED
    BY <2>1, SendRequestKeeps DEF controlVars, KeptInv, BatchInHand, RequestsKept
<1>5. CASE SendPayload
  BY <1>5, FeederMoves DEF SendPayload, GoTo, controlVars
<1>6. CASE EndPayload
  BY <1>6, FeederMoves DEF EndPayload, SetReady, GoTo, controlVars
<1>7. CASE Hold
  BY <1>7, FeederMoves DEF Hold, GoTo, controlVars, KeptInv, BatchInHand
<1>8. CASE WaitEnds
  BY <1>8, FeederMoves DEF WaitEnds, GoTo, controlVars, KeptInv, BatchInHand
<1>9. CASE PopQueued
  BY <1>9, PopQueuedKeeps
<1>10. CASE FindNothing
  BY <1>10, FeederMoves DEF FindNothing, GoTo, controlVars, KeptInv, BatchInHand
<1>11. CASE ClearAfterNothing
  BY <1>11, FeederMoves DEF ClearAfterNothing, ClearReady, GoTo, KeptInv, BatchInHand
<1>12. CASE Forward
  <2>1. /\ SendRequest /\ feeder = "forwarding" /\ feeder' = "holding"
        /\ UNCHANGED controlVars
    BY <1>12 DEF Forward, GoTo
  <2>2. batch' = <<>>
    BY <2>1 DEF SendRequest, KeptInv, BatchInHand
  <2>3. QED
    BY <2>1, <2>2, SendRequestKeeps DEF controlVars, KeptInv, BatchInHand, RequestsKept
<1>13. CASE Dropped
  BY <1>13, FeederMoves DEF Dropped, GoTo, controlVars
<1>14. QED
  BY <1>1, <1>2, <1>3, <1>4, <1>5, <1>6, <1>7, <1>8, <1>9, <1>10, <1>11, <1>12, <1>13
     DEF Feed

(* A new request goes to the end of the queue, under the lock.              *)
LEMMA QueueKeeps ==
    ASSUME KeptInv, NEW b \in Block, Queue(b), UNCHANGED <<batch, sentUp, feeder>>
    PROVE  KeptInv'
<1>1. /\ b \notin asked /\ asked' = asked \cup {b}
      /\ outbound' = Append(outbound, b) /\ order' = Append(order, b)
  BY DEF Queue
<1>2. /\ sentUp \in Seq(Block) /\ batch \in Seq(Block)
      /\ outbound \in Seq(Block) /\ order \in Seq(Block)
      /\ (sentUp \o batch) \o outbound = order
      /\ asked = ToSet(order) /\ IsInjective(order)
      /\ BatchInHand
  BY DEF KeptInv, RequestsKept
<1>3. /\ order' \in Seq(Block)
      /\ ToSet(order') = asked'
      /\ IsInjective(order')
  BY <1>1, <1>2, AppendNew
<1>4. (sentUp \o batch) \o Append(outbound, b) = Append(order, b)
  <2> DEFINE p == sentUp \o batch
  <2>1. p \in Seq(Block)
    BY <1>2, ConcatProperties
  <2> HIDE DEF p
  <2>2. <<b>> \in Seq(Block)
    OBVIOUS
  <2>3. outbound \in Seq(Block)
    BY <1>2
  <2>4. p \o (outbound \o <<b>>) = (p \o outbound) \o <<b>>
    BY <2>1, <2>2, <2>3, ConcatAssociative
  <2>5. Append(outbound, b) = outbound \o <<b>> /\ Append(order, b) = order \o <<b>>
    BY <1>2, AppendIsConcat
  <2>6. p \o outbound = order
    BY <1>2 DEF p
  <2>7. p \o Append(outbound, b) = Append(order, b)
    BY <2>4, <2>5, <2>6
  <2>8. QED
    BY <2>7 DEF p
<1>5. outbound' \in Seq(Block)
  BY <1>1, <1>2, AppendProperties
<1>6. BatchInHand'
  BY <1>2 DEF BatchInHand
<1>7. QED
  BY <1>1, <1>2, <1>3, <1>4, <1>5, <1>6 DEF KeptInv, RequestsKept

(* Every step of the parser keeps the invariant: only at the marker of a    *)
(* block held here does it touch the queue.                                 *)
LEMMA ParseKeeps == KeptInv /\ Parse => KeptInv'
<1> SUFFICES ASSUME KeptInv, Parse PROVE KeptInv'
  OBVIOUS
<1>1. UNCHANGED <<batch, sentUp, feeder>>
  BY DEF Parse, feederVars
<1>2. CASE Receive
  <2> DEFINE b == Head(response).block
  <2>1. \/ b \in Held \ asked /\ Queue(b)
        \/ UNCHANGED controlVars
    BY <1>2 DEF Receive
  <2> HIDE DEF b
  <2>2. CASE b \in Held \ asked /\ Queue(b)
    <3>1. b \in Block
      BY <2>2, CallAssumption
    <3>2. QED
      BY <1>1, <2>2, <3>1, QueueKeeps
  <2>3. CASE UNCHANGED controlVars
    BY <1>1, <2>3, KeptUnchanged DEF controlVars, keptVars
  <2>4. QED
    BY <2>1, <2>2, <2>3
<1>3. CASE Announce
  BY <1>1, <1>3, KeptUnchanged DEF Announce, SetReady, keptVars
<1>4. CASE CallerGoesOn
  BY <1>1, <1>4, KeptUnchanged DEF CallerGoesOn, controlVars, keptVars
<1>5. CASE ResponseEnds
  BY <1>1, <1>5, KeptUnchanged DEF ResponseEnds, Finish, controlVars, keptVars
<1>6. CASE FinishSending
  BY <1>1, <1>6, KeptUnchanged DEF FinishSending, SetReady, keptVars
<1>7. QED
  BY <1>2, <1>3, <1>4, <1>5, <1>6 DEF Parse

(* Every step keeps the invariant.                                          *)
LEMMA KeptNext == KeptInv /\ [Next]_vars => KeptInv'
<1> SUFFICES ASSUME KeptInv, [Next]_vars PROVE KeptInv'
  OBVIOUS
<1>1. CASE Feed
  BY <1>1, FeedKeeps
<1>2. CASE Parse
  BY <1>2, ParseKeeps
<1>3. CASE Abandon
  BY <1>3, KeptUnchanged DEF Abandon, Finish, controlVars, feederVars, keptVars
<1>4. CASE Handle
  BY <1>4, KeptUnchanged
     DEF Handle, ParseRequest, TakeFromRequest, RequestReadToItsEnd, Respond,
         controlVars, feederVars, keptVars
<1>5. CASE Watch
  BY <1>5, KeptUnchanged DEF Watch, TakeFromRequest, controlVars, keptVars
<1>6. CASE UNCHANGED vars
  BY <1>6, KeptUnchanged DEF vars, controlVars, feederVars, keptVars
<1>7. QED
  BY <1>1, <1>2, <1>3, <1>4, <1>5, <1>6 DEF Next, Stopped

(* What the feeder has in hand is never lost from sight: the strengthening  *)
(* of the result below, and the reason for it.  A batch exists only where   *)
(* the feeder is about to send it, and is one request long while it holds.  *)
THEOREM RequestsInHand == Spec => []KeptInv
BY KeptInit, KeptNext, PTL DEF Spec

(* No skip request is lost, repeated or overtaken between request_skip and  *)
(* the wire, however the parser's thread and the feeder's thread interleave *)
(* in StreamControl, and wherever the call is given up.                     *)
THEOREM RequestsNeverLost == Spec => []RequestsKept
<1>1. KeptInv => RequestsKept
  BY DEF KeptInv
<1>2. QED
  BY <1>1, KeptInit, KeptNext, PTL DEF Spec

-----------------------------------------------------------------------------
(* The types.                                                               *)

(* What the parser's and the feeder's steps do to the queue keeps its type. *)
LEMMA HeadOf ==
    ASSUME NEW X, NEW s \in Seq(X), s # <<>>
    PROVE  Head(s) \in X /\ Tail(s) \in Seq(X)
BY HeadTailProperties

LEMMA ScriptFacts == Len(Script) \in Nat /\ DOMAIN Script = 1..Len(Script)
BY CallAssumption, LenProperties

LEMMA TypeInit == Init => TypeOK
<1> SUFFICES ASSUME Init PROVE TypeOK
  OBVIOUS
<1>1. at \in 1..(Len(Script) + 1) /\ mode \in Modes /\ left \in 0..Payload
  BY CallAssumption, ScriptFacts DEF Init
<1>2. asked = {} /\ outbound = <<>> /\ order = <<>> /\ ready = FALSE
  BY DEF Init, ControlInit
<1>3. \A X : <<>> \in Seq(X)
  OBVIOUS
<1> QED
  BY <1>1, <1>2, <1>3, Zenon DEF Init, TypeOK

Upward   == [kind : {"skip"}, block : Block] \cup {Input, Last1}
Downward == {Script[i] : i \in DOMAIN Script}

LEMMA SendRequestTypes ==
    ASSUME TypeOK, SendRequest
    PROVE  /\ request' \in Seq(Upward)
           /\ sentUp' \in Seq(Block)
           /\ batch' \in Seq(Block)
<1>1. batch \in Seq(Block) /\ batch # <<>> /\ request \in Seq(Upward) /\ sentUp \in Seq(Block)
  BY DEF TypeOK, SendRequest, Upward
<1>2. Head(batch) \in Block /\ Tail(batch) \in Seq(Block)
  BY <1>1, HeadOf
<1>3. Skip(Head(batch)) \in Upward
  BY <1>2 DEF Skip, Upward
<1> QED
  BY <1>1, <1>2, <1>3, AppendProperties DEF SendRequest

LEMMA FeedTypes == KeptInv /\ TypeOK /\ Feed => TypeOK'
<1> SUFFICES ASSUME KeptInv, TypeOK, Feed PROVE TypeOK'
  OBVIOUS
<1> USE DEF TypeOK, GoTo
<1>1. UNCHANGED <<mode, clientVars, serverVars>>
  BY DEF Feed
<1>2. CASE PullPayload
  BY <1>1, <1>2 DEF PullPayload, controlVars, clientVars, serverVars
<1>3. CASE TakePending
  BY <1>1, <1>3 DEF TakePending, TakeAll, clientVars, serverVars
<1>4. CASE ClearAfterTaking \/ ClearAfterNothing
  BY <1>1, <1>4 DEF ClearAfterTaking, ClearAfterNothing, ClearReady, clientVars, serverVars
<1>5. CASE SendPending
  BY <1>1, <1>5, SendRequestTypes DEF SendPending, controlVars, clientVars, serverVars, Upward
<1>6. CASE SendPayload
  <2>1. /\ request' = Append(request, IF left = 1 THEN Last1 ELSE Input)
        /\ left > 0 /\ left' = left - 1
    BY <1>6 DEF SendPayload
  <2>2. request' \in Seq(Upward)
    BY <2>1, AppendProperties DEF Upward
  <2>3. left' \in 0..Payload
    BY <2>1, CallAssumption
  <2> QED
    BY <1>1, <1>6, <2>2, <2>3 DEF SendPayload, controlVars, clientVars, serverVars, Upward
<1>7. CASE EndPayload
  BY <1>1, <1>7 DEF EndPayload, SetReady, controlVars, clientVars, serverVars
<1>8. CASE Hold \/ WaitEnds \/ FindNothing \/ Dropped
  BY <1>1, <1>8 DEF Hold, WaitEnds, FindNothing, Dropped, controlVars, clientVars, serverVars
<1>9. CASE PopQueued
  <2>1. Head(outbound) \in Block /\ Tail(outbound) \in Seq(Block)
    BY <1>9, HeadOf DEF PopQueued, TakeOne
  <2> QED
    BY <1>1, <1>9, <2>1 DEF PopQueued, TakeOne, clientVars, serverVars
<1>10. CASE Forward
  BY <1>1, <1>10, SendRequestTypes DEF Forward, controlVars, clientVars, serverVars, Upward
<1> QED
  BY <1>2, <1>3, <1>4, <1>5, <1>6, <1>7, <1>8, <1>9, <1>10 DEF Feed

LEMMA ParseTypes == TypeOK /\ Parse => TypeOK'
<1> SUFFICES ASSUME TypeOK, Parse PROVE TypeOK'
  OBVIOUS
<1> USE DEF TypeOK
<1>1. UNCHANGED <<mode, feederVars>>
  BY DEF Parse
<1>2. CASE Receive
  <2> DEFINE b == Head(response)
  <2>1. response # <<>> /\ response' = Tail(response)
    BY <1>2 DEF Receive
  <2>2. response' \in Seq(Downward)
    BY <2>1, HeadOf DEF Downward
  <2>3. CASE mode.skips /\ b.kind = "start" /\ b.block \in Held \ asked
    <3>1. b.block \in Block
      BY <2>3, CallAssumption
    <3>2. Append(outbound, b.block) \in Seq(Block) /\ Append(order, b.block) \in Seq(Block)
      BY <3>1, AppendProperties
    <3> QED
      BY <1>1, <1>2, <2>2, <2>3, <3>1, <3>2 DEF Receive, Queue, feederVars, Downward
  <2>4. CASE ~(mode.skips /\ b.kind = "start" /\ b.block \in Held \ asked)
    BY <1>1, <1>2, <2>2, <2>4 DEF Receive, feederVars, controlVars, Downward
  <2> QED
    BY <2>3, <2>4
<1>3. CASE Announce \/ FinishSending
  <2>1. SetReady /\ parser' \in {"reading", "done"} /\ UNCHANGED <<responseDone, serverVars>>
    BY <1>3 DEF Announce, FinishSending
  <2> QED
    BY <1>1, <2>1 DEF SetReady, feederVars, serverVars
<1>4. CASE CallerGoesOn
  BY <1>1, <1>4 DEF CallerGoesOn, feederVars, controlVars, serverVars
<1>5. CASE ResponseEnds
  BY <1>1, <1>5 DEF ResponseEnds, Finish, feederVars, controlVars, serverVars
<1> QED
  BY <1>2, <1>3, <1>4, <1>5 DEF Parse

LEMMA TakeFromRequestTypes ==
    ASSUME TypeOK, TakeFromRequest
    PROVE  request' \in Seq(Upward) /\ skip' \subseteq Block
<1>1. request \in Seq(Upward) /\ request # <<>> /\ skip \subseteq Block
  BY DEF TypeOK, TakeFromRequest, Upward
<1>2. Head(request) \in Upward /\ Tail(request) \in Seq(Upward)
  BY <1>1, HeadOf
<1>3. Head(request).kind = "skip" => Head(request).block \in Block
  BY <1>2 DEF Upward, Input, Last1
<1>4. /\ request' = Tail(request)
      /\ \/ skip' = skip
         \/ Head(request).kind = "skip" /\ skip' = skip \cup {Head(request).block}
  BY DEF TakeFromRequest
<1> QED
  BY <1>1, <1>2, <1>3, <1>4

LEMMA ServerTypes == TypeOK /\ (Handle \/ Watch) => TypeOK'
<1> USE DEF TypeOK
<1>1. ASSUME TypeOK, ParseRequest, Handle PROVE TypeOK'
  BY <1>1, TakeFromRequestTypes
     DEF ParseRequest, Handle, TakeFromRequest, controlVars, clientVars, Upward
<1>2. ASSUME TypeOK, RequestReadToItsEnd, Handle PROVE TypeOK'
  BY <1>2 DEF RequestReadToItsEnd, Handle, controlVars, clientVars, feederVars
<1>3. ASSUME TypeOK, Respond, Handle PROVE TypeOK'
  <2>1. CASE at > Len(Script)
    BY <1>3, <2>1, ScriptFacts DEF Respond, Handle, controlVars, clientVars, feederVars
  <2>2. CASE ~(at > Len(Script))
    <3>1. at \in DOMAIN Script /\ at + 1 \in 1..(Len(Script) + 1)
      BY <1>3, <2>2, ScriptFacts
    <3>2. Script[at] \in Downward
      BY <3>1 DEF Downward
    <3>3. response' = response \/ response' = Append(response, Script[at])
      BY <1>3, <2>2 DEF Respond
    <3>4. response \in Seq(Downward)
      BY <1>3 DEF Downward
    <3>5. response' \in Seq(Downward)
      BY <3>2, <3>3, <3>4, AppendProperties
    <3>6. /\ at' = at + 1
          /\ UNCHANGED <<handler, watching, skip, feederVars>>
          /\ UNCHANGED <<mode, controlVars, clientVars>>
      BY <1>3, <2>2 DEF Respond, Handle
    <3> HIDE DEF Downward
    <3> QED
      BY <1>3, <3>1, <3>5, <3>6 DEF controlVars, clientVars, feederVars, Downward
  <2> QED
    BY <2>1, <2>2
<1>4. ASSUME TypeOK, Watch PROVE TypeOK'
  BY <1>4, TakeFromRequestTypes DEF Watch, TakeFromRequest, controlVars, clientVars, Upward
<1> QED
  BY <1>1, <1>2, <1>3, <1>4 DEF Handle

LEMMA TypeNext == KeptInv /\ TypeOK /\ [Next]_vars => TypeOK'
<1>1. TypeOK /\ Abandon => TypeOK'
  BY DEF TypeOK, Abandon, Finish, controlVars, feederVars, serverVars
<1>2. TypeOK /\ UNCHANGED vars => TypeOK'
  BY DEF TypeOK, vars, controlVars, clientVars, feederVars, serverVars
<1> QED
  BY <1>1, <1>2, FeedTypes, ParseTypes, ServerTypes DEF Next, Stopped

(* Every variable of a call keeps its type: the pieces of the payload are   *)
(* never counted below zero, the response is never read past its script,    *)
(* and only skip requests and the input travel up, whichever thread stops.  *)
THEOREM CallTypes == Spec => []TypeOK
BY TypeInit, TypeNext, RequestsInHand, PTL DEF Spec
=============================================================================
