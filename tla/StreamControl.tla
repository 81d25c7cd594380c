--------------------------- MODULE StreamControl ---------------------------
(***************************************************************************)
(* control.StreamControl, the object two threads of one call share: the    *)
(* thread that parses the response asks for skips, the thread that gRPC    *)
(* pulls the request stream with takes those requests and sends them.      *)
(*                                                                         *)
(* The queue has a lock, the event that announces it has not: each of its  *)
(* methods is a step under the lock and a step that sets or clears the     *)
(* event, and the other thread may run between them.  GrpcCall says who    *)
(* takes which step when.                                                  *)
(***************************************************************************)
EXTENDS Naturals, SequencesExt

CONSTANT Block  \* the ids of the blocks

VARIABLES
    asked,     \* _asked: the blocks already asked for
    outbound,  \* _outbound: the requests queued
    ready,     \* _outbound_ready: the event
    order      \* history: every block asked for, in order

controlVars == <<asked, outbound, ready, order>>

ControlInit ==
    /\ asked = {}
    /\ outbound = <<>>
    /\ ready = FALSE
    /\ order = <<>>

(* request_skip, under the lock, for a block not asked for before; and then *)
(* the event.                                                               *)
Queue(b) ==
    /\ b \notin asked
    /\ asked' = asked \cup {b}
    /\ outbound' = Append(outbound, b)
    /\ order' = Append(order, b)
    /\ UNCHANGED ready

SetReady ==
    /\ ready' = TRUE
    /\ UNCHANGED <<asked, outbound, order>>

(* Mutant of ClearReady: the queue is emptied here, outside the lock.       *)
ClearQueueToo ==
    /\ ready' = FALSE
    /\ outbound' = <<>>
    /\ UNCHANGED <<asked, order>>

(* pending_outbound and next_outbound, after the lock was released.         *)
ClearReady ==
    /\ ready' = FALSE
    /\ UNCHANGED <<asked, outbound, order>>

(* pending_outbound, under the lock.                                        *)
TakeAll ==
    /\ outbound' = <<>>
    /\ UNCHANGED <<asked, ready, order>>

(* Mutant of TakeOne: the request is looked at and left in the queue.       *)
PeekOne ==
    /\ outbound # <<>>
    /\ UNCHANGED <<asked, outbound, ready, order>>

(* next_outbound, under the lock, with something queued.                    *)
TakeOne ==
    /\ outbound # <<>>
    /\ outbound' = Tail(outbound)
    /\ ready' = (ready /\ outbound' # <<>>)
    /\ UNCHANGED <<asked, order>>
=============================================================================
