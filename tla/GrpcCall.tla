------------------------------ MODULE GrpcCall ------------------------------
(***************************************************************************)
(* One call of client.client_grpc, and a server's handler of it.           *)
(*                                                                         *)
(*   the parser   the caller's thread: parse_from_buffer on the response   *)
(*   the feeder   gRPC's thread that pulls request_stream()                *)
(*   the handler  the server's thread: parses the request, then responds   *)
(*   the watcher  StreamControl.watch at the server                        *)
(*                                                                         *)
(* With block_skip the request direction is held open after its payload,   *)
(* for the skip requests the response gives rise to, until the response is *)
(* done with.                                                              *)
(***************************************************************************)
EXTENDS StreamControl

CONSTANTS
    Payload,   \* how many Buffers the input is serialized to
    Script,    \* the response: its block markers, pieces and last Buffer
    Held,      \* the blocks the client holds already
    Room,      \* how many Buffers a direction of the call may hold
    Modes      \* the ways a call is made and handled

Start(b) == [kind |-> "start", block |-> b]
Piece(b) == [kind |-> "piece", block |-> b]
Skip(b)  == [kind |-> "skip",  block |-> b]
Input    == [kind |-> "input"]
Last1    == [kind |-> "last"]   \* has the separator of a message

(* A handler takes one message, as most do, and watches for requests after  *)
(* it or not; or it reads its request to the end before it responds.        *)
Mode == [skips : BOOLEAN, handler : {"watches", "stops", "drains"}]

ASSUME CallAssumption ==
    /\ Payload \in Nat \ {0}
    /\ Script \in Seq({Start(b) : b \in Block} \cup {Piece(b) : b \in Block} \cup {Last1})
    /\ Held \subseteq Block
    /\ Room \in Nat \ {0}
    /\ Modes \subseteq Mode

VARIABLES
    mode,          \* how this call is made and handled
    parser,        \* where the parser stands
    responseDone,  \* the event response_done
    feeder,        \* where the feeder stands
    left,          \* Buffers of the payload not yet sent
    batch,         \* requests taken from the queue and not yet sent
    request,       \* the request direction
    requestEnded,  \* the feeder's generator is exhausted: half-close
    handler,       \* where the handler stands
    watching,      \* the watcher runs
    skip,          \* control._skip at the server
    at,            \* the next item of Script
    response,      \* the response direction
    sentUp         \* history: the requests put on the request direction

clientVars == <<parser, responseDone>>
feederVars == <<feeder, left, batch, request, requestEnded, sentUp>>
serverVars == <<handler, watching, skip, at, response>>
vars == <<mode, controlVars, clientVars, feederVars, serverVars>>

Init ==
    /\ mode \in Modes
    /\ ControlInit
    /\ parser = "reading"
    /\ responseDone = FALSE
    /\ feeder = "payload"
    /\ left = Payload
    /\ batch = <<>>
    /\ request = <<>>
    /\ requestEnded = FALSE
    /\ handler = "parsing"
    /\ watching = FALSE
    /\ skip = {}
    /\ at = 1
    /\ response = <<>>
    /\ sentUp = <<>>

-----------------------------------------------------------------------------
(* The feeder: serialize_to_buffer, and the hold loop after it.             *)

HasRoom(stream) == Len(stream) < Room

GoTo(place) == feeder' = place

(* The next Buffer of the payload is there, or its end: without block_skip  *)
(* it is passed on as it is, else what is queued goes before it.            *)
PullPayload ==
    /\ feeder = "payload"
    /\ GoTo(IF mode.skips THEN "taking" ELSE "sending")
    /\ UNCHANGED <<controlVars, left, batch, request, requestEnded, sentUp>>

TakePending ==
    /\ feeder = "taking"
    /\ TakeAll
    /\ batch' = outbound
    /\ GoTo(IF outbound = <<>> THEN "sending" ELSE "clearing")
    /\ UNCHANGED <<left, request, requestEnded, sentUp>>

ClearAfterTaking ==
    /\ feeder = "clearing"
    /\ ClearReady
    /\ GoTo("sending")
    /\ UNCHANGED <<left, batch, request, requestEnded, sentUp>>

SendRequest ==
    /\ batch # <<>>
    /\ HasRoom(request)
    /\ request' = Append(request, Skip(Head(batch)))
    /\ sentUp' = Append(sentUp, Head(batch))
    /\ batch' = Tail(batch)

SendPending ==
    /\ feeder = "sending"
    /\ SendRequest
    /\ UNCHANGED <<controlVars, feeder, left, requestEnded>>

(* Mutant of SendPayload: one Buffer too many.                              *)
SendPayloadTwice ==
    /\ feeder = "sending"
    /\ batch = <<>>
    /\ left >= 0
    /\ HasRoom(request)
    /\ request' = Append(request, IF left = 1 THEN Last1 ELSE Input)
    /\ left' = left - 1
    /\ GoTo("payload")
    /\ UNCHANGED <<controlVars, batch, requestEnded, sentUp>>

SendPayload ==
    /\ feeder = "sending"
    /\ batch = <<>>
    /\ left > 0
    /\ HasRoom(request)
    /\ request' = Append(request, IF left = 1 THEN Last1 ELSE Input)
    /\ left' = left - 1
    /\ GoTo("payload")
    /\ UNCHANGED <<controlVars, batch, requestEnded, sentUp>>

(* Mutant of EndPayload: a call without block_skip is held open as well.    *)
HoldAnyway ==
    /\ feeder = "sending"
    /\ batch = <<>>
    /\ left = 0
    /\ SetReady
    /\ GoTo("holding")
    /\ UNCHANGED <<left, batch, request, requestEnded, sentUp>>

(* finish_sending sets the event, whatever is queued.                       *)
EndPayload ==
    /\ feeder = "sending"
    /\ batch = <<>>
    /\ left = 0
    /\ IF mode.skips
         THEN /\ SetReady
              /\ GoTo("holding")
              /\ UNCHANGED requestEnded
         ELSE /\ GoTo("ended")
              /\ requestEnded' = TRUE
              /\ UNCHANGED controlVars
    /\ UNCHANGED <<left, batch, request, sentUp>>

(* Mutant of Hold: it goes on waiting without a look at response_done.      *)
HoldForever ==
    /\ feeder = "holding"
    /\ GoTo("waiting")
    /\ UNCHANGED <<controlVars, left, batch, request, requestEnded, sentUp>>

Hold ==
    /\ feeder = "holding"
    /\ requestEnded' = responseDone
    /\ GoTo(IF responseDone THEN "ended" ELSE "waiting")
    /\ UNCHANGED <<controlVars, left, batch, request, sentUp>>

(* next_outbound: the wait of 50 ms ends with the event set or without.     *)
WaitEnds ==
    /\ feeder = "waiting"
    /\ GoTo(IF ready THEN "woken" ELSE "holding")
    /\ UNCHANGED <<controlVars, left, batch, request, requestEnded, sentUp>>

PopQueued ==
    /\ feeder = "woken"
    /\ TakeOne
    /\ batch' = <<Head(outbound)>>
    /\ GoTo("forwarding")
    /\ UNCHANGED <<left, request, requestEnded, sentUp>>

FindNothing ==
    /\ feeder = "woken"
    /\ outbound = <<>>
    /\ GoTo("dropping")
    /\ UNCHANGED <<controlVars, left, batch, request, requestEnded, sentUp>>

ClearAfterNothing ==
    /\ feeder = "dropping"
    /\ ClearReady
    /\ GoTo("holding")
    /\ UNCHANGED <<left, batch, request, requestEnded, sentUp>>

Forward ==
    /\ feeder = "forwarding"
    /\ SendRequest
    /\ GoTo("holding")
    /\ UNCHANGED <<controlVars, left, requestEnded>>

(* gRPC's thread gives up a Buffer that it cannot send any more, and pulls   *)
(* no other: the call is over.                                              *)
Dropped ==
    /\ feeder \in {"sending", "forwarding"}
    /\ handler = "ended" \/ responseDone
    /\ GoTo("ended")
    /\ UNCHANGED <<controlVars, left, batch, request, requestEnded, sentUp>>

Feed ==
    /\ \/ PullPayload \/ TakePending \/ ClearAfterTaking \/ SendPending
       \/ SendPayload \/ EndPayload \/ Hold \/ WaitEnds \/ PopQueued
       \/ FindNothing \/ ClearAfterNothing \/ Forward \/ Dropped
    /\ UNCHANGED <<mode, clientVars, serverVars>>

-----------------------------------------------------------------------------
(* The parser.                                                              *)

(* A Buffer of the response.  At the marker of a block that is held and was *)
(* not asked for, the request is queued, and the event set after it.        *)
Receive ==
    /\ parser = "reading"
    /\ response # <<>>
    /\ response' = Tail(response)
    /\ LET b == Head(response)
       IN  IF mode.skips /\ b.kind = "start" /\ b.block \in Held \ asked
             THEN /\ Queue(b.block)
                  /\ parser' = "announcing"
             ELSE /\ parser' = IF b.kind = "last" THEN "yielded" ELSE parser
                  /\ UNCHANGED controlVars
    /\ UNCHANGED <<responseDone, handler, watching, skip, at>>

Announce ==
    /\ parser = "announcing"
    /\ SetReady
    /\ parser' = "reading"
    /\ UNCHANGED <<responseDone, serverVars>>

(* The caller takes the message and asks for the next.                      *)
CallerGoesOn ==
    /\ parser = "yielded"
    /\ parser' = "reading"
    /\ UNCHANGED <<controlVars, responseDone, serverVars>>

(* The `finally` of client_grpc: first the one event and then the other.    *)
Finish(from) ==
    /\ parser = from
    /\ parser' = "finishing"
    /\ responseDone' = TRUE
    /\ UNCHANGED <<controlVars, serverVars>>

ResponseEnds ==
    /\ handler = "ended"
    /\ response = <<>>
    /\ Finish("reading")

FinishSending ==
    /\ parser = "finishing"
    /\ SetReady
    /\ parser' = "done"
    /\ UNCHANGED <<responseDone, serverVars>>

Parse ==
    /\ Receive \/ Announce \/ CallerGoesOn \/ ResponseEnds \/ FinishSending
    /\ UNCHANGED <<mode, feederVars>>

(* The caller drops the generator once it has the message, or the call      *)
(* fails under the parser.                                                  *)
Abandon ==
    /\ Finish("yielded") \/ Finish("reading")
    /\ UNCHANGED <<mode, feederVars>>

-----------------------------------------------------------------------------
(* The server.                                                              *)

(* A Buffer of the request is read by whoever reads it now; StreamControl   *)
(* picks the requests off it.                                               *)
TakeFromRequest ==
    /\ request # <<>>
    /\ request' = Tail(request)
    /\ skip' = IF Head(request).kind = "skip" THEN skip \cup {Head(request).block}
                                              ELSE skip
    /\ UNCHANGED <<feeder, left, batch, requestEnded, sentUp>>

ParseRequest ==
    /\ handler = "parsing"
    /\ TakeFromRequest
    /\ LET parsed == Head(request).kind = "last" /\ mode.handler # "drains"
       IN  /\ handler' = IF parsed THEN "responding" ELSE "parsing"
           /\ watching' = (parsed /\ mode.handler = "watches")
    /\ UNCHANGED <<at, response>>

RequestReadToItsEnd ==
    /\ handler = "parsing"
    /\ request = <<>>
    /\ requestEnded
    /\ handler' = "responding"
    /\ UNCHANGED <<feederVars, watching, skip, at, response>>

(* The piece of a block the client has asked to skip is left out.           *)
Respond ==
    /\ handler = "responding"
    /\ HasRoom(response)
    /\ IF at > Len(Script)
         THEN /\ handler' = "ended"
              /\ UNCHANGED <<at, response>>
         ELSE /\ at' = at + 1
              /\ response' = IF Script[at].kind = "piece" /\ Script[at].block \in skip
                               THEN response
                               ELSE Append(response, Script[at])
              /\ UNCHANGED handler
    /\ UNCHANGED <<feederVars, watching, skip>>

Handle ==
    /\ ParseRequest \/ RequestReadToItsEnd \/ Respond
    /\ UNCHANGED <<mode, controlVars, clientVars>>

Watch ==
    /\ watching
    /\ TakeFromRequest
    /\ UNCHANGED <<mode, controlVars, clientVars, handler, watching, at, response>>

Stopped == feeder = "ended" /\ parser = "done" /\ UNCHANGED vars

Next == Feed \/ Parse \/ Abandon \/ Handle \/ Watch \/ Stopped

(* Every thread runs; the caller may but need not drop the call.            *)
Spec ==
    /\ Init /\ [][Next]_vars
    /\ WF_vars(Feed) /\ WF_vars(Parse) /\ WF_vars(Handle) /\ WF_vars(Watch)

-----------------------------------------------------------------------------
(* Properties.                                                              *)

(* Every variable has the values the code gives it.                         *)
TypeOK ==
    /\ mode \in Modes
    /\ asked \subseteq Block
    /\ outbound \in Seq(Block) /\ batch \in Seq(Block)
    /\ order \in Seq(Block) /\ sentUp \in Seq(Block)
    /\ ready \in BOOLEAN /\ responseDone \in BOOLEAN
    /\ parser \in {"reading", "announcing", "yielded", "finishing", "done"}
    /\ feeder \in {"payload", "taking", "clearing", "sending", "holding", "waiting",
                   "woken", "dropping", "forwarding", "ended"}
    /\ left \in 0..Payload
    /\ request \in Seq([kind : {"skip"}, block : Block] \cup {Input, Last1})
    /\ requestEnded \in BOOLEAN /\ watching \in BOOLEAN
    /\ handler \in {"parsing", "responding", "ended"}
    /\ skip \subseteq Block
    /\ at \in 1..(Len(Script) + 1)
    /\ response \in Seq({Script[i] : i \in DOMAIN Script})

(* No request is lost, repeated or overtaken between the two threads: what  *)
(* was sent, what the feeder has in hand and what is queued are together    *)
(* the requests made, in the order they were made.                          *)
RequestsKept ==
    /\ sentUp \o batch \o outbound = order
    /\ asked = ToSet(order)
    /\ IsInjective(order)

(* The strengthening that makes it inductive: requests are in hand only     *)
(* where the feeder is about to send them, and one at a time when held.     *)
BatchInHand ==
    /\ batch # <<>> => feeder \in {"clearing", "sending", "forwarding", "ended"}
    /\ feeder = "forwarding" => Tail(batch) = <<>>

KeptInv ==
    /\ order \in Seq(Block) /\ sentUp \in Seq(Block)
    /\ batch \in Seq(Block) /\ outbound \in Seq(Block)
    /\ BatchInHand
    /\ RequestsKept

(* Once the response is done with, however that came about, the request     *)
(* direction ends: the thread gRPC pulls it with is not left parked.        *)
RequestDirectionEnds == responseDone ~> feeder = "ended"

(* The caller's loop comes to its end, skipping or not: "if it is not, the  *)
(* requests are ignored as unknown fields and the response arrives in full, *)
(* which is the pre-existing behaviour" (client_grpc).                      *)
CallCompletes == <>(parser = "done")
=============================================================================
