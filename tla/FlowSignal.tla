----------------------------- MODULE FlowSignal -----------------------------
(***************************************************************************)
(* utils.Signal, by which a peer pauses and resumes what this party sends. *)
(* The parser changes it on a Buffer that has the signal set; the          *)
(* serializer waits on it here and there between its Buffers.  The two are *)
(* threads: the wait looks at `open`, and then waits for the condition     *)
(* without looking again; the change wakes who waits, and then opens.      *)
(* Skip requests of this party go out between its Buffers and wait for     *)
(* nothing.                                                                *)
(***************************************************************************)
EXTENDS SequencesExt, Naturals

CONSTANTS
    Work,     \* what the serializer may have to do: sequences of Ops
    MaxAsks   \* bound: the skip requests this party has to send

Ops == {"wait", "yield"}

(* More than two Buffers of messages never follow each other without a wait: *)
(* a separator, and the head of the next message.                            *)
WaitsOften(w) ==
    \A i \in DOMAIN w : i > 2 => "wait" \in {w[i - 2], w[i - 1], w[i]}

ASSUME WorkAssumption == \A w \in Work : w \in Seq(Ops) /\ WaitsOften(w)

VARIABLES
    open,      \* Signal.open
    changing,  \* change() has woken who waits and not yet set open
    work,      \* what the serializer has to do
    pc,        \* where in it it is
    waiting,   \* "no", "closed" (it has seen so) or "parked"
    asks,      \* how many skip requests it has sent
    late,      \* history: the Buffers of messages sent since it was paused
    missed     \* history: it went to wait after the wake-up it waits for

signalVars == <<open, changing, work, pc, waiting, asks, late, missed>>

-----------------------------------------------------------------------------
(* Where the serializer waits, and where not, by the form of a message.     *)

Times(n, ops) == FlattenSeq([k \in 1..n |-> ops])

SmallMessage == <<"wait", "yield", "wait">>

(* Its pieces are read from a file, and a reader of files waits as well.    *)
LargeMessage(n) ==
    <<"yield", "wait", "wait", "wait">> \o Times(n, <<"wait", "yield">>)
    \o <<"wait", "yield", "wait">>

StoredFile(n) ==
    <<"yield", "wait">> \o Times(n, <<"wait", "wait", "yield", "wait">>)
    \o <<"wait", "yield">>

(* The reader of a directory is not given the signal.                       *)
StoredDirectory(n) ==
    <<"yield">> \o Times(n, <<"wait", "yield", "wait">>) \o <<"yield">>

-----------------------------------------------------------------------------

SignalInit ==
    /\ work \in Work
    /\ open = TRUE
    /\ changing = FALSE
    /\ pc = 1
    /\ waiting = "no"
    /\ asks = 0
    /\ late = 0
    /\ missed = FALSE

(* change() of an open signal.                                              *)
Pause ==
    /\ open
    /\ open' = FALSE
    /\ late' = 0
    /\ UNCHANGED <<changing, work, pc, waiting, asks, missed>>

(* Mutant of Notify: the condition is not notified.                         *)
NotifyNobody ==
    /\ ~open
    /\ changing' = TRUE
    /\ UNCHANGED <<open, work, pc, waiting, asks, late, missed>>

(* change() of a closed one: notify_all, and in a step of its own the flag. *)
Notify ==
    /\ ~open
    /\ changing' = TRUE
    /\ IF waiting = "parked"
         THEN waiting' = "no" /\ pc' = pc + 1 /\ missed' = FALSE
         ELSE UNCHANGED <<waiting, pc, missed>>
    /\ UNCHANGED <<open, work, asks, late>>

Change == ~changing /\ (Pause \/ Notify)

SetOpen ==
    /\ changing
    /\ changing' = FALSE
    /\ open' = TRUE
    /\ UNCHANGED <<work, pc, waiting, asks, late, missed>>

Done == pc > Len(work)

Turn(op) == ~Done /\ waiting = "no" /\ work[pc] = op

(* Mutant of Test: the flag is not looked at.                               *)
TestNothing ==
    /\ Turn("wait")
    /\ pc' = pc + 1
    /\ UNCHANGED <<open, changing, work, waiting, asks, late, missed>>

(* wait(): first the flag, and if it was closed the condition.              *)
Test ==
    /\ Turn("wait")
    /\ IF open THEN pc' = pc + 1 /\ UNCHANGED waiting
               ELSE waiting' = "closed" /\ UNCHANGED pc
    /\ UNCHANGED <<open, changing, work, asks, late, missed>>

Park ==
    /\ waiting = "closed"
    /\ waiting' = "parked"
    /\ missed' = (open \/ changing)
    /\ UNCHANGED <<open, changing, work, pc, asks, late>>

Yield ==
    /\ Turn("yield")
    /\ pc' = pc + 1
    /\ late' = IF open \/ changing THEN late ELSE late + 1
    /\ UNCHANGED <<open, changing, work, waiting, asks, missed>>

(* A request queued by the parser goes out ahead of the next Buffer, after  *)
(* the last, or while the direction is held open, paused or not.            *)
Ask ==
    /\ Turn("yield") \/ Done
    /\ asks < MaxAsks
    /\ asks' = asks + 1
    /\ UNCHANGED <<open, changing, work, pc, waiting, late, missed>>

SerializerStep == Test \/ Park \/ Yield \/ Ask
=============================================================================
