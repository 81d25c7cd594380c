-------------------------- MODULE BlockStoreProofs --------------------------
(***************************************************************************)
(* The properties of the block directory, for any processes, blocks and    *)
(* forms, and any number of removals and crashes.  First FinalWhole, and   *)
(* that the directory is an AtomicStore; then NoLitter, NotLost and        *)
(* CopiesExact.                                                            *)
(*                                                                         *)
(* For FinalWhole, what is renamed onto a block's path must be whole at    *)
(* that moment, whatever the other processes did in the meantime; so the   *)
(* invariant says of each process, at each place it can be, how far what   *)
(* it writes aside is.                                                     *)
(***************************************************************************)
EXTENDS BlockStore, FiniteSetTheorems, SequenceTheorems, TLAPS

Reading == {"open", "file", "list", "items", "nested", "read"}
Payload == {"payload", "payload check", "payload place"}
Ready   == {"check last", "place", "step aside", "swap"}
Writing == {"write", "verify"} \cup Payload \cup Ready
Stage   == Idle \cup {"dead", "check", "check again",
              "drop"} \cup Reading \cup Writing
Aside   == Entry \cup {None}

Types ==
    /\ final \in [Block -> Aside]
    /\ pc \in [Proc -> Stage]
    /\ kind \in [Proc -> {"create", "save", "split", "copy", None}]
    /\ target \in [Proc -> Block \cup {None}]
    /\ shape \in [Proc -> Shape]
    /\ tmp \in [Proc -> Aside]
    /\ sub \in [Proc -> Aside]

(* Form s of block b is in the making, and t is as much as there is of it.  *)
Begun(b, s, t) ==
    /\ b \in Block
    /\ s \in DOMAIN Layout[b]
    /\ t \in Entry
    /\ t.shape = s
    /\ t.done <= Len(Layout[b][s])

NextOf(b, s, t) == Layout[b][s][t.done + 1].block

(* How far a process is that does k to block b in form s, with t and u      *)
(* written aside.                                                           *)
Progress(stage, k, b, s, t, u) ==
    /\ stage \in {"check", "check again"} => k = "create" /\ b \in Block
       /\ s = File
    /\ stage \in Reading /\ k # "copy" => k = "split" /\ Begun(b, s, t)
       /\ t.good
    /\ stage \in Writing => Begun(b, s, t) /\ k \in {"create", "save", "split"}
    /\ stage \in Writing /\ k = "create" => t.good
    /\ stage = "verify" => t.done = Len(Layout[b][s])
    /\ stage \in Ready => t.good /\ t.done = Len(Layout[b][s])
    /\ stage \in Payload => t.done < Len(Layout[b][s])
       /\ NextOf(b, s, t) \in Block
    /\ stage \in {"payload check", "payload place"} =>
            u = Complete(NextOf(b, s, t), File)

ProcInv(p) == Progress(pc[p], kind[p], target[p], shape[p], tmp[p], sub[p])

FinalsWhole == \A b \in Block : Exists(b) => Whole(b, final[b])

Inv == Types /\ FinalsWhole /\ \A p \in Proc : ProcInv(p)

-----------------------------------------------------------------------------
(* What the assumption on Layout says of one form.                          *)

LEMMA FormFacts ==
  ASSUME NEW b \in Block, NEW s \in DOMAIN Layout[b]
  PROVE  /\ s \in Shape
         /\ Len(Layout[b][s]) \in Nat \ {0}
         /\ \A i \in 1..Len(Layout[b][s]) : Layout[b][s][i].block \in Block \cup {None}
<1> DEFINE items == Layout[b][s]
<1> DEFINE T == [block : Block \cup {None}, bytes : Seq(Nat)]
<1>1. items \in Seq(T) /\ items # <<>> /\ s \in Shape
  BY StoreAssumption
<1> HIDE DEF items, T
<1>2. Len(items) \in Nat \ {0}
  BY <1>1
<1>3. ASSUME NEW i \in 1..Len(items)
      PROVE  items[i].block \in Block \cup {None}
  <2>1. items[i] \in T
    BY <1>1, <1>3
  <2> QED
    BY <2>1 DEF T
<1> QED
  BY <1>1, <1>2, <1>3 DEF items

(* A complete file of a block is an entry, and whole.                       *)
LEMMA FileFacts ==
  ASSUME NEW b \in Block
  PROVE  /\ File \in DOMAIN Layout[b]
         /\ Complete(b, File) \in Entry
         /\ Complete(b, File).shape = File
         /\ Complete(b, File).good
         /\ Complete(b, File).done = Len(Layout[b][File])
         /\ Begun(b, File, Complete(b, File))
<1>1. File \in DOMAIN Layout[b]
  BY StoreAssumption
<1>2. Len(Layout[b][File]) \in Nat
  BY <1>1, FormFacts
<1> QED
  BY <1>1, <1>2, StoreAssumption DEF Complete, Entry, Begun

LEMMA NewFacts ==
  ASSUME NEW b \in Block, NEW s \in DOMAIN Layout[b], NEW good \in BOOLEAN
  PROVE  Begun(b, s, New(s, good)) /\ New(s, good).good = good
    /\ New(s, good) \in Entry
BY FormFacts DEF New, Entry, Begun

(* One item more.                                                           *)
LEMMA MoreFacts ==
  ASSUME NEW b, NEW s, NEW t, Begun(b, s, t), t.done < Len(Layout[b][s])
  PROVE  /\ Begun(b, s, [t EXCEPT !.done = @ + 1])
         /\ [t EXCEPT !.done = @ + 1] \in Entry
         /\ [t EXCEPT !.done = @ + 1].good = t.good
<1>1. Len(Layout[b][s]) \in Nat
  BY FormFacts DEF Begun
<1> QED
  BY <1>1 DEF Begun, Entry

-----------------------------------------------------------------------------
(* A step of one process leaves the others as far as they were.             *)

MoveTo(p, stage, t, u) ==
    /\ pc' = [pc EXCEPT ![p] = stage]
    /\ tmp' = [tmp EXCEPT ![p] = t]
    /\ sub' = [sub EXCEPT ![p] = u]

Start(p, k, b, s) ==
    /\ kind' = [kind EXCEPT ![p] = k]
    /\ target' = [target EXCEPT ![p] = b]
    /\ shape' = [shape EXCEPT ![p] = s]

LEMMA StartKeeps ==
  ASSUME Inv, NEW p \in Proc, NEW stage \in Stage, NEW t \in Aside,
                NEW u \in Aside,
         NEW k \in {"create", "save", "split", "copy", None},
         NEW b \in Block \cup {None}, NEW s \in Shape,
         MoveTo(p, stage, t, u), Start(p, k, b, s),
         final' \in [Block -> Aside], FinalsWhole',
         Progress(stage, k, b, s, t, u)
  PROVE  Inv'
<1>1. Types'
  BY DEF Inv, Types, MoveTo, Start
<1>2. ProcInv(p)'
  BY DEF Inv, Types, MoveTo, Start, ProcInv
<1>3. ASSUME NEW q \in Proc, q # p PROVE ProcInv(q)'
  BY <1>3 DEF Inv, Types, MoveTo, Start, ProcInv
<1> QED
  BY <1>1, <1>2, <1>3 DEF Inv

LEMMA MoveKeeps ==
  ASSUME Inv, NEW p \in Proc, NEW stage \in Stage, NEW t \in Aside,
                NEW u \in Aside,
         MoveTo(p, stage, t, u), UNCHANGED opVars,
         final' \in [Block -> Aside], FinalsWhole',
         Progress(stage, kind[p], target[p], shape[p], t, u)
  PROVE  Inv'
<1>1. Start(p, kind[p], target[p], shape[p])
  BY DEF Inv, Types, Start, opVars
<1>2. /\ kind[p] \in {"create", "save", "split", "copy", None}
      /\ target[p] \in Block \cup {None} /\ shape[p] \in Shape
  BY DEF Inv, Types
<1> QED
  BY <1>1, <1>2, StartKeeps

(* A step that leaves the blocks alone.                                     *)
LEMMA AsideKeeps ==
  ASSUME Inv, NEW p \in Proc, NEW stage \in Stage, NEW t \in Aside,
                NEW u \in Aside,
         MoveTo(p, stage, t, u), UNCHANGED <<diskVars, opVars>>,
         Progress(stage, kind[p], target[p], shape[p], t, u)
  PROVE  Inv'
<1>1. final' \in [Block -> Aside] /\ FinalsWhole'
  BY DEF Inv, Types, diskVars, FinalsWhole, Exists
<1>2. UNCHANGED opVars
  OBVIOUS
<1> QED
  BY <1>1, <1>2, MoveKeeps

LEMMA Values ==
  ASSUME Inv, NEW p \in Proc
  PROVE  /\ Progress(pc[p], kind[p], target[p], shape[p], tmp[p], sub[p])
         /\ tmp[p] \in Aside /\ sub[p] \in Aside /\ pc[p] \in Stage
         /\ tmp = [tmp EXCEPT ![p] = tmp[p]]
         /\ sub = [sub EXCEPT ![p] = sub[p]]
         /\ pc = [pc EXCEPT ![p] = pc[p]]
         /\ None \in Aside
BY DEF Inv, Types, ProcInv, Aside

(* Where nothing is being written nothing is claimed.                       *)
Over == {"idle", "ok", "failed", "dead", "drop"}

LEMMA OverFacts ==
  ASSUME NEW stage \in Over, NEW k, NEW b, NEW s, NEW t, NEW u
  PROVE  Progress(stage, k, b, s, t, u) /\ stage \in Stage
BY DEF Over, Progress, Stage, Idle, Reading, Writing, Payload, Ready

LEMMA FailKeeps ==
  ASSUME Inv, NEW p \in Proc, Fail(p), UNCHANGED <<diskVars, opVars>>
  PROVE  Inv'
<1>1. MoveTo(p, "failed", None, None)
  BY DEF Fail, Goto, MoveTo
<1>2. Progress("failed", kind[p], target[p], shape[p], None, None)
      /\ "failed" \in Stage
  BY OverFacts DEF Over
<1> QED
  BY <1>1, <1>2, Values, AsideKeeps

(* An entry that is whole comes to a block's path.                          *)
LEMMA PutFacts ==
  ASSUME Inv, NEW b \in Block, NEW e \in Entry, PutAt(b, e), Whole(b, e)
  PROVE  final' \in [Block -> Aside] /\ FinalsWhole'
<1>1. final' = [final EXCEPT ![b] = e]
  BY DEF PutAt
<1>2. final' \in [Block -> Aside]
  BY <1>1 DEF Inv, Types, Aside
<1>3. ASSUME NEW c \in Block, Exists(c)' PROVE Whole(c, final[c])'
  BY <1>1, <1>3 DEF Inv, Types, FinalsWhole, Exists, Whole
<1> QED
  BY <1>2, <1>3 DEF FinalsWhole

LEMMA GoneFacts ==
  ASSUME Inv, NEW b \in Block, final' = [final EXCEPT ![b] = None]
  PROVE  final' \in [Block -> Aside] /\ FinalsWhole'
BY DEF Inv, Types, Aside, FinalsWhole, Exists, Whole

LEMMA MoreProgress ==
  ASSUME NEW k \in {"create", "save", "split"}, NEW b, NEW s, NEW t, NEW u,
         Begun(b, s, t), t.done < Len(Layout[b][s]), k = "create" => t.good
  PROVE  /\ Progress("write", k, b, s, [t EXCEPT !.done = @ + 1], u)
         /\ [t EXCEPT !.done = @ + 1] \in Aside
<1> DEFINE more == [t EXCEPT !.done = @ + 1]
<1>1. Begun(b, s, more) /\ more \in Entry /\ more.good = t.good
  BY MoreFacts
<1> HIDE DEF more
<1>2. Progress("write", k, b, s, more, u) /\ more \in Aside
  BY <1>1 DEF Progress, Stage, Idle, Reading, Writing, Payload, Ready, Aside
<1> QED
  BY <1>2 DEF more

LEMMA WriteFacts ==
  ASSUME Inv, NEW p \in Proc, pc[p] = "write", ~Written(p)
  PROVE  /\ Begun(target[p], shape[p], tmp[p])
         /\ kind[p] \in {"create", "save", "split"}
         /\ kind[p] = "create" => tmp[p].good
         /\ tmp[p].done < Len(Layout[target[p]][shape[p]])
         /\ NextOf(target[p], shape[p], tmp[p]) \in Block \cup {None}
<1>1. Begun(target[p], shape[p], tmp[p])
      /\ kind[p] \in {"create", "save", "split"}
      /\ (kind[p] = "create" => tmp[p].good)
  BY Values DEF Progress, Writing
<1> DEFINE n == Len(Layout[target[p]][shape[p]])
<1>2. n \in Nat /\ tmp[p].done \in Nat /\ tmp[p].done <= n
  BY <1>1, FormFacts DEF Begun, Entry
<1>3. tmp[p].done # n
  BY DEF Written
<1>4. tmp[p].done < n /\ tmp[p].done + 1 \in 1..n
  BY <1>2, <1>3
<1>5. NextOf(target[p], shape[p], tmp[p]) \in Block \cup {None}
  BY <1>1, <1>4, FormFacts DEF Begun, NextOf
<1> QED
  BY <1>1, <1>4, <1>5

-----------------------------------------------------------------------------
(* The actions.                                                             *)

LEMMA CreateCheckKeeps == ASSUME Inv, NEW p \in Proc, CreateCheck(p) PROVE Inv'
<1>1. MoveTo(p, (IF Exists(target[p]) THEN "ok" ELSE "check again"), tmp[p],
              sub[p])
  BY Values DEF CreateCheck, Goto, MoveTo
<1>2. /\ Progress((IF Exists(target[p]) THEN "ok" ELSE "check again"), kind[p],
              target[p], shape[p], tmp[p], sub[p])
      /\ (IF Exists(target[p]) THEN "ok" ELSE "check again") \in Stage
         /\ tmp[p] \in Aside /\ sub[p] \in Aside
  BY Values DEF CreateCheck, Progress, Stage, Idle, Reading, Writing, Payload,
     Ready, Aside
<1>3. UNCHANGED <<diskVars, opVars>>
  BY DEF CreateCheck
<1> QED
  BY <1>1, <1>2, <1>3, AsideKeeps

LEMMA CreateCheckAgainKeeps == ASSUME Inv, NEW p \in Proc,
              CreateCheckAgain(p) PROVE Inv'
<1>0. UNCHANGED <<diskVars, opVars>>
  BY DEF CreateCheckAgain
<1>1. CASE Fail(p)
  BY <1>0, <1>1, FailKeeps
<1>2. CASE tmp' = [tmp EXCEPT ![p] = New(File, TRUE)] /\ Goto(p, "write")
           /\ UNCHANGED sub
  <2>0. target[p] \in Block /\ shape[p] = File /\ kind[p] = "create"
    BY <1>2, Values DEF CreateCheckAgain, Progress, Stage, Idle, Reading,
       Writing, Payload, Ready
  <2>1. MoveTo(p, "write", New(File, TRUE), sub[p])
    BY <1>2, Values DEF CreateCheckAgain, Goto, MoveTo
  <2>2. /\ Progress("write", kind[p], target[p], shape[p], New(File, TRUE),
                sub[p])
        /\ "write" \in Stage /\ New(File, TRUE) \in Aside /\ sub[p] \in Aside
    BY <1>2, Values, <2>0, NewFacts, FileFacts
       DEF CreateCheckAgain, Progress, Stage, Idle, Reading, Writing, Payload,
                     Ready, Aside
  <2> QED
    BY <1>0, <2>1, <2>2, AsideKeeps
<1>3. CASE tmp' = [tmp EXCEPT ![p] = Complete(target[p], File)]
           /\ Goto(p, "place") /\ UNCHANGED sub
  <2>0. target[p] \in Block /\ shape[p] = File /\ kind[p] = "create"
    BY <1>3, Values DEF CreateCheckAgain, Progress, Stage, Idle, Reading,
       Writing, Payload, Ready
  <2>1. MoveTo(p, "place", Complete(target[p], File), sub[p])
    BY <1>3, Values DEF CreateCheckAgain, Goto, MoveTo
  <2>2. /\ Progress("place", kind[p], target[p], shape[p], Complete(target[p],
                File), sub[p])
        /\ "place" \in Stage /\ Complete(target[p], File) \in Aside
           /\ sub[p] \in Aside
    BY <1>3, Values, <2>0, FileFacts DEF CreateCheckAgain, Progress, Stage,
       Idle, Reading, Writing, Payload, Ready, Aside
  <2> QED
    BY <1>0, <2>1, <2>2, AsideKeeps
<1> QED
  BY <1>1, <1>2, <1>3 DEF CreateCheckAgain

LEMMA WriteEndsKeeps == ASSUME Inv, NEW p \in Proc, WriteEnds(p) PROVE Inv'
<1>1. MoveTo(p, (IF kind[p] = "create" THEN "place" ELSE "verify"), tmp[p],
              sub[p])
  BY Values DEF WriteEnds, Goto, MoveTo, Written
<1>2. /\ Progress((IF kind[p] = "create" THEN "place" ELSE "verify"), kind[p],
              target[p], shape[p], tmp[p], sub[p])
      /\ (IF kind[p] = "create" THEN "place" ELSE "verify") \in Stage
         /\ tmp[p] \in Aside /\ sub[p] \in Aside
  BY Values DEF WriteEnds, Progress, Stage, Idle, Reading, Writing, Payload,
     Ready, Aside, Written
<1>3. UNCHANGED <<diskVars, opVars>>
  BY DEF WriteEnds
<1> QED
  BY <1>1, <1>2, <1>3, AsideKeeps

LEMMA WritePartKeeps == ASSUME Inv, NEW p \in Proc, WritePart(p) PROVE Inv'
<1>1. MoveTo(p, "write", [tmp[p] EXCEPT !.done = @ + 1], sub[p])
  BY Values DEF WritePart, Goto, MoveTo, OneMore
<1>2. /\ Progress("write", kind[p], target[p], shape[p],
              [tmp[p] EXCEPT !.done = @ + 1], sub[p])
      /\ "write" \in Stage /\ [tmp[p] EXCEPT !.done = @ + 1] \in Aside
         /\ sub[p] \in Aside
  BY Values, WriteFacts, MoreProgress DEF WritePart, Stage, Idle, Reading,
     Writing, Payload, Ready
<1>3. UNCHANGED <<diskVars, opVars>>
  BY DEF WritePart
<1> QED
  BY <1>1, <1>2, <1>3, AsideKeeps

LEMMA WriteBlockKeeps == ASSUME Inv, NEW p \in Proc, WriteBlock(p) PROVE Inv'
<1>0. UNCHANGED <<diskVars, opVars>>
  BY DEF WriteBlock
<1>1. CASE tmp' = OneMore(p) /\ UNCHANGED <<pc, sub>>
  <2>1. MoveTo(p, "write", [tmp[p] EXCEPT !.done = @ + 1], sub[p])
    BY <1>1, Values DEF WriteBlock, Goto, MoveTo, OneMore
  <2>2. /\ Progress("write", kind[p], target[p], shape[p],
                [tmp[p] EXCEPT !.done = @ + 1], sub[p])
        /\ "write" \in Stage /\ [tmp[p] EXCEPT !.done = @ + 1] \in Aside
           /\ sub[p] \in Aside
    BY <1>1, Values, WriteFacts, MoreProgress
       DEF WriteBlock, Stage, Idle, Reading, Writing, Payload, Ready
  <2> QED
    BY <1>0, <2>1, <2>2, AsideKeeps
<1>2. CASE Goto(p, "payload") /\ sub' = [sub EXCEPT ![p] = New(File, TRUE)]
           /\ UNCHANGED tmp
  <2>0. Begun(target[p], shape[p], tmp[p])
        /\ kind[p] \in {"create", "save", "split"}
           /\ tmp[p].done < Len(Layout[target[p]][shape[p]])
              /\ NextOf(target[p], shape[p], tmp[p]) \in Block
    BY <1>2, Values, WriteFacts DEF WriteBlock, Progress, Stage, Idle, Reading,
       Writing, Payload, Ready, NextItem, IsPart, NextOf
  <2>1. MoveTo(p, "payload", tmp[p], New(File, TRUE))
    BY <1>2, Values DEF WriteBlock, Goto, MoveTo, New, Entry
  <2>2. /\ Progress("payload", kind[p], target[p], shape[p], tmp[p], New(File,
                TRUE))
        /\ "payload" \in Stage /\ tmp[p] \in Aside /\ New(File, TRUE) \in Aside
    BY <1>2, Values, <2>0, StoreAssumption
       DEF WriteBlock, Progress, Stage, Idle, Reading, Writing, Payload, Ready,
                     Aside, New, Entry
  <2> QED
    BY <1>0, <2>1, <2>2, AsideKeeps
<1> QED
  BY <1>1, <1>2 DEF WriteBlock

LEMMA WritePayloadKeeps == ASSUME Inv, NEW p \in Proc,
              WritePayload(p) PROVE Inv'
<1>1. MoveTo(p, "payload check", tmp[p], Complete(NextItem(p).block, File))
  BY Values DEF WritePayload, Goto, MoveTo, NextItem, NextOf
<1>2. /\ Progress("payload check", kind[p], target[p], shape[p], tmp[p],
              Complete(NextItem(p).block, File))
      /\ "payload check" \in Stage /\ tmp[p] \in Aside
         /\ Complete(NextItem(p).block, File) \in Aside
  BY Values, FileFacts DEF WritePayload, Progress, Stage, Idle, Reading,
     Writing, Payload, Ready, Aside, NextItem, NextOf
<1>3. UNCHANGED <<diskVars, opVars>>
  BY DEF WritePayload
<1> QED
  BY <1>1, <1>2, <1>3, AsideKeeps

LEMMA CheckPayloadKeeps == ASSUME Inv, NEW p \in Proc,
              CheckPayload(p) PROVE Inv'
<1>0. UNCHANGED <<diskVars, opVars>>
  BY DEF CheckPayload
<1>1. CASE sub' = [sub EXCEPT ![p] = None] /\ tmp' = OneMore(p)
           /\ Goto(p, "write")
  <2>0. Begun(target[p], shape[p], tmp[p])
        /\ kind[p] \in {"create", "save", "split"}
           /\ tmp[p].done < Len(Layout[target[p]][shape[p]])
              /\ (kind[p] = "create" => tmp[p].good)
    BY <1>1, Values DEF CheckPayload, Progress, Stage, Idle, Reading, Writing,
       Payload, Ready
  <2>1. MoveTo(p, "write", [tmp[p] EXCEPT !.done = @ + 1], None)
    BY <1>1, Values DEF CheckPayload, Goto, MoveTo, OneMore
  <2>2. /\ Progress("write", kind[p], target[p], shape[p],
                [tmp[p] EXCEPT !.done = @ + 1], None)
        /\ "write" \in Stage /\ [tmp[p] EXCEPT !.done = @ + 1] \in Aside
           /\ None \in Aside
    BY <1>1, Values, <2>0, MoreProgress DEF CheckPayload, Stage, Idle, Reading,
       Writing, Payload, Ready
  <2> QED
    BY <1>0, <2>1, <2>2, AsideKeeps
<1>2. CASE Goto(p, "payload place") /\ UNCHANGED <<sub, tmp>>
  <2>1. MoveTo(p, "payload place", tmp[p], sub[p])
    BY <1>2, Values DEF CheckPayload, Goto, MoveTo
  <2>2. /\ Progress("payload place", kind[p], target[p], shape[p], tmp[p],
                sub[p])
        /\ "payload place" \in Stage /\ tmp[p] \in Aside /\ sub[p] \in Aside
    BY <1>2, Values DEF CheckPayload, Progress, Stage, Idle, Reading, Writing,
       Payload, Ready, Aside
  <2> QED
    BY <1>0, <2>1, <2>2, AsideKeeps
<1> QED
  BY <1>1, <1>2 DEF CheckPayload

LEMMA WriteRaisesKeeps == ASSUME Inv, NEW p \in Proc, WriteRaises(p) PROVE Inv'
<1>0. UNCHANGED <<diskVars, opVars>>
  BY DEF WriteRaises
<1>1. CASE Fail(p)
  BY <1>0, <1>1, FailKeeps
<1> QED
  BY <1>1 DEF WriteRaises

LEMMA VerifyKeeps == ASSUME Inv, NEW p \in Proc, Verify(p) PROVE Inv'
<1>0. UNCHANGED <<diskVars, opVars>>
  BY DEF Verify
<1>1. CASE tmp[p].good
           /\ Goto(p,
                         IF kind[p] = "save" THEN "check last" ELSE "step aside") /\ UNCHANGED <<tmp, sub>>
  <2>1. MoveTo(p, (IF kind[p] = "save" THEN "check last" ELSE "step aside"),
                tmp[p], sub[p])
    BY <1>1, Values DEF Verify, Goto, MoveTo
  <2>2. /\ Progress((IF kind[p] = "save" THEN "check last" ELSE "step aside"),
                kind[p], target[p], shape[p], tmp[p], sub[p])
        /\ (IF kind[p] = "save" THEN "check last" ELSE "step aside") \in Stage /\ tmp[p] \in Aside /\ sub[p] \in Aside
    BY <1>1, Values DEF Verify, Progress, Stage, Idle, Reading, Writing,
       Payload, Ready, Aside
  <2> QED
    BY <1>0, <2>1, <2>2, AsideKeeps
<1>2. CASE Fail(p)
  BY <1>0, <1>2, FailKeeps
<1> QED
  BY <1>1, <1>2 DEF Verify

LEMMA CheckLastKeeps == ASSUME Inv, NEW p \in Proc, CheckLast(p) PROVE Inv'
<1>0. UNCHANGED <<diskVars, opVars>>
  BY DEF CheckLast
<1>1. CASE Goto(p, "ok") /\ tmp' = [tmp EXCEPT ![p] = None] /\ UNCHANGED sub
  <2>1. MoveTo(p, "ok", None, sub[p])
    BY <1>1, Values DEF CheckLast, Goto, MoveTo
  <2>2. /\ Progress("ok", kind[p], target[p], shape[p], None, sub[p])
        /\ "ok" \in Stage /\ None \in Aside /\ sub[p] \in Aside
    BY <1>1, Values DEF CheckLast, Progress, Stage, Idle, Reading, Writing,
       Payload, Ready, Aside
  <2> QED
    BY <1>0, <2>1, <2>2, AsideKeeps
<1>2. CASE Goto(p, "place") /\ UNCHANGED <<tmp, sub>>
  <2>1. MoveTo(p, "place", tmp[p], sub[p])
    BY <1>2, Values DEF CheckLast, Goto, MoveTo
  <2>2. /\ Progress("place", kind[p], target[p], shape[p], tmp[p], sub[p])
        /\ "place" \in Stage /\ tmp[p] \in Aside /\ sub[p] \in Aside
    BY <1>2, Values DEF CheckLast, Progress, Stage, Idle, Reading, Writing,
       Payload, Ready, Aside
  <2> QED
    BY <1>0, <2>1, <2>2, AsideKeeps
<1> QED
  BY <1>1, <1>2 DEF CheckLast

LEMMA SplitReadKeeps == ASSUME Inv, NEW p \in Proc, SplitRead(p) PROVE Inv'
<1>0. Begun(target[p], shape[p], tmp[p])
  BY Values DEF SplitRead, Progress, Stage, Idle, Reading, Writing, Payload,
     Ready, Begun
<1>1. MoveTo(p, "write",
              [tmp[p] EXCEPT !.good = (got[p] = Content(target[p]))], sub[p])
  BY Values DEF SplitRead, Goto, MoveTo, Begun, Entry
<1>2. /\ Progress("write", kind[p], target[p], shape[p],
              [tmp[p] EXCEPT !.good = (got[p] = Content(target[p]))], sub[p])
      /\ "write" \in Stage
         /\ [tmp[p] EXCEPT !.good = (got[p] = Content(target[p]))] \in Aside
            /\ sub[p] \in Aside
  BY Values, <1>0 DEF SplitRead, Progress, Stage, Idle, Reading, Writing,
     Payload, Ready, Aside, Begun, Entry
<1>3. UNCHANGED <<diskVars, opVars>>
  BY DEF SplitRead
<1> QED
  BY <1>1, <1>2, <1>3, AsideKeeps

LEMMA DropOldKeeps == ASSUME Inv, NEW p \in Proc, DropOld(p) PROVE Inv'
<1>1. MoveTo(p, "ok", tmp[p], sub[p])
  BY Values DEF DropOld, Goto, MoveTo
<1>2. /\ Progress("ok", kind[p], target[p], shape[p], tmp[p], sub[p])
      /\ "ok" \in Stage /\ tmp[p] \in Aside /\ sub[p] \in Aside
  BY Values DEF DropOld, Progress, Stage, Idle, Reading, Writing, Payload,
     Ready, Aside
<1>3. UNCHANGED <<diskVars, opVars>>
  BY DEF DropOld
<1> QED
  BY <1>1, <1>2, <1>3, AsideKeeps

LEMMA OpenBlockKeeps == ASSUME Inv, NEW p \in Proc, OpenBlock(p) PROVE Inv'
<1>0. UNCHANGED <<diskVars, opVars>>
  BY DEF OpenBlock
<1>1. CASE Fail(p)
  BY <1>0, <1>1, FailKeeps
<1>2. CASE Goto(p, IF IsDirectory(final[target[p]]) THEN "list" ELSE "file")
           /\ UNCHANGED <<tmp, sub>>
  <2>1. MoveTo(p, (IF IsDirectory(final[target[p]]) THEN "list" ELSE "file"),
                tmp[p], sub[p])
    BY <1>2, Values DEF OpenBlock, Goto, MoveTo
  <2>2. /\ Progress((IF IsDirectory(final[target[p]]) THEN "list" ELSE "file"),
                kind[p], target[p], shape[p], tmp[p], sub[p])
        /\ (IF IsDirectory(final[target[p]]) THEN "list" ELSE "file") \in Stage /\ tmp[p] \in Aside /\ sub[p] \in Aside
    BY <1>2, Values DEF OpenBlock, Progress, Stage, Idle, Reading, Writing,
       Payload, Ready, Aside
  <2> QED
    BY <1>0, <2>1, <2>2, AsideKeeps
<1> QED
  BY <1>1, <1>2 DEF OpenBlock

LEMMA ReadFileKeeps == ASSUME Inv, NEW p \in Proc, ReadFile(p) PROVE Inv'
<1>1. MoveTo(p, "read", tmp[p], sub[p])
  BY Values DEF ReadFile, Goto, MoveTo
<1>2. /\ Progress("read", kind[p], target[p], shape[p], tmp[p], sub[p])
      /\ "read" \in Stage /\ tmp[p] \in Aside /\ sub[p] \in Aside
  BY Values DEF ReadFile, Progress, Stage, Idle, Reading, Writing, Payload,
     Ready, Aside
<1>3. UNCHANGED <<diskVars, opVars>>
  BY DEF ReadFile
<1> QED
  BY <1>1, <1>2, <1>3, AsideKeeps

LEMMA LoadListKeeps == ASSUME Inv, NEW p \in Proc, LoadList(p) PROVE Inv'
<1>0. UNCHANGED <<diskVars, opVars>>
  BY DEF LoadList
<1>1. CASE Goto(p, "items") /\ UNCHANGED <<tmp, sub>>
  <2>1. MoveTo(p, "items", tmp[p], sub[p])
    BY <1>1, Values DEF LoadList, Goto, MoveTo
  <2>2. /\ Progress("items", kind[p], target[p], shape[p], tmp[p], sub[p])
        /\ "items" \in Stage /\ tmp[p] \in Aside /\ sub[p] \in Aside
    BY <1>1, Values DEF LoadList, Progress, Stage, Idle, Reading, Writing,
       Payload, Ready, Aside
  <2> QED
    BY <1>0, <2>1, <2>2, AsideKeeps
<1>2. CASE Fail(p)
  BY <1>0, <1>2, FailKeeps
<1> QED
  BY <1>1, <1>2 DEF LoadList

LEMMA ReadPartKeeps == ASSUME Inv, NEW p \in Proc, ReadPart(p) PROVE Inv'
<1>1. MoveTo(p, "items", tmp[p], sub[p])
  BY Values DEF ReadPart, Goto, MoveTo
<1>2. /\ Progress("items", kind[p], target[p], shape[p], tmp[p], sub[p])
      /\ "items" \in Stage /\ tmp[p] \in Aside /\ sub[p] \in Aside
  BY Values DEF ReadPart, Progress, Stage, Idle, Reading, Writing, Payload,
     Ready, Aside
<1>3. UNCHANGED <<diskVars, opVars>>
  BY DEF ReadPart
<1> QED
  BY <1>1, <1>2, <1>3, AsideKeeps

LEMMA OpenNestedKeeps == ASSUME Inv, NEW p \in Proc, OpenNested(p) PROVE Inv'
<1>0. UNCHANGED <<diskVars, opVars>>
  BY DEF OpenNested
<1>1. CASE Goto(p, "nested") /\ UNCHANGED <<tmp, sub>>
  <2>1. MoveTo(p, "nested", tmp[p], sub[p])
    BY <1>1, Values DEF OpenNested, Goto, MoveTo
  <2>2. /\ Progress("nested", kind[p], target[p], shape[p], tmp[p], sub[p])
        /\ "nested" \in Stage /\ tmp[p] \in Aside /\ sub[p] \in Aside
    BY <1>1, Values DEF OpenNested, Progress, Stage, Idle, Reading, Writing,
       Payload, Ready, Aside
  <2> QED
    BY <1>0, <2>1, <2>2, AsideKeeps
<1>2. CASE Fail(p)
  BY <1>0, <1>2, FailKeeps
<1> QED
  BY <1>1, <1>2 DEF OpenNested

LEMMA ReadNestedKeeps == ASSUME Inv, NEW p \in Proc, ReadNested(p) PROVE Inv'
<1>1. MoveTo(p, "items", tmp[p], sub[p])
  BY Values DEF ReadNested, Goto, MoveTo
<1>2. /\ Progress("items", kind[p], target[p], shape[p], tmp[p], sub[p])
      /\ "items" \in Stage /\ tmp[p] \in Aside /\ sub[p] \in Aside
  BY Values DEF ReadNested, Progress, Stage, Idle, Reading, Writing, Payload,
     Ready, Aside
<1>3. UNCHANGED <<diskVars, opVars>>
  BY DEF ReadNested
<1> QED
  BY <1>1, <1>2, <1>3, AsideKeeps

LEMMA ReadEndsKeeps == ASSUME Inv, NEW p \in Proc, ReadEnds(p) PROVE Inv'
<1>1. MoveTo(p, "read", tmp[p], sub[p])
  BY Values DEF ReadEnds, Goto, MoveTo
<1>2. /\ Progress("read", kind[p], target[p], shape[p], tmp[p], sub[p])
      /\ "read" \in Stage /\ tmp[p] \in Aside /\ sub[p] \in Aside
  BY Values DEF ReadEnds, Progress, Stage, Idle, Reading, Writing, Payload,
     Ready, Aside
<1>3. UNCHANGED <<diskVars, opVars>>
  BY DEF ReadEnds
<1> QED
  BY <1>1, <1>2, <1>3, AsideKeeps

LEMMA CopyEndsKeeps == ASSUME Inv, NEW p \in Proc, CopyEnds(p) PROVE Inv'
<1>0. UNCHANGED <<diskVars, opVars>>
  BY DEF CopyEnds
<1>1. CASE Goto(p, "ok") /\ UNCHANGED <<tmp, sub>>
  <2>1. MoveTo(p, "ok", tmp[p], sub[p])
    BY <1>1, Values DEF CopyEnds, Goto, MoveTo
  <2>2. /\ Progress("ok", kind[p], target[p], shape[p], tmp[p], sub[p])
        /\ "ok" \in Stage /\ tmp[p] \in Aside /\ sub[p] \in Aside
    BY <1>1, Values DEF CopyEnds, Progress, Stage, Idle, Reading, Writing,
       Payload, Ready, Aside
  <2> QED
    BY <1>0, <2>1, <2>2, AsideKeeps
<1>2. CASE Fail(p)
  BY <1>0, <1>2, FailKeeps
<1> QED
  BY <1>1, <1>2 DEF CopyEnds

LEMMA CrashKeeps == ASSUME Inv, NEW p \in Proc, Crash(p) PROVE Inv'
<1>1. MoveTo(p, "dead", tmp[p], sub[p])
  BY Values DEF Crash, Goto, MoveTo
<1>2. /\ Progress("dead", kind[p], target[p], shape[p], tmp[p], sub[p])
      /\ "dead" \in Stage /\ tmp[p] \in Aside /\ sub[p] \in Aside
  BY Values DEF Crash, Progress, Stage, Idle, Reading, Writing, Payload, Ready,
     Aside
<1>3. UNCHANGED <<diskVars, opVars>>
  BY DEF Crash
<1> QED
  BY <1>1, <1>2, <1>3, AsideKeeps

(* The three renames onto a block's path, and the one from it.              *)

LEMMA PlaceKeeps == ASSUME Inv, NEW p \in Proc, Place(p) PROVE Inv'
<1>1. target[p] \in Block /\ tmp[p] \in Entry /\ Whole(target[p], tmp[p])
  BY Values DEF Place, Progress, Writing, Ready, Begun, Whole
<1>2. CASE Fail(p) /\ UNCHANGED diskVars
  BY <1>2, FailKeeps DEF Place
<1>3. CASE /\ PutAt(target[p], tmp[p])
           /\ tmp' = [tmp EXCEPT ![p] = None]
           /\ Goto(p, "ok")
           /\ UNCHANGED sub
  <2>1. MoveTo(p, "ok", None, sub[p])
    BY <1>3, Values DEF Goto, MoveTo
  <2>2. final' \in [Block -> Aside] /\ FinalsWhole'
    BY <1>1, <1>3, PutFacts
  <2>3. Progress("ok", kind[p], target[p], shape[p], None, sub[p])
        /\ "ok" \in Stage
    BY OverFacts DEF Over
  <2>4. UNCHANGED opVars
    BY DEF Place
  <2> QED
    BY <2>1, <2>2, <2>3, <2>4, Values, MoveKeeps
<1> QED
  BY <1>2, <1>3 DEF Place

LEMMA SwapInKeeps == ASSUME Inv, NEW p \in Proc, SwapIn(p) PROVE Inv'
<1>1. target[p] \in Block /\ tmp[p] \in Entry /\ Whole(target[p], tmp[p])
  BY Values DEF SwapIn, Progress, Writing, Ready, Begun, Whole
<1>2. CASE Fail(p) /\ UNCHANGED diskVars
  BY <1>2, FailKeeps DEF SwapIn
<1>3. CASE /\ PutAt(target[p], tmp[p])
           /\ tmp' = [tmp EXCEPT ![p] = None]
           /\ Goto(p, "drop")
           /\ UNCHANGED sub
  <2>1. MoveTo(p, "drop", None, sub[p])
    BY <1>3, Values DEF Goto, MoveTo
  <2>2. final' \in [Block -> Aside] /\ FinalsWhole'
    BY <1>1, <1>3, PutFacts
  <2>3. Progress("drop", kind[p], target[p], shape[p], None, sub[p])
        /\ "drop" \in Stage
    BY OverFacts DEF Over
  <2>4. UNCHANGED opVars
    BY DEF SwapIn
  <2> QED
    BY <2>1, <2>2, <2>3, <2>4, Values, MoveKeeps
<1> QED
  BY <1>2, <1>3 DEF SwapIn

LEMMA PlacePayloadKeeps == ASSUME Inv, NEW p \in Proc,
              PlacePayload(p) PROVE Inv'
<1> DEFINE b == NextItem(p).block
           more == [tmp[p] EXCEPT !.done = @ + 1]
<1>1. /\ b \in Block /\ sub[p] = Complete(b, File)
      /\ Begun(target[p], shape[p], tmp[p])
      /\ tmp[p].done < Len(Layout[target[p]][shape[p]])
      /\ kind[p] \in {"create", "save", "split"}
         /\ (kind[p] = "create" => tmp[p].good)
  BY Values DEF PlacePayload, Progress, Writing, Payload, NextItem, NextOf
<1>2. sub[p] \in Entry /\ Whole(b, sub[p])
  BY <1>1, FileFacts DEF Whole
<1>3. CASE Fail(p) /\ UNCHANGED diskVars
  BY <1>3, FailKeeps DEF PlacePayload
<1>4. CASE /\ PutAt(b, sub[p])
           /\ sub' = [sub EXCEPT ![p] = None]
           /\ tmp' = OneMore(p)
           /\ Goto(p, "write")
  <2>1. MoveTo(p, "write", more, None)
    BY <1>4 DEF Goto, MoveTo, OneMore
  <2>2. final' \in [Block -> Aside] /\ FinalsWhole'
    BY <1>1, <1>2, <1>4, PutFacts
  <2>3. Progress("write", kind[p], target[p], shape[p], more, None)
        /\ more \in Aside
    BY <1>1, MoreProgress
  <2>4. UNCHANGED opVars /\ "write" \in Stage
    BY DEF PlacePayload, Stage, Writing
  <2> QED
    BY <2>1, <2>2, <2>3, <2>4, Values, MoveKeeps
<1> QED
  BY <1>3, <1>4 DEF PlacePayload

LEMMA StepAsideKeeps == ASSUME Inv, NEW p \in Proc, StepAside(p) PROVE Inv'
<1>1. target[p] \in Block
  BY Values DEF StepAside, Progress, Writing, Ready, Begun
<1>2. CASE Fail(p) /\ UNCHANGED diskVars
  BY <1>2, FailKeeps DEF StepAside
<1>3. CASE /\ final' = [final EXCEPT ![target[p]] = None]
           /\ Goto(p, "swap")
           /\ UNCHANGED <<tmp, sub>>
  <2>1. MoveTo(p, "swap", tmp[p], sub[p])
    BY <1>3, Values DEF Goto, MoveTo
  <2>2. final' \in [Block -> Aside] /\ FinalsWhole'
    BY <1>1, <1>3, GoneFacts
  <2>3. Progress("swap", kind[p], target[p], shape[p], tmp[p], sub[p])
        /\ "swap" \in Stage
    BY Values DEF StepAside, Progress, Stage, Idle, Reading, Writing, Payload,
       Ready
  <2>4. UNCHANGED opVars
    BY DEF StepAside
  <2> QED
    BY <2>1, <2>2, <2>3, <2>4, Values, MoveKeeps
<1> QED
  BY <1>2, <1>3 DEF StepAside

-----------------------------------------------------------------------------
(* The starts of the operations.                                            *)

LEMMA BeginKeeps ==
  ASSUME Inv, NEW p \in Proc, NEW stage \in Stage, NEW t \in Aside,
         NEW k \in {"create", "save", "split", "copy"}, NEW b \in Block,
                       NEW s \in Shape,
         Begin(p, k, b, s, stage), tmp' = [tmp EXCEPT ![p] = t],
                       UNCHANGED <<diskVars, sub>>,
         Progress(stage, k, b, s, t, sub[p])
  PROVE  Inv'
<1>1. MoveTo(p, stage, t, sub[p]) /\ Start(p, k, b, s)
  BY Values DEF Begin, Goto, MoveTo, Start
<1>2. final' \in [Block -> Aside] /\ FinalsWhole'
  BY DEF Inv, Types, diskVars, FinalsWhole, Exists
<1>3. b \in Block \cup {None}
      /\ k \in {"create", "save", "split", "copy", None} /\ sub[p] \in Aside
  BY Values
<1> QED
  BY <1>1, <1>2, <1>3, StartKeeps

LEMMA BeginCreateKeeps ==
  ASSUME Inv, NEW p \in Proc, NEW b \in Block, BeginCreate(p, b) PROVE Inv'
<1>1. Begin(p, "create", b, File, "check") /\ UNCHANGED <<diskVars, sub>>
      /\ tmp' = [tmp EXCEPT ![p] = tmp[p]]
  BY Values DEF BeginCreate
<1>2. "check" \in Stage /\ File \in Shape /\ tmp[p] \in Aside
  BY Values, StoreAssumption DEF Stage
<1>3. Progress("check", "create", b, File, tmp[p], sub[p])
  BY DEF Progress, Reading, Writing, Payload, Ready
<1> QED
  BY <1>1, <1>2, <1>3, BeginKeeps

LEMMA BeginCopyKeeps ==
  ASSUME Inv, NEW p \in Proc, NEW b \in Block, BeginCopy(p, b) PROVE Inv'
<1> DEFINE s == IF Exists(b) THEN final[b].shape ELSE File
<1>1. Begin(p, "copy", b, s, "open") /\ UNCHANGED <<diskVars, sub>>
      /\ tmp' = [tmp EXCEPT ![p] = tmp[p]]
  BY Values DEF BeginCopy
<1>2. "open" \in Stage /\ s \in Shape /\ tmp[p] \in Aside
  BY Values, StoreAssumption DEF Stage, Reading, Inv, Types, Aside, Entry,
     Exists
<1>3. Progress("open", "copy", b, s, tmp[p], sub[p])
  BY DEF Progress, Reading, Writing, Payload, Ready
<1> QED
  BY <1>1, <1>2, <1>3, BeginKeeps

LEMMA BeginSaveKeeps ==
  ASSUME Inv, NEW p \in Proc, NEW b \in Block, NEW s \in DOMAIN Layout[b],
                BeginSave(p, b, s)
  PROVE  Inv'
<1>1. PICK good \in BOOLEAN : tmp' = [tmp EXCEPT ![p] = New(s, good)]
  BY DEF BeginSave
<1>2. Begin(p, "save", b, s, "write") /\ UNCHANGED <<diskVars, sub>>
  BY DEF BeginSave
<1>3. Begun(b, s, New(s, good)) /\ New(s, good) \in Aside
  BY NewFacts DEF Aside
<1>4. Progress("write", "save", b, s, New(s, good), sub[p])
  BY <1>3 DEF Progress, Reading, Writing, Payload, Ready
<1>5. "write" \in Stage /\ s \in Shape
  BY FormFacts DEF Stage, Writing
<1> QED
  BY <1>1, <1>2, <1>3, <1>4, <1>5, BeginKeeps

LEMMA BeginSplitKeeps ==
  ASSUME Inv, NEW p \in Proc, NEW b \in Block, NEW s \in DOMAIN Layout[b],
                BeginSplit(p, b, s)
  PROVE  Inv'
<1>1. /\ Begin(p, "split", b, s, "open") /\ UNCHANGED <<diskVars, sub>>
      /\ tmp' = [tmp EXCEPT ![p] = New(s, TRUE)]
  BY DEF BeginSplit
<1>2. Begun(b, s, New(s, TRUE)) /\ New(s, TRUE).good /\ New(s, TRUE) \in Aside
  BY NewFacts DEF Aside
<1>3. Progress("open", "split", b, s, New(s, TRUE), sub[p])
  BY <1>2 DEF Progress, Reading, Writing, Payload, Ready
<1>4. "open" \in Stage /\ s \in Shape
  BY FormFacts DEF Stage, Reading
<1> QED
  BY <1>1, <1>2, <1>3, <1>4, BeginKeeps

LEMMA RemovalKeeps ==
  ASSUME Inv, NEW b \in Block, RemoveBlock(b) \/ RemovalEnds(b) PROVE Inv'
<1>1. UNCHANGED <<pc, opVars, tmp, sub>>
  BY DEF RemoveBlock, RemovalEnds
<1>2. final' = final \/ final' = [final EXCEPT ![b] = None]
  BY DEF RemoveBlock, RemovalEnds
<1>3. final' \in [Block -> Aside] /\ FinalsWhole'
  BY <1>2, GoneFacts DEF Inv, Types, FinalsWhole, Exists
<1> QED
  BY <1>1, <1>3 DEF Inv, Types, ProcInv, opVars

-----------------------------------------------------------------------------

LEMMA InitInv == Init => Inv
<1> SUFFICES ASSUME Init PROVE Inv
  OBVIOUS
<1>1. PICK form \in [Block -> Shape \cup {None}] :
        /\ \A b \in Block : form[b] \in DOMAIN Layout[b] \cup {None}
        /\ final = [b \in Block |->
                     IF form[b] = None THEN None ELSE Complete(b, form[b])]
  BY DEF Init
<1>2. ASSUME NEW b \in Block, NEW s \in DOMAIN Layout[b]
      PROVE  Complete(b, s) \in Entry /\ Whole(b, Complete(b, s))
  BY FormFacts DEF Complete, Entry, Whole
<1>3. ASSUME NEW b \in Block, form[b] # None
      PROVE  final[b] \in Entry /\ Whole(b, final[b])
  <2>1. form[b] \in DOMAIN Layout[b] /\ final[b] = Complete(b, form[b])
    BY <1>1, <1>3
  <2> QED
    BY <1>2, <2>1
<1>4. \A b \in Block : form[b] = None => final[b] = None
  BY <1>1
<1>5. FinalsWhole /\ final \in [Block -> Aside]
  BY <1>1, <1>3, <1>4 DEF FinalsWhole, Exists, Aside
<1>6. Types
  BY <1>5, StoreAssumption DEF Init, Types, Stage, Idle, Aside
<1>7. ASSUME NEW p \in Proc PROVE ProcInv(p)
  BY OverFacts DEF Init, ProcInv, Over
<1> QED
  BY <1>5, <1>6, <1>7 DEF Inv

LEMMA NextInv == Inv /\ [Next]_vars => Inv'
<1> SUFFICES ASSUME Inv, [Next]_vars PROVE Inv'
  OBVIOUS
<1>1. ASSUME NEW p \in Proc, Starts(p) PROVE Inv'
  BY <1>1, BeginCreateKeeps, BeginCopyKeeps, BeginSaveKeeps, BeginSplitKeeps
     DEF Starts
<1>2. ASSUME NEW p \in Proc, Writes(p) PROVE Inv'
  BY <1>2, CreateCheckKeeps, CreateCheckAgainKeeps, WritePartKeeps,
     WriteBlockKeeps,
     WriteEndsKeeps, WriteRaisesKeeps, WritePayloadKeeps, CheckPayloadKeeps,
     PlacePayloadKeeps, VerifyKeeps, CheckLastKeeps, PlaceKeeps, SplitReadKeeps,
     StepAsideKeeps, SwapInKeeps, DropOldKeeps DEF Writes
<1>3. ASSUME NEW p \in Proc, Reads(p) PROVE Inv'
  BY <1>3, OpenBlockKeeps, ReadFileKeeps, LoadListKeeps, ReadPartKeeps,
     OpenNestedKeeps,
     ReadNestedKeeps, ReadEndsKeeps, CopyEndsKeeps DEF Reads
<1>4. ASSUME NEW p \in Proc, Crash(p) PROVE Inv'
  BY <1>4, CrashKeeps
<1>5. ASSUME NEW b \in Block, RemoveBlock(b) \/ RemovalEnds(b) PROVE Inv'
  BY <1>5, RemovalKeeps
<1>6. CASE UNCHANGED vars
  BY <1>6 DEF vars, diskVars, opVars, Inv, Types, ProcInv, FinalsWhole, Exists
<1> QED
  BY <1>1, <1>2, <1>3, <1>4, <1>5, <1>6 DEF Next

(* A block's path never holds less than the whole of a form of the block,   *)
(* from the bytes its id names, for any number of processes, removals and   *)
(* crashes (copy_to_block_dir, save_block_content, split_block).            *)
THEOREM BlocksAreWhole == Spec => []FinalWhole
<1>1. Inv => FinalWhole
  BY DEF Inv, FinalsWhole, FinalWhole
<1> QED
  BY <1>1, InitInv, NextInv, PTL DEF Spec

-----------------------------------------------------------------------------
(* The refinement.  Only the renames and the removals touch the blocks.     *)

Abs == [b \in Block |-> IF Exists(b) /\ b \notin removing
                          THEN final[b].shape ELSE None]

LEMMA AbsFacts == ASSUME Inv PROVE Abs \in [Block -> Shape \cup {None}]
BY DEF Abs, Inv, Types, Aside, Entry, Exists

LEMMA StaysAbs == ASSUME UNCHANGED diskVars PROVE Abs' = Abs
BY DEF Abs, diskVars, Exists

(* What comes to a path stores the block, or is a file in place of a file.  *)
LEMMA PutIsStore ==
  ASSUME Inv, NEW b \in Block, NEW e \in Entry, PutAt(b, e), Replaces(e, b)
  PROVE  [Atomic!Next]_Abs
<1>1. e.shape \in Shape /\ e # None
  BY StoreAssumption DEF Entry
<1>2. Abs' = [Abs EXCEPT ![b] = e.shape]
  BY <1>1 DEF Abs, PutAt, Exists, Inv, Types
<1>3. CASE Abs[b] = None
  <2>1. Atomic!Store(b, e.shape)
    BY <1>2, <1>3 DEF Atomic!Store, Abs
  <2> QED
    BY <1>1, <2>1 DEF Atomic!Next
<1>4. CASE Abs[b] # None
  <2>1. Exists(b) /\ b \notin removing /\ Abs[b] = final[b].shape
    BY <1>4 DEF Abs
  <2>2. e.shape = File /\ final[b].shape = File
    BY <1>1, <2>1 DEF Replaces, IsDirectory, Exists
  <2>3. Abs' = Abs
    BY <1>2, <2>1, <2>2, AbsFacts
  <2> QED
    BY <2>3
<1> QED
  BY <1>3, <1>4

(* What goes from a path, or begins to, takes the block away.               *)
LEMMA GoneIsTakeAway ==
  ASSUME Inv, NEW b \in Block, Abs' = [Abs EXCEPT ![b] = None]
  PROVE  [Atomic!Next]_Abs
<1>1. CASE Abs[b] = None
  BY <1>1, AbsFacts
<1>2. CASE Abs[b] # None
  <2>1. Atomic!TakeAway(b)
    BY <1>2 DEF Atomic!TakeAway, Abs
  <2> QED
    BY <2>1 DEF Atomic!Next
<1> QED
  BY <1>1, <1>2

LEMMA StepIsAtomic == Inv /\ [Next]_vars => [Atomic!Next]_Abs
<1> SUFFICES ASSUME Inv, [Next]_vars PROVE [Atomic!Next]_Abs
  OBVIOUS
<1>1. CASE UNCHANGED diskVars
  BY <1>1, StaysAbs
<1>2. ASSUME NEW p \in Proc, Place(p), ~UNCHANGED diskVars PROVE [Atomic!Next]_Abs
  <2>1. target[p] \in Block /\ tmp[p] \in Entry
    BY <1>2, Values DEF Place, Progress, Writing, Ready, Begun
  <2> QED
    BY <1>2, <2>1, PutIsStore DEF Place
<1>3. ASSUME NEW p \in Proc, SwapIn(p), ~UNCHANGED diskVars PROVE [Atomic!Next]_Abs
  <2>1. target[p] \in Block /\ tmp[p] \in Entry
    BY <1>3, Values DEF SwapIn, Progress, Writing, Ready, Begun
  <2> QED
    BY <1>3, <2>1, PutIsStore DEF SwapIn
<1>4. ASSUME NEW p \in Proc, PlacePayload(p), ~UNCHANGED diskVars
      PROVE  [Atomic!Next]_Abs
  <2>1. NextItem(p).block \in Block /\ sub[p] = Complete(NextItem(p).block, File)
    BY <1>4, Values
       DEF PlacePayload, Progress, Writing, Payload, NextItem, NextOf
  <2>2. sub[p] \in Entry
    BY <2>1, FileFacts
  <2> QED
    BY <1>4, <2>1, <2>2, PutIsStore DEF PlacePayload
<1>5. ASSUME NEW p \in Proc, StepAside(p), ~UNCHANGED diskVars PROVE [Atomic!Next]_Abs
  <2>1. target[p] \in Block
    BY <1>5, Values DEF StepAside, Progress, Writing, Ready, Begun
  <2>2. Abs' = [Abs EXCEPT ![target[p]] = None]
    BY <1>5, <2>1 DEF StepAside, Abs, Exists, Inv, Types
  <2> QED
    BY <2>1, <2>2, GoneIsTakeAway
<1>6. ASSUME NEW b \in Block, RemoveBlock(b) \/ RemovalEnds(b) PROVE [Atomic!Next]_Abs
  <2>1. Abs' = [Abs EXCEPT ![b] = None]
    BY <1>6 DEF RemoveBlock, RemovalEnds, Abs, Exists, Inv, Types
  <2> QED
    BY <2>1, GoneIsTakeAway
<1>7. ASSUME NEW p \in Proc, Writes(p), ~UNCHANGED diskVars
      PROVE  Place(p) \/ SwapIn(p) \/ PlacePayload(p) \/ StepAside(p)
  BY <1>7 DEF Writes, CreateCheck, CreateCheckAgain, WritePart, WriteBlock,
     WriteEnds, WriteRaises, WritePayload, CheckPayload, Verify, CheckLast,
     SplitRead, DropOld
<1>8. ASSUME NEW p \in Proc, Reads(p) \/ Crash(p) PROVE UNCHANGED diskVars
  BY <1>8 DEF Reads, OpenBlock, ReadFile, LoadList, ReadPart, OpenNested,
     ReadNested, ReadEnds, CopyEnds, Crash
<1>9. ASSUME NEW p \in Proc, Starts(p) PROVE UNCHANGED diskVars
  BY <1>9 DEF Starts, BeginCreate, BeginCopy, BeginSave, BeginSplit
<1>10. UNCHANGED vars => UNCHANGED diskVars
  BY DEF vars
<1> QED
  BY <1>1, <1>2, <1>3, <1>4, <1>5, <1>6, <1>7, <1>8, <1>9, <1>10 DEF Next

(* To whoever looks at the block directory the operations, however their    *)
(* accesses interleave and wherever a process dies, are steps of an         *)
(* AtomicStore (create_block, save_block_content, split_block, removal).    *)
THEOREM DirectoryIsAtomicStore == Spec => IsAtomicStore
<1>1. Inv => Abs \in [Block -> Shape \cup {None}]
  BY AbsFacts
<1>2. Init => Atomic!Init
  BY <1>1, InitInv DEF Atomic!Init, Abs
<1>3. Inv /\ [Next]_vars => [Atomic!Next]_Abs
  BY StepIsAtomic
<1> QED
  BY <1>2, <1>3, InitInv, NextInv, PTL DEF Spec, IsAtomicStore, Atomic!Spec, Abs

-----------------------------------------------------------------------------
(***************************************************************************)
(* NoLitter, for any processes, blocks and forms, and any number of        *)
(* removals and crashes.  It speaks of operations that are over, and is    *)
(* not inductive: what is left depends on what each stage had beside the   *)
(* blocks, and on which operation gets to which stage.                     *)
(***************************************************************************)

(* What a process that does k has beside the blocks, at a stage: t of its   *)
(* target, u of a payload, o put aside.                                     *)
Beside(stage, k, t, u, o) ==
    /\ stage = "verify" => k # "create"
    /\ stage \in {"step aside", "swap", "drop"} => k = "split"
    /\ stage \in Idle \cup {"check", "check again", "drop"} => t = None
    /\ stage \in Reading /\ k = "copy" => t = None
    /\ stage \notin Payload \cup {"dead"} => u = None
    /\ o # None => k = "split" /\ stage \in {"swap", "drop", "failed", "dead"}

BesideInv ==
    /\ old \in [Proc -> Aside]
    /\ \A p \in Proc : Beside(pc[p], kind[p], tmp[p], sub[p], old[p])

LEMMA BesideInit == Init => BesideInv
BY DEF Init, BesideInv, Beside, Idle, Reading, Payload, Aside

(* Only the process that steps changes what it has beside the blocks.       *)
OthersAlone(p) ==
    \A q \in Proc \ {p} :
        /\ pc'[q] = pc[q] /\ kind'[q] = kind[q]
        /\ tmp'[q] = tmp[q] /\ sub'[q] = sub[q] /\ old'[q] = old[q]

LEMMA OnlyOwn ==
  ASSUME BesideInv, NEW p \in Proc, OthersAlone(p), old' \in [Proc -> Aside],
         Beside(pc'[p], kind'[p], tmp'[p], sub'[p], old'[p])
  PROVE  BesideInv'
<1>1. ASSUME NEW q \in Proc
      PROVE  Beside(pc'[q], kind'[q], tmp'[q], sub'[q], old'[q])
  <2>1. CASE q = p
    BY <2>1
  <2>2. CASE q # p
    <3>1. Beside(pc[q], kind[q], tmp[q], sub[q], old[q])
      BY DEF BesideInv
    <3> QED
      BY <2>2, <3>1 DEF OthersAlone
  <2> QED
    BY <2>1, <2>2
<1> QED
  BY <1>1 DEF BesideInv

LEMMA FailLeavesNothing ==
  ASSUME Inv, BesideInv, NEW p \in Proc, Fail(p),
         UNCHANGED <<kind, old>>, old[p] = None \/ pc[p] = "swap"
  PROVE  BesideInv'
<1>1. pc'[p] = "failed" /\ tmp'[p] = None /\ sub'[p] = None
  BY DEF Fail, Goto, Inv, Types
<1>2. Beside(pc[p], kind[p], tmp[p], sub[p], old[p])
  BY DEF BesideInv
<1>3. old[p] # None => kind[p] = "split"
  BY <1>2 DEF Beside
<1>4. Beside("failed", kind[p], None, None, old[p])
  BY <1>3 DEF Beside, Idle, Reading, Payload
<1>5. OthersAlone(p) /\ old' \in [Proc -> Aside]
  BY DEF OthersAlone, Fail, Goto, Inv, Types, BesideInv
<1> QED
  BY <1>1, <1>4, <1>5, OnlyOwn

LEMMA Own ==
  ASSUME Inv, BesideInv, NEW p \in Proc
  PROVE  Beside(pc[p], kind[p], tmp[p], sub[p], old[p])
BY DEF BesideInv

-----------------------------------------------------------------------------
(* The actions.                                                             *)

LEMMA StartsBeside ==
  ASSUME Inv, BesideInv, NEW p \in Proc, Starts(p)
  PROVE  BesideInv'
<1>0. pc[p] = "idle" => tmp[p] = None /\ sub[p] = None /\ old[p] = None
  BY Own DEF Beside, Idle, Payload
<1>1. ASSUME NEW b \in Block, BeginCreate(p, b)
      PROVE  BesideInv'
  <2>1. /\ pc[p] = "idle" /\ pc'[p] = "check" /\ kind'[p] = "create"
        /\ sub' = sub /\ old' = old
    BY <1>1 DEF BeginCreate, Begin, Goto, Inv, Types
  <2>2. Beside("check", "create", tmp'[p], sub'[p], old'[p])
    BY <1>0, <1>1, <2>1 DEF BeginCreate, Beside, Idle, Reading, Payload
  <2>3. OthersAlone(p) /\ old' \in [Proc -> Aside]
    BY <1>1, Values DEF OthersAlone, BeginCreate, Begin, Goto,
       Inv, Types, BesideInv
  <2> QED
    BY <2>1, <2>2, <2>3, OnlyOwn
<1>2. ASSUME NEW b \in Block, BeginCopy(p, b)
      PROVE  BesideInv'
  <2>1. /\ pc[p] = "idle" /\ pc'[p] = "open" /\ kind'[p] = "copy"
        /\ sub' = sub /\ old' = old
    BY <1>2 DEF BeginCopy, Begin, Goto, Inv, Types
  <2>2. Beside("open", "copy", tmp'[p], sub'[p], old'[p])
    BY <1>0, <1>2, <2>1 DEF BeginCopy, Beside, Idle, Reading, Payload
  <2>3. OthersAlone(p) /\ old' \in [Proc -> Aside]
    BY <1>2, Values DEF OthersAlone, BeginCopy, Begin, Goto,
       Inv, Types, BesideInv
  <2> QED
    BY <2>1, <2>2, <2>3, OnlyOwn
<1>3. ASSUME NEW b \in Block, NEW s \in DOMAIN Layout[b], BeginSave(p, b, s)
      PROVE  BesideInv'
  <2>1. /\ pc[p] = "idle" /\ pc'[p] = "write" /\ kind'[p] = "save"
        /\ sub' = sub /\ old' = old
    BY <1>3 DEF BeginSave, Begin, Goto, Inv, Types
  <2>2. Beside("write", "save", tmp'[p], sub'[p], old'[p])
    BY <1>0, <2>1 DEF Beside, Idle, Reading, Payload
  <2>3. OthersAlone(p) /\ old' \in [Proc -> Aside]
    BY <1>3, Values DEF OthersAlone, BeginSave, Begin, Goto,
       Inv, Types, BesideInv
  <2> QED
    BY <2>1, <2>2, <2>3, OnlyOwn
<1>4. ASSUME NEW b \in Block, NEW s \in DOMAIN Layout[b], BeginSplit(p, b, s)
      PROVE  BesideInv'
  <2>1. /\ pc[p] = "idle" /\ pc'[p] = "open" /\ kind'[p] = "split"
        /\ sub' = sub /\ old' = old
    BY <1>4 DEF BeginSplit, Begin, Goto, Inv, Types
  <2>2. Beside("open", "split", tmp'[p], sub'[p], old'[p])
    BY <1>0, <2>1 DEF Beside, Idle, Reading, Payload
  <2>3. OthersAlone(p) /\ old' \in [Proc -> Aside]
    BY <1>4, Values DEF OthersAlone, BeginSplit, Begin, Goto,
       Inv, Types, BesideInv
  <2> QED
    BY <2>1, <2>2, <2>3, OnlyOwn
<1> QED
  BY <1>1, <1>2, <1>3, <1>4 DEF Starts

LEMMA WritesBeside ==
  ASSUME Inv, BesideInv, NEW p \in Proc, Writes(p)
  PROVE  BesideInv'
<1>1. CASE CreateCheck(p)
  <2>1. Beside(pc'[p], kind'[p], tmp'[p], sub'[p], old'[p])
    BY <1>1, Own, Values
       DEF CreateCheck, Beside, Goto, Inv, Types, opVars, Idle, Reading,
          Payload, BesideInv
  <2>2. OthersAlone(p) /\ old' \in [Proc -> Aside]
    BY <1>1, Values DEF OthersAlone, CreateCheck, Goto, opVars, Inv,
       Types, BesideInv
  <2> QED
    BY <2>1, <2>2, OnlyOwn
<1>2. CASE CreateCheckAgain(p)
  <2>1. CASE Fail(p)
    <3>1. old[p] = None
      BY <1>2, Own DEF CreateCheckAgain, Beside, Idle
    <3>2. UNCHANGED <<kind, old>>
      BY <1>2, <2>1 DEF CreateCheckAgain, opVars, Fail, Goto
    <3> QED
      BY <2>1, <3>1, <3>2, FailLeavesNothing
  <2>2. CASE ~Fail(p)
    <3>1. /\ pc[p] = "check again" /\ UNCHANGED <<kind, sub, old>>
          /\ \/ pc' = [pc EXCEPT ![p] = "write"]
             \/ pc' = [pc EXCEPT ![p] = "place"]
          /\ \/ tmp' = [tmp EXCEPT ![p] = New(File, TRUE)]
             \/ tmp' = [tmp EXCEPT ![p] = Complete(target[p], File)]
      BY <1>2, <2>2 DEF CreateCheckAgain, Goto, opVars
    <3>2. Beside(pc'[p], kind'[p], tmp'[p], sub'[p], old'[p])
      BY <3>1, Own DEF Beside, Idle, Reading, Payload, Inv, Types
    <3>3. OthersAlone(p) /\ old' \in [Proc -> Aside]
      BY <3>1 DEF OthersAlone, Inv, Types, BesideInv
    <3> QED
      BY <3>2, <3>3, OnlyOwn
  <2> QED
    BY <2>1, <2>2
<1>3. CASE WritePart(p)
  <2>1. Beside(pc'[p], kind'[p], tmp'[p], sub'[p], old'[p])
    BY <1>3, Own, Values
       DEF WritePart, Beside, Goto, Inv, Types, opVars, Idle, Reading,
          Payload, BesideInv, OneMore
  <2>2. OthersAlone(p) /\ old' \in [Proc -> Aside]
    BY <1>3, Values DEF OthersAlone, WritePart, Goto, opVars, OneMore, Inv,
       Types, BesideInv
  <2> QED
    BY <2>1, <2>2, OnlyOwn
<1>4. CASE WriteBlock(p)
  <2>1. /\ pc[p] = "write" /\ UNCHANGED <<kind, old>>
        /\ \/ /\ tmp' = [tmp EXCEPT ![p].done = @ + 1]
              /\ UNCHANGED <<pc, sub>>
           \/ /\ pc' = [pc EXCEPT ![p] = "payload"] /\ tmp' = tmp
              /\ sub' = [sub EXCEPT ![p] = New(File, TRUE)]
    BY <1>4 DEF WriteBlock, OneMore, Goto, opVars
  <2>2. Beside(pc'[p], kind'[p], tmp'[p], sub'[p], old'[p])
    BY <2>1, Own DEF Beside, Idle, Reading, Payload, Inv, Types
  <2>3. OthersAlone(p) /\ old' \in [Proc -> Aside]
    BY <2>1 DEF OthersAlone, Inv, Types, BesideInv
  <2> QED
    BY <2>2, <2>3, OnlyOwn
<1>5. CASE WriteEnds(p)
  <2>1. Beside(pc'[p], kind'[p], tmp'[p], sub'[p], old'[p])
    BY <1>5, Own, Values
       DEF WriteEnds, Beside, Goto, Inv, Types, opVars, Idle, Reading,
          Payload, BesideInv
  <2>2. OthersAlone(p) /\ old' \in [Proc -> Aside]
    BY <1>5, Values DEF OthersAlone, WriteEnds, Goto, opVars, Inv,
       Types, BesideInv
  <2> QED
    BY <2>1, <2>2, OnlyOwn
<1>6. CASE WriteRaises(p)
  <2>1. old[p] = None
    BY <1>6, Own DEF WriteRaises, Beside
  <2> QED
    BY <1>6, <2>1, FailLeavesNothing DEF WriteRaises, opVars
<1>7. CASE WritePayload(p)
  <2>1. Beside(pc'[p], kind'[p], tmp'[p], sub'[p], old'[p])
    BY <1>7, Own, Values
       DEF WritePayload, Beside, Goto, Inv, Types, opVars, Idle, Reading,
          Payload, BesideInv
  <2>2. OthersAlone(p) /\ old' \in [Proc -> Aside]
    BY <1>7, Values DEF OthersAlone, WritePayload, Goto, opVars,
       Inv, Types, BesideInv
  <2> QED
    BY <2>1, <2>2, OnlyOwn
<1>8. CASE CheckPayload(p)
  <2>1. /\ pc[p] = "payload check" /\ pc'[p] \in {"write", "payload place"}
        /\ pc'[p] = "write" => sub'[p] = None
        /\ pc'[p] # "write" => sub'[p] = sub[p]
        /\ UNCHANGED <<kind, old>>
    BY <1>8 DEF CheckPayload, Goto, opVars, OneMore, Inv, Types
  <2>2. Beside(pc'[p], kind'[p], tmp'[p], sub'[p], old'[p])
    BY <2>1, Own DEF Beside, Idle, Reading, Payload
  <2>3. OthersAlone(p) /\ old' \in [Proc -> Aside]
    <3>1. \/ tmp' = tmp /\ sub' = sub
          \/ tmp' = [tmp EXCEPT ![p].done = @ + 1]
             /\ sub' = [sub EXCEPT ![p] = None]
      BY <1>8 DEF CheckPayload, OneMore
    <3>2. \A q \in Proc \ {p} : tmp'[q] = tmp[q] /\ sub'[q] = sub[q]
      BY <3>1 DEF Inv, Types
    <3>3. \A q \in Proc \ {p} : pc'[q] = pc[q]
      BY <1>8 DEF CheckPayload, Goto, Inv, Types
    <3> QED
      BY <2>1, <3>2, <3>3 DEF OthersAlone, BesideInv
  <2> QED
    BY <2>2, <2>3, OnlyOwn
<1>9. CASE PlacePayload(p)
  <2>1. CASE Fail(p)
    <3>1. old[p] = None
      BY <1>9, Own DEF PlacePayload, Beside, Idle
    <3>2. UNCHANGED <<kind, old>>
      BY <1>9 DEF PlacePayload, opVars
    <3> QED
      BY <2>1, <3>1, <3>2, FailLeavesNothing
  <2>2. CASE ~Fail(p)
    <3>1. /\ pc' = [pc EXCEPT ![p] = "write"]
          /\ sub' = [sub EXCEPT ![p] = None]
          /\ tmp' = OneMore(p) /\ UNCHANGED <<kind, old>>
      BY <1>9, <2>2 DEF PlacePayload, Goto, opVars
    <3>2. pc[p] = "payload place"
      BY <1>9 DEF PlacePayload
    <3>3. Beside(pc'[p], kind'[p], tmp'[p], sub'[p], old'[p])
      BY <3>1, <3>2, Own DEF Beside, Idle, Reading, Payload, Inv, Types
    <3>4. OthersAlone(p) /\ old' \in [Proc -> Aside]
      BY <3>1 DEF OthersAlone, OneMore, Inv, Types, BesideInv
    <3> QED
      BY <3>3, <3>4, OnlyOwn
  <2> QED
    BY <2>1, <2>2
<1>10. CASE Verify(p)
  <2>1. CASE Fail(p)
    <3>1. old[p] = None
      BY <1>10, Own DEF Verify, Beside, Idle
    <3>2. UNCHANGED <<kind, old>>
      BY <1>10, <2>1 DEF Verify, opVars, Fail, Goto
    <3> QED
      BY <2>1, <3>1, <3>2, FailLeavesNothing
  <2>2. CASE ~Fail(p)
    <3>1. kind[p] \in {"save", "split"}
      BY <1>10, Own, Values DEF Verify, Progress, Writing, Beside
    <3>2. /\ pc[p] = "verify" /\ UNCHANGED <<kind, tmp, sub, old>>
          /\ pc' = [pc EXCEPT ![p] = IF kind[p] = "save" THEN "check last"
                                                        ELSE "step aside"]
      BY <1>10, <2>2 DEF Verify, Goto, opVars
    <3>3. Beside(pc'[p], kind'[p], tmp'[p], sub'[p], old'[p])
      BY <3>1, <3>2, Own DEF Beside, Idle, Reading, Payload, Inv, Types
    <3>4. OthersAlone(p) /\ old' \in [Proc -> Aside]
      BY <3>2 DEF OthersAlone, Inv, Types, BesideInv
    <3> QED
      BY <3>3, <3>4, OnlyOwn
  <2> QED
    BY <2>1, <2>2
<1>11. CASE CheckLast(p)
  <2>1. /\ pc[p] = "check last" /\ UNCHANGED <<kind, sub, old>>
        /\ \/ /\ pc' = [pc EXCEPT ![p] = "ok"]
              /\ tmp' = [tmp EXCEPT ![p] = None]
           \/ pc' = [pc EXCEPT ![p] = "place"] /\ tmp' = tmp
    BY <1>11 DEF CheckLast, Goto, opVars
  <2>2. Beside(pc'[p], kind'[p], tmp'[p], sub'[p], old'[p])
    BY <2>1, Own DEF Beside, Idle, Reading, Payload, Inv, Types
  <2>3. OthersAlone(p) /\ old' \in [Proc -> Aside]
    BY <2>1 DEF OthersAlone, Inv, Types, BesideInv
  <2> QED
    BY <2>2, <2>3, OnlyOwn
<1>12. CASE Place(p)
  <2>1. CASE Fail(p)
    <3>1. old[p] = None \/ pc[p] = "swap"
      BY <1>12, Own DEF Place, Beside, Idle
    <3>2. UNCHANGED <<kind, old>>
      BY <1>12, <2>1 DEF Place, opVars, Fail, Goto
    <3> QED
      BY <2>1, <3>1, <3>2, FailLeavesNothing
  <2>2. CASE ~Fail(p)
    <3>1. Beside(pc'[p], kind'[p], tmp'[p], sub'[p], old'[p])
      BY <1>12, <2>2, Own, Values
         DEF Place, Beside, Goto, Inv, Types, opVars, Idle, Reading, Payload,
            BesideInv
    <3>2. OthersAlone(p) /\ old' \in [Proc -> Aside]
      BY <1>12, <2>2, Values DEF OthersAlone, Place, Goto, opVars, Inv,
         Types, BesideInv
    <3> QED
      BY <3>1, <3>2, OnlyOwn
  <2> QED
    BY <2>1, <2>2
<1>13. CASE SplitRead(p)
  <2>1. Beside(pc'[p], kind'[p], tmp'[p], sub'[p], old'[p])
    BY <1>13, Own, Values
       DEF SplitRead, Beside, Goto, Inv, Types, opVars, Idle, Reading,
          Payload, BesideInv
  <2>2. OthersAlone(p) /\ old' \in [Proc -> Aside]
    BY <1>13, Values DEF OthersAlone, SplitRead, Goto, opVars, Inv,
       Types, BesideInv
  <2> QED
    BY <2>1, <2>2, OnlyOwn
<1>14. CASE StepAside(p)
  <2>1. old[p] = None /\ pc[p] = "step aside" /\ UNCHANGED kind
    BY <1>14, Own DEF StepAside, Beside, Idle, opVars
  <2>2. CASE ~Exists(target[p])
    BY <1>14, <2>1, <2>2, FailLeavesNothing DEF StepAside
  <2>3. CASE Exists(target[p])
    <3>1. /\ pc' = [pc EXCEPT ![p] = "swap"]
          /\ old' = [old EXCEPT ![p] = final[target[p]]]
          /\ UNCHANGED <<tmp, sub>>
      BY <1>14, <2>3 DEF StepAside, Goto
    <3>2. target[p] \in Block
      BY <2>1, Values DEF Progress, Begun, Writing, Ready
    <3>3. final[target[p]] \in Aside
      BY <3>2 DEF Inv, Types
    <3>4. Beside("swap", kind[p], tmp[p], sub[p], final[target[p]])
      BY <2>1, Own DEF Beside, Idle, Reading, Payload
    <3>5. pc'[p] = "swap" /\ old'[p] = final[target[p]]
      BY <3>1 DEF Inv, Types, BesideInv
    <3>6. OthersAlone(p) /\ old' \in [Proc -> Aside]
      BY <2>1, <3>1, <3>3 DEF OthersAlone, Inv, Types, BesideInv
    <3> QED
      BY <2>1, <3>1, <3>4, <3>5, <3>6, OnlyOwn
  <2> QED
    BY <2>2, <2>3
<1>15. CASE SwapIn(p)
  <2>1. CASE Fail(p)
    <3>1. old[p] = None \/ pc[p] = "swap"
      BY <1>15, Own DEF SwapIn, Beside, Idle
    <3>2. UNCHANGED <<kind, old>>
      BY <1>15, <2>1 DEF SwapIn, opVars, Fail, Goto
    <3> QED
      BY <2>1, <3>1, <3>2, FailLeavesNothing
  <2>2. CASE ~Fail(p)
    <3>1. Beside(pc'[p], kind'[p], tmp'[p], sub'[p], old'[p])
      BY <1>15, <2>2, Own, Values
         DEF SwapIn, Beside, Goto, Inv, Types, opVars, Idle, Reading,
            Payload, BesideInv
    <3>2. OthersAlone(p) /\ old' \in [Proc -> Aside]
      BY <1>15, <2>2, Values DEF OthersAlone, SwapIn, Goto, opVars, Inv,
         Types, BesideInv
    <3> QED
      BY <3>1, <3>2, OnlyOwn
  <2> QED
    BY <2>1, <2>2
<1>16. CASE DropOld(p)
  <2>1. Beside(pc'[p], kind'[p], tmp'[p], sub'[p], old'[p])
    BY <1>16, Own, Values
       DEF DropOld, Beside, Goto, Inv, Types, opVars, Idle, Reading, Payload,
          BesideInv
  <2>2. OthersAlone(p) /\ old' \in [Proc -> Aside]
    BY <1>16, Values DEF OthersAlone, DropOld, Goto, opVars, Inv,
       Types, BesideInv
  <2> QED
    BY <2>1, <2>2, OnlyOwn
<1> QED
  BY <1>1, <1>2, <1>3, <1>4, <1>5, <1>6, <1>7, <1>8, <1>9, <1>10, <1>11,
     <1>12, <1>13, <1>14, <1>15, <1>16 DEF Writes

LEMMA ReadsBeside ==
  ASSUME Inv, BesideInv, NEW p \in Proc, Reads(p)
  PROVE  BesideInv'
<1>1. CASE OpenBlock(p)
  <2>1. CASE Fail(p)
    <3>1. old[p] = None
      BY <1>1, Own DEF OpenBlock, Beside, Idle
    <3>2. UNCHANGED <<kind, old>>
      BY <1>1, <2>1 DEF OpenBlock, opVars, Fail, Goto
    <3> QED
      BY <2>1, <3>1, <3>2, FailLeavesNothing
  <2>2. CASE ~Fail(p)
    <3>1. /\ pc[p] = "open" /\ UNCHANGED <<kind, tmp, sub, old>>
          /\ \/ pc' = [pc EXCEPT ![p] = "list"]
             \/ pc' = [pc EXCEPT ![p] = "file"]
      BY <1>1, <2>2 DEF OpenBlock, Goto, opVars
    <3>2. Beside(pc'[p], kind'[p], tmp'[p], sub'[p], old'[p])
      BY <3>1, Own DEF Beside, Idle, Reading, Payload, Inv, Types
    <3>3. OthersAlone(p) /\ old' \in [Proc -> Aside]
      BY <3>1 DEF OthersAlone, Inv, Types, BesideInv
    <3> QED
      BY <3>2, <3>3, OnlyOwn
  <2> QED
    BY <2>1, <2>2
<1>2. CASE ReadFile(p)
  <2>1. Beside(pc'[p], kind'[p], tmp'[p], sub'[p], old'[p])
    BY <1>2, Own, Values
       DEF ReadFile, Beside, Goto, Inv, Types, opVars, Idle, Reading,
          Payload, BesideInv
  <2>2. OthersAlone(p) /\ old' \in [Proc -> Aside]
    BY <1>2, Values DEF OthersAlone, ReadFile, Goto, opVars, Inv,
       Types, BesideInv
  <2> QED
    BY <2>1, <2>2, OnlyOwn
<1>3. CASE LoadList(p)
  <2>1. CASE Fail(p)
    <3>1. old[p] = None \/ pc[p] = "swap"
      BY <1>3, Own DEF LoadList, Beside, Idle
    <3>2. UNCHANGED <<kind, old>>
      BY <1>3, <2>1 DEF LoadList, opVars, Fail, Goto
    <3> QED
      BY <2>1, <3>1, <3>2, FailLeavesNothing
  <2>2. CASE ~Fail(p)
    <3>1. Beside(pc'[p], kind'[p], tmp'[p], sub'[p], old'[p])
      BY <1>3, <2>2, Own, Values
         DEF LoadList, Beside, Goto, Inv, Types, opVars, Idle, Reading,
            Payload, BesideInv
    <3>2. OthersAlone(p) /\ old' \in [Proc -> Aside]
      BY <1>3, <2>2, Values DEF OthersAlone, LoadList, Goto, opVars, Inv,
         Types, BesideInv
    <3> QED
      BY <3>1, <3>2, OnlyOwn
  <2> QED
    BY <2>1, <2>2
<1>4. CASE ReadPart(p)
  <2>1. Beside(pc'[p], kind'[p], tmp'[p], sub'[p], old'[p])
    BY <1>4, Own, Values
       DEF ReadPart, Beside, Goto, Inv, Types, opVars, Idle, Reading,
          Payload, BesideInv
  <2>2. OthersAlone(p) /\ old' \in [Proc -> Aside]
    BY <1>4, Values DEF OthersAlone, ReadPart, Goto, opVars, Inv,
       Types, BesideInv
  <2> QED
    BY <2>1, <2>2, OnlyOwn
<1>5. CASE OpenNested(p)
  <2>1. CASE Fail(p)
    <3>1. old[p] = None
      BY <1>5, Own DEF OpenNested, Beside, Idle
    <3>2. UNCHANGED <<kind, old>>
      BY <1>5, <2>1 DEF OpenNested, opVars, Fail, Goto
    <3> QED
      BY <2>1, <3>1, <3>2, FailLeavesNothing
  <2>2. CASE ~Fail(p)
    <3>1. /\ pc[p] = "items" /\ UNCHANGED <<kind, tmp, sub, old>>
          /\ pc' = [pc EXCEPT ![p] = "nested"]
      BY <1>5, <2>2 DEF OpenNested, Goto, opVars
    <3>2. Beside(pc'[p], kind'[p], tmp'[p], sub'[p], old'[p])
      BY <3>1, Own DEF Beside, Idle, Reading, Payload, Inv, Types
    <3>3. OthersAlone(p) /\ old' \in [Proc -> Aside]
      BY <3>1 DEF OthersAlone, Inv, Types, BesideInv
    <3> QED
      BY <3>2, <3>3, OnlyOwn
  <2> QED
    BY <2>1, <2>2
<1>6. CASE ReadNested(p)
  <2>1. Beside(pc'[p], kind'[p], tmp'[p], sub'[p], old'[p])
    BY <1>6, Own, Values
       DEF ReadNested, Beside, Goto, Inv, Types, opVars, Idle, Reading,
          Payload, BesideInv
  <2>2. OthersAlone(p) /\ old' \in [Proc -> Aside]
    BY <1>6, Values DEF OthersAlone, ReadNested, Goto, opVars, Inv,
       Types, BesideInv
  <2> QED
    BY <2>1, <2>2, OnlyOwn
<1>7. CASE ReadEnds(p)
  <2>1. Beside(pc'[p], kind'[p], tmp'[p], sub'[p], old'[p])
    BY <1>7, Own, Values
       DEF ReadEnds, Beside, Goto, Inv, Types, opVars, Idle, Reading,
          Payload, BesideInv
  <2>2. OthersAlone(p) /\ old' \in [Proc -> Aside]
    BY <1>7, Values DEF OthersAlone, ReadEnds, Goto, opVars, Inv,
       Types, BesideInv
  <2> QED
    BY <2>1, <2>2, OnlyOwn
<1>8. CASE CopyEnds(p)
  <2>1. CASE Fail(p)
    <3>1. old[p] = None \/ pc[p] = "swap"
      BY <1>8, Own DEF CopyEnds, Beside, Idle
    <3>2. UNCHANGED <<kind, old>>
      BY <1>8, <2>1 DEF CopyEnds, opVars, Fail, Goto
    <3> QED
      BY <2>1, <3>1, <3>2, FailLeavesNothing
  <2>2. CASE ~Fail(p)
    <3>1. /\ pc[p] = "read" /\ kind[p] = "copy" /\ UNCHANGED <<kind, tmp, sub, old>>
          /\ pc' = [pc EXCEPT ![p] = "ok"]
      BY <1>8, <2>2 DEF CopyEnds, Goto, opVars
    <3>2. Beside(pc'[p], kind'[p], tmp'[p], sub'[p], old'[p])
      BY <3>1, Own DEF Beside, Idle, Reading, Payload, Inv, Types
    <3>3. OthersAlone(p) /\ old' \in [Proc -> Aside]
      BY <3>1 DEF OthersAlone, Inv, Types, BesideInv
    <3> QED
      BY <3>2, <3>3, OnlyOwn
  <2> QED
    BY <2>1, <2>2
<1> QED
  BY <1>1, <1>2, <1>3, <1>4, <1>5, <1>6, <1>7, <1>8 DEF Reads

LEMMA BesideNext == Inv /\ BesideInv /\ [Next]_vars => BesideInv'
<1> SUFFICES ASSUME Inv, BesideInv, [Next]_vars PROVE BesideInv'
  OBVIOUS
<1>1. ASSUME NEW p \in Proc, Crash(p) PROVE BesideInv'
  <2>1. pc[p] \notin Idle /\ pc'[p] = "dead"
        /\ UNCHANGED <<kind, tmp, sub, old>>
    BY <1>1 DEF Crash, Running, Goto, opVars, Inv, Types
  <2>2. Beside("dead", kind[p], tmp[p], sub[p], old[p])
    BY <2>1, Own DEF Beside, Idle, Reading
  <2>3. OthersAlone(p) /\ old' \in [Proc -> Aside]
    BY <1>1, Values DEF OthersAlone, Crash, Goto, opVars, Inv, Types, BesideInv
  <2> QED
    BY <2>1, <2>2, <2>3, OnlyOwn
<1>2. ASSUME NEW b \in Block, RemoveBlock(b) \/ RemovalEnds(b)
      PROVE  BesideInv'
  BY <1>2 DEF RemoveBlock, RemovalEnds, opVars, BesideInv
<1>3. CASE UNCHANGED vars
  BY <1>3 DEF vars, opVars, BesideInv
<1> QED
  BY <1>1, <1>2, <1>3, StartsBeside, WritesBeside, ReadsBeside DEF Next

(* create_block, save_block_content, split_block and copy_block_if_exists   *)
(* that are over, whether they returned or raised, have left nothing beside *)
(* the blocks; but a split that could not rename the new form, the former.  *)
THEOREM NothingIsLeft == Spec => []NoLitter
<1>1. BesideInv => NoLitter
  BY DEF BesideInv, Beside, NoLitter, Idle, Payload
<1> QED
  BY <1>1, BesideInit, BesideNext, InitInv, NextInv, PTL DEF Spec

-----------------------------------------------------------------------------
(***************************************************************************)
(* NotLost, for any processes, blocks and forms, and any number of         *)
(* removals and crashes.  It is not inductive: that a block's former form  *)
(* is aside must outlast the splits of other processes, and what returns   *)
(* having found a block, or having read it, must have found one that was   *)
(* stored.                                                                 *)
(***************************************************************************)

(* A process keeps the former form of b, and is not about to drop it.       *)
Keeps(p, b) ==
    target[p] = b /\ pc[p] # "drop" /\ old[p] # None /\ Whole(b, old[p])

Kept(b) == b \in removed \/ Exists(b) \/ \E p \in Proc : Keeps(p, b)

(* It has found its block, or put it there.                                 *)
Found(stage, k) ==
    stage \in {"ok", "drop"} \/ (k = "copy" /\ stage \in Reading \ {"open"})

LostInv ==
    /\ old \in [Proc -> Aside]
    /\ \A p \in Proc : pc[p] = "idle" => old[p] = None
    /\ \A p \in Proc : pc[p] # "idle" => target[p] \in Block
    /\ \A b \in Block : Exists(b) => b \in stored
    /\ stored \subseteq Block
    /\ removing \subseteq removed
    /\ \A b \in stored : Kept(b)
    /\ \A p \in Proc : Found(pc[p], kind[p]) => target[p] \in stored

LEMMA LostInit == Init => LostInv
<1> SUFFICES ASSUME Init PROVE LostInv
  OBVIOUS
<1>1. \A p \in Proc : ~Found(pc[p], kind[p])
  BY DEF Init, Found, Reading
<1> QED
  BY <1>1 DEF Init, LostInv, Kept, Exists, Aside

LEMMA StageFacts ==
  /\ {"ok", "failed", "dead", "drop", "check", "check again"} \subseteq Stage
  /\ Reading \subseteq Stage /\ Writing \subseteq Stage
BY DEF Stage, Idle

(* A step of a process that leaves the blocks, and what is aside, alone.    *)
LEMMA QuietKeeps ==
  ASSUME Inv, LostInv, NEW p \in Proc, NEW stage \in Stage,
         pc' = [pc EXCEPT ![p] = stage],
         UNCHANGED <<diskVars, opVars, old, stored, removed>>,
         pc[p] # "idle", stage \notin {"idle", "drop"},
         Found(stage, kind[p]) => target[p] \in stored
  PROVE  LostInv'
<1>1. pc \in [Proc -> Stage]
  BY DEF Inv, Types
<1>2. \A q \in Proc : pc'[q] = IF q = p THEN stage ELSE pc[q]
  BY <1>1
<1>3. ASSUME NEW b \in stored PROVE Kept(b)'
  <2>1. Kept(b)
    BY DEF LostInv
  <2>2. ASSUME NEW q \in Proc, Keeps(q, b) PROVE Keeps(q, b)'
    BY <1>2, <2>2 DEF Keeps, Whole, opVars
  <2> QED
    BY <2>1, <2>2 DEF Kept, Exists, diskVars
<1>4. ASSUME NEW q \in Proc, Found(pc[q], kind[q])' PROVE target'[q] \in stored'
  BY <1>2, <1>4 DEF LostInv, Found, opVars
<1>5. target' = target /\ final' = final /\ removing' = removing
  BY DEF opVars, diskVars
<1> QED
  BY <1>2, <1>3, <1>4, <1>5 DEF LostInv, Exists

(* An entry comes to a block's path, and the process is at stage.           *)
LEMMA PutKeeps ==
  ASSUME Inv, LostInv, NEW p \in Proc, NEW stage \in Stage,
         NEW b \in Block, NEW e \in Entry,
         pc' = [pc EXCEPT ![p] = stage],
         PutAt(b, e), UNCHANGED <<opVars, old, removed>>,
         pc[p] # "idle", stage # "idle",
         stage = "drop" => b = target[p],
         Found(stage, kind[p]) => target[p] \in stored'
  PROVE  LostInv'
<1>1. pc \in [Proc -> Stage] /\ final \in [Block -> Aside] /\ e # None
  BY StoreAssumption DEF Inv, Types
<1>2. \A q \in Proc : pc'[q] = IF q = p THEN stage ELSE pc[q]
  BY <1>1
<1>3. /\ \A c \in Block : Exists(c)' <=> (c = b \/ Exists(c))
      /\ stored' = stored \cup {b} /\ removing' \subseteq removing
  BY <1>1 DEF PutAt, Exists
<1>4. ASSUME NEW c \in stored' PROVE Kept(c)'
  <2>1. CASE c = b
    BY <1>3, <2>1 DEF Kept
  <2>2. CASE c # b
    <3>1. Kept(c) /\ c \in Block
      BY <1>3, <2>2 DEF LostInv
    <3>2. ASSUME NEW q \in Proc, Keeps(q, c) PROVE Keeps(q, c)'
      BY <1>2, <2>2, <3>2 DEF Keeps, Whole, opVars
    <3> QED
      BY <1>3, <3>1, <3>2 DEF Kept
  <2> QED
    BY <2>1, <2>2
<1>5. ASSUME NEW q \in Proc, Found(pc[q], kind[q])' PROVE target'[q] \in stored'
  BY <1>2, <1>3, <1>5 DEF LostInv, Found, opVars
<1>6. target' = target
  BY DEF opVars
<1> QED
  BY <1>2, <1>3, <1>4, <1>5, <1>6 DEF LostInv

-----------------------------------------------------------------------------
(* The actions.                                                             *)

(* An operation starts; it has not found its block yet.                     *)
LEMMA StartLosesNothing ==
  ASSUME Inv, LostInv, NEW p \in Proc, NEW k \in {"create", "save", "split", "copy"},
         NEW b \in Block, NEW first \in Stage,
         pc[p] = "idle", pc' = [pc EXCEPT ![p] = first],
         kind' = [kind EXCEPT ![p] = k], target' = [target EXCEPT ![p] = b],
         UNCHANGED <<final, removing, old, stored, removed>>,
         first # "idle", ~Found(first, k)
  PROVE  LostInv'
<1>1. old[p] = None
  BY DEF LostInv
<1>2. \A q \in Proc : q # p =>
         pc'[q] = pc[q] /\ kind'[q] = kind[q] /\ target'[q] = target[q]
  BY DEF Inv, Types
<1>3. pc'[p] = first /\ kind'[p] = k /\ target'[p] = b
  BY DEF Inv, Types
<1>4. ASSUME NEW c \in stored PROVE Kept(c)'
  <2>1. Kept(c)
    BY DEF LostInv
  <2>2. ASSUME NEW q \in Proc, Keeps(q, c) PROVE Keeps(q, c)'
    BY <1>1, <1>2, <2>2 DEF Keeps, Whole
  <2> QED
    BY <2>1, <2>2 DEF Kept, Exists
<1>5. ASSUME NEW q \in Proc, Found(pc[q], kind[q])' PROVE target'[q] \in stored'
  <2>1. q # p
    BY <1>3, <1>5
  <2> QED
    BY <1>2, <1>5, <2>1 DEF LostInv
<1>6. \A q \in Proc : /\ pc'[q] = "idle" => old'[q] = None
                      /\ pc'[q] # "idle" => target'[q] \in Block
  BY <1>2, <1>3 DEF LostInv
<1>7. \A c \in Block : Exists(c)' => c \in stored'
  BY DEF LostInv, Exists
<1>8. /\ old' \in [Proc -> Aside] /\ stored' \subseteq Block
      /\ removing' \subseteq removed'
  BY DEF LostInv
<1>9. \A c \in stored' : Kept(c)'
  BY <1>4
<1> QED
  BY <1>5, <1>6, <1>7, <1>8, <1>9 DEF LostInv

LEMMA StartsKeep == ASSUME Inv, LostInv, NEW p \in Proc, Starts(p) PROVE LostInv'
<1>1. ASSUME NEW b \in Block, BeginCreate(p, b) PROVE LostInv'
  <2>1. /\ pc[p] = "idle" /\ pc' = [pc EXCEPT ![p] = "check"]
        /\ kind' = [kind EXCEPT ![p] = "create"]
        /\ target' = [target EXCEPT ![p] = b]
        /\ UNCHANGED <<final, removing, old, stored, removed>>
    BY <1>1 DEF BeginCreate, Begin, Goto, diskVars
  <2>2. ~Found("check", "create") /\ "check" # "idle" /\ "check" \in Stage
    BY StageFacts DEF Found, Reading, Writing
  <2> QED
    BY <2>1, <2>2, StartLosesNothing
<1>2. ASSUME NEW b \in Block, BeginCopy(p, b) PROVE LostInv'
  <2>1. /\ pc[p] = "idle" /\ pc' = [pc EXCEPT ![p] = "open"]
        /\ kind' = [kind EXCEPT ![p] = "copy"]
        /\ target' = [target EXCEPT ![p] = b]
        /\ UNCHANGED <<final, removing, old, stored, removed>>
    BY <1>2 DEF BeginCopy, Begin, Goto, diskVars
  <2>2. ~Found("open", "copy") /\ "open" # "idle" /\ "open" \in Stage
    BY StageFacts DEF Found, Reading, Writing
  <2> QED
    BY <2>1, <2>2, StartLosesNothing
<1>3. ASSUME NEW b \in Block, NEW s, BeginSave(p, b, s) PROVE LostInv'
  <2>1. /\ pc[p] = "idle" /\ pc' = [pc EXCEPT ![p] = "write"]
        /\ kind' = [kind EXCEPT ![p] = "save"]
        /\ target' = [target EXCEPT ![p] = b]
        /\ UNCHANGED <<final, removing, old, stored, removed>>
    BY <1>3 DEF BeginSave, Begin, Goto, diskVars
  <2>2. ~Found("write", "save") /\ "write" # "idle" /\ "write" \in Stage
    BY StageFacts DEF Found, Reading, Writing
  <2> QED
    BY <2>1, <2>2, StartLosesNothing
<1>4. ASSUME NEW b \in Block, NEW s, BeginSplit(p, b, s) PROVE LostInv'
  <2>1. /\ pc[p] = "idle" /\ pc' = [pc EXCEPT ![p] = "open"]
        /\ kind' = [kind EXCEPT ![p] = "split"]
        /\ target' = [target EXCEPT ![p] = b]
        /\ UNCHANGED <<final, removing, old, stored, removed>>
    BY <1>4 DEF BeginSplit, Begin, Goto, diskVars
  <2>2. ~Found("open", "split") /\ "open" # "idle" /\ "open" \in Stage
    BY StageFacts DEF Found, Reading, Writing
  <2> QED
    BY <2>1, <2>2, StartLosesNothing
<1> QED
  BY <1>1, <1>2, <1>3, <1>4 DEF Starts

LEMMA ProcFacts ==
  ASSUME Inv, LostInv, NEW p \in Proc
  PROVE  /\ pc = [pc EXCEPT ![p] = pc[p]]
         /\ pc[p] \in {"check", "check again"} \cup Writing => target[p] \in Block
         /\ pc[p] \in Reading => kind[p] \in {"copy", "split"}
         /\ pc[p] \in Writing => kind[p] # "copy"
         /\ target[p] \in Block /\ Exists(target[p]) => target[p] \in stored
         /\ Found(pc[p], kind[p]) => target[p] \in stored
<1>1. Progress(pc[p], kind[p], target[p], shape[p], tmp[p], sub[p])
  BY Values
<1>2. pc = [pc EXCEPT ![p] = pc[p]] /\ kind[p] \in {"create", "save", "split", "copy", None}
  BY DEF Inv, Types
<1>3. pc[p] \in Reading => kind[p] \in {"copy", "split"}
  BY <1>1 DEF Progress
<1>4. pc[p] \in Writing => kind[p] # "copy"
  BY <1>1 DEF Progress
<1>5. pc[p] \in {"check", "check again"} \cup Writing => target[p] \in Block
  BY <1>1 DEF Progress, Begun
<1> QED
  BY <1>2, <1>3, <1>4, <1>5 DEF LostInv

(* What raises is no longer at anything.                                    *)
LEMMA FailLosesNothing ==
  ASSUME Inv, LostInv, NEW p \in Proc, Fail(p), pc[p] # "idle",
         UNCHANGED <<diskVars, opVars, old, stored, removed>>
  PROVE  LostInv'
<1>1. pc' = [pc EXCEPT ![p] = "failed"]
  BY DEF Fail, Goto
<1>2. ~Found("failed", kind[p]) /\ "failed" \in Stage
  BY StageFacts DEF Found, Reading, Writing
<1> QED
  BY <1>1, <1>2, QuietKeeps, StageFacts

(* Writing a block goes on, or not; create and save may find it there.      *)
LEMMA QuietWrites ==
  ASSUME Inv, LostInv, NEW p \in Proc,
         \/ CreateCheck(p) \/ CreateCheckAgain(p)
         \/ WritePart(p) \/ WriteBlock(p) \/ WriteEnds(p) \/ WriteRaises(p)
         \/ WritePayload(p) \/ CheckPayload(p)
         \/ Verify(p) \/ CheckLast(p) \/ SplitRead(p)
  PROVE  LostInv'
<1>0. pc[p] # "idle" /\ UNCHANGED <<diskVars, opVars, old, stored, removed>>
  BY DEF CreateCheck, CreateCheckAgain, WritePart, WriteBlock, WriteEnds, WriteRaises,
     WritePayload, CheckPayload, Verify, CheckLast, SplitRead, history
<1>1. CASE Fail(p)
  BY <1>0, <1>1, FailLosesNothing
<1>2. CASE CreateCheck(p)
  <2>1. pc' = [pc EXCEPT ![p] = IF Exists(target[p]) THEN "ok" ELSE "check again"]
        /\ target[p] \in Block
    BY <1>2, ProcFacts DEF CreateCheck, Goto
  <2>2. CASE Exists(target[p])
    <3>1. pc' = [pc EXCEPT ![p] = "ok"] /\ target[p] \in stored
      BY <2>1, <2>2, ProcFacts
    <3> QED
      BY <1>0, <3>1, QuietKeeps, StageFacts
  <2>3. CASE ~Exists(target[p])
    <3>1. ~Found("check again", kind[p]) /\ "check again" \in Stage
      BY StageFacts DEF Found, Reading, Writing
    <3> QED
      BY <1>0, <2>1, <2>3, <3>1, QuietKeeps, StageFacts
  <2> QED
    BY <2>2, <2>3
<1>3. CASE CheckLast(p)
  <2>1. target[p] \in Block
    BY <1>3, ProcFacts DEF CheckLast, Writing, Ready
  <2>2. CASE Exists(target[p])
    <3>1. pc' = [pc EXCEPT ![p] = "ok"]
      BY <1>3, <2>2 DEF CheckLast, Goto
    <3>2. target[p] \in stored
      BY <2>1, <2>2, ProcFacts
    <3> QED
      BY <1>0, <3>1, <3>2, QuietKeeps, StageFacts
  <2>3. CASE ~Exists(target[p])
    <3>1. pc' = [pc EXCEPT ![p] = "place"]
      BY <1>3, <2>3 DEF CheckLast, Goto
    <3>2. ~Found("place", kind[p]) /\ "place" \in Stage
      BY StageFacts DEF Found, Reading, Writing, Ready
    <3> QED
      BY <1>0, <3>1, <3>2, QuietKeeps, StageFacts
  <2> QED
    BY <2>2, <2>3
<1>4. CASE ~Fail(p) /\ ~CreateCheck(p) /\ ~CheckLast(p)
  <2>1. PICK stage \in Writing : pc' = [pc EXCEPT ![p] = stage]
    <3>1. {"write", "verify", "payload", "payload check", "payload place",
           "check last", "place", "step aside"} \subseteq Writing
      BY DEF Writing, Payload, Ready
    <3>2. \/ pc' = [pc EXCEPT ![p] = "write"]
          \/ pc' = [pc EXCEPT ![p] = "verify"]
          \/ pc' = [pc EXCEPT ![p] = "payload"]
          \/ pc' = [pc EXCEPT ![p] = "payload check"]
          \/ pc' = [pc EXCEPT ![p] = "payload place"]
          \/ pc' = [pc EXCEPT ![p] = "check last"]
          \/ pc' = [pc EXCEPT ![p] = "place"]
          \/ pc' = [pc EXCEPT ![p] = "step aside"]
      <4>1. CASE CreateCheckAgain(p)
        BY <1>4, <4>1 DEF CreateCheckAgain, Goto
      <4>2. CASE WritePart(p)
        BY <4>2, ProcFacts DEF WritePart
      <4>3. CASE WriteBlock(p)
        BY <4>3, ProcFacts DEF WriteBlock, Goto
      <4>4. CASE WriteEnds(p)
        BY <4>4 DEF WriteEnds, Goto
      <4>5. CASE WritePayload(p) \/ CheckPayload(p)
        BY <4>5 DEF WritePayload, CheckPayload, Goto
      <4>6. CASE Verify(p)
        BY <1>4, <4>6 DEF Verify, Goto
      <4>7. CASE SplitRead(p)
        BY <4>7 DEF SplitRead, Goto
      <4> QED
        BY <1>4, <4>1, <4>2, <4>3, <4>4, <4>5, <4>6, <4>7 DEF WriteRaises
    <3> QED
      BY <3>1, <3>2
  <2>2. ~Found(stage, kind[p]) /\ stage \notin {"idle", "drop"}
    BY DEF Found, Reading, Writing, Payload, Ready
  <2> QED
    BY <1>0, <2>1, <2>2, QuietKeeps, StageFacts
<1> QED
  BY <1>1, <1>2, <1>3, <1>4

(* Reading goes on, of a block that was there when it began.                *)
LEMMA QuietReads == ASSUME Inv, LostInv, NEW p \in Proc, Reads(p) PROVE LostInv'
<1>0. pc[p] # "idle" /\ UNCHANGED <<diskVars, opVars, old, stored, removed>>
  BY DEF Reads, OpenBlock, ReadFile, LoadList, ReadPart, OpenNested,
     ReadNested, ReadEnds, CopyEnds, history, readVars
<1>1. CASE Fail(p)
  BY <1>0, <1>1, FailLosesNothing
<1>2. CASE OpenBlock(p) /\ ~Fail(p)
  <2>1. final[target[p]] # None
    BY <1>2 DEF OpenBlock
  <2>2. PICK stage \in {"list", "file"} : pc' = [pc EXCEPT ![p] = stage]
    BY <1>2 DEF OpenBlock, Goto
  <2>3. Found(stage, kind[p]) => target[p] \in stored
    <3> SUFFICES ASSUME kind[p] = "copy" PROVE target[p] \in stored
      BY DEF Found
    <3>1. target[p] \in Block
      BY <1>0 DEF LostInv
    <3> QED
      BY <2>1, <3>1, ProcFacts DEF Exists
  <2>4. stage \in Stage /\ stage \notin {"idle", "drop"}
    BY StageFacts DEF Reading
  <2> QED
    BY <1>0, <2>2, <2>3, <2>4, QuietKeeps
<1>3. CASE ~OpenBlock(p) /\ ~Fail(p)
  <2>1. PICK stage \in {"read", "items", "nested", "ok"} :
            /\ pc' = [pc EXCEPT ![p] = stage]
            /\ pc[p] \in Reading \ {"open"}
            /\ stage = "ok" => kind[p] = "copy"
    <3>1. CASE ReadFile(p) \/ LoadList(p)
      BY <1>3, <3>1 DEF ReadFile, LoadList, Goto, Reading
    <3>2. CASE ReadPart(p)
      BY <3>2, ProcFacts DEF ReadPart, Reading
    <3>3. CASE OpenNested(p) \/ ReadNested(p)
      BY <1>3, <3>3 DEF OpenNested, ReadNested, Goto, Reading
    <3>4. CASE ReadEnds(p) \/ CopyEnds(p)
      BY <1>3, <3>4 DEF ReadEnds, CopyEnds, Goto, Reading
    <3> QED
      BY <1>3, <3>1, <3>2, <3>3, <3>4 DEF Reads
  <2>2. Found(stage, kind[p]) => target[p] \in stored
    BY <2>1, ProcFacts DEF Found
  <2>3. stage \in Stage /\ stage \notin {"idle", "drop"}
    BY StageFacts DEF Reading
  <2> QED
    BY <1>0, <2>1, <2>2, <2>3, QuietKeeps
<1> QED
  BY <1>1, <1>2, <1>3

(* The renames onto a block's path.                                         *)
LEMMA RenamesKeep ==
  ASSUME Inv, LostInv, NEW p \in Proc, Place(p) \/ SwapIn(p) \/ PlacePayload(p)
  PROVE  LostInv'
<1>0. pc[p] \in Writing /\ pc[p] # "idle" /\ UNCHANGED <<opVars, old, removed>>
  BY DEF Place, SwapIn, PlacePayload, Writing, Ready, Payload
<1>1. CASE Fail(p) /\ UNCHANGED <<diskVars, stored>>
  BY <1>0, <1>1, FailLosesNothing
<1>2. CASE PlacePayload(p) /\ ~(Fail(p) /\ UNCHANGED <<diskVars, stored>>)
  <2> DEFINE b == NextItem(p).block
  <2>1. b \in Block /\ sub[p] = Complete(b, File)
    BY <1>2, Values
       DEF PlacePayload, Progress, Writing, Payload, NextItem, NextOf
  <2>2. sub[p] \in Entry
    BY <2>1, FileFacts
  <2>3. PutAt(b, sub[p]) /\ pc' = [pc EXCEPT ![p] = "write"]
    BY <1>2 DEF PlacePayload, Goto
  <2>4. ~Found("write", kind[p]) /\ "write" \in Stage
    BY StageFacts DEF Found, Reading, Writing
  <2> HIDE DEF b
  <2> QED
    BY <1>0, <2>1, <2>2, <2>3, <2>4, PutKeeps, StageFacts
<1>3. CASE (Place(p) \/ SwapIn(p)) /\ ~(Fail(p) /\ UNCHANGED <<diskVars, stored>>)
  <2>1. target[p] \in Block /\ tmp[p] \in Entry
    BY <1>3, Values DEF Place, SwapIn, Progress, Writing, Ready, Begun
  <2>2. PICK stage \in {"ok", "drop"} :
            PutAt(target[p], tmp[p]) /\ pc' = [pc EXCEPT ![p] = stage]
    BY <1>3 DEF Place, SwapIn, Goto
  <2>3. target[p] \in stored'
    BY <2>2 DEF PutAt
  <2> QED
    BY <1>0, <2>1, <2>2, <2>3, PutKeeps, StageFacts
<1> QED
  BY <1>1, <1>2, <1>3

(* The former form is put aside, whole.                                     *)
LEMMA StepAsideLosesNothing ==
  ASSUME Inv, LostInv, NEW p \in Proc, StepAside(p) PROVE LostInv'
<1> DEFINE b == target[p]
<1>0. b \in Block /\ pc[p] # "idle" /\ UNCHANGED <<opVars, stored, removed>>
  BY ProcFacts DEF StepAside, Writing, Ready
<1>1. CASE ~Exists(b)
  <2>1. Fail(p) /\ UNCHANGED <<diskVars, old>>
    BY <1>1 DEF StepAside
  <2> QED
    BY <1>0, <2>1, FailLosesNothing
<1>2. CASE Exists(b)
  <2>1. /\ old' = [old EXCEPT ![p] = final[b]]
        /\ final' = [final EXCEPT ![b] = None]
        /\ removing' \subseteq removing
        /\ pc' = [pc EXCEPT ![p] = "swap"]
    BY <1>2 DEF StepAside, Goto
  <2>2. Whole(b, final[b]) /\ final[b] # None /\ final[b] \in Aside
    BY <1>0, <1>2 DEF Inv, Types, FinalsWhole, Exists
  <2>3. pc \in [Proc -> Stage] /\ final \in [Block -> Aside] /\ old \in [Proc -> Aside]
    BY DEF Inv, Types, LostInv
  <2>4. \A q \in Proc : /\ pc'[q] = IF q = p THEN "swap" ELSE pc[q]
                        /\ old'[q] = IF q = p THEN final[b] ELSE old[q]
    BY <2>1, <2>3
  <2>5. \A c \in Block : Exists(c)' <=> (Exists(c) /\ c # b)
    BY <2>1, <2>3 DEF Exists
  <2>6. target' = target /\ kind' = kind
    BY <1>0 DEF opVars
  <2>7. Keeps(p, b)'
    BY <2>2, <2>4, <2>6 DEF Keeps, Whole
  <2>8. ASSUME NEW c \in stored PROVE Kept(c)'
    <3>1. CASE c = b
      BY <2>6, <2>7, <3>1 DEF Kept, Keeps
    <3>2. CASE c # b
      <4>1. Kept(c) /\ c \in Block
        BY DEF LostInv
      <4>2. ASSUME NEW q \in Proc, Keeps(q, c) PROVE Keeps(q, c)'
        BY <2>4, <2>6, <3>2, <4>2 DEF Keeps, Whole
      <4> QED
        BY <1>0, <2>5, <3>2, <4>1, <4>2 DEF Kept
    <3> QED
      BY <3>1, <3>2
  <2>9. ~Found("swap", kind[p])
    BY DEF Found, Reading
  <2>10. ASSUME NEW q \in Proc, Found(pc[q], kind[q])' PROVE target'[q] \in stored'
    BY <1>0, <2>4, <2>6, <2>9, <2>10 DEF LostInv
  <2>11. old' \in [Proc -> Aside]
    BY <2>1, <2>2, <2>3
  <2>12. \A q \in Proc : /\ pc'[q] = "idle" => old'[q] = None
                         /\ pc'[q] # "idle" => target'[q] \in Block
    BY <1>0, <2>4, <2>6 DEF LostInv
  <2> QED
    BY <1>0, <2>1, <2>5, <2>8, <2>10, <2>11, <2>12 DEF LostInv
<1> QED
  BY <1>1, <1>2

(* What is dropped was kept no longer.                                      *)
LEMMA DropOldLosesNothing ==
  ASSUME Inv, LostInv, NEW p \in Proc, DropOld(p)
  PROVE  LostInv'
<1>1. /\ pc[p] = "drop"
      /\ old' = [old EXCEPT ![p] = None]
      /\ pc' = [pc EXCEPT ![p] = "ok"]
      /\ UNCHANGED <<diskVars, opVars, stored, removed>>
  BY DEF DropOld, Goto, history
<1>2. pc \in [Proc -> Stage] /\ old \in [Proc -> Aside]
  BY DEF Inv, Types, LostInv
<1>3. \A q \in Proc : /\ pc'[q] = IF q = p THEN "ok" ELSE pc[q]
                      /\ old'[q] = IF q = p THEN None ELSE old[q]
  BY <1>1, <1>2
<1>4. ASSUME NEW c \in stored PROVE Kept(c)'
  <2>1. Kept(c)
    BY DEF LostInv
  <2>2. ASSUME NEW q \in Proc, Keeps(q, c) PROVE Keeps(q, c)'
    BY <1>1, <1>3, <2>2 DEF Keeps, Whole, opVars
  <2> QED
    BY <1>1, <2>1, <2>2 DEF Kept, Exists, diskVars
<1>5. ASSUME NEW q \in Proc, Found(pc[q], kind[q])' PROVE target'[q] \in stored'
  BY <1>1, <1>3, <1>5 DEF LostInv, Found, opVars
<1>6. old' \in [Proc -> Aside]
  BY <1>1, <1>2 DEF Aside
<1>7. target' = target /\ final' = final /\ removing' = removing
  BY <1>1 DEF opVars, diskVars
<1> QED
  BY <1>1, <1>3, <1>4, <1>5, <1>6, <1>7 DEF LostInv, Exists

LEMMA RemovalLosesNothing ==
  ASSUME Inv, LostInv, NEW b \in Block, RemoveBlock(b) \/ RemovalEnds(b)
  PROVE  LostInv'
<1>1. /\ UNCHANGED <<pc, opVars, old, stored>>
      /\ removed \subseteq removed' /\ b \in removed'
      /\ removing' \subseteq removed'
      /\ final' \in {final, [final EXCEPT ![b] = None]}
  BY DEF RemoveBlock, RemovalEnds, LostInv
<1>2. \A c \in Block : /\ Exists(c)' => Exists(c)
                       /\ Exists(c) /\ c # b => Exists(c)'
  BY <1>1 DEF Exists, Inv, Types
<1>3. ASSUME NEW c \in stored PROVE Kept(c)'
  <2>1. CASE c = b
    BY <1>1, <2>1 DEF Kept
  <2>2. CASE c # b
    <3>1. Kept(c) /\ c \in Block
      BY DEF LostInv
    <3>2. ASSUME NEW q \in Proc, Keeps(q, c) PROVE Keeps(q, c)'
      BY <1>1, <3>2 DEF Keeps, Whole, opVars
    <3> QED
      BY <1>1, <1>2, <2>2, <3>1, <3>2 DEF Kept
  <2> QED
    BY <2>1, <2>2
<1>4. ASSUME NEW q \in Proc, Found(pc[q], kind[q])' PROVE target'[q] \in stored'
  BY <1>1, <1>4 DEF LostInv, Found, opVars
<1>5. target' = target
  BY <1>1 DEF opVars
<1> QED
  BY <1>1, <1>2, <1>3, <1>4, <1>5 DEF LostInv

LEMMA CrashLosesNothing == ASSUME Inv, LostInv, NEW p \in Proc, Crash(p) PROVE LostInv'
<1>1. pc' = [pc EXCEPT ![p] = "dead"]
      /\ UNCHANGED <<diskVars, opVars, old, stored, removed>> /\ pc[p] # "idle"
  BY DEF Crash, Goto, history, Running, Idle
<1>2. ~Found("dead", kind[p]) /\ "dead" \in Stage
  BY StageFacts DEF Found, Reading, Writing
<1> QED
  BY <1>1, <1>2, QuietKeeps, StageFacts

LEMMA LostNext == Inv /\ LostInv /\ [Next]_vars => LostInv'
<1> SUFFICES ASSUME Inv, LostInv, [Next]_vars PROVE LostInv'
  OBVIOUS
<1>1. ASSUME NEW p \in Proc, Writes(p) PROVE LostInv'
  BY <1>1, QuietWrites, RenamesKeep, StepAsideLosesNothing, DropOldLosesNothing DEF Writes
<1>2. CASE UNCHANGED vars
  <2>1. UNCHANGED <<pc, diskVars, opVars, old, stored, removed>>
    BY <1>2 DEF vars, history
  <2>2. \A b \in stored : Kept(b)'
    BY <2>1 DEF LostInv, Kept, Keeps, Exists, Whole, diskVars, opVars
  <2> QED
    BY <2>1, <2>2 DEF LostInv, Found, Exists, diskVars, opVars
<1> QED
  BY <1>1, <1>2, StartsKeep, QuietReads, CrashLosesNothing, RemovalLosesNothing DEF Next

(* A block that was stored, or that an operation says it stored, split or   *)
(* copied, and that nobody removed, is at its path or whole beside it, for  *)
(* any number of processes and wherever they die or fail (split_block,      *)
(* save_block_content, create_block).                                       *)
THEOREM NothingIsLost == Spec => []NotLost
<1>1. LostInv => NotLost
  <2> SUFFICES ASSUME LostInv,
                      NEW b \in stored \cup {target[p] : p \in {q \in Proc : pc[q] = "ok"}}
               PROVE  \/ b \in removed \/ Exists(b)
                      \/ \E p \in Proc : target[p] = b /\ old[p] # None /\ Whole(b, old[p])
    BY DEF NotLost
  <2>1. b \in stored
    BY DEF LostInv, Found
  <2> QED
    BY <2>1 DEF LostInv, Kept, Keeps
<1> QED
  BY <1>1, LostInit, LostNext, InitInv, NextInv, PTL DEF Spec

-----------------------------------------------------------------------------
(***************************************************************************)
(* CopiesExact, for any processes, blocks and forms.  While nothing is     *)
(* removed or split, a block that is there stays there, and a directory    *)
(* keeps its form: what a copy has read at each item is the content up to  *)
(* the cut before that item.                                               *)
(***************************************************************************)

LEMMA PieceFacts ==
  ASSUME NEW c \in Seq(Nat), NEW x \in 0..Len(c), NEW y \in 0..Len(c), x <= y
  PROVE  /\ SubSeq(c, x + 1, y) \in Seq(Nat)
         /\ Len(SubSeq(c, x + 1, y)) = y - x
         /\ \A i \in 1..(y - x) : SubSeq(c, x + 1, y)[i] = c[x + i]
<1>1. x + 1 \in Int /\ y \in Int /\ \A i \in (x + 1)..y : c[i] \in Nat
  BY ElementOfSeq
<1>2. /\ SubSeq(c, x + 1, y) \in Seq(Nat)
      /\ Len(SubSeq(c, x + 1, y)) = IF x + 1 <= y THEN y - (x + 1) + 1 ELSE 0
      /\ \A i \in 1..(y - (x + 1) + 1) : SubSeq(c, x + 1, y)[i] = c[x + 1 + i - 1]
  BY <1>1, SubSeqProperties
<1>3. y - (x + 1) + 1 = y - x /\ \A i \in Nat : x + 1 + i - 1 = x + i
  OBVIOUS
<1> QED
  BY <1>2, <1>3

LEMMA CutMore ==
  ASSUME NEW c \in Seq(Nat), NEW x \in 0..Len(c), NEW y \in 0..Len(c), x <= y
  PROVE  SubSeq(c, 1, x) \o SubSeq(c, x + 1, y) = SubSeq(c, 1, y)
<1> DEFINE l == SubSeq(c, 1, x)
           r == SubSeq(c, x + 1, y)
           w == SubSeq(c, 1, y)
<1>1. x \in Nat /\ y \in Nat /\ 0 \in 0..Len(c) /\ 0 <= x /\ 0 <= y
  OBVIOUS
<1>2. l \in Seq(Nat) /\ Len(l) = x /\ \A i \in 1..x : l[i] = c[i]
  <2>1. /\ SubSeq(c, 0 + 1, x) \in Seq(Nat)
        /\ Len(SubSeq(c, 0 + 1, x)) = x - 0
        /\ \A i \in 1..(x - 0) : SubSeq(c, 0 + 1, x)[i] = c[0 + i]
    BY <1>1, PieceFacts
  <2>2. 0 + 1 = 1 /\ x - 0 = x /\ \A i \in 1..x : 0 + i = i
    BY <1>1
  <2> QED
    BY <2>1, <2>2
<1>3. r \in Seq(Nat) /\ Len(r) = y - x /\ \A i \in 1..(y - x) : r[i] = c[x + i]
  BY PieceFacts
<1>4. w \in Seq(Nat) /\ Len(w) = y /\ \A i \in 1..y : w[i] = c[i]
  <2>1. /\ SubSeq(c, 0 + 1, y) \in Seq(Nat)
        /\ Len(SubSeq(c, 0 + 1, y)) = y - 0
        /\ \A i \in 1..(y - 0) : SubSeq(c, 0 + 1, y)[i] = c[0 + i]
    BY <1>1, PieceFacts
  <2>2. 0 + 1 = 1 /\ y - 0 = y /\ \A i \in 1..y : 0 + i = i
    BY <1>1
  <2> QED
    BY <2>1, <2>2
<1> HIDE DEF l, r, w
<1>0. /\ l \o r \in Seq(Nat)
      /\ Len(l \o r) = Len(l) + Len(r)
      /\ \A i \in 1..(Len(l) + Len(r)) :
            (l \o r)[i] = IF i <= Len(l) THEN l[i] ELSE r[i - Len(l)]
  <2>1. l \in Seq(Nat) /\ r \in Seq(Nat)
    BY <1>2, <1>3
  <2> QED
    BY <2>1, ConcatProperties
<1>5. l \o r \in Seq(Nat) /\ Len(l \o r) = y
  BY <1>0, <1>1, <1>2, <1>3
<1>6. ASSUME NEW i \in 1..y PROVE (l \o r)[i] = w[i]
  <2>1. (l \o r)[i] = IF i <= x THEN l[i] ELSE r[i - x]
    <3>1. Len(l) = x /\ Len(r) = y - x /\ x + (y - x) = y
      BY <1>1, <1>2, <1>3
    <3>2. i \in 1..(Len(l) + Len(r))
      BY <1>6, <3>1
    <3> QED
      BY <1>0, <3>1, <3>2
  <2>2. CASE i <= x
    <3>1. i \in 1..x
      BY <1>1, <2>2
    <3> QED
      BY <1>2, <1>4, <2>1, <2>2, <3>1
  <2>3. CASE ~(i <= x)
    <3>1. i - x \in 1..(y - x) /\ x + (i - x) = i
      BY <1>1, <1>6, <2>3
    <3> QED
      BY <1>3, <1>4, <2>1, <2>3, <3>1
  <2> QED
    BY <2>2, <2>3
<1>7. l \o r = w
  BY <1>4, <1>5, <1>6, SeqEqual
<1> QED
  BY <1>7 DEF l, r, w

LEMMA CutFacts ==
  ASSUME NEW b \in Block, NEW s \in DOMAIN Layout[b], NEW cut \in Cuts(b, s)
  PROVE  /\ Content(b) \in Seq(Nat)
         /\ SubSeq(Content(b), 1, cut[0]) = <<>>
         /\ SubSeq(Content(b), 1, cut[Len(Layout[b][s])]) = Content(b)
         /\ \A i \in 1..Len(Layout[b][s]) :
              SubSeq(Content(b), 1, cut[i - 1]) \o Bytes(Layout[b][s][i])
                 = SubSeq(Content(b), 1, cut[i])
<1>1. Content(b) \in Seq(Nat)
  <2> DEFINE T == [block : Block \cup {None}, bytes : Seq(Nat)]
  <2>1. Layout[b][File] \in Seq(T) /\ Len(Layout[b][File]) = 1
    BY StoreAssumption
  <2> HIDE DEF T
  <2>2. Layout[b][File][1] \in T
    BY <2>1, ElementOfSeq
  <2> QED
    BY <2>2 DEF T, Content
<1> DEFINE c == Content(b)
           n == Len(Layout[b][s])
<1>2. n \in Nat /\ Len(c) \in Nat
  BY <1>1, FormFacts
<1>3. /\ cut \in [0..n -> 0..Len(c)] /\ cut[0] = 0 /\ cut[n] = Len(c)
      /\ \A i \in 1..n : /\ cut[i - 1] <= cut[i]
                         /\ Bytes(Layout[b][s][i]) = SubSeq(c, cut[i - 1] + 1, cut[i])
  BY DEF Cuts
<1> HIDE DEF c, n
<1>4. SubSeq(c, 1, cut[0]) = <<>>
  BY <1>3, SubSeqEmpty
<1>5. SubSeq(c, 1, cut[n]) = c
  <2>1. 0 \in 0..Len(c) /\ Len(c) \in 0..Len(c) /\ 0 <= Len(c) /\ 0 + 1 = 1
        /\ Len(c) - 0 = Len(c) /\ \A i \in 1..Len(c) : 0 + i = i
    BY <1>2
  <2>2. /\ SubSeq(c, 0 + 1, Len(c)) \in Seq(Nat)
        /\ Len(SubSeq(c, 0 + 1, Len(c))) = Len(c) - 0
        /\ \A i \in 1..(Len(c) - 0) : SubSeq(c, 0 + 1, Len(c))[i] = c[0 + i]
    BY <1>1, <2>1, PieceFacts DEF c
  <2>3. /\ SubSeq(c, 1, Len(c)) \in Seq(Nat) /\ Len(SubSeq(c, 1, Len(c))) = Len(c)
        /\ \A i \in 1..Len(c) : SubSeq(c, 1, Len(c))[i] = c[i]
    BY <2>1, <2>2
  <2>4. SubSeq(c, 1, Len(c)) = c
    BY <1>1, <2>3, SeqEqual DEF c
  <2> QED
    BY <1>3, <2>4
<1>6. ASSUME NEW i \in 1..n
      PROVE  SubSeq(c, 1, cut[i - 1]) \o Bytes(Layout[b][s][i]) = SubSeq(c, 1, cut[i])
  <2>1. i - 1 \in 0..n /\ i \in 0..n
    BY <1>2, <1>6
  <2>2. cut[i - 1] \in 0..Len(c) /\ cut[i] \in 0..Len(c) /\ cut[i - 1] <= cut[i]
    BY <1>3, <2>1
  <2>3. SubSeq(c, 1, cut[i - 1]) \o SubSeq(c, cut[i - 1] + 1, cut[i]) = SubSeq(c, 1, cut[i])
    BY <1>1, <2>2, CutMore DEF c
  <2> QED
    BY <1>3, <2>3
<1> QED
  BY <1>1, <1>4, <1>5, <1>6 DEF c, n

(* Two parts of one form have not the same number.                          *)
LEMMA PartHasItsNumber ==
  ASSUME NEW b \in Block, NEW s \in DOMAIN Layout[b],
         NEW i \in 1..Len(Layout[b][s]), IsPart(Layout[b][s][i])
  PROVE  Numbered(b, s, PartsIn(b, s, i)) = {i}
<1> DEFINE N(k) == {j \in 1..k : IsPart(Layout[b][s][j])}
<1>1. Len(Layout[b][s]) \in Nat
  BY FormFacts
<1>2. ASSUME NEW k \in Nat
      PROVE  IsFiniteSet(N(k)) /\ Cardinality(N(k)) \in Nat
  <2>1. IsFiniteSet(1..k)
    BY FS_Interval
  <2> QED
    BY <2>1, FS_Subset, FS_CardinalityType
<1>3. ASSUME NEW j \in 1..Len(Layout[b][s]), NEW k \in 1..Len(Layout[b][s]), j < k,
             IsPart(Layout[b][s][k])
      PROVE  Cardinality(N(j)) < Cardinality(N(k))
  <2>1. N(j) \subseteq N(k) /\ k \in N(k) /\ k \notin N(j)
    BY <1>1, <1>3
  <2>2. IsFiniteSet(N(k)) /\ N(j) # N(k)
    BY <1>1, <1>2, <2>1
  <2>3. j \in Nat /\ k \in Nat
    BY <1>1
  <2> HIDE DEF N
  <2>4. Cardinality(N(j)) <= Cardinality(N(k))
        /\ (Cardinality(N(j)) = Cardinality(N(k)) => N(j) = N(k))
    BY <2>1, <2>2, FS_Subset
  <2> QED
    BY <1>2, <2>2, <2>3, <2>4
<1>4. \A k : PartsIn(b, s, k) = Cardinality(N(k))
  BY DEF PartsIn
<1> HIDE DEF N
<1>5. ASSUME NEW j \in Numbered(b, s, PartsIn(b, s, i)) PROVE j = i
  <2>1. j \in 1..Len(Layout[b][s]) /\ IsPart(Layout[b][s][j])
        /\ Cardinality(N(j)) = Cardinality(N(i))
    BY <1>4, <1>5 DEF Numbered
  <2>2. i \in Nat /\ j \in Nat
    BY <1>1, <2>1
  <2>0. Cardinality(N(j)) \in Nat /\ Cardinality(N(i)) \in Nat
    BY <1>2, <2>2
  <2>3. ~(j < i)
    <3> SUFFICES ASSUME j < i PROVE FALSE
      OBVIOUS
    <3>1. Cardinality(N(j)) < Cardinality(N(i))
      BY <1>3, <2>1
    <3> QED
      BY <2>0, <2>1, <3>1
  <2>4. ~(i < j)
    <3> SUFFICES ASSUME i < j PROVE FALSE
      OBVIOUS
    <3>1. Cardinality(N(i)) < Cardinality(N(j))
      BY <1>3, <2>1
    <3> QED
      BY <2>0, <2>1, <3>1
  <2> QED
    BY <2>2, <2>3, <2>4
<1>6. i \in Numbered(b, s, PartsIn(b, s, i))
  BY DEF Numbered
<1> QED
  BY <1>5, <1>6

-----------------------------------------------------------------------------
(* What a copy of a directory knows at each stage, of block b in form s,    *)
(* with the reader at r and g read.                                         *)
CopyAt(stage, b, s, r, g) ==
    /\ stage \in Reading =>
        /\ stage # "file" /\ b \in Block /\ s \in DOMAIN Layout[b]
        /\ Exists(b) /\ final[b].shape = s
    /\ stage \in {"open", "list"} => g = <<>>
    /\ stage \in {"items", "nested"} =>
        /\ r.shape = s
        /\ r.at \in 1..(Len(Layout[b][s]) + 1)
        /\ \A cut \in Cuts(b, s) : g = SubSeq(Content(b), 1, cut[r.at - 1])
    /\ stage = "nested" =>
        /\ r.at <= Len(Layout[b][s])
        /\ ~IsPart(Layout[b][s][r.at])
        /\ Layout[b][s][r.at].block \in Block
        /\ Exists(Layout[b][s][r.at].block)
    /\ stage \in {"read", "ok"} => g = Content(b)

Undisturbed == \A p \in Proc : Running(p) /\ p \notin disturbed => removing = {}

FormsKnown == \A b \in Block : Exists(b) => final[b].shape \in DOMAIN Layout[b]

Copying(p) ==
    kind[p] = "copy" =>
        /\ pc[p] # "idle" => target[p] \in Block
        /\ IF shape[p] = File
             THEN pc[p] = "ok" => got[p] = Content(target[p])
             ELSE \/ p \in disturbed
                  \/ CopyAt(pc[p], target[p], shape[p], reading[p], got[p])

CopyInv ==
    /\ reading \in [Proc -> [shape : Shape, at : Nat]]
    /\ got = [q \in Proc |-> got[q]]
    /\ \A p \in Proc : pc[p] = "idle" => got[p] = <<>>
    /\ Undisturbed
    /\ FormsKnown
    /\ \A p \in Proc : Copying(p)

LEMMA CopyInit == Init => CopyInv
<1> SUFFICES ASSUME Init PROVE CopyInv
  OBVIOUS
<1>1. FormsKnown
  <2>1. PICK form \in [Block -> Shape \cup {None}] :
          /\ \A b \in Block : form[b] \in DOMAIN Layout[b] \cup {None}
          /\ final = [b \in Block |->
                       IF form[b] = None THEN None ELSE Complete(b, form[b])]
    BY DEF Init
  <2> QED
    BY <2>1 DEF FormsKnown, Exists, Complete
<1>2. reading \in [Proc -> [shape : Shape, at : Nat]] /\ got = [q \in Proc |-> got[q]]
      /\ \A p \in Proc : pc[p] = "idle" => got[p] = <<>>
  <2>1. got = [q \in Proc |-> <<>>]
    BY DEF Init
  <2>2. reading \in [Proc -> [shape : Shape, at : Nat]]
    BY StoreAssumption DEF Init
  <2>3. \A p \in Proc : got[p] = <<>>
    BY <2>1
  <2>4. [q \in Proc |-> got[q]] = [q \in Proc |-> <<>>]
    BY <2>3
  <2> QED
    BY <2>1, <2>2, <2>3, <2>4
<1>3. Undisturbed /\ \A p \in Proc : Copying(p)
  BY StoreAssumption DEF Init, Undisturbed, Running, Idle, Copying, CopyAt, Reading
<1> QED
  BY <1>1, <1>2, <1>3 DEF CopyInv

(* Who is not disturbed finds what was there, and a directory in its form.  *)
Calm ==
    /\ disturbed \subseteq disturbed'
    /\ \A q \in Proc : Running(q) /\ q \notin disturbed' =>
        /\ removing' = {}
        /\ \A b \in Block : Exists(b) =>
            Exists(b)' /\ (final[b].shape # File => final'[b] = final[b])

LEMMA QuietIsCalm ==
  ASSUME Inv, CopyInv, UNCHANGED diskVars, disturbed \subseteq disturbed'
  PROVE  Calm /\ FormsKnown'
BY DEF Calm, CopyInv, Undisturbed, FormsKnown, diskVars, Exists

LEMMA PutIsCalm ==
  ASSUME Inv, CopyInv, NEW b \in Block, NEW e \in Entry, e.shape \in DOMAIN Layout[b],
         Replaces(e, b), PutAt(b, e), UNCHANGED disturbed
  PROVE  Calm /\ FormsKnown'
<1>1. /\ final' = [final EXCEPT ![b] = e] /\ DOMAIN final = Block /\ e # None
      /\ removing' = removing \ {b}
  BY StoreAssumption DEF PutAt, Inv, Types
<1>2. FormsKnown'
  BY <1>1 DEF CopyInv, FormsKnown, Exists
<1>3. ASSUME NEW q \in Proc, Running(q), q \notin disturbed'
      PROVE  /\ removing' = {}
             /\ \A c \in Block : Exists(c) =>
                  Exists(c)' /\ (final[c].shape # File => final'[c] = final[c])
  <2>1. removing = {}
    BY <1>3 DEF CopyInv, Undisturbed
  <2>2. Exists(b) => final[b].shape = File
    BY <2>1 DEF Replaces, IsDirectory, Exists
  <2> QED
    BY <1>1, <2>1, <2>2 DEF Exists
<1> QED
  BY <1>2, <1>3 DEF Calm

LEMMA GoneIsCalm ==
  ASSUME Inv, CopyInv, NEW b \in Block, Disturb,
         final' = [final EXCEPT ![b] = None] \/ UNCHANGED final
  PROVE  Calm /\ FormsKnown'
<1>1. FormsKnown'
  BY DEF CopyInv, FormsKnown, Exists, Inv, Types
<1>2. disturbed \subseteq disturbed' /\ \A q \in Proc : Running(q) => q \in disturbed'
  BY DEF Disturb
<1> QED
  BY <1>1, <1>2 DEF Calm

LEMMA NextIsCalm ==
  ASSUME Inv, CopyInv, [Next]_vars PROVE Calm /\ FormsKnown'
<1>1. CASE UNCHANGED diskVars /\ disturbed \subseteq disturbed'
  BY <1>1, QuietIsCalm
<1>2. ASSUME NEW p \in Proc, Place(p) \/ SwapIn(p) PROVE Calm /\ FormsKnown'
  <2>1. CASE UNCHANGED diskVars
    BY <1>2, <2>1, QuietIsCalm DEF Place, SwapIn
  <2>2. CASE ~UNCHANGED diskVars
    <3>1. Replaces(tmp[p], target[p]) /\ PutAt(target[p], tmp[p]) /\ UNCHANGED disturbed
      BY <1>2, <2>2 DEF Place, SwapIn
    <3>2. /\ target[p] \in Block /\ tmp[p] \in Entry
          /\ tmp[p].shape \in DOMAIN Layout[target[p]]
      BY <1>2, Values DEF Place, SwapIn, Progress, Writing, Ready, Begun
    <3> QED
      BY <3>1, <3>2, PutIsCalm
  <2> QED
    BY <2>1, <2>2
<1>3. ASSUME NEW p \in Proc, PlacePayload(p) PROVE Calm /\ FormsKnown'
  <2>1. CASE UNCHANGED diskVars
    BY <1>3, <2>1, QuietIsCalm DEF PlacePayload
  <2>2. CASE ~UNCHANGED diskVars
    <3> DEFINE b == NextItem(p).block
    <3>1. b \in Block /\ sub[p] = Complete(b, File)
      BY <1>3, Values
         DEF PlacePayload, Progress, Writing, Payload, NextItem, NextOf
    <3>2. Replaces(sub[p], b) /\ PutAt(b, sub[p]) /\ UNCHANGED disturbed
      BY <1>3, <2>2 DEF PlacePayload
    <3> HIDE DEF b
    <3>3. sub[p] \in Entry /\ sub[p].shape \in DOMAIN Layout[b]
      BY <3>1, FileFacts
    <3> QED
      BY <3>1, <3>2, <3>3, PutIsCalm
  <2> QED
    BY <2>1, <2>2
<1>4. ASSUME NEW p \in Proc, StepAside(p) PROVE Calm /\ FormsKnown'
  <2>1. CASE ~Exists(target[p])
    BY <1>4, <2>1, QuietIsCalm DEF StepAside
  <2>2. CASE Exists(target[p])
    <3>1. Disturb /\ final' = [final EXCEPT ![target[p]] = None]
      BY <1>4, <2>2 DEF StepAside
    <3>2. target[p] \in Block
      BY <1>4, Values DEF StepAside, Progress, Writing, Ready, Begun
    <3> QED
      BY <3>1, <3>2, GoneIsCalm
  <2> QED
    BY <2>1, <2>2
<1>5. ASSUME NEW b \in Block, RemoveBlock(b) \/ RemovalEnds(b) PROVE Calm /\ FormsKnown'
  <2>1. Disturb /\ (final' = [final EXCEPT ![b] = None] \/ UNCHANGED final)
    BY <1>5 DEF RemoveBlock, RemovalEnds
  <2> QED
    BY <2>1, GoneIsCalm
<1>6. ASSUME NEW p \in Proc, Starts(p) PROVE UNCHANGED diskVars /\ disturbed \subseteq disturbed'
  BY <1>6 DEF Starts, BeginCreate, BeginCopy, BeginSave, BeginSplit, Begin
<1>7. ASSUME NEW p \in Proc, Reads(p) \/ Crash(p)
      PROVE  UNCHANGED diskVars /\ disturbed \subseteq disturbed'
  BY <1>7 DEF Reads, OpenBlock, ReadFile, LoadList, ReadPart, OpenNested, ReadNested,
              ReadEnds, CopyEnds, Crash, history
<1>8. ASSUME NEW p \in Proc, Writes(p),
             ~(Place(p) \/ SwapIn(p) \/ PlacePayload(p) \/ StepAside(p))
      PROVE  UNCHANGED diskVars /\ disturbed \subseteq disturbed'
  BY <1>8 DEF Writes, CreateCheck, CreateCheckAgain, WritePart, WriteBlock, WriteEnds,
              WriteRaises, WritePayload, CheckPayload, Verify, CheckLast, SplitRead,
              DropOld, history
<1>9. CASE UNCHANGED vars
  BY <1>9, <1>1 DEF vars, history
<1> QED
  BY <1>1, <1>2, <1>3, <1>4, <1>5, <1>6, <1>7, <1>8, <1>9 DEF Next

(* Another process steps.                                                   *)
Same(q) ==
    /\ pc'[q] = pc[q] /\ kind'[q] = kind[q] /\ target'[q] = target[q]
    /\ shape'[q] = shape[q] /\ reading'[q] = reading[q] /\ got'[q] = got[q]

LEMMA OthersCopy ==
  ASSUME Inv, CopyInv, Calm, NEW q \in Proc, Same(q) PROVE Copying(q)'
<1> SUFFICES ASSUME kind[q] = "copy", shape[q] # File, q \notin disturbed'
             PROVE  CopyAt(pc[q], target[q], shape[q], reading[q], got[q])'
  BY DEF Same, Copying, CopyInv
<1>1. CopyAt(pc[q], target[q], shape[q], reading[q], got[q])
  BY DEF CopyInv, Copying, Calm
<1>2. CASE pc[q] \in Reading
  <2>1. Running(q)
    BY <1>2 DEF Running, Idle, Reading
  <2>2. \A b \in Block : Exists(b) =>
            Exists(b)' /\ (final[b].shape # File => final'[b] = final[b])
    BY <2>1 DEF Calm
  <2>3. /\ target[q] \in Block /\ Exists(target[q]) /\ final[target[q]].shape = shape[q]
        /\ shape[q] \in DOMAIN Layout[target[q]]
    BY <1>1, <1>2 DEF CopyAt
  <2>4. Exists(target[q])' /\ final'[target[q]] = final[target[q]]
    BY <2>2, <2>3 DEF Same
  <2> QED
    BY <1>1, <1>2, <2>2, <2>3, <2>4 DEF CopyAt, Same
<1>3. CASE pc[q] \notin Reading
  BY <1>1, <1>3 DEF CopyAt, Same, Reading
<1> QED
  BY <1>2, <1>3

LEMMA CopyOwn ==
  ASSUME Inv, CopyInv, Calm, FormsKnown', NEW p \in Proc, \A q \in Proc \ {p} : Same(q),
         reading' \in [Proc -> [shape : Shape, at : Nat]], got' = [q \in Proc |-> got'[q]],
         pc'[p] = "idle" => got'[p] = <<>>,
         Running(p) \/ removing' = {} \/ p \in disturbed' \/ ~Running(p)',
         Copying(p)'
  PROVE  CopyInv'
<1>1. \A q \in Proc : Copying(q)'
  BY OthersCopy
<1>2. \A q \in Proc : pc'[q] = "idle" => got'[q] = <<>>
  BY DEF CopyInv, Same
<1>3. Undisturbed'
  <2> SUFFICES ASSUME NEW q \in Proc, Running(q)', q \notin disturbed' PROVE removing' = {}
    BY DEF Undisturbed
  <2>1. CASE Running(q)
    BY <2>1 DEF Calm
  <2>2. CASE ~Running(q)
    BY <2>2 DEF Same, Running
  <2> QED
    BY <2>1, <2>2
<1> QED
  BY <1>1, <1>2, <1>3 DEF CopyInv

(* Whoever is not copying learns nothing here.                              *)
LEMMA WritesCopy ==
  ASSUME Inv, BesideInv, CopyInv, Calm, FormsKnown', NEW p \in Proc,
         Writes(p) \/ Crash(p)
  PROVE  CopyInv'
<1>1. UNCHANGED <<opVars, readVars>> /\ Running(p)
  BY DEF Writes, CreateCheck, CreateCheckAgain, WritePart, WriteBlock, WriteEnds,
         WriteRaises, WritePayload, CheckPayload, PlacePayload, Verify, CheckLast,
         Place, SplitRead, StepAside, SwapIn, DropOld, Crash, Running, Idle
<1>2. /\ \A q \in Proc \ {p} : pc'[q] = pc[q]
      /\ pc'[p] # "idle"
  <2>1. CASE Fail(p)
    BY <2>1 DEF Fail, Goto, Inv, Types
  <2>2. CASE CreateCheck(p) \/ CreateCheckAgain(p) \/ WriteBlock(p) \/ WriteEnds(p)
    BY <2>1, <2>2, <1>1
    DEF CreateCheck, CreateCheckAgain, WriteBlock, WriteEnds, Goto, Inv, Types
  <2>3. CASE WritePart(p) \/ WriteRaises(p) \/ WritePayload(p) \/ CheckPayload(p)
    BY <2>1, <2>3, <1>1
    DEF WritePart, WriteRaises, WritePayload, CheckPayload, Goto, Inv, Types
  <2>4. CASE PlacePayload(p) \/ Verify(p) \/ CheckLast(p) \/ Place(p)
    BY <2>1, <2>4 DEF PlacePayload, Verify, CheckLast, Place, Goto, Inv, Types
  <2>5. CASE SplitRead(p) \/ StepAside(p) \/ SwapIn(p) \/ DropOld(p) \/ Crash(p)
    BY <2>1, <2>5 DEF SplitRead, StepAside, SwapIn, DropOld, Crash, Goto, Inv, Types
  <2> QED
    BY <2>1, <2>2, <2>3, <2>4, <2>5 DEF Writes
<1>3. kind[p] # "copy" \/ pc'[p] = "dead"
  <2>1. CASE Crash(p)
    BY <2>1 DEF Crash, Goto, Inv, Types
  <2>2. CASE Writes(p)
    <3>1. /\ pc[p] \in {"check", "check again"} \cup Writing => kind[p] # "copy"
          /\ pc[p] = "drop" => kind[p] # "copy"
      BY Values, Own DEF Progress, Beside
    <3>2. pc[p] \in {"check", "check again", "drop"} \cup Writing \/ SplitRead(p)
      BY <2>2
      DEF Writes, CreateCheck, CreateCheckAgain, WritePart, WriteBlock, WriteEnds,
          WriteRaises, WritePayload, CheckPayload, PlacePayload, Verify, CheckLast,
          Place, StepAside, SwapIn, DropOld, Writing, Payload, Ready
    <3> QED
      BY <3>1, <3>2 DEF SplitRead
  <2> QED
    BY <2>1, <2>2
<1>4. Copying(p)'
  <2>1. kind[p] = "copy" => target[p] \in Block
    BY <1>1 DEF CopyInv, Copying, Running, Idle
  <2> QED
    BY <1>1, <1>3, <2>1 DEF Copying, CopyAt, Reading, opVars
<1>5. /\ \A q \in Proc \ {p} : Same(q)
      /\ reading' \in [Proc -> [shape : Shape, at : Nat]] /\ got' = [q \in Proc |-> got'[q]]
  BY <1>1, <1>2 DEF Same, opVars, readVars, CopyInv
<1> QED
  BY <1>1, <1>2, <1>4, <1>5, CopyOwn

LEMMA StartsCopy ==
  ASSUME Inv, CopyInv, Calm, FormsKnown', NEW p \in Proc, Starts(p) PROVE CopyInv'
<1>1. PICK b \in Block :
        \/ BeginCreate(p, b)
        \/ BeginCopy(p, b)
        \/ \E s \in DOMAIN Layout[b] : BeginSave(p, b, s) \/ BeginSplit(p, b, s)
  BY DEF Starts
<1>2. \E k, s, to : Begin(p, k, b, s, to) /\ to # "idle" /\ (k = "copy" => BeginCopy(p, b))
  <2>1. CASE BeginCreate(p, b)
    BY <2>1 DEF BeginCreate
  <2>2. CASE BeginCopy(p, b)
    <3>1. \E s : Begin(p, "copy", b, s, "open")
      BY <2>2 DEF BeginCopy
    <3> QED
      BY <2>2, <3>1
  <2>3. ASSUME NEW s, BeginSave(p, b, s) \/ BeginSplit(p, b, s)
        PROVE  \E k, t, to : Begin(p, k, b, t, to) /\ to # "idle" /\ k # "copy"
    <3>1. Begin(p, "save", b, s, "write") \/ Begin(p, "split", b, s, "open")
      BY <2>3 DEF BeginSave, BeginSplit
    <3> QED
      BY <3>1
  <2> QED
    BY <1>1, <2>1, <2>2, <2>3
<1>3. /\ UNCHANGED <<diskVars, readVars>> /\ pc[p] = "idle"
      /\ removing = {} \/ p \in disturbed'
  BY <1>1, <1>2 DEF BeginCreate, BeginCopy, BeginSave, BeginSplit, Begin
<1>4. /\ \A q \in Proc \ {p} : Same(q)
      /\ reading' \in [Proc -> [shape : Shape, at : Nat]] /\ got' = [q \in Proc |-> got'[q]]
      /\ pc'[p] # "idle" /\ (kind'[p] = "copy" => BeginCopy(p, b))
  BY <1>2, <1>3 DEF Same, Begin, Goto, readVars, CopyInv, Inv, Types
<1>5. Copying(p)'
  <2> SUFFICES ASSUME kind'[p] = "copy" PROVE Copying(p)'
    BY DEF Copying
  <2>1. /\ pc'[p] = "open" /\ target'[p] = b
        /\ shape'[p] = IF Exists(b) THEN final[b].shape ELSE File
    BY <1>4 DEF BeginCopy, Begin, Goto, Inv, Types
  <2>2. got'[p] = <<>> /\ final' = final
    BY <1>3 DEF readVars, diskVars, CopyInv
  <2>3. shape'[p] # File => Exists(b) /\ shape'[p] = final[b].shape
                            /\ shape'[p] \in DOMAIN Layout[b]
    BY <2>1 DEF CopyInv, FormsKnown
  <2> QED
    BY <2>1, <2>2, <2>3 DEF Copying, CopyAt, Exists
<1>6. removing' = {} \/ p \in disturbed'
  BY <1>3 DEF diskVars
<1> QED
  BY <1>4, <1>5, <1>6, CopyOwn

(* A step of the reader of p, from one stage to the next.                   *)
LEMMA ReaderMoves ==
  ASSUME Inv, CopyInv, Calm, FormsKnown', NEW p \in Proc,
         pc[p] \in Reading, UNCHANGED <<diskVars, opVars>>,
         NEW stage \in Stage \ {"idle"}, pc' = [pc EXCEPT ![p] = stage],
         NEW r \in [shape : Shape, at : Nat], reading' = [reading EXCEPT ![p] = r],
         NEW g, got' = [got EXCEPT ![p] = g],
         ASSUME kind[p] = "copy", shape[p] = File, stage = "ok"
         PROVE  g = Content(target[p]),
         ASSUME kind[p] = "copy", shape[p] # File, p \notin disturbed',
                CopyAt(pc[p], target[p], shape[p], reading[p], got[p])
         PROVE  CopyAt(stage, target[p], shape[p], r, g)
  PROVE  CopyInv'
<1>1. /\ pc'[p] = stage /\ reading'[p] = r /\ got'[p] = g
      /\ \A q \in Proc \ {p} : Same(q)
      /\ reading' \in [Proc -> [shape : Shape, at : Nat]] /\ got' = [q \in Proc |-> got'[q]]
  BY DEF Same, opVars, CopyInv, Inv, Types
<1>2. Running(p)
  BY DEF Running, Idle, Reading
<1>3. Copying(p)'
  <2> SUFFICES ASSUME kind[p] = "copy" PROVE Copying(p)'
    BY DEF Copying, opVars
  <2>0. target[p] \in Block
    BY DEF CopyInv, Copying, Reading
  <2>1. CASE shape[p] = File
    BY <1>1, <2>0, <2>1 DEF Copying, opVars
  <2>2. CASE shape[p] # File /\ p \notin disturbed'
    <3>1. CopyAt(pc[p], target[p], shape[p], reading[p], got[p])
      BY <2>2 DEF CopyInv, Copying, Calm
    <3>2. CopyAt(stage, target[p], shape[p], r, g)
      BY <2>2, <3>1
    <3> QED
      BY <1>1, <2>0, <2>2, <3>2 DEF Copying, CopyAt, opVars, diskVars, Exists
  <2>3. CASE shape[p] # File /\ p \in disturbed'
    BY <2>0, <2>3 DEF Copying, opVars
  <2> QED
    BY <2>1, <2>2, <2>3
<1> QED
  BY <1>1, <1>2, <1>3, CopyOwn

LEMMA FailCopies ==
  ASSUME Inv, CopyInv, Calm, FormsKnown', NEW p \in Proc,
         pc[p] \in Reading, UNCHANGED <<diskVars, opVars, readVars>>, Fail(p)
  PROVE  CopyInv'
<1>1. /\ pc' = [pc EXCEPT ![p] = "failed"] /\ "failed" \in Stage \ {"idle"}
      /\ reading[p] \in [shape : Shape, at : Nat]
      /\ reading' = [reading EXCEPT ![p] = reading[p]] /\ got' = [got EXCEPT ![p] = got[p]]
  BY DEF Fail, Goto, Stage, Idle, readVars, CopyInv
<1>2. CopyAt("failed", target[p], shape[p], reading[p], got[p])
  BY DEF CopyAt, Reading
<1> QED
  BY <1>1, <1>2, ReaderMoves

(* The item a reader of a directory is at.                                  *)
LEMMA ReachedFacts ==
  ASSUME NEW p \in Proc, NEW stage, stage \in {"items", "nested"},
         CopyAt(stage, target[p], shape[p], reading[p], got[p]), ~PastEnd(p)
  PROVE  /\ target[p] \in Block /\ shape[p] \in DOMAIN Layout[target[p]]
         /\ reading[p].at \in 1..Len(Layout[target[p]][shape[p]])
         /\ Reached(p) = Layout[target[p]][shape[p]][reading[p].at]
         /\ reading[p].shape = shape[p]
         /\ Exists(target[p]) /\ final[target[p]].shape = shape[p]
<1>1. /\ target[p] \in Block /\ shape[p] \in DOMAIN Layout[target[p]]
      /\ reading[p].shape = shape[p]
      /\ reading[p].at \in 1..(Len(Layout[target[p]][shape[p]]) + 1)
      /\ Exists(target[p]) /\ final[target[p]].shape = shape[p]
  BY DEF CopyAt, Reading
<1>2. Len(Layout[target[p]][shape[p]]) \in Nat
  BY <1>1, FormFacts
<1> QED
  BY <1>1, <1>2 DEF PastEnd, Sought, Reached

(* One item has been read.                                                  *)
LEMMA ItemCopied ==
  ASSUME NEW p \in Proc, NEW stage, stage \in {"items", "nested"},
         reading[p] \in [shape : Shape, at : Nat],
         CopyAt(stage, target[p], shape[p], reading[p], got[p]), ~PastEnd(p)
  PROVE  CopyAt("items", target[p], shape[p], [reading[p] EXCEPT !.at = @ + 1],
                got[p] \o Bytes(Reached(p)))
<1> DEFINE b == target[p]
           s == shape[p]
           n == reading[p].at
           r == [reading[p] EXCEPT !.at = @ + 1]
           g == got[p] \o Bytes(Reached(p))
<1>1. /\ b \in Block /\ s \in DOMAIN Layout[b] /\ n \in 1..Len(Layout[b][s])
      /\ Reached(p) = Layout[b][s][n] /\ reading[p].shape = s
      /\ Exists(b) /\ final[b].shape = s
  BY ReachedFacts
<1>2. Len(Layout[b][s]) \in Nat
  BY <1>1, FormFacts
<1>3. r.shape = s /\ r.at = n + 1 /\ r.at \in 1..(Len(Layout[b][s]) + 1)
      /\ r.at - 1 = n
  <2>1. r.shape = reading[p].shape /\ r.at = n + 1
    OBVIOUS
  <2>2. n \in Nat /\ n + 1 \in 1..(Len(Layout[b][s]) + 1) /\ (n + 1) - 1 = n
    BY <1>1, <1>2
  <2> HIDE DEF r, n, b, s
  <2> QED
    BY <1>1, <2>1, <2>2
<1>4. ASSUME NEW cut \in Cuts(b, s) PROVE g = SubSeq(Content(b), 1, cut[r.at - 1])
  <2>1. got[p] = SubSeq(Content(b), 1, cut[n - 1])
    BY <1>4 DEF CopyAt
  <2>2. SubSeq(Content(b), 1, cut[n - 1]) \o Bytes(Layout[b][s][n])
          = SubSeq(Content(b), 1, cut[n])
    BY <1>1, <1>4, CutFacts
  <2> QED
    BY <1>1, <1>3, <2>1, <2>2
<1>5. b \in Block /\ s \in DOMAIN Layout[b] /\ Exists(b) /\ final[b].shape = s
  BY <1>1
<1> HIDE DEF b, s, n, r, g
<1>6. CopyAt("items", b, s, r, g)
  BY <1>3, <1>4, <1>5 DEF CopyAt, Reading
<1> QED
  BY <1>6 DEF b, s, r, g

LEMMA ReadsCopy ==
  ASSUME Inv, CopyInv, Calm, FormsKnown', NEW p \in Proc, Reads(p) PROVE CopyInv'
<1>1. pc[p] \in Reading /\ UNCHANGED <<diskVars, opVars>>
  BY DEF Reads, OpenBlock, ReadFile, LoadList, ReadPart, OpenNested, ReadNested,
         ReadEnds, CopyEnds, Reading
<1>2. /\ reading[p] \in [shape : Shape, at : Nat]
      /\ reading = [reading EXCEPT ![p] = reading[p]]
      /\ got = [got EXCEPT ![p] = got[p]]
      /\ [reading[p] EXCEPT !.at = @ + 1] \in [shape : Shape, at : Nat]
  BY DEF CopyInv
<1>3. {"list", "file", "items", "nested", "read", "ok"} \subseteq Stage \ {"idle"}
  BY DEF Stage, Idle, Reading
<1>9. target[p] \in Block
  <2>1. kind[p] # "copy" => target[p] \in Block
    BY <1>1, Values DEF Progress, Begun
  <2> QED
    BY <1>1, <2>1 DEF CopyInv, Copying, Reading
<1>4. CASE OpenBlock(p)
  <2>1. UNCHANGED readVars /\ pc[p] = "open"
    BY <1>4 DEF OpenBlock
  <2>2. CASE Fail(p)
    BY <1>1, <2>1, <2>2, FailCopies
  <2>3. CASE ~Fail(p)
    <3> DEFINE e == final[target[p]]
    <3>1. PICK stage \in {"list", "file"} :
            /\ pc' = [pc EXCEPT ![p] = stage]
            /\ IsDirectory(e) => stage = "list"
      BY <1>4, <2>3 DEF OpenBlock, Goto
    <3>2. ASSUME shape[p] # File,
                 CopyAt(pc[p], target[p], shape[p], reading[p], got[p])
          PROVE  CopyAt(stage, target[p], shape[p], reading[p], got[p])
      <4>1. IsDirectory(e)
        BY <2>1, <3>2 DEF CopyAt, Reading, IsDirectory, Exists
      <4>2. stage = "list"
        BY <3>1, <4>1
      <4> QED
        BY <2>1, <3>2, <4>2 DEF CopyAt, Reading
    <3> HIDE DEF e
    <3>3. reading' = [reading EXCEPT ![p] = reading[p]] /\ got' = [got EXCEPT ![p] = got[p]]
      BY <1>2, <2>1 DEF readVars
    <3>4. stage \in Stage \ {"idle"} /\ stage # "ok"
      BY <1>3
    <3> QED
      BY <1>1, <1>2, <3>1, <3>2, <3>3, <3>4, ReaderMoves
  <2> QED
    BY <2>2, <2>3
<1>5. CASE ReadFile(p)
  <2>1. pc[p] = "file" /\ pc' = [pc EXCEPT ![p] = "read"] /\ reading' = reading
    BY <1>5 DEF ReadFile, Goto
  <2>2. PICK g : got' = [got EXCEPT ![p] = g]
    BY <1>5 DEF ReadFile, Gets
  <2>3. ASSUME CopyAt(pc[p], target[p], shape[p], reading[p], got[p])
        PROVE  CopyAt("read", target[p], shape[p], reading[p], g)
    BY <2>1, <2>3 DEF CopyAt, Reading
  <2>4. reading' = [reading EXCEPT ![p] = reading[p]] /\ "read" \in Stage \ {"idle"}
        /\ "read" # "ok" /\ reading[p] \in [shape : Shape, at : Nat]
    BY <1>2, <1>3, <2>1
  <2> QED
    BY <1>1, <1>2, <2>1, <2>2, <2>3, <2>4, ReaderMoves
<1>6. CASE LoadList(p)
  <2>1. CASE Fail(p)
    <3>1. UNCHANGED readVars
      BY <1>6, <2>1 DEF LoadList, Fail, Goto, readVars, Inv, Types
    <3> QED
      BY <1>1, <2>1, <3>1, FailCopies
  <2>2. CASE ~Fail(p)
    <3> DEFINE e == final[target[p]]
               r == [shape |-> e.shape, at |-> 1]
    <3>1. /\ pc[p] = "list" /\ pc' = [pc EXCEPT ![p] = "items"] /\ IsDirectory(e)
          /\ reading' = [reading EXCEPT ![p] = r] /\ got' = got
      BY <1>6, <2>2 DEF LoadList, Goto
    <3>2. target[p] \in Block
      BY <1>1, <1>9
    <3>3. CopyInv'
      <4>1. r \in [shape : Shape, at : Nat]
        BY <3>1, <3>2 DEF Inv, Types, Aside, Entry, IsDirectory
      <4>2. ASSUME CopyAt(pc[p], target[p], shape[p], reading[p], got[p])
            PROVE  CopyAt("items", target[p], shape[p], r, got[p])
        <5>1. /\ target[p] \in Block /\ shape[p] \in DOMAIN Layout[target[p]]
              /\ Exists(target[p]) /\ e.shape = shape[p] /\ got[p] = <<>>
          BY <3>1, <4>2 DEF CopyAt, Reading
        <5>2. Len(Layout[target[p]][shape[p]]) \in Nat
          BY <5>1, FormFacts
        <5>3. r.shape = shape[p] /\ r.at = 1 /\ r.at - 1 = 0
              /\ r.at \in 1..(Len(Layout[target[p]][shape[p]]) + 1)
          BY <5>1, <5>2
        <5>4. ASSUME NEW cut \in Cuts(target[p], shape[p])
              PROVE  got[p] = SubSeq(Content(target[p]), 1, cut[r.at - 1])
          <6>1. SubSeq(Content(target[p]), 1, cut[0]) = <<>>
            BY <5>1, <5>4, CutFacts
          <6> QED
            BY <5>1, <5>3, <6>1
        <5> HIDE DEF r
        <5> QED
          BY <5>1, <5>3, <5>4 DEF CopyAt, Reading
      <4>3. got' = [got EXCEPT ![p] = got[p]] /\ "items" \in Stage \ {"idle"}
        BY <1>2, <1>3, <3>1
      <4> HIDE DEF r, e
      <4> QED
        BY <1>1, <3>1, <4>1, <4>2, <4>3, ReaderMoves
    <3> QED
      BY <3>3
  <2> QED
    BY <2>1, <2>2
<1>13. /\ "items" \in Stage \ {"idle"} /\ "items" # "ok"
       /\ "nested" \in Stage \ {"idle"} /\ "nested" # "ok"
       /\ "read" \in Stage \ {"idle"} /\ "read" # "ok"
  BY <1>3
<1>7. CASE ReadPart(p)
  <2> DEFINE b == target[p]
             r == [reading[p] EXCEPT !.at = @ + 1]
  <2>1. /\ pc[p] = "items" /\ ~PastEnd(p) /\ IsPart(Reached(p)) /\ pc' = pc
        /\ reading' = [reading EXCEPT ![p] = r]
    BY <1>7 DEF ReadPart, OnToNext
  <2>2. PICK g : /\ got' = [got EXCEPT ![p] = g]
                 /\ \/ \E i \in Numbered(b, final[b].shape,
                                  PartsIn(b, reading[p].shape, reading[p].at)) :
                         /\ IsDirectory(final[b])
                         /\ g = got[p] \o Layout[b][final[b].shape][i].bytes
                    \/ b \in removing
                    \/ /\ IsDirectory(final[b])
                       /\ Numbered(b, final[b].shape,
                             PartsIn(b, reading[p].shape, reading[p].at)) = {}
                    \/ ~IsDirectory(final[b])
    <3>1. CASE UNCHANGED got
      BY <1>2, <1>7, <3>1 DEF ReadPart, Gets
    <3>2. CASE ~UNCHANGED got
      BY <1>7, <3>2 DEF ReadPart, Gets
    <3> QED
      BY <3>1, <3>2
  <2>3. ASSUME shape[p] # File, p \notin disturbed',
               CopyAt(pc[p], target[p], shape[p], reading[p], got[p])
        PROVE  CopyAt("items", target[p], shape[p], r, g)
    <3>1. /\ b \in Block /\ shape[p] \in DOMAIN Layout[b]
          /\ reading[p].at \in 1..Len(Layout[b][shape[p]])
          /\ Reached(p) = Layout[b][shape[p]][reading[p].at]
          /\ reading[p].shape = shape[p]
          /\ Exists(b) /\ final[b].shape = shape[p]
      BY <2>1, <2>3, ReachedFacts
    <3>2. removing = {} /\ IsDirectory(final[b])
      BY <1>1, <2>3, <3>1
      DEF CopyInv, Undisturbed, Calm, Running, Idle, Reading, IsDirectory, Exists
    <3>3. Numbered(b, shape[p], PartsIn(b, shape[p], reading[p].at)) = {reading[p].at}
      BY <2>1, <3>1, PartHasItsNumber
    <3>4. g = got[p] \o Bytes(Reached(p))
      BY <2>1, <2>2, <3>1, <3>2, <3>3 DEF Bytes
    <3> QED
      BY <1>2, <2>1, <2>3, <3>4, ItemCopied
  <2>4. r \in [shape : Shape, at : Nat] /\ pc' = [pc EXCEPT ![p] = "items"]
    BY <1>2, <2>1, Values
  <2> HIDE DEF r
  <2> QED
    BY <1>1, <1>13, <2>1, <2>2, <2>3, <2>4, ReaderMoves
<1>8. CASE OpenNested(p)
  <2>1. UNCHANGED readVars /\ pc[p] = "items" /\ ~PastEnd(p) /\ ~IsPart(Reached(p))
    BY <1>8 DEF OpenNested
  <2>2. CASE Fail(p)
    BY <1>1, <2>1, <2>2, FailCopies
  <2>3. CASE ~Fail(p)
    <3>1. pc' = [pc EXCEPT ![p] = "nested"] /\ Exists(Reached(p).block)
      BY <1>8, <2>3 DEF OpenNested, Goto
    <3>2. ASSUME CopyAt(pc[p], target[p], shape[p], reading[p], got[p])
          PROVE  CopyAt("nested", target[p], shape[p], reading[p], got[p])
      <4>1. /\ target[p] \in Block /\ shape[p] \in DOMAIN Layout[target[p]]
            /\ reading[p].at \in 1..Len(Layout[target[p]][shape[p]])
            /\ Reached(p) = Layout[target[p]][shape[p]][reading[p].at]
        BY <2>1, <3>2, ReachedFacts
      <4>2. Reached(p).block \in Block /\ Len(Layout[target[p]][shape[p]]) \in Nat
        BY <2>1, <4>1, FormFacts DEF IsPart
      <4> DEFINE b == target[p]
                 s == shape[p]
                 r == reading[p]
      <4>3. /\ ~IsPart(Layout[b][s][r.at]) /\ Layout[b][s][r.at].block \in Block
            /\ Exists(Layout[b][s][r.at].block) /\ r.at <= Len(Layout[b][s])
        <5>1. ~IsPart(Layout[b][s][r.at])
          BY <2>1, <4>1
        <5>2. Layout[b][s][r.at].block \in Block
          BY <4>1, <4>2
        <5>3. Exists(Layout[b][s][r.at].block)
          BY <3>1, <4>1
        <5>4. r.at <= Len(Layout[b][s])
          BY <4>1, <4>2
        <5> QED
          BY <5>1, <5>2, <5>3, <5>4
      <4>4. CopyAt("items", b, s, r, got[p])
        BY <2>1, <3>2
      <4> HIDE DEF b, s, r
      <4>5. CopyAt("nested", b, s, r, got[p])
        BY <4>3, <4>4 DEF CopyAt, Reading
      <4> QED
        BY <4>5 DEF b, s, r
    <3>3. reading' = [reading EXCEPT ![p] = reading[p]] /\ got' = [got EXCEPT ![p] = got[p]]
          /\ reading[p] \in [shape : Shape, at : Nat]
      BY <1>2, <2>1 DEF readVars
    <3> QED
      BY <1>1, <1>13, <3>1, <3>2, <3>3, ReaderMoves
  <2> QED
    BY <2>2, <2>3
<1>10. CASE ReadNested(p)
  <2> DEFINE r == [reading[p] EXCEPT !.at = @ + 1]
             g == got[p] \o (IF Exists(Reached(p).block) THEN Content(Reached(p).block)
                                                         ELSE <<>>)
  <2>1. /\ pc[p] = "nested" /\ pc' = [pc EXCEPT ![p] = "items"]
        /\ reading' = [reading EXCEPT ![p] = r]
        /\ got' = [got EXCEPT ![p] = g]
    BY <1>10 DEF ReadNested, OnToNext, Goto, Gets
  <2>2. ASSUME CopyAt(pc[p], target[p], shape[p], reading[p], got[p])
        PROVE  CopyAt("items", target[p], shape[p], r, g)
    <3>1. ~PastEnd(p)
      <4>1. /\ target[p] \in Block /\ shape[p] \in DOMAIN Layout[target[p]]
            /\ reading[p].at <= Len(Layout[target[p]][shape[p]])
            /\ reading[p].shape = shape[p] /\ reading[p].at \in Nat
        BY <1>2, <2>1, <2>2 DEF CopyAt, Reading
      <4>2. Len(Layout[target[p]][shape[p]]) \in Nat
        BY <4>1, FormFacts
      <4> QED
        BY <4>1, <4>2 DEF PastEnd, Sought
    <3>2. Reached(p) = Layout[target[p]][shape[p]][reading[p].at]
      BY <2>1, <2>2, <3>1, ReachedFacts
    <3>3. g = got[p] \o Bytes(Reached(p))
      BY <2>1, <2>2, <3>2 DEF CopyAt, Bytes
    <3> HIDE DEF g
    <3> QED
      BY <1>2, <2>1, <2>2, <3>1, <3>3, ItemCopied
  <2>3. r \in [shape : Shape, at : Nat]
    BY <1>2
  <2> HIDE DEF r, g
  <2> QED
    BY <1>1, <1>13, <2>1, <2>2, <2>3, ReaderMoves
<1>11. CASE ReadEnds(p)
  <2>1. /\ pc[p] = "items" /\ PastEnd(p) /\ pc' = [pc EXCEPT ![p] = "read"]
        /\ UNCHANGED readVars
    BY <1>11 DEF ReadEnds, Goto
  <2>2. ASSUME CopyAt(pc[p], target[p], shape[p], reading[p], got[p])
        PROVE  CopyAt("read", target[p], shape[p], reading[p], got[p])
    <3> DEFINE n == Len(Layout[target[p]][shape[p]])
    <3>1. /\ target[p] \in Block /\ shape[p] \in DOMAIN Layout[target[p]]
          /\ reading[p].shape = shape[p] /\ reading[p].at \in 1..(n + 1)
          /\ Exists(target[p]) /\ final[target[p]].shape = shape[p]
          /\ \A cut \in Cuts(target[p], shape[p]) :
                got[p] = SubSeq(Content(target[p]), 1, cut[reading[p].at - 1])
      BY <2>1, <2>2 DEF CopyAt, Reading
    <3>2. n \in Nat
      BY <3>1, FormFacts
    <3>3. reading[p].at - 1 = n
      <4>1. reading[p].at > n
        BY <2>1, <3>1 DEF PastEnd, Sought
      <4> HIDE DEF n
      <4> QED
        BY <3>1, <3>2, <4>1
    <3>4. PICK cut : cut \in Cuts(target[p], shape[p])
      BY <3>1, ContentAssumption
    <3>5. got[p] = Content(target[p])
      BY <3>1, <3>3, <3>4, CutFacts
    <3> QED
      BY <3>1, <3>5 DEF CopyAt, Reading
  <2>3. reading' = [reading EXCEPT ![p] = reading[p]] /\ got' = [got EXCEPT ![p] = got[p]]
        /\ reading[p] \in [shape : Shape, at : Nat]
    BY <1>2, <2>1 DEF readVars
  <2> QED
    BY <1>1, <1>13, <2>1, <2>2, <2>3, ReaderMoves
<1>12. CASE CopyEnds(p)
  <2>1. UNCHANGED readVars /\ pc[p] = "read"
    BY <1>12 DEF CopyEnds
  <2>2. CASE Fail(p)
    BY <1>1, <2>1, <2>2, FailCopies
  <2>3. CASE ~Fail(p)
    <3>1. pc' = [pc EXCEPT ![p] = "ok"]
          /\ (shape[p] = File => got[p] = Content(target[p]))
      BY <1>12, <2>3 DEF CopyEnds, Goto
    <3>2. ASSUME CopyAt(pc[p], target[p], shape[p], reading[p], got[p])
          PROVE  CopyAt("ok", target[p], shape[p], reading[p], got[p])
      BY <2>1, <3>2 DEF CopyAt, Reading
    <3>3. reading' = [reading EXCEPT ![p] = reading[p]] /\ got' = [got EXCEPT ![p] = got[p]]
          /\ reading[p] \in [shape : Shape, at : Nat] /\ "ok" \in Stage \ {"idle"}
      BY <1>2, <1>3, <2>1 DEF readVars
    <3> QED
      BY <1>1, <3>1, <3>2, <3>3, ReaderMoves
  <2> QED
    BY <2>2, <2>3
<1> QED
  BY <1>4, <1>5, <1>6, <1>7, <1>8, <1>10, <1>11, <1>12 DEF Reads

LEMMA CopyNext == Inv /\ BesideInv /\ CopyInv /\ [Next]_vars => CopyInv'
<1> SUFFICES ASSUME Inv, BesideInv, CopyInv, [Next]_vars PROVE CopyInv'
  OBVIOUS
<1>1. Calm /\ FormsKnown'
  BY NextIsCalm
<1>2. ASSUME NEW p \in Proc, Starts(p) \/ Writes(p) \/ Reads(p) \/ Crash(p)
      PROVE  CopyInv'
  BY <1>1, <1>2, StartsCopy, WritesCopy, ReadsCopy
<1>3. CASE \E b \in Block : RemoveBlock(b) \/ RemovalEnds(b)
  <2>1. UNCHANGED <<pc, opVars, readVars>>
    BY <1>3 DEF RemoveBlock, RemovalEnds
  <2>2. \A q \in Proc : Same(q)
    BY <2>1 DEF Same, opVars, readVars
  <2>3. \A q \in Proc : Running(q)' => Running(q)
    BY <2>1 DEF Running
  <2>4. \A q \in Proc : Copying(q)'
    BY <1>1, <2>2, OthersCopy
  <2>5. Undisturbed'
    BY <1>1, <2>3 DEF Calm, Undisturbed
  <2> QED
    BY <1>1, <2>1, <2>4, <2>5 DEF CopyInv, readVars
<1>4. CASE UNCHANGED vars
  <2>1. UNCHANGED <<pc, opVars, readVars, disturbed, removing>>
    BY <1>4 DEF vars, diskVars, history
  <2>2. \A q \in Proc : Same(q)
    BY <2>1 DEF Same, opVars, readVars
  <2>3. \A q \in Proc : Copying(q)'
    BY <1>1, <2>2, OthersCopy
  <2>4. Undisturbed'
    BY <2>1 DEF CopyInv, Undisturbed, Running
  <2> QED
    BY <1>1, <2>1, <2>3, <2>4 DEF CopyInv, readVars
<1> QED
  BY <1>2, <1>3, <1>4 DEF Next

(* copy_block_if_exists that returns True has written exactly the block's   *)
(* content: always if the block was a file, whose hash it compares, and if  *)
(* it was a directory, unless something was removed or split as it read.    *)
THEOREM CopiesAreExact == Spec => []CopiesExact
<1>1. CopyInv => CopiesExact
  BY DEF CopyInv, Copying, CopyAt, CopiesExact
<1>2. Spec => [](Inv /\ BesideInv /\ CopyInv)
  BY InitInv, NextInv, BesideInit, BesideNext, CopyInit, CopyNext, PTL DEF Spec
<1> QED
  BY <1>1, <1>2, PTL
=============================================================================
