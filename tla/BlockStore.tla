----------------------------- MODULE BlockStore -----------------------------
(***************************************************************************)
(* The block directory as files and directories, and the operations that   *)
(* several processes run on it at a time: create_block (by a copy or a     *)
(* move), save_block_content, split_block, copy_block_if_exists, and the   *)
(* removal of a block by the documented rm -rf or by modify_env.  A step   *)
(* is one access to the directory; a process may die between any two.      *)
(*                                                                         *)
(* A block has a content, a sequence of pieces, and forms: the one file,   *)
(* and directories of parts with blocks between them.  An entry on disk is *)
(* as much of a form as has been written, `good` if from the right bytes.  *)
(***************************************************************************)
EXTENDS Naturals, FiniteSets, SequencesExt

CONSTANTS
    Proc,      \* the processes
    Block,     \* the block ids
    Shape,     \* the forms a block can have
    File,      \* the form that is one file
    Layout,    \* block -> form -> its items, in order
    None

(* An item is a part, which has its bytes, or a block.                      *)
IsPart(item) == item.block = None

(* What is on disk: a form, how many of its items, from which bytes.        *)
Entry == [shape : Shape, done : Nat, good : BOOLEAN]

ASSUME StoreAssumption ==
    /\ File \in Shape
    /\ None \notin Shape \cup Block \cup Entry
    /\ \A b \in Block :
        /\ File \in DOMAIN Layout[b]
        /\ DOMAIN Layout[b] \subseteq Shape
        /\ Len(Layout[b][File]) = 1
        /\ \A s \in DOMAIN Layout[b] :
            /\ Layout[b][s] \in Seq([block : Block \cup {None}, bytes : Seq(Nat)])
            /\ Layout[b][s] # <<>>

Content(b) == Layout[b][File][1].bytes

Bytes(item) == IF IsPart(item) THEN item.bytes ELSE Content(item.block)

(* The items of each form, one after the other, are the content.            *)
Cuts(b, s) ==
    {cut \in [0..Len(Layout[b][s]) -> 0..Len(Content(b))] :
        /\ cut[0] = 0
        /\ cut[Len(Layout[b][s])] = Len(Content(b))
        /\ \A i \in 1..Len(Layout[b][s]) :
            /\ cut[i - 1] <= cut[i]
            /\ Bytes(Layout[b][s][i]) = SubSeq(Content(b), cut[i - 1] + 1, cut[i])}

ASSUME ContentAssumption ==
    \A b \in Block : \A s \in DOMAIN Layout[b] : Cuts(b, s) # {}

VARIABLES
    final,     \* what is at the path of each block
    pc,        \* where each process stands
    kind,      \* what it does: "create", "save", "split", "copy"
    target,    \* to which block
    shape,     \* in which form
    tmp,       \* its temporary file or directory
    old,       \* where split_block puts the former form
    sub,       \* the temporary file of a payload
    reading,   \* what its reader is at: form loaded and next item
    got,       \* the bytes its reader gave
    removing,  \* the blocks being removed
    \* History:
    stored,    \* the blocks that were ever stored
    removed,   \* the blocks that were ever removed
    disturbed  \* the processes while which a block was split or removed

diskVars == <<final, removing>>
opVars   == <<kind, target, shape>>
readVars == <<reading, got>>
history  == <<stored, removed, disturbed>>
vars == <<pc, diskVars, opVars, tmp, old, sub, readVars, history>>

New(s, good)  == [shape |-> s, done |-> 0, good |-> good]
Complete(b, s) == [shape |-> s, done |-> Len(Layout[b][s]), good |-> TRUE]

Exists(b)      == final[b] # None
IsDirectory(e) == e # None /\ e.shape # File
Whole(b, e)    == e.good /\ e.done = Len(Layout[b][e.shape])

Idle     == {"idle", "ok", "failed"}
Running(p) == pc[p] \notin Idle \cup {"dead"}

Init ==
    /\ \E form \in [Block -> Shape \cup {None}] :
        /\ \A b \in Block : form[b] \in DOMAIN Layout[b] \cup {None}
        /\ final = [b \in Block |->
                     IF form[b] = None THEN None ELSE Complete(b, form[b])]
    /\ pc = [p \in Proc |-> "idle"]
    /\ kind = [p \in Proc |-> None]
    /\ target = [p \in Proc |-> None]
    /\ shape = [p \in Proc |-> File]
    /\ tmp = [p \in Proc |-> None]
    /\ old = [p \in Proc |-> None]
    /\ sub = [p \in Proc |-> None]
    /\ reading = [p \in Proc |-> [shape |-> File, at |-> 1]]
    /\ got = [p \in Proc |-> <<>>]
    /\ removing = {}
    /\ stored = {b \in Block : Exists(b)}
    /\ removed = {}
    /\ disturbed = {}

Goto(p, to) == pc' = [pc EXCEPT ![p] = to]

(* An operation ends in an exception; what it wrote aside is removed.  Not  *)
(* so the former form that split_block has put aside.                       *)
Fail(p) ==
    /\ Goto(p, "failed")
    /\ tmp' = [tmp EXCEPT ![p] = None]
    /\ sub' = [sub EXCEPT ![p] = None]

Begin(p, what, b, s, first) ==
    /\ pc[p] = "idle"
    /\ Goto(p, first)
    /\ kind' = [kind EXCEPT ![p] = what]
    /\ target' = [target EXCEPT ![p] = b]
    /\ shape' = [shape EXCEPT ![p] = s]
    /\ disturbed' = IF removing = {} THEN disturbed ELSE disturbed \cup {p}
    /\ UNCHANGED <<stored, removed>>

(* Mutant of Replaces: whatever is there makes way.                         *)
ReplacesAll(e, b) == TRUE

(* os.replace onto a block's path: anything takes a free one, a file        *)
(* replaces a file, and a directory one that its removal has emptied.       *)
Replaces(e, b) ==
    \/ ~Exists(b)
    \/ ~IsDirectory(e) /\ ~IsDirectory(final[b])
    \/ IsDirectory(e) /\ b \in removing

Refuses(e, b) == Exists(b) /\ (IsDirectory(e) \/ IsDirectory(final[b]))

PutAt(b, e) ==
    /\ final' = [final EXCEPT ![b] = e]
    /\ removing' = removing \ {b}
    /\ stored' = stored \cup {b}

(* Those who are at it while what is at a block's path goes away.           *)
Disturb == disturbed' = disturbed \cup {p \in Proc : Running(p)}

-----------------------------------------------------------------------------
(* create_block.  The file it was given is whole; a move takes it itself    *)
(* for the temporary one.                                                   *)

BeginCreate(p, b) ==
    /\ Begin(p, "create", b, File, "check")
    /\ UNCHANGED <<diskVars, tmp, old, sub, readVars>>

CreateCheck(p) ==
    /\ pc[p] = "check"
    /\ Goto(p, IF Exists(target[p]) THEN "ok" ELSE "check again")
    /\ UNCHANGED <<diskVars, opVars, tmp, old, sub, readVars, history>>

(* move_to_block_dir and copy_to_block_dir ask again, and refuse.           *)
CreateCheckAgain(p) ==
    /\ pc[p] = "check again"
    /\ \/ /\ Exists(target[p])
          /\ Fail(p)
       \/ /\ ~Exists(target[p])
          /\ \/ /\ tmp' = [tmp EXCEPT ![p] = New(File, TRUE)]
                /\ Goto(p, "write")
             \/ /\ tmp' = [tmp EXCEPT ![p] = Complete(target[p], File)]
                /\ Goto(p, "place")
          /\ UNCHANGED sub
    /\ UNCHANGED <<diskVars, opVars, old, readVars, history>>

-----------------------------------------------------------------------------
(* save_block_content, entered where the block was not there.  The bytes    *)
(* that come may not be those the id names.                                 *)

BeginSave(p, b, s) ==
    /\ ~Exists(b)
    /\ Begin(p, "save", b, s, "write")
    /\ \E good \in BOOLEAN : tmp' = [tmp EXCEPT ![p] = New(s, good)]
    /\ UNCHANGED <<diskVars, old, sub, readVars>>

(* Mutant of Verify: the hash is not compared with the id.                  *)
VerifyNothing(p) ==
    /\ pc[p] = "verify"
    /\ Goto(p, IF kind[p] = "save" THEN "check last" ELSE "step aside")
    /\ UNCHANGED <<diskVars, opVars, tmp, old, sub, readVars, history>>

(* The hash of what was written, in save_block_content, or read, in         *)
(* split_block, against the id.                                             *)
Verify(p) ==
    /\ pc[p] = "verify"
    /\ IF tmp[p].good
         THEN /\ Goto(p, IF kind[p] = "save" THEN "check last" ELSE "step aside")
              /\ UNCHANGED <<tmp, sub>>
         ELSE Fail(p)
    /\ UNCHANGED <<diskVars, opVars, old, readVars, history>>

(* Written meanwhile by another stream.                                     *)
CheckLast(p) ==
    /\ pc[p] = "check last"
    /\ IF Exists(target[p])
         THEN Goto(p, "ok") /\ tmp' = [tmp EXCEPT ![p] = None]
         ELSE Goto(p, "place") /\ UNCHANGED tmp
    /\ UNCHANGED <<diskVars, opVars, old, sub, readVars, history>>

-----------------------------------------------------------------------------
(* Writing a form item by item, which all three do.                         *)

NextItem(p) == Layout[target[p]][shape[p]][tmp[p].done + 1]

Written(p) == tmp[p].done = Len(Layout[target[p]][shape[p]])

OneMore(p) == [tmp EXCEPT ![p].done = @ + 1]

WritePart(p) ==
    /\ pc[p] = "write"
    /\ ~Written(p)
    /\ IsPart(NextItem(p))
    /\ tmp' = OneMore(p)
    /\ UNCHANGED <<pc, diskVars, opVars, old, sub, readVars, history>>

(* A block inside: split_block stores its payload as a block of its own,    *)
(* and so does a stream, unless the block is there already.  From the wrong *)
(* bytes it is some other block, or this one.                               *)
WriteBlock(p) ==
    /\ pc[p] = "write"
    /\ ~Written(p)
    /\ ~IsPart(NextItem(p))
    /\ \/ /\ \/ ~tmp[p].good
             \/ kind[p] = "save" /\ Exists(NextItem(p).block)
          /\ tmp' = OneMore(p)
          /\ UNCHANGED <<pc, sub>>
       \/ /\ kind[p] = "save" => ~Exists(NextItem(p).block)
          /\ Goto(p, "payload")
          /\ sub' = [sub EXCEPT ![p] = New(File, TRUE)]
          /\ UNCHANGED tmp
    /\ UNCHANGED <<diskVars, opVars, old, readVars, history>>

WritePayload(p) ==
    /\ pc[p] = "payload"
    /\ sub' = [sub EXCEPT ![p] = Complete(NextItem(p).block, File)]
    /\ Goto(p, "payload check")
    /\ UNCHANGED <<diskVars, opVars, tmp, old, readVars, history>>

CheckPayload(p) ==
    /\ pc[p] = "payload check"
    /\ IF Exists(NextItem(p).block)
         THEN /\ sub' = [sub EXCEPT ![p] = None]
              /\ tmp' = OneMore(p)
              /\ Goto(p, "write")
         ELSE Goto(p, "payload place") /\ UNCHANGED <<sub, tmp>>
    /\ UNCHANGED <<diskVars, opVars, old, readVars, history>>

PlacePayload(p) ==
    /\ pc[p] = "payload place"
    /\ LET b == NextItem(p).block
       IN  \/ /\ Replaces(sub[p], b)
              /\ PutAt(b, sub[p])
              /\ sub' = [sub EXCEPT ![p] = None]
              /\ tmp' = OneMore(p)
              /\ Goto(p, "write")
           \/ /\ Refuses(sub[p], b)
              /\ Fail(p)
              /\ UNCHANGED <<diskVars, stored>>
    /\ UNCHANGED <<opVars, old, readVars, removed, disturbed>>

(* The form is complete.                                                    *)
WriteEnds(p) ==
    /\ pc[p] = "write"
    /\ Written(p)
    /\ Goto(p, IF kind[p] = "create" THEN "place" ELSE "verify")
    /\ UNCHANGED <<diskVars, opVars, tmp, old, sub, readVars, history>>

(* What writes may raise: the disk is full, the stream breaks off, wbp.bin  *)
(* cannot be made, too much is left outside the blocks.                     *)
WriteRaises(p) ==
    /\ pc[p] \in {"write", "payload", "check last", "step aside"}
    /\ Fail(p)
    /\ UNCHANGED <<diskVars, opVars, old, readVars, history>>

(* Mutant of Place: what could not be renamed is left where it is.          *)
PlaceLeaving(p) ==
    /\ pc[p] = "place"
    /\ \/ /\ Replaces(tmp[p], target[p])
          /\ PutAt(target[p], tmp[p])
          /\ tmp' = [tmp EXCEPT ![p] = None]
          /\ Goto(p, "ok")
       \/ /\ Refuses(tmp[p], target[p])
          /\ Goto(p, "failed")
          /\ UNCHANGED <<tmp, diskVars, stored>>
    /\ UNCHANGED <<opVars, old, sub, readVars, removed, disturbed>>

(* os.replace(ready, final).                                                *)
Place(p) ==
    /\ pc[p] = "place"
    /\ \/ /\ Replaces(tmp[p], target[p])
          /\ PutAt(target[p], tmp[p])
          /\ tmp' = [tmp EXCEPT ![p] = None]
          /\ Goto(p, "ok")
          /\ UNCHANGED sub
       \/ /\ Refuses(tmp[p], target[p])
          /\ Fail(p)
          /\ UNCHANGED <<diskVars, stored>>
    /\ UNCHANGED <<opVars, old, readVars, removed, disturbed>>

-----------------------------------------------------------------------------
(* split_block.  It reads the block and writes the new form as it reads;    *)
(* here it has read before it writes.                                       *)

BeginSplit(p, b, s) ==
    /\ Exists(b) /\ b \notin removing
    /\ s \in DOMAIN Layout[b]
    /\ Len(Layout[b][s]) > Len(Layout[b][final[b].shape])
    /\ Begin(p, "split", b, s, "open")
    /\ tmp' = [tmp EXCEPT ![p] = New(s, TRUE)]
    /\ UNCHANGED <<diskVars, old, sub, readVars>>

SplitRead(p) ==
    /\ pc[p] = "read"
    /\ kind[p] = "split"
    /\ Goto(p, "write")
    /\ tmp' = [tmp EXCEPT ![p].good = (got[p] = Content(target[p]))]
    /\ UNCHANGED <<diskVars, opVars, old, sub, readVars, history>>

(* Mutant of StepAside: the former form is removed, not renamed.            *)
AsideIsRemoved(p) ==
    /\ pc[p] = "step aside"
    /\ Exists(target[p])
    /\ final' = [final EXCEPT ![target[p]] = None]
    /\ removing' = removing \ {target[p]}
    /\ Disturb
    /\ Goto(p, "swap")
    /\ UNCHANGED <<opVars, tmp, old, sub, readVars, stored, removed>>

(* os.replace(final, old).                                                  *)
StepAside(p) ==
    /\ pc[p] = "step aside"
    /\ LET b == target[p]
       IN  IF Exists(b)
             THEN /\ old' = [old EXCEPT ![p] = final[b]]
                  /\ final' = [final EXCEPT ![b] = None]
                  /\ removing' = removing \ {b}
                  /\ Disturb
                  /\ Goto(p, "swap")
                  /\ UNCHANGED <<tmp, sub>>
             ELSE Fail(p) /\ UNCHANGED <<diskVars, old, disturbed>>
    /\ UNCHANGED <<opVars, readVars, stored, removed>>

(* os.replace(tmp, final).                                                  *)
SwapIn(p) ==
    /\ pc[p] = "swap"
    /\ \/ /\ Replaces(tmp[p], target[p])
          /\ PutAt(target[p], tmp[p])
          /\ tmp' = [tmp EXCEPT ![p] = None]
          /\ Goto(p, "drop")
          /\ UNCHANGED sub
       \/ /\ Refuses(tmp[p], target[p])
          /\ Fail(p)
          /\ UNCHANGED <<diskVars, stored>>
    /\ UNCHANGED <<opVars, old, readVars, removed, disturbed>>

DropOld(p) ==
    /\ pc[p] = "drop"
    /\ old' = [old EXCEPT ![p] = None]
    /\ Goto(p, "ok")
    /\ UNCHANGED <<diskVars, opVars, tmp, sub, readVars, history>>

-----------------------------------------------------------------------------
(* read_block(ignore_blocks=True), which split_block and copy_block_if_     *)
(* exists read by.                                                          *)

Gets(p, bytes) == got' = [got EXCEPT ![p] = @ \o bytes]

Sought(p) == Layout[target[p]][reading[p].shape]

Reached(p) == Sought(p)[reading[p].at]

PastEnd(p) == reading[p].at > Len(Sought(p))

OnToNext(p) == reading' = [reading EXCEPT ![p].at = @ + 1]

(* A file is checked before it is opened; a directory's list is loaded.     *)
OpenBlock(p) ==
    /\ pc[p] = "open"
    /\ LET e == final[target[p]]
       IN  IF e = None \/ (~IsDirectory(e) /\ ~Whole(target[p], e))
             THEN Fail(p)
             ELSE /\ Goto(p, IF IsDirectory(e) THEN "list" ELSE "file")
                  /\ UNCHANGED <<tmp, sub>>
    /\ UNCHANGED <<diskVars, opVars, old, readVars, history>>

(* What read_file_by_chunks gives of a path: the file, once open, even if   *)
(* it goes; nothing, and no error, if it cannot be opened.                  *)
ReadFile(p) ==
    /\ pc[p] = "file"
    /\ LET e == final[target[p]]
       IN  Gets(p, IF e = None \/ IsDirectory(e) THEN <<>> ELSE Content(target[p]))
    /\ Goto(p, "read")
    /\ UNCHANGED <<diskVars, opVars, tmp, old, sub, reading, history>>

LoadList(p) ==
    /\ pc[p] = "list"
    /\ LET e == final[target[p]]
       IN  \/ /\ IsDirectory(e)
              /\ reading' = [reading EXCEPT ![p] = [shape |-> e.shape, at |-> 1]]
              /\ Goto(p, "items")
              /\ UNCHANGED <<tmp, sub>>
           \/ /\ ~IsDirectory(e) \/ target[p] \in removing
              /\ Fail(p)
              /\ UNCHANGED reading
    /\ UNCHANGED <<diskVars, opVars, old, got, history>>

PartsIn(b, s, n) == Cardinality({i \in 1..n : IsPart(Layout[b][s][i])})

(* Which item of the form is its part number n, if it has so many.          *)
Numbered(b, s, n) ==
    {i \in 1..Len(Layout[b][s]) : IsPart(Layout[b][s][i]) /\ PartsIn(b, s, i) = n}

(* A part is opened by its number, in the directory that is there by now.   *)
ReadPart(p) ==
    /\ pc[p] = "items"
    /\ ~PastEnd(p)
    /\ IsPart(Reached(p))
    /\ LET b == target[p]
           n == PartsIn(b, reading[p].shape, reading[p].at)
           there == IF IsDirectory(final[b]) THEN Numbered(b, final[b].shape, n)
                                             ELSE {}
       IN  \/ \E i \in there : Gets(p, Layout[b][final[b].shape][i].bytes)
           \/ (there = {} \/ b \in removing) /\ UNCHANGED got
    /\ OnToNext(p)
    /\ UNCHANGED <<pc, diskVars, opVars, tmp, old, sub, history>>

(* A block inside is read by read_block, which checks it and opens it.      *)
OpenNested(p) ==
    /\ pc[p] = "items"
    /\ ~PastEnd(p)
    /\ ~IsPart(Reached(p))
    /\ IF Exists(Reached(p).block)
         THEN Goto(p, "nested") /\ UNCHANGED <<tmp, sub>>
         ELSE Fail(p)
    /\ UNCHANGED <<diskVars, opVars, old, readVars, history>>

ReadNested(p) ==
    /\ pc[p] = "nested"
    /\ LET b == Reached(p).block
       IN  Gets(p, IF Exists(b) THEN Content(b) ELSE <<>>)
    /\ OnToNext(p)
    /\ Goto(p, "items")
    /\ UNCHANGED <<diskVars, opVars, tmp, old, sub, history>>

ReadEnds(p) ==
    /\ pc[p] = "items"
    /\ PastEnd(p)
    /\ Goto(p, "read")
    /\ UNCHANGED <<diskVars, opVars, tmp, old, sub, readVars, history>>

-----------------------------------------------------------------------------
(* copy_block_if_exists.  It notes first whether the block is a directory,  *)
(* and then compares no hash.                                               *)

BeginCopy(p, b) ==
    /\ Begin(p, "copy", b, IF Exists(b) THEN final[b].shape ELSE File, "open")
    /\ UNCHANGED <<diskVars, tmp, old, sub, readVars>>

(* Mutant of CopyEnds: the hash of what was read is not compared.           *)
CopyEndsUnchecked(p) ==
    /\ pc[p] = "read"
    /\ kind[p] = "copy"
    /\ Goto(p, "ok")
    /\ UNCHANGED <<diskVars, opVars, tmp, old, sub, readVars, history>>

CopyEnds(p) ==
    /\ pc[p] = "read"
    /\ kind[p] = "copy"
    /\ IF shape[p] # File \/ got[p] = Content(target[p])
         THEN Goto(p, "ok") /\ UNCHANGED <<tmp, sub>>
         ELSE Fail(p)
    /\ UNCHANGED <<diskVars, opVars, old, readVars, history>>

-----------------------------------------------------------------------------
(* Faults: a block is removed, a directory not in one step; a process dies  *)
(* and leaves what it wrote aside.                                          *)

RemoveBlock(b) ==
    /\ Exists(b) /\ b \notin removing
    /\ removed' = removed \cup {b}
    /\ Disturb
    /\ IF IsDirectory(final[b])
         THEN removing' = removing \cup {b} /\ UNCHANGED final
         ELSE final' = [final EXCEPT ![b] = None] /\ UNCHANGED removing
    /\ UNCHANGED <<pc, opVars, tmp, old, sub, readVars, stored>>

RemovalEnds(b) ==
    /\ b \in removing
    /\ final' = [final EXCEPT ![b] = None]
    /\ removing' = removing \ {b}
    /\ Disturb
    /\ UNCHANGED <<pc, opVars, tmp, old, sub, readVars, stored, removed>>

Crash(p) ==
    /\ Running(p)
    /\ Goto(p, "dead")
    /\ UNCHANGED <<diskVars, opVars, tmp, old, sub, readVars, history>>

-----------------------------------------------------------------------------

Starts(p) ==
    \E b \in Block :
        \/ BeginCreate(p, b)
        \/ BeginCopy(p, b)
        \/ \E s \in DOMAIN Layout[b] : BeginSave(p, b, s) \/ BeginSplit(p, b, s)

Writes(p) ==
    \/ CreateCheck(p) \/ CreateCheckAgain(p)
    \/ WritePart(p) \/ WriteBlock(p) \/ WriteEnds(p) \/ WriteRaises(p)
    \/ WritePayload(p) \/ CheckPayload(p) \/ PlacePayload(p)
    \/ Verify(p) \/ CheckLast(p) \/ Place(p)
    \/ SplitRead(p) \/ StepAside(p) \/ SwapIn(p) \/ DropOld(p)

Reads(p) ==
    \/ OpenBlock(p) \/ ReadFile(p) \/ LoadList(p)
    \/ ReadPart(p) \/ OpenNested(p) \/ ReadNested(p) \/ ReadEnds(p)
    \/ CopyEnds(p)

Next ==
    \/ \E p \in Proc : Starts(p) \/ Writes(p) \/ Reads(p) \/ Crash(p)
    \/ \E b \in Block : RemoveBlock(b) \/ RemovalEnds(b)

Spec == Init /\ [][Next]_vars

-----------------------------------------------------------------------------

(* What is at a block's path is the whole of one of its forms, from bytes   *)
(* that its id names, whatever process died and whatever came over the      *)
(* wire; but for a directory that is being removed.                         *)
FinalWhole ==
    \A b \in Block : Exists(b) => Whole(b, final[b]) \/ b \in removing

(* A block that was stored, or that an operation said it stored or split,   *)
(* and that nobody removed, is there; or a split has put it aside, whole,   *)
(* and it stays there if the process died or the new form did not fit.      *)
NotLost ==
    \A b \in stored \cup {target[p] : p \in {q \in Proc : pc[q] = "ok"}} :
        b \in removed \/ Exists(b)
        \/ \E p \in Proc : target[p] = b /\ old[p] # None /\ Whole(b, old[p])

(* copy_block_if_exists that returns True has written the block's content,  *)
(* unless the block was a directory and something was removed or split as   *)
(* it read: a directory is read part by part and no hash is compared.       *)
CopiesExact ==
    \A p \in Proc : (kind[p] = "copy" /\ pc[p] = "ok") =>
        \/ got[p] = Content(target[p])
        \/ shape[p] # File /\ p \in disturbed

(* An operation that is over has left nothing beside the blocks, but for a  *)
(* split that could not rename the new form onto the path.                  *)
NoLitter ==
    \A p \in Proc : pc[p] \in Idle =>
        /\ tmp[p] = None
        /\ sub[p] = None
        /\ old[p] # None => kind[p] = "split" /\ pc[p] = "failed"

(* To those who use it the directory is an AtomicStore: a block comes and   *)
(* goes in one step, and never changes its form but by going and coming.    *)
Atomic == INSTANCE AtomicStore WITH
    store <- [b \in Block |-> IF Exists(b) /\ b \notin removing
                                THEN final[b].shape ELSE None]

IsAtomicStore == Atomic!Spec
=============================================================================
