---------------------------- MODULE StoredObject ----------------------------
(***************************************************************************)
(* An object on its way through the builder, the splitter and the driver:  *)
(* it sits under some pointers of a stored tree, which give it its hash    *)
(* types; it is a message with pointers to some blocks; it becomes a       *)
(* directory, by build_multiblock, build_multiblock_fractal or split_block *)
(* (of its expansion); and its wbp.bin is regenerated, here or at the node *)
(* that received it.  Meanwhile the blocks it points to may themselves be  *)
(* split, from files into directories of the same content.                 *)
(***************************************************************************)
EXTENDS BlockDriver

CONSTANT Nothing  \* no message, directory or wbp.bin yet

VARIABLES
    message,      \* the object with its pointers
    listed,       \* the blocks the builder is told of
    directories,  \* the blocks that are stored as directories
    how,          \* by what the directory was made
    dir,          \* the directory
    wbp           \* wbp.bin

objectVars == <<message, listed, directories, how, dir, wbp>>

ObjectInit ==
    /\ message = Nothing
    /\ listed = {}
    /\ directories = {}
    /\ how = Nothing
    /\ dir = Nothing
    /\ wbp = Nothing

(* The caller of the library decides on an object and on the blocks in it.  *)
Open(fields, blocks) ==
    /\ message = Nothing
    /\ message' = fields
    /\ listed' = blocks
    /\ UNCHANGED <<hashVars, directories, how, dir, wbp>>

Make(by, made) ==
    /\ message # Nothing
    /\ how = Nothing
    /\ how' = by
    /\ dir' = made
    /\ UNCHANGED <<hashVars, message, listed, directories, wbp>>

Build ==
    Make("built", build_multiblock(message, listed, context, directories))

BuildFractal ==
    Make("fractal",
         build_multiblock_fractal(message, listed, context, directories))

(* split_block of the object stored flat: the fields that the policy names  *)
(* are those where the message has its pointers.                            *)
Split ==
    Make("split", SplitInto(Inlined(message, listed, context)))

(* None is inherited at the top of a stored tree, and only there.           *)
omit_types == levels # <<>>

Generate ==
    /\ dir \notin {Nothing, Refused}
    /\ wbp = Nothing
    /\ wbp' = generate_wbp_file(dir, omit_types, directories)
    /\ UNCHANGED <<hashVars, message, listed, directories, how, dir>>

(* split_block of a block that is stored flat, at any time.                 *)
SplitBlock(b) ==
    /\ message # Nothing
    /\ b \in DOMAIN Form \ directories
    /\ directories' = directories \cup {b}
    /\ UNCHANGED <<hashVars, message, listed, how, dir, wbp>>

-----------------------------------------------------------------------------
Expanded == Serialized(Inlined(message, listed, context))

(* A position is that of a length which encloses what follows in the chain, *)
(* and the last one is the length of the block itself, at its place.        *)
Encloses(d, k) ==
    LET bytes  == Expansion(d)
        chain  == d.entries[k].chain
        begin(i)  == chain[i] + VLen(VarintAt(bytes, chain[i]))
        finish(i) == begin(i) + VarintAt(bytes, chain[i])
    IN  /\ \A i \in 1 .. Len(chain) - 1 :
            begin(i) <= chain[i + 1] /\ finish(i + 1) <= finish(i)
        /\ begin(Len(chain)) =
            Start(Items(d), 2 * k, directories)
        /\ VarintAt(bytes, Last(chain)) =
            Size(d.entries[k].block, directories)

(* A directory that stands for the message.                                 *)
Exact(d) ==
    /\ Expansion(d) = Expanded
    /\ \A k \in DOMAIN d.entries : Encloses(d, k)

AllFound == listed \subseteq PointedTo(message, listed, context)

(* The builder's directory expands to the message with its blocks in place, *)
(* and its positions are those of the lengths around each block, whatever   *)
(* the nesting and the sizes; it is refused exactly if a block it was told  *)
(* of is not to be found (block_builder.py:38-62).  For messages whose tags *)
(* and characters take a byte: see Narrow.                                  *)
BuiltExact ==
    how = "built" /\ Narrow(message) =>
        /\ (dir # Refused) = AllFound
        /\ dir # Refused => Exact(dir)

(* The splitter's directory does, for any message (block_splitter.py:11-16).*)
SplitExact == how = "split" => Exact(dir)

(* Splitting writes "what a builder would have written had it made those    *)
(* fields blocks to begin with" (tests/test_block_splitter.py:4-7).         *)
SplitMatchesBuild ==
    how = "built" /\ dir # Refused /\ Narrow(message) =>
        SplitInto(Inlined(message, listed, context)) = dir

(* The fractal builder makes the same directory as the other or none.       *)
FractalAgrees ==
    how = "fractal" =>
        dir \in {Refused, build_multiblock(message, listed, context,
                                           directories)}

Sound == how = "split" \/ Narrow(message)

(* The regenerated wbp.bin is the message with its pointers in the form     *)
(* that the place of the object calls for, byte for byte, lengths included, *)
(* whichever way its blocks are stored by now (block_driver.py:11-22).      *)
Regenerated ==
    wbp # Nothing /\ Sound =>
        wbp = Serialized(Repointed(message, listed, context, omit_types))

(* Built again from its wbp.bin in the same place the object is the same    *)
(* directory, so it has the same id (test_hash_type_inheritance.py:193-223).*)
(* For contexts whose first type is the node's: see the README.             *)
KeyFirst == levels = <<>> \/ context[1] = NodeType

RoundTrip ==
    wbp # Nothing /\ Narrow(message) /\ KeyFirst =>
        LET written == Repointed(message, listed, context, omit_types)
        IN  /\ wbp = Serialized(written)
            /\ build_multiblock(written, PointedTo(message, listed, context),
                                context, directories) = dir
=============================================================================
