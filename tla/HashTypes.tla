----------------------------- MODULE HashTypes ------------------------------
(***************************************************************************)
(* The hash types of block pointers (utils.py).  A pointer names its block *)
(* by hashes, each with the type of its algorithm or with none, which it   *)
(* then has from the pointers around it.  The state is a descent into a    *)
(* stored tree: from an object into a block it points to, from there into  *)
(* a block this one points to, and so on, with the context that goes down  *)
(* with it.                                                                *)
(***************************************************************************)
EXTENDS Naturals, Sequences

CONSTANTS
    Type,       \* the hash types, each the digest of nothing
    NodeType,   \* Enviroment.hash_type, what the registry is keyed by
    None,       \* no type stated
    MaxHashes,  \* bound: hashes in a pointer
    MaxLevels   \* bound: levels descended

ASSUME HashTypesAssumption ==
    /\ NodeType \in Type
    /\ None \notin Type
    /\ MaxHashes \in Nat
    /\ MaxLevels \in Nat

(* The types a pointer states, hash by hash.                                *)
Stated == UNION {[1 .. n -> Type \cup {None}] : n \in 1 .. MaxHashes}

VARIABLES
    levels,   \* the pointers descended through
    context   \* inherited: the hash types in force here

hashVars == <<levels, context>>

(* Where every hash of a pointer has a type, or resolve_hash_types raises.  *)
Resolvable(p, inherited) ==
    \A i \in DOMAIN p : p[i] # None \/ i \in DOMAIN inherited

resolve_hash_types(p, inherited) ==
    [i \in DOMAIN p |-> IF p[i] # None THEN p[i] ELSE inherited[i]]

(* Mutant of inherit_hash_types: only the parent is asked.                  *)
InheritFromParent(resolved, inherited) == resolved

inherit_hash_types(resolved, inherited) ==
    resolved \o SubSeq(inherited, Len(resolved) + 1, Len(inherited))

(* The hash of a pointer that is the block's key in the registry, the first *)
(* of the node's own type; 0 where there is none or it cannot be deduced.   *)
KeyIndex(p, inherited) ==
    LET keys == IF Resolvable(p, inherited)
                THEN {i \in DOMAIN p :
                        resolve_hash_types(p, inherited)[i] = NodeType}
                ELSE {}
    IN  IF keys = {} THEN 0
        ELSE CHOOSE i \in keys : \A j \in keys : i <= j

HashInit ==
    /\ levels = <<>>
    /\ context = <<>>

(* The caller of resolve_hash_types and inherit_hash_types goes into the    *)
(* block a pointer names; a pointer that cannot be resolved ends it.        *)
Descend(p) ==
    /\ Len(levels) < MaxLevels
    /\ Resolvable(p, context)
    /\ levels' = Append(levels, p)
    /\ context' = inherit_hash_types(resolve_hash_types(p, context), context)

HashNext == \E p \in Stated : Descend(p)

HashSpec == HashInit /\ [][HashNext]_hashVars

-----------------------------------------------------------------------------
(* The type at each index is the one that the nearest pointer stating one   *)
(* at that index states, and where no pointer above has one there is none   *)
(* (utils.py:247-252): a type stated for one index never moves another.     *)
ContextIsNearest ==
    /\ \A i \in DOMAIN context :
        \E j \in DOMAIN levels :
            /\ i \in DOMAIN levels[j]
            /\ levels[j][i] = context[i]
            /\ context[i] # None
            /\ \A k \in DOMAIN levels :
                k > j /\ i \in DOMAIN levels[k] => levels[k][i] = None
    /\ \A j \in DOMAIN levels : DOMAIN levels[j] \subseteq DOMAIN context
=============================================================================
