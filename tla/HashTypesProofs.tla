-------------------------- MODULE HashTypesProofs ---------------------------
(***************************************************************************)
(* Proofs about HashTypes: in every descent into a stored tree the hash    *)
(* types in force are those of the nearest pointer that states one, index  *)
(* by index; and leaving out types that would be inherited changes nothing.*)
(***************************************************************************)
EXTENDS HashTypes, SequenceTheorems, TLAPS

LEMMA StatedIsSeq ==
    ASSUME NEW p \in Stated
    PROVE  /\ p \in Seq(Type \cup {None})
           /\ Len(p) \in 1 .. MaxHashes
           /\ DOMAIN p = 1 .. Len(p)
<1>1. PICK n \in 1 .. MaxHashes : p \in [1 .. n -> Type \cup {None}]
    BY DEF Stated
<1>2. n \in Nat
    BY HashTypesAssumption
<1> QED
    BY <1>1, <1>2

(* What resolve_hash_types returns has a type at every index.               *)
LEMMA ResolveFacts ==
    ASSUME NEW p \in Stated, NEW c \in Seq(Type), Resolvable(p, c)
    PROVE  /\ resolve_hash_types(p, c) \in Seq(Type)
           /\ Len(resolve_hash_types(p, c)) = Len(p)
           /\ \A i \in 1 .. Len(p) :
                resolve_hash_types(p, c)[i] =
                    IF p[i] # None THEN p[i] ELSE c[i]
<1> DEFINE r == resolve_hash_types(p, c)
<1>1. /\ p \in Seq(Type \cup {None})
      /\ DOMAIN p = 1 .. Len(p)
      /\ Len(p) \in Nat
    BY StatedIsSeq
<1>2. \A i \in 1 .. Len(p) : p[i] \in Type \cup {None}
    BY <1>1
<1>3. \A i \in 1 .. Len(p) : p[i] = None => c[i] \in Type
    BY <1>1 DEF Resolvable
<1>4. r = [i \in 1 .. Len(p) |-> IF p[i] # None THEN p[i] ELSE c[i]]
    BY <1>1 DEF resolve_hash_types
<1>5. r \in [1 .. Len(p) -> Type]
    BY <1>2, <1>3, <1>4
<1> HIDE DEF r
<1> QED
    BY <1>1, <1>4, <1>5 DEF r

(* What inherit_hash_types returns: the nearer types, and beyond them the   *)
(* farther ones at their own indices.                                       *)
LEMMA InheritFacts ==
    ASSUME NEW r \in Seq(Type), NEW c \in Seq(Type)
    PROVE  /\ inherit_hash_types(r, c) \in Seq(Type)
           /\ Len(inherit_hash_types(r, c)) =
                IF Len(c) > Len(r) THEN Len(c) ELSE Len(r)
           /\ \A i \in 1 .. Len(inherit_hash_types(r, c)) :
                inherit_hash_types(r, c)[i] =
                    IF i <= Len(r) THEN r[i] ELSE c[i]
<1> DEFINE rest == SubSeq(c, Len(r) + 1, Len(c))
<1>1. /\ rest \in Seq(Type)
      /\ Len(rest) = IF Len(c) > Len(r) THEN Len(c) - Len(r) ELSE 0
      /\ \A i \in 1 .. Len(rest) : rest[i] = c[Len(r) + i]
    <2>1. CASE Len(c) > Len(r)
        BY <2>1, SubSeqProperties, LenProperties
    <2>2. CASE Len(c) <= Len(r)
        BY <2>2, SubSeqProperties, LenProperties
    <2> QED
        BY <2>1, <2>2
<1>2. /\ r \o rest \in Seq(Type)
      /\ Len(r \o rest) = Len(r) + Len(rest)
      /\ \A i \in 1 .. Len(r) + Len(rest) :
            (r \o rest)[i] = IF i <= Len(r) THEN r[i] ELSE rest[i - Len(r)]
    BY <1>1, ConcatProperties
<1>3. inherit_hash_types(r, c) = r \o rest
    BY DEF inherit_hash_types
<1>4. Len(r) \in Nat /\ Len(c) \in Nat /\ Len(rest) \in Nat
    BY <1>1, LenProperties
<1> HIDE DEF rest
<1>5. ASSUME NEW i \in 1 .. Len(r \o rest)
      PROVE  (r \o rest)[i] = IF i <= Len(r) THEN r[i] ELSE c[i]
    <2>1. CASE i <= Len(r)
        BY <1>2, <1>4, <2>1
    <2>2. CASE i > Len(r)
        <3>1. i - Len(r) \in 1 .. Len(rest)
            BY <1>2, <1>4, <2>2
        <3>2. rest[i - Len(r)] = c[Len(r) + (i - Len(r))]
            BY <1>1, <3>1
        <3>3. Len(r) + (i - Len(r)) = i
            BY <1>4, <1>2
        <3> QED
            BY <1>2, <1>4, <2>2, <3>2, <3>3
    <2> QED
        BY <1>4, <1>2, <2>1, <2>2
<1> QED
    BY <1>1, <1>2, <1>3, <1>4, <1>5

-----------------------------------------------------------------------------
(* The state of a descent: pointers stated, types in force.                 *)
HashTypeOK ==
    /\ levels \in Seq(Stated)
    /\ context \in Seq(Type)

HashInv == HashTypeOK /\ ContextIsNearest

LEMMA DescendNearest ==
    ASSUME NEW p \in Stated, HashInv, Descend(p)
    PROVE  HashInv'
<1> DEFINE r == resolve_hash_types(p, context)
           n == Len(levels)
<1> USE DEF HashInv, HashTypeOK
<1>1. /\ r \in Seq(Type)
      /\ Len(r) = Len(p)
      /\ \A i \in 1 .. Len(p) :
            r[i] = IF p[i] # None THEN p[i] ELSE context[i]
    BY ResolveFacts DEF Descend
<1>2. p \in Seq(Type \cup {None}) /\ DOMAIN p = 1 .. Len(p) /\ Len(p) \in Nat
    BY StatedIsSeq
<1>3. context' = inherit_hash_types(r, context)
    BY DEF Descend
<1> HIDE DEF r
<1>4. /\ context' \in Seq(Type)
      /\ Len(context') = IF Len(context) > Len(p) THEN Len(context) ELSE Len(p)
      /\ \A i \in 1 .. Len(context') :
            context'[i] = IF i <= Len(p) THEN r[i] ELSE context[i]
    BY <1>1, <1>3, InheritFacts
<1>5. levels' = Append(levels, p)
    BY DEF Descend
<1>6. /\ levels' \in Seq(Stated)
      /\ n \in Nat
      /\ Len(levels') = n + 1
      /\ DOMAIN levels' = 1 .. n + 1
      /\ DOMAIN levels = 1 .. n
      /\ levels'[n + 1] = p
      /\ \A j \in 1 .. n : levels'[j] = levels[j]
    BY <1>5, AppendProperties, LenProperties
<1>7. DOMAIN context' = 1 .. Len(context') /\ DOMAIN context = 1 .. Len(context)
      /\ Len(context) \in Nat /\ Len(context') \in Nat
    BY <1>4, LenProperties
<1>8. ASSUME NEW i \in DOMAIN context'
      PROVE  \E j \in DOMAIN levels' :
                /\ i \in DOMAIN levels'[j]
                /\ levels'[j][i] = context'[i]
                /\ context'[i] # None
                /\ \A k \in DOMAIN levels' :
                    k > j /\ i \in DOMAIN levels'[k] => levels'[k][i] = None
    <2>0. i \in Nat /\ i >= 1 /\ i <= Len(context')
        BY <1>7
    <2>1. CASE i <= Len(p) /\ p[i] # None
        <3>1. i \in DOMAIN levels'[n + 1]
            BY <1>2, <1>6, <2>0, <2>1
        <3>2. levels'[n + 1][i] = context'[i]
            BY <1>1, <1>2, <1>4, <1>6, <1>7, <2>0, <2>1
        <3>3. context'[i] # None
            BY <3>2, <1>6, <2>1
        <3>4. \A k \in DOMAIN levels' : ~(k > n + 1)
            BY <1>6
        <3> QED
            BY <3>1, <3>2, <3>3, <3>4, <1>6
    <2>2. CASE i > Len(p) \/ (i <= Len(p) /\ p[i] = None)
        <3>1. i \in DOMAIN context /\ context'[i] = context[i]
            <4>1. CASE i > Len(p)
                BY <1>2, <1>4, <1>7, <2>0, <4>1
            <4>2. CASE i <= Len(p) /\ p[i] = None
                <5>1. i \in DOMAIN context
                    BY <1>2, <2>0, <4>2 DEF Descend, Resolvable
                <5> QED
                    BY <1>1, <1>2, <1>4, <1>7, <2>0, <4>2, <5>1
            <4> QED
                BY <2>2, <4>1, <4>2
        <3>2. PICK j \in DOMAIN levels :
                /\ i \in DOMAIN levels[j]
                /\ levels[j][i] = context[i]
                /\ context[i] # None
                /\ \A k \in DOMAIN levels :
                    k > j /\ i \in DOMAIN levels[k] => levels[k][i] = None
            BY <3>1 DEF ContextIsNearest
        <3>3. j \in DOMAIN levels' /\ levels'[j] = levels[j]
            BY <1>6
        <3>4. ASSUME NEW k \in DOMAIN levels', k > j, i \in DOMAIN levels'[k]
              PROVE  levels'[k][i] = None
            <4>1. CASE k = n + 1
                BY <4>1, <1>2, <1>6, <2>0, <2>2, <3>4
            <4>2. CASE k # n + 1
                <5>1. k \in DOMAIN levels /\ levels'[k] = levels[k]
                    BY <4>2, <1>6
                <5> QED
                    BY <5>1, <3>2, <3>4
            <4> QED
                BY <4>1, <4>2
        <3> QED
            BY <3>1, <3>2, <3>3, <3>4
    <2> QED
        BY <1>2, <2>0, <2>1, <2>2
<1>9. ASSUME NEW j \in DOMAIN levels'
      PROVE  DOMAIN levels'[j] \subseteq DOMAIN context'
    <2>1. CASE j = n + 1
        BY <2>1, <1>2, <1>4, <1>6, <1>7
    <2>2. CASE j # n + 1
        <3>1. j \in DOMAIN levels /\ levels'[j] = levels[j]
            BY <2>2, <1>6
        <3>2. DOMAIN levels[j] \subseteq DOMAIN context
            BY <3>1 DEF ContextIsNearest
        <3>3. DOMAIN context \subseteq DOMAIN context'
            BY <1>2, <1>4, <1>7
        <3> QED
            BY <3>1, <3>2, <3>3
    <2> QED
        BY <2>1, <2>2
<1> QED
    BY <1>4, <1>6, <1>8, <1>9 DEF ContextIsNearest

(* Wherever in a stored tree one is, the hash types in force are those of   *)
(* the nearest pointer that states one, index by index.                     *)
THEOREM TypesAreNearest == HashSpec => []ContextIsNearest
<1>1. HashInit => HashInv
    BY DEF HashInit, HashInv, HashTypeOK, ContextIsNearest
<1>2. HashInv /\ [HashNext]_hashVars => HashInv'
    <2> SUFFICES ASSUME HashInv, [HashNext]_hashVars PROVE HashInv'
        OBVIOUS
    <2>1. CASE HashNext
        BY <2>1, DescendNearest DEF HashNext
    <2>2. CASE UNCHANGED hashVars
        BY <2>2 DEF hashVars, HashInv, HashTypeOK, ContextIsNearest
    <2> QED
        BY <2>1, <2>2
<1>3. HashInv => ContextIsNearest
    BY DEF HashInv
<1> QED
    BY <1>1, <1>2, <1>3, PTL DEF HashSpec

(* A pointer whose types are resolved keeps them, and its key, when those   *)
(* that the context gives at their index are left out: "leaving the types   *)
(* out changes the bytes but not the id" (test_hash_type_inheritance.py).   *)
THEOREM OmittingKeepsTheKey ==
    ASSUME NEW c \in Seq(Type), NEW p \in Stated, NEW q \in Stated,
           Resolvable(p, c), Len(q) = Len(p),
           \A i \in 1 .. Len(p) :
                q[i] # p[i] =>
                    /\ q[i] = None
                    /\ i \in DOMAIN c
                    /\ p[i] = c[i]
    PROVE  /\ Resolvable(q, c)
           /\ resolve_hash_types(q, c) = resolve_hash_types(p, c)
           /\ KeyIndex(q, c) = KeyIndex(p, c)
<1>1. /\ DOMAIN p = 1 .. Len(p) /\ DOMAIN q = 1 .. Len(p)
    BY StatedIsSeq
<1>2. Resolvable(q, c)
    BY <1>1 DEF Resolvable
<1>3. resolve_hash_types(q, c) = resolve_hash_types(p, c)
    <2>1. \A i \in 1 .. Len(p) :
            (IF q[i] # None THEN q[i] ELSE c[i])
                = (IF p[i] # None THEN p[i] ELSE c[i])
        OBVIOUS
    <2> QED
        BY <1>1, <2>1 DEF resolve_hash_types
<1> QED
    BY <1>1, <1>2, <1>3 DEF KeyIndex
=============================================================================
