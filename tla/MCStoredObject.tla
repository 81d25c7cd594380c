--------------------------- MODULE MCStoredObject ---------------------------
(* StoredObject over a set of messages.  With Radix 4 a length takes a      *)
(* second byte from 4 on and a third from 16 on; E is empty, S is small, M  *)
(* takes a byte more than its pointer in its own length, L two.             *)
EXTENDS StoredObject

CONSTANTS E, S, M, L,
    Key, Other,   \* hash types; the node's is Key
    Places        \* where objects are opened: under which pointers

MCContent ==
    (E :> <<>>) @@ (S :> <<1, 2>>) @@ (M :> [i \in 1 .. 9 |-> 3])
        @@ (L :> [i \in 1 .. 19 |-> i % 4])

(* M as a directory with E in it, and L as one with S.                      *)
MCForm ==
    (M :> [parts   |-> <<[i \in 1 .. 4 |-> 3], [i \in 1 .. 5 |-> 3]>>,
           entries |-> <<[block |-> E, chain |-> <<3>>]>>])
    @@
    (L :> [parts   |-> <<<<>>, [i \in 1 .. 17 |-> (i + 2) % 4]>>,
           entries |-> <<[block |-> S, chain |-> <<0>>]>>])

(* Small is bytes that happen to be a Buffer.                               *)
MCParses == {E, S}

Scalar(n) == [kind |-> "scalar", bytes |-> [i \in 1 .. n |-> 1]]

Plain(wide, n, chars) ==
    [kind |-> "content", wide |-> wide, split |-> FALSE,
     bytes |-> [i \in 1 .. n |-> 2], chars |-> chars]

Pointer(wide, b, algorithms, types) ==
    [kind |-> "pointer", wide |-> wide, block |-> b,
     algorithms |-> algorithms, types |-> types]

Typed(b)   == Pointer(FALSE, b, <<Key>>, <<Key>>)
Omitted(b) == Pointer(FALSE, b, <<Key>>, <<None>>)

Message(wide, fields) ==
    [kind |-> "message", wide |-> wide, fields |-> fields]

Fields ==
    {Scalar(2), Plain(FALSE, 5, 5), Typed(E), Typed(S), Typed(M), Typed(L),
     Omitted(M), Pointer(FALSE, S, <<Other, Key>>, <<Other, Key>>)}

Oddities ==
    {Plain(TRUE, 1, 1), Plain(FALSE, 4, 2), Pointer(TRUE, M, <<Key>>, <<Key>>),
     Message(TRUE, <<Typed(S)>>)}

Single == {Message(FALSE, <<f>>) : f \in Fields}

Pairs ==
    {Message(FALSE, <<f, g>>) : f \in {Typed(S), Typed(L), Omitted(M)},
                                g \in {Scalar(2), Typed(M)}}

Deep ==
    {Message(FALSE, <<f, Message(FALSE, <<Plain(FALSE, 5, 5), g>>)>>) :
        f \in {Scalar(2), Omitted(M)}, g \in {Typed(L), Typed(M), Typed(E)}}

MCMessage ==
    {<<f, g>> : f \in Fields,
                g \in Single \cup Pairs \cup Deep \cup {Message(FALSE, <<>>)}}
    \cup {<<f, g>> : f \in Deep, g \in Pairs}
    \cup {<<f, g>> : f \in Oddities, g \in Deep}
    \cup {<<Message(FALSE, <<f, g>>)>> : f \in Oddities, g \in Fields}

(* At the top, in a block of this node, and in one that another node names  *)
(* by a hash of its own before that of this node's type.                    *)
MCPlaces == {<<>>, <<<<Key>>>>, <<<<Other, Key>>>>}

RECURSIVE BlocksOf(_)
BlocksOf(fields) ==
    UNION {CASE fields[i].kind = "pointer" -> {fields[i].block}
             [] fields[i].kind = "message" -> BlocksOf(fields[i].fields)
             [] OTHER -> {}
           : i \in DOMAIN fields}

Init == HashInit /\ ObjectInit

(* The builder is told of all blocks, or of all but one.                    *)
Lists(fields) ==
    {BlocksOf(fields)} \cup {BlocksOf(fields) \ {S}}

Next ==
    \/ message = Nothing /\ HashNext /\ UNCHANGED objectVars
    \/ /\ levels \in Places
       /\ \E m \in MCMessage : \E blocks \in Lists(m) : Open(m, blocks)
    \/ Build
    \/ BuildFractal
    \/ Split
    \/ Generate
    \/ \E b \in listed : SplitBlock(b)

Spec == Init /\ [][Next]_<<hashVars, objectVars>>
=============================================================================
