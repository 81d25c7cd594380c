------------------------ MODULE BlockReceiverProofs -------------------------
(***************************************************************************)
(* What holds of the receiver for every set of blocks, whatever a peer     *)
(* sends and whatever other users of the block directory store and remove. *)
(***************************************************************************)
EXTENDS BlockReceiver, StreamReader, SequenceLemmas

-----------------------------------------------------------------------------
(* Contents.  F gives the bytes of a block; Parts are those of each item.   *)

Parts(items, F) ==
    [i \in 1..Len(items) |->
        IF items[i] \in Block THEN F[items[i]] ELSE <<items[i]>>]
BytesBy(items, F) == FlattenSeq(Parts(items, F))

(* F is the content that the forms of the members of N give them.           *)
IsContent(F, N, form) == F = [n \in N |-> BytesBy(form[n], F)]

LEMMA PartsType ==
  ASSUME NEW items \in Seq(Item), NEW F,
         \A i \in 1..Len(items) : items[i] \in Block => F[items[i]] \in Seq(Chunk)
  PROVE  Parts(items, F) \in Seq(Seq(Chunk)) /\ BytesBy(items, F) \in Seq(Chunk)
<1>1. Len(items) \in Nat /\ \A i \in 1..Len(items) : items[i] \in Item
  BY ElementOfSeq
<1>2. ASSUME NEW i \in 1..Len(items)
      PROVE  (IF items[i] \in Block THEN F[items[i]] ELSE <<items[i]>>) \in Seq(Chunk)
  <2>1. CASE items[i] \in Block
    BY <2>1
  <2>2. CASE items[i] \notin Block
    <3>1. items[i] \in Chunk
      BY <1>1, <2>2 DEF Item
    <3>2. <<items[i]>> \in Seq(Chunk)
      BY <3>1
    <3> QED
      BY <2>2, <3>2
  <2> QED
    BY <2>1, <2>2
<1>3. Parts(items, F) \in [1..Len(items) -> Seq(Chunk)]
  BY <1>2 DEF Parts
<1>4. Parts(items, F) \in Seq(Seq(Chunk))
  BY <1>1, <1>3, IsASeq
<1> QED
  BY <1>4, FlattenFacts DEF BytesBy

LEMMA BytesByAgree ==
  ASSUME NEW items, NEW F, NEW H,
         \A i \in 1..Len(items) : items[i] \in Block => F[items[i]] = H[items[i]]
  PROVE  BytesBy(items, F) = BytesBy(items, H)
<1>1. Parts(items, F) = Parts(items, H)
  BY DEF Parts
<1> QED
  BY <1>1 DEF BytesBy

LEMMA BytesByEmpty == \A F : BytesBy(<<>>, F) = <<>>
<1> SUFFICES ASSUME NEW F PROVE BytesBy(<<>>, F) = <<>>
  OBVIOUS
<1>1. Parts(<<>>, F) = <<>>
  <2>1. Parts(<<>>, F) = [i \in 1..0 |-> <<>>]
    BY DEF Parts
  <2> QED
    BY <2>1
<1> QED
  BY <1>1, FlattenFacts DEF BytesBy

LEMMA BytesByAppend ==
  ASSUME NEW items \in Seq(Item), NEW x \in Item, NEW F,
         \A i \in 1..Len(items) : items[i] \in Block => F[items[i]] \in Seq(Chunk),
         x \in Block => F[x] \in Seq(Chunk)
  PROVE  BytesBy(Append(items, x), F) =
            BytesBy(items, F) \o (IF x \in Block THEN F[x] ELSE <<x>>)
<1> DEFINE part == IF x \in Block THEN F[x] ELSE <<x>>
           all  == Append(items, x)
<1>1. part \in Seq(Chunk)
  BY DEF Item
<1>2. Parts(items, F) \in Seq(Seq(Chunk))
  BY PartsType
<1>3. /\ Len(items) \in Nat /\ Len(all) = Len(items) + 1
      /\ all[Len(items) + 1] = x /\ \A i \in 1..Len(items) : all[i] = items[i]
  BY AppendProperties
<1>4. Parts(all, F) = Append(Parts(items, F), part)
  <2> DEFINE p == Parts(items, F)
             q == Parts(all, F)
  <2>1. /\ q = [i \in 1..(Len(items) + 1) |->
                  IF all[i] \in Block THEN F[all[i]] ELSE <<all[i]>>]
    BY <1>3 DEF Parts
  <2>2. Len(p) = Len(items) /\ \A i \in 1..Len(items) : p[i] = q[i]
    <3>1. p = [i \in 1..Len(items) |->
                  IF items[i] \in Block THEN F[items[i]] ELSE <<items[i]>>]
      BY DEF Parts
    <3>2. DOMAIN p = 1..Len(items)
      BY <3>1
    <3>3. Len(p) = Len(items)
      BY <1>2, <1>3, <3>2, LenProperties
    <3> HIDE DEF p, q, all
    <3> QED
      BY <1>3, <2>1, <3>1, <3>3
  <2>3. q[Len(items) + 1] = part
    <3> HIDE DEF all
    <3> QED
      BY <1>3, <2>1
  <2>4. /\ Append(p, part) = [i \in 1..(Len(p) + 1) |->
                                IF i <= Len(p) THEN p[i] ELSE part]
    BY <1>1, <1>2
  <2> HIDE DEF p, q, part, all
  <2>5. \A i \in 1..(Len(items) + 1) :
           q[i] = IF i <= Len(items) THEN p[i] ELSE part
    BY <1>3, <2>2, <2>3
  <2>6. q = Append(p, part)
    BY <1>3, <2>1, <2>2, <2>4, <2>5
  <2> QED
    BY <2>6 DEF p, q, part, all
<1> HIDE DEF part, all
<1>5. FlattenSeq(Append(Parts(items, F), part)) = FlattenSeq(Parts(items, F)) \o part
  BY <1>1, <1>2, FlattenFacts
<1> QED
  BY <1>4, <1>5 DEF BytesBy, part, all

(* Plain pieces are their own bytes.                                        *)
LEMMA BytesByChunks ==
  ASSUME Chunk \cap Block = {}, NEW F
  PROVE  \A chunks \in Seq(Chunk) : BytesBy(chunks, F) = chunks
<1> DEFINE T == {s \in Seq(Chunk) : BytesBy(s, F) = s}
<1>1. <<>> \in T
  BY BytesByEmpty
<1>2. ASSUME NEW s \in Seq(Chunk), NEW c \in Chunk, s \in T
      PROVE  Append(s, c) \in T
  <2>1. /\ s \in Seq(Item) /\ c \in Item /\ c \notin Block
        /\ \A i \in 1..Len(s) : s[i] \notin Block
    BY ElementOfSeq DEF Item
  <2>2. BytesBy(Append(s, c), F) = BytesBy(s, F) \o <<c>>
    BY <2>1, BytesByAppend
  <2>3. BytesBy(s, F) = s
    BY <1>2
  <2>4. Append(s, c) = s \o <<c>>
    OBVIOUS
  <2> QED
    BY <2>2, <2>3, <2>4
<1>3. Seq(Chunk) \subseteq T
  <2> HIDE DEF T
  <2> QED
    BY <1>1, <1>2, SeqSetInduction
<1> QED
  BY <1>3

(* What holds a block is as long as it, and if no longer, it is the same.   *)
LEMMA BytesByHolds ==
  ASSUME NEW F \in [Block -> Seq(Chunk)]
  PROVE  \A items \in Seq(Item) : \A i \in 1..Len(items) :
            items[i] \in Block =>
               /\ Len(F[items[i]]) <= Len(BytesBy(items, F))
               /\ Len(F[items[i]]) = Len(BytesBy(items, F))
                     => F[items[i]] = BytesBy(items, F)
<1> DEFINE Holds(s) ==
              \A i \in 1..Len(s) : s[i] \in Block =>
                 /\ Len(F[s[i]]) <= Len(BytesBy(s, F))
                 /\ Len(F[s[i]]) = Len(BytesBy(s, F)) => F[s[i]] = BytesBy(s, F)
           T == {s \in Seq(Item) : Holds(s)}
<1>1. <<>> \in T
  OBVIOUS
<1>2. ASSUME NEW s \in Seq(Item), NEW x \in Item, s \in T
      PROVE  Append(s, x) \in T
  <2> DEFINE a == BytesBy(s, F)
             p == IF x \in Block THEN F[x] ELSE <<x>>
             all == Append(s, x)
  <2>1. /\ a \in Seq(Chunk) /\ p \in Seq(Chunk)
    BY PartsType DEF Item
  <2>2. BytesBy(all, F) = a \o p
    BY BytesByAppend
  <2>3. /\ Len(s) \in Nat /\ Len(all) = Len(s) + 1 /\ all \in Seq(Item)
        /\ all[Len(s) + 1] = x /\ \A i \in 1..Len(s) : all[i] = s[i]
    BY AppendProperties
  <2>4. /\ Len(a) \in Nat /\ Len(p) \in Nat /\ Len(a \o p) = Len(a) + Len(p)
        /\ Len(p) = 0 => a \o p = a
        /\ Len(a) = 0 => a \o p = p
    <3> HIDE DEF a, p
    <3> QED
      BY <2>1, EmptySeq, ConcatEmptySeq, ConcatProperties
  <2>5. \A i \in 1..Len(s) : s[i] \in Block =>
           /\ Len(F[s[i]]) <= Len(a) /\ (Len(F[s[i]]) = Len(a) => F[s[i]] = a)
           /\ Len(F[s[i]]) \in Nat
    BY <1>2
  <2>6. x \in Block => F[x] = p
    OBVIOUS
  <2> HIDE DEF a, p, all
  <2>7. ASSUME NEW i \in 1..Len(all), all[i] \in Block
        PROVE  /\ Len(F[all[i]]) <= Len(a \o p)
               /\ Len(F[all[i]]) = Len(a \o p) => F[all[i]] = a \o p
    <3>1. CASE i = Len(s) + 1
      BY <2>3, <2>4, <2>6, <2>7, <3>1
    <3>2. CASE i # Len(s) + 1
      <4>1. i \in 1..Len(s) /\ all[i] = s[i]
        BY <2>3, <3>2
      <4> QED
        BY <2>4, <2>5, <2>7, <4>1
    <3> QED
      BY <3>1, <3>2
  <2> QED
    BY <2>2, <2>3, <2>7 DEF all
<1>3. Seq(Item) \subseteq T
  <2> HIDE DEF T
  <2> QED
    BY <1>1, <1>2, SeqSetInduction
<1> QED
  BY <1>3

(* Forms that point down a rank have a content, and it is made of pieces.   *)
PointDown(N, form, rank) ==
    \A n \in N : \A i \in 1..Len(form[n]) :
        form[n][i] \in Block => /\ form[n][i] \in N
                                /\ rank[form[n][i]] < rank[n]

LEMMA ContentExists ==
  ASSUME NEW N, NEW form \in [N -> Seq(Item)], NEW rank \in [N -> Nat],
         PointDown(N, form, rank)
  PROVE  \E F : IsContent(F, N, form)
<1>1. PICK V : V = Seq(Chunk)
  OBVIOUS
<1>2. PICK G : G = [n \in N |-> [f \in [N -> V] |-> BytesBy(form[n], f)]]
  OBVIOUS
<1>0. \A n \in N : \A f \in [N -> V] : G[n][f] = BytesBy(form[n], f)
  BY <1>2
<1>3. ASSUME NEW n \in N, NEW f \in [N -> V] PROVE G[n][f] \in V
  <2>1. \A i \in 1..Len(form[n]) :
           form[n][i] \in Block => f[form[n][i]] \in Seq(Chunk)
    BY <1>1 DEF PointDown
  <2>2. form[n] \in Seq(Item)
    OBVIOUS
  <2>3. BytesBy(form[n], f) \in Seq(Chunk)
    BY <2>1, <2>2, PartsType
  <2> QED
    BY <1>0, <1>1, <2>3
<1>4. LooksDown(G, N, V, rank)
  <2> SUFFICES ASSUME NEW n \in N, NEW f \in [N -> V], NEW g \in [N -> V],
                      \A m \in N : rank[m] < rank[n] => f[m] = g[m]
               PROVE  G[n][f] = G[n][g]
    BY DEF LooksDown
  <2>1. \A i \in 1..Len(form[n]) : form[n][i] \in Block =>
           f[form[n][i]] = g[form[n][i]]
    BY DEF PointDown
  <2>2. BytesBy(form[n], f) = BytesBy(form[n], g)
    BY <2>1, BytesByAgree
  <2> QED
    BY <1>0, <2>2
<1>5. WellDefined(G, N, V, rank)
  <2>1. <<>> \in V
    BY <1>1
  <2>2. V # {}
    BY <2>1
  <2> QED
    BY <1>3, <1>4, <2>2 DEF WellDefined
<1>6. PICK F \in [N -> V] : \A n \in N : F[n] = G[n][F]
  BY <1>5, RecursionExists DEF HasSolution
<1>7. F = [n \in N |-> BytesBy(form[n], F)]
  BY <1>0, <1>6
<1> QED
  BY <1>7 DEF IsContent

LEMMA ContentType ==
  ASSUME NEW N, NEW form \in [N -> Seq(Item)], NEW rank \in [N -> Nat],
         PointDown(N, form, rank), NEW F, IsContent(F, N, form)
  PROVE  F \in [N -> Seq(Chunk)] /\ \A n \in N : F[n] = BytesBy(form[n], F)
<1>1. DOMAIN F = N /\ F = [n \in N |-> F[n]]
      /\ \A n \in N : F[n] = BytesBy(form[n], F)
  BY DEF IsContent
<1> DEFINE T == {k \in Nat : \A n \in N : rank[n] < k => F[n] \in Seq(Chunk)}
<1>2. 0 \in T
  OBVIOUS
<1>3. ASSUME NEW k \in Nat, k \in T PROVE k + 1 \in T
  <2> SUFFICES ASSUME NEW n \in N, rank[n] < k + 1 PROVE F[n] \in Seq(Chunk)
    OBVIOUS
  <2>1. \A i \in 1..Len(form[n]) :
           form[n][i] \in Block => F[form[n][i]] \in Seq(Chunk)
    BY <1>3 DEF PointDown
  <2>2. form[n] \in Seq(Item)
    OBVIOUS
  <2> QED
    BY <1>1, <2>1, <2>2, PartsType
<1>4. Nat \subseteq T
  <2> HIDE DEF T
  <2> QED
    BY <1>2, <1>3, NatSetInduction
<1>5. ASSUME NEW n \in N PROVE F[n] \in Seq(Chunk)
  <2>1. rank[n] \in Nat /\ rank[n] + 1 \in T /\ rank[n] < rank[n] + 1
    BY <1>4
  <2> QED
    BY <2>1
<1> QED
  BY <1>1, <1>5

-----------------------------------------------------------------------------
(* The contents of the objects.                                             *)

LEMMA ExpandFacts ==
  /\ Expand \in [Node -> Seq(Chunk)]
  /\ \A n \in Node : Expand[n] = BytesOf(Body[n])
<1>1. Body \in [Node -> Seq(Item)] /\ Rank \in [Node -> Nat]
  BY ObjectsAssumption
<1>2. PointDown(Node, Body, Rank)
  BY ObjectsAssumption DEF PointDown, Node
<1>3. IsContent(Expand, Node, Body)
  <2>1. \E F : IsContent(F, Node, Body)
    BY <1>1, <1>2, ContentExists
  <2>2. Expand = CHOOSE F : IsContent(F, Node, Body)
    BY DEF Expand, IsContent, BytesBy, Parts
  <2> QED
    BY <2>1, <2>2
<1>4. Expand \in [Node -> Seq(Chunk)]
      /\ \A n \in Node : Expand[n] = BytesBy(Body[n], Expand)
  BY <1>1, <1>2, <1>3, ContentType
<1>5. \A items : BytesOf(items) = BytesBy(items, Expand)
  BY DEF BytesOf, BytesBy, Parts
<1> QED
  BY <1>4, <1>5

LEMMA BytesOfFacts ==
  /\ BytesOf(<<>>) = <<>>
  /\ \A items \in Seq(Item) :
       /\ BytesOf(items) \in Seq(Chunk)
       /\ \A c \in Chunk : BytesOf(Append(items, c)) = Append(BytesOf(items), c)
       /\ \A b \in Block : BytesOf(Append(items, b)) = BytesOf(items) \o Expand[b]
       /\ \A i \in 1..Len(items) : items[i] \in Block =>
             /\ Len(Expand[items[i]]) <= Len(BytesOf(items))
             /\ Len(Expand[items[i]]) = Len(BytesOf(items))
                   => Expand[items[i]] = BytesOf(items)
  /\ \A chunks \in Seq(Chunk) : BytesOf(chunks) = chunks
<1> DEFINE F == [b \in Block |-> Expand[b]]
<1>1. F \in [Block -> Seq(Chunk)] /\ \A b \in Block : F[b] = Expand[b]
  BY ExpandFacts DEF Node
<1> HIDE DEF F
<1>2. \A items : BytesOf(items) = BytesBy(items, F)
  <2> SUFFICES ASSUME NEW items PROVE BytesBy(items, Expand) = BytesBy(items, F)
    BY DEF BytesOf, BytesBy, Parts
  <2> QED
    BY <1>1, BytesByAgree
<1>3. BytesOf(<<>>) = <<>>
  BY <1>2, BytesByEmpty
<1>4. ASSUME NEW items \in Seq(Item) PROVE BytesOf(items) \in Seq(Chunk)
  BY <1>1, <1>2, PartsType
<1>5. ASSUME NEW items \in Seq(Item), NEW c \in Chunk
      PROVE  BytesOf(Append(items, c)) = Append(BytesOf(items), c)
  <2>1. c \notin Block /\ c \in Item
    BY ObjectsAssumption DEF Item
  <2>2. BytesBy(Append(items, c), F) = BytesBy(items, F) \o <<c>>
    BY <1>1, <2>1, BytesByAppend
  <2>3. \A s \in Seq(Chunk) : s \o <<c>> = Append(s, c)
    OBVIOUS
  <2> QED
    BY <1>2, <1>4, <2>2, <2>3
<1>6. ASSUME NEW items \in Seq(Item), NEW b \in Block
      PROVE  BytesOf(Append(items, b)) = BytesOf(items) \o Expand[b]
  <2>1. b \in Item
    BY DEF Item
  <2>2. BytesBy(Append(items, b), F) = BytesBy(items, F) \o F[b]
    BY <1>1, <2>1, BytesByAppend
  <2> QED
    BY <1>1, <1>2, <2>2
<1>7. \A items \in Seq(Item) : \A i \in 1..Len(items) : items[i] \in Block =>
         /\ Len(Expand[items[i]]) <= Len(BytesOf(items))
         /\ Len(Expand[items[i]]) = Len(BytesOf(items))
               => Expand[items[i]] = BytesOf(items)
  BY <1>1, <1>2, BytesByHolds
<1>8. \A chunks \in Seq(Chunk) : BytesOf(chunks) = chunks
  BY <1>2, BytesByChunks, ObjectsAssumption
<1> QED
  BY <1>3, <1>4, <1>5, <1>6, <1>7, <1>8

-----------------------------------------------------------------------------
(* The block store.                                                         *)

(* What is stored is what the ids name, and no block points to itself.      *)
StoreOK ==
    /\ store \in [Block -> Stored]
    /\ StoreIntegrity
    /\ \A b \in Block : Exists(b) =>
          \A i \in 1..Len(store[b]) : store[b][i] # b

LEMMA ExpandType == \A b \in Block : /\ Expand[b] \in Seq(Chunk)
                                     /\ Expand[b] \in Seq(Item)
                                     /\ Len(Expand[b]) \in Nat
<1> SUFFICES ASSUME NEW b \in Block
             PROVE  Expand[b] \in Seq(Chunk) /\ Expand[b] \in Seq(Item)
                    /\ Len(Expand[b]) \in Nat
  OBVIOUS
<1>1. Expand[b] \in Seq(Chunk)
  BY ExpandFacts DEF Node
<1>2. \A s \in Seq(Chunk) : s \in Seq(Item)
  BY DEF Item
<1> QED
  BY <1>1, <1>2, LenProperties

LEMMA FormFacts ==
  ASSUME StoreOK, NEW b \in Block
  PROVE  /\ FormOf(b) \in Seq(Item)
         /\ Exists(b) => FormOf(b) = store[b] /\ BytesOf(store[b]) = Expand[b]
BY EmptySeq DEF StoreOK, StoreIntegrity, FormOf, Exists, Stored

(* The blocks in a stored block are shorter: they are not as long, or they  *)
(* would be that block.                                                     *)
LEMMA PointersShorter ==
  ASSUME StoreOK, NEW b \in Block, Exists(b), NEW i \in 1..Len(store[b]),
         store[b][i] \in Block
  PROVE  Len(Expand[store[b][i]]) < Len(Expand[b])
<1> DEFINE c == store[b][i]
<1>1. store[b] \in Seq(Item) /\ BytesOf(store[b]) = Expand[b]
  BY FormFacts
<1>2. /\ Len(Expand[c]) <= Len(Expand[b])
      /\ Len(Expand[c]) = Len(Expand[b]) => Expand[c] = Expand[b]
  BY <1>1, BytesOfFacts
<1>3. c # b
  BY DEF StoreOK
<1>4. Expand[c] # Expand[b]
  BY <1>3, HashAssumption
<1> QED
  BY <1>2, <1>4, ExpandType

LEMMA FormsPointDown ==
  ASSUME StoreOK
  PROVE  PointDown(Block, [b \in Block |-> FormOf(b)],
                   [b \in Block |-> Len(Expand[b])])
<1> SUFFICES ASSUME NEW b \in Block, NEW i \in 1..Len(FormOf(b)),
                    FormOf(b)[i] \in Block
             PROVE  Len(Expand[FormOf(b)[i]]) < Len(Expand[b])
  BY DEF PointDown
<1>1. Exists(b)
  BY DEF FormOf
<1> QED
  BY <1>1, FormFacts, PointersShorter

(* Whether a block can be read, and what is read then, by what it points to.*)
LEMMA ReadableFacts ==
  ASSUME StoreOK, NEW b \in Block
  PROVE  Readable(b) <=>
            /\ Exists(b)
            /\ \A i \in DOMAIN store[b] :
                  store[b][i] \in Block => Readable(store[b][i])
<1>1. PICK V : V = BOOLEAN
  OBVIOUS
<1>2. PICK rank : rank = [c \in Block |-> Len(Expand[c])]
  OBVIOUS
<1>3. PICK G : G = [c \in Block |-> [f \in [Block -> V] |->
                  /\ Exists(c)
                  /\ \A i \in DOMAIN store[c] :
                        store[c][i] \in Block => f[store[c][i]]]]
  OBVIOUS
<1>4. WellDefined(G, Block, V, rank)
  <2>1. rank \in [Block -> Nat] /\ V # {}
    BY <1>1, <1>2, ExpandType
  <2>2. \A c \in Block : \A f \in [Block -> V] : G[c][f] \in V
    BY <1>1, <1>3
  <2>3. ASSUME NEW c \in Block, NEW f \in [Block -> V], NEW g \in [Block -> V],
               \A m \in Block : rank[m] < rank[c] => f[m] = g[m]
        PROVE  G[c][f] = G[c][g]
    <3>1. CASE ~Exists(c)
      BY <1>3, <3>1
    <3>2. CASE Exists(c)
      <4>1. \A i \in DOMAIN store[c] : i \in 1..Len(store[c])
        BY <3>2, FormFacts
      <4>2. \A i \in DOMAIN store[c] :
               store[c][i] \in Block => f[store[c][i]] = g[store[c][i]]
        BY <1>2, <2>3, <3>2, <4>1, PointersShorter
      <4> QED
        BY <1>3, <4>2
    <3> QED
      BY <3>1, <3>2
  <2> QED
    BY <2>1, <2>2, <2>3 DEF WellDefined, LooksDown
<1>5. PICK f \in [Block -> V] : \A c \in Block : f[c] = G[c][f]
  BY <1>4, RecursionExists DEF HasSolution
<1> DEFINE Step(h) == [c \in Block |->
                          /\ Exists(c)
                          /\ \A i \in DOMAIN store[c] :
                                store[c][i] \in Block => h[store[c][i]]]
           readable == CHOOSE h : h = Step(h)
<1>6. f = Step(f)
  BY <1>3, <1>5
<1>7. readable = Step(readable)
  <2> HIDE DEF Step
  <2> QED
    BY <1>6
<1>8. \A c \in Block : Readable(c) <=> readable[c]
  BY DEF Readable
<1> HIDE DEF readable
<1>9. readable[b] <=> /\ Exists(b)
                      /\ \A i \in DOMAIN store[b] :
                            store[b][i] \in Block => readable[store[b][i]]
  BY <1>7
<1> QED
  BY <1>8, <1>9

LEMMA StoredBytesFacts ==
  ASSUME StoreOK, NEW b \in Block
  PROVE  /\ StoredBytes(b) \in Seq(Chunk)
         /\ Readable(b) => StoredBytes(b) = Expand[b]
<1> DEFINE form == [c \in Block |-> FormOf(c)]
           rank == [c \in Block |-> Len(Expand[c])]
           bytes == CHOOSE F : IsContent(F, Block, form)
<1>1. form \in [Block -> Seq(Item)] /\ rank \in [Block -> Nat]
  BY FormFacts, ExpandType
<1>2. PointDown(Block, form, rank)
  BY FormsPointDown
<1>3. \A c \in Block : StoredBytes(c) = bytes[c]
  BY DEF StoredBytes, IsContent, BytesBy, Parts
<1>4. \A c \in Block : form[c] = FormOf(c) /\ rank[c] = Len(Expand[c])
  OBVIOUS
<1> HIDE DEF form, rank
<1>5. IsContent(bytes, Block, form)
  BY <1>1, <1>2, ContentExists
<1> HIDE DEF bytes
<1>6. bytes \in [Block -> Seq(Chunk)]
      /\ \A c \in Block : bytes[c] = BytesBy(FormOf(c), bytes)
  <2>1. bytes \in [Block -> Seq(Chunk)]
    BY <1>1, <1>2, <1>5, ContentType
  <2>2. \A c \in Block : bytes[c] = BytesBy(form[c], bytes)
    BY <1>5 DEF IsContent
  <2> QED
    BY <1>4, <2>1, <2>2
<1> DEFINE T == {k \in Nat : \A c \in Block :
                    Len(Expand[c]) < k /\ Readable(c) => bytes[c] = Expand[c]}
<1>7. 0 \in T
  BY ExpandType
<1>8. ASSUME NEW k \in Nat, k \in T PROVE k + 1 \in T
  <2> SUFFICES ASSUME NEW c \in Block, Len(Expand[c]) < k + 1, Readable(c)
               PROVE  bytes[c] = Expand[c]
    OBVIOUS
  <2>1. Exists(c) /\ FormOf(c) = store[c] /\ BytesOf(store[c]) = Expand[c]
        /\ store[c] \in Seq(Item)
    BY ReadableFacts, FormFacts
  <2>2. ASSUME NEW i \in 1..Len(store[c]), store[c][i] \in Block
        PROVE  bytes[store[c][i]] = Expand[store[c][i]]
    <3>1. Len(Expand[store[c][i]]) < Len(Expand[c])
      BY <2>1, <2>2, PointersShorter
    <3>2. Readable(store[c][i])
      <4>1. i \in DOMAIN store[c]
        BY <2>1, <2>2
      <4> QED
        BY <2>2, <4>1, ReadableFacts
    <3> QED
      BY <1>8, <2>2, <3>1, <3>2, ExpandType
  <2>3. BytesBy(store[c], bytes) = BytesBy(store[c], Expand)
    BY <2>2, BytesByAgree
  <2>4. BytesOf(store[c]) = BytesBy(store[c], Expand)
    BY DEF BytesOf, BytesBy, Parts
  <2> QED
    BY <1>6, <2>1, <2>3, <2>4
<1>9. Nat \subseteq T
  <2> HIDE DEF T
  <2> QED
    BY <1>7, <1>8, NatSetInduction
<1>10. ASSUME Readable(b) PROVE bytes[b] = Expand[b]
  <2>1. Len(Expand[b]) + 1 \in T /\ Len(Expand[b]) < Len(Expand[b]) + 1
    BY <1>9, ExpandType
  <2> QED
    BY <1>10, <2>1
<1> QED
  BY <1>3, <1>6, <1>10

LEMMA StoreKept ==
  ASSUME StoreOK, NEW b \in Block, NEW form \in Stored,
         store' = [store EXCEPT ![b] = form],
         form # None => /\ BytesOf(form) = Expand[b]
                        /\ \A i \in 1..Len(form) : form[i] # b
  PROVE  StoreOK'
<1>1. store' \in [Block -> Stored]
  BY DEF StoreOK
<1>2. \A c \in Block : store'[c] = IF c = b THEN form ELSE store[c]
  BY DEF StoreOK
<1>3. \A c \in Block : store'[c] # None =>
         /\ BytesOf(store'[c]) = Expand[c]
         /\ \A i \in 1..Len(store'[c]) : store'[c][i] # c
  BY <1>2 DEF StoreOK, StoreIntegrity, Exists
<1> QED
  BY <1>1, <1>3 DEF StoreOK, StoreIntegrity, Exists

(* A block in either of the forms it is built in.                           *)
LEMMA BuiltForms ==
  ASSUME NEW b \in Block, NEW form \in {Expand[b], Body[b]}
  PROVE  /\ form \in Seq(Item)
         /\ BytesOf(form) = Expand[b]
         /\ \A i \in 1..Len(form) : form[i] # b
<1>1. b \in Node /\ b \in Block
  BY DEF Node
<1>2. CASE form = Expand[b]
  <2>1. form \in Seq(Chunk) /\ form \in Seq(Item)
    BY <1>2, ExpandType
  <2>2. BytesOf(form) = Expand[b]
    BY <1>2, <2>1, BytesOfFacts
  <2>3. \A i \in 1..Len(form) : form[i] \in Chunk
    BY <2>1, ElementOfSeq
  <2> QED
    BY <2>1, <2>2, <2>3, ObjectsAssumption
<1>3. CASE form = Body[b]
  <2>1. form \in Seq(Item) /\ BytesOf(form) = Expand[b]
    BY <1>1, <1>3, ExpandFacts, ObjectsAssumption
  <2>2. ASSUME NEW i \in 1..Len(form), form[i] = b PROVE FALSE
    <3>1. Rank[b] < Rank[b] /\ Rank[b] \in Nat
      BY <1>1, <1>3, <2>2, ObjectsAssumption
    <3> QED
      BY <3>1
  <2> QED
    BY <2>1, <2>2
<1> QED
  BY <1>2, <1>3

LEMMA StoreInit == Init => StoreOK
<1> SUFFICES ASSUME Init PROVE StoreOK
  OBVIOUS
<1>1. store \in StoresBefore
  BY DEF Init
<1>2. ASSUME NEW b \in Block PROVE store[b] \in {None, Expand[b], Body[b]}
  BY <1>1 DEF StoresBefore, FormsOf
<1>3. DOMAIN store = Block /\ store = [b \in Block |-> store[b]]
  BY <1>1 DEF StoresBefore
<1>4. ASSUME NEW b \in Block PROVE store[b] \in Stored
  BY <1>2, BuiltForms DEF Stored
<1>5. store \in [Block -> Stored]
  BY <1>3, <1>4
<1>6. ASSUME NEW b \in Block, Exists(b)
      PROVE  /\ BytesOf(store[b]) = Expand[b]
             /\ \A i \in 1..Len(store[b]) : store[b][i] # b
  <2>1. store[b] \in {Expand[b], Body[b]}
    BY <1>2, <1>6 DEF Exists
  <2> QED
    BY <2>1, BuiltForms
<1> QED
  BY <1>5, <1>6 DEF StoreOK, StoreIntegrity

(* The other users of the block directory.                                  *)
LEMMA OthersKeepStore ==
  ASSUME StoreOK, NEW b \in Block, OtherStores(b) \/ CleanUp(b)
  PROVE  StoreOK'
<1>1. CASE OtherStores(b)
  <2>1. PICK form \in {Expand[b], Body[b]} : store' = [store EXCEPT ![b] = form]
    BY <1>1 DEF OtherStores
  <2>2. form \in Stored /\ BytesOf(form) = Expand[b]
        /\ \A i \in 1..Len(form) : form[i] # b
    BY BuiltForms DEF Stored
  <2> QED
    BY <2>1, <2>2, StoreKept
<1>2. CASE CleanUp(b)
  <2>1. None \in Stored /\ store' = [store EXCEPT ![b] = None]
    BY <1>2 DEF CleanUp, Stored
  <2> QED
    BY <2>1, StoreKept
<1> QED
  BY <1>1, <1>2

-----------------------------------------------------------------------------
(* What is being saved.                                                     *)

(* A path of files being written, down from the object.                     *)
SavingOK ==
    /\ saving \in Seq(Frame)
    /\ saving # <<>>
    /\ saving[1].id = Root
    /\ \A i \in 2..Len(saving) : saving[i].id \in Block

LEMMA SavingFacts ==
  ASSUME SavingOK
  PROVE  /\ Len(saving) \in Nat \ {0}
         /\ \A i \in 1..Len(saving) :
               /\ saving[i] \in Frame
               /\ saving[i].id \in Node
               /\ saving[i].items \in Seq(Item)
               /\ saving[i].hashed \in Seq(Chunk)
         /\ \A i \in 2..Len(saving) : saving[i].id # Root
         /\ Last(saving) = saving[Len(saving)]
<1>1. Len(saving) \in Nat \ {0}
  BY EmptySeq DEF SavingOK
<1>2. \A i \in 1..Len(saving) : saving[i] \in Frame
  BY ElementOfSeq DEF SavingOK
<1>3. \A i \in 2..Len(saving) : saving[i].id # Root
  BY ObjectsAssumption DEF SavingOK
<1> QED
  BY <1>1, <1>2, <1>3 DEF Frame, Last

LEMMA FedFacts ==
  ASSUME SavingOK, NEW items \in Seq(Item), NEW bytes \in Seq(Chunk)
  PROVE  LET fed == Fed(items, bytes)
             n   == Len(saving)
         IN  /\ fed \in Seq(Frame) /\ Len(fed) = n /\ fed # <<>>
             /\ \A i \in 1..n : fed[i].id = saving[i].id
             /\ \A i \in 1..(n - 1) : fed[i].items = saving[i].items
             /\ fed[n].items = saving[n].items \o items
             /\ \A i \in 2..n : fed[i].hashed = saving[i].hashed \o bytes
<1> DEFINE fed == Fed(items, bytes)
           n   == Len(saving)
<1>1. /\ n \in Nat \ {0} /\ saving[1].id = Root
      /\ \A i \in 2..n : saving[i].id # Root
      /\ \A i \in 1..n : /\ saving[i] \in Frame
                         /\ saving[i].id \in Node
                         /\ saving[i].items \in Seq(Item)
                         /\ saving[i].hashed \in Seq(Chunk)
  BY SavingFacts DEF SavingOK
<1>2. ASSUME NEW i \in 1..n
      PROVE  /\ fed[i] \in Frame
             /\ fed[i].id = saving[i].id
             /\ fed[i].items = IF i = n THEN saving[i].items \o items
                                        ELSE saving[i].items
             /\ fed[i].hashed = IF saving[i].id = Root THEN saving[i].hashed
                                                  ELSE saving[i].hashed \o bytes
  <2> DEFINE s == saving[i]
             it == IF i = n THEN s.items \o items ELSE s.items
             ha == IF s.id = Root THEN s.hashed ELSE s.hashed \o bytes
  <2>1. fed[i] = [s EXCEPT !.items = it, !.hashed = ha]
    BY DEF Fed
  <2>2. it \in Seq(Item) /\ ha \in Seq(Chunk)
    BY <1>1, ConcatProperties
  <2>3. s \in Frame
    BY <1>1
  <2> HIDE DEF s, it, ha, fed
  <2>4. /\ fed[i] \in Frame /\ fed[i].id = s.id
        /\ fed[i].items = it /\ fed[i].hashed = ha
    BY <2>1, <2>2, <2>3 DEF Frame
  <2> QED
    BY <2>4 DEF s, it, ha
<1>3. fed \in Seq(Frame) /\ Len(fed) = n
  <2>1. fed = [i \in 1..n |-> fed[i]]
    BY DEF Fed
  <2> HIDE DEF fed
  <2>2. fed \in [1..n -> Frame]
    BY <1>2, <2>1
  <2>3. fed \in Seq(Frame)
    BY <1>1, <2>2, IsASeq
  <2> QED
    BY <1>1, <2>2, <2>3, LenProperties
<1> HIDE DEF fed
<1>4. fed # <<>>
  BY <1>1, <1>3
<1>5. \A i \in 2..n : i \in 1..n
  BY <1>1
<1>6. \A i \in 1..(n - 1) : i \in 1..n /\ i # n
  BY <1>1
<1>7. n \in 1..n
  BY <1>1
<1> QED
  BY <1>1, <1>2, <1>3, <1>4, <1>5, <1>6, <1>7 DEF fed

-----------------------------------------------------------------------------
(* What the hashers have been fed.                                          *)

(* HashersFed of one file, within `path` whose last is drained into `inner`.*)
FedAt(path, inner, i) ==
    IF i < Len(path)
      THEN /\ path[i].items # <<>>
           /\ Last(path[i].items) = path[i + 1].id
           /\ path[i].hashed = BytesOf(Front(path[i].items)) \o path[i + 1].hashed
    ELSE IF inner = None
      THEN path[i].hashed = BytesOf(path[i].items)
    ELSE /\ path[i].items # <<>>
         /\ Last(path[i].items) = inner
         /\ path[i].hashed = BytesOf(Front(path[i].items))

LEMMA FedAtFacts ==
  ASSUME NEW path \in Seq(Frame), path # <<>>, NEW inner,
         \A i \in 2..Len(path) : path[i].id \in Block
  PROVE  (\A i \in 2..Len(path) :
            LET items == path[i].items
                within == IF i < Len(path) THEN path[i + 1].id ELSE inner
                fed   == IF i < Len(path) THEN path[i + 1].hashed ELSE <<>>
            IN  IF within = None
                  THEN path[i].hashed = BytesOf(items)
                  ELSE /\ items # <<>>
                       /\ Last(items) = within
                       /\ path[i].hashed = BytesOf(Front(items)) \o fed)
         <=> \A i \in 2..Len(path) : FedAt(path, inner, i)
<1> DEFINE n == Len(path)
<1>1. n \in Nat \ {0} /\ None \notin Block
  BY EmptySeq, ObjectsAssumption DEF Node
<1>2. \A i \in 1..n : path[i] \in Frame
  BY ElementOfSeq
<1> SUFFICES ASSUME NEW i \in 2..n
             PROVE  (LET items == path[i].items
                         within == IF i < n THEN path[i + 1].id ELSE inner
                         fed   == IF i < n THEN path[i + 1].hashed ELSE <<>>
                     IN  IF within = None
                           THEN path[i].hashed = BytesOf(items)
                           ELSE /\ items # <<>>
                                /\ Last(items) = within
                                /\ path[i].hashed = BytesOf(Front(items)) \o fed)
                    <=> FedAt(path, inner, i)
  BY Zenon
<1>3. CASE i < n
  <2>1. path[i + 1].id # None
    BY <1>1, <1>3
  <2> QED
    BY <1>3, <2>1 DEF FedAt
<1>4. CASE ~(i < n)
  <2>1. path[i] \in Frame
    BY <1>1, <1>2
  <2>2. ASSUME path[i].items # <<>>
        PROVE  BytesOf(Front(path[i].items)) \o <<>> = BytesOf(Front(path[i].items))
    <3>1. Front(path[i].items) \in Seq(Item)
      BY <2>1, <2>2, FrontFacts DEF Frame
    <3> QED
      BY <3>1, BytesOfFacts, ConcatEmptySeq
  <2> QED
    BY <1>4, <2>2 DEF FedAt
<1> QED
  BY <1>3, <1>4

LEMMA ConcatChunks ==
  ASSUME NEW s \in Seq(Chunk), NEW t \in Seq(Chunk), NEW u \in Seq(Chunk)
  PROVE  (s \o t) \o u = s \o (t \o u)
BY ConcatAssoc

(* The files around the innermost, when both have been fed the same.        *)
LEMMA OuterFed ==
  ASSUME NEW path \in Seq(Frame), NEW after, NEW inner, NEW later,
         NEW bytes \in Seq(Chunk), NEW i \in 2..(Len(path) - 1),
         Len(after) >= Len(path), FedAt(path, inner, i),
         after[i].items = path[i].items,
         after[i].hashed = path[i].hashed \o bytes,
         after[i + 1].id = path[i + 1].id,
         after[i + 1].hashed = path[i + 1].hashed \o bytes,
         Len(after) \in Nat
  PROVE  FedAt(after, later, i)
<1>1. Len(path) \in Nat /\ i \in 1..Len(path) /\ i + 1 \in 1..Len(path)
      /\ i < Len(path) /\ i < Len(after)
  OBVIOUS
<1>2. path[i] \in Frame /\ path[i + 1] \in Frame
  BY <1>1, ElementOfSeq
<1>3. /\ path[i].items # <<>>
      /\ Last(path[i].items) = path[i + 1].id
      /\ path[i].hashed = BytesOf(Front(path[i].items)) \o path[i + 1].hashed
  BY <1>1 DEF FedAt
<1>4. Front(path[i].items) \in Seq(Item)
  BY <1>2, <1>3, FrontFacts DEF Frame
<1>5. BytesOf(Front(path[i].items)) \in Seq(Chunk)
      /\ path[i + 1].hashed \in Seq(Chunk)
  BY <1>2, <1>4, BytesOfFacts DEF Frame
<1>6. (BytesOf(Front(path[i].items)) \o path[i + 1].hashed) \o bytes
         = BytesOf(Front(path[i].items)) \o (path[i + 1].hashed \o bytes)
  BY <1>5, ConcatChunks
<1> QED
  BY <1>1, <1>3, <1>6 DEF FedAt

LEMMA HashersFedIs ==
  ASSUME SavingOK
  PROVE  HashersFed <=> \A i \in 2..Len(saving) : FedAt(saving, draining, i)
BY FedAtFacts DEF HashersFed, SavingOK

LEMMA HashersFedThen ==
  ASSUME SavingOK'
  PROVE  HashersFed' <=> \A i \in 2..Len(saving') : FedAt(saving', draining', i)
BY FedAtFacts DEF HashersFed, SavingOK

(* A piece goes into the innermost file.                                    *)
LEMMA FeedPiece ==
  ASSUME SavingOK, HashersFed, draining = None, NEW c \in Chunk,
         saving' = Fed(<<c>>, <<c>>), draining' = None
  PROVE  SavingOK' /\ HashersFed'
<1> DEFINE n == Len(saving)
           fed == Fed(<<c>>, <<c>>)
<1>1. <<c>> \in Seq(Item) /\ <<c>> \in Seq(Chunk) /\ c \in Item
  BY DEF Item
<1>2. /\ fed \in Seq(Frame) /\ Len(fed) = n /\ fed # <<>>
      /\ \A i \in 1..n : fed[i].id = saving[i].id
      /\ \A i \in 1..(n - 1) : fed[i].items = saving[i].items
      /\ fed[n].items = saving[n].items \o <<c>>
      /\ \A i \in 2..n : fed[i].hashed = saving[i].hashed \o <<c>>
  BY <1>1, FedFacts
<1>3. /\ n \in Nat \ {0} /\ saving \in Seq(Frame)
      /\ \A i \in 1..n : /\ saving[i].items \in Seq(Item)
                         /\ saving[i].hashed \in Seq(Chunk)
  BY SavingFacts DEF SavingOK
<1>0. saving' = fed
  OBVIOUS
<1> HIDE DEF fed
<1>a. \A i \in 2..n : i \in 1..n
  BY <1>3
<1>4. SavingOK'
  <2>1. 1 \in 1..n /\ fed[1].id = Root
    BY <1>2, <1>3 DEF SavingOK
  <2>2. \A i \in 2..Len(fed) : fed[i].id \in Block
    BY <1>2, <1>3, <1>a DEF SavingOK
  <2> QED
    BY <1>0, <1>2, <2>1, <2>2 DEF SavingOK
<1>5. \A i \in 2..n : FedAt(saving, None, i)
  BY HashersFedIs
<1>6. ASSUME NEW i \in 2..(n - 1) PROVE FedAt(fed, None, i)
  <2>1. i \in 2..n /\ i + 1 \in 2..n /\ i \in 1..(n - 1) /\ n \in Nat
    BY <1>3
  <2>2. /\ fed[i].items = saving[i].items
        /\ fed[i].hashed = saving[i].hashed \o <<c>>
        /\ fed[i + 1].hashed = saving[i + 1].hashed \o <<c>>
        /\ fed[i + 1].id = saving[i + 1].id
    BY <1>2, <1>a, <2>1
  <2>3. FedAt(saving, None, i) /\ Len(fed) >= Len(saving) /\ Len(fed) \in Nat
    BY <1>2, <1>3, <1>5, <2>1
  <2> QED
    BY <1>1, <1>3, <2>2, <2>3, OuterFed
<1>7. n > 1 => FedAt(fed, None, n)
  <2> SUFFICES ASSUME n > 1 PROVE FedAt(fed, None, n)
    OBVIOUS
  <2>2. saving[n].items \in Seq(Item) /\ n \in 2..n /\ ~(n < n)
    BY <1>3
  <2>0. FedAt(saving, None, n)
    BY <1>5, <2>2
  <2>1. saving[n].hashed = BytesOf(saving[n].items)
    BY <2>0, <2>2 DEF FedAt
  <2>3. saving[n].items \o <<c>> = Append(saving[n].items, c)
    BY <1>1, <2>2, AppendFacts
  <2>4. BytesOf(Append(saving[n].items, c)) = Append(BytesOf(saving[n].items), c)
    BY <2>2, BytesOfFacts
  <2>5. BytesOf(saving[n].items) \o <<c>> = Append(BytesOf(saving[n].items), c)
    BY <2>2, BytesOfFacts, AppendFacts
  <2>6. fed[n].hashed = BytesOf(fed[n].items)
    BY <1>2, <2>1, <2>2, <2>3, <2>4, <2>5
  <2> QED
    BY <1>2, <2>2, <2>6 DEF FedAt
<1>8. \A i \in 2..n : i \in 2..(n - 1) \/ (i = n /\ n > 1)
  BY <1>3
<1>9. \A i \in 2..n : FedAt(fed, None, i)
  BY <1>6, <1>7, <1>8
<1> QED
  BY <1>0, <1>2, <1>4, <1>9, HashersFedThen

(* A pointer goes into the innermost file.                                  *)
LEMMA Point ==
  ASSUME SavingOK, HashersFed, draining = None, NEW b \in Block
  PROVE  LET fed == Fed(<<b>>, <<>>)
             n   == Len(saving)
         IN  /\ fed \in Seq(Frame) /\ Len(fed) = n /\ fed # <<>>
             /\ \A i \in 1..n : fed[i].id = saving[i].id
             /\ \A i \in 1..(n - 1) : fed[i].items = saving[i].items
             /\ fed[n].items = Append(saving[n].items, b)
             /\ \A i \in 2..n : fed[i].hashed = saving[i].hashed
             /\ \A i \in 2..n : FedAt(fed, b, i)
<1> DEFINE n == Len(saving)
           fed == Fed(<<b>>, <<>>)
<1>1. <<b>> \in Seq(Item) /\ <<>> \in Seq(Chunk) /\ b \in Item
  BY DEF Item
<1>2. /\ n \in Nat \ {0} /\ saving \in Seq(Frame)
      /\ \A i \in 1..n : /\ saving[i].items \in Seq(Item)
                         /\ saving[i].hashed \in Seq(Chunk)
  BY SavingFacts DEF SavingOK
<1>3. /\ fed \in Seq(Frame) /\ Len(fed) = n /\ fed # <<>>
      /\ \A i \in 1..n : fed[i].id = saving[i].id
      /\ \A i \in 1..(n - 1) : fed[i].items = saving[i].items
      /\ fed[n].items = saving[n].items \o <<b>>
      /\ \A i \in 2..n : fed[i].hashed = saving[i].hashed \o <<>>
  BY <1>1, FedFacts
<1> HIDE DEF fed
<1>4. fed[n].items = Append(saving[n].items, b)
  BY <1>1, <1>2, <1>3, AppendFacts
<1>5. \A i \in 2..n : fed[i].hashed = saving[i].hashed
  BY <1>2, <1>3, ConcatEmptySeq
<1>6. \A i \in 2..n : FedAt(saving, None, i)
  BY HashersFedIs
<1>7. ASSUME NEW i \in 2..(n - 1) PROVE FedAt(fed, b, i)
  <2>1. i \in 2..n /\ i + 1 \in 2..n /\ i \in 1..(n - 1) /\ n \in Nat
    BY <1>2
  <2>2. /\ fed[i].items = saving[i].items
        /\ fed[i].hashed = saving[i].hashed \o <<>>
        /\ fed[i + 1].hashed = saving[i + 1].hashed \o <<>>
        /\ fed[i + 1].id = saving[i + 1].id
    BY <1>2, <1>3, <2>1
  <2>3. FedAt(saving, None, i) /\ Len(fed) >= Len(saving) /\ Len(fed) \in Nat
    BY <1>2, <1>3, <1>6, <2>1
  <2> QED
    BY <1>1, <1>2, <2>2, <2>3, OuterFed
<1>8. n > 1 => FedAt(fed, b, n)
  <2> SUFFICES ASSUME n > 1 PROVE FedAt(fed, b, n)
    OBVIOUS
  <2>2. saving[n].items \in Seq(Item) /\ n \in 2..n /\ ~(n < n)
    BY <1>2
  <2>0. FedAt(saving, None, n)
    BY <1>6, <2>2
  <2>1. saving[n].hashed = BytesOf(saving[n].items)
    BY <2>0, <2>2 DEF FedAt
  <2>3. /\ Append(saving[n].items, b) # <<>>
        /\ Last(Append(saving[n].items, b)) = b
        /\ Front(Append(saving[n].items, b)) = saving[n].items
    BY <1>1, <2>2, AppendFacts
  <2>4. b # None
    BY ObjectsAssumption DEF Node
  <2> QED
    BY <1>3, <1>4, <1>5, <2>1, <2>2, <2>3, <2>4 DEF FedAt
<1>9. \A i \in 2..n : i \in 2..(n - 1) \/ (i = n /\ n > 1)
  BY <1>2
<1>10. \A i \in 2..n : FedAt(fed, b, i)
  BY <1>7, <1>8, <1>9
<1> QED
  BY <1>3, <1>4, <1>5, <1>10 DEF fed

LEMMA SaveInside ==
  ASSUME SavingOK, HashersFed, draining = None, NEW b \in Block,
         saving' = Append(Fed(<<b>>, <<>>), Empty(b)), draining' = None
  PROVE  SavingOK' /\ HashersFed'
<1> DEFINE n == Len(saving)
           fed == Fed(<<b>>, <<>>)
<1>1. /\ n \in Nat \ {0} /\ saving[1].id = Root
      /\ \A i \in 2..n : saving[i].id \in Block
  BY SavingFacts DEF SavingOK
<1>2. /\ fed \in Seq(Frame) /\ Len(fed) = n /\ fed # <<>>
      /\ \A i \in 1..n : fed[i].id = saving[i].id
      /\ \A i \in 2..n : FedAt(fed, b, i)
  BY Point
<1>3. Empty(b) \in Frame
  BY DEF Empty, Frame, Node
<1>4. Empty(b).id = b /\ Empty(b).items = <<>> /\ Empty(b).hashed = <<>>
  BY DEF Empty
<1>5. saving' = Append(fed, Empty(b))
  OBVIOUS
<1> HIDE DEF fed
<1>6. /\ saving' \in Seq(Frame) /\ saving' # <<>> /\ Len(saving') = n + 1
      /\ saving'[n + 1] = Empty(b) /\ \A i \in 1..n : saving'[i] = fed[i]
  <2> DEFINE all == Append(fed, Empty(b))
             m   == Len(fed)
  <2>1. /\ all \in Seq(Frame) /\ all # <<>> /\ Len(all) = m + 1
        /\ all[m + 1] = Empty(b) /\ \A i \in 1..m : all[i] = fed[i]
    BY <1>2, <1>3, AppendProperties
  <2>2. m = n /\ saving' = all
    BY <1>2, <1>5
  <2> HIDE DEF all, m
  <2> QED
    BY <2>1, <2>2
<1>7. \A i \in 2..(n + 1) : i = n + 1 \/ (i \in 2..n /\ i \in 1..n)
  BY <1>1
<1>8. SavingOK'
  <2>1. 1 \in 1..n
    BY <1>1
  <2>2. saving'[1].id = Root
    BY <1>1, <1>2, <1>6, <2>1
  <2>3. \A i \in 2..(n + 1) : saving'[i].id \in Block
    BY <1>1, <1>2, <1>4, <1>6, <1>7
  <2> QED
    BY <1>6, <2>2, <2>3 DEF SavingOK
<1>9. ASSUME NEW i \in 2..n PROVE FedAt(saving', None, i)
  <2>0. i \in 1..n /\ i < n + 1 /\ i \in Nat
    BY <1>1
  <2>1. FedAt(fed, b, i) /\ i \in 1..n /\ i < n + 1 /\ i \in Nat
        /\ saving'[i] = fed[i] /\ b # None
    BY <1>2, <1>6, <2>0, ObjectsAssumption DEF Node
  <2>2. CASE i < n
    <3>1. saving'[i + 1] = fed[i + 1]
      <4>1. i + 1 \in 1..n
        BY <1>1, <2>0, <2>2
      <4> QED
        BY <1>6, <4>1
    <3> QED
      BY <1>2, <1>6, <2>1, <2>2, <3>1 DEF FedAt
  <2>3. CASE ~(i < n)
    <3>1. i + 1 = n + 1
      BY <1>1, <2>3
    <3>2. saving'[i + 1].id = b /\ saving'[i + 1].hashed = <<>>
      BY <1>4, <1>6, <3>1
    <3>3. /\ fed[i].items # <<>> /\ Last(fed[i].items) = b
          /\ fed[i].hashed = BytesOf(Front(fed[i].items))
      BY <1>2, <2>1, <2>3 DEF FedAt
    <3>4. fed[i].items \in Seq(Item)
      <4>1. fed[i] \in Frame
        BY <1>2, <2>1, ElementOfSeq
      <4> QED
        BY <4>1 DEF Frame
    <3>5. BytesOf(Front(fed[i].items)) \in Seq(Chunk)
      BY <3>3, <3>4, FrontFacts, BytesOfFacts
    <3>6. BytesOf(Front(fed[i].items)) \o <<>> = BytesOf(Front(fed[i].items))
      BY <3>5, ConcatEmptySeq
    <3> QED
      BY <1>6, <2>1, <3>2, <3>3, <3>6 DEF FedAt
  <2> QED
    BY <2>2, <2>3
<1>10. FedAt(saving', None, n + 1)
  <2>1. saving'[n + 1].hashed = BytesOf(saving'[n + 1].items)
    BY <1>4, <1>6, BytesOfFacts
  <2>2. ~(n + 1 < Len(saving'))
    BY <1>1, <1>6
  <2> QED
    BY <2>1, <2>2 DEF FedAt
<1>11. \A i \in 2..Len(saving') : FedAt(saving', None, i)
  BY <1>6, <1>7, <1>9, <1>10
<1> QED
  BY <1>8, <1>11, HashersFedThen

LEMMA DrainInside ==
  ASSUME SavingOK, HashersFed, draining = None, NEW b \in Block,
         saving' = Fed(<<b>>, <<>>), draining' = b
  PROVE  SavingOK' /\ HashersFed'
<1> DEFINE n == Len(saving)
           fed == Fed(<<b>>, <<>>)
<1>1. /\ n \in Nat \ {0} /\ saving[1].id = Root
      /\ \A i \in 2..n : saving[i].id \in Block
  BY SavingFacts DEF SavingOK
<1>2. /\ fed \in Seq(Frame) /\ Len(fed) = n /\ fed # <<>>
      /\ \A i \in 1..n : fed[i].id = saving[i].id
      /\ \A i \in 2..n : FedAt(fed, b, i)
  BY Point
<1>3. saving' = fed
  OBVIOUS
<1> HIDE DEF fed
<1>4. 1 \in 1..n /\ \A i \in 2..n : i \in 1..n
  BY <1>1
<1>5. SavingOK'
  <2>1. fed[1].id = Root
    BY <1>1, <1>2, <1>4
  <2>2. \A i \in 2..n : fed[i].id \in Block
    BY <1>1, <1>2, <1>4
  <2> QED
    BY <1>2, <1>3, <2>1, <2>2 DEF SavingOK
<1> QED
  BY <1>2, <1>3, <1>5, HashersFedThen

(* The drained block's bytes, as they are stored, reach the hashers.        *)
LEMMA FeedDrained ==
  ASSUME SavingOK, HashersFed, draining \in Block,
         saving' = Fed(<<>>, Expand[draining]), draining' = None
  PROVE  SavingOK' /\ HashersFed'
<1> DEFINE n == Len(saving)
           bytes == Expand[draining]
           fed == Fed(<<>>, bytes)
<1>1. /\ n \in Nat \ {0} /\ saving[1].id = Root /\ saving \in Seq(Frame)
      /\ \A i \in 2..n : saving[i].id \in Block
      /\ \A i \in 1..n : /\ saving[i].items \in Seq(Item)
                         /\ saving[i].hashed \in Seq(Chunk)
  BY SavingFacts DEF SavingOK
<1>2. bytes \in Seq(Chunk) /\ <<>> \in Seq(Item)
  BY ExpandType
<1>3. /\ fed \in Seq(Frame) /\ Len(fed) = n /\ fed # <<>>
      /\ \A i \in 1..n : fed[i].id = saving[i].id
      /\ \A i \in 1..(n - 1) : fed[i].items = saving[i].items
      /\ fed[n].items = saving[n].items \o <<>>
      /\ \A i \in 2..n : fed[i].hashed = saving[i].hashed \o bytes
  BY <1>2, FedFacts
<1>4. saving' = fed
  OBVIOUS
<1> HIDE DEF fed
<1>5. 1 \in 1..n /\ \A i \in 2..n : i \in 1..n
  BY <1>1
<1>6. SavingOK'
  <2>1. fed[1].id = Root
    BY <1>1, <1>3, <1>5
  <2>2. \A i \in 2..n : fed[i].id \in Block
    BY <1>1, <1>3, <1>5
  <2> QED
    BY <1>3, <1>4, <2>1, <2>2 DEF SavingOK
<1>7. \A i \in 2..n : FedAt(saving, draining, i)
  BY HashersFedIs
<1>8. ASSUME NEW i \in 2..(n - 1) PROVE FedAt(fed, None, i)
  <2>1. i \in 2..n /\ i + 1 \in 2..n /\ i \in 1..(n - 1) /\ n \in Nat
    BY <1>1
  <2>2. /\ fed[i].items = saving[i].items
        /\ fed[i].hashed = saving[i].hashed \o bytes
        /\ fed[i + 1].hashed = saving[i + 1].hashed \o bytes
        /\ fed[i + 1].id = saving[i + 1].id
    BY <1>3, <1>5, <2>1
  <2>3. FedAt(saving, draining, i) /\ Len(fed) >= Len(saving) /\ Len(fed) \in Nat
    BY <1>1, <1>3, <1>7, <2>1
  <2> HIDE DEF bytes
  <2> QED
    BY <1>1, <1>2, <2>2, <2>3, OuterFed
<1>9. n > 1 => FedAt(fed, None, n)
  <2> SUFFICES ASSUME n > 1 PROVE FedAt(fed, None, n)
    OBVIOUS
  <2>1. n \in 2..n /\ ~(n < n) /\ n \in 1..n
    BY <1>1
  <2>2. FedAt(saving, draining, n) /\ draining # None
    BY <1>7, <2>1, ObjectsAssumption DEF Node
  <2> DEFINE items == saving[n].items
  <2>3. /\ items # <<>> /\ Last(items) = draining /\ items \in Seq(Item)
        /\ saving[n].hashed = BytesOf(Front(items))
    BY <1>1, <2>1, <2>2 DEF FedAt
  <2>4. fed[n].items = items
    BY <1>3, <2>3, ConcatEmptySeq
  <2>5. fed[n].hashed = BytesOf(Front(items)) \o bytes
    BY <1>3, <2>1, <2>3
  <2> HIDE DEF items
  <2>6. Front(items) \in Seq(Item) /\ items = Append(Front(items), draining)
    BY <2>3, FrontFacts
  <2>7. BytesOf(Append(Front(items), draining)) = BytesOf(Front(items)) \o bytes
    BY <2>6, BytesOfFacts
  <2>8. fed[n].hashed = BytesOf(fed[n].items)
    BY <2>4, <2>5, <2>6, <2>7
  <2> QED
    BY <1>3, <2>1, <2>8 DEF FedAt
<1>10. \A i \in 2..n : i \in 2..(n - 1) \/ (i = n /\ n > 1)
  BY <1>1
<1>11. \A i \in 2..n : FedAt(fed, None, i)
  BY <1>8, <1>9, <1>10
<1> QED
  BY <1>3, <1>4, <1>6, <1>11, HashersFedThen

(* The innermost file holds the block its id names, and is closed.          *)
LEMMA CloseFile ==
  ASSUME SavingOK, HashersFed, draining = None, Len(saving) > 1,
         Last(saving).hashed = Expand[Last(saving).id],
         saving' = Front(saving), draining' = None
  PROVE  SavingOK' /\ HashersFed'
<1> DEFINE n == Len(saving)
           path == Front(saving)
<1>1. /\ n \in Nat \ {0} /\ n > 1 /\ saving[1].id = Root /\ saving \in Seq(Frame)
      /\ \A i \in 2..n : saving[i].id \in Block
      /\ \A i \in 1..n : /\ saving[i].items \in Seq(Item)
                         /\ saving[i].hashed \in Seq(Chunk)
      /\ Last(saving) = saving[n]
  BY SavingFacts DEF SavingOK
<1>2. /\ path \in Seq(Frame) /\ Len(path) = n - 1
      /\ \A i \in 1..(n - 1) : path[i] = saving[i]
  BY <1>1, FrontFacts
<1>3. saving' = path
  OBVIOUS
<1> HIDE DEF path
<1>4. path # <<>>
  BY <1>1, <1>2
<1>5. SavingOK'
  <2>1. 1 \in 1..(n - 1) /\ \A i \in 2..(n - 1) : i \in 2..n /\ i \in 1..(n - 1)
    BY <1>1
  <2>2. path[1].id = Root
    BY <1>1, <1>2, <2>1
  <2>3. \A i \in 2..(n - 1) : path[i].id \in Block
    BY <1>1, <1>2, <2>1
  <2> QED
    BY <1>2, <1>3, <1>4, <2>2, <2>3 DEF SavingOK
<1>6. \A i \in 2..n : FedAt(saving, None, i)
  BY HashersFedIs
<1>7. ASSUME NEW i \in 2..(n - 1) PROVE FedAt(path, None, i)
  <2>1. i \in 2..n /\ i \in 1..(n - 1) /\ i < n
    BY <1>1
  <2>2. FedAt(saving, None, i) /\ path[i] = saving[i]
    BY <1>2, <1>6, <2>1
  <2>3. /\ saving[i].items # <<>>
        /\ Last(saving[i].items) = saving[i + 1].id
        /\ saving[i].hashed = BytesOf(Front(saving[i].items)) \o saving[i + 1].hashed
    BY <2>1, <2>2 DEF FedAt
  <2>4. CASE i < n - 1
    <3>1. path[i + 1] = saving[i + 1]
      <4>1. i + 1 \in 1..(n - 1)
        BY <1>1, <2>1, <2>4
      <4> QED
        BY <1>2, <4>1
    <3> QED
      BY <1>2, <2>2, <2>3, <2>4, <3>1 DEF FedAt
  <2>5. CASE ~(i < n - 1)
    <3>1. i + 1 = n
      BY <1>1, <2>1, <2>5
    <3> DEFINE items == saving[i].items
               b == saving[n].id
    <3>2. items \in Seq(Item) /\ b \in Block /\ items # <<>> /\ Last(items) = b
      <4>1. i \in 1..n /\ n \in 2..n
        BY <1>1, <2>1
      <4> QED
        BY <1>1, <2>3, <3>1, <4>1
    <3>3. saving[i].hashed = BytesOf(Front(items)) \o Expand[b]
      BY <1>1, <2>3, <3>1
    <3>4. path[i].items = items /\ path[i].hashed = saving[i].hashed
      BY <2>2
    <3> HIDE DEF items, b
    <3>5. Front(items) \in Seq(Item) /\ items = Append(Front(items), b)
      BY <3>2, FrontFacts
    <3>6. BytesOf(Append(Front(items), b)) = BytesOf(Front(items)) \o Expand[b]
      BY <3>2, <3>5, BytesOfFacts
    <3>7. path[i].hashed = BytesOf(path[i].items)
      BY <3>3, <3>4, <3>5, <3>6
    <3> QED
      BY <1>2, <2>5, <3>7 DEF FedAt
  <2> QED
    BY <2>4, <2>5
<1> QED
  BY <1>2, <1>3, <1>5, <1>7, HashersFedThen

(* No file of a block holds a pointer to that block.                        *)
FilesOK ==
    \A k \in 2..Len(saving) : \A i \in 1..Len(saving[k].items) :
        saving[k].items[i] # saving[k].id

LEMMA FilesFed ==
  ASSUME SavingOK, FilesOK, NEW items \in Seq(Item), NEW bytes \in Seq(Chunk),
         Len(saving) > 1 =>
            \A i \in 1..Len(items) : items[i] # saving[Len(saving)].id
  PROVE  \A k \in 2..Len(saving) : \A i \in 1..Len(Fed(items, bytes)[k].items) :
            Fed(items, bytes)[k].items[i] # Fed(items, bytes)[k].id
<1> DEFINE n == Len(saving)
           fed == Fed(items, bytes)
<1>1. n \in Nat \ {0} /\ \A i \in 1..n : saving[i].items \in Seq(Item)
  BY SavingFacts
<1>2. /\ \A i \in 1..n : fed[i].id = saving[i].id
      /\ \A i \in 1..(n - 1) : fed[i].items = saving[i].items
      /\ fed[n].items = saving[n].items \o items
  BY FedFacts
<1> HIDE DEF fed
<1> SUFFICES ASSUME NEW k \in 2..n, NEW i \in 1..Len(fed[k].items)
             PROVE  fed[k].items[i] # fed[k].id
  BY DEF fed
<1>3. k \in 1..n /\ n > 1
  BY <1>1
<1>4. CASE k < n
  <2>1. k \in 1..(n - 1)
    BY <1>1, <1>4
  <2> QED
    BY <1>2, <1>3, <2>1 DEF FilesOK
<1>5. CASE k = n
  <2> DEFINE own == saving[n].items
  <2>1. own \in Seq(Item) /\ fed[k].items = own \o items /\ fed[k].id = saving[n].id
    BY <1>1, <1>2, <1>3, <1>5
  <2>2. \A j \in 1..Len(own) : own[j] # saving[n].id
    BY <1>3, <1>5 DEF FilesOK
  <2> HIDE DEF own
  <2>3. /\ Len(own) \in Nat /\ Len(items) \in Nat
        /\ Len(own \o items) = Len(own) + Len(items)
        /\ (own \o items)[i] = IF i <= Len(own) THEN own[i] ELSE items[i - Len(own)]
    BY <2>1, ConcatProperties
  <2>4. CASE i <= Len(own)
    BY <2>1, <2>2, <2>3, <2>4
  <2>5. CASE ~(i <= Len(own))
    <3>1. i - Len(own) \in 1..Len(items)
      BY <2>1, <2>3, <2>5
    <3> QED
      BY <1>3, <2>1, <2>3, <2>5, <3>1
  <2> QED
    BY <2>4, <2>5
<1> QED
  BY <1>1, <1>4, <1>5

-----------------------------------------------------------------------------
(* What the parser has open.                                                *)

BlocksOK ==
    /\ \A i, j \in 1..Len(blocks) : i < j => blocks[i] # blocks[j]
    /\ levels = 0 => blocks = <<>> /\ rpc # "second"
    /\ levels > 0 /\ rpc \in {"read", "second", "close", "publish", "rename"} =>
          /\ IF rpc = "read" /\ draining # None
               THEN Len(blocks) >= Len(saving) /\ blocks[Len(saving)] = draining
               ELSE Len(blocks) = OpenAt
          /\ \A i \in 2..Len(saving) :
                i - 1 <= Len(blocks) => blocks[i - 1] = saving[i].id

Closing ==
    /\ rpc = "idle" => levels = 0
    /\ rpc = "second" => draining = None
    /\ rpc \in {"publish", "rename"} =>
          /\ draining = None
          /\ Len(saving) > 1
          /\ Last(saving).hashed = Expand[Last(saving).id]

LEMMA InvParts ==
  ReceiverInv <=> /\ TypeOK
                  /\ StoreOK
                  /\ SavingOK
                  /\ rpc # "failed" => HashersFed
                  /\ FilesOK
                  /\ BlocksOK
                  /\ Closing
BY DEF ReceiverInv, TypeOK, StoreOK, SavingOK, SavesWhatIsOpen, NoSelfPointer,
       FilesOK, BlocksOK, Closing

LEMMA ReceiverInit == Init => ReceiverInv
<1> SUFFICES ASSUME Init PROVE ReceiverInv
  OBVIOUS
<1>1. StoreOK
  BY StoreInit
<1>2. /\ saving = <<Empty(Root)>> /\ Empty(Root) \in Frame
      /\ Empty(Root).id = Root
  BY DEF Init, Empty, Frame, Node
<1>3. saving \in Seq(Frame) /\ Len(saving) = 1 /\ saving # <<>>
      /\ saving[1].id = Root
  BY <1>2
<1>4. SavingOK /\ HashersFed /\ FilesOK
  BY <1>3 DEF SavingOK, HashersFed, FilesOK
<1>5. TypeOK
  BY <1>1, <1>3 DEF Init, TypeOK, StoreOK, Stored
<1>6. BlocksOK /\ Closing
  BY DEF Init, BlocksOK, Closing
<1> QED
  BY <1>1, <1>4, <1>5, <1>6, InvParts

(* Nothing is written: the store and the files stay as they are.            *)
LEMMA NothingWritten ==
  ASSUME ReceiverInv, UNCHANGED <<saving, store>>, draining' = draining,
         rpc = "failed" => rpc' = "failed",
         TypeOK', BlocksOK', Closing'
  PROVE  ReceiverInv'
<1>1. /\ StoreOK /\ SavingOK /\ FilesOK
      /\ rpc # "failed" => HashersFed
  BY InvParts
<1>2. StoreOK'
  BY <1>1 DEF StoreOK, StoreIntegrity, Exists
<1>3. SavingOK' /\ FilesOK'
  BY <1>1 DEF SavingOK, FilesOK
<1>4. rpc' # "failed" => HashersFed'
  BY <1>1 DEF HashersFed
<1>5. ReceiverInv' <=> (/\ TypeOK
                        /\ StoreOK
                        /\ SavingOK
                        /\ rpc # "failed" => HashersFed
                        /\ FilesOK
                        /\ BlocksOK
                        /\ Closing)'
  BY InvParts, PTL
<1> QED
  BY <1>2, <1>3, <1>4, <1>5

LEMMA InvThen ==
  ReceiverInv' <=> (/\ TypeOK
                    /\ StoreOK
                    /\ SavingOK
                    /\ rpc # "failed" => HashersFed
                    /\ FilesOK
                    /\ BlocksOK
                    /\ Closing)'
BY InvParts, PTL

LEMMA ArrivedFacts ==
  ASSUME TypeOK, wire # <<>>
  PROVE  /\ Arrived \in Buffer
         /\ Tail(wire) \in Seq(Buffer)
         /\ Arrived.kind = "chunk" => Arrived.val \in Chunk
         /\ Arrived.kind = "block" => Arrived.val \in Block
<1>1. Arrived \in Buffer /\ Tail(wire) \in Seq(Buffer)
  BY HeadTailProperties DEF TypeOK, Arrived
<1> QED
  BY <1>1 DEF Buffer

(* Nothing is written, and the parser's blocks stay as they are.            *)
LEMMA NothingDone ==
  ASSUME ReceiverInv, UNCHANGED <<parserVars, saving, store, requestVars>>,
         draining' = draining, rpc \in {"idle", "read"},
         rpc' \in {rpc, "read", "delivered", "ended", "failed"},
         cause' \in {None, "peer", "nesting", "intersection", "wbp"} \cup {cause},
         object' \in Stored, wire' \in Seq(Buffer)
  PROVE  ReceiverInv'
<1>1. TypeOK /\ BlocksOK /\ Closing
  BY InvParts
<1>2. TypeOK'
  BY <1>1 DEF TypeOK, parserVars, requestVars
<1>3. Closing'
  BY <1>1 DEF Closing, parserVars
<1>4. BlocksOK'
  BY <1>1 DEF BlocksOK, Closing, OpenAt, parserVars
<1> QED
  BY <1>2, <1>3, <1>4, NothingWritten

LEMMA BeginStep == ReceiverInv /\ Begin => ReceiverInv'
<1> SUFFICES ASSUME ReceiverInv, Begin PROVE ReceiverInv'
  OBVIOUS
<1>1. TypeOK
  BY InvParts
<1> QED
  BY <1>1, NothingDone DEF Begin, Fails, TypeOK

LEMMA ReadingStep ==
  ReceiverInv /\ (TakeHead \/ TakeTooDeep \/ TakeCrossing \/ TakeError)
    => ReceiverInv'
<1> SUFFICES ASSUME ReceiverInv,
                    TakeHead \/ TakeTooDeep \/ TakeCrossing \/ TakeError
             PROVE  ReceiverInv'
  OBVIOUS
<1>1. TypeOK
  BY InvParts
<1>2. /\ rpc = "read" /\ wire # <<>> /\ wire' = Tail(wire)
      /\ UNCHANGED <<parserVars, saving, store, requestVars>>
      /\ draining' = draining /\ object' = object
      /\ rpc' \in {rpc, "failed"}
      /\ cause' \in {None, "peer", "nesting", "intersection", "wbp"} \cup {cause}
  BY DEF TakeHead, TakeTooDeep, TakeCrossing, TakeError, Arrives, Take, Fails
<1>3. wire' \in Seq(Buffer) /\ object' \in Stored
  BY <1>1, <1>2, ArrivedFacts DEF TypeOK
<1> QED
  BY <1>2, <1>3, NothingDone

LEMMA DeliverFacts ==
  ASSUME ReceiverInv, Deliver
  PROVE  /\ rpc' \in {"failed", "delivered"}
         /\ cause' \in {"wbp", cause}
         /\ object' \in Stored
<1>1. TypeOK /\ SavingOK
  BY InvParts
<1>2. saving[1].items \in Seq(Item)
  <2>1. 1 \in 1..Len(saving)
    BY <1>1, SavingFacts
  <2> QED
    BY <1>1, <2>1, SavingFacts
<1> QED
  BY <1>1, <1>2 DEF Deliver, Fails, TypeOK, Stored

(* The end of the message.                                                  *)
LEMMA DeliverStep ==
  ASSUME ReceiverInv, rpc = "read", wire # <<>>, Deliver,
         UNCHANGED <<parserVars, saving, draining, store, requestVars>>,
         wire' \in {wire, Tail(wire)}
  PROVE  ReceiverInv'
<1>1. TypeOK
  BY InvParts
<1>2. wire' \in Seq(Buffer)
  BY <1>1, ArrivedFacts DEF TypeOK
<1>3. /\ rpc' \in {"failed", "delivered"}
      /\ cause' \in {"wbp", cause}
      /\ object' \in Stored
  BY DeliverFacts
<1> QED
  BY <1>2, <1>3, NothingDone

(* An iterator of an open block ends before its block.                      *)
LEMMA IteratorEnds ==
  ASSUME ReceiverInv, rpc = "read", wire # <<>>, levels > 0,
         levels' \in 0..(levels - 1),
         blocks' = IF levels' = 0 THEN <<>> ELSE blocks,
         UNCHANGED <<rpc, cause, object, saving, draining, store, requestVars>>,
         wire' \in {wire, Tail(wire)}
  PROVE  ReceiverInv'
<1>1. TypeOK /\ BlocksOK /\ Closing
  BY InvParts
<1>2. wire' \in Seq(Buffer)
  BY <1>1, ArrivedFacts DEF TypeOK
<1>3. blocks \in Seq(Block) /\ Len(blocks) \in Nat /\ levels \in 0..Len(blocks)
  BY <1>1 DEF TypeOK
<1>4. levels' = 0 => blocks' = <<>>
  OBVIOUS
<1>5. blocks' \in Seq(Block) /\ levels' \in 0..Len(blocks')
  BY <1>3
<1>6. TypeOK'
  BY <1>1, <1>2, <1>5 DEF TypeOK, requestVars
<1>7. BlocksOK' /\ Closing'
  <2>1. CASE levels' = 0
    BY <2>1 DEF BlocksOK, Closing
  <2>2. CASE levels' # 0
    BY <1>1, <1>3, <2>2 DEF BlocksOK, Closing, OpenAt
  <2> QED
    BY <2>1, <2>2
<1> QED
  BY <1>6, <1>7, NothingWritten

LEMMA EndOfStreamStep == ReceiverInv /\ (TakeSeparator \/ TakeEof) => ReceiverInv'
<1> SUFFICES ASSUME ReceiverInv, TakeSeparator \/ TakeEof PROVE ReceiverInv'
  OBVIOUS
<1>1. TypeOK /\ levels \in Nat
  BY InvParts DEF TypeOK
<1>2. rpc = "read" /\ wire # <<>> /\ wire' \in {wire, Tail(wire)}
      /\ UNCHANGED <<saving, draining, store, requestVars>>
  BY DEF TakeSeparator, TakeEof, Arrives, Take
<1>3. CASE levels = 0
  <2>1. Deliver /\ UNCHANGED parserVars
    BY <1>3 DEF TakeSeparator, TakeEof
  <2> QED
    BY <1>2, <2>1, DeliverStep
<1>4. CASE levels # 0
  <2>1. /\ levels' \in 0..(levels - 1)
        /\ blocks' = IF levels' = 0 THEN <<>> ELSE blocks
        /\ UNCHANGED <<rpc, cause, object>>
    BY <1>1, <1>4 DEF TakeSeparator, TakeEof, LevelEnds
  <2> QED
    BY <1>1, <1>2, <1>4, <2>1, IteratorEnds
<1> QED
  BY <1>3, <1>4

LEMMA TakeStartStep == ReceiverInv /\ TakeStart => ReceiverInv'
<1> SUFFICES ASSUME ReceiverInv, TakeStart PROVE ReceiverInv'
  OBVIOUS
<1>1. TypeOK /\ BlocksOK /\ Closing /\ SavingOK
  BY InvParts
<1> DEFINE b == Arrived.val
           n == Len(saving)
           m == Len(blocks)
<1>2. /\ rpc = "read" /\ wire # <<>> /\ wire' = Tail(wire)
      /\ ~Exhausted /\ b \notin ToSet(blocks)
      /\ blocks' = Append(blocks, b) /\ levels' = levels + 1
      /\ rpc' = IF draining = None THEN "second" ELSE "read"
      /\ UNCHANGED <<cause, saving, draining, object, store>>
      /\ (Request(b) \/ UNCHANGED requestVars)
  BY DEF TakeStart, Arrives, Take
<1>3. wire' \in Seq(Buffer) /\ b \in Block
  BY <1>1, <1>2, ArrivedFacts DEF TakeStart, Arrives
<1> HIDE DEF b
<1>4. /\ m \in Nat /\ n \in Nat \ {0} /\ levels \in Nat /\ levels <= m
      /\ blocks \in Seq(Block)
  BY <1>1, SavingFacts DEF TypeOK
<1>5. /\ blocks' \in Seq(Block) /\ Len(blocks') = m + 1 /\ blocks'[m + 1] = b
      /\ \A i \in 1..m : blocks'[i] = blocks[i]
  BY <1>2, <1>3, <1>4, AppendProperties
<1>6. asked' \subseteq Block /\ upstream' \in Seq(Block)
  <2>1. asked \subseteq Block /\ upstream \in Seq(Block)
    BY <1>1 DEF TypeOK
  <2>2. \/ asked' = asked /\ upstream' = upstream
        \/ asked' = asked \cup {b} /\ upstream' = Append(upstream, b)
    BY <1>2 DEF Request, requestVars
  <2>3. Append(upstream, b) \in Seq(Block)
    BY <1>3, <2>1, AppendProperties
  <2> QED
    BY <1>3, <2>1, <2>2, <2>3
<1>7. TypeOK'
  BY <1>1, <1>2, <1>3, <1>4, <1>5, <1>6 DEF TypeOK
<1>8. \A i \in 1..m : blocks[i] # b
  BY <1>2, <1>4 DEF ToSet
<1>9. Closing'
  BY <1>1, <1>2 DEF Closing
<1>10. /\ IF draining # None THEN m >= n /\ blocks[n] = draining ELSE m = n - 1
       /\ \A i \in 2..n : i - 1 <= m => blocks[i - 1] = saving[i].id
  <2>1. CASE levels > 0
    BY <1>1, <1>2, <2>1 DEF BlocksOK, OpenAt
  <2>2. CASE levels = 0
    <3>1. m = 0
      BY <1>1, <2>2 DEF BlocksOK
    <3>2. draining = None /\ n = 1
      <4>1. rpc = "read" /\ ~Exhausted
        BY <1>2
      <4>2. draining = None /\ ~(n > 1)
        BY <2>2, <4>1 DEF Exhausted
      <4>3. n \in Nat /\ n # 0
        BY <1>4
      <4> HIDE DEF n
      <4>4. n = 1
        BY <4>2, <4>3
      <4> QED
        BY <4>2, <4>4
    <3> QED
      BY <3>1, <3>2
  <2> QED
    BY <1>4, <2>1, <2>2
<1>11. BlocksOK'
  <2>1. \A i, j \in 1..(m + 1) : i < j => blocks'[i] # blocks'[j]
    <3> SUFFICES ASSUME NEW i \in 1..(m + 1), NEW j \in 1..(m + 1), i < j
                 PROVE  blocks'[i] # blocks'[j]
      OBVIOUS
    <3>1. i \in 1..m /\ (j \in 1..m \/ j = m + 1)
      BY <1>4
    <3> QED
      BY <1>1, <1>5, <1>8, <3>1 DEF BlocksOK
  <2>2. levels' > 0
    BY <1>2, <1>4
  <2>3. CASE draining = None
    <3>1. rpc' = "second" /\ m + 1 = n
      BY <1>2, <1>4, <1>10, <2>3
    <3>2. OpenAt' = n
      BY <1>2, <3>1 DEF OpenAt
    <3>3. \A i \in 2..n : i - 1 \in 1..m
      BY <1>4, <3>1
    <3>4. \A i \in 2..n : blocks'[i - 1] = saving[i].id
      BY <1>4, <1>5, <1>10, <3>3
    <3> QED
      BY <1>2, <1>5, <2>1, <2>2, <3>1, <3>2, <3>4 DEF BlocksOK
  <2>4. CASE draining # None
    <3>1. rpc' = "read" /\ m >= n /\ blocks[n] = draining
      BY <1>2, <1>10, <2>4
    <3>2. \A i \in 2..n : i - 1 \in 1..m
      BY <1>4, <3>1
    <3>3. n \in 1..m
      BY <1>4, <3>1
    <3>4. \A i \in 2..n : blocks'[i - 1] = saving[i].id
      BY <1>4, <1>5, <1>10, <3>2
    <3>5. Len(blocks') >= n /\ blocks'[n] = draining
      BY <1>4, <1>5, <3>1, <3>3
    <3> QED
      BY <1>2, <1>5, <2>1, <2>2, <2>4, <3>1, <3>4, <3>5 DEF BlocksOK
  <2> QED
    BY <2>3, <2>4
<1> QED
  BY <1>2, <1>7, <1>9, <1>11, NothingWritten

LEMMA TakeEndStep == ReceiverInv /\ TakeEnd => ReceiverInv'
<1> SUFFICES ASSUME ReceiverInv, TakeEnd PROVE ReceiverInv'
  OBVIOUS
<1>1. TypeOK /\ BlocksOK /\ Closing /\ SavingOK
  BY InvParts
<1> DEFINE b == Arrived.val
           n == Len(saving)
           m == Len(blocks)
<1>2. /\ rpc = "read" /\ wire # <<>> /\ wire' = Tail(wire)
      /\ b \in ToSet(blocks) /\ Last(blocks) = b
      /\ levels' = levels - 1
      /\ blocks' = IF levels = 1 THEN <<>> ELSE Front(blocks)
      /\ rpc' = IF draining \in {None, b} THEN "close" ELSE "read"
      /\ UNCHANGED <<cause, saving, draining, object, store, requestVars>>
  BY DEF TakeEnd, Arrives, Take, LevelEnds
<1>3. wire' \in Seq(Buffer) /\ b \in Block
  BY <1>1, <1>2, ArrivedFacts DEF TakeEnd, Arrives
<1> HIDE DEF b
<1>4. /\ blocks \in Seq(Block) /\ blocks # <<>> /\ n \in Nat \ {0}
      /\ levels \in Nat /\ levels <= m
  BY <1>1, <1>2, SavingFacts DEF TypeOK, ToSet
<1>5. /\ m \in Nat \ {0} /\ blocks[m] = b
      /\ Front(blocks) \in Seq(Block) /\ Len(Front(blocks)) = m - 1
      /\ \A i \in 1..(m - 1) : Front(blocks)[i] = blocks[i]
  BY <1>2, <1>4, FrontFacts
<1>6. levels > 0
  BY <1>1, <1>4 DEF BlocksOK
<1>7. TypeOK'
  <2>1. blocks' \in Seq(Block) /\ levels' \in 0..Len(blocks')
    BY <1>2, <1>4, <1>5, <1>6
  <2> QED
    BY <1>1, <1>2, <1>3, <2>1 DEF TypeOK, requestVars
<1>8. Closing'
  BY <1>1, <1>2 DEF Closing
<1>9. BlocksOK'
  <2>1. CASE levels = 1
    <3>1. levels' = 0 /\ blocks' = <<>> /\ rpc' # "second"
      BY <1>2, <2>1
    <3>2. \A i, j \in 1..Len(blocks') : FALSE
      BY <3>1
    <3> QED
      BY <3>1, <3>2 DEF BlocksOK
  <2>2. CASE levels # 1
    <3>1. /\ levels' > 0 /\ Len(blocks') = m - 1
          /\ \A i \in 1..(m - 1) : blocks'[i] = blocks[i]
      BY <1>2, <1>4, <1>5, <1>6, <2>2
    <3>2. \A i, j \in 1..(m - 1) : i < j => blocks'[i] # blocks'[j]
      BY <1>1, <1>5, <3>1 DEF BlocksOK
    <3>3. /\ IF draining # None THEN m >= n /\ blocks[n] = draining ELSE m = n - 1
          /\ \A i \in 2..n : i - 1 <= m => blocks[i - 1] = saving[i].id
      BY <1>1, <1>2, <1>6 DEF BlocksOK, OpenAt
    <3>4. \A i \in 2..n : i - 1 <= m - 1 => blocks'[i - 1] = saving[i].id
      <4> SUFFICES ASSUME NEW i \in 2..n, i - 1 <= m - 1
                   PROVE  blocks'[i - 1] = saving[i].id
        OBVIOUS
      <4>1. i - 1 \in 1..(m - 1) /\ i - 1 <= m
        BY <1>4, <1>5
      <4> QED
        BY <3>1, <3>3, <4>1
    <3>5. CASE draining = None
      <4>1. rpc' = "close" /\ m - 1 = n - 2 /\ draining' = None
        BY <1>2, <1>4, <1>5, <3>3, <3>5
      <4>2. OpenAt' = n - 2
        BY <1>2, <4>1 DEF OpenAt
      <4>3. Len(blocks') = OpenAt' /\ UNCHANGED <<saving, draining>>
        BY <1>2, <3>1, <4>1, <4>2
      <4> HIDE DEF m
      <4> QED
        BY <3>1, <3>2, <3>4, <4>1, <4>3 DEF BlocksOK
    <3>6. CASE draining # None /\ draining = b
      <4>1. m = n
        <5>1. n \in 1..m /\ m \in 1..m
          BY <1>4, <1>5, <3>3, <3>6
        <5> QED
          BY <1>1, <1>5, <3>3, <3>6, <5>1 DEF BlocksOK
      <4>2. rpc' = "close" /\ draining' # None
        BY <1>2, <3>6
      <4>3. OpenAt' = n - 1
        BY <1>2, <4>2 DEF OpenAt
      <4>4. Len(blocks') = OpenAt' /\ UNCHANGED <<saving, draining>>
        BY <1>2, <3>1, <4>1, <4>3
      <4> HIDE DEF m
      <4> QED
        BY <3>1, <3>2, <3>4, <4>2, <4>4 DEF BlocksOK
    <3>7. CASE draining # None /\ draining # b
      <4>1. m > n
        BY <1>4, <1>5, <3>3, <3>7
      <4>2. rpc' = "read" /\ draining' # None /\ draining' = draining
        BY <1>2, <3>7
      <4>3. n \in 1..(m - 1)
        BY <1>4, <1>5, <4>1
      <4>4. Len(blocks') >= n /\ blocks'[n] = draining
        BY <1>4, <1>5, <3>1, <3>3, <3>7, <4>1, <4>3
      <4>5. saving' = saving /\ levels' > 0 /\ Len(saving) = n
        BY <1>2, <3>1
      <4>6. \A i, j \in 1..Len(blocks') : i < j => blocks'[i] # blocks'[j]
        BY <3>1, <3>2
      <4>7. \A i \in 2..n : i - 1 <= Len(blocks') => blocks'[i - 1] = saving[i].id
        BY <3>1, <3>4
      <4> HIDE DEF m, n
      <4> QED
        BY <4>2, <4>4, <4>5, <4>6, <4>7 DEF BlocksOK
    <3> QED
      BY <3>5, <3>6, <3>7
  <2> QED
    BY <2>1, <2>2
<1> QED
  BY <1>2, <1>7, <1>8, <1>9, NothingWritten

LEMMA CloseContentStep == ReceiverInv /\ CloseContent => ReceiverInv'
<1> SUFFICES ASSUME ReceiverInv, CloseContent PROVE ReceiverInv'
  OBVIOUS
<1>1. TypeOK /\ BlocksOK /\ Closing
  BY InvParts
<1>2. /\ rpc \in {"read", "close"} /\ (rpc = "read" => levels = 0)
      /\ draining = None /\ Len(saving) > 1
      /\ UNCHANGED <<parserVars, saving, draining, object, store, requestVars, wire>>
  BY DEF CloseContent, Exhausted
<1>3. /\ rpc' \in {"failed", "publish"}
      /\ cause' \in {"mismatch", "wbp", cause}
      /\ rpc' = "publish" => Last(saving).hashed = Expand[Last(saving).id]
  BY DEF CloseContent, Fails
<1>4. TypeOK'
  BY <1>1, <1>2, <1>3 DEF TypeOK, parserVars, requestVars
<1>5. Closing'
  BY <1>2, <1>3 DEF Closing
<1>6. BlocksOK'
  BY <1>1, <1>2, <1>3 DEF BlocksOK, OpenAt, parserVars
<1> QED
  BY <1>2, <1>4, <1>5, <1>6, NothingWritten

(* The same blocks are open, and the same files are being written.          *)
LEMMA BlocksStand ==
  ASSUME BlocksOK, UNCHANGED <<rpc, parserVars>>, draining' = draining,
         SavingOK, Len(saving') = Len(saving),
         \A i \in 1..Len(saving) : saving'[i].id = saving[i].id
  PROVE  BlocksOK'
<1>1. \A i \in 2..Len(saving) : saving'[i].id = saving[i].id
  BY SavingFacts
<1>2. OpenAt' = OpenAt
  BY DEF OpenAt
<1> QED
  BY <1>1, <1>2 DEF BlocksOK, parserVars

LEMMA TakeChunkStep == ReceiverInv /\ TakeChunk => ReceiverInv'
<1> SUFFICES ASSUME ReceiverInv, TakeChunk PROVE ReceiverInv'
  OBVIOUS
<1>1. TypeOK /\ StoreOK /\ BlocksOK /\ Closing /\ SavingOK /\ FilesOK
      /\ (rpc # "failed" => HashersFed)
  BY InvParts
<1> DEFINE c == Arrived.val
<1>2. /\ rpc = "read" /\ wire # <<>> /\ wire' = Tail(wire)
      /\ UNCHANGED <<rpc, cause, parserVars, draining, object, store, requestVars>>
      /\ saving' = IF draining = None THEN Fed(<<c>>, <<c>>) ELSE saving
  BY DEF TakeChunk, Arrives, Take
<1>3. wire' \in Seq(Buffer) /\ c \in Chunk
  BY <1>1, <1>2, ArrivedFacts DEF TakeChunk, Arrives
<1> HIDE DEF c
<1>4. CASE draining # None
  <2>1. saving' = saving /\ draining' = draining /\ object' \in Stored
    BY <1>1, <1>2, <1>4 DEF TypeOK
  <2> QED
    BY <1>2, <1>3, <2>1, NothingDone
<1>5. CASE draining = None
  <2>1. saving' = Fed(<<c>>, <<c>>) /\ draining' = None
    BY <1>2, <1>5
  <2>2. HashersFed
    BY <1>1, <1>2
  <2>3. SavingOK' /\ HashersFed'
    BY <1>1, <1>3, <1>5, <2>1, <2>2, FeedPiece
  <2>4. <<c>> \in Seq(Item) /\ <<c>> \in Seq(Chunk) /\ Len(<<c>>) = 1
        /\ <<c>>[1] = c
    BY <1>3 DEF Item
  <2>5. Len(saving') = Len(saving)
        /\ \A i \in 1..Len(saving) : saving'[i].id = saving[i].id
    BY <1>1, <2>1, <2>4, FedFacts
  <2>6. Len(saving) > 1 =>
           \A i \in 1..Len(<<c>>) : <<c>>[i] # saving[Len(saving)].id
    <3>1. Len(saving) > 1 => saving[Len(saving)].id \in Block
      BY <1>1, SavingFacts DEF SavingOK
    <3>2. c \notin Block
      BY <1>3, ObjectsAssumption
    <3> QED
      BY <2>4, <3>1, <3>2
  <2>7. FilesOK'
    <3>1. \A k \in 2..Len(saving) : \A i \in 1..Len(Fed(<<c>>, <<c>>)[k].items) :
             Fed(<<c>>, <<c>>)[k].items[i] # Fed(<<c>>, <<c>>)[k].id
      BY <1>1, <2>4, <2>6, FilesFed
    <3> QED
      BY <2>1, <2>5, <3>1 DEF FilesOK
  <2>8. BlocksOK' /\ Closing'
    BY <1>1, <1>2, <2>5, BlocksStand DEF Closing, parserVars
  <2>9. TypeOK' /\ StoreOK'
    BY <1>1, <1>2, <1>3, <2>3
    DEF TypeOK, SavingOK, StoreOK, StoreIntegrity, Exists, parserVars, requestVars
  <2> QED
    BY <2>3, <2>7, <2>8, <2>9, InvThen
<1> QED
  BY <1>4, <1>5

LEMMA SaveOrDrainStep == ReceiverInv /\ SaveOrDrain => ReceiverInv'
<1> SUFFICES ASSUME ReceiverInv, SaveOrDrain PROVE ReceiverInv'
  OBVIOUS
<1>1. TypeOK /\ StoreOK /\ BlocksOK /\ Closing /\ SavingOK /\ FilesOK
      /\ (rpc # "failed" => HashersFed)
  BY InvParts
<1> DEFINE b == Last(blocks)
           n == Len(saving)
           fed == Fed(<<b>>, <<>>)
<1>2. /\ rpc = "second" /\ rpc' = "read"
      /\ \/ saving' = fed /\ draining' = b
         \/ saving' = Append(fed, Empty(b)) /\ draining' = draining
      /\ UNCHANGED <<cause, parserVars, object, store, requestVars, wire>>
  BY DEF SaveOrDrain
<1>3. draining = None /\ HashersFed /\ levels > 0 /\ levels \in Nat
  BY <1>1, <1>2 DEF Closing, BlocksOK, TypeOK
<1>4. /\ Len(blocks) = n /\ n \in Nat \ {0} /\ blocks \in Seq(Block)
      /\ \A i \in 2..n : blocks[i - 1] = saving[i].id
      /\ \A i, j \in 1..n : i < j => blocks[i] # blocks[j]
  <2>1. n \in Nat \ {0} /\ blocks \in Seq(Block)
    BY <1>1, SavingFacts DEF TypeOK
  <2>2. Len(blocks) = n
    BY <1>1, <1>2, <1>3 DEF BlocksOK, OpenAt
  <2>3. \A i \in 2..n : i - 1 <= n
    BY <2>1
  <2> QED
    BY <1>1, <1>2, <1>3, <2>1, <2>2, <2>3 DEF BlocksOK
<1>5. b = blocks[n] /\ b \in Block /\ b \in Item
  BY <1>4, EmptySeq, FrontFacts DEF Item
<1>6. n > 1 => saving[n].id # b
  <2> SUFFICES ASSUME n > 1 PROVE saving[n].id # b
    OBVIOUS
  <2>1. n \in 2..n /\ n - 1 \in 1..n /\ n \in 1..n /\ n - 1 < n
    BY <1>4
  <2>2. blocks[n - 1] # blocks[n]
    BY <1>4, <2>1
  <2> QED
    BY <1>4, <1>5, <2>1, <2>2
<1> HIDE DEF b
<1>7. <<b>> \in Seq(Item) /\ <<>> \in Seq(Chunk) /\ Len(<<b>>) = 1 /\ <<b>>[1] = b
  BY <1>5
<1>8. /\ fed \in Seq(Frame) /\ Len(fed) = n
      /\ \A i \in 1..n : fed[i].id = saving[i].id
  BY <1>1, <1>7, FedFacts
<1>9. \A k \in 2..n : \A i \in 1..Len(fed[k].items) : fed[k].items[i] # fed[k].id
  <2>1. n > 1 => \A i \in 1..Len(<<b>>) : <<b>>[i] # saving[n].id
    BY <1>6, <1>7
  <2> QED
    BY <1>1, <1>7, <2>1, FilesFed
<1>10. ASSUME SavingOK', BlocksOK', HashersFed', FilesOK', draining' \in Block \cup {None}
       PROVE  ReceiverInv'
  <2>1. TypeOK' /\ StoreOK'
    BY <1>1, <1>2, <1>10
    DEF TypeOK, SavingOK, StoreOK, StoreIntegrity, Exists, parserVars, requestVars
  <2>2. Closing'
    BY <1>2 DEF Closing
  <2> QED
    BY <1>10, <2>1, <2>2, InvThen
<1>11. CASE saving' = fed /\ draining' = b
  <2>1. SavingOK' /\ HashersFed'
    BY <1>1, <1>3, <1>5, <1>11, DrainInside
  <2> HIDE DEF fed
  <2>2. FilesOK'
    BY <1>8, <1>9, <1>11 DEF FilesOK
  <2>3. BlocksOK'
    <3>1. b # None
      BY <1>5, ObjectsAssumption DEF Node
    <3>2. levels' = levels /\ blocks' = blocks /\ Len(saving') = n
          /\ rpc' = "read" /\ draining' = b
      BY <1>2, <1>8, <1>11 DEF parserVars
    <3>3. \A i \in 2..n : saving'[i].id = saving[i].id
      BY <1>4, <1>8, <1>11
    <3> QED
      BY <1>3, <1>4, <1>5, <3>1, <3>2, <3>3 DEF BlocksOK
  <2> QED
    BY <1>5, <1>10, <1>11, <2>1, <2>2, <2>3
<1>12. CASE saving' = Append(fed, Empty(b)) /\ draining' = draining
  <2>1. SavingOK' /\ HashersFed'
    BY <1>1, <1>3, <1>5, <1>12, SaveInside
  <2> HIDE DEF fed
  <2>2. /\ Len(saving') = n + 1 /\ saving'[n + 1] = Empty(b)
        /\ \A i \in 1..n : saving'[i] = fed[i]
    <3>1. Empty(b) \in Frame
      BY <1>5 DEF Empty, Frame, Node
    <3> QED
      BY <1>8, <1>12, <3>1, AppendProperties
  <2>3. Empty(b).id = b /\ Empty(b).items = <<>>
    BY DEF Empty
  <2>4. \A i \in 2..(n + 1) : i = n + 1 \/ (i \in 2..n /\ i \in 1..n)
    BY <1>4
  <2>5. FilesOK'
    <3>1. \A k \in 2..n : \A i \in 1..Len(saving'[k].items) :
             saving'[k].items[i] # saving'[k].id
      BY <1>9, <2>2, <2>4, <1>4
    <3>2. \A i \in 1..Len(saving'[n + 1].items) : FALSE
      BY <2>2, <2>3
    <3> QED
      BY <2>2, <2>4, <3>1, <3>2 DEF FilesOK
  <2>6. BlocksOK'
    <3>1. levels' = levels /\ blocks' = blocks /\ rpc' = "read" /\ draining' = None
      BY <1>2, <1>3, <1>12 DEF parserVars
    <3>2. OpenAt' = n
      BY <1>4, <2>2, <3>1 DEF OpenAt
    <3>3. ASSUME NEW i \in 2..(n + 1) PROVE blocks[i - 1] = saving'[i].id
      <4>1. CASE i = n + 1
        BY <1>4, <1>5, <2>2, <2>3, <4>1
      <4>2. CASE i # n + 1
        <5>1. i \in 2..n /\ i \in 1..n
          BY <2>4, <4>2
        <5> QED
          BY <1>4, <1>8, <2>2, <5>1
      <4> QED
        BY <4>1, <4>2
    <3> QED
      BY <1>3, <1>4, <2>2, <3>1, <3>2, <3>3 DEF BlocksOK
  <2> QED
    BY <1>3, <1>10, <1>12, <2>1, <2>5, <2>6
<1> QED
  BY <1>2, <1>11, <1>12

LEMMA CloseDrainStep == ReceiverInv /\ CloseDrain => ReceiverInv'
<1> SUFFICES ASSUME ReceiverInv, CloseDrain PROVE ReceiverInv'
  OBVIOUS
<1>1. TypeOK /\ StoreOK /\ BlocksOK /\ Closing /\ SavingOK /\ FilesOK
      /\ (rpc # "failed" => HashersFed)
  BY InvParts
<1> DEFINE n == Len(saving)
<1>2. /\ rpc \in {"read", "close"} /\ (rpc = "read" => levels = 0)
      /\ draining # None /\ draining' = None
      /\ UNCHANGED <<parserVars, object, store, requestVars, wire>>
  BY DEF CloseDrain, Exhausted
<1>3. draining \in Block /\ HashersFed /\ n \in Nat \ {0}
  BY <1>1, <1>2, SavingFacts DEF TypeOK
<1>4. \/ n = 1 /\ rpc' = "read" /\ saving' = saving /\ cause' = cause
      \/ /\ n > 1 /\ Readable(draining) /\ rpc' = "read" /\ cause' = cause
         /\ saving' = Fed(<<>>, StoredBytes(draining))
      \/ rpc' = "failed" /\ cause' = "reread" /\ saving' = saving
  BY DEF CloseDrain, Fails
<1>5. StoreOK'
  BY <1>1, <1>2 DEF StoreOK, StoreIntegrity, Exists
<1>6. Closing'
  BY <1>4 DEF Closing
<1>7. ASSUME SavingOK', rpc' \in {"read", "failed"},
             cause' \in {"reread", cause}
      PROVE  TypeOK'
  BY <1>1, <1>2, <1>7 DEF TypeOK, SavingOK, parserVars, requestVars
<1>8. ASSUME Len(saving') = n, \A i \in 1..n : saving'[i].id = saving[i].id,
             rpc' \in {"read", "failed"}
      PROVE  BlocksOK'
  <2>1. \A i \in 2..n : saving'[i].id = saving[i].id
    BY <1>3, <1>8
  <2>2. CASE rpc = "read" \/ rpc' = "failed"
    BY <1>1, <1>2, <1>8, <2>2 DEF BlocksOK, parserVars
  <2>3. CASE rpc = "close" /\ rpc' = "read"
    <3>1. OpenAt = n - 1 /\ OpenAt' = n - 1
      BY <1>2, <1>8, <2>3 DEF OpenAt
    <3> QED
      BY <1>1, <1>2, <1>8, <2>1, <2>3, <3>1 DEF BlocksOK, parserVars
  <2> QED
    BY <1>2, <1>8, <2>2, <2>3
<1>9. CASE n = 1 /\ rpc' = "read" /\ saving' = saving /\ cause' = cause
  <2>0. \A i \in 2..n : FALSE
    BY <1>9
  <2>1. SavingOK' /\ HashersFed' /\ FilesOK'
    BY <1>1, <1>9, <2>0 DEF SavingOK, HashersFed, FilesOK
  <2> QED
    BY <1>5, <1>6, <1>7, <1>8, <1>9, <2>1, InvThen
<1>10. CASE rpc' = "failed" /\ cause' = "reread" /\ saving' = saving
  <2>1. SavingOK' /\ FilesOK'
    BY <1>1, <1>10 DEF SavingOK, FilesOK
  <2> QED
    BY <1>5, <1>6, <1>7, <1>8, <1>10, <2>1, InvThen
<1>11. CASE /\ n > 1 /\ Readable(draining) /\ rpc' = "read" /\ cause' = cause
            /\ saving' = Fed(<<>>, StoredBytes(draining))
  <2>1. StoredBytes(draining) = Expand[draining]
    BY <1>1, <1>3, <1>11, StoredBytesFacts
  <2>2. saving' = Fed(<<>>, Expand[draining])
    BY <1>11, <2>1
  <2>3. SavingOK' /\ HashersFed'
    BY <1>1, <1>2, <1>3, <2>2, FeedDrained
  <2>4. <<>> \in Seq(Item) /\ Expand[draining] \in Seq(Chunk)
    BY <1>3, ExpandType
  <2>5. Len(saving') = n /\ \A i \in 1..n : saving'[i].id = saving[i].id
    BY <1>1, <2>2, <2>4, FedFacts
  <2>6. FilesOK'
    <3>1. \A k \in 2..n : \A i \in 1..Len(saving'[k].items) :
             saving'[k].items[i] # saving'[k].id
      <4>1. \A i \in 1..Len(<<>>) : FALSE
        OBVIOUS
      <4>2. Len(saving) > 1 =>
               \A i \in 1..Len(<<>>) : <<>>[i] # saving[Len(saving)].id
        BY <4>1
      <4> DEFINE bytes == Expand[draining]
                 none  == <<>>
      <4>3. none \in Seq(Item) /\ bytes \in Seq(Chunk) /\ saving' = Fed(none, bytes)
            /\ (Len(saving) > 1 =>
                  \A i \in 1..Len(none) : none[i] # saving[Len(saving)].id)
        BY <2>2, <2>4, <4>2
      <4> HIDE DEF bytes, none
      <4> QED
        BY <1>1, <4>3, FilesFed
    <3> QED
      BY <2>5, <3>1 DEF FilesOK
  <2> QED
    BY <1>5, <1>6, <1>7, <1>8, <1>11, <2>3, <2>5, <2>6, InvThen
<1> QED
  BY <1>4, <1>9, <1>10, <1>11

(* A block that has been checked leaves the path, stored or already there.  *)
LEMMA FileCloses ==
  ASSUME ReceiverInv, rpc \in {"publish", "rename"}, rpc' = "read",
         saving' = Front(saving), StoreOK',
         UNCHANGED <<cause, parserVars, draining, object, requestVars, wire>>
  PROVE  ReceiverInv'
<1>1. TypeOK /\ BlocksOK /\ Closing /\ SavingOK /\ FilesOK /\ HashersFed
  BY InvParts
<1> DEFINE n == Len(saving)
<1>2. /\ draining = None /\ draining' = None /\ n > 1 /\ n \in Nat
      /\ Last(saving).hashed = Expand[Last(saving).id]
  BY <1>1, SavingFacts DEF Closing
<1>3. SavingOK' /\ HashersFed'
  BY <1>1, <1>2, CloseFile
<1>4. Len(saving') = n - 1 /\ \A i \in 1..(n - 1) : saving'[i] = saving[i]
  BY <1>1, FrontFacts DEF SavingOK
<1>5. \A i \in 2..(n - 1) : i \in 1..(n - 1) /\ i \in 2..n
  BY <1>2
<1>6. FilesOK'
  BY <1>1, <1>4, <1>5 DEF FilesOK
<1>7. TypeOK'
  BY <1>1, <1>3 DEF TypeOK, SavingOK, StoreOK, parserVars, requestVars
<1>8. Closing'
  BY DEF Closing
<1>9. BlocksOK'
  <2>1. OpenAt = n - 2 /\ OpenAt' = n - 2
    BY <1>2, <1>4 DEF OpenAt
  <2>2. /\ \A i, j \in 1..Len(blocks) : i < j => blocks[i] # blocks[j]
        /\ levels = 0 => blocks = <<>>
        /\ levels > 0 => Len(blocks) = OpenAt
        /\ levels > 0 =>
              \A i \in 2..n : i - 1 <= Len(blocks) => blocks[i - 1] = saving[i].id
    BY <1>1, <1>2 DEF BlocksOK
  <2>3. blocks' = blocks /\ levels' = levels
    BY DEF parserVars
  <2>4. \A i \in 2..Len(saving') : i \in 2..n /\ saving'[i] = saving[i]
    BY <1>4, <1>5
  <2> HIDE DEF n
  <2> QED
    BY <1>2, <2>1, <2>2, <2>3, <2>4 DEF BlocksOK
<1> QED
  BY <1>3, <1>6, <1>7, <1>8, <1>9, InvThen

LEMMA PublishStep == ReceiverInv /\ Publish => ReceiverInv'
<1> SUFFICES ASSUME ReceiverInv, Publish PROVE ReceiverInv'
  OBVIOUS
<1>1. TypeOK /\ StoreOK /\ BlocksOK /\ Closing
  BY InvParts
<1>2. /\ rpc = "publish"
      /\ UNCHANGED <<cause, parserVars, draining, object, store, requestVars, wire>>
  BY DEF Publish
<1>3. CASE saving' = Front(saving) /\ rpc' = "read"
  <2>1. StoreOK'
    BY <1>1, <1>2 DEF StoreOK, StoreIntegrity, Exists
  <2> QED
    BY <1>2, <1>3, <2>1, FileCloses
<1>4. CASE rpc' = "rename" /\ saving' = saving
  <2>1. TypeOK'
    BY <1>1, <1>2, <1>4 DEF TypeOK, parserVars, requestVars
  <2>2. BlocksOK'
    <3>1. OpenAt' = OpenAt
      BY <1>2, <1>4 DEF OpenAt
    <3> QED
      BY <1>1, <1>2, <1>4, <3>1 DEF BlocksOK, parserVars
  <2>3. Closing'
    BY <1>1, <1>2, <1>4 DEF Closing
  <2> QED
    BY <1>2, <1>4, <2>1, <2>2, <2>3, NothingWritten
<1> QED
  BY <1>3, <1>4 DEF Publish

LEMMA RenameStep == ReceiverInv /\ Rename => ReceiverInv'
<1> SUFFICES ASSUME ReceiverInv, Rename PROVE ReceiverInv'
  OBVIOUS
<1>1. TypeOK /\ StoreOK /\ BlocksOK /\ Closing /\ SavingOK /\ FilesOK /\ HashersFed
  BY InvParts DEF Rename
<1> DEFINE n == Len(saving)
           done == Last(saving)
<1>2. /\ rpc = "rename"
      /\ UNCHANGED <<parserVars, draining, object, requestVars, wire>>
  BY DEF Rename
<1>3. /\ n \in Nat /\ n > 1 /\ draining = None /\ done = saving[n]
      /\ done.hashed = Expand[done.id]
  BY <1>1, <1>2, SavingFacts DEF Closing
<1>4. CASE /\ store' = [store EXCEPT ![done.id] = done.items]
           /\ saving' = Front(saving) /\ rpc' = "read" /\ cause' = cause
  <2>1. n \in 2..n /\ n \in 1..n /\ ~(n < n)
    BY <1>3
  <2>2. done.items \in Seq(Item) /\ done.id \in Block
    BY <1>1, <1>3, <2>1, SavingFacts DEF SavingOK
  <2>3. \A i \in 1..Len(done.items) : done.items[i] # done.id
    BY <1>1, <1>3, <2>1 DEF FilesOK
  <2>4. FedAt(saving, None, n)
    BY <1>1, <1>3, <2>1, HashersFedIs
  <2>5. BytesOf(done.items) = Expand[done.id]
    BY <1>3, <2>1, <2>4 DEF FedAt
  <2> HIDE DEF done
  <2>6. StoreOK'
    BY <1>1, <1>4, <2>2, <2>3, <2>5, StoreKept DEF Stored
  <2> QED
    BY <1>2, <1>4, <2>6, FileCloses
<1>5. CASE rpc' = "failed" /\ cause' = "rename" /\ store' = store
           /\ saving' = saving
  <2>1. TypeOK'
    BY <1>1, <1>2, <1>5 DEF TypeOK, parserVars, requestVars
  <2>2. BlocksOK' /\ Closing'
    BY <1>1, <1>2, <1>5 DEF BlocksOK, Closing, parserVars
  <2> QED
    BY <1>2, <1>5, <2>1, <2>2, NothingWritten
<1> QED
  BY <1>4, <1>5 DEF Rename, Fails

-----------------------------------------------------------------------------
(* The stream as it is read, when it is the stream of an object.            *)

(* Where the receiver is in the stream: a pointer to the block just opened  *)
(* is written in a step of its own.                                         *)
Got    == saving[1].items
AtRead == At(blocks, Len(Got) + (IF rpc = "second" /\ Len(saving) = 1 THEN 2 ELSE 1))

(* What it has of the object is right so far, and what it has open is what  *)
(* the stream has opened.                                                   *)
Reading ==
    /\ levels = Len(blocks)
    /\ \A i \in 1..Len(Got) : i <= Len(Body[Root]) /\ Got[i] = Body[Root][i]
    /\ rpc = "second" /\ Len(saving) = 1 =>
          /\ Len(Got) + 1 <= Len(Body[Root])
          /\ blocks[Len(blocks)] = Body[Root][Len(Got) + 1]

LEMMA ReadFacts ==
  ASSUME ReceiverInv, levels = Len(blocks)
  PROVE  /\ Len(saving) \in Nat \ {0} /\ (Len(saving) = 1 \/ Len(saving) > 1)
         /\ Got \in Seq(Item) /\ Len(Got) \in Nat
         /\ blocks \in Seq(Block) /\ Len(blocks) \in Nat
         /\ Len(Body[Root]) \in Nat /\ Body[Root] \in Seq(Item)
         /\ AtRead \in Place
         /\ draining \in Block \cup {None}
         /\ rpc = "read" /\ ~Exhausted =>
               /\ blocks = <<>> => draining = None /\ Len(saving) = 1
               /\ draining = None => Len(blocks) = Len(saving) - 1
<1>1. TypeOK /\ SavingOK /\ BlocksOK
  BY InvParts
<1>2. Len(saving) \in Nat \ {0} /\ (Len(saving) = 1 \/ Len(saving) > 1)
  <2>1. \A n \in Nat \ {0} : n = 1 \/ n > 1
    OBVIOUS
  <2> QED
    BY <1>1, <2>1, SavingFacts
<1>3. Got \in Seq(Item) /\ Len(Got) \in Nat
  <2>1. 1 \in 1..Len(saving)
    BY <1>2
  <2> QED
    BY <1>1, <2>1, SavingFacts DEF Got
<1>4. blocks \in Seq(Block) /\ Len(blocks) \in Nat
  BY <1>1 DEF TypeOK
<1>5. Body[Root] \in Seq(Item) /\ Len(Body[Root]) \in Nat
  BY ObjectsAssumption, LenProperties DEF Node
<1>6. AtRead \in Place
  BY <1>3, <1>4 DEF AtRead, At, Place
<1>7. ASSUME rpc = "read", ~Exhausted, blocks = <<>>
      PROVE  draining = None /\ Len(saving) = 1
  <2>1. levels = 0
    BY <1>7
  <2> QED
    BY <1>2, <1>7, <2>1 DEF Exhausted
<1>8. ASSUME rpc = "read", ~Exhausted, draining = None
      PROVE  Len(blocks) = Len(saving) - 1
  <2>1. CASE levels > 0
    BY <1>1, <1>8, <2>1 DEF BlocksOK, OpenAt
  <2>2. CASE levels = 0
    <3>1. blocks = <<>> /\ Len(blocks) = 0
      BY <1>4, <2>2, EmptySeq
    <3> QED
      BY <1>7, <1>8, <3>1
  <2> QED
    BY <1>4, <2>1, <2>2
<1>9. draining \in Block \cup {None}
  BY <1>1 DEF TypeOK
<1> QED
  BY <1>2, <1>3, <1>4, <1>5, <1>6, <1>7, <1>8, <1>9

(* What is written inside a block leaves what the object has alone.         *)
LEMMA FedInside ==
  ASSUME SavingOK, Len(saving) > 1, NEW items \in Seq(Item), NEW bytes \in Seq(Chunk)
  PROVE  /\ Fed(items, bytes)[1].items = saving[1].items
         /\ Len(Fed(items, bytes)) = Len(saving)
         /\ Fed(items, bytes) \in Seq(Frame)
<1> DEFINE fed == Fed(items, bytes)
           n == Len(saving)
<1>1. n \in Nat /\ n > 1
  BY SavingFacts
<1>2. /\ \A i \in 1..(n - 1) : fed[i].items = saving[i].items
      /\ Len(fed) = n /\ fed \in Seq(Frame)
  BY FedFacts
<1> HIDE DEF fed, n
<1>3. 1 \in 1..(n - 1)
  BY <1>1
<1>4. fed[1].items = saving[1].items
  BY <1>2, <1>3
<1> QED
  BY <1>2, <1>4 DEF fed, n

(* Whatever is not a Buffer of a part of the object.                        *)
Pauses == wire' = wire /\ AtRead' = AtRead
Reads  ==
    /\ wire # <<>>
    /\ Head(wire).kind # "eof"
    /\ wire' = Tail(wire)
    /\ \A t : Goes(AtRead, Head(wire), t) => AtRead' = t
Ended  == rpc \in {"delivered", "ended", "failed"}
AtEof  == wire # <<>> /\ Head(wire).kind = "eof"

LEMMA SameReading ==
  ASSUME ReceiverInv, Reading, rpc # "second", rpc' # "second",
         saving'[1].items = saving[1].items, UNCHANGED parserVars
  PROVE  Reading' /\ AtRead' = AtRead
BY DEF Reading, Got, AtRead, parserVars

LEMMA TakeChunkReads ==
  ASSUME ReceiverInv, Reading, TakeChunk, NEW u, Goes(AtRead, Head(wire), u)
  PROVE  Reading' /\ Reads
<1> DEFINE c == Arrived.val
<1>1. /\ rpc = "read" /\ wire # <<>> /\ wire' = Tail(wire) /\ rpc' = "read"
      /\ UNCHANGED parserVars /\ Head(wire).kind = "chunk" /\ ~Exhausted
      /\ saving' = IF draining = None THEN Fed(<<c>>, <<c>>) ELSE saving
  BY DEF TakeChunk, Arrives, Arrived, Take
<1>2. /\ Len(saving) \in Nat \ {0} /\ (Len(saving) = 1 \/ Len(saving) > 1)
      /\ Got \in Seq(Item) /\ Len(Got) \in Nat
      /\ blocks \in Seq(Block) /\ Len(blocks) \in Nat
      /\ draining \in Block \cup {None}
      /\ blocks = <<>> => draining = None /\ Len(saving) = 1
      /\ draining = None => Len(blocks) = Len(saving) - 1
  BY <1>1, ReadFacts DEF Reading
<1>3. c \in Chunk /\ SavingOK /\ <<c>> \in Seq(Item) /\ <<c>> \in Seq(Chunk)
      /\ c = Head(wire).val /\ c \in Item
  <2>1. TypeOK /\ SavingOK
    BY InvParts
  <2> QED
    BY <1>1, <2>1, ArrivedFacts DEF Arrived, Item
<1> HIDE DEF c
<1>4. CASE blocks # <<>>
  <2>1. saving'[1].items = saving[1].items
    <3>1. CASE draining # None
      BY <1>1, <3>1
    <3>2. CASE draining = None
      <4>1. Len(saving) > 1
        <5>1. Len(blocks) # 0
          BY <1>2, <1>4, EmptySeq
        <5> QED
          BY <1>2, <3>2, <5>1
      <4> QED
        BY <1>1, <1>3, <3>2, <4>1, FedInside
    <3> QED
      BY <3>1, <3>2
  <2>2. Reading' /\ AtRead' = AtRead
    BY <1>1, <2>1, SameReading
  <2>3. \A t : Goes(AtRead, Head(wire), t) => t = AtRead
    <3>1. Head(wire).kind = "chunk" /\ AtRead.open # <<>>
      BY <1>1, <1>4 DEF AtRead, At
    <3> QED
      BY <3>1 DEF Goes, MeetsItem, OpensBlock, ClosesBlock, PassesOn
  <2> QED
    BY <1>1, <2>2, <2>3 DEF Reads
<1>5. CASE blocks = <<>>
  <2>1. draining = None /\ Len(saving) = 1 /\ levels = 0
    BY <1>2, <1>5 DEF Reading
  <2>2. /\ saving' = Fed(<<c>>, <<c>>) /\ Len(saving') = 1
        /\ Got' = Append(Got, c)
    <3>1. saving' = Fed(<<c>>, <<c>>)
      BY <1>1, <2>1
    <3>2. /\ Len(Fed(<<c>>, <<c>>)) = 1
          /\ Fed(<<c>>, <<c>>)[1].items = saving[1].items \o <<c>>
      <4>1. LET fed == Fed(<<c>>, <<c>>)
                n == Len(saving)
            IN  Len(fed) = n /\ fed[n].items = saving[n].items \o <<c>>
        BY <1>3, FedFacts
      <4> QED
        BY <2>1, <4>1
    <3>3. Got \o <<c>> = Append(Got, c)
      BY <1>2, <1>3, AppendFacts
    <3> QED
      BY <3>1, <3>2, <3>3 DEF Got
  <2>3. /\ Len(Got') = Len(Got) + 1 /\ Got'[Len(Got) + 1] = c
        /\ \A i \in 1..Len(Got) : Got'[i] = Got[i]
    BY <1>2, <1>3, <2>2, AppendProperties
  <2>4. AtRead = At(<<>>, Len(Got) + 1) /\ AtRead' = At(<<>>, Len(Got) + 2)
    <3>1. AtRead = At(<<>>, Len(Got) + 1)
      BY <1>1, <1>5 DEF AtRead
    <3>2. AtRead' = At(<<>>, Len(Got') + 1)
      BY <1>1, <1>5 DEF AtRead, parserVars
    <3>3. Len(Got') + 1 = Len(Got) + 2
      BY <1>2, <2>3
    <3> QED
      BY <3>1, <3>2, <3>3
  <2>5. \A t : Goes(AtRead, Head(wire), t) =>
                  t = AtRead' /\ Len(Got) + 1 <= Len(Body[Root])
                  /\ Body[Root][Len(Got) + 1] = c
    <3> SUFFICES ASSUME NEW t, Goes(AtRead, Head(wire), t)
                 PROVE  t = AtRead' /\ Len(Got) + 1 <= Len(Body[Root])
                        /\ Body[Root][Len(Got) + 1] = c
      OBVIOUS
    <3>1. MeetsItem(AtRead, Head(wire), t)
      BY <1>1, <2>4 DEF Goes, OpensBlock, ClosesBlock, PassesOn, At
    <3>2. (Len(Got) + 1) + 1 = Len(Got) + 2
      BY <1>2
    <3> QED
      BY <1>1, <1>3, <2>4, <3>1, <3>2 DEF MeetsItem, NextIs, At
  <2>6. Reading'
    <3>1. \A i \in 1..Len(Got') : i \in 1..Len(Got) \/ i = Len(Got) + 1
      BY <1>2, <2>3
    <3>2. levels' = Len(blocks')
      BY <1>1 DEF Reading, parserVars
    <3> QED
      BY <1>1, <2>3, <2>5, <3>1, <3>2 DEF Reading
  <2> QED
    BY <1>1, <2>5, <2>6 DEF Reads
<1> QED
  BY <1>4, <1>5

LEMMA TakeStartReads ==
  ASSUME ReceiverInv, Reading, TakeStart, NEW u, Goes(AtRead, Head(wire), u)
  PROVE  Reading' /\ Reads
<1> DEFINE b == Arrived.val
<1>1. /\ rpc = "read" /\ wire # <<>> /\ wire' = Tail(wire)
      /\ Head(wire).kind = "block" /\ ~Exhausted /\ b = Head(wire).val
      /\ b \notin ToSet(blocks) /\ blocks' = Append(blocks, b)
      /\ levels' = levels + 1 /\ saving' = saving
      /\ rpc' = IF draining = None THEN "second" ELSE "read"
  BY DEF TakeStart, Arrives, Arrived, Take
<1>2. /\ Len(saving) \in Nat \ {0} /\ (Len(saving) = 1 \/ Len(saving) > 1)
      /\ Len(Got) \in Nat /\ Got' = Got
      /\ blocks \in Seq(Block) /\ Len(blocks) \in Nat
      /\ blocks = <<>> => draining = None /\ Len(saving) = 1
      /\ draining = None => Len(blocks) = Len(saving) - 1
  BY <1>1, ReadFacts DEF Reading, Got
<1>3. b \in Block
  <2>1. TypeOK
    BY InvParts
  <2> QED
    BY <1>1, <2>1, ArrivedFacts DEF Arrived
<1> HIDE DEF b
<1>4. /\ Len(blocks') = Len(blocks) + 1 /\ blocks'[Len(blocks) + 1] = b
      /\ levels' = Len(blocks')
  BY <1>1, <1>2, <1>3, AppendProperties DEF Reading
<1>5. AtRead = At(blocks, Len(Got) + 1)
  BY <1>1 DEF AtRead
<1>6. CASE blocks # <<>>
  <2>1. ~(rpc' = "second" /\ Len(saving') = 1)
    <3>1. Len(blocks) # 0
      BY <1>2, <1>6, EmptySeq
    <3> QED
      BY <1>1, <1>2, <3>1
  <2>2. AtRead' = At(Append(blocks, b), Len(Got) + 1)
    BY <1>1, <1>2, <2>1 DEF AtRead
  <2>3. \A i \in 1..Len(blocks) : blocks[i] # b
    BY <1>1, <1>2 DEF ToSet
  <2>4. blocks[Len(blocks)] # b
    BY <1>2, <1>6, <2>3, EmptySeq
  <2>5. \A t : Goes(AtRead, Head(wire), t) => t = AtRead'
    BY <1>1, <1>5, <1>6, <2>2, <2>4
    DEF Goes, MeetsItem, OpensBlock, ClosesBlock, PassesOn, At
  <2>6. Reading'
    BY <1>2, <1>4, <2>1 DEF Reading
  <2> QED
    BY <1>1, <2>5, <2>6 DEF Reads
<1>7. CASE blocks = <<>>
  <2>1. rpc' = "second" /\ Len(saving') = 1
    BY <1>1, <1>2, <1>7
  <2>2. blocks' = <<b>> /\ Len(blocks') = 1 /\ blocks'[1] = b
    BY <1>1, <1>3, <1>7
  <2>3. AtRead' = At(<<b>>, Len(Got) + 2)
    BY <1>2, <2>1, <2>2 DEF AtRead
  <2>4. \A t : Goes(AtRead, Head(wire), t) =>
                  t = AtRead' /\ Len(Got) + 1 <= Len(Body[Root])
                  /\ Body[Root][Len(Got) + 1] = b
    <3> SUFFICES ASSUME NEW t, Goes(AtRead, Head(wire), t)
                 PROVE  t = AtRead' /\ Len(Got) + 1 <= Len(Body[Root])
                        /\ Body[Root][Len(Got) + 1] = b
      OBVIOUS
    <3>1. MeetsItem(AtRead, Head(wire), t)
      BY <1>1, <1>5, <1>7 DEF Goes, OpensBlock, ClosesBlock, PassesOn, At
    <3>2. (Len(Got) + 1) + 1 = Len(Got) + 2
      BY <1>2
    <3> QED
      BY <1>1, <1>5, <2>3, <3>1, <3>2 DEF MeetsItem, NextIs, At
  <2>5. Reading'
    BY <1>2, <1>4, <2>2, <2>4 DEF Reading
  <2> QED
    BY <1>1, <2>4, <2>5 DEF Reads
<1> QED
  BY <1>6, <1>7

LEMMA TakeEndReads ==
  ASSUME ReceiverInv, Reading, TakeEnd, NEW u, Goes(AtRead, Head(wire), u)
  PROVE  Reading' /\ Reads
<1> DEFINE b == Arrived.val
<1>1. /\ rpc = "read" /\ wire # <<>> /\ wire' = Tail(wire)
      /\ Head(wire).kind = "block" /\ b = Head(wire).val
      /\ b \in ToSet(blocks) /\ Last(blocks) = b
      /\ levels' = levels - 1
      /\ blocks' = IF levels = 1 THEN <<>> ELSE Front(blocks)
      /\ saving' = saving /\ rpc' # "second"
  BY DEF TakeEnd, Arrives, Arrived, Take, LevelEnds
<1>2. /\ Len(Got) \in Nat /\ Got' = Got
      /\ blocks \in Seq(Block) /\ Len(blocks) \in Nat
  BY <1>1, ReadFacts DEF Reading, Got
<1>3. blocks # <<>> /\ Len(blocks) > 0
  BY <1>1, <1>2, EmptySeq DEF ToSet
<1> HIDE DEF b
<1>4. /\ Front(blocks) = SubSeq(blocks, 1, Len(blocks) - 1)
      /\ Len(Front(blocks)) = Len(blocks) - 1 /\ Front(blocks) \in Seq(Block)
      /\ blocks[Len(blocks)] = b
  BY <1>1, <1>2, <1>3, FrontFacts DEF Front
<1>5. blocks' = Front(blocks)
  <2>1. levels = 1 => Front(blocks) = <<>>
    BY <1>4, EmptySeq DEF Reading
  <2> QED
    BY <1>1, <2>1
<1>6. levels' = Len(blocks')
  BY <1>1, <1>4, <1>5 DEF Reading
<1>7. AtRead = At(blocks, Len(Got) + 1) /\ AtRead' = At(Front(blocks), Len(Got) + 1)
  BY <1>1, <1>2, <1>5 DEF AtRead
<1>8. ~(\A i \in 1..Len(blocks) : blocks[i] # b)
  BY <1>2, <1>3, <1>4
<1>9. \A t : Goes(AtRead, Head(wire), t) => t = AtRead'
  <2> SUFFICES ASSUME NEW t, Goes(AtRead, Head(wire), t) PROVE t = AtRead'
    OBVIOUS
  <2>1. ClosesBlock(AtRead, Head(wire), t)
    BY <1>1, <1>3, <1>7, <1>8 DEF Goes, MeetsItem, OpensBlock, PassesOn, At
  <2> QED
    BY <1>4, <1>7, <2>1 DEF ClosesBlock, At
<1>10. Reading'
  BY <1>1, <1>2, <1>6 DEF Reading
<1> QED
  BY <1>1, <1>9, <1>10 DEF Reads

LEMMA SaveOrDrainPauses ==
  ASSUME ReceiverInv, Reading, SaveOrDrain
  PROVE  Reading' /\ Pauses
<1> DEFINE b == Last(blocks)
           n == Len(saving)
           fed == Fed(<<b>>, <<>>)
<1>1. /\ rpc = "second" /\ rpc' = "read"
      /\ saving' = fed \/ saving' = Append(fed, Empty(b))
      /\ UNCHANGED parserVars /\ wire' = wire
  BY DEF SaveOrDrain
<1>2. TypeOK /\ SavingOK /\ BlocksOK
  BY InvParts
<1>3. /\ n \in Nat \ {0} /\ (n = 1 \/ n > 1)
      /\ Got \in Seq(Item) /\ Len(Got) \in Nat
      /\ blocks \in Seq(Block) /\ Len(blocks) \in Nat
  BY ReadFacts DEF Reading
<1>4. b = blocks[Len(blocks)] /\ b \in Block /\ b \in Item
  <2>1. blocks # <<>>
    BY <1>1, <1>2, <1>3, EmptySeq DEF Reading, BlocksOK
  <2> QED
    BY <1>3, <2>1, FrontFacts DEF Item
<1>5. <<b>> \in Seq(Item) /\ <<>> \in Seq(Chunk) /\ Empty(b) \in Frame
  BY <1>4 DEF Empty, Frame, Node
<1>6. Got \o <<b>> = Append(Got, b)
  BY <1>3, <1>4, AppendFacts
<1> HIDE DEF b
<1>7. /\ fed \in Seq(Frame) /\ Len(fed) = n
      /\ n = 1 => fed[1].items = Append(Got, b)
      /\ n > 1 => fed[1].items = Got
  <2>1. n = 1 => fed[1].items = saving[1].items \o <<b>>
    BY <1>2, <1>5, FedFacts
  <2>2. fed \in Seq(Frame) /\ Len(fed) = n
    BY <1>2, <1>5, FedFacts
  <2>3. n > 1 => fed[1].items = saving[1].items
    BY <1>2, <1>5, FedInside
  <2> QED
    BY <1>6, <2>1, <2>2, <2>3 DEF Got
<1> HIDE DEF fed
<1>8. saving'[1] = fed[1] /\ Len(saving') \in {n, n + 1}
  <2>1. 1 \in 1..n
    BY <1>3
  <2>2. /\ Len(Append(fed, Empty(b))) = n + 1
        /\ \A i \in 1..n : Append(fed, Empty(b))[i] = fed[i]
    BY <1>5, <1>7, AppendProperties
  <2> QED
    BY <1>1, <1>7, <2>1, <2>2
<1>9. levels' = Len(blocks') /\ blocks' = blocks
  BY <1>1 DEF Reading, parserVars
<1>10. CASE n > 1
  <2>1. Got' = Got
    BY <1>7, <1>8, <1>10 DEF Got
  <2>2. AtRead' = AtRead
    <3>1. n # 1
      <4>1. \A k \in Nat : k > 1 => k # 1
        OBVIOUS
      <4> QED
        BY <1>3, <1>10, <4>1
    <3>2. AtRead = At(blocks, Len(Got) + 1)
      BY <3>1 DEF AtRead
    <3>3. AtRead' = At(blocks, Len(Got) + 1)
      BY <1>1, <1>9, <2>1 DEF AtRead
    <3> QED
      BY <3>2, <3>3
  <2> QED
    BY <1>1, <1>9, <2>1, <2>2 DEF Reading, Pauses
<1>11. CASE n = 1
  <2>1. Got' = Append(Got, b)
    BY <1>7, <1>8, <1>11 DEF Got
  <2>2. /\ Len(Got') = Len(Got) + 1 /\ Got'[Len(Got) + 1] = b
        /\ \A i \in 1..Len(Got) : Got'[i] = Got[i]
    BY <1>3, <1>4, <2>1, AppendProperties
  <2>3. AtRead' = AtRead
    <3>1. AtRead = At(blocks, Len(Got) + 2) /\ AtRead' = At(blocks, Len(Got') + 1)
      BY <1>1, <1>9, <1>11 DEF AtRead
    <3>2. Len(Got') + 1 = Len(Got) + 2
      BY <1>3, <2>2
    <3> QED
      BY <3>1, <3>2
  <2>4. Len(Got) + 1 <= Len(Body[Root]) /\ b = Body[Root][Len(Got) + 1]
    BY <1>1, <1>4, <1>11 DEF Reading
  <2>5. \A i \in 1..Len(Got') : i \in 1..Len(Got) \/ i = Len(Got) + 1
    BY <1>3, <2>2
  <2>6. Reading'
    BY <1>1, <1>9, <2>2, <2>4, <2>5 DEF Reading
  <2> QED
    BY <1>1, <2>3, <2>6 DEF Pauses
<1> QED
  BY <1>3, <1>10, <1>11

(* The tower closes what it was saving or draining.                         *)
LEMMA ClosingPauses ==
  ASSUME ReceiverInv, Reading, CloseDrain \/ CloseContent \/ Publish \/ Rename
  PROVE  Reading' /\ Pauses
<1>1. TypeOK /\ StoreOK /\ SavingOK /\ Closing
  BY InvParts
<1>2. Len(saving) \in Nat \ {0}
  BY ReadFacts DEF Reading
<1>3. UNCHANGED parserVars /\ wire' = wire /\ rpc # "second" /\ rpc' # "second"
  BY DEF CloseDrain, CloseContent, Publish, Rename, Exhausted, Fails
<1>4. \/ saving' = saving
      \/ /\ Len(saving) > 1 /\ draining # None
         /\ saving' = Fed(<<>>, StoredBytes(draining))
      \/ saving' = Front(saving) /\ rpc \in {"publish", "rename"}
  BY DEF CloseDrain, CloseContent, Publish, Rename, Exhausted, Fails
<1>5. saving'[1].items = saving[1].items
  <2>1. ASSUME Len(saving) > 1, draining # None,
               saving' = Fed(<<>>, StoredBytes(draining))
        PROVE  saving'[1].items = saving[1].items
    <3>1. StoredBytes(draining) \in Seq(Chunk) /\ <<>> \in Seq(Item)
      BY <1>1, <2>1, StoredBytesFacts DEF TypeOK
    <3> QED
      BY <1>1, <2>1, <3>1, FedInside
  <2>2. ASSUME saving' = Front(saving), rpc \in {"publish", "rename"}
        PROVE  saving'[1].items = saving[1].items
    <3>1. Len(saving) > 1
      BY <1>1, <2>2 DEF Closing
    <3>2. 1 \in 1..(Len(saving) - 1)
      BY <1>2, <3>1
    <3>3. \A i \in 1..(Len(saving) - 1) : Front(saving)[i] = saving[i]
      BY <1>1, FrontFacts DEF SavingOK
    <3> QED
      BY <2>2, <3>2, <3>3
  <2> QED
    BY <1>4, <2>1, <2>2
<1> QED
  BY <1>3, <1>5, SameReading DEF Pauses

(* The object is handed over when the stream ends outside every block.      *)
LEMMA EndReads ==
  ASSUME ReceiverInv, Reading, TakeSeparator \/ TakeEof,
         AtEof \/ \E u : Goes(AtRead, Head(wire), u)
  PROVE  /\ Reading' /\ (Reads \/ (AtEof /\ wire' = wire))
         /\ rpc' = "delivered" =>
               IsPrefix(object', Body[Root]) /\ (AtEof \/ object' = Body[Root])
<1>1. /\ rpc = "read" /\ wire # <<>> /\ saving' = saving /\ ~Exhausted
      /\ \/ TakeSeparator /\ wire' = Tail(wire) /\ Head(wire).kind = "separator"
         \/ TakeEof /\ wire' = wire /\ Head(wire).kind = "eof"
  BY DEF TakeSeparator, TakeEof, Arrives, Arrived, Take
<1>2. /\ Got \in Seq(Item) /\ Len(Got) \in Nat /\ Got' = Got
      /\ Body[Root] \in Seq(Item) /\ Len(Body[Root]) \in Nat
      /\ blocks \in Seq(Block)
  BY <1>1, ReadFacts DEF Reading, Got
<1>3. CASE TakeSeparator /\ wire' = Tail(wire) /\ Head(wire).kind = "separator"
  <2>1. PICK u : Goes(AtRead, Head(wire), u)
    BY <1>3 DEF AtEof
  <2>2. AtRead = At(blocks, Len(Got) + 1)
    BY <1>1 DEF AtRead
  <2>3. blocks = <<>> /\ Len(Got) + 1 = Len(Body[Root]) + 1
    BY <1>3, <2>1, <2>2
    DEF Goes, MeetsItem, OpensBlock, ClosesBlock, PassesOn, At
  <2>4. levels = 0
    BY <2>3 DEF Reading
  <2>5. Deliver /\ UNCHANGED parserVars
    BY <1>3, <2>4 DEF TakeSeparator
  <2>6. rpc' # "second"
    BY <1>1, <2>5 DEF Deliver, Fails
  <2>7. Reading' /\ AtRead' = AtRead
    BY <1>1, <2>5, <2>6, SameReading
  <2>8. \A t : Goes(AtRead, Head(wire), t) => t = AtRead
    BY <1>3 DEF Goes, MeetsItem, OpensBlock, ClosesBlock, PassesOn
  <2>9. Got = Body[Root]
    <3>1. Len(Got) = Len(Body[Root])
      BY <1>2, <2>3
    <3>2. \A i \in 1..Len(Got) : Got[i] = Body[Root][i]
      BY DEF Reading
    <3> QED
      BY <1>2, <3>1, <3>2, SeqEqual
  <2>10. rpc' = "delivered" => object' = Body[Root]
    BY <1>1, <2>5, <2>9 DEF Deliver, Fails, Got
  <2>11. IsPrefix(Body[Root], Body[Root])
    BY <1>2 DEF IsPrefix
  <2> QED
    BY <1>1, <1>3, <2>7, <2>8, <2>10, <2>11 DEF Reads
<1>4. CASE TakeEof /\ wire' = wire /\ Head(wire).kind = "eof"
  <2>1. AtEof
    BY <1>1, <1>4 DEF AtEof
  <2>2. CASE levels = 0
    <3>1. Deliver /\ UNCHANGED parserVars
      BY <1>4, <2>2 DEF TakeEof
    <3>2. rpc' # "second"
      BY <1>1, <3>1 DEF Deliver, Fails
    <3>3. Reading'
      BY <1>1, <3>1, <3>2, SameReading
    <3>4. rpc' = "delivered" => object' = Got
      BY <1>1, <3>1 DEF Deliver, Fails, Got
    <3>5. IsPrefix(Got, Body[Root])
      <4> DEFINE n == Len(Got)
                 root == Body[Root]
      <4>1. /\ Got \in Seq(Item) /\ root \in Seq(Item) /\ n \in Nat /\ Len(root) \in Nat
            /\ \A i \in 1..n : i <= Len(root) /\ Got[i] = root[i]
        BY <1>2 DEF Reading
      <4> HIDE DEF root
      <4>2. n <= Len(root)
        <5>1. n = 0 \/ n \in 1..n
          BY <4>1
        <5> QED
          BY <4>1, <5>1
      <4>3. /\ SubSeq(Got, 1, n) = [i \in 1..n |-> Got[i]]
            /\ SubSeq(root, 1, n) = [i \in 1..n |-> root[i]]
        BY <4>1, <4>2
      <4>4. SubSeq(Got, 1, n) = SubSeq(root, 1, n)
        BY <4>1, <4>3
      <4> QED
        BY <4>2, <4>4 DEF IsPrefix, root
    <3> QED
      BY <1>1, <1>4, <2>1, <3>3, <3>4, <3>5
  <2>3. CASE levels # 0
    <3>1. levels' = 0 /\ blocks' = <<>> /\ rpc' = "read"
      BY <1>1, <1>4, <2>3 DEF TakeEof
    <3>2. Reading'
      BY <1>2, <3>1 DEF Reading
    <3> QED
      BY <1>4, <2>1, <3>1, <3>2
  <2> QED
    BY <2>2, <2>3
<1> QED
  BY <1>1, <1>3, <1>4

LEMMA OtherReads ==
  ASSUME ReceiverInv, Reading,
         Begin \/ TakeHead \/ TakeError \/ TakeTooDeep \/ TakeCrossing
  PROVE  Reading' /\ (Pauses \/ Reads \/ Ended') /\ rpc' # "delivered"
<1>1. /\ UNCHANGED <<parserVars, saving>> /\ rpc \in {"idle", "read"}
      /\ rpc' \in {"read", "ended", "failed"}
  BY DEF Begin, TakeHead, TakeError, TakeTooDeep, TakeCrossing, Arrives, Fails
<1>2. Reading' /\ AtRead' = AtRead
  BY <1>1, SameReading
<1>3. CASE Begin
  BY <1>1, <1>2, <1>3 DEF Begin, Pauses
<1>4. CASE TakeHead
  <2>1. /\ wire # <<>> /\ wire' = Tail(wire) /\ Head(wire).kind = "head"
    BY <1>4 DEF TakeHead, Arrives, Arrived, Take
  <2>2. \A t : Goes(AtRead, Head(wire), t) => t = AtRead
    BY <2>1 DEF Goes, MeetsItem, OpensBlock, ClosesBlock, PassesOn
  <2> QED
    BY <1>1, <1>2, <2>1, <2>2 DEF Reads
<1>5. CASE TakeError \/ TakeTooDeep \/ TakeCrossing
  <2>1. rpc' = "failed"
    BY <1>5 DEF TakeError, TakeTooDeep, TakeCrossing, Fails
  <2> QED
    BY <1>2, <2>1 DEF Ended
<1> QED
  BY <1>3, <1>4, <1>5

(* A receiver of the stream of an object reads it in step, and what it      *)
(* hands over is that object, or a first part of it where the stream was    *)
(* cut.                                                                     *)
LEMMA ReceiverMoves ==
  ASSUME ReceiverInv, Reading, ReceiverStep,
         wire # <<>> /\ ~AtEof => \E u : Goes(AtRead, Head(wire), u)
  PROVE  /\ Reading'
         /\ Pauses \/ Reads \/ Ended' \/ (AtEof /\ wire' = wire)
         /\ ~Ended
         /\ rpc' = "delivered" =>
               IsPrefix(object', Body[Root]) /\ (AtEof \/ object' = Body[Root])
<1>1. CASE Begin \/ TakeHead \/ TakeError \/ TakeTooDeep \/ TakeCrossing
  <2>1. ~Ended
    BY <1>1 DEF Begin, TakeHead, TakeError, TakeTooDeep, TakeCrossing, Arrives, Ended
  <2> QED
    BY <1>1, <2>1, OtherReads
<1>2. CASE TakeChunk \/ TakeStart \/ TakeEnd
  <2>1. rpc = "read" /\ wire # <<>> /\ ~AtEof /\ rpc' # "delivered"
    BY <1>2 DEF TakeChunk, TakeStart, TakeEnd, Arrives, Arrived, AtEof
  <2>2. PICK u : Goes(AtRead, Head(wire), u)
    BY <2>1
  <2> QED
    BY <1>2, <2>1, <2>2, TakeChunkReads, TakeStartReads, TakeEndReads DEF Ended
<1>3. CASE SaveOrDrain \/ CloseDrain \/ CloseContent \/ Publish \/ Rename
  <2>1. ~Ended /\ rpc' # "delivered"
    BY <1>3 DEF SaveOrDrain, CloseDrain, CloseContent, Publish, Rename, Exhausted,
                Fails, Ended
  <2> QED
    BY <1>3, <2>1, SaveOrDrainPauses, ClosingPauses
<1>4. CASE TakeSeparator \/ TakeEof
  <2>1. wire # <<>> /\ ~Ended
    BY <1>4 DEF TakeSeparator, TakeEof, Arrives, Ended
  <2> QED
    BY <1>4, <2>1, EndReads
<1> QED
  BY <1>1, <1>2, <1>3, <1>4 DEF ReceiverStep

(* What it may fail for, when what it reads is the stream of an object: the *)
(* markers nest, and not deeper than the sender frames.                     *)
LEMMA FailsFor ==
  ASSUME ReceiverInv, Reading, ReceiverStep,
         wire # <<>> /\ ~AtEof => \E u : Goes(AtRead, Head(wire), u)
  PROVE  /\ \/ cause' = cause
            \/ cause' \in {"reread", "mismatch", "wbp"}
            \/ cause' = "peer" /\ wire # <<>> /\ Head(wire).kind = "error"
            \/ cause' = "nesting" /\ BlockDepth > MaxNesting
            \/ cause' = "rename" /\ rpc = "rename" /\ Exists(Last(saving).id)
         /\ rpc' = "rename" => ~Exists(Last(saving).id)'
<1>1. rpc' = "rename" => ~Exists(Last(saving).id)'
  <2> SUFFICES ASSUME rpc' = "rename" PROVE ~Exists(Last(saving).id)'
    OBVIOUS
  <2>1. Publish /\ ~Exists(Last(saving).id)
    BY DEF ReceiverStep, Begin, TakeHead, TakeChunk, TakeStart, TakeTooDeep, SaveOrDrain,
           TakeEnd, TakeCrossing, CloseDrain, CloseContent, Publish, Rename,
           TakeSeparator, TakeEof, TakeError, Deliver, Fails, Arrives, Exhausted
  <2> QED
    BY <2>1 DEF Publish, Exists
<1>2. CASE TakeTooDeep
  <2>1. /\ rpc = "read" /\ wire # <<>> /\ Head(wire).kind = "block" /\ ~AtEof
        /\ Head(wire).val \notin ToSet(blocks) /\ Len(blocks) >= MaxNesting
        /\ cause' = "nesting"
    BY <1>2 DEF TakeTooDeep, Arrives, Arrived, Fails, AtEof
  <2>2. PICK u : Goes(AtRead, Head(wire), u)
    BY <2>1
  <2>3. blocks \in Seq(Block) /\ Len(blocks) \in Nat /\ Len(Got) \in Nat
    BY ReadFacts DEF Reading
  <2>4. MaxNesting \in Nat \ {0} /\ BlockDepth \in Nat
    BY ReceiverAssumption, ObjectsAssumption
  <2>5. blocks # <<>>
    BY <2>1, <2>4
  <2>6. blocks[Len(blocks)] \in ToSet(blocks)
    BY <2>3, <2>5, EmptySeq DEF ToSet
  <2>7. AtRead.open = blocks
    BY DEF AtRead, At
  <2>8. Len(blocks) < BlockDepth
    BY <2>1, <2>2, <2>5, <2>6, <2>7
    DEF Goes, MeetsItem, OpensBlock, ClosesBlock, PassesOn
  <2>9. BlockDepth > MaxNesting
    BY <2>1, <2>3, <2>4, <2>8
  <2> QED
    BY <1>1, <2>1, <2>9
<1>3. ~TakeCrossing
  <2> SUFFICES ASSUME TakeCrossing PROVE FALSE
    OBVIOUS
  <2>1. /\ wire # <<>> /\ Head(wire).kind = "block" /\ ~AtEof
        /\ Head(wire).val \in ToSet(blocks) /\ Last(blocks) # Head(wire).val
    BY DEF TakeCrossing, Arrives, Arrived, AtEof
  <2>2. PICK u : Goes(AtRead, Head(wire), u)
    BY <2>1
  <2>3. blocks \in Seq(Block) /\ Len(blocks) \in Nat
    BY ReadFacts DEF Reading
  <2>4. PICK i \in 1..Len(blocks) : blocks[i] = Head(wire).val
    BY <2>1 DEF ToSet
  <2>5. blocks # <<>> /\ Last(blocks) = blocks[Len(blocks)] /\ AtRead.open = blocks
    BY <2>3, <2>4 DEF Last, AtRead, At
  <2> QED
    BY <2>1, <2>2, <2>4, <2>5
    DEF Goes, MeetsItem, OpensBlock, ClosesBlock, PassesOn
<1>4. CASE Rename
  <2>1. cause' = cause \/ (cause' = "rename" /\ Exists(Last(saving).id))
    BY <1>4 DEF Rename, Replaces, Fails
  <2> QED
    BY <1>1, <1>4, <2>1 DEF Rename
<1>5. CASE Begin \/ TakeError
  BY <1>1, <1>5 DEF Begin, TakeError, Fails, Arrives, Arrived
<1>6. CASE TakeSeparator \/ TakeEof \/ CloseDrain \/ CloseContent
  BY <1>1, <1>6 DEF TakeSeparator, TakeEof, CloseDrain, CloseContent, Deliver, Fails
<1>7. CASE TakeHead \/ TakeChunk \/ TakeStart \/ SaveOrDrain \/ TakeEnd \/ Publish
  BY <1>1, <1>7 DEF TakeHead, TakeChunk, TakeStart, SaveOrDrain, TakeEnd, Publish
<1> QED
  BY <1>2, <1>3, <1>4, <1>5, <1>6, <1>7 DEF ReceiverStep

-----------------------------------------------------------------------------
(* The others, and the whole.                                               *)

LEMMA ReceiverStepKeeps == ReceiverInv /\ ReceiverStep => ReceiverInv'
BY BeginStep, ReadingStep, TakeChunkStep, TakeStartStep, SaveOrDrainStep,
   TakeEndStep, CloseDrainStep, CloseContentStep, PublishStep, RenameStep,
   EndOfStreamStep DEF ReceiverStep

(* Only the two directions of the stream change, or only the store.         *)
LEMMA WireStep ==
  ASSUME ReceiverInv, wire' \in Seq(Buffer), upstream' \in Seq(Block),
         UNCHANGED <<rpc, cause, parserVars, saving, draining, object, store, asked>>
  PROVE  ReceiverInv'
<1>1. TypeOK /\ BlocksOK /\ Closing
  BY InvParts
<1>2. TypeOK' /\ Closing'
  BY <1>1 DEF TypeOK, Closing, parserVars
<1>3. BlocksOK'
  BY <1>1 DEF BlocksOK, OpenAt, parserVars
<1> QED
  BY <1>2, <1>3, NothingWritten

LEMMA OthersStep ==
  ASSUME ReceiverInv, NEW b \in Block, OtherStores(b) \/ CleanUp(b)
  PROVE  ReceiverInv'
<1>1. TypeOK /\ StoreOK /\ BlocksOK /\ Closing /\ SavingOK /\ FilesOK
      /\ (rpc # "failed" => HashersFed)
  BY InvParts
<1>2. StoreOK'
  BY <1>1, OthersKeepStore
<1>3. UNCHANGED <<rpc, cause, parserVars, saving, draining, object, requestVars, wire>>
  BY DEF OtherStores, CleanUp
<1>4. TypeOK' /\ Closing' /\ SavingOK' /\ FilesOK'
  BY <1>1, <1>2, <1>3
  DEF TypeOK, StoreOK, Closing, SavingOK, FilesOK, parserVars, requestVars
<1>5. BlocksOK'
  BY <1>1, <1>3 DEF BlocksOK, OpenAt, parserVars
<1>6. rpc' # "failed" => HashersFed'
  BY <1>1, <1>3 DEF HashersFed
<1> QED
  BY <1>2, <1>4, <1>5, <1>6, InvThen

LEMMA ReceiverNext == ReceiverInv /\ [Next]_vars => ReceiverInv'
<1> SUFFICES ASSUME ReceiverInv, [Next]_vars PROVE ReceiverInv'
  OBVIOUS
<1>1. CASE ReceiverStep
  BY <1>1, ReceiverStepKeeps
<1>2. CASE PeerSends
  <2>1. PICK b \in Buffer : wire' = Append(wire, b)
    BY <1>2 DEF PeerSends
  <2>2. wire \in Seq(Buffer) /\ upstream \in Seq(Block)
    BY InvParts DEF TypeOK
  <2>3. wire' \in Seq(Buffer)
    BY <2>1, <2>2, AppendProperties
  <2> QED
    BY <1>2, <2>2, <2>3, WireStep DEF PeerSends, requestVars
<1>3. CASE \E b \in Block : OtherStores(b) \/ CleanUp(b)
  BY <1>3, OthersStep
<1>4. CASE UNCHANGED vars
  <2>1. wire' \in Seq(Buffer) /\ upstream' \in Seq(Block)
    BY <1>4, InvParts DEF TypeOK, vars, requestVars
  <2> QED
    BY <1>4, <2>1, WireStep DEF vars, requestVars
<1> QED
  BY <1>1, <1>2, <1>3, <1>4 DEF Next

(* Whatever Buffers come, in whatever order, and whatever others store and  *)
(* remove: what parse_from_buffer has open, what it writes and what its     *)
(* hashers were fed fit together.                                           *)
THEOREM PathIsSound == Spec => []ReceiverInv
BY ReceiverInit, ReceiverNext, PTL DEF Spec

(* Every variable of the receiver keeps its type.                           *)
THEOREM ReceiverTypes == Spec => []TypeOK
<1>1. ReceiverInv => TypeOK
  BY InvParts
<1> QED
  BY <1>1, PathIsSound, PTL

(* Every block in the block directory holds the bytes its id names, however *)
(* a peer interleaves, cuts or lies about what it sends: save_block_content *)
(* lets nothing else in, and a re-read of a drained block gives its bytes.  *)
THEOREM StoreIsSound == Spec => []StoreIntegrity
<1>1. ReceiverInv => StoreIntegrity
  BY InvParts DEF StoreOK
<1> QED
  BY <1>1, PathIsSound, PTL

(* And whatever is read of it is right: a block whose files are all there   *)
(* expands, directories and all, to what its id names (read_block with      *)
(* ignore_blocks), so that its readers never run into themselves.           *)
THEOREM ReadsAreExact ==
    Spec => [](\A b \in Block : Readable(b) => StoredBytes(b) = Expand[b])
<1>1. ReceiverInv => \A b \in Block : Readable(b) => StoredBytes(b) = Expand[b]
  BY InvParts, StoredBytesFacts
<1> QED
  BY <1>1, PathIsSound, PTL

-----------------------------------------------------------------------------
(* No pointer without its block, where nothing is removed.                  *)

StoreHeld ==
    \A b \in Block : Exists(b) =>
        \A i \in 1..Len(store[b]) : store[b][i] \in Block => Exists(store[b][i])

(* What a file points to is stored, but for what is still being saved.      *)
FilesHeld ==
    \A k \in 1..Len(saving) : \A i \in 1..Len(saving[k].items) :
        saving[k].items[i] \in Block =>
            \/ Exists(saving[k].items[i])
            \/ k < Len(saving) /\ saving[k + 1].id = saving[k].items[i]

ObjectHeld ==
    rpc = "delivered" =>
        \A i \in DOMAIN object : object[i] \in Block => Exists(object[i])

HeldInv == ReceiverInv /\ StoreHeld /\ FilesHeld /\ ObjectHeld

LEMMA AllReadable ==
  ASSUME StoreOK, StoreHeld
  PROVE  \A b \in Block : Exists(b) => Readable(b)
<1> DEFINE T == {k \in Nat : \A b \in Block :
                    Exists(b) /\ Len(Expand[b]) < k => Readable(b)}
<1>1. 0 \in T
  BY ExpandType
<1>2. ASSUME NEW k \in Nat, k \in T PROVE k + 1 \in T
  <2> SUFFICES ASSUME NEW b \in Block, Exists(b), Len(Expand[b]) < k + 1
               PROVE  Readable(b)
    BY <1>2
  <2>1. DOMAIN store[b] = 1..Len(store[b])
    BY FormFacts
  <2>2. ASSUME NEW i \in 1..Len(store[b]), store[b][i] \in Block
        PROVE  Readable(store[b][i])
    <3>1. Exists(store[b][i])
      BY <2>2 DEF StoreHeld
    <3>2. Len(Expand[store[b][i]]) < Len(Expand[b])
      BY <2>2, PointersShorter
    <3>3. Len(Expand[store[b][i]]) < k
      BY <2>2, <3>2, ExpandType
    <3> QED
      BY <1>2, <2>2, <3>1, <3>3
  <2> QED
    BY <2>1, <2>2, ReadableFacts
<1>3. Nat \subseteq T
  <2> HIDE DEF T
  <2> QED
    BY <1>1, <1>2, NatSetInduction
<1>4. ASSUME NEW b \in Block, Exists(b) PROVE Readable(b)
  <2>1. Len(Expand[b]) + 1 \in T /\ Len(Expand[b]) < Len(Expand[b]) + 1
    BY <1>3, ExpandType
  <2> QED
    BY <1>4, <2>1
<1> QED
  BY <1>4

LEMMA HeldAtInit == Init => HeldInv
<1> SUFFICES ASSUME Init PROVE HeldInv
  OBVIOUS
<1>1. ReceiverInv /\ StoreOK
  BY ReceiverInit, StoreInit
<1>2. StoreHeld
  <2> SUFFICES ASSUME NEW b \in Block, Exists(b), NEW i \in 1..Len(store[b]),
                      store[b][i] \in Block
               PROVE  Exists(store[b][i])
    BY DEF StoreHeld
  <2>1. DOMAIN store[b] = 1..Len(store[b])
    BY <1>1, FormFacts
  <2> QED
    BY <2>1 DEF Init, StoresBefore, Exists
<1>3. FilesHeld /\ ObjectHeld
  <2>1. /\ Len(saving) = 1 /\ saving[1].items = <<>> /\ rpc = "idle"
        /\ Len(saving[1].items) = 0
    BY DEF Init, Empty
  <2> QED
    BY <2>1 DEF FilesHeld, ObjectHeld
<1> QED
  BY <1>1, <1>2, <1>3 DEF HeldInv

(* What comes to the innermost file is a piece or what is stored.           *)
LEMMA FeedHeld ==
  ASSUME SavingOK, FilesHeld, NEW items \in Seq(Item), NEW bytes \in Seq(Chunk),
         \A i \in 1..Len(items) : items[i] \in Block => Exists(items[i]),
         saving' = Fed(items, bytes), store' = store
  PROVE  FilesHeld'
<1> DEFINE n == Len(saving)
           fed == Fed(items, bytes)
<1>1. n \in Nat \ {0} /\ \A k \in 1..n : saving[k].items \in Seq(Item)
  BY SavingFacts
<1>2. /\ Len(fed) = n
      /\ \A k \in 1..n : fed[k].id = saving[k].id
      /\ \A k \in 1..(n - 1) : fed[k].items = saving[k].items
      /\ fed[n].items = saving[n].items \o items
  BY FedFacts
<1>3. saving' = fed /\ Len(saving') = n
  BY <1>2
<1> HIDE DEF fed
<1> SUFFICES ASSUME NEW k \in 1..n, NEW i \in 1..Len(fed[k].items),
                    fed[k].items[i] \in Block
             PROVE  \/ Exists(fed[k].items[i])
                    \/ k < n /\ fed[k + 1].id = fed[k].items[i]
  BY <1>3 DEF FilesHeld, Exists
<1>4. CASE k < n
  <2>1. k \in 1..(n - 1) /\ k + 1 \in 1..n
    BY <1>1, <1>4
  <2>2. fed[k].items = saving[k].items /\ fed[k + 1].id = saving[k + 1].id
    BY <1>2, <2>1
  <2> QED
    BY <1>4, <2>2 DEF FilesHeld
<1>5. CASE k = n
  <2>1. saving[n].items \in Seq(Item) /\ n \in 1..n
    BY <1>1
  <2> DEFINE old == saving[n].items
  <2>2. /\ Len(old) \in Nat /\ Len(items) \in Nat
        /\ Len(old \o items) = Len(old) + Len(items)
        /\ \A j \in 1..(Len(old) + Len(items)) :
              (old \o items)[j] = IF j <= Len(old) THEN old[j] ELSE items[j - Len(old)]
    BY <2>1, ConcatProperties
  <2>3. fed[k].items = old \o items
    BY <1>2, <1>5
  <2>4. \A j \in 1..Len(old) : old[j] \in Block => Exists(old[j])
    <3>1. n \in 1..Len(saving) /\ ~(n < Len(saving))
      BY <1>1
    <3> QED
      BY <3>1 DEF FilesHeld
  <2> HIDE DEF old
  <2>5. CASE i <= Len(old)
    BY <2>2, <2>3, <2>4, <2>5
  <2>6. CASE ~(i <= Len(old))
    <3>1. i - Len(old) \in 1..Len(items) /\ fed[k].items[i] = items[i - Len(old)]
      BY <2>2, <2>3, <2>6
    <3> QED
      BY <3>1
  <2> QED
    BY <2>5, <2>6
<1> QED
  BY <1>1, <1>4, <1>5

(* A pointer to the block that is saved next.                               *)
LEMMA OpenHeld ==
  ASSUME SavingOK, FilesHeld, NEW b \in Block,
         saving' = Append(Fed(<<b>>, <<>>), Empty(b)), store' = store
  PROVE  FilesHeld'
<1> DEFINE n == Len(saving)
           fed == Fed(<<b>>, <<>>)
           path == Append(fed, Empty(b))
<1>1. n \in Nat \ {0} /\ \A k \in 1..n : saving[k].items \in Seq(Item)
  BY SavingFacts
<1>2. <<b>> \in Seq(Item) /\ <<>> \in Seq(Chunk)
  BY DEF Item
<1>3. /\ fed \in Seq(Frame) /\ Len(fed) = n
      /\ \A k \in 1..n : fed[k].id = saving[k].id
      /\ \A k \in 1..(n - 1) : fed[k].items = saving[k].items
      /\ fed[n].items = saving[n].items \o <<b>>
  BY <1>2, FedFacts
<1>4. Empty(b) \in Frame /\ Empty(b).id = b /\ Empty(b).items = <<>>
  BY DEF Empty, Frame, Node
<1> HIDE DEF fed
<1>5. /\ Len(path) = n + 1 /\ path[n + 1] = Empty(b)
      /\ \A k \in 1..n : path[k] = fed[k]
  BY <1>3, <1>4, AppendProperties
<1>6. saving' = path /\ Len(saving') = n + 1
  BY <1>5 DEF fed
<1> HIDE DEF path
<1>7. \A b1 \in Block : Exists(b1)' <=> Exists(b1)
  BY DEF Exists
<1> SUFFICES ASSUME NEW k \in 1..(n + 1), NEW i \in 1..Len(path[k].items),
                    path[k].items[i] \in Block
             PROVE  \/ Exists(path[k].items[i])
                    \/ k < n + 1 /\ path[k + 1].id = path[k].items[i]
  BY <1>6, <1>7 DEF FilesHeld
<1>8. CASE k = n + 1
  <2>1. Len(path[k].items) = 0
    BY <1>4, <1>5, <1>8
  <2> QED
    BY <2>1
<1>9. CASE k < n
  <2>1. k \in 1..(n - 1) /\ k + 1 \in 1..n /\ k \in 1..n
    BY <1>1, <1>9
  <2>2. path[k].items = saving[k].items /\ path[k + 1].id = saving[k + 1].id
    BY <1>3, <1>5, <2>1
  <2> QED
    BY <1>9, <2>1, <2>2 DEF FilesHeld
<1>10. CASE k = n
  <2>1. saving[n].items \in Seq(Item) /\ n \in 1..n
    BY <1>1
  <2> DEFINE old == saving[n].items
  <2>2. /\ Len(old) \in Nat /\ Len(Append(old, b)) = Len(old) + 1
        /\ Append(old, b)[Len(old) + 1] = b
        /\ \A j \in 1..Len(old) : Append(old, b)[j] = old[j]
    BY <2>1, AppendProperties DEF Item
  <2>3. path[k].items = Append(old, b) /\ path[k + 1].id = b
    <3>1. old \o <<b>> = Append(old, b)
      BY <2>1, AppendFacts DEF Item
    <3> QED
      BY <1>3, <1>4, <1>5, <1>10, <2>1, <3>1
  <2>4. \A j \in 1..Len(old) : old[j] \in Block => Exists(old[j])
    <3>1. n \in 1..Len(saving) /\ ~(n < Len(saving))
      BY <1>1
    <3> QED
      BY <3>1 DEF FilesHeld
  <2> HIDE DEF old
  <2>5. i \in 1..Len(old) \/ i = Len(old) + 1
    BY <2>2, <2>3
  <2> QED
    BY <1>1, <1>10, <2>2, <2>3, <2>4, <2>5
<1> QED
  BY <1>1, <1>8, <1>9, <1>10

(* The innermost file is done, and its block is stored.                     *)
LEMMA CloseHeld ==
  ASSUME SavingOK, FilesHeld, Len(saving) > 1, saving' = Front(saving),
         \A b \in Block : Exists(b) => store'[b] # None,
         store'[Last(saving).id] # None
  PROVE  FilesHeld'
<1> DEFINE n == Len(saving)
<1>1. n \in Nat \ {0}
  BY SavingFacts
<1>2. Len(saving') = n - 1 /\ \A k \in 1..(n - 1) : saving'[k] = saving[k]
  BY FrontFacts DEF SavingOK
<1>3. Last(saving) = saving[n]
  BY SavingFacts
<1> SUFFICES ASSUME NEW k \in 1..(n - 1), NEW i \in 1..Len(saving[k].items),
                    saving[k].items[i] \in Block
             PROVE  \/ store'[saving[k].items[i]] # None
                    \/ k < n - 1 /\ saving'[k + 1].id = saving[k].items[i]
  BY <1>2 DEF FilesHeld, Exists
<1>4. /\ k \in 1..n
      /\ Exists(saving[k].items[i]) \/ saving[k + 1].id = saving[k].items[i]
  <2>1. k \in 1..n
    BY <1>1
  <2> QED
    BY <2>1 DEF FilesHeld
<1>5. CASE Exists(saving[k].items[i])
  BY <1>5
<1>6. CASE saving[k + 1].id = saving[k].items[i]
  <2>1. CASE k = n - 1
    <3>1. saving[k + 1] = Last(saving)
      BY <1>1, <1>3, <2>1
    <3> QED
      BY <1>6, <3>1
  <2>2. CASE k < n - 1
    <3>1. k + 1 \in 1..(n - 1)
      BY <1>1, <2>2
    <3> QED
      BY <1>2, <1>6, <2>2, <3>1
  <2> QED
    BY <1>1, <2>1, <2>2
<1> QED
  BY <1>4, <1>5, <1>6

LEMMA NothingMoves ==
  ASSUME StoreHeld, FilesHeld, UNCHANGED <<saving, store>>,
         rpc' = "delivered" => \/ rpc = "delivered" /\ ObjectHeld /\ object' = object
                               \/ Len(saving) = 1 /\ object' = saving[1].items
                                  /\ saving[1].items \in Seq(Item)
  PROVE  (StoreHeld /\ FilesHeld /\ ObjectHeld)'
<1>1. StoreHeld' /\ FilesHeld'
  BY DEF StoreHeld, FilesHeld, Exists
<1>2. ObjectHeld'
  <2> SUFFICES ASSUME rpc' = "delivered", NEW i \in DOMAIN object', object'[i] \in Block
               PROVE  Exists(object'[i])
    BY DEF ObjectHeld, Exists
  <2>1. CASE rpc = "delivered" /\ ObjectHeld /\ object' = object
    BY <2>1 DEF ObjectHeld
  <2>2. CASE Len(saving) = 1 /\ object' = saving[1].items
             /\ saving[1].items \in Seq(Item)
    <3>1. i \in 1..Len(saving[1].items) /\ 1 \in 1..Len(saving) /\ ~(1 < Len(saving))
      BY <2>2
    <3> QED
      BY <2>2, <3>1 DEF FilesHeld
  <2> QED
    BY <2>1, <2>2
<1> QED
  BY <1>1, <1>2

LEMMA ReceiverHolds ==
  HeldInv /\ ReceiverStep => (StoreHeld /\ FilesHeld /\ ObjectHeld)'
<1> SUFFICES ASSUME HeldInv, ReceiverStep
             PROVE  (StoreHeld /\ FilesHeld /\ ObjectHeld)'
  OBVIOUS
<1>1. TypeOK /\ StoreOK /\ SavingOK /\ BlocksOK /\ Closing /\ StoreHeld /\ FilesHeld
  BY InvParts DEF HeldInv
<1>2. Len(saving) \in Nat \ {0} /\ saving[1].items \in Seq(Item)
  <2>1. 1 \in 1..Len(saving)
    BY <1>1, SavingFacts
  <2> QED
    BY <1>1, <2>1, SavingFacts
<1>3. CASE Begin \/ TakeHead \/ TakeTooDeep \/ TakeCrossing \/ TakeError \/ TakeStart
           \/ TakeEnd \/ CloseContent
  <2>1. UNCHANGED <<saving, store>> /\ rpc' # "delivered"
    BY <1>3 DEF Begin, TakeHead, TakeTooDeep, TakeCrossing, TakeError, TakeStart, TakeEnd,
                CloseContent, Fails, Arrives
  <2> QED
    BY <1>1, <2>1, NothingMoves
<1>4. CASE TakeSeparator \/ TakeEof
  <2>1. UNCHANGED <<saving, store>>
    BY <1>4 DEF TakeSeparator, TakeEof
  <2>2. rpc' = "delivered" => Len(saving) = 1 /\ object' = saving[1].items
    <3>1. ~(Len(saving) > 1) => Len(saving) = 1
      <4>1. \A n \in Nat \ {0} : ~(n > 1) => n = 1
        OBVIOUS
      <4> QED
        BY <1>2, <4>1
    <3>2. CASE levels = 0
      <4>1. rpc = "read" /\ ~Exhausted /\ Deliver
        BY <1>4, <3>2 DEF TakeSeparator, TakeEof, Arrives
      <4> QED
        BY <3>1, <3>2, <4>1 DEF Exhausted, Deliver, Fails
    <3>3. CASE levels # 0
      BY <1>4, <3>3 DEF TakeSeparator, TakeEof, Arrives
    <3> QED
      BY <3>2, <3>3
  <2> QED
    BY <1>1, <1>2, <2>1, <2>2, NothingMoves
<1>5. ASSUME FilesHeld', store' = store, rpc' # "delivered"
      PROVE  (StoreHeld /\ FilesHeld /\ ObjectHeld)'
  BY <1>1, <1>5 DEF StoreHeld, ObjectHeld, Exists
<1>6. CASE TakeChunk
  <2>1. Arrived.val \in Chunk /\ Arrived.val \notin Block
    BY <1>1, <1>6, ArrivedFacts, ObjectsAssumption DEF TakeChunk, Arrives
  <2> DEFINE c == Arrived.val
  <2>2. <<c>> \in Seq(Item) /\ <<c>> \in Seq(Chunk) /\ \A i \in 1..1 : <<c>>[i] \notin Block
    BY <2>1 DEF Item
  <2>3. store' = store /\ rpc' # "delivered"
    BY <1>6 DEF TakeChunk, Arrives
  <2>4. saving' = saving \/ saving' = Fed(<<c>>, <<c>>)
    BY <1>6 DEF TakeChunk
  <2> HIDE DEF c
  <2>5. FilesHeld'
    <3>1. CASE saving' = saving
      BY <1>1, <2>3, <3>1 DEF FilesHeld, Exists
    <3>2. CASE saving' = Fed(<<c>>, <<c>>)
      BY <1>1, <2>2, <2>3, <3>2, FeedHeld
    <3> QED
      BY <2>4, <3>1, <3>2
  <2> QED
    BY <1>5, <2>3, <2>5
<1>7. CASE SaveOrDrain
  <2> DEFINE b == Last(blocks)
  <2>1. store' = store /\ rpc' # "delivered" /\ rpc = "second"
    BY <1>7 DEF SaveOrDrain
  <2>2. b \in Block
    <3>1. blocks # <<>> /\ blocks \in Seq(Block)
      <4>1. levels > 0
        BY <1>1, <2>1 DEF TypeOK, BlocksOK
      <4> QED
        BY <1>1, <4>1 DEF TypeOK
    <3> QED
      BY <3>1, FrontFacts
  <2>3. \/ Exists(b) /\ saving' = Fed(<<b>>, <<>>)
        \/ saving' = Append(Fed(<<b>>, <<>>), Empty(b))
    BY <1>7 DEF SaveOrDrain
  <2>4. <<b>> \in Seq(Item) /\ <<>> \in Seq(Chunk) /\ Len(<<b>>) = 1 /\ <<b>>[1] = b
    BY <2>2 DEF Item
  <2> HIDE DEF b
  <2>5. FilesHeld'
    <3>1. CASE Exists(b) /\ saving' = Fed(<<b>>, <<>>)
      <4>1. \A i \in 1..Len(<<b>>) : <<b>>[i] \in Block => Exists(<<b>>[i])
        BY <2>4, <3>1
      <4> QED
        BY <1>1, <2>1, <2>4, <3>1, <4>1, FeedHeld
    <3>2. CASE saving' = Append(Fed(<<b>>, <<>>), Empty(b))
      BY <1>1, <2>1, <2>2, <3>2, OpenHeld
    <3> QED
      BY <2>3, <3>1, <3>2
  <2> QED
    BY <1>5, <2>1, <2>5
<1>8. CASE CloseDrain
  <2>1. store' = store /\ rpc' # "delivered"
    BY <1>8 DEF CloseDrain, Fails
  <2>2. \/ saving' = saving
        \/ saving' = Fed(<<>>, StoredBytes(draining)) /\ draining \in Block
    BY <1>1, <1>8 DEF CloseDrain, TypeOK
  <2>3. FilesHeld'
    <3>1. CASE saving' = saving
      BY <1>1, <2>1, <3>1 DEF FilesHeld, Exists
    <3>2. CASE saving' = Fed(<<>>, StoredBytes(draining)) /\ draining \in Block
      <4>1. StoredBytes(draining) \in Seq(Chunk) /\ <<>> \in Seq(Item)
            /\ \A i \in 1..Len(<<>>) : FALSE
        BY <1>1, <3>2, StoredBytesFacts
      <4> QED
        BY <1>1, <2>1, <3>2, <4>1, FeedHeld
    <3> QED
      BY <2>2, <3>1, <3>2
  <2> QED
    BY <1>5, <2>1, <2>3
<1>9. CASE Publish
  <2>1. store' = store /\ rpc' # "delivered"
    BY <1>9 DEF Publish
  <2>2. \/ saving' = saving
        \/ saving' = Front(saving) /\ Exists(Last(saving).id) /\ Len(saving) > 1
    BY <1>1, <1>9 DEF Publish, Closing
  <2>3. FilesHeld'
    <3>1. CASE saving' = saving
      BY <1>1, <2>1, <3>1 DEF FilesHeld, Exists
    <3>2. CASE saving' = Front(saving) /\ Exists(Last(saving).id) /\ Len(saving) > 1
      BY <1>1, <2>1, <3>2, CloseHeld DEF Exists
    <3> QED
      BY <2>2, <3>1, <3>2
  <2> QED
    BY <1>5, <2>1, <2>3
<1>10. CASE Rename
  <2> DEFINE done == Last(saving)
             n    == Len(saving)
  <2>1. rpc' # "delivered" /\ n > 1
    BY <1>1, <1>10 DEF Rename, Fails, Closing
  <2>2. done = saving[n] /\ n \in 1..n /\ n \in 2..n /\ done.id \in Block
        /\ done.items \in Seq(Item)
    <3>1. done = saving[n] /\ n \in Nat \ {0}
      BY <1>1, SavingFacts
    <3>2. n \in 2..n /\ n \in 1..n
      BY <2>1, <3>1
    <3> QED
      BY <1>1, <3>1, <3>2, SavingFacts DEF SavingOK
  <2>3. \A i \in 1..Len(done.items) : done.items[i] \in Block => Exists(done.items[i])
    BY <1>1, <1>2, <2>2 DEF FilesHeld
  <2>4. \/ UNCHANGED <<saving, store>>
        \/ saving' = Front(saving) /\ store' = [store EXCEPT ![done.id] = done.items]
    BY <1>10 DEF Rename
  <2> HIDE DEF done, n
  <2>5. CASE UNCHANGED <<saving, store>>
    BY <1>1, <2>1, <2>5, NothingMoves
  <2>6. CASE saving' = Front(saving) /\ store' = [store EXCEPT ![done.id] = done.items]
    <3>1. \A c \in Block : store'[c] = IF c = done.id THEN done.items ELSE store[c]
      BY <1>1, <2>2, <2>6 DEF StoreOK
    <3>2. done.items # None
      BY <2>2, ReceiverAssumption
    <3>3. store'[done.id] # None /\ \A c \in Block : Exists(c) => store'[c] # None
      BY <2>2, <3>1, <3>2 DEF Exists
    <3>4. FilesHeld'
      BY <1>1, <2>1, <2>6, <3>3, CloseHeld DEF done, n
    <3>5. StoreHeld'
      BY <1>1, <2>3, <3>1, <3>3 DEF StoreHeld, Exists
    <3> QED
      BY <2>1, <3>4, <3>5 DEF ObjectHeld
  <2> QED
    BY <2>4, <2>5, <2>6
<1> QED
  BY <1>3, <1>4, <1>6, <1>7, <1>8, <1>9, <1>10 DEF ReceiverStep

(* Others store a directory after what it points to.                        *)
LEMMA OthersHold ==
  ASSUME HeldInv, NEW b \in Block, OtherStores(b)
  PROVE  (StoreHeld /\ FilesHeld /\ ObjectHeld)'
<1>1. StoreOK /\ StoreHeld /\ FilesHeld /\ ObjectHeld
  BY InvParts DEF HeldInv
<1>2. PICK form \in {Expand[b], Body[b]} :
         /\ store' = [store EXCEPT ![b] = form]
         /\ form = Body[b] /\ form # Expand[b] =>
               \A i \in DOMAIN form : form[i] \in Block => Exists(form[i])
  BY DEF OtherStores
<1>3. form \in Seq(Item)
  BY BuiltForms
<1>4. \A i \in 1..Len(form) : form[i] \in Block => Exists(form[i])
  <2>1. CASE form = Expand[b]
    <3>1. form \in Seq(Chunk)
      BY <2>1, ExpandType
    <3>2. \A i \in 1..Len(form) : form[i] \in Chunk
      BY <3>1, ElementOfSeq
    <3> QED
      BY <3>2, ObjectsAssumption
  <2>2. CASE form # Expand[b]
    BY <1>2, <1>3, <2>2
  <2> QED
    BY <2>1, <2>2
<1>5. \A c \in Block : store'[c] = IF c = b THEN form ELSE store[c]
  BY <1>1, <1>2 DEF StoreOK
<1>6. \A c \in Block : Exists(c) => Exists(c)'
  BY <1>3, <1>5, ReceiverAssumption DEF Exists
<1>7. StoreHeld'
  BY <1>1, <1>4, <1>5, <1>6 DEF StoreHeld, Exists
<1>8. saving' = saving /\ object' = object /\ rpc' = rpc
  BY DEF OtherStores
<1> HIDE DEF Exists
<1> QED
  BY <1>1, <1>6, <1>7, <1>8 DEF FilesHeld, ObjectHeld

LEMMA HeldAlways ==
  HeldInv /\ [Next]_vars /\ [~\E b \in Block : CleanUp(b)]_vars => HeldInv'
<1> SUFFICES ASSUME HeldInv, [Next]_vars, [~\E b \in Block : CleanUp(b)]_vars
             PROVE  HeldInv'
  OBVIOUS
<1>1. ReceiverInv'
  BY ReceiverNext DEF HeldInv
<1>2. CASE ReceiverStep
  BY <1>1, <1>2, ReceiverHolds DEF HeldInv
<1>3. CASE \E b \in Block : OtherStores(b)
  BY <1>1, <1>3, OthersHold DEF HeldInv
<1>4. CASE PeerSends \/ UNCHANGED vars
  <2>1. UNCHANGED <<saving, store, rpc, object>>
    BY <1>4 DEF PeerSends, vars
  <2> QED
    BY <1>1, <2>1 DEF HeldInv, StoreHeld, FilesHeld, ObjectHeld, Exists
<1> QED
  BY <1>2, <1>3, <1>4 DEF Next

(* Where nothing is removed, whatever a peer sends: every block a stored    *)
(* directory points to is stored and so on down, and so it is with what is  *)
(* handed over.  A pointer is written before its block is saved; a failure  *)
(* in between leaves it in no file that is kept.                            *)
THEOREM PointersStand ==
    Spec /\ [][~\E b \in Block : CleanUp(b)]_vars => []PointersHeld
<1>1. Spec /\ [][~\E b \in Block : CleanUp(b)]_vars => []HeldInv
  BY HeldAtInit, HeldAlways, PTL DEF Spec
<1>2. HeldInv => PointersHeld
  BY AllReadable, InvParts DEF HeldInv, ObjectHeld, PointersHeld
<1> QED
  BY <1>1, <1>2, PTL

-----------------------------------------------------------------------------
(* What the receiver has of each block, and what the stream has told of it: *)
(* the same, as long as nothing is removed from the store.                  *)

(* How deep the parser is in what is being saved, with no iterator open or  *)
(* with some: SavesWhatIsOpen speaks only of the latter.                    *)
Depth ==
    /\ rpc = "idle" => Len(saving) = 1 /\ draining = None
    /\ rpc \in {"read", "second", "close", "publish", "rename"} =>
          IF rpc = "read" /\ draining # None
            THEN Len(blocks) >= Len(saving) /\ blocks[Len(saving)] = draining
            ELSE Len(blocks) = OpenAt

(* What is drained or was asked for is stored, so that nothing is asked for *)
(* that is being saved.                                                     *)
Settled ==
    /\ draining # None => Exists(draining)
    /\ \A b \in asked : Exists(b)
    /\ \A i \in 2..Len(saving) : saving[i].id \notin asked

(* A block whose end has come has come in full.                             *)
Whole ==
    rpc = "close" /\ draining = None =>
        Last(saving).hashed = Expand[Last(saving).id]

Attends ==
    /\ ReceiverInv
    /\ StoreHeld
    /\ FilesHeld
    /\ levels = Len(blocks)
    /\ Depth
    /\ Settled
    /\ Whole

(* What has come of the i-th file, of those whose blocks the parser has     *)
(* open: its pointer goes in before the block behind it comes.              *)
Come(i) ==
    IF i - 1 = Len(blocks) \/ (rpc = "second" /\ i = Len(saving))
      THEN BytesOf(saving[i].items)
      ELSE BytesOf(Front(saving[i].items))

Listens(s) ==
    /\ s \in Hearing
    /\ s.open = blocks
    /\ \A i \in 2..Len(saving) : i - 1 <= Len(blocks) => s.fed[i - 1] = Come(i)
    /\ rpc = "second" => s.fed[Len(blocks)] = <<>>

(* Where the files stand to the open blocks at each step of the tower.      *)
LEMMA AttendFacts ==
  ASSUME Attends
  PROVE  /\ TypeOK /\ StoreOK /\ SavingOK /\ BlocksOK /\ Closing
         /\ rpc # "failed" => HashersFed
         /\ Len(saving) \in Nat \ {0}
         /\ blocks \in Seq(Block) /\ Len(blocks) \in Nat
         /\ \A i \in 1..Len(saving) : saving[i].items \in Seq(Item)
         /\ draining \in Block \cup {None}
         /\ rpc = "idle" => blocks = <<>> /\ Len(saving) = 1 /\ draining = None
         /\ rpc = "read" /\ draining = None => Len(blocks) = Len(saving) - 1
         /\ rpc = "read" /\ draining # None =>
               Len(blocks) >= Len(saving) /\ blocks[Len(saving)] = draining
         /\ rpc = "second" => Len(blocks) = Len(saving) /\ draining = None
         /\ rpc = "close" /\ draining # None => Len(blocks) = Len(saving) - 1
         /\ rpc \in {"publish", "rename"} \/ (rpc = "close" /\ draining = None) =>
               Len(blocks) = Len(saving) - 2 /\ Len(saving) > 1 /\ draining = None
         /\ ~Exhausted
         /\ rpc \in {"idle", "read", "second", "close", "publish", "rename"} =>
               \A i \in 2..Len(saving) :
                  i - 1 <= Len(blocks) => blocks[i - 1] = saving[i].id
<1>1. TypeOK /\ StoreOK /\ SavingOK /\ BlocksOK /\ Closing
      /\ (rpc # "failed" => HashersFed)
  BY InvParts DEF Attends
<1>2. /\ Len(saving) \in Nat \ {0}
      /\ \A i \in 1..Len(saving) : saving[i].items \in Seq(Item)
  BY <1>1, SavingFacts
<1>3. blocks \in Seq(Block) /\ Len(blocks) \in Nat /\ draining \in Block \cup {None}
      /\ levels = Len(blocks)
  BY <1>1 DEF TypeOK, Attends
<1>4. rpc = "idle" => blocks = <<>> /\ Len(saving) = 1 /\ draining = None
  BY <1>1, <1>3 DEF Attends, Depth, Closing, BlocksOK
<1>5. rpc = "second" => draining = None
  BY <1>1 DEF Closing
<1>6. rpc \in {"publish", "rename"} => draining = None
  BY <1>1 DEF Closing
<1>7. rpc = "read" /\ draining = None => Len(blocks) = Len(saving) - 1
  BY DEF Attends, Depth, OpenAt
<1>8. rpc = "read" /\ draining # None =>
               Len(blocks) >= Len(saving) /\ blocks[Len(saving)] = draining
  BY DEF Attends, Depth
<1>9. rpc = "second" => Len(blocks) = Len(saving)
  BY DEF Attends, Depth, OpenAt
<1>10. rpc = "close" /\ draining # None => Len(blocks) = Len(saving) - 1
  BY DEF Attends, Depth, OpenAt
<1>11. rpc \in {"publish", "rename"} \/ (rpc = "close" /\ draining = None) =>
               Len(blocks) = Len(saving) - 2 /\ Len(saving) > 1
  BY <1>2, <1>3, <1>6 DEF Attends, Depth, OpenAt
<1>12. ~Exhausted
  BY <1>2, <1>3, <1>7, <1>8 DEF Exhausted
<1>13. rpc \in {"idle", "read", "second", "close", "publish", "rename"} =>
               \A i \in 2..Len(saving) :
                  i - 1 <= Len(blocks) => blocks[i - 1] = saving[i].id
  <2>1. CASE levels = 0
    BY <1>2, <1>3, <2>1
  <2>2. CASE levels # 0
    BY <1>1, <1>2, <1>3, <1>4, <2>2 DEF BlocksOK
  <2> QED
    BY <2>1, <2>2
<1> QED
  BY <1>1, <1>2, <1>3, <1>4, <1>5, <1>6, <1>7, <1>8, <1>9, <1>10, <1>11, <1>12, <1>13

-----------------------------------------------------------------------------
(* The head of the stream is taken, and what it tells is taken in.          *)
Takes(s) ==
    /\ wire # <<>>
    /\ wire' = Tail(wire)
    /\ \A u \in Hearing : Hears(asked, s, Head(wire), u) => Listens(u)'

LEMMA StartHears ==
  ASSUME Attends, TakeStart, NEW s, Listens(s)
  PROVE  Depth' /\ Settled' /\ Whole' /\ Takes(s)
<1> DEFINE n == Len(saving)
           m == Len(blocks)
           b == Arrived.val
<1>1. /\ rpc = "read" /\ wire # <<>> /\ wire' = Tail(wire)
      /\ Head(wire).kind = "block" /\ b \notin ToSet(blocks)
      /\ blocks' = Append(blocks, b) /\ saving' = saving /\ draining' = draining
      /\ store' = store /\ rpc' = (IF draining = None THEN "second" ELSE "read")
  BY DEF TakeStart, Arrives, Take, Arrived
<1>2. /\ TypeOK /\ n \in Nat \ {0} /\ blocks \in Seq(Block) /\ m \in Nat
      /\ draining \in Block \cup {None}
      /\ draining = None => m = n - 1
      /\ draining # None => m >= n /\ blocks[n] = draining
      /\ \A i \in 2..n : i - 1 <= m => blocks[i - 1] = saving[i].id
  BY <1>1, AttendFacts
<1>3. b \in Block
  BY <1>1, <1>2, ArrivedFacts DEF Arrived
<1>4. /\ Len(blocks') = m + 1 /\ blocks'[m + 1] = b
      /\ \A i \in 1..m : blocks'[i] = blocks[i]
  BY <1>1, <1>2, <1>3, AppendProperties
<1>5. \A i \in 1..m : blocks[i] # b
  BY <1>1, <1>2 DEF ToSet
<1>6. Depth'
  <2>1. CASE draining = None
    BY <1>1, <1>2, <1>4, <2>1 DEF Depth, OpenAt
  <2>2. CASE draining # None
    <3>1. n \in 1..m
      BY <1>2, <2>2
    <3> QED
      BY <1>1, <1>2, <1>4, <2>2, <3>1 DEF Depth, OpenAt
  <2> QED
    BY <2>1, <2>2
<1>7. Settled'
  <2>1. asked' = asked \/ (asked' = asked \cup {b} /\ Exists(b))
    BY DEF TakeStart, Request, requestVars
  <2>2. \A i \in 2..n : saving[i].id # b
    <3> SUFFICES ASSUME NEW i \in 2..n PROVE saving[i].id # b
      OBVIOUS
    <3>1. i - 1 \in 1..m
      BY <1>2
    <3> QED
      BY <1>2, <1>5, <3>1
  <2>3. Settled
    BY DEF Attends
  <2> QED
    BY <1>1, <2>1, <2>2, <2>3 DEF Settled, Exists
<1>8. Whole'
  BY <1>1 DEF Whole
<1>9. ASSUME NEW u \in Hearing, Hears(asked, s, Head(wire), u)
      PROVE  Listens(u)'
  <2>1. /\ s.open = blocks
        /\ \A i \in 2..n : i - 1 <= m => s.fed[i - 1] = Come(i)
    BY DEF Listens
  <2>2. \A i \in 1..m : s.open[i] # b
    BY <1>5, <2>1
  <2>3. StartHeard(s, Head(wire), u)
    <3>1. ~PieceHeard(s, Head(wire), u) /\ ~OtherHeard(s, Head(wire), u)
      BY <1>1 DEF PieceHeard, OtherHeard
    <3>2. ~EndHeard(asked, s, Head(wire), u)
      <4> SUFFICES ASSUME EndHeard(asked, s, Head(wire), u) PROVE FALSE
        OBVIOUS
      <4>1. s.open # <<>> /\ s.open[Len(s.open)] = b
        BY DEF EndHeard, Arrived
      <4>2. Len(s.open) \in 1..m
        BY <1>2, <2>1, <4>1, EmptySeq
      <4> QED
        BY <2>1, <2>2, <4>1, <4>2
    <3> QED
      BY <1>9, <3>1, <3>2 DEF Hears
  <2>4. /\ u.open = Append(blocks, b)
        /\ \A i \in 1..m : u.fed[i] = s.fed[i]
        /\ u.fed[m + 1] = <<>>
    BY <2>1, <2>3 DEF StartHeard, Arrived
  <2>5. ASSUME NEW i \in 2..n, i - 1 <= m + 1
        PROVE  u.fed[i - 1] = Come(i)'
    <3>1. i - 1 \in 1..m
      BY <1>2
    <3>2. u.fed[i - 1] = Come(i)
      BY <2>1, <2>4, <3>1
    <3>3. Come(i)' = Come(i)
      <4>1. CASE draining = None
        <5>1. /\ rpc' = "second" /\ rpc # "second" /\ m = n - 1
          BY <1>1, <1>2, <4>1
        <5>2. i - 1 = m <=> i = n
          BY <1>2, <5>1
        <5>3. i - 1 # m + 1
          BY <3>1, <1>2
        <5> QED
          BY <1>1, <1>4, <5>1, <5>2, <5>3 DEF Come
      <4>2. CASE draining # None
        <5>1. /\ rpc' # "second" /\ rpc # "second" /\ m >= n
          BY <1>1, <1>2, <4>2
        <5>2. i - 1 # m
          BY <1>2, <5>1
        <5>3. i - 1 # m + 1
          BY <3>1, <1>2
        <5> QED
          BY <1>1, <1>4, <5>1, <5>2, <5>3 DEF Come
      <4> QED
        BY <4>1, <4>2
    <3> QED
      BY <3>2, <3>3
  <2> QED
    BY <1>1, <1>4, <2>4, <2>5 DEF Listens
<1> QED
  BY <1>1, <1>6, <1>7, <1>8, <1>9 DEF Takes

LEMMA SaveOrDrainHears ==
  ASSUME Attends, SaveOrDrain, NEW s, Listens(s)
  PROVE  Depth' /\ Settled' /\ Whole' /\ wire' = wire /\ Listens(s)'
<1> DEFINE n == Len(saving)
           m == Len(blocks)
           b == Last(blocks)
           pointed == Fed(<<b>>, <<>>)
<1>1. /\ rpc = "second" /\ rpc' = "read" /\ wire' = wire
      /\ UNCHANGED <<blocks, store, asked>>
      /\ \/ Exists(b) /\ saving' = pointed /\ draining' = b
         \/ ~Exists(b) /\ saving' = Append(pointed, Empty(b)) /\ draining' = draining
  BY DEF SaveOrDrain, parserVars, requestVars
<1>2. /\ SavingOK /\ HashersFed
      /\ n \in Nat \ {0} /\ blocks \in Seq(Block) /\ m = n
      /\ draining = None
      /\ \A i \in 1..n : saving[i].items \in Seq(Item)
  BY <1>1, AttendFacts
<1>3. b \in Block /\ b = blocks[n]
  <2>1. blocks # <<>>
    BY <1>2, EmptySeq
  <2> QED
    BY <1>2, <2>1, FrontFacts
<1>4. /\ pointed \in Seq(Frame) /\ Len(pointed) = n
      /\ \A i \in 1..n : pointed[i].id = saving[i].id
      /\ \A i \in 1..(n - 1) : pointed[i].items = saving[i].items
      /\ pointed[n].items = Append(saving[n].items, b)
  BY <1>2, <1>3, Point
<1>5. Empty(b) \in Frame /\ Empty(b).id = b /\ Empty(b).items = <<>>
  BY <1>3 DEF Empty, Frame, Node
<1> HIDE DEF pointed
<1>6. b # None
  BY <1>3, ObjectsAssumption DEF Node
<1>7. /\ ~Exists(b) => /\ Len(saving') = n + 1 /\ saving'[n + 1] = Empty(b)
                       /\ \A i \in 1..n : saving'[i] = pointed[i]
                       /\ draining' = None
      /\ Exists(b) => saving' = pointed /\ draining' = b
  <2>1. PICK o : o = Append(pointed, Empty(b))
    OBVIOUS
  <2>2. /\ Len(o) = n + 1 /\ o[n + 1] = Empty(b)
        /\ \A i \in 1..n : o[i] = pointed[i]
    BY <1>4, <1>5, <2>1, AppendProperties
  <2>3. CASE Exists(b)
    BY <1>1, <2>3, Zenon
  <2>4. CASE ~Exists(b)
    BY <1>1, <1>2, <2>1, <2>2, <2>4, Zenon
  <2> QED
    BY <2>3, <2>4
<1> HIDE DEF b
<1>8. Depth'
  BY <1>1, <1>2, <1>3, <1>4, <1>6, <1>7 DEF Depth, OpenAt
<1>9. Settled'
  <2>1. Settled
    BY DEF Attends
  <2>2. ASSUME NEW i \in 2..Len(saving') PROVE saving'[i].id \notin asked
    <3>1. CASE i \in 2..n
      BY <1>1, <1>2, <1>4, <1>7, <2>1, <3>1 DEF Settled
    <3>2. CASE i \notin 2..n
      <4>1. ~Exists(b) /\ saving'[i].id = b
        BY <1>2, <1>4, <1>5, <1>7, <2>2, <3>2
      <4> QED
        BY <2>1, <4>1 DEF Settled
    <3> QED
      BY <3>1, <3>2
  <2> QED
    BY <1>1, <1>7, <2>1, <2>2 DEF Settled, Exists
<1>10. Whole'
  BY <1>1 DEF Whole
<1>11. /\ s \in Hearing /\ s.open = blocks /\ s.fed[n] = <<>>
       /\ \A i \in 2..n : s.fed[i - 1] = Come(i)
  BY <1>1, <1>2 DEF Listens
<1>12. ASSUME NEW i \in 2..Len(saving'), i - 1 <= n
       PROVE  s.fed[i - 1] = Come(i)'
  <2>1. CASE i \in 2..(n - 1)
    <3>1. saving'[i].items = saving[i].items
      <4>1. i \in 1..(n - 1) /\ i \in 1..n
        BY <1>2, <2>1
      <4>2. saving'[i] = pointed[i]
        BY <1>7, <4>1
      <4> QED
        BY <1>4, <4>1, <4>2
    <3>2. i - 1 # n /\ i # n
      BY <1>2, <2>1
    <3> QED
      BY <1>1, <1>2, <1>11, <2>1, <3>1, <3>2 DEF Come
  <2>2. CASE i = n
    <3>1. saving'[i].items = Append(saving[n].items, b)
      BY <1>1, <1>2, <1>4, <1>7, <2>2
    <3>2. Front(saving'[i].items) = saving[n].items
      BY <1>2, <1>3, <3>1, AppendFacts DEF Item
    <3>3. Come(i) = BytesOf(saving[n].items)
      BY <1>1, <2>2 DEF Come
    <3>4. Come(i)' = BytesOf(Front(saving'[i].items))
      BY <1>1, <1>2, <2>2 DEF Come
    <3> QED
      BY <1>2, <1>11, <2>2, <1>12, <3>2, <3>3, <3>4
  <2>3. CASE i = n + 1
    <3>1. saving'[i] = Empty(b)
      BY <1>1, <1>2, <1>4, <1>7, <1>12, <2>3
    <3>2. Come(i)' = BytesOf(<<>>)
      BY <1>1, <1>2, <1>5, <2>3, <3>1 DEF Come
    <3> QED
      BY <1>2, <1>11, <2>3, <3>2, BytesOfFacts
  <2> QED
    BY <1>2, <1>12, <2>1, <2>2, <2>3
<1>13. Listens(s)'
  BY <1>1, <1>2, <1>11, <1>12 DEF Listens
<1> QED
  BY <1>1, <1>8, <1>9, <1>10, <1>13

LEMMA ChunkHears ==
  ASSUME Attends, TakeChunk, NEW s, Listens(s)
  PROVE  Depth' /\ Settled' /\ Whole' /\ Takes(s)
<1> DEFINE n == Len(saving)
           m == Len(blocks)
           c == Arrived.val
<1>1. /\ rpc = "read" /\ rpc' = "read" /\ wire # <<>> /\ wire' = Tail(wire)
      /\ Head(wire).kind = "chunk" /\ Head(wire).val = c
      /\ UNCHANGED <<blocks, draining, store, asked>>
      /\ saving' = IF draining = None THEN Fed(<<c>>, <<c>>) ELSE saving
  BY DEF TakeChunk, Arrives, Take, Arrived, parserVars, requestVars
<1>2. /\ TypeOK /\ SavingOK /\ n \in Nat \ {0} /\ blocks \in Seq(Block) /\ m \in Nat
      /\ draining = None => m = n - 1
      /\ draining # None => m >= n /\ blocks[n] = draining
      /\ \A i \in 1..n : saving[i].items \in Seq(Item)
  BY <1>1, AttendFacts
<1>3. c \in Chunk
  BY <1>1, <1>2, ArrivedFacts DEF Arrived
<1> HIDE DEF c
<1>4. <<c>> \in Seq(Item) /\ <<c>> \in Seq(Chunk)
  BY <1>3 DEF Item
<1>5. /\ Len(saving') = n
      /\ \A i \in 1..n : saving'[i].id = saving[i].id
      /\ \A i \in 1..(n - 1) : saving'[i].items = saving[i].items
      /\ draining = None => saving'[n].items = Append(saving[n].items, c)
      /\ draining # None => saving' = saving
  <2>1. CASE draining = None
    <3>1. n \in 1..n /\ saving[n].items \in Seq(Item)
      BY <1>2
    <3>2. saving[n].items \o <<c>> = Append(saving[n].items, c)
      BY <1>3, <3>1, AppendFacts DEF Item
    <3> QED
      BY <1>1, <1>2, <1>4, <2>1, <3>2, FedFacts
  <2>2. CASE draining # None
    BY <1>1, <2>2
  <2> QED
    BY <2>1, <2>2
<1>6. Depth'
  BY <1>1, <1>2, <1>5 DEF Depth, OpenAt
<1>7. Settled'
  <2>1. Settled
    BY DEF Attends
  <2>2. \A i \in 2..n : saving'[i].id = saving[i].id
    BY <1>2, <1>5
  <2> QED
    BY <1>1, <1>5, <2>1, <2>2 DEF Settled, Exists
<1>8. Whole'
  BY <1>1 DEF Whole
<1>9. ASSUME NEW u \in Hearing, Hears(asked, s, Head(wire), u)
      PROVE  Listens(u)'
  <2>1. /\ s.open = blocks
        /\ \A i \in 2..n : i - 1 <= m => s.fed[i - 1] = Come(i)
    BY DEF Listens
  <2>2. PieceHeard(s, Head(wire), u)
    BY <1>1, <1>9 DEF Hears, StartHeard, EndHeard, OtherHeard
  <2>3. /\ u.open = blocks
        /\ \A i \in 1..m : i # m => u.fed[i] = s.fed[i]
        /\ m \in 1..m => u.fed[m] = Append(s.fed[m], c)
    BY <1>1, <2>1, <2>2 DEF PieceHeard
  <2>4. ASSUME NEW i \in 2..n, i - 1 <= m
        PROVE  u.fed[i - 1] = Come(i)'
    <3>1. i - 1 \in 1..m /\ i \in 1..n
      BY <1>2, <2>4
    <3>2. s.fed[i - 1] = Come(i)
      BY <2>1, <2>4
    <3>3. CASE i - 1 # m
      <4>1. u.fed[i - 1] = s.fed[i - 1]
        BY <2>3, <3>1, <3>3
      <4>2. saving'[i].items = saving[i].items
        <5>1. CASE draining = None
          <6>1. i \in 1..(n - 1)
            BY <1>2, <3>1, <3>3, <5>1
          <6> QED
            BY <1>5, <6>1
        <5>2. CASE draining # None
          BY <1>5, <5>2
        <5> QED
          BY <5>1, <5>2
      <4> QED
        BY <1>1, <3>2, <3>3, <4>1, <4>2 DEF Come
    <3>4. CASE i - 1 = m
      <4>1. draining = None /\ i = n
        BY <1>2, <3>4
      <4>2. s.fed[m] = BytesOf(saving[n].items)
        BY <3>2, <3>4, <4>1 DEF Come
      <4>3. u.fed[m] = Append(s.fed[m], c)
        BY <2>3, <3>1, <3>4
      <4>4. Come(i)' = BytesOf(saving'[n].items)
        BY <1>1, <3>4, <4>1 DEF Come
      <4>5. saving[n].items \in Seq(Item) /\ saving'[n].items = Append(saving[n].items, c)
        BY <1>2, <1>5, <3>1, <4>1
      <4>6. BytesOf(Append(saving[n].items, c)) = Append(BytesOf(saving[n].items), c)
        BY <1>3, <4>5, BytesOfFacts
      <4> QED
        BY <3>4, <4>2, <4>3, <4>4, <4>5, <4>6
    <3> QED
      BY <3>3, <3>4
  <2> QED
    BY <1>1, <1>5, <2>3, <2>4 DEF Listens
<1> QED
  BY <1>1, <1>6, <1>7, <1>8, <1>9 DEF Takes

(* The innermost block that the reader has open ends.                       *)
LEMMA EndHears ==
  ASSUME Attends, TakeEnd, NEW s, Listens(s), NEW u0, Hears(asked, s, Head(wire), u0)
  PROVE  Depth' /\ Settled' /\ Whole' /\ Takes(s)
<1> DEFINE n == Len(saving)
           m == Len(blocks)
           b == Arrived.val
<1>1. /\ rpc = "read" /\ wire # <<>> /\ wire' = Tail(wire)
      /\ Head(wire).kind = "block" /\ Head(wire).val = b /\ Last(blocks) = b
      /\ UNCHANGED <<saving, draining, store, asked>>
      /\ blocks' = IF levels = 1 THEN <<>> ELSE Front(blocks)
      /\ rpc' = IF draining \in {None, b} THEN "close" ELSE "read"
  BY DEF TakeEnd, LevelEnds, Arrives, Take, Arrived, requestVars
<1>2. b \in ToSet(blocks)
  BY DEF TakeEnd
<1> HIDE DEF b
<1>3. /\ SavingOK /\ BlocksOK /\ HashersFed
      /\ n \in Nat \ {0} /\ blocks \in Seq(Block) /\ m \in Nat /\ levels = m
      /\ draining = None => m = n - 1
      /\ draining # None => m >= n /\ blocks[n] = draining
      /\ draining \in Block \cup {None}
      /\ \A i \in 1..n : saving[i].items \in Seq(Item)
      /\ \A i \in 2..n : i - 1 <= m => blocks[i - 1] = saving[i].id
  BY <1>1, AttendFacts DEF Attends
<1>4. blocks # <<>> /\ m > 0 /\ b \in Block /\ b = blocks[m]
  <2>1. blocks # <<>>
    BY <1>2, EmptySeq DEF ToSet
  <2>2. m > 0
    BY <1>3, <2>1, EmptySeq
  <2> QED
    BY <1>1, <1>3, <2>1, <2>2, FrontFacts
<1>5. /\ blocks' \in Seq(Block) /\ Len(blocks') = m - 1
      /\ \A i \in 1..(m - 1) : blocks'[i] = blocks[i]
  <2>1. /\ Front(blocks) \in Seq(Block) /\ Len(Front(blocks)) = m - 1
        /\ \A i \in 1..(m - 1) : Front(blocks)[i] = blocks[i]
    BY <1>3, <1>4, FrontFacts
  <2>2. m = 1 => Front(blocks) = <<>>
    BY <2>1, EmptySeq
  <2>3. blocks' = Front(blocks)
    BY <1>1, <1>3, <2>2
  <2> QED
    BY <2>1, <2>3
<1>6. None \notin Block
  BY ObjectsAssumption DEF Node
<1>7. draining = b => m = n
  <2>1. \A i, j \in 1..m : i < j => blocks[i] # blocks[j]
    BY <1>3 DEF BlocksOK
  <2> SUFFICES ASSUME draining = b, m # n PROVE FALSE
    OBVIOUS
  <2>2. n \in 1..m /\ m \in 1..m /\ n < m /\ blocks[n] = blocks[m]
    BY <1>3, <1>4, <1>6
  <2> QED
    BY <2>1, <2>2
<1>8. draining # None /\ draining # b => m > n
  BY <1>3, <1>4
<1>9. Depth'
  <2>1. CASE draining = None
    BY <1>1, <1>3, <1>5, <2>1 DEF Depth, OpenAt
  <2>2. CASE draining = b
    BY <1>1, <1>3, <1>4, <1>5, <1>6, <1>7, <2>2 DEF Depth, OpenAt
  <2>3. CASE draining # None /\ draining # b
    <3>1. n \in 1..(m - 1)
      BY <1>3, <1>8, <2>3
    <3> QED
      BY <1>1, <1>3, <1>5, <2>3, <3>1 DEF Depth, OpenAt
  <2> QED
    BY <2>1, <2>2, <2>3
<1>10. Settled'
  <2>1. Settled
    BY DEF Attends
  <2> QED
    BY <1>1, <2>1 DEF Settled, Exists
<1>11. /\ s \in Hearing /\ s.open = blocks
       /\ \A i \in 2..n : i - 1 <= m => s.fed[i - 1] = Come(i)
  BY DEF Listens
<1>12. ASSUME NEW u, Hears(asked, s, Head(wire), u)
       PROVE  EndHeard(asked, s, Head(wire), u)
  <2>1. ~StartHeard(s, Head(wire), u)
    <3> SUFFICES ASSUME StartHeard(s, Head(wire), u) PROVE FALSE
      OBVIOUS
    <3>1. \A i \in 1..m : blocks[i] # b
      BY <1>1, <1>11 DEF StartHeard
    <3> QED
      BY <1>3, <1>4, <3>1
  <2> QED
    BY <1>1, <1>12, <2>1 DEF Hears, PieceHeard, OtherHeard
<1>13. \A i \in 2..n : FedAt(saving, draining, i)
  BY <1>3, HashersFedIs
<1>14. Whole'
  <2> SUFFICES ASSUME draining = None PROVE Last(saving).hashed = Expand[Last(saving).id]
    BY <1>1 DEF Whole
  <2>1. n \in 2..n /\ n - 1 = m /\ n \in 1..n
    BY <1>3, <1>4
  <2>2. saving[n].hashed = BytesOf(saving[n].items)
    <3>1. FedAt(saving, None, n) /\ ~(n < Len(saving))
      BY <1>3, <1>13, <2>1
    <3> QED
      BY <3>1 DEF FedAt
  <2>3. s.fed[m] = BytesOf(saving[n].items)
    BY <1>1, <1>11, <2>1 DEF Come
  <2>4. \A i \in 1..m : blocks[i] \notin asked
    <3> SUFFICES ASSUME NEW i \in 1..m PROVE blocks[i] \notin asked
      OBVIOUS
    <3>1. i + 1 \in 2..n /\ i = (i + 1) - 1 /\ i <= m
      BY <1>3, <2>1
    <3>2. blocks[i] = saving[i + 1].id
      BY <1>3, <3>1
    <3> QED
      BY <3>1, <3>2 DEF Attends, Settled
  <2>5. s.fed[m] = Expand[b]
    BY <1>1, <1>11, <1>12, <2>4 DEF EndHeard
  <2>6. Last(saving) = saving[n] /\ saving[n].id = b
    BY <1>3, <1>4, <2>1, SavingFacts
  <2> QED
    BY <2>2, <2>3, <2>5, <2>6
<1>15. ASSUME NEW u \in Hearing, Hears(asked, s, Head(wire), u)
       PROVE  Listens(u)'
  <2>1. /\ u.open = SubSeq(blocks, 1, m - 1)
        /\ \A i \in 1..(m - 1) : i # m - 1 => u.fed[i] = s.fed[i]
        /\ m - 1 \in 1..(m - 1) => u.fed[m - 1] = s.fed[m - 1] \o Expand[b]
    <3>1. EndHeard(asked, s, Head(wire), u)
      BY <1>12, <1>15
    <3> QED
      BY <1>1, <1>11, <3>1 DEF EndHeard
  <2>2. u.open = blocks'
    <3>1. /\ SubSeq(blocks, 1, m - 1) \in Seq(Block)
          /\ Len(SubSeq(blocks, 1, m - 1)) = m - 1
          /\ \A i \in 1..(m - 1) : SubSeq(blocks, 1, m - 1)[i] = blocks[i]
      <4>1. m - 1 \in 0..m
        BY <1>3, <1>4
      <4> QED
        BY <1>3, <4>1, FirstFacts
    <3> QED
      BY <1>5, <2>1, <3>1, SeqEqual
  <2>3. ASSUME NEW i \in 2..n, i - 1 <= m - 1
        PROVE  u.fed[i - 1] = Come(i)'
    <3>1. i - 1 \in 1..(m - 1) /\ i - 1 # m /\ i - 1 <= m /\ i \in 1..n
      BY <1>3, <2>3
    <3>2. s.fed[i - 1] = BytesOf(Front(saving[i].items))
      BY <1>1, <1>11, <3>1 DEF Come
    <3>3. CASE i - 1 # m - 1
      <4>1. Come(i)' = BytesOf(Front(saving[i].items))
        BY <1>1, <1>5, <3>3 DEF Come
      <4> QED
        BY <2>1, <3>1, <3>2, <3>3, <4>1
    <3>4. CASE i - 1 = m - 1
      <4>1. i = m /\ m <= n
        BY <1>3, <3>4
      <4>2. saving[i].items # <<>> /\ Last(saving[i].items) = b
        <5>1. CASE draining = None
          <6>1. i < n /\ i + 1 \in 2..n /\ i = (i + 1) - 1
            BY <1>3, <4>1, <5>1
          <6>2. b = saving[i + 1].id
            BY <1>3, <1>4, <4>1, <6>1
          <6> QED
            BY <1>13, <6>1, <6>2 DEF FedAt
        <5>2. CASE draining # None
          <6>1. i = n /\ draining = b
            BY <1>3, <1>7, <1>8, <4>1, <5>2
          <6> QED
            <7>1. FedAt(saving, b, n) /\ ~(n < Len(saving)) /\ b # None
              BY <1>3, <1>13, <5>2, <6>1
            <7> QED
              BY <6>1, <7>1 DEF FedAt
        <5> QED
          BY <5>1, <5>2
      <4>3. saving[i].items \in Seq(Item)
        BY <1>3, <3>1
      <4>4. Front(saving[i].items) \in Seq(Item)
            /\ saving[i].items = Append(Front(saving[i].items), b)
        BY <4>2, <4>3, FrontFacts
      <4>5. BytesOf(saving[i].items) = BytesOf(Front(saving[i].items)) \o Expand[b]
        <5>1. \A f \in Seq(Item) : BytesOf(Append(f, b)) = BytesOf(f) \o Expand[b]
          BY <1>4, BytesOfFacts
        <5> QED
          BY <4>4, <5>1
      <4>6. Come(i)' = BytesOf(saving[i].items)
        BY <1>1, <1>5, <3>4 DEF Come
      <4> QED
        BY <2>1, <3>1, <3>2, <3>4, <4>5, <4>6
    <3> QED
      BY <3>3, <3>4
  <2>4. rpc' # "second"
    BY <1>1
  <2> QED
    BY <1>1, <1>5, <1>15, <2>2, <2>3, <2>4 DEF Listens
<1> QED
  BY <1>1, <1>9, <1>10, <1>14, <1>15 DEF Takes

(* Nothing that is written points to what is not stored.                    *)
LEMMA NothingMissing ==
  ASSUME Attends
  PROVE  /\ draining # None => Readable(draining)
         /\ ~WbpFails(Last(saving).items)
<1>1. /\ StoreOK /\ SavingOK /\ StoreHeld /\ FilesHeld /\ Settled
      /\ draining \in Block \cup {None} /\ Len(saving) \in Nat \ {0}
  BY AttendFacts DEF Attends
<1>2. \A b \in Block : Exists(b) => Readable(b)
  BY <1>1, AllReadable
<1>3. draining # None => Readable(draining)
  BY <1>1, <1>2 DEF Settled
<1>4. ASSUME NEW i \in DOMAIN Last(saving).items, Last(saving).items[i] \in Block
      PROVE  Readable(Last(saving).items[i])
  <2> DEFINE n == Len(saving)
  <2>1. Last(saving) = saving[n] /\ n \in 1..n /\ ~(n < Len(saving))
        /\ saving[n].items \in Seq(Item)
    BY <1>1, SavingFacts
  <2>2. i \in 1..Len(saving[n].items)
    BY <2>1
  <2>3. Exists(saving[n].items[i])
    BY <1>1, <1>4, <2>1, <2>2 DEF FilesHeld
  <2> QED
    BY <1>2, <1>4, <2>1, <2>3
<1> QED
  BY <1>3, <1>4 DEF WbpFails

(* What a reader has been told stays in step while nothing is read.         *)
LEMMA StillListens ==
  ASSUME NEW s, Listens(s), rpc # "second", rpc' # "second", blocks' = blocks,
         Len(saving) \in Nat, Len(saving') \in Nat, Len(saving') <= Len(saving),
         \A i \in 1..Len(saving') : saving'[i].items = saving[i].items
  PROVE  Listens(s)'
<1>1. /\ s \in Hearing /\ s.open = blocks
      /\ \A i \in 2..Len(saving) : i - 1 <= Len(blocks) => s.fed[i - 1] = Come(i)
  BY DEF Listens
<1>2. ASSUME NEW i \in 2..Len(saving'), i - 1 <= Len(blocks)
      PROVE  s.fed[i - 1] = Come(i)'
  <2>1. i \in 2..Len(saving) /\ i \in 1..Len(saving')
    OBVIOUS
  <2>2. Come(i)' = Come(i)
    BY <2>1 DEF Come
  <2> QED
    BY <1>1, <1>2, <2>1, <2>2
<1> QED
  BY <1>1, <1>2 DEF Listens

LEMMA DrainEndHears ==
  ASSUME Attends, CloseDrain, NEW s, Listens(s)
  PROVE  /\ cause' = cause
         /\ Depth' /\ Settled' /\ Whole' /\ wire' = wire /\ Listens(s)'
<1> DEFINE n == Len(saving)
           m == Len(blocks)
<1>1. /\ rpc = "close" /\ draining # None /\ ~Exhausted
      /\ SavingOK /\ StoreOK /\ n \in Nat \ {0} /\ m = n - 1 /\ draining \in Block
  BY AttendFacts DEF CloseDrain
<1>2. Readable(draining)
  BY <1>1, NothingMissing
<1>3. /\ rpc' = "read" /\ draining' = None /\ wire' = wire /\ cause' = cause
      /\ UNCHANGED <<blocks, store, asked>>
      /\ saving' = saving \/ saving' = Fed(<<>>, StoredBytes(draining))
  BY <1>1, <1>2 DEF CloseDrain, Fails, parserVars, requestVars
<1>4. /\ Len(saving') = n
      /\ \A i \in 1..n : saving'[i].items = saving[i].items /\ saving'[i].id = saving[i].id
  <2>1. CASE saving' = saving
    BY <2>1
  <2>2. CASE saving' = Fed(<<>>, StoredBytes(draining))
    <3>1. <<>> \in Seq(Item) /\ StoredBytes(draining) \in Seq(Chunk)
      BY <1>1, StoredBytesFacts
    <3>2. n \in 1..n /\ saving[n].items \in Seq(Item)
      BY <1>1, SavingFacts
    <3>3. saving[n].items \o <<>> = saving[n].items
      BY <3>2, ConcatEmptySeq
    <3>4. /\ Len(saving') = n
          /\ \A i \in 1..n : saving'[i].id = saving[i].id
          /\ \A i \in 1..(n - 1) : saving'[i].items = saving[i].items
          /\ saving'[n].items = saving[n].items
      BY <1>1, <2>2, <3>1, <3>3, FedFacts
    <3> QED
      BY <1>1, <3>4
  <2> QED
    BY <1>3, <2>1, <2>2
<1>5. Depth'
  BY <1>1, <1>3, <1>4 DEF Depth, OpenAt
<1>6. Settled'
  <2>1. Settled
    BY DEF Attends
  <2>2. \A i \in 2..n : saving'[i].id = saving[i].id
    BY <1>1, <1>4
  <2> QED
    BY <1>3, <1>4, <2>1, <2>2 DEF Settled, Exists
<1>7. Whole'
  BY <1>3 DEF Whole
<1>8. Listens(s)'
  BY <1>1, <1>3, <1>4, StillListens
<1> QED
  BY <1>3, <1>5, <1>6, <1>7, <1>8

LEMMA ContentEndHears ==
  ASSUME Attends, CloseContent, NEW s, Listens(s)
  PROVE  /\ cause' = cause
         /\ Depth' /\ Settled' /\ Whole' /\ wire' = wire /\ Listens(s)'
<1>1. /\ rpc = "close" /\ draining = None
      /\ Len(saving) \in Nat \ {0} /\ Len(blocks) = Len(saving) - 2
  BY AttendFacts DEF CloseContent
<1>2. Last(saving).hashed = Expand[Last(saving).id] /\ ~WbpFails(Last(saving).items)
  BY <1>1, NothingMissing DEF Attends, Whole
<1>3. /\ rpc' = "publish" /\ wire' = wire /\ cause' = cause
      /\ UNCHANGED <<blocks, store, asked, saving, draining>>
  BY <1>2 DEF CloseContent, parserVars, requestVars
<1>4. Depth'
  BY <1>1, <1>3 DEF Depth, OpenAt
<1>5. Settled'
  BY <1>3 DEF Attends, Settled, Exists
<1>6. Whole'
  BY <1>3 DEF Whole
<1>7. Listens(s)'
  BY <1>1, <1>3, StillListens
<1> QED
  BY <1>3, <1>4, <1>5, <1>6, <1>7

(* A block that has been saved, or was stored by others meanwhile.          *)
LEMMA StoredHears ==
  ASSUME Attends, rpc \in {"publish", "rename"}, rpc' = "read",
         saving' = Front(saving), UNCHANGED <<blocks, draining, asked>>,
         \A b \in Block : Exists(b) => Exists(b)', NEW s, Listens(s)
  PROVE  Depth' /\ Settled' /\ Whole' /\ Listens(s)'
<1>1. /\ SavingOK /\ Len(saving) \in Nat \ {0} /\ Len(blocks) = Len(saving) - 2
      /\ Len(saving) > 1 /\ draining = None /\ TypeOK
  BY AttendFacts
<1>2. /\ Len(saving') = Len(saving) - 1
      /\ \A i \in 1..(Len(saving) - 1) : saving'[i] = saving[i]
  BY <1>1, FrontFacts DEF SavingOK
<1>3. Depth'
  BY <1>1, <1>2 DEF Depth, OpenAt
<1>4. Settled'
  <2>1. Settled
    BY DEF Attends
  <2>2. \A i \in 2..(Len(saving) - 1) : saving'[i].id \notin asked
    <3> SUFFICES ASSUME NEW i \in 2..(Len(saving) - 1) PROVE saving'[i].id \notin asked
      OBVIOUS
    <3>1. i \in 1..(Len(saving) - 1) /\ i \in 2..Len(saving)
      BY <1>1
    <3> QED
      BY <1>2, <2>1, <3>1 DEF Settled
  <2>3. asked \subseteq Block
    BY <1>1 DEF TypeOK
  <2>4. \A b \in asked : Exists(b)'
    BY <2>1, <2>3 DEF Settled
  <2> QED
    BY <1>1, <1>2, <2>2, <2>4 DEF Settled
<1>5. Whole'
  BY DEF Whole
<1>6. Listens(s)'
  <2>1. \A i \in 1..Len(saving') : saving'[i].items = saving[i].items
    BY <1>2
  <2> QED
    BY <1>1, <1>2, <2>1, StillListens
<1> QED
  BY <1>3, <1>4, <1>5, <1>6

LEMMA PublishHears ==
  ASSUME Attends, Publish, NEW s, Listens(s)
  PROVE  /\ cause' = cause
         /\ Depth' /\ Settled' /\ Whole' /\ wire' = wire /\ Listens(s)'
<1>1. /\ rpc = "publish" /\ wire' = wire /\ cause' = cause
      /\ UNCHANGED <<blocks, draining, store, asked>>
      /\ \/ saving' = Front(saving) /\ rpc' = "read"
         \/ saving' = saving /\ rpc' = "rename"
  BY DEF Publish, parserVars, requestVars
<1>2. CASE saving' = Front(saving) /\ rpc' = "read"
  <2>1. \A b \in Block : Exists(b) => Exists(b)'
    BY <1>1 DEF Exists
  <2> QED
    BY <1>1, <1>2, <2>1, StoredHears
<1>3. CASE saving' = saving /\ rpc' = "rename"
  <2>1. Len(saving) \in Nat \ {0} /\ Len(blocks) = Len(saving) - 2 /\ draining = None
    BY <1>1, AttendFacts
  <2>2. Depth'
    BY <1>1, <1>3, <2>1 DEF Depth, OpenAt
  <2>3. Settled'
    BY <1>1, <1>3 DEF Attends, Settled, Exists
  <2>4. Whole'
    BY <1>3 DEF Whole
  <2>5. Listens(s)'
    BY <1>1, <1>3, <2>1, StillListens
  <2> QED
    BY <1>1, <2>2, <2>3, <2>4, <2>5
<1> QED
  BY <1>1, <1>2, <1>3

LEMMA RenameHears ==
  ASSUME Attends, Rename, NEW s, Listens(s)
  PROVE  \/ rpc' = "failed" /\ cause' = "rename"
         \/ /\ cause' = cause
            /\ Depth' /\ Settled' /\ Whole' /\ wire' = wire /\ Listens(s)'
<1> DEFINE done == Last(saving)
<1>1. /\ rpc = "rename" /\ wire' = wire /\ UNCHANGED <<blocks, draining, asked>>
      /\ \/ rpc' = "failed" /\ cause' = "rename"
         \/ /\ store' = [store EXCEPT ![done.id] = done.items]
            /\ saving' = Front(saving) /\ rpc' = "read" /\ cause' = cause
  BY DEF Rename, Fails, parserVars, requestVars
<1>2. CASE /\ store' = [store EXCEPT ![done.id] = done.items]
           /\ saving' = Front(saving) /\ rpc' = "read" /\ cause' = cause
  <2>1. done.items \in Seq(Item) /\ StoreOK
    <3>1. SavingOK /\ Len(saving) \in Nat \ {0} /\ StoreOK
      BY AttendFacts
    <3>2. done = saving[Len(saving)] /\ Len(saving) \in 1..Len(saving)
      BY <3>1, SavingFacts
    <3> QED
      BY <3>1, <3>2, SavingFacts
  <2> HIDE DEF done
  <2>2. \A b \in Block : store'[b] = IF b = done.id THEN done.items ELSE store[b]
    BY <1>2, <2>1 DEF StoreOK
  <2>3. \A b \in Block : Exists(b) => Exists(b)'
    BY <2>1, <2>2, ReceiverAssumption DEF Exists
  <2> QED
    BY <1>1, <1>2, <2>3, StoredHears
<1> QED
  BY <1>1, <1>2

LEMMA OtherHears ==
  ASSUME Attends, Begin \/ TakeHead \/ TakeError \/ TakeTooDeep \/ TakeCrossing,
         NEW s, Listens(s)
  PROVE  \/ /\ Ended'
            /\ cause' \in {cause, "peer", "nesting", "intersection"}
         \/ /\ cause' = cause
            /\ Depth' /\ Settled' /\ Whole'
            /\ (wire' = wire /\ Listens(s)') \/ Takes(s)
<1>1. CASE Begin
  <2>1. /\ rpc = "idle" /\ wire' = wire
        /\ UNCHANGED <<blocks, saving, draining, store, asked>>
        /\ \/ rpc' = "failed" /\ cause' = "peer"
           \/ rpc' = "ended" /\ cause' = cause
           \/ rpc' = "read" /\ cause' = cause
    BY <1>1 DEF Begin, Fails, parserVars, requestVars
  <2>2. Len(saving) = 1 /\ draining = None /\ blocks = <<>>
    BY <2>1, AttendFacts
  <2>3. CASE rpc' = "read" /\ cause' = cause
    <3>1. Depth'
      BY <2>1, <2>2, <2>3 DEF Depth, OpenAt
    <3>2. Settled'
      BY <2>1 DEF Attends, Settled, Exists
    <3>3. Whole'
      BY <2>3 DEF Whole
    <3>4. Listens(s)'
      BY <2>1, <2>2, <2>3, StillListens
    <3> QED
      BY <2>1, <2>3, <3>1, <3>2, <3>3, <3>4
  <2> QED
    BY <2>1, <2>3 DEF Ended
<1>2. CASE TakeHead
  <2>1. /\ wire # <<>> /\ Head(wire).kind = "head" /\ wire' = Tail(wire)
        /\ UNCHANGED <<rpc, cause, blocks, saving, draining, store, asked>>
    BY <1>2 DEF TakeHead, Arrives, Take, Arrived, parserVars, requestVars
  <2>2. Depth' /\ Settled' /\ Whole'
    BY <2>1 DEF Attends, Depth, OpenAt, Settled, Exists, Whole
  <2>3. Listens(s)'
    BY <2>1 DEF Listens, Come
  <2>4. \A u : Hears(asked, s, Head(wire), u) => u = s
    BY <2>1 DEF Hears, PieceHeard, StartHeard, EndHeard, OtherHeard
  <2> QED
    BY <2>1, <2>2, <2>3, <2>4 DEF Takes
<1>3. CASE TakeError \/ TakeTooDeep \/ TakeCrossing
  BY <1>3 DEF TakeError, TakeTooDeep, TakeCrossing, Fails, Ended
<1> QED
  BY <1>1, <1>2, <1>3

LEMMA SeparatorHears ==
  ASSUME Attends, TakeSeparator, blocks = <<>>
  PROVE  rpc' = "delivered" /\ cause' = cause
<1>1. levels = 0 /\ ~Exhausted /\ rpc = "read"
  BY DEF TakeSeparator, Arrives, Attends
<1>2. SavingOK /\ Len(saving) \in Nat \ {0}
  BY AttendFacts
<1>3. Len(saving) = 1
  <2>1. ~(Len(saving) > 1)
    BY <1>1 DEF Exhausted
  <2>2. \A k \in Nat \ {0} : ~(k > 1) => k = 1
    OBVIOUS
  <2> QED
    BY <1>2, <2>1, <2>2
<1>4. Last(saving) = saving[1]
  BY <1>2, <1>3, SavingFacts
<1>5. ~WbpFails(saving[1].items)
  BY <1>4, NothingMissing
<1> QED
  BY <1>1, <1>5 DEF TakeSeparator, Deliver

(* A receiver that attends to a stream misses nothing of what it reads:     *)
(* what it has of each block is what the stream has told of it.             *)
LEMMA ReceiverHears ==
  ASSUME Attends, ReceiverStep, NEW s, Listens(s),
         wire # <<>> => /\ Head(wire).kind # "eof"
                        /\ Head(wire).kind = "separator" => blocks = <<>>
                        /\ \E u : Hears(asked, s, Head(wire), u)
  PROVE  /\ cause' = cause \/ cause' \notin {"mismatch", "reread", "wbp"}
         /\ \/ Ended'
            \/ /\ Depth' /\ Settled' /\ Whole'
               /\ (wire' = wire /\ Listens(s)') \/ Takes(s)
<1>1. CASE Begin \/ TakeHead \/ TakeError \/ TakeTooDeep \/ TakeCrossing
  BY <1>1, OtherHears
<1>2. CASE TakeChunk
  <2>1. cause' = cause
    BY <1>2 DEF TakeChunk
  <2> QED
    BY <1>2, <2>1, ChunkHears
<1>3. CASE TakeStart
  <2>1. cause' = cause
    BY <1>3 DEF TakeStart
  <2> QED
    BY <1>3, <2>1, StartHears
<1>4. CASE SaveOrDrain
  <2>1. cause' = cause
    BY <1>4 DEF SaveOrDrain
  <2> QED
    BY <1>4, <2>1, SaveOrDrainHears
<1>5. CASE TakeEnd
  <2>1. cause' = cause /\ wire # <<>>
    BY <1>5 DEF TakeEnd, Arrives
  <2>2. PICK u : Hears(asked, s, Head(wire), u)
    BY <2>1
  <2> QED
    BY <1>5, <2>1, <2>2, EndHears
<1>6. CASE CloseDrain
  BY <1>6, DrainEndHears
<1>7. CASE CloseContent
  BY <1>7, ContentEndHears
<1>8. CASE Publish
  BY <1>8, PublishHears
<1>9. CASE Rename
  BY <1>9, RenameHears DEF Ended
<1>10. CASE TakeSeparator
  <2>1. blocks = <<>>
    BY <1>10 DEF TakeSeparator, Arrives, Arrived
  <2> QED
    BY <1>10, <2>1, SeparatorHears DEF Ended
<1>11. ~TakeEof
  BY DEF TakeEof, Arrives, Arrived
<1> QED
  BY <1>1, <1>2, <1>3, <1>4, <1>5, <1>6, <1>7, <1>8, <1>9, <1>10, <1>11 DEF ReceiverStep

(* It attends to the stream still when others store a block.                *)
LEMMA OthersHear ==
  ASSUME Attends, ObjectHeld, NEW b \in Block, OtherStores(b), NEW s, Listens(s)
  PROVE  Attends' /\ Listens(s)'
<1>1. ReceiverInv'
  BY OthersStep DEF Attends
<1>2. StoreHeld' /\ FilesHeld'
  BY OthersHold DEF HeldInv, Attends
<1>3. UNCHANGED <<rpc, blocks, levels, saving, draining, asked>>
  BY DEF OtherStores, parserVars, requestVars
<1>4. \A c \in Block : Exists(c) => Exists(c)'
  <2>1. StoreOK
    BY AttendFacts
  <2>2. PICK form \in {Expand[b], Body[b]} : store' = [store EXCEPT ![b] = form]
    BY DEF OtherStores
  <2>3. form \in Seq(Item)
    BY BuiltForms
  <2>4. \A c \in Block : store'[c] = IF c = b THEN form ELSE store[c]
    BY <2>1, <2>2 DEF StoreOK
  <2> QED
    BY <2>3, <2>4, ReceiverAssumption DEF Exists
<1>5. Settled'
  <2>1. Settled /\ asked \subseteq Block /\ draining \in Block \cup {None}
    BY AttendFacts DEF Attends, TypeOK
  <2> HIDE DEF Exists
  <2> QED
    BY <1>3, <1>4, <2>1 DEF Settled
<1>6. Depth' /\ Whole' /\ levels' = Len(blocks')
  BY <1>3 DEF Attends, Depth, OpenAt, Whole
<1>7. Listens(s)'
  BY <1>3 DEF Listens, Come
<1> QED
  BY <1>1, <1>2, <1>5, <1>6, <1>7 DEF Attends

LEMMA ListensInit == Init => Depth /\ Settled /\ Whole /\ Listens([open |-> <<>>, fed |-> <<>>])
<1> SUFFICES ASSUME Init
             PROVE  Depth /\ Settled /\ Whole /\ Listens([open |-> <<>>, fed |-> <<>>])
  OBVIOUS
<1>1. Len(saving) = 1
  BY DEF Init
<1>2. Depth /\ Settled /\ Whole
  BY <1>1 DEF Init, Depth, Settled, Whole
<1>3. [open |-> <<>>, fed |-> <<>>] \in Hearing
  BY DEF Hearing
<1> QED
  BY <1>1, <1>2, <1>3 DEF Listens, Init
=============================================================================
