-------------------------- MODULE SequenceLemmas ----------------------------
(***************************************************************************)
(* What the proofs need to know of naturals, sequences and recursion.      *)
(* FlattenSeq is a recursive function: that there is one that satisfies    *)
(* its equation, and only one, is proved here, and its definition is not   *)
(* opened anywhere else.                                                   *)
(***************************************************************************)
EXTENDS Integers, SequencesExt, SequenceTheorems, WellFoundedInduction, TLAPS

-----------------------------------------------------------------------------
(* Induction, on a set of naturals or of sequences.                         *)

LEMMA LeastNat ==
  ASSUME NEW T \in SUBSET Nat, T # {}
  PROVE  \E n \in T : \A m \in T : n <= m
<1> DEFINE R == OpToRel(<, Nat)
<1>1. \E x \in T : \A y \in T : ~(<<y, x>> \in R)
  <2>1. IsWellFoundedOn(R, Nat)
    BY NatLessThanWellFounded
  <2> HIDE DEF R
  <2> QED
    BY <2>1, WFMin
<1>2. \A x, y \in T : <<y, x>> \in R <=> y < x
  BY DEF OpToRel
<1> HIDE DEF R
<1>3. \A x, y \in T : ~(y < x) => x <= y
  OBVIOUS
<1> QED
  BY <1>1, <1>2, <1>3

LEMMA NatSetInduction ==
  ASSUME NEW T, 0 \in T, \A n \in Nat : n \in T => n + 1 \in T
  PROVE  Nat \subseteq T
<1> SUFFICES ASSUME Nat \ T # {} PROVE FALSE
  OBVIOUS
<1>1. PICK n \in Nat \ T : \A m \in Nat \ T : n <= m
  BY LeastNat
<1>2. n - 1 \in Nat
  BY <1>1
<1>3. n - 1 \in T
  BY <1>1, <1>2
<1> QED
  BY <1>1, <1>2, <1>3

LEMMA FrontFacts ==
  ASSUME NEW S, NEW s \in Seq(S), s # <<>>
  PROVE  /\ Front(s) \in Seq(S)
         /\ Len(Front(s)) = Len(s) - 1
         /\ \A i \in 1..(Len(s) - 1) : Front(s)[i] = s[i]
         /\ Len(s) \in Nat \ {0}
         /\ Last(s) = s[Len(s)]
         /\ Last(s) \in S
         /\ s = Append(Front(s), Last(s))
<1> DEFINE n == Len(s)
<1>1. n \in Nat \ {0}
  BY EmptySeq
<1>2. \A i \in 1..n : s[i] \in S
  BY ElementOfSeq
<1>3. Front(s) = SubSeq(s, 1, n - 1) /\ Last(s) = s[n]
  BY DEF Front, Last
<1> HIDE DEF n
<1>4. /\ SubSeq(s, 1, n - 1) \in Seq(S)
      /\ Len(SubSeq(s, 1, n - 1)) = IF 1 <= n - 1 THEN n - 1 - 1 + 1 ELSE 0
      /\ \A i \in 1..(n - 1 - 1 + 1) : SubSeq(s, 1, n - 1)[i] = s[1 + i - 1]
  BY <1>1, <1>2, SubSeqProperties
<1>5. /\ Front(s) \in Seq(S) /\ Len(Front(s)) = n - 1
      /\ \A i \in 1..(n - 1) : Front(s)[i] = s[i]
      /\ Last(s) = s[n] /\ Last(s) \in S
  BY <1>1, <1>2, <1>3, <1>4
<1>6. s = Append(Front(s), Last(s))
  BY <1>1, <1>5 DEF n
<1> QED
  BY <1>1, <1>5, <1>6 DEF n

LEMMA AppendFacts ==
  ASSUME NEW S, NEW s \in Seq(S), NEW x \in S
  PROVE  /\ Append(s, x) \in Seq(S) /\ Append(s, x) # <<>>
         /\ Len(Append(s, x)) = Len(s) + 1
         /\ Front(Append(s, x)) = s
         /\ Last(Append(s, x)) = x
         /\ s \o <<x>> = Append(s, x)
<1> DEFINE all == Append(s, x)
<1>1. /\ all \in Seq(S) /\ all # <<>> /\ Len(all) = Len(s) + 1 /\ Len(s) \in Nat
      /\ all[Len(s) + 1] = x /\ \A i \in 1..Len(s) : all[i] = s[i]
  BY AppendProperties
<1>2. s \o <<x>> = all
  OBVIOUS
<1> HIDE DEF all
<1>3. /\ Front(all) \in Seq(S) /\ Len(Front(all)) = Len(s)
      /\ \A i \in 1..Len(s) : Front(all)[i] = s[i]
      /\ Last(all) = x
  <2>1. /\ Front(all) \in Seq(S) /\ Len(Front(all)) = Len(all) - 1
        /\ \A i \in 1..(Len(all) - 1) : Front(all)[i] = all[i]
        /\ Last(all) = all[Len(all)]
    BY <1>1, FrontFacts
  <2>2. Len(all) - 1 = Len(s)
    BY <1>1
  <2> QED
    BY <1>1, <2>1, <2>2
<1>4. Front(all) = s
  BY <1>3, SeqEqual
<1> QED
  BY <1>1, <1>2, <1>3, <1>4 DEF all

LEMMA ConcatAssoc ==
  ASSUME NEW S, NEW s \in Seq(S), NEW t \in Seq(S), NEW u \in Seq(S)
  PROVE  (s \o t) \o u = s \o (t \o u)
OBVIOUS

(* The first p elements of a sequence, and those after the first m.         *)
LEMMA FirstFacts ==
  ASSUME NEW S, NEW s \in Seq(S), NEW p \in 0..Len(s)
  PROVE  /\ SubSeq(s, 1, p) \in Seq(S)
         /\ Len(SubSeq(s, 1, p)) = p
         /\ \A i \in 1..p : SubSeq(s, 1, p)[i] = s[i]
         /\ p = 0 => SubSeq(s, 1, p) = <<>>
         /\ p > 0 => SubSeq(s, 1, p) = Append(SubSeq(s, 1, p - 1), s[p])
         /\ p = Len(s) => SubSeq(s, 1, p) = s
<1>1. Len(s) \in Nat /\ p \in Nat /\ \A i \in 1..Len(s) : s[i] \in S
  BY ElementOfSeq, LenProperties
<1>2. ASSUME NEW q \in 0..Len(s)
      PROVE  /\ SubSeq(s, 1, q) \in Seq(S)
             /\ Len(SubSeq(s, 1, q)) = q
             /\ \A i \in 1..q : SubSeq(s, 1, q)[i] = s[i]
  <2>1. /\ SubSeq(s, 1, q) \in Seq(S)
        /\ Len(SubSeq(s, 1, q)) = IF 1 <= q THEN q - 1 + 1 ELSE 0
        /\ \A i \in 1..(q - 1 + 1) : SubSeq(s, 1, q)[i] = s[1 + i - 1]
    <3>1. q \in Nat /\ \A i \in 1..q : s[i] \in S
      BY <1>1
    <3> QED
      BY <3>1, SubSeqProperties
  <2> QED
    BY <1>1, <2>1
<1>3. p = 0 => SubSeq(s, 1, p) = <<>>
  BY <1>2, EmptySeq
<1>4. p = Len(s) => SubSeq(s, 1, p) = s
  BY <1>2, SeqEqual
<1>5. p > 0 => SubSeq(s, 1, p) = Append(SubSeq(s, 1, p - 1), s[p])
  <2> SUFFICES ASSUME p > 0 PROVE SubSeq(s, 1, p) = Append(SubSeq(s, 1, p - 1), s[p])
    OBVIOUS
  <2> DEFINE a == SubSeq(s, 1, p)
             b == SubSeq(s, 1, p - 1)
             c == Append(b, s[p])
  <2>1. p - 1 \in 0..Len(s) /\ s[p] \in S
    BY <1>1
  <2>2. a \in Seq(S) /\ Len(a) = p /\ \A i \in 1..p : a[i] = s[i]
    BY <1>2
  <2>3. b \in Seq(S) /\ Len(b) = p - 1 /\ \A i \in 1..(p - 1) : b[i] = s[i]
    BY <1>2, <2>1
  <2> HIDE DEF a, b
  <2>4. /\ c \in Seq(S) /\ Len(c) = p - 1 + 1 /\ c[p - 1 + 1] = s[p]
        /\ \A i \in 1..(p - 1) : c[i] = b[i]
    BY <2>1, <2>3, AppendProperties
  <2> HIDE DEF c
  <2>5. Len(c) = Len(a) /\ \A i \in 1..Len(a) : c[i] = a[i]
    BY <1>1, <2>2, <2>3, <2>4
  <2>6. a = c
    BY <2>2, <2>4, <2>5, SeqEqual
  <2> QED
    BY <2>6 DEF a, b, c
<1> QED
  BY <1>1, <1>2, <1>3, <1>4, <1>5

LEMMA RestFacts ==
  ASSUME NEW S, NEW s \in Seq(S), NEW m \in Nat, m < Len(s)
  PROVE  /\ SubSeq(s, m + 1, Len(s)) \in Seq(S)
         /\ Len(SubSeq(s, m + 1, Len(s))) = Len(s) - m
         /\ \A i \in 1..(Len(s) - m) : SubSeq(s, m + 1, Len(s))[i] = s[m + i]
<1> DEFINE n == Len(s)
<1>1. n \in Nat /\ \A i \in 1..n : s[i] \in S
  BY ElementOfSeq, LenProperties
<1> HIDE DEF n
<1>2. /\ SubSeq(s, m + 1, n) \in Seq(S)
      /\ Len(SubSeq(s, m + 1, n)) = IF m + 1 <= n THEN n - (m + 1) + 1 ELSE 0
      /\ \A i \in 1..(n - (m + 1) + 1) : SubSeq(s, m + 1, n)[i] = s[m + 1 + i - 1]
  <2>1. m + 1 \in Nat /\ \A i \in (m + 1)..n : s[i] \in S
    BY <1>1
  <2> QED
    BY <1>1, <2>1, SubSeqProperties
<1>3. n - (m + 1) + 1 = n - m /\ m + 1 <= n
  BY <1>1 DEF n
<1>4. \A i \in 1..(n - m) : m + 1 + i - 1 = m + i
  BY <1>1
<1> QED
  BY <1>2, <1>3, <1>4 DEF n

LEMMA SeqSetInduction ==
  ASSUME NEW S, NEW T, <<>> \in T,
         \A s \in Seq(S), x \in S : s \in T => Append(s, x) \in T
  PROVE  Seq(S) \subseteq T
<1> DEFINE L == {n \in Nat : \A s \in Seq(S) : Len(s) = n => s \in T}
<1>1. 0 \in L
  BY EmptySeq
<1>2. ASSUME NEW n \in Nat, n \in L PROVE n + 1 \in L
  <2> SUFFICES ASSUME NEW s \in Seq(S), Len(s) = n + 1 PROVE s \in T
    OBVIOUS
  <2>1. s # <<>>
    OBVIOUS
  <2>2. Front(s) \in T
    BY <1>2, <2>1, FrontFacts
  <2>3. Front(s) \in Seq(S) /\ Last(s) \in S /\ s = Append(Front(s), Last(s))
    BY <2>1, FrontFacts
  <2>4. Append(Front(s), Last(s)) \in T
    BY <2>2, <2>3
  <2> QED
    BY <2>3, <2>4
<1>3. Nat \subseteq L
  <2> HIDE DEF L
  <2> QED
    BY <1>1, <1>2, NatSetInduction
<1> QED
  BY <1>3

-----------------------------------------------------------------------------
(* FlattenSeq.                                                              *)

(* f is what FlattenSeq computes, as far as m.                              *)
Flattens(f, seqs, m) ==
    \A i \in 1..m : f[i] = IF i = 1 THEN seqs[i] ELSE f[i - 1] \o seqs[i]

LEMMA FlattenExists ==
  ASSUME NEW S, NEW seqs \in Seq(Seq(S))
  PROVE  \E f \in [1..Len(seqs) -> Seq(S)] : Flattens(f, seqs, Len(seqs))
<1> DEFINE T == {m \in Nat : m <= Len(seqs) =>
                    \E f \in [1..m -> Seq(S)] : Flattens(f, seqs, m)}
<1>1. 0 \in T
  <2> DEFINE none == [i \in 1..0 |-> <<>>]
  <2>1. none \in [1..0 -> Seq(S)]
    OBVIOUS
  <2>2. Flattens(none, seqs, 0)
    BY DEF Flattens
  <2>3. \E f \in [1..0 -> Seq(S)] : Flattens(f, seqs, 0)
    <3> HIDE DEF none
    <3> QED
      BY <2>1, <2>2
  <2> QED
    BY <2>3
<1>2. ASSUME NEW m \in Nat, m \in T PROVE m + 1 \in T
  <2> SUFFICES ASSUME m + 1 <= Len(seqs)
               PROVE  \E f \in [1..(m + 1) -> Seq(S)] : Flattens(f, seqs, m + 1)
    OBVIOUS
  <2>1. PICK f \in [1..m -> Seq(S)] : Flattens(f, seqs, m)
    BY <1>2
  <2> DEFINE last == IF m = 0 THEN seqs[1] ELSE f[m] \o seqs[m + 1]
             g == [i \in 1..(m + 1) |-> IF i = m + 1 THEN last ELSE f[i]]
  <2>2. last \in Seq(S)
    <3>1. seqs[1] \in Seq(S) /\ seqs[m + 1] \in Seq(S)
      BY ElementOfSeq
    <3>2. CASE m = 0
      BY <3>1, <3>2
    <3>3. CASE m # 0
      <4>1. f[m] \in Seq(S)
        BY <3>3
      <4> QED
        BY <3>1, <3>3, <4>1, ConcatProperties
    <3> QED
      BY <3>2, <3>3
  <2>3. g \in [1..(m + 1) -> Seq(S)]
    BY <2>2
  <2>4. ASSUME NEW i \in 1..(m + 1)
        PROVE  g[i] = IF i = 1 THEN seqs[i] ELSE g[i - 1] \o seqs[i]
    <3>1. CASE i = m + 1
      BY <3>1
    <3>2. CASE i # m + 1
      <4>1. i \in 1..m /\ (i # 1 => i - 1 \in 1..m)
        BY <3>2
      <4>2. g[i] = f[i]
        BY <3>2
      <4>3. i # 1 => g[i - 1] = f[i - 1]
        BY <4>1
      <4>4. f[i] = IF i = 1 THEN seqs[i] ELSE f[i - 1] \o seqs[i]
        BY <2>1, <4>1 DEF Flattens
      <4> HIDE DEF g
      <4> QED
        BY <4>2, <4>3, <4>4
    <3> QED
      BY <3>1, <3>2
  <2> HIDE DEF g
  <2> QED
    BY <2>3, <2>4 DEF Flattens
<1>3. Nat \subseteq T
  <2> HIDE DEF T
  <2> QED
    BY <1>1, <1>2, NatSetInduction
<1> QED
  BY <1>3

LEMMA FlattenUnique ==
  ASSUME NEW S, NEW seqs, NEW f, NEW g, NEW n \in Nat,
         Flattens(f, seqs, n), Flattens(g, seqs, n)
  PROVE  \A i \in 1..n : f[i] = g[i]
<1> DEFINE T == {m \in Nat : m \in 1..n => f[m] = g[m]}
<1>1. 0 \in T
  OBVIOUS
<1>2. ASSUME NEW m \in Nat, m \in T PROVE m + 1 \in T
  <2> SUFFICES ASSUME m + 1 \in 1..n PROVE f[m + 1] = g[m + 1]
    OBVIOUS
  <2>1. /\ f[m + 1] = IF m + 1 = 1 THEN seqs[m + 1] ELSE f[m] \o seqs[m + 1]
        /\ g[m + 1] = IF m + 1 = 1 THEN seqs[m + 1] ELSE g[m] \o seqs[m + 1]
    BY DEF Flattens
  <2> QED
    BY <1>2, <2>1
<1>3. Nat \subseteq T
  <2> HIDE DEF T
  <2> QED
    BY <1>1, <1>2, NatSetInduction
<1> QED
  BY <1>3

(* FlattenSeq is the last value of any function that flattens.              *)
LEMMA FlattenIs ==
  ASSUME NEW S, NEW seqs \in Seq(Seq(S)), seqs # <<>>, NEW f,
         Flattens(f, seqs, Len(seqs))
  PROVE  FlattenSeq(seqs) = f[Len(seqs)]
<1> DEFINE n == Len(seqs)
           Step(h) == [i \in 1..n |-> IF i = 1 THEN seqs[i] ELSE h[i - 1] \o seqs[i]]
           F == CHOOSE h : h = Step(h)
<1>1. n \in Nat \ {0}
  BY EmptySeq
<1>2. FlattenSeq(seqs) = F[n]
  BY <1>1 DEF FlattenSeq
<1>3. \E h : h = Step(h)
  <2>1. PICK h \in [1..n -> Seq(S)] : Flattens(h, seqs, n)
    BY FlattenExists
  <2>2. h = Step(h)
    BY <2>1 DEF Flattens
  <2> QED
    BY <2>2
<1>4. F = Step(F)
  <2> HIDE DEF Step
  <2> QED
    BY <1>3
<1>5. Flattens(F, seqs, n)
  <2> DEFINE G == F
  <2>1. G = Step(G)
    BY <1>4
  <2> HIDE DEF G
  <2>2. Flattens(G, seqs, n)
    BY <2>1 DEF Flattens
  <2> QED
    BY <2>2 DEF G
<1> HIDE DEF F
<1> QED
  BY <1>1, <1>2, <1>5, FlattenUnique

LEMMA FlattenFacts ==
  /\ FlattenSeq(<<>>) = <<>>
  /\ \A S : \A seqs \in Seq(Seq(S)) :
       /\ FlattenSeq(seqs) \in Seq(S)
       /\ \A s \in Seq(S) : FlattenSeq(Append(seqs, s)) = FlattenSeq(seqs) \o s
<1>1. FlattenSeq(<<>>) = <<>>
  BY DEF FlattenSeq
<1>2. ASSUME NEW S, NEW seqs \in Seq(Seq(S)) PROVE FlattenSeq(seqs) \in Seq(S)
  <2>1. CASE seqs = <<>>
    BY <1>1, <2>1, EmptySeq
  <2>2. CASE seqs # <<>>
    <3>1. PICK f \in [1..Len(seqs) -> Seq(S)] : Flattens(f, seqs, Len(seqs))
      BY FlattenExists
    <3>2. Len(seqs) \in 1..Len(seqs)
      BY <2>2, EmptySeq
    <3>3. FlattenSeq(seqs) = f[Len(seqs)]
      BY <2>2, <3>1, FlattenIs
    <3> QED
      BY <3>1, <3>2, <3>3
  <2> QED
    BY <2>1, <2>2
<1>3. ASSUME NEW S, NEW seqs \in Seq(Seq(S)), NEW s \in Seq(S)
      PROVE  FlattenSeq(Append(seqs, s)) = FlattenSeq(seqs) \o s
  <2> DEFINE n == Len(seqs)
             all == Append(seqs, s)
  <2>1. all \in Seq(Seq(S)) /\ Len(all) = n + 1 /\ all # <<>> /\ n \in Nat
        /\ all[n + 1] = s /\ \A i \in 1..n : all[i] = seqs[i]
    BY AppendProperties
  <2> HIDE DEF all
  <2>2. PICK f \in [1..(n + 1) -> Seq(S)] : Flattens(f, all, n + 1)
    BY <2>1, FlattenExists
  <2>3. FlattenSeq(all) = f[n + 1]
    BY <2>1, <2>2, FlattenIs
  <2>4. CASE n = 0
    <3>1. f[1] = s
      BY <2>1, <2>2, <2>4 DEF Flattens
    <3>2. FlattenSeq(seqs) = <<>>
      BY <1>1, <2>4, EmptySeq
    <3> QED
      BY <2>3, <2>4, <3>1, <3>2, ConcatEmptySeq DEF all
  <2>5. CASE n # 0
    <3>1. Flattens(f, seqs, n)
      <4> SUFFICES ASSUME NEW i \in 1..n
                   PROVE  f[i] = IF i = 1 THEN seqs[i] ELSE f[i - 1] \o seqs[i]
        BY DEF Flattens
      <4>1. i \in 1..(n + 1) /\ all[i] = seqs[i]
        BY <2>1
      <4> QED
        BY <2>2, <4>1 DEF Flattens
    <3>2. FlattenSeq(seqs) = f[n]
      BY <2>5, <3>1, FlattenIs
    <3>3. f[n + 1] = f[n] \o s
      <4>1. n + 1 \in 1..(n + 1) /\ n + 1 # 1 /\ n + 1 - 1 = n
        BY <2>1, <2>5
      <4>2. \A i \in 1..(n + 1) : i # 1 => f[i] = f[i - 1] \o all[i]
        BY <2>2 DEF Flattens
      <4> DEFINE k == n + 1
      <4>3. k \in 1..(n + 1) /\ k # 1 /\ k - 1 = n
        BY <4>1
      <4> HIDE DEF k
      <4>4. f[k] = f[n] \o all[k]
        BY <4>2, <4>3
      <4> USE DEF k
      <4> QED
        BY <2>1, <4>4
    <3> QED
      BY <2>3, <3>2, <3>3 DEF all
  <2> QED
    BY <2>4, <2>5
<1> QED
  BY <1>1, <1>2, <1>3

LEMMA FlattenLast ==
  \A S : \A seqs \in Seq(Seq(S)) : \A a, b \in Seq(S) :
    /\ FlattenSeq(Append(seqs, a \o b)) = FlattenSeq(Append(seqs, a)) \o b
    /\ FlattenSeq(Append(Append(seqs, a), b)) = FlattenSeq(Append(seqs, a)) \o b
<1> SUFFICES ASSUME NEW S, NEW seqs \in Seq(Seq(S)), NEW a \in Seq(S), NEW b \in Seq(S)
    PROVE  /\ FlattenSeq(Append(seqs, a \o b)) = FlattenSeq(Append(seqs, a)) \o b
           /\ FlattenSeq(Append(Append(seqs, a), b)) = FlattenSeq(Append(seqs, a)) \o b
  OBVIOUS
<1>1. PICK all : all = FlattenSeq(seqs)
  OBVIOUS
<1>2. all \in Seq(S) /\ a \o b \in Seq(S) /\ Append(seqs, a) \in Seq(Seq(S))
  BY <1>1, FlattenFacts, ConcatProperties, AppendProperties
<1>3. /\ FlattenSeq(Append(seqs, a)) = all \o a
      /\ FlattenSeq(Append(seqs, a \o b)) = all \o (a \o b)
      /\ FlattenSeq(Append(Append(seqs, a), b)) = FlattenSeq(Append(seqs, a)) \o b
  BY <1>1, <1>2, FlattenFacts, Zenon
<1>4. (all \o a) \o b = all \o (a \o b)
  BY <1>2, ConcatAssoc
<1> QED
  BY <1>3, <1>4, Zenon

(* The last of a sequence of sequences gets longer, and no other one: that  *)
(* is more at the end.                                                      *)
Grows(g, h, s) ==
    /\ Len(h) = Len(g)
    /\ \A k \in 1..Len(g) : h[k] = IF k = Len(g) THEN g[k] \o s ELSE g[k]

LEMMA LastGrows ==
  ASSUME NEW S
  PROVE  \A seqs, more \in Seq(Seq(S)) : \A s \in Seq(S) :
           seqs # <<>> /\ Grows(seqs, more, s) => FlattenSeq(more) = FlattenSeq(seqs) \o s
<1>0. \A p \in Seq(Seq(S)) : \A a, b \in Seq(S) :
         FlattenSeq(Append(p, a \o b)) = FlattenSeq(Append(p, a)) \o b
  BY FlattenLast
<1> SUFFICES ASSUME NEW seqs \in Seq(Seq(S)), NEW more \in Seq(Seq(S)), seqs # <<>>,
                    NEW s \in Seq(S), Grows(seqs, more, s)
             PROVE  FlattenSeq(more) = FlattenSeq(seqs) \o s
  BY Zenon
<1>1. PICK V : V = Seq(S)
  OBVIOUS
<1>2. PICK n : n = Len(seqs)
  OBVIOUS
<1>3. PICK before : before = Front(seqs)
  OBVIOUS
<1>4. PICK last : last = Last(seqs)
  OBVIOUS
<1>5. /\ n \in Nat \ {0} /\ before \in Seq(V) /\ Len(before) = n - 1
      /\ \A i \in 1..(n - 1) : before[i] = seqs[i]
      /\ last = seqs[n] /\ last \in V /\ seqs = Append(before, last)
  BY <1>1, <1>2, <1>3, <1>4, FrontFacts
<1>6. n \in 1..n /\ \A i \in 1..(n - 1) : i \in 1..n /\ i # n
  BY <1>5
<1>7. more[n] = last \o s /\ \A i \in 1..(n - 1) : more[i] = before[i]
  BY <1>2, <1>5, <1>6, Zenon DEF Grows
<1>8. /\ Front(more) \in Seq(V) /\ Len(Front(more)) = n - 1
      /\ \A i \in 1..(n - 1) : Front(more)[i] = more[i]
      /\ Last(more) = more[n] /\ more = Append(Front(more), Last(more))
  <2>1. Len(more) = n /\ more \in Seq(V)
    BY <1>1, <1>2 DEF Grows
  <2>2. more # <<>>
    BY <1>5, <2>1
  <2> QED
    BY <2>1, <2>2, FrontFacts
<1>9. Front(more) = before
  <2>1. \A i \in 1..(n - 1) : Front(more)[i] = before[i]
    BY <1>7, <1>8, Zenon
  <2> QED
    BY <1>5, <1>8, <2>1, SeqEqual
<1>10. last \o s \in V
  BY <1>1, <1>5, ConcatProperties
<1>11. more = Append(before, last \o s)
  BY <1>7, <1>8, <1>9, Zenon
<1>12. before \in Seq(Seq(S)) /\ last \in Seq(S) /\ s \in Seq(S)
  BY <1>1, <1>5, Zenon
<1>13. FlattenSeq(Append(before, last \o s)) = FlattenSeq(Append(before, last)) \o s
  BY <1>0, <1>12, Zenon
<1> QED
  BY <1>5, <1>11, <1>13, Zenon

(* What f makes of each element, one after the other.                       *)
Maps(f, S, V) == f \in [S -> V]
Each(f, s)    == [i \in 1..Len(s) |-> f[s[i]]]
FlatMap(f, s) == FlattenSeq(Each(f, s))

LEMMA EachType ==
  ASSUME NEW S, NEW V, NEW f, Maps(f, S, V), NEW s \in Seq(S)
  PROVE  /\ Each(f, s) \in Seq(V)
         /\ Len(Each(f, s)) = Len(s)
         /\ \A i \in 1..Len(s) : Each(f, s)[i] = f[s[i]]
<1>1. Len(s) \in Nat /\ \A i \in 1..Len(s) : s[i] \in S
  BY ElementOfSeq
<1>2. Each(f, s) \in [1..Len(s) -> V]
  BY <1>1 DEF Each, Maps
<1>3. Each(f, s) \in Seq(V)
  BY <1>1, <1>2, IsASeq
<1> QED
  BY <1>1, <1>2, <1>3 DEF Each

LEMMA EachAppend ==
  ASSUME NEW S, NEW V, NEW f, Maps(f, S, V), NEW s \in Seq(S), NEW x \in S
  PROVE  Each(f, Append(s, x)) = Append(Each(f, s), f[x])
<1> DEFINE all == Append(s, x)
           p   == Each(f, all)
           q   == Append(Each(f, s), f[x])
<1>1. /\ all \in Seq(S) /\ Len(s) \in Nat /\ Len(all) = Len(s) + 1
      /\ all[Len(s) + 1] = x /\ \A i \in 1..Len(s) : all[i] = s[i]
  BY AppendProperties, LenProperties
<1>2. /\ p \in Seq(V) /\ Len(p) = Len(s) + 1
      /\ \A i \in 1..(Len(s) + 1) : p[i] = f[all[i]]
  <2> HIDE DEF all
  <2>1. /\ Each(f, all) \in Seq(V) /\ Len(Each(f, all)) = Len(all)
        /\ \A i \in 1..Len(all) : Each(f, all)[i] = f[all[i]]
    BY <1>1, EachType
  <2> QED
    BY <1>1, <2>1
<1>3. /\ Each(f, s) \in Seq(V) /\ Len(Each(f, s)) = Len(s)
      /\ \A i \in 1..Len(s) : Each(f, s)[i] = f[s[i]]
  BY EachType
<1>4. /\ q \in Seq(V) /\ Len(q) = Len(s) + 1
      /\ \A i \in 1..Len(s) : q[i] = f[s[i]]
      /\ q[Len(s) + 1] = f[x]
  <2>1. f[x] \in V
    BY DEF Maps
  <2> HIDE DEF all, p
  <2> QED
    BY <1>1, <1>3, <2>1, AppendProperties
<1> HIDE DEF all, p, q
<1>5. \A i \in 1..(Len(s) + 1) : p[i] = q[i]
  BY <1>1, <1>2, <1>4
<1>6. p = q
  BY <1>2, <1>4, <1>5, SeqEqual
<1> QED
  BY <1>6 DEF all, p, q

LEMMA HeadThenTail ==
  ASSUME NEW S, NEW s \in Seq(S), s # <<>>
  PROVE  s = <<Head(s)>> \o Tail(s)
<1> DEFINE t == <<Head(s)>> \o Tail(s)
<1>1. /\ Head(s) \in S /\ Tail(s) \in Seq(S)
      /\ Len(Tail(s)) = Len(s) - 1
      /\ \A i \in 1..Len(Tail(s)) : Tail(s)[i] = s[i + 1]
      /\ Len(s) \in Nat \ {0} /\ Head(s) = s[1]
  BY HeadTailProperties, EmptySeq, LenProperties
<1>2. <<Head(s)>> \in Seq(S) /\ Len(<<Head(s)>>) = 1 /\ <<Head(s)>>[1] = Head(s)
  BY <1>1
<1>3. /\ t \in Seq(S) /\ Len(t) = Len(s)
      /\ \A i \in 1..Len(s) : t[i] = IF i <= 1 THEN <<Head(s)>>[i] ELSE Tail(s)[i - 1]
  BY <1>1, <1>2, ConcatProperties
<1> HIDE DEF t
<1>4. \A i \in 1..Len(s) : t[i] = s[i]
  BY <1>1, <1>2, <1>3
<1>5. t = s
  BY <1>3, <1>4, SeqEqual
<1> QED
  BY <1>5 DEF t

LEMMA SameHeadSameTail ==
  ASSUME NEW S, NEW s \in Seq(S), NEW t \in Seq(S), NEW x \in S, NEW y \in S,
         <<x>> \o s = <<y>> \o t
  PROVE  x = y /\ s = t
<1>1. /\ <<x>> \in Seq(S) /\ Len(<<x>>) = 1 /\ <<x>>[1] = x
      /\ <<y>> \in Seq(S) /\ Len(<<y>>) = 1 /\ <<y>>[1] = y
  OBVIOUS
<1>2. /\ (<<x>> \o s)[1] = x
      /\ (<<y>> \o t)[1] = y
  BY <1>1, ConcatProperties, LenProperties
<1>3. x = y
  BY <1>2
<1>4. s = t
  BY <1>1, <1>3, ConcatSimplifications
<1> QED
  BY <1>3, <1>4

LEMMA FlatMapFacts ==
  ASSUME NEW S, NEW T, NEW f, Maps(f, S, Seq(T))
  PROVE  /\ FlatMap(f, <<>>) = <<>>
         /\ \A s \in Seq(S) :
              /\ FlatMap(f, s) \in Seq(T)
              /\ \A x \in S : FlatMap(f, Append(s, x)) = FlatMap(f, s) \o f[x]
              /\ \A t \in Seq(S) : FlatMap(f, s \o t) = FlatMap(f, s) \o FlatMap(f, t)
              /\ s # <<>> => FlatMap(f, s) = f[Head(s)] \o FlatMap(f, Tail(s))
<1>1. FlatMap(f, <<>>) = <<>>
  <2>1. Each(f, <<>>) = [i \in 1..0 |-> <<>>]
    BY DEF Each
  <2>2. Each(f, <<>>) = <<>>
    BY <2>1
  <2> QED
    BY <2>2, FlattenFacts DEF FlatMap
<1>2. ASSUME NEW s \in Seq(S) PROVE FlatMap(f, s) \in Seq(T)
  BY EachType, FlattenFacts DEF FlatMap
<1>3. ASSUME NEW s \in Seq(S), NEW x \in S
      PROVE  FlatMap(f, Append(s, x)) = FlatMap(f, s) \o f[x]
  <2>1. Each(f, Append(s, x)) = Append(Each(f, s), f[x])
    BY EachAppend
  <2>2. Each(f, s) \in Seq(Seq(T)) /\ f[x] \in Seq(T)
    BY EachType DEF Maps
  <2> QED
    BY <2>1, <2>2, FlattenFacts DEF FlatMap
<1>4. \A p \in Seq(T), q \in Seq(T), r \in Seq(T) : (p \o q) \o r = p \o (q \o r)
  BY ConcatAssociative
<1>5. ASSUME NEW s \in Seq(S), NEW t \in Seq(S)
      PROVE  FlatMap(f, s \o t) = FlatMap(f, s) \o FlatMap(f, t)
  <2> DEFINE C == {u \in Seq(S) : FlatMap(f, s \o u) = FlatMap(f, s) \o FlatMap(f, u)}
  <2>1. <<>> \in C
    <3>1. s \o <<>> = s /\ FlatMap(f, s) \o <<>> = FlatMap(f, s)
      BY <1>2, ConcatEmptySeq
    <3> QED
      BY <1>1, <3>1, EmptySeq
  <2>2. ASSUME NEW u \in Seq(S), NEW x \in S, u \in C PROVE Append(u, x) \in C
    <3>1. <<x>> \in Seq(S) /\ f[x] \in Seq(T)
      BY DEF Maps
    <3>2. s \o Append(u, x) = Append(s \o u, x) /\ s \o u \in Seq(S)
      <4>1. Append(u, x) = u \o <<x>>
        BY AppendIsConcat
      <4>2. s \o u \in Seq(S)
        BY ConcatProperties
      <4>3. Append(s \o u, x) = (s \o u) \o <<x>>
        BY <4>2, AppendIsConcat
      <4> QED
        BY <3>1, <4>1, <4>2, <4>3, ConcatAssociative
    <3>3. FlatMap(f, s \o Append(u, x)) = (FlatMap(f, s) \o FlatMap(f, u)) \o f[x]
      BY <1>3, <2>2, <3>2
    <3>4. FlatMap(f, Append(u, x)) = FlatMap(f, u) \o f[x]
      BY <1>3
    <3>5. (FlatMap(f, s) \o FlatMap(f, u)) \o f[x] = FlatMap(f, s) \o (FlatMap(f, u) \o f[x])
      <4> DEFINE a == FlatMap(f, s)
                 b == FlatMap(f, u)
                 c == f[x]
      <4>1. a \in Seq(T) /\ b \in Seq(T) /\ c \in Seq(T)
        BY <1>2, <3>1
      <4> HIDE DEF a, b, c
      <4>2. (a \o b) \o c = a \o (b \o c)
        BY <1>4, <4>1
      <4> QED
        BY <4>2 DEF a, b, c
    <3>6. FlatMap(f, s \o Append(u, x)) = FlatMap(f, s) \o FlatMap(f, Append(u, x))
      BY <3>3, <3>4, <3>5
    <3>7. Append(u, x) \in Seq(S)
      BY AppendProperties
    <3> QED
      BY <3>6, <3>7
  <2> HIDE DEF C
  <2>3. t \in C
    BY <2>1, <2>2, SeqSetInduction
  <2> QED
    BY <2>3 DEF C
<1>6. ASSUME NEW s \in Seq(S), s # <<>>
      PROVE  FlatMap(f, s) = f[Head(s)] \o FlatMap(f, Tail(s))
  <2>1. Head(s) \in S /\ Tail(s) \in Seq(S) /\ s = <<Head(s)>> \o Tail(s)
    BY <1>6, HeadTailProperties, HeadThenTail
  <2>2. <<Head(s)>> \in Seq(S) /\ <<Head(s)>> = Append(<<>>, Head(s))
    BY <2>1
  <2>3. FlatMap(f, <<Head(s)>>) = <<>> \o f[Head(s)]
    BY <1>1, <1>3, <2>1, <2>2, EmptySeq
  <2>4. f[Head(s)] \in Seq(T)
    BY <2>1 DEF Maps
  <2>5. FlatMap(f, s) = FlatMap(f, <<Head(s)>>) \o FlatMap(f, Tail(s))
    BY <1>5, <2>1, <2>2
  <2> QED
    BY <2>3, <2>4, <2>5, ConcatEmptySeq
<1> QED
  BY <1>1, <1>2, <1>3, <1>5, <1>6

(* Prefixes.                                                                *)
LEMMA PrefixIs ==
  ASSUME NEW S, NEW s \in Seq(S), NEW t \in Seq(S)
  PROVE  IsPrefix(s, t) <=> /\ Len(s) <= Len(t)
                            /\ \A i \in 1..Len(s) : s[i] = t[i]
<1>1. Len(s) \in Nat /\ Len(t) \in Nat
  BY LenProperties
<1> SUFFICES ASSUME Len(s) <= Len(t)
             PROVE  SubSeq(s, 1, Len(s)) = SubSeq(t, 1, Len(s)) <=>
                       \A i \in 1..Len(s) : s[i] = t[i]
  BY DEF IsPrefix
<1>2. \A i \in 1..Len(s) : s[i] \in S /\ t[i] \in S
  <2> SUFFICES ASSUME NEW i \in 1..Len(s) PROVE s[i] \in S /\ t[i] \in S
    OBVIOUS
  <2>1. i \in 1..Len(t)
    BY <1>1
  <2> QED
    BY <2>1, ElementOfSeq
<1> DEFINE a == SubSeq(s, 1, Len(s))
           b == SubSeq(t, 1, Len(s))
<1>3. /\ a \in Seq(S) /\ Len(a) = Len(s) /\ \A i \in 1..Len(s) : a[i] = s[i]
  <2>1. a = s
    BY SubSeqFull
  <2> QED
    BY <2>1
<1>4. /\ b \in Seq(S) /\ Len(b) = Len(s) /\ \A i \in 1..Len(s) : b[i] = t[i]
  <2>1. /\ b \in Seq(S) /\ Len(b) = (IF 1 <= Len(s) THEN Len(s) - 1 + 1 ELSE 0)
        /\ \A i \in 1..(Len(s) - 1 + 1) : b[i] = t[1 + i - 1]
    BY <1>1, <1>2, SubSeqProperties
  <2> HIDE DEF b
  <2> QED
    BY <1>1, <2>1
<1> HIDE DEF a, b
<1>5. (\A i \in 1..Len(s) : s[i] = t[i]) => a = b
  <2> SUFFICES ASSUME \A i \in 1..Len(s) : s[i] = t[i] PROVE a = b
    OBVIOUS
  <2>1. Len(a) = Len(b) /\ \A i \in 1..Len(a) : a[i] = b[i]
    BY <1>3, <1>4
  <2> QED
    BY <1>3, <1>4, <2>1, SeqEqual
<1>6. a = b => \A i \in 1..Len(s) : s[i] = t[i]
  BY <1>3, <1>4
<1> QED
  BY <1>5, <1>6 DEF a, b

LEMMA PrefixFacts ==
  ASSUME NEW S, NEW s \in Seq(S), NEW t \in Seq(S), NEW u \in Seq(S)
  PROVE  IsPrefix(s, s \o u) /\ (IsPrefix(s, t) => IsPrefix(s, t \o u))
<1>1. Len(s) \in Nat /\ Len(t) \in Nat /\ Len(u) \in Nat
  BY LenProperties
<1>2. ASSUME NEW p \in Seq(S), Len(s) <= Len(p), \A i \in 1..Len(s) : s[i] = p[i]
      PROVE  IsPrefix(s, p \o u)
  <2> DEFINE q == p \o u
  <2>1. Len(p) \in Nat
    BY LenProperties
  <2>2. /\ q \in Seq(S) /\ Len(q) = Len(p) + Len(u)
        /\ \A i \in 1..(Len(p) + Len(u)) :
              q[i] = IF i <= Len(p) THEN p[i] ELSE u[i - Len(p)]
    BY ConcatProperties
  <2> HIDE DEF q
  <2>3. Len(s) <= Len(q) /\ \A i \in 1..Len(s) : s[i] = q[i]
    <3>1. Len(s) <= Len(q)
      BY <1>1, <1>2, <2>1, <2>2
    <3>2. ASSUME NEW i \in 1..Len(s) PROVE s[i] = q[i]
      <4>1. i \in 1..(Len(p) + Len(u)) /\ i <= Len(p)
        BY <1>1, <1>2, <2>1
      <4>2. q[i] = p[i]
        BY <2>2, <4>1
      <4> QED
        BY <1>2, <4>2
    <3> QED
      BY <3>1, <3>2
  <2> QED
    BY <2>2, <2>3, PrefixIs DEF q
<1>3. IsPrefix(s, s \o u)
  BY <1>1, <1>2
<1>4. IsPrefix(s, t) => IsPrefix(s, t \o u)
  BY <1>2, PrefixIs
<1> QED
  BY <1>3, <1>4

-----------------------------------------------------------------------------
(* Recursion on a rank.  G[n][f] is the value at n by the values of f at    *)
(* the members of lower rank.                                               *)

Recurses(f, G, N, rank, k) == \A n \in N : rank[n] < k => f[n] = G[n][f]

LooksDown(G, N, V, rank) ==
    \A n \in N : \A f, g \in [N -> V] :
        (\A m \in N : rank[m] < rank[n] => f[m] = g[m]) => G[n][f] = G[n][g]

(* G defines a function by recursion, and that function.                    *)
WellDefined(G, N, V, rank) ==
    /\ rank \in [N -> Nat]
    /\ V # {}
    /\ \A n \in N : \A f \in [N -> V] : G[n][f] \in V
    /\ LooksDown(G, N, V, rank)
HasSolution(G, N, V) == \E f \in [N -> V] : \A n \in N : f[n] = G[n][f]

LEMMA RecursionUnique ==
  ASSUME NEW N, NEW V, NEW rank \in [N -> Nat], NEW G, LooksDown(G, N, V, rank),
         NEW f \in [N -> V], NEW g \in [N -> V], NEW k \in Nat,
         Recurses(f, G, N, rank, k), Recurses(g, G, N, rank, k)
  PROVE  \A n \in N : rank[n] < k => f[n] = g[n]
<1> DEFINE T == {j \in Nat : j <= k => \A n \in N : rank[n] < j => f[n] = g[n]}
<1>1. 0 \in T
  OBVIOUS
<1>2. ASSUME NEW j \in Nat, j \in T PROVE j + 1 \in T
  <2> SUFFICES ASSUME j + 1 <= k, NEW n \in N, rank[n] < j + 1
               PROVE  f[n] = g[n]
    OBVIOUS
  <2>1. \A m \in N : rank[m] < rank[n] => f[m] = g[m]
    BY <1>2
  <2>2. G[n][f] = G[n][g]
    BY <2>1 DEF LooksDown
  <2>3. f[n] = G[n][f] /\ g[n] = G[n][g]
    BY DEF Recurses
  <2> QED
    BY <2>2, <2>3
<1>3. Nat \subseteq T
  <2> HIDE DEF T
  <2> QED
    BY <1>1, <1>2, NatSetInduction
<1> QED
  BY <1>3

LEMMA RecursionBelow ==
  ASSUME NEW N, NEW V, NEW v \in V, NEW rank \in [N -> Nat],
         NEW G, \A n \in N : \A f \in [N -> V] : G[n][f] \in V,
         LooksDown(G, N, V, rank)
  PROVE  \A k \in Nat : \E f \in [N -> V] : Recurses(f, G, N, rank, k)
<1> DEFINE T == {k \in Nat : \E f \in [N -> V] : Recurses(f, G, N, rank, k)}
<1>1. 0 \in T
  <2> DEFINE const == [n \in N |-> v]
  <2>1. const \in [N -> V] /\ Recurses(const, G, N, rank, 0)
    BY DEF Recurses
  <2> QED
    BY <2>1
<1>2. ASSUME NEW k \in Nat, k \in T PROVE k + 1 \in T
  <2>1. PICK f \in [N -> V] : Recurses(f, G, N, rank, k)
    BY <1>2
  <2> DEFINE g == [n \in N |-> IF rank[n] < k + 1 THEN G[n][f] ELSE f[n]]
  <2>2. g \in [N -> V]
    OBVIOUS
  <2>3. \A n \in N : rank[n] < k => g[n] = f[n]
    BY <2>1 DEF Recurses
  <2>4. ASSUME NEW n \in N, rank[n] < k + 1 PROVE g[n] = G[n][g]
    <3>1. g[n] = G[n][f]
      BY <2>4
    <3>2. \A m \in N : rank[m] < rank[n] => f[m] = g[m]
      BY <2>3, <2>4
    <3> HIDE DEF g
    <3>3. G[n][f] = G[n][g]
      BY <2>2, <3>2 DEF LooksDown
    <3> QED
      BY <3>1, <3>3
  <2> HIDE DEF g
  <2> QED
    BY <2>2, <2>4 DEF Recurses
<1>3. Nat \subseteq T
  <2> HIDE DEF T
  <2> QED
    BY <1>1, <1>2, NatSetInduction
<1> QED
  BY <1>3

LEMMA RecursionExists ==
  ASSUME NEW N, NEW V, NEW G, NEW rank, WellDefined(G, N, V, rank)
  PROVE  HasSolution(G, N, V)
<1> USE DEF WellDefined
<1> DEFINE below == [k \in Nat |->
                        CHOOSE f \in [N -> V] : Recurses(f, G, N, rank, k)]
           F == [n \in N |-> below[rank[n] + 1][n]]
<1>1. \A k \in Nat : below[k] \in [N -> V] /\ Recurses(below[k], G, N, rank, k)
  <2> SUFFICES ASSUME NEW k \in Nat
               PROVE  \E f \in [N -> V] : Recurses(f, G, N, rank, k)
    OBVIOUS
  <2>1. PICK v \in V : TRUE
    OBVIOUS
  <2> QED
    BY <2>1, RecursionBelow
<1> HIDE DEF below
<1>2. \A n \in N : rank[n] \in Nat
  OBVIOUS
<1>3. F \in [N -> V]
  <2> SUFFICES ASSUME NEW n \in N PROVE below[rank[n] + 1][n] \in V
    OBVIOUS
  <2>1. below[rank[n] + 1] \in [N -> V]
    BY <1>1, <1>2
  <2> QED
    BY <2>1
<1>4. ASSUME NEW n \in N PROVE F[n] = G[n][F]
  <2> DEFINE f == below[rank[n] + 1]
  <2>1. f \in [N -> V] /\ Recurses(f, G, N, rank, rank[n] + 1)
    BY <1>1, <1>2
  <2>2. F[n] = f[n]
    OBVIOUS
  <2> HIDE DEF f
  <2>3. f[n] = G[n][f]
    BY <1>2, <2>1 DEF Recurses
  <2>4. ASSUME NEW m \in N, rank[m] < rank[n] PROVE F[m] = f[m]
    <3> DEFINE h == below[rank[m] + 1]
    <3>1. h \in [N -> V] /\ Recurses(h, G, N, rank, rank[m] + 1)
      BY <1>1, <1>2
    <3>2. F[m] = h[m]
      OBVIOUS
    <3> HIDE DEF h
    <3>3. Recurses(f, G, N, rank, rank[m] + 1)
      BY <1>2, <2>1, <2>4 DEF Recurses
    <3>4. rank[m] + 1 \in Nat /\ rank[m] < rank[m] + 1
      BY <1>2
    <3>5. h[m] = f[m]
      BY <2>1, <3>1, <3>3, <3>4, RecursionUnique
    <3> QED
      BY <3>2, <3>5
  <2> HIDE DEF F
  <2>5. G[n][F] = G[n][f]
    BY <1>3, <2>1, <2>4 DEF LooksDown
  <2> QED
    BY <2>2, <2>3, <2>5
<1> HIDE DEF F
<1> QED
  BY <1>3, <1>4 DEF HasSolution

-----------------------------------------------------------------------------
(* Paths: from s, each word of w leads to some place of P, the last to t.   *)
Leads(G, P, s, w, t) ==
    \E at \in [0..Len(w) -> P] :
        /\ at[0] = s
        /\ \A i \in 1..Len(w) : <<at[i - 1], w[i], at[i]>> \in G
        /\ at[Len(w)] = t

LEMMA LeadsStart == ASSUME NEW G, NEW P, NEW s \in P PROVE Leads(G, P, s, <<>>, s)
<1> DEFINE at == [i \in 0..0 |-> s]
<1>1. at \in [0..0 -> P] /\ at[0] = s
  OBVIOUS
<1>2. Len(<<>>) = 0 /\ 1..0 = {}
  OBVIOUS
<1> HIDE DEF at
<1> QED
  BY <1>1, <1>2 DEF Leads

LEMMA LeadsOver ==
  ASSUME NEW G, NEW P, NEW W, NEW w \in Seq(W), NEW s, NEW t, Leads(G, P, s, w, t)
  PROVE  s \in P /\ t \in P /\ (w = <<>> => s = t)
<1>1. PICK at \in [0..Len(w) -> P] : at[0] = s /\ at[Len(w)] = t
  BY DEF Leads
<1>2. Len(w) \in Nat
  OBVIOUS
<1> QED
  BY <1>1, <1>2

LEMMA LeadsExtends ==
  ASSUME NEW G, NEW P, NEW W, NEW w \in Seq(W), NEW b \in W, NEW s, NEW t,
         NEW u \in P, Leads(G, P, s, w, t), <<t, b, u>> \in G
  PROVE  Leads(G, P, s, Append(w, b), u)
<1> DEFINE n == Len(w)
           v == Append(w, b)
<1>1. n \in Nat /\ Len(v) = n + 1 /\ v[n + 1] = b /\ \A i \in 1..n : v[i] = w[i]
  BY AppendProperties
<1>2. PICK at \in [0..n -> P] :
        at[0] = s /\ at[n] = t /\ \A i \in 1..n : <<at[i - 1], w[i], at[i]>> \in G
  BY DEF Leads
<1> DEFINE to == [i \in 0..(n + 1) |-> IF i = n + 1 THEN u ELSE at[i]]
<1> HIDE DEF n, v
<1>3. to \in [0..(n + 1) -> P]
  BY <1>1, <1>2
<1>4. to[0] = s /\ to[n + 1] = u
  BY <1>1, <1>2
<1>5. ASSUME NEW i \in 1..(n + 1) PROVE <<to[i - 1], v[i], to[i]>> \in G
  <2>1. CASE i = n + 1
    <3>1. to[i] = u /\ to[i - 1] = t /\ v[i] = b
      BY <1>1, <1>2, <2>1
    <3> QED
      BY <3>1
  <2>2. CASE i # n + 1
    <3>1. i \in 1..n /\ to[i] = at[i] /\ to[i - 1] = at[i - 1] /\ v[i] = w[i]
      BY <1>1, <1>2, <2>2
    <3> QED
      BY <1>2, <3>1
  <2> QED
    BY <2>1, <2>2
<1> HIDE DEF to
<1>6. Leads(G, P, s, v, u)
  BY <1>1, <1>3, <1>4, <1>5 DEF Leads
<1> QED
  BY <1>6 DEF v

LEMMA LeadsTakes ==
  ASSUME NEW G, NEW P, NEW W, NEW w \in Seq(W), w # <<>>, NEW s, NEW t,
         Leads(G, P, s, w, t)
  PROVE  \E u \in P : <<s, Head(w), u>> \in G /\ Leads(G, P, u, Tail(w), t)
<1> DEFINE n == Len(w)
           v == Tail(w)
<1>1. n \in Nat \ {0} /\ Len(v) = n - 1 /\ Head(w) = w[1]
      /\ \A i \in 1..(n - 1) : v[i] = w[i + 1]
  BY HeadTailProperties, EmptySeq
<1>2. PICK at \in [0..n -> P] :
        at[0] = s /\ at[n] = t /\ \A i \in 1..n : <<at[i - 1], w[i], at[i]>> \in G
  BY DEF Leads
<1> DEFINE to == [i \in 0..(n - 1) |-> at[i + 1]]
<1> HIDE DEF n, v
<1>3. to \in [0..(n - 1) -> P]
  BY <1>1, <1>2
<1>4. to[0] = at[1] /\ to[n - 1] = t /\ at[1] \in P
  BY <1>1, <1>2
<1>5. ASSUME NEW i \in 1..(n - 1) PROVE <<to[i - 1], v[i], to[i]>> \in G
  <2>1. i + 1 \in 1..n /\ to[i] = at[i + 1] /\ to[i - 1] = at[i] /\ v[i] = w[i + 1]
    BY <1>1, <1>2
  <2>2. <<at[(i + 1) - 1], w[i + 1], at[i + 1]>> \in G
    BY <1>2, <2>1
  <2>3. (i + 1) - 1 = i
    OBVIOUS
  <2> HIDE DEF to
  <2> QED
    BY <2>1, <2>2, <2>3, Zenon
<1>6. <<s, w[1], at[1]>> \in G
  <2>1. <<at[1 - 1], w[1], at[1]>> \in G
    BY <1>1, <1>2
  <2> QED
    BY <1>2, <2>1
<1> HIDE DEF to
<1>7. Leads(G, P, at[1], v, t)
  BY <1>1, <1>3, <1>4, <1>5 DEF Leads
<1> QED
  BY <1>1, <1>4, <1>6, <1>7 DEF v

LEMMA LeadsMore ==
  ASSUME NEW G, NEW H, G \subseteq H, NEW P, NEW s, NEW w, NEW t,
         Leads(G, P, s, w, t)
  PROVE  Leads(H, P, s, w, t)
BY DEF Leads
=============================================================================
