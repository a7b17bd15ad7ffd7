---------------------------- MODULE CallsProofs ----------------------------
(***************************************************************************)
(* Proofs about Calls, for all texts, data and replies.                    *)
(*                                                                         *)
(* Sequences come first: what goes through a sequence element by element   *)
(* (filters, replacements, maps) and what is folded along it.  Then the    *)
(* server's reader, and that it reads back what quote! wrote; arguments,   *)
(* commands and the methods of Session, whose commands are each heard as   *)
(* meant; and last the reply, and what the parsers make of it.             *)
(***************************************************************************)
EXTENDS Calls, FiniteSetTheorems, SequenceTheorems, TLAPS

-----------------------------------------------------------------------------
(* Sequences: induction, joining, mapping, and what All picks.             *)

(* A set with 0 and each successor of its numbers holds every number. *)
LEMMA Inductive ==
  ASSUME NEW A, 0 \in A, \A k \in Nat : k \in A => k + 1 \in A
  PROVE  Nat \subseteq A
<1>1. SUFFICES ASSUME NEW m \in Nat, m \notin A PROVE FALSE
  OBVIOUS
<1> DEFINE X == A \cap (0..m)
           Y == X \ {0}
           next == [k \in X |-> k + 1]
<1>2. IsFiniteSet(X) /\ 0 \in X
  <2>1. IsFiniteSet(0..m)
    BY FS_Interval
  <2>2. X \in SUBSET (0..m)
    OBVIOUS
  <2>3. IsFiniteSet(X)
    BY <2>1, <2>2, FS_Subset
  <2>4. QED
    BY <2>3
<1>3. next \in [X -> Y]
  <2>1. ASSUME NEW k \in X PROVE k + 1 \in Y
    <3>1. k \in Nat /\ k \in A /\ k # m /\ k <= m
      BY <1>1
    <3>2. k + 1 \in A
      BY <3>1
    <3>3. QED
      BY <3>1, <3>2
  <2>2. QED
    BY <2>1
<1>4. ~ \E x, y \in X : x # y /\ next[x] = next[y]
  OBVIOUS
<1> HIDE DEF X, next
<1>5. IsFiniteSet(Y) /\ Cardinality(Y) = Cardinality(X) - 1
  BY <1>2, FS_RemoveElement
<1>6. Cardinality(X) \in Nat
  BY <1>2, FS_CardinalityType
<1>7. Cardinality(Y) < Cardinality(X)
  BY <1>5, <1>6
<1> HIDE DEF Y
<1>8. QED
  BY <1>2, <1>3, <1>4, <1>5, <1>7, FS_PigeonHole

(* A set that holds the empty sequence and with each sequence all that     *)
(* are longer by one element holds all sequences.                          *)
LEMMA SeqInductive ==
  ASSUME NEW S, NEW A, <<>> \in A,
         \A s \in Seq(S) : \A e \in S : s \in A => Append(s, e) \in A
  PROVE  Seq(S) \subseteq A
<1> DEFINE B == {n \in Nat : \A s \in Seq(S) : Len(s) = n => s \in A}
<1>1. 0 \in B
  <2>1. \A s \in Seq(S) : Len(s) = 0 => s = <<>>
    BY EmptySeq
  <2>2. QED
    BY <2>1
<1>2. ASSUME NEW n \in Nat, n \in B PROVE n + 1 \in B
  <2>1. ASSUME NEW s \in Seq(S), Len(s) = n + 1 PROVE s \in A
    <3>1. s # <<>>
      BY <2>1, EmptySeq
    <3>2. PICK t \in Seq(S), e \in S : s = Append(t, e)
      BY <3>1, SequenceEmptyOrAppend
    <3>3. Len(t) = n
      <4>1. Len(s) = Len(t) + 1 /\ Len(t) \in Nat
        BY <3>2, AppendProperties, LenProperties
      <4>2. QED
        BY <2>1, <4>1
    <3>4. t \in A
      BY <1>2, <3>3
    <3>5. QED
      BY <3>2, <3>4
  <2>2. QED
    BY <2>1
<1> HIDE DEF B
<1>3. Nat \subseteq B
  BY <1>1, <1>2, Inductive
<1>4. ASSUME NEW s \in Seq(S) PROVE s \in A
  <2>1. Len(s) \in Nat
    BY LenProperties
  <2>2. Len(s) \in B
    BY <1>3, <2>1
  <2>3. QED
    BY <2>2 DEF B
<1>5. QED
  BY <1>4

(* Two sequences of values that take the same steps are the same.          *)
LEMMA Agree ==
  ASSUME NEW n \in Nat, NEW g, NEW h, g[0] = h[0],
         \A i \in 1..n : g[i - 1] = h[i - 1] => g[i] = h[i]
  PROVE  \A i \in 0..n : g[i] = h[i]
<1> DEFINE A == {i \in Nat : i <= n => g[i] = h[i]}
<1>1. 0 \in A
  OBVIOUS
<1>2. ASSUME NEW i \in Nat, i \in A PROVE i + 1 \in A
  <2>1. SUFFICES ASSUME i + 1 <= n PROVE g[i + 1] = h[i + 1]
    OBVIOUS
  <2>2. i + 1 \in 1..n /\ (i + 1) - 1 = i /\ i <= n
    BY <2>1
  <2>3. g[i] = h[i]
    BY <1>2, <2>2
  <2>4. QED
    BY <2>2, <2>3
<1> HIDE DEF A
<1>3. Nat \subseteq A
  BY <1>1, <1>2, Inductive
<1>4. QED
  BY <1>3 DEF A

-----------------------------------------------------------------------------
(* FlattenSeq. *)

(* What the first i sequences make together.                               *)
Joins(g, S, ss) ==
    /\ g \in [0..Len(ss) -> Seq(S)] /\ g[0] = <<>>
    /\ \A i \in 1..Len(ss) : g[i] = g[i - 1] \o ss[i]

(* There is such a sequence of sequences ...                               *)
LEMMA JoinsExist ==
  ASSUME NEW S
  PROVE  \A ss \in Seq(Seq(S)) : \E g : Joins(g, S, ss)
<1> DEFINE A == {ss \in Seq(Seq(S)) : \E g : Joins(g, S, ss)}
<1>1. <<>> \in A
  <2>1. [i \in 0..0 |-> <<>>] \in [0..0 -> Seq(S)]
    BY EmptySeq
  <2>2. <<>> \in Seq(Seq(S)) /\ Len(<<>>) = 0
    BY EmptySeq
  <2>3. Joins([i \in 0..0 |-> <<>>], S, <<>>)
    BY <2>1, <2>2 DEF Joins
  <2>4. QED
    BY <2>2, <2>3
<1>2. ASSUME NEW ss \in Seq(Seq(S)), NEW t \in Seq(S), ss \in A PROVE Append(ss, t) \in A
  <2>1. PICK g : Joins(g, S, ss)
    BY <1>2
  <2> DEFINE n == Len(ss)
             more == Append(ss, t)
             h == [i \in 0..(n + 1) |-> IF i = n + 1 THEN g[n] \o t ELSE g[i]]
  <2>2. /\ n \in Nat /\ more \in Seq(Seq(S)) /\ Len(more) = n + 1 /\ more[n + 1] = t
        /\ \A i \in 1..n : more[i] = ss[i]
    BY AppendProperties, LenProperties
  <2>3. g \in [0..n -> Seq(S)] /\ g[0] = <<>> /\ \A i \in 1..n : g[i] = g[i - 1] \o ss[i]
    BY <2>1 DEF Joins
  <2> HIDE DEF n, more
  <2>4. g[n] \o t \in Seq(S)
    <3>1. g[n] \in Seq(S)
      BY <2>2, <2>3
    <3>2. QED
      BY <3>1, ConcatProperties
  <2>5. h \in [0..(n + 1) -> Seq(S)]
    <3>1. \A i \in 0..(n + 1) : i # n + 1 => g[i] \in Seq(S)
      BY <2>2, <2>3
    <3>2. QED
      BY <2>4, <3>1
  <2>6. h[0] = <<>> /\ h[n + 1] = g[n] \o t /\ \A i \in 0..n : h[i] = g[i]
    BY <2>2, <2>3, SMTT(30)
  <2> HIDE DEF h
  <2>7. ASSUME NEW i \in 1..(n + 1) PROVE h[i] = h[i - 1] \o more[i]
    <3>1. CASE i = n + 1
      <4>1. n \in Nat /\ more[n + 1] = t
        BY <2>2
      <4>2. i - 1 = n /\ n \in 0..n
        BY <3>1, <4>1
      <4>3. QED
        BY <2>6, <3>1, <4>1, <4>2
    <3>2. CASE i # n + 1
      <4>1. i \in 1..n /\ i \in 0..n /\ i - 1 \in 0..n
        BY <2>2, <3>2
      <4>2. QED
        BY <2>2, <2>3, <2>6, <4>1
    <3>3. QED
      BY <3>1, <3>2
  <2>8. Joins(h, S, more)
    BY <2>2, <2>5, <2>6, <2>7 DEF Joins
  <2>9. QED
    BY <2>2, <2>8 DEF more
<1> HIDE DEF A
<1>3. Seq(Seq(S)) \subseteq A
  BY <1>1, <1>2, SeqInductive
<1>4. QED
  BY <1>3 DEF A

(* ... and FlattenSeq is its last one.                                     *)
LEMMA FlattenIs ==
  ASSUME NEW S, NEW ss \in Seq(Seq(S)), NEW g, Joins(g, S, ss)
  PROVE  FlattenSeq(ss) = g[Len(ss)]
<1> DEFINE n == Len(ss)
<1>1. n \in Nat /\ DOMAIN ss = 1..n /\ \A i \in 1..n : ss[i] \in Seq(S)
  BY LenProperties
<1>2. g \in [0..n -> Seq(S)] /\ g[0] = <<>> /\ \A i \in 1..n : g[i] = g[i - 1] \o ss[i]
  BY DEF Joins
<1>3. CASE n = 0
  <2>1. ss = <<>>
    BY <1>3, EmptySeq
  <2>2. FlattenSeq(ss) = ss
    BY <1>3 DEF FlattenSeq
  <2>3. QED
    BY <1>2, <1>3, <2>1, <2>2
<1>4. CASE n # 0
  <2> DEFINE Fits(f) == f = [i \in 1..n |-> IF i = 1 THEN ss[i] ELSE f[i - 1] \o ss[i]]
             h == [i \in 1..n |-> g[i]]
  <2>1. FlattenSeq(ss) = (CHOOSE f : Fits(f))[n]
    BY <1>4, Zenon DEF FlattenSeq
  <2>2. ASSUME NEW i \in 1..n PROVE h[i] = IF i = 1 THEN ss[i] ELSE h[i - 1] \o ss[i]
    <3>1. CASE i = 1
      <4>1. g[1] = <<>> \o ss[1] /\ ss[1] \in Seq(S)
        BY <1>1, <1>2, <3>1, SMTT(30)
      <4>2. <<>> \o ss[1] = ss[1]
        BY <4>1, ConcatEmptySeq
      <4>3. QED
        BY <3>1, <4>1, <4>2
    <3>2. CASE i # 1
      <4>1. i - 1 \in 1..n
        BY <1>1, <3>2
      <4>2. QED
        BY <1>2, <3>2, <4>1
    <3>3. QED
      BY <3>1, <3>2
  <2>3. Fits(h)
    <3>1. h = [i \in 1..n |-> h[i]]
      OBVIOUS
    <3> HIDE DEF h
    <3>2. QED
      BY <2>2, <3>1, Zenon
  <2>4. PICK f : Fits(f) /\ FlattenSeq(ss) = f[n]
    BY <2>1, <2>3, Zenon
  <2>5. \A i \in 1..n : f[i] = IF i = 1 THEN ss[i] ELSE f[i - 1] \o ss[i]
    BY <2>4, Zenon
  <2> DEFINE e == [i \in 0..n |-> IF i = 0 THEN <<>> ELSE f[i]]
  <2>6. e[0] = g[0]
    BY <1>1, <1>2
  <2>7. ASSUME NEW i \in 1..n, e[i - 1] = g[i - 1] PROVE e[i] = g[i]
    <3>1. CASE i = 1
      <4>1. 1 \in 0..n /\ 1 \in 1..n
        BY <1>1, <3>1
      <4>2. e[1] = f[1] /\ h[1] = g[1]
        BY <4>1
      <4> HIDE DEF e, h
      <4>3. f[1] = ss[1] /\ h[1] = ss[1]
        BY <2>2, <2>5, <4>1
      <4>4. QED
        BY <3>1, <4>2, <4>3
    <3>2. CASE i # 1
      <4>1. i \in 0..n /\ i - 1 \in 0..n /\ i # 0 /\ i - 1 # 0
        BY <1>1, <3>2
      <4>2. e[i] = f[i] /\ e[i - 1] = f[i - 1]
        BY <4>1
      <4> HIDE DEF e
      <4>3. f[i] = f[i - 1] \o ss[i]
        BY <2>5, <3>2
      <4>4. QED
        BY <1>2, <2>7, <4>2, <4>3
    <3>3. QED
      BY <3>1, <3>2
  <2>8. \A i \in 0..n : e[i] = g[i]
    <3> HIDE DEF e, n
    <3>1. n \in Nat
      BY <1>1
    <3>2. QED
      BY <2>6, <2>7, <3>1, Agree, ZenonT(30)
  <2>9. n \in 0..n /\ e[n] = f[n]
    BY <1>1, <1>4
  <2>10. QED
    BY <2>4, <2>8, <2>9
<1>5. QED
  BY <1>3, <1>4

(* No sequences make none.                                                 *)
LEMMA FlattenEmpty == FlattenSeq(<<>>) = <<>>
<1>1. Len(<<>>) = 0
  BY EmptySeq
<1>2. QED
  BY <1>1 DEF FlattenSeq

(* One more adds its elements.                                             *)
LEMMA FlattenAppend ==
  ASSUME NEW S, NEW ss \in Seq(Seq(S)), NEW t \in Seq(S)
  PROVE  /\ FlattenSeq(ss) \in Seq(S)
         /\ FlattenSeq(Append(ss, t)) = FlattenSeq(ss) \o t
<1> DEFINE n == Len(ss)
           more == Append(ss, t)
<1>1. /\ n \in Nat /\ more \in Seq(Seq(S)) /\ Len(more) = n + 1 /\ more[n + 1] = t
      /\ \A i \in 1..n : more[i] = ss[i]
  BY AppendProperties, LenProperties
<1>2. PICK g : Joins(g, S, ss)
  BY JoinsExist
<1>3. PICK h : Joins(h, S, more)
  BY <1>1, JoinsExist
<1>4. FlattenSeq(ss) = g[n]
  BY <1>2, FlattenIs
<1>5. FlattenSeq(more) = h[n + 1]
  <2> HIDE DEF more
  <2>1. QED
    BY <1>1, <1>3, FlattenIs
<1>6. g \in [0..n -> Seq(S)] /\ g[0] = <<>> /\ \A i \in 1..n : g[i] = g[i - 1] \o ss[i]
  BY <1>2 DEF Joins
<1> HIDE DEF more
<1>7. /\ h \in [0..(n + 1) -> Seq(S)] /\ h[0] = <<>>
      /\ \A i \in 1..(n + 1) : h[i] = h[i - 1] \o more[i]
  BY <1>1, <1>3 DEF Joins
<1> HIDE DEF n
<1>8. \A i \in 1..n : g[i - 1] = h[i - 1] => g[i] = h[i]
  <2>1. \A i \in 1..n : i \in 1..(n + 1)
    BY <1>1
  <2>2. QED
    BY <1>1, <1>6, <1>7, <2>1
<1>9. \A i \in 0..n : g[i] = h[i]
  <2>1. n \in Nat /\ g[0] = h[0]
    BY <1>1, <1>6, <1>7
  <2>2. QED
    BY <1>8, <2>1, Agree, ZenonT(30)
<1>10. h[n + 1] = h[n] \o t
  <2>1. n + 1 \in 1..(n + 1) /\ (n + 1) - 1 = n
    BY <1>1
  <2>2. QED
    BY <1>1, <1>7, <2>1
<1>11. n \in 0..n
  BY <1>1
<1>12. QED
  BY <1>4, <1>5, <1>6, <1>9, <1>10, <1>11 DEF more

(* A function on 1..n is a sequence of n elements.                         *)
LEMMA IsSeq ==
  ASSUME NEW S, NEW n \in Nat, NEW m \in [1..n -> S]
  PROVE  m \in Seq(S) /\ Len(m) = n
<1>1. m \in Seq(S)
  <2>1. m \in UNION {[1..k -> S] : k \in Nat}
    OBVIOUS
  <2>2. QED
    BY <2>1, SeqDef, Zenon
<1>2. Len(m) \in Nat /\ DOMAIN m = 1..Len(m) /\ DOMAIN m = 1..n
  BY <1>1, LenProperties
<1>3. QED
  <2>1. \A k \in Nat : 1..k = 1..n => k = n
    OBVIOUS
  <2>2. QED
    BY <1>1, <1>2, <2>1

(* What G makes of each element of s. *)
Image(G, s) == [i \in DOMAIN s |-> G[s[i]]]

(* The image of a sequence is a sequence of images ... *)
LEMMA ImageType ==
  ASSUME NEW S, NEW T, NEW G \in [S -> T], NEW s \in Seq(S)
  PROVE  Image(G, s) \in Seq(T)
<1> DEFINE m == [i \in DOMAIN s |-> G[s[i]]]
<1>1. Len(s) \in Nat /\ DOMAIN s = 1..Len(s) /\ \A i \in 1..Len(s) : s[i] \in S
  BY LenProperties
<1>2. m \in [1..Len(s) -> T]
  BY <1>1
<1> HIDE DEF m
<1>4. m \in Seq(T) /\ Len(m) = Len(s)
  <2>1. Len(s) \in Nat
    BY <1>1
  <2>2. QED
    BY <1>2, <2>1, IsSeq, Zenon
<1>5. QED
  BY <1>4, Zenon DEF Image, m

(* ... as long, element by element ... *)
LEMMA ImageElements ==
  ASSUME NEW G, NEW S, NEW s \in Seq(S)
  PROVE  Len(Image(G, s)) = Len(s) /\ \A i \in DOMAIN s : Image(G, s)[i] = G[s[i]]
<1> DEFINE m == [i \in DOMAIN s |-> G[s[i]]]
           T == {G[x] : x \in S}
<1>1. Len(s) \in Nat /\ DOMAIN s = 1..Len(s) /\ \A i \in 1..Len(s) : s[i] \in S
  BY LenProperties
<1>2. m \in [1..Len(s) -> T] /\ \A i \in DOMAIN s : m[i] = G[s[i]]
  BY <1>1
<1> HIDE DEF m, T
<1>3. Len(m) = Len(s)
  BY <1>1, <1>2, IsSeq
<1>4. QED
  BY <1>2, <1>3, Zenon DEF Image, m

(* ... and one more element adds its image. *)
LEMMA ImageAppend ==
  ASSUME NEW S, NEW G, NEW s \in Seq(S)
  PROVE  \A e \in S : Image(G, Append(s, e)) = Append(Image(G, s), G[e])
<1> DEFINE T == {G[x] : x \in S}
<1> DEFINE m == [i \in DOMAIN s |-> G[s[i]]]
<1>1. Len(s) \in Nat /\ DOMAIN s = 1..Len(s) /\ \A i \in 1..Len(s) : s[i] \in S
  BY LenProperties
<1>2. m \in [1..Len(s) -> T]
  BY <1>1
<1>3. m \in Seq(T) /\ Len(m) = Len(s)
  <2> HIDE DEF m
  <2>1. Len(s) \in Nat
    BY <1>1
  <2>2. QED
    BY <1>2, <2>1, IsSeq, Zenon
<1>4. ASSUME NEW e \in S PROVE [i \in DOMAIN Append(s, e) |-> G[Append(s, e)[i]]] = Append(m, G[e])
  <2> DEFINE t == Append(s, e)
             n == [i \in DOMAIN t |-> G[t[i]]]
             a == Append(m, G[e])
  <2>0. /\ Len(t) = Len(s) + 1 /\ DOMAIN t = 1..(Len(s) + 1) /\ t[Len(s) + 1] = e
        /\ \A i \in 1..Len(s) : t[i] = s[i]
    BY <1>1, AppendProperties, LenProperties
  <2> HIDE DEF t
  <2>1. a \in Seq(T) /\ Len(a) = Len(s) + 1
        /\ a[Len(s) + 1] = G[e] /\ \A i \in 1..Len(s) : a[i] = m[i]
    <3>1. G[e] \in T
      OBVIOUS
    <3> HIDE DEF m
    <3>2. QED
      BY <1>1, <1>3, <3>1, AppendProperties
  <2>2. DOMAIN a = 1..(Len(s) + 1)
    <3> HIDE DEF a
    <3>1. QED
      BY <2>1, LenProperties
  <2>3. ASSUME NEW i \in 1..(Len(s) + 1) PROVE n[i] = a[i]
    <3>1. CASE i = Len(s) + 1
      <4>1. n[i] = G[e]
        BY <2>0, <3>1
      <4>2. QED
        BY <2>1, <3>1, <4>1
    <3>2. CASE i # Len(s) + 1
      <4>1. i \in 1..Len(s)
        BY <1>1, <3>2
      <4>2. n[i] = G[s[i]] /\ m[i] = G[s[i]]
        BY <1>1, <2>0, <4>1
      <4>3. QED
        BY <2>1, <4>1, <4>2
    <3>3. QED
      BY <3>1, <3>2
  <2>4. a = [i \in 1..(Len(s) + 1) |-> a[i]]
    <3> HIDE DEF a
    <3>1. QED
      BY <2>1, <2>2
  <2>5. n = [i \in 1..(Len(s) + 1) |-> n[i]]
    BY <2>0
  <2> HIDE DEF a, n
  <2>6. a = n
    BY <2>3, <2>4, <2>5, Zenon
  <2>7. QED
    BY <2>6 DEF a, n, t
<1> HIDE DEF m
<1>5. QED
  BY <1>4, Zenon DEF Image, m

(* What F makes of each element of s, together: a filter, a replacement    *)
(* and a map with several results are such.                                *)
Through(F, s) == FlattenSeq(Image(F, s))

(* Nothing comes from nothing ... *)
LEMMA ThroughEmpty == ASSUME NEW F PROVE Through(F, <<>>) = <<>>
<1>1. DOMAIN <<>> = {}
  BY EmptySeq
<1>2. [i \in DOMAIN <<>> |-> F[<<>>[i]]] = <<>>
  BY <1>1
<1>3. QED
  BY <1>2, FlattenEmpty, Zenon DEF Through, Image

(* ... all that comes is what F makes ... *)
LEMMA ThroughType ==
  ASSUME NEW S, NEW T, NEW F \in [S -> Seq(T)], NEW s \in Seq(S)
  PROVE  Through(F, s) \in Seq(T)
<1>1. Image(F, s) \in Seq(Seq(T))
  BY ImageType
<1>2. <<>> \in Seq(T)
  BY EmptySeq
<1>3. QED
  BY <1>1, <1>2, FlattenAppend, Zenon DEF Through

(* ... one more element adds what F makes of it ... *)
LEMMA ThroughAppend ==
  ASSUME NEW S, NEW T, NEW F \in [S -> Seq(T)], NEW s \in Seq(S), NEW e \in S
  PROVE  Through(F, Append(s, e)) = Through(F, s) \o F[e]
<1>1. Image(F, s) \in Seq(Seq(T))
  BY ImageType
<1>2. Image(F, Append(s, e)) = Append(Image(F, s), F[e])
  BY ImageAppend, Zenon
<1>3. F[e] \in Seq(T)
  OBVIOUS
<1>4. QED
  BY <1>1, <1>2, <1>3, FlattenAppend, Zenon DEF Through

(* ... and two sequences add up. *)
LEMMA ThroughConcat ==
  ASSUME NEW S, NEW T, NEW F \in [S -> Seq(T)], NEW s \in Seq(S)
  PROVE  \A t \in Seq(S) : Through(F, s \o t) = Through(F, s) \o Through(F, t)
<1>a. \A t \in Seq(S) : \A e \in S :
         Through(F, t) \in Seq(T) /\ Through(F, Append(t, e)) = Through(F, t) \o F[e]
  BY ThroughType, ThroughAppend
<1> DEFINE A == {t \in Seq(S) : Through(F, s \o t) = Through(F, s) \o Through(F, t)}
<1>0. Through(F, s) \in Seq(T) /\ \A t \in Seq(S) : Through(F, t) \in Seq(T)
  BY ThroughType
<1>1. <<>> \in A
  <2>1. s \o <<>> = s /\ Through(F, s) \o <<>> = Through(F, s)
    BY <1>0, ConcatEmptySeq
  <2>2. QED
    BY <2>1, ThroughEmpty, EmptySeq
<1>2. ASSUME NEW t \in Seq(S), NEW e \in S, t \in A PROVE Append(t, e) \in A
  <2>1. s \o Append(t, e) = Append(s \o t, e) /\ s \o t \in Seq(S) /\ Append(t, e) \in Seq(S)
    BY AppendIsConcat, ConcatAssociative, ConcatProperties, AppendProperties, <<e>> \in Seq(S)
  <2>2. Through(F, Append(s \o t, e)) = Through(F, s \o t) \o F[e]
    BY <2>1, <1>a, Zenon
  <2>3. Through(F, Append(t, e)) = Through(F, t) \o F[e]
    BY <1>a, Zenon
  <2>4. Through(F, s) \o Through(F, t) \o F[e] = Through(F, s) \o (Through(F, t) \o F[e])
    BY <1>0, ConcatAssociative, F[e] \in Seq(T), SMTT(30)
  <2>5. Through(F, s \o t) = Through(F, s) \o Through(F, t)
    BY <1>2
  <2>6. QED
    BY <2>1, <2>2, <2>3, <2>4, <2>5
<1> HIDE DEF A
<1>3. Seq(S) \subseteq A
  BY <1>1, <1>2, SeqInductive
<1>4. QED
  BY <1>3 DEF A

(* The elements of two sequences joined. *)
LEMMA RangeConcat ==
  ASSUME NEW S, NEW s \in Seq(S), NEW t \in Seq(S)
  PROVE  ToSet(s \o t) = ToSet(s) \cup ToSet(t)
<1>1. /\ Len(s) \in Nat /\ Len(t) \in Nat
      /\ s \o t \in Seq(S) /\ Len(s \o t) = Len(s) + Len(t)
      /\ \A i \in 1..(Len(s) + Len(t)) :
             (s \o t)[i] = IF i <= Len(s) THEN s[i] ELSE t[i - Len(s)]
  BY ConcatProperties, LenProperties
<1>2. DOMAIN s = 1..Len(s) /\ DOMAIN t = 1..Len(t) /\ DOMAIN (s \o t) = 1..(Len(s) + Len(t))
  BY <1>1, LenProperties
<1> DEFINE u == s \o t
<1> HIDE DEF u
<1>3. \A i \in 1..Len(s) : i \in 1..(Len(s) + Len(t)) /\ u[i] = s[i]
  BY <1>1 DEF u
<1>4. \A j \in 1..Len(t) : Len(s) + j \in 1..(Len(s) + Len(t)) /\ u[Len(s) + j] = t[j]
  BY <1>1 DEF u
<1>5. \A i \in 1..(Len(s) + Len(t)) :
         \/ i \in 1..Len(s) /\ u[i] = s[i]
         \/ i - Len(s) \in 1..Len(t) /\ u[i] = t[i - Len(s)]
  BY <1>1 DEF u
<1>6. DOMAIN u = 1..(Len(s) + Len(t))
  BY <1>2 DEF u
<1>7. ToSet(u) \subseteq ToSet(s) \cup ToSet(t)
  BY <1>2, <1>5, <1>6 DEF ToSet
<1>8. ToSet(s) \subseteq ToSet(u) /\ ToSet(t) \subseteq ToSet(u)
  BY <1>2, <1>3, <1>4, <1>6 DEF ToSet
<1>9. QED
  BY <1>7, <1>8 DEF u

(* The elements that F makes are those it makes of any element. *)
LEMMA ThroughRange ==
  ASSUME NEW S, NEW T, NEW F \in [S -> Seq(T)]
  PROVE  \A s \in Seq(S) : ToSet(Through(F, s)) = UNION {ToSet(F[e]) : e \in ToSet(s)}
<1>a. \A t \in Seq(S) : \A e \in S :
         Through(F, t) \in Seq(T) /\ Through(F, Append(t, e)) = Through(F, t) \o F[e]
  BY ThroughType, ThroughAppend
<1> DEFINE A == {s \in Seq(S) : ToSet(Through(F, s)) = UNION {ToSet(F[e]) : e \in ToSet(s)}}
<1>0. ToSet(<<>>) = {}
  BY EmptySeq DEF ToSet
<1>1. <<>> \in A
  BY <1>0, ThroughEmpty, EmptySeq
<1>2. ASSUME NEW s \in Seq(S), NEW e \in S, s \in A PROVE Append(s, e) \in A
  <2>1. Append(s, e) = s \o <<e>> /\ <<e>> \in Seq(S) /\ Append(s, e) \in Seq(S)
    BY AppendIsConcat, AppendProperties
  <2>2. ToSet(Append(s, e)) = ToSet(s) \cup ToSet(<<e>>)
    BY <2>1, RangeConcat, ZenonT(30)
  <2>3. ToSet(<<e>>) = {e}
    BY DEF ToSet
  <2>4. ToSet(Through(F, Append(s, e))) = ToSet(Through(F, s)) \cup ToSet(F[e])
    <3>1. Through(F, Append(s, e)) = Through(F, s) \o F[e] /\ Through(F, s) \in Seq(T)
      BY <1>a, Zenon
    <3>2. F[e] \in Seq(T)
      OBVIOUS
    <3>3. QED
      BY <3>1, <3>2, RangeConcat
  <2>5. ToSet(Through(F, s)) = UNION {ToSet(F[x]) : x \in ToSet(s)}
    BY <1>2
  <2>6. UNION {ToSet(F[x]) : x \in ToSet(s) \cup {e}}
            = (UNION {ToSet(F[x]) : x \in ToSet(s)}) \cup ToSet(F[e])
    OBVIOUS
  <2>7. QED
    BY <2>1, <2>2, <2>3, <2>4, <2>5, <2>6
<1> HIDE DEF A
<1>3. Seq(S) \subseteq A
  BY <1>1, <1>2, SeqInductive
<1>4. QED
  BY <1>3 DEF A

(* All gives the data of the responses of a kind ...                       *)
LEMMA AllEmpty == ASSUME NEW kind PROVE All(kind, <<>>) = <<>>
<1> DEFINE mine == Those(<<>>, LAMBDA r : r.kind = kind)
<1>1. DOMAIN <<>> = {}
  BY EmptySeq
<1>2. mine = FlattenSeq(<<>>)
  <2>1. [i \in DOMAIN <<>> |-> IF <<>>[i].kind = kind THEN <<<<>>[i]>> ELSE <<>>] = <<>>
    BY <1>1
  <2>2. QED
    BY <2>1, Zenon DEF Those
<1>3. mine = <<>>
  BY <1>2, FlattenEmpty, Zenon
<1>4. All(kind, <<>>) = [i \in DOMAIN mine |-> mine[i].data]
  BY Zenon DEF All, Mapped
<1>5. QED
  BY <1>1, <1>3, <1>4

(* The responses of a kind in a set, their data, and the two steps of All
   as functions: pick, then read. *)
OfKind(kind, S) == {r \in S : r.kind = kind}
DataOf(kind, S) == {r.data : r \in OfKind(kind, S)}
Picks(kind, S) == [r \in S |-> IF r.kind = kind THEN <<r>> ELSE <<>>]
Reads(kind, S) == [r \in OfKind(kind, S) |-> r.data]

(* Picking keeps the responses of the kind ... *)
LEMMA PicksType == ASSUME NEW S, NEW kind PROVE Picks(kind, S) \in [S -> Seq(OfKind(kind, S))]
<1>1. \A r \in S : r.kind = kind => <<r>> \in Seq(OfKind(kind, S))
  BY DEF OfKind
<1>2. <<>> \in Seq(OfKind(kind, S))
  BY EmptySeq
<1>3. QED
  BY <1>1, <1>2 DEF Picks

(* ... and reading gives their data. *)
LEMMA ReadsType ==
  ASSUME NEW S, NEW kind PROVE Reads(kind, S) \in [OfKind(kind, S) -> DataOf(kind, S)]
  BY DEF Reads, DataOf

(* All picks and reads. *)
LEMMA AllIs ==
  ASSUME NEW S, NEW kind, NEW s \in Seq(S)
  PROVE  All(kind, s) = Image(Reads(kind, S), Through(Picks(kind, S), s))
<1> DEFINE mine == Those(s, LAMBDA x : x.kind = kind)
<1>1. mine = Through(Picks(kind, S), s)
  <2>1. DOMAIN s = 1..Len(s) /\ \A i \in DOMAIN s : s[i] \in S
    BY LenProperties
  <2>2. [i \in DOMAIN s |-> IF s[i].kind = kind THEN <<s[i]>> ELSE <<>>]
            = [i \in DOMAIN s |-> Picks(kind, S)[s[i]]]
    BY <2>1 DEF Picks
  <2>3. mine = FlattenSeq([i \in DOMAIN s |-> IF s[i].kind = kind THEN <<s[i]>> ELSE <<>>])
    BY Zenon DEF Those
  <2> HIDE DEF mine
  <2>4. QED
    BY <2>2, <2>3, Zenon DEF Through, Image
<1>2. Through(Picks(kind, S), s) \in Seq(OfKind(kind, S))
  BY PicksType, ThroughType, Zenon
<1>3. All(kind, s) = [i \in DOMAIN mine |-> mine[i].data]
  BY Zenon DEF All, Mapped
<1> HIDE DEF mine
<1>4. DOMAIN mine = 1..Len(mine) /\ \A i \in DOMAIN mine : mine[i] \in OfKind(kind, S)
  BY <1>1, <1>2, LenProperties
<1>5. [i \in DOMAIN mine |-> mine[i].data] = [i \in DOMAIN mine |-> Reads(kind, S)[mine[i]]]
  BY <1>4 DEF Reads
<1>6. QED
  BY <1>1, <1>3, <1>5, Zenon DEF Image

(* All gives data of responses of the kind ... *)
LEMMA AllType ==
  ASSUME NEW S, NEW kind, NEW s \in Seq(S)
  PROVE  All(kind, s) \in Seq(DataOf(kind, S))
<1>1. Through(Picks(kind, S), s) \in Seq(OfKind(kind, S))
  BY PicksType, ThroughType, Zenon
<1>2. Image(Reads(kind, S), Through(Picks(kind, S), s)) \in Seq(DataOf(kind, S))
  BY <1>1, ReadsType, ImageType, Zenon
<1>3. QED
  BY <1>2, AllIs, Zenon

(* ... one more for each response of the kind ... *)
LEMMA AllAppend ==
  ASSUME NEW S, NEW kind, NEW s \in Seq(S), NEW r \in S
  PROVE  All(kind, Append(s, r)) = IF r.kind = kind THEN Append(All(kind, s), r.data)
                                   ELSE All(kind, s)
<1> DEFINE F == Picks(kind, S)
           G == Reads(kind, S)
           K == OfKind(kind, S)
<1>1. Append(s, r) \in Seq(S)
  BY AppendProperties
<1>2. All(kind, s) = Image(G, Through(F, s))
      /\ All(kind, Append(s, r)) = Image(G, Through(F, Append(s, r)))
  BY <1>1, AllIs, Zenon
<1>3. F \in [S -> Seq(K)]
  BY PicksType
<1>4. Through(F, s) \in Seq(K) /\ Through(F, Append(s, r)) = Through(F, s) \o F[r]
  BY <1>3, ThroughType, ThroughAppend, Zenon
<1>5. CASE r.kind = kind
  <2>1. F[r] = <<r>> /\ r \in K /\ G[r] = r.data
    BY <1>5 DEF Picks, Reads, OfKind
  <2> HIDE DEF F, G, K
  <2>2. Through(F, Append(s, r)) = Append(Through(F, s), r)
    BY <1>4, <2>1, AppendIsConcat
  <2>3. Image(G, Append(Through(F, s), r)) = Append(Image(G, Through(F, s)), G[r])
    BY <1>4, <2>1, ImageAppend, Zenon
  <2>4. QED
    BY <1>2, <1>5, <2>1, <2>2, <2>3, Zenon
<1>6. CASE r.kind # kind
  <2>1. F[r] = <<>>
    BY <1>6 DEF Picks
  <2> HIDE DEF F, G, K
  <2>2. Through(F, Append(s, r)) = Through(F, s)
    BY <1>4, <2>1, ConcatEmptySeq
  <2>3. QED
    BY <1>2, <1>6, <2>2, Zenon
<1>7. QED
  BY <1>5, <1>6, Zenon

(* ... as many as there are.                                               *)
CountIn(kind, s) == Cardinality({i \in DOMAIN s : s[i].kind = kind})

(* ... so it gives as many as there are of that kind. *)
LEMMA AllCounts ==
  ASSUME NEW S, NEW kind
  PROVE  \A s \in Seq(S) : /\ IsFiniteSet({i \in DOMAIN s : s[i].kind = kind})
                           /\ Len(All(kind, s)) = CountIn(kind, s)
<1> DEFINE I(s) == {i \in DOMAIN s : s[i].kind = kind}
           A == {s \in Seq(S) : IsFiniteSet(I(s)) /\ Len(All(kind, s)) = CountIn(kind, s)}
<1>1. <<>> \in A
  <2>1. I(<<>>) = {} /\ Len(<<>>) = 0 /\ <<>> \in Seq(S)
    BY EmptySeq
  <2>2. QED
    BY <2>1, AllEmpty, FS_EmptySet DEF CountIn
<1>2. ASSUME NEW s \in Seq(S), NEW r \in S, s \in A PROVE Append(s, r) \in A
  <2> DEFINE t == Append(s, r)
  <2>1. /\ Len(s) \in Nat /\ DOMAIN s = 1..Len(s)
        /\ t \in Seq(S) /\ DOMAIN t = 1..(Len(s) + 1) /\ t[Len(s) + 1] = r
        /\ \A i \in 1..Len(s) : t[i] = s[i]
    BY AppendProperties, LenProperties
  <2>a. /\ All(kind, s) \in Seq(DataOf(kind, S))
        /\ All(kind, t) = IF r.kind = kind THEN Append(All(kind, s), r.data) ELSE All(kind, s)
    <3>1. All(kind, s) \in Seq(DataOf(kind, S))
      BY AllType, Zenon
    <3>2. All(kind, Append(s, r)) = IF r.kind = kind THEN Append(All(kind, s), r.data)
                                    ELSE All(kind, s)
      BY AllAppend
    <3>3. QED
      BY <3>1, <3>2
  <2> HIDE DEF t
  <2>2. IsFiniteSet(I(s)) /\ Len(All(kind, s)) = Cardinality(I(s))
    BY <1>2 DEF CountIn
  <2>3. Cardinality(I(s)) \in Nat /\ Len(s) + 1 \notin I(s)
    BY <2>1, <2>2, FS_CardinalityType
  <2>4. CASE r.kind = kind
    <3>1. I(t) = I(s) \cup {Len(s) + 1}
      BY <2>1, <2>4
    <3> HIDE DEF I
    <3>2. IsFiniteSet(I(t)) /\ Cardinality(I(t)) = Cardinality(I(s)) + 1
      BY <2>2, <2>3, <3>1, FS_AddElement
    <3>3. Len(All(kind, t)) = Len(All(kind, s)) + 1
      <4>1. /\ All(kind, s) \in Seq(DataOf(kind, S))
            /\ All(kind, t) = Append(All(kind, s), r.data)
        BY <2>4, <2>a
      <4>2. r.data \in DataOf(kind, S)
        BY <2>4 DEF DataOf, OfKind
      <4>3. QED
        BY <4>1, <4>2, AppendProperties
    <3>4. QED
      BY <2>1, <2>2, <3>2, <3>3 DEF CountIn, t, I
  <2>5. CASE r.kind # kind
    <3>1. I(t) = I(s)
      BY <2>1, <2>5
    <3> HIDE DEF I
    <3>2. All(kind, t) = All(kind, s)
      BY <2>5, <2>a
    <3>3. QED
      BY <2>1, <2>2, <3>1, <3>2 DEF CountIn, t, I
  <2>6. QED
    BY <2>4, <2>5
<1> HIDE DEF A
<1>3. Seq(S) \subseteq A
  BY <1>1, <1>2, SeqInductive
<1>4. QED
  BY <1>3 DEF A

-----------------------------------------------------------------------------
(* Folds along a sequence.                                                 *)

(* The steps of the folds: a line read by the character, a mailbox by the  *)
(* response to a SELECT, by the item of a STATUS, and by the STATUS.       *)
Step(kind, b, e) ==
    CASE kind = "scan"   -> Scan(b, e)
      [] kind = "select" -> OnSelectResponse(b, e)
      [] kind = "field"  -> SetField(b, e)
      [] kind = "status" -> OnStatusItems(b, e.items)

(* The recursive function of FoldLeft: what q adds up to from b, over each *)
(* subset of its places.                                                   *)
Runs(kind, it, b, q, n) ==
    it = [s \in SUBSET (1..n) |->
              IF s = {} THEN b ELSE Step(kind, it[s \ {Max(s)}], q[Max(s)])]

(* There is such a function.                                               *)
LEMMA RunsExist ==
  ASSUME NEW kind, NEW b, NEW q
  PROVE  \A n \in Nat : \E it : Runs(kind, it, b, q, n)
<1> DEFINE A == {n \in Nat : \E it : Runs(kind, it, b, q, n)}
<1>1. 0 \in A
  <2>1. SUBSET (1..0) = {{}}
    OBVIOUS
  <2>2. Runs(kind, [s \in SUBSET (1..0) |-> b], b, q, 0)
    BY <2>1 DEF Runs
  <2>3. QED
    BY <2>2
<1>2. ASSUME NEW n \in Nat, n \in A PROVE n + 1 \in A
  <2>1. PICK it : Runs(kind, it, b, q, n)
    BY <1>2
  <2> DEFINE more == [s \in SUBSET (1..(n + 1)) |->
                 IF s \subseteq 1..n THEN it[s] ELSE Step(kind, it[s \ {n + 1}], q[n + 1])]
  <2>2. ASSUME NEW s \in SUBSET (1..(n + 1)), s # {}
        PROVE  more[s] = Step(kind, more[s \ {Max(s)}], q[Max(s)])
    <3>1. CASE s \subseteq 1..n
      <4>1. s \ {Max(s)} \in SUBSET (1..n) /\ s \ {Max(s)} \in SUBSET (1..(n + 1))
        BY <3>1
      <4>2. more[s] = it[s] /\ more[s \ {Max(s)}] = it[s \ {Max(s)}]
        BY <3>1, <4>1
      <4>3. s \in SUBSET (1..n)
        BY <3>1
      <4>4. it[s] = Step(kind, it[s \ {Max(s)}], q[Max(s)])
        BY <2>1, <2>2, <4>3, Zenon DEF Runs
      <4>5. QED
        BY <4>2, <4>4
    <3>2. CASE ~(s \subseteq 1..n)
      <4>1. n + 1 \in s /\ \A x \in s : n + 1 >= x
        BY <3>2
      <4>2. Max(s) = n + 1
        <5>1. \A x \in s : (\A y \in s : x >= y) => x = n + 1
          BY <4>1
        <5>2. QED
          BY <4>1, <5>1 DEF Max
      <4>3. s \ {n + 1} \in SUBSET (1..n) /\ s \ {n + 1} \in SUBSET (1..(n + 1))
        OBVIOUS
      <4>4. more[s \ {n + 1}] = it[s \ {n + 1}]
        BY <4>3
      <4>5. QED
        BY <3>2, <4>2, <4>4
    <3>3. QED
      BY <3>1, <3>2
  <2>3. more[{}] = b
    <3>1. {} \in SUBSET (1..n) /\ {} \in SUBSET (1..(n + 1))
      OBVIOUS
    <3>2. it[{}] = b
      BY <2>1, <3>1, Zenon DEF Runs
    <3>3. QED
      BY <3>1, <3>2
  <2>4. DOMAIN more = SUBSET (1..(n + 1))
    OBVIOUS
  <2>5. Runs(kind, more, b, q, n + 1)
    <3>1. more = [s \in SUBSET (1..(n + 1)) |-> more[s]]
      OBVIOUS
    <3> HIDE DEF more
    <3>2. QED
      BY <2>2, <2>3, <3>1, Zenon DEF Runs
  <2>6. QED
    BY <2>5
<1> HIDE DEF A
<1>3. Nat \subseteq A
  BY <1>1, <1>2, Inductive
<1>4. QED
  BY <1>3 DEF A

(* What the first i elements of q make of b.                               *)
Walks(kind, g, b, q) ==
    g[0] = b /\ \A i \in 1..Len(q) : g[i] = Step(kind, g[i - 1], q[i])

(* The fold over a whole sequence ends where a walk along it ends. *)
LEMMA RunsWalk ==
  ASSUME NEW kind, NEW b, NEW S, NEW q \in Seq(S), NEW iter, Runs(kind, iter, b, q, Len(q)),
         NEW g, Walks(kind, g, b, q)
  PROVE  iter[1..Len(q)] = g[Len(q)]
<1> DEFINE n == Len(q)
<1>1. n \in Nat
  BY LenProperties
<1>2. /\ iter = [s \in SUBSET (1..n) |->
                     IF s = {} THEN b ELSE Step(kind, iter[s \ {Max(s)}], q[Max(s)])]
      /\ g[0] = b /\ \A i \in 1..n : g[i] = Step(kind, g[i - 1], q[i])
  BY Zenon DEF Runs, Walks
<1> HIDE DEF n
<1> DEFINE A == {i \in Nat : i <= n => iter[1..i] = g[i]}
<1>3. 0 \in A
  <2>1. 1..0 = {} /\ {} \in SUBSET (1..n)
    OBVIOUS
  <2>2. iter[{}] = b
    BY <1>2, <2>1, Zenon
  <2>3. QED
    BY <1>2, <2>1, <2>2
<1>4. ASSUME NEW i \in Nat, i \in A PROVE i + 1 \in A
  <2>1. SUFFICES ASSUME i + 1 <= n PROVE iter[1..(i + 1)] = g[i + 1]
    OBVIOUS
  <2>2. iter[1..i] = g[i]
    BY <1>1, <1>4, <2>1
  <2> DEFINE s == 1..(i + 1)
  <2>3. s \in SUBSET (1..n) /\ s # {} /\ s \ {i + 1} = 1..i
    <3> HIDE DEF A
    <3>1. s \in SUBSET (1..n)
      BY <1>1, <2>1
    <3>2. i + 1 \in s
      OBVIOUS
    <3>3. s \ {i + 1} = 1..i
      OBVIOUS
    <3> HIDE DEF s
    <3>4. QED
      BY <3>1, <3>2, <3>3
  <2>4. Max(s) = i + 1
    <3>1. i + 1 \in s /\ \A x \in s : i + 1 >= x
      OBVIOUS
    <3>2. \A x \in s : (\A y \in s : x >= y) => x = i + 1
      BY <3>1
    <3>3. QED
      BY <3>1, <3>2 DEF Max
  <2> HIDE DEF s
  <2>5. iter[s] = Step(kind, iter[s \ {Max(s)}], q[Max(s)])
    BY <1>2, <2>3, Zenon
  <2>6. g[i + 1] = Step(kind, g[i], q[i + 1])
    <3>1. i + 1 \in 1..n /\ (i + 1) - 1 = i
      BY <1>1, <2>1
    <3>2. QED
      BY <1>2, <3>1
  <2>7. QED
    BY <2>2, <2>3, <2>4, <2>5, <2>6 DEF s
<1> HIDE DEF A
<1>5. Nat \subseteq A
  BY <1>3, <1>4, Inductive
<1>6. QED
  BY <1>1, <1>5 DEF A, n

(* There is a walk along every sequence. *)
LEMMA WalkExists ==
  ASSUME NEW kind, NEW b, NEW S
  PROVE  \A q \in Seq(S) : \E g : Walks(kind, g, b, q)
<1> DEFINE A == {q \in Seq(S) : \E g : Walks(kind, g, b, q)}
<1>1. <<>> \in A
  <2>1. Len(<<>>) = 0 /\ <<>> \in Seq(S)
    BY EmptySeq
  <2>2. Walks(kind, [i \in {0} |-> b], b, <<>>)
    BY <2>1 DEF Walks
  <2>3. QED
    BY <2>1, <2>2
<1>2. ASSUME NEW q \in Seq(S), NEW e \in S, q \in A PROVE Append(q, e) \in A
  <2>1. PICK g : Walks(kind, g, b, q)
    BY <1>2
  <2> DEFINE n == Len(q)
             more == Append(q, e)
             h == [i \in 0..(n + 1) |-> IF i = n + 1 THEN Step(kind, g[n], e) ELSE g[i]]
  <2>2. /\ n \in Nat /\ more \in Seq(S) /\ Len(more) = n + 1 /\ more[n + 1] = e
        /\ \A i \in 1..n : more[i] = q[i]
    BY AppendProperties, LenProperties
  <2>3. g[0] = b /\ \A i \in 1..n : g[i] = Step(kind, g[i - 1], q[i])
    BY <2>1, Zenon DEF Walks
  <2> HIDE DEF n, more
  <2>4. h[0] = b /\ h[n + 1] = Step(kind, g[n], e) /\ \A i \in 0..n : h[i] = g[i]
    BY <2>2, <2>3
  <2> HIDE DEF h
  <2>5. ASSUME NEW i \in 1..(n + 1) PROVE h[i] = Step(kind, h[i - 1], more[i])
    <3>1. CASE i = n + 1
      <4>1. i - 1 = n /\ n \in 0..n
        BY <2>2, <3>1
      <4>2. QED
        BY <2>2, <2>4, <3>1, <4>1
    <3>2. CASE i # n + 1
      <4>1. i \in 1..n /\ i \in 0..n /\ i - 1 \in 0..n
        BY <2>2, <3>2
      <4>2. QED
        BY <2>2, <2>3, <2>4, <4>1
    <3>3. QED
      BY <3>1, <3>2
  <2>6. Walks(kind, h, b, more)
    BY <2>2, <2>4, <2>5 DEF Walks
  <2>7. QED
    BY <2>2, <2>6 DEF more
<1> HIDE DEF A
<1>3. Seq(S) \subseteq A
  BY <1>1, <1>2, SeqInductive
<1>4. QED
  BY <1>3 DEF A

(* What walks over one more element walks over those before it.            *)
LEMMA WalkAppend ==
  ASSUME NEW kind, NEW b, NEW S, NEW q \in Seq(S), NEW e \in S,
         NEW g, Walks(kind, g, b, Append(q, e))
  PROVE  Walks(kind, g, b, q) /\ g[Len(Append(q, e))] = Step(kind, g[Len(q)], e)
<1> DEFINE n == Len(q)
           more == Append(q, e)
<1>1. /\ n \in Nat /\ Len(more) = n + 1 /\ more[n + 1] = e
      /\ \A i \in 1..n : more[i] = q[i]
  BY AppendProperties, LenProperties
<1>2. g[0] = b /\ \A i \in 1..(n + 1) : g[i] = Step(kind, g[i - 1], more[i])
  <2>1. g[0] = b /\ \A i \in 1..Len(more) : g[i] = Step(kind, g[i - 1], more[i])
    BY Zenon DEF Walks
  <2>2. QED
    BY <1>1, <2>1
<1> HIDE DEF n, more
<1>3. \A i \in 1..n : i \in 1..(n + 1)
  BY <1>1
<1>4. n + 1 \in 1..(n + 1) /\ (n + 1) - 1 = n
  BY <1>1
<1>5. Walks(kind, g, b, q)
  BY <1>1, <1>2, <1>3 DEF Walks, n
<1>6. QED
  BY <1>1, <1>2, <1>4, <1>5 DEF n, more

(* FoldLeft goes through its sequence from the left.                       *)
LEMMA ScanWalks ==
  ASSUME NEW b, NEW S, NEW q \in Seq(S), NEW g, Walks("scan", g, b, q)
  PROVE  FoldLeft(Scan, b, q) = g[Len(q)]
<1> DEFINE n == Len(q)
           Fits(it) == it = [s \in SUBSET (1..n) |->
                                 IF s = {} THEN b ELSE Scan(it[s \ {Max(s)}], q[Max(s)])]
<1>1. n \in Nat /\ DOMAIN q = 1..n
  BY LenProperties
<1>2. FoldLeft(Scan, b, q) = (CHOOSE it : Fits(it))[1..n]
  BY <1>1, Zenon DEF FoldLeft, MapThenFoldSet
<1>3. \A it : Fits(it) <=> Runs("scan", it, b, q, n)
  BY DEF Runs, Step
<1>4. \E it : Fits(it)
  BY <1>1, <1>3, RunsExist, Zenon
<1> HIDE DEF Fits
<1>5. PICK it : Fits(it) /\ FoldLeft(Scan, b, q) = it[1..n]
  BY <1>2, <1>4, Zenon
<1>6. Runs("scan", it, b, q, n)
  BY <1>3, <1>5, Zenon
<1>7. QED
  BY <1>5, <1>6, RunsWalk, Zenon

(* The fold of a SELECT's responses is a walk ... *)
LEMMA SelectWalks ==
  ASSUME NEW b, NEW S, NEW q \in Seq(S), NEW g, Walks("select", g, b, q)
  PROVE  FoldLeft(OnSelectResponse, b, q) = g[Len(q)]
<1> DEFINE n == Len(q)
           Fits(it) == it = [s \in SUBSET (1..n) |->
                                 IF s = {} THEN b
                                 ELSE OnSelectResponse(it[s \ {Max(s)}], q[Max(s)])]
<1>1. n \in Nat /\ DOMAIN q = 1..n
  BY LenProperties
<1>2. FoldLeft(OnSelectResponse, b, q) = (CHOOSE it : Fits(it))[1..n]
  BY <1>1, Zenon DEF FoldLeft, MapThenFoldSet
<1>3. \A it : Fits(it) <=> Runs("select", it, b, q, n)
  BY DEF Runs, Step
<1>4. \E it : Fits(it)
  BY <1>1, <1>3, RunsExist, Zenon
<1> HIDE DEF Fits
<1>5. PICK it : Fits(it) /\ FoldLeft(OnSelectResponse, b, q) = it[1..n]
  BY <1>2, <1>4, Zenon
<1>6. Runs("select", it, b, q, n)
  BY <1>3, <1>5, Zenon
<1>7. QED
  BY <1>5, <1>6, RunsWalk, Zenon

(* ... that of status items and codes ... *)
LEMMA FieldWalks ==
  ASSUME NEW b, NEW S, NEW q \in Seq(S), NEW g, Walks("field", g, b, q)
  PROVE  FoldLeft(SetField, b, q) = g[Len(q)]
<1> DEFINE n == Len(q)
           Fits(it) == it = [s \in SUBSET (1..n) |->
                                 IF s = {} THEN b ELSE SetField(it[s \ {Max(s)}], q[Max(s)])]
<1>1. n \in Nat /\ DOMAIN q = 1..n
  BY LenProperties
<1>2. FoldLeft(SetField, b, q) = (CHOOSE it : Fits(it))[1..n]
  BY <1>1, Zenon DEF FoldLeft, MapThenFoldSet
<1>3. \A it : Fits(it) <=> Runs("field", it, b, q, n)
  BY DEF Runs, Step
<1>4. \E it : Fits(it)
  BY <1>1, <1>3, RunsExist, Zenon
<1> HIDE DEF Fits
<1>5. PICK it : Fits(it) /\ FoldLeft(SetField, b, q) = it[1..n]
  BY <1>2, <1>4, Zenon
<1>6. Runs("field", it, b, q, n)
  BY <1>3, <1>5, Zenon
<1>7. QED
  BY <1>5, <1>6, RunsWalk, Zenon

(* ... and that of STATUS responses. *)
LEMMA StatusWalks ==
  ASSUME NEW b, NEW S, NEW q \in Seq(S), NEW g, Walks("status", g, b, q)
  PROVE  FoldLeft(LAMBDA mb, s : OnStatusItems(mb, s.items), b, q) = g[Len(q)]
<1> DEFINE n == Len(q)
           Fits(it) == it = [s \in SUBSET (1..n) |->
                                 IF s = {} THEN b
                                 ELSE OnStatusItems(it[s \ {Max(s)}], q[Max(s)].items)]
<1>1. n \in Nat /\ DOMAIN q = 1..n
  BY LenProperties
<1>2. FoldLeft(LAMBDA mb, s : OnStatusItems(mb, s.items), b, q) = (CHOOSE it : Fits(it))[1..n]
  BY <1>1, Zenon DEF FoldLeft, MapThenFoldSet
<1>3. \A it : Fits(it) <=> Runs("status", it, b, q, n)
  BY DEF Runs, Step
<1>4. \E it : Fits(it)
  BY <1>1, <1>3, RunsExist, Zenon
<1> HIDE DEF Fits
<1>5. PICK it : Fits(it) /\ FoldLeft(LAMBDA mb, s : OnStatusItems(mb, s.items), b, q) = it[1..n]
  BY <1>2, <1>4, Zenon
<1>6. Runs("status", it, b, q, n)
  BY <1>3, <1>5, Zenon
<1>7. QED
  BY <1>5, <1>6, RunsWalk, Zenon

-----------------------------------------------------------------------------
(* The server's reader: a character, a token and a quoted string at a time. *)

(* Where the server is in a line of characters of C.                       *)
Toks(C) == [token : {"atom", "string", "mark", "garbled"}, text : Seq(C)]
(* What the server's reader is in the middle of, its states, where it
   starts, and how it reads on. *)
Modes == {"gap", "atom", "string", "escaped"}
Scans(C) == [mode : Modes, text : Seq(C), tokens : Seq(Toks(C))]
Start == At("gap", <<>>, <<>>)
Read(scan, s) == FoldLeft(Scan, scan, s)

(* The tokens of a line that ends here. *)
Ends(scan) ==
    CASE scan.mode = "gap"  -> scan.tokens
      [] scan.mode = "atom" -> Append(scan.tokens, Atom(scan.text))
      [] OTHER              -> Append(scan.tokens, Garbled)

(* Reading nothing changes nothing ... *)
LEMMA ReadEmpty == ASSUME NEW scan PROVE Read(scan, <<>>) = scan
<1>1. <<>> \in Seq({}) /\ Len(<<>>) = 0
  BY EmptySeq
<1>2. Walks("scan", [i \in {0} |-> scan], scan, <<>>)
  BY <1>1 DEF Walks
<1>3. FoldLeft(Scan, scan, <<>>) = [i \in {0} |-> scan][Len(<<>>)]
  BY <1>1, <1>2, ScanWalks, Zenon
<1>4. QED
  BY <1>1, <1>3 DEF Read

(* ... one more character is one more step ... *)
LEMMA ReadAppend ==
  ASSUME NEW scan, NEW S, NEW s \in Seq(S), NEW c \in S
  PROVE  Read(scan, Append(s, c)) = Scan(Read(scan, s), c)
<1>1. Append(s, c) \in Seq(S)
  BY AppendProperties
<1>2. PICK g : Walks("scan", g, scan, Append(s, c))
  BY <1>1, WalkExists, Zenon
<1>3. Walks("scan", g, scan, s)
  BY <1>2, WalkAppend, Zenon
<1>4. g[Len(Append(s, c))] = Step("scan", g[Len(s)], c)
  BY <1>2, WalkAppend
<1>5. FoldLeft(Scan, scan, Append(s, c)) = g[Len(Append(s, c))]
  BY <1>1, <1>2, ScanWalks, Zenon
<1>6. FoldLeft(Scan, scan, s) = g[Len(s)]
  BY <1>3, ScanWalks, Zenon
<1>7. Step("scan", g[Len(s)], c) = Scan(g[Len(s)], c)
  BY DEF Step
<1>8. QED
  BY <1>4, <1>5, <1>6, <1>7, Zenon DEF Read

(* ... and what follows is read from where the first part ends. *)
LEMMA ReadConcat ==
  ASSUME NEW S, NEW scan, NEW s \in Seq(S)
  PROVE  \A t \in Seq(S) : Read(scan, s \o t) = Read(Read(scan, s), t)
<1>a. \A x, t : t \in Seq(S) => \A c \in S : Read(x, Append(t, c)) = Scan(Read(x, t), c)
  BY ReadAppend, Zenon
<1> DEFINE A == {t \in Seq(S) : Read(scan, s \o t) = Read(Read(scan, s), t)}
<1>1. <<>> \in A
  BY ReadEmpty, ConcatEmptySeq, EmptySeq
<1>2. ASSUME NEW t \in Seq(S), NEW c \in S, t \in A PROVE Append(t, c) \in A
  <2>1. s \o Append(t, c) = Append(s \o t, c) /\ s \o t \in Seq(S) /\ Append(t, c) \in Seq(S)
    BY AppendIsConcat, ConcatAssociative, ConcatProperties, AppendProperties, <<c>> \in Seq(S)
  <2>2. Read(scan, s \o t) = Read(Read(scan, s), t)
    BY <1>2
  <2>3. Read(scan, Append(s \o t, c)) = Scan(Read(scan, s \o t), c)
    BY <1>a, <2>1, Zenon
  <2>4. Read(Read(scan, s), Append(t, c)) = Scan(Read(Read(scan, s), t), c)
    BY <1>a, Zenon
  <2>5. QED
    BY <2>1, <2>2, <2>3, <2>4
<1> HIDE DEF A
<1>3. Seq(S) \subseteq A
  BY <1>1, <1>2, SeqInductive
<1>4. QED
  BY <1>3 DEF A

(* The tokens over an alphabet. *)
LEMMA TokenTypes ==
  ASSUME NEW C
  PROVE  /\ \A text \in Seq(C) : Atom(text) \in Toks(C) /\ Str(text) \in Toks(C)
         /\ \A c \in C : Mark(c) \in Toks(C)
         /\ Garbled \in Toks(C)
<1>1. (\A c \in C : <<c>> \in Seq(C)) /\ <<>> \in Seq(C)
  BY EmptySeq
<1>2. QED
  BY <1>1 DEF Atom, Str, Mark, Garbled, Toks

(* The reader starts in one of its states. *)
LEMMA StartType == ASSUME NEW C PROVE Start \in Scans(C)
<1>1. <<>> \in Seq(C) /\ <<>> \in Seq(Toks(C))
  BY EmptySeq
<1>2. QED
  BY <1>1 DEF Start, At, Scans, Modes

(* The parts of a state. *)
LEMMA AtIs ==
  ASSUME NEW mode, NEW text, NEW tokens
  PROVE  /\ At(mode, text, tokens).mode = mode /\ At(mode, text, tokens).text = text
         /\ At(mode, text, tokens).tokens = tokens
  BY DEF At

(* A state of its parts is one of the reader's. *)
LEMMA AtType ==
  ASSUME NEW C, NEW mode \in Modes, NEW text \in Seq(C), NEW tokens \in Seq(Toks(C))
  PROVE  /\ At(mode, text, tokens) \in Scans(C)
         /\ At(mode, text, tokens).mode = mode /\ At(mode, text, tokens).text = text
         /\ At(mode, text, tokens).tokens = tokens
  BY DEF At, Scans

(* A state of the reader is that of its parts. *)
LEMMA ScanIsAt ==
  ASSUME NEW C, NEW scan \in Scans(C)
  PROVE  /\ scan.mode \in Modes /\ scan.text \in Seq(C) /\ scan.tokens \in Seq(Toks(C))
         /\ scan = At(scan.mode, scan.text, scan.tokens)
  BY DEF At, Scans

(* A step leads to a state of the reader. *)
LEMMA ScanType ==
  ASSUME NEW C, NEW scan \in Scans(C), NEW c \in C
  PROVE Scan(scan, c) \in Scans(C)
<1>1. scan.mode \in Modes /\ scan.text \in Seq(C) /\ scan.tokens \in Seq(Toks(C))
  BY ScanIsAt
<1>2. Append(scan.text, c) \in Seq(C) /\ <<>> \in Seq(C)
  BY <1>1, EmptySeq, AppendProperties
<1>3. Atom(scan.text) \in Toks(C) /\ Str(scan.text) \in Toks(C) /\ Mark(c) \in Toks(C)
  BY <1>1, TokenTypes
<1>4. /\ Append(scan.tokens, Atom(scan.text)) \in Seq(Toks(C))
      /\ Append(scan.tokens, Str(scan.text)) \in Seq(Toks(C))
      /\ Append(scan.tokens, Mark(c)) \in Seq(Toks(C))
  BY <1>1, <1>3, AppendProperties
<1>5. Append(Append(scan.tokens, Atom(scan.text)), Mark(c)) \in Seq(Toks(C))
  BY <1>3, <1>4, AppendProperties
<1>6. \A mode \in Modes, text \in Seq(C), tokens \in Seq(Toks(C)) :
           At(mode, text, tokens) \in Scans(C)
  BY AtType
<1>7. QED
  BY <1>1, <1>2, <1>4, <1>5, <1>6 DEF Scan, Modes

(* What was read before stays as it was. *)
After(T, scan) == At(scan.mode, scan.text, T \o scan.tokens)

(* Tokens before those of a state. *)
LEMMA AfterIs ==
  ASSUME NEW T, NEW mode, NEW text, NEW tokens
  PROVE  After(T, At(mode, text, tokens)) = At(mode, text, T \o tokens)
  BY AtIs DEF After

(* What came before does not matter to a step. *)
LEMMA ScanAfter ==
  ASSUME NEW C, NEW T \in Seq(Toks(C)), NEW scan \in Scans(C), NEW c \in C
  PROVE  Scan(After(T, scan), c) = After(T, Scan(scan, c))
<1>1. scan.mode \in Modes /\ scan.text \in Seq(C) /\ scan.tokens \in Seq(Toks(C))
  BY ScanIsAt
<1>2. Atom(scan.text) \in Toks(C) /\ Str(scan.text) \in Toks(C) /\ Mark(c) \in Toks(C)
  BY <1>1, TokenTypes
<1>a. \A U \in Seq(Toks(C)), x \in Toks(C) :
         /\ Append(U, x) \in Seq(Toks(C)) /\ T \o Append(U, x) = Append(T \o U, x)
  <2> DEFINE K == Toks(C)
  <2>1. T \in Seq(K)
    OBVIOUS
  <2> HIDE DEF K
  <2>2. ASSUME NEW U \in Seq(K), NEW x \in K
        PROVE  Append(U, x) \in Seq(K) /\ T \o Append(U, x) = Append(T \o U, x)
    <3>1. <<x>> \in Seq(K) /\ T \o U \in Seq(K) /\ Append(U, x) \in Seq(K)
      BY <2>1, ConcatProperties, AppendProperties
    <3>2. Append(U, x) = U \o <<x>> /\ Append(T \o U, x) = (T \o U) \o <<x>>
      BY <2>1, <3>1, AppendIsConcat
    <3>3. QED
      BY <2>1, <3>1, <3>2, ConcatAssociative
  <2>3. QED
    BY <2>2 DEF K
<1>3. /\ T \o Append(scan.tokens, Atom(scan.text)) = Append(T \o scan.tokens, Atom(scan.text))
      /\ T \o Append(scan.tokens, Str(scan.text)) = Append(T \o scan.tokens, Str(scan.text))
      /\ T \o Append(scan.tokens, Mark(c)) = Append(T \o scan.tokens, Mark(c))
  BY <1>a, <1>1, <1>2
<1>4. T \o Append(Append(scan.tokens, Atom(scan.text)), Mark(c))
             = Append(Append(T \o scan.tokens, Atom(scan.text)), Mark(c))
  <2>1. Append(scan.tokens, Atom(scan.text)) \in Seq(Toks(C))
    BY <1>a, <1>1, <1>2
  <2>2. T \o Append(Append(scan.tokens, Atom(scan.text)), Mark(c))
             = Append(T \o Append(scan.tokens, Atom(scan.text)), Mark(c))
    BY <1>a, <1>2, <2>1
  <2>3. QED
    BY <1>3, <2>2
<1> DEFINE post == After(T, scan)
<1>6. post.mode = scan.mode /\ post.text = scan.text /\ post.tokens = T \o scan.tokens
  <2>1. post = At(scan.mode, scan.text, T \o scan.tokens)
    BY DEF After
  <2> HIDE DEF post
  <2>2. QED
    BY <2>1 DEF At
<1>7. \A mode, text, tokens : After(T, At(mode, text, tokens)) = At(mode, text, T \o tokens)
  BY AfterIs, Zenon
<1> HIDE DEF post
<1>8. CASE scan.mode = "escaped"
  <2>1. Scan(scan, c) = At("string", Append(scan.text, c), scan.tokens)
    BY <1>8, Zenon DEF Scan
  <2>2. Scan(post, c) = At("string", Append(post.text, c), post.tokens)
    BY <1>6, <1>8, Zenon DEF Scan
  <2>3. QED
    BY <1>6, <2>1, <2>2, AfterIs DEF post
<1>9. CASE scan.mode = "string"
  <2>1. BACKSLASH # QUOTE /\ "string" # "escaped"
    BY DEF BACKSLASH, QUOTE
  <2>2. CASE c = BACKSLASH
    <3>1. Scan(scan, c) = At("escaped", scan.text, scan.tokens)
      BY <1>9, <2>1, <2>2 DEF Scan
    <3>2. Scan(post, c) = At("escaped", post.text, post.tokens)
      BY <1>6, <1>9, <2>1, <2>2 DEF Scan
    <3>3. QED
      BY <1>6, <3>1, <3>2, AfterIs DEF post
  <2>3. CASE c = QUOTE
    <3>1. Scan(scan, c) = At("gap", <<>>, Append(scan.tokens, Str(scan.text)))
      BY <1>9, <2>1, <2>3 DEF Scan
    <3>2. Scan(post, c) = At("gap", <<>>, Append(post.tokens, Str(post.text)))
      BY <1>6, <1>9, <2>1, <2>3 DEF Scan
    <3>3. Scan(post, c) = At("gap", <<>>, T \o Append(scan.tokens, Str(scan.text)))
      BY <1>3, <1>6, <3>2
    <3>4. QED
      BY <1>7, <3>1, <3>3, Zenon DEF post
  <2>4. CASE c # BACKSLASH /\ c # QUOTE
    <3>1. Scan(scan, c) = At("string", Append(scan.text, c), scan.tokens)
      BY <1>9, <2>1, <2>4 DEF Scan
    <3>2. Scan(post, c) = At("string", Append(post.text, c), post.tokens)
      BY <1>6, <1>9, <2>1, <2>4 DEF Scan
    <3>3. QED
      BY <1>6, <3>1, <3>2, AfterIs DEF post
  <2>5. QED
    BY <2>2, <2>3, <2>4
<1>10. CASE scan.mode \in {"gap", "atom"}
  <2> DEFINE Closed(x) == IF x.mode = "atom" THEN Append(x.tokens, Atom(x.text)) ELSE x.tokens
  <2>1. scan.mode # "escaped" /\ scan.mode # "string"
        /\ post.mode # "escaped" /\ post.mode # "string"
    BY <1>6, <1>10
  <2>2. \A x : x.mode # "escaped" /\ x.mode # "string" =>
            Scan(x, c) = CASE c = SP            -> At("gap", <<>>, Closed(x))
                           [] c \in {OPEN, CLOSE} -> At("gap", <<>>, Append(Closed(x), Mark(c)))
                           [] c = QUOTE         -> At("string", <<>>, Closed(x))
                           [] OTHER             -> At("atom", Append(x.text, c), x.tokens)
    BY DEF Scan
  <2>3. Closed(post) = T \o Closed(scan)
    BY <1>3, <1>6, <1>10
  <2>4. T \o Append(Closed(scan), Mark(c)) = Append(Closed(post), Mark(c))
    BY <1>3, <1>4, <1>6, <1>10
  <2> HIDE DEF Closed
  <2>a. SP \notin {OPEN, CLOSE, QUOTE} /\ QUOTE \notin {OPEN, CLOSE}
    BY DEF SP, OPEN, CLOSE, QUOTE
  <2>5. CASE c = SP
    <3>1. Scan(scan, c) = At("gap", <<>>, Closed(scan))
      BY <2>1, <2>2, <2>a, <2>5
    <3>2. Scan(post, c) = At("gap", <<>>, Closed(post))
      BY <2>1, <2>2, <2>a, <2>5
    <3>3. QED
      BY <1>7, <2>3, <3>1, <3>2, Zenon DEF post
  <2>6. CASE c \in {OPEN, CLOSE}
    <3>1. Scan(scan, c) = At("gap", <<>>, Append(Closed(scan), Mark(c)))
      BY <2>1, <2>2, <2>a, <2>6
    <3>2. Scan(post, c) = At("gap", <<>>, Append(Closed(post), Mark(c)))
      BY <2>1, <2>2, <2>a, <2>6
    <3>3. QED
      BY <1>7, <2>4, <3>1, <3>2, Zenon DEF post
  <2>7. CASE c = QUOTE
    <3>1. Scan(scan, c) = At("string", <<>>, Closed(scan))
      BY <2>1, <2>2, <2>a, <2>7
    <3>2. Scan(post, c) = At("string", <<>>, Closed(post))
      BY <2>1, <2>2, <2>a, <2>7
    <3>3. QED
      BY <1>7, <2>3, <3>1, <3>2, Zenon DEF post
  <2>8. CASE c \notin {SP, OPEN, CLOSE, QUOTE}
    <3>1. Scan(scan, c) = At("atom", Append(scan.text, c), scan.tokens)
      BY <2>1, <2>2, <2>8
    <3>2. Scan(post, c) = At("atom", Append(post.text, c), post.tokens)
      BY <2>1, <2>2, <2>8
    <3>3. QED
      BY <1>6, <3>1, <3>2, AfterIs DEF post
  <2>9. QED
    BY <2>5, <2>6, <2>7, <2>8
<1>11. QED
  BY <1>1, <1>8, <1>9, <1>10 DEF Modes

(* Reading leads from state to state. *)
LEMMA ReadType ==
  ASSUME NEW C, NEW scan \in Scans(C)
  PROVE  \A s \in Seq(C) : Read(scan, s) \in Scans(C)
<1> DEFINE A == {s \in Seq(C) : Read(scan, s) \in Scans(C)}
<1>1. <<>> \in A
  BY ReadEmpty, EmptySeq
<1>2. ASSUME NEW s \in Seq(C), NEW c \in C, s \in A PROVE Append(s, c) \in A
  <2>1. Read(scan, Append(s, c)) = Scan(Read(scan, s), c)
    BY ReadAppend, Zenon
  <2>2. Scan(Read(scan, s), c) \in Scans(C)
    BY <1>2, ScanType
  <2>3. QED
    BY <2>1, <2>2, AppendProperties
<1> HIDE DEF A
<1>3. Seq(C) \subseteq A
  BY <1>1, <1>2, SeqInductive
<1>4. QED
  BY <1>3 DEF A

(* Reading on does not change what was read before. *)
LEMMA ReadAfter ==
  ASSUME NEW C, NEW T \in Seq(Toks(C)), NEW scan \in Scans(C)
  PROVE  \A s \in Seq(C) : Read(After(T, scan), s) = After(T, Read(scan, s))
<1> DEFINE A == {s \in Seq(C) : Read(After(T, scan), s) = After(T, Read(scan, s))}
<1>1. <<>> \in A
  BY ReadEmpty, EmptySeq
<1>2. ASSUME NEW s \in Seq(C), NEW c \in C, s \in A PROVE Append(s, c) \in A
  <2>1. Read(scan, Append(s, c)) = Scan(Read(scan, s), c)
    BY ReadAppend, Zenon
  <2>2. Read(After(T, scan), Append(s, c)) = Scan(Read(After(T, scan), s), c)
    BY ReadAppend, Zenon
  <2>3. Read(scan, s) \in Scans(C)
    BY ReadType
  <2>4. Scan(After(T, Read(scan, s)), c) = After(T, Scan(Read(scan, s), c))
    BY <2>3, ScanAfter
  <2>5. QED
    BY <1>2, <2>1, <2>2, <2>4, AppendProperties
<1> HIDE DEF A
<1>3. Seq(C) \subseteq A
  BY <1>1, <1>2, SeqInductive
<1>4. QED
  BY <1>3 DEF A

(* The tokens of a line are those at its end. *)
LEMMA TokensAre == ASSUME NEW s PROVE Tokens(s) = Ends(Read(Start, s))
  BY Zenon DEF Tokens, Ends, Read, Start

(* Tokens before come first at the end. *)
LEMMA EndsAfter ==
  ASSUME NEW C, NEW T \in Seq(Toks(C)), NEW scan \in Scans(C)
  PROVE  Ends(After(T, scan)) = T \o Ends(scan) /\ Ends(scan) \in Seq(Toks(C))
<1>1. scan.mode \in Modes /\ scan.text \in Seq(C) /\ scan.tokens \in Seq(Toks(C))
  BY ScanIsAt
<1>2. Atom(scan.text) \in Toks(C) /\ Garbled \in Toks(C)
  BY <1>1, TokenTypes
<1>3. \A U \in Seq(Toks(C)), x \in Toks(C) :
         /\ Append(U, x) \in Seq(Toks(C)) /\ T \o Append(U, x) = Append(T \o U, x)
  <2> DEFINE K == Toks(C)
  <2>1. T \in Seq(K)
    OBVIOUS
  <2> HIDE DEF K
  <2>2. ASSUME NEW U \in Seq(K), NEW x \in K
        PROVE  Append(U, x) \in Seq(K) /\ T \o Append(U, x) = Append(T \o U, x)
    <3>1. <<x>> \in Seq(K) /\ T \o U \in Seq(K) /\ Append(U, x) \in Seq(K)
      BY <2>1, ConcatProperties, AppendProperties
    <3>2. Append(U, x) = U \o <<x>> /\ Append(T \o U, x) = (T \o U) \o <<x>>
      BY <2>1, <3>1, AppendIsConcat
    <3>3. QED
      BY <2>1, <3>1, <3>2, ConcatAssociative
  <2>3. QED
    BY <2>2 DEF K
<1> DEFINE post == After(T, scan)
<1>4. post.mode = scan.mode /\ post.text = scan.text /\ post.tokens = T \o scan.tokens
  <2>1. post = At(scan.mode, scan.text, T \o scan.tokens)
    BY DEF After
  <2> HIDE DEF post
  <2>2. QED
    BY <2>1 DEF At
<1> HIDE DEF post
<1>5. Ends(post) = T \o Ends(scan)
  BY <1>1, <1>2, <1>3, <1>4 DEF Ends, Modes
<1>6. Ends(scan) \in Seq(Toks(C))
  BY <1>1, <1>2, <1>3 DEF Ends, Modes
<1>7. QED
  BY <1>5, <1>6 DEF post

-----------------------------------------------------------------------------
(* Two elements, one after the other. *)
LEMMA PairIs == ASSUME NEW c, NEW d PROVE Append(<<c>>, d) = <<c, d>> /\ <<c>> \o <<d>> = <<c, d>>
<1> DEFINE K == {c, d}
<1>1. c \in K /\ d \in K
  OBVIOUS
<1> HIDE DEF K
<1>2. <<c>> \in Seq(K) /\ <<d>> \in Seq(K) /\ <<c, d>> \in Seq(K)
      /\ Len(<<c>>) = 1 /\ Len(<<d>>) = 1 /\ Len(<<c, d>>) = 2
  BY <1>1
<1> DEFINE u == Append(<<c>>, d)
           v == <<c, d>>
<1>3. Len(u) = 2 /\ u \in Seq(K) /\ u[1] = c /\ u[2] = d
  BY <1>1, <1>2, AppendProperties
<1>4. v \in Seq(K) /\ Len(v) = 2 /\ v[1] = c /\ v[2] = d
  BY <1>2
<1>5. <<c>> \o <<d>> = Append(<<c>>, d)
  BY <1>1, <1>2, AppendIsConcat
<1> HIDE DEF u, v
<1>6. \A i \in 1..Len(u) : u[i] = v[i]
  BY <1>3, <1>4
<1>7. u = v
  BY <1>3, <1>4, <1>6, SeqEqual
<1>8. QED
  BY <1>5, <1>7 DEF u, v

(* A character at a time. *)
LEMMA ReadOne == ASSUME NEW scan, NEW c PROVE Read(scan, <<c>>) = Scan(scan, c)
<1>1. <<>> \in Seq({c}) /\ Append(<<>>, c) = <<c>>
  BY EmptySeq
<1>2. Read(scan, Append(<<>>, c)) = Scan(Read(scan, <<>>), c)
  BY <1>1, ReadAppend, c \in {c}, Zenon
<1>3. QED
  BY <1>1, <1>2, ReadEmpty

(* ... and two are two. *)
LEMMA ReadTwo == ASSUME NEW scan, NEW c, NEW d PROVE Read(scan, <<c, d>>) = Scan(Scan(scan, c), d)
<1>1. <<c>> \in Seq({c, d}) /\ d \in {c, d}
  OBVIOUS
<1>2. Read(scan, Append(<<c>>, d)) = Scan(Read(scan, <<c>>), d)
  BY <1>1, ReadAppend, Zenon
<1>3. QED
  BY <1>2, ReadOne, PairIs

(* A step in a string. *)
LEMMA ScanString ==
  ASSUME NEW t, NEW U, NEW c
  PROVE  /\ Scan(At("escaped", t, U), c) = At("string", Append(t, c), U)
         /\ c = BACKSLASH => Scan(At("string", t, U), c) = At("escaped", t, U)
         /\ c = QUOTE => Scan(At("string", t, U), c) = At("gap", <<>>, Append(U, Str(t)))
         /\ c \notin {BACKSLASH, QUOTE} =>
                 Scan(At("string", t, U), c) = At("string", Append(t, c), U)
<1>1. \A m : At(m, t, U).mode = m /\ At(m, t, U).text = t /\ At(m, t, U).tokens = U
  BY AtIs
<1>2. BACKSLASH # QUOTE /\ "string" # "escaped"
  BY DEF BACKSLASH, QUOTE
<1> DEFINE x == At("escaped", t, U)
           y == At("string", t, U)
<1>3. x.mode = "escaped" /\ x.text = t /\ x.tokens = U
  BY <1>1
<1>4. y.mode = "string" /\ y.text = t /\ y.tokens = U
  BY <1>1
<1> HIDE DEF x, y
<1>5. Scan(x, c) = At("string", Append(t, c), U)
  BY <1>3 DEF Scan
<1>6. c = BACKSLASH => Scan(y, c) = At("escaped", t, U)
  BY <1>2, <1>4 DEF Scan
<1>7. c = QUOTE => Scan(y, c) = At("gap", <<>>, Append(U, Str(t)))
  BY <1>2, <1>4 DEF Scan
<1>8. c \notin {BACKSLASH, QUOTE} => Scan(y, c) = At("string", Append(t, c), U)
  BY <1>2, <1>4 DEF Scan
<1>9. QED
  BY <1>5, <1>6, <1>7, <1>8 DEF x, y

(* A step outside a string. *)
LEMMA ScanOutside ==
  ASSUME NEW mode \in {"gap", "atom"}, NEW t, NEW U, NEW c
  PROVE  LET closed == Ends(At(mode, t, U))
         IN /\ c = SP => Scan(At(mode, t, U), c) = At("gap", <<>>, closed)
            /\ c \in {OPEN, CLOSE} =>
                    Scan(At(mode, t, U), c) = At("gap", <<>>, Append(closed, Mark(c)))
            /\ c = QUOTE => Scan(At(mode, t, U), c) = At("string", <<>>, closed)
            /\ c \notin {SP, OPEN, CLOSE, QUOTE} =>
                   Scan(At(mode, t, U), c) = At("atom", Append(t, c), U)
<1> DEFINE x == At(mode, t, U)
<1>1. x.mode = mode /\ x.text = t /\ x.tokens = U
  BY AtIs
<1> HIDE DEF x
<1>2. SP \notin {OPEN, CLOSE, QUOTE} /\ QUOTE \notin {OPEN, CLOSE}
  BY DEF SP, OPEN, CLOSE, QUOTE
<1>3. x.mode # "escaped" /\ x.mode # "string"
  BY <1>1
<1>4. Ends(x) = IF x.mode = "atom" THEN Append(x.tokens, Atom(x.text)) ELSE x.tokens
  BY <1>1 DEF Ends
<1>5. Scan(x, c) = CASE c = SP              -> At("gap", <<>>, Ends(x))
                     [] c \in {OPEN, CLOSE} -> At("gap", <<>>, Append(Ends(x), Mark(c)))
                     [] c = QUOTE           -> At("string", <<>>, Ends(x))
                     [] OTHER               -> At("atom", Append(x.text, c), x.tokens)
  BY <1>3, <1>4 DEF Scan
<1>6. c = SP => Scan(x, c) = At("gap", <<>>, Ends(x))
  BY <1>2, <1>5
<1>7. c \in {OPEN, CLOSE} => Scan(x, c) = At("gap", <<>>, Append(Ends(x), Mark(c)))
  BY <1>2, <1>5
<1>8. c = QUOTE => Scan(x, c) = At("string", <<>>, Ends(x))
  BY <1>2, <1>5
<1>9. c \notin {SP, OPEN, CLOSE, QUOTE} => Scan(x, c) = At("atom", Append(t, c), U)
  BY <1>1, <1>2, <1>5
<1>10. QED
  BY <1>6, <1>7, <1>8, <1>9 DEF x

(* What a character becomes where char is replaced. *)
Subst(C, char, by) == [c \in C |-> IF c = char THEN by ELSE <<c>>]

(* A replacement makes a text of each character ... *)
LEMMA SubstType ==
  ASSUME NEW C, NEW char, NEW by \in Seq(C) PROVE Subst(C, char, by) \in [C -> Seq(C)]
<1>1. \A c \in C : <<c>> \in Seq(C)
  OBVIOUS
<1>2. QED
  BY <1>1 DEF Subst

(* ... and goes through the text with it. *)
LEMMA ReplacedIs ==
  ASSUME NEW C, NEW char, NEW by, NEW s \in Seq(C)
  PROVE  Replaced(s, char, by) = Through(Subst(C, char, by), s)
<1>1. DOMAIN s = 1..Len(s) /\ \A i \in DOMAIN s : s[i] \in C
  BY LenProperties
<1>2. [i \in DOMAIN s |-> IF s[i] = char THEN by ELSE <<s[i]>>]
          = [i \in DOMAIN s |-> Subst(C, char, by)[s[i]]]
  BY <1>1 DEF Subst
<1>3. QED
  BY <1>2, Zenon DEF Replaced, Through, Image

(* An escaped text is a text over the same alphabet. *)
LEMMA EscapedType ==
  ASSUME NEW C, BACKSLASH \in C, NEW char \in C, NEW s \in Seq(C)
  PROVE  Escaped(s, char) \in Seq(C)
<1> DEFINE by == <<BACKSLASH, char>>
<1>1. by \in Seq(C)
  OBVIOUS
<1> HIDE DEF by
<1>2. Subst(C, char, by) \in [C -> Seq(C)]
  BY <1>1, SubstType
<1>3. Through(Subst(C, char, by), s) \in Seq(C)
  BY <1>2, ThroughType, Zenon
<1>4. QED
  BY <1>3, ReplacedIs, Zenon DEF Escaped, by

(* Nothing escaped is nothing ... *)
LEMMA EscapedEmpty == ASSUME NEW char PROVE Escaped(<<>>, char) = <<>>
<1> DEFINE by == <<BACKSLASH, char>>
<1>1. <<>> \in Seq({})
  BY EmptySeq
<1>2. Replaced(<<>>, char, by) = Through(Subst({}, char, by), <<>>)
  BY <1>1, ReplacedIs
<1>3. Through(Subst({}, char, by), <<>>) = <<>>
  BY ThroughEmpty
<1>4. QED
  BY <1>2, <1>3 DEF Escaped

(* ... a character more is itself, after a backslash if it is the one
   escaped ... *)
LEMMA EscapedAppend ==
  ASSUME NEW C, BACKSLASH \in C, NEW char \in C, NEW s \in Seq(C), NEW c \in C
  PROVE  Escaped(Append(s, c), char)
             = Escaped(s, char) \o (IF c = char THEN <<BACKSLASH, char>> ELSE <<c>>)
<1> DEFINE by == <<BACKSLASH, char>>
           F == Subst(C, char, by)
<1>1. by \in Seq(C)
  OBVIOUS
<1>2. F[c] = IF c = char THEN by ELSE <<c>>
  BY DEF Subst
<1> HIDE DEF by
<1>3. F \in [C -> Seq(C)]
  BY <1>1, SubstType
<1>4. Append(s, c) \in Seq(C)
  BY AppendProperties
<1>5. Escaped(s, char) = Through(F, s) /\ Escaped(Append(s, c), char) = Through(F, Append(s, c))
  BY <1>4, ReplacedIs, Zenon DEF Escaped, by
<1> HIDE DEF F
<1>6. Through(F, Append(s, c)) = Through(F, s) \o F[c]
  BY <1>3, ThroughAppend, Zenon
<1>7. QED
  BY <1>2, <1>5, <1>6 DEF by

(* ... so is a single one ... *)
LEMMA EscapedOne ==
  ASSUME NEW C, BACKSLASH \in C, NEW char \in C, NEW c \in C
  PROVE  Escaped(<<c>>, char) = IF c = char THEN <<BACKSLASH, char>> ELSE <<c>>
<1>1. <<>> \in Seq(C) /\ Append(<<>>, c) = <<c>>
  BY EmptySeq
<1>2. Escaped(Append(<<>>, c), char)
          = Escaped(<<>>, char) \o (IF c = char THEN <<BACKSLASH, char>> ELSE <<c>>)
  BY <1>1, EscapedAppend, ZenonT(30)
<1> DEFINE u == IF c = char THEN <<BACKSLASH, char>> ELSE <<c>>
<1>3. u \in Seq(C)
  OBVIOUS
<1> HIDE DEF u
<1>4. <<>> \o u = u
  BY <1>3, ConcatEmptySeq
<1>5. QED
  BY <1>1, <1>2, <1>4, EscapedEmpty DEF u

(* Texts made of texts, when joined. *)
LEMMA TextsConcat ==
  ASSUME NEW C
  PROVE  \A F \in [C -> Seq(C)] : \A s, t \in Seq(C) :
             Through(F, s \o t) = Through(F, s) \o Through(F, t)
  BY ThroughConcat

(* ... and two texts escaped are each escaped. *)
LEMMA EscapedConcat ==
  ASSUME NEW C, BACKSLASH \in C, NEW char \in C, NEW s \in Seq(C), NEW t \in Seq(C)
  PROVE  Escaped(s \o t, char) = Escaped(s, char) \o Escaped(t, char)
<1> DEFINE by == <<BACKSLASH, char>>
           F == Subst(C, char, by)
<1>1. by \in Seq(C)
  OBVIOUS
<1> HIDE DEF by
<1>2. F \in [C -> Seq(C)]
  BY <1>1, SubstType
<1>3. s \o t \in Seq(C)
  BY ConcatProperties
<1>4. /\ Escaped(s, char) = Through(F, s) /\ Escaped(t, char) = Through(F, t)
      /\ Escaped(s \o t, char) = Through(F, s \o t)
  BY <1>3, ReplacedIs, Zenon DEF Escaped, by
<1> HIDE DEF F
<1>5. Through(F, s \o t) = Through(F, s) \o Through(F, t)
  BY <1>2, TextsConcat
<1>6. QED
  BY <1>4, <1>5

(* What quote! puts between the quotes. *)
Quotable(s) == Escaped(Escaped(s, BACKSLASH), QUOTE)
(* What quote! makes of one character. *)
QuotedChar(c) == IF c \in {BACKSLASH, QUOTE} THEN <<BACKSLASH, c>> ELSE <<c>>

(* quote! escapes backslash and quote character by character: the second
   replacement does not touch what the first one made. *)
LEMMA QuotableAppend ==
  ASSUME NEW C, BACKSLASH \in C, QUOTE \in C, NEW s \in Seq(C), NEW c \in C
  PROVE  Quotable(s) \in Seq(C) /\ Quotable(Append(s, c)) = Quotable(s) \o QuotedChar(c)
<1>1. Escaped(s, BACKSLASH) \in Seq(C) /\ Quotable(s) \in Seq(C)
  BY EscapedType DEF Quotable
<1> DEFINE u == IF c = BACKSLASH THEN <<BACKSLASH, BACKSLASH>> ELSE <<c>>
<1>2. Escaped(Append(s, c), BACKSLASH) = Escaped(s, BACKSLASH) \o u
  BY EscapedAppend
<1>3. u \in Seq(C)
  OBVIOUS
<1>4. Escaped(u, QUOTE) = QuotedChar(c)
  <2>0. BACKSLASH # QUOTE
    BY DEF BACKSLASH, QUOTE
  <2>1. CASE c = BACKSLASH
    <3>1. Escaped(<<BACKSLASH>>, QUOTE) = <<BACKSLASH>>
      BY <2>0, EscapedOne
    <3>2. <<BACKSLASH>> \in Seq(C)
      OBVIOUS
    <3>3. Escaped(<<BACKSLASH>> \o <<BACKSLASH>>, QUOTE)
              = Escaped(<<BACKSLASH>>, QUOTE) \o Escaped(<<BACKSLASH>>, QUOTE)
      BY <3>2, EscapedConcat
    <3>4. QED
      BY <2>1, <3>1, <3>3, PairIs DEF QuotedChar
  <2>2. CASE c # BACKSLASH
    <3>1. u = <<c>> /\ QuotedChar(c) = IF c = QUOTE THEN <<BACKSLASH, QUOTE>> ELSE <<c>>
      BY <2>2 DEF QuotedChar
    <3>2. QED
      BY <3>1, EscapedOne
  <2>3. QED
    BY <2>1, <2>2
<1> HIDE DEF u
<1>5. Escaped(Escaped(s, BACKSLASH) \o u, QUOTE) = Quotable(s) \o Escaped(u, QUOTE)
  BY <1>1, <1>3, EscapedConcat DEF Quotable
<1>6. QED
  BY <1>1, <1>2, <1>4, <1>5 DEF Quotable

(* Within a string, quotable text reads back. *)
LEMMA ReadQuotable ==
  ASSUME NEW C, BACKSLASH \in C, QUOTE \in C, NEW t \in Seq(C), NEW U
  PROVE  \A s \in Seq(C) : Read(At("string", t, U), Quotable(s)) = At("string", t \o s, U)
<1> DEFINE A == {s \in Seq(C) : Read(At("string", t, U), Quotable(s)) = At("string", t \o s, U)}
<1>1. <<>> \in A
  BY ReadEmpty, EscapedEmpty, EmptySeq, ConcatEmptySeq DEF Quotable
<1>2. ASSUME NEW s \in Seq(C), NEW c \in C, s \in A PROVE Append(s, c) \in A
  <2>1. Quotable(s) \in Seq(C) /\ Quotable(Append(s, c)) = Quotable(s) \o QuotedChar(c)
    BY QuotableAppend
  <2>2. QuotedChar(c) \in Seq(C)
    BY DEF QuotedChar
  <2>3. Read(At("string", t, U), Quotable(s) \o QuotedChar(c))
            = Read(At("string", t \o s, U), QuotedChar(c))
    BY <1>2, <2>1, <2>2, ReadConcat
  <2>4. Read(At("string", t \o s, U), QuotedChar(c)) = At("string", Append(t \o s, c), U)
    <3>1. CASE c \in {BACKSLASH, QUOTE}
      <4>1. Read(At("string", t \o s, U), <<BACKSLASH, c>>)
                = Scan(Scan(At("string", t \o s, U), BACKSLASH), c)
        BY ReadTwo
      <4>2. Scan(At("string", t \o s, U), BACKSLASH) = At("escaped", t \o s, U)
        BY ScanString
      <4>3. Scan(At("escaped", t \o s, U), c) = At("string", Append(t \o s, c), U)
        BY ScanString
      <4>4. QED
        BY <3>1, <4>1, <4>2, <4>3 DEF QuotedChar
    <3>2. CASE c \notin {BACKSLASH, QUOTE}
      <4>1. Read(At("string", t \o s, U), <<c>>) = Scan(At("string", t \o s, U), c)
        BY ReadOne
      <4>2. Scan(At("string", t \o s, U), c) = At("string", Append(t \o s, c), U)
        BY <3>2, ScanString
      <4>3. QED
        BY <3>2, <4>1, <4>2 DEF QuotedChar
    <3>3. QED
      BY <3>1, <3>2
  <2>5. t \o Append(s, c) = Append(t \o s, c) /\ Append(s, c) \in Seq(C)
    <3>1. <<c>> \in Seq(C) /\ t \o s \in Seq(C) /\ Append(s, c) \in Seq(C)
      BY ConcatProperties, AppendProperties
    <3>2. Append(s, c) = s \o <<c>> /\ Append(t \o s, c) = (t \o s) \o <<c>>
      BY <3>1, AppendIsConcat
    <3>3. QED
      BY <3>1, <3>2, ConcatAssociative
  <2>6. QED
    BY <2>1, <2>3, <2>4, <2>5
<1> HIDE DEF A
<1>3. Seq(C) \subseteq A
  BY <1>1, <1>2, SeqInductive
<1>4. QED
  BY <1>3 DEF A

(* So does text without a quote or a backslash. *)
LEMMA ReadUnquoted ==
  ASSUME NEW C, NEW t \in Seq(C), NEW U
  PROVE  \A s \in Seq(C) : ~Has(s, {QUOTE, BACKSLASH})
             => Read(At("string", t, U), s) = At("string", t \o s, U)
<1> DEFINE A == {s \in Seq(C) : ~Has(s, {QUOTE, BACKSLASH})
                     => Read(At("string", t, U), s) = At("string", t \o s, U)}
<1>1. <<>> \in A
  BY ReadEmpty, EmptySeq, ConcatEmptySeq
<1>2. ASSUME NEW s \in Seq(C), NEW c \in C, s \in A PROVE Append(s, c) \in A
  <2>1. /\ Append(s, c) \in Seq(C) /\ Len(s) \in Nat /\ DOMAIN s = 1..Len(s)
        /\ DOMAIN Append(s, c) = 1..(Len(s) + 1) /\ Append(s, c)[Len(s) + 1] = c
        /\ \A i \in 1..Len(s) : Append(s, c)[i] = s[i]
    BY AppendProperties, LenProperties
  <2>2. SUFFICES ASSUME ~Has(Append(s, c), {QUOTE, BACKSLASH})
                 PROVE  Read(At("string", t, U), Append(s, c)) = At("string", t \o Append(s, c), U)
    BY <2>1
  <2>3. c \notin {QUOTE, BACKSLASH} /\ ~Has(s, {QUOTE, BACKSLASH})
    BY <2>1, <2>2 DEF Has
  <2>4. Read(At("string", t, U), s) = At("string", t \o s, U)
    BY <1>2, <2>3
  <2>5. Read(At("string", t, U), Append(s, c)) = Scan(At("string", t \o s, U), c)
    BY <2>4, ReadAppend
  <2>6. Scan(At("string", t \o s, U), c) = At("string", Append(t \o s, c), U)
    BY <2>3, ScanString
  <2>7. t \o Append(s, c) = Append(t \o s, c)
    <3>1. <<c>> \in Seq(C) /\ t \o s \in Seq(C)
      BY ConcatProperties
    <3>2. Append(s, c) = s \o <<c>> /\ Append(t \o s, c) = (t \o s) \o <<c>>
      BY <3>1, AppendIsConcat
    <3>3. QED
      BY <3>1, <3>2, ConcatAssociative
  <2>8. QED
    BY <2>5, <2>6, <2>7
<1> HIDE DEF A
<1>3. Seq(C) \subseteq A
  BY <1>1, <1>2, SeqInductive
<1>4. QED
  BY <1>3 DEF A

(* What stands between quotes is a string. *)
LEMMA ReadBetween ==
  ASSUME NEW C, QUOTE \in C, NEW s \in Seq(C), NEW x \in Seq(C),
         Read(At("string", <<>>, <<>>), x) = At("string", s, <<>>)
  PROVE  Read(Start, <<QUOTE>> \o x \o <<QUOTE>>) = At("gap", <<>>, <<Str(s)>>)
<1>1. <<QUOTE>> \in Seq(C) /\ <<QUOTE>> \o x \in Seq(C)
  BY ConcatProperties
<1>2. Read(Start, <<QUOTE>> \o x \o <<QUOTE>>) = Read(Read(Read(Start, <<QUOTE>>), x), <<QUOTE>>)
  <2>1. \A u \in Seq(C) : \A t \in Seq(C) : Read(Start, u \o t) = Read(Read(Start, u), t)
    BY ReadConcat
  <2>2. QED
    BY <1>1, <2>1
<1>3. Read(Start, <<QUOTE>>) = At("string", <<>>, <<>>)
  <2>1. Ends(Start) = <<>>
    BY AtIs DEF Ends, Start
  <2>2. Scan(Start, QUOTE) = At("string", <<>>, Ends(Start))
    BY ScanOutside DEF Start
  <2>3. QED
    BY <2>1, <2>2, ReadOne
<1>4. Read(At("string", s, <<>>), <<QUOTE>>) = At("gap", <<>>, Append(<<>>, Str(s)))
  <2>1. Read(At("string", s, <<>>), <<QUOTE>>) = Scan(At("string", s, <<>>), QUOTE)
    BY ReadOne
  <2>2. QUOTE # BACKSLASH
    BY DEF QUOTE, BACKSLASH
  <2>3. Scan(At("string", s, <<>>), QUOTE) = At("gap", <<>>, Append(<<>>, Str(s)))
    BY <2>2, ScanString
  <2>4. QED
    BY <2>1, <2>3
<1>5. Append(<<>>, Str(s)) = <<Str(s)>>
  OBVIOUS
<1>6. QED
  BY <1>2, <1>3, <1>4, <1>5

(* A server reads every text that quote! has quoted as it was before.      *)
THEOREM QuoteReadsBack ==
  ASSUME NEW C, BACKSLASH \in C, QUOTE \in C, NEW s \in Seq(C)
  PROVE  /\ Quote(s) \in Seq(C)
         /\ Read(Start, Quote(s)) = At("gap", <<>>, <<Str(s)>>)
<1>1. Quotable(s) \in Seq(C)
  BY EscapedType DEF Quotable
<1>2. Read(At("string", <<>>, <<>>), Quotable(s)) = At("string", s, <<>>)
  <2>1. <<>> \in Seq(C) /\ <<>> \o s = s
    BY EmptySeq, ConcatEmptySeq
  <2>2. QED
    BY <2>1, ReadQuotable
<1>3. Quote(s) = <<QUOTE>> \o Quotable(s) \o <<QUOTE>>
  BY DEF Quote, Quotable
<1>4. Quote(s) \in Seq(C)
  <2>1. <<QUOTE>> \in Seq(C)
    OBVIOUS
  <2>2. QED
    BY <1>1, <1>3, <2>1, ConcatProperties
<1>5. QED
  BY <1>1, <1>2, <1>3, <1>4, ReadBetween

-----------------------------------------------------------------------------
(* Texts that read as what they mean, and texts joined.                    *)

(* A sequence whose elements are in a set is a sequence over it. *)
LEMMA SeqWithin ==
  ASSUME NEW A, NEW B, NEW s \in Seq(A), \A i \in DOMAIN s : s[i] \in B PROVE s \in Seq(B)
<1>1. Len(s) \in Nat /\ s \in [1..Len(s) -> A] /\ DOMAIN s = 1..Len(s)
  BY LenProperties
<1>2. s \in [1..Len(s) -> B]
  BY <1>1
<1>3. Len(s) \in Nat
  BY <1>1
<1>4. QED
  BY <1>2, <1>3, IsSeq, Zenon

(* Reading goes on from where it was, over any alphabet. *)
LEMMA ReadSplits ==
  ASSUME NEW C
  PROVE  \A x : \A u \in Seq(C) : \A t \in Seq(C) : Read(x, u \o t) = Read(Read(x, u), t)
  BY ReadConcat

(* Texts that end outside a string, what they mean, and each with a space after it. *)
Plains(C) == {s \in Seq(C) : Read(Start, s).mode \in {"gap", "atom"}}
(* The tokens of each plain text, and each with a space after it. *)
Meant(C) == [s \in Plains(C) |-> Tokens(s)]
Spaced(C) == [s \in Plains(C) |-> s \o <<SP>>]

(* A text is read as tokens. *)
LEMMA TokensType ==
  ASSUME NEW C, NEW s \in Seq(C)
  PROVE  Read(Start, s) \in Scans(C) /\ Tokens(s) \in Seq(Toks(C))
<1>1. Read(Start, s) \in Scans(C)
  BY StartType, ReadType
<1>2. <<>> \in Seq(Toks(C))
  BY EmptySeq
<1>3. Ends(Read(Start, s)) \in Seq(Toks(C))
  BY <1>1, <1>2, EndsAfter
<1>4. QED
  BY <1>1, <1>3, TokensAre

(* After a gap a text reads as on its own. *)
LEMMA ReadFrom ==
  ASSUME NEW C, NEW T \in Seq(Toks(C)), NEW s \in Seq(C)
  PROVE  /\ Read(At("gap", <<>>, T), s) = After(T, Read(Start, s))
         /\ Ends(Read(At("gap", <<>>, T), s)) = T \o Tokens(s)
<1>1. T \o <<>> = T
  BY ConcatEmptySeq
<1>2. After(T, Start) = At("gap", <<>>, T)
  <2>1. After(T, At("gap", <<>>, <<>>)) = At("gap", <<>>, T \o <<>>)
    BY AfterIs, Zenon
  <2>2. QED
    BY <1>1, <2>1 DEF Start
<1>3. Read(After(T, Start), s) = After(T, Read(Start, s))
  BY StartType, ReadAfter
<1>4. Ends(After(T, Read(Start, s))) = T \o Ends(Read(Start, s))
  BY TokensType, EndsAfter
<1>5. QED
  BY <1>2, <1>3, <1>4, TokensAre

(* A plain text after a gap ends in a gap or an atom ... *)
LEMMA PlainFrom ==
  ASSUME NEW C, NEW T \in Seq(Toks(C)), NEW s \in Plains(C)
  PROVE  \E mode, text, tokens :
             /\ mode \in {"gap", "atom"}
             /\ Read(At("gap", <<>>, T), s) = At(mode, text, tokens)
             /\ Ends(At(mode, text, tokens)) = T \o Tokens(s)
<1> DEFINE r == Read(Start, s)
<1>1. s \in Seq(C) /\ r.mode \in {"gap", "atom"}
  BY DEF Plains
<1>2. Read(At("gap", <<>>, T), s) = At(r.mode, r.text, T \o r.tokens)
  BY <1>1, ReadFrom DEF After
<1>3. Ends(Read(At("gap", <<>>, T), s)) = T \o Tokens(s)
  BY <1>1, ReadFrom
<1> DEFINE m == r.mode
           x == r.text
           k == T \o r.tokens
<1>4. /\ m \in {"gap", "atom"}
      /\ Read(At("gap", <<>>, T), s) = At(m, x, k)
      /\ Ends(At(m, x, k)) = T \o Tokens(s)
  BY <1>1, <1>2, <1>3
<1> HIDE DEF m, x, k
<1>5. QED
  BY <1>4

(* ... which the space after it closes. *)
LEMMA ReadSpace ==
  ASSUME NEW C, SP \in C, NEW T \in Seq(Toks(C)), NEW s \in Plains(C)
  PROVE  Read(At("gap", <<>>, T), s \o <<SP>>) = At("gap", <<>>, T \o Tokens(s))
<1>1. PICK mode, text, tokens :
             /\ mode \in {"gap", "atom"}
             /\ Read(At("gap", <<>>, T), s) = At(mode, text, tokens)
             /\ Ends(At(mode, text, tokens)) = T \o Tokens(s)
  BY PlainFrom
<1>2. s \in Seq(C) /\ <<SP>> \in Seq(C)
  BY DEF Plains
<1>3. Read(At("gap", <<>>, T), s \o <<SP>>) = Read(Read(At("gap", <<>>, T), s), <<SP>>)
  <2>1. \A x : \A u \in Seq(C) : \A t \in Seq(C) : Read(x, u \o t) = Read(Read(x, u), t)
    BY ReadSplits
  <2>2. QED
    BY <1>2, <2>1
<1>4. Scan(At(mode, text, tokens), SP) = At("gap", <<>>, Ends(At(mode, text, tokens)))
  <2>1. mode \in {"gap", "atom"}
    BY <1>1
  <2>2. QED
    BY <2>1, ScanOutside
<1>5. QED
  BY <1>1, <1>3, <1>4, ReadOne

(* The types of what plain texts mean and of the spaced ones. *)
LEMMA PlainTypes ==
  ASSUME NEW C, SP \in C
  PROVE  /\ Plains(C) \subseteq Seq(C)
         /\ Meant(C) \in [Plains(C) -> Seq(Toks(C))]
         /\ Spaced(C) \in [Plains(C) -> Seq(C)]
<1>1. \A s \in Plains(C) : s \in Seq(C)
  BY DEF Plains
<1>2. \A s \in Plains(C) : Tokens(s) \in Seq(Toks(C))
  BY <1>1, TokensType
<1>3. \A s \in Plains(C) : s \o <<SP>> \in Seq(C)
  BY <1>1
<1>4. QED
  BY <1>1, <1>2, <1>3 DEF Meant, Spaced

(* Plain texts, each with a space after it, are read one by one. *)
LEMMA SpacedReads ==
  ASSUME NEW C, SP \in C
  PROVE  \A f \in Seq(Plains(C)) :
             Read(Start, Through(Spaced(C), f)) = At("gap", <<>>, Through(Meant(C), f))
<1> DEFINE A == {f \in Seq(Plains(C)) :
                    Read(Start, Through(Spaced(C), f)) = At("gap", <<>>, Through(Meant(C), f))}
<1>1. <<>> \in A
  BY ThroughEmpty, ReadEmpty, EmptySeq DEF Start
<1>2. ASSUME NEW f \in Seq(Plains(C)), NEW s \in Plains(C), f \in A PROVE Append(f, s) \in A
  <2> DEFINE X == Through(Spaced(C), f)
             T == Through(Meant(C), f)
  <2>1. X \in Seq(C) /\ T \in Seq(Toks(C))
    <3>1. Spaced(C) \in [Plains(C) -> Seq(C)]
      BY PlainTypes
    <3>2. Meant(C) \in [Plains(C) -> Seq(Toks(C))]
      BY PlainTypes
    <3>3. X \in Seq(C)
      BY <3>1, ThroughType, Zenon
    <3>4. T \in Seq(Toks(C))
      BY <3>2, ThroughType, Zenon
    <3>5. QED
      BY <3>3, <3>4
  <2>2. Through(Spaced(C), Append(f, s)) = X \o (s \o <<SP>>)
    <3>1. Spaced(C) \in [Plains(C) -> Seq(C)] /\ Spaced(C)[s] = s \o <<SP>>
      BY PlainTypes DEF Spaced
    <3>2. Through(Spaced(C), Append(f, s)) = Through(Spaced(C), f) \o Spaced(C)[s]
      BY <3>1, ThroughAppend, Zenon
    <3>3. QED
      BY <3>1, <3>2
  <2>3. Through(Meant(C), Append(f, s)) = T \o Tokens(s)
    <3>1. Meant(C) \in [Plains(C) -> Seq(Toks(C))] /\ Meant(C)[s] = Tokens(s)
      BY PlainTypes DEF Meant
    <3>2. Through(Meant(C), Append(f, s)) = Through(Meant(C), f) \o Meant(C)[s]
      BY <3>1, ThroughAppend, Zenon
    <3>3. QED
      BY <3>1, <3>2
  <2>4. Read(Start, X) = At("gap", <<>>, T)
    BY <1>2
  <2>5. Append(f, s) \in Seq(Plains(C)) /\ s \in Seq(C) /\ s \o <<SP>> \in Seq(C)
    <3>1. s \in Seq(C) /\ <<SP>> \in Seq(C)
      BY PlainTypes
    <3>2. QED
      BY <3>1, AppendProperties, ConcatProperties
  <2> HIDE DEF X, T
  <2>6. Read(Start, X \o (s \o <<SP>>)) = Read(Read(Start, X), s \o <<SP>>)
    <3>1. \A u \in Seq(C) : \A t \in Seq(C) : Read(Start, u \o t) = Read(Read(Start, u), t)
      BY ReadConcat
    <3>2. QED
      BY <2>1, <2>5, <3>1
  <2>7. Read(At("gap", <<>>, T), s \o <<SP>>) = At("gap", <<>>, T \o Tokens(s))
    BY <2>1, ReadSpace
  <2>8. QED
    BY <2>2, <2>3, <2>4, <2>5, <2>6, <2>7
<1> HIDE DEF A
<1>3. Seq(Plains(C)) \subseteq A
  BY <1>1, <1>2, SeqInductive
<1>4. QED
  BY <1>3 DEF A

(* A sequence that is not empty is its front and its last element. *)
LEMMA FrontLast ==
  ASSUME NEW S, NEW s \in Seq(S), s # <<>>
  PROVE  Front(s) \in Seq(S) /\ Last(s) \in S /\ s = Append(Front(s), Last(s))
<1> DEFINE n == Len(s)
           g == SubSeq(s, 1, n - 1)
           w == Append(g, s[n])
<1>1. n \in Nat \ {0} /\ s[n] \in S /\ \A i \in 1..n : s[i] \in S
  <2>1. n \in Nat \ {0}
    BY EmptySeq
  <2>2. QED
    BY <2>1, ElementOfSeq
<1>2. g \in Seq(S) /\ Len(g) = n - 1 /\ \A i \in 1..(n - 1) : g[i] = s[i]
  <2>1. 1 \in Int /\ n - 1 \in Int /\ \A i \in 1..(n - 1) : s[i] \in S
    BY <1>1
  <2>2. /\ g \in Seq(S) /\ Len(g) = IF 1 <= n - 1 THEN n - 1 - 1 + 1 ELSE 0
        /\ \A i \in 1..(n - 1 - 1 + 1) : g[i] = s[1 + i - 1]
    BY <2>1, SubSeqProperties
  <2>3. n - 1 - 1 + 1 = n - 1 /\ \A i \in 1..(n - 1) : 1 + i - 1 = i
    BY <1>1
  <2>4. Len(g) = n - 1
    BY <1>1, <2>2, <2>3
  <2>5. \A i \in 1..(n - 1) : g[i] = s[i]
    BY <2>2, <2>3
  <2>6. QED
    BY <2>2, <2>4, <2>5
<1>3. w \in Seq(S) /\ Len(w) = n /\ \A i \in 1..n : w[i] = s[i]
  <2>1. w \in Seq(S) /\ Len(w) = n /\ w[n] = s[n] /\ \A i \in 1..(n - 1) : w[i] = g[i]
    BY <1>1, <1>2, AppendProperties
  <2>2. \A i \in 1..n : i = n \/ i \in 1..(n - 1)
    BY <1>1
  <2>3. QED
    BY <1>2, <2>1, <2>2
<1> HIDE DEF w
<1>4. s = w
  BY <1>3, SeqEqual
<1>5. QED
  BY <1>1, <1>2, <1>4 DEF Front, Last, w

(* The front and the last element of a sequence with one more. *)
LEMMA FrontOfAppend ==
  ASSUME NEW S, NEW s \in Seq(S), NEW e \in S
  PROVE  Front(Append(s, e)) = s /\ Last(Append(s, e)) = e /\ Append(s, e) # <<>>
<1> DEFINE t == Append(s, e)
<1>1. t \in Seq(S) /\ Len(t) = Len(s) + 1 /\ t[Len(s) + 1] = e /\ Len(s) \in Nat
      /\ \A i \in 1..Len(s) : t[i] = s[i]
  BY AppendProperties, LenProperties
<1>2. t # <<>>
  BY <1>1, EmptySeq
<1> HIDE DEF t
<1>3. Front(t) \in Seq(S) /\ Last(t) = e /\ t = Append(Front(t), Last(t))
  BY <1>1, <1>2, FrontLast DEF Last
<1>4. Len(Front(t)) = Len(s) /\ \A i \in 1..Len(s) : Front(t)[i] = s[i]
  <2>1. /\ Len(Append(Front(t), e)) = Len(Front(t)) + 1 /\ Len(Front(t)) \in Nat
        /\ \A i \in 1..Len(Front(t)) : Append(Front(t), e)[i] = Front(t)[i]
    BY <1>3, AppendProperties, LenProperties
  <2>2. QED
    BY <1>1, <1>3, <2>1
<1>5. Front(t) = s
  BY <1>3, <1>4, SeqEqual
<1>6. QED
  BY <1>2, <1>3, <1>5 DEF t

(* Texts joined are all but the last with a space after each, and the
   last. *)
LEMMA JoinedIs ==
  ASSUME NEW C, SP \in C, NEW f \in Seq(Plains(C)), NEW last \in Seq(C)
  PROVE  /\ Through(Spaced(C), f) \in Seq(C)
         /\ Joined(Append(f, last)) = Through(Spaced(C), f) \o last
<1> DEFINE G == Spaced(C)
           P == Plains(C)
           t == Append(f, last)
           m == Image(G, f)
           n == Len(f)
<1>1. G \in [P -> Seq(C)] /\ P \subseteq Seq(C) /\ \A s \in P : G[s] = s \o <<SP>>
  BY PlainTypes DEF Spaced
<1>2. /\ n \in Nat /\ DOMAIN f = 1..n /\ f \in Seq(P) /\ \A i \in 1..n : f[i] \in P
  BY LenProperties
<1>3. f \in Seq(Seq(C))
  BY <1>1, <1>2, SeqWithin
<1>4. /\ Len(t) = n + 1 /\ DOMAIN t = 1..(n + 1) /\ t[n + 1] = last
      /\ \A i \in 1..n : t[i] = f[i]
  BY <1>2, <1>3, AppendProperties, LenProperties
<1>5. m \in Seq(Seq(C)) /\ Len(m) = n /\ \A i \in 1..n : m[i] = G[f[i]]
  <2>1. m \in Seq(Seq(C))
    BY <1>1, ImageType
  <2>2. Len(m) = n /\ \A i \in DOMAIN f : m[i] = G[f[i]]
    BY ImageElements
  <2>3. QED
    BY <1>2, <2>1, <2>2
<1> DEFINE w == Append(m, last)
<1>6. /\ w \in Seq(Seq(C)) /\ Len(w) = n + 1 /\ w[n + 1] = last
      /\ \A i \in 1..n : w[i] = m[i]
  BY <1>2, <1>5, AppendProperties
<1>7. DOMAIN w = 1..(n + 1)
  BY <1>6, LenProperties
<1> DEFINE j == [i \in DOMAIN t |-> IF i = Len(t) THEN t[i] ELSE t[i] \o <<SP>>]
<1>8. /\ DOMAIN j = 1..(n + 1)
      /\ \A i \in 1..(n + 1) : j[i] = IF i = n + 1 THEN last ELSE t[i] \o <<SP>>
  BY <1>4
<1>9. j \in [1..(n + 1) -> Seq(C)]
  <2>1. \A i \in 1..(n + 1) : j[i] \in Seq(C)
    <3>1. SUFFICES ASSUME NEW i \in 1..(n + 1) PROVE j[i] \in Seq(C)
      OBVIOUS
    <3>2. CASE i = n + 1
      BY <1>8, <3>2
    <3>3. CASE i # n + 1
      <4>1. i \in 1..n
        BY <1>2, <3>3
      <4>2. j[i] = f[i] \o <<SP>> /\ f[i] \in P
        BY <1>2, <1>4, <1>8, <3>3, <4>1
      <4>3. QED
        BY <1>1, <4>2
    <3>4. QED
      BY <3>2, <3>3
  <2>2. j = [i \in 1..(n + 1) |-> j[i]]
    BY <1>4
  <2>3. QED
    BY <2>1, <2>2
<1>10. \A i \in 1..(n + 1) : j[i] = w[i]
  <2>1. SUFFICES ASSUME NEW i \in 1..(n + 1) PROVE j[i] = w[i]
    OBVIOUS
  <2>2. CASE i = n + 1
    BY <1>6, <1>8, <2>2
  <2>3. CASE i # n + 1
    <3>1. i \in 1..n
      BY <1>2, <2>3
    <3>2. j[i] = f[i] \o <<SP>> /\ f[i] \in P
      BY <1>2, <1>4, <1>8, <2>3, <3>1
    <3>3. w[i] = G[f[i]]
      BY <1>5, <1>6, <3>1
    <3>4. QED
      BY <1>1, <3>2, <3>3
  <2>4. QED
    BY <2>2, <2>3
<1>11. FlattenSeq(m) \in Seq(C) /\ FlattenSeq(w) = FlattenSeq(m) \o last
  BY <1>5, FlattenAppend
<1>12. Joined(t) = FlattenSeq(j)
  BY Zenon DEF Joined
<1> HIDE DEF G, P, t, m, n, w, j
<1>13. j \in Seq(Seq(C)) /\ Len(j) = n + 1
  <2>1. n + 1 \in Nat
    BY <1>2
  <2>2. QED
    BY <1>9, <2>1, IsSeq, Zenon
<1>14. j = w
  <2>1. \A i \in 1..Len(j) : j[i] = w[i]
    BY <1>10, <1>13
  <2>2. QED
    BY <1>6, <1>13, <2>1, SeqEqual
<1>15. QED
  BY <1>11, <1>12, <1>14, Zenon DEF m, G, t, Through

(* No texts joined are no text. *)
LEMMA JoinedEmpty == Joined(<<>>) = <<>>
<1> DEFINE j == [i \in DOMAIN <<>> |-> IF i = Len(<<>>) THEN <<>>[i] ELSE <<>>[i] \o <<SP>>]
<1>1. <<>> \in Seq({}) /\ Len(<<>>) = 0
  BY EmptySeq
<1>2. j = <<>>
  BY <1>1
<1>3. QED
  BY <1>2, FlattenEmpty DEF Joined

(* Joined texts mean what they mean one after the other; all but the last end outside a string. *)
LEMMA JoinedReads ==
  ASSUME NEW C, SP \in C, NEW f \in Seq(Plains(C)), NEW last \in Seq(C)
  PROVE  /\ Joined(Append(f, last)) \in Seq(C)
         /\ Through(Meant(C), f) \in Seq(Toks(C))
         /\ Read(Start, Joined(Append(f, last)))
                = After(Through(Meant(C), f), Read(Start, last))
<1> DEFINE X == Through(Spaced(C), f)
           T == Through(Meant(C), f)
<1>1. X \in Seq(C) /\ Joined(Append(f, last)) = X \o last
  BY JoinedIs
<1>2. T \in Seq(Toks(C))
  <2>1. Meant(C) \in [Plains(C) -> Seq(Toks(C))]
    BY PlainTypes
  <2>2. QED
    BY <2>1, ThroughType, Zenon
<1>3. Read(Start, X) = At("gap", <<>>, T)
  BY SpacedReads
<1> HIDE DEF X, T
<1>4. Read(Start, X \o last) = Read(Read(Start, X), last)
  <2>1. \A x : \A u \in Seq(C) : \A t \in Seq(C) : Read(x, u \o t) = Read(Read(x, u), t)
    BY ReadSplits
  <2>2. QED
    BY <1>1, <2>1
<1>5. Read(At("gap", <<>>, T), last) = After(T, Read(Start, last))
  BY <1>2, ReadFrom
<1>6. X \o last \in Seq(C)
  BY <1>1
<1>7. QED
  BY <1>1, <1>2, <1>3, <1>4, <1>5, <1>6 DEF T

(* So the tokens of texts joined are those of each. *)
LEMMA JoinedMeans ==
  ASSUME NEW C, SP \in C, NEW f \in Seq(Plains(C)), NEW last \in Seq(C)
  PROVE  Tokens(Joined(Append(f, last))) = Through(Meant(C), f) \o Tokens(last)
<1> DEFINE T == Through(Meant(C), f)
           J == Joined(Append(f, last))
<1>1. T \in Seq(Toks(C)) /\ Read(Start, J) = After(T, Read(Start, last))
  BY JoinedReads
<1> HIDE DEF T, J
<1>2. Ends(After(T, Read(Start, last))) = T \o Ends(Read(Start, last))
  BY <1>1, TokensType, EndsAfter
<1>3. QED
  BY <1>1, <1>2, TokensAre DEF T, J

(* Plain texts joined are plain. *)
LEMMA JoinedPlain ==
  ASSUME NEW C, SP \in C, NEW f \in Seq(Plains(C))
  PROVE  Joined(f) \in Plains(C) /\ Tokens(Joined(f)) = Through(Meant(C), f)
<1>1. CASE f = <<>>
  <2>1. Joined(f) = <<>> /\ Through(Meant(C), f) = <<>>
    BY <1>1, JoinedEmpty, ThroughEmpty
  <2>2. Read(Start, <<>>) = Start /\ Start.mode = "gap" /\ Start.tokens = <<>>
    BY ReadEmpty, AtIs DEF Start
  <2>3. <<>> \in Seq(C)
    BY EmptySeq
  <2>4. QED
    BY <2>1, <2>2, <2>3, TokensAre DEF Plains, Ends
<1>2. CASE f # <<>>
  <2> DEFINE g == Front(f)
             s == Last(f)
             T == Through(Meant(C), g)
  <2>1. g \in Seq(Plains(C)) /\ s \in Plains(C) /\ f = Append(g, s)
    BY <1>2, FrontLast
  <2>2. s \in Seq(C) /\ Read(Start, s).mode \in {"gap", "atom"}
    BY <2>1 DEF Plains
  <2> HIDE DEF g, s
  <2>3. /\ Joined(Append(g, s)) \in Seq(C)
        /\ Read(Start, Joined(Append(g, s))) = After(T, Read(Start, s))
    BY <2>1, <2>2, JoinedReads
  <2>4. Tokens(Joined(Append(g, s))) = T \o Tokens(s)
    BY <2>1, <2>2, JoinedMeans
  <2>5. Read(Start, Joined(f)).mode \in {"gap", "atom"}
    BY <2>1, <2>2, <2>3, AtIs DEF After
  <2>6. Through(Meant(C), f) = T \o Tokens(s)
    <3>1. Meant(C) \in [Plains(C) -> Seq(Toks(C))] /\ Meant(C)[s] = Tokens(s)
      BY <2>1, PlainTypes DEF Meant
    <3>2. Through(Meant(C), Append(g, s)) = Through(Meant(C), g) \o Meant(C)[s]
      BY <2>1, <3>1, ThroughAppend, Zenon
    <3>3. QED
      BY <2>1, <3>1, <3>2
  <2>7. QED
    BY <2>1, <2>3, <2>4, <2>5, <2>6 DEF Plains
<1>3. QED
  BY <1>1, <1>2

(* The tokens at the end of a line in a gap ... *)
LEMMA EndsGap == ASSUME NEW t, NEW U PROVE At("gap", t, U).mode = "gap" /\ Ends(At("gap", t, U)) = U
<1> DEFINE x == At("gap", t, U)
<1>1. x.mode = "gap" /\ x.tokens = U
  BY AtIs
<1> HIDE DEF x
<1>2. Ends(x) = U
  BY <1>1 DEF Ends
<1>3. QED
  BY <1>1, <1>2 DEF x

(* ... and in an atom. *)
LEMMA EndsAtom ==
  ASSUME NEW t, NEW U
  PROVE  At("atom", t, U).mode = "atom" /\ Ends(At("atom", t, U)) = Append(U, Atom(t))
<1> DEFINE x == At("atom", t, U)
<1>1. x.mode = "atom" /\ x.text = t /\ x.tokens = U
  BY AtIs
<1> HIDE DEF x
<1>2. Ends(x) = Append(U, Atom(t))
  BY <1>1 DEF Ends
<1>3. QED
  BY <1>1, <1>2 DEF x

(* A letter outside a string is part of an atom ... *)
LEMMA ScanAtom ==
  \A mode \in {"gap", "atom"} : \A t, U, c :
      c \notin {SP, OPEN, CLOSE, QUOTE} =>
                 Scan(At(mode, t, U), c) = At("atom", Append(t, c), U)
  BY ScanOutside

(* ... and a parenthesis a token of its own. *)
LEMMA ScanMark ==
  \A mode \in {"gap", "atom"} : \A t, U, c :
      c \in {OPEN, CLOSE} =>
          Scan(At(mode, t, U), c) = At("gap", <<>>, Append(Ends(At(mode, t, U)), Mark(c)))
  BY ScanOutside

(* Outside a string, text without a quote leaves the server outside. *)
LEMMA StaysOutside ==
  ASSUME NEW C, NEW scan \in Scans(C), scan.mode \in {"gap", "atom"}
  PROVE  \A s \in Seq(C) : ~Has(s, {QUOTE}) => Read(scan, s).mode \in {"gap", "atom"}
<1> DEFINE A == {s \in Seq(C) : ~Has(s, {QUOTE}) => Read(scan, s).mode \in {"gap", "atom"}}
<1>1. <<>> \in A
  BY ReadEmpty, EmptySeq
<1>2. ASSUME NEW s \in Seq(C), NEW c \in C, s \in A PROVE Append(s, c) \in A
  <2>1. /\ Append(s, c) \in Seq(C) /\ Len(s) \in Nat /\ DOMAIN s = 1..Len(s)
        /\ DOMAIN Append(s, c) = 1..(Len(s) + 1) /\ Append(s, c)[Len(s) + 1] = c
        /\ \A i \in 1..Len(s) : Append(s, c)[i] = s[i]
    BY AppendProperties, LenProperties
  <2>2. SUFFICES ASSUME ~Has(Append(s, c), {QUOTE})
                 PROVE  Read(scan, Append(s, c)).mode \in {"gap", "atom"}
    BY <2>1
  <2>3. c # QUOTE /\ ~Has(s, {QUOTE})
    BY <2>1, <2>2 DEF Has
  <2> DEFINE r == Read(scan, s)
  <2>4. r.mode \in {"gap", "atom"} /\ r = At(r.mode, r.text, r.tokens)
    BY <1>2, <2>3, ReadType, ScanIsAt
  <2>5. Read(scan, Append(s, c)) = Scan(r, c)
    BY ReadAppend
  <2> HIDE DEF r
  <2> DEFINE mode == r.mode
             t == r.text
             U == r.tokens
             closed == Ends(At(mode, t, U))
  <2>6. /\ c = SP => Scan(At(mode, t, U), c) = At("gap", <<>>, closed)
        /\ c \in {OPEN, CLOSE} =>
                    Scan(At(mode, t, U), c) = At("gap", <<>>, Append(closed, Mark(c)))
        /\ c \notin {SP, OPEN, CLOSE, QUOTE} =>
                 Scan(At(mode, t, U), c) = At("atom", Append(t, c), U)
    BY <2>4, ScanOutside
  <2> HIDE DEF mode, t, U, closed
  <2>7. \E m, u, V : m \in {"gap", "atom"} /\ Scan(At(mode, t, U), c) = At(m, u, V)
    BY <2>3, <2>6
  <2>8. Scan(At(mode, t, U), c).mode \in {"gap", "atom"}
    BY <2>7, AtIs
  <2>9. QED
    BY <2>4, <2>5, <2>8 DEF mode, t, U
<1> HIDE DEF A
<1>3. Seq(C) \subseteq A
  BY <1>1, <1>2, SeqInductive
<1>4. QED
  BY <1>3 DEF A

(* Text without a quote is plain ... *)
LEMMA PlainText ==
  ASSUME NEW C, NEW s \in Seq(C), ~Has(s, {QUOTE}) PROVE s \in Plains(C)
<1>1. Start \in Scans(C) /\ Start.mode \in {"gap", "atom"}
  BY StartType, AtIs DEF Start
<1>2. QED
  BY <1>1, StaysOutside DEF Plains

(* ... also after text that is. *)
LEMMA PlainThen ==
  ASSUME NEW C, NEW s \in Plains(C), NEW t \in Seq(C), ~Has(t, {QUOTE}) PROVE s \o t \in Plains(C)
<1>1. s \in Seq(C) /\ Read(Start, s).mode \in {"gap", "atom"} /\ s \o t \in Seq(C)
  BY ConcatProperties DEF Plains
<1>2. Read(Start, s) \in Scans(C)
  BY <1>1, TokensType
<1>3. Read(Start, s \o t) = Read(Read(Start, s), t)
  <2>1. \A x : \A u \in Seq(C) : \A v \in Seq(C) : Read(x, u \o v) = Read(Read(x, u), v)
    BY ReadSplits
  <2>2. QED
    BY <1>1, <2>1
<1>4. Read(Read(Start, s), t).mode \in {"gap", "atom"}
  BY <1>1, <1>2, StaysOutside
<1>5. QED
  BY <1>1, <1>3, <1>4 DEF Plains

(* A text without a special character is one atom. *)
LEMMA ReadAtom ==
  ASSUME NEW C
  PROVE  \A s \in Seq(C) : ~Has(s, {SP, OPEN, CLOSE, QUOTE})
             => Read(Start, s) = IF s = <<>> THEN Start ELSE At("atom", s, <<>>)
<1> DEFINE A == {s \in Seq(C) : ~Has(s, {SP, OPEN, CLOSE, QUOTE})
                     => Read(Start, s) = IF s = <<>> THEN Start ELSE At("atom", s, <<>>)}
<1>1. <<>> \in A
  BY ReadEmpty, EmptySeq
<1>2. ASSUME NEW s \in Seq(C), NEW c \in C, s \in A PROVE Append(s, c) \in A
  <2>1. /\ Append(s, c) \in Seq(C) /\ Len(s) \in Nat /\ DOMAIN s = 1..Len(s)
        /\ DOMAIN Append(s, c) = 1..(Len(s) + 1) /\ Append(s, c)[Len(s) + 1] = c
        /\ \A i \in 1..Len(s) : Append(s, c)[i] = s[i]
    BY AppendProperties, LenProperties
  <2>2. SUFFICES ASSUME ~Has(Append(s, c), {SP, OPEN, CLOSE, QUOTE})
                 PROVE  Read(Start, Append(s, c)) = At("atom", Append(s, c), <<>>)
    BY <2>1, FrontOfAppend
  <2>3. c \notin {SP, OPEN, CLOSE, QUOTE} /\ ~Has(s, {SP, OPEN, CLOSE, QUOTE})
    BY <2>1, <2>2 DEF Has
  <2>4. Read(Start, Append(s, c)) = Scan(Read(Start, s), c)
    BY ReadAppend
  <2>5. Read(Start, s) = IF s = <<>> THEN Start ELSE At("atom", s, <<>>)
    BY <1>2, <2>3
  <2>6. CASE s = <<>>
    <3>1. Scan(At("gap", <<>>, <<>>), c) = At("atom", Append(<<>>, c), <<>>)
      BY <2>3, ScanAtom
    <3>2. QED
      BY <2>4, <2>5, <2>6, <3>1 DEF Start
  <2>7. CASE s # <<>>
    <3>1. Scan(At("atom", s, <<>>), c) = At("atom", Append(s, c), <<>>)
      BY <2>3, ScanOutside
    <3>2. QED
      BY <2>4, <2>5, <2>7, <3>1
  <2>8. QED
    BY <2>6, <2>7
<1> HIDE DEF A
<1>3. Seq(C) \subseteq A
  BY <1>1, <1>2, SeqInductive
<1>4. QED
  BY <1>3 DEF A

(* A text without anything special is one atom. *)
LEMMA AtomReads ==
  ASSUME NEW C, NEW s \in Seq(C), s # <<>>, ~Has(s, {SP, OPEN, CLOSE, QUOTE})
  PROVE  s \in Plains(C) /\ Tokens(s) = <<Atom(s)>>
<1>1. Read(Start, s) = At("atom", s, <<>>)
  BY ReadAtom
<1>2. Ends(At("atom", s, <<>>)) = Append(<<>>, Atom(s)) /\ At("atom", s, <<>>).mode = "atom"
  BY EndsAtom
<1>3. Append(<<>>, Atom(s)) = <<Atom(s)>>
  OBVIOUS
<1>4. QED
  BY <1>1, <1>2, <1>3, TokensAre DEF Plains

(* A text that ends as one string is plain and means that string. *)
LEMMA StringReads ==
  ASSUME NEW C, NEW x \in Seq(C), NEW s, Read(Start, x) = At("gap", <<>>, <<Str(s)>>)
  PROVE  x \in Plains(C) /\ Tokens(x) = <<Str(s)>>
<1>1. /\ At("gap", <<>>, <<Str(s)>>).mode = "gap"
      /\ Ends(At("gap", <<>>, <<Str(s)>>)) = <<Str(s)>>
  BY AtIs DEF Ends
<1>2. QED
  BY <1>1, TokensAre DEF Plains

(* What quote! writes is plain and means the text quoted. *)
LEMMA QuoteReads ==
  ASSUME NEW C, BACKSLASH \in C, QUOTE \in C, NEW s \in Seq(C)
  PROVE  Quote(s) \in Plains(C) /\ Tokens(Quote(s)) = <<Str(s)>>
<1>1. Quote(s) \in Seq(C) /\ Read(Start, Quote(s)) = At("gap", <<>>, <<Str(s)>>)
  BY QuoteReadsBack
<1>2. QED
  BY <1>1, StringReads

(* So is a text between quotes, if it has neither quote nor backslash. *)
LEMMA InQuotesReads ==
  ASSUME NEW C, QUOTE \in C, NEW s \in Seq(C), ~Has(s, {QUOTE, BACKSLASH})
  PROVE  /\ <<QUOTE>> \o s \o <<QUOTE>> \in Plains(C)
         /\ Tokens(<<QUOTE>> \o s \o <<QUOTE>>) = <<Str(s)>>
<1> DEFINE x == <<QUOTE>> \o s \o <<QUOTE>>
<1>1. <<>> \in Seq(C) /\ <<>> \o s = s
  BY EmptySeq, ConcatEmptySeq
<1>2. Read(At("string", <<>>, <<>>), s) = At("string", s, <<>>)
  BY <1>1, ReadUnquoted
<1>3. Read(Start, x) = At("gap", <<>>, <<Str(s)>>)
  BY <1>2, ReadBetween
<1>4. x \in Seq(C)
  <2>1. <<QUOTE>> \in Seq(C)
    OBVIOUS
  <2>2. QED
    BY <2>1, ConcatProperties
<1> HIDE DEF x
<1>5. x \in Plains(C) /\ Tokens(x) = <<Str(s)>>
  BY <1>3, <1>4, StringReads
<1>6. QED
  BY <1>5 DEF x

(* A group is its members between parentheses. *)
LEMMA GroupReads ==
  ASSUME NEW C, SP \in C, OPEN \in C, CLOSE \in C, NEW f \in Seq(Plains(C))
  PROVE  /\ <<OPEN>> \o Joined(f) \o <<CLOSE>> \in Plains(C)
         /\ Tokens(<<OPEN>> \o Joined(f) \o <<CLOSE>>)
                = <<Mark(OPEN)>> \o Through(Meant(C), f) \o <<Mark(CLOSE)>>
<1> DEFINE J == Joined(f)
           T == Through(Meant(C), f)
           p == <<OPEN>> \o J
           M == <<Mark(OPEN)>>
<1>1. J \in Plains(C) /\ J \in Seq(C) /\ Tokens(J) = T
  BY JoinedPlain DEF Plains
<1>2. <<OPEN>> \in Seq(C) /\ <<CLOSE>> \in Seq(C)
  OBVIOUS
<1>3. M \in Seq(Toks(C))
  BY TokenTypes
<1> HIDE DEF J, T
<1>4. p \in Seq(C) /\ p \o <<CLOSE>> \in Seq(C)
  BY <1>1, <1>2, ConcatProperties
<1> HIDE DEF M
<1>5. \A x : \A u \in Seq(C) : \A v \in Seq(C) : Read(x, u \o v) = Read(Read(x, u), v)
  BY ReadSplits
<1>6. Read(Start, <<OPEN>>) = At("gap", <<>>, M)
  <2>1. Scan(At("gap", <<>>, <<>>), OPEN)
            = At("gap", <<>>, Append(Ends(At("gap", <<>>, <<>>)), Mark(OPEN)))
    BY ScanOutside
  <2>2. Ends(At("gap", <<>>, <<>>)) = <<>>
    BY AtIs DEF Ends
  <2>3. Append(<<>>, Mark(OPEN)) = <<Mark(OPEN)>>
    OBVIOUS
  <2>4. QED
    BY <2>1, <2>2, <2>3, ReadOne DEF Start, M
<1>7. Read(Start, p) = Read(At("gap", <<>>, M), J)
  <2>1. Read(Start, <<OPEN>> \o J) = Read(Read(Start, <<OPEN>>), J)
    BY <1>1, <1>2, <1>5
  <2>2. QED
    BY <1>6, <2>1
<1>8. PICK mode, text, tokens :
          /\ mode \in {"gap", "atom"}
          /\ Read(At("gap", <<>>, M), J) = At(mode, text, tokens)
          /\ Ends(At(mode, text, tokens)) = M \o T
  BY <1>1, <1>3, PlainFrom, SMTT(30)
<1>9. Read(Start, p \o <<CLOSE>>) = Scan(At(mode, text, tokens), CLOSE)
  <2>1. Read(Start, p \o <<CLOSE>>) = Read(Read(Start, p), <<CLOSE>>)
    BY <1>2, <1>4, <1>5
  <2>2. Read(At(mode, text, tokens), <<CLOSE>>) = Scan(At(mode, text, tokens), CLOSE)
    BY ReadOne
  <2>3. QED
    BY <1>7, <1>8, <2>1, <2>2
<1>10. Scan(At(mode, text, tokens), CLOSE) = At("gap", <<>>, Append(M \o T, Mark(CLOSE)))
  <2>1. Scan(At(mode, text, tokens), CLOSE)
            = At("gap", <<>>, Append(Ends(At(mode, text, tokens)), Mark(CLOSE)))
    <3>1. mode \in {"gap", "atom"}
      BY <1>8
    <3>2. QED
      BY <3>1, ScanMark
  <2>2. QED
    BY <1>8, <2>1
<1>11. Append(M \o T, Mark(CLOSE)) = M \o T \o <<Mark(CLOSE)>>
  <2>1. T \in Seq(Toks(C)) /\ Mark(CLOSE) \in Toks(C)
    BY <1>1, TokensType, TokenTypes
  <2>2. M \o T \in Seq(Toks(C))
    BY <1>3, <2>1, ConcatProperties
  <2>3. QED
    BY <2>1, <2>2, AppendIsConcat
<1>12. Ends(At("gap", <<>>, Append(M \o T, Mark(CLOSE)))) = Append(M \o T, Mark(CLOSE))
  BY EndsGap
<1>13. At("gap", <<>>, Append(M \o T, Mark(CLOSE))).mode = "gap"
  BY EndsGap
<1>14. QED
  BY <1>4, <1>9, <1>10, <1>11, <1>12, <1>13, TokensAre DEF Plains, p, J, T, M

(* The first of what sequences make together is the first of the first. *)
LEMMA FlattenHead ==
  ASSUME NEW S
  PROVE  \A ss \in Seq(Seq(S)) : ss # <<>> /\ ss[1] # <<>>
             => FlattenSeq(ss) # <<>> /\ FlattenSeq(ss)[1] = ss[1][1]
<1> DEFINE A == {ss \in Seq(Seq(S)) : ss # <<>> /\ ss[1] # <<>>
                     => FlattenSeq(ss) # <<>> /\ FlattenSeq(ss)[1] = ss[1][1]}
<1>1. <<>> \in A
  BY EmptySeq
<1>2. ASSUME NEW ss \in Seq(Seq(S)), NEW t \in Seq(S), ss \in A PROVE Append(ss, t) \in A
  <2> DEFINE ts == Append(ss, t)
             x == FlattenSeq(ss)
  <2>1. /\ ts \in Seq(Seq(S)) /\ Len(ss) \in Nat /\ ts[Len(ss) + 1] = t
        /\ \A i \in 1..Len(ss) : ts[i] = ss[i]
    BY AppendProperties, LenProperties
  <2>2. x \in Seq(S) /\ FlattenSeq(ts) = x \o t
    BY FlattenAppend
  <2>3. SUFFICES ASSUME ts[1] # <<>> PROVE FlattenSeq(ts) # <<>> /\ FlattenSeq(ts)[1] = ts[1][1]
    BY <2>1
  <2>4. CASE ss = <<>>
    <3>1. x = <<>> /\ Len(ss) = 0
      BY <2>4, FlattenEmpty, EmptySeq
    <3>2. <<>> \o t = t
      BY ConcatEmptySeq
    <3>3. ts[1] = t
      BY <2>1, <3>1
    <3>4. QED
      BY <2>2, <2>3, <3>1, <3>2, <3>3
  <2>5. CASE ss # <<>>
    <3>1. Len(ss) >= 1
      BY <2>5, EmptySeq
    <3>2. ts[1] = ss[1]
      BY <2>1, <3>1
    <3>3. x # <<>> /\ x[1] = ss[1][1]
      BY <1>2, <2>3, <2>5, <3>2
    <3>4. Len(x) \in Nat /\ Len(x) >= 1 /\ Len(t) \in Nat
      BY <2>2, <3>3, EmptySeq, LenProperties
    <3>5. x \o t \in Seq(S) /\ Len(x \o t) = Len(x) + Len(t) /\ (x \o t)[1] = x[1]
      BY <2>2, <3>4, ConcatProperties
    <3>6. x \o t # <<>>
      BY <3>4, <3>5, EmptySeq
    <3>7. QED
      BY <2>2, <3>2, <3>3, <3>5, <3>6
  <2>6. QED
    BY <2>4, <2>5
<1> HIDE DEF A
<1>3. Seq(Seq(S)) \subseteq A
  BY <1>1, <1>2, SeqInductive
<1>4. QED
  BY <1>3 DEF A

-----------------------------------------------------------------------------
(* Arguments: each that is sent reads as it means.                         *)

(* The words of the commands; SETACL is read apart. *)
Words == {"APPEND", "CAPABILITY", "CHECK", "CLOSE", "COPY", "CREATE", "DELETE", "DELETEACL",
          "EXAMINE", "EXPUNGE", "FETCH", "GETACL", "GETMETADATA", "GETQUOTA", "GETQUOTAROOT",
          "LIST", "LISTRIGHTS", "LOGIN", "LOGOUT", "LSUB", "MOVE", "MYRIGHTS", "NOOP", "RENAME",
          "SEARCH", "SELECT", "SETMETADATA", "SETQUOTA", "SORT", "STATUS", "STORE", "SUBSCRIBE",
          "UID", "UNSUBSCRIBE"}
(* What else the methods write. *)
Literals == {"SETACL", "DEPTH", "MAXSIZE", "NIL", "RETURN", "US-ASCII", "UTF-8", "KOI8-R", "0",
             "1", "infinity", "{9}", "10", "1-Jan-2020", "STORAGE", "MESSAGE", "REVERSE", "DATE",
             "SIZE", "Recent", "Seen", "+", "-", QUOTE, BACKSLASH, SP, OPEN, CLOSE}
(* All texts the caller may pass, and the characters of all that is
   written; but for line breaks they are what a command may have. *)
Texts == Strings \cup Sets \cup Queries \cup Atoms \cup Entries \cup RightsTexts
Digits == {ToString(n) : n \in Sizes}
Used == Words \cup Literals \cup Letters \cup (UNION {ToSet(s) : s \in Texts}) \cup Digits
Chars == Used \ {CR, LF}

(* Verbs are characters that mean nothing else ... *)
LEMMA WordsAreChars ==
  ASSUME NEW w \in Words
  PROVE  w \in Chars /\ w \notin {SP, OPEN, CLOSE, QUOTE} /\ w # "SETACL"
  BY DEF Words, Chars, Used, SP, OPEN, CLOSE, QUOTE, CR, LF

(* ... literals are characters ... *)
LEMMA LiteralsAreChars ==
  ASSUME NEW w \in Literals
  PROVE  w \in Chars
  BY DEF Literals, Chars, Used, SP, OPEN, CLOSE, QUOTE, BACKSLASH, CR, LF

(* ... and so are those the syntax needs. *)
LEMMA CharsHave == {SP, OPEN, CLOSE, QUOTE, BACKSLASH} \subseteq Chars
  BY LiteralsAreChars DEF Literals

(* A text of the caller is one over these characters. *)
LEMMA TextType ==
  ASSUME NEW s \in Texts
  PROVE  s \in Seq(Used) /\ (~Has(s, {CR, LF}) => s \in Seq(Chars))
<1>1. s \in Seq(ToSet(s))
  BY CallsAssumption DEF Texts, IsText
<1>2. ToSet(s) \subseteq Used
  BY DEF Used
<1>3. s \in Seq(Used)
  BY <1>1, <1>2, SeqMonotonic
<1>4. ASSUME ~Has(s, {CR, LF}) PROVE s \in Seq(Chars)
  <2>1. \A i \in DOMAIN s : s[i] \in Chars
    BY <1>2, <1>4 DEF Has, ToSet, Chars
  <2>2. QED
    BY <1>3, <2>1, SeqWithin, Zenon
<1>5. QED
  BY <1>3, <1>4

(* A text over the characters of a command is on one line. *)
LEMMA Unbroken == ASSUME NEW s \in Seq(Chars) PROVE ~Has(s, {CR, LF})
  BY LenProperties DEF Has, Chars

(* An argument that goes out as the code checks it, and one that reads as
   it was meant if it does. *)
Checked(arg) == IsValid(arg) /\ ~AsksNothing(arg) /\ ~Unguarded(arg)
Fits(arg) == Checked(arg) => /\ ArgText(arg) \in Plains(Chars)
                             /\ Tokens(ArgText(arg)) = ArgMeaning(arg)
FitsLeaf(arg) == LeafIsValid(arg) => /\ LeafText(arg) \in Plains(Chars)
                                     /\ Tokens(LeafText(arg)) = LeafMeaning(arg)

(* An argument that is not a group fits if its text does. *)
LEMMA LeafFits ==
  ASSUME NEW arg, arg.form # "group", FitsLeaf(arg) PROVE Fits(arg)
  BY DEF Fits, FitsLeaf, Checked, IsValid, ArgText, ArgMeaning

(* A quoted text fits ... *)
LEMMA FitsQuoted ==
  ASSUME NEW s \in Texts PROVE FitsLeaf(Quoted(s)) /\ Fits(Quoted(s)) /\ Fits(Unchecked(s))
<1>1. ASSUME ~Has(s, {CR, LF}) PROVE Quote(s) \in Plains(Chars) /\ Tokens(Quote(s)) = <<Str(s)>>
  BY <1>1, TextType, CharsHave, QuoteReads
<1>2. FitsLeaf(Quoted(s))
  BY <1>1 DEF FitsLeaf, LeafIsValid, NoquoteIsValid, LeafText, LeafMeaning, Quoted, Arg
<1>3. Fits(Quoted(s))
  BY <1>2, LeafFits DEF Quoted, Arg
<1>4. Fits(Unchecked(s))
  BY <1>1 DEF Fits, Checked, Unguarded, ArgText, ArgMeaning, LeafText, LeafMeaning, Unchecked, Arg
<1>5. QED
  BY <1>2, <1>3, <1>4

(* ... the empty one too ... *)
LEMMA FitsEmpty == FitsLeaf(Quoted(<<>>)) /\ Fits(Quoted(<<>>)) /\ Fits(Unchecked(<<>>))
<1>1. <<>> \in Seq(Chars)
  BY EmptySeq
<1>2. Quote(<<>>) \in Plains(Chars) /\ Tokens(Quote(<<>>)) = <<Str(<<>>)>>
  BY <1>1, CharsHave, QuoteReads
<1>3. FitsLeaf(Quoted(<<>>))
  BY <1>2 DEF FitsLeaf, LeafIsValid, NoquoteIsValid, LeafText, LeafMeaning, Quoted, Arg
<1>4. Fits(Quoted(<<>>))
  BY <1>3, LeafFits DEF Quoted, Arg
<1>5. Fits(Unchecked(<<>>))
  BY <1>2 DEF Fits, Checked, Unguarded, ArgText, ArgMeaning, LeafText, LeafMeaning, Unchecked, Arg
<1>6. QED
  BY <1>3, <1>4, <1>5

(* ... a text between quotes ... *)
LEMMA FitsInQuotes ==
  ASSUME NEW s \in Seq(Used) PROVE Fits(InQuotes(s))
<1>1. SUFFICES ASSUME ~Has(s, {QUOTE, BACKSLASH, CR, LF}) PROVE Fits(InQuotes(s))
  BY DEF Fits, Checked, Unguarded, InQuotes, Arg
<1>2. \A i \in DOMAIN s : s[i] \in Chars
  BY <1>1, LenProperties DEF Has, Chars
<1>3. s \in Seq(Chars) /\ ~Has(s, {QUOTE, BACKSLASH})
  BY <1>1, <1>2, SeqWithin DEF Has
<1>4. /\ <<QUOTE>> \o s \o <<QUOTE>> \in Plains(Chars)
      /\ Tokens(<<QUOTE>> \o s \o <<QUOTE>>) = <<Str(s)>>
  BY <1>3, CharsHave, InQuotesReads
<1>5. QED
  BY <1>4 DEF Fits, ArgText, ArgMeaning, LeafText, LeafMeaning, InQuotes, Arg

(* ... a sequence set ... *)
LEMMA FitsSet ==
  ASSUME NEW s \in Sets PROVE Fits(Set(s))
<1>1. SUFFICES ASSUME SetIsValid(s), s # <<>> PROVE Fits(Set(s))
  BY DEF Fits, Checked, IsValid, LeafIsValid, AsksNothing, Set, Arg
<1>2. ~Has(s, {QUOTE, OPEN, CLOSE})
  BY CallsAssumption
<1>3. ~Has(s, {CR, LF}) /\ ~Has(s, {SP, OPEN, CLOSE, QUOTE})
  BY <1>1, <1>2 DEF SetIsValid, Has
<1>4. s \in Seq(Chars)
  BY <1>3, TextType DEF Texts
<1>5. s \in Plains(Chars) /\ Tokens(s) = <<Atom(s)>>
  BY <1>1, <1>3, <1>4, AtomReads
<1>6. QED
  BY <1>5 DEF Fits, ArgText, ArgMeaning, LeafText, LeafMeaning, Set, Arg

(* ... what is checked for line breaks only ... *)
LEMMA FitsVerbatim ==
  ASSUME NEW s, ~Has(s, {CR, LF}) => s \in Plains(Chars) PROVE Fits(Verbatim(s))
  BY DEF Fits, Checked, Unguarded, ArgText, ArgMeaning, LeafText, LeafMeaning, Verbatim, Arg

(* ... a plain text ... *)
LEMMA FitsText ==
  ASSUME NEW s \in Plains(Chars)
  PROVE  FitsLeaf(Verbatim(s)) /\ Fits(Verbatim(s))
  BY DEF FitsLeaf, Fits, ArgText, ArgMeaning, LeafText, LeafMeaning, Verbatim, Arg

(* ... a set that is not checked as one ... *)
LEMMA FitsVerbatimSet == ASSUME NEW s \in Sets PROVE Fits(Verbatim(s))
<1>1. ASSUME ~Has(s, {CR, LF}) PROVE s \in Plains(Chars)
  <2>1. s \in Seq(Chars)
    BY <1>1, TextType DEF Texts
  <2>2. ~Has(s, {QUOTE})
    BY CallsAssumption DEF Has
  <2>3. QED
    BY <2>1, <2>2, PlainText
<1>2. QED
  BY <1>1, FitsVerbatim

(* What the caller writes in the syntax of IMAP ends outside a string. *)
LEMMA AtomsPlain == ASSUME NEW s \in Atoms PROVE s \in Plains(Chars)
<1>1. s \in Seq(Chars) /\ Garbled \notin ToSet(Tokens(s))
  BY TextType, CallsAssumption DEF Texts
<1> DEFINE r == Read(Start, s)
<1>2. r \in Scans(Chars) /\ Tokens(s) = Ends(r)
  BY <1>1, TokensType, TokensAre
<1> HIDE DEF r
<1>3. r.mode \in Modes /\ r.tokens \in Seq(Toks(Chars))
  BY <1>2, ScanIsAt
<1>4. ASSUME r.mode \notin {"gap", "atom"} PROVE FALSE
  <2>1. Ends(r) = Append(r.tokens, Garbled)
    BY <1>3, <1>4 DEF Ends
  <2>2. Garbled \in Toks(Chars)
    BY TokenTypes
  <2> DEFINE U == Append(r.tokens, Garbled)
  <2>3. U[Len(r.tokens) + 1] = Garbled /\ Len(r.tokens) + 1 \in DOMAIN U
    <3>1. U \in Seq(Toks(Chars)) /\ Len(U) = Len(r.tokens) + 1 /\ U[Len(r.tokens) + 1] = Garbled
          /\ Len(r.tokens) \in Nat
      BY <1>3, <2>2, AppendProperties, LenProperties
    <3> HIDE DEF U
    <3>2. DOMAIN U = 1..Len(U)
      BY <3>1, LenProperties
    <3>3. QED
      BY <3>1, <3>2
  <2> HIDE DEF U
  <2>4. Garbled \in ToSet(U)
    BY <2>3 DEF ToSet
  <2>5. QED
    BY <1>1, <1>2, <2>1, <2>4 DEF U
<1>5. QED
  BY <1>1, <1>4 DEF Plains, r

(* ... what the caller writes in the syntax ... *)
LEMMA FitsAtom == ASSUME NEW s \in Atoms PROVE FitsLeaf(Verbatim(s)) /\ Fits(Verbatim(s))
  BY AtomsPlain, FitsText

(* ... and a word. *)
LEMMA FitsWord == ASSUME NEW w \in Chars, w # QUOTE PROVE FitsLeaf(Word(w)) /\ Fits(Word(w))
<1>1. <<w>> \in Seq(Chars) /\ ~Has(<<w>>, {QUOTE})
  BY DEF Has
<1>2. <<w>> \in Plains(Chars)
  BY <1>1, PlainText
<1>3. FitsLeaf(Word(w))
  BY <1>2 DEF FitsLeaf, LeafText, LeafMeaning, Word, Arg
<1>4. QED
  BY <1>3, LeafFits DEF Word, Arg

(* The image of a sequence, where only its elements have one. *)
LEMMA MapIs ==
  ASSUME NEW A, NEW s \in Seq(A), NEW G, NEW T, \A i \in DOMAIN s : G[s[i]] \in T
  PROVE  /\ Image(G, s) \in Seq(T) /\ Len(Image(G, s)) = Len(s)
         /\ \A i \in 1..Len(s) : Image(G, s)[i] = G[s[i]]
<1> DEFINE m == [i \in DOMAIN s |-> G[s[i]]]
<1>1. Len(s) \in Nat /\ DOMAIN s = 1..Len(s)
  BY LenProperties
<1>2. m \in [1..Len(s) -> T] /\ \A i \in 1..Len(s) : m[i] = G[s[i]]
  BY <1>1
<1> HIDE DEF m
<1>3. Len(s) \in Nat
  BY <1>1
<1>4. m \in Seq(T) /\ Len(m) = Len(s)
  BY <1>2, <1>3, IsSeq, Zenon
<1>5. QED
  BY <1>2, <1>4, Zenon DEF Image, m

(* The texts of the members of a group, and what they mean. *)
LEMMA GroupFits ==
  ASSUME NEW A, NEW args \in Seq(A), \A i \in DOMAIN args : FitsLeaf(args[i])
  PROVE  Fits(Group(args))
<1> DEFINE n == Len(args)
           P == Plains(Chars)
           f == [i \in DOMAIN args |-> LeafText(args[i])]
           M == Meant(Chars)
           h == [i \in DOMAIN args |-> LeafMeaning(args[i])]
<1>1. n \in Nat /\ DOMAIN args = 1..n
  BY LenProperties
<1>2. SUFFICES ASSUME \A i \in DOMAIN args : LeafIsValid(args[i]) PROVE Fits(Group(args))
  BY DEF Fits, Checked, IsValid, Group, Arg
<1>3. \A i \in 1..n : LeafText(args[i]) \in P /\ Tokens(LeafText(args[i])) = LeafMeaning(args[i])
  BY <1>1, <1>2 DEF FitsLeaf
<1>4. f \in [1..n -> P] /\ \A i \in 1..n : f[i] = LeafText(args[i])
  BY <1>1, <1>3
<1>5. DOMAIN f = 1..n
  BY <1>1
<1>6. h = [i \in 1..n |-> LeafMeaning(args[i])]
  BY <1>1
<1>7. \A i \in 1..n : M[f[i]] = LeafMeaning(args[i])
  BY <1>3, <1>4 DEF Meant
<1> HIDE DEF f, M
<1>8. f \in Seq(P)
  <2> HIDE DEF n, P
  <2>1. n \in Nat
    BY <1>1
  <2>2. QED
    BY <1>4, <2>1, IsSeq, Zenon
<1>9. Image(M, f) = h
  BY <1>5, <1>6, <1>7 DEF Image
<1> HIDE DEF h
<1>10. /\ <<OPEN>> \o Joined(f) \o <<CLOSE>> \in P
       /\ Tokens(<<OPEN>> \o Joined(f) \o <<CLOSE>>)
              = <<Mark(OPEN)>> \o Through(M, f) \o <<Mark(CLOSE)>>
  BY <1>8, CharsHave, GroupReads DEF M
<1>11. Through(M, f) = FlattenSeq(h)
  BY <1>9, Zenon DEF Through
<1>12. ArgText(Group(args)) = <<OPEN>> \o Joined(f) \o <<CLOSE>>
  BY DEF ArgText, GroupText, Group, Arg, f
<1>13. ArgMeaning(Group(args)) = <<Mark(OPEN)>> \o FlattenSeq(h) \o <<Mark(CLOSE)>>
  BY DEF ArgMeaning, Group, Arg, h
<1>14. QED
  BY <1>10, <1>11, <1>12, <1>13 DEF Fits

(* The arguments of a command. *)
FitsAll(s) == (\E A : s \in Seq(A)) /\ \A i \in DOMAIN s : Fits(s[i])

(* No arguments fit ... *)
LEMMA FitsNone == FitsAll(<<>>)
  BY EmptySeq DEF FitsAll

(* ... two sequences that fit do so together ... *)
LEMMA FitsConcat ==
  ASSUME NEW s, NEW t, FitsAll(s), FitsAll(t) PROVE FitsAll(s \o t)
<1>1. PICK A : s \in Seq(A)
  BY DEF FitsAll
<1>2. PICK B : t \in Seq(B)
  BY DEF FitsAll
<1> DEFINE D == A \cup B
<1>3. s \in Seq(D) /\ t \in Seq(D)
  BY <1>1, <1>2, SeqMonotonic
<1> HIDE DEF D
<1>4. /\ s \o t \in Seq(D) /\ Len(s) \in Nat /\ Len(t) \in Nat /\ DOMAIN s = 1..Len(s)
      /\ DOMAIN t = 1..Len(t) /\ Len(s \o t) = Len(s) + Len(t)
      /\ \A i \in 1..(Len(s) + Len(t)) : (s \o t)[i] = IF i <= Len(s) THEN s[i] ELSE t[i - Len(s)]
  BY <1>3, ConcatProperties, LenProperties
<1>5. DOMAIN (s \o t) = 1..(Len(s) + Len(t))
  BY <1>4, LenProperties
<1>6. ASSUME NEW i \in 1..(Len(s) + Len(t)) PROVE Fits((s \o t)[i])
  <2>1. CASE i <= Len(s)
    BY <1>4, <2>1 DEF FitsAll
  <2>2. CASE ~(i <= Len(s))
    <3>1. i - Len(s) \in 1..Len(t)
      BY <1>4, <2>2
    <3>2. QED
      BY <1>4, <2>2, <3>1 DEF FitsAll
  <2>3. QED
    BY <2>1, <2>2
<1>7. QED
  BY <1>4, <1>5, <1>6 DEF FitsAll

(* ... one argument ... *)
LEMMA FitsOne ==
  ASSUME NEW a,
         Fits(a)
  PROVE  FitsAll(<<a>>)
<1> DEFINE s == <<a>>
           A == {a}
<1>1. s \in Seq(A) /\ DOMAIN s = 1..1 /\ s[1] = a
  OBVIOUS
<1> HIDE DEF s, A
<1>2. \E B : s \in Seq(B)
  BY <1>1
<1>3. \A i \in 1..1 : i = 1
  OBVIOUS
<1>4. \A i \in DOMAIN s : Fits(s[i])
  BY <1>1, <1>3
<1>5. QED
  BY <1>2, <1>4 DEF FitsAll, s

(* ... two ... *)
LEMMA FitsTwo ==
  ASSUME NEW a, NEW b,
         Fits(a), Fits(b)
  PROVE  FitsAll(<<a, b>>)
<1> DEFINE s == <<a, b>>
           A == {a, b}
<1>1. s \in Seq(A) /\ DOMAIN s = 1..2 /\ s[1] = a /\ s[2] = b
  OBVIOUS
<1> HIDE DEF s, A
<1>2. \E B : s \in Seq(B)
  BY <1>1
<1>3. \A i \in 1..2 : i = 1 \/ i = 2
  OBVIOUS
<1>4. \A i \in DOMAIN s : Fits(s[i])
  BY <1>1, <1>3
<1>5. QED
  BY <1>2, <1>4 DEF FitsAll, s

(* ... three ... *)
LEMMA FitsThree ==
  ASSUME NEW a, NEW b, NEW c,
         Fits(a), Fits(b), Fits(c)
  PROVE  FitsAll(<<a, b, c>>)
<1> DEFINE s == <<a, b, c>>
           A == {a, b, c}
<1>1. s \in Seq(A) /\ DOMAIN s = 1..3 /\ s[1] = a /\ s[2] = b /\ s[3] = c
  OBVIOUS
<1> HIDE DEF s, A
<1>2. \E B : s \in Seq(B)
  BY <1>1
<1>3. \A i \in 1..3 : i = 1 \/ i = 2 \/ i = 3
  OBVIOUS
<1>4. \A i \in DOMAIN s : Fits(s[i])
  BY <1>1, <1>3
<1>5. QED
  BY <1>2, <1>4 DEF FitsAll, s

(* ... four ... *)
LEMMA FitsFour ==
  ASSUME NEW a, NEW b, NEW c, NEW d,
         Fits(a), Fits(b), Fits(c), Fits(d)
  PROVE  FitsAll(<<a, b, c, d>>)
<1> DEFINE s == <<a, b, c, d>>
           A == {a, b, c, d}
<1>1. s \in Seq(A) /\ DOMAIN s = 1..4 /\ s[1] = a /\ s[2] = b /\ s[3] = c /\ s[4] = d
  OBVIOUS
<1> HIDE DEF s, A
<1>2. \E B : s \in Seq(B)
  BY <1>1
<1>3. \A i \in 1..4 : i = 1 \/ i = 2 \/ i = 3 \/ i = 4
  OBVIOUS
<1>4. \A i \in DOMAIN s : Fits(s[i])
  BY <1>1, <1>3
<1>5. QED
  BY <1>2, <1>4 DEF FitsAll, s

(* ... and five. *)
LEMMA FitsFive ==
  ASSUME NEW a, NEW b, NEW c, NEW d, NEW e,
         Fits(a), Fits(b), Fits(c), Fits(d), Fits(e)
  PROVE  FitsAll(<<a, b, c, d, e>>)
<1> DEFINE s == <<a, b, c, d, e>>
           A == {a, b, c, d, e}
<1>1. s \in Seq(A) /\ DOMAIN s = 1..5 /\ s[1] = a /\ s[2] = b /\ s[3] = c /\ s[4] = d /\ s[5] = e
  OBVIOUS
<1> HIDE DEF s, A
<1>2. \E B : s \in Seq(B)
  BY <1>1
<1>3. \A i \in 1..5 : i = 1 \/ i = 2 \/ i = 3 \/ i = 4 \/ i = 5
  OBVIOUS
<1>4. \A i \in DOMAIN s : Fits(s[i])
  BY <1>1, <1>3
<1>5. QED
  BY <1>2, <1>4 DEF FitsAll, s

(* A command's text is read argument by argument. *)
LEMMA CommandReads ==
  ASSUME NEW A, NEW front \in Seq(A), NEW last \in A,
         \A i \in DOMAIN front : Fits(front[i]) /\ Checked(front[i]),
         ArgText(last) \in Seq(Chars)
  PROVE  /\ CommandText(Append(front, last)) \in Seq(Chars)
         /\ Meaning(front) \in Seq(Toks(Chars))
         /\ Tokens(CommandText(Append(front, last))) = Meaning(front) \o Tokens(ArgText(last))
         /\ \A T : ArgMeaning(last) \in Seq(T) =>
                Meaning(Append(front, last)) = Meaning(front) \o ArgMeaning(last)
<1> DEFINE P == Plains(Chars)
           G == [a \in A |-> ArgText(a)]
           H == [a \in A |-> ArgMeaning(a)]
           M == Meant(Chars)
           cmd == Append(front, last)
           n == Len(front)
<1>1. /\ n \in Nat /\ DOMAIN front = 1..n /\ cmd \in Seq(A) /\ \A i \in 1..n : front[i] \in A
  BY LenProperties, AppendProperties, ElementOfSeq
<1>2. \A i \in 1..n : G[front[i]] \in P /\ M[G[front[i]]] = H[front[i]]
  <2>1. SUFFICES ASSUME NEW i \in 1..n PROVE G[front[i]] \in P /\ M[G[front[i]]] = H[front[i]]
    OBVIOUS
  <2>2. ArgText(front[i]) \in P /\ Tokens(ArgText(front[i])) = ArgMeaning(front[i])
    BY <1>1 DEF Fits
  <2>3. G[front[i]] = ArgText(front[i]) /\ H[front[i]] = ArgMeaning(front[i])
    BY <1>1
  <2>4. QED
    BY <2>2, <2>3 DEF Meant
<1>3. G[last] = ArgText(last) /\ H[last] = ArgMeaning(last)
  OBVIOUS
<1>4. CommandText(cmd) = Joined(Image(G, cmd))
  <2>1. [i \in DOMAIN cmd |-> ArgText(cmd[i])] = [i \in DOMAIN cmd |-> G[cmd[i]]]
    BY <1>1, LenProperties
  <2>2. QED
    BY <2>1, Zenon DEF CommandText, Image
<1>5. Meaning(cmd) = FlattenSeq(Image(H, cmd))
  <2>1. [i \in DOMAIN cmd |-> ArgMeaning(cmd[i])] = [i \in DOMAIN cmd |-> H[cmd[i]]]
    BY <1>1, LenProperties
  <2>2. QED
    BY <2>1, Zenon DEF Meaning, Image
<1>6. Meaning(front) = FlattenSeq(Image(H, front))
  <2>1. [i \in DOMAIN front |-> ArgMeaning(front[i])] = [i \in DOMAIN front |-> H[front[i]]]
    BY <1>1
  <2>2. QED
    BY <2>1, Zenon DEF Meaning, Image
<1> HIDE DEF G, H
<1>7. Image(G, cmd) = Append(Image(G, front), ArgText(last))
  BY <1>3, ImageAppend
<1>8. Image(H, cmd) = Append(Image(H, front), ArgMeaning(last))
  BY <1>3, ImageAppend
<1> DEFINE f == Image(G, front)
<1>9. f \in Seq(P) /\ Len(f) = n /\ \A i \in 1..n : f[i] = G[front[i]]
  BY <1>1, <1>2, MapIs, ZenonT(30)
<1>10. Image(H, front) = Image(M, f)
  <2>1. DOMAIN f = 1..n
    BY <1>9, LenProperties
  <2> HIDE DEF f, M
  <2>2. \A i \in 1..n : M[f[i]] = H[front[i]]
    BY <1>2, <1>9
  <2>3. QED
    BY <1>1, <2>1, <2>2 DEF Image
<1> HIDE DEF f
<1>11. Meaning(front) = Through(M, f)
  BY <1>6, <1>10, Zenon DEF Through
<1>12. /\ Joined(Append(f, ArgText(last))) \in Seq(Chars)
       /\ Through(M, f) \in Seq(Toks(Chars))
  BY <1>9, CharsHave, JoinedReads
<1>13. Tokens(Joined(Append(f, ArgText(last)))) = Through(M, f) \o Tokens(ArgText(last))
  BY <1>9, CharsHave, JoinedMeans
<1>14. ASSUME NEW T, ArgMeaning(last) \in Seq(T)
       PROVE  Meaning(cmd) = Meaning(front) \o ArgMeaning(last)
  <2> DEFINE D == Toks(Chars) \cup T
             hs == Image(H, front)
  <2>1. ArgMeaning(last) \in Seq(D)
    BY <1>14, SeqMonotonic
  <2>2. \A i \in DOMAIN front : H[front[i]] \in Seq(D)
    <3>1. \A s \in P : M[s] \in Seq(Toks(Chars))
      BY CharsHave, PlainTypes
    <3>2. \A s \in P : M[s] \in Seq(D)
      BY <3>1, SeqMonotonic
    <3> HIDE DEF D, P, M
    <3>3. QED
      BY <1>1, <1>2, <3>2
  <2> HIDE DEF D
  <2>3. hs \in Seq(Seq(D))
    BY <2>2, MapIs
  <2> HIDE DEF hs
  <2>4. FlattenSeq(Append(hs, ArgMeaning(last))) = FlattenSeq(hs) \o ArgMeaning(last)
    BY <2>1, <2>3, FlattenAppend
  <2>5. QED
    BY <1>5, <1>6, <1>8, <2>4 DEF hs
<1>15. QED
  BY <1>4, <1>7, <1>11, <1>12, <1>13, <1>14 DEF f

-----------------------------------------------------------------------------
(* Commands: each that a method makes is heard as meant.                   *)

(* A command all of whose arguments are checked, one that is read as it
   was meant, and one that starts with a verb. *)
Clear(command) == \A i \in DOMAIN command : Checked(command[i])
Sound(command) == /\ CommandText(command) \in Seq(Chars)
                  /\ Understood(Tokens(CommandText(command))) = Meaning(command)
Starts(command) == command # <<>> /\ \E w \in Words : command[1] = Word(w)

(* A word is one atom. *)
LEMMA WordMeans ==
  ASSUME NEW w \in Chars, w \notin {SP, OPEN, CLOSE, QUOTE}
  PROVE  /\ ArgText(Word(w)) = <<w>> /\ <<w>> \in Seq(Chars)
         /\ Tokens(<<w>>) = <<Atom(<<w>>)>> /\ ArgMeaning(Word(w)) = <<Atom(<<w>>)>>
<1>1. <<w>> \in Seq(Chars) /\ <<w>> # <<>> /\ ~Has(<<w>>, {SP, OPEN, CLOSE, QUOTE})
  BY DEF Has
<1>2. Tokens(<<w>>) = <<Atom(<<w>>)>>
  BY <1>1, AtomReads
<1>3. ArgText(Word(w)) = <<w>> /\ ArgMeaning(Word(w)) = Tokens(<<w>>)
  BY DEF ArgText, ArgMeaning, LeafText, LeafMeaning, Word, Arg
<1>4. QED
  BY <1>1, <1>2, <1>3

(* The first token of a command is its first word. *)
LEMMA FirstToken ==
  ASSUME NEW A, NEW front \in Seq(A), front # <<>>,
         \A i \in DOMAIN front : Fits(front[i]) /\ Checked(front[i]),
         NEW w \in Chars, w \notin {SP, OPEN, CLOSE, QUOTE}, front[1] = Word(w)
  PROVE  Meaning(front) # <<>> /\ Meaning(front)[1] = Atom(<<w>>)
<1> DEFINE H == [a \in A |-> ArgMeaning(a)]
           S == Seq(Toks(Chars))
           n == Len(front)
           m == Image(H, front)
<1>1. n \in Nat \ {0} /\ DOMAIN front = 1..n /\ \A i \in 1..n : front[i] \in A
  BY EmptySeq, LenProperties, ElementOfSeq
<1>2. \A i \in DOMAIN front : H[front[i]] \in S
  <2>1. SUFFICES ASSUME NEW i \in DOMAIN front PROVE H[front[i]] \in S
    OBVIOUS
  <2>2. ArgText(front[i]) \in Seq(Chars) /\ Tokens(ArgText(front[i])) = ArgMeaning(front[i])
    BY DEF Fits, Plains
  <2>3. Tokens(ArgText(front[i])) \in S
    BY <2>2, TokensType
  <2>4. QED
    BY <1>1, <2>2, <2>3
<1>3. Meaning(front) = FlattenSeq(m)
  <2>1. [i \in DOMAIN front |-> ArgMeaning(front[i])] = [i \in DOMAIN front |-> H[front[i]]]
    BY <1>1
  <2>2. QED
    BY <2>1, Zenon DEF Meaning, Image
<1>4. 1 \in 1..n /\ H[front[1]] = <<Atom(<<w>>)>>
  BY <1>1, WordMeans
<1> HIDE DEF H, S
<1>5. m \in Seq(S) /\ Len(m) = n /\ m[1] = H[front[1]]
  BY <1>2, <1>4, MapIs
<1>6. m # <<>>
  BY <1>1, <1>5, EmptySeq
<1> HIDE DEF m
<1>7. m[1] = <<Atom(<<w>>)>> /\ m[1] # <<>>
  BY <1>4, <1>5
<1>8. FlattenSeq(m) # <<>> /\ FlattenSeq(m)[1] = m[1][1]
  BY <1>5, <1>6, <1>7, FlattenHead DEF S
<1>9. m[1][1] = Atom(<<w>>)
  BY <1>7
<1>10. QED
  BY <1>3, <1>8, <1>9

(* A command that is not SETACL is understood as it is read. *)
LEMMA NotSetAcl ==
  ASSUME NEW w, w # "SETACL", NEW tokens, tokens[1] = Atom(<<w>>)
  PROVE  Understood(tokens) = tokens
<1>1. <<w>> # <<"SETACL">>
  OBVIOUS
<1>2. Atom(<<w>>) # Atom(<<"SETACL">>)
  BY <1>1 DEF Atom
<1>3. QED
  BY <1>2 DEF Understood

(* A command whose last argument reads as it means, and all before it so   *)
(* that a string is not left open, is heard as it is meant.                *)
LEMMA EndsSound ==
  ASSUME NEW A, NEW front \in Seq(A), NEW last \in A, Starts(front),
         \A i \in DOMAIN front : Fits(front[i]) /\ Checked(front[i]),
         ArgText(last) \in Seq(Chars), Tokens(ArgText(last)) = ArgMeaning(last)
  PROVE  Sound(Append(front, last))
<1> DEFINE x == Meaning(front)
           y == ArgMeaning(last)
<1>1. PICK w \in Words : front[1] = Word(w)
  BY DEF Starts
<1>2. w \in Chars /\ w \notin {SP, OPEN, CLOSE, QUOTE} /\ w # "SETACL"
  BY WordsAreChars
<1>3. x # <<>> /\ x[1] = Atom(<<w>>)
  BY <1>1, <1>2, FirstToken DEF Starts
<1>4. y \in Seq(Toks(Chars))
  BY TokensType
<1>5. /\ CommandText(Append(front, last)) \in Seq(Chars) /\ x \in Seq(Toks(Chars))
      /\ Tokens(CommandText(Append(front, last))) = x \o y
  BY CommandReads
<1>6. \A T : y \in Seq(T) => Meaning(Append(front, last)) = x \o y
  BY CommandReads
<1> HIDE DEF x, y
<1>7. Meaning(Append(front, last)) = x \o y
  BY <1>4, <1>6
<1>8. (x \o y)[1] = x[1]
  <2>1. Len(x) \in Nat \ {0} /\ Len(y) \in Nat
    BY <1>3, <1>4, <1>5, EmptySeq, LenProperties
  <2>2. QED
    BY <1>4, <1>5, <2>1, ConcatProperties
<1>9. Understood(x \o y) = x \o y
  BY <1>2, <1>3, <1>8, NotSetAcl
<1>10. QED
  BY <1>5, <1>7, <1>9 DEF Sound

(* A verb alone is read as it was meant. *)
LEMMA WordSound ==
  ASSUME NEW w \in Words PROVE Sound(<<Word(w)>>)
<1> DEFINE a == Word(w)
           A == {a}
<1>1. w \in Chars /\ w \notin {SP, OPEN, CLOSE, QUOTE} /\ w # "SETACL"
  BY WordsAreChars
<1>2. /\ ArgText(a) \in Seq(Chars) /\ Tokens(ArgText(a)) = <<Atom(<<w>>)>>
      /\ ArgMeaning(a) = <<Atom(<<w>>)>>
  BY <1>1, WordMeans
<1>3. <<>> \in Seq(A) /\ DOMAIN <<>> = {} /\ a \in A
  BY EmptySeq
<1>4. Meaning(<<>>) = <<>>
  BY FlattenEmpty DEF Meaning
<1>5. ArgMeaning(a) \in Seq(Toks(Chars))
  BY <1>2, TokensType
<1> HIDE DEF a
<1>6. <<a>> = Append(<<>>, a)
  OBVIOUS
<1> DEFINE e == <<>>
<1>7. /\ CommandText(Append(e, a)) \in Seq(Chars)
      /\ Tokens(CommandText(Append(e, a))) = Meaning(e) \o Tokens(ArgText(a))
      /\ \A T : ArgMeaning(a) \in Seq(T) => Meaning(Append(e, a)) = Meaning(e) \o ArgMeaning(a)
  <2>1. \A i \in DOMAIN e : Fits(e[i]) /\ Checked(e[i])
    BY <1>3
  <2> HIDE DEF A
  <2>2. e \in Seq(A)
    BY EmptySeq
  <2> HIDE DEF e
  <2>3. QED
    BY <1>2, <1>3, <2>1, <2>2, CommandReads
<1> DEFINE y == <<Atom(<<w>>)>>
<1>8. y \in Seq(Toks(Chars)) /\ y[1] = Atom(<<w>>) /\ <<>> \o y = y
  BY <1>2, <1>5, ConcatEmptySeq
<1>9. Tokens(CommandText(<<a>>)) = y /\ Meaning(<<a>>) = y
  BY <1>2, <1>4, <1>5, <1>6, <1>7, <1>8
<1> HIDE DEF y
<1>10. Understood(y) = y
  BY <1>1, <1>8, NotSetAcl
<1>11. QED
  BY <1>6, <1>7, <1>9, <1>10 DEF Sound, a

(* So is one all of whose arguments read so. *)
LEMMA AllSound ==
  ASSUME NEW command, FitsAll(command), Starts(command), Clear(command)
  PROVE  Sound(command)
<1>1. PICK A : command \in Seq(A)
  BY DEF FitsAll
<1> DEFINE n == Len(command)
           front == Front(command)
           last == Last(command)
<1>2. n \in Nat \ {0} /\ DOMAIN command = 1..n
  BY <1>1, EmptySeq, LenProperties DEF Starts
<1>3. front \in Seq(A) /\ last \in A /\ command = Append(front, last) /\ last = command[n]
  BY <1>1, FrontLast DEF Starts, Last
<1> HIDE DEF front, last
<1>4. /\ Len(front) \in Nat /\ DOMAIN front = 1..Len(front) /\ n = Len(front) + 1
      /\ \A i \in 1..Len(front) : command[i] = front[i]
  BY <1>3, AppendProperties, LenProperties
<1>5. \A i \in DOMAIN front : Fits(front[i]) /\ Checked(front[i])
  BY <1>2, <1>4 DEF FitsAll, Clear
<1>6. Fits(last) /\ Checked(last)
  BY <1>2, <1>3 DEF FitsAll, Clear
<1>7. ArgText(last) \in Seq(Chars) /\ Tokens(ArgText(last)) = ArgMeaning(last)
  BY <1>6 DEF Fits, Plains
<1>8. CASE front = <<>>
  <2>1. Len(front) = 0
    BY <1>8, EmptySeq
  <2>2. last = command[1]
    BY <1>3, <1>4, <2>1
  <2>3. PICK w \in Words : last = Word(w)
    BY <2>2 DEF Starts
  <2>4. command = <<last>>
    BY <1>3, <1>8
  <2>5. QED
    BY <2>3, <2>4, WordSound
<1>9. CASE front # <<>>
  <2>1. Len(front) \in Nat \ {0}
    BY <1>3, <1>9, EmptySeq
  <2>2. command[1] = front[1]
    BY <1>4, <2>1
  <2>3. Starts(front)
    BY <1>9, <2>2 DEF Starts
  <2>4. QED
    BY <1>3, <1>5, <1>7, <2>3, EndsSound
<1>10. QED
  BY <1>8, <1>9

(* A sequence has finitely many elements. *)
LEMMA RangeFinite == ASSUME NEW S, NEW s \in Seq(S) PROVE IsFiniteSet(ToSet(s))
<1> DEFINE D == 1..Len(s)
           T == ToSet(s)
<1>1. Len(s) \in Nat /\ DOMAIN s = D
  BY LenProperties
<1>2. IsFiniteSet(D)
  BY <1>1, FS_Interval
<1>3. [i \in D |-> s[i]] \in Surjection(D, T)
  BY <1>1 DEF Surjection, ToSet
<1> HIDE DEF D, T
<1>4. IsFiniteSet(T)
  BY <1>2, <1>3, FS_Surjection
<1>5. QED
  BY <1>4 DEF T

(* A finite set as a sequence has its elements. *)
LEMMA ListOf ==
  ASSUME NEW S, IsFiniteSet(S)
  PROVE  SetToSeq(S) \in Seq(S) /\ ToSet(SetToSeq(S)) = S
<1> DEFINE n == Cardinality(S)
           D == 1..n
           f == SetToSeq(S)
<1>1. n \in Nat /\ ExistsBijection(D, S)
  BY FS_CardinalityType
<1>2. IsFiniteSet(D) /\ Cardinality(D) = n
  BY <1>1, FS_Interval
<1>3. \E g \in [D -> S] : IsInjective(g)
  BY <1>1 DEF ExistsBijection, Bijection, Injection
<1>4. f \in [D -> S] /\ IsInjective(f)
  BY <1>3, Zenon DEF SetToSeq
<1> HIDE DEF f, D
<1>5. f \in Injection(D, S)
  BY <1>4 DEF Injection
<1>6. f \in Surjection(D, S)
  BY <1>2, <1>5, FS_Injection
<1>7. \A e \in S : \E i \in D : f[i] = e
  BY <1>6 DEF Surjection
<1>8. ToSet(f) = S
  BY <1>4, <1>7 DEF ToSet
<1>9. f \in Seq(S)
  <2>1. f \in [1..n -> S]
    BY <1>4 DEF D
  <2> HIDE DEF n
  <2>2. n \in Nat
    BY <1>1
  <2>3. QED
    BY <2>1, <2>2, IsSeq, Zenon
<1>10. QED
  BY <1>8, <1>9 DEF f

(* Appending to a sequence of two. *)
LEMMA TripleIs == ASSUME NEW a, NEW b, NEW c PROVE Append(<<a, b>>, c) = <<a, b, c>>
<1> DEFINE K == {a, b, c}
           u == Append(<<a, b>>, c)
           v == <<a, b, c>>
<1>1. <<a, b>> \in Seq(K) /\ c \in K /\ Len(<<a, b>>) = 2
  OBVIOUS
<1>2. v \in Seq(K) /\ Len(v) = 3 /\ v[1] = a /\ v[2] = b /\ v[3] = c
  OBVIOUS
<1>3. u \in Seq(K) /\ Len(u) = 3 /\ u[1] = a /\ u[2] = b /\ u[3] = c
  <2>1. /\ u \in Seq(K) /\ Len(u) = Len(<<a, b>>) + 1 /\ u[Len(<<a, b>>) + 1] = c
        /\ \A i \in 1..Len(<<a, b>>) : u[i] = <<a, b>>[i]
    BY <1>1, AppendProperties
  <2>2. <<a, b>>[1] = a /\ <<a, b>>[2] = b
    OBVIOUS
  <2>3. QED
    BY <1>1, <2>1, <2>2
<1> HIDE DEF K, u, v
<1>4. \A i \in 1..3 : i = 1 \/ i = 2 \/ i = 3
  OBVIOUS
<1>5. \A i \in 1..Len(u) : u[i] = v[i]
  BY <1>2, <1>3, <1>4
<1>6. u = v
  BY <1>2, <1>3, <1>5, SeqEqual
<1>7. QED
  BY <1>6 DEF u, v

(* Appending, by its elements. *)
LEMMA AppendIs ==
  ASSUME NEW S, NEW p \in Seq(S), NEW d \in S, NEW v \in Seq(S), Len(v) = Len(p) + 1,
         v[Len(p) + 1] = d, \A i \in 1..Len(p) : v[i] = p[i]
  PROVE  Append(p, d) = v
<1> DEFINE u == Append(p, d)
           n == Len(p)
<1>1. u \in Seq(S) /\ Len(u) = n + 1 /\ u[n + 1] = d /\ n \in Nat /\ \A i \in 1..n : u[i] = p[i]
  BY AppendProperties, LenProperties
<1>2. \A i \in 1..(n + 1) : i = n + 1 \/ i \in 1..n
  BY <1>1
<1> HIDE DEF u, n
<1>3. Len(v) = n + 1 /\ v[n + 1] = d /\ \A i \in 1..n : v[i] = p[i]
  BY DEF n
<1>4. \A i \in 1..Len(u) : u[i] = v[i]
  BY <1>1, <1>2, <1>3
<1>5. QED
  BY <1>1, <1>3, <1>4, SeqEqual DEF u

(* Appending to a sequence of three. *)
LEMMA QuadIs == ASSUME NEW a, NEW b, NEW c, NEW d PROVE Append(<<a, b, c>>, d) = <<a, b, c, d>>
<1> DEFINE K == {a, b, c, d}
           p == <<a, b, c>>
           v == <<a, b, c, d>>
<1>1. p \in Seq(K) /\ d \in K /\ Len(p) = 3 /\ p[1] = a /\ p[2] = b /\ p[3] = c
  OBVIOUS
<1>2. v \in Seq(K) /\ Len(v) = 4 /\ v[1] = a /\ v[2] = b /\ v[3] = c /\ v[4] = d
  OBVIOUS
<1> HIDE DEF K, p, v
<1>3. \A i \in 1..3 : i = 1 \/ i = 2 \/ i = 3
  OBVIOUS
<1>4. Len(v) = Len(p) + 1 /\ v[Len(p) + 1] = d /\ \A i \in 1..Len(p) : v[i] = p[i]
  BY <1>1, <1>2, <1>3
<1>5. Append(p, d) = v
  BY <1>1, <1>2, <1>4, AppendIs
<1>6. QED
  BY <1>5 DEF p, v

(* A command read as it was meant if its arguments are checked. *)
Means(command) == Clear(command) => Sound(command)

(* It is if they all fit ... *)
LEMMA Fitting == ASSUME NEW command, FitsAll(command), Starts(command) PROVE Means(command)
  BY AllSound DEF Means

(* ... as verbs do ... *)
LEMMA FitsVerb == ASSUME NEW w \in Words PROVE Fits(Word(w))
<1>1. w \in Chars /\ w # QUOTE
  BY WordsAreChars
<1>2. QED
  BY <1>1, FitsWord

(* ... also after UID ... *)
LEMMA UidFits ==
  ASSUME NEW command, FitsAll(command) PROVE FitsAll(Uid(command)) /\ Starts(Uid(command))
<1> DEFINE u == <<Word("UID")>>
<1>1. "UID" \in Words
  BY DEF Words
<1>2. FitsAll(u) /\ u[1] = Word("UID") /\ Len(u) = 1
  BY <1>1, FitsVerb, FitsOne
<1> HIDE DEF u
<1>3. FitsAll(u \o command)
  BY <1>2, FitsConcat
<1>4. PICK A, B : u \in Seq(A) /\ command \in Seq(B)
  BY <1>2 DEF FitsAll
<1> DEFINE D == A \cup B
<1>5. u \in Seq(D) /\ command \in Seq(D)
  BY <1>4, SeqMonotonic
<1> HIDE DEF D
<1>6. Len(u \o command) = 1 + Len(command) /\ Len(command) \in Nat /\ u \o command \in Seq(D)
      /\ (u \o command)[1] = u[1]
  BY <1>2, <1>5, ConcatProperties, LenProperties
<1>7. u \o command # <<>>
  BY <1>6, EmptySeq
<1>8. QED
  BY <1>1, <1>2, <1>3, <1>6, <1>7 DEF Starts, Uid, u

(* ... so a command after UID means what it says. *)
LEMMA UidMeans == ASSUME NEW command, FitsAll(command) PROVE Means(Uid(command))
  BY UidFits, Fitting

(* A query of FETCH may leave a string open: nothing comes after it. *)
LEMMA QueryMeans ==
  ASSUME NEW front, FitsAll(front), Starts(front), NEW q \in Queries
  PROVE  Means(Append(front, Line(q)))
<1> DEFINE l == Line(q)
<1>1. PICK B : front \in Seq(B)
  BY DEF FitsAll
<1> DEFINE A == B \cup {l}
<1>2. front \in Seq(A) /\ l \in A
  BY <1>1, SeqMonotonic
<1> HIDE DEF A
<1>3. SUFFICES ASSUME Clear(Append(front, l)) PROVE Sound(Append(front, l))
  BY DEF Means
<1>4. ArgText(l) = q /\ ArgMeaning(l) = Tokens(q) /\ (Checked(l) => ~Has(q, {CR, LF}))
  BY DEF ArgText, ArgMeaning, LeafText, LeafMeaning, Checked, IsValid, LeafIsValid,
         NoquoteIsValid, Line, Arg
<1> HIDE DEF l
<1>5. /\ Append(front, l) \in Seq(A) /\ Len(front) \in Nat
      /\ Len(Append(front, l)) = Len(front) + 1 /\ Append(front, l)[Len(front) + 1] = l
      /\ DOMAIN front = 1..Len(front) /\ \A i \in 1..Len(front) : Append(front, l)[i] = front[i]
  BY <1>2, AppendProperties, LenProperties
<1>6. DOMAIN Append(front, l) = 1..(Len(front) + 1)
  BY <1>5, LenProperties
<1>7. Checked(l) /\ \A i \in DOMAIN front : Checked(front[i])
  BY <1>3, <1>5, <1>6 DEF Clear
<1>8. q \in Seq(Chars)
  BY <1>4, <1>7, TextType DEF Texts
<1>9. \A i \in DOMAIN front : Fits(front[i]) /\ Checked(front[i])
  BY <1>7 DEF FitsAll
<1>10. QED
  BY <1>2, <1>4, <1>8, <1>9, EndsSound

(* What a call may be made of, but for the set of a FETCH. *)
Full(arg) == Fits(arg) /\ arg.form # "set"
(* Arguments that fit and are no bare sequence sets, and a command that
   its method may send. *)
FullAll(s) == FitsAll(s) /\ \A i \in DOMAIN s : s[i].form # "set"
Proper(method, command) ==
    /\ Means(command)
    /\ method \notin {"fetch", "uid_fetch"} =>
           \A i \in DOMAIN command : ~AsksNothing(command[i])

(* A command of arguments that fit is proper for any method. *)
LEMMA FullProper ==
  ASSUME NEW command, FullAll(command), Starts(command)
  PROVE  \A method : Proper(method, command)
<1>1. Means(command)
  BY Fitting DEF FullAll
<1>2. \A i \in DOMAIN command : ~AsksNothing(command[i])
  BY DEF FullAll, AsksNothing
<1>3. QED
  BY <1>1, <1>2 DEF Proper

(* Two sequences of such arguments together. *)
LEMMA FullConcat == ASSUME NEW s, NEW t, FullAll(s), FullAll(t) PROVE FullAll(s \o t)
<1>1. FitsAll(s \o t)
  BY FitsConcat DEF FullAll
<1>2. PICK A, B : s \in Seq(A) /\ t \in Seq(B)
  BY DEF FullAll, FitsAll
<1> DEFINE D == A \cup B
<1>3. s \in Seq(D) /\ t \in Seq(D)
  BY <1>2, SeqMonotonic
<1> HIDE DEF D
<1>4. /\ s \o t \in Seq(D) /\ Len(s) \in Nat /\ Len(t) \in Nat /\ DOMAIN s = 1..Len(s)
      /\ DOMAIN t = 1..Len(t) /\ Len(s \o t) = Len(s) + Len(t)
      /\ \A i \in 1..(Len(s) + Len(t)) : (s \o t)[i] = IF i <= Len(s) THEN s[i] ELSE t[i - Len(s)]
  BY <1>3, ConcatProperties, LenProperties
<1>5. DOMAIN (s \o t) = 1..(Len(s) + Len(t))
  BY <1>4, LenProperties
<1>6. ASSUME NEW i \in 1..(Len(s) + Len(t)) PROVE (s \o t)[i].form # "set"
  <2>1. CASE i <= Len(s)
    BY <1>4, <2>1 DEF FullAll
  <2>2. CASE ~(i <= Len(s))
    <3>1. i - Len(s) \in 1..Len(t)
      BY <1>4, <2>2
    <3>2. QED
      BY <1>4, <2>2, <3>1 DEF FullAll
  <2>3. QED
    BY <2>1, <2>2
<1>7. QED
  BY <1>1, <1>5, <1>6 DEF FullAll

(* A verb is one ... *)
LEMMA FullVerb == ASSUME NEW w \in Words PROVE Full(Word(w))
  BY FitsVerb DEF Full, Word, Arg

(* ... so a command after UID is proper ... *)
LEMMA UidProper ==
  ASSUME NEW command, FullAll(command) PROVE \A method : Proper(method, Uid(command))
<1> DEFINE u == <<Word("UID")>>
<1>1. "UID" \in Words
  BY DEF Words
<1>2. Full(Word("UID"))
  BY <1>1, FullVerb
<1>3. FitsAll(u) /\ DOMAIN u = {1} /\ u[1] = Word("UID")
  BY <1>2, FitsOne DEF Full
<1> HIDE DEF u
<1>4. FullAll(u)
  BY <1>2, <1>3 DEF FullAll, Full
<1>5. FullAll(Uid(command))
  BY <1>4, FullConcat DEF Uid, u
<1>6. Starts(Uid(command))
  BY UidFits DEF FullAll
<1>7. QED
  BY <1>5, <1>6, FullProper

(* ... a verb alone ... *)
LEMMA MethodOne ==
  ASSUME NEW w \in Words
  PROVE  \A method : Proper(method, <<Word(w)>>) /\ Proper(method, Uid(<<Word(w)>>))
<1> DEFINE s == <<Word(w)>>
<1>1. DOMAIN s = 1..1 /\ s[1] = Word(w) /\ s # <<>>
  OBVIOUS
<1>2. Full(Word(w))
  BY FullVerb
<1>3. FitsAll(s)
  BY <1>2, FitsOne DEF Full
<1> HIDE DEF s
<1>4. \A i \in 1..1 : i = 1
  OBVIOUS
<1>5. \A i \in DOMAIN s : s[i].form # "set"
  BY <1>1, <1>2, <1>4 DEF Full
<1>6. FullAll(s) /\ Starts(s)
  BY <1>1, <1>3, <1>5 DEF FullAll, Starts
<1>7. QED
  BY <1>6, FullProper, UidProper DEF s

(* ... with one argument ... *)
LEMMA MethodTwo ==
  ASSUME NEW w \in Words, NEW a, Full(a)
  PROVE  \A method : Proper(method, <<Word(w), a>>) /\ Proper(method, Uid(<<Word(w), a>>))
<1> DEFINE s == <<Word(w), a>>
<1>1. DOMAIN s = 1..2 /\ s[1] = Word(w) /\ s[2] = a /\ s # <<>>
  OBVIOUS
<1>2. Full(Word(w))
  BY FullVerb
<1>3. FitsAll(s)
  BY <1>2, FitsTwo DEF Full
<1> HIDE DEF s
<1>4. \A i \in 1..2 : i = 1 \/ i = 2
  OBVIOUS
<1>5. \A i \in DOMAIN s : s[i].form # "set"
  BY <1>1, <1>2, <1>4 DEF Full
<1>6. FullAll(s) /\ Starts(s)
  BY <1>1, <1>3, <1>5 DEF FullAll, Starts
<1>7. QED
  BY <1>6, FullProper, UidProper DEF s

(* ... with two ... *)
LEMMA MethodThree ==
  ASSUME NEW w \in Words, NEW a, NEW b, Full(a), Full(b)
  PROVE  \A method : Proper(method, <<Word(w), a, b>>) /\ Proper(method, Uid(<<Word(w), a, b>>))
<1> DEFINE s == <<Word(w), a, b>>
<1>1. DOMAIN s = 1..3 /\ s[1] = Word(w) /\ s[2] = a /\ s[3] = b /\ s # <<>>
  OBVIOUS
<1>2. Full(Word(w))
  BY FullVerb
<1>3. FitsAll(s)
  BY <1>2, FitsThree DEF Full
<1> HIDE DEF s
<1>4. \A i \in 1..3 : i = 1 \/ i = 2 \/ i = 3
  OBVIOUS
<1>5. \A i \in DOMAIN s : s[i].form # "set"
  BY <1>1, <1>2, <1>4 DEF Full
<1>6. FullAll(s) /\ Starts(s)
  BY <1>1, <1>3, <1>5 DEF FullAll, Starts
<1>7. QED
  BY <1>6, FullProper, UidProper DEF s

(* ... with three ... *)
LEMMA MethodFour ==
  ASSUME NEW w \in Words, NEW a, NEW b, NEW c, Full(a), Full(b), Full(c)
  PROVE  \A method : Proper(method, <<Word(w), a, b, c>>)
                       /\ Proper(method, Uid(<<Word(w), a, b, c>>))
<1> DEFINE s == <<Word(w), a, b, c>>
<1>1. DOMAIN s = 1..4 /\ s[1] = Word(w) /\ s[2] = a /\ s[3] = b /\ s[4] = c /\ s # <<>>
  OBVIOUS
<1>2. Full(Word(w))
  BY FullVerb
<1>3. FitsAll(s)
  BY <1>2, FitsFour DEF Full
<1> HIDE DEF s
<1>4. \A i \in 1..4 : i = 1 \/ i = 2 \/ i = 3 \/ i = 4
  OBVIOUS
<1>5. \A i \in DOMAIN s : s[i].form # "set"
  BY <1>1, <1>2, <1>4 DEF Full
<1>6. FullAll(s) /\ Starts(s)
  BY <1>1, <1>3, <1>5 DEF FullAll, Starts
<1>7. QED
  BY <1>6, FullProper, UidProper DEF s

(* ... and with four. *)
LEMMA MethodFive ==
  ASSUME NEW w \in Words, NEW a, NEW b, NEW c, NEW d, Full(a), Full(b), Full(c), Full(d)
  PROVE  \A method : Proper(method, <<Word(w), a, b, c, d>>)
                       /\ Proper(method, Uid(<<Word(w), a, b, c, d>>))
<1> DEFINE s == <<Word(w), a, b, c, d>>
<1>1. DOMAIN s = 1..5 /\ s[1] = Word(w) /\ s[2] = a /\ s[3] = b /\ s[4] = c /\ s[5] = d /\ s # <<>>
  OBVIOUS
<1>2. Full(Word(w))
  BY FullVerb
<1>3. FitsAll(s)
  BY <1>2, FitsFive DEF Full
<1> HIDE DEF s
<1>4. \A i \in 1..5 : i = 1 \/ i = 2 \/ i = 3 \/ i = 4 \/ i = 5
  OBVIOUS
<1>5. \A i \in DOMAIN s : s[i].form # "set"
  BY <1>1, <1>2, <1>4 DEF Full
<1>6. FullAll(s) /\ Starts(s)
  BY <1>1, <1>3, <1>5 DEF FullAll, Starts
<1>7. QED
  BY <1>6, FullProper, UidProper DEF s

(* A literal is an argument that fits ... *)
LEMMA FullLiteral == ASSUME NEW w \in Literals, w # QUOTE PROVE Full(Word(w)) /\ FitsLeaf(Word(w))
  BY LiteralsAreChars, FitsWord DEF Full, Word, Arg

(* ... a quoted text ... *)
LEMMA FullQuoted ==
  ASSUME NEW s \in Texts PROVE Full(Quoted(s)) /\ Full(Unchecked(s)) /\ FitsLeaf(Quoted(s))
  BY FitsQuoted DEF Full, Quoted, Unchecked, Arg

(* ... the empty one ... *)
LEMMA FullEmpty == Full(Quoted(<<>>)) /\ Full(Unchecked(<<>>)) /\ FitsLeaf(Quoted(<<>>))
  BY FitsEmpty DEF Full, Quoted, Unchecked, Arg

(* ... one that may be missing ... *)
LEMMA FullOption ==
  ASSUME NEW s \in {None} \cup Texts
  PROVE  Full(Quoted(OrEmpty(s))) /\ Full(Unchecked(OrEmpty(s)))
<1>1. CASE s = None
  BY <1>1, FullEmpty DEF OrEmpty
<1>2. CASE s # None
  BY <1>2, FullQuoted DEF OrEmpty
<1>3. QED
  BY <1>1, <1>2

(* ... what the caller writes in the syntax ... *)
LEMMA FullAtom == ASSUME NEW s \in Atoms PROVE Full(Verbatim(s)) /\ FitsLeaf(Verbatim(s))
  BY FitsAtom DEF Full, Verbatim, Arg

(* ... a plain text ... *)
LEMMA FullPlain == ASSUME NEW s \in Plains(Chars) PROVE Full(Verbatim(s)) /\ FitsLeaf(Verbatim(s))
  BY FitsText DEF Full, Verbatim, Arg

(* ... a set ... *)
LEMMA FullSet == ASSUME NEW s \in Sets PROVE Full(Verbatim(s))
  BY FitsVerbatimSet DEF Full, Verbatim, Arg

(* ... nothing at all ... *)
LEMMA FullNothing == Full(Verbatim(<<>>))
<1>1. <<>> \in Seq(Chars) /\ ~Has(<<>>, {QUOTE})
  BY EmptySeq DEF Has
<1>2. QED
  BY <1>1, PlainText, FullPlain

(* ... a pattern, or its default ... *)
LEMMA FullPattern ==
  ASSUME NEW s \in {None} \cup Atoms
  PROVE  Full(Pattern(s, Quoted(<<>>))) /\ Full(Pattern(s, Verbatim(<<>>)))
<1>1. CASE s = None
  BY <1>1, FullEmpty, FullNothing DEF Pattern
<1>2. CASE s # None
  BY <1>2, FullAtom DEF Pattern
<1>3. QED
  BY <1>1, <1>2

(* ... a group of those ... *)
LEMMA FullGroup ==
  ASSUME NEW A, NEW args \in Seq(A), \A i \in DOMAIN args : FitsLeaf(args[i])
  PROVE  Full(Group(args))
  BY GroupFits DEF Full, Group, Arg

(* ... and a text between quotes. *)
LEMMA FullInQuotes == ASSUME NEW s \in Seq(Used) PROVE Full(InQuotes(s))
  BY FitsInQuotes DEF Full, InQuotes, Arg

(* The letters of the rights, after their sign, are one atom, and read back as what was meant. *)
LEMMA SignReads ==
  ASSUME NEW mode \in {"replace", "add", "remove"}, NEW y \in Seq(Letters), NEW x,
         x = Sign(mode) \o y, x # <<>>
  PROVE  /\ x \in Seq(Chars) /\ ~Has(x, {SP, OPEN, CLOSE, QUOTE})
         /\ ReadRights(x) = [token |-> "rights", mode |-> mode, rights |-> ToSet(y)]
<1> DEFINE K == Letters \cup {"+", "-"}
<1>1. K \cap {SP, OPEN, CLOSE, QUOTE, CR, LF} = {} /\ {"+", "-"} \cap Letters = {}
  BY CallsAssumption DEF SP, OPEN, CLOSE, QUOTE, CR, LF
<1>2. K \subseteq Chars
  <2>1. {"+", "-"} \subseteq Used /\ Letters \subseteq Used
    BY DEF Used, Literals
  <2>2. QED
    BY <1>1, <2>1 DEF Chars
<1>3. y \in Seq(K)
  BY SeqMonotonic
<1>4. x \in Seq(K) /\ ReadRights(x) = [token |-> "rights", mode |-> mode, rights |-> ToSet(y)]
  <2>1. CASE mode = "replace"
    <3>1. x = y
      BY <1>3, <2>1, ConcatEmptySeq DEF Sign
    <3>2. y[1] \in Letters
      BY <3>1, EmptySeq, LenProperties, ElementOfSeq
    <3>3. x[1] # "+" /\ x[1] # "-"
      BY <1>1, <3>1, <3>2
    <3>4. QED
      BY <1>3, <2>1, <3>1, <3>3 DEF ReadRights, RightsOf
  <2>2. ASSUME NEW c \in {"+", "-"}, x = <<c>> \o y
        PROVE  x \in Seq(K) /\ x[1] = c /\ Tail(x) = y
    <3>1. <<c>> \in Seq(K) /\ Len(<<c>>) = 1 /\ <<c>>[1] = c
      OBVIOUS
    <3> DEFINE u == <<c>>
    <3> HIDE DEF u, K
    <3>2. u \in Seq(K) /\ Len(u) = 1 /\ u[1] = c /\ x = u \o y
      BY <2>2, <3>1 DEF u
    <3>3. x \in Seq(K) /\ Len(x) = 1 + Len(y) /\ Len(y) \in Nat /\ x[1] = c
          /\ \A i \in 1..Len(y) : x[i + 1] = y[i]
      BY <1>3, <3>2, ConcatProperties, LenProperties, SMTT(30)
    <3>4. x # <<>>
      BY <3>3, EmptySeq
    <3>5. Tail(x) \in Seq(K) /\ Len(Tail(x)) = Len(y) /\ \A i \in 1..Len(y) : Tail(x)[i] = y[i]
      BY <3>3, <3>4, HeadTailProperties
    <3>6. Tail(x) = y
      BY <1>3, <3>5, SeqEqual
    <3>7. QED
      BY <3>3, <3>6
  <2>3. CASE mode = "add"
    <3>1. x = <<"+">> \o y
      BY <2>3 DEF Sign
    <3>2. x \in Seq(K) /\ x[1] = "+" /\ Tail(x) = y
      BY <2>2, <3>1
    <3>3. QED
      BY <2>3, <3>2 DEF ReadRights, RightsOf
  <2>4. CASE mode = "remove"
    <3>1. x = <<"-">> \o y
      BY <2>4 DEF Sign
    <3>2. x \in Seq(K) /\ x[1] = "-" /\ Tail(x) = y
      BY <2>2, <3>1
    <3>3. QED
      BY <2>4, <3>2 DEF ReadRights, RightsOf
  <2>5. QED
    BY <2>1, <2>3, <2>4
<1> HIDE DEF K
<1>5. x \in Seq(Chars)
  BY <1>2, <1>4, SeqMonotonic
<1>6. \A i \in DOMAIN x : x[i] \in K
  BY <1>4, LenProperties, ElementOfSeq
<1>7. ~Has(x, {SP, OPEN, CLOSE, QUOTE})
  BY <1>1, <1>6 DEF Has
<1>8. QED
  BY <1>4, <1>5, <1>7

(* SETACL is heard as it is meant, if it names any rights. *)
LEMMA SetAclMeans ==
  ASSUME NEW s \in Texts, NEW t \in Texts, NEW rights \in RightsTexts, IsRights(rights, Letters),
         NEW mode \in {"replace", "add", "remove"}
  PROVE  /\ Means(SetAcl(s, t, RightsOf(rights), mode))
         /\ \A i \in DOMAIN SetAcl(s, t, RightsOf(rights), mode) :
                ~AsksNothing(SetAcl(s, t, RightsOf(rights), mode)[i])
<1> DEFINE R == RightsOf(rights)
           y == SetToSeq(R)
           x == Sign(mode) \o y
           l == Rights(mode, R)
           a == Word("SETACL")
           b == Quoted(s)
           c == Quoted(t)
           front == <<a, b, c>>
           A == {a, b, c, l}
           M == [token |-> "rights", mode |-> mode, rights |-> R]
<1>1. rights \in Seq(R)
  BY CallsAssumption DEF IsText, RightsOf
<1>2. R \subseteq Letters
  BY DEF RightsOf, ToSet, IsRights
<1>3. IsFiniteSet(R)
  BY <1>1, RangeFinite DEF RightsOf
<1>4. ArgText(l) = x /\ ArgMeaning(l) = <<M>> /\ (Unguarded(l) <=> x = <<>>) /\ ~AsksNothing(l)
  BY DEF ArgText, ArgMeaning, LeafText, LeafMeaning, RightsText, Rights, Arg, Unguarded, AsksNothing
<1>5. Fits(a) /\ Fits(b) /\ Fits(c)
  BY FitsQuoted, FullLiteral DEF Full, Literals, QUOTE
<1>6. a.form # "set" /\ b.form # "set" /\ c.form # "set"
  BY DEF Word, Quoted, Arg
<1>7. front \in Seq(A) /\ l \in A /\ DOMAIN front = 1..3
      /\ front[1] = a /\ front[2] = b /\ front[3] = c
  OBVIOUS
<1>8. SetAcl(s, t, R, mode) = Append(front, l)
  BY QuadIs DEF SetAcl
<1> HIDE DEF A, front, l, x, y, R, M, b, c
<1>9. /\ Append(front, l) \in Seq(A) /\ Len(front) = 3 /\ DOMAIN Append(front, l) = 1..4
      /\ Append(front, l)[4] = l /\ Append(front, l)[1] = a /\ Append(front, l)[2] = b
      /\ Append(front, l)[3] = c
  <2>1. front \in Seq(A) /\ l \in A
    BY <1>7
  <2>2. Len(front) \in Nat /\ DOMAIN front = 1..Len(front)
    BY <2>1, LenProperties
  <2>3. Len(front) = 3
    BY <1>7, <2>2
  <2> DEFINE g == Append(front, l)
  <2>4. g \in Seq(A) /\ Len(g) = 4 /\ g[4] = l /\ g[1] = front[1] /\ g[2] = front[2]
        /\ g[3] = front[3]
    <3>1. g \in Seq(A) /\ Len(g) = Len(front) + 1 /\ g[Len(front) + 1] = l
          /\ \A i \in 1..Len(front) : g[i] = front[i]
      BY <2>1, AppendProperties
    <3> HIDE DEF g
    <3>2. QED
      BY <2>3, <3>1
  <2> HIDE DEF g
  <2>5. DOMAIN g = 1..4
    BY <2>4, LenProperties
  <2>6. QED
    BY <1>7, <2>3, <2>4, <2>5 DEF g
<1> DEFINE cmd == Append(front, l)
<1>10. \A i \in 1..4 : i = 1 \/ i = 2 \/ i = 3 \/ i = 4
  OBVIOUS
<1>11. \A i \in DOMAIN cmd : ~AsksNothing(cmd[i])
  BY <1>4, <1>6, <1>9, <1>10 DEF AsksNothing
<1>12. ASSUME Clear(cmd) PROVE Sound(cmd)
  <2>1. Checked(a) /\ Checked(b) /\ Checked(c) /\ Checked(l)
    <3>1. \A i \in DOMAIN cmd : Checked(cmd[i])
      BY <1>12 DEF Clear
    <3>2. DOMAIN cmd = 1..4 /\ cmd[1] = a /\ cmd[2] = b /\ cmd[3] = c /\ cmd[4] = l
      BY <1>9
    <3>3. 1 \in 1..4 /\ 2 \in 1..4 /\ 3 \in 1..4 /\ 4 \in 1..4
      OBVIOUS
    <3> HIDE DEF cmd, a
    <3>4. QED
      BY <3>1, <3>2, <3>3
  <2>2. x # <<>>
    BY <1>4, <2>1 DEF Checked
  <2>3. y \in Seq(R) /\ ToSet(y) = R
    BY <1>3, ListOf DEF y
  <2>4. y \in Seq(Letters)
    BY <1>2, <2>3, SeqMonotonic
  <2>5. x \in Seq(Chars) /\ ~Has(x, {SP, OPEN, CLOSE, QUOTE}) /\ ReadRights(x) = M
    BY <2>2, <2>3, <2>4, SignReads DEF x, M
  <2>6. Tokens(x) = <<Atom(x)>>
    BY <2>2, <2>5, AtomReads
  <2>7. \A i \in 1..3 : i = 1 \/ i = 2 \/ i = 3
    OBVIOUS
  <2>8. \A i \in DOMAIN front : Fits(front[i]) /\ Checked(front[i])
    BY <1>5, <1>7, <2>1, <2>7
  <2> DEFINE m == Meaning(front)
             T == Toks(Chars) \cup {M}
  <2>9. <<M>> \in Seq(T) /\ Atom(x) \in T /\ M \in T
    BY <2>5, TokenTypes
  <2> HIDE DEF T
  <2>10. /\ CommandText(cmd) \in Seq(Chars) /\ m \in Seq(Toks(Chars))
         /\ Tokens(CommandText(cmd)) = m \o <<Atom(x)>> /\ Meaning(cmd) = m \o <<M>>
    BY <1>4, <1>7, <2>5, <2>6, <2>8, <2>9, CommandReads
  <2>11. m # <<>> /\ m[1] = Atom(<<"SETACL">>)
    <3>1. "SETACL" \in Chars /\ "SETACL" \notin {SP, OPEN, CLOSE, QUOTE}
      BY LiteralsAreChars DEF Literals, SP, OPEN, CLOSE, QUOTE
    <3>2. front # <<>>
      BY <1>7, EmptySeq
    <3>3. QED
      BY <1>7, <2>8, <3>1, <3>2, FirstToken
  <2>12. m \in Seq(T)
    BY <2>10, SeqMonotonic DEF T
  <2> HIDE DEF m
  <2>13. m \o <<Atom(x)>> = Append(m, Atom(x)) /\ m \o <<M>> = Append(m, M)
    BY <2>9, <2>12, AppendIsConcat
  <2> DEFINE k == Append(m, Atom(x))
  <2>14. /\ k # <<>> /\ Front(k) = m /\ Last(k) = Atom(x) /\ k[1] = m[1]
    <3>1. Front(k) = m /\ Last(k) = Atom(x) /\ k # <<>>
      BY <2>9, <2>12, FrontOfAppend
    <3>2. 1 \in 1..Len(m)
      BY <2>11, <2>12, EmptySeq, LenProperties
    <3>3. k[1] = m[1]
      BY <2>9, <2>12, <3>2, AppendProperties
    <3>4. QED
      BY <3>1, <3>3
  <2> HIDE DEF k
  <2>15. Last(k).token = "atom" /\ Last(k).text = x
    BY <2>14 DEF Atom
  <2>16. Understood(k) = Append(m, M)
    BY <2>5, <2>11, <2>14, <2>15 DEF Understood
  <2>17. QED
    BY <2>10, <2>13, <2>16 DEF Sound, k
<1>13. QED
  BY <1>8, <1>11, <1>12 DEF Means, R

(* FETCH and UID FETCH. *)
LEMMA FetchMeans ==
  ASSUME NEW set \in Sets, NEW query \in Queries
  PROVE  Means(Fetch(set, query)) /\ Means(UidFetch(set, query))
<1> DEFINE f == <<Word("FETCH"), Set(set)>>
           u == <<Word("UID")>>
           l == Line(query)
<1>1. "FETCH" \in Words /\ "UID" \in Words
  BY DEF Words
<1>2. Fits(Word("FETCH")) /\ Fits(Set(set))
  BY <1>1, FitsVerb, FitsSet
<1>3. FitsAll(f)
  BY <1>2, FitsTwo
<1>4. Starts(f) /\ FitsAll(u \o f) /\ Starts(u \o f)
  <2>1. f # <<>> /\ f[1] = Word("FETCH")
    OBVIOUS
  <2>2. Starts(f)
    BY <1>1, <2>1 DEF Starts
  <2>3. QED
    BY <1>3, <2>2, UidFits DEF Uid
<1>5. Fetch(set, query) = Append(f, l)
  BY TripleIs DEF Fetch
<1>6. UidFetch(set, query) = Append(u \o f, l)
  <2>1. PICK A : f \in Seq(A)
    BY <1>3 DEF FitsAll
  <2> DEFINE B == A \cup {l, Word("UID")}
  <2>2. f \in Seq(B) /\ u \in Seq(B) /\ l \in B
    BY <2>1, SeqMonotonic
  <2> HIDE DEF B, f, u, l
  <2>3. Append(f, l) = f \o <<l>> /\ Append(u \o f, l) = (u \o f) \o <<l>> /\ u \o f \in Seq(B)
        /\ <<l>> \in Seq(B)
    BY <2>2, AppendIsConcat, ConcatProperties
  <2>4. (u \o f) \o <<l>> = u \o (f \o <<l>>)
    BY <2>2, <2>3, ConcatAssociative
  <2>5. QED
    BY <1>5, <2>3, <2>4 DEF UidFetch, Uid, u
<1> HIDE DEF f, u
<1>7. QED
  BY <1>3, <1>4, <1>5, <1>6, QueryMeans

(* One sequence on its own, flattened. *)
LEMMA FlattenOne ==
  ASSUME NEW S, NEW t \in Seq(S)
  PROVE  FlattenSeq(<<t>>) = t
<1>1. <<>> \in Seq(Seq(S))
  BY EmptySeq
<1>2. FlattenSeq(Append(<<>>, t)) = FlattenSeq(<<>>) \o t
  BY <1>1, FlattenAppend
<1>3. Append(<<>>, t) = <<t>>
  OBVIOUS
<1>4. FlattenSeq(<<>>) \o t = t
  BY FlattenEmpty, ConcatEmptySeq
<1>5. QED
  BY <1>2, <1>3, <1>4

(* Arguments that may be in a group. *)
Leaves(args) == (\E A : args \in Seq(A)) /\ \A i \in DOMAIN args : FitsLeaf(args[i])

(* A group of leaves fits ... *)
LEMMA LeavesFull == ASSUME NEW args, Leaves(args) PROVE Full(Group(args))
  BY FullGroup DEF Leaves

(* ... with none ... *)
LEMMA LeavesNone == Leaves(<<>>)
<1>1. <<>> \in Seq({})
  BY EmptySeq
<1>2. QED
  BY <1>1 DEF Leaves

(* ... one ... *)
LEMMA LeavesOne == ASSUME NEW a, FitsLeaf(a) PROVE Leaves(<<a>>)
<1> DEFINE s == <<a>>
           A == {a}
<1>1. s \in Seq(A) /\ DOMAIN s = 1..1 /\ s[1] = a
  OBVIOUS
<1> HIDE DEF s, A
<1>2. \E B : s \in Seq(B)
  BY <1>1
<1>3. \A i \in 1..1 : i = 1
  OBVIOUS
<1>4. QED
  BY <1>1, <1>2, <1>3 DEF Leaves, s

(* ... two ... *)
LEMMA LeavesTwo == ASSUME NEW a, NEW b, FitsLeaf(a), FitsLeaf(b) PROVE Leaves(<<a, b>>)
<1> DEFINE s == <<a, b>>
           A == {a, b}
<1>1. s \in Seq(A) /\ DOMAIN s = 1..2 /\ s[1] = a /\ s[2] = b
  OBVIOUS
<1> HIDE DEF s, A
<1>2. \E B : s \in Seq(B)
  BY <1>1
<1>3. \A i \in 1..2 : i = 1 \/ i = 2
  OBVIOUS
<1>4. QED
  BY <1>1, <1>2, <1>3 DEF Leaves, s

(* ... or those of two groups. *)
LEMMA LeavesConcat ==
  ASSUME NEW s, NEW t, Leaves(s), Leaves(t) PROVE Leaves(s \o t)
<1>1. PICK A, B : s \in Seq(A) /\ t \in Seq(B)
  BY DEF Leaves
<1> DEFINE D == A \cup B
<1>2. s \in Seq(D) /\ t \in Seq(D)
  BY <1>1, SeqMonotonic
<1> HIDE DEF D
<1>3. /\ s \o t \in Seq(D) /\ Len(s) \in Nat /\ Len(t) \in Nat /\ DOMAIN s = 1..Len(s)
      /\ DOMAIN t = 1..Len(t) /\ Len(s \o t) = Len(s) + Len(t)
      /\ \A i \in 1..(Len(s) + Len(t)) : (s \o t)[i] = IF i <= Len(s) THEN s[i] ELSE t[i - Len(s)]
  BY <1>2, ConcatProperties, LenProperties
<1>4. DOMAIN (s \o t) = 1..(Len(s) + Len(t))
  BY <1>3, LenProperties
<1>5. ASSUME NEW i \in 1..(Len(s) + Len(t)) PROVE FitsLeaf((s \o t)[i])
  <2>1. CASE i <= Len(s)
    BY <1>3, <2>1 DEF Leaves
  <2>2. CASE ~(i <= Len(s))
    <3>1. i - Len(s) \in 1..Len(t)
      BY <1>3, <2>2
    <3>2. QED
      BY <1>3, <2>2, <3>1 DEF Leaves
  <2>3. QED
    BY <2>1, <2>2
<1>6. \E X : s \o t \in Seq(X)
  BY <1>3
<1>7. QED
  BY <1>4, <1>5, <1>6 DEF Leaves

(* Three arguments that fit ... *)
LEMMA FullThree ==
  ASSUME NEW a, NEW b, NEW c, Full(a), Full(b), Full(c) PROVE FullAll(<<a, b, c>>)
<1> DEFINE s == <<a, b, c>>
<1>1. DOMAIN s = 1..3 /\ s[1] = a /\ s[2] = b /\ s[3] = c
  OBVIOUS
<1>2. FitsAll(s)
  BY FitsThree DEF Full
<1> HIDE DEF s
<1>3. \A i \in 1..3 : i = 1 \/ i = 2 \/ i = 3
  OBVIOUS
<1>4. QED
  BY <1>1, <1>2, <1>3 DEF FullAll, Full, s

(* ... one ... *)
LEMMA FullOne == ASSUME NEW a, Full(a) PROVE FullAll(<<a>>)
<1> DEFINE s == <<a>>
<1>1. DOMAIN s = 1..1 /\ s[1] = a
  OBVIOUS
<1>2. FitsAll(s)
  BY FitsOne DEF Full
<1> HIDE DEF s
<1>3. \A i \in 1..1 : i = 1
  OBVIOUS
<1>4. QED
  BY <1>1, <1>2, <1>3 DEF FullAll, Full, s

(* ... and none. *)
LEMMA FullAllNone == FullAll(<<>>)
<1>1. DOMAIN <<>> = {}
  OBVIOUS
<1>2. QED
  BY <1>1, FitsNone DEF FullAll

(* A command starts with its first word, whatever follows. *)
LEMMA StartsConcat ==
  ASSUME NEW s, NEW t, FullAll(s), FullAll(t), Starts(s) PROVE Starts(s \o t)
<1>1. PICK A, B : s \in Seq(A) /\ t \in Seq(B)
  BY DEF FullAll, FitsAll
<1> DEFINE D == A \cup B
<1>2. s \in Seq(D) /\ t \in Seq(D)
  BY <1>1, SeqMonotonic
<1> HIDE DEF D
<1>3. s # <<>> /\ Len(s) \in Nat \ {0} /\ Len(t) \in Nat
  BY <1>2, EmptySeq, LenProperties DEF Starts
<1>4. s \o t \in Seq(D) /\ Len(s \o t) = Len(s) + Len(t)
      /\ \A i \in 1..(Len(s) + Len(t)) : (s \o t)[i] = IF i <= Len(s) THEN s[i] ELSE t[i - Len(s)]
  BY <1>2, ConcatProperties
<1>5. s \o t # <<>>
  BY <1>3, <1>4, EmptySeq
<1>6. (s \o t)[1] = s[1]
  BY <1>3, <1>4
<1>7. QED
  BY <1>5, <1>6 DEF Starts

(* What a method writes of its own is plain text. *)
LEMMA LiteralText ==
  ASSUME NEW s \in Seq(Literals), ~Has(s, {QUOTE}) PROVE s \in Plains(Chars)
<1>1. Literals \subseteq Chars
  BY LiteralsAreChars
<1>2. s \in Seq(Chars)
  BY <1>1, SeqMonotonic
<1>3. QED
  BY <1>2, PlainText

(* A literal is plain ... *)
LEMMA LiteralPlain == ASSUME NEW w \in Literals, w # QUOTE PROVE <<w>> \in Plains(Chars)
<1>1. <<w>> \in Seq(Literals) /\ ~Has(<<w>>, {QUOTE})
  BY DEF Has
<1>2. QED
  BY <1>1, LiteralText

(* ... and so is a pair of them. *)
LEMMA PairText ==
  ASSUME NEW C, NEW a \in C, NEW b \in C, a # QUOTE, b # QUOTE
  PROVE  <<a, b>> \in Seq(C) /\ ~Has(<<a, b>>, {QUOTE})
<1> DEFINE s == <<a, b>>
<1>1. s \in Seq(C) /\ DOMAIN s = 1..2 /\ s[1] = a /\ s[2] = b
  OBVIOUS
<1> HIDE DEF s
<1>2. \A i \in 1..2 : i = 1 \/ i = 2
  OBVIOUS
<1>3. \A i \in DOMAIN s : s[i] # QUOTE
  BY <1>1, <1>2
<1>4. QED
  BY <1>1, <1>3 DEF Has, s

(* The criteria and the charset of a SORT. *)
LEMMA CriteriaFull ==
  ASSUME NEW keys \in Seq(Plains(Chars)) PROVE Full(Criteria(keys))
<1>1. CASE keys = <<>>
  BY <1>1, FullNothing DEF Criteria
<1>2. CASE keys # <<>>
  <2> DEFINE V == {Verbatim(k) : k \in Plains(Chars)}
             n == Len(keys)
             args == [i \in DOMAIN keys |-> Verbatim(keys[i])]
  <2>1. n \in Nat /\ DOMAIN keys = 1..n /\ \A i \in 1..n : keys[i] \in Plains(Chars)
    BY LenProperties, ElementOfSeq
  <2>2. args \in [1..n -> V] /\ \A i \in 1..n : args[i] = Verbatim(keys[i])
    BY <2>1
  <2>3. Criteria(keys) = Group(args)
    BY <1>2 DEF Criteria
  <2> HIDE DEF V, args, n
  <2>4. n \in Nat
    BY <2>1
  <2>5. args \in Seq(V)
    BY <2>2, <2>4, IsSeq, Zenon
  <2>6. DOMAIN args = 1..n
    BY <2>2
  <2>7. \A i \in 1..n : FitsLeaf(args[i])
    BY <2>1, <2>2, FullPlain
  <2>8. QED
    BY <2>3, <2>5, <2>6, <2>7, FullGroup
<1>3. QED
  BY <1>1, <1>2

(* The keys of a SORT fit ... *)
LEMMA KeysFull ==
  ASSUME NEW keys \in {<<>>, <<Criterion(FALSE, "DATE")>>,
                       <<Criterion(TRUE, "SIZE"), Criterion(FALSE, "DATE")>>}
  PROVE  Full(Criteria(keys))
<1> DEFINE P == Plains(Chars)
           d == Criterion(FALSE, "DATE")
           z == Criterion(TRUE, "SIZE")
<1>1. d \in P
  BY LiteralPlain DEF Criterion, Literals, QUOTE
<1>2. z \in P
  <2> DEFINE s == <<"REVERSE", SP, "SIZE">>
  <2>1. s \in Seq(Literals) /\ DOMAIN s = 1..3 /\ s[1] = "REVERSE" /\ s[2] = SP /\ s[3] = "SIZE"
    BY DEF Literals
  <2>2. z = s
    BY DEF Criterion
  <2> HIDE DEF s, z
  <2>3. \A i \in 1..3 : i = 1 \/ i = 2 \/ i = 3
    OBVIOUS
  <2>4. ~Has(s, {QUOTE})
    BY <2>1, <2>3 DEF Has, QUOTE, SP
  <2>5. QED
    BY <2>1, <2>2, <2>4, LiteralText
<1> HIDE DEF P, d, z
<1>3. <<>> \in Seq(P) /\ <<d>> \in Seq(P) /\ <<z, d>> \in Seq(P)
  BY <1>1, <1>2
<1>4. keys \in Seq(P)
  BY <1>3 DEF d, z
<1>5. QED
  BY <1>4, CriteriaFull DEF P

(* ... and its charset. *)
LEMMA CharsetFull ==
  ASSUME NEW charset \in {[kind |-> "Utf8", name |-> <<>>], [kind |-> "UsAscii", name |-> <<>>],
                          [kind |-> "Custom", name |-> <<"KOI8-R">>]}
  PROVE  Full(Charset(charset))
<1>1. Full(Word("UTF-8")) /\ Full(Word("US-ASCII")) /\ Full(Verbatim(<<"KOI8-R">>))
  BY FullLiteral, LiteralPlain, FullPlain DEF Literals, QUOTE
<1>2. \/ charset.kind = "Utf8" \/ charset.kind = "UsAscii"
      \/ charset.kind = "Custom" /\ charset.name = <<"KOI8-R">>
  OBVIOUS
<1>3. QED
  BY <1>1, <1>2 DEF Charset

(* A limit of SETQUOTA. *)
LEMMA LimitsFull ==
  ASSUME NEW name \in {<<"STORAGE">>, <<"MESSAGE">>} \cup Atoms
  PROVE  Full(Group(<<Limit(ResourceName(name), "10")>>))
<1> DEFINE t == <<SP, "10">>
           l == Limit(ResourceName(name), "10")
<1>1. ResourceText(ResourceName(name)) = name
  <2>1. CASE name = <<"STORAGE">>
    BY <2>1 DEF ResourceText, ResourceName
  <2>2. CASE name = <<"MESSAGE">>
    <3>1. <<"MESSAGE">> # <<"STORAGE">>
      OBVIOUS
    <3>2. ResourceName(name) = [kind |-> "Message", name |-> <<>>]
      BY <2>2, <3>1 DEF ResourceName
    <3>3. QED
      BY <2>2, <3>2 DEF ResourceText
  <2>3. CASE name # <<"STORAGE">> /\ name # <<"MESSAGE">>
    BY <2>3 DEF ResourceText, ResourceName
  <2>4. QED
    BY <2>1, <2>2, <2>3
<1>2. name \in Plains(Chars)
  BY AtomsPlain, LiteralPlain DEF Literals, QUOTE
<1>3. t \in Seq(Literals) /\ ~Has(t, {QUOTE})
  <2>1. SP \in Literals /\ "10" \in Literals /\ SP # QUOTE /\ "10" # QUOTE
    BY DEF Literals, QUOTE, SP
  <2>2. QED
    BY <2>1, PairText
<1>4. l = Verbatim(name \o t)
  BY <1>1 DEF Limit
<1> HIDE DEF t, l
<1>5. Literals \subseteq Chars
  BY LiteralsAreChars
<1>6. t \in Seq(Chars)
  BY <1>3, <1>5, SeqMonotonic
<1>7. name \o t \in Plains(Chars)
  BY <1>2, <1>3, <1>6, PlainThen
<1>8. FitsLeaf(l)
  BY <1>4, <1>7, FullPlain
<1>9. QED
  BY <1>8, LeavesOne, LeavesFull DEF l

(* The flags of an APPEND. *)
LEMMA FlagPlain ==
  ASSUME NEW flag \in {<<BACKSLASH, "Recent">>, <<BACKSLASH, "Seen">>} \cup Atoms
  PROVE  FlagText(FlagOf(flag)) \in Plains(Chars)
<1>1. flag \in Plains(Chars)
  <2>1. CASE flag \in Atoms
    BY <2>1, AtomsPlain
  <2>2. ASSUME NEW w \in {"Recent", "Seen"} PROVE <<BACKSLASH, w>> \in Plains(Chars)
    <3>1. <<BACKSLASH, w>> \in Seq(Literals) /\ ~Has(<<BACKSLASH, w>>, {QUOTE})
      <4>1. BACKSLASH \in Literals /\ w \in Literals /\ BACKSLASH # QUOTE /\ w # QUOTE
        BY <2>2 DEF Literals, QUOTE, BACKSLASH
      <4>2. QED
        BY <4>1, PairText
    <3>2. QED
      BY <3>1, LiteralText
  <2>3. QED
    BY <2>1, <2>2
<1>2. flag \in Seq(Chars)
  BY <1>1 DEF Plains
<1> DEFINE sys == Len(flag) = 2 /\ flag[1] = BACKSLASH /\ flag[2] \in SystemFlags
           w == flag[2]
<1>3. CASE sys
  <2>1. w \in Chars
    BY <1>2, <1>3, LenProperties, ElementOfSeq
  <2>2. w # QUOTE
    BY <1>3 DEF SystemFlags, QUOTE
  <2>3. FlagText(FlagOf(flag)) = <<BACKSLASH>> \o <<w>>
    BY <1>3 DEF FlagText, FlagOf
  <2> HIDE DEF w
  <2>4. <<BACKSLASH, w>> \in Seq(Chars) /\ ~Has(<<BACKSLASH, w>>, {QUOTE})
    <3>1. BACKSLASH \in Chars /\ BACKSLASH # QUOTE
      BY CharsHave DEF QUOTE, BACKSLASH
    <3>2. QED
      BY <2>1, <2>2, <3>1, PairText
  <2>5. QED
    BY <2>3, <2>4, PlainText, PairIs
<1>4. CASE ~sys
  BY <1>1, <1>4 DEF FlagText, FlagOf
<1>5. QED
  BY <1>3, <1>4

(* A filter of one element keeps it or not. *)
LEMMA ThoseOne ==
  ASSUME NEW f
  PROVE  Those(<<f>>, LAMBDA x : x # Recent) = IF f # Recent THEN <<f>> ELSE <<>>
<1> DEFINE t == IF f # Recent THEN <<f>> ELSE <<>>
<1>1. [i \in DOMAIN <<f>> |-> IF <<f>>[i] # Recent THEN <<<<f>>[i]>> ELSE <<>>] = <<t>>
  OBVIOUS
<1>2. <<f>> \in Seq({f}) /\ <<>> \in Seq({f})
  OBVIOUS
<1>3. t \in Seq({f})
  BY <1>2
<1> HIDE DEF t
<1>4. FlattenSeq(<<t>>) = t
  BY <1>3, FlattenOne
<1>5. QED
  BY <1>1, <1>4 DEF Those, t

(* The flags of an APPEND fit; \Recent is left out. *)
LEMMA FlagsFull ==
  ASSUME NEW flag \in {<<BACKSLASH, "Recent">>, <<BACKSLASH, "Seen">>} \cup Atoms
  PROVE  Full(FlagList(<<FlagOf(flag)>>))
<1> DEFINE f == FlagOf(flag)
           kept == Those(<<f>>, LAMBDA x : x # Recent)
           args == [i \in DOMAIN kept |-> Verbatim(FlagText(kept[i]))]
<1>1. FlagList(<<f>>) = Group(args)
  BY DEF FlagList
<1>2. FitsLeaf(Verbatim(FlagText(f)))
  BY FlagPlain, FullPlain
<1>3. kept = IF f # Recent THEN <<f>> ELSE <<>>
  BY ThoseOne
<1> HIDE DEF kept, f
<1>4. CASE f = Recent
  <2>1. args = <<>>
    BY <1>3, <1>4
  <2>2. QED
    BY <1>1, <2>1, LeavesNone, LeavesFull DEF f
<1>5. CASE f # Recent
  <2>1. args = <<Verbatim(FlagText(f))>>
    BY <1>3, <1>5
  <2> HIDE DEF args
  <2>2. QED
    BY <1>1, <1>2, <2>1, LeavesOne, LeavesFull DEF f
<1>6. QED
  BY <1>4, <1>5

(* Short texts are texts. *)
LEMMA ShortTexts ==
  /\ Short \subseteq Strings /\ Strings \subseteq Texts /\ Sets \subseteq Texts
  /\ Queries \subseteq Texts /\ Atoms \subseteq Texts /\ Entries \subseteq Texts
  /\ RightsTexts \subseteq Texts /\ Options(Short) \subseteq {None} \cup Texts
  BY DEF Short, Texts, Options

(* The commands without arguments are proper ... *)
LEMMA PlainProper ==
  \A method : /\ Proper(method, Noop) /\ Proper(method, Logout) /\ Proper(method, Check)
              /\ Proper(method, Close) /\ Proper(method, Capability) /\ Proper(method, Expunge)
<1>1. {"NOOP", "LOGOUT", "CHECK", "CLOSE", "CAPABILITY", "EXPUNGE"} \subseteq Words
  BY DEF Words
<1>2. QED
  BY <1>1, MethodOne DEF Noop, Logout, Check, Close, Capability, Expunge

(* ... those about a mailbox ... *)
LEMMA MailboxProper ==
  ASSUME NEW s \in Texts
  PROVE  \A method :
             /\ Proper(method, Select(s)) /\ Proper(method, Examine(s)) /\ Proper(method, Create(s))
             /\ Proper(method, Delete(s)) /\ Proper(method, Subscribe(s))
             /\ Proper(method, Unsubscribe(s)) /\ Proper(method, GetAcl(s))
             /\ Proper(method, MyRights(s)) /\ Proper(method, GetQuota(s))
             /\ Proper(method, GetQuotaRoot(s))
<1>1. {"SELECT", "EXAMINE", "CREATE", "DELETE", "SUBSCRIBE", "UNSUBSCRIBE", "GETACL", "MYRIGHTS",
       "GETQUOTA", "GETQUOTAROOT"} \subseteq Words
  BY DEF Words
<1>2. Full(Quoted(s)) /\ Full(Unchecked(s))
  BY FullQuoted
<1>3. \A method : /\ Proper(method, Select(s)) /\ Proper(method, Examine(s))
                  /\ Proper(method, Create(s)) /\ Proper(method, Delete(s))
  BY <1>1, <1>2, MethodTwo DEF Select, Examine, Create, Delete
<1>4. \A method : Proper(method, Subscribe(s)) /\ Proper(method, Unsubscribe(s))
  BY <1>1, <1>2, MethodTwo DEF Subscribe, Unsubscribe
<1>5. \A method : /\ Proper(method, GetAcl(s)) /\ Proper(method, MyRights(s))
                  /\ Proper(method, GetQuota(s)) /\ Proper(method, GetQuotaRoot(s))
  BY <1>1, <1>2, MethodTwo DEF GetAcl, MyRights, GetQuota, GetQuotaRoot
<1>6. QED
  BY <1>3, <1>4, <1>5

(* ... those with two names ... *)
LEMMA TwoNamesProper ==
  ASSUME NEW s \in Texts, NEW t \in Texts
  PROVE  \A method :
             /\ Proper(method, Login(s, t)) /\ Proper(method, Rename(s, t))
             /\ Proper(method, DeleteAcl(s, t)) /\ Proper(method, ListRights(s, t))
<1>1. {"LOGIN", "RENAME", "DELETEACL", "LISTRIGHTS"} \subseteq Words
  BY DEF Words
<1>2. /\ Full(Quoted(s)) /\ Full(Unchecked(s)) /\ Full(Quoted(t)) /\ Full(Unchecked(t))
  BY FullQuoted
<1>3. QED
  BY <1>1, <1>2, MethodThree DEF Login, Rename, DeleteAcl, ListRights

(* ... SETACL ... *)
LEMMA SetAclProper ==
  ASSUME NEW s \in Texts, NEW t \in Texts, NEW rights \in RightsTexts, IsRights(rights, Letters),
         NEW mode \in {"replace", "add", "remove"}
  PROVE  \A method : Proper(method, SetAcl(s, t, RightsOf(rights), mode))
  BY SetAclMeans DEF Proper

(* ... FETCH ... *)
LEMMA FetchProper ==
  ASSUME NEW set \in Sets, NEW query \in Queries
  PROVE  Proper("fetch", Fetch(set, query)) /\ Proper("uid_fetch", UidFetch(set, query))
  BY FetchMeans DEF Proper

(* ... those about messages ... *)
LEMMA MessagesProper ==
  ASSUME NEW set \in Sets, NEW s \in Texts, NEW atom \in Atoms
  PROVE  \A method :
             /\ Proper(method, Mv(set, s)) /\ Proper(method, UidMv(set, s))
             /\ Proper(method, Store(set, atom)) /\ Proper(method, UidStore(set, atom))
             /\ Proper(method, Copy(set, atom)) /\ Proper(method, UidCopy(set, atom))
<1>1. {"MOVE", "STORE", "COPY"} \subseteq Words
  BY DEF Words
<1>2. Full(Verbatim(set)) /\ Full(Quoted(s)) /\ Full(Verbatim(atom))
  BY FullQuoted, FullSet, FullAtom
<1>3. QED
  BY <1>1, <1>2, MethodThree DEF Mv, UidMv, Store, UidStore, Copy, UidCopy

(* ... UID EXPUNGE ... *)
LEMMA UidExpungeProper ==
  ASSUME NEW set \in Sets PROVE \A method : Proper(method, UidExpunge(set))
<1>1. "EXPUNGE" \in Words
  BY DEF Words
<1>2. QED
  BY <1>1, FullSet, MethodTwo DEF UidExpunge

(* ... LIST and LSUB ... *)
LEMMA ListsProper ==
  ASSUME NEW reference \in {None} \cup Texts, NEW pattern \in {None} \cup Atoms
  PROVE  \A method : /\ Proper(method, List(reference, pattern))
                     /\ Proper(method, Lsub(reference, pattern))
<1>1. {"LIST", "LSUB"} \subseteq Words
  BY DEF Words
<1>2. Full(Unchecked(OrEmpty(reference)))
  BY FullOption
<1>3. Full(Pattern(pattern, Quoted(<<>>))) /\ Full(Pattern(pattern, Verbatim(<<>>)))
  BY FullPattern
<1>4. QED
  BY <1>1, <1>2, <1>3, MethodThree DEF List, Lsub

(* ... LIST with STATUS ... *)
LEMMA ListStatusProper ==
  ASSUME NEW reference \in {None} \cup Texts, NEW pattern \in {None} \cup Atoms, NEW items \in Atoms
  PROVE  \A method : Proper(method, ListStatusOf(reference, pattern, items))
<1> DEFINE a == Quoted(OrEmpty(reference))
           b == Pattern(pattern, Quoted(<<>>))
           c == Word("RETURN")
           d == Group(<<Word("STATUS"), Verbatim(items)>>)
<1>1. "LIST" \in Words /\ "STATUS" \in Words
  BY DEF Words
<1>2. Full(a) /\ Full(b)
  BY FullOption, FullPattern
<1>3. Full(c)
  BY FullLiteral DEF Literals, QUOTE
<1>4. FitsLeaf(Word("STATUS")) /\ FitsLeaf(Verbatim(items))
  BY <1>1, WordsAreChars, FitsWord, FullAtom
<1>5. Full(d)
  BY <1>4, LeavesTwo, LeavesFull
<1>6. ListStatusOf(reference, pattern, items) = <<Word("LIST"), a, b, c, d>>
  BY DEF ListStatusOf
<1> HIDE DEF a, b, c, d
<1>7. QED
  BY <1>1, <1>2, <1>3, <1>5, <1>6, MethodFive

(* ... STATUS ... *)
LEMMA StatusProper ==
  ASSUME NEW s \in Texts, NEW items \in Atoms PROVE \A method : Proper(method, Status(s, items))
<1>1. "STATUS" \in Words
  BY DEF Words
<1>2. Full(Quoted(s)) /\ Full(Verbatim(items))
  BY FullQuoted, FullAtom
<1>3. QED
  BY <1>1, <1>2, MethodThree DEF Status

(* ... SEARCH ... *)
LEMMA SearchProper ==
  ASSUME NEW query \in Atoms
  PROVE  \A method : Proper(method, Search(query)) /\ Proper(method, UidSearch(query))
<1>1. "SEARCH" \in Words
  BY DEF Words
<1>2. Full(Verbatim(query))
  BY FullAtom
<1>3. QED
  BY <1>1, <1>2, MethodTwo DEF Search, UidSearch

(* ... SORT ... *)
LEMMA SortProper ==
  ASSUME NEW query \in Atoms,
         NEW keys \in {<<>>, <<Criterion(FALSE, "DATE")>>,
                       <<Criterion(TRUE, "SIZE"), Criterion(FALSE, "DATE")>>},
         NEW charset \in {[kind |-> "Utf8", name |-> <<>>], [kind |-> "UsAscii", name |-> <<>>],
                          [kind |-> "Custom", name |-> <<"KOI8-R">>]}
  PROVE  \A method : /\ Proper(method, Sort(keys, charset, query))
                     /\ Proper(method, UidSort(keys, charset, query))
<1> DEFINE a == Criteria(keys)
           b == Charset(charset)
           c == Verbatim(query)
<1>1. "SORT" \in Words
  BY DEF Words
<1>2. Full(a)
  BY KeysFull
<1>3. Full(b)
  BY CharsetFull
<1>4. Full(c)
  BY FullAtom
<1>5. Sort(keys, charset, query) = <<Word("SORT"), a, b, c>>
  BY DEF Sort
<1>6. UidSort(keys, charset, query) = Uid(<<Word("SORT"), a, b, c>>)
  BY DEF UidSort
<1> HIDE DEF a, b, c
<1>7. QED
  BY <1>1, <1>2, <1>3, <1>4, <1>5, <1>6, MethodFour

(* ... SETQUOTA ... *)
LEMMA QuotaProper ==
  ASSUME NEW root \in Texts, NEW name \in {<<"STORAGE">>, <<"MESSAGE">>} \cup Atoms
  PROVE  \A method : Proper(method, SetQuota(root, <<Limit(ResourceName(name), "10")>>))
<1>1. "SETQUOTA" \in Words
  BY DEF Words
<1>2. Full(Quoted(root)) /\ Full(Group(<<Limit(ResourceName(name), "10")>>))
  BY FullQuoted, LimitsFull
<1>3. QED
  BY <1>1, <1>2, MethodThree DEF SetQuota

(* ... APPEND ... *)
LEMMA AppendProper ==
  ASSUME NEW mailbox \in Texts,
         NEW flag \in {<<BACKSLASH, "Recent">>, <<BACKSLASH, "Seen">>} \cup Atoms,
         NEW date \in {None, <<"1-Jan-2020">>}
  PROVE  \A method : Proper(method, AppendTo(mailbox, <<FlagOf(flag)>>, date, "{9}"))
<1> DEFINE a == Word("APPEND")
           b == InQuotes(mailbox)
           c == FlagList(<<FlagOf(flag)>>)
           x == <<a, b, c>>
           y == IF date = None THEN <<>> ELSE <<InQuotes(date)>>
           z == <<Word("{9}")>>
<1>1. "APPEND" \in Words
  BY DEF Words
<1>2. Full(a)
  BY <1>1, FullVerb
<1>3. Full(b)
  BY TextType, FullInQuotes
<1>4. Full(c)
  BY FlagsFull
<1>5. FullAll(y)
  <2>1. CASE date = None
    BY <2>1, FullAllNone
  <2>2. CASE date # None
    <3>1. <<"1-Jan-2020">> \in Seq(Used)
      BY DEF Used, Literals
    <3>2. Full(InQuotes(date))
      BY <2>2, <3>1, FullInQuotes
    <3>3. QED
      BY <2>2, <3>2, FullOne
  <2>3. QED
    BY <2>1, <2>2
<1>6. FullAll(z)
  <2>1. Full(Word("{9}"))
    BY FullLiteral DEF Literals, QUOTE
  <2>2. QED
    BY <2>1, FullOne
<1>7. AppendTo(mailbox, <<FlagOf(flag)>>, date, "{9}") = (x \o y) \o z
  BY DEF AppendTo
<1>8. FullAll(x)
  BY <1>2, <1>3, <1>4, FullThree
<1>9. x # <<>> /\ x[1] = Word("APPEND")
  OBVIOUS
<1> HIDE DEF x, y, z
<1>10. Starts(x)
  BY <1>1, <1>9 DEF Starts
<1>11. FullAll(x \o y) /\ Starts(x \o y)
  BY <1>5, <1>8, <1>10, FullConcat, StartsConcat
<1>12. FullAll((x \o y) \o z) /\ Starts((x \o y) \o z)
  BY <1>6, <1>11, FullConcat, StartsConcat
<1>13. QED
  BY <1>7, <1>12, FullProper

(* ... (a size is a word) ... *)
LEMMA SizeFits == ASSUME NEW n \in Sizes PROVE FitsLeaf(Word(ToString(n)))
<1> DEFINE w == ToString(n)
<1>1. w \in Used /\ w \notin {QUOTE, CR, LF}
  <2>1. ToString(n) \notin {QUOTE, CR, LF}
    BY CallsAssumption, Zenon
  <2>2. w \in Digits
    BY Zenon DEF Digits
  <2> HIDE DEF w
  <2>3. w \in Used
    BY <2>2 DEF Used
  <2>4. QED
    BY <2>1, <2>3, Zenon DEF w
<1> HIDE DEF w
<1>2. w \in Chars /\ w # QUOTE
  BY <1>1 DEF Chars
<1>3. FitsLeaf(Word(w))
  BY <1>2, FitsWord
<1>4. QED
  BY <1>3 DEF w

(* ... GETMETADATA ... *)
LEMMA GetMetadataProper ==
  ASSUME NEW mailbox \in {None} \cup Texts, NEW depth \in {"Zero", "One", "Infinity"},
         NEW entries \in Seq(Entries), NEW maxsize \in {None} \cup Sizes
  PROVE  \A method : Proper(method, GetMetadata(mailbox, entries, depth, maxsize))
<1> DEFINE p == <<Word("DEPTH"), Word(DepthText(depth))>>
           size == IF maxsize = None THEN <<>> ELSE <<Word("MAXSIZE"), Word(ToString(maxsize))>>
           q == [i \in DOMAIN entries |-> Quoted(entries[i])]
           a == Group(p \o size)
           b == Quoted(OrEmpty(mailbox))
           c == Group(q)
<1>1. "GETMETADATA" \in Words
  BY DEF Words
<1>2. Leaves(p)
  <2>1. DepthText(depth) \in {"0", "1", "infinity"}
    BY DEF DepthText
  <2>2. {"0", "1", "infinity", "DEPTH"} \subseteq Literals \ {QUOTE}
    BY DEF Literals, QUOTE
  <2>3. FitsLeaf(Word("DEPTH")) /\ FitsLeaf(Word(DepthText(depth)))
    BY <2>1, <2>2, FullLiteral
  <2>4. QED
    BY <2>3, LeavesTwo
<1>3. Leaves(size)
  <2>1. CASE maxsize = None
    BY <2>1, LeavesNone
  <2>2. CASE maxsize # None
    <3>1. FitsLeaf(Word("MAXSIZE"))
      BY FullLiteral DEF Literals, QUOTE
    <3>2. FitsLeaf(Word(ToString(maxsize)))
      BY <2>2, SizeFits, Zenon
    <3>3. Leaves(<<Word("MAXSIZE"), Word(ToString(maxsize))>>)
      BY <3>1, <3>2, LeavesTwo, Zenon
    <3>4. size = <<Word("MAXSIZE"), Word(ToString(maxsize))>>
      BY <2>2, Zenon
    <3> HIDE DEF size
    <3>5. QED
      BY <3>3, <3>4, Zenon
  <2>3. QED
    BY <2>1, <2>2
<1>4. Leaves(q)
  <2> DEFINE V == {Quoted(e) : e \in Entries}
             n == Len(entries)
  <2>1. n \in Nat /\ DOMAIN entries = 1..n /\ \A i \in 1..n : entries[i] \in Entries
    BY LenProperties, ElementOfSeq
  <2>2. q \in [1..n -> V] /\ \A i \in 1..n : q[i] = Quoted(entries[i])
    BY <2>1
  <2> HIDE DEF V, q, n
  <2>3. n \in Nat
    BY <2>1
  <2>4. q \in Seq(V)
    BY <2>2, <2>3, IsSeq, Zenon
  <2>5. DOMAIN q = 1..n
    BY <2>2
  <2>6. \A i \in 1..n : FitsLeaf(q[i])
    BY <2>1, <2>2, ShortTexts, FullQuoted
  <2>7. QED
    BY <2>4, <2>5, <2>6 DEF Leaves
<1>5. GetMetadata(mailbox, entries, depth, maxsize) = <<Word("GETMETADATA"), a, b, c>>
  BY Zenon DEF GetMetadata
<1> HIDE DEF p, size, q
<1>6. Full(a) /\ Full(c)
  BY <1>2, <1>3, <1>4, LeavesConcat, LeavesFull
<1>7. Full(b)
  BY FullOption
<1> HIDE DEF a, b, c
<1>8. QED
  BY <1>1, <1>5, <1>6, <1>7, MethodFour

(* ... and SETMETADATA. *)
LEMMA SetMetadataProper ==
  ASSUME NEW mailbox \in Texts, NEW entry \in Texts, NEW text \in {None} \cup Texts
  PROVE  \A method :
             Proper(method, SetMetadata(mailbox, <<[entry |-> entry, value |-> text]>>))
<1> DEFINE r == [entry |-> entry, value |-> text]
           item == MetadataItem(entry, text)
           q == [i \in DOMAIN <<r>> |-> MetadataItem(<<r>>[i].entry, <<r>>[i].value)]
           b == Quoted(mailbox)
           k == IF text = None THEN Word("NIL") ELSE Quoted(text)
<1>1. "SETMETADATA" \in Words
  BY DEF Words
<1>2. q = <<item>>
  OBVIOUS
<1>3. FitsLeaf(Quoted(entry)) /\ FitsLeaf(k)
  <2>1. CASE text = None
    BY <2>1, FullLiteral, FullQuoted DEF Literals, QUOTE
  <2>2. CASE text # None
    BY <2>2, FullQuoted
  <2>3. QED
    BY <2>1, <2>2
<1>4. item = <<Quoted(entry), k>>
  BY DEF MetadataItem
<1>5. Leaves(item)
  <2> HIDE DEF item, k
  <2>1. QED
    BY <1>3, <1>4, LeavesTwo
<1>6. SetMetadata(mailbox, <<r>>) = <<Word("SETMETADATA"), b, Group(FlattenSeq(q))>>
  BY DEF SetMetadata
<1> HIDE DEF item, q, b, r
<1>7. FlattenSeq(q) = item
  BY <1>2, <1>5, FlattenOne DEF Leaves
<1>8. Full(Group(item)) /\ Full(b)
  BY <1>5, LeavesFull, FullQuoted DEF b
<1>9. QED
  BY <1>1, <1>6, <1>7, <1>8, MethodThree DEF r

-----------------------------------------------------------------------------
(* Calls: HeardInv.                                                        *)

(* What a call that starts does to the state. *)
Started ==
    \E request :
        /\ phase = "ready" /\ Issue(request) /\ Proper(request.method, request.command)
        /\ IF request.method = "get_metadata"
           THEN \E entries \in Seq(Entries) : held' \in [ToSet(entries) -> Sizes]
           ELSE held' = held

(* Every call starts with a proper command: those without arguments ... *)
LEMMA CallStarts ==
  ASSUME NEW method, NEW command, method # "get_metadata", Proper(method, command),
         Call(method, command)
  PROVE  Started
<1> DEFINE r == [method |-> method, command |-> command, mailbox |-> <<>>, maxsize |-> None]
<1>1. phase = "ready" /\ Issue(r) /\ held' = held
  BY DEF Call
<1>2. r.method = method /\ r.command = command
  OBVIOUS
<1> HIDE DEF r
<1>3. QED
  BY <1>1, <1>2 DEF Started

(* ... NOOP and the like ... *)
LEMMA PlainStarts == CallPlain => Started
  BY PlainProper, CallStarts DEF CallPlain

(* ... those about a mailbox ... *)
LEMMA MailboxStarts == CallMailbox => Started
<1> SUFFICES ASSUME CallMailbox PROVE Started
  OBVIOUS
<1>1. PICK mailbox \in Strings :
        \/ Call("select", Select(mailbox)) \/ Call("examine", Examine(mailbox))
        \/ Call("create", Create(mailbox)) \/ Call("delete", Delete(mailbox))
        \/ Call("subscribe", Subscribe(mailbox)) \/ Call("unsubscribe", Unsubscribe(mailbox))
        \/ Call("get_acl", GetAcl(mailbox)) \/ Call("my_rights", MyRights(mailbox))
        \/ Call("get_quota", GetQuota(mailbox)) \/ Call("get_quota_root", GetQuotaRoot(mailbox))
  BY DEF CallMailbox
<1>2. mailbox \in Texts
  BY ShortTexts
<1>3. QED
  BY <1>1, <1>2, MailboxProper, CallStarts

(* ... with two names ... *)
LEMMA TwoNamesStarts == CallTwoNames => Started
<1> SUFFICES ASSUME CallTwoNames PROVE Started
  OBVIOUS
<1>1. PICK s \in Short, t \in Short :
        \/ Call("login", Login(s, t))
        \/ Call("rename", Rename(s, t))
        \/ Call("delete_acl", DeleteAcl(s, t))
        \/ Call("list_rights", ListRights(s, t))
        \/ \E rights \in RightsTexts, mode \in {"replace", "add", "remove"} :
               /\ IsRights(rights, Letters)
               /\ Call("set_acl", SetAcl(s, t, RightsOf(rights), mode))
  BY DEF CallTwoNames
<1>2. s \in Texts /\ t \in Texts
  BY ShortTexts
<1>3. CASE \E rights \in RightsTexts, mode \in {"replace", "add", "remove"} :
               /\ IsRights(rights, Letters)
               /\ Call("set_acl", SetAcl(s, t, RightsOf(rights), mode))
  <2>1. PICK rights \in RightsTexts, mode \in {"replace", "add", "remove"} :
               /\ IsRights(rights, Letters)
               /\ Call("set_acl", SetAcl(s, t, RightsOf(rights), mode))
    BY <1>3
  <2>2. Proper("set_acl", SetAcl(s, t, RightsOf(rights), mode))
    BY <1>2, <2>1, SetAclProper
  <2>3. QED
    BY <2>1, <2>2, CallStarts
<1>4. QED
  BY <1>1, <1>2, <1>3, TwoNamesProper, CallStarts

(* ... about messages ... *)
LEMMA MessagesStarts == CallMessages => Started
<1> SUFFICES ASSUME CallMessages PROVE Started
  OBVIOUS
<1>1. PICK set \in Sets :
        \/ \E query \in Queries : \/ Call("fetch", Fetch(set, query))
                                  \/ Call("uid_fetch", UidFetch(set, query))
        \/ \E mailbox \in Strings : \/ Call("mv", Mv(set, mailbox))
                                    \/ Call("uid_mv", UidMv(set, mailbox))
        \/ \E atom \in Atoms : \/ Call("store", Store(set, atom))
                               \/ Call("uid_store", UidStore(set, atom))
                               \/ Call("copy", Copy(set, atom))
                               \/ Call("uid_copy", UidCopy(set, atom))
        \/ Call("uid_expunge", UidExpunge(set))
  BY DEF CallMessages
<1>2. ASSUME NEW query \in Queries,
             Call("fetch", Fetch(set, query)) \/ Call("uid_fetch", UidFetch(set, query))
      PROVE  Started
  BY <1>2, FetchProper, CallStarts
<1>3. ASSUME NEW mailbox \in Strings,
             Call("mv", Mv(set, mailbox)) \/ Call("uid_mv", UidMv(set, mailbox))
      PROVE  Started
  <2>1. Full(Verbatim(set)) /\ Full(Quoted(mailbox)) /\ "MOVE" \in Words
    BY FullSet, FullQuoted, ShortTexts DEF Words
  <2>2. \A method : Proper(method, Mv(set, mailbox)) /\ Proper(method, UidMv(set, mailbox))
    BY <2>1, MethodThree DEF Mv, UidMv
  <2>3. QED
    BY <1>3, <2>2, CallStarts
<1>4. ASSUME NEW atom \in Atoms,
             \/ Call("store", Store(set, atom)) \/ Call("uid_store", UidStore(set, atom))
             \/ Call("copy", Copy(set, atom)) \/ Call("uid_copy", UidCopy(set, atom))
      PROVE  Started
  <2>1. atom \in Texts
    BY ShortTexts
  <2>2. QED
    BY <1>4, <2>1, MessagesProper, CallStarts
<1>5. QED
  BY <1>1, <1>2, <1>3, <1>4, UidExpungeProper, CallStarts

(* ... about lists ... *)
LEMMA ListsStart == CallLists => Started
<1> SUFFICES ASSUME CallLists PROVE Started
  OBVIOUS
<1>1. CASE \E reference \in Options(Short), pattern \in Options(Atoms) :
              \/ Call("list", List(reference, pattern))
              \/ Call("lsub", Lsub(reference, pattern))
              \/ \E items \in Atoms : Call("list_status", ListStatusOf(reference, pattern, items))
  <2>1. PICK reference \in Options(Short), pattern \in Options(Atoms) :
              \/ Call("list", List(reference, pattern))
              \/ Call("lsub", Lsub(reference, pattern))
              \/ \E items \in Atoms : Call("list_status", ListStatusOf(reference, pattern, items))
    BY <1>1
  <2>2. reference \in {None} \cup Texts /\ pattern \in {None} \cup Atoms
    BY ShortTexts DEF Options
  <2>3. \A method : Proper(method, List(reference, pattern))
                    /\ Proper(method, Lsub(reference, pattern))
    BY <2>2, ListsProper
  <2>4. \A items \in Atoms : \A method : Proper(method, ListStatusOf(reference, pattern, items))
    BY <2>2, ListStatusProper
  <2>5. QED
    BY <2>1, <2>3, <2>4, CallStarts
<1>2. CASE \E mailbox \in Short, items \in Atoms :
              /\ phase = "ready"
              /\ Issue([method |-> "status", command |-> Status(mailbox, items),
                        mailbox |-> mailbox, maxsize |-> None])
              /\ UNCHANGED held
  <2>1. PICK mailbox \in Short, items \in Atoms :
              /\ phase = "ready"
              /\ Issue([method |-> "status", command |-> Status(mailbox, items),
                        mailbox |-> mailbox, maxsize |-> None])
              /\ UNCHANGED held
    BY <1>2
  <2> DEFINE r == [method |-> "status", command |-> Status(mailbox, items), mailbox |-> mailbox,
                   maxsize |-> None]
  <2>2. r.method = "status" /\ r.command = Status(mailbox, items)
    OBVIOUS
  <2>3. mailbox \in Texts
    BY ShortTexts
  <2>4. Proper(r.method, r.command)
    BY <2>2, <2>3, StatusProper
  <2>5. phase = "ready" /\ Issue(r) /\ held' = held
    BY <2>1
  <2> HIDE DEF r
  <2>6. QED
    BY <2>2, <2>4, <2>5 DEF Started
<1>3. QED
  BY <1>1, <1>2 DEF CallLists

(* ... searches ... *)
LEMMA SearchesStart == CallSearches => Started
<1> SUFFICES ASSUME CallSearches PROVE Started
  OBVIOUS
<1> DEFINE K == {<<>>, <<Criterion(FALSE, "DATE")>>,
                 <<Criterion(TRUE, "SIZE"), Criterion(FALSE, "DATE")>>}
           H == {[kind |-> "Utf8", name |-> <<>>], [kind |-> "UsAscii", name |-> <<>>],
                 [kind |-> "Custom", name |-> <<"KOI8-R">>]}
<1>1. PICK query \in Atoms :
        \/ Call("search", Search(query))
        \/ Call("uid_search", UidSearch(query))
        \/ \E keys \in K, charset \in H :
               \/ Call("sort", Sort(keys, charset, query))
               \/ Call("uid_sort", UidSort(keys, charset, query))
  BY DEF CallSearches
<1>2. \A keys \in K, charset \in H : \A method :
          Proper(method, Sort(keys, charset, query))
          /\ Proper(method, UidSort(keys, charset, query))
  BY SortProper
<1> HIDE DEF K, H
<1>3. QED
  BY <1>1, <1>2, SearchProper, CallStarts

(* ... quota ... *)
LEMMA QuotaStarts == CallQuota => Started
<1> SUFFICES ASSUME CallQuota PROVE Started
  OBVIOUS
<1>1. PICK root \in Short, name \in {<<"STORAGE">>, <<"MESSAGE">>} \cup Atoms :
        Call("set_quota", SetQuota(root, <<Limit(ResourceName(name), "10")>>))
  BY DEF CallQuota
<1>2. root \in Texts
  BY ShortTexts
<1>3. Proper("set_quota", SetQuota(root, <<Limit(ResourceName(name), "10")>>))
  BY <1>2, QuotaProper
<1>4. QED
  BY <1>1, <1>3, CallStarts

(* ... APPEND ... *)
LEMMA AppendStarts == CallAppend => Started
<1> SUFFICES ASSUME CallAppend PROVE Started
  OBVIOUS
<1>1. PICK mailbox \in Short,
           flag \in {<<BACKSLASH, "Recent">>, <<BACKSLASH, "Seen">>} \cup Atoms,
           date \in {None, <<"1-Jan-2020">>} :
        Call("append", AppendTo(mailbox, <<FlagOf(flag)>>, date, "{9}"))
  BY DEF CallAppend
<1>2. mailbox \in Texts
  BY ShortTexts
<1>3. Proper("append", AppendTo(mailbox, <<FlagOf(flag)>>, date, "{9}"))
  BY <1>2, AppendProper
<1>4. QED
  BY <1>1, <1>3, CallStarts

(* ... and metadata. *)
LEMMA MetadataStarts == CallMetadata => Started
<1> SUFFICES ASSUME CallMetadata PROVE Started
  OBVIOUS
<1> DEFINE L == {<<e>> : e \in Entries} \cup {SetToSeq(Entries)}
<1>1. CASE \E mailbox \in Options(Short), depth \in {"Zero", "One", "Infinity"},
              entries \in L, maxsize \in Options(Sizes \ {0}) :
              /\ phase = "ready"
              /\ held' \in [ToSet(entries) -> Sizes]
              /\ Issue([method |-> "get_metadata", mailbox |-> <<>>, maxsize |-> maxsize,
                        command |-> GetMetadata(mailbox, entries, depth, maxsize)])
  <2>1. PICK mailbox \in Options(Short), depth \in {"Zero", "One", "Infinity"},
              entries \in L, maxsize \in Options(Sizes \ {0}) :
              /\ phase = "ready"
              /\ held' \in [ToSet(entries) -> Sizes]
              /\ Issue([method |-> "get_metadata", mailbox |-> <<>>, maxsize |-> maxsize,
                        command |-> GetMetadata(mailbox, entries, depth, maxsize)])
    BY <1>1
  <2> DEFINE r == [method |-> "get_metadata", mailbox |-> <<>>, maxsize |-> maxsize,
                   command |-> GetMetadata(mailbox, entries, depth, maxsize)]
  <2>2. mailbox \in {None} \cup Texts /\ maxsize \in {None} \cup Sizes
    BY ShortTexts DEF Options
  <2>3. entries \in Seq(Entries)
    <3>1. SetToSeq(Entries) \in Seq(Entries)
      BY CallsAssumption, ListOf
    <3>2. \A e \in Entries : <<e>> \in Seq(Entries)
      OBVIOUS
    <3> DEFINE all == SetToSeq(Entries)
    <3>3. (\E e \in Entries : entries = <<e>>) \/ entries = all
      OBVIOUS
    <3> HIDE DEF all, L
    <3>4. QED
      BY <3>1, <3>2, <3>3 DEF all
  <2>4. r.method = "get_metadata" /\ r.command = GetMetadata(mailbox, entries, depth, maxsize)
    OBVIOUS
  <2>5. Proper(r.method, r.command)
    BY <2>2, <2>3, <2>4, GetMetadataProper
  <2>6. phase = "ready" /\ Issue(r) /\ held' \in [ToSet(entries) -> Sizes]
    BY <2>1
  <2> HIDE DEF r
  <2>7. QED
    BY <2>3, <2>4, <2>5, <2>6 DEF Started
<1>2. CASE \E mailbox, entry \in Short, text \in Options(Short) :
              Call("set_metadata", SetMetadata(mailbox, <<[entry |-> entry, value |-> text]>>))
  <2>1. PICK mailbox \in Short, entry \in Short, text \in Options(Short) :
              Call("set_metadata", SetMetadata(mailbox, <<[entry |-> entry, value |-> text]>>))
    BY <1>2
  <2>2. mailbox \in Texts /\ entry \in Texts /\ text \in {None} \cup Texts
    BY ShortTexts
  <2>3. Proper("set_metadata", SetMetadata(mailbox, <<[entry |-> entry, value |-> text]>>))
    BY <2>2, SetMetadataProper
  <2>4. QED
    BY <2>1, <2>3, CallStarts
<1>3. QED
  BY <1>1, <1>2 DEF CallMetadata

(* All of them. *)
LEMMA Starting ==
  \/ CallPlain \/ CallMailbox \/ CallTwoNames \/ CallMessages \/ CallLists \/ CallSearches
  \/ CallQuota \/ CallAppend \/ CallMetadata
  => Started
  BY PlainStarts, MailboxStarts, TwoNamesStarts, MessagesStarts, ListsStart, SearchesStart,
     QuotaStarts, AppendStarts, MetadataStarts

(* The start of a text joined to another. *)
LEMMA StartOf ==
  ASSUME NEW S, NEW w \in Seq(S), NEW n \in Nat, n <= Len(w)
  PROVE  /\ SubSeq(w, 1, n) \in Seq(S) /\ Len(SubSeq(w, 1, n)) = n
         /\ \A i \in 1..n : SubSeq(w, 1, n)[i] = w[i]
  BY LenProperties

(* A command without a line break of its own is one line to the server. *)
LEMMA OneLine ==
  ASSUME NEW s \in Seq(Chars), NEW w, w = s \o <<CR, LF>>
  PROVE  /\ Upto(w) = Len(s) + 2
         /\ SubSeq(w, 1, Upto(w) - 1) = Append(s, CR)
         /\ SubSeq(w, Upto(w) + 1, Len(w)) = <<>>
         /\ Append(s, CR) # <<>> /\ Last(Append(s, CR)) = CR /\ Front(Append(s, CR)) = s
<1> DEFINE C == Chars \cup {CR, LF}
           n == Len(s)
           e == <<CR, LF>>
<1>1. s \in Seq(C) /\ CR \in C
  BY SeqMonotonic
<1>2. e \in Seq(C) /\ Len(e) = 2 /\ e[1] = CR /\ e[2] = LF
  OBVIOUS
<1>3. CR # LF /\ \A c \in Chars : c # LF
  BY DEF Chars, CR, LF
<1>4. n \in Nat /\ DOMAIN s = 1..n /\ \A i \in 1..n : s[i] \in Chars
  BY LenProperties, ElementOfSeq
<1> HIDE DEF C, n, e
<1>5. /\ w \in Seq(C) /\ Len(w) = n + 2
      /\ \A i \in 1..(n + 2) : w[i] = IF i <= n THEN s[i] ELSE e[i - n]
  BY <1>1, <1>2, ConcatProperties DEF n, e
<1>6. DOMAIN w = 1..(n + 2)
  BY <1>5, LenProperties
<1>7. w[n + 1] = CR /\ w[n + 2] = LF /\ \A i \in 1..n : w[i] = s[i]
  <2>1. /\ n + 1 \in 1..(n + 2) /\ ~(n + 1 <= n) /\ (n + 1) - n = 1
        /\ n + 2 \in 1..(n + 2) /\ ~(n + 2 <= n) /\ (n + 2) - n = 2
    BY <1>4
  <2>2. w[n + 1] = e[(n + 1) - n] /\ w[n + 2] = e[(n + 2) - n]
    BY <1>5, <2>1
  <2>3. \A i \in 1..n : w[i] = s[i]
    BY <1>4, <1>5
  <2>4. QED
    BY <1>2, <2>1, <2>2, <2>3
<1>8. \A j \in 1..(n + 1) : w[j] # LF
  BY <1>3, <1>4, <1>7
<1>9. Upto(w) = n + 2
  <2> DEFINE P(i) == w[i] = LF /\ \A j \in 1..(i - 1) : w[j] # LF
  <2>1. n + 2 \in DOMAIN w /\ P(n + 2)
    BY <1>4, <1>6, <1>7, <1>8
  <2>2. \A i \in DOMAIN w : P(i) => i = n + 2
    <3>1. SUFFICES ASSUME NEW i \in 1..(n + 2), P(i) PROVE i = n + 2
      BY <1>6
    <3>2. ~(i \in 1..(n + 1))
      BY <1>8, <3>1
    <3>3. QED
      BY <1>4, <3>2
  <2>3. Upto(w) = CHOOSE i \in DOMAIN w : P(i)
    BY DEF Upto
  <2> HIDE DEF P
  <2>4. QED
    BY <2>1, <2>2, <2>3
<1>10. SubSeq(w, 1, n + 1) = Append(s, CR)
  <2> DEFINE x == SubSeq(w, 1, n + 1)
             y == Append(s, CR)
  <2>1. \A i \in 1..(n + 1) : w[i] \in C
    BY <1>4, <1>5, ElementOfSeq
  <2>2. x \in Seq(C) /\ Len(x) = n + 1 /\ \A i \in 1..(n + 1) : x[i] = w[i]
    BY <1>4, <1>5, StartOf
  <2>3. /\ y \in Seq(C) /\ Len(y) = n + 1 /\ y[n + 1] = CR /\ \A i \in 1..n : y[i] = s[i]
    BY <1>1, AppendProperties DEF n
  <2> HIDE DEF x, y
  <2>4. \A i \in 1..(n + 1) : i \in 1..n \/ i = n + 1
    BY <1>4
  <2>5. \A i \in 1..(n + 1) : x[i] = y[i]
    BY <1>7, <2>2, <2>3, <2>4
  <2>6. QED
    BY <2>2, <2>3, <2>5, SeqEqual DEF x, y
<1>11. SubSeq(w, n + 3, n + 2) = <<>>
  BY <1>4, SubSeqEmpty
<1>12. Append(s, CR) # <<>> /\ Last(Append(s, CR)) = CR /\ Front(Append(s, CR)) = s
  BY <1>1, FrontOfAppend
<1>13. Upto(w) - 1 = n + 1 /\ Upto(w) + 1 = n + 3
  BY <1>4, <1>9
<1>14. QED
  BY <1>5, <1>9, <1>10, <1>11, <1>12, <1>13 DEF n

(* The call has an argument the code does not check. *)
Loose == \E i \in DOMAIN call.command : Unguarded(call.command[i])

(* On its way is the one command of the call, from which the server reads what is meant. *)
HeardInv ==
    /\ phase \in {"ready", "sent", "heard", "returned"}
    /\ phase = "ready" => heard = <<>>
    /\ phase = "sent" =>
           \/ Loose
           \/ heard = <<>> /\ wire = WrittenLine(call.command) /\ Sound(call.command)
    /\ HeardAsMeant

(* At first nothing is heard. *)
LEMMA HeardInit == Init => HeardInv
  BY DEF Init, HeardInv, HeardAsMeant

(* A call sends a command that will be heard as meant ... *)
LEMMA StartHeard == ASSUME HeardInv, Started PROVE HeardInv'
<1>1. PICK r : phase = "ready" /\ Issue(r) /\ Proper(r.method, r.command)
  BY DEF Started
<1>2. heard' = <<>> /\ call' = r
  BY <1>1 DEF Issue, HeardInv
<1> DEFINE nothing == \E i \in DOMAIN r.command : AsksNothing(r.command[i])
           invalid == \E i \in DOMAIN r.command : ~IsValid(r.command[i])
<1>3. \/ phase' = "returned"
      \/ /\ ~nothing /\ ~invalid
         /\ phase' = "sent" /\ wire' = WrittenLine(r.command)
  BY <1>1 DEF Issue
<1>4. HeardAsMeant'
  BY <1>2 DEF HeardAsMeant
<1>5. CASE phase' = "returned"
  BY <1>4, <1>5 DEF HeardInv
<1>6. CASE /\ ~nothing /\ ~invalid
           /\ phase' = "sent" /\ wire' = WrittenLine(r.command)
  <2>1. CASE Loose'
    BY <1>4, <1>6, <2>1 DEF HeardInv
  <2>2. CASE ~Loose'
    <3>1. Clear(r.command)
      BY <1>2, <1>6, <2>2 DEF Clear, Checked, Loose
    <3>2. Sound(r.command)
      BY <1>1, <3>1 DEF Proper, Means
    <3>3. QED
      BY <1>2, <1>4, <1>6, <3>2 DEF HeardInv
  <2>3. QED
    BY <2>1, <2>2
<1>7. QED
  BY <1>3, <1>5, <1>6

(* ... and the server reads it whole, for it is one line. *)
LEMMA HearHeard == ASSUME HeardInv, Hear PROVE HeardInv'
<1> DEFINE line == SubSeq(wire, 1, Upto(wire) - 1)
           ends == line # <<>> /\ Last(line) = CR
           rest == SubSeq(wire, Upto(wire) + 1, Len(wire))
           told == IF ends THEN Front(line) ELSE line
<1>1. /\ phase = "sent" /\ call' = call
      /\ heard' = Append(heard, Understood(Tokens(told)))
      /\ phase' = IF rest = <<>> THEN "heard" ELSE phase
  BY DEF Hear
<1>2. CASE Loose
  <2>1. Loose'
    BY <1>1, <1>2 DEF Loose
  <2>2. phase' \in {"sent", "heard"}
    BY <1>1
  <2>3. QED
    BY <2>1, <2>2 DEF HeardInv, HeardAsMeant, Loose
<1>3. CASE ~Loose
  <2> DEFINE s == CommandText(call.command)
  <2>1. heard = <<>> /\ wire = s \o <<CR, LF>> /\ Sound(call.command)
    BY <1>1, <1>3 DEF HeardInv, WrittenLine
  <2>2. s \in Seq(Chars) /\ Understood(Tokens(s)) = Meaning(call.command)
    BY <2>1 DEF Sound
  <2> HIDE DEF s
  <2>3. told = s /\ rest = <<>>
    BY <2>1, <2>2, OneLine
  <2> HIDE DEF told, rest
  <2>4. heard' = <<Meaning(call.command)>> /\ phase' = "heard"
    BY <1>1, <2>1, <2>2, <2>3
  <2>5. HeardAsMeant'
    BY <1>1, <2>4 DEF HeardAsMeant
  <2>6. QED
    BY <2>4, <2>5 DEF HeardInv
<1>4. QED
  BY <1>2, <1>3

(* No step breaks it. *)
LEMMA HeardStep == HeardInv /\ [Next]_vars => HeardInv'
<1> SUFFICES ASSUME HeardInv, [Next]_vars PROVE HeardInv'
  OBVIOUS
<1>1. CASE \/ CallPlain \/ CallMailbox \/ CallTwoNames \/ CallMessages \/ CallLists
           \/ CallSearches \/ CallQuota \/ CallAppend \/ CallMetadata
  BY <1>1, Starting, StartHeard
<1>2. CASE Hear
  BY <1>2, HearHeard
<1>3. CASE Answer \/ AnswerMetadata \/ UNCHANGED vars
  <2>1. UNCHANGED <<phase, call, wire, heard>>
    BY <1>3 DEF Answer, AnswerMetadata, vars
  <2>2. QED
    BY <2>1 DEF HeardInv, HeardAsMeant, Loose
<1>4. CASE Ok \/ Fail("no") \/ Fail("bye")
  <2>1. phase = "heard" /\ phase' = "returned" /\ UNCHANGED <<call, wire, heard>>
    BY <1>4 DEF Ok, Fail
  <2>2. QED
    BY <2>1 DEF HeardInv, HeardAsMeant, Loose
<1>5. CASE Forget
  BY <1>5 DEF Forget, HeardInv, HeardAsMeant
<1>6. QED
  BY <1>1, <1>2, <1>3, <1>4, <1>5 DEF Next

(* The server reads one command, and each argument as the caller meant it
   (quote!, validate_str and the Display of the arguments). *)
THEOREM CallsAreHeardAsMeant == Spec => []HeardAsMeant
<1>1. HeardInv => HeardAsMeant
  BY DEF HeardInv
<1>2. QED
  BY HeardInit, HeardStep, <1>1, PTL DEF Spec

-----------------------------------------------------------------------------
(* Replies: ReplyInv, single answers and metadata.                         *)

(* A response the server may have sent. *)
Sane(r) ==
    IF r.kind = "metadata" THEN call.method = "get_metadata"
    ELSE r.kind \in Answers /\ r.data \in Data[r.kind]

(* How a call may have returned. *)
Returned ==
    \/ value = Parsed(code) /\ (call.method = "get_metadata" => Unsent = {} /\ code \in CodesNow)
    \/ value.ok = FALSE /\ value.value \in {"validate", "no", "bye"}
    \/ call.method \in {"fetch", "uid_fetch"} /\ value = Fetches(<<>>) /\ reply = <<>>
    \/ call.method = "logout" /\ value = Nothing

(* All responses are such, and the annotations held are those the call
   asks for. *)
AllSane == \A i \in DOMAIN reply : Sane(reply[i])
HeldType ==
    IF call.method = "get_metadata" THEN \E H \in SUBSET Entries : held \in [H -> Sizes]
    ELSE held = <<>>

(* VANISHED and EXPUNGE are not mixed. *)
Unmixed ==
    \A i, j \in DOMAIN reply : ~(reply[i].kind = "expunge" /\ reply[j].kind = "vanished")

(* What the caller is given comes from a reply the server may have sent. *)
ReplyInv ==
    /\ phase \in {"ready", "sent", "heard", "returned"}
    /\ phase \in {"ready", "sent"} => reply = <<>>
    /\ phase = "ready" => held = <<>>
    /\ \E S : reply \in Seq(S)
    /\ AllSane
    /\ Unmixed
    /\ HeldType
    /\ phase = "returned" => Returned

(* The empty reply. *)
LEMMA NoReply == (\E S : <<>> \in Seq(S)) /\ DOMAIN <<>> = {}
<1>1. <<>> \in Seq({})
  BY EmptySeq
<1>2. QED
  BY <1>1

(* At first there is no reply. *)
LEMMA ReplyInit == Init => ReplyInv
<1> SUFFICES ASSUME Init PROVE ReplyInv
  OBVIOUS
<1>1. phase = "ready" /\ reply = <<>> /\ held = <<>> /\ call.method = "none"
  BY DEF Init, NoCall
<1>2. QED
  BY <1>1, NoReply DEF ReplyInv, AllSane, Unmixed, HeldType

(* A call starts without one ... *)
LEMMA StartReply == ASSUME ReplyInv, Started PROVE ReplyInv'
<1>1. PICK r : /\ phase = "ready" /\ Issue(r) /\ Proper(r.method, r.command)
               /\ IF r.method = "get_metadata"
                  THEN \E entries \in Seq(Entries) : held' \in [ToSet(entries) -> Sizes]
                  ELSE held' = held
  BY DEF Started
<1>2. reply' = <<>> /\ call' = r /\ reply = <<>>
  BY <1>1 DEF Issue, ReplyInv
<1> DEFINE nothing == \E i \in DOMAIN r.command : AsksNothing(r.command[i])
<1>3. \/ nothing /\ phase' = "returned" /\ value' = Fetches(<<>>)
      \/ phase' = "returned" /\ value' = Refused
      \/ phase' = "sent"
  BY <1>1 DEF Issue
<1>4. nothing => r.method \in {"fetch", "uid_fetch"}
  BY <1>1 DEF Proper
<1>5. Refused.ok = FALSE /\ Refused.value = "validate"
  BY DEF Refused
<1>6. phase' \in {"ready", "sent", "heard", "returned"} /\ (phase' = "returned" => Returned')
  BY <1>2, <1>3, <1>4, <1>5 DEF Returned
<1>7. HeldType'
  <2>1. CASE r.method = "get_metadata"
    <3>1. PICK entries \in Seq(Entries) : held' \in [ToSet(entries) -> Sizes]
      BY <1>1, <2>1
    <3>2. ToSet(entries) \in SUBSET Entries
      BY LenProperties, ElementOfSeq DEF ToSet
    <3>3. QED
      BY <1>2, <2>1, <3>1, <3>2 DEF HeldType
  <2>2. CASE r.method # "get_metadata"
    <3>1. held = <<>>
      BY <1>1 DEF ReplyInv
    <3>2. QED
      BY <1>1, <1>2, <2>2, <3>1 DEF HeldType
  <2>3. QED
    BY <2>1, <2>2
<1>8. AllSane' /\ Unmixed'
  BY <1>2, NoReply DEF AllSane, Unmixed
<1>9. \E S : reply' \in Seq(S)
  BY <1>2, NoReply
<1>10. phase' # "ready"
  BY <1>3
<1>11. QED
  BY <1>2, <1>6, <1>7, <1>8, <1>9, <1>10 DEF ReplyInv

(* ... one more response of the server is sane ... *)
LEMMA AnswerReply ==
  ASSUME ReplyInv, phase = "heard", UNCHANGED <<phase, call, held>>,
         NEW r, Sane(r), ~Mixes(r.kind), reply' = Append(reply, r)
  PROVE  ReplyInv'
<1>1. PICK S : reply \in Seq(S)
  BY DEF ReplyInv
<1> DEFINE T == S \cup {r}
           q == Append(reply, r)
<1>2. reply \in Seq(T) /\ r \in T
  BY <1>1, SeqMonotonic
<1> HIDE DEF T
<1>3. /\ q \in Seq(T) /\ Len(q) = Len(reply) + 1 /\ q[Len(reply) + 1] = r
      /\ \A i \in 1..Len(reply) : q[i] = reply[i]
  BY <1>2, AppendProperties
<1>4. Len(reply) \in Nat /\ DOMAIN reply = 1..Len(reply)
  BY <1>2, LenProperties
<1> HIDE DEF q
<1>5. DOMAIN q = 1..(Len(reply) + 1)
  BY <1>3, LenProperties
<1>6. \A i \in 1..(Len(reply) + 1) : i = Len(reply) + 1 \/ i \in 1..Len(reply)
  BY <1>4
<1>7. \A i \in DOMAIN q : Sane(q[i])
  BY <1>3, <1>4, <1>5, <1>6 DEF ReplyInv, AllSane
<1>8. reply' = q
  BY DEF q
<1>9. Answers' = Answers
  BY DEF Answers
<1>10. AllSane'
  BY <1>7, <1>8, <1>9 DEF AllSane, Sane
<1>13. HeldType'
  BY DEF ReplyInv, HeldType
<1>11. \E X : reply' \in Seq(X)
  BY <1>3, <1>8
<1>14. Unmixed'
  <2> DEFINE n == Len(reply)
  <2>1. \A i, j \in 1..n : ~(reply[i].kind = "expunge" /\ reply[j].kind = "vanished")
    BY <1>4 DEF ReplyInv, Unmixed
  <2>2. r.kind = "expunge" => \A j \in 1..n : reply[j].kind # "vanished"
    BY <1>4 DEF Mixes
  <2>3. r.kind = "vanished" => \A i \in 1..n : reply[i].kind # "expunge"
    BY <1>4 DEF Mixes
  <2>4. SUFFICES ASSUME NEW i \in 1..(n + 1), NEW j \in 1..(n + 1)
                 PROVE  ~(q[i].kind = "expunge" /\ q[j].kind = "vanished")
    BY <1>5, <1>8 DEF Unmixed
  <2>5. CASE i \in 1..n /\ j \in 1..n
    BY <1>3, <2>1, <2>5
  <2>6. CASE i = n + 1 /\ j \in 1..n
    BY <1>3, <2>2, <2>6
  <2>7. CASE i \in 1..n /\ j = n + 1
    BY <1>3, <2>3, <2>7
  <2>8. CASE i = n + 1 /\ j = n + 1
    BY <1>3, <2>8
  <2>9. QED
    BY <1>6, <2>5, <2>6, <2>7, <2>8
<1>12. QED
  BY <1>10, <1>11, <1>13, <1>14 DEF ReplyInv

(* ... and so it stays while the reply does. *)
LEMMA SaneStays ==
  ASSUME ReplyInv, UNCHANGED <<call, held, reply>>
  PROVE  (\E S : reply' \in Seq(S)) /\ AllSane' /\ Unmixed' /\ HeldType'
<1>1. Answers' = Answers
  BY DEF Answers
<1>2. QED
  BY <1>1 DEF ReplyInv, AllSane, Sane, Unmixed, HeldType

(* No step breaks it. *)
LEMMA ReplyStep == ReplyInv /\ [Next]_vars => ReplyInv'
<1> SUFFICES ASSUME ReplyInv, [Next]_vars PROVE ReplyInv'
  OBVIOUS
<1>1. CASE \/ CallPlain \/ CallMailbox \/ CallTwoNames \/ CallMessages \/ CallLists
           \/ CallSearches \/ CallQuota \/ CallAppend \/ CallMetadata
  BY <1>1, Starting, StartReply
<1>2. CASE Hear
  <2>1. /\ phase = "sent" /\ phase' \in {"sent", "heard"} /\ UNCHANGED <<call, reply, held>>
        /\ reply = <<>>
    BY <1>2 DEF Hear, ReplyInv
  <2>2. QED
    BY <2>1, SaneStays DEF ReplyInv
<1>3. CASE Answer
  <2>1. PICK kind \in Answers :
            /\ ~Mixes(kind)
            /\ \E data \in Data[kind] : reply' = Append(reply, Response(kind, data))
    BY <1>3 DEF Answer
  <2>2. PICK data \in Data[kind] : reply' = Append(reply, Response(kind, data))
    BY <2>1
  <2>3. kind # "metadata"
    BY DEF Answers
  <2>4. Response(kind, data).kind = kind /\ Response(kind, data).data = data
    BY DEF Response
  <2>5. Sane(Response(kind, data))
    BY <2>2, <2>3, <2>4 DEF Sane
  <2>6. phase = "heard" /\ UNCHANGED <<phase, call, held>>
    BY <1>3 DEF Answer
  <2>7. QED
    BY <2>1, <2>2, <2>4, <2>5, <2>6, AnswerReply
<1>4. CASE AnswerMetadata
  <2>1. PICK some \in (SUBSET Unsent) \ {{}} :
           reply' = Append(reply, Response("metadata", SetToSeq(some)))
    BY <1>4 DEF AnswerMetadata
  <2>2. call.method = "get_metadata"
    <3>1. PICK e \in some : TRUE
      BY <2>1
    <3>2. e \in Unsent
      BY <2>1
    <3>3. e \in DOMAIN held
      BY <3>2 DEF Unsent
    <3>4. QED
      BY <3>3, NoReply DEF ReplyInv, HeldType
  <2>3. Response("metadata", SetToSeq(some)).kind = "metadata"
    BY DEF Response
  <2>4. Sane(Response("metadata", SetToSeq(some))) /\ ~Mixes("metadata")
    BY <2>2, <2>3 DEF Sane, Mixes
  <2>5. phase = "heard" /\ UNCHANGED <<phase, call, held>>
    BY <1>4 DEF AnswerMetadata
  <2>6. QED
    BY <2>1, <2>3, <2>4, <2>5, AnswerReply
<1>5. CASE Ok
  <2>1. /\ phase = "heard" /\ phase' = "returned" /\ UNCHANGED <<call, reply, held>>
        /\ (call.method = "get_metadata" => Unsent = {})
        /\ code' \in CodesNow /\ value' = Parsed(code')
    BY <1>5 DEF Ok
  <2>2. Answers' = Answers
    BY <2>1 DEF Answers
  <2>3. Parsed(code)' = Parsed(code')
    BY <2>1, <2>2 DEF Parsed
  <2>4. Unsent' = Unsent /\ CodesNow' = CodesNow
    BY <2>1 DEF Unsent, CodesNow, HeldBack, TooLong, Sent
  <2>5. Returned'
    BY <2>1, <2>3, <2>4 DEF Returned
  <2>6. QED
    BY <2>1, <2>5, SaneStays DEF ReplyInv
<1>6. ASSUME NEW status \in {"no", "bye"}, Fail(status) PROVE ReplyInv'
  <2>1. /\ phase = "heard" /\ phase' = "returned" /\ UNCHANGED <<call, reply, held>>
        /\ value' = IF call.method = "logout" /\ status = "bye" THEN Nothing
                    ELSE [ok |-> FALSE, value |-> status]
    BY <1>6 DEF Fail
  <2>2. Returned'
    <3>1. CASE call.method = "logout" /\ status = "bye"
      BY <2>1, <3>1 DEF Returned
    <3>2. CASE ~(call.method = "logout" /\ status = "bye")
      <4>1. value'.ok = FALSE /\ value'.value = status
        BY <2>1, <3>2
      <4>2. QED
        BY <4>1 DEF Returned
    <3>3. QED
      BY <3>1, <3>2
  <2>3. QED
    BY <2>1, <2>2, SaneStays DEF ReplyInv
<1>7. CASE Forget
  <2>1. phase' = "ready" /\ call' = NoCall /\ held' = <<>> /\ reply' = <<>>
    BY <1>7 DEF Forget
  <2>2. NoCall.method = "none"
    BY DEF NoCall
  <2>3. QED
    BY <2>1, <2>2, NoReply DEF ReplyInv, AllSane, Unmixed, HeldType
<1>8. CASE UNCHANGED vars
  <2>1. UNCHANGED <<phase, call, held, reply, code, value>>
    BY <1>8 DEF vars
  <2>2. Answers' = Answers
    BY <2>1 DEF Answers
  <2>3. Parsed(code)' = Parsed(code)
    BY <2>1, <2>2 DEF Parsed
  <2>4. Unsent' = Unsent /\ CodesNow' = CodesNow
    BY <2>1 DEF Unsent, CodesNow, HeldBack, TooLong, Sent
  <2>5. Returned' = Returned
    BY <2>1, <2>3, <2>4 DEF Returned
  <2>6. QED
    BY <2>1, <2>5, SaneStays DEF ReplyInv
<1>9. QED
  BY <1>1, <1>2, <1>3, <1>4, <1>5, <1>6, <1>7, <1>8 DEF Next

(* What is counted is what the parser finds. *)
LEMMA CountIs ==
  ASSUME ReplyInv, NEW kind
  PROVE  /\ Len(All(kind, reply)) = Count(kind) /\ Count(kind) \in Nat
         /\ (All(kind, reply) = <<>> <=> Count(kind) = 0)
         /\ \E S : All(kind, reply) \in Seq(S)
<1>1. PICK S : reply \in Seq(S)
  BY DEF ReplyInv
<1>2. Len(All(kind, reply)) = CountIn(kind, reply)
  BY <1>1, AllCounts
<1>3. All(kind, reply) \in Seq(DataOf(kind, S))
  BY <1>1, AllType
<1>4. Count(kind) = CountIn(kind, reply)
  BY DEF Count, CountIn
<1> DEFINE a == All(kind, reply)
<1> HIDE DEF a
<1>5. Len(a) \in Nat /\ (a = <<>> <=> Len(a) = 0)
  BY <1>3, EmptySeq, LenProperties DEF a
<1>6. QED
  BY <1>2, <1>3, <1>4, <1>5 DEF a

(* The data of the responses is of their kind. *)
LEMMA DataIs ==
  ASSUME ReplyInv, NEW kind, kind # "metadata"
  PROVE  All(kind, reply) \in Seq(Data[kind])
<1>1. PICK S : reply \in Seq(S)
  BY DEF ReplyInv
<1> DEFINE T == {r \in S : Sane(r)}
<1>2. \A i \in DOMAIN reply : reply[i] \in T
  BY <1>1, LenProperties, ElementOfSeq DEF ReplyInv, AllSane
<1> HIDE DEF T
<1>3. reply \in Seq(T)
  BY <1>1, <1>2, SeqWithin
<1>4. All(kind, reply) \in Seq(DataOf(kind, T))
  BY <1>3, AllType
<1>5. DataOf(kind, T) \subseteq Data[kind]
  BY DEF DataOf, OfKind, T, Sane
<1>6. QED
  BY <1>4, <1>5, SeqMonotonic

(* A parser that wants one response succeeds if there is just one. *)
LEMMA OneIsGiven ==
  ASSUME ReplyInv, NEW kind
  PROVE  OnlyOne(kind, reply).ok <=> Count(kind) = 1
<1>1. Len(All(kind, reply)) = Count(kind)
  BY CountIs
<1>2. CASE Count(kind) = 1
  BY <1>1, <1>2 DEF OnlyOne, Value
<1>3. CASE Count(kind) # 1
  BY <1>1, <1>3 DEF OnlyOne, Invalid
<1>4. QED
  BY <1>2, <1>3

(* What the parsers that want one response give. *)
OneGiven(kind, result) == IF result.ok THEN Count(kind) = 1
                          ELSE result.value = "invalid" => Count(kind) # 1

(* That of GETACL ... *)
LEMMA AclOne == ASSUME ReplyInv PROVE OneGiven("acl", AclResponse(reply))
<1> DEFINE o == OnlyOne("acl", reply)
<1>1. o.ok <=> Count("acl") = 1
  BY OneIsGiven
<1>2. AclResponse(reply) = IF o.ok /\ o.value # None THEN Value(Acl(o.value)) ELSE o
  BY DEF AclResponse, With
<1> HIDE DEF o
<1>3. AclResponse(reply).ok <=> o.ok
  BY <1>1, <1>2 DEF Value
<1>4. QED
  BY <1>1, <1>3 DEF OneGiven

(* ... LISTRIGHTS ... *)
LEMMA ListRightsOne == ASSUME ReplyInv PROVE OneGiven("listRights", ListRightsResponse(reply))
<1> DEFINE o == OnlyOne("listRights", reply)
<1>1. o.ok <=> Count("listRights") = 1
  BY OneIsGiven
<1>2. ListRightsResponse(reply) = IF o.ok /\ o.value # None THEN Value(ListRightsOf(o.value)) ELSE o
  BY DEF ListRightsResponse, With
<1> HIDE DEF o
<1>3. ListRightsResponse(reply).ok <=> o.ok
  BY <1>1, <1>2 DEF Value
<1>4. QED
  BY <1>1, <1>3 DEF OneGiven

(* ... MYRIGHTS ... *)
LEMMA MyRightsOne == ASSUME ReplyInv PROVE OneGiven("myRights", MyRightsResponse(reply))
<1> DEFINE o == OnlyOne("myRights", reply)
<1>1. o.ok <=> Count("myRights") = 1
  BY OneIsGiven
<1>2. MyRightsResponse(reply) = IF o.ok /\ o.value # None THEN Value(MyRightsOf(o.value)) ELSE o
  BY DEF MyRightsResponse, With
<1> HIDE DEF o
<1>3. MyRightsResponse(reply).ok <=> o.ok
  BY <1>1, <1>2 DEF Value
<1>4. QED
  BY <1>1, <1>3 DEF OneGiven

(* ... GETQUOTAROOT ... *)
LEMMA QuotaRootOne == ASSUME ReplyInv PROVE OneGiven("quotaRoot", QuotaRootResponse(reply))
<1> DEFINE o == OnlyOne("quotaRoot", reply)
           q(root) == [quota_root |-> root, quotas |-> Mapped(Quota, All("quota", reply))]
<1>1. o.ok <=> Count("quotaRoot") = 1
  BY OneIsGiven
<1>2. QuotaRootResponse(reply) = IF o.ok /\ o.value # None THEN Value(q(o.value)) ELSE o
  BY DEF QuotaRootResponse, With
<1> HIDE DEF o, q
<1>3. QuotaRootResponse(reply).ok <=> o.ok
  BY <1>1, <1>2 DEF Value
<1>4. QED
  BY <1>1, <1>3 DEF OneGiven

(* ... and QUOTA, which may have none. *)
LEMMA QuotaOne ==
  ASSUME ReplyInv
  PROVE  LET result == QuotaResponse(reply)
         IN IF result.ok THEN Count("quota") = IF result.value = None THEN 0 ELSE 1
            ELSE result.value = "invalid" => Count("quota") > 1
<1> DEFINE a == All("quota", reply)
           n == Count("quota")
           m == AtMostOne("quota", reply)
<1>1. Len(a) = n /\ n \in Nat /\ (a = <<>> <=> n = 0) /\ a \in Seq(Data.quota)
  BY CountIs, DataIs
<1>2. QuotaResponse(reply) = IF m.ok /\ m.value # None THEN Value(Quota(m.value)) ELSE m
  BY DEF QuotaResponse, With
<1>3. m = IF a = <<>> THEN Value(None) ELSE IF Len(a) = 1 THEN Value(Head(a)) ELSE Invalid
  BY DEF AtMostOne, OnlyOne
<1> HIDE DEF a, n, m
<1>4. CASE n = 0
  <2>1. m.ok /\ m.value = None
    BY <1>1, <1>3, <1>4 DEF Value
  <2>2. QuotaResponse(reply) = m
    BY <1>2, <2>1
  <2>3. QED
    BY <1>4, <2>1, <2>2 DEF n
<1>5. CASE n = 1
  <2> DEFINE h == Head(a)
  <2>1. h \in Data.quota
    BY <1>1, <1>5, HeadTailProperties
  <2> HIDE DEF h
  <2>2. h # None /\ Quota(h) # None
    BY <2>1, CallsAssumption
  <2>3. m = Value(h)
    BY <1>1, <1>3, <1>5 DEF h
  <2>4. m.ok /\ m.value = h
    BY <2>3 DEF Value
  <2>5. QuotaResponse(reply) = Value(Quota(h))
    BY <1>2, <2>2, <2>4
  <2>6. QuotaResponse(reply).ok /\ QuotaResponse(reply).value = Quota(h)
    BY <2>5 DEF Value
  <2>7. QED
    BY <1>5, <2>2, <2>6 DEF n
<1>6. CASE n > 1
  <2>1. m = Invalid
    BY <1>1, <1>3, <1>6
  <2>2. ~m.ok
    BY <2>1 DEF Invalid
  <2>3. QuotaResponse(reply) = m
    BY <1>2, <2>2
  <2>4. QED
    BY <1>6, <2>2, <2>3 DEF n
<1>7. QED
  BY <1>1, <1>4, <1>5, <1>6

(* The parser of each kind of answer. *)
LEMMA ParserIs ==
  /\ "acl" \in Answers => Parsed(code) = AclResponse(reply)
  /\ "listRights" \in Answers => Parsed(code) = ListRightsResponse(reply)
  /\ "myRights" \in Answers => Parsed(code) = MyRightsResponse(reply)
  /\ "quotaRoot" \in Answers => Parsed(code) = QuotaRootResponse(reply)
  /\ Answers = {"quota"} => Parsed(code) = QuotaResponse(reply)
  /\ call.method = "get_metadata" => Parsed(code) = MetadataResult(call.maxsize, reply, code)
<1>1. "acl" \in Answers => call.method = "get_acl" /\ Answers = {"acl"}
  BY DEF Answers
<1>2. "listRights" \in Answers => call.method = "list_rights" /\ Answers = {"listRights"}
  BY DEF Answers
<1>3. "myRights" \in Answers => call.method = "my_rights" /\ Answers = {"myRights"}
  BY DEF Answers
<1>4. "quotaRoot" \in Answers => call.method = "get_quota_root" /\ Answers = {"quota", "quotaRoot"}
  BY DEF Answers
<1>5. Answers = {"quota"} => call.method \in {"set_quota", "get_quota"}
  BY DEF Answers
<1>6. call.method = "get_metadata" => Answers = {}
  BY DEF Answers
<1>7. "acl" \in Answers => Parsed(code) = AclResponse(reply)
  BY <1>1 DEF Parsed
<1>8. "listRights" \in Answers => Parsed(code) = ListRightsResponse(reply)
  BY <1>2 DEF Parsed
<1>9. "myRights" \in Answers => Parsed(code) = MyRightsResponse(reply)
  BY <1>3 DEF Parsed
<1>10. "quotaRoot" \in Answers => Parsed(code) = QuotaRootResponse(reply)
  BY <1>4 DEF Parsed
<1>11. Answers = {"quota"} => Parsed(code) = QuotaResponse(reply)
  BY <1>5 DEF Parsed
<1>12. call.method = "get_metadata" => Parsed(code) = MetadataResult(call.maxsize, reply, code)
  BY <1>6 DEF Parsed
<1>13. QED
  BY <1>7, <1>8, <1>9, <1>10, <1>11, <1>12

(* So whatever is returned is of one answer, or says there was not just
   one. *)
LEMMA OneAnswerHolds == ReplyInv => OneAnswer
<1> SUFFICES ASSUME ReplyInv, phase = "returned"
             PROVE  /\ \A kind \in Answers \cap {"acl", "listRights", "myRights", "quotaRoot"} :
                           IF value.ok THEN Count(kind) = 1
                           ELSE value.value = "invalid" => Count(kind) # 1
                    /\ Answers = {"quota"} =>
                           IF value.ok THEN Count("quota") = IF value.value = None THEN 0 ELSE 1
                           ELSE value.value = "invalid" => Count("quota") > 1
  BY DEF OneAnswer
<1>1. Returned
  BY DEF ReplyInv
<1>2. CASE value = Parsed(code)
  <2>1. ASSUME NEW kind \in Answers \cap {"acl", "listRights", "myRights", "quotaRoot"}
        PROVE  OneGiven(kind, value)
    BY <1>2, <2>1, ParserIs, AclOne, ListRightsOne, MyRightsOne, QuotaRootOne
  <2>2. ASSUME Answers = {"quota"}
        PROVE  IF value.ok THEN Count("quota") = IF value.value = None THEN 0 ELSE 1
               ELSE value.value = "invalid" => Count("quota") > 1
    BY <1>2, <2>2, ParserIs, QuotaOne
  <2>3. QED
    BY <2>1, <2>2 DEF OneGiven
<1>3. CASE value.ok = FALSE /\ value.value \in {"validate", "no", "bye"}
  BY <1>3
<1>4. CASE call.method \in {"fetch", "uid_fetch", "logout"}
  <2>1. Answers \cap {"acl", "listRights", "myRights", "quotaRoot", "quota"} = {}
    BY <1>4 DEF Answers
  <2>2. QED
    BY <2>1
<1>5. QED
  BY <1>1, <1>2, <1>3, <1>4 DEF Returned

(* A value that stands for one response is given only if the server sent
   just that one (parse_until_done). *)
THEOREM CallsGiveOneAnswer == Spec => []OneAnswer
  BY ReplyInit, ReplyStep, OneAnswerHolds, PTL DEF Spec

(* Of finitely many sizes one is the largest. *)
LEMMA Bounded ==
  ASSUME NEW N \in Nat, NEW f \in [1..N -> Nat] PROVE \E b \in Nat : \A i \in 1..N : f[i] <= b
<1> DEFINE A == {m \in Nat : m <= N => \E b \in Nat : \A i \in 1..m : f[i] <= b}
<1>1. 0 \in A
  OBVIOUS
<1>2. ASSUME NEW m \in Nat, m \in A PROVE m + 1 \in A
  <2>1. SUFFICES ASSUME m + 1 <= N PROVE \E b \in Nat : \A i \in 1..(m + 1) : f[i] <= b
    OBVIOUS
  <2>2. PICK b \in Nat : \A i \in 1..m : f[i] <= b
    BY <1>2, <2>1
  <2>3. f[m + 1] \in Nat /\ b + f[m + 1] \in Nat
    BY <2>1
  <2>4. \A i \in 1..(m + 1) : f[i] <= b + f[m + 1]
    <3>1. SUFFICES ASSUME NEW i \in 1..(m + 1) PROVE f[i] <= b + f[m + 1]
      OBVIOUS
    <3>2. CASE i = m + 1
      BY <2>3, <3>2
    <3>3. CASE i # m + 1
      <4>1. i \in 1..m /\ f[i] \in Nat
        BY <2>1, <3>3
      <4>2. f[i] <= b
        BY <2>2, <4>1
      <4>3. QED
        BY <2>3, <4>1, <4>2
    <3>4. QED
      BY <3>2, <3>3
  <2>5. QED
    BY <2>3, <2>4
<1> HIDE DEF A
<1>3. Nat \subseteq A
  BY <1>1, <1>2, Inductive
<1>4. N \in A /\ N <= N
  BY <1>3
<1>5. QED
  BY <1>4 DEF A

(* Of the numbers up to a bound some have a largest ... *)
LEMMA Largest ==
  ASSUME NEW b \in Nat
  PROVE  \A S \in SUBSET (0..b) : S # {} => \E n \in S : \A m \in S : m <= n
<1> DEFINE A == {k \in Nat : \A S \in SUBSET (0..k) : S # {} => \E n \in S : \A m \in S : m <= n}
<1>1. 0 \in A
  <2>1. SUFFICES ASSUME NEW S \in SUBSET (0..0), S # {} PROVE \E n \in S : \A m \in S : m <= n
    OBVIOUS
  <2>2. \A m \in S : m = 0
    OBVIOUS
  <2>3. PICK n \in S : n = 0
    BY <2>1, <2>2
  <2>4. \A m \in S : m <= n
    BY <2>2, <2>3
  <2>5. QED
    BY <2>3, <2>4
<1>2. ASSUME NEW k \in Nat, k \in A PROVE k + 1 \in A
  <2>1. SUFFICES ASSUME NEW S \in SUBSET (0..(k + 1)), S # {}
                 PROVE  \E n \in S : \A m \in S : m <= n
    OBVIOUS
  <2>2. CASE k + 1 \in S
    BY <2>2
  <2>3. CASE k + 1 \notin S
    <3>1. S \in SUBSET (0..k)
      BY <2>3
    <3>2. QED
      BY <1>2, <2>1, <3>1
  <2>4. QED
    BY <2>2, <2>3
<1> HIDE DEF A
<1>3. Nat \subseteq A
  BY <1>1, <1>2, Inductive
<1>4. QED
  BY <1>3 DEF A

(* ... so finitely many numbers do. *)
LEMMA FiniteLargest ==
  ASSUME NEW S \in SUBSET Nat, IsFiniteSet(S), S # {} PROVE \E n \in S : \A m \in S : m <= n
<1> DEFINE n == Cardinality(S)
<1>1. n \in Nat /\ ExistsBijection(1..n, S)
  BY FS_CardinalityType
<1>2. PICK f \in [1..n -> S] : \A m \in S : \E i \in 1..n : f[i] = m
  BY <1>1 DEF ExistsBijection, Bijection, Surjection
<1> HIDE DEF n
<1>3. f \in [1..n -> Nat]
  BY <1>2
<1>4. PICK b \in Nat : \A i \in 1..n : f[i] <= b
  BY <1>1, <1>3, Bounded
<1>5. S \in SUBSET (0..b)
  BY <1>2, <1>4
<1>6. QED
  BY <1>5, Largest

(* An annotation missing from the value was too large; the code names the
   largest such. *)
LEMMA MetadataHolds == ReplyInv => MetadataIsAccountedFor
<1> SUFFICES ASSUME ReplyInv, phase = "returned", call.method = "get_metadata", value.ok,
                    NEW e \in DOMAIN held, held[e] # 0, e \notin ToSet(value.value.metadata)
             PROVE  value.value.missed # None /\ held[e] <= value.value.missed
  BY DEF MetadataIsAccountedFor
<1>1. value = Parsed(code) /\ Unsent = {} /\ code \in CodesNow
  BY DEF ReplyInv, Returned
<1>2. PICK H \in SUBSET Entries : held \in [H -> Sizes]
  BY DEF ReplyInv, HeldType
<1>3. held \in [H -> Nat] /\ IsFiniteSet(H)
  BY <1>2, CallsAssumption, FS_Subset
<1>4. /\ value.value.metadata = Metadata(reply)
      /\ value.value.missed = Missed(call.maxsize, code)
  BY <1>1, ParserIs DEF MetadataResult, Value
<1>5. e \notin Sent
  BY <1>4 DEF Metadata, Sent
<1>6. held[e] > 0
  BY <1>3
<1>7. TooLong(e)
  BY <1>1, <1>5, <1>6 DEF Unsent
<1>8. held[e] \in HeldBack
  BY <1>7 DEF HeldBack
<1>9. HeldBack \subseteq Sizes /\ HeldBack \subseteq Nat /\ IsFiniteSet(HeldBack)
  <2> DEFINE T == {x \in DOMAIN held : TooLong(x)}
  <2>1. IsFiniteSet(T)
    BY <1>3, FS_Subset
  <2>2. HeldBack = {held[x] : x \in T}
    BY DEF HeldBack
  <2>3. T \subseteq H
    BY <1>3
  <2> DEFINE I == {held[x] : x \in T}
  <2> HIDE DEF T
  <2>4. [x \in T |-> held[x]] \in Surjection(T, I)
    BY DEF Surjection
  <2> HIDE DEF I
  <2>5. IsFiniteSet(I)
    BY <2>1, <2>4, FS_Surjection
  <2>6. I \subseteq Sizes /\ I \subseteq Nat
    BY <1>2, <1>3, <2>3 DEF I
  <2>7. QED
    BY <2>2, <2>5, <2>6 DEF I
<1>10. \E n \in HeldBack : \A m \in HeldBack : m <= n
  BY <1>8, <1>9, FiniteLargest
<1> DEFINE n == CHOOSE n \in HeldBack : \A m \in HeldBack : m <= n
<1>11. n \in HeldBack /\ \A m \in HeldBack : m <= n
  BY <1>10
<1>12. code = LongEntries(n)
  BY <1>1, <1>8 DEF CodesNow
<1> HIDE DEF n
<1>13. n \in Nat /\ n # None /\ n \in Sizes
  BY <1>9, <1>11, CallsAssumption
<1>14. code # None /\ code.name = "LONGENTRIES" /\ code.value = n
  BY <1>12, <1>13, CallsAssumption DEF LongEntries
<1>15. Missed(call.maxsize, code) = n
  BY <1>7, <1>14 DEF Missed, TooLong
<1>16. QED
  BY <1>4, <1>8, <1>11, <1>13, <1>15

(* Each annotation held is in the value or no larger than what it reports
   as held back (get_metadata). *)
THEOREM CallsAccountForMetadata == Spec => []MetadataIsAccountedFor
  BY ReplyInit, ReplyStep, MetadataHolds, PTL DEF Spec

-----------------------------------------------------------------------------
(* Filters, and the responses of one kind.                                 *)

(* A filter keeps the elements of s that are in T. *)
Keeps(S, T) == [e \in S |-> IF e \in T THEN <<e>> ELSE <<>>]
Kept(S, T, s) == Through(Keeps(S, T), s)

(* The elements of a sequence over S are in S. *)
LEMMA RangeIn == \A S : \A s \in Seq(S) : ToSet(s) \subseteq S
<1>1. SUFFICES ASSUME NEW S, NEW s \in Seq(S) PROVE ToSet(s) \subseteq S
  OBVIOUS
<1>2. DOMAIN s = 1..Len(s) /\ \A i \in DOMAIN s : s[i] \in S
  BY LenProperties
<1>3. QED
  BY <1>2 DEF ToSet

(* What is kept is in T, ... *)
LEMMA KeepsType == ASSUME NEW S, NEW T PROVE Keeps(S, T) \in [S -> Seq(S \cap T)]
<1>1. \A e \in S : e \in T => <<e>> \in Seq(S \cap T)
  OBVIOUS
<1>2. <<>> \in Seq(S \cap T)
  BY EmptySeq
<1>3. QED
  BY <1>1, <1>2 DEF Keeps

(* ... and is all of s that is. *)
LEMMA KeptRange ==
  ASSUME NEW S, NEW T, NEW s \in Seq(S)
  PROVE  Kept(S, T, s) \in Seq(S \cap T) /\ ToSet(Kept(S, T, s)) = ToSet(s) \cap T
<1> DEFINE F == Keeps(S, T)
           A == S \cap T
<1>1. F \in [S -> Seq(A)] /\ ToSet(s) \subseteq S
  <2>1. ToSet(s) \subseteq S
    BY RangeIn
  <2>2. F \in [S -> Seq(A)]
    BY KeepsType
  <2>3. QED
    BY <2>1, <2>2
<1>2. \A e \in S : ToSet(F[e]) = IF e \in T THEN {e} ELSE {}
  <2>1. ToSet(<<>>) = {} /\ \A e : ToSet(<<e>>) = {e}
    BY EmptySeq DEF ToSet
  <2>2. QED
    BY <2>1 DEF Keeps
<1> HIDE DEF F, A
<1>3. Through(F, s) \in Seq(A)
  BY <1>1, ThroughType
<1>4. ToSet(Through(F, s)) = UNION {ToSet(F[e]) : e \in ToSet(s)}
  BY <1>1, ThroughRange
<1>5. UNION {ToSet(F[e]) : e \in ToSet(s)} = ToSet(s) \cap T
  BY <1>1, <1>2
<1>6. QED
  BY <1>3, <1>4, <1>5 DEF Kept, F, A

(* One more element is kept if it is in T. *)
LEMMA KeptAppend ==
  ASSUME NEW S, NEW T, NEW s \in Seq(S), NEW e \in S
  PROVE  Kept(S, T, Append(s, e)) = IF e \in T THEN Append(Kept(S, T, s), e) ELSE Kept(S, T, s)
<1> DEFINE F == Keeps(S, T)
           A == S \cap T
<1>1. F \in [S -> Seq(A)] /\ F[e] = IF e \in T THEN <<e>> ELSE <<>>
  BY KeepsType DEF Keeps
<1> HIDE DEF F, A
<1>2. Through(F, s) \in Seq(A) /\ Through(F, Append(s, e)) = Through(F, s) \o F[e]
  BY <1>1, ThroughType, ThroughAppend
<1>3. CASE e \in T
  <2>1. Through(F, s) \o <<e>> = Append(Through(F, s), e)
    BY <1>2, <1>3, AppendIsConcat DEF A
  <2>2. QED
    BY <1>1, <1>2, <1>3, <2>1 DEF Kept, F
<1>4. CASE e \notin T
  <2>1. Through(F, s) \o <<>> = Through(F, s)
    BY <1>2, ConcatEmptySeq
  <2>2. QED
    BY <1>1, <1>2, <1>4, <2>1 DEF Kept, F
<1>5. QED
  BY <1>3, <1>4

(* The ends of a sequence are among its elements. *)
LEMMA EndsIn ==
  ASSUME NEW S, NEW s \in Seq(S)
  PROVE  /\ s = <<>> <=> ToSet(s) = {}
         /\ s # <<>> => Head(s) \in ToSet(s) /\ Last(s) \in ToSet(s)
<1>1. Len(s) \in Nat /\ DOMAIN s = 1..Len(s) /\ (s = <<>> <=> Len(s) = 0)
  BY LenProperties, EmptySeq
<1>2. ToSet(s) = {s[i] : i \in DOMAIN s}
  BY DEF ToSet
<1>3. CASE s = <<>>
  BY <1>1, <1>2, <1>3
<1>4. CASE s # <<>>
  <2>1. 1 \in DOMAIN s /\ Len(s) \in DOMAIN s
    BY <1>1, <1>4
  <2>2. Head(s) = s[1]
    BY <1>4
  <2>3. Last(s) = s[Len(s)]
    BY DEF Last
  <2>4. QED
    BY <1>2, <1>4, <2>1, <2>2, <2>3
<1>5. QED
  BY <1>3, <1>4

(* The elements of sequences joined. *)
LEMMA FlattenRange ==
  ASSUME NEW S, NEW ss \in Seq(Seq(S))
  PROVE  FlattenSeq(ss) \in Seq(S) /\ ToSet(FlattenSeq(ss)) = UNION {ToSet(t) : t \in ToSet(ss)}
<1> DEFINE F == [t \in Seq(S) |-> t]
           A == Seq(S)
<1>1. F \in [A -> Seq(S)] /\ (\A t \in A : F[t] = t) /\ ss \in Seq(A)
  OBVIOUS
<1>2. DOMAIN ss = 1..Len(ss) /\ \A i \in DOMAIN ss : ss[i] \in A
  BY LenProperties, ElementOfSeq
<1>3. ss = [i \in DOMAIN ss |-> ss[i]]
  BY <1>2
<1>4. Image(F, ss) = ss
  BY <1>1, <1>2, <1>3 DEF Image
<1>5. ToSet(ss) \subseteq A
  BY <1>2 DEF ToSet
<1> HIDE DEF F, A
<1>6. Through(F, ss) = FlattenSeq(ss)
  BY <1>4 DEF Through
<1>7. Through(F, ss) \in Seq(S) /\ ToSet(Through(F, ss)) = UNION {ToSet(F[t]) : t \in ToSet(ss)}
  <2>1. F \in [A -> Seq(S)] /\ ss \in Seq(A)
    BY <1>1
  <2>2. Through(F, ss) \in Seq(S)
    BY <2>1, ThroughType
  <2>3. \A s \in Seq(A) : ToSet(Through(F, s)) = UNION {ToSet(F[t]) : t \in ToSet(s)}
    <3>1. \A U, V : \A G \in [U -> Seq(V)] : \A s \in Seq(U) :
              ToSet(Through(G, s)) = UNION {ToSet(G[e]) : e \in ToSet(s)}
      BY ThroughRange, ZenonT(30)
    <3>2. \A G \in [A -> Seq(S)] : \A s \in Seq(A) :
              ToSet(Through(G, s)) = UNION {ToSet(G[e]) : e \in ToSet(s)}
      BY <3>1, ZenonT(30)
    <3>3. QED
      BY <2>1, <3>2, ZenonT(30)
  <2>4. ToSet(Through(F, ss)) = UNION {ToSet(F[t]) : t \in ToSet(ss)}
    BY <2>1, <2>3, Zenon
  <2>5. QED
    BY <2>2, <2>4
<1>8. {ToSet(F[t]) : t \in ToSet(ss)} = {ToSet(t) : t \in ToSet(ss)}
  BY <1>1, <1>5
<1>9. QED
  BY <1>6, <1>7, <1>8

(* The elements of an image. *)
LEMMA ImageRange ==
  ASSUME NEW S, NEW G, NEW s \in Seq(S)
  PROVE  ToSet(Image(G, s)) = {G[e] : e \in ToSet(s)}
<1> DEFINE m == Image(G, s)
<1>1. DOMAIN m = DOMAIN s /\ \A i \in DOMAIN s : m[i] = G[s[i]]
  BY DEF Image
<1> HIDE DEF m
<1>2. ToSet(m) = {m[i] : i \in DOMAIN m} /\ ToSet(s) = {s[i] : i \in DOMAIN s}
  BY DEF ToSet
<1>3. QED
  BY <1>1, <1>2 DEF m

(* The data of the responses of a kind, wherever they are. *)
LEMMA AllRange ==
  ASSUME NEW S, NEW kind, NEW s \in Seq(S)
  PROVE  ToSet(All(kind, s)) = {r.data : r \in {r \in ToSet(s) : r.kind = kind}}
<1> DEFINE K == OfKind(kind, S)
           G == Reads(kind, S)
           t == Through(Picks(kind, S), s)
<1>1. ToSet(s) \subseteq S
  BY LenProperties, ElementOfSeq DEF ToSet
<1>2. Picks(kind, S) = Keeps(S, K)
  BY DEF Picks, Keeps, OfKind
<1>3. t = Kept(S, K, s)
  BY <1>2 DEF Kept
<1>4. K \subseteq S /\ \A r \in S : r \in K <=> r.kind = kind
  BY DEF OfKind
<1>5. \A r \in K : G[r] = r.data
  BY DEF Reads
<1>6. All(kind, s) = Image(G, t)
  BY AllIs
<1> HIDE DEF K, G, t
<1>7. t \in Seq(S \cap K) /\ ToSet(t) = ToSet(s) \cap K
  BY <1>3, KeptRange
<1>8. ToSet(Image(G, t)) = {G[e] : e \in ToSet(t)}
  BY <1>7, ImageRange
<1>9. {G[e] : e \in ToSet(s) \cap K} = {r.data : r \in {r \in ToSet(s) : r.kind = kind}}
  BY <1>1, <1>4, <1>5
<1>10. QED
  BY <1>6, <1>7, <1>8, <1>9

(* A reply of one kind gives all its data in order. *)
LEMMA AllWhole ==
  ASSUME NEW S, NEW kind
  PROVE  \A s \in Seq(S) : (\A i \in DOMAIN s : s[i].kind = kind)
             => /\ Len(All(kind, s)) = Len(s)
                /\ \A i \in DOMAIN s : All(kind, s)[i] = s[i].data
<1> DEFINE Q(s) == (\A i \in DOMAIN s : s[i].kind = kind)
                     => /\ Len(All(kind, s)) = Len(s)
                        /\ \A i \in DOMAIN s : All(kind, s)[i] = s[i].data
           A == {s \in Seq(S) : Q(s)}
<1>1. <<>> \in A
  <2>1. DOMAIN <<>> = {} /\ Len(<<>>) = 0 /\ <<>> \in Seq(S)
    BY EmptySeq
  <2>2. QED
    BY <2>1, AllEmpty
<1>2. ASSUME NEW s \in Seq(S), NEW r \in S, s \in A PROVE Append(s, r) \in A
  <2> DEFINE t == Append(s, r)
             a == All(kind, s)
  <2>1. /\ Len(s) \in Nat /\ DOMAIN s = 1..Len(s)
        /\ t \in Seq(S) /\ Len(t) = Len(s) + 1 /\ DOMAIN t = 1..(Len(s) + 1) /\ t[Len(s) + 1] = r
        /\ \A i \in 1..Len(s) : t[i] = s[i]
    BY AppendProperties, LenProperties
  <2>2. a \in Seq(DataOf(kind, S)) /\ Q(s)
    BY <1>2, AllType
  <2>3. All(kind, t) = IF r.kind = kind THEN Append(a, r.data) ELSE a
    BY AllAppend
  <2>4. \A i \in 1..(Len(s) + 1) : i = Len(s) + 1 \/ i \in 1..Len(s)
    BY <2>1
  <2>5. \A i \in 1..Len(s) : i \in 1..(Len(s) + 1)
    BY <2>1
  <2>6. Len(s) + 1 \in 1..(Len(s) + 1)
    BY <2>1
  <2> HIDE DEF t, a
  <2>7. SUFFICES ASSUME \A i \in DOMAIN t : t[i].kind = kind
                 PROVE  /\ Len(All(kind, t)) = Len(t)
                        /\ \A i \in DOMAIN t : All(kind, t)[i] = t[i].data
    BY <2>1 DEF t
  <2>8. r.kind = kind /\ \A i \in DOMAIN s : s[i].kind = kind
    BY <2>1, <2>5, <2>6, <2>7
  <2>9. Len(a) = Len(s) /\ \A i \in 1..Len(s) : a[i] = s[i].data
    BY <2>1, <2>2, <2>8 DEF a
  <2>10. r.data \in DataOf(kind, S)
    BY <2>8 DEF DataOf, OfKind
  <2> DEFINE b == Append(a, r.data)
  <2>11. Len(b) = Len(a) + 1 /\ b[Len(a) + 1] = r.data /\ \A i \in 1..Len(a) : b[i] = a[i]
    BY <2>2, <2>10, AppendProperties
  <2> HIDE DEF b
  <2>12. All(kind, t) = b
    BY <2>3, <2>8 DEF b
  <2>13. \A i \in 1..(Len(s) + 1) : b[i] = t[i].data
    BY <2>1, <2>4, <2>9, <2>11
  <2>14. QED
    BY <2>1, <2>9, <2>11, <2>12, <2>13
<1> HIDE DEF A
<1>3. Seq(S) \subseteq A
  BY <1>1, <1>2, SeqInductive
<1>4. QED
  BY <1>3 DEF A

(* The responses of a reply are of the kinds the command asks for. *)
LEMMA AnswersOnly ==
  ASSUME ReplyInv, Answers # {}
  PROVE  \A r \in ToSet(reply) : r.kind \in Answers /\ r.data \in Data[r.kind]
<1>1. call.method # "get_metadata"
  BY DEF Answers
<1>2. \A i \in DOMAIN reply : Sane(reply[i])
  BY DEF ReplyInv, AllSane
<1>3. \A i \in DOMAIN reply : reply[i].kind \in Answers /\ reply[i].data \in Data[reply[i].kind]
  BY <1>1, <1>2 DEF Sane
<1>4. QED
  BY <1>3 DEF ToSet

(* The data of a kind, as a set. *)
LEMMA DataSent ==
  ASSUME ReplyInv, NEW kind
  PROVE  ToSet(All(kind, reply)) = {r.data : r \in {r \in ToSet(reply) : r.kind = kind}}
<1>1. PICK S : reply \in Seq(S)
  BY DEF ReplyInv
<1>2. QED
  BY <1>1, AllRange

(* Data in several texts: each element is in one of them. *)
LEMMA PartsSent ==
  ASSUME ReplyInv, NEW kind, kind # "metadata", \A d \in Data[kind] : IsText(d)
  PROVE  /\ \E S : FlattenSeq(All(kind, reply)) \in Seq(S)
         /\ ToSet(FlattenSeq(All(kind, reply))) = UNION {ToSet(d) : d \in ToSet(All(kind, reply))}
<1> DEFINE D == Data[kind]
           U == UNION {ToSet(d) : d \in D}
           a == All(kind, reply)
<1>1. a \in Seq(D)
  BY DataIs
<1>2. \A d \in D : d \in Seq(ToSet(d)) /\ ToSet(d) \subseteq U
  BY DEF IsText
<1> HIDE DEF D, U, a
<1>3. \A d \in D : d \in Seq(U)
  <2>1. SUFFICES ASSUME NEW d \in D PROVE d \in Seq(U)
    OBVIOUS
  <2>2. d \in Seq(ToSet(d)) /\ ToSet(d) \subseteq U
    BY <1>2
  <2>3. QED
    BY <2>2, SeqMonotonic
<1>4. a \in Seq(Seq(U))
  <2>1. D \subseteq Seq(U)
    BY <1>3
  <2>2. QED
    BY <1>1, <2>1, SeqMonotonic
<1>5. FlattenSeq(a) \in Seq(U) /\ ToSet(FlattenSeq(a)) = UNION {ToSet(d) : d \in ToSet(a)}
  BY <1>4, FlattenRange
<1>6. QED
  BY <1>5 DEF a

(* The parser of each kind of reply. *)
LEMMA ReaderIs ==
  /\ Answers = {"fetch"} => Parsed(code) = Fetches(reply)
  /\ "exists" \in Answers => Parsed(code) = SelectedMailbox(reply, code)
  /\ Answers = {"capability"} => Parsed(code) = Capabilities(reply)
  /\ "expunge" \in Answers => Parsed(code) = Deleted(reply, code)
  /\ Answers = {"status"} => Parsed(code) = StatusMailbox(call.mailbox, reply)
  /\ call.method \in {"sort", "uid_sort"} => Answers = {"ids"} /\ Parsed(code) = IdSeq(reply)
<1>1. Answers = {"fetch"} => Parsed(code) = Fetches(reply)
  <2>1. SUFFICES ASSUME Answers = {"fetch"} PROVE Parsed(code) = Fetches(reply)
    OBVIOUS
  <2>2. call.method \in {"fetch", "uid_fetch", "store", "uid_store"}
    BY <2>1 DEF Answers
  <2>3. QED
    BY <2>1, <2>2 DEF Parsed
<1>2. "exists" \in Answers => Answers = {"exists", "recent", "flags", "ok"}
  BY DEF Answers
<1>3. "exists" \in Answers => Parsed(code) = SelectedMailbox(reply, code)
  <2>1. SUFFICES ASSUME "exists" \in Answers PROVE Parsed(code) = SelectedMailbox(reply, code)
    OBVIOUS
  <2>2. call.method \in {"select", "examine"}
    BY <2>1 DEF Answers
  <2>3. QED
    BY <1>2, <2>1, <2>2 DEF Parsed
<1>4. Answers = {"capability"} => Parsed(code) = Capabilities(reply)
  <2>1. SUFFICES ASSUME Answers = {"capability"} PROVE Parsed(code) = Capabilities(reply)
    OBVIOUS
  <2>2. call.method = "capability"
    BY <2>1 DEF Answers
  <2>3. QED
    BY <2>1, <2>2 DEF Parsed
<1>5. "expunge" \in Answers => Parsed(code) = Deleted(reply, code)
  <2>1. SUFFICES ASSUME "expunge" \in Answers PROVE Parsed(code) = Deleted(reply, code)
    OBVIOUS
  <2>2. call.method \in {"expunge", "uid_expunge"} /\ Answers = {"expunge", "vanished"}
    BY <2>1 DEF Answers
  <2>3. QED
    BY <2>2 DEF Parsed
<1>6. Answers = {"status"} => Parsed(code) = StatusMailbox(call.mailbox, reply)
  <2>1. SUFFICES ASSUME Answers = {"status"} PROVE Parsed(code) = StatusMailbox(call.mailbox, reply)
    OBVIOUS
  <2>2. call.method = "status"
    BY <2>1 DEF Answers
  <2>3. QED
    BY <2>1, <2>2 DEF Parsed
<1>7. call.method \in {"sort", "uid_sort"} => Answers = {"ids"} /\ Parsed(code) = IdSeq(reply)
  <2>1. SUFFICES ASSUME call.method \in {"sort", "uid_sort"}
                 PROVE  Answers = {"ids"} /\ Parsed(code) = IdSeq(reply)
    OBVIOUS
  <2>2. Answers = {"ids"}
    BY <2>1 DEF Answers
  <2>3. QED
    BY <2>1, <2>2 DEF Parsed
<1>8. QED
  BY <1>1, <1>3, <1>4, <1>5, <1>6, <1>7

(* One response, of the one kind asked for, is all of the reply. *)
LEMMA OnlyResponse ==
  ASSUME ReplyInv, NEW kind, Answers = {kind}, Count(kind) = 1
  PROVE  /\ reply[1].data \in Data[kind]
         /\ OnlyOne(kind, reply) = Value(reply[1].data)
<1>1. PICK S : reply \in Seq(S)
  BY DEF ReplyInv
<1>2. \A r \in ToSet(reply) : r.kind = kind /\ r.data \in Data[kind]
  BY AnswersOnly
<1>3. Len(reply) \in Nat /\ DOMAIN reply = 1..Len(reply)
  BY <1>1, LenProperties
<1>4. \A i \in DOMAIN reply : reply[i].kind = kind /\ reply[i].data \in Data[kind]
  BY <1>2 DEF ToSet
<1> DEFINE a == All(kind, reply)
<1>5. Len(a) = Len(reply) /\ \A i \in DOMAIN reply : a[i] = reply[i].data
  BY <1>1, <1>4, AllWhole
<1>6. Len(a) = 1 /\ \E T : a \in Seq(T)
  BY CountIs
<1>7. OnlyOne(kind, reply) = IF Len(a) = 1 THEN Value(Head(a)) ELSE Invalid
  BY DEF OnlyOne
<1> HIDE DEF a
<1>8. Head(a) = a[1]
  BY <1>6
<1>9. 1 \in DOMAIN reply
  BY <1>3, <1>5, <1>6
<1>10. QED
  BY <1>4, <1>5, <1>6, <1>7, <1>8, <1>9

(* The entries of an access control list have the rights named. *)
LEMMA AclIs ==
  ASSUME NEW d, IsText(d) PROVE AclIsAsSent(Mapped(AclEntry, d), d)
<1> DEFINE n == Len(d)
           v == Mapped(AclEntry, d)
           T == {AclEntry(d[i]) : i \in 1..n}
<1>1. n \in Nat /\ DOMAIN d = 1..n
  BY LenProperties DEF IsText
<1>2. v = [i \in 1..n |-> AclEntry(d[i])]
  BY <1>1, Zenon DEF Mapped
<1>3. v \in [1..n -> T]
  BY <1>2
<1> HIDE DEF n, v, T
<1>4. Len(v) = n
  BY <1>1, <1>3, IsSeq
<1>5. ASSUME NEW i \in 1..n
      PROVE  v[i].identifier = d[i].identifier /\ RightsAreAsSent(v[i].rights, d[i].rights)
  <2>1. v[i] = AclEntry(d[i])
    BY <1>2
  <2>2. v[i].identifier = d[i].identifier /\ v[i].rights = ToSet(d[i].rights)
    BY <2>1 DEF AclEntry, RightsOf
  <2>3. QED
    BY <2>2 DEF RightsAreAsSent, Grants
<1>6. Len(d) = n
  BY DEF n
<1>7. QED
  BY <1>1, <1>4, <1>5, <1>6, Zenon DEF AclIsAsSent, v

(* GETACL, LISTRIGHTS and MYRIGHTS: the rights granted are those named. *)
LEMMA RightsHold ==
  ASSUME ReplyInv, value = Parsed(code), value.ok
  PROVE  /\ Answers = {"acl"} => AclIsAsSent(value.value.acls, reply[1].data.acls)
         /\ Answers = {"listRights"} =>
                /\ RightsAreAsSent(value.value.required, reply[1].data.required)
                /\ RightsAreAsSent(value.value.optional, reply[1].data.optional)
         /\ Answers = {"myRights"} => RightsAreAsSent(value.value.rights, reply[1].data.rights)
<1>0. ASSUME Answers = {"acl"} PROVE AclIsAsSent(value.value.acls, reply[1].data.acls)
  <2>1. value = AclResponse(reply)
    BY <1>0, ParserIs
  <2>2. Count("acl") = 1
    BY <2>1, AclOne DEF OneGiven
  <2> DEFINE d == reply[1].data
  <2>3. d \in Data["acl"] /\ OnlyOne("acl", reply) = Value(d)
    BY <1>0, <2>2, OnlyResponse
  <2> HIDE DEF d
  <2>4. d # None /\ IsText(d.acls)
    BY <2>3, DataAssumption
  <2>5. Value(d).ok /\ Value(d).value = d
    BY DEF Value
  <2>6. value = Value(Acl(d))
    BY <2>1, <2>3, <2>4, <2>5 DEF AclResponse, With
  <2>7. value.value.acls = Mapped(AclEntry, d.acls)
    BY <2>6 DEF Value, Acl
  <2>8. AclIsAsSent(Mapped(AclEntry, d.acls), d.acls)
    BY <2>4, AclIs
  <2>9. QED
    BY <2>7, <2>8 DEF d
<1>1. ASSUME Answers = {"listRights"}
      PROVE  /\ RightsAreAsSent(value.value.required, reply[1].data.required)
             /\ RightsAreAsSent(value.value.optional, reply[1].data.optional)
  <2>1. value = ListRightsResponse(reply)
    BY <1>1, ParserIs
  <2>2. Count("listRights") = 1
    BY <2>1, ListRightsOne DEF OneGiven
  <2> DEFINE d == reply[1].data
  <2>3. d \in Data["listRights"] /\ OnlyOne("listRights", reply) = Value(d)
    BY <1>1, <2>2, OnlyResponse
  <2> HIDE DEF d
  <2>4. d # None
    BY <2>3, DataAssumption
  <2>5. Value(d).ok /\ Value(d).value = d
    BY DEF Value
  <2>6. value = Value(ListRightsOf(d))
    BY <2>1, <2>3, <2>4, <2>5 DEF ListRightsResponse, With
  <2>7. value.value.required = ToSet(d.required) /\ value.value.optional = ToSet(d.optional)
    BY <2>6 DEF Value, ListRightsOf, RightsOf
  <2>8. QED
    BY <2>7 DEF RightsAreAsSent, Grants, d
<1>2. ASSUME Answers = {"myRights"}
      PROVE  RightsAreAsSent(value.value.rights, reply[1].data.rights)
  <2>1. value = MyRightsResponse(reply)
    BY <1>2, ParserIs
  <2>2. Count("myRights") = 1
    BY <2>1, MyRightsOne DEF OneGiven
  <2> DEFINE d == reply[1].data
  <2>3. d \in Data["myRights"] /\ OnlyOne("myRights", reply) = Value(d)
    BY <1>2, <2>2, OnlyResponse
  <2> HIDE DEF d
  <2>4. d # None
    BY <2>3, DataAssumption
  <2>5. Value(d).ok /\ Value(d).value = d
    BY DEF Value
  <2>6. value = Value(MyRightsOf(d))
    BY <2>1, <2>3, <2>4, <2>5 DEF MyRightsResponse, With
  <2>7. value.value.rights = ToSet(d.rights)
    BY <2>6 DEF Value, MyRightsOf, RightsOf
  <2>8. QED
    BY <2>7 DEF RightsAreAsSent, Grants, d
<1>3. QED
  BY <1>0, <1>1, <1>2

-----------------------------------------------------------------------------
(* Values: removals, capabilities, fetches.                                *)

(* The numbers of an interval that are less than one of them. *)
LEMMA BelowIs ==
  ASSUME NEW a \in Nat, NEW b \in Nat, NEW x \in a..b
  PROVE  Cardinality({y \in a..b : y < x}) = x - a
<1>1. {y \in a..b : y < x} = a..(x - 1)
  OBVIOUS
<1>2. a \in Int /\ x - 1 \in Int
  OBVIOUS
<1>3. Cardinality(a..(x - 1)) = IF a > x - 1 THEN 0 ELSE (x - 1) - a + 1
  BY <1>2, FS_Interval
<1>4. (IF a > x - 1 THEN 0 ELSE (x - 1) - a + 1) = x - a
  OBVIOUS
<1>5. QED
  BY <1>1, <1>3, <1>4, Zenon

(* The numbers of a range of VANISHED. *)
LEMMA RangeIs ==
  ASSUME NEW r, r.first \in Nat, r.last \in Nat
  PROVE  Listed(r) = UidRange(r) /\ UidRange(r) \in Seq(Nat)
<1> DEFINE a == r.first
           b == r.last
           n == IF a <= b THEN b - a + 1 ELSE 0
           S == a..b
           u == [i \in 1..n |-> a + i - 1]
           Nth(i) == CHOOSE x \in S : Cardinality({y \in S : y < x}) = i - 1
<1> HIDE DEF a, b
<1>1. a \in Nat /\ b \in Nat
  BY DEF a, b
<1>2. n \in Nat /\ 1..(b - a + 1) = 1..n
  BY <1>1
<1>3. Cardinality(S) = n
  <2>1. Cardinality(a..b) = IF a > b THEN 0 ELSE b - a + 1
    BY <1>1, FS_Interval
  <2>2. QED
    BY <1>1, <2>1
<1>4. UidRange(r) = u
  BY <1>2 DEF UidRange, a, b
<1>5. u \in Seq(Nat)
  <2>1. u \in [1..n -> Nat]
    BY <1>1
  <2> HIDE DEF u, n
  <2>2. QED
    BY <1>2, <2>1, IsSeq
<1>6. Listed(r) = [i \in 1..n |-> Nth(i)]
  <2>1. Listed(r) = Ascending(S)
    BY DEF Listed, a, b
  <2>2. Ascending(S) = [i \in 1..Cardinality(S) |-> Nth(i)]
    BY Zenon DEF Ascending
  <2> HIDE DEF n, S, Nth
  <2>3. QED
    BY <1>3, <2>1, <2>2
<1>7. ASSUME NEW i \in 1..n PROVE Nth(i) = a + i - 1
  <2>1. \A x \in S : Cardinality({y \in S : y < x}) = x - a
    BY <1>1, BelowIs
  <2> DEFINE C(x) == Cardinality({y \in S : y < x})
             k == a + i - 1
  <2>2. k \in S /\ \A x \in S : x - a = i - 1 <=> x = k
    BY <1>1, <1>2
  <2>3. \A x \in S : C(x) = i - 1 <=> x = k
    BY <2>1, <2>2
  <2>4. Nth(i) = CHOOSE x \in S : C(x) = i - 1
    BY Zenon
  <2> HIDE DEF C, k, S, Nth
  <2>5. Nth(i) = k
    BY <2>2, <2>3, <2>4
  <2>6. QED
    BY <2>5 DEF k
<1> HIDE DEF n, Nth
<1>8. [i \in 1..n |-> Nth(i)] = u
  BY <1>7
<1>9. QED
  BY <1>4, <1>5, <1>6, <1>8

(* The range of each entry, and the numbers of each response, as functions. *)
Lists(R) == [r \in R |-> UidRange(r)]
Removes(S) == [r \in S |-> Removed(r)]

(* The responses to EXPUNGE, their ranges in R. *)
OfDeleted(S, R) ==
    /\ \A x \in R : x.first \in Nat /\ x.last \in Nat
    /\ \A r \in S : /\ r.kind \in {"expunge", "vanished"}
                    /\ r.kind = "vanished" => r.data \in Seq(R)
                    /\ r.kind = "expunge" => r.data \in Nat

(* The numbers of several ranges, as listed and as Uids gives them. *)
LEMMA RangesAre ==
  ASSUME NEW R, \A x \in R : x.first \in Nat /\ x.last \in Nat
  PROVE  /\ Lists(R) \in [R -> Seq(Nat)]
         /\ \A v \in Seq(R) : /\ FlattenSeq(Mapped(UidRange, v)) = Through(Lists(R), v)
                              /\ FlattenSeq(Mapped(Listed, v)) = Through(Lists(R), v)
<1> DEFINE F == Lists(R)
<1>1. \A x \in R : Listed(x) = UidRange(x) /\ UidRange(x) \in Seq(Nat)
  BY RangeIs
<1>2. F \in [R -> Seq(Nat)] /\ \A x \in R : F[x] = UidRange(x) /\ F[x] = Listed(x)
  BY <1>1 DEF Lists
<1> HIDE DEF F
<1>3. ASSUME NEW v \in Seq(R)
      PROVE  Mapped(UidRange, v) = Image(F, v) /\ Mapped(Listed, v) = Image(F, v)
  <2>1. \A i \in DOMAIN v : v[i] \in R
    BY LenProperties
  <2>2. /\ Mapped(UidRange, v) = [i \in DOMAIN v |-> UidRange(v[i])]
        /\ Mapped(Listed, v) = [i \in DOMAIN v |-> Listed(v[i])]
    BY Zenon DEF Mapped
  <2>3. /\ [i \in DOMAIN v |-> UidRange(v[i])] = [i \in DOMAIN v |-> F[v[i]]]
        /\ [i \in DOMAIN v |-> Listed(v[i])] = [i \in DOMAIN v |-> F[v[i]]]
    BY <1>2, <2>1
  <2>4. QED
    BY <2>2, <2>3 DEF Image
<1>4. QED
  BY <1>2, <1>3, Zenon DEF Through, F

(* What each response removes. *)
LEMMA RemovesIs ==
  ASSUME NEW S, NEW R, OfDeleted(S, R)
  PROVE  /\ Removes(S) \in [S -> Seq(Nat)]
         /\ \A r \in S : Removes(S)[r] = IF r.kind = "vanished" THEN Through(Lists(R), r.data)
                                         ELSE <<r.data>>
         /\ \A q \in Seq(S) : FlattenSeq(Mapped(Removed, q)) = Through(Removes(S), q)
<1> DEFINE F == Removes(S)
           L == Lists(R)
<1>1. /\ L \in [R -> Seq(Nat)]
      /\ \A v \in Seq(R) : FlattenSeq(Mapped(Listed, v)) = Through(L, v)
  BY RangesAre DEF OfDeleted
<1>2. F = [r \in S |-> Removed(r)]
  BY DEF Removes
<1> HIDE DEF F, L
<1>3. \A v \in Seq(R) : Through(L, v) \in Seq(Nat)
  BY <1>1, ThroughType
<1>4. ASSUME NEW r \in S
      PROVE  /\ Removed(r) = IF r.kind = "vanished" THEN Through(L, r.data) ELSE <<r.data>>
             /\ Removed(r) \in Seq(Nat)
  <2>1. CASE r.kind = "vanished"
    <3>1. r.data \in Seq(R)
      BY <2>1 DEF OfDeleted
    <3>2. Removed(r) = FlattenSeq(Mapped(Listed, r.data))
      BY <2>1, Zenon DEF Removed
    <3>3. QED
      BY <1>1, <1>3, <2>1, <3>1, <3>2
  <2>2. CASE r.kind # "vanished"
    <3> DEFINE d == r.data
    <3>1. d \in Nat
      BY <2>2 DEF OfDeleted
    <3>2. Removed(r) = <<d>>
      BY <2>2, Zenon DEF Removed
    <3> HIDE DEF d
    <3>3. <<d>> \in Seq(Nat)
      BY <3>1
    <3>4. QED
      BY <2>2, <3>2, <3>3 DEF d
  <2>3. QED
    BY <2>1, <2>2
<1>5. F \in [S -> Seq(Nat)] /\ \A r \in S : F[r] = Removed(r)
  BY <1>2, <1>4
<1>6. ASSUME NEW q \in Seq(S) PROVE FlattenSeq(Mapped(Removed, q)) = Through(F, q)
  <2>1. \A i \in DOMAIN q : q[i] \in S
    BY LenProperties
  <2>2. Mapped(Removed, q) = [i \in DOMAIN q |-> Removed(q[i])]
    BY Zenon DEF Mapped
  <2>3. [i \in DOMAIN q |-> Removed(q[i])] = [i \in DOMAIN q |-> F[q[i]]]
    BY <1>5, <2>1
  <2>4. QED
    BY <2>2, <2>3 DEF Image, Through
<1>7. QED
  BY <1>4, <1>5, <1>6 DEF F, L

(* What two sequences give is what each of them does. *)
LEMMA ListsConcat ==
  ASSUME NEW R, NEW N
  PROVE  \A F \in [R -> Seq(N)] : \A s, t \in Seq(R) :
             Through(F, s \o t) = Through(F, s) \o Through(F, t)
  BY ThroughConcat

(* Of VANISHED alone, the numbers of all ranges in the order of the responses ... *)
LEMMA VanishedOnly ==
  ASSUME NEW S, NEW R, OfDeleted(S, R), \A r \in S : r.kind = "vanished"
  PROVE  \A q \in Seq(S) :
             /\ FlattenSeq(All("vanished", q)) \in Seq(R)
             /\ Through(Removes(S), q) = Through(Lists(R), FlattenSeq(All("vanished", q)))
<1> DEFINE F == Removes(S)
           L == Lists(R)
           Flat(q) == FlattenSeq(All("vanished", q))
           A == {q \in Seq(S) : All("vanished", q) \in Seq(Seq(R)) /\ Flat(q) \in Seq(R)
                                  /\ Through(F, q) = Through(L, Flat(q))}
<1>1. F \in [S -> Seq(Nat)] /\ \A r \in S : F[r] = Through(L, r.data)
  <2> HIDE DEF A
  <2>1. /\ F \in [S -> Seq(Nat)]
        /\ \A r \in S : F[r] = IF r.kind = "vanished" THEN Through(L, r.data) ELSE <<r.data>>
    BY RemovesIs, Zenon
  <2> HIDE DEF F, L
  <2>2. QED
    BY <2>1
<1>2. L \in [R -> Seq(Nat)]
  BY RangesAre DEF OfDeleted
<1>3. \A r \in S : r.data \in Seq(R)
  BY DEF OfDeleted
<1> HIDE DEF F, L
<1>4. <<>> \in A
  <2>1. All("vanished", <<>>) = <<>> /\ Flat(<<>>) = <<>>
    BY AllEmpty, FlattenEmpty
  <2>2. <<>> \in Seq(S) /\ <<>> \in Seq(R) /\ <<>> \in Seq(Seq(R))
    BY EmptySeq
  <2>3. Through(F, <<>>) = <<>> /\ Through(L, <<>>) = <<>>
    BY ThroughEmpty
  <2>4. QED
    BY <2>1, <2>2, <2>3
<1>5. ASSUME NEW q \in Seq(S), NEW r \in S, q \in A PROVE Append(q, r) \in A
  <2> DEFINE t == Append(q, r)
             a == All("vanished", q)
             b == All("vanished", t)
             d == r.data
  <2>1. t \in Seq(S)
    BY AppendProperties
  <2>2. a \in Seq(Seq(R)) /\ FlattenSeq(a) \in Seq(R) /\ Through(F, q) = Through(L, FlattenSeq(a))
    BY <1>5
  <2>3. b = Append(a, d)
    BY AllAppend
  <2>4. d \in Seq(R) /\ F[r] = Through(L, d)
    BY <1>1, <1>3
  <2>5. Through(F, t) = Through(F, q) \o F[r]
    BY <1>1, ThroughAppend
  <2> HIDE DEF t, a, b, d
  <2>6. b \in Seq(Seq(R))
    BY <2>2, <2>3, <2>4, AppendProperties
  <2>7. FlattenSeq(b) = FlattenSeq(a) \o d
    BY <2>2, <2>3, <2>4, FlattenAppend
  <2>8. FlattenSeq(b) \in Seq(R)
    BY <2>2, <2>4, <2>7, ConcatProperties
  <2>9. Through(L, FlattenSeq(a) \o d) = Through(L, FlattenSeq(a)) \o Through(L, d)
    <3> DEFINE w == FlattenSeq(a)
               N == Nat
    <3>1. w \in Seq(R) /\ L \in [R -> Seq(N)]
      BY <1>2, <2>2
    <3> HIDE DEF w, N
    <3>2. \A G \in [R -> Seq(N)] : \A s, u \in Seq(R) :
              Through(G, s \o u) = Through(G, s) \o Through(G, u)
      BY ListsConcat
    <3>3. Through(L, w \o d) = Through(L, w) \o Through(L, d)
      BY <2>4, <3>1, <3>2, Zenon
    <3>4. QED
      BY <3>3 DEF w
  <2>10. QED
    BY <2>1, <2>2, <2>4, <2>5, <2>6, <2>7, <2>8, <2>9 DEF t, b
<1> HIDE DEF A
<1>6. Seq(S) \subseteq A
  BY <1>4, <1>5, SeqInductive
<1>7. QED
  BY <1>6 DEF A, F, L

(* ... and of EXPUNGE alone, their numbers. *)
LEMMA ExpungedOnly ==
  ASSUME NEW S, NEW R, OfDeleted(S, R), \A r \in S : r.kind = "expunge"
  PROVE  \A q \in Seq(S) : Through(Removes(S), q) = All("expunge", q)
<1> DEFINE F == Removes(S)
           A == {q \in Seq(S) : Through(F, q) = All("expunge", q)}
<1>1. F \in [S -> Seq(Nat)] /\ \A r \in S : F[r] = <<r.data>>
  BY RemovesIs
<1>2. \A r \in S : r.data \in Nat
  BY DEF OfDeleted
<1> HIDE DEF F
<1>3. <<>> \in A
  <2>1. <<>> \in Seq(S)
    BY EmptySeq
  <2>2. QED
    BY <2>1, AllEmpty, ThroughEmpty
<1>4. ASSUME NEW q \in Seq(S), NEW r \in S, q \in A PROVE Append(q, r) \in A
  <2> DEFINE t == Append(q, r)
             a == All("expunge", q)
             d == r.data
  <2>1. t \in Seq(S)
    BY AppendProperties
  <2>2. Through(F, q) = a /\ a \in Seq(Nat)
    <3>1. Through(F, q) \in Seq(Nat)
      BY <1>1, ThroughType
    <3>2. QED
      BY <1>4, <3>1
  <2>3. All("expunge", t) = Append(a, d)
    BY AllAppend
  <2>4. Through(F, t) = Through(F, q) \o <<d>>
    <3> DEFINE N == Nat
    <3>1. F \in [S -> Seq(N)]
      BY <1>1
    <3>2. F[r] = <<d>>
      BY <1>1
    <3> HIDE DEF N, t, a, d, A
    <3>3. \A G \in [S -> Seq(N)] : \A s \in Seq(S) : \A e \in S :
              Through(G, Append(s, e)) = Through(G, s) \o G[e]
      BY ThroughAppend
    <3>4. Through(F, Append(q, r)) = Through(F, q) \o F[r]
      BY <3>1, <3>3, Zenon
    <3>5. QED
      BY <3>2, <3>4 DEF t
  <2>5. d \in Nat
    BY <1>2
  <2> HIDE DEF t, a, d
  <2>6. a \o <<d>> = Append(a, d)
    BY <2>2, <2>5, AppendIsConcat
  <2>7. QED
    BY <2>1, <2>2, <2>3, <2>4, <2>6 DEF t
<1> HIDE DEF A
<1>5. Seq(S) \subseteq A
  BY <1>3, <1>4, SeqInductive
<1>6. QED
  BY <1>5 DEF A, F

(* What EXPUNGE and UID EXPUNGE are answered with. *)
LEMMA DeletedSent ==
  ASSUME ReplyInv, "expunge" \in Answers
  PROVE  \E S, R : /\ OfDeleted(S, R) /\ reply \in Seq(S)
                   /\ \A r \in S : r.kind = "vanished" => r.data # <<>>
                   /\ \/ \A r \in S : r.kind = "vanished"
                      \/ \A r \in S : r.kind = "expunge"
<1>1. PICK P : reply \in Seq(P)
  BY DEF ReplyInv
<1> DEFINE V == Data["vanished"]
           R == UNION {ToSet(d) : d \in V}
           S == ToSet(reply)
<1>2. Answers = {"expunge", "vanished"}
  BY DEF Answers
<1>3. \A r \in S : r.kind \in {"expunge", "vanished"} /\ r.data \in Data[r.kind]
  BY <1>2, AnswersOnly
<1>4. reply \in Seq(S)
  <2>1. \A i \in DOMAIN reply : reply[i] \in S
    BY DEF ToSet
  <2> HIDE DEF S
  <2>2. QED
    BY <1>1, <2>1, SeqWithin
<1>5. \A d \in V : IsText(d) /\ d # <<>> /\ \A x \in ToSet(d) : x.first \in Nat /\ x.last \in Nat
  BY DataAssumption
<1>6. Data["expunge"] \subseteq Nat
  BY DataAssumption
<1>7. \A x \in R : x.first \in Nat /\ x.last \in Nat
  BY <1>5
<1>8. \A d \in V : d \in Seq(R)
  <2>1. SUFFICES ASSUME NEW d \in V PROVE d \in Seq(R)
    OBVIOUS
  <2>2. d \in Seq(ToSet(d)) /\ ToSet(d) \subseteq R
    BY <1>5 DEF IsText
  <2> HIDE DEF R
  <2>3. QED
    BY <2>2, SeqMonotonic
<1>9. OfDeleted(S, R)
  <2>1. ASSUME NEW r \in S
        PROVE  /\ r.kind \in {"expunge", "vanished"}
               /\ r.kind = "vanished" => r.data \in Seq(R)
               /\ r.kind = "expunge" => r.data \in Nat
    <3>1. r.kind \in {"expunge", "vanished"} /\ r.data \in Data[r.kind]
      BY <1>3
    <3> HIDE DEF R
    <3>2. QED
      BY <1>6, <1>8, <3>1
  <2> HIDE DEF R, S
  <2>2. QED
    BY <1>7, <2>1 DEF OfDeleted
<1>10. \A r \in S : r.kind = "vanished" => r.data # <<>>
  BY <1>3, <1>5
<1>11. (\A r \in S : r.kind = "vanished") \/ (\A r \in S : r.kind = "expunge")
  <2>1. \A r, s \in S : ~(r.kind = "expunge" /\ s.kind = "vanished")
    BY DEF ReplyInv, Unmixed, ToSet
  <2> HIDE DEF S
  <2>2. QED
    BY <1>3, <2>1
<1>12. QED
  BY <1>4, <1>9, <1>10, <1>11

(* EXPUNGE and UID EXPUNGE: the numbers given are those removed. *)
LEMMA DeletedHolds ==
  ASSUME ReplyInv, value = Parsed(code), "expunge" \in Answers
  PROVE  DeletedIsAsSent(value.value)
<1> DEFINE e == All("expunge", reply)
           a == All("vanished", reply)
           v == FlattenSeq(a)
           m == ModSeqOf(code)
           d == value.value
<1>1. PICK S, R : /\ OfDeleted(S, R) /\ reply \in Seq(S)
                  /\ \A r \in S : r.kind = "vanished" => r.data # <<>>
                  /\ \/ \A r \in S : r.kind = "vanished"
                     \/ \A r \in S : r.kind = "expunge"
  BY DeletedSent
<1>2. value = Value(IF v = <<>> THEN FromExpunged(e, m) ELSE FromVanished(v, m))
  BY ReaderIs DEF Deleted
<1>3. d = IF v = <<>> THEN FromExpunged(e, m) ELSE FromVanished(v, m)
  BY <1>2 DEF Value
<1>4. FlattenSeq(Mapped(Removed, reply)) = Through(Removes(S), reply)
  BY <1>1, RemovesIs
<1>5. Len(reply) \in Nat /\ DOMAIN reply = 1..Len(reply) /\ (reply = <<>> <=> Len(reply) = 0)
  BY <1>1, LenProperties, EmptySeq
<1>6. \A i \in DOMAIN reply : reply[i] \in S
  BY <1>1, LenProperties
<1>7. CASE \A r \in S : r.kind = "expunge"
  <2>1. a = <<>> /\ v = <<>>
    <3>1. ToSet(a) = {}
      <4>1. ToSet(a) = {r.data : r \in {r \in ToSet(reply) : r.kind = "vanished"}}
        BY DataSent
      <4>2. ToSet(reply) \subseteq S
        BY <1>6 DEF ToSet
      <4>3. QED
        BY <1>7, <4>1, <4>2
    <3>2. a = <<>>
      BY <3>1, CountIs, EndsIn
    <3>3. QED
      BY <3>2, FlattenEmpty
  <2>2. Through(Removes(S), reply) = e
    BY <1>1, <1>7, ExpungedOnly
  <2>3. e = <<>> <=> reply = <<>>
    <3>1. Len(e) = Len(reply)
      BY <1>1, <1>6, <1>7, AllWhole
    <3>2. \E T : e \in Seq(T)
      BY CountIs
    <3> HIDE DEF e
    <3>3. e = <<>> <=> Len(e) = 0
      BY <3>2, EmptySeq
    <3>4. QED
      BY <1>5, <3>1, <3>3
  <2>4. d.expunged = e /\ d.vanished = <<>>
    BY <1>3, <2>1 DEF FromExpunged
  <2> HIDE DEF e, a, v, d
  <2>5. Iterated(d) = e /\ Seqs(d) = e /\ (IsEmpty(d) <=> reply = <<>>)
    BY <2>3, <2>4 DEF Iterated, Seqs, IsEmpty
  <2>6. QED
    BY <1>4, <2>2, <2>5, Zenon DEF DeletedIsAsSent, e, d
<1>8. CASE \A r \in S : r.kind = "vanished"
  <2>1. v \in Seq(R) /\ Through(Removes(S), reply) = Through(Lists(R), v)
    BY <1>1, <1>8, VanishedOnly
  <2>2. FlattenSeq(Mapped(UidRange, v)) = Through(Lists(R), v)
    BY <1>1, <2>1, RangesAre DEF OfDeleted
  <2>3. e = <<>>
    <3>1. ToSet(e) = {r.data : r \in {r \in ToSet(reply) : r.kind = "expunge"}}
      BY DataSent
    <3>2. ToSet(reply) \subseteq S
      BY <1>6 DEF ToSet
    <3>3. ToSet(e) = {}
      BY <1>8, <3>1, <3>2
    <3>4. QED
      BY <3>3, CountIs, EndsIn
  <2>4. v = <<>> <=> reply = <<>>
    <3>1. ToSet(v) = UNION {ToSet(x) : x \in ToSet(a)}
      <4>1. \A x \in Data["vanished"] : IsText(x)
        BY DataAssumption
      <4>2. QED
        BY <4>1, PartsSent
    <3>2. ToSet(a) = {r.data : r \in {r \in ToSet(reply) : r.kind = "vanished"}}
      BY DataSent
    <3>3. (v = <<>> <=> ToSet(v) = {}) /\ (reply = <<>> <=> ToSet(reply) = {})
      BY <1>1, <2>1, EndsIn
    <3>4. ToSet(reply) \subseteq S
      BY <1>6 DEF ToSet
    <3>5. ASSUME NEW r \in S PROVE ToSet(r.data) # {}
      <4>1. r.data \in Seq(R) /\ r.data # <<>>
        BY <1>1, <1>8 DEF OfDeleted
      <4>2. QED
        BY <4>1, EndsIn
    <3> HIDE DEF v, a
    <3>6. reply = <<>> => v = <<>>
      BY <3>1, <3>2, <3>3
    <3>7. ASSUME reply # <<>> PROVE v # <<>>
      <4>1. PICK r : r \in ToSet(reply)
        BY <3>3, <3>7
      <4>2. r.data \in ToSet(a) /\ ToSet(r.data) # {}
        BY <1>8, <3>2, <3>4, <3>5, <4>1
      <4>3. QED
        BY <3>1, <3>3, <4>2
    <3>8. QED
      BY <3>6, <3>7
  <2> HIDE DEF e, a, d
  <2>5. d.expunged = e /\ d.vanished = v
    BY <1>3, <2>3 DEF FromExpunged, FromVanished
  <2>6. Seqs(d) = e /\ (IsEmpty(d) <=> reply = <<>>)
    BY <2>3, <2>4, <2>5 DEF Seqs, IsEmpty
  <2>7. Iterated(d) = Through(Removes(S), reply)
    <3>1. CASE v = <<>>
      <4>1. Iterated(d) = <<>> /\ Through(Lists(R), v) = <<>>
        BY <2>3, <2>5, <3>1, ThroughEmpty DEF Iterated, Seqs
      <4>2. QED
        BY <2>1, <4>1
    <3>2. CASE v # <<>>
      <4> HIDE DEF v
      <4>1. Iterated(d) = FlattenSeq(Mapped(UidRange, v))
        BY <2>5, <3>2, Zenon DEF Iterated, Uids
      <4>2. QED
        BY <2>1, <2>2, <4>1
    <3>3. QED
      BY <3>1, <3>2
  <2>8. QED
    BY <1>4, <2>6, <2>7, Zenon DEF DeletedIsAsSent, e, d
<1>9. QED
  BY <1>1, <1>7, <1>8

(* Sequences are equal, and their tails, if their elements are. *)
LEMMA EqualTails ==
  ASSUME NEW S, NEW s \in Seq(S), NEW t \in Seq(S), Len(s) = Len(t)
  PROVE  /\ s = t <=> \A j \in 1..Len(s) : s[j] = t[j]
         /\ Len(s) > 0 => (Tail(s) = Tail(t) <=> \A j \in 2..Len(s) : s[j] = t[j])
<1>1. s = t <=> \A j \in 1..Len(s) : s[j] = t[j]
  BY SeqEqual, LenProperties
<1>2. ASSUME Len(s) > 0 PROVE Tail(s) = Tail(t) <=> \A j \in 2..Len(s) : s[j] = t[j]
  <2> DEFINE x == Tail(s)
             y == Tail(t)
             n == Len(s)
  <2>1. n \in Nat /\ n > 0 /\ s # <<>> /\ t # <<>>
    BY <1>2, LenProperties, EmptySeq
  <2>2. /\ x \in Seq(S) /\ Len(x) = n - 1 /\ \A i \in 1..(n - 1) : x[i] = s[i + 1]
        /\ y \in Seq(S) /\ Len(y) = n - 1 /\ \A i \in 1..(n - 1) : y[i] = t[i + 1]
    BY <2>1, HeadTailProperties
  <2> HIDE DEF x, y, n
  <2>3. x = y <=> \A i \in 1..(n - 1) : x[i] = y[i]
    BY <2>2, SeqEqual
  <2>4. (\A i \in 1..(n - 1) : x[i] = y[i]) <=> \A i \in 1..(n - 1) : s[i + 1] = t[i + 1]
    BY <2>2
  <2>5. ASSUME \A i \in 1..(n - 1) : s[i + 1] = t[i + 1], NEW j \in 2..n PROVE s[j] = t[j]
    <3>1. j - 1 \in 1..(n - 1) /\ (j - 1) + 1 = j
      BY <2>1
    <3>2. QED
      BY <2>5, <3>1
  <2>6. \A i \in 1..(n - 1) : i + 1 \in 2..n
    BY <2>1
  <2>7. QED
    BY <2>3, <2>4, <2>5, <2>6 DEF x, y, n
<1>3. QED
  BY <1>1, <1>2

(* Two names are the same capability if their letters are, but for case. *)
LEMMA SameCapability ==
  ASSUME NEW s, NEW t, IsCapability(s), IsCapability(t)
  PROVE  CapabilityOf(s) = CapabilityOf(t)
             <=> Len(s) = Len(t) /\ \A j \in DOMAIN s : EqIgnoreCase(s[j], t[j])
<1>1. /\ s \in Seq(ToSet(s)) /\ Len(s) \in Nat /\ DOMAIN s = 1..Len(s)
      /\ t \in Seq(ToSet(t)) /\ Len(t) \in Nat /\ DOMAIN t = 1..Len(t)
  BY LenProperties DEF IsCapability, IsText
<1>2. /\ \A j \in 1..Len(s) : \A word \in SameLetters :
             s[j] \in word => j = 1 /\ (Len(s) = 1 <=> "IMAP4rev1" \in word)
      /\ \A j \in 1..Len(t) : \A word \in SameLetters :
             t[j] \in word => j = 1 /\ (Len(t) = 1 <=> "IMAP4rev1" \in word)
  BY <1>1 DEF IsCapability
<1> DEFINE I == {"IMAP4rev1", "imap4rev1"}
           H == {"AUTH=", "auth="}
           same == Len(s) = Len(t) /\ \A j \in DOMAIN s : EqIgnoreCase(s[j], t[j])
<1>3. \A x, y : EqIgnoreCase(x, y) <=> x = y \/ (x \in I /\ y \in I) \/ (x \in H /\ y \in H)
  BY DEF EqIgnoreCase, SameLetters
<1>4. /\ \A j \in 1..Len(s) : (s[j] \in I => j = 1 /\ Len(s) = 1)
                             /\ (s[j] \in H => j = 1 /\ Len(s) # 1)
      /\ \A j \in 1..Len(t) : (t[j] \in I => j = 1 /\ Len(t) = 1)
                             /\ (t[j] \in H => j = 1 /\ Len(t) # 1)
  BY <1>2 DEF SameLetters
<1> DEFINE is == Len(s) = 1 /\ s[1] \in I
           it == Len(t) = 1 /\ t[1] \in I
           hs == Len(s) > 1 /\ s[1] \in H
           ht == Len(t) > 1 /\ t[1] \in H
           E == [kind |-> "Imap4rev1", name |-> <<>>]
           U(x) == [kind |-> "Auth", name |-> Tail(x)]
           O(x) == [kind |-> "Atom", name |-> x]
<1>5. \A x : /\ EqIgnoreCase(x, "IMAP4rev1") <=> x \in I
             /\ EqIgnoreCase(x, "AUTH=") <=> x \in H
  BY <1>3
<1>6. CapabilityOf(s) = (IF is THEN E ELSE IF hs THEN U(s) ELSE O(s))
  BY <1>1, <1>5 DEF CapabilityOf
<1>7. CapabilityOf(t) = (IF it THEN E ELSE IF ht THEN U(t) ELSE O(t))
  BY <1>1, <1>5 DEF CapabilityOf
<1>8. /\ E.kind = "Imap4rev1"
      /\ \A x : U(x).kind = "Auth" /\ U(x).name = Tail(x) /\ O(x).kind = "Atom" /\ O(x).name = x
  OBVIOUS
<1> DEFINE S == ToSet(s) \cup ToSet(t)
<1>9. s \in Seq(S) /\ t \in Seq(S)
  BY <1>1, SeqMonotonic
<1> HIDE DEF S, E, U, O
<1>10. Len(s) = Len(t) =>
          /\ s = t <=> \A j \in 1..Len(s) : s[j] = t[j]
          /\ Len(s) > 0 => (Tail(s) = Tail(t) <=> \A j \in 2..Len(s) : s[j] = t[j])
  BY <1>9, EqualTails
<1>11. I \cap H = {} /\ 1..1 = {1}
  OBVIOUS
<1>12. Tail(s) = Tail(t) /\ Len(s) > 1 /\ Len(t) > 1 => Len(s) = Len(t)
  <2>1. SUFFICES ASSUME Tail(s) = Tail(t), Len(s) > 1, Len(t) > 1 PROVE Len(s) = Len(t)
    OBVIOUS
  <2>2. s # <<>> /\ t # <<>>
    BY <1>9, <2>1, EmptySeq
  <2> DEFINE x == Tail(s)
             y == Tail(t)
             m == Len(s)
             n == Len(t)
  <2>3. Len(x) = m - 1 /\ Len(y) = n - 1
    BY <1>9, <2>2, HeadTailProperties
  <2>4. m \in Nat /\ n \in Nat /\ x = y
    BY <1>1, <2>1
  <2> HIDE DEF x, y, m, n
  <2>5. m = n
    BY <2>3, <2>4
  <2>6. QED
    BY <2>5 DEF m, n
<1>13. \A j \in 1..Len(s) : j = 1 \/ j \in 2..Len(s)
  BY <1>1
<1>14. \A j \in 2..Len(s) : j \in 1..Len(s) /\ j # 1
  BY <1>1
<1> HIDE DEF I, H
<1>15. ASSUME CapabilityOf(s) = CapabilityOf(t) PROVE same
  <2>1. CASE is
    <3>1. it
      BY <1>6, <1>7, <1>8, <1>15, <2>1
    <3>2. QED
      BY <1>1, <1>3, <1>11, <2>1, <3>1
  <2>2. CASE ~is /\ hs
    <3>1. ht /\ ~it
      BY <1>6, <1>7, <1>8, <1>15, <2>2
    <3>2. Tail(s) = Tail(t)
      BY <1>6, <1>7, <1>8, <1>15, <2>2, <3>1
    <3>6. Len(s) > 1 /\ Len(t) > 1
      BY <2>2, <3>1
    <3>7. Len(s) = Len(t)
      BY <1>12, <3>2, <3>6
    <3>3. Len(s) = Len(t) /\ Len(s) > 0
      BY <1>1, <3>6, <3>7
    <3>5. \A j \in 2..Len(s) : s[j] = t[j]
      BY <1>10, <3>2, <3>3
    <3>4. QED
      BY <1>1, <1>3, <1>13, <2>2, <3>1, <3>3, <3>5
  <2>3. CASE ~is /\ ~hs
    <3>1. s = t
      BY <1>6, <1>7, <1>8, <1>15, <2>3
    <3>2. QED
      BY <1>3, <3>1
  <2>4. QED
    BY <2>1, <2>2, <2>3
<1>16. ASSUME same PROVE CapabilityOf(s) = CapabilityOf(t)
  <2>0. Len(s) = Len(t) /\ \A j \in 1..Len(s) : EqIgnoreCase(s[j], t[j])
    BY <1>1, <1>16
  <2> HIDE DEF same
  <2>1. CASE is
    <3>1. 1 \in 1..Len(s)
      BY <2>1
    <3>2. EqIgnoreCase(s[1], t[1])
      BY <2>0, <3>1
    <3>3. it
      BY <1>3, <1>11, <2>0, <2>1, <3>2
    <3>4. QED
      BY <1>6, <1>7, <2>1, <3>3
  <2>2. CASE ~is /\ hs
    <3>1. 1 \in 1..Len(s)
      BY <1>1, <2>2
    <3>2. EqIgnoreCase(s[1], t[1])
      BY <2>0, <3>1
    <3>3. ht /\ ~it
      BY <1>3, <1>11, <2>0, <2>2, <3>2
    <3>4. \A j \in 2..Len(s) : s[j] = t[j]
      BY <1>3, <1>4, <1>14, <2>0
    <3>5. Tail(s) = Tail(t)
      BY <1>1, <1>10, <2>0, <2>2, <3>4
    <3>6. QED
      BY <1>6, <1>7, <2>2, <3>3, <3>5 DEF U
  <2>3. CASE ~is /\ ~hs
    <3>1. \A j \in 1..Len(s) : s[j] \notin I /\ s[j] \notin H
      BY <1>1, <1>4, <2>3
    <3>2. \A j \in 1..Len(s) : s[j] = t[j]
      BY <1>3, <2>0, <3>1
    <3>3. s = t
      BY <1>10, <2>0, <3>2
    <3>4. QED
      BY <3>3
  <2>4. QED
    BY <2>1, <2>2, <2>3
<1>17. QED
  BY <1>15, <1>16

(* CAPABILITY: has_str finds what was sent, and only that. *)
LEMMA CapabilitiesHold ==
  ASSUME ReplyInv, value = Parsed(code), Answers = {"capability"}
  PROVE  CapabilitiesAreAsSent(value.value)
<1> DEFINE a == All("capability", reply)
           v == FlattenSeq(a)
           C == Mapped(CapabilityOf, v)
<1>1. value = Value(ToSet(C))
  BY ReaderIs DEF Capabilities
<1>2. \A names \in Data["capability"] : IsText(names) /\ \A t \in ToSet(names) : IsCapability(t)
  BY DataAssumption
<1>3. (\E S : v \in Seq(S)) /\ ToSet(v) = UNION {ToSet(d) : d \in ToSet(a)}
  BY <1>2, PartsSent
<1>4. ToSet(a) = {r.data : r \in {r \in ToSet(reply) : r.kind = "capability"}}
  BY DataSent
<1>5. \A r \in ToSet(reply) : r.kind = "capability" /\ r.data \in Data[r.kind]
  BY AnswersOnly
<1>6. ToSet(reply) = {reply[i] : i \in DOMAIN reply}
  BY DEF ToSet
<1>7. DOMAIN C = DOMAIN v /\ \A i \in DOMAIN v : C[i] = CapabilityOf(v[i])
  BY DEF Mapped
<1>8. /\ ToSet(C) = {C[i] : i \in DOMAIN C}
      /\ ToSet(v) = {v[i] : i \in DOMAIN v}
  BY DEF ToSet
<1>9. value.value = ToSet(C)
  BY <1>1 DEF Value
<1> HIDE DEF a, v, C
<1>10. \A t : t \in ToSet(v) <=> \E i \in DOMAIN reply : t \in ToSet(reply[i].data)
  BY <1>3, <1>4, <1>5, <1>6
<1>11. \A t \in ToSet(v) : IsCapability(t)
  BY <1>2, <1>5, <1>6, <1>10
<1>12. \A c : c \in ToSet(C) <=> \E t \in ToSet(v) : c = CapabilityOf(t)
  BY <1>7, <1>8
<1>13. ASSUME NEW s \in Capable
       PROVE  HasStr(value.value, s) <=>
                  \E i \in DOMAIN reply : \E t \in ToSet(reply[i].data) :
                      Len(s) = Len(t) /\ \A j \in DOMAIN s : EqIgnoreCase(s[j], t[j])
  <2>1. HasStr(value.value, s) <=> \E t \in ToSet(v) : CapabilityOf(s) = CapabilityOf(t)
    BY <1>9, <1>12 DEF HasStr, HasCapability
  <2>2. IsCapability(s)
    BY DataAssumption
  <2>3. \A t \in ToSet(v) : CapabilityOf(s) = CapabilityOf(t)
             <=> Len(s) = Len(t) /\ \A j \in DOMAIN s : EqIgnoreCase(s[j], t[j])
    BY <1>11, <2>2, SameCapability
  <2>4. QED
    BY <1>10, <2>1, <2>3
<1>14. QED
  BY <1>13 DEF CapabilitiesAreAsSent

(* The attributes of an item, those that hold data under one of some       *)
(* items, and the filters of the accessors.                                *)
ItemsOf(items, S) == {a \in S : a.item \in items}
Filled(items, S) == {a \in S : a.item \in items /\ a.data # None}

(* The first item with data is the first of those kept. *)
LEMMA FindMapIs ==
  ASSUME NEW S, NEW f, f.fetch \in Seq(S), NEW items
  PROVE  LET k == Kept(S, Filled(items, S), f.fetch)
         IN FindMap(f, items) = IF k = <<>> THEN None ELSE Head(k).data
<1> DEFINE s == f.fetch
           T == Filled(items, S)
           those == Those(s, LAMBDA a : a.item \in items /\ a.data # None)
           found == FlattenSeq([i \in DOMAIN s |->
                        IF s[i].item \in items /\ s[i].data # None THEN <<s[i]>> ELSE <<>>])
           k == Kept(S, T, s)
<1>1. those = found
  BY Zenon DEF Those
<1>2. DOMAIN s = 1..Len(s) /\ \A i \in DOMAIN s : s[i] \in S
  BY LenProperties
<1>3. [i \in DOMAIN s |-> IF s[i].item \in items /\ s[i].data # None THEN <<s[i]>> ELSE <<>>]
          = [i \in DOMAIN s |-> Keeps(S, T)[s[i]]]
  BY <1>2 DEF Keeps, Filled
<1> HIDE DEF T, s
<1>4. found = k
  BY <1>3 DEF Kept, Through, Image
<1>5. FindMap(f, items) = IF those = <<>> THEN None ELSE Head(those).data
  BY Zenon DEF FindMap, s
<1> HIDE DEF those, found, k
<1>6. QED
  BY <1>1, <1>4, <1>5 DEF k, T, s

(* The last attribute of an item is the last of those kept. *)
LEMMA LastAttrIs ==
  ASSUME NEW S, NEW s \in Seq(S), NEW item
  PROVE  LET k == Kept(S, ItemsOf({item}, S), s)
         IN LastAttr(s, item) = IF k = <<>> THEN None ELSE Last(k).data
<1> DEFINE T == ItemsOf({item}, S)
           those == Those(s, LAMBDA a : a.item = item)
           found == FlattenSeq([i \in DOMAIN s |-> IF s[i].item = item THEN <<s[i]>> ELSE <<>>])
           k == Kept(S, T, s)
<1>1. those = found
  BY Zenon DEF Those
<1>2. DOMAIN s = 1..Len(s) /\ \A i \in DOMAIN s : s[i] \in S
  BY LenProperties
<1>3. [i \in DOMAIN s |-> IF s[i].item = item THEN <<s[i]>> ELSE <<>>]
          = [i \in DOMAIN s |-> Keeps(S, T)[s[i]]]
  BY <1>2 DEF Keeps, ItemsOf
<1> HIDE DEF T
<1>4. found = k
  BY <1>3 DEF Kept, Through, Image
<1>5. LastAttr(s, item) = IF those = <<>> THEN None ELSE Last(those).data
  BY Zenon DEF LastAttr
<1> HIDE DEF those, found, k
<1>6. QED
  BY <1>1, <1>4, <1>5 DEF k, T

(* What find_map gives was sent, and it gives something if there was.      *)
LEMMA FindMapGives ==
  ASSUME NEW S, NEW f, f.fetch \in Seq(S), NEW items
  PROVE  Gives(FindMap(f, items), f.fetch, items)
<1> DEFINE s == f.fetch
           T == Filled(items, S)
           k == Kept(S, T, s)
           g == FindMap(f, items)
           sent == {a.data : a \in {a \in ToSet(s) : a.item \in items}} \ {None}
<1>1. g = IF k = <<>> THEN None ELSE Head(k).data
  BY FindMapIs
<1>2. k \in Seq(S \cap T) /\ ToSet(k) = ToSet(s) \cap T
  BY KeptRange
<1>3. ToSet(s) \subseteq S
  BY RangeIn
<1>4. \A a \in S : a \in T <=> a.item \in items /\ a.data # None
  BY DEF Filled
<1> HIDE DEF s, T, k, g
<1>5. /\ k = <<>> <=> ToSet(k) = {}
      /\ k # <<>> => Head(k) \in ToSet(k)
  BY <1>2, EndsIn
<1>6. CASE k = <<>>
  <2>1. g = None
    BY <1>1, <1>6
  <2>2. \A a \in ToSet(s) : ~(a.item \in items /\ a.data # None)
    BY <1>2, <1>3, <1>4, <1>5, <1>6
  <2>3. sent = {}
    BY <2>2
  <2>4. QED
    BY <2>1, <2>3 DEF Gives, g, s
<1>7. CASE k # <<>>
  <2> DEFINE a == Head(k)
  <2>1. a \in ToSet(s) /\ a \in S /\ a \in T
    BY <1>2, <1>3, <1>5, <1>7
  <2> HIDE DEF a
  <2>2. a.item \in items /\ a.data # None
    BY <1>4, <2>1
  <2>3. g = a.data
    BY <1>1, <1>7 DEF a
  <2>4. g \in sent /\ g # None
    BY <2>1, <2>2, <2>3
  <2>5. QED
    BY <2>4 DEF Gives, g, s
<1>8. QED
  BY <1>6, <1>7

(* The UID is the last one sent; an attribute that always has data.        *)
LEMMA LastAttrGives ==
  ASSUME NEW S, NEW s \in Seq(S), NEW item, \A a \in ToSet(s) : a.item = item => a.data # None
  PROVE  Gives(LastAttr(s, item), s, {item})
<1> DEFINE T == ItemsOf({item}, S)
           k == Kept(S, T, s)
           g == LastAttr(s, item)
           items == {item}
           sent == {a.data : a \in {a \in ToSet(s) : a.item \in items}} \ {None}
<1>1. g = IF k = <<>> THEN None ELSE Last(k).data
  BY LastAttrIs
<1>2. k \in Seq(S \cap T) /\ ToSet(k) = ToSet(s) \cap T
  BY KeptRange
<1>3. ToSet(s) \subseteq S
  BY RangeIn
<1>4. \A a \in S : a \in T <=> a.item = item
  BY DEF ItemsOf
<1> HIDE DEF T, k, g
<1>5. /\ k = <<>> <=> ToSet(k) = {}
      /\ k # <<>> => Last(k) \in ToSet(k)
  BY <1>2, EndsIn
<1>6. CASE k = <<>>
  <2>1. g = None
    BY <1>1, <1>6
  <2>2. \A a \in ToSet(s) : a.item # item
    BY <1>2, <1>3, <1>4, <1>5, <1>6
  <2>3. sent = {}
    BY <2>2
  <2>4. QED
    BY <2>1, <2>3 DEF Gives, g
<1>7. CASE k # <<>>
  <2> DEFINE a == Last(k)
  <2>1. a \in ToSet(s) /\ a \in S /\ a \in T
    BY <1>2, <1>3, <1>5, <1>7
  <2> HIDE DEF a
  <2>2. a.item = item /\ a.data # None
    BY <1>4, <2>1
  <2>3. g = a.data
    BY <1>1, <1>7 DEF a
  <2>4. g \in sent /\ g # None
    BY <2>1, <2>2, <2>3
  <2>5. QED
    BY <2>4 DEF Gives, g
<1>8. QED
  BY <1>6, <1>7

(* The dates that can be read. *)
LEMMA ReadableIs ==
  ASSUME NEW S, NEW s \in Seq(S)
  PROVE  ToSet(Readable(s)) = {a \in ToSet(s) : a.item = "INTERNALDATE" /\ a.data # "no date"}
<1> DEFINE T == {a \in S : a.item = "INTERNALDATE" /\ a.data # "no date"}
           found == FlattenSeq([i \in DOMAIN s |->
               IF s[i].item = "INTERNALDATE" /\ s[i].data # "no date" THEN <<s[i]>> ELSE <<>>])
<1>1. Readable(s) = found
  BY Zenon DEF Readable, Those
<1>2. DOMAIN s = 1..Len(s) /\ (\A i \in DOMAIN s : s[i] \in S) /\ ToSet(s) \subseteq S
  BY LenProperties, RangeIn
<1>3. [i \in DOMAIN s |->
           IF s[i].item = "INTERNALDATE" /\ s[i].data # "no date" THEN <<s[i]>> ELSE <<>>]
          = [i \in DOMAIN s |-> Keeps(S, T)[s[i]]]
  BY <1>2 DEF Keeps
<1>4. ToSet(s) \cap T = {a \in ToSet(s) : a.item = "INTERNALDATE" /\ a.data # "no date"}
  BY <1>2
<1> HIDE DEF T
<1>5. found = Kept(S, T, s)
  BY <1>3 DEF Kept, Through, Image
<1>6. ToSet(Kept(S, T, s)) = ToSet(s) \cap T
  BY KeptRange
<1>7. QED
  BY <1>1, <1>4, <1>5, <1>6

(* A message has one date; it is given if it can be read. *)
LEMMA DateGives ==
  ASSUME NEW S, NEW f, f.fetch \in Seq(S),
         \A a, b \in {a \in ToSet(f.fetch) : a.item = "INTERNALDATE"} : a.data = b.data
  PROVE  Gives(InternalDate(f), Readable(f.fetch), {"INTERNALDATE"})
<1> DEFINE s == f.fetch
           items == {"INTERNALDATE"}
           d == FindMap(f, items)
           R == ToSet(Readable(s))
           all == {a.data : a \in {a \in ToSet(s) : a.item \in items}} \ {None}
           sent == {a.data : a \in {a \in R : a.item \in items}} \ {None}
<1>1. IF d = None THEN all = {} ELSE d \in all
  <2> HIDE DEF items
  <2>1. Gives(FindMap(f, items), f.fetch, items)
    BY FindMapGives
  <2>2. QED
    BY <2>1 DEF Gives
<1>2. R = {a \in ToSet(s) : a.item = "INTERNALDATE" /\ a.data # "no date"}
  BY ReadableIs
<1>3. InternalDate(f) = IF d = "no date" THEN None ELSE d
  BY DEF InternalDate
<1>4. \A a, b \in ToSet(s) : a.item = "INTERNALDATE" /\ b.item = "INTERNALDATE" => a.data = b.data
  OBVIOUS
<1> HIDE DEF s, d, R
<1>5. \A a \in ToSet(s) : a.item \in items <=> a.item = "INTERNALDATE"
  OBVIOUS
<1>6. CASE d = None
  <2>1. InternalDate(f) = None
    BY <1>3, <1>6
  <2>2. sent \subseteq all
    BY <1>2
  <2>3. sent = {}
    BY <1>1, <1>6, <2>2
  <2>4. QED
    BY <2>1, <2>3 DEF Gives, R, s
<1>7. CASE d # None
  <2>1. PICK a \in ToSet(s) : a.item = "INTERNALDATE" /\ d = a.data
    BY <1>1, <1>7
  <2>2. CASE d = "no date"
    <3>1. InternalDate(f) = None
      BY <1>3, <2>2
    <3>2. \A b \in ToSet(s) : b.item = "INTERNALDATE" => b.data = "no date"
      BY <1>4, <2>1, <2>2
    <3>3. R = {}
      BY <1>2, <3>2
    <3>4. sent = {}
      BY <3>3
    <3>5. QED
      BY <3>1, <3>4 DEF Gives, R, s
  <2>3. CASE d # "no date"
    <3>1. InternalDate(f) = d
      BY <1>3, <2>3
    <3>2. a \in R
      BY <1>2, <2>1, <2>3
    <3>3. d \in sent
      BY <1>7, <2>1, <3>2
    <3>4. QED
      BY <1>7, <3>1, <3>3 DEF Gives, R, s
  <2>4. QED
    BY <2>2, <2>3
<1>8. QED
  BY <1>6, <1>7

(* The flags of a FETCH are all those of its FLAGS items, and no others.   *)
LEMMA FlagsGiven ==
  ASSUME NEW S, NEW s \in Seq(S), \A a \in ToSet(s) : a.item = "FLAGS" => IsText(a.data)
  PROVE  LET lists == {a.data : a \in {a \in ToSet(s) : a.item = "FLAGS"}}
         IN ToSet(FlagAttrs(s)) = {FlagOf(flag) : flag \in UNION {ToSet(list) : list \in lists}}
<1> DEFINE T == ItemsOf({"FLAGS"}, S)
           those == Those(s, LAMBDA a : a.item = "FLAGS")
           found == FlattenSeq([i \in DOMAIN s |-> IF s[i].item = "FLAGS" THEN <<s[i]>> ELSE <<>>])
           k == Kept(S, T, s)
<1>1. those = found
  BY Zenon DEF Those
<1>2. DOMAIN s = 1..Len(s) /\ (\A i \in DOMAIN s : s[i] \in S) /\ ToSet(s) \subseteq S
  BY LenProperties, RangeIn
<1>3. [i \in DOMAIN s |-> IF s[i].item = "FLAGS" THEN <<s[i]>> ELSE <<>>]
          = [i \in DOMAIN s |-> Keeps(S, T)[s[i]]]
  BY <1>2 DEF Keeps, ItemsOf
<1>a. \A a \in S : a \in T <=> a.item = "FLAGS"
  BY DEF ItemsOf
<1> HIDE DEF T
<1>4. found = k
  BY <1>3 DEF Kept, Through, Image
<1>5. k \in Seq(S \cap T) /\ ToSet(k) = ToSet(s) \cap T
  BY KeptRange
<1> DEFINE m == [i \in DOMAIN those |-> those[i].data]
           flags == FlattenSeq(m)
<1>6. FlagAttrs(s) = [i \in DOMAIN flags |-> FlagOf(flags[i])]
  BY Zenon DEF FlagAttrs, Mapped
<1> HIDE DEF those, found, k
<1>7. m = [i \in DOMAIN k |-> k[i].data]
  BY <1>1, <1>4
<1> DEFINE K == ToSet(k)
           U == UNION {ToSet(a.data) : a \in K}
           G == [a \in K |-> a.data]
<1>8. \A a \in K : a.data \in Seq(ToSet(a.data)) /\ ToSet(a.data) \subseteq U
  BY <1>2, <1>5, <1>a DEF IsText
<1> HIDE DEF U
<1>9. \A a \in K : a.data \in Seq(U)
  <2>1. SUFFICES ASSUME NEW a \in K PROVE a.data \in Seq(U)
    OBVIOUS
  <2> DEFINE d == a.data
  <2>2. d \in Seq(ToSet(d)) /\ ToSet(d) \subseteq U
    BY <1>8
  <2> HIDE DEF d
  <2>3. d \in Seq(U)
    BY <2>2, SeqMonotonic
  <2>4. QED
    BY <2>3 DEF d
<1>10. G \in [K -> Seq(U)]
  BY <1>9
<1>11. DOMAIN k = 1..Len(k) /\ \A i \in DOMAIN k : k[i] \in K
  BY <1>5, LenProperties DEF ToSet
<1>12. k \in Seq(K)
  BY <1>5, <1>11, SeqWithin
<1>13. m = Image(G, k)
  <2>1. \A i \in DOMAIN k : G[k[i]] = k[i].data
    BY <1>11
  <2> HIDE DEF G, m
  <2>2. QED
    BY <1>7, <2>1 DEF Image
<1>14. \A a \in K : G[a] = a.data
  OBVIOUS
<1> HIDE DEF m, G, flags, K
<1>15. m \in Seq(Seq(U)) /\ ToSet(m) = {G[a] : a \in ToSet(k)}
  BY <1>10, <1>12, <1>13, ImageType, ImageRange
<1>16. ToSet(flags) = UNION {ToSet(t) : t \in ToSet(m)}
  BY <1>15, FlattenRange DEF flags
<1>17. ToSet(FlagAttrs(s)) = {FlagOf(flags[i]) : i \in DOMAIN flags}
  BY <1>6 DEF ToSet
<1>18. ToSet(flags) = {flags[i] : i \in DOMAIN flags}
  BY DEF ToSet
<1> DEFINE lists == {a.data : a \in {a \in ToSet(s) : a.item = "FLAGS"}}
<1>19. ToSet(m) = lists
  <2>1. ToSet(k) = K
    BY DEF K
  <2>2. ToSet(m) = {a.data : a \in ToSet(k)}
    BY <1>14, <1>15, <2>1
  <2>3. ToSet(k) = {a \in ToSet(s) : a.item = "FLAGS"}
    BY <1>2, <1>5, <1>a
  <2>4. QED
    BY <2>2, <2>3
<1> HIDE DEF lists
<1>20. ToSet(FlagAttrs(s)) = {FlagOf(flag) : flag \in ToSet(flags)}
  BY <1>17, <1>18
<1>21. ToSet(FlagAttrs(s)) = {FlagOf(flag) : flag \in UNION {ToSet(list) : list \in lists}}
  BY <1>16, <1>19, <1>20
<1>22. QED
  BY <1>21 DEF lists

(* The accessors give what the attributes are. *)
LEMMA FetchedHolds ==
  ASSUME NEW m \in Data["fetch"]
  PROVE  FetchIsAsSent(Fetched(m), m.attrs)
<1> DEFINE f == Fetched(m)
           s == m.attrs
           S == ToSet(s)
<1>1. /\ s \in Seq(S)
      /\ \A a \in ToSet(s) : a.item = "FLAGS" => IsText(a.data)
      /\ \A a \in ToSet(s) : a.item = "UID" => a.data # None
      /\ \A a \in ToSet(s) : a.item = "RFC822.SIZE" => a.data # None
      /\ \A a, b \in {a \in ToSet(s) : a.item = "INTERNALDATE"} : a.data = b.data
  <2>1. IsText(s)
    BY DataAssumption
  <2>2. \A a \in ToSet(s) : (a.item = "FLAGS" => IsText(a.data))
                           /\ (a.item \in {"UID", "RFC822.SIZE"} => a.data # None)
    BY DataAssumption
  <2>3. \A a, b \in {a \in ToSet(s) : a.item = "INTERNALDATE"} : a.data = b.data
    BY DataAssumption
  <2>4. QED
    BY <2>1, <2>2, <2>3 DEF IsText
<1>2. /\ f.fetch = s /\ f.flags = FlagAttrs(s)
      /\ f.uid = LastAttr(s, "UID") /\ f.size = LastAttr(s, "RFC822.SIZE")
  BY DEF Fetched
<1> HIDE DEF f, s, S
<1>3. f.fetch \in Seq(S)
  BY <1>1, <1>2
<1>4. \A items : Gives(FindMap(f, items), s, items)
  BY <1>2, <1>3, FindMapGives
<1>5. Gives(f.uid, s, {"UID"}) /\ Gives(f.size, s, {"RFC822.SIZE"})
  BY <1>1, <1>2, LastAttrGives
<1>6. Gives(InternalDate(f), Readable(s), {"INTERNALDATE"})
  BY <1>1, <1>2, <1>3, DateGives
<1>7. LET lists == {a.data : a \in {a \in ToSet(s) : a.item = "FLAGS"}}
      IN ToSet(f.flags) = {FlagOf(flag) : flag \in UNION {ToSet(list) : list \in lists}}
  BY <1>1, <1>2, FlagsGiven
<1>8. /\ Gives(Header(f), s, {"BODY[HEADER]", "RFC822.HEADER"})
      /\ Gives(Body(f), s, {"BODY[]", "RFC822"})
      /\ Gives(Text(f), s, {"BODY[TEXT]", "RFC822.TEXT"})
  BY <1>4, Zenon DEF Header, Body, Text
<1>9. /\ Gives(Section(f, "BODY[1]"), s, {"BODY[1]"})
      /\ Gives(ModSeq(f), s, {"MODSEQ"})
      /\ Gives(Envelope(f), s, {"ENVELOPE"})
      /\ Gives(BodyStructure(f), s, {"BODYSTRUCTURE"})
      /\ Gives(GmailLabels(f), s, {"X-GM-LABELS"})
  BY <1>4, Zenon DEF Section, ModSeq, Envelope, BodyStructure, GmailLabels
<1>10. FetchIsAsSent(f, s)
  BY <1>5, <1>6, <1>7, <1>8, <1>9, Zenon DEF FetchIsAsSent
<1>11. QED
  BY <1>10 DEF f, s

(* FETCH and STORE: one fetch for each response, with what it says.        *)
LEMMA FetchesHold ==
  ASSUME ReplyInv, value = Fetches(reply), Answers = {"fetch"}
  PROVE  /\ Len(value.value) = Len(reply)
         /\ \A i \in DOMAIN reply :
                /\ value.value[i].message = reply[i].data.message
                /\ FetchIsAsSent(value.value[i], reply[i].data.attrs)
<1>1. PICK S : reply \in Seq(S)
  BY DEF ReplyInv
<1>2. Len(reply) \in Nat /\ DOMAIN reply = 1..Len(reply)
  BY <1>1, LenProperties
<1>3. \A r \in ToSet(reply) : r.kind = "fetch" /\ r.data \in Data["fetch"]
  BY AnswersOnly
<1>4. \A i \in DOMAIN reply : reply[i].kind = "fetch" /\ reply[i].data \in Data["fetch"]
  BY <1>3 DEF ToSet
<1> DEFINE a == All("fetch", reply)
           v == Mapped(Fetched, a)
<1>5. a \in Seq(Data["fetch"])
  BY DataIs
<1>6. Len(a) = Len(reply) /\ \A i \in DOMAIN reply : a[i] = reply[i].data
  BY <1>1, <1>4, AllWhole
<1>7. value.value = v
  BY DEF Fetches, Value
<1> HIDE DEF a
<1>8. DOMAIN a = 1..Len(a)
  BY <1>5, LenProperties
<1>9. v = [i \in 1..Len(reply) |-> Fetched(a[i])]
  BY <1>6, <1>8, Zenon DEF Mapped
<1> HIDE DEF v
<1>10. \A i \in DOMAIN reply : v[i] = Fetched(reply[i].data)
  BY <1>2, <1>6, <1>9
<1>11. Len(v) = Len(reply)
  <2> DEFINE n == Len(reply)
             T == {Fetched(a[i]) : i \in 1..n}
  <2>1. v \in [1..n -> T] /\ n \in Nat
    BY <1>2, <1>9
  <2> HIDE DEF n, T
  <2>2. Len(v) = n
    BY <2>1, IsSeq
  <2>3. QED
    BY <2>2 DEF n
<1>12. \A i \in DOMAIN reply : /\ v[i].message = reply[i].data.message
                               /\ FetchIsAsSent(v[i], reply[i].data.attrs)
  <2>1. \A m : Fetched(m).message = m.message
    BY DEF Fetched
  <2>2. QED
    BY <1>4, <1>10, <2>1, FetchedHolds
<1>13. QED
  BY <1>7, <1>11, <1>12

-----------------------------------------------------------------------------
(* Values: mailboxes.                                                      *)

(* The fields of a mailbox. *)
Fields == {"flags", "exists", "recent", "unseen", "permanent_flags", "uid_next", "uid_validity",
           "highest_mod_seq", "is_read_only"}

(* A mailbox that nothing was read into. *)
LEMMA DefaultIs ==
  /\ DOMAIN DefaultMailbox = Fields
  /\ DefaultMailbox.exists = 0 /\ DefaultMailbox.recent = 0
  /\ DefaultMailbox.unseen = None /\ DefaultMailbox.uid_next = None
  /\ DefaultMailbox.uid_validity = None /\ DefaultMailbox.highest_mod_seq = None
  /\ DefaultMailbox.flags = <<>> /\ DefaultMailbox.permanent_flags = <<>>
  /\ DefaultMailbox.is_read_only = FALSE
  BY DEF DefaultMailbox, Fields

(* An item or a code sets the field it is about, and no other. *)
LEMMA SetFieldIs ==
  ASSUME NEW mb, DOMAIN mb = Fields, NEW a
  PROVE  LET m == SetField(mb, a)
         IN /\ DOMAIN m = Fields
            /\ m.exists = IF a.name = "MESSAGES" THEN a.value ELSE mb.exists
            /\ m.recent = IF a.name = "RECENT" THEN a.value ELSE mb.recent
            /\ m.unseen = IF a.name = "UNSEEN" THEN a.value ELSE mb.unseen
            /\ m.uid_next = IF a.name = "UIDNEXT" THEN a.value ELSE mb.uid_next
            /\ m.uid_validity = IF a.name = "UIDVALIDITY" THEN a.value ELSE mb.uid_validity
            /\ m.highest_mod_seq = IF a.name = "HIGHESTMODSEQ" THEN a.value ELSE mb.highest_mod_seq
            /\ m.flags = mb.flags /\ m.permanent_flags = mb.permanent_flags
            /\ m.is_read_only = mb.is_read_only
<1> DEFINE names == {"MESSAGES", "RECENT", "UNSEEN", "UIDNEXT", "UIDVALIDITY", "HIGHESTMODSEQ"}
           m == SetField(mb, a)
<1>1. /\ DOMAIN Field = names /\ Field["MESSAGES"] = "exists" /\ Field["RECENT"] = "recent"
      /\ Field["UNSEEN"] = "unseen" /\ Field["UIDNEXT"] = "uid_next"
      /\ Field["UIDVALIDITY"] = "uid_validity" /\ Field["HIGHESTMODSEQ"] = "highest_mod_seq"
  BY DEF Field
<1>2. CASE a.name \notin names
  <2>1. m = mb
    BY <1>1, <1>2 DEF SetField
  <2>2. QED
    BY <1>2, <2>1
<1>3. CASE a.name \in names
  <2> DEFINE f == Field[a.name]
             v == a.value
  <2>1. m = [mb EXCEPT ![f] = v]
    BY <1>1, <1>3 DEF SetField
  <2>2. f \in Fields /\ /\ f = "exists" <=> a.name = "MESSAGES"
                        /\ f = "recent" <=> a.name = "RECENT"
                        /\ f = "unseen" <=> a.name = "UNSEEN"
                        /\ f = "uid_next" <=> a.name = "UIDNEXT"
                        /\ f = "uid_validity" <=> a.name = "UIDVALIDITY"
                        /\ f = "highest_mod_seq" <=> a.name = "HIGHESTMODSEQ"
                        /\ f # "flags" /\ f # "permanent_flags" /\ f # "is_read_only"
    BY <1>1, <1>3 DEF Fields
  <2> HIDE DEF m, f, v
  <2>3. DOMAIN m = Fields /\ \A g \in Fields : m[g] = IF g = f THEN v ELSE mb[g]
    BY <2>1
  <2>4. {"exists", "recent", "unseen", "uid_next", "uid_validity", "highest_mod_seq", "flags",
         "permanent_flags", "is_read_only"} \subseteq Fields
    BY DEF Fields
  <2>5. QED
    BY <2>2, <2>3, <2>4 DEF m, v
<1>4. QED
  BY <1>2, <1>3

(* The latest value of an item among several. *)
Named(name, S) == {a \in S : a.name = name}
LatestOf(name, items, default) ==
    LET its == Those(items, LAMBDA a : a.name = name)
    IN IF its = <<>> THEN default ELSE Last(its).value

(* The latest value of an item is that of the last one kept. *)
LEMMA LatestIs ==
  ASSUME NEW S, NEW s \in Seq(S), NEW name, NEW default
  PROVE  LET k == Kept(S, Named(name, S), s)
         IN LatestOf(name, s, default) = IF k = <<>> THEN default ELSE Last(k).value
<1> DEFINE T == Named(name, S)
           those == Those(s, LAMBDA a : a.name = name)
           found == FlattenSeq([i \in DOMAIN s |-> IF s[i].name = name THEN <<s[i]>> ELSE <<>>])
           k == Kept(S, T, s)
<1>1. those = found
  BY Zenon DEF Those
<1>2. DOMAIN s = 1..Len(s) /\ \A i \in DOMAIN s : s[i] \in S
  BY LenProperties
<1>3. [i \in DOMAIN s |-> IF s[i].name = name THEN <<s[i]>> ELSE <<>>]
          = [i \in DOMAIN s |-> Keeps(S, T)[s[i]]]
  BY <1>2 DEF Keeps, Named
<1> HIDE DEF T
<1>4. found = k
  BY <1>3 DEF Kept, Through, Image
<1>5. LatestOf(name, s, default) = IF those = <<>> THEN default ELSE Last(those).value
  BY Zenon DEF LatestOf
<1> HIDE DEF those, found, k
<1>6. QED
  BY <1>1, <1>4, <1>5 DEF k, T

(* No items leave the default. *)
LEMMA LatestEmpty == ASSUME NEW name, NEW default PROVE LatestOf(name, <<>>, default) = default
<1> DEFINE k == Kept({}, Named(name, {}), <<>>)
<1>1. k = <<>>
  BY ThroughEmpty DEF Kept
<1>2. <<>> \in Seq({})
  BY EmptySeq
<1> HIDE DEF k
<1>3. LatestOf(name, <<>>, default) = IF k = <<>> THEN default ELSE Last(k).value
  BY <1>2, LatestIs DEF k
<1>4. QED
  BY <1>1, <1>3

(* One more item is the latest of its name. *)
LEMMA LatestAppend ==
  ASSUME NEW S, NEW s \in Seq(S), NEW a \in S, NEW name, NEW default
  PROVE  LatestOf(name, Append(s, a), default)
             = IF a.name = name THEN a.value ELSE LatestOf(name, s, default)
<1> DEFINE T == Named(name, S)
           k == Kept(S, T, s)
           t == Append(s, a)
           l == Kept(S, T, t)
<1>1. t \in Seq(S)
  BY AppendProperties
<1>2. l = IF a \in T THEN Append(k, a) ELSE k
  BY KeptAppend
<1>3. a \in T <=> a.name = name
  BY DEF Named
<1>4. k \in Seq(S \cap T)
  BY KeptRange
<1>5. LatestOf(name, s, default) = IF k = <<>> THEN default ELSE Last(k).value
  BY LatestIs
<1> HIDE DEF t
<1>6. LatestOf(name, t, default) = IF l = <<>> THEN default ELSE Last(l).value
  BY <1>1, LatestIs
<1> HIDE DEF T, k, l
<1>7. CASE a.name = name
  <2>1. l = Append(k, a) /\ a \in S \cap T
    BY <1>2, <1>3, <1>7
  <2>2. l # <<>> /\ Last(l) = a
    BY <1>4, <2>1, FrontOfAppend
  <2>3. QED
    BY <1>6, <1>7, <2>2 DEF t
<1>8. CASE a.name # name
  <2>1. l = k
    BY <1>2, <1>3, <1>8
  <2>2. QED
    BY <1>5, <1>6, <1>8, <2>1 DEF t
<1>9. QED
  BY <1>7, <1>8

(* A single item is the latest of its name. *)
LEMMA LatestOne ==
  ASSUME NEW a, NEW name, NEW default
  PROVE  LatestOf(name, <<a>>, default) = IF a.name = name THEN a.value ELSE default
<1> DEFINE e == <<>>
<1>1. e \in Seq({a}) /\ Append(e, a) = <<a>>
  BY EmptySeq
<1> HIDE DEF e
<1>2. PICK S : e \in Seq(S) /\ a \in S
  BY <1>1
<1>3. LatestOf(name, Append(e, a), default)
          = IF a.name = name THEN a.value ELSE LatestOf(name, e, default)
  BY <1>2, LatestAppend
<1>4. LatestOf(name, e, default) = default
  BY LatestEmpty DEF e
<1>5. QED
  BY <1>1, <1>3, <1>4

(* The latest of two lists is that of the second, or else of the first. *)
LEMMA LatestConcat ==
  ASSUME NEW S, NEW s \in Seq(S), NEW name, NEW default
  PROVE  \A t \in Seq(S) :
             LatestOf(name, s \o t, default) = LatestOf(name, t, LatestOf(name, s, default))
<1> DEFINE b == LatestOf(name, s, default)
           A == {t \in Seq(S) : LatestOf(name, s \o t, default) = LatestOf(name, t, b)}
<1>1. <<>> \in A
  <2>1. s \o <<>> = s /\ <<>> \in Seq(S)
    BY ConcatEmptySeq, EmptySeq
  <2>2. QED
    BY <2>1, LatestEmpty
<1>2. ASSUME NEW t \in Seq(S), NEW a \in S, t \in A PROVE Append(t, a) \in A
  <2> DEFINE u == s \o t
  <2>1. s \o Append(t, a) = Append(u, a) /\ u \in Seq(S) /\ Append(t, a) \in Seq(S)
    BY AppendIsConcat, ConcatAssociative, ConcatProperties, AppendProperties, <<a>> \in Seq(S)
  <2>2. LatestOf(name, t, b) = LatestOf(name, u, default)
    BY <1>2
  <2> HIDE DEF u, b
  <2>3. LatestOf(name, Append(u, a), default)
            = IF a.name = name THEN a.value ELSE LatestOf(name, u, default)
    BY <2>1, LatestAppend
  <2>4. LatestOf(name, Append(t, a), b) = IF a.name = name THEN a.value ELSE LatestOf(name, t, b)
    BY LatestAppend
  <2>5. QED
    BY <2>1, <2>2, <2>3, <2>4
<1> HIDE DEF A
<1>3. Seq(S) \subseteq A
  BY <1>1, <1>2, SeqInductive
<1>4. QED
  BY <1>3 DEF A, b

(* What a mailbox has once items are read into it. *)
Gets(m, mb, items) ==
    /\ DOMAIN m = Fields
    /\ m.exists = LatestOf("MESSAGES", items, mb.exists)
    /\ m.recent = LatestOf("RECENT", items, mb.recent)
    /\ m.unseen = LatestOf("UNSEEN", items, mb.unseen)
    /\ m.uid_next = LatestOf("UIDNEXT", items, mb.uid_next)
    /\ m.uid_validity = LatestOf("UIDVALIDITY", items, mb.uid_validity)
    /\ m.highest_mod_seq = LatestOf("HIGHESTMODSEQ", items, mb.highest_mod_seq)
    /\ m.flags = mb.flags /\ m.permanent_flags = mb.permanent_flags
    /\ m.is_read_only = mb.is_read_only

(* No items change nothing. *)
LEMMA GetsNothing == ASSUME NEW m, DOMAIN m = Fields PROVE Gets(m, m, <<>>)
  BY LatestEmpty DEF Gets

(* Items read after others. *)
LEMMA GetsMore ==
  ASSUME NEW S, NEW s \in Seq(S), NEW t \in Seq(S), NEW b, NEW m, NEW n,
         Gets(m, b, s), Gets(n, m, t)
  PROVE  Gets(n, b, s \o t)
<1>1. \A name, default :
          LatestOf(name, s \o t, default) = LatestOf(name, t, LatestOf(name, s, default))
  BY LatestConcat
<1>2. QED
  BY <1>1 DEF Gets

(* One item is read by SetField. *)
LEMMA GetsOne ==
  ASSUME NEW m, DOMAIN m = Fields, NEW a PROVE Gets(SetField(m, a), m, <<a>>)
<1> DEFINE n == SetField(m, a)
<1>1. /\ DOMAIN n = Fields
      /\ n.exists = IF a.name = "MESSAGES" THEN a.value ELSE m.exists
      /\ n.recent = IF a.name = "RECENT" THEN a.value ELSE m.recent
      /\ n.unseen = IF a.name = "UNSEEN" THEN a.value ELSE m.unseen
      /\ n.uid_next = IF a.name = "UIDNEXT" THEN a.value ELSE m.uid_next
      /\ n.uid_validity = IF a.name = "UIDVALIDITY" THEN a.value ELSE m.uid_validity
      /\ n.highest_mod_seq = IF a.name = "HIGHESTMODSEQ" THEN a.value ELSE m.highest_mod_seq
      /\ n.flags = m.flags /\ n.permanent_flags = m.permanent_flags
      /\ n.is_read_only = m.is_read_only
  BY SetFieldIs
<1>2. ASSUME NEW name, NEW default
      PROVE  LatestOf(name, <<a>>, default) = IF a.name = name THEN a.value ELSE default
  BY LatestOne
<1> HIDE DEF n
<1>3. Gets(n, m, <<a>>)
  BY <1>1, <1>2 DEF Gets
<1>4. QED
  BY <1>3 DEF n

(* STATUS items are read one by one. *)
LEMMA StatusItems ==
  ASSUME NEW mb, DOMAIN mb = Fields, NEW S
  PROVE  \A s \in Seq(S) : Gets(OnStatusItems(mb, s), mb, s)
<1> DEFINE A == {s \in Seq(S) : Gets(OnStatusItems(mb, s), mb, s)}
<1>1. <<>> \in A
  <2>1. <<>> \in Seq({}) /\ Len(<<>>) = 0 /\ <<>> \in Seq(S)
    BY EmptySeq
  <2>2. Walks("field", [i \in {0} |-> mb], mb, <<>>)
    BY <2>1 DEF Walks
  <2>3. FoldLeft(SetField, mb, <<>>) = [i \in {0} |-> mb][Len(<<>>)]
    BY <2>1, <2>2, FieldWalks, Zenon
  <2>4. OnStatusItems(mb, <<>>) = mb
    BY <2>1, <2>3 DEF OnStatusItems
  <2>5. QED
    BY <2>1, <2>4, GetsNothing
<1>2. ASSUME NEW s \in Seq(S), NEW a \in S, s \in A PROVE Append(s, a) \in A
  <2> DEFINE t == Append(s, a)
             m == OnStatusItems(mb, s)
             n == OnStatusItems(mb, t)
  <2>1. t \in Seq(S)
    BY AppendProperties
  <2>2. PICK g : Walks("field", g, mb, t)
    BY <2>1, WalkExists, Zenon
  <2>3. Walks("field", g, mb, s)
    BY <2>2, WalkAppend, Zenon
  <2>4. g[Len(t)] = Step("field", g[Len(s)], a)
    BY <2>2, WalkAppend
  <2>5. FoldLeft(SetField, mb, t) = g[Len(t)]
    BY <2>1, <2>2, FieldWalks, Zenon
  <2>6. FoldLeft(SetField, mb, s) = g[Len(s)]
    BY <2>3, FieldWalks, Zenon
  <2>7. Step("field", g[Len(s)], a) = SetField(g[Len(s)], a)
    BY DEF Step
  <2>8. n = SetField(m, a)
    BY <2>4, <2>5, <2>6, <2>7, Zenon DEF OnStatusItems
  <2>9. Gets(m, mb, s)
    BY <1>2
  <2> HIDE DEF m, n
  <2>10. DOMAIN m = Fields
    BY <2>9 DEF Gets
  <2>11. Gets(n, m, <<a>>)
    BY <2>8, <2>10, GetsOne
  <2>12. <<a>> \in Seq(S) /\ t = s \o <<a>>
    BY AppendIsConcat
  <2> HIDE DEF t
  <2>13. Gets(n, mb, t)
    BY <2>9, <2>11, <2>12, GetsMore
  <2>14. QED
    BY <2>1, <2>13 DEF n, t
<1> HIDE DEF A
<1>3. Seq(S) \subseteq A
  BY <1>1, <1>2, SeqInductive
<1>4. QED
  BY <1>3 DEF A

(* The items that the responses of a reply have about a mailbox. *)
ItemsFn(p, S) ==
    [r \in S |-> CASE r.kind = "ok"                              -> <<r.data>>
                   [] r.kind = "status" /\ r.data.mailbox = p    -> r.data.items
                   [] OTHER                                      -> <<>>]
ItemsIn(p, S, q) == Through(ItemsFn(p, S), q)
ItemsOver(S) == {r.data : r \in S} \cup (UNION {ToSet(r.data.items) : r \in S})

(* The latest data of a kind of response. *)
LatestIn(kind, q, default) == IF All(kind, q) = <<>> THEN default ELSE Last(All(kind, q))

(* The items of a response: the code of an untagged OK, or those of a
   STATUS about the mailbox. *)
LEMMA ItemsType ==
  ASSUME NEW p, NEW S, \A r \in S : r.kind = "status" => IsText(r.data.items)
  PROVE  /\ ItemsFn(p, S) \in [S -> Seq(ItemsOver(S))]
         /\ \A r \in S : ItemsFn(p, S)[r] =
                IF r.kind = "ok" THEN <<r.data>>
                ELSE IF r.kind = "status" /\ r.data.mailbox = p THEN r.data.items ELSE <<>>
<1> DEFINE U == ItemsOver(S)
           F == ItemsFn(p, S)
<1>1. \A r \in S : r.data \in U /\ ToSet(r.data.items) \subseteq U
  <2>1. SUFFICES ASSUME NEW r \in S PROVE r.data \in U /\ ToSet(r.data.items) \subseteq U
    OBVIOUS
  <2>2. r.data \in U
    BY Zenon DEF ItemsOver
  <2>3. ToSet(r.data.items) \subseteq U
    <3> DEFINE V == {e.data : e \in S}
               W == {ToSet(e.data.items) : e \in S}
               t == ToSet(r.data.items)
    <3>1. t \in W
      OBVIOUS
    <3>2. U = V \cup (UNION W)
      BY DEF ItemsOver
    <3> HIDE DEF V, W, t, U
    <3>3. t \subseteq U
      BY <3>1, <3>2
    <3>4. QED
      BY <3>3 DEF t
  <2>4. QED
    BY <2>2, <2>3
<1>2. \A r \in S : F[r] = IF r.kind = "ok" THEN <<r.data>>
                          ELSE IF r.kind = "status" /\ r.data.mailbox = p THEN r.data.items
                          ELSE <<>>
  BY DEF ItemsFn
<1>3. F = [r \in S |-> F[r]]
  BY DEF ItemsFn
<1> HIDE DEF U, F
<1>4. ASSUME NEW r \in S PROVE F[r] \in Seq(U)
  <2>1. CASE r.kind = "ok"
    <3> DEFINE d == r.data
    <3>1. d \in U /\ F[r] = <<d>>
      BY <1>1, <1>2, <2>1
    <3> HIDE DEF d
    <3>2. <<d>> \in Seq(U)
      BY <3>1
    <3>3. QED
      BY <3>1, <3>2
  <2>2. CASE r.kind = "status" /\ r.data.mailbox = p
    <3> DEFINE t == r.data.items
    <3>1. t \in Seq(ToSet(t)) /\ ToSet(t) \subseteq U
      BY <1>1, <2>2 DEF IsText
    <3> HIDE DEF t
    <3>2. t \in Seq(U)
      BY <3>1, SeqMonotonic
    <3>3. r.kind # "ok"
      BY <2>2
    <3>4. F[r] = t
      BY <1>2, <2>2, <3>3 DEF t
    <3>5. QED
      BY <3>2, <3>4
  <2>3. CASE r.kind # "ok" /\ ~(r.kind = "status" /\ r.data.mailbox = p)
    <3>1. F[r] = <<>> /\ <<>> \in Seq(U)
      BY <1>2, <2>3, EmptySeq
    <3>2. QED
      BY <3>1
  <2>4. QED
    BY <2>1, <2>2, <2>3
<1>5. F \in [S -> Seq(U)]
  BY <1>3, <1>4
<1>6. QED
  BY <1>2, <1>5 DEF U, F

(* One more response adds its items. *)
LEMMA ItemsAppend ==
  ASSUME NEW p, NEW S, \A r \in S : r.kind = "status" => IsText(r.data.items),
         NEW q \in Seq(S), NEW r \in S
  PROVE  /\ ItemsIn(p, S, q) \in Seq(ItemsOver(S))
         /\ ItemsIn(p, S, Append(q, r)) =
                IF r.kind = "ok" THEN Append(ItemsIn(p, S, q), r.data)
                ELSE IF r.kind = "status" /\ r.data.mailbox = p
                     THEN ItemsIn(p, S, q) \o r.data.items
                ELSE ItemsIn(p, S, q)
<1> DEFINE U == ItemsOver(S)
           F == ItemsFn(p, S)
           d == r.data
           i == Through(F, q)
<1>1. /\ F \in [S -> Seq(U)]
      /\ F[r] = IF r.kind = "ok" THEN <<d>>
                ELSE IF r.kind = "status" /\ r.data.mailbox = p THEN r.data.items ELSE <<>>
  BY ItemsType
<1>2. r.kind = "ok" => d \in U
  BY DEF ItemsOver
<1> HIDE DEF U, F, d
<1>3. i \in Seq(U) /\ Through(F, Append(q, r)) = i \o F[r]
  BY <1>1, ThroughType, ThroughAppend
<1> HIDE DEF i
<1>4. r.kind = "ok" => i \o <<d>> = Append(i, d)
  BY <1>2, <1>3, AppendIsConcat
<1>5. i \o <<>> = i
  BY <1>3, ConcatEmptySeq
<1>6. Through(F, Append(q, r)) =
          IF r.kind = "ok" THEN Append(i, d)
          ELSE IF r.kind = "status" /\ r.data.mailbox = p THEN i \o r.data.items ELSE i
  BY <1>1, <1>3, <1>4, <1>5
<1>7. QED
  BY <1>3, <1>6 DEF ItemsIn, U, F, d, i

(* One more response is the latest of its kind. *)
LEMMA LatestInAppend ==
  ASSUME NEW S, NEW q \in Seq(S), NEW r \in S, NEW kind, NEW default
  PROVE  LatestIn(kind, Append(q, r), default)
             = IF r.kind = kind THEN r.data ELSE LatestIn(kind, q, default)
<1> DEFINE a == All(kind, q)
           b == All(kind, Append(q, r))
           D == DataOf(kind, S)
<1>1. a \in Seq(D)
  BY AllType
<1>2. b = IF r.kind = kind THEN Append(a, r.data) ELSE a
  BY AllAppend
<1>3. r.kind = kind => r.data \in D
  BY DEF DataOf, OfKind
<1> HIDE DEF a, b, D
<1>4. CASE r.kind = kind
  <2>1. b # <<>> /\ Last(b) = r.data
    BY <1>1, <1>2, <1>3, <1>4, FrontOfAppend
  <2>2. QED
    BY <1>4, <2>1 DEF LatestIn, b
<1>5. CASE r.kind # kind
  <2>1. b = a
    BY <1>2, <1>5
  <2>2. QED
    BY <1>5, <2>1 DEF LatestIn, a, b
<1>6. QED
  BY <1>4, <1>5

(* What a property says of the latest items, over the whole reply. *)
LEMMA ItemsAre ==
  ASSUME NEW S, reply \in Seq(S)
  PROVE  /\ \A name, d : LatestItem(name, d) = LatestOf(name, ItemsIn(call.mailbox, S, reply), d)
         /\ \A kind, d : Latest(kind, d) = LatestIn(kind, reply, d)
<1> DEFINE p == call.mailbox
           F == ItemsFn(p, S)
           Of(r) == CASE r.kind = "ok"                              -> <<r.data>>
                      [] r.kind = "status" /\ r.data.mailbox = p    -> r.data.items
                      [] OTHER                                      -> <<>>
<1>1. Items = FlattenSeq([i \in DOMAIN reply |-> Of(reply[i])])
  BY Zenon DEF Items, Mapped
<1>2. DOMAIN reply = 1..Len(reply) /\ \A i \in DOMAIN reply : reply[i] \in S
  BY LenProperties
<1>3. \A r \in S : F[r] = Of(r)
  BY Zenon DEF ItemsFn
<1> HIDE DEF F, Of
<1>4. [i \in DOMAIN reply |-> Of(reply[i])] = [i \in DOMAIN reply |-> F[reply[i]]]
  BY <1>2, <1>3
<1>5. Items = Through(F, reply)
  BY <1>1, <1>4 DEF Through, Image
<1>6. \A name, d : LatestItem(name, d) = LatestOf(name, Items, d)
  BY Zenon DEF LatestItem, LatestOf
<1>7. Items = ItemsIn(call.mailbox, S, reply)
  BY <1>5 DEF ItemsIn, F
<1>8. \A kind, d : Latest(kind, d) = LatestIn(kind, reply, d)
  BY DEF Latest, LatestIn
<1>9. QED
  BY <1>6, <1>7, <1>8

(* The flags of a FLAGS response are given under their names. *)
LEMMA FlagsMapped ==
  ASSUME NEW d, IsText(d)
  PROVE  /\ ToSet(Mapped(FlagOf, d)) = {FlagOf(flag) : flag \in ToSet(d)}
         /\ Mapped(FlagOf, d) \in Seq({FlagOf(flag) : flag \in ToSet(d)})
<1> DEFINE K == ToSet(d)
           G == [flag \in K |-> FlagOf(flag)]
           T == {FlagOf(flag) : flag \in K}
           m == Mapped(FlagOf, d)
<1>1. d \in Seq(K)
  BY DEF IsText
<1>2. DOMAIN d = 1..Len(d) /\ \A i \in DOMAIN d : d[i] \in K
  BY <1>1, LenProperties DEF ToSet
<1>3. m = [i \in DOMAIN d |-> FlagOf(d[i])]
  BY Zenon DEF Mapped
<1>4. G \in [K -> T] /\ T = {G[flag] : flag \in K} /\ \A flag \in K : G[flag] = FlagOf(flag)
  OBVIOUS
<1> HIDE DEF m, G, T
<1>5. m = Image(G, d)
  BY <1>2, <1>3, <1>4 DEF Image
<1>6. Image(G, d) \in Seq(T)
  BY <1>1, <1>4, ImageType
<1>7. ToSet(Image(G, d)) = {G[flag] : flag \in K}
  BY <1>1, ImageRange
<1>8. QED
  BY <1>4, <1>5, <1>6, <1>7 DEF T, m

(* A code sets at most the field it is about. *)
LEMMA CodeSets ==
  ASSUME NEW m, DOMAIN m = Fields, NEW c, c # None, c.name \notin {"MESSAGES", "RECENT"}
  PROVE  LET n == OnCode(m, c)
         IN /\ DOMAIN n = Fields /\ n.exists = m.exists /\ n.recent = m.recent
            /\ n.unseen = IF c.name = "UNSEEN" THEN c.value ELSE m.unseen
            /\ n.uid_next = IF c.name = "UIDNEXT" THEN c.value ELSE m.uid_next
            /\ n.uid_validity = IF c.name = "UIDVALIDITY" THEN c.value ELSE m.uid_validity
            /\ n.highest_mod_seq = IF c.name = "HIGHESTMODSEQ" THEN c.value ELSE m.highest_mod_seq
            /\ n.flags = m.flags
            /\ n.permanent_flags = IF c.name = "PERMANENTFLAGS"
                                   THEN m.permanent_flags \o Mapped(FlagOf, c.value)
                                   ELSE m.permanent_flags
<1> DEFINE n == OnCode(m, c)
<1>1. CASE c.name = "PERMANENTFLAGS"
  <2> DEFINE v == m.permanent_flags \o Mapped(FlagOf, c.value)
  <2>1. n = [m EXCEPT !.permanent_flags = v]
    BY <1>1 DEF OnCode
  <2> HIDE DEF n, v
  <2>2. DOMAIN n = Fields /\ \A f \in Fields : n[f] = IF f = "permanent_flags" THEN v ELSE m[f]
    BY <2>1
  <2>3. {"exists", "recent", "unseen", "uid_next", "uid_validity", "highest_mod_seq", "flags",
         "permanent_flags"} \subseteq Fields
    BY DEF Fields
  <2>4. QED
    BY <1>1, <2>2, <2>3 DEF n, v
<1>2. CASE c.name # "PERMANENTFLAGS"
  <2> DEFINE k == SetField(m, c)
  <2>1. n = k
    BY <1>2 DEF OnCode
  <2>2. /\ DOMAIN k = Fields
        /\ k.exists = IF c.name = "MESSAGES" THEN c.value ELSE m.exists
        /\ k.recent = IF c.name = "RECENT" THEN c.value ELSE m.recent
        /\ k.unseen = IF c.name = "UNSEEN" THEN c.value ELSE m.unseen
        /\ k.uid_next = IF c.name = "UIDNEXT" THEN c.value ELSE m.uid_next
        /\ k.uid_validity = IF c.name = "UIDVALIDITY" THEN c.value ELSE m.uid_validity
        /\ k.highest_mod_seq = IF c.name = "HIGHESTMODSEQ" THEN c.value ELSE m.highest_mod_seq
        /\ k.flags = m.flags /\ k.permanent_flags = m.permanent_flags
    BY SetFieldIs
  <2> HIDE DEF n, k
  <2>3. QED
    BY <1>2, <2>1, <2>2 DEF n
<1>3. QED
  BY <1>1, <1>2

(* A response to SELECT sets the field it is about, or adds flags. *)
LEMMA SelectSets ==
  ASSUME NEW m, DOMAIN m = Fields, NEW r, r.kind \in {"exists", "recent", "flags", "ok"},
         r.kind = "ok" => r.data # None /\ r.data.name \notin {"MESSAGES", "RECENT"}
  PROVE  LET n == OnSelectResponse(m, r)
         IN /\ DOMAIN n = Fields
            /\ n.exists = IF r.kind = "exists" THEN r.data ELSE m.exists
            /\ n.recent = IF r.kind = "recent" THEN r.data ELSE m.recent
            /\ n.unseen = IF r.kind = "ok" /\ r.data.name = "UNSEEN" THEN r.data.value ELSE m.unseen
            /\ n.uid_next = IF r.kind = "ok" /\ r.data.name = "UIDNEXT" THEN r.data.value
                            ELSE m.uid_next
            /\ n.uid_validity = IF r.kind = "ok" /\ r.data.name = "UIDVALIDITY" THEN r.data.value
                                ELSE m.uid_validity
            /\ n.highest_mod_seq = IF r.kind = "ok" /\ r.data.name = "HIGHESTMODSEQ"
                                   THEN r.data.value ELSE m.highest_mod_seq
            /\ n.flags = IF r.kind = "flags" THEN m.flags \o Mapped(FlagOf, r.data) ELSE m.flags
            /\ n.permanent_flags = IF r.kind = "ok" /\ r.data.name = "PERMANENTFLAGS"
                                   THEN m.permanent_flags \o Mapped(FlagOf, r.data.value)
                                   ELSE m.permanent_flags
<1> DEFINE n == OnSelectResponse(m, r)
           d == r.data
           v == m.flags \o Mapped(FlagOf, d)
<1>0. {"exists", "recent", "unseen", "uid_next", "uid_validity", "highest_mod_seq", "flags",
       "permanent_flags"} \subseteq Fields
  BY DEF Fields
<1>1. CASE r.kind = "exists"
  <2>1. n = [m EXCEPT !.exists = d]
    BY <1>1 DEF OnSelectResponse
  <2> HIDE DEF n, d
  <2>2. DOMAIN n = Fields /\ \A f \in Fields : n[f] = IF f = "exists" THEN d ELSE m[f]
    BY <2>1
  <2>3. QED
    BY <1>0, <1>1, <2>2 DEF n, d
<1>2. CASE r.kind = "recent"
  <2>1. n = [m EXCEPT !.recent = d]
    BY <1>2 DEF OnSelectResponse
  <2> HIDE DEF n, d
  <2>2. DOMAIN n = Fields /\ \A f \in Fields : n[f] = IF f = "recent" THEN d ELSE m[f]
    BY <2>1
  <2>3. QED
    BY <1>0, <1>2, <2>2 DEF n, d
<1>3. CASE r.kind = "flags"
  <2>1. n = [m EXCEPT !.flags = v]
    BY <1>3 DEF OnSelectResponse
  <2> HIDE DEF n, v
  <2>2. DOMAIN n = Fields /\ \A f \in Fields : n[f] = IF f = "flags" THEN v ELSE m[f]
    BY <2>1
  <2>3. QED
    BY <1>0, <1>3, <2>2 DEF n, v
<1>4. CASE r.kind = "ok"
  <2>1. n = OnCode(m, d)
    BY <1>4 DEF OnSelectResponse
  <2>2. d # None /\ d.name \notin {"MESSAGES", "RECENT"}
    BY <1>4
  <2> HIDE DEF n, d
  <2>3. QED
    BY <1>4, <2>1, <2>2, CodeSets DEF n, d
<1>5. QED
  BY <1>1, <1>2, <1>3, <1>4

(* The responses to SELECT and EXAMINE. *)
OfSelect(S) ==
    \A r \in S : /\ r.kind \in {"exists", "recent", "flags", "ok"}
                 /\ r.kind = "ok" => r.data # None /\ r.data.name \notin {"MESSAGES", "RECENT"}
                 /\ r.kind = "ok" /\ r.data.name = "PERMANENTFLAGS" => IsText(r.data.value)
                 /\ r.kind = "flags" => IsText(r.data)

(* What the mailbox is after the responses q. *)
FieldsRead(m, p, S, q) ==
    /\ DOMAIN m = Fields
    /\ m.exists = LatestIn("exists", q, 0)
    /\ m.recent = LatestIn("recent", q, 0)
    /\ m.unseen = LatestOf("UNSEEN", ItemsIn(p, S, q), None)
    /\ m.uid_next = LatestOf("UIDNEXT", ItemsIn(p, S, q), None)
    /\ m.uid_validity = LatestOf("UIDVALIDITY", ItemsIn(p, S, q), None)
    /\ m.highest_mod_seq = LatestOf("HIGHESTMODSEQ", ItemsIn(p, S, q), None)
Silent(p, S, q) ==
    /\ LatestOf("MESSAGES", ItemsIn(p, S, q), 0) = 0
    /\ LatestOf("RECENT", ItemsIn(p, S, q), 0) = 0
FlagsFn(S) == [r \in S |-> FlagsIn(r)]
PermanentFlagsFn(S) == [r \in S |-> PermanentFlagsIn(r)]
Flagged(m, S, q) ==
    /\ m.flags = Through(FlagsFn(S), q)
    /\ m.permanent_flags = Through(PermanentFlagsFn(S), q)

(* The flags of a response, and of a reply. *)
LEMMA FlagsAre ==
  ASSUME NEW S, OfSelect(S)
  PROVE  \E X : FlagsFn(S) \in [S -> Seq(X)] /\ PermanentFlagsFn(S) \in [S -> Seq(X)]
<1> DEFINE A == UNION {ToSet(FlagsIn(r)) : r \in S}
           B == UNION {ToSet(PermanentFlagsIn(r)) : r \in S}
           X == A \cup B
<1>1. \A d : IsText(d) => Mapped(FlagOf, d) \in Seq(ToSet(Mapped(FlagOf, d)))
  <2>1. SUFFICES ASSUME NEW d, IsText(d) PROVE Mapped(FlagOf, d) \in Seq(ToSet(Mapped(FlagOf, d)))
    OBVIOUS
  <2>2. /\ ToSet(Mapped(FlagOf, d)) = {FlagOf(flag) : flag \in ToSet(d)}
        /\ Mapped(FlagOf, d) \in Seq({FlagOf(flag) : flag \in ToSet(d)})
    BY <2>1, FlagsMapped
  <2>3. QED
    BY <2>2, Zenon
<1>2. <<>> \in Seq(ToSet(<<>>))
  BY EmptySeq
<1>3. ASSUME NEW r \in S
      PROVE  FlagsIn(r) \in Seq(ToSet(FlagsIn(r)))
             /\ PermanentFlagsIn(r) \in Seq(ToSet(PermanentFlagsIn(r)))
  <2>1. /\ r.kind = "ok" /\ r.data.name = "PERMANENTFLAGS" => IsText(r.data.value)
        /\ r.kind = "flags" => IsText(r.data)
    BY DEF OfSelect
  <2>2. FlagsIn(r) = IF r.kind = "flags" THEN Mapped(FlagOf, r.data) ELSE <<>>
    BY Zenon DEF FlagsIn
  <2>3. PermanentFlagsIn(r) = IF r.kind = "ok" /\ r.data.name = "PERMANENTFLAGS"
                              THEN Mapped(FlagOf, r.data.value) ELSE <<>>
    BY Zenon DEF PermanentFlagsIn
  <2>4. FlagsIn(r) \in Seq(ToSet(FlagsIn(r)))
    BY <1>1, <1>2, <2>1, <2>2, Zenon
  <2>5. PermanentFlagsIn(r) \in Seq(ToSet(PermanentFlagsIn(r)))
    BY <1>1, <1>2, <2>1, <2>3, Zenon
  <2>6. QED
    BY <2>4, <2>5
<1>4. ASSUME NEW r \in S PROVE ToSet(FlagsIn(r)) \subseteq X /\ ToSet(PermanentFlagsIn(r)) \subseteq X
  BY Zenon
<1> HIDE DEF X
<1>5. \A r \in S : FlagsIn(r) \in Seq(X) /\ PermanentFlagsIn(r) \in Seq(X)
  BY <1>3, <1>4, SeqMonotonic
<1>6. FlagsFn(S) \in [S -> Seq(X)] /\ PermanentFlagsFn(S) \in [S -> Seq(X)]
  BY <1>5 DEF FlagsFn, PermanentFlagsFn
<1>7. QED
  BY <1>6

(* ... over the whole of it. *)
LEMMA FlagsThrough ==
  ASSUME NEW S, NEW q \in Seq(S)
  PROVE  /\ FlattenSeq(Mapped(FlagsIn, q)) = Through(FlagsFn(S), q)
         /\ FlattenSeq(Mapped(PermanentFlagsIn, q)) = Through(PermanentFlagsFn(S), q)
<1> DEFINE F == FlagsFn(S)
           G == PermanentFlagsFn(S)
<1>1. \A r \in S : F[r] = FlagsIn(r) /\ G[r] = PermanentFlagsIn(r)
  BY DEF FlagsFn, PermanentFlagsFn
<1>2. \A i \in DOMAIN q : q[i] \in S
  BY LenProperties
<1> HIDE DEF F, G
<1>3. /\ Mapped(FlagsIn, q) = [i \in DOMAIN q |-> FlagsIn(q[i])]
      /\ Mapped(PermanentFlagsIn, q) = [i \in DOMAIN q |-> PermanentFlagsIn(q[i])]
  BY Zenon DEF Mapped
<1>4. /\ [i \in DOMAIN q |-> FlagsIn(q[i])] = [i \in DOMAIN q |-> F[q[i]]]
      /\ [i \in DOMAIN q |-> PermanentFlagsIn(q[i])] = [i \in DOMAIN q |-> G[q[i]]]
  BY <1>1, <1>2
<1>5. QED
  BY <1>3, <1>4 DEF Image, Through, F, G

(* Before the first response the mailbox is the default. *)
LEMMA NoResponses ==
  ASSUME NEW p, NEW S
  PROVE  /\ FieldsRead(DefaultMailbox, p, S, <<>>) /\ Silent(p, S, <<>>)
         /\ Flagged(DefaultMailbox, S, <<>>)
<1>1. ItemsIn(p, S, <<>>) = <<>>
  BY ThroughEmpty DEF ItemsIn
<1>2. \A kind, d : LatestIn(kind, <<>>, d) = d
  BY AllEmpty DEF LatestIn
<1>3. \A name, d : LatestOf(name, <<>>, d) = d
  BY LatestEmpty
<1>4. Through(FlagsFn(S), <<>>) = <<>> /\ Through(PermanentFlagsFn(S), <<>>) = <<>>
  BY ThroughEmpty
<1>5. FieldsRead(DefaultMailbox, p, S, <<>>)
  BY <1>1, <1>2, <1>3, DefaultIs DEF FieldsRead
<1>6. Silent(p, S, <<>>)
  BY <1>1, <1>3 DEF Silent
<1>7. Flagged(DefaultMailbox, S, <<>>)
  BY <1>4, DefaultIs DEF Flagged
<1>8. QED
  BY <1>5, <1>6, <1>7

(* One more response is read. *)
LEMMA ItemsOne ==
  ASSUME NEW p, NEW S, OfSelect(S), NEW q \in Seq(S), NEW r \in S, NEW name, NEW default
  PROVE  LatestOf(name, ItemsIn(p, S, Append(q, r)), default)
             = IF r.kind = "ok" /\ r.data.name = name THEN r.data.value
               ELSE LatestOf(name, ItemsIn(p, S, q), default)
<1> DEFINE U == ItemsOver(S)
           i == ItemsIn(p, S, q)
           j == ItemsIn(p, S, Append(q, r))
           d == r.data
<1>1. \A e \in S : e.kind # "status"
  BY DEF OfSelect
<1>2. i \in Seq(U) /\ j = IF r.kind = "ok" THEN Append(i, d)
                           ELSE IF r.kind = "status" /\ d.mailbox = p THEN i \o d.items ELSE i
  BY <1>1, ItemsAppend
<1>3. d \in U
  BY Zenon DEF ItemsOver
<1> HIDE DEF U, i, j, d
<1>4. CASE r.kind = "ok"
  <2>1. LatestOf(name, Append(i, d), default)
            = IF d.name = name THEN d.value ELSE LatestOf(name, i, default)
    BY <1>2, <1>3, LatestAppend
  <2>2. j = Append(i, d)
    BY <1>2, <1>4
  <2>3. QED
    BY <1>4, <2>1, <2>2 DEF i, j, d
<1>5. CASE r.kind # "ok"
  <2>1. j = i
    BY <1>1, <1>2, <1>5
  <2>2. QED
    BY <1>5, <2>1 DEF i, j
<1>6. QED
  BY <1>4, <1>5

(* One more response is read into the fields ... *)
LEMMA ReadsOne ==
  ASSUME NEW p, NEW S, OfSelect(S), NEW q \in Seq(S), NEW r \in S,
         NEW m, FieldsRead(m, p, S, q), Silent(p, S, q)
  PROVE  /\ FieldsRead(OnSelectResponse(m, r), p, S, Append(q, r))
         /\ Silent(p, S, Append(q, r))
<1> DEFINE n == OnSelectResponse(m, r)
           t == Append(q, r)
<1>1. /\ r.kind \in {"exists", "recent", "flags", "ok"}
      /\ r.kind = "ok" => r.data # None /\ r.data.name \notin {"MESSAGES", "RECENT"}
  BY DEF OfSelect
<1>2. /\ DOMAIN n = Fields
      /\ n.exists = IF r.kind = "exists" THEN r.data ELSE m.exists
      /\ n.recent = IF r.kind = "recent" THEN r.data ELSE m.recent
      /\ n.unseen = IF r.kind = "ok" /\ r.data.name = "UNSEEN" THEN r.data.value ELSE m.unseen
      /\ n.uid_next = IF r.kind = "ok" /\ r.data.name = "UIDNEXT" THEN r.data.value
                      ELSE m.uid_next
      /\ n.uid_validity = IF r.kind = "ok" /\ r.data.name = "UIDVALIDITY" THEN r.data.value
                          ELSE m.uid_validity
      /\ n.highest_mod_seq = IF r.kind = "ok" /\ r.data.name = "HIGHESTMODSEQ" THEN r.data.value
                             ELSE m.highest_mod_seq
  BY <1>1, SelectSets DEF FieldsRead
<1>3. \A kind, d : LatestIn(kind, t, d) = IF r.kind = kind THEN r.data ELSE LatestIn(kind, q, d)
  BY LatestInAppend
<1>4. \A name, d : LatestOf(name, ItemsIn(p, S, t), d)
                       = IF r.kind = "ok" /\ r.data.name = name THEN r.data.value
                         ELSE LatestOf(name, ItemsIn(p, S, q), d)
  BY ItemsOne
<1> HIDE DEF n, t
<1>5. FieldsRead(n, p, S, t)
  BY <1>2, <1>3, <1>4 DEF FieldsRead
<1>6. Silent(p, S, t)
  BY <1>1, <1>4 DEF Silent
<1>7. QED
  BY <1>5, <1>6 DEF n, t

(* ... and its flags are added to those there. *)
LEMMA FlagsOne ==
  ASSUME NEW S, OfSelect(S), NEW q \in Seq(S), NEW r \in S,
         NEW m, DOMAIN m = Fields, Flagged(m, S, q)
  PROVE  Flagged(OnSelectResponse(m, r), S, Append(q, r))
<1> DEFINE n == OnSelectResponse(m, r)
           F == FlagsFn(S)
           G == PermanentFlagsFn(S)
           f == Through(F, q)
           g == Through(G, q)
<1>1. /\ r.kind \in {"exists", "recent", "flags", "ok"}
      /\ r.kind = "ok" => r.data # None /\ r.data.name \notin {"MESSAGES", "RECENT"}
  BY DEF OfSelect
<1>2. /\ n.flags = IF r.kind = "flags" THEN m.flags \o Mapped(FlagOf, r.data) ELSE m.flags
      /\ n.permanent_flags = IF r.kind = "ok" /\ r.data.name = "PERMANENTFLAGS"
                             THEN m.permanent_flags \o Mapped(FlagOf, r.data.value)
                             ELSE m.permanent_flags
  BY <1>1, SelectSets
<1>3. /\ F[r] = IF r.kind = "flags" THEN Mapped(FlagOf, r.data) ELSE <<>>
      /\ G[r] = IF r.kind = "ok" /\ r.data.name = "PERMANENTFLAGS"
                THEN Mapped(FlagOf, r.data.value) ELSE <<>>
  BY Zenon DEF FlagsFn, PermanentFlagsFn, FlagsIn, PermanentFlagsIn
<1>4. PICK X : F \in [S -> Seq(X)] /\ G \in [S -> Seq(X)]
  BY FlagsAre
<1>5. m.flags = f /\ m.permanent_flags = g
  BY DEF Flagged
<1> HIDE DEF n, F, G
<1>6. /\ Through(F, Append(q, r)) = f \o F[r] /\ f \in Seq(X)
      /\ Through(G, Append(q, r)) = g \o G[r] /\ g \in Seq(X)
  BY <1>4, ThroughType, ThroughAppend
<1> HIDE DEF f, g
<1>7. f \o <<>> = f /\ g \o <<>> = g
  BY <1>6, ConcatEmptySeq
<1>8. n.flags = f \o F[r]
  BY <1>2, <1>3, <1>5, <1>7, Zenon
<1>9. n.permanent_flags = g \o G[r]
  BY <1>2, <1>3, <1>5, <1>7, Zenon
<1>10. QED
  BY <1>6, <1>8, <1>9 DEF Flagged, n, F, G

(* What the fold over a reply gives. *)
SelectReads(p, S, q) ==
    LET m == FoldLeft(OnSelectResponse, DefaultMailbox, q)
    IN FieldsRead(m, p, S, q) /\ Silent(p, S, q) /\ Flagged(m, S, q)

(* OnSelectResponse over a whole reply. *)
LEMMA SelectIs ==
  ASSUME NEW p, NEW S, OfSelect(S) PROVE \A q \in Seq(S) : SelectReads(p, S, q)
<1> DEFINE A == {q \in Seq(S) : SelectReads(p, S, q)}
           b == DefaultMailbox
<1>1. <<>> \in A
  <2>1. <<>> \in Seq(S) /\ Len(<<>>) = 0
    BY EmptySeq
  <2> HIDE DEF b
  <2>2. Walks("select", [i \in {0} |-> b], b, <<>>)
    BY <2>1 DEF Walks
  <2>3. FoldLeft(OnSelectResponse, b, <<>>) = [i \in {0} |-> b][Len(<<>>)]
    BY <2>1, <2>2, SelectWalks, Zenon
  <2>4. FoldLeft(OnSelectResponse, b, <<>>) = b
    BY <2>1, <2>3
  <2>5. FieldsRead(b, p, S, <<>>) /\ Silent(p, S, <<>>) /\ Flagged(b, S, <<>>)
    BY NoResponses DEF b
  <2>6. SelectReads(p, S, <<>>)
    BY <2>4, <2>5, Zenon DEF SelectReads, b
  <2>7. QED
    BY <2>1, <2>6
<1>2. ASSUME NEW q \in Seq(S), NEW r \in S, q \in A PROVE Append(q, r) \in A
  <2> DEFINE t == Append(q, r)
             m == FoldLeft(OnSelectResponse, b, q)
             n == FoldLeft(OnSelectResponse, b, t)
  <2>1. t \in Seq(S)
    BY AppendProperties
  <2>2. PICK g : Walks("select", g, b, t)
    BY <2>1, WalkExists, Zenon
  <2>3. Walks("select", g, b, q)
    BY <2>2, WalkAppend, Zenon
  <2>4. g[Len(t)] = Step("select", g[Len(q)], r)
    BY <2>2, WalkAppend
  <2>5. n = g[Len(t)]
    BY <2>1, <2>2, SelectWalks, Zenon
  <2>6. m = g[Len(q)]
    BY <2>3, SelectWalks, Zenon
  <2>7. Step("select", g[Len(q)], r) = OnSelectResponse(g[Len(q)], r)
    BY DEF Step
  <2>8. n = OnSelectResponse(m, r)
    BY <2>4, <2>5, <2>6, <2>7, Zenon
  <2>9. FieldsRead(m, p, S, q) /\ Silent(p, S, q) /\ Flagged(m, S, q)
    BY <1>2, Zenon DEF SelectReads
  <2> HIDE DEF m, n, b
  <2>10. DOMAIN m = Fields
    BY <2>9 DEF FieldsRead
  <2>11. FieldsRead(n, p, S, t) /\ Silent(p, S, t)
    BY <2>8, <2>9, ReadsOne
  <2>12. Flagged(n, S, t)
    BY <2>8, <2>9, <2>10, FlagsOne
  <2>13. SelectReads(p, S, t)
    BY <2>11, <2>12, Zenon DEF SelectReads, n, b
  <2>14. QED
    BY <2>1, <2>13
<1> HIDE DEF A
<1>3. Seq(S) \subseteq A
  BY <1>1, <1>2, SeqInductive
<1>4. QED
  BY <1>3 DEF A

(* The responses about one mailbox, read one after the other. *)
StatusFold(b, its) == FoldLeft(LAMBDA mb, s : OnStatusItems(mb, s.items), b, its)
About(p, D) == {s \in D : s.mailbox = p}

(* The responses to STATUS are read from the left. *)
LEMMA StatusFoldIs ==
  ASSUME NEW b, NEW D, NEW s \in Seq(D), NEW e \in D
  PROVE  /\ StatusFold(b, <<>>) = b
         /\ StatusFold(b, Append(s, e)) = OnStatusItems(StatusFold(b, s), e.items)
<1>1. StatusFold(b, <<>>) = b
  <2>1. <<>> \in Seq({}) /\ Len(<<>>) = 0
    BY EmptySeq
  <2>2. Walks("status", [i \in {0} |-> b], b, <<>>)
    BY <2>1 DEF Walks
  <2>3. StatusFold(b, <<>>) = [i \in {0} |-> b][Len(<<>>)]
    BY <2>1, <2>2, StatusWalks, Zenon DEF StatusFold
  <2>4. QED
    BY <2>1, <2>3
<1>2. StatusFold(b, Append(s, e)) = OnStatusItems(StatusFold(b, s), e.items)
  <2> DEFINE t == Append(s, e)
  <2>1. t \in Seq(D)
    BY AppendProperties
  <2>2. PICK g : Walks("status", g, b, t)
    BY <2>1, WalkExists, Zenon
  <2>3. Walks("status", g, b, s)
    BY <2>2, WalkAppend, Zenon
  <2>4. g[Len(t)] = Step("status", g[Len(s)], e)
    BY <2>2, WalkAppend
  <2>5. StatusFold(b, t) = g[Len(t)]
    BY <2>1, <2>2, StatusWalks, Zenon DEF StatusFold
  <2>6. StatusFold(b, s) = g[Len(s)]
    BY <2>3, StatusWalks, Zenon DEF StatusFold
  <2>7. Step("status", g[Len(s)], e) = OnStatusItems(g[Len(s)], e.items)
    BY DEF Step
  <2>8. QED
    BY <2>4, <2>5, <2>6, <2>7, Zenon
<1>3. QED
  BY <1>1, <1>2

(* parse_status keeps the responses about the mailbox asked about. *)
LEMMA AboutIs ==
  ASSUME NEW p, NEW D, NEW s \in Seq(D)
  PROVE  Those(s, LAMBDA x : x.mailbox = p) = Kept(D, About(p, D), s)
<1> DEFINE T == About(p, D)
           those == Those(s, LAMBDA x : x.mailbox = p)
           found == FlattenSeq([i \in DOMAIN s |-> IF s[i].mailbox = p THEN <<s[i]>> ELSE <<>>])
           k == Kept(D, T, s)
<1>1. those = found
  BY Zenon DEF Those
<1>2. DOMAIN s = 1..Len(s) /\ \A i \in DOMAIN s : s[i] \in D
  BY LenProperties
<1>3. [i \in DOMAIN s |-> IF s[i].mailbox = p THEN <<s[i]>> ELSE <<>>]
          = [i \in DOMAIN s |-> Keeps(D, T)[s[i]]]
  BY <1>2 DEF Keeps, About
<1> HIDE DEF T
<1>4. found = k
  BY <1>3 DEF Kept, Through, Image
<1> HIDE DEF those, found, k
<1>5. QED
  BY <1>1, <1>4 DEF those, k, T

(* The responses to STATUS. *)
OfStatus(S) == \A r \in S : r.kind = "status" /\ IsText(r.data.items)
AboutIn(p, S, q) == Kept(DataOf("status", S), About(p, DataOf("status", S)), All("status", q))
StatusReads(p, S, q) ==
    Gets(StatusFold(DefaultMailbox, AboutIn(p, S, q)), DefaultMailbox, ItemsIn(p, S, q))

(* One more response is read if it is about the mailbox, and only then. *)
LEMMA StatusOne ==
  ASSUME NEW p, NEW S, OfStatus(S), NEW q \in Seq(S), NEW r \in S, StatusReads(p, S, q)
  PROVE  StatusReads(p, S, Append(q, r))
<1> DEFINE D == DataOf("status", S)
           P == About(p, D)
           a == All("status", q)
           d == r.data
           its == AboutIn(p, S, q)
           more == AboutIn(p, S, Append(q, r))
           U == ItemsOver(S)
           i == ItemsIn(p, S, q)
           j == ItemsIn(p, S, Append(q, r))
           b == DefaultMailbox
           m == StatusFold(b, its)
           n == StatusFold(b, more)
<1>1. r.kind = "status" /\ IsText(d.items)
  BY DEF OfStatus
<1>2. d \in D /\ (d \in P <=> d.mailbox = p)
  BY <1>1 DEF DataOf, OfKind, About
<1>3. a \in Seq(D) /\ All("status", Append(q, r)) = Append(a, d)
  BY <1>1, AllType, AllAppend
<1>4. more = IF d \in P THEN Append(its, d) ELSE its
  <2> HIDE DEF D, P, a, d
  <2>1. Kept(D, P, Append(a, d)) = IF d \in P THEN Append(Kept(D, P, a), d) ELSE Kept(D, P, a)
    BY <1>2, <1>3, KeptAppend
  <2>2. QED
    BY <1>3, <2>1 DEF AboutIn, D, P, a
<1>5. its \in Seq(D)
  <2> HIDE DEF D, P, a
  <2>1. Kept(D, P, a) \in Seq(D \cap P)
    BY <1>3, KeptRange
  <2>2. Kept(D, P, a) \in Seq(D)
    BY <2>1, SeqMonotonic
  <2>3. QED
    BY <2>2 DEF AboutIn, D, P, a
<1>6. i \in Seq(U) /\ j = IF d.mailbox = p THEN i \o d.items ELSE i
  <2>1. \A e \in S : e.kind = "status" => IsText(e.data.items)
    BY DEF OfStatus
  <2>2. QED
    BY <1>1, <2>1, ItemsAppend, ZenonT(30)
<1>7. Gets(m, b, i)
  BY DEF StatusReads
<1>8. d.items \in Seq(U)
  <2> DEFINE t == d.items
             W == {ToSet(e.data.items) : e \in S}
             V == {e.data : e \in S}
  <2>1. t \in Seq(ToSet(t))
    BY <1>1 DEF IsText
  <2>2. ToSet(t) \in W
    OBVIOUS
  <2>3. U = V \cup (UNION W)
    BY DEF ItemsOver
  <2> HIDE DEF t, W, V, U
  <2>4. ToSet(t) \subseteq U
    BY <2>2, <2>3
  <2>5. t \in Seq(U)
    BY <2>1, <2>4, SeqMonotonic
  <2>6. QED
    BY <2>5 DEF t
<1> HIDE DEF D, P, a, d, its, more, U, i, j, b
<1>9. Gets(n, b, j)
  <2>1. CASE d.mailbox = p
    <3>1. n = OnStatusItems(m, d.items)
      <4>1. more = Append(its, d)
        BY <1>2, <1>4, <2>1
      <4>2. StatusFold(b, Append(its, d)) = OnStatusItems(StatusFold(b, its), d.items)
        BY <1>2, <1>5, StatusFoldIs
      <4>3. QED
        BY <4>1, <4>2
    <3> HIDE DEF m, n
    <3>2. DOMAIN m = Fields
      BY <1>7 DEF Gets
    <3>3. Gets(n, m, d.items)
      BY <1>8, <3>1, <3>2, StatusItems
    <3>4. Gets(n, b, i \o d.items)
      BY <1>6, <1>7, <1>8, <3>3, GetsMore
    <3>5. QED
      BY <1>6, <2>1, <3>4
  <2>2. CASE d.mailbox # p
    BY <1>2, <1>4, <1>6, <1>7, <2>2
  <2>3. QED
    BY <2>1, <2>2
<1>10. QED
  BY <1>9 DEF StatusReads, more, j, b

(* OnStatusItems over a whole reply. *)
LEMMA StatusIs ==
  ASSUME NEW p, NEW S, OfStatus(S) PROVE \A q \in Seq(S) : StatusReads(p, S, q)
<1> DEFINE A == {q \in Seq(S) : StatusReads(p, S, q)}
           b == DefaultMailbox
<1>1. <<>> \in A
  <2>1. <<>> \in Seq(S) /\ <<>> \in Seq({1}) /\ 1 \in {1}
    BY EmptySeq
  <2>2. AboutIn(p, S, <<>>) = <<>> /\ ItemsIn(p, S, <<>>) = <<>>
    BY AllEmpty, ThroughEmpty DEF AboutIn, Kept, ItemsIn
  <2>3. StatusFold(b, <<>>) = b
    BY <2>1, StatusFoldIs
  <2>4. DOMAIN b = Fields
    BY DefaultIs
  <2> HIDE DEF b
  <2>5. Gets(b, b, <<>>)
    BY <2>4, GetsNothing
  <2>6. StatusReads(p, S, <<>>)
    BY <2>2, <2>3, <2>5 DEF StatusReads, b
  <2>7. QED
    BY <2>1, <2>6
<1>2. ASSUME NEW q \in Seq(S), NEW r \in S, q \in A PROVE Append(q, r) \in A
  <2>1. Append(q, r) \in Seq(S)
    BY AppendProperties
  <2>2. StatusReads(p, S, q)
    BY <1>2
  <2>3. StatusReads(p, S, Append(q, r))
    BY <2>2, StatusOne
  <2>4. QED
    BY <2>1, <2>3
<1> HIDE DEF A
<1>3. Seq(S) \subseteq A
  BY <1>1, <1>2, SeqInductive
<1>4. QED
  BY <1>3 DEF A

(* SELECT and EXAMINE: the fields are the latest sent, the flags all. *)
LEMMA SelectHolds ==
  ASSUME ReplyInv, value = Parsed(code), "exists" \in Answers
  PROVE  MailboxIsAsSent(value.value)
<1>1. PICK S : reply \in Seq(S)
  BY DEF ReplyInv
<1> DEFINE T == {r \in S : r.kind \in Answers /\ r.data \in Data[r.kind]}
           p == call.mailbox
           m == FoldLeft(OnSelectResponse, DefaultMailbox, reply)
           only == code # None /\ code.name = "READ-ONLY"
           n == [m EXCEPT !.is_read_only = only]
<1>2. Answers = {"exists", "recent", "flags", "ok"}
  BY DEF Answers
<1>3. reply \in Seq(T)
  <2>1. \A r \in ToSet(reply) : r.kind \in Answers /\ r.data \in Data[r.kind]
    BY <1>2, AnswersOnly
  <2>2. \A i \in DOMAIN reply : reply[i] \in S
    BY <1>1, LenProperties
  <2>3. \A i \in DOMAIN reply : reply[i] \in T
    BY <2>1, <2>2 DEF ToSet
  <2> HIDE DEF T
  <2>4. QED
    BY <1>1, <2>3, SeqWithin
<1>4. OfSelect(T)
  <2>1. SUFFICES ASSUME NEW r \in T
                 PROVE  /\ r.kind \in {"exists", "recent", "flags", "ok"}
                        /\ r.kind = "ok" =>
                               r.data # None /\ r.data.name \notin {"MESSAGES", "RECENT"}
                        /\ r.kind = "ok" /\ r.data.name = "PERMANENTFLAGS" => IsText(r.data.value)
                        /\ r.kind = "flags" => IsText(r.data)
    BY DEF OfSelect
  <2>2. r.kind \in {"exists", "recent", "flags", "ok"} /\ r.data \in Data[r.kind]
    BY <1>2
  <2>3. \A f \in Data["flags"] : IsText(f)
    BY DataAssumption
  <2>4. \A c \in Data["ok"] : /\ c # None /\ c.name \notin {"MESSAGES", "RECENT"}
                              /\ c.name = "PERMANENTFLAGS" => IsText(c.value)
    BY DataAssumption
  <2>5. QED
    BY <2>2, <2>3, <2>4
<1> HIDE DEF T
<1>5. SelectReads(p, T, reply)
  BY <1>3, <1>4, SelectIs
<1>6. FieldsRead(m, p, T, reply) /\ Silent(p, T, reply) /\ Flagged(m, T, reply)
  BY <1>5, Zenon DEF SelectReads
<1>7. value.value = n
  <2>1. value = SelectedMailbox(reply, code)
    BY ReaderIs
  <2>2. SelectedMailbox(reply, code) = Value(n)
    BY Zenon DEF SelectedMailbox
  <2> HIDE DEF n
  <2>3. QED
    BY <2>1, <2>2 DEF Value
<1> HIDE DEF m, only
<1>8. DOMAIN m = Fields
  BY <1>6 DEF FieldsRead
<1>9. n.exists = m.exists /\ n.recent = m.recent /\ n.unseen = m.unseen
      /\ n.uid_next = m.uid_next /\ n.uid_validity = m.uid_validity
      /\ n.highest_mod_seq = m.highest_mod_seq
      /\ n.flags = m.flags /\ n.permanent_flags = m.permanent_flags /\ n.is_read_only = only
  BY <1>8 DEF Fields
<1> HIDE DEF n, p
<1>10. /\ \A name, d : LatestItem(name, d) = LatestOf(name, ItemsIn(p, T, reply), d)
       /\ \A kind, d : Latest(kind, d) = LatestIn(kind, reply, d)
  BY <1>3, ItemsAre DEF p
<1>11. LatestItem("MESSAGES", 0) = 0 /\ LatestItem("RECENT", 0) = 0
  BY <1>6, <1>10 DEF Silent
<1>12. n.exists = Latest("exists", LatestItem("MESSAGES", 0))
       /\ n.recent = Latest("recent", LatestItem("RECENT", 0))
  BY <1>6, <1>9, <1>10, <1>11 DEF FieldsRead
<1>13. /\ n.unseen = LatestItem("UNSEEN", None) /\ n.uid_next = LatestItem("UIDNEXT", None)
       /\ n.uid_validity = LatestItem("UIDVALIDITY", None)
       /\ n.highest_mod_seq = LatestItem("HIGHESTMODSEQ", None)
  BY <1>6, <1>9, <1>10 DEF FieldsRead
<1>14. /\ n.flags = FlattenSeq(Mapped(FlagsIn, reply))
       /\ n.permanent_flags = FlattenSeq(Mapped(PermanentFlagsIn, reply))
  BY <1>3, <1>6, <1>9, FlagsThrough DEF Flagged
<1>15. n.is_read_only <=>
           call.method \in {"select", "examine"} /\ code # None /\ code.name = "READ-ONLY"
  <2>1. call.method \in {"select", "examine"}
    BY DEF Answers
  <2>2. QED
    BY <1>9, <2>1 DEF only
<1>16. MailboxIsAsSent(n)
  BY <1>12, <1>13, <1>14, <1>15, Zenon DEF MailboxIsAsSent
<1>17. QED
  BY <1>7, <1>16

(* What gives nothing of any element gives nothing. *)
LEMMA NothingThrough ==
  ASSUME NEW S, NEW F \in [S -> {<<>>}], NEW q \in Seq(S)
  PROVE  Through(F, q) = <<>>
<1> DEFINE E == {}
<1>1. F \in [S -> Seq(E)]
  BY EmptySeq
<1> HIDE DEF E
<1>2. Through(F, q) \in Seq(E)
  BY <1>1, ThroughType
<1>3. \A i \in DOMAIN Through(F, q) : Through(F, q)[i] \in E
  BY <1>2, LenProperties
<1>4. ToSet(Through(F, q)) = {}
  BY <1>3 DEF ToSet, E
<1>5. QED
  BY <1>2, <1>4, EndsIn

(* STATUS: the fields are the latest sent about the mailbox. *)
LEMMA StatusHolds ==
  ASSUME ReplyInv, value = Parsed(code), value.ok, Answers = {"status"}
  PROVE  MailboxIsAsSent(value.value)
<1>1. PICK S : reply \in Seq(S)
  BY DEF ReplyInv
<1> DEFINE T == {r \in S : r.kind \in Answers /\ r.data \in Data[r.kind]}
           p == call.mailbox
           a == All("status", reply)
           its == Those(a, LAMBDA s : s.mailbox = p)
           m == StatusFold(DefaultMailbox, its)
<1>2. \A r \in ToSet(reply) : r.kind = "status" /\ r.data \in Data["status"]
  BY AnswersOnly
<1>3. reply \in Seq(T)
  <2>1. \A i \in DOMAIN reply : reply[i] \in S
    BY <1>1, LenProperties
  <2>2. \A i \in DOMAIN reply : reply[i] \in T
    BY <1>2, <2>1 DEF ToSet
  <2> HIDE DEF T
  <2>3. QED
    BY <1>1, <2>2, SeqWithin
<1>4. OfStatus(T)
  <2>1. \A s \in Data["status"] : IsText(s.items)
    BY DataAssumption
  <2>2. QED
    BY <2>1 DEF OfStatus
<1> HIDE DEF T
<1>5. its = AboutIn(p, T, reply)
  <2>1. a \in Seq(DataOf("status", T))
    BY <1>3, AllType
  <2>2. its = Kept(DataOf("status", T), About(p, DataOf("status", T)), a)
    BY <2>1, AboutIs, Zenon
  <2> HIDE DEF its
  <2>3. QED
    BY <2>2 DEF AboutIn
<1>6. StatusReads(p, T, reply)
  BY <1>3, <1>4, StatusIs
<1>7. Gets(m, DefaultMailbox, ItemsIn(p, T, reply))
  <2> HIDE DEF its
  <2>1. QED
    BY <1>5, <1>6 DEF StatusReads
<1>8. value.value = m
  <2>1. value = StatusMailbox(p, reply)
    BY ReaderIs
  <2>2. StatusMailbox(p, reply) = IF its = <<>> THEN Missing ELSE Value(m)
    BY Zenon DEF StatusMailbox, StatusFold
  <2> HIDE DEF its, m
  <2>3. QED
    BY <2>1, <2>2 DEF Value, Missing
<1> HIDE DEF m, p, its
<1>9. /\ \A name, d : LatestItem(name, d) = LatestOf(name, ItemsIn(p, T, reply), d)
      /\ \A kind, d : Latest(kind, d) = LatestIn(kind, reply, d)
  BY <1>3, ItemsAre DEF p
<1>10. All("exists", reply) = <<>> /\ All("recent", reply) = <<>>
  <2>1. ASSUME NEW kind, kind # "status" PROVE All(kind, reply) = <<>>
    <3>1. ToSet(All(kind, reply)) = {}
      BY <1>2, <2>1, DataSent
    <3>2. All(kind, reply) \in Seq(DataOf(kind, S))
      BY <1>1, AllType
    <3>3. QED
      BY <3>1, <3>2, EndsIn
  <2>2. QED
    BY <2>1
<1>11. \A d : LatestIn("exists", reply, d) = d /\ LatestIn("recent", reply, d) = d
  BY <1>10 DEF LatestIn
<1>12. /\ m.exists = Latest("exists", LatestItem("MESSAGES", 0))
       /\ m.recent = Latest("recent", LatestItem("RECENT", 0))
       /\ m.unseen = LatestItem("UNSEEN", None) /\ m.uid_next = LatestItem("UIDNEXT", None)
       /\ m.uid_validity = LatestItem("UIDVALIDITY", None)
       /\ m.highest_mod_seq = LatestItem("HIGHESTMODSEQ", None)
       /\ m.flags = <<>> /\ m.permanent_flags = <<>> /\ m.is_read_only = FALSE
  BY <1>7, <1>9, <1>11, DefaultIs DEF Gets
<1>13. /\ FlattenSeq(Mapped(FlagsIn, reply)) = <<>>
       /\ FlattenSeq(Mapped(PermanentFlagsIn, reply)) = <<>>
  <2>1. \A r \in T : r.kind = "status"
    BY DEF OfStatus, T
  <2>2. \A r \in T : FlagsFn(T)[r] = <<>> /\ PermanentFlagsFn(T)[r] = <<>>
    BY <2>1 DEF FlagsFn, PermanentFlagsFn, FlagsIn, PermanentFlagsIn
  <2>3. FlagsFn(T) \in [T -> {<<>>}] /\ PermanentFlagsFn(T) \in [T -> {<<>>}]
    BY <2>2 DEF FlagsFn, PermanentFlagsFn
  <2>4. Through(FlagsFn(T), reply) = <<>> /\ Through(PermanentFlagsFn(T), reply) = <<>>
    BY <1>3, <2>3, NothingThrough
  <2>5. QED
    BY <1>3, <2>4, FlagsThrough
<1>14. ~(call.method \in {"select", "examine"})
  BY DEF Answers
<1>15. MailboxIsAsSent(m)
  BY <1>12, <1>13, <1>14, Zenon DEF MailboxIsAsSent
<1>16. QED
  BY <1>8, <1>15

(* However the call returned, its value is one of those above, or has
   nothing to read. *)
LEMMA ValueHolds == ReplyInv => ValueIsAsSent
<1> SUFFICES ASSUME ReplyInv, phase = "returned", value.ok PROVE ValueIsAsSent
  BY DEF ValueIsAsSent
<1> DEFINE fetch == /\ Len(value.value) = Len(reply)
                    /\ \A i \in DOMAIN reply :
                           /\ value.value[i].message = reply[i].data.message
                           /\ FetchIsAsSent(value.value[i], reply[i].data.attrs)
<1>1. Returned
  BY DEF ReplyInv
<1>2. Answers = {"fetch"} => fetch
  <2>1. SUFFICES ASSUME Answers = {"fetch"} PROVE fetch
    OBVIOUS
  <2>2. call.method # "logout"
    BY <2>1 DEF Answers
  <2>3. value = Fetches(reply)
    BY <1>1, <2>1, <2>2, ReaderIs DEF Returned
  <2>4. QED
    BY <2>1, <2>3, FetchesHold
<1>3. Answers # {} /\ Answers # {"fetch"} => value = Parsed(code)
  <2>1. call.method \in {"fetch", "uid_fetch"} => Answers = {"fetch"}
    BY DEF Answers
  <2>2. call.method = "logout" => Answers = {}
    BY DEF Answers
  <2>3. QED
    BY <1>1, <2>1, <2>2 DEF Returned
<1>4. "expunge" \in Answers => DeletedIsAsSent(value.value)
  BY <1>3, DeletedHolds
<1>5. "exists" \in Answers => MailboxIsAsSent(value.value)
  BY <1>3, SelectHolds
<1>6. Answers = {"status"} => MailboxIsAsSent(value.value)
  BY <1>3, StatusHolds
<1>7. Answers = {"capability"} => CapabilitiesAreAsSent(value.value)
  BY <1>3, CapabilitiesHold
<1>8. call.method \in {"sort", "uid_sort"} => value.value = FlattenSeq(All("ids", reply))
  BY <1>3, ReaderIs DEF IdSeq, Value
<1>9. /\ Answers = {"acl"} => AclIsAsSent(value.value.acls, reply[1].data.acls)
      /\ Answers = {"listRights"} =>
             /\ RightsAreAsSent(value.value.required, reply[1].data.required)
             /\ RightsAreAsSent(value.value.optional, reply[1].data.optional)
      /\ Answers = {"myRights"} => RightsAreAsSent(value.value.rights, reply[1].data.rights)
  BY <1>3, RightsHold
<1> HIDE DEF fetch
<1>10. /\ "expunge" \in Answers => Answers = {"expunge", "vanished"}
       /\ "exists" \in Answers => Answers = {"exists", "recent", "flags", "ok"}
       /\ call.method \in {"sort", "uid_sort"} => Answers = {"ids"}
  BY DEF Answers
<1>11. CASE Answers = {"fetch"}
  BY <1>2, <1>10, <1>11 DEF ValueIsAsSent, fetch
<1>12. CASE "expunge" \in Answers
  BY <1>4, <1>10, <1>12 DEF ValueIsAsSent
<1>13. CASE "exists" \in Answers
  BY <1>5, <1>10, <1>13 DEF ValueIsAsSent
<1>14. CASE Answers = {"status"}
  BY <1>6, <1>10, <1>14 DEF ValueIsAsSent
<1>15. CASE Answers = {"capability"}
  BY <1>7, <1>10, <1>15 DEF ValueIsAsSent
<1>16. CASE call.method \in {"sort", "uid_sort"}
  BY <1>8, <1>10, <1>16 DEF ValueIsAsSent
<1>17. CASE Answers \in {{"acl"}, {"listRights"}, {"myRights"}}
  BY <1>9, <1>10, <1>17 DEF ValueIsAsSent
<1>18. CASE ~(\/ Answers \in {{"fetch"}, {"status"}, {"capability"}, {"acl"}, {"listRights"},
                             {"myRights"}}
              \/ "expunge" \in Answers \/ "exists" \in Answers
              \/ call.method \in {"sort", "uid_sort"})
  BY <1>18 DEF ValueIsAsSent
<1>19. QED
  BY <1>11, <1>12, <1>13, <1>14, <1>15, <1>16, <1>17, <1>18

(* What the caller reads from the value is what the server put into its    *)
(* reply: the number and attributes of each fetch; the messages removed,   *)
(* in order and as often as sent; every field of a mailbox; capabilities   *)
(* and rights; the numbers of a SORT in their order (parse.rs, types/ and  *)
(* extensions/), for replies of any length.                                *)
THEOREM CallsGiveWhatWasSent == Spec => []ValueIsAsSent
  BY ReplyInit, ReplyStep, ValueHolds, PTL DEF Spec
=============================================================================
