----------------------------- MODULE Text_proofs -----------------------------
(***************************************************************************)
(* Proofs about texts: what a cookie is cut into and what of it survives,  *)
(* and what the tags of a template are replaced by.                        *)
(***************************************************************************)
EXTENDS HttpCookie, Template, SequenceTheorems, FiniteSetTheorems, WellFoundedInduction,
        NaturalsInduction, TLAPS

-----------------------------------------------------------------------------
(* Sequences, whatever they are made of. *)

IsSeq(s) == s \in Seq(ToSet(s))

LEMMA NaturalsFollow ==
  ASSUME NEW T, 0 \in T, \A n \in Nat : n \in T => n + 1 \in T
  PROVE  Nat \subseteq T
<1> DEFINE R == {p \in Nat \X Nat : p[1] < p[2]}
           U == Nat \ T
<1>1. SUFFICES ASSUME U # {} PROVE FALSE
  OBVIOUS
<1>2. IsWellFoundedOn(R, Nat)
  BY NatLessThanWellFounded DEF OpToRel
<1>3. PICK x \in U : \A y \in U : ~ (<<y, x>> \in R)
  <2> HIDE DEF R
  <2>1. U \subseteq Nat
    OBVIOUS
  <2> HIDE DEF U
  <2> QED
    BY <1>1, <1>2, <2>1, WFMin
<1>4. x \in Nat /\ x # 0
  OBVIOUS
<1>5. x - 1 \in Nat /\ x - 1 < x /\ (x - 1) + 1 = x
  BY <1>4
<1>6. x - 1 \notin U
  BY <1>3, <1>4, <1>5
<1>7. x \in T
  BY <1>5, <1>6
<1> QED
  BY <1>7

LEMMA IsSeqOf ==
  ASSUME NEW S, NEW s \in Seq(S)
  PROVE  IsSeq(s)
<1>1. /\ Len(s) \in Nat /\ DOMAIN s = 1 .. Len(s)
      /\ s = [i \in 1 .. Len(s) |-> s[i]]
  BY LenProperties
<1>2. \A i \in 1 .. Len(s) : s[i] \in ToSet(s)
  BY <1>1 DEF ToSet
<1> DEFINE T == ToSet(s)
<1> HIDE DEF T
<1>3. s \in [1 .. Len(s) -> T]
  BY <1>1, <1>2 DEF T
<1>4. s \in Seq(T)
  BY <1>1, <1>3
<1> QED
  BY <1>4 DEF IsSeq, T

LEMMA EmptyIsSeq == IsSeq(<< >>)
<1>1. << >> \in Seq({})
  BY EmptySeq
<1> QED
  BY <1>1, IsSeqOf

LEMMA SeqIs ==
  ASSUME NEW s, IsSeq(s)
  PROVE  /\ Len(s) \in Nat /\ DOMAIN s = 1 .. Len(s)
         /\ s = << >> <=> Len(s) = 0
<1> DEFINE T == ToSet(s)
<1>1. s \in Seq(T)
  BY DEF IsSeq
<1> HIDE DEF T
<1> QED
  BY <1>1, LenProperties, EmptySeq

LEMMA JoinOf ==
  ASSUME NEW s, NEW t, IsSeq(s), IsSeq(t)
  PROVE  /\ IsSeq(s \o t) /\ Len(s \o t) = Len(s) + Len(t)
         /\ \A i \in 1 .. Len(s) : (s \o t)[i] = s[i]
         /\ \A i \in 1 .. Len(t) : (s \o t)[Len(s) + i] = t[i]
<1> DEFINE T == ToSet(s) \cup ToSet(t)
<1>1. s \in Seq(ToSet(s)) /\ t \in Seq(ToSet(t))
  BY DEF IsSeq
<1>2. s \in Seq(T) /\ t \in Seq(T)
  BY <1>1, SeqMonotonic
<1> HIDE DEF T
<1>3. /\ s \o t \in Seq(T) /\ Len(s \o t) = Len(s) + Len(t)
      /\ \A i \in 1 .. Len(s) + Len(t) :
           (s \o t)[i] = IF i <= Len(s) THEN s[i] ELSE t[i - Len(s)]
  BY <1>2, ConcatProperties
<1>4. Len(s) \in Nat /\ Len(t) \in Nat
  BY SeqIs
<1>5. \A i \in 1 .. Len(s) : i \in 1 .. Len(s) + Len(t) /\ i <= Len(s)
  BY <1>4
<1>6. \A i \in 1 .. Len(t) : /\ Len(s) + i \in 1 .. Len(s) + Len(t)
                             /\ ~ (Len(s) + i <= Len(s)) /\ (Len(s) + i) - Len(s) = i
  BY <1>4
<1> QED
  BY <1>3, <1>5, <1>6, IsSeqOf

LEMMA JoinAssociates ==
  ASSUME NEW a, NEW b, NEW d, IsSeq(a), IsSeq(b), IsSeq(d)
  PROVE  (a \o b) \o d = a \o (b \o d)
<1> DEFINE T == ToSet(a) \cup ToSet(b) \cup ToSet(d)
<1>1. a \in Seq(ToSet(a)) /\ b \in Seq(ToSet(b)) /\ d \in Seq(ToSet(d))
  BY DEF IsSeq
<1>2. a \in Seq(T) /\ b \in Seq(T) /\ d \in Seq(T)
  BY <1>1, SeqMonotonic
<1> HIDE DEF T
<1> QED
  BY <1>2, ConcatAssociative

LEMMA JoinNothing ==
  ASSUME NEW s, IsSeq(s)
  PROVE  s \o << >> = s /\ << >> \o s = s /\ IsSeq(<< >>)
<1> DEFINE T == ToSet(s)
<1>1. s \in Seq(T)
  BY DEF IsSeq
<1> HIDE DEF T
<1>2. IsSeq(<< >>)
  <2>1. << >> \in Seq(T)
    BY EmptySeq
  <2> QED
    BY <2>1, IsSeqOf
<1>3. s \o << >> = s /\ << >> \o s = s
  BY <1>1, ConcatEmptySeq
<1> QED
  BY <1>2, <1>3

LEMMA AppendOf ==
  ASSUME NEW s, NEW x, IsSeq(s)
  PROVE  /\ IsSeq(Append(s, x)) /\ Len(Append(s, x)) = Len(s) + 1
         /\ \A i \in 1 .. Len(s) : Append(s, x)[i] = s[i]
         /\ Append(s, x)[Len(s) + 1] = x
         /\ IsSeq(<<x>>) /\ Append(s, x) = s \o <<x>>
<1> DEFINE T == ToSet(s) \cup {x}
<1>1. s \in Seq(ToSet(s))
  BY DEF IsSeq
<1>2. s \in Seq(T) /\ x \in T
  BY <1>1, SeqMonotonic
<1> HIDE DEF T
<1>3. <<x>> \in Seq(T)
  BY <1>2
<1>4. /\ Append(s, x) \in Seq(T) /\ Len(Append(s, x)) = Len(s) + 1
      /\ \A i \in 1 .. Len(s) : Append(s, x)[i] = s[i]
      /\ Append(s, x)[Len(s) + 1] = x
  BY <1>2, AppendProperties
<1> QED
  BY <1>2, <1>3, <1>4, IsSeqOf, AppendIsConcat

LEMMA SeqsEqual ==
  ASSUME NEW s, NEW t, IsSeq(s), IsSeq(t), Len(s) = Len(t), \A i \in 1 .. Len(s) : s[i] = t[i]
  PROVE  s = t
<1> DEFINE T == ToSet(s) \cup ToSet(t)
<1>1. s \in Seq(ToSet(s)) /\ t \in Seq(ToSet(t))
  BY DEF IsSeq
<1>2. s \in Seq(T) /\ t \in Seq(T)
  BY <1>1, SeqMonotonic
<1> HIDE DEF T
<1> QED
  BY <1>2, SeqEqual

(* A function on the first n numbers is a sequence. *)
LEMMA FunctionIsSeq ==
  ASSUME NEW n \in Nat, NEW f, f = [i \in 1 .. n |-> f[i]]
  PROVE  IsSeq(f) /\ Len(f) = n
<1> DEFINE T == {f[i] : i \in 1 .. n}
<1>1. \A i \in 1 .. n : f[i] \in T
  OBVIOUS
<1> HIDE DEF T
<1>2. [i \in 1 .. n |-> f[i]] \in Seq(T)
  BY <1>1, IsASeq
<1>3. f \in Seq(T)
  BY <1>2
<1>4. Len(f) = n
  BY <1>3
<1> QED
  BY <1>3, <1>4, IsSeqOf

-----------------------------------------------------------------------------
(* Numbers in their order: a set that gets a number above all it has.      *)

Below(S, i) == {j \in S : j < i}

(* Each place has its number. *)
Ordered(S) ==
  /\ IsFiniteSet(S) /\ S \subseteq Int
  /\ \A k \in 1 .. Cardinality(S) :
       /\ InOrder(S)[k] \in S
       /\ Cardinality(Below(S, InOrder(S)[k])) = k - 1

LEMMA BelowIs ==
  ASSUME NEW S, IsFiniteSet(S), NEW i
  PROVE  /\ IsFiniteSet(Below(S, i)) /\ Cardinality(Below(S, i)) \in Nat
         /\ Cardinality(Below(S, i)) <= Cardinality(S) /\ Cardinality(S) \in Nat
<1>1. Below(S, i) \subseteq S
  BY DEF Below
<1> QED
  BY <1>1, FS_Subset, FS_CardinalityType

LEMMA FewerBelow ==
  ASSUME NEW S, IsFiniteSet(S), S \subseteq Int, NEW i \in S, NEW l \in S, i < l
  PROVE  Cardinality(Below(S, i)) < Cardinality(Below(S, l))
<1> DEFINE T == Below(S, i) \cup {i}
<1>1. i \in Int /\ l \in Int /\ S \subseteq Int
  OBVIOUS
<1>2. i \notin Below(S, i) /\ T \subseteq Below(S, l)
  <2>1. ~ (i < i)
    BY <1>1
  <2>2. ASSUME NEW j \in T PROVE j \in S /\ j < l
    <3>1. j \in S /\ (j < i \/ j = i)
      BY DEF Below
    <3>2. j \in Int
      BY <3>1
    <3> QED
      BY <1>1, <3>1, <3>2
  <2> QED
    BY <2>1, <2>2 DEF Below
<1>3. /\ IsFiniteSet(Below(S, i)) /\ Cardinality(Below(S, i)) \in Nat
      /\ IsFiniteSet(Below(S, l)) /\ Cardinality(Below(S, l)) \in Nat
  BY BelowIs
<1>4. IsFiniteSet(T) /\ Cardinality(T) = Cardinality(Below(S, i)) + 1
  BY <1>2, <1>3, FS_AddElement
<1> HIDE DEF T
<1>5. Cardinality(T) <= Cardinality(Below(S, l))
  BY <1>2, <1>3, FS_Subset
<1> QED
  BY <1>3, <1>4, <1>5

LEMMA PlaceUnique ==
  ASSUME NEW S, IsFiniteSet(S), S \subseteq Int, NEW i \in S, NEW l \in S,
         Cardinality(Below(S, i)) = Cardinality(Below(S, l))
  PROVE  i = l
<1>1. i \in Int /\ l \in Int
  OBVIOUS
<1>2. Cardinality(Below(S, i)) \in Nat /\ Cardinality(Below(S, l)) \in Nat
  BY BelowIs
<1>3. ASSUME i < l PROVE FALSE
  <2>1. Cardinality(Below(S, i)) < Cardinality(Below(S, l))
    BY <1>3, FewerBelow
  <2> QED
    BY <1>2, <2>1
<1>4. ASSUME l < i PROVE FALSE
  <2>1. Cardinality(Below(S, l)) < Cardinality(Below(S, i))
    BY <1>4, FewerBelow
  <2> QED
    BY <1>2, <2>1
<1> QED
  BY <1>1, <1>3, <1>4

LEMMA InOrderAt ==
  ASSUME NEW S, IsFiniteSet(S), S \subseteq Int, NEW k \in 1 .. Cardinality(S),
         NEW i \in S, Cardinality(Below(S, i)) = k - 1
  PROVE  InOrder(S)[k] = i
<1> DEFINE y == CHOOSE l \in S : Cardinality({j \in S : j < l}) = k - 1
<1>1. Cardinality({j \in S : j < i}) = k - 1
  BY DEF Below
<1>2. y \in S /\ Cardinality({j \in S : j < y}) = k - 1
  BY <1>1
<1>3. InOrder(S)[k] = y
  BY DEF InOrder
<1> HIDE DEF y
<1>4. Cardinality(Below(S, y)) = k - 1
  BY <1>2 DEF Below
<1> QED
  BY <1>2, <1>3, <1>4, PlaceUnique

LEMMA EmptyInOrder == Ordered({}) /\ Cardinality({}) = 0
BY FS_EmptySet DEF Ordered

LEMMA OneMoreInOrder ==
  ASSUME NEW S, Ordered(S), NEW x \in Int, \A i \in S : i < x
  PROVE  /\ Ordered(S \cup {x}) /\ Cardinality(S) \in Nat
         /\ Cardinality(S \cup {x}) = Cardinality(S) + 1
         /\ \A k \in 1 .. Cardinality(S) : InOrder(S \cup {x})[k] = InOrder(S)[k]
         /\ InOrder(S \cup {x})[Cardinality(S) + 1] = x
<1> DEFINE T == S \cup {x}
           n == Cardinality(S)
<1>1. IsFiniteSet(S) /\ S \subseteq Int /\ x \notin S
  BY DEF Ordered
<1>2. IsFiniteSet(T) /\ Cardinality(T) = n + 1 /\ n \in Nat /\ T \subseteq Int
  BY <1>1, FS_AddElement, FS_CardinalityType
<1>3. \A i \in S : Below(T, i) = Below(S, i)
  BY <1>1 DEF Below
<1>4. Below(T, x) = S
  <2>1. ~ (x < x)
    OBVIOUS
  <2> QED
    BY <2>1 DEF Below
<1>5. x \in T /\ S \subseteq T
  OBVIOUS
<1> HIDE DEF T
<1>6. ASSUME NEW k \in 1 .. n
      PROVE  InOrder(T)[k] = InOrder(S)[k] /\ InOrder(S)[k] \in S
             /\ Cardinality(Below(T, InOrder(S)[k])) = k - 1
  <2>1. InOrder(S)[k] \in S /\ Cardinality(Below(S, InOrder(S)[k])) = k - 1
    BY DEF Ordered
  <2>2. Cardinality(Below(T, InOrder(S)[k])) = k - 1
    BY <1>3, <2>1
  <2>3. k \in 1 .. Cardinality(T)
    BY <1>2
  <2> QED
    BY <1>2, <1>5, <2>1, <2>2, <2>3, InOrderAt
<1>7. InOrder(T)[n + 1] = x /\ Cardinality(Below(T, x)) = (n + 1) - 1
  <2>1. n + 1 \in 1 .. Cardinality(T) /\ Cardinality(Below(T, x)) = (n + 1) - 1
    BY <1>2, <1>4
  <2> QED
    BY <1>2, <1>5, <2>1, InOrderAt
<1>8. ASSUME NEW k \in 1 .. Cardinality(T)
      PROVE  InOrder(T)[k] \in T /\ Cardinality(Below(T, InOrder(T)[k])) = k - 1
  <2>1. k \in 1 .. n \/ k = n + 1
    BY <1>2
  <2>2. CASE k \in 1 .. n
    BY <1>5, <1>6, <2>2
  <2>3. CASE k = n + 1
    BY <1>5, <1>7, <2>3
  <2> QED
    BY <2>1, <2>2, <2>3
<1>9. Ordered(T)
  BY <1>2, <1>8 DEF Ordered
<1> QED
  BY <1>2, <1>6, <1>7, <1>9 DEF T

(* What a sequence has at no places, at one more, and at the same.         *)
LEMMA AtIsSeq ==
  ASSUME NEW s, NEW S, IsFiniteSet(S)
  PROVE  IsSeq(AtPlaces(s, S)) /\ Len(AtPlaces(s, S)) = Cardinality(S)
<1>1. Cardinality(S) \in Nat
  BY FS_CardinalityType
<1>2. AtPlaces(s, S) = [k \in 1 .. Cardinality(S) |-> AtPlaces(s, S)[k]]
  BY DEF AtPlaces
<1> QED
  BY <1>1, <1>2, FunctionIsSeq

LEMMA AtNone ==
  ASSUME NEW s
  PROVE  AtPlaces(s, {}) = << >>
<1>1. IsSeq(AtPlaces(s, {})) /\ Len(AtPlaces(s, {})) = 0
  BY AtIsSeq, FS_EmptySet
<1> QED
  BY <1>1, SeqIs

LEMMA AtOneMore ==
  ASSUME NEW s, NEW S, Ordered(S), NEW x \in Int, \A i \in S : i < x
  PROVE  AtPlaces(s, S \cup {x}) = Append(AtPlaces(s, S), s[x])
<1> DEFINE T == S \cup {x}
           n == Cardinality(S)
<1>1. /\ Ordered(T) /\ n \in Nat /\ Cardinality(T) = n + 1
      /\ \A k \in 1 .. n : InOrder(T)[k] = InOrder(S)[k]
      /\ InOrder(T)[n + 1] = x
  BY OneMoreInOrder
<1>2. /\ IsSeq(AtPlaces(s, T)) /\ Len(AtPlaces(s, T)) = n + 1
      /\ IsSeq(AtPlaces(s, S)) /\ Len(AtPlaces(s, S)) = n
  BY <1>1, AtIsSeq DEF Ordered
<1> DEFINE u == Append(AtPlaces(s, S), s[x])
<1>3. /\ IsSeq(u) /\ Len(u) = n + 1 /\ u[n + 1] = s[x]
      /\ \A k \in 1 .. n : u[k] = AtPlaces(s, S)[k]
  <2> DEFINE a == AtPlaces(s, S)
             b == s[x]
  <2>1. IsSeq(a) /\ Len(a) = n
    BY <1>2
  <2> HIDE DEF a, b, n
  <2>2. /\ IsSeq(Append(a, b)) /\ Len(Append(a, b)) = n + 1
        /\ Append(a, b)[n + 1] = b /\ \A k \in 1 .. n : Append(a, b)[k] = a[k]
    BY ZenonT(40), <2>1, AppendOf
  <2> QED
    BY <2>2 DEF a, b, n
<1> HIDE DEF T, u
<1>4. ASSUME NEW k \in 1 .. n + 1 PROVE AtPlaces(s, T)[k] = u[k]
  <2>1. AtPlaces(s, T)[k] = s[InOrder(T)[k]]
    BY <1>1 DEF AtPlaces
  <2>2. CASE k = n + 1
    BY <1>1, <1>3, <2>1, <2>2
  <2>3. CASE k # n + 1
    <3>1. k \in 1 .. n
      BY <1>1, <2>3
    <3>2. AtPlaces(s, S)[k] = s[InOrder(S)[k]]
      BY <3>1 DEF AtPlaces
    <3> QED
      BY <1>1, <1>3, <2>1, <3>1, <3>2
  <2> QED
    BY <2>2, <2>3
<1>5. AtPlaces(s, T) = u
  BY <1>2, <1>3, <1>4, SeqsEqual
<1> QED
  BY <1>5 DEF T, u

LEMMA AtSame ==
  ASSUME NEW s, NEW t, NEW S, Ordered(S), \A i \in S : s[i] = t[i]
  PROVE  AtPlaces(s, S) = AtPlaces(t, S)
<1>1. \A k \in 1 .. Cardinality(S) : s[InOrder(S)[k]] = t[InOrder(S)[k]]
  BY DEF Ordered
<1> QED
  BY <1>1 DEF AtPlaces

-----------------------------------------------------------------------------
(* Sequences of sequences, one after the other. *)

Flattened(seqs, n, f) == f = [i \in 1 .. n |-> IF i = 1 THEN seqs[i] ELSE f[i - 1] \o seqs[i]]

LEMMA FlattenedExists ==
  ASSUME NEW seqs, NEW n \in Nat
  PROVE  \E f : Flattened(seqs, n, f)
<1> DEFINE T == {k \in Nat : \E f : Flattened(seqs, k, f)}
<1>1. 0 \in T
  <2> DEFINE f == [i \in 1 .. 0 |-> seqs[i]]
  <2>1. f = [i \in 1 .. 0 |-> IF i = 1 THEN seqs[i] ELSE f[i - 1] \o seqs[i]]
    OBVIOUS
  <2> QED
    BY <2>1 DEF Flattened
<1>2. ASSUME NEW k \in Nat, k \in T PROVE k + 1 \in T
  <2>1. PICK f : Flattened(seqs, k, f)
    BY <1>2
  <2> DEFINE g == [i \in 1 .. (k + 1) |-> IF i = 1 THEN seqs[i] ELSE f[i - 1] \o seqs[i]]
  <2>2. \A i \in 1 .. k : g[i] = f[i]
    <3>1. f = [i \in 1 .. k |-> IF i = 1 THEN seqs[i] ELSE f[i - 1] \o seqs[i]]
      BY <2>1 DEF Flattened
    <3>2. \A i \in 1 .. k : f[i] = IF i = 1 THEN seqs[i] ELSE f[i - 1] \o seqs[i]
      BY <3>1
    <3>3. \A i \in 1 .. k : i \in 1 .. (k + 1)
      OBVIOUS
    <3> QED
      BY <3>2, <3>3
  <2>3. \A i \in 1 .. (k + 1) : i # 1 => g[i - 1] = f[i - 1]
    <3>1. \A i \in 1 .. (k + 1) : i # 1 => i - 1 \in 1 .. k
      OBVIOUS
    <3> HIDE DEF g
    <3> QED
      BY <2>2, <3>1
  <2> DEFINE h == [i \in 1 .. (k + 1) |-> IF i = 1 THEN seqs[i] ELSE g[i - 1] \o seqs[i]]
  <2>4. \A i \in 1 .. (k + 1) : g[i] = h[i]
    BY <2>3
  <2>5. g = h
    BY <2>4
  <2>6. Flattened(seqs, k + 1, g)
    BY <2>5 DEF Flattened
  <2> QED
    BY <2>6
<1> HIDE DEF T
<1>3. Nat \subseteq T
  BY <1>1, <1>2, NaturalsFollow
<1> QED
  BY <1>3 DEF T

LEMMA FlattenSteps ==
  ASSUME NEW seqs, Len(seqs) \in Nat, Len(seqs) # 0
  PROVE  \E f : /\ FlattenSeq(seqs) = f[Len(seqs)] /\ f[1] = seqs[1]
                /\ \A k \in 1 .. Len(seqs) : k # 1 => f[k] = f[k - 1] \o seqs[k]
<1> DEFINE n == Len(seqs)
           f == CHOOSE f : Flattened(seqs, n, f)
<1>1. Flattened(seqs, n, f)
  BY FlattenedExists
<1>2. FlattenSeq(seqs) = f[n]
  BY DEF FlattenSeq, Flattened
<1> HIDE DEF f, n
<1>3. f = [i \in 1 .. n |-> IF i = 1 THEN seqs[i] ELSE f[i - 1] \o seqs[i]]
  BY <1>1 DEF Flattened
<1>4. \A i \in 1 .. n : f[i] = IF i = 1 THEN seqs[i] ELSE f[i - 1] \o seqs[i]
  BY <1>3
<1>5. 1 \in 1 .. n
  BY DEF n
<1> QED
  BY <1>2, <1>4, <1>5 DEF n

LEMMA FlattenIsASeq ==
  ASSUME NEW S, NEW seqs \in Seq(Seq(S))
  PROVE  FlattenSeq(seqs) \in Seq(S)
<1> DEFINE n == Len(seqs)
<1>1. n \in Nat /\ \A j \in 1 .. n : seqs[j] \in Seq(S)
  OBVIOUS
<1>2. CASE n = 0
  <2>1. seqs = << >> /\ FlattenSeq(seqs) = << >>
    BY <1>2 DEF FlattenSeq
  <2> QED
    BY <2>1, EmptySeq
<1>3. CASE n # 0
  <2>1. PICK f : /\ FlattenSeq(seqs) = f[n] /\ f[1] = seqs[1]
                 /\ \A k \in 1 .. n : k # 1 => f[k] = f[k - 1] \o seqs[k]
    BY <1>1, <1>3, FlattenSteps
  <2> HIDE DEF n
  <2> DEFINE T == {k \in Nat : k + 1 \in 1 .. n => f[k + 1] \in Seq(S)}
  <2>2. 0 \in T
    <3>1. 1 \in 1 .. n
      BY <1>1, <1>3
    <3> QED
      BY <1>1, <2>1, <3>1
  <2>3. ASSUME NEW k \in Nat, k \in T PROVE k + 1 \in T
    <3> SUFFICES ASSUME (k + 1) + 1 \in 1 .. n PROVE f[(k + 1) + 1] \in Seq(S)
      OBVIOUS
    <3>1. k + 1 \in 1 .. n /\ (k + 1) + 1 # 1 /\ ((k + 1) + 1) - 1 = k + 1
      BY <1>1
    <3>2. f[k + 1] \in Seq(S) /\ seqs[(k + 1) + 1] \in Seq(S)
      BY <1>1, <2>3, <3>1
    <3>3. f[(k + 1) + 1] = f[k + 1] \o seqs[(k + 1) + 1]
      BY <2>1, <3>1
    <3> QED
      BY <3>2, <3>3
  <2> HIDE DEF T
  <2>4. Nat \subseteq T
    BY <2>2, <2>3, NaturalsFollow
  <2>5. n - 1 \in Nat /\ (n - 1) + 1 = n /\ n \in 1 .. n
    BY <1>1, <1>3
  <2>6. f[n] \in Seq(S)
    BY <2>4, <2>5 DEF T
  <2> QED
    BY <2>1, <2>6
<1> QED
  BY <1>2, <1>3

LEMMA FiniteInOrder ==
  ASSUME NEW n \in Nat, NEW S, S \subseteq 0 .. n
  PROVE  Ordered(S)
<1> DEFINE T == {m \in Nat : \A U \in SUBSET (0 .. m - 1) : Ordered(U)}
<1>1. 0 \in T
  <2>1. \A U \in SUBSET (0 .. 0 - 1) : U = {}
    OBVIOUS
  <2> QED
    BY <2>1, EmptyInOrder
<1>2. ASSUME NEW m \in Nat, m \in T PROVE m + 1 \in T
  <2> SUFFICES ASSUME NEW U \in SUBSET (0 .. (m + 1) - 1) PROVE Ordered(U)
    OBVIOUS
  <2> DEFINE V == U \ {m}
  <2>1. V \in SUBSET (0 .. m - 1)
    OBVIOUS
  <2>2. Ordered(V)
    BY <1>2, <2>1
  <2>3. m \in Int /\ \A i \in V : i < m
    BY <2>1
  <2>4. CASE m \in U
    <3>1. U = V \cup {m}
      BY <2>4
    <3> HIDE DEF V
    <3> QED
      BY <2>2, <2>3, <3>1, OneMoreInOrder
  <2>5. CASE m \notin U
    <3>1. U = V
      BY <2>5
    <3> QED
      BY <2>2, <3>1
  <2> QED
    BY <2>4, <2>5
<1> HIDE DEF T
<1>3. Nat \subseteq T
  BY <1>1, <1>2, NaturalsFollow
<1>4. n + 1 \in T /\ S \in SUBSET (0 .. (n + 1) - 1)
  BY <1>3
<1> QED
  BY <1>4 DEF T

LEMMA InOrderIs ==
  ASSUME NEW S, Ordered(S)
  PROVE  /\ Cardinality(S) \in Nat /\ (Cardinality(S) = 0 <=> S = {})
         /\ IsSeq(InOrder(S)) /\ Len(InOrder(S)) = Cardinality(S)
         /\ \A k \in 1 .. Cardinality(S) : InOrder(S)[k] \in S
<1>1. Cardinality(S) \in Nat /\ (Cardinality(S) = 0 <=> S = {})
  BY FS_CardinalityType, FS_EmptySet DEF Ordered
<1>2. InOrder(S) = [k \in 1 .. Cardinality(S) |-> InOrder(S)[k]]
  <2> DEFINE g(k) == CHOOSE i \in S : Cardinality({j \in S : j < i}) = k - 1
  <2>1. InOrder(S) = [k \in 1 .. Cardinality(S) |-> g(k)]
    BY DEF InOrder
  <2> HIDE DEF g
  <2> QED
    BY ONLY <2>1
<1> QED
  BY <1>1, <1>2, FunctionIsSeq DEF Ordered

-----------------------------------------------------------------------------
(* The parts of a text: one more.                                          *)

FullPlaces(parts) == {k \in DOMAIN parts : parts[k] # << >>}

LEMMA FullMore ==
  ASSUME NEW parts, IsSeq(parts), NEW part
  PROVE  Full(Append(parts, part)) =
           IF part = << >> THEN Full(parts) ELSE Append(Full(parts), part)
<1> DEFINE n == Len(parts)
           u == Append(parts, part)
           S == FullPlaces(parts)
<1>1. n \in Nat /\ DOMAIN parts = 1 .. n
  BY SeqIs
<1>2. /\ IsSeq(u) /\ Len(u) = n + 1 /\ u[n + 1] = part
      /\ \A k \in 1 .. n : u[k] = parts[k]
  BY ZenonT(40), AppendOf
<1> HIDE DEF u
<1>3. DOMAIN u = 1 .. n + 1
  BY <1>2, SeqIs
<1>4. S \subseteq 1 .. n /\ \A k \in S : u[k] = parts[k]
  BY <1>1, <1>2 DEF FullPlaces
<1>5. Ordered(S)
  <2>1. S \subseteq 0 .. n
    BY <1>1, <1>4
  <2> QED
    BY <1>1, <2>1, FiniteInOrder
<1>6. AtPlaces(u, S) = Full(parts)
  BY <1>4, <1>5, AtSame DEF Full, FullPlaces
<1>7. CASE part = << >>
  <2>1. FullPlaces(u) = S
    BY <1>1, <1>2, <1>3, <1>7 DEF FullPlaces
  <2>2. Full(u) = AtPlaces(u, S)
    BY <2>1 DEF Full, FullPlaces
  <2> QED
    BY <1>6, <1>7, <2>2 DEF u
<1>8. CASE part # << >>
  <2>1. FullPlaces(u) = S \cup {n + 1}
    BY <1>1, <1>2, <1>3, <1>8 DEF FullPlaces
  <2>2. n + 1 \in Int /\ \A k \in S : k < n + 1
    BY <1>1, <1>4
  <2>3. AtPlaces(u, S \cup {n + 1}) = Append(AtPlaces(u, S), u[n + 1])
    BY <1>5, <2>2, AtOneMore
  <2>4. Full(u) = Append(Full(parts), part)
    BY <1>2, <1>6, <2>1, <2>3 DEF Full, FullPlaces
  <2> QED
    BY <1>8, <2>4 DEF u
<1> QED
  BY <1>7, <1>8

LEMMA PartsIsSeq ==
  ASSUME NEW t, NEW cuts, IsSeq(cuts), Len(cuts) # 0
  PROVE  IsSeq(PartsBetween(t, cuts)) /\ Len(PartsBetween(t, cuts)) = Len(cuts) - 1
<1>1. Len(cuts) - 1 \in Nat
  BY SeqIs
<1>2. PartsBetween(t, cuts) = [k \in 1 .. Len(cuts) - 1 |-> PartsBetween(t, cuts)[k]]
  BY DEF PartsBetween
<1> QED
  BY <1>1, <1>2, FunctionIsSeq

LEMMA PartsMore ==
  ASSUME NEW t, NEW S, Ordered(S), S # {}, NEW x \in Int, \A i \in S : i < x
  PROVE  PartsBetween(t, InOrder(S \cup {x}))
           = Append(PartsBetween(t, InOrder(S)), Part(t, InOrder(S)[Cardinality(S)], x))
<1> DEFINE n == Cardinality(S)
           old == InOrder(S)
           new == InOrder(S \cup {x})
           p == PartsBetween(t, old)
           q == PartsBetween(t, new)
           part == Part(t, old[n], x)
           u == Append(p, part)
<1>1. /\ Ordered(S \cup {x}) /\ n \in Nat /\ Cardinality(S \cup {x}) = n + 1
      /\ \A k \in 1 .. n : new[k] = old[k]
      /\ new[n + 1] = x
  BY OneMoreInOrder
<1>2. IsSeq(old) /\ Len(old) = n /\ n # 0
  BY InOrderIs
<1>3. IsSeq(new) /\ Len(new) = n + 1
  BY <1>1, InOrderIs
<1> HIDE DEF old, new, n
<1>4. IsSeq(p) /\ Len(p) = n - 1 /\ IsSeq(q) /\ Len(q) = n
  BY <1>1, <1>2, <1>3, PartsIsSeq
<1>5. \A k \in 1 .. n - 1 : p[k] = Part(t, old[k], old[k + 1])
  BY <1>1, <1>2 DEF PartsBetween
<1>6. \A k \in 1 .. n : q[k] = Part(t, new[k], new[k + 1])
  BY <1>1, <1>3 DEF PartsBetween
<1> HIDE DEF p, q, part
<1>7. /\ IsSeq(u) /\ Len(u) = Len(p) + 1 /\ u[Len(p) + 1] = part
      /\ \A k \in 1 .. Len(p) : u[k] = p[k]
  BY ZenonT(40), <1>4, AppendOf
<1> HIDE DEF u
<1>8. ASSUME NEW k \in 1 .. n PROVE q[k] = u[k]
  <2>1. CASE k = n
    <3>1. q[k] = Part(t, old[n], x) /\ u[k] = part
      BY <1>1, <1>2, <1>4, <1>6, <1>7, <2>1
    <3> QED
      BY <3>1 DEF part
  <2>2. CASE k # n
    <3>1. k \in 1 .. n - 1 /\ k + 1 \in 1 .. n
      BY <1>1, <2>2
    <3> QED
      BY <1>1, <1>4, <1>5, <1>6, <1>7, <3>1
  <2> QED
    BY <2>1, <2>2
<1>9. q = u
  BY <1>1, <1>2, <1>4, <1>7, <1>8, SeqsEqual
<1> QED
  BY <1>9 DEF q, u, p, part, old, new, n

-----------------------------------------------------------------------------
(* The cuts of a text, as far as it was read. *)

QuotesIn(t, p) == {j \in 1 .. p : t[j] = "\""}
Quotes(t, p) == Cardinality(QuotesIn(t, p))

CutsTo(t, p) == {0} \cup {i \in 1 .. p : t[i] = ";" /\ Quotes(t, i) % 2 = 0}
LastCut(t, p) == InOrder(CutsTo(t, p))[Cardinality(CutsTo(t, p))]

(* What splitCSV has in its variables when it has read p characters of t. *)
Unquoted(t, begin, to) == {i \in begin + 1 .. to - 1 : t[i] # "\""}
BufferAt(t, p) == AtPlaces(t, Unquoted(t, LastCut(t, p), p + 1))
ListAt(t, p) == Full(PartsBetween(t, InOrder(CutsTo(t, p))))

LEMMA OneMoreNumber ==
  ASSUME NEW a \in Nat, NEW p \in Nat, a <= p
  PROVE  /\ a + 1 .. (p + 1 + 1) - 1 = (a + 1 .. (p + 1) - 1) \cup {p + 1}
         /\ p + 1 \notin a + 1 .. (p + 1) - 1
         /\ \A i \in a + 1 .. (p + 1) - 1 : i \in 0 .. p /\ i < p + 1
         /\ 1 .. p + 1 = (1 .. p) \cup {p + 1} /\ p + 1 \notin 1 .. p
         /\ (p + 1) + 1 .. (p + 1 + 1) - 1 = {}
<1>1. a + 1 .. (p + 1 + 1) - 1 = (a + 1 .. (p + 1) - 1) \cup {p + 1}
  OBVIOUS
<1>2. 1 .. p + 1 = (1 .. p) \cup {p + 1} /\ p + 1 \notin 1 .. p
  OBVIOUS
<1>3. (p + 1) + 1 .. (p + 1 + 1) - 1 = {}
  OBVIOUS
<1> QED
  BY <1>1, <1>2, <1>3

LEMMA QuotesMore ==
  ASSUME NEW t, NEW p \in Nat
  PROVE  /\ Quotes(t, p) \in Nat
         /\ t[p + 1] = "\"" => Quotes(t, p + 1) = Quotes(t, p) + 1
         /\ t[p + 1] # "\"" => Quotes(t, p + 1) = Quotes(t, p)
<1>1. /\ IsFiniteSet(1 .. p) /\ 1 .. p + 1 = (1 .. p) \cup {p + 1}
      /\ p + 1 \notin 1 .. p
  BY FS_Interval, OneMoreNumber
<1>2. IsFiniteSet(QuotesIn(t, p))
  BY <1>1, FS_Subset DEF QuotesIn
<1>3. Quotes(t, p) \in Nat
  BY <1>2, FS_CardinalityType DEF Quotes
<1>4. CASE t[p + 1] = "\""
  <2>1. /\ QuotesIn(t, p + 1) = QuotesIn(t, p) \cup {p + 1}
        /\ p + 1 \notin QuotesIn(t, p)
    BY <1>1, <1>4 DEF QuotesIn
  <2> QED
    BY <1>2, <1>3, <1>4, <2>1, FS_AddElement DEF Quotes
<1>5. CASE t[p + 1] # "\""
  <2>1. QuotesIn(t, p + 1) = QuotesIn(t, p)
    BY <1>1, <1>5 DEF QuotesIn
  <2>2. Quotes(t, p + 1) = Quotes(t, p)
    BY <2>1 DEF Quotes
  <2> QED
    BY <1>3, <1>5, <2>2
<1> QED
  BY <1>3, <1>4, <1>5

LEMMA Parity ==
  ASSUME NEW n \in Nat
  PROVE  (n % 2 = 0 \/ n % 2 = 1) /\ (n % 2 = 0 <=> (n + 1) % 2 = 1)
OBVIOUS

LEMMA CutsAre ==
  ASSUME NEW t, NEW p \in Nat
  PROVE  /\ Ordered(CutsTo(t, p)) /\ CutsTo(t, p) # {} /\ CutsTo(t, p) \subseteq 0 .. p
         /\ Cardinality(CutsTo(t, p)) \in Nat \ {0} /\ LastCut(t, p) \in 0 .. p
<1>1. CutsTo(t, p) \subseteq 0 .. p /\ CutsTo(t, p) # {}
  <2>1. 0 \in 0 .. p /\ 1 .. p \subseteq 0 .. p
    OBVIOUS
  <2> QED
    BY <2>1 DEF CutsTo
<1>2. Ordered(CutsTo(t, p))
  BY <1>1, FiniteInOrder
<1>3. Cardinality(CutsTo(t, p)) \in Nat \ {0}
  BY <1>1, <1>2, InOrderIs
<1>4. Cardinality(CutsTo(t, p)) \in 1 .. Cardinality(CutsTo(t, p))
  BY <1>3
<1>5. LastCut(t, p) \in CutsTo(t, p)
  BY <1>2, <1>4, InOrderIs DEF LastCut
<1> QED
  BY <1>1, <1>2, <1>3, <1>5

(* Nothing read yet. *)
LEMMA CutNone ==
  ASSUME NEW t
  PROVE  BufferAt(t, 0) = << >> /\ ListAt(t, 0) = << >> /\ Quotes(t, 0) = 0
<1>1. CutsTo(t, 0) = {0}
  BY DEF CutsTo
<1>2. LastCut(t, 0) = 0
  BY CutsAre
<1>3. BufferAt(t, 0) = << >>
  <2>1. Unquoted(t, 0, 0 + 1) = {}
    BY DEF Unquoted
  <2> QED
    BY <1>2, <2>1, AtNone DEF BufferAt
<1>4. ListAt(t, 0) = << >>
  <2> DEFINE cuts == InOrder(CutsTo(t, 0))
             parts == PartsBetween(t, cuts)
  <2>1. IsSeq(cuts) /\ Len(cuts) = 1
    <3>1. Cardinality(CutsTo(t, 0)) = 1 /\ Ordered(CutsTo(t, 0))
      BY <1>1, CutsAre, FS_Singleton
    <3> QED
      BY <3>1, InOrderIs
  <2> HIDE DEF cuts
  <2>6. IsSeq(cuts) /\ Len(cuts) # 0
    BY <2>1
  <2>7. IsSeq(parts) /\ Len(parts) = Len(cuts) - 1
    BY <2>6, PartsIsSeq
  <2> HIDE DEF parts
  <2>2. IsSeq(parts) /\ Len(parts) = 0
    BY <2>1, <2>7
  <2>3. DOMAIN parts = {}
    BY <2>2, SeqIs
  <2>4. {k \in DOMAIN parts : parts[k] # << >>} = {}
    BY <2>3
  <2>5. Full(parts) = << >>
    BY <2>4, AtNone DEF Full
  <2> QED
    BY <2>5 DEF ListAt, parts, cuts
<1>5. Quotes(t, 0) = 0
  <2>1. QuotesIn(t, 0) = {}
    BY DEF QuotesIn
  <2> QED
    BY <2>1, FS_EmptySet DEF Quotes
<1> QED
  BY <1>3, <1>4, <1>5

LEMMA UnquotedInOrder ==
  ASSUME NEW t, NEW c \in Nat, NEW p \in Nat
  PROVE  Ordered(Unquoted(t, c, p + 1))
<1>1. Unquoted(t, c, p + 1) \subseteq 0 .. p
  <2>1. c + 1 .. (p + 1) - 1 \subseteq 0 .. p
    OBVIOUS
  <2> QED
    BY <2>1 DEF Unquoted
<1> QED
  BY <1>1, FiniteInOrder

(* A cut in the place x, after all that was read. *)
LEMMA CutOne ==
  ASSUME NEW t, NEW p \in Nat
  PROVE  LET S == CutsTo(t, p) \cup {p + 1} IN
         /\ InOrder(S)[Cardinality(S)] = p + 1
         /\ Full(PartsBetween(t, InOrder(S)))
              = IF WithoutBlanks(BufferAt(t, p)) = << >> THEN ListAt(t, p)
                ELSE Append(ListAt(t, p), WithoutBlanks(BufferAt(t, p)))
<1> DEFINE C == CutsTo(t, p)
           x == p + 1
           S == C \cup {x}
           parts == PartsBetween(t, InOrder(C))
           part == Part(t, LastCut(t, p), x)
<1>1. /\ Ordered(C) /\ C # {} /\ x \in Int /\ \A i \in C : i < x
      /\ Cardinality(C) \in Nat \ {0}
  BY CutsAre
<1>2. Cardinality(S) = Cardinality(C) + 1 /\ InOrder(S)[Cardinality(S)] = x
  <2> HIDE DEF C, x
  <2> QED
    BY <1>1, OneMoreInOrder
<1>3. PartsBetween(t, InOrder(S)) = Append(parts, part)
  <2>1. LastCut(t, p) = InOrder(C)[Cardinality(C)]
    BY DEF LastCut
  <2> HIDE DEF C, x
  <2> QED
    BY <1>1, <2>1, PartsMore
<1>4. IsSeq(parts)
  <2>1. IsSeq(InOrder(C)) /\ Len(InOrder(C)) # 0
    BY <1>1, InOrderIs
  <2> QED
    BY <2>1, PartsIsSeq
<1>5. part = WithoutBlanks(BufferAt(t, p))
  BY DEF Part, BufferAt, Unquoted
<1>6. Full(parts) = ListAt(t, p)
  BY DEF ListAt
<1> HIDE DEF C, S, parts, part
<1>7. Full(Append(parts, part)) = IF part = << >> THEN Full(parts) ELSE Append(Full(parts), part)
  BY <1>4, FullMore
<1> QED
  BY <1>2, <1>3, <1>5, <1>6, <1>7 DEF S, C

(* One character. *)
LEMMA CutMore ==
  ASSUME NEW t, NEW p \in Nat
  PROVE  /\ t[p + 1] = ";" /\ Quotes(t, p) % 2 = 0 =>
              /\ BufferAt(t, p + 1) = << >>
              /\ ListAt(t, p + 1) = IF WithoutBlanks(BufferAt(t, p)) = << >> THEN ListAt(t, p)
                                    ELSE Append(ListAt(t, p), WithoutBlanks(BufferAt(t, p)))
         /\ t[p + 1] = "\"" =>
              BufferAt(t, p + 1) = BufferAt(t, p) /\ ListAt(t, p + 1) = ListAt(t, p)
         /\ t[p + 1] # "\"" /\ ~ (t[p + 1] = ";" /\ Quotes(t, p) % 2 = 0) =>
              /\ BufferAt(t, p + 1) = Append(BufferAt(t, p), t[p + 1])
              /\ ListAt(t, p + 1) = ListAt(t, p)
<1> DEFINE x == p + 1
           c == LastCut(t, p)
<1>1. x \in Nat /\ c \in 0 .. p /\ c \in Nat /\ c <= p
  BY CutsAre
<1>8. /\ c + 1 .. (x + 1) - 1 = (c + 1 .. (p + 1) - 1) \cup {x}
      /\ \A i \in c + 1 .. (p + 1) - 1 : i < x
      /\ 1 .. x = (1 .. p) \cup {x} /\ x + 1 .. (x + 1) - 1 = {}
  BY <1>1, OneMoreNumber
<1> HIDE DEF c
<1>2. /\ Quotes(t, p) \in Nat
      /\ t[x] # "\"" => Quotes(t, x) = Quotes(t, p)
  BY QuotesMore
<1>3. CutsTo(t, x) = CutsTo(t, p) \cup {i \in {x} : t[i] = ";" /\ Quotes(t, i) % 2 = 0}
  BY <1>8 DEF CutsTo
<1>4. ASSUME t[x] = ";", Quotes(t, p) % 2 = 0
      PROVE  /\ BufferAt(t, x) = << >>
             /\ ListAt(t, x) = IF WithoutBlanks(BufferAt(t, p)) = << >> THEN ListAt(t, p)
                               ELSE Append(ListAt(t, p), WithoutBlanks(BufferAt(t, p)))
  <2>0. Quotes(t, x) = Quotes(t, p)
    <3>1. t[x] # "\""
      BY <1>4
    <3> QED
      BY <1>2, <3>1
  <2>1. CutsTo(t, x) = CutsTo(t, p) \cup {p + 1}
    BY <1>3, <1>4, <2>0
  <2>2. LastCut(t, x) = x
    BY <2>1, CutOne DEF LastCut
  <2>3. Unquoted(t, x, x + 1) = {}
    BY <1>8 DEF Unquoted
  <2>4. BufferAt(t, x) = << >>
    BY <2>2, <2>3, AtNone DEF BufferAt
  <2> QED
    BY <2>1, <2>4, CutOne DEF ListAt
<1>5. ASSUME ~ (t[x] = ";" /\ Quotes(t, p) % 2 = 0)
      PROVE  CutsTo(t, x) = CutsTo(t, p) /\ LastCut(t, x) = c /\ ListAt(t, x) = ListAt(t, p)
  <2>1. ASSUME t[x] = ";" PROVE Quotes(t, x) = Quotes(t, p)
    <3>1. t[x] # "\""
      BY <2>1
    <3> QED
      BY <1>2, <3>1
  <2>2. CutsTo(t, x) = CutsTo(t, p)
    BY <1>3, <1>5, <2>1
  <2> QED
    BY <2>2 DEF LastCut, ListAt, c
<1>6. ASSUME t[x] = "\"" PROVE BufferAt(t, x) = BufferAt(t, p) /\ ListAt(t, x) = ListAt(t, p)
  <2>1. Unquoted(t, c, x + 1) = Unquoted(t, c, p + 1)
    BY <1>6, <1>8 DEF Unquoted
  <2>2. LastCut(t, x) = c /\ ListAt(t, x) = ListAt(t, p)
    BY <1>5, <1>6
  <2> QED
    BY <2>1, <2>2 DEF BufferAt, c
<1>7. ASSUME t[x] # "\"", ~ (t[x] = ";" /\ Quotes(t, p) % 2 = 0)
      PROVE  BufferAt(t, x) = Append(BufferAt(t, p), t[x]) /\ ListAt(t, x) = ListAt(t, p)
  <2> DEFINE S == Unquoted(t, c, p + 1)
  <2>1. Unquoted(t, c, x + 1) = S \cup {x}
    BY <1>7, <1>8 DEF Unquoted
  <2>2. Ordered(S)
    BY <1>1, UnquotedInOrder
  <2>3. x \in Int /\ \A i \in S : i < x
    <3>1. S \subseteq c + 1 .. (p + 1) - 1
      BY DEF Unquoted
    <3> HIDE DEF S
    <3> QED
      BY <1>1, <1>8, <3>1
  <2>4. LastCut(t, x) = c /\ ListAt(t, x) = ListAt(t, p)
    BY <1>5, <1>7
  <2>5. BufferAt(t, x) = AtPlaces(t, S \cup {x}) /\ BufferAt(t, p) = AtPlaces(t, S)
    BY <2>1, <2>4 DEF BufferAt, c
  <2> HIDE DEF S, x
  <2>6. AtPlaces(t, S \cup {x}) = Append(AtPlaces(t, S), t[x])
    BY <2>2, <2>3, AtOneMore
  <2> QED
    BY <2>4, <2>5, <2>6
<1> QED
  BY <1>4, <1>6, <1>7

LEMMA CutsAtEnd ==
  ASSUME NEW t, IsSeq(t)
  PROVE  ReferenceParts(t)
           = IF WithoutBlanks(BufferAt(t, Len(t))) = << >> THEN ListAt(t, Len(t))
             ELSE Append(ListAt(t, Len(t)), WithoutBlanks(BufferAt(t, Len(t))))
<1>1. Len(t) \in Nat /\ DOMAIN t = 1 .. Len(t)
  BY SeqIs
<1>2. Cuts(t) = CutsTo(t, Len(t)) \cup {Len(t) + 1}
  BY <1>1 DEF Cuts, CutsTo, Quotes, QuotesIn
<1> QED
  BY <1>1, <1>2, CutOne DEF ReferenceParts

-----------------------------------------------------------------------------
(* What splitCSV has when it has read some characters of the source.       *)

SplitFits ==
  /\ position \in 0 .. Len(source)
  /\ inString \in BOOLEAN /\ (inString <=> Quotes(source, position) % 2 = 1)
  /\ buffer = BufferAt(source, position)
  /\ list = ListAt(source, position)

SplitInv ==
  /\ IsSeq(source)
  /\ stage \in {"split", "fields", "done"}
  /\ stage = "split" => SplitFits
  /\ stage # "split" => list = ReferenceParts(source)

LEMMA TextsJoin ==
  ASSUME NEW a, NEW b, IsSeq(a), IsSeq(b)
  PROVE  IsSeq(a \o b)
BY JoinOf

LEMMA WordsAreSeqs ==
  /\ IsSeq(<< >>)
  /\ \A x : IsSeq(<<x>>)
  /\ \A x, y : IsSeq(<<x, y>>)
  /\ \A x, y, z : IsSeq(<<x, y, z>>)
  /\ \A x, y, z, w : IsSeq(<<x, y, z, w>>)
<1>1. IsSeq(<< >>)
  <2>1. << >> \in Seq({})
    OBVIOUS
  <2> QED
    BY <2>1, IsSeqOf
<1>2. ASSUME NEW x PROVE IsSeq(<<x>>)
  <2>1. <<x>> \in Seq({x})
    OBVIOUS
  <2> QED
    BY <2>1, IsSeqOf
<1>3. ASSUME NEW x, NEW y PROVE IsSeq(<<x, y>>)
  <2>1. <<x, y>> \in Seq({x, y})
    OBVIOUS
  <2> QED
    BY <2>1, IsSeqOf
<1>4. ASSUME NEW x, NEW y, NEW z PROVE IsSeq(<<x, y, z>>)
  <2>1. <<x, y, z>> \in Seq({x, y, z})
    OBVIOUS
  <2> QED
    BY <2>1, IsSeqOf
<1>5. ASSUME NEW x, NEW y, NEW z, NEW w PROVE IsSeq(<<x, y, z, w>>)
  <2>1. <<x, y, z, w>> \in Seq({x, y, z, w})
    OBVIOUS
  <2> QED
    BY <2>1, IsSeqOf
<1> QED
  BY <1>1, <1>2, <1>3, <1>4, <1>5

LEMMA CookieTextIsSeq ==
  ASSUME NEW c \in Cookies
  PROVE  IsSeq(ToByteArray(c))
<1>1. /\ IsSeq(c.name) /\ IsSeq(c.value) /\ IsSeq(c.Comment) /\ IsSeq(c.Domain)
      /\ IsSeq(c.maxAge) /\ IsSeq(c.Path)
  BY TextsAssumption DEF NewCookie, IsText, IsSeq
<1>2. ASSUME NEW name, NEW value, IsSeq(value) PROVE IsSeq(Attribute(name, value))
  <2>1. IsSeq(<<";", " ", name, "=">>) /\ IsSeq(<< >>)
    BY WordsAreSeqs
  <2>2. IsSeq(<<";", " ", name, "=">> \o value)
    BY <1>2, <2>1, TextsJoin
  <2> QED
    BY <2>1, <2>2 DEF Attribute
<1>3. ASSUME NEW name, NEW set PROVE IsSeq(Flag(name, set))
  BY WordsAreSeqs DEF Flag
<1> DEFINE a == Attribute("Comment", c.Comment)
           b == Attribute("Domain", c.Domain)
           m == Attribute("Max-Age", c.maxAge)
           p == Attribute("Path", c.Path)
           s == Flag("Secure", c.secure)
           h == Flag("HttpOnly", c.httpOnly)
           v == Attribute("Version", <<"1">>)
           e == <<"=">>
<1>4. /\ IsSeq(a) /\ IsSeq(b) /\ IsSeq(m) /\ IsSeq(p) /\ IsSeq(s) /\ IsSeq(h)
  BY <1>1, <1>2, <1>3
<1>5. IsSeq(v) /\ IsSeq(e)
  BY <1>2, WordsAreSeqs
<1>6. ToByteArray(c) = c.name \o e \o c.value \o a \o b \o m \o p \o s \o h \o v
  BY DEF ToByteArray
<1> HIDE DEF a, b, m, p, s, h, v, e
<1>7. IsSeq(c.name \o e \o c.value)
  BY <1>1, <1>5, TextsJoin
<1>8. IsSeq(c.name \o e \o c.value \o a \o b)
  BY <1>4, <1>7, TextsJoin
<1>9. IsSeq(c.name \o e \o c.value \o a \o b \o m \o p)
  BY <1>4, <1>8, TextsJoin
<1>10. IsSeq(c.name \o e \o c.value \o a \o b \o m \o p \o s \o h)
  BY <1>4, <1>9, TextsJoin
<1> QED
  BY <1>5, <1>6, <1>10, TextsJoin

(* What a client sends back, one cookie after the other. *)
CookiePart(j, i) ==
  (IF i = 1 THEN << >> ELSE <<";", " ">>) \o j[i].name \o <<"=">> \o j[i].value
CookieParts(j) == [i \in DOMAIN j |-> CookiePart(j, i)]

LEMMA JarIs ==
  ASSUME NEW j \in Jars
  PROVE  /\ IsSeq(j) /\ \A i \in 1 .. Len(j) : IsSeq(j[i].name) /\ IsSeq(j[i].value)
         /\ \E S : CookieParts(j) \in Seq(Seq(S))
         /\ Len(CookieParts(j)) = Len(j) /\ Len(j) \in Nat
         /\ CookieHeader(j) = FlattenSeq(CookieParts(j))
<1>1. IsSeq(j) /\ \A i \in DOMAIN j : IsSeq(j[i].name) /\ IsSeq(j[i].value)
  BY TextsAssumption DEF IsText, IsSeq
<1>2. Len(j) \in Nat /\ DOMAIN j = 1 .. Len(j)
  BY <1>1, SeqIs
<1>3. ASSUME NEW i \in DOMAIN j PROVE IsSeq(CookiePart(j, i))
  <2> DEFINE s == IF i = 1 THEN << >> ELSE <<";", " ">>
             e == <<"=">>
             n == j[i].name
             v == j[i].value
  <2>1. IsSeq(s) /\ IsSeq(e) /\ IsSeq(n) /\ IsSeq(v)
    BY <1>1, WordsAreSeqs
  <2> HIDE DEF s, e, n, v
  <2>2. IsSeq(s \o n) /\ IsSeq(s \o n \o e)
    BY <2>1, TextsJoin
  <2>3. IsSeq(s \o n \o e \o v)
    BY <2>1, <2>2, TextsJoin
  <2> QED
    BY <2>3 DEF CookiePart, s, n, e, v
<1> DEFINE S == UNION {ToSet(CookiePart(j, i)) : i \in DOMAIN j}
           parts == CookieParts(j)
<1>4. ASSUME NEW i \in DOMAIN j PROVE CookiePart(j, i) \in Seq(S)
  <2> DEFINE part == CookiePart(j, i)
  <2>1. part \in Seq(ToSet(part))
    BY <1>3 DEF IsSeq
  <2>2. ToSet(part) \subseteq S
    OBVIOUS
  <2> HIDE DEF S, part
  <2>3. part \in Seq(S)
    BY <2>1, <2>2, SeqMonotonic
  <2> QED
    BY <2>3 DEF part
<1> HIDE DEF S
<1>5. CookieParts(j) \in Seq(Seq(S)) /\ Len(CookieParts(j)) = Len(j)
  <2>1. CookieParts(j) \in [1 .. Len(j) -> Seq(S)]
    BY <1>2, <1>4 DEF CookieParts
  <2> QED
    BY <1>2, <2>1
<1>6. CookieHeader(j) = FlattenSeq(CookieParts(j))
  BY DEF CookieHeader, CookieParts, CookiePart
<1> QED
  BY <1>1, <1>2, <1>5, <1>6

LEMMA SplitStarts == CookieInit => SplitInv
<1> SUFFICES ASSUME CookieInit PROVE SplitInv
  OBVIOUS
<1>1. IsSeq(source)
  <2>1. CASE written \in Cookies /\ source = ToByteArray(written)
    BY <2>1, CookieTextIsSeq
  <2>2. CASE jar \in Jars /\ source = CookieHeader(jar)
    <3>1. PICK S : CookieParts(jar) \in Seq(Seq(S))
      BY <2>2, JarIs
    <3>2. FlattenSeq(CookieParts(jar)) \in Seq(S)
      BY <3>1, FlattenIsASeq
    <3> QED
      BY <2>2, <3>2, JarIs, IsSeqOf
  <2>3. CASE source \in Texts
    BY <2>3, TextsAssumption DEF IsText, IsSeq
  <2> QED
    BY <2>1, <2>2, <2>3 DEF CookieInit
<1>2. position = 0 /\ inString = FALSE /\ buffer = << >> /\ list = << >> /\ stage = "split"
  BY DEF CookieInit
<1>3. Len(source) \in Nat
  BY <1>1, SeqIs
<1>4. BufferAt(source, 0) = << >> /\ ListAt(source, 0) = << >> /\ Quotes(source, 0) = 0
  BY CutNone
<1>5. SplitFits
  <2>1. position \in 0 .. Len(source) /\ ~ (Quotes(source, position) % 2 = 1)
    BY <1>2, <1>3, <1>4
  <2> QED
    BY <1>2, <1>4, <2>1 DEF SplitFits
<1> QED
  BY <1>1, <1>2, <1>5 DEF SplitInv

LEMMA SplitKept == SplitInv /\ [CookieNext]_cookieVars => SplitInv'
<1> SUFFICES ASSUME SplitInv, [CookieNext]_cookieVars PROVE SplitInv'
  OBVIOUS
<1>0. IsSeq(source) /\ Len(source) \in Nat
  BY SeqIs DEF SplitInv
<1>1. CASE SplitCSV
  <2> DEFINE p == position
             q == Quotes(source, p)
             c == source[p + 1]
  <2>1. /\ stage = "split" /\ p < Len(source) /\ position' = p + 1
        /\ source' = source /\ stage' = stage
        /\ IF c = ";" /\ ~ inString
           THEN AppendTrimmed /\ buffer' = << >> /\ UNCHANGED inString
           ELSE IF c = "\""
           THEN inString' = ~ inString /\ UNCHANGED <<buffer, list>>
           ELSE buffer' = Append(buffer, c) /\ UNCHANGED <<inString, list>>
    BY <1>1 DEF SplitCSV
  <2>2. SplitFits
    BY <2>1 DEF SplitInv
  <2>3. /\ p \in Nat /\ p + 1 \in 0 .. Len(source) /\ inString \in BOOLEAN
        /\ (inString <=> q % 2 = 1)
        /\ buffer = BufferAt(source, p) /\ list = ListAt(source, p)
    <3>1. /\ position \in 0 .. Len(source) /\ inString \in BOOLEAN
          /\ (inString <=> Quotes(source, position) % 2 = 1)
          /\ buffer = BufferAt(source, position) /\ list = ListAt(source, position)
      BY ZenonT(20), <2>2 DEF SplitFits
    <3>2. p \in Nat /\ p + 1 \in 0 .. Len(source)
      <4>1. position \in 0 .. Len(source)
        BY <3>1
      <4>2. position < Len(source)
        BY <2>1
      <4> QED
        BY ONLY <1>0, <4>1, <4>2
    <3> QED
      BY ZenonT(20), <3>1, <3>2
  <2>4. /\ q \in Nat /\ (c = "\"" => Quotes(source, p + 1) = q + 1)
        /\ (c # "\"" => Quotes(source, p + 1) = q)
    BY <2>3, QuotesMore
  <2> HIDE DEF q
  <2>5. (q % 2 = 0 \/ q % 2 = 1) /\ (q % 2 = 0 <=> (q + 1) % 2 = 1) /\ (q % 2 = 0 => q % 2 # 1)
    <3>1. q \in Nat
      BY <2>4
    <3>2. (q % 2 = 0 \/ q % 2 = 1) /\ (q % 2 = 0 <=> (q + 1) % 2 = 1)
      BY <3>1, Parity
    <3> QED
      BY ONLY <3>1, <3>2
  <2>6. SplitFits'
    <3>1. CASE c = ";" /\ ~ inString
      <4>1. /\ q % 2 = 0 /\ c # "\"" /\ inString' = inString /\ buffer' = << >>
            /\ list' = IF WithoutBlanks(buffer) = << >> THEN list
                       ELSE Append(list, WithoutBlanks(buffer))
        BY <2>1, <2>3, <2>5, <3>1 DEF AppendTrimmed
      <4>2. /\ BufferAt(source, p + 1) = << >>
            /\ ListAt(source, p + 1) = IF WithoutBlanks(BufferAt(source, p)) = << >>
                 THEN ListAt(source, p) ELSE Append(ListAt(source, p), WithoutBlanks(BufferAt(source, p)))
        BY <2>3, <3>1, <4>1, CutMore DEF q
      <4> QED
        BY <2>1, <2>3, <2>4, <4>1, <4>2 DEF SplitFits
    <3>2. CASE c = "\""
      <4>1. inString' = ~ inString /\ buffer' = buffer /\ list' = list
        BY <2>1, <3>2
      <4>2. BufferAt(source, p + 1) = BufferAt(source, p) /\ ListAt(source, p + 1) = ListAt(source, p)
        BY <2>3, <3>2, CutMore
      <4>3. inString' \in BOOLEAN /\ (inString' <=> Quotes(source, p + 1) % 2 = 1)
        BY <2>3, <2>4, <2>5, <3>2, <4>1
      <4> QED
        BY <2>1, <2>3, <4>1, <4>2, <4>3 DEF SplitFits
    <3>3. CASE c # "\"" /\ ~ (c = ";" /\ ~ inString)
      <4>1. inString' = inString /\ buffer' = Append(buffer, c) /\ list' = list
        BY <2>1, <3>3
      <4>2. /\ BufferAt(source, p + 1) = Append(BufferAt(source, p), c)
            /\ ListAt(source, p + 1) = ListAt(source, p)
        <5>1. ~ (c = ";" /\ q % 2 = 0)
          BY <2>3, <2>5, <3>3
        <5> QED
          BY <2>3, <3>3, <5>1, CutMore DEF q
      <4> QED
        BY <2>1, <2>3, <2>4, <3>3, <4>1, <4>2 DEF SplitFits
    <3> QED
      BY <3>1, <3>2, <3>3
  <2> QED
    BY <1>0, <2>1, <2>6 DEF SplitInv
<1>2. CASE SplitCSVEnds
  <2>1. /\ stage = "split" /\ position = Len(source) /\ stage' = "fields" /\ source' = source
        /\ list' = IF WithoutBlanks(buffer) = << >> THEN list ELSE Append(list, WithoutBlanks(buffer))
    BY <1>2 DEF SplitCSVEnds, AppendTrimmed
  <2>2. buffer = BufferAt(source, Len(source)) /\ list = ListAt(source, Len(source))
    BY <2>1 DEF SplitInv, SplitFits
  <2>3. list' = ReferenceParts(source)
    BY <1>0, <2>1, <2>2, CutsAtEnd
  <2> QED
    BY <1>0, <2>1, <2>3 DEF SplitInv
<1>3. CASE ReadField \/ ExtractCookie \/ FieldsRead
  <2>1. /\ stage = "fields" /\ stage' \in {"fields", "done"} /\ source' = source /\ list' = list
    BY <1>3 DEF ReadField, ExtractCookie, FieldsRead
  <2> QED
    BY <1>0, <2>1 DEF SplitInv
<1>4. CASE UNCHANGED cookieVars
  BY <1>4 DEF cookieVars, SplitInv, SplitFits
<1> QED
  BY <1>1, <1>2, <1>3, <1>4 DEF CookieNext

(***************************************************************************)
(* After every character, splitCSV has the parts up to the last cut, the   *)
(* unquoted characters since then, and whether it is inside of quotes.     *)
(***************************************************************************)
THEOREM SplitAlways == CookieSpec => []SplitInv
<1>1. CookieInit => SplitInv
  BY SplitStarts
<1>2. SplitInv /\ [CookieNext]_cookieVars => SplitInv'
  BY SplitKept
<1> QED
  BY <1>1, <1>2, PTL DEF CookieSpec

(***************************************************************************)
(* splitCSV cuts every text at its semicolons outside of quotes, whatever  *)
(* characters it has.                                                      *)
(***************************************************************************)
THEOREM SplitsAtSemicolonsAlways == CookieSpec => []SplitsAtSemicolons
<1>1. SplitInv => SplitsAtSemicolons
  BY DEF SplitInv, SplitsAtSemicolons
<1> QED
  BY <1>1, SplitAlways, PTL

-----------------------------------------------------------------------------
(* Texts that are written part by part. *)

(* What splitCSV has after p characters depends on these only. *)
LEMMA SamePrefix ==
  ASSUME NEW t, NEW u, NEW p \in Nat, \A i \in 1 .. p : t[i] = u[i]
  PROVE  /\ Quotes(t, p) = Quotes(u, p)
         /\ BufferAt(t, p) = BufferAt(u, p) /\ ListAt(t, p) = ListAt(u, p)
<1>1. \A i \in 0 .. p : Quotes(t, i) = Quotes(u, i)
  <2>1. \A i \in 0 .. p : \A k \in 1 .. i : k \in 1 .. p
    OBVIOUS
  <2>2. \A i \in 0 .. p : QuotesIn(t, i) = QuotesIn(u, i)
    BY Zenon, <2>1 DEF QuotesIn
  <2> QED
    BY <2>2 DEF Quotes
<1>2. p \in 0 .. p /\ \A i \in 1 .. p : i \in 0 .. p
  OBVIOUS
<1>3. CutsTo(t, p) = CutsTo(u, p)
  BY Zenon, <1>1, <1>2 DEF CutsTo
<1> DEFINE C == CutsTo(t, p)
           c == LastCut(t, p)
<1>4. Ordered(C) /\ C # {} /\ C \subseteq 0 .. p /\ c \in 0 .. p /\ LastCut(u, p) = c
  BY <1>3, CutsAre DEF LastCut
<1>5. ASSUME NEW begin \in 0 .. p, NEW to \in 0 .. p + 1
      PROVE  LET S == {i \in begin + 1 .. to - 1 : t[i] # "\""} IN
             /\ S = {i \in begin + 1 .. to - 1 : u[i] # "\""}
             /\ AtPlaces(t, S) = AtPlaces(u, S)
  <2> DEFINE S == {i \in begin + 1 .. to - 1 : t[i] # "\""}
  <2>1. \A i \in begin + 1 .. to - 1 : i \in 1 .. p /\ i \in 0 .. p
    OBVIOUS
  <2>2. S = {i \in begin + 1 .. to - 1 : u[i] # "\""}
    BY Zenon, <2>1
  <2>3. S \subseteq 0 .. p /\ \A i \in S : t[i] = u[i]
    BY Zenon, <2>1
  <2> HIDE DEF S
  <2>4. Ordered(S)
    BY <2>3, FiniteInOrder
  <2>5. AtPlaces(t, S) = AtPlaces(u, S)
    BY <2>3, <2>4, AtSame
  <2> QED
    BY <2>2, <2>5 DEF S
<1>6. BufferAt(t, p) = BufferAt(u, p)
  <2>1. p + 1 \in 0 .. p + 1
    OBVIOUS
  <2> QED
    BY <1>4, <1>5, <2>1 DEF BufferAt, Unquoted
<1>7. ListAt(t, p) = ListAt(u, p)
  <2> DEFINE cuts == InOrder(C)
  <2>1. IsSeq(cuts) /\ Len(cuts) \in Nat /\ \A k \in 1 .. Len(cuts) : cuts[k] \in 0 .. p
    BY <1>4, InOrderIs
  <2> HIDE DEF C, cuts
  <2>2. \A k \in 1 .. Len(cuts) - 1 : /\ k \in 1 .. Len(cuts) /\ k + 1 \in 1 .. Len(cuts)
    BY <2>1
  <2>3. \A i \in 0 .. p : i \in 0 .. p + 1
    OBVIOUS
  <2>4. \A k \in 1 .. Len(cuts) - 1 : Part(t, cuts[k], cuts[k + 1]) = Part(u, cuts[k], cuts[k + 1])
    <3> TAKE k \in 1 .. Len(cuts) - 1
    <3>1. cuts[k] \in 0 .. p /\ cuts[k + 1] \in 0 .. p + 1
      BY <2>1, <2>2, <2>3
    <3> DEFINE begin == cuts[k]
               to == cuts[k + 1]
    <3> HIDE DEF begin, to
    <3>2. Part(t, begin, to) = Part(u, begin, to)
      BY <1>5, <3>1 DEF Part, begin, to
    <3> QED
      BY <3>2 DEF begin, to
  <2>5. PartsBetween(t, cuts) = PartsBetween(u, cuts)
    BY <2>4 DEF PartsBetween
  <2> QED
    BY <1>3, <2>5 DEF ListAt, C, cuts
<1> QED
  BY <1>1, <1>2, <1>6, <1>7

(***************************************************************************)
(* splitCSV is outside of quotes at the end of t, with these parts in its  *)
(* list and this text in its buffer.                                       *)
(***************************************************************************)
SplitInto(t, parts, rest) ==
  /\ IsSeq(t) /\ Quotes(t, Len(t)) = 0
  /\ ListAt(t, Len(t)) = parts /\ BufferAt(t, Len(t)) = rest

LEMMA SplitNothing == SplitInto(<< >>, << >>, << >>)
<1>1. IsSeq(<< >>) /\ Len(<< >>) = 0
  BY WordsAreSeqs
<1> QED
  BY <1>1, CutNone DEF SplitInto

LEMMA SplitOneMore ==
  ASSUME NEW t, NEW parts, NEW rest, SplitInto(t, parts, rest), NEW x, x # "\"", IsSeq(rest)
  PROVE  IF x = ";"
         THEN SplitInto(Append(t, x), IF WithoutBlanks(rest) = << >> THEN parts
                                      ELSE Append(parts, WithoutBlanks(rest)), << >>)
         ELSE SplitInto(Append(t, x), parts, Append(rest, x))
<1> DEFINE u == Append(t, x)
           p == Len(t)
<1>0. IsSeq(t)
  BY DEF SplitInto
<1>1. /\ IsSeq(t) /\ p \in Nat /\ IsSeq(u) /\ Len(u) = p + 1
      /\ \A i \in 1 .. p : u[i] = t[i]
      /\ u[p + 1] = x
  BY ZenonT(40), <1>0, SeqIs, AppendOf
<1> HIDE DEF u
<1>2. /\ Quotes(u, p) = 0
      /\ BufferAt(u, p) = rest /\ ListAt(u, p) = parts
  BY <1>1, SamePrefix DEF SplitInto
<1>3. Quotes(u, p + 1) = 0
  BY <1>1, <1>2, QuotesMore
<1>4. Quotes(u, p) % 2 = 0
  BY ONLY <1>2
<1>5. CASE x = ";"
  <2>1. /\ BufferAt(u, p + 1) = << >>
        /\ ListAt(u, p + 1) = IF WithoutBlanks(BufferAt(u, p)) = << >> THEN ListAt(u, p)
                              ELSE Append(ListAt(u, p), WithoutBlanks(BufferAt(u, p)))
    BY <1>1, <1>4, <1>5, CutMore
  <2> QED
    BY <1>1, <1>2, <1>3, <1>5, <2>1 DEF SplitInto, u
<1>6. CASE x # ";"
  <2>1. BufferAt(u, p + 1) = Append(BufferAt(u, p), x) /\ ListAt(u, p + 1) = ListAt(u, p)
    BY <1>1, <1>6, CutMore
  <2> QED
    BY <1>1, <1>2, <1>3, <1>6, <2>1 DEF SplitInto, u
<1> QED
  BY <1>5, <1>6

(* A text in which splitCSV finds nothing to cut. *)
Whole(s) == IsSeq(s) /\ \A i \in 1 .. Len(s) : s[i] # ";" /\ s[i] # "\""

LEMMA BeginIs ==
  ASSUME NEW s, IsSeq(s), NEW k \in Nat, k <= Len(s)
  PROVE  /\ IsSeq(SubSeq(s, 1, k)) /\ Len(SubSeq(s, 1, k)) = k
         /\ \A i \in 1 .. k : SubSeq(s, 1, k)[i] = s[i]
<1> DEFINE T == ToSet(s)
<1>1. s \in Seq(T)
  BY DEF IsSeq
<1> HIDE DEF T
<1>2. SubSeq(s, 1, k) = [i \in 1 .. k |-> s[i]]
  <2>1. SubSeq(s, 1, k) = [i \in 1 .. (1 + k) - 1 |-> s[i + 1 - 1]]
    BY <1>1
  <2> QED
    BY <2>1
<1> QED
  BY <1>2, FunctionIsSeq

LEMMA SplitMore ==
  ASSUME NEW whole, NEW parts, NEW rest, SplitInto(whole, parts, rest), IsSeq(rest),
         NEW s, Whole(s)
  PROVE  SplitInto(whole \o s, parts, rest \o s)
<1>1. IsSeq(whole) /\ IsSeq(s) /\ Len(s) \in Nat
  BY SeqIs DEF SplitInto, Whole
<1> DEFINE T == {k \in Nat : k <= Len(s) =>
                   SplitInto(whole \o SubSeq(s, 1, k), parts, rest \o SubSeq(s, 1, k))}
<1>2. 0 \in T
  <2>1. SubSeq(s, 1, 0) = << >>
    <3>1. IsSeq(SubSeq(s, 1, 0)) /\ Len(SubSeq(s, 1, 0)) = 0
      BY <1>1, BeginIs
    <3> QED
      BY <3>1, SeqIs
  <2>2. whole \o << >> = whole /\ rest \o << >> = rest
    BY <1>1, JoinNothing
  <2> QED
    BY <2>1, <2>2
<1>3. ASSUME NEW k \in Nat, k \in T PROVE k + 1 \in T
  <2> SUFFICES ASSUME k + 1 <= Len(s)
               PROVE SplitInto(whole \o SubSeq(s, 1, k + 1), parts, rest \o SubSeq(s, 1, k + 1))
    OBVIOUS
  <2> DEFINE b == SubSeq(s, 1, k)
             x == s[k + 1]
  <2>1. k <= Len(s) /\ k + 1 \in 1 .. Len(s)
    BY <1>1
  <2>2. IsSeq(b) /\ Len(b) = k /\ \A i \in 1 .. k : b[i] = s[i]
    BY <1>1, <2>1, BeginIs
  <2>3. SubSeq(s, 1, k + 1) = Append(b, x)
    <3> DEFINE e == SubSeq(s, 1, k + 1)
               a == Append(b, x)
    <3>1. IsSeq(e) /\ Len(e) = k + 1 /\ \A i \in 1 .. k + 1 : e[i] = s[i]
      BY <1>1, BeginIs
    <3> HIDE DEF b, x
    <3>2. IsSeq(a) /\ Len(a) = k + 1 /\ (\A i \in 1 .. k : a[i] = b[i]) /\ a[k + 1] = x
      <4>1. IsSeq(b) /\ Len(b) = k
        BY <2>2
      <4>2. IsSeq(a) /\ Len(a) = Len(b) + 1 /\ (\A i \in 1 .. Len(b) : a[i] = b[i])
            /\ a[Len(b) + 1] = x
        BY ZenonT(40), <4>1, AppendOf
      <4> QED
        BY <4>1, <4>2
    <3>3. \A i \in 1 .. k + 1 : i \in 1 .. k \/ i = k + 1
      OBVIOUS
    <3> HIDE DEF e, a
    <3>4. \A i \in 1 .. Len(e) : e[i] = a[i]
      <4>1. \A i \in 1 .. k : b[i] = s[i]
        BY <2>2
      <4> QED
        BY <3>1, <3>2, <3>3, <4>1 DEF x
    <3>5. e = a
      BY <3>1, <3>2, <3>4, SeqsEqual
    <3> QED
      BY <3>5 DEF e, a
  <2>4. x # ";" /\ x # "\""
    BY <2>1 DEF Whole
  <2> HIDE DEF x
  <2>5. SplitInto(whole \o b, parts, rest \o b)
    BY <1>3, <2>1
  <2> HIDE DEF b
  <2>6. IsSeq(rest \o b)
    BY <2>2, JoinOf
  <2>7. SplitInto(Append(whole \o b, x), parts, Append(rest \o b, x))
    BY <2>4, <2>5, <2>6, SplitOneMore
  <2>8. /\ Append(whole \o b, x) = whole \o Append(b, x)
        /\ Append(rest \o b, x) = rest \o Append(b, x)
    <3> DEFINE y == <<x>>
    <3>1. Append(b, x) = b \o y /\ IsSeq(y)
      BY <2>2, AppendOf
    <3>2. Append(whole \o b, x) = (whole \o b) \o y /\ Append(rest \o b, x) = (rest \o b) \o y
      <4>1. IsSeq(whole \o b)
        BY <1>1, <2>2, JoinOf
      <4> QED
        BY <2>6, <4>1, AppendOf
    <3> HIDE DEF y
    <3>3. (whole \o b) \o y = whole \o (b \o y)
      <4>1. IsSeq(whole) /\ IsSeq(b) /\ IsSeq(y)
        BY <1>1, <2>2, <3>1
      <4> QED
        BY ONLY <4>1, JoinAssociates
    <3>4. (rest \o b) \o y = rest \o (b \o y)
      <4>1. IsSeq(rest) /\ IsSeq(b) /\ IsSeq(y)
        BY <2>2, <3>1
      <4> QED
        BY ONLY <4>1, JoinAssociates
    <3> QED
      BY <3>1, <3>2, <3>3, <3>4
  <2> QED
    BY <2>3, <2>7, <2>8 DEF b, x
<1> HIDE DEF T
<1>4. Nat \subseteq T
  BY <1>2, <1>3, NaturalsFollow
<1>5. SplitInto(whole \o SubSeq(s, 1, Len(s)), parts, rest \o SubSeq(s, 1, Len(s)))
  BY <1>1, <1>4 DEF T
<1>6. SubSeq(s, 1, Len(s)) = s
  <2>1. /\ IsSeq(SubSeq(s, 1, Len(s))) /\ Len(SubSeq(s, 1, Len(s))) = Len(s)
        /\ \A i \in 1 .. Len(s) : SubSeq(s, 1, Len(s))[i] = s[i]
    BY <1>1, BeginIs
  <2> QED
    BY <1>1, <2>1, SeqsEqual
<1> QED
  BY <1>5, <1>6

LEMMA SplitAtSemicolon ==
  ASSUME NEW whole, NEW parts, NEW rest, SplitInto(whole, parts, rest), IsSeq(rest),
         WithoutBlanks(rest) # << >>, NEW s, Whole(s)
  PROVE  SplitInto(whole \o (<<";">> \o s), Append(parts, WithoutBlanks(rest)), s)
<1> DEFINE more == Append(parts, WithoutBlanks(rest))
           y == <<";">>
<1>1. IsSeq(whole) /\ IsSeq(s) /\ IsSeq(<< >>) /\ IsSeq(y)
  BY WordsAreSeqs DEF SplitInto, Whole
<1>2. SplitInto(Append(whole, ";"), more, << >>)
  <2>1. ";" # "\""
    OBVIOUS
  <2> QED
    BY <2>1, SplitOneMore
<1>3. Append(whole, ";") = whole \o y
  BY <1>1, AppendOf
<1> HIDE DEF more, y
<1>4. SplitInto((whole \o y) \o s, more, << >> \o s)
  BY <1>1, <1>2, <1>3, SplitMore
<1>5. (whole \o y) \o s = whole \o (y \o s) /\ << >> \o s = s
  BY ONLY <1>1, JoinNothing
<1> QED
  BY <1>4, <1>5 DEF more, y

-----------------------------------------------------------------------------
(* Parts, their names and values. *)

(* No blanks at its ends. *)
Trimmed(s) == s # << >> => s[1] # " " /\ s[Len(s)] # " "

LEMMA PieceIs ==
  ASSUME NEW s, IsSeq(s), NEW a \in Nat, NEW b \in Nat, a # 0, b <= Len(s), a <= b + 1
  PROVE  /\ IsSeq(SubSeq(s, a, b)) /\ Len(SubSeq(s, a, b)) = b - a + 1
         /\ \A i \in 1 .. b - a + 1 : SubSeq(s, a, b)[i] = s[a - 1 + i]
<1> DEFINE T == ToSet(s)
           n == b - a + 1
           f == SubSeq(s, a, b)
<1>1. s \in Seq(T)
  BY DEF IsSeq
<1> HIDE DEF T
<1>2. f = [i \in 1 .. n |-> s[a - 1 + i]]
  <2>1. f = [i \in 1 .. (1 + b) - a |-> s[i + a - 1]]
    BY <1>1
  <2>2. (1 + b) - a = n /\ \A i \in 1 .. n : i + a - 1 = a - 1 + i
    OBVIOUS
  <2> QED
    BY <2>1, <2>2
<1>3. n \in Nat
  OBVIOUS
<1>4. \A i \in 1 .. n : f[i] = s[a - 1 + i]
  BY <1>2
<1>5. f = [i \in 1 .. n |-> f[i]]
  BY <1>2, <1>4
<1> HIDE DEF f, n
<1>6. IsSeq(f) /\ Len(f) = n
  BY <1>3, <1>5, FunctionIsSeq
<1> QED
  BY <1>4, <1>6 DEF f, n

(* Blanks around a word. *)
LEMMA BlanksTrimmed ==
  ASSUME NEW s, IsSeq(s), NEW a \in 1 .. Len(s), NEW b \in 1 .. Len(s), s[a] # " ", s[b] # " ",
         \A i \in 1 .. Len(s) : i < a \/ i > b => s[i] = " "
  PROVE  WithoutBlanks(s) = SubSeq(s, a, b)
<1> DEFINE word == {i \in DOMAIN s : s[i] # " "}
<1>1. Len(s) \in Nat /\ DOMAIN s = 1 .. Len(s)
  BY SeqIs
<1>2. a \in word /\ b \in word
  BY <1>1
<1>3. \A i \in word : i \in Int /\ a <= i /\ i <= b
  <2>3. \A i \in 1 .. Len(s) : ~ (i < a \/ i > b) => i \in Int /\ a <= i /\ i <= b
    BY ONLY <1>1
  <2> TAKE i \in word
  <2>1. i \in 1 .. Len(s) /\ s[i] # " "
    BY Zenon, <1>1
  <2>2. ~ (i < a \/ i > b) /\ i \in 1 .. Len(s) /\ a \in 1 .. Len(s) /\ b \in 1 .. Len(s)
    BY Zenon, <2>1
  <2> QED
    BY Zenon, <2>2, <2>3
<1> HIDE DEF word
<1>4. (CHOOSE i \in word : \A k \in word : i <= k) = a
  <2>1. a \in word /\ \A k \in word : a <= k
    BY Zenon, <1>2, <1>3
  <2>2. \A i \in word : i <= a => i = a
    BY ONLY <1>2, <1>3
  <2> QED
    BY Zenon, <2>1, <2>2
<1>5. (CHOOSE i \in word : \A k \in word : i >= k) = b
  <2>1. b \in word /\ \A k \in word : b >= k
    BY ONLY <1>2, <1>3
  <2>2. \A i \in word : i >= b => i = b
    BY ONLY <1>2, <1>3
  <2> QED
    BY Zenon, <2>1, <2>2
<1>6. WithoutBlanks(s) = SubSeq(s, CHOOSE i \in word : \A k \in word : i <= k,
                                   CHOOSE i \in word : \A k \in word : i >= k)
  BY Zenon, <1>2 DEF WithoutBlanks, word
<1> QED
  BY <1>4, <1>5, <1>6

LEMMA TrimmedStays ==
  ASSUME NEW s, IsSeq(s), Trimmed(s)
  PROVE  WithoutBlanks(s) = s
<1>1. Len(s) \in Nat /\ DOMAIN s = 1 .. Len(s) /\ (s = << >> <=> Len(s) = 0)
  BY SeqIs
<1>2. CASE s = << >>
  <2>1. DOMAIN s = {}
    BY <1>1, <1>2
  <2> QED
    BY <1>2, <2>1 DEF WithoutBlanks
<1>3. CASE s # << >>
  <2>1. 1 \in 1 .. Len(s) /\ Len(s) \in 1 .. Len(s) /\ s[1] # " " /\ s[Len(s)] # " "
    <3>1. Len(s) \in Nat /\ Len(s) # 0
      BY <1>1, <1>3
    <3>2. 1 \in 1 .. Len(s) /\ Len(s) \in 1 .. Len(s)
      BY ONLY <3>1
    <3> QED
      BY Zenon, <1>3, <3>2 DEF Trimmed
  <2>2. \A i \in 1 .. Len(s) : ~ (i < 1 \/ i > Len(s))
    BY <1>1
  <2>3. WithoutBlanks(s) = SubSeq(s, 1, Len(s))
    BY <2>1, <2>2, BlanksTrimmed
  <2> DEFINE r == SubSeq(s, 1, Len(s))
  <2>4. IsSeq(r) /\ Len(r) = Len(s) /\ \A i \in 1 .. Len(s) : r[i] = s[i]
    BY <1>1, BeginIs
  <2> HIDE DEF r
  <2>5. r = s
    BY <2>4, SeqsEqual
  <2> QED
    BY <2>3, <2>5 DEF r
<1> QED
  BY <1>2, <1>3

LEMMA BlankRemoved ==
  ASSUME NEW word, IsSeq(word), Trimmed(word), word # << >>
  PROVE  WithoutBlanks(<<" ">> \o word) = word
<1> DEFINE y == <<" ">>
           spaced == y \o word
<1>1. IsSeq(word) /\ IsSeq(y) /\ Len(word) \in Nat /\ Len(word) # 0 /\ Len(y) = 1
  BY SeqIs, WordsAreSeqs
<1>2. y[1] = " "
  OBVIOUS
<1> HIDE DEF y
<1>3. /\ IsSeq(spaced) /\ Len(spaced) = Len(word) + 1
      /\ spaced[1] = y[1] /\ \A i \in 1 .. Len(word) : spaced[1 + i] = word[i]
  <2>1. /\ IsSeq(spaced) /\ Len(spaced) = Len(y) + Len(word)
        /\ \A i \in 1 .. Len(y) : spaced[i] = y[i]
        /\ \A i \in 1 .. Len(word) : spaced[Len(y) + i] = word[i]
    <3>1. IsSeq(y) /\ IsSeq(word)
      BY <1>1
    <3> QED
      BY ONLY <3>1, JoinOf
  <2> HIDE DEF spaced
  <2> QED
    BY ONLY <1>1, <2>1
<1> HIDE DEF spaced
<1>4. /\ 2 \in 1 .. Len(spaced) /\ Len(spaced) \in 1 .. Len(spaced)
      /\ spaced[2] = word[1] /\ spaced[Len(spaced)] = word[Len(word)]
  <2>1. /\ 1 \in 1 .. Len(word) /\ Len(word) \in 1 .. Len(word) /\ 1 + 1 = 2 /\ 1 + Len(word) = Len(spaced)
        /\ 2 \in 1 .. Len(spaced) /\ Len(spaced) \in 1 .. Len(spaced)
    BY ONLY <1>1, <1>3
  <2> QED
    BY ONLY <1>3, <2>1
<1>5. \A i \in 1 .. Len(spaced) : i < 2 \/ i > Len(spaced) => i = 1
  BY ONLY <1>1, <1>3
<1>6. WithoutBlanks(spaced) = SubSeq(spaced, 2, Len(spaced))
  <2>1. spaced[2] # " " /\ spaced[Len(spaced)] # " "
    BY Zenon, <1>4 DEF Trimmed
  <2>2. \A i \in 1 .. Len(spaced) : i < 2 \/ i > Len(spaced) => spaced[i] = " "
    BY Zenon, <1>2, <1>3, <1>5
  <2> QED
    BY <1>3, <1>4, <2>1, <2>2, BlanksTrimmed
<1> DEFINE r == SubSeq(spaced, 2, Len(spaced))
<1>7. r = word
  <2>1. /\ IsSeq(spaced) /\ 2 \in Nat /\ Len(spaced) \in Nat /\ 2 # 0 /\ Len(spaced) <= Len(spaced) /\ 2 <= Len(spaced) + 1
        /\ Len(spaced) - 2 + 1 = Len(word) /\ \A i \in 1 .. Len(word) : 2 - 1 + i = 1 + i
    BY ONLY <1>1, <1>3
  <2>2. /\ IsSeq(r) /\ Len(r) = Len(spaced) - 2 + 1
        /\ \A i \in 1 .. Len(spaced) - 2 + 1 : r[i] = spaced[2 - 1 + i]
    <3>1. IsSeq(spaced) /\ 2 \in Nat /\ Len(spaced) \in Nat /\ 2 # 0 /\ Len(spaced) <= Len(spaced)
          /\ 2 <= Len(spaced) + 1
      BY <2>1
    <3> DEFINE n == Len(spaced)
               a == 2
    <3> HIDE DEF n, a
    <3>2. /\ IsSeq(SubSeq(spaced, a, n)) /\ Len(SubSeq(spaced, a, n)) = n - a + 1
          /\ \A i \in 1 .. n - a + 1 : SubSeq(spaced, a, n)[i] = spaced[a - 1 + i]
      <4>1. IsSeq(spaced) /\ a \in Nat /\ n \in Nat /\ a # 0 /\ n <= Len(spaced) /\ a <= n + 1
        BY ONLY <3>1 DEF n, a
      <4> QED
        BY ONLY <4>1, PieceIs
    <3> QED
      BY ONLY <3>2 DEF n, a
  <2> HIDE DEF r
  <2>3. Len(r) = Len(word) /\ \A i \in 1 .. Len(r) : r[i] = word[i]
    BY ONLY <1>3, <2>1, <2>2
  <2> QED
    BY <1>1, <2>2, <2>3, SeqsEqual
<1> QED
  BY <1>6, <1>7 DEF r, spaced, y

LEMMA FirstIs ==
  ASSUME NEW x, NEW k \in 1 .. Len(x), Len(x) \in Nat, x[k] = "=",
         \A i \in 1 .. Len(x) : i < k => x[i] # "="
  PROVE  SelectInSeq(x, LAMBDA c : c = "=") = k
<1> DEFINE I == {i \in 1 .. Len(x) : x[i] = "="}
<1>1. k \in I
  OBVIOUS
<1>2. \A i \in I : ~ (i < k) /\ i \in 1 .. Len(x)
  BY Zenon
<1>3. SelectInSeq(x, LAMBDA c : c = "=") = CHOOSE i \in I : \A m \in I : i =< m
  BY Zenon, <1>1 DEF SelectInSeq, Min
<1> HIDE DEF I
<1>4. k \in Int /\ (\A m \in I : k =< m) /\ \A i \in I : i \in Int /\ (i =< k => i = k)
  <2>1. k \in 1 .. Len(x) /\ Len(x) \in Nat
    OBVIOUS
  <2> QED
    BY ONLY <1>2, <2>1
<1>5. (CHOOSE i \in I : \A m \in I : i =< m) = k
  BY Zenon, <1>1, <1>4
<1> QED
  BY <1>3, <1>5

LEMMA NoneIs ==
  ASSUME NEW x, \A i \in 1 .. Len(x) : x[i] # "="
  PROVE  SelectInSeq(x, LAMBDA c : c = "=") = 0
<1>1. {i \in 1 .. Len(x) : x[i] = "="} = {}
  BY Zenon
<1> QED
  BY Zenon, <1>1 DEF SelectInSeq

IsWord(s) == IsSeq(s) /\ Trimmed(s)

(* A part with a name and a value. *)
LEMMA NameAndValue ==
  ASSUME NEW n, NEW v, IsWord(n), IsWord(v), n # << >>, \A i \in 1 .. Len(n) : n[i] # "="
  PROVE  LET x == n \o <<"=">> \o v IN
         /\ IsSeq(x) /\ x # << >> /\ NameOf(x) = n /\ ValueOf(x) = v
         /\ Len(x) = Len(n) + 1 + Len(v)
         /\ (\A i \in 1 .. Len(n) : x[i] = n[i]) /\ x[Len(n) + 1] = "="
         /\ \A i \in 1 .. Len(v) : x[Len(n) + 1 + i] = v[i]
<1> DEFINE e == <<"=">>
           y == n \o e
           x == y \o v
           a == Len(n)
           b == Len(v)
<1>1. IsSeq(n) /\ IsSeq(v) /\ IsSeq(e) /\ a \in Nat /\ b \in Nat /\ Len(e) = 1 /\ a # 0
  BY SeqIs, WordsAreSeqs DEF IsWord
<1>2. e[1] = "="
  OBVIOUS
<1> HIDE DEF e
<1>3. /\ IsSeq(y) /\ Len(y) = a + 1 /\ y[a + 1] = e[1]
      /\ \A i \in 1 .. a : y[i] = n[i]
  <2>1. IsSeq(n) /\ IsSeq(e)
    BY <1>1
  <2>2. /\ IsSeq(y) /\ Len(y) = Len(n) + Len(e)
        /\ \A i \in 1 .. Len(n) : y[i] = n[i]
        /\ \A i \in 1 .. Len(e) : y[Len(n) + i] = e[i]
    BY ONLY <2>1, JoinOf
  <2> HIDE DEF y
  <2> QED
    BY ONLY <1>1, <2>2
<1> HIDE DEF y
<1>4. /\ IsSeq(x) /\ Len(x) = a + 1 + b
      /\ \A i \in 1 .. a + 1 : x[i] = y[i]
      /\ \A i \in 1 .. b : x[a + 1 + i] = v[i]
  <2>1. IsSeq(y) /\ IsSeq(v)
    BY <1>1, <1>3
  <2>2. /\ IsSeq(x) /\ Len(x) = Len(y) + Len(v)
        /\ \A i \in 1 .. Len(y) : x[i] = y[i]
        /\ \A i \in 1 .. Len(v) : x[Len(y) + i] = v[i]
    BY ONLY <2>1, JoinOf
  <2> HIDE DEF x
  <2> QED
    BY ONLY <1>1, <1>3, <2>2
<1> HIDE DEF x
<1>5. (\A i \in 1 .. a : x[i] = n[i]) /\ x[a + 1] = e[1]
  <2>1. (\A i \in 1 .. a : i \in 1 .. a + 1) /\ a + 1 \in 1 .. a + 1
    BY ONLY <1>1
  <2> QED
    BY ONLY <1>3, <1>4, <2>1
<1>6. SelectInSeq(x, LAMBDA c : c = "=") = a + 1
  <2>1. a + 1 \in 1 .. Len(x) /\ Len(x) \in Nat
    BY ONLY <1>1, <1>4
  <2>2. \A i \in 1 .. Len(x) : i < a + 1 => i \in 1 .. a
    BY ONLY <1>1, <1>4
  <2>3. \A i \in 1 .. Len(x) : i < a + 1 => x[i] # "="
    BY Zenon, <1>5, <2>2
  <2> DEFINE k == a + 1
  <2> HIDE DEF k
  <2>4. k \in 1 .. Len(x) /\ Len(x) \in Nat /\ x[k] = "=" /\ \A i \in 1 .. Len(x) : i < k => x[i] # "="
    BY Zenon, <1>2, <1>5, <2>1, <2>3 DEF k
  <2> QED
    BY <2>4, FirstIs DEF k
<1> DEFINE posi == SelectInSeq(x, LAMBDA c : c = "=") - 1
<1>7. posi = a /\ posi + 2 = a + 2 /\ posi # 0
  BY ONLY <1>1, <1>6
<1>8. SubSeq(x, 1, a) = n
  <2> DEFINE r == SubSeq(x, 1, a)
  <2>1. IsSeq(x) /\ a \in Nat /\ a <= Len(x)
    BY ONLY <1>1, <1>4
  <2>2. IsSeq(r) /\ Len(r) = a /\ \A i \in 1 .. a : r[i] = x[i]
    BY ONLY <2>1, BeginIs
  <2> HIDE DEF r
  <2>3. Len(r) = Len(n) /\ \A i \in 1 .. Len(r) : r[i] = n[i]
    BY ONLY <1>5, <2>2
  <2> QED
    BY <1>1, <2>2, <2>3, SeqsEqual DEF r
<1>9. SubSeq(x, a + 2, Len(x)) = v
  <2> DEFINE m == a + 2
             l == Len(x)
             r == SubSeq(x, m, l)
  <2>1. IsSeq(x) /\ m \in Nat /\ l \in Nat /\ m # 0 /\ l <= Len(x) /\ m <= l + 1
    BY ONLY <1>1, <1>4
  <2>2. l - m + 1 = b /\ \A i \in 1 .. b : m - 1 + i = a + 1 + i
    BY ONLY <1>1, <1>4
  <2> HIDE DEF m, l
  <2>3. IsSeq(r) /\ Len(r) = l - m + 1 /\ \A i \in 1 .. l - m + 1 : r[i] = x[m - 1 + i]
    BY ONLY <2>1, PieceIs
  <2> HIDE DEF r
  <2>4. Len(r) = Len(v) /\ \A i \in 1 .. Len(r) : r[i] = v[i]
    BY ONLY <1>4, <2>2, <2>3
  <2>5. r = v
    BY <1>1, <2>3, <2>4, SeqsEqual
  <2> QED
    BY <2>5 DEF r, m, l
<1>10. WithoutBlanks(n) = n /\ WithoutBlanks(v) = v
  BY TrimmedStays DEF IsWord
<1>11. NameOf(x) = n
  BY Zenon, <1>7, <1>8, <1>10 DEF NameOf
<1>12. ValueOf(x) = v
  BY Zenon, <1>7, <1>9, <1>10 DEF ValueOf
<1>13. x # << >>
  <2>1. Len(x) # 0
    BY ONLY <1>1, <1>4
  <2> QED
    BY <1>4, <2>1, SeqIs
<1> QED
  BY Zenon, <1>2, <1>4, <1>5, <1>11, <1>12, <1>13 DEF x, y, e

(* A flag has no name. *)
LEMMA FlagHasNoName ==
  ASSUME NEW x, x # "="
  PROVE  NameOf(<<x>>) = << >>
<1> DEFINE s == <<x>>
<1>1. IsSeq(s) /\ Len(s) = 1 /\ \A i \in 1 .. Len(s) : s[i] # "="
  BY WordsAreSeqs
<1>2. SubSeq(s, 1, 0 - 1) = << >>
  OBVIOUS
<1>3. WithoutBlanks(<< >>) = << >>
  BY WordsAreSeqs, TrimmedStays DEF Trimmed
<1> HIDE DEF s
<1>4. SelectInSeq(s, LAMBDA c : c = "=") = 0
  BY <1>1, NoneIs
<1>5. 0 - 1 # 0
  OBVIOUS
<1>6. NameOf(s) = << >>
  BY Zenon, <1>2, <1>3, <1>4, <1>5 DEF NameOf
<1> QED
  BY <1>6 DEF s

-----------------------------------------------------------------------------
(* A text that was written part by part, and its parts. *)

WrittenAs(t, parts) ==
  \E before, rest :
    /\ SplitInto(t, before, rest) /\ IsSeq(before) /\ IsSeq(rest)
    /\ WithoutBlanks(rest) # << >> /\ parts = Append(before, WithoutBlanks(rest))

LEMMA FirstWritten ==
  ASSUME NEW s, Whole(s), WithoutBlanks(s) # << >>
  PROVE  WrittenAs(s, <<WithoutBlanks(s)>>)
<1>1. IsSeq(s) /\ IsSeq(<< >>)
  BY WordsAreSeqs DEF Whole
<1>2. SplitInto(<< >> \o s, << >>, << >> \o s)
  BY <1>1, SplitNothing, SplitMore
<1>3. << >> \o s = s
  BY ONLY <1>1, JoinNothing
<1>4. <<WithoutBlanks(s)>> = Append(<< >>, WithoutBlanks(s))
  OBVIOUS
<1> QED
  BY <1>1, <1>2, <1>3, <1>4 DEF WrittenAs

LEMMA NextWritten ==
  ASSUME NEW whole, NEW parts, WrittenAs(whole, parts), NEW s, Whole(s), WithoutBlanks(s) # << >>
  PROVE  WrittenAs(whole \o (<<";">> \o s), Append(parts, WithoutBlanks(s)))
<1>1. PICK before, rest :
        /\ SplitInto(whole, before, rest) /\ IsSeq(before) /\ IsSeq(rest)
        /\ WithoutBlanks(rest) # << >> /\ parts = Append(before, WithoutBlanks(rest))
  BY DEF WrittenAs
<1>2. SplitInto(whole \o (<<";">> \o s), parts, s)
  BY <1>1, SplitAtSemicolon
<1> DEFINE w == WithoutBlanks(rest)
<1> HIDE DEF w
<1>3. IsSeq(Append(before, w))
  BY ONLY <1>1, AppendOf
<1>4. IsSeq(parts) /\ IsSeq(s)
  BY <1>1, <1>3 DEF w, Whole
<1> QED
  BY <1>2, <1>4 DEF WrittenAs

LEMMA WrittenIsRead ==
  ASSUME NEW whole, NEW parts, WrittenAs(whole, parts)
  PROVE  ReferenceParts(whole) = parts /\ IsSeq(parts) /\ IsSeq(whole)
<1>1. PICK before, rest :
        /\ SplitInto(whole, before, rest) /\ IsSeq(before) /\ IsSeq(rest)
        /\ WithoutBlanks(rest) # << >> /\ parts = Append(before, WithoutBlanks(rest))
  BY DEF WrittenAs
<1>2. IsSeq(whole) /\ ListAt(whole, Len(whole)) = before /\ BufferAt(whole, Len(whole)) = rest
  BY <1>1 DEF SplitInto
<1>3. ReferenceParts(whole) = parts
  BY <1>1, <1>2, CutsAtEnd
<1> DEFINE w == WithoutBlanks(rest)
<1> HIDE DEF w
<1>4. IsSeq(Append(before, w))
  BY ONLY <1>1, AppendOf
<1> QED
  BY <1>1, <1>2, <1>3, <1>4 DEF w

(* A character that is no separator. *)
Letter(x) == x # ";" /\ x # "\"" /\ x # " " /\ x # "="

(* Every attribute begins with a blank. *)
LEMMA BlankWritten ==
  ASSUME NEW whole, NEW parts, WrittenAs(whole, parts), NEW part, IsWord(part), part # << >>,
         Whole(part)
  PROVE  WrittenAs(whole \o (<<";">> \o (<<" ">> \o part)), Append(parts, part))
<1> DEFINE b == <<" ">>
           s == b \o part
<1>1. IsSeq(part) /\ IsSeq(b) /\ Len(b) = 1 /\ Len(part) \in Nat
  BY WordsAreSeqs, SeqIs DEF IsWord
<1>2. b[1] = " "
  OBVIOUS
<1>3. WithoutBlanks(s) = part
  BY BlankRemoved DEF IsWord
<1> HIDE DEF b
<1>4. Whole(s)
  <2>1. IsSeq(b) /\ IsSeq(part)
    BY <1>1
  <2>2. /\ IsSeq(s) /\ Len(s) = Len(b) + Len(part)
        /\ \A i \in 1 .. Len(b) : s[i] = b[i]
        /\ \A i \in 1 .. Len(part) : s[Len(b) + i] = part[i]
    BY ONLY <2>1, JoinOf
  <2> HIDE DEF s
  <2>3. \A i \in 1 .. Len(s) : \/ s[i] = b[1]
                               \/ \E k \in 1 .. Len(part) : s[i] = part[k]
    <3> TAKE i \in 1 .. Len(s)
    <3>1. i = 1 \/ (i - 1 \in 1 .. Len(part) /\ i = 1 + (i - 1))
      BY ONLY <1>1, <2>2
    <3>2. 1 \in 1 .. Len(b)
      BY ONLY <1>1
    <3>3. CASE i = 1
      BY Zenon, <2>2, <3>2, <3>3
    <3>4. CASE i - 1 \in 1 .. Len(part) /\ i = 1 + (i - 1)
      <4>1. PICK k \in 1 .. Len(part) : i = 1 + k
        BY Zenon, <3>4
      <4>2. s[Len(b) + k] = part[k]
        BY Zenon, <2>2
      <4> QED
        BY Zenon, <1>1, <4>1, <4>2
    <3> QED
      BY Zenon, <3>1, <3>3, <3>4
  <2>4. " " # ";" /\ " " # "\""
    OBVIOUS
  <2> QED
    BY Zenon, <1>2, <2>2, <2>3, <2>4 DEF Whole
<1> HIDE DEF s
<1>5. WrittenAs(whole \o (<<";">> \o s), Append(parts, part))
  BY <1>3, <1>4, NextWritten
<1> QED
  BY <1>5 DEF s, b

LEMMA NamedPart ==
  ASSUME NEW n, NEW v, IsWord(n), Whole(n), n # << >>, \A i \in 1 .. Len(n) : n[i] # "=",
         IsWord(v), Whole(v)
  PROVE  LET x == n \o <<"=">> \o v IN
         /\ NameOf(x) = n /\ ValueOf(x) = v
         /\ IsWord(x) /\ x # << >> /\ Whole(x)
<1> DEFINE x == n \o <<"=">> \o v
           a == Len(n)
           b == Len(v)
<1>1. IsSeq(n) /\ IsSeq(v) /\ a \in Nat /\ b \in Nat /\ a # 0
  BY SeqIs DEF IsWord
<1>2. /\ IsSeq(x) /\ x # << >> /\ NameOf(x) = n /\ ValueOf(x) = v
      /\ Len(x) = a + 1 + b
      /\ (\A i \in 1 .. a : x[i] = n[i]) /\ x[a + 1] = "="
      /\ \A i \in 1 .. b : x[a + 1 + i] = v[i]
  BY NameAndValue
<1> HIDE DEF x
<1>3. Whole(x)
  <2>1. \A i \in 1 .. Len(x) : i \in 1 .. a \/ i = a + 1
                                \/ (i - (a + 1) \in 1 .. b /\ i = a + 1 + (i - (a + 1)))
    BY ONLY <1>1, <1>2
  <2>2. "=" # ";" /\ "=" # "\""
    OBVIOUS
  <2>3. \A i \in 1 .. a : n[i] # ";" /\ n[i] # "\""
    BY Zenon DEF Whole
  <2>4. \A i \in 1 .. b : v[i] # ";" /\ v[i] # "\""
    BY Zenon DEF Whole
  <2>5. \A i \in 1 .. Len(x) : x[i] # ";" /\ x[i] # "\""
    <3> TAKE i \in 1 .. Len(x)
    <3>1. CASE i \in 1 .. a
      BY Zenon, <1>2, <2>3, <3>1
    <3>2. CASE i = a + 1
      BY Zenon, <1>2, <2>2, <3>2
    <3>3. CASE i - (a + 1) \in 1 .. b /\ i = a + 1 + (i - (a + 1))
      <4>1. x[i] = v[i - (a + 1)]
        BY Zenon, <1>2, <3>3
      <4> QED
        BY Zenon, <2>4, <3>3, <4>1
    <3> QED
      BY Zenon, <2>1, <3>1, <3>2, <3>3
  <2> QED
    BY Zenon, <1>2, <2>5 DEF Whole
<1>4. Trimmed(x)
  <2>1. x[1] # " "
    <3>1. 1 \in 1 .. a
      BY ONLY <1>1
    <3> QED
      BY Zenon, <1>2, <3>1 DEF IsWord, Trimmed
  <2>2. CASE v = << >>
    <3>1. b = 0
      BY <1>1, <2>2, SeqIs
    <3>2. Len(x) = a + 1
      BY ONLY <1>1, <1>2, <3>1
    <3>3. "=" # " "
      OBVIOUS
    <3> QED
      BY Zenon, <1>2, <2>1, <3>2, <3>3 DEF Trimmed
  <2>3. CASE v # << >>
    <3>1. b # 0
      BY <1>1, <2>3, SeqIs
    <3>2. b \in 1 .. b /\ Len(x) = a + 1 + b
      BY ONLY <1>1, <1>2, <3>1
    <3>3. x[Len(x)] = v[b]
      BY Zenon, <1>2, <3>2
    <3> QED
      BY Zenon, <2>1, <2>3, <3>3 DEF Trimmed, IsWord
  <2> QED
    BY <2>2, <2>3
<1> QED
  BY Zenon, <1>2, <1>3, <1>4 DEF IsWord, x

(***************************************************************************)
(* The parts of a written cookie: the first has its name and value, each   *)
(* of the others no name, or that of an attribute with its value.          *)
(***************************************************************************)
AttributeTold(x, c) ==
  \/ NameOf(x) = << >> \/ NameOf(x) = <<"Version">>
  \/ NameOf(x) = <<"Comment">> /\ ValueOf(x) = c.Comment
  \/ NameOf(x) = <<"Domain">> /\ ValueOf(x) = c.Domain
  \/ NameOf(x) = <<"Max-Age">> /\ ValueOf(x) = c.maxAge
  \/ NameOf(x) = <<"Path">> /\ ValueOf(x) = c.Path

CookieTold(parts, c) ==
  /\ Len(parts) # 0
  /\ NameOf(parts[1]) = c.name /\ ValueOf(parts[1]) = c.value
  /\ \A i \in 2 .. Len(parts) : AttributeTold(parts[i], c)

(* An attribute with a value has its part. *)
HasPart(parts, name, value) ==
  value # << >> => \E i \in 2 .. Len(parts) : NameOf(parts[i]) = <<name>>

LEMMA ToldMore ==
  ASSUME NEW parts, NEW c, IsSeq(parts), CookieTold(parts, c), NEW x, AttributeTold(x, c)
  PROVE  /\ CookieTold(Append(parts, x), c)
         /\ \A n, v : HasPart(parts, n, v) => HasPart(Append(parts, x), n, v)
         /\ \A n, v : NameOf(x) = <<n>> => HasPart(Append(parts, x), n, v)
<1> DEFINE more == Append(parts, x)
           m == Len(parts)
<1>1. m \in Nat /\ m # 0
  BY SeqIs DEF CookieTold
<1>2. /\ IsSeq(more) /\ Len(more) = m + 1
      /\ \A i \in 1 .. m : more[i] = parts[i]
      /\ more[m + 1] = x
  BY ONLY IsSeq(parts), AppendOf, ZenonT(40)
<1> HIDE DEF more
<1>3. /\ 1 \in 1 .. m /\ m + 1 \in 2 .. m + 1 /\ Len(more) # 0
      /\ \A i \in 2 .. m + 1 : i \in 2 .. m \/ i = m + 1
      /\ \A i \in 2 .. m : i \in 1 .. m /\ i \in 2 .. m + 1
  BY ONLY <1>1, <1>2
<1>4. CookieTold(more, c)
  <2>1. \A i \in 2 .. Len(more) : AttributeTold(more[i], c)
    BY Zenon, <1>2, <1>3 DEF CookieTold
  <2> QED
    BY Zenon, <1>2, <1>3, <2>1 DEF CookieTold
<1>5. ASSUME NEW n, NEW v, HasPart(parts, n, v) PROVE HasPart(more, n, v)
  BY Zenon, <1>2, <1>3, <1>5 DEF HasPart
<1>6. ASSUME NEW n, NEW v, NameOf(x) = <<n>> PROVE HasPart(more, n, v)
  BY Zenon, <1>2, <1>3, <1>6 DEF HasPart
<1> QED
  BY Zenon, <1>4, <1>5, <1>6 DEF more

LEMMA PutInFront ==
  ASSUME NEW x, NEW s, IsSeq(s)
  PROVE  /\ IsSeq(<<x>> \o s) /\ Len(<<x>> \o s) = 1 + Len(s)
         /\ (<<x>> \o s)[1] = x /\ \A i \in 1 .. Len(s) : (<<x>> \o s)[1 + i] = s[i]
<1> DEFINE y == <<x>>
           t == y \o s
<1>1. IsSeq(y) /\ Len(y) = 1 /\ y[1] = x /\ IsSeq(s)
  BY WordsAreSeqs
<1> HIDE DEF y
<1>2. /\ IsSeq(t) /\ Len(t) = Len(y) + Len(s)
      /\ \A i \in 1 .. Len(y) : t[i] = y[i]
      /\ \A i \in 1 .. Len(s) : t[Len(y) + i] = s[i]
  <2>1. IsSeq(y) /\ IsSeq(s)
    BY <1>1
  <2> QED
    BY ONLY <2>1, JoinOf
<1> HIDE DEF t
<1>3. IsSeq(t) /\ Len(t) = 1 + Len(s) /\ t[1] = x /\ \A i \in 1 .. Len(s) : t[1 + i] = s[i]
  BY ONLY <1>1, <1>2
<1> QED
  BY <1>3 DEF t, y

LEMMA WordsJoin ==
  /\ \A x, y : <<x>> \o <<y>> = <<x, y>>
  /\ \A x, y, z : <<x>> \o (<<y>> \o <<z>>) = <<x, y, z>>
  /\ \A x, y, z, w : <<x>> \o (<<y>> \o (<<z>> \o <<w>>)) = <<x, y, z, w>>
<1>0. ASSUME NEW x, NEW y PROVE <<x>> \o <<y>> = <<x, y>>
  <2> DEFINE a == <<y>>
             b == <<x>> \o a
             e == <<x, y>>
  <2>1. IsSeq(a) /\ Len(a) = 1 /\ a[1] = y /\ IsSeq(e) /\ Len(e) = 2 /\ e[1] = x /\ e[2] = y
    BY WordsAreSeqs
  <2> HIDE DEF a, e
  <2>2. IsSeq(b) /\ Len(b) = 1 + Len(a) /\ b[1] = x /\ \A i \in 1 .. Len(a) : b[1 + i] = a[i]
    <3>1. IsSeq(a)
      BY <2>1
    <3> QED
      BY ONLY <3>1, PutInFront
  <2> HIDE DEF b
  <2>3. Len(b) = 2 /\ b[1] = x /\ b[2] = y
    BY ONLY <2>1, <2>2
  <2>4. \A i \in 1 .. Len(b) : i = 1 \/ i = 2
    BY ONLY <2>3
  <2>5. b = e
    <3>1. Len(b) = Len(e) /\ \A i \in 1 .. Len(b) : b[i] = e[i]
      BY Zenon, <2>1, <2>3, <2>4
    <3> QED
      BY <2>1, <2>2, <3>1, SeqsEqual
  <2> QED
    BY <2>5 DEF a, b, e
<1>1. ASSUME NEW x, NEW y, NEW z PROVE <<x>> \o (<<y>> \o <<z>>) = <<x, y, z>>
  <2> DEFINE a == <<z>>
             b == <<y>> \o a
             d == <<x>> \o b
             e == <<x, y, z>>
  <2>1. /\ IsSeq(a) /\ Len(a) = 1 /\ a[1] = z
        /\ IsSeq(e) /\ Len(e) = 3 /\ e[1] = x /\ e[2] = y /\ e[3] = z
    BY WordsAreSeqs
  <2> HIDE DEF a, e
  <2>2. IsSeq(b) /\ Len(b) = 1 + Len(a) /\ b[1] = y /\ \A i \in 1 .. Len(a) : b[1 + i] = a[i]
    <3>1. IsSeq(a)
      BY <2>1
    <3> QED
      BY ONLY <3>1, PutInFront
  <2> HIDE DEF b
  <2>3. IsSeq(d) /\ Len(d) = 1 + Len(b) /\ d[1] = x /\ \A i \in 1 .. Len(b) : d[1 + i] = b[i]
    <3>1. IsSeq(b)
      BY <2>2
    <3> QED
      BY ONLY <3>1, PutInFront
  <2> HIDE DEF d
  <2>4. Len(d) = 3 /\ d[1] = x /\ d[2] = y /\ d[3] = z
    BY ONLY <2>1, <2>2, <2>3
  <2>5. \A i \in 1 .. Len(d) : i = 1 \/ i = 2 \/ i = 3
    BY ONLY <2>4
  <2>6. d = e
    <3>1. Len(d) = Len(e) /\ \A i \in 1 .. Len(d) : d[i] = e[i]
      BY Zenon, <2>1, <2>4, <2>5
    <3> QED
      BY <2>1, <2>3, <3>1, SeqsEqual
  <2> QED
    BY <2>6 DEF a, b, d, e
<1>2. ASSUME NEW x, NEW y, NEW z, NEW w
      PROVE  <<x>> \o (<<y>> \o (<<z>> \o <<w>>)) = <<x, y, z, w>>
  <2> DEFINE b == <<y>> \o (<<z>> \o <<w>>)
             c == <<y, z, w>>
             d == <<x>> \o b
             e == <<x, y, z, w>>
  <2>1. b = c
    BY <1>1
  <2>2. /\ IsSeq(c) /\ Len(c) = 3 /\ c[1] = y /\ c[2] = z /\ c[3] = w
        /\ IsSeq(e) /\ Len(e) = 4 /\ e[1] = x /\ e[2] = y /\ e[3] = z /\ e[4] = w
    BY WordsAreSeqs
  <2> HIDE DEF b, c, e
  <2>3. IsSeq(d) /\ Len(d) = 1 + Len(b) /\ d[1] = x /\ \A i \in 1 .. Len(b) : d[1 + i] = b[i]
    <3>1. IsSeq(b)
      BY <2>1, <2>2
    <3> QED
      BY ONLY <3>1, PutInFront
  <2> HIDE DEF d
  <2>4. Len(d) = 4 /\ d[1] = x /\ d[2] = y /\ d[3] = z /\ d[4] = w
    <3>1. Len(b) = 3 /\ b[1] = y /\ b[2] = z /\ b[3] = w
      BY <2>1, <2>2
    <3>2. d[1 + 1] = b[1] /\ d[1 + 2] = b[2] /\ d[1 + 3] = b[3]
      <4>1. 1 \in 1 .. Len(b) /\ 2 \in 1 .. Len(b) /\ 3 \in 1 .. Len(b)
        BY ONLY <3>1
      <4> QED
        BY ONLY <2>3, <4>1
    <3> QED
      BY ONLY <2>3, <3>1, <3>2
  <2>5. \A i \in 1 .. Len(d) : i = 1 \/ i = 2 \/ i = 3 \/ i = 4
    BY ONLY <2>4
  <2>6. d = e
    <3>1. Len(d) = Len(e) /\ \A i \in 1 .. Len(d) : d[i] = e[i]
      BY Zenon, <2>2, <2>4, <2>5
    <3> QED
      BY <2>2, <2>3, <3>1, SeqsEqual
  <2> QED
    BY <2>6 DEF b, d, e
<1> QED
  BY <1>0, <1>1, <1>2

(* One more attribute is written, or none. *)
LEMMA AttributeWritten ==
  ASSUME NEW whole, NEW parts, WrittenAs(whole, parts), NEW c, CookieTold(parts, c),
         NEW name, Letter(name), NEW value, IsWord(value), Whole(value),
         \A x : NameOf(x) = <<name>> /\ ValueOf(x) = value => AttributeTold(x, c)
  PROVE  \E more : /\ WrittenAs(whole \o Attribute(name, value), more) /\ CookieTold(more, c)
                   /\ HasPart(more, name, value)
                   /\ \A n, v : HasPart(parts, n, v) => HasPart(more, n, v)
<1>1. CASE value = << >>
  <2>1. IsSeq(whole)
    BY WrittenIsRead
  <2>2. whole \o << >> = whole
    BY ONLY <2>1, JoinNothing
  <2>3. whole \o Attribute(name, value) = whole
    BY <1>1, <2>2 DEF Attribute
  <2> QED
    BY Zenon, <1>1, <2>3 DEF HasPart
<1>2. CASE value # << >>
  <2> DEFINE n == <<name>>
             x == n \o <<"=">> \o value
  <2>1. IsWord(n) /\ Whole(n) /\ n # << >> /\ \A i \in 1 .. Len(n) : n[i] # "="
    <3>1. IsSeq(n) /\ Len(n) = 1 /\ n[1] = name /\ n # << >> /\ \A i \in 1 .. Len(n) : n[i] = name
      BY WordsAreSeqs
    <3> HIDE DEF n
    <3> QED
      BY Zenon, <3>1 DEF IsWord, Whole, Trimmed, Letter
  <2> HIDE DEF n
  <2>2. /\ NameOf(x) = n /\ ValueOf(x) = value
        /\ IsWord(x) /\ x # << >> /\ Whole(x)
    BY <2>1, NamedPart
  <2>3. AttributeTold(x, c)
    BY Zenon, <2>2 DEF n
  <2>4. WrittenAs(whole \o (<<";">> \o (<<" ">> \o x)), Append(parts, x))
    BY <2>2, BlankWritten
  <2>5. Attribute(name, value) = <<";">> \o (<<" ">> \o x)
    <3> DEFINE s == <<";">>
               b == <<" ">>
               e == <<"=">>
    <3>1. Attribute(name, value) = <<";", " ", name, "=">> \o value
      BY Zenon, <1>2 DEF Attribute
    <3>2. IsSeq(s) /\ IsSeq(b) /\ IsSeq(e) /\ IsSeq(n) /\ IsSeq(value)
      BY WordsAreSeqs DEF n, IsWord
    <3>3. <<";", " ", name, "=">> = s \o (b \o (n \o e))
      BY WordsJoin DEF n
    <3> DEFINE y == n \o e
               r == b \o y
    <3> HIDE DEF s, b, e
    <3>4. IsSeq(y)
      BY ONLY <3>2, JoinOf
    <3> HIDE DEF y
    <3>5. IsSeq(r)
      BY ONLY <3>2, <3>4, JoinOf
    <3>7. (b \o y) \o value = b \o (y \o value)
      <4>1. IsSeq(b) /\ IsSeq(y) /\ IsSeq(value)
        BY Zenon, <3>2, <3>4
      <4> QED
        BY ONLY <4>1, JoinAssociates
    <3> HIDE DEF r
    <3>6. (s \o r) \o value = s \o (r \o value)
      <4>1. IsSeq(s) /\ IsSeq(r) /\ IsSeq(value)
        BY Zenon, <3>2, <3>5
      <4> QED
        BY ONLY <4>1, JoinAssociates
    <3> QED
      BY Zenon, <3>1, <3>3, <3>6, <3>7 DEF s, b, e, y, r
  <2>6. IsSeq(parts)
    BY WrittenIsRead
  <2> HIDE DEF x
  <2>7. /\ CookieTold(Append(parts, x), c)
        /\ \A m, v : HasPart(parts, m, v) => HasPart(Append(parts, x), m, v)
        /\ HasPart(Append(parts, x), name, value)
    BY <2>2, <2>3, <2>6, ToldMore DEF n
  <2> QED
    BY Zenon, <2>4, <2>5, <2>7
<1> QED
  BY <1>1, <1>2

LEMMA FlagWritten ==
  ASSUME NEW whole, NEW parts, WrittenAs(whole, parts), NEW c, CookieTold(parts, c),
         NEW name, Letter(name), NEW set \in BOOLEAN
  PROVE  \E more : /\ WrittenAs(whole \o Flag(name, set), more) /\ CookieTold(more, c)
                   /\ \A n, v : HasPart(parts, n, v) => HasPart(more, n, v)
<1>1. CASE ~ set
  <2>1. IsSeq(whole)
    BY WrittenIsRead
  <2>2. whole \o << >> = whole
    BY ONLY <2>1, JoinNothing
  <2>3. whole \o Flag(name, set) = whole
    BY <1>1, <2>2 DEF Flag
  <2> QED
    BY Zenon, <2>3
<1>2. CASE set
  <2> DEFINE x == <<name>>
  <2>1. IsWord(x) /\ Whole(x) /\ x # << >>
    <3>1. IsSeq(x) /\ Len(x) = 1 /\ x[1] = name /\ x # << >> /\ \A i \in 1 .. Len(x) : x[i] = name
      BY WordsAreSeqs
    <3> HIDE DEF x
    <3> QED
      BY Zenon, <3>1 DEF IsWord, Whole, Trimmed, Letter
  <2>2. NameOf(x) = << >>
    BY FlagHasNoName DEF Letter
  <2>3. AttributeTold(x, c)
    BY Zenon, <2>2 DEF AttributeTold
  <2>4. Flag(name, set) = <<";">> \o (<<" ">> \o x)
    <3>1. <<";", " ", name>> = <<";">> \o (<<" ">> \o x)
      BY WordsJoin
    <3> QED
      BY Zenon, <1>2, <3>1 DEF Flag
  <2> HIDE DEF x
  <2>5. WrittenAs(whole \o (<<";">> \o (<<" ">> \o x)), Append(parts, x))
    BY <2>1, BlankWritten
  <2>6. IsSeq(parts)
    BY WrittenIsRead
  <2>7. /\ CookieTold(Append(parts, x), c)
        /\ \A n, v : HasPart(parts, n, v) => HasPart(Append(parts, x), n, v)
    BY <2>3, <2>6, ToldMore
  <2> QED
    BY Zenon, <2>4, <2>5, <2>7
<1> QED
  BY <1>1, <1>2

LEMMA ReadableIs ==
  ASSUME NEW t, IsSeq(t), ReadableText(t)
  PROVE  IsWord(t) /\ Whole(t)
<1>1. DOMAIN t = 1 .. Len(t)
  BY SeqIs
<1> QED
  BY Zenon, <1>1 DEF ReadableText, IsWord, Whole, Trimmed

LEMMA CookieIs ==
  ASSUME CookiesReadable, NEW c \in Cookies
  PROVE  /\ IsWord(c.name) /\ Whole(c.name) /\ c.name # << >>
         /\ \A i \in 1 .. Len(c.name) : c.name[i] # "="
         /\ \A a \in Attributes : c.name # <<a>>
         /\ IsWord(c.value) /\ Whole(c.value) /\ IsWord(c.Comment) /\ Whole(c.Comment)
         /\ IsWord(c.Domain) /\ Whole(c.Domain) /\ IsWord(c.maxAge) /\ Whole(c.maxAge)
         /\ IsWord(c.Path) /\ Whole(c.Path) /\ c.secure \in BOOLEAN /\ c.httpOnly \in BOOLEAN
         /\ DOMAIN c = DOMAIN NewCookie
<1>1. /\ IsSeq(c.name) /\ IsSeq(c.value) /\ IsSeq(c.Comment) /\ IsSeq(c.Domain)
      /\ IsSeq(c.maxAge) /\ IsSeq(c.Path)
  BY TextsAssumption DEF NewCookie, IsText, IsSeq
<1>2. c.secure \in BOOLEAN /\ c.httpOnly \in BOOLEAN /\ DOMAIN c = DOMAIN NewCookie
  BY Zenon, TextsAssumption
<1>3. /\ ReadableName(c.name) /\ \A a \in Attributes : c.name # <<a>>
      /\ ReadableText(c.value) /\ ReadableText(c.Comment)
      /\ ReadableText(c.Domain) /\ ReadableText(c.maxAge) /\ ReadableText(c.Path)
  BY Zenon DEF CookiesReadable
<1>4. /\ ReadableText(c.name) /\ c.name # << >> /\ DOMAIN c.name = 1 .. Len(c.name)
      /\ \A i \in DOMAIN c.name : c.name[i] # "="
  BY <1>1, <1>3, SeqIs DEF ReadableName
<1> QED
  BY Zenon, <1>1, <1>2, <1>3, <1>4, ReadableIs

(* What toByteArray writes. *)
LEMMA CookieIsTold ==
  ASSUME CookiesReadable, NEW c \in Cookies
  PROVE  \E parts : /\ ReferenceParts(ToByteArray(c)) = parts /\ IsSeq(parts)
                    /\ CookieTold(parts, c)
                    /\ HasPart(parts, "Comment", c.Comment) /\ HasPart(parts, "Domain", c.Domain)
                    /\ HasPart(parts, "Max-Age", c.maxAge) /\ HasPart(parts, "Path", c.Path)
<1> DEFINE t0 == c.name \o <<"=">> \o c.value
           t1 == t0 \o Attribute("Comment", c.Comment)
           t2 == t1 \o Attribute("Domain", c.Domain)
           t3 == t2 \o Attribute("Max-Age", c.maxAge)
           t4 == t3 \o Attribute("Path", c.Path)
           t5 == t4 \o Flag("Secure", c.secure)
           t6 == t5 \o Flag("HttpOnly", c.httpOnly)
           t7 == t6 \o Attribute("Version", <<"1">>)
<1>1. ToByteArray(c) = t7
  BY Zenon DEF ToByteArray
<1>2. /\ Letter("Comment") /\ Letter("Domain") /\ Letter("Max-Age") /\ Letter("Path")
      /\ Letter("Secure") /\ Letter("HttpOnly") /\ Letter("Version")
  BY DEF Letter
<1>3. IsWord(<<"1">>) /\ Whole(<<"1">>)
  <2> DEFINE s == <<"1">>
  <2>1. IsSeq(s) /\ Len(s) = 1 /\ s[1] = "1" /\ \A i \in 1 .. Len(s) : s[i] = "1"
    BY WordsAreSeqs
  <2>2. "1" # ";" /\ "1" # "\"" /\ "1" # " "
    OBVIOUS
  <2> HIDE DEF s
  <2>3. IsWord(s) /\ Whole(s)
    BY Zenon, <2>1, <2>2 DEF IsWord, Whole, Trimmed
  <2> QED
    BY <2>3 DEF s
<1>4. NameOf(t0) = c.name /\ ValueOf(t0) = c.value /\ IsWord(t0) /\ t0 # << >> /\ Whole(t0)
  BY CookieIs, NamedPart
<1>5. WrittenAs(t0, <<t0>>) /\ CookieTold(<<t0>>, c)
  <2> HIDE DEF t0
  <2>1. WithoutBlanks(t0) = t0
    BY <1>4, TrimmedStays DEF IsWord
  <2>2. WrittenAs(t0, <<t0>>)
    BY <1>4, <2>1, FirstWritten
  <2>3. Len(<<t0>>) = 1 /\ <<t0>>[1] = t0 /\ 2 .. 1 = {}
    OBVIOUS
  <2>4. CookieTold(<<t0>>, c)
    <3> DEFINE s == <<t0>>
    <3>1. Len(s) = 1 /\ s[1] = t0 /\ 1 # 0
      BY <2>3
    <3> HIDE DEF s
    <3>2. CookieTold(s, c)
      BY Zenon, <1>4, <2>3, <3>1 DEF CookieTold
    <3> QED
      BY <3>2 DEF s
  <2> QED
    BY <2>2, <2>4
<1> HIDE DEF t0
<1>6. PICK p1 : /\ WrittenAs(t1, p1) /\ CookieTold(p1, c) /\ HasPart(p1, "Comment", c.Comment)
  <2>1. \A x : NameOf(x) = <<"Comment">> /\ ValueOf(x) = c.Comment => AttributeTold(x, c)
    BY Zenon DEF AttributeTold
  <2>2. IsWord(c.Comment) /\ Whole(c.Comment)
    BY Zenon, CookieIs
  <2> QED
    BY Zenon, <1>2, <1>5, <2>1, <2>2, AttributeWritten
<1> HIDE DEF t1
<1>7. PICK p2 : /\ WrittenAs(t2, p2) /\ CookieTold(p2, c) /\ HasPart(p2, "Domain", c.Domain)
                /\ \A n, v : HasPart(p1, n, v) => HasPart(p2, n, v)
  <2>1. \A x : NameOf(x) = <<"Domain">> /\ ValueOf(x) = c.Domain => AttributeTold(x, c)
    BY Zenon DEF AttributeTold
  <2>2. IsWord(c.Domain) /\ Whole(c.Domain)
    BY Zenon, CookieIs
  <2> QED
    BY Zenon, <1>2, <1>6, <2>1, <2>2, AttributeWritten
<1> HIDE DEF t2
<1>8. PICK p3 : /\ WrittenAs(t3, p3) /\ CookieTold(p3, c) /\ HasPart(p3, "Max-Age", c.maxAge)
                /\ \A n, v : HasPart(p2, n, v) => HasPart(p3, n, v)
  <2>1. \A x : NameOf(x) = <<"Max-Age">> /\ ValueOf(x) = c.maxAge => AttributeTold(x, c)
    BY Zenon DEF AttributeTold
  <2>2. IsWord(c.maxAge) /\ Whole(c.maxAge)
    BY Zenon, CookieIs
  <2> QED
    BY Zenon, <1>2, <1>7, <2>1, <2>2, AttributeWritten
<1> HIDE DEF t3
<1>9. PICK p4 : /\ WrittenAs(t4, p4) /\ CookieTold(p4, c) /\ HasPart(p4, "Path", c.Path)
                /\ \A n, v : HasPart(p3, n, v) => HasPart(p4, n, v)
  <2>1. \A x : NameOf(x) = <<"Path">> /\ ValueOf(x) = c.Path => AttributeTold(x, c)
    BY Zenon DEF AttributeTold
  <2>2. IsWord(c.Path) /\ Whole(c.Path)
    BY Zenon, CookieIs
  <2> QED
    BY Zenon, <1>2, <1>8, <2>1, <2>2, AttributeWritten
<1> HIDE DEF t4
<1>10. PICK p5 : /\ WrittenAs(t5, p5) /\ CookieTold(p5, c)
                 /\ \A n, v : HasPart(p4, n, v) => HasPart(p5, n, v)
  <2>1. c.secure \in BOOLEAN
    BY Zenon, CookieIs
  <2> QED
    BY Zenon, <1>2, <1>9, <2>1, FlagWritten
<1> HIDE DEF t5
<1>11. PICK p6 : /\ WrittenAs(t6, p6) /\ CookieTold(p6, c)
                 /\ \A n, v : HasPart(p5, n, v) => HasPart(p6, n, v)
  <2>1. c.httpOnly \in BOOLEAN
    BY Zenon, CookieIs
  <2> QED
    BY Zenon, <1>2, <1>10, <2>1, FlagWritten
<1> HIDE DEF t6
<1>12. PICK p7 : /\ WrittenAs(t7, p7) /\ CookieTold(p7, c)
                 /\ \A n, v : HasPart(p6, n, v) => HasPart(p7, n, v)
  <2>1. \A x : NameOf(x) = <<"Version">> /\ ValueOf(x) = <<"1">> => AttributeTold(x, c)
    BY Zenon DEF AttributeTold
  <2> QED
    BY Zenon, <1>2, <1>3, <1>11, <2>1, AttributeWritten
<1> HIDE DEF t7
<1>13. /\ HasPart(p7, "Comment", c.Comment) /\ HasPart(p7, "Domain", c.Domain)
       /\ HasPart(p7, "Max-Age", c.maxAge) /\ HasPart(p7, "Path", c.Path)
  BY Zenon, <1>6, <1>7, <1>8, <1>9, <1>10, <1>11, <1>12
<1>14. ReferenceParts(t7) = p7 /\ IsSeq(p7)
  BY Zenon, <1>12, WrittenIsRead
<1> QED
  BY Zenon, <1>1, <1>12, <1>13, <1>14

-----------------------------------------------------------------------------
(* What the constructor has read. *)

LEMMA SetFieldIs ==
  ASSUME NEW c, NEW v
  PROVE  /\ SetField(c, <<"Comment">>, v) = [c EXCEPT !.Comment = v]
         /\ SetField(c, <<"Domain">>, v) = [c EXCEPT !.Domain = v]
         /\ SetField(c, <<"Max-Age">>, v) = [c EXCEPT !.maxAge = v]
         /\ SetField(c, <<"Path">>, v) = [c EXCEPT !.Path = v]
         /\ SetField(c, <<"Version">>, v) = c
         /\ c.name # << >> => SetField(c, << >>, v) = c
BY DEF SetField

NoAttribute(n) == \A a \in Attributes : n # <<a>>

(* The attribute n of value v, if one of the first p parts has it. *)
Heard(parts, p, n, v) ==
  IF \E i \in 2 .. p : NameOf(parts[i]) = <<n>> THEN v ELSE << >>

(* The cookie after p parts, if httpOnly was b from the beginning. *)
ReadSoFar(c, parts, p, b) ==
  [name |-> IF p = 0 THEN << >> ELSE c.name, value |-> IF p = 0 THEN << >> ELSE c.value,
   Comment |-> Heard(parts, p, "Comment", c.Comment),
   Domain |-> Heard(parts, p, "Domain", c.Domain), Path |-> Heard(parts, p, "Path", c.Path),
   maxAge |-> Heard(parts, p, "Max-Age", c.maxAge), secure |-> FALSE, httpOnly |-> b]

LEMMA HeardMore ==
  ASSUME NEW parts, NEW p \in Nat, NEW n, NEW v
  PROVE  /\ p < 2 => Heard(parts, p, n, v) = << >>
         /\ p # 0 => Heard(parts, p + 1, n, v)
                       = IF NameOf(parts[p + 1]) = <<n>> THEN v ELSE Heard(parts, p, n, v)
<1>1. ASSUME p < 2 PROVE Heard(parts, p, n, v) = << >>
  <2>1. 2 .. p = {}
    BY <1>1
  <2> QED
    BY Zenon, <2>1 DEF Heard
<1>2. ASSUME p # 0
      PROVE  Heard(parts, p + 1, n, v)
               = IF NameOf(parts[p + 1]) = <<n>> THEN v ELSE Heard(parts, p, n, v)
  <2>1. 2 .. p + 1 = (2 .. p) \cup {p + 1}
    BY <1>2
  <2> QED
    BY Zenon, <2>1 DEF Heard
<1> QED
  BY <1>1, <1>2

LEMMA ReadNext ==
  ASSUME NEW c, NEW parts, CookieTold(parts, c), c.name # << >>,
         NoAttribute(c.name), NEW p \in Nat, p + 1 \in 1 .. Len(parts), NEW b
  PROVE  SetField(ReadSoFar(c, parts, p, b), NameOf(parts[p + 1]), ValueOf(parts[p + 1]))
           = ReadSoFar(c, parts, p + 1, b)
<1> DEFINE r == ReadSoFar(c, parts, p, b)
           s == ReadSoFar(c, parts, p + 1, b)
           n == NameOf(parts[p + 1])
           v == ValueOf(parts[p + 1])
           hc == Heard(parts, p, "Comment", c.Comment)
           hd == Heard(parts, p, "Domain", c.Domain)
           hm == Heard(parts, p, "Max-Age", c.maxAge)
           hp == Heard(parts, p, "Path", c.Path)
           gc == Heard(parts, p + 1, "Comment", c.Comment)
           gd == Heard(parts, p + 1, "Domain", c.Domain)
           gm == Heard(parts, p + 1, "Max-Age", c.maxAge)
           gp == Heard(parts, p + 1, "Path", c.Path)
           cn == c.name
           cv == c.value
           no == FALSE
           none == << >>
<1>0. p + 1 # 0
  OBVIOUS
<1>1. CASE p = 0
  <2>1. n = cn /\ v = cv
    BY <1>1 DEF CookieTold
  <2>2. hc = none /\ hd = none /\ hm = none /\ hp = none
        /\ gc = none /\ gd = none /\ gm = none /\ gp = none
    <3>1. p < 2 /\ p + 1 < 2 /\ p + 1 \in Nat
      BY <1>1
    <3>2. \A x, w : Heard(parts, p, x, w) = none /\ Heard(parts, p + 1, x, w) = none
      BY Zenon, <3>1, HeardMore
    <3> QED
      BY Zenon, <3>2
  <2>3. /\ r = [name |-> none, value |-> none, Comment |-> hc, Domain |-> hd, Path |-> hp,
                maxAge |-> hm, secure |-> no, httpOnly |-> b]
        /\ s = [name |-> cn, value |-> cv, Comment |-> gc, Domain |-> gd, Path |-> gp,
                maxAge |-> gm, secure |-> no, httpOnly |-> b]
    BY Zenon, <1>0, <1>1 DEF ReadSoFar
  <2>4. NoAttribute(n)
    BY Zenon, <2>1
  <2> HIDE DEF r, s, n, v, hc, hd, hm, hp, gc, gd, gm, gp, cn, cv, no, none
  <2>5. r.name = << >>
    BY <2>3 DEF none
  <2>6. SetField(r, n, v) = [r EXCEPT !.name = n, !.value = v]
    BY ONLY <2>4, <2>5 DEF SetField, Attributes, NoAttribute
  <2>7. [r EXCEPT !.name = n, !.value = v] = s
    <3>1. /\ r = [name |-> none, value |-> none, Comment |-> none, Domain |-> none, Path |-> none,
                  maxAge |-> none, secure |-> no, httpOnly |-> b]
          /\ s = [name |-> n, value |-> v, Comment |-> none, Domain |-> none, Path |-> none,
                  maxAge |-> none, secure |-> no, httpOnly |-> b]
      BY Zenon, <2>1, <2>2, <2>3
    <3> DEFINE u == [r EXCEPT !.name = n]
    <3>2. u = [name |-> n, value |-> none, Comment |-> none, Domain |-> none, Path |-> none,
               maxAge |-> none, secure |-> no, httpOnly |-> b]
      BY ONLY <3>1
    <3>3. [r EXCEPT !.name = n, !.value = v] = [u EXCEPT !.value = v]
      BY ONLY <3>1
    <3> HIDE DEF u
    <3>4. [u EXCEPT !.value = v] = s
      BY ONLY <3>1, <3>2
    <3> QED
      BY Zenon, <3>3, <3>4
  <2> QED
    BY <2>6, <2>7 DEF r, s, n, v
<1>2. CASE p # 0
  <2>1. AttributeTold(parts[p + 1], c)
    <3>1. p + 1 \in 2 .. Len(parts)
      BY <1>2
    <3> QED
      BY <3>1 DEF CookieTold
  <2>2. /\ gc = IF n = <<"Comment">> THEN c.Comment ELSE hc
        /\ gd = IF n = <<"Domain">> THEN c.Domain ELSE hd
        /\ gm = IF n = <<"Max-Age">> THEN c.maxAge ELSE hm
        /\ gp = IF n = <<"Path">> THEN c.Path ELSE hp
    BY Zenon, <1>2, HeardMore
  <2>3. /\ r = [name |-> cn, value |-> cv, Comment |-> hc, Domain |-> hd, Path |-> hp,
                maxAge |-> hm, secure |-> no, httpOnly |-> b]
        /\ s = [name |-> cn, value |-> cv, Comment |-> gc, Domain |-> gd, Path |-> gp,
                maxAge |-> gm, secure |-> no, httpOnly |-> b]
    BY Zenon, <1>0, <1>2 DEF ReadSoFar
  <2>4. \/ n = << >> \/ n = <<"Version">>
        \/ n = <<"Comment">> /\ v = c.Comment
        \/ n = <<"Domain">> /\ v = c.Domain
        \/ n = <<"Max-Age">> /\ v = c.maxAge
        \/ n = <<"Path">> /\ v = c.Path
    BY Zenon, <2>1 DEF AttributeTold
  <2>5. cn # << >>
    OBVIOUS
  <2> HIDE DEF r, s, n, v, hc, hd, hm, hp, gc, gd, gm, gp, cn, cv, no
  <2>6. r.name # << >>
    BY ONLY <2>3, <2>5
  <2>7. CASE n = << >> \/ n = <<"Version">>
    <3>1. SetField(r, n, v) = r
      BY <2>6, <2>7, SetFieldIs
    <3>2. gc = hc /\ gd = hd /\ gm = hm /\ gp = hp
      BY ONLY <2>2, <2>7
    <3> QED
      BY Zenon, <2>3, <3>1, <3>2 DEF r, s, n, v
  <2>8. CASE n = <<"Comment">> /\ v = c.Comment
    <3>1. SetField(r, n, v) = [r EXCEPT !.Comment = v]
      BY <2>8, SetFieldIs
    <3>2. gc = v /\ gd = hd /\ gm = hm /\ gp = hp
      BY ONLY <2>2, <2>8
    <3>3. [r EXCEPT !.Comment = v] = s
      BY ONLY <2>3, <3>2
    <3> QED
      BY <3>1, <3>3 DEF r, s, n, v
  <2>9. CASE n = <<"Domain">> /\ v = c.Domain
    <3>1. SetField(r, n, v) = [r EXCEPT !.Domain = v]
      BY <2>9, SetFieldIs
    <3>2. gd = v /\ gc = hc /\ gm = hm /\ gp = hp
      BY ONLY <2>2, <2>9
    <3>3. [r EXCEPT !.Domain = v] = s
      BY ONLY <2>3, <3>2
    <3> QED
      BY <3>1, <3>3 DEF r, s, n, v
  <2>10. CASE n = <<"Max-Age">> /\ v = c.maxAge
    <3>1. SetField(r, n, v) = [r EXCEPT !.maxAge = v]
      BY <2>10, SetFieldIs
    <3>2. gm = v /\ gc = hc /\ gd = hd /\ gp = hp
      BY ONLY <2>2, <2>10
    <3>3. [r EXCEPT !.maxAge = v] = s
      BY ONLY <2>3, <3>2
    <3> QED
      BY <3>1, <3>3 DEF r, s, n, v
  <2>11. CASE n = <<"Path">> /\ v = c.Path
    <3>1. SetField(r, n, v) = [r EXCEPT !.Path = v]
      BY <2>11, SetFieldIs
    <3>2. gp = v /\ gc = hc /\ gd = hd /\ gm = hm
      BY ONLY <2>2, <2>11
    <3>3. [r EXCEPT !.Path = v] = s
      BY ONLY <2>3, <3>2
    <3> QED
      BY <3>1, <3>3 DEF r, s, n, v
  <2> QED
    BY <2>4, <2>7, <2>8, <2>9, <2>10, <2>11
<1> QED
  BY <1>1, <1>2

LEMMA ReadAll ==
  ASSUME NEW c, DOMAIN c = DOMAIN NewCookie, NEW parts, IsSeq(parts), CookieTold(parts, c),
         HasPart(parts, "Comment", c.Comment), HasPart(parts, "Domain", c.Domain),
         HasPart(parts, "Max-Age", c.maxAge), HasPart(parts, "Path", c.Path), NEW b
  PROVE  ReadSoFar(c, parts, Len(parts), b) = [c EXCEPT !.secure = FALSE, !.httpOnly = b]
<1> DEFINE no == FALSE
<1>1. Len(parts) \in Nat /\ Len(parts) # 0
  BY SeqIs DEF CookieTold
<1>2. /\ Heard(parts, Len(parts), "Comment", c.Comment) = c.Comment
      /\ Heard(parts, Len(parts), "Domain", c.Domain) = c.Domain
      /\ Heard(parts, Len(parts), "Max-Age", c.maxAge) = c.maxAge
      /\ Heard(parts, Len(parts), "Path", c.Path) = c.Path
  BY Zenon DEF Heard, HasPart
<1>3. ReadSoFar(c, parts, Len(parts), b)
        = [name |-> c.name, value |-> c.value, Comment |-> c.Comment, Domain |-> c.Domain,
           Path |-> c.Path, maxAge |-> c.maxAge, secure |-> no, httpOnly |-> b]
  BY <1>1, <1>2 DEF ReadSoFar
<1> HIDE DEF no
<1>4. DOMAIN c = {"name", "value", "Comment", "Domain", "Path", "maxAge", "secure", "httpOnly"}
  BY DEF NewCookie
<1> DEFINE f == [c EXCEPT !.secure = no, !.httpOnly = b]
           g == [name |-> c.name, value |-> c.value, Comment |-> c.Comment, Domain |-> c.Domain,
                 Path |-> c.Path, maxAge |-> c.maxAge, secure |-> no, httpOnly |-> b]
           h == [k \in DOMAIN c |-> IF k = "httpOnly" THEN b
                                    ELSE IF k = "secure" THEN no ELSE c[k]]
<1>5. f = h
  OBVIOUS
<1>6. g = h
  BY <1>4
<1> QED
  BY <1>3, <1>5, <1>6 DEF no

-----------------------------------------------------------------------------
(* What a client sends back. *)

(* The parts of the first n cookies of a jar. *)
JarTold(parts, j, n) ==
  /\ Len(parts) = n
  /\ \A i \in 1 .. n : NameOf(parts[i]) = j[i].name /\ ValueOf(parts[i]) = j[i].value

LEMMA PutSeparator ==
  ASSUME NEW n, IsSeq(n), NEW v, IsSeq(v)
  PROVE  <<";", " ">> \o n \o <<"=">> \o v = <<";">> \o (<<" ">> \o (n \o <<"=">> \o v))
<1> DEFINE front == <<";", " ">>
           semicolon == <<";">>
           blank == <<" ">>
           sign == <<"=">>
           y == n \o sign
           x == y \o v
<1>1. front = semicolon \o blank /\ IsSeq(front) /\ IsSeq(semicolon) /\ IsSeq(blank) /\ IsSeq(sign)
  BY WordsJoin, WordsAreSeqs
<1> HIDE DEF front, semicolon, blank, sign
<1>2. IsSeq(y)
  BY ONLY IsSeq(n), <1>1, JoinOf
<1>3. (front \o n) \o sign = front \o y
  <2>1. IsSeq(front) /\ IsSeq(n) /\ IsSeq(sign)
    BY <1>1
  <2> QED
    BY ONLY <2>1, JoinAssociates
<1> HIDE DEF y
<1>4. IsSeq(x)
  BY ONLY IsSeq(v), <1>2, JoinOf
<1>5. (front \o y) \o v = front \o x
  <2>1. IsSeq(front) /\ IsSeq(y) /\ IsSeq(v)
    BY <1>1, <1>2
  <2> QED
    BY ONLY <2>1, JoinAssociates
<1> HIDE DEF x
<1>6. (semicolon \o blank) \o x = semicolon \o (blank \o x)
  BY ONLY <1>1, <1>4, JoinAssociates, SMTT(30)
<1>7. front \o n \o sign \o v = semicolon \o (blank \o x)
  BY Zenon, <1>1, <1>3, <1>5, <1>6
<1> QED
  BY Zenon, <1>7 DEF front, semicolon, blank, sign, x, y

LEMMA CookieInJar ==
  ASSUME CookiesReadable, NEW j \in Jars, NEW i \in 1 .. Len(j)
  PROVE  LET x == j[i].name \o <<"=">> \o j[i].value IN
         /\ NameOf(x) = j[i].name /\ ValueOf(x) = j[i].value
         /\ IsWord(x) /\ x # << >> /\ Whole(x)
         /\ CookiePart(j, i) = IF i = 1 THEN x ELSE <<";">> \o (<<" ">> \o x)
<1> DEFINE n == j[i].name
           v == j[i].value
           eq == <<"=">>
           s == <<";">>
           b == <<" ">>
           x == n \o eq \o v
<1>1. IsSeq(n) /\ IsSeq(v) /\ DOMAIN j = 1 .. Len(j)
  BY JarIs, SeqIs
<1>2. ReadableName(n) /\ ReadableText(v)
  BY Zenon, <1>1 DEF CookiesReadable
<1>3. /\ IsWord(n) /\ Whole(n) /\ n # << >> /\ IsWord(v) /\ Whole(v)
      /\ \A k \in 1 .. Len(n) : n[k] # "="
  <2>1. DOMAIN n = 1 .. Len(n) /\ ReadableText(n) /\ n # << >> /\ \A k \in DOMAIN n : n[k] # "="
    BY <1>1, <1>2, SeqIs DEF ReadableName
  <2> QED
    BY Zenon, <1>1, <1>2, <2>1, ReadableIs
<1> HIDE DEF n, v
<1>4. NameOf(x) = n /\ ValueOf(x) = v /\ IsWord(x) /\ x # << >> /\ Whole(x)
  BY <1>3, NamedPart
<1>5. IsSeq(eq) /\ IsSeq(s) /\ IsSeq(b) /\ IsSeq(<< >>)
  BY WordsAreSeqs
<1>6. CASE i = 1
  <2>1. << >> \o n = n
    BY ONLY <1>1, JoinNothing
  <2>2. CookiePart(j, i) = << >> \o n \o eq \o v
    BY Zenon, <1>6 DEF CookiePart, n, v
  <2> QED
    BY Zenon, <1>4, <1>6, <2>1, <2>2 DEF n, v
<1>7. CASE i # 1
  <2>1. CookiePart(j, i) = <<";", " ">> \o n \o eq \o v
    BY Zenon, <1>7 DEF CookiePart, n, v
  <2>2. <<";", " ">> \o n \o eq \o v = s \o (b \o (n \o eq \o v))
    BY ONLY <1>1, PutSeparator
  <2> QED
    BY Zenon, <1>4, <1>7, <2>1, <2>2 DEF n, v
<1> QED
  BY <1>6, <1>7

LEMMA JarIsTold ==
  ASSUME CookiesReadable, NEW j \in Jars, j # << >>
  PROVE  \E parts : /\ ReferenceParts(CookieHeader(j)) = parts /\ IsSeq(parts)
                    /\ JarTold(parts, j, Len(j))
<1> DEFINE seqs == CookieParts(j)
           n == Len(j)
           x(i) == j[i].name \o <<"=">> \o j[i].value
<1>1. n \in Nat /\ n # 0 /\ Len(seqs) = n /\ CookieHeader(j) = FlattenSeq(seqs) /\ DOMAIN j = 1 .. n
  BY JarIs, SeqIs
<1>2. PICK f : /\ FlattenSeq(seqs) = f[n] /\ f[1] = seqs[1]
               /\ \A k \in 1 .. n : k # 1 => f[k] = f[k - 1] \o seqs[k]
  <2>1. Len(seqs) \in Nat /\ Len(seqs) # 0 /\ Len(seqs) = n
    BY <1>1
  <2> HIDE DEF n, seqs
  <2>2. \E f : /\ FlattenSeq(seqs) = f[Len(seqs)] /\ f[1] = seqs[1]
               /\ \A k \in 1 .. Len(seqs) : k # 1 => f[k] = f[k - 1] \o seqs[k]
    BY <2>1, FlattenSteps
  <2> QED
    BY <2>1, <2>2
<1>3. \A i \in 1 .. n : seqs[i] = CookiePart(j, i)
  BY <1>1 DEF CookieParts
<1>4. ASSUME NEW i \in 1 .. n
      PROVE  /\ NameOf(x(i)) = j[i].name /\ ValueOf(x(i)) = j[i].value
             /\ IsWord(x(i)) /\ x(i) # << >> /\ Whole(x(i))
             /\ seqs[i] = IF i = 1 THEN x(i) ELSE <<";">> \o (<<" ">> \o x(i))
  BY <1>3, CookieInJar
<1> HIDE DEF seqs, n, x
<1> DEFINE T == {k \in Nat : k + 1 \in 1 .. n =>
                   \E parts : WrittenAs(f[k + 1], parts) /\ JarTold(parts, j, k + 1)}
<1>5. 0 \in T
  <2>1. 1 \in 1 .. n /\ 0 + 1 = 1 /\ 1 .. 1 = {1}
    BY <1>1
  <2> DEFINE first == x(1)
             parts == <<first>>
  <2>2. /\ NameOf(first) = j[1].name /\ ValueOf(first) = j[1].value
        /\ IsWord(first) /\ first # << >> /\ Whole(first) /\ f[1] = first
    BY <1>2, <1>4, <2>1
  <2> HIDE DEF first
  <2>3. WithoutBlanks(first) = first
    BY <2>2, TrimmedStays DEF IsWord
  <2>4. WrittenAs(first, parts)
    BY <2>2, <2>3, FirstWritten
  <2>5. Len(parts) = 1 /\ parts[1] = first
    OBVIOUS
  <2> HIDE DEF parts
  <2>6. JarTold(parts, j, 1)
    BY Zenon, <2>1, <2>2, <2>5 DEF JarTold
  <2> QED
    BY <2>1, <2>2, <2>4, <2>6
<1>6. ASSUME NEW k \in Nat, k \in T PROVE k + 1 \in T
  <2> SUFFICES ASSUME (k + 1) + 1 \in 1 .. n
               PROVE \E parts : WrittenAs(f[(k + 1) + 1], parts) /\ JarTold(parts, j, (k + 1) + 1)
    OBVIOUS
  <2> DEFINE i == (k + 1) + 1
             next == x(i)
  <2>1. k + 1 \in 1 .. n /\ i # 1 /\ i - 1 = k + 1 /\ i \in 1 .. n
    BY <1>1
  <2>2. PICK parts : WrittenAs(f[k + 1], parts) /\ JarTold(parts, j, k + 1)
    BY <1>6, <2>1
  <2>3. /\ NameOf(next) = j[i].name /\ ValueOf(next) = j[i].value
        /\ IsWord(next) /\ next # << >> /\ Whole(next)
        /\ seqs[i] = <<";">> \o (<<" ">> \o next)
    BY <1>4, <2>1
  <2>4. f[i] = f[k + 1] \o seqs[i]
    BY <1>2, <2>1
  <2> HIDE DEF next
  <2>5. WrittenAs(f[i], Append(parts, next))
    BY <2>2, <2>3, <2>4, BlankWritten
  <2>6. IsSeq(parts)
    BY <2>2, WrittenIsRead
  <2> DEFINE more == Append(parts, next)
  <2>7. /\ Len(more) = Len(parts) + 1
        /\ \A m \in 1 .. Len(parts) : more[m] = parts[m]
        /\ more[Len(parts) + 1] = next
    BY ONLY <2>6, AppendOf
  <2> HIDE DEF more
  <2>8. JarTold(more, j, i)
    <3>1. Len(parts) = k + 1 /\ \A m \in 1 .. i : m \in 1 .. k + 1 \/ m = i
      BY <2>2 DEF JarTold
    <3> HIDE DEF i
    <3>2. Len(more) = i /\ more[i] = next /\ \A m \in 1 .. k + 1 : more[m] = parts[m]
      BY <2>7, <3>1 DEF i
    <3> QED
      BY Zenon, <2>2, <2>3, <3>1, <3>2 DEF JarTold
  <2> QED
    BY <2>5, <2>8 DEF more
<1> HIDE DEF T
<1>7. Nat \subseteq T
  BY <1>5, <1>6, NaturalsFollow
<1>8. n - 1 \in Nat /\ (n - 1) + 1 = n /\ n \in 1 .. n
  BY <1>1
<1>9. PICK parts : WrittenAs(f[n], parts) /\ JarTold(parts, j, n)
  BY <1>7, <1>8 DEF T
<1>10. ReferenceParts(f[n]) = parts /\ IsSeq(parts)
  BY <1>9, WrittenIsRead
<1> QED
  BY <1>1, <1>2, <1>9, <1>10 DEF n, seqs

-----------------------------------------------------------------------------
(***************************************************************************)
(* What is read while the parts of a written cookie, or of what a client   *)
(* sends back, are gone through: the fields that the parts so far have     *)
(* told, or as many cookies of the jar.                                    *)
(***************************************************************************)
JarRead ==
  /\ DOMAIN cookies = {jar[i].name : i \in 1 .. position}
  /\ \A i \in 1 .. position : cookies[jar[i].name] = jar[i].value

TextFits ==
  /\ written # NewCookie =>
       written \in Cookies /\ jar = << >> /\ source = ToByteArray(written)
  /\ jar # << >> => jar \in Jars /\ written = NewCookie /\ source = CookieHeader(jar)

ReadFits ==
  /\ position \in Nat
  /\ written # NewCookie => cookie = ReadSoFar(written, list, position, cookie.httpOnly)
  /\ jar # << >> => JarRead

Unread == cookie = [NewCookie EXCEPT !.httpOnly = cookie.httpOnly] /\ cookies = NoCookies

SurviveInv ==
  /\ SplitInv
  /\ TextFits
  /\ stage = "split" => Unread
  /\ stage = "fields" => ReadFits
  /\ CookieSurvives

LEMMA FreshIs ==
  ASSUME NEW c, NEW parts, NEW b
  PROVE  ReadSoFar(c, parts, 0, b) = [NewCookie EXCEPT !.httpOnly = b]
<1> DEFINE no == FALSE
           none == << >>
           r == ReadSoFar(c, parts, 0, b)
           f == NewCookie
<1>1. \A n, v : Heard(parts, 0, n, v) = none
  <2>1. 0 \in Nat /\ 0 < 2
    OBVIOUS
  <2> QED
    BY Zenon, <2>1, HeardMore
<1>2. r = [name |-> none, value |-> none, Comment |-> none, Domain |-> none, Path |-> none,
           maxAge |-> none, secure |-> no, httpOnly |-> b]
  BY Zenon, <1>1 DEF ReadSoFar
<1>3. f = [name |-> none, value |-> none, Comment |-> none, Domain |-> none, Path |-> none,
           maxAge |-> none, secure |-> no, httpOnly |-> no]
  BY Zenon DEF NewCookie
<1> HIDE DEF no, none, r, f
<1>4. [f EXCEPT !.httpOnly = b] = r
  BY ONLY <1>2, <1>3
<1> QED
  BY <1>4 DEF r, f

(* The parts of a written cookie or of a jar. *)
LEMMA PartsTold ==
  ASSUME CookiesReadable, SplitInv, TextFits, stage # "split"
  PROVE  /\ written # NewCookie =>
              /\ IsSeq(list) /\ CookieTold(list, written)
              /\ HasPart(list, "Comment", written.Comment)
              /\ HasPart(list, "Domain", written.Domain)
              /\ HasPart(list, "Max-Age", written.maxAge)
              /\ HasPart(list, "Path", written.Path)
         /\ jar # << >> => IsSeq(list) /\ JarTold(list, jar, Len(jar))
<1>1. list = ReferenceParts(source)
  BY DEF SplitInv
<1>2. ASSUME written # NewCookie
      PROVE  /\ IsSeq(list) /\ CookieTold(list, written)
             /\ HasPart(list, "Comment", written.Comment)
             /\ HasPart(list, "Domain", written.Domain)
             /\ HasPart(list, "Max-Age", written.maxAge)
             /\ HasPart(list, "Path", written.Path)
  <2>1. written \in Cookies /\ source = ToByteArray(written)
    BY Zenon, <1>2 DEF TextFits
  <2> QED
    BY Zenon, <1>1, <2>1, CookieIsTold
<1>3. ASSUME jar # << >> PROVE IsSeq(list) /\ JarTold(list, jar, Len(jar))
  <2>1. jar \in Jars /\ source = CookieHeader(jar)
    BY Zenon, <1>3 DEF TextFits
  <2> QED
    BY Zenon, <1>1, <1>3, <2>1, JarIsTold
<1> QED
  BY <1>2, <1>3

LEMMA SurviveStarts == CookieInit => SurviveInv
<1> SUFFICES ASSUME CookieInit PROVE SurviveInv
  OBVIOUS
<1>1. stage = "split" /\ cookies = NoCookies
  BY DEF CookieInit
<1>2. TextFits
  BY Zenon DEF CookieInit, TextFits
<1>3. cookie = [NewCookie EXCEPT !.httpOnly = cookie.httpOnly]
  <2>1. PICK b \in BOOLEAN : cookie = [NewCookie EXCEPT !.httpOnly = b]
    BY DEF CookieInit
  <2>2. "httpOnly" \in DOMAIN NewCookie
    BY DEF NewCookie
  <2>3. cookie.httpOnly = b
    BY ONLY <2>1, <2>2
  <2> QED
    BY <2>1, <2>3
<1> QED
  BY <1>1, <1>2, <1>3, SplitStarts DEF SurviveInv, Unread, CookieSurvives

LEMMA ReadFieldKeeps ==
  ASSUME CookiesReadable, SurviveInv, ReadField
  PROVE  ReadFits'
<1> DEFINE p == position
           b == cookie.httpOnly
<1>1. /\ stage = "fields" /\ p < Len(list) /\ jar = << >> /\ p' = p + 1
      /\ cookie' = SetField(cookie, NameOf(list[p + 1]), ValueOf(list[p + 1]))
      /\ written' = written /\ jar' = jar /\ list' = list
  BY DEF ReadField
<1>2. p \in Nat
  BY <1>1 DEF SurviveInv, ReadFits
<1>3. ASSUME written # NewCookie
      PROVE  cookie' = ReadSoFar(written, list, p + 1, cookie'.httpOnly)
  <2>1. cookie = ReadSoFar(written, list, p, b)
    BY Zenon, <1>1, <1>3 DEF SurviveInv, ReadFits
  <2>2. IsSeq(list) /\ CookieTold(list, written)
    <3>1. stage # "split"
      BY <1>1
    <3> QED
      BY Zenon, <1>3, <3>1, PartsTold DEF SurviveInv
  <2>3. p + 1 \in 1 .. Len(list)
    <3>1. Len(list) \in Nat
      BY <2>2, SeqIs
    <3> QED
      BY ONLY <1>1, <1>2, <3>1
  <2>4. written.name # << >> /\ NoAttribute(written.name)
    <3>1. written \in Cookies
      BY Zenon, <1>3 DEF SurviveInv, TextFits
    <3> QED
      BY Zenon, <3>1, CookieIs DEF NoAttribute
  <2> HIDE DEF b
  <2>5. SetField(ReadSoFar(written, list, p, b), NameOf(list[p + 1]), ValueOf(list[p + 1]))
          = ReadSoFar(written, list, p + 1, b)
    BY <1>2, <2>2, <2>3, <2>4, ReadNext
  <2>6. cookie' = ReadSoFar(written, list, p + 1, b)
    BY Zenon, <1>1, <2>1, <2>5
  <2>7. cookie'.httpOnly = b
    BY ONLY <2>6 DEF ReadSoFar
  <2> QED
    BY Zenon, <2>6, <2>7
<1>4. p + 1 \in Nat
  BY <1>2
<1> QED
  BY Zenon, <1>1, <1>3, <1>4 DEF ReadFits

LEMMA ExtractCookieKeeps ==
  ASSUME CookiesReadable, SurviveInv, ExtractCookie
  PROVE  ReadFits'
<1> DEFINE p == position
           part == list[p + 1]
           next == jar[p + 1]
<1>1. /\ stage = "fields" /\ p < Len(list) /\ jar # << >> /\ p' = p + 1
      /\ cookies' = [name \in DOMAIN cookies \cup {NameOf(part)} |->
                       IF name = NameOf(part) THEN ValueOf(part) ELSE cookies[name]]
      /\ written' = written /\ jar' = jar /\ list' = list
  BY DEF ExtractCookie
<1>2. p \in Nat /\ JarRead
  BY <1>1 DEF SurviveInv, ReadFits
<1>3. jar \in Jars /\ written = NewCookie
  BY Zenon, <1>1 DEF SurviveInv, TextFits
<1>4. IsSeq(list) /\ JarTold(list, jar, Len(jar))
  <2>1. stage # "split"
    BY <1>1
  <2> QED
    BY Zenon, <1>1, <2>1, PartsTold DEF SurviveInv
<1>5. IsSeq(jar) /\ Len(jar) \in Nat /\ DOMAIN jar = 1 .. Len(jar)
  BY <1>3, JarIs, SeqIs
<1>6. p + 1 \in 1 .. Len(jar)
  <2>1. Len(list) = Len(jar)
    BY <1>4 DEF JarTold
  <2> QED
    BY ONLY <1>1, <1>2, <1>5, <2>1
<1>7. NameOf(part) = next.name /\ ValueOf(part) = next.value
  BY <1>4, <1>6 DEF JarTold
<1>8. \A i \in 1 .. p : jar[i].name # next.name
  <2>1. \A i \in 1 .. p : i \in 1 .. Len(jar) /\ i # p + 1
    BY ONLY <1>2, <1>5, <1>6
  <2>2. \A i, k \in DOMAIN jar : k # i => jar[k].name # jar[i].name
    BY Zenon, <1>3 DEF CookiesReadable
  <2> QED
    BY Zenon, <1>5, <1>6, <2>1, <2>2
<1>9. 1 .. p + 1 = (1 .. p) \cup {p + 1}
  BY <1>2
<1> DEFINE name1 == next.name
           value1 == next.value
<1>10. cookies' = [name \in DOMAIN cookies \cup {name1} |->
                     IF name = name1 THEN value1 ELSE cookies[name]]
  BY Zenon, <1>1, <1>7
<1>11. JarRead'
  <2>1. jar' = jar
    BY <1>1
  <2>2. DOMAIN cookies' = {jar[i].name : i \in 1 .. p + 1}
    <3>1. DOMAIN cookies' = {jar[i].name : i \in 1 .. p} \cup {name1}
      BY Zenon, <1>2, <1>10 DEF JarRead
    <3> QED
      BY Zenon, <1>9, <3>1
  <2>3. ASSUME NEW i \in 1 .. p PROVE cookies'[jar[i].name] = jar[i].value
    <3>1. jar[i].name \in DOMAIN cookies /\ cookies[jar[i].name] = jar[i].value
      BY Zenon, <1>2 DEF JarRead
    <3> QED
      BY Zenon, <1>8, <1>10, <3>1
  <2>4. cookies'[name1] = value1
    BY Zenon, <1>10
  <2>5. \A i \in 1 .. p + 1 : cookies'[jar[i].name] = jar[i].value
    BY Zenon, <1>9, <2>3, <2>4
  <2> QED
    BY Zenon, <1>1, <2>1, <2>2, <2>5 DEF JarRead
<1>12. p + 1 \in Nat
  BY <1>2
<1> QED
  BY Zenon, <1>1, <1>3, <1>11, <1>12 DEF ReadFits

LEMMA FieldsReadSurvives ==
  ASSUME CookiesReadable, SurviveInv, FieldsRead
  PROVE  CookieSurvives'
<1>1. /\ stage = "fields" /\ position = Len(list) /\ written' = written /\ jar' = jar
      /\ cookie' = cookie /\ cookies' = cookies
  BY DEF FieldsRead
<1>2. stage # "split"
  BY <1>1
<1>3. SplitInv /\ TextFits /\ ReadFits
  BY <1>1 DEF SurviveInv
<1>4. ASSUME written # NewCookie
      PROVE  cookie = [written EXCEPT !.secure = FALSE, !.httpOnly = cookie.httpOnly]
  <2> DEFINE b == cookie.httpOnly
  <2>1. cookie = ReadSoFar(written, list, Len(list), b)
    BY Zenon, <1>1, <1>3, <1>4 DEF ReadFits
  <2>2. DOMAIN written = DOMAIN NewCookie
    <3>1. written \in Cookies
      BY Zenon, <1>3, <1>4 DEF TextFits
    <3> QED
      BY Zenon, <3>1, CookieIs
  <2>3. /\ IsSeq(list) /\ CookieTold(list, written)
        /\ HasPart(list, "Comment", written.Comment) /\ HasPart(list, "Domain", written.Domain)
        /\ HasPart(list, "Max-Age", written.maxAge) /\ HasPart(list, "Path", written.Path)
    BY Zenon, <1>2, <1>3, <1>4, PartsTold
  <2> HIDE DEF b
  <2>4. ReadSoFar(written, list, Len(list), b) = [written EXCEPT !.secure = FALSE, !.httpOnly = b]
    BY <2>2, <2>3, ReadAll
  <2>5. cookie = [written EXCEPT !.secure = FALSE, !.httpOnly = b]
    BY Zenon, <2>1, <2>4
  <2> QED
    BY <2>5 DEF b
<1>5. ASSUME jar # << >>
      PROVE  /\ DOMAIN cookies = {c.name : c \in ToSet(jar)}
             /\ \A c \in ToSet(jar) : cookies[c.name] = c.value
  <2>1. Len(list) = Len(jar)
    BY Zenon, <1>2, <1>3, <1>5, PartsTold DEF JarTold
  <2>2. /\ DOMAIN cookies = {jar[i].name : i \in 1 .. Len(jar)}
        /\ \A i \in 1 .. Len(jar) : cookies[jar[i].name] = jar[i].value
    BY Zenon, <1>1, <1>3, <1>5, <2>1 DEF ReadFits, JarRead
  <2>3. DOMAIN jar = 1 .. Len(jar)
    <3>1. jar \in Jars
      BY Zenon, <1>3, <1>5 DEF TextFits
    <3> QED
      BY <3>1, JarIs, SeqIs
  <2>4. ToSet(jar) = {jar[i] : i \in 1 .. Len(jar)}
    BY Zenon, <2>3 DEF ToSet
  <2>5. {jar[i].name : i \in 1 .. Len(jar)} = {c.name : c \in ToSet(jar)}
    BY <2>4
  <2>6. \A c \in ToSet(jar) : cookies[c.name] = c.value
    BY Zenon, <2>2, <2>4
  <2> QED
    BY Zenon, <2>2, <2>5, <2>6
<1> QED
  BY Zenon, <1>1, <1>4, <1>5 DEF CookieSurvives

LEMMA SurviveKept ==
  ASSUME CookiesReadable, SurviveInv, [CookieNext]_cookieVars
  PROVE  SurviveInv'
<1>1. SplitInv'
  BY SplitKept DEF SurviveInv
<1>2. TextFits'
  <2>1. written' = written /\ jar' = jar /\ source' = source
    BY Zenon DEF CookieNext, SplitCSV, SplitCSVEnds, ReadField, ExtractCookie, FieldsRead, cookieVars
  <2> QED
    BY Zenon, <2>1 DEF SurviveInv, TextFits
<1>3. CASE SplitCSV
  <2>1. stage = "split" /\ stage' = "split" /\ cookie' = cookie /\ cookies' = cookies
    BY <1>3 DEF SplitCSV
  <2>2. Unread'
    BY Zenon, <2>1 DEF SurviveInv, Unread
  <2> QED
    BY <1>1, <1>2, <2>1, <2>2 DEF SurviveInv, CookieSurvives
<1>4. CASE SplitCSVEnds
  <2>1. /\ stage = "split" /\ stage' = "fields" /\ position' = 0
        /\ cookie' = cookie /\ cookies' = cookies /\ jar' = jar /\ written' = written
    BY <1>4 DEF SplitCSVEnds
  <2>2. Unread
    BY <2>1 DEF SurviveInv
  <2>3. cookie = ReadSoFar(written, list', 0, cookie.httpOnly)
    BY Zenon, <2>2, FreshIs DEF Unread
  <2>4. JarRead'
    <3>1. 1 .. 0 = {}
      OBVIOUS
    <3>2. DOMAIN cookies' = {}
      BY Zenon, <2>1, <2>2 DEF Unread, NoCookies
    <3> QED
      BY Zenon, <2>1, <3>1, <3>2 DEF JarRead
  <2>5. ReadFits'
    <3>1. 0 \in Nat
      OBVIOUS
    <3> QED
      BY Zenon, <2>1, <2>3, <2>4, <3>1 DEF ReadFits
  <2> QED
    BY <1>1, <1>2, <2>1, <2>5 DEF SurviveInv, CookieSurvives
<1>5. CASE ReadField
  <2>1. stage' = "fields"
    BY <1>5 DEF ReadField
  <2>2. ReadFits'
    BY <1>5, ReadFieldKeeps
  <2> QED
    BY <1>1, <1>2, <2>1, <2>2 DEF SurviveInv, CookieSurvives
<1>6. CASE ExtractCookie
  <2>1. stage' = "fields"
    BY <1>6 DEF ExtractCookie
  <2>2. ReadFits'
    BY <1>6, ExtractCookieKeeps
  <2> QED
    BY <1>1, <1>2, <2>1, <2>2 DEF SurviveInv, CookieSurvives
<1>7. CASE FieldsRead
  <2>1. stage' = "done"
    BY <1>7 DEF FieldsRead
  <2>2. CookieSurvives'
    BY <1>7, FieldsReadSurvives
  <2> QED
    BY <1>1, <1>2, <2>1, <2>2 DEF SurviveInv
<1>8. CASE UNCHANGED cookieVars
  BY Zenon, <1>1, <1>2, <1>8
     DEF cookieVars, SurviveInv, Unread, ReadFits, JarRead, CookieSurvives
<1> QED
  BY <1>3, <1>4, <1>5, <1>6, <1>7, <1>8 DEF CookieNext

(***************************************************************************)
(* A cookie survives being written by toByteArray and read by the          *)
(* constructor, but for its flags, and a request has the cookies that the  *)
(* client has sent, for all cookies and jars whose texts have no           *)
(* separators and no blanks at their ends.                                 *)
(***************************************************************************)
THEOREM CookieSurvivesAlways ==
  ASSUME CookiesReadable
  PROVE  CookieSpec => []CookieSurvives
<1>1. CookieInit => SurviveInv
  BY SurviveStarts
<1>2. SurviveInv /\ [CookieNext]_cookieVars => SurviveInv'
  BY SurviveKept
<1>3. SurviveInv => CookieSurvives
  BY DEF SurviveInv
<1> QED
  BY <1>1, <1>2, <1>3, PTL DEF CookieSpec

-----------------------------------------------------------------------------
(* The sequences of g after place a up to place b, one after the other.    *)
Flat(g, a, b) == FlattenSeq([i \in 1 .. b - a |-> g[a + i]])

Seqs(g, a, b) == \A i \in a + 1 .. b : IsSeq(g[i])

LEMMA FlatSame ==
  ASSUME NEW g, NEW h, NEW a \in Nat, NEW b \in Nat, \A i \in a + 1 .. b : g[i] = h[i]
  PROVE  Flat(g, a, b) = Flat(h, a, b)
<1>1. \A i \in 1 .. b - a : g[a + i] = h[a + i]
  OBVIOUS
<1>2. [i \in 1 .. b - a |-> g[a + i]] = [i \in 1 .. b - a |-> h[a + i]]
  BY ONLY <1>1
<1> QED
  BY Zenon, <1>2 DEF Flat

LEMMA FlatNone ==
  ASSUME NEW g, NEW a \in Nat
  PROVE  Flat(g, a, a) = << >>
<1> DEFINE seqs == [i \in 1 .. a - a |-> g[a + i]]
<1>1. a - a = 0
  OBVIOUS
<1>2. seqs = << >> /\ Len(seqs) = 0
  BY <1>1
<1> QED
  BY <1>2 DEF Flat, FlattenSeq

LEMMA FlatSteps ==
  ASSUME NEW g, NEW a \in Nat, NEW b \in Nat, a < b
  PROVE  \E f : /\ Flat(g, a, b) = f[b - a] /\ f[1] = g[a + 1]
                /\ \A k \in 1 .. b - a : k # 1 => f[k] = f[k - 1] \o g[a + k]
<1> DEFINE seqs == [i \in 1 .. b - a |-> g[a + i]]
<1>1. b - a \in Nat /\ b - a # 0 /\ 1 \in 1 .. b - a
  OBVIOUS
<1>2. Len(seqs) = b - a /\ \A i \in 1 .. b - a : seqs[i] = g[a + i]
  BY <1>1
<1>3. Flat(g, a, b) = FlattenSeq(seqs)
  BY DEF Flat
<1> HIDE DEF seqs
<1>4. PICK f : /\ FlattenSeq(seqs) = f[Len(seqs)] /\ f[1] = seqs[1]
               /\ \A k \in 1 .. Len(seqs) : k # 1 => f[k] = f[k - 1] \o seqs[k]
  BY <1>1, <1>2, FlattenSteps
<1>5. f[1] = g[a + 1]
  BY <1>1, <1>2, <1>4
<1>6. \A k \in 1 .. b - a : k # 1 => f[k] = f[k - 1] \o g[a + k]
  BY Zenon, <1>2, <1>4
<1> QED
  BY <1>2, <1>3, <1>4, <1>5, <1>6

LEMMA FlatOne ==
  ASSUME NEW g, NEW a \in Nat
  PROVE  Flat(g, a, a + 1) = g[a + 1]
<1>1. PICK f : Flat(g, a, a + 1) = f[(a + 1) - a] /\ f[1] = g[a + 1]
  <2>1. a + 1 \in Nat /\ a < a + 1
    OBVIOUS
  <2> QED
    BY <2>1, FlatSteps
<1>2. (a + 1) - a = 1
  OBVIOUS
<1> QED
  BY <1>1, <1>2

LEMMA FlatStep ==
  ASSUME NEW g, NEW a \in Nat, NEW b \in Nat, a < b
  PROVE  Flat(g, a, b + 1) = Flat(g, a, b) \o g[b + 1]
<1> DEFINE m == b - a
<1>1. m \in Nat /\ m # 0 /\ (b + 1) - a = m + 1 /\ a + (m + 1) = b + 1
  OBVIOUS
<1>2. PICK f : /\ Flat(g, a, b) = f[m] /\ f[1] = g[a + 1]
               /\ \A k \in 1 .. m : k # 1 => f[k] = f[k - 1] \o g[a + k]
  BY FlatSteps
<1>3. PICK h : /\ Flat(g, a, b + 1) = h[m + 1] /\ h[1] = g[a + 1]
               /\ \A k \in 1 .. m + 1 : k # 1 => h[k] = h[k - 1] \o g[a + k]
  <2>1. b + 1 \in Nat /\ a < b + 1
    OBVIOUS
  <2>2. \E h : /\ Flat(g, a, b + 1) = h[(b + 1) - a] /\ h[1] = g[a + 1]
               /\ \A k \in 1 .. (b + 1) - a : k # 1 => h[k] = h[k - 1] \o g[a + k]
    BY <2>1, FlatSteps, ZenonT(40)
  <2> QED
    BY <1>1, <2>2
<1> HIDE DEF m
<1> DEFINE T == {k \in Nat : k + 1 \in 1 .. m => h[k + 1] = f[k + 1]}
<1>4. 0 \in T
  BY <1>2, <1>3
<1>5. ASSUME NEW k \in Nat, k \in T PROVE k + 1 \in T
  <2> SUFFICES ASSUME (k + 1) + 1 \in 1 .. m PROVE h[(k + 1) + 1] = f[(k + 1) + 1]
    OBVIOUS
  <2> DEFINE i == (k + 1) + 1
  <2>1. k + 1 \in 1 .. m /\ i # 1 /\ i - 1 = k + 1 /\ i \in 1 .. m + 1 /\ i \in 1 .. m
    BY <1>1
  <2>2. h[k + 1] = f[k + 1]
    BY <1>5, <2>1
  <2> HIDE DEF i
  <2>3. h[i] = f[i]
    BY <1>2, <1>3, <2>1, <2>2
  <2> QED
    BY <2>3 DEF i
<1> HIDE DEF T
<1>6. Nat \subseteq T
  BY <1>4, <1>5, NaturalsFollow
<1>7. m - 1 \in Nat /\ (m - 1) + 1 = m /\ m \in 1 .. m
  BY <1>1
<1>8. h[m] = f[m]
  BY <1>6, <1>7 DEF T
<1>9. h[m + 1] = h[m] \o g[b + 1]
  <2>1. m + 1 \in 1 .. m + 1 /\ m + 1 # 1 /\ (m + 1) - 1 = m
    BY <1>1
  <2> QED
    BY <1>1, <1>3, <2>1
<1> QED
  BY Zenon, <1>2, <1>3, <1>8, <1>9

LEMMA FlatMore ==
  ASSUME NEW g, NEW a \in Nat, NEW b \in Nat, a <= b, IsSeq(g[b + 1])
  PROVE  Flat(g, a, b + 1) = Flat(g, a, b) \o g[b + 1]
<1>1. CASE a < b
  BY <1>1, FlatStep
<1>2. CASE a = b
  <2>1. Flat(g, a, b + 1) = g[b + 1] /\ Flat(g, a, b) = << >>
    BY <1>2, FlatOne, FlatNone
  <2>2. << >> \o g[b + 1] = g[b + 1]
    BY ONLY IsSeq(g[b + 1]), JoinNothing
  <2> QED
    BY Zenon, <2>1, <2>2
<1> QED
  BY <1>1, <1>2

LEMMA FlatIsSeq ==
  ASSUME NEW g, NEW a \in Nat, NEW b \in Nat, a <= b, Seqs(g, a, b)
  PROVE  IsSeq(Flat(g, a, b))
<1> DEFINE T == {k \in Nat : a + k <= b => IsSeq(Flat(g, a, a + k))}
<1>1. 0 \in T
  <2>1. a + 0 = a /\ Flat(g, a, a) = << >> /\ IsSeq(<< >>)
    BY FlatNone, EmptyIsSeq
  <2> QED
    BY <2>1
<1>2. ASSUME NEW k \in Nat, k \in T PROVE k + 1 \in T
  <2> SUFFICES ASSUME a + (k + 1) <= b PROVE IsSeq(Flat(g, a, a + (k + 1)))
    OBVIOUS
  <2> DEFINE c == a + k
  <2>1. c \in Nat /\ a <= c /\ c <= b /\ a + (k + 1) = c + 1 /\ c + 1 \in a + 1 .. b
    OBVIOUS
  <2>2. IsSeq(Flat(g, a, c))
    BY <1>2, <2>1
  <2> HIDE DEF c
  <2>3. IsSeq(g[c + 1])
    BY <2>1 DEF Seqs
  <2>4. Flat(g, a, c + 1) = Flat(g, a, c) \o g[c + 1]
    BY <2>1, <2>3, FlatMore
  <2>5. IsSeq(Flat(g, a, c) \o g[c + 1])
    BY ONLY <2>2, <2>3, JoinOf
  <2> QED
    BY <2>1, <2>4, <2>5
<1> HIDE DEF T
<1>3. Nat \subseteq T
  BY <1>1, <1>2, NaturalsFollow
<1>4. b - a \in Nat /\ a + (b - a) = b /\ b <= b
  OBVIOUS
<1> QED
  BY <1>3, <1>4 DEF T

LEMMA FlatJoin ==
  ASSUME NEW g, NEW a \in Nat, NEW b \in Nat, NEW c \in Nat, a <= b, b <= c, Seqs(g, a, c)
  PROVE  Flat(g, a, c) = Flat(g, a, b) \o Flat(g, b, c)
<1>1. Seqs(g, a, b) /\ \A k \in b + 1 .. c : IsSeq(g[k])
  BY DEF Seqs
<1>2. IsSeq(Flat(g, a, b))
  BY <1>1, FlatIsSeq
<1> DEFINE T == {k \in Nat : b + k <= c => Flat(g, a, b + k) = Flat(g, a, b) \o Flat(g, b, b + k)}
<1>3. 0 \in T
  <2>1. b + 0 = b /\ Flat(g, b, b) = << >>
    BY FlatNone
  <2>2. Flat(g, a, b) \o << >> = Flat(g, a, b)
    BY ONLY <1>2, JoinNothing
  <2>3. Flat(g, a, b + 0) = Flat(g, a, b) \o Flat(g, b, b + 0)
    BY Zenon, <2>1, <2>2
  <2>4. 0 \in Nat
    OBVIOUS
  <2> QED
    BY Zenon, <2>3, <2>4
<1>4. ASSUME NEW k \in Nat, k \in T PROVE k + 1 \in T
  <2> SUFFICES ASSUME b + (k + 1) <= c
               PROVE Flat(g, a, b + (k + 1)) = Flat(g, a, b) \o Flat(g, b, b + (k + 1))
    OBVIOUS
  <2> DEFINE d == b + k
             x == Flat(g, a, b)
             y == Flat(g, b, d)
             z == g[d + 1]
  <2>1. /\ d \in Nat /\ a <= d /\ b <= d /\ d <= c /\ b + (k + 1) = d + 1
        /\ d + 1 \in b + 1 .. c
    OBVIOUS
  <2>2. Flat(g, a, d) = x \o y
    BY <1>4, <2>1
  <2> HIDE DEF d
  <2>3. IsSeq(z)
    BY <1>1, <2>1
  <2>4. Flat(g, a, d + 1) = Flat(g, a, d) \o z /\ Flat(g, b, d + 1) = y \o z
    BY <2>1, <2>3, FlatMore
  <2>5. IsSeq(y)
    <3>1. Seqs(g, b, d)
      <4>1. \A m \in b + 1 .. d : m \in b + 1 .. c
        BY <2>1
      <4> QED
        BY <1>1, <4>1 DEF Seqs
    <3> QED
      BY <2>1, <3>1, FlatIsSeq
  <2>6. IsSeq(x)
    BY <1>2
  <2> HIDE DEF x, y, z
  <2>7. (x \o y) \o z = x \o (y \o z)
    BY ONLY <2>3, <2>5, <2>6, JoinAssociates
  <2>8. Flat(g, a, d + 1) = x \o Flat(g, b, d + 1)
    BY Zenon, <2>2, <2>4, <2>7
  <2> QED
    BY <2>1, <2>8 DEF x
<1> HIDE DEF T
<1>5. Nat \subseteq T
  BY <1>3, <1>4, NaturalsFollow
<1>6. c - b \in Nat /\ b + (c - b) = c /\ c <= c
  OBVIOUS
<1> QED
  BY <1>5, <1>6 DEF T

LEMMA FlatEmpty ==
  ASSUME NEW g, NEW a \in Nat, NEW b \in Nat, a <= b, \A i \in a + 1 .. b : g[i] = << >>
  PROVE  Flat(g, a, b) = << >>
<1> DEFINE T == {k \in Nat : a + k <= b => Flat(g, a, a + k) = << >>}
<1>1. 0 \in T
  <2>1. a + 0 = a /\ Flat(g, a, a) = << >>
    BY FlatNone
  <2> QED
    BY <2>1
<1>2. ASSUME NEW k \in Nat, k \in T PROVE k + 1 \in T
  <2> SUFFICES ASSUME a + (k + 1) <= b PROVE Flat(g, a, a + (k + 1)) = << >>
    OBVIOUS
  <2> DEFINE c == a + k
  <2>1. c \in Nat /\ a <= c /\ c <= b /\ a + (k + 1) = c + 1 /\ c + 1 \in a + 1 .. b
    OBVIOUS
  <2>2. Flat(g, a, c) = << >> /\ g[c + 1] = << >> /\ IsSeq(<< >>)
    BY <1>2, <2>1, EmptyIsSeq
  <2> HIDE DEF c
  <2>3. Flat(g, a, c + 1) = Flat(g, a, c) \o g[c + 1]
    BY <2>1, <2>2, FlatMore
  <2>4. << >> \o << >> = << >>
    BY ONLY EmptyIsSeq, JoinNothing
  <2> QED
    BY Zenon, <2>1, <2>2, <2>3, <2>4
<1> HIDE DEF T
<1>3. Nat \subseteq T
  BY <1>1, <1>2, NaturalsFollow
<1>4. b - a \in Nat /\ a + (b - a) = b /\ b <= b
  OBVIOUS
<1> QED
  BY <1>3, <1>4 DEF T

(* A sequence without a token. *)
Free(s, token) == \A i \in 1 .. Len(s) : s[i] # token

LEMMA JoinFree ==
  ASSUME NEW s, NEW t, IsSeq(s), IsSeq(t), NEW token, Free(s, token), Free(t, token)
  PROVE  Free(s \o t, token)
<1> DEFINE u == s \o t
<1>1. /\ Len(u) = Len(s) + Len(t) /\ Len(s) \in Nat /\ Len(t) \in Nat
      /\ \A i \in 1 .. Len(s) : u[i] = s[i]
      /\ \A i \in 1 .. Len(t) : u[Len(s) + i] = t[i]
  BY JoinOf, SeqIs
<1> HIDE DEF u
<1>2. ASSUME NEW i \in 1 .. Len(u), i \notin 1 .. Len(s)
      PROVE  i - Len(s) \in 1 .. Len(t) /\ Len(s) + (i - Len(s)) = i
  BY <1>1, <1>2
<1>3. ASSUME NEW i \in 1 .. Len(u) PROVE u[i] # token
  <2>1. CASE i \in 1 .. Len(s)
    BY <1>1, <2>1 DEF Free
  <2>2. CASE i \notin 1 .. Len(s)
    <3> DEFINE k == i - Len(s)
    <3>1. k \in 1 .. Len(t) /\ Len(s) + k = i
      BY <1>2, <2>2
    <3> HIDE DEF k
    <3>2. u[i] = t[k]
      BY Zenon, <1>1, <3>1
    <3> QED
      BY Zenon, <3>1, <3>2 DEF Free
  <2> QED
    BY <2>1, <2>2
<1> QED
  BY <1>3 DEF Free, u

LEMMA EmptyFree == \A token : Free(<< >>, token)
BY DEF Free

LEMMA FlatFree ==
  ASSUME NEW g, NEW a \in Nat, NEW b \in Nat, a <= b, Seqs(g, a, b),
         NEW token, \A i \in a + 1 .. b : Free(g[i], token)
  PROVE  Free(Flat(g, a, b), token)
<1> DEFINE T == {k \in Nat : a + k <= b => Free(Flat(g, a, a + k), token)}
<1>1. 0 \in T
  <2>1. a + 0 = a /\ Flat(g, a, a) = << >>
    BY FlatNone
  <2> QED
    BY <2>1, EmptyFree
<1>2. ASSUME NEW k \in Nat, k \in T PROVE k + 1 \in T
  <2> SUFFICES ASSUME a + (k + 1) <= b PROVE Free(Flat(g, a, a + (k + 1)), token)
    OBVIOUS
  <2> DEFINE c == a + k
  <2>1. c \in Nat /\ a <= c /\ c <= b /\ a + (k + 1) = c + 1 /\ c + 1 \in a + 1 .. b
        /\ \A m \in a + 1 .. c : m \in a + 1 .. b
    OBVIOUS
  <2>2. Free(Flat(g, a, c), token) /\ Free(g[c + 1], token)
    BY <1>2, <2>1
  <2> HIDE DEF c
  <2>3. IsSeq(g[c + 1]) /\ Seqs(g, a, c)
    BY Zenon, <2>1 DEF Seqs
  <2>4. IsSeq(Flat(g, a, c))
    BY <2>1, <2>3, FlatIsSeq
  <2>5. Flat(g, a, c + 1) = Flat(g, a, c) \o g[c + 1]
    BY <2>1, <2>3, FlatMore
  <2>6. Free(Flat(g, a, c) \o g[c + 1], token)
    BY ONLY <2>2, <2>3, <2>4, JoinFree
  <2> QED
    BY Zenon, <2>1, <2>5, <2>6
<1> HIDE DEF T
<1>3. Nat \subseteq T
  BY <1>1, <1>2, NaturalsFollow
<1>4. b - a \in Nat /\ a + (b - a) = b /\ b <= b
  OBVIOUS
<1> QED
  BY <1>3, <1>4 DEF T

LEMMA PieceOf ==
  ASSUME NEW s, IsSeq(s), NEW a \in Nat, NEW b \in Nat, a <= b, b <= Len(s)
  PROVE  /\ IsSeq(SubSeq(s, a + 1, b)) /\ Len(SubSeq(s, a + 1, b)) = b - a
         /\ \A i \in 1 .. b - a : SubSeq(s, a + 1, b)[i] = s[a + i]
<1> DEFINE T == ToSet(s)
<1>1. s \in Seq(T)
  BY DEF IsSeq
<1> HIDE DEF T
<1>2. Len(s) \in Nat
  BY <1>1
<1>3. /\ SubSeq(s, a + 1, b) \in Seq(T) /\ Len(SubSeq(s, a + 1, b)) = b - a
      /\ \A i \in 1 .. b - a : SubSeq(s, a + 1, b)[i] = s[a + i]
  BY <1>1, <1>2
<1> QED
  BY <1>3, IsSeqOf

(* Each token after place a up to place b is there as it is. *)
Tokens(g, s, a, b) == \A i \in a + 1 .. b : g[i] = <<s[i]>>

LEMMA FlatTokens ==
  ASSUME NEW g, NEW s, IsSeq(s), NEW a \in Nat, NEW b \in Nat, a <= b, b <= Len(s),
         Tokens(g, s, a, b)
  PROVE  Flat(g, a, b) = SubSeq(s, a + 1, b)
<1> DEFINE T == {k \in Nat : a + k <= b => Flat(g, a, a + k) = SubSeq(s, a + 1, a + k)}
<1>0. Len(s) \in Nat
  BY SeqIs
<1>5. \A i \in a + 1 .. b : g[i] = <<s[i]>>
  BY DEF Tokens
<1>1. 0 \in T
  <2>1. a + 0 = a /\ Flat(g, a, a) = << >>
    BY FlatNone
  <2>2. IsSeq(SubSeq(s, a + 1, a)) /\ Len(SubSeq(s, a + 1, a)) = 0
    BY <1>0, PieceOf
  <2>3. SubSeq(s, a + 1, a) = << >>
    BY Zenon, <2>2, SeqIs
  <2> QED
    BY <2>1, <2>3
<1>2. ASSUME NEW k \in Nat, k \in T PROVE k + 1 \in T
  <2> SUFFICES ASSUME a + (k + 1) <= b
               PROVE Flat(g, a, a + (k + 1)) = SubSeq(s, a + 1, a + (k + 1))
    OBVIOUS
  <2> DEFINE c == a + k
             u == SubSeq(s, a + 1, c)
             v == SubSeq(s, a + 1, c + 1)
             w == <<s[c + 1]>>
  <2>1. /\ c \in Nat /\ a <= c /\ c <= b /\ a + (k + 1) = c + 1 /\ c + 1 \in a + 1 .. b
        /\ c + 1 \in Nat /\ a <= c + 1 /\ c <= Len(s) /\ c + 1 <= Len(s)
    BY <1>0
  <2>2. Flat(g, a, c) = u /\ g[c + 1] = w
    BY <1>2, <1>5, <2>1
  <2>3. IsSeq(w) /\ Len(w) = 1 /\ w[1] = s[c + 1]
    <3>1. w \in Seq({s[c + 1]})
      OBVIOUS
    <3> QED
      BY <3>1, IsSeqOf
  <2> HIDE DEF c
  <2>4. Flat(g, a, c + 1) = u \o w
    <3>1. IsSeq(g[c + 1])
      BY Zenon, <2>2, <2>3
    <3>2. Flat(g, a, c + 1) = Flat(g, a, c) \o g[c + 1]
      BY <2>1, <3>1, FlatMore
    <3> QED
      BY Zenon, <2>2, <3>2
  <2>5. IsSeq(u) /\ Len(u) = c - a /\ \A i \in 1 .. c - a : u[i] = s[a + i]
    BY <2>1, PieceOf
  <2>6. IsSeq(v) /\ Len(v) = (c + 1) - a /\ \A i \in 1 .. (c + 1) - a : v[i] = s[a + i]
    BY <2>1, PieceOf
  <2> HIDE DEF u, v, w
  <2> DEFINE x == u \o w
  <2>7. /\ IsSeq(x) /\ Len(x) = Len(u) + Len(w)
        /\ \A i \in 1 .. Len(u) : x[i] = u[i]
        /\ \A i \in 1 .. Len(w) : x[Len(u) + i] = w[i]
    <3>1. IsSeq(u) /\ IsSeq(w)
      BY <2>3, <2>5
    <3> QED
      BY ONLY <3>1, JoinOf
  <2> HIDE DEF x
  <2>8. Len(x) = Len(v)
    BY <2>1, <2>3, <2>5, <2>6, <2>7
  <2>9. ASSUME NEW i \in 1 .. Len(x) PROVE x[i] = v[i]
    <3>1. CASE i \in 1 .. c - a
      <4>1. i \in 1 .. (c + 1) - a
        BY <2>1, <3>1
      <4> QED
        BY <2>5, <2>6, <2>7, <3>1, <4>1
    <3>2. CASE i \notin 1 .. c - a
      <4>1. i = (c - a) + 1 /\ i \in 1 .. (c + 1) - a /\ a + i = c + 1 /\ 1 \in 1 .. 1
        BY <2>1, <2>3, <2>5, <2>7, <3>2
      <4>2. x[i] = w[1]
        BY <2>3, <2>5, <2>7, <4>1
      <4>3. v[i] = s[c + 1]
        BY <2>6, <4>1
      <4> QED
        BY Zenon, <2>3, <4>2, <4>3
    <3> QED
      BY <3>1, <3>2
  <2>10. x = v
    BY <2>6, <2>7, <2>8, <2>9, SeqsEqual
  <2> QED
    BY Zenon, <2>1, <2>4, <2>10 DEF v, x
<1> HIDE DEF T
<1>3. Nat \subseteq T
  BY <1>1, <1>2, NaturalsFollow
<1>4. b - a \in Nat /\ a + (b - a) = b /\ b <= b
  OBVIOUS
<1> QED
  BY <1>3, <1>4 DEF T

LEMMA LeastIs ==
  ASSUME NEW S, S \subseteq Nat, S # {}
  PROVE  \E x \in S : \A y \in S : x <= y
<1> SUFFICES ASSUME \A x \in S : \E y \in S : ~ (x <= y) PROVE FALSE
  OBVIOUS
<1> DEFINE T == {k \in Nat : \A y \in S : k <= y}
<1>1. 0 \in T
  OBVIOUS
<1>2. ASSUME NEW k \in Nat, k \in T PROVE k + 1 \in T
  <2>1. k \notin S
    BY <1>2
  <2>2. \A y \in S : k <= y /\ y # k /\ y \in Nat
    BY <1>2, <2>1
  <2>3. \A y \in S : k + 1 <= y
    BY <2>2
  <2> QED
    BY <2>3
<1> HIDE DEF T
<1>3. Nat \subseteq T
  BY <1>1, <1>2, NaturalsFollow
<1>4. PICK y \in S : TRUE
  OBVIOUS
<1>5. y + 1 \in T
  BY <1>3, <1>4
<1>6. y + 1 <= y
  BY <1>5 DEF T
<1> QED
  BY <1>4, <1>6

LEMMA IndexNone ==
  ASSUME NEW s, NEW token, NEW k, \A i \in k .. Len(s) : s[i] # token
  PROVE  IndexOf(s, token, k) = 0
<1>1. {i \in k .. Len(s) : s[i] = token} = {}
  OBVIOUS
<1> QED
  BY Zenon, <1>1 DEF IndexOf

LEMMA IndexIs ==
  ASSUME NEW s, Len(s) \in Nat, NEW token, NEW k \in Nat, NEW i \in k .. Len(s), s[i] = token,
         \A m \in k .. i - 1 : s[m] # token
  PROVE  IndexOf(s, token, k) = i
<1> DEFINE places == {m \in k .. Len(s) : s[m] = token}
           y == CHOOSE m \in places : \A l \in places : m <= l
<1>1. i \in places
  OBVIOUS
<1>2. \A l \in places : i <= l
  <2>1. ASSUME NEW l \in places, ~ (i <= l) PROVE FALSE
    <3>1. l \in k .. i - 1 /\ s[l] = token
      BY <2>1
    <3> QED
      BY <3>1
  <2> QED
    BY <2>1
<1>3. IndexOf(s, token, k) = y
  BY Zenon, <1>1 DEF IndexOf
<1>4. places \subseteq Int
  OBVIOUS
<1> HIDE DEF places
<1>5. y \in places /\ \A l \in places : y <= l
  BY <1>1, <1>2
<1> HIDE DEF y
<1>6. y <= i /\ i <= y /\ y \in Int /\ i \in Int
  BY <1>1, <1>2, <1>4, <1>5
<1> QED
  BY <1>3, <1>6

(* If there is one, it is found. *)
LEMMA IndexThere ==
  ASSUME NEW s, Len(s) \in Nat, NEW token, NEW k \in Nat
  PROVE  \/ /\ IndexOf(s, token, k) = 0 /\ \A i \in k .. Len(s) : s[i] # token
         \/ \E i \in k .. Len(s) : /\ IndexOf(s, token, k) = i /\ s[i] = token
                                   /\ \A m \in k .. i - 1 : s[m] # token
<1> DEFINE S == {i \in k .. Len(s) : s[i] = token}
<1>1. CASE S = {}
  <2>1. \A i \in k .. Len(s) : s[i] # token
    BY <1>1
  <2> QED
    BY <2>1, IndexNone
<1>2. CASE S # {}
  <2>1. S \subseteq Nat
    OBVIOUS
  <2> HIDE DEF S
  <2>2. PICK i \in S : \A l \in S : i <= l
    BY <1>2, <2>1, LeastIs
  <2>3. i \in k .. Len(s) /\ s[i] = token
    BY <2>2 DEF S
  <2>4. ASSUME NEW m \in k .. i - 1 PROVE s[m] # token
    <3>1. m \in k .. Len(s) /\ ~ (i <= m)
      BY <2>3
    <3>2. m \notin S
      BY <2>2, <3>1
    <3> QED
      BY <3>1, <3>2 DEF S
  <2>5. IndexOf(s, token, k) = i
    BY <2>3, <2>4, IndexIs
  <2> QED
    BY <2>3, <2>4, <2>5
<1> QED
  BY <1>1, <1>2

LEMMA JoinPieces ==
  ASSUME NEW s, NEW t, IsSeq(s), IsSeq(t)
  PROVE  /\ SubSeq(s \o t, 1, Len(s)) = s
         /\ SubSeq(s \o t, Len(s) + 1, Len(s \o t)) = t
<1> DEFINE u == s \o t
           v == SubSeq(u, 0 + 1, Len(s))
           w == SubSeq(u, Len(s) + 1, Len(u))
<1>1. /\ IsSeq(u) /\ Len(u) = Len(s) + Len(t) /\ Len(s) \in Nat /\ Len(t) \in Nat
      /\ \A i \in 1 .. Len(s) : u[i] = s[i]
      /\ \A i \in 1 .. Len(t) : u[Len(s) + i] = t[i]
  BY JoinOf, SeqIs
<1> HIDE DEF u
<1>2. Len(s) <= Len(u) /\ Len(u) \in Nat /\ 0 <= Len(s) /\ Len(u) - Len(s) = Len(t) /\ 0 + 1 = 1
      /\ Len(s) - 0 = Len(s) /\ \A i \in 1 .. Len(s) : 0 + i = i
  BY <1>1
<1>3. v = s
  <2>1. IsSeq(v) /\ Len(v) = Len(s) - 0 /\ \A i \in 1 .. Len(s) - 0 : v[i] = u[0 + i]
    <3>1. 0 \in Nat
      OBVIOUS
    <3> QED
      BY <1>1, <1>2, <3>1, PieceOf
  <2> HIDE DEF v
  <2>2. Len(v) = Len(s) /\ \A i \in 1 .. Len(s) : v[i] = u[i]
    BY ONLY <1>1, <1>2, <2>1
  <2>3. Len(v) = Len(s) /\ \A i \in 1 .. Len(v) : v[i] = s[i]
    BY Zenon, <1>1, <2>2
  <2> QED
    BY <2>1, <2>3, SeqsEqual
<1>4. w = t
  <2>1. IsSeq(w) /\ Len(w) = Len(u) - Len(s) /\ \A i \in 1 .. Len(u) - Len(s) : w[i] = u[Len(s) + i]
    BY <1>1, <1>2, PieceOf
  <2> HIDE DEF w
  <2>2. Len(w) = Len(t) /\ \A i \in 1 .. Len(w) : w[i] = t[i]
    BY Zenon, <1>1, <1>2, <2>1
  <2> QED
    BY <2>1, <2>2, SeqsEqual
<1> QED
  BY Zenon, <1>2, <1>3, <1>4 DEF u, v, w

FreeFrom(s, k, token) == \A i \in k .. Len(s) : s[i] # token

LEMMA JoinFreeFrom ==
  ASSUME NEW s, NEW t, IsSeq(s), IsSeq(t), NEW token, NEW k \in Nat, k # 0,
         FreeFrom(s, k, token), Free(t, token)
  PROVE  FreeFrom(s \o t, k, token)
<1> DEFINE u == s \o t
<1>1. /\ Len(u) = Len(s) + Len(t) /\ Len(s) \in Nat /\ Len(t) \in Nat
      /\ \A i \in 1 .. Len(s) : u[i] = s[i]
      /\ \A i \in 1 .. Len(t) : u[Len(s) + i] = t[i]
  BY JoinOf, SeqIs
<1> HIDE DEF u
<1>2. ASSUME NEW i \in k .. Len(u) PROVE u[i] # token
  <2>1. CASE i <= Len(s)
    <3>1. i \in 1 .. Len(s) /\ i \in k .. Len(s)
      BY <1>1, <2>1
    <3> QED
      BY Zenon, <1>1, <3>1 DEF FreeFrom
  <2>2. CASE ~ (i <= Len(s))
    <3> DEFINE m == i - Len(s)
    <3>1. m \in 1 .. Len(t) /\ Len(s) + m = i
      BY <1>1, <2>2
    <3> HIDE DEF m
    <3>2. u[i] = t[m]
      BY Zenon, <1>1, <3>1
    <3> QED
      BY Zenon, <3>1, <3>2 DEF Free
  <2> QED
    BY <2>1, <2>2
<1> QED
  BY <1>2 DEF FreeFrom, u

LEMMA JoinIndex ==
  ASSUME NEW s, NEW t, IsSeq(s), IsSeq(t), NEW token, NEW k \in 1 .. Len(s) + 1,
         FreeFrom(s, k, token), t # << >>, t[1] = token
  PROVE  IndexOf(s \o t, token, k) = Len(s) + 1
<1> DEFINE u == s \o t
<1>1. /\ Len(u) = Len(s) + Len(t) /\ Len(s) \in Nat /\ Len(t) \in Nat /\ Len(t) # 0
      /\ \A i \in 1 .. Len(s) : u[i] = s[i]
      /\ \A i \in 1 .. Len(t) : u[Len(s) + i] = t[i]
  BY JoinOf, SeqIs
<1> HIDE DEF u
<1>2. Len(s) + 1 \in k .. Len(u) /\ 1 \in 1 .. Len(t) /\ Len(u) \in Nat /\ k \in Nat
  BY <1>1
<1>3. u[Len(s) + 1] = token
  BY Zenon, <1>1, <1>2
<1>4. ASSUME NEW m \in k .. (Len(s) + 1) - 1 PROVE u[m] # token
  <2>1. m \in 1 .. Len(s) /\ m \in k .. Len(s)
    BY <1>1
  <2> QED
    BY Zenon, <1>1, <2>1 DEF FreeFrom
<1>5. IndexOf(u, token, k) = Len(s) + 1
  BY <1>2, <1>3, <1>4, IndexIs
<1> QED
  BY <1>5 DEF u

-----------------------------------------------------------------------------
(***************************************************************************)
(* One pass over a text o for a tag: token i of the text has old[i] in its *)
(* place before the pass and new[i] after it.  A section goes from a tag   *)
(* to the next end tag; the pass leaves alone what is outside of sections. *)
(***************************************************************************)
Ends(o, s, e) ==
  /\ e \in s + 1 .. Len(o) /\ o[e] = "end"
  /\ \A k \in s + 1 .. e - 1 : o[k] # "end"

(* The first else in a section, or its end. *)
Divides(o, s, e, l) ==
  /\ l \in s + 1 .. e /\ \A k \in s + 1 .. l - 1 : o[k] # "else"
  /\ l # e => o[l] = "else"

FalsePart(o, e, l) == IF l = e THEN << >> ELSE SubSeq(o, l + 1, e - 1)

(* No section that begins before token i reaches it. *)
Outside(o, tg, i) ==
  \A s \in 1 .. i : o[s] = tg => \E k \in s .. i - 1 : o[k] = "end"

PassFits(o, old, new, tg, op) ==
  /\ IsSeq(o) /\ Seqs(old, 0, Len(o)) /\ Seqs(new, 0, Len(o)) /\ tg # "end"
  /\ \A s \in 1 .. Len(o) : o[s] = tg => \E e : Ends(o, s, e)
  /\ \A s \in 1 .. Len(o) : \A e : o[s] = tg /\ Ends(o, s, e) =>
       /\ \A k \in s .. e : old[k] = <<o[k]>>
       /\ Free(Flat(new, s - 1, e), tg)
       /\ \A l : Divides(o, s, e, l) =>
            Flat(new, s - 1, e) = Replacement(tg, SubSeq(o, s + 1, l - 1), FalsePart(o, e, l), op)
  /\ \A i \in 1 .. Len(o) : Outside(o, tg, i) => new[i] = old[i] /\ Free(old[i], tg)

(* The pass is after token p. *)
PassAt(o, old, new, tg, words, place, p) ==
  /\ p \in 0 .. Len(o) /\ (p = 0 \/ o[p] = "end")
  /\ words = Flat(new, 0, p) \o Flat(old, p, Len(o))
  /\ place \in 1 .. Len(Flat(new, 0, p)) + 1
  /\ FreeFrom(Flat(new, 0, p), place, tg)

LEMMA SeqsWithin ==
  ASSUME NEW g, NEW n \in Nat, Seqs(g, 0, n), NEW a \in Nat, NEW b \in Nat, a <= b, b <= n
  PROVE  Seqs(g, a, b) /\ IsSeq(Flat(g, a, b))
<1>1. \A i \in a + 1 .. b : i \in 0 + 1 .. n
  OBVIOUS
<1>2. Seqs(g, a, b)
  BY Zenon, <1>1 DEF Seqs
<1> QED
  BY <1>2, FlatIsSeq

(* What is outside of sections stays as it was. *)
LEMMA SameUntil ==
  ASSUME NEW o, NEW old, NEW new, NEW tg, NEW op, PassFits(o, old, new, tg, op),
         NEW p \in 0 .. Len(o), p = 0 \/ o[p] = "end",
         NEW q \in p .. Len(o), \A s \in p + 1 .. q : o[s] # tg
  PROVE  /\ Flat(new, p, q) = Flat(old, p, q) /\ Free(Flat(old, p, q), tg)
         /\ IsSeq(Flat(old, p, q)) /\ p \in Nat /\ q \in Nat /\ Len(o) \in Nat
<1>1. Len(o) \in Nat /\ p \in Nat /\ q \in Nat /\ p <= q /\ q <= Len(o)
  BY SeqIs DEF PassFits
<1>2. ASSUME NEW i \in p + 1 .. q PROVE Outside(o, tg, i) /\ i \in 1 .. Len(o)
  <2>1. i \in 1 .. Len(o)
    BY <1>1
  <2>2. ASSUME NEW s \in 1 .. i, o[s] = tg PROVE \E k \in s .. i - 1 : o[k] = "end"
    <3>1. s \notin p + 1 .. q
      BY <2>2
    <3>2. p # 0 /\ p \in s .. i - 1
      BY <1>1, <3>1
    <3> QED
      BY Zenon, <3>2
  <2> QED
    BY Zenon, <2>1, <2>2 DEF Outside
<1>3. \A i \in p + 1 .. q : new[i] = old[i] /\ Free(old[i], tg)
  BY Zenon, <1>2 DEF PassFits
<1>4. Flat(new, p, q) = Flat(old, p, q)
  BY <1>1, <1>3, FlatSame
<1>5. Seqs(old, p, q) /\ IsSeq(Flat(old, p, q))
  BY <1>1, SeqsWithin DEF PassFits
<1>6. Free(Flat(old, p, q), tg)
  BY <1>1, <1>3, <1>5, FlatFree
<1> QED
  BY <1>1, <1>4, <1>5, <1>6

LEMMA PassEnds ==
  ASSUME NEW o, NEW old, NEW new, NEW tg, NEW op, PassFits(o, old, new, tg, op),
         NEW words, NEW place, NEW p, PassAt(o, old, new, tg, words, place, p),
         \A s \in p + 1 .. Len(o) : o[s] # tg
  PROVE  IndexOf(words, tg, place) = 0 /\ words = Flat(new, 0, Len(o))
<1> DEFINE a == Flat(new, 0, p)
           b == Flat(old, p, Len(o))
<1>1. /\ p \in 0 .. Len(o) /\ words = a \o b /\ place \in 1 .. Len(a) + 1 /\ FreeFrom(a, place, tg)
      /\ p = 0 \/ o[p] = "end"
  BY DEF PassAt
<1>2. Len(o) \in Nat
  BY SeqIs DEF PassFits
<1>3. Flat(new, p, Len(o)) = b /\ Free(b, tg) /\ IsSeq(b) /\ p \in Nat
  <2>1. Len(o) \in p .. Len(o)
    BY <1>1, <1>2
  <2> QED
    BY <1>1, <2>1, SameUntil
<1>4. IsSeq(a) /\ Seqs(new, 0, Len(o))
  <2>1. Seqs(new, 0, Len(o)) /\ 0 \in Nat /\ 0 <= p /\ p <= Len(o)
    BY <1>1, <1>2 DEF PassFits
  <2> QED
    BY <1>2, <1>3, <2>1, SeqsWithin
<1>5. words = Flat(new, 0, Len(o))
  <2>1. 0 \in Nat /\ 0 <= p /\ p <= Len(o)
    BY <1>1, <1>2
  <2>2. Flat(new, 0, Len(o)) = Flat(new, 0, p) \o Flat(new, p, Len(o))
    BY <1>2, <1>3, <1>4, <2>1, FlatJoin
  <2> QED
    BY Zenon, <1>1, <1>3, <2>2
<1> HIDE DEF a, b
<1>6. place \in Nat /\ place # 0
  BY <1>1, <1>4, SeqIs
<1>7. FreeFrom(a \o b, place, tg)
  BY <1>1, <1>3, <1>4, <1>6, JoinFreeFrom
<1>8. IndexOf(words, tg, place) = 0
  BY <1>1, <1>7, IndexNone DEF FreeFrom
<1> QED
  BY <1>5, <1>8

(* The next tag is that of token s. *)
TagFound(o, old, new, tg, words, place, s) ==
  /\ s - 1 \in Nat /\ s \in 1 .. Len(o) /\ Len(o) \in Nat
  /\ words = Flat(new, 0, s - 1) \o Flat(old, s - 1, Len(o))
  /\ IsSeq(Flat(new, 0, s - 1)) /\ IsSeq(Flat(old, s - 1, Len(o)))
  /\ IndexOf(words, tg, place) = Len(Flat(new, 0, s - 1)) + 1

LEMMA PassFinds ==
  ASSUME NEW o, NEW old, NEW new, NEW tg, NEW op, PassFits(o, old, new, tg, op),
         NEW words, NEW place, NEW p, PassAt(o, old, new, tg, words, place, p),
         NEW s \in p + 1 .. Len(o), o[s] = tg, \A k \in p + 1 .. s - 1 : o[k] # tg
  PROVE  TagFound(o, old, new, tg, words, place, s)
<1> DEFINE q == s - 1
           a == Flat(new, 0, p)
           b == Flat(old, p, q)
           c == Flat(old, q, Len(o))
           d == Flat(new, 0, q)
<1>1. /\ p \in 0 .. Len(o) /\ words = a \o Flat(old, p, Len(o)) /\ place \in 1 .. Len(a) + 1
      /\ FreeFrom(a, place, tg)
      /\ p = 0 \/ o[p] = "end"
  BY DEF PassAt
<1>2. Len(o) \in Nat
  BY SeqIs DEF PassFits
<1>3. /\ p \in Nat /\ q \in Nat /\ p <= q /\ q <= Len(o) /\ p <= Len(o) /\ q + 1 = s /\ q < Len(o)
      /\ 0 \in Nat /\ 0 <= p /\ 0 <= q /\ q \in p .. Len(o) /\ s \in 1 .. Len(o) /\ Len(o) <= Len(o)
      /\ s <= Len(o) /\ s \in Nat /\ q <= s
  BY <1>1, <1>2
<1>4. Seqs(new, 0, Len(o)) /\ Seqs(old, 0, Len(o))
  BY DEF PassFits
<1>5. Flat(new, p, q) = b /\ Free(b, tg) /\ IsSeq(b)
  <2> HIDE DEF q
  <2>1. \A k \in p + 1 .. q : o[k] # tg
    BY DEF q
  <2> QED
    BY <1>1, <1>3, <2>1, SameUntil
<1> HIDE DEF q
<1>6. IsSeq(a) /\ IsSeq(c) /\ IsSeq(d) /\ Seqs(new, 0, q) /\ Seqs(old, p, Len(o))
      /\ Seqs(old, q, Len(o))
  BY <1>2, <1>3, <1>4, SeqsWithin
<1>7. d = a \o b
  <2>1. Flat(new, 0, q) = Flat(new, 0, p) \o Flat(new, p, q)
    <3>1. 0 \in Nat /\ p \in Nat /\ q \in Nat /\ 0 <= p /\ p <= q /\ Seqs(new, 0, q)
      BY <1>3, <1>6
    <3> QED
      BY ONLY <3>1, FlatJoin
  <2> QED
    BY Zenon, <1>5, <2>1
<1>8. Flat(old, p, Len(o)) = b \o c
  <2>1. /\ p \in Nat /\ q \in Nat /\ Len(o) \in Nat /\ p <= q /\ q <= Len(o)
        /\ Seqs(old, p, Len(o))
    BY <1>2, <1>3, <1>6
  <2> QED
    BY ONLY <2>1, FlatJoin
<1>9. c # << >> /\ c[1] = tg
  <2> DEFINE x == <<tg>>
             y == Flat(old, s, Len(o))
  <2>1. old[s] = x
    <3>1. PICK e : Ends(o, s, e)
      BY Zenon, <1>3 DEF PassFits
    <3>2. s \in s .. e
      BY <1>3, <3>1 DEF Ends
    <3>3. old[s] = <<o[s]>>
      BY Zenon, <1>3, <3>1, <3>2 DEF PassFits
    <3> QED
      BY Zenon, <3>3
  <2>2. Flat(old, q, s) = old[s]
    BY <1>3, FlatOne
  <2>3. c = Flat(old, q, s) \o y
    <3>1. /\ q \in Nat /\ s \in Nat /\ Len(o) \in Nat /\ q <= s /\ s <= Len(o)
          /\ Seqs(old, q, Len(o))
      BY <1>2, <1>3, <1>6
    <3> QED
      BY ONLY <3>1, FlatJoin
  <2>4. IsSeq(x) /\ Len(x) = 1 /\ x[1] = tg
    <3>1. x \in Seq({tg})
      OBVIOUS
    <3> QED
      BY <3>1, IsSeqOf
  <2>5. IsSeq(y)
    BY <1>2, <1>3, <1>4, SeqsWithin
  <2> HIDE DEF x, y, c
  <2>6. c = x \o y
    BY Zenon, <2>1, <2>2, <2>3
  <2>7. Len(x \o y) = Len(x) + Len(y) /\ \A i \in 1 .. Len(x) : (x \o y)[i] = x[i]
    <3>1. IsSeq(x) /\ IsSeq(y)
      BY <2>4, <2>5
    <3> QED
      BY ONLY <3>1, JoinOf
  <2>8. Len(y) \in Nat /\ 1 \in 1 .. 1
    BY <2>5, SeqIs
  <2>9. Len(c) # 0 /\ c[1] = tg
    <3>1. c[1] = x[1]
      BY Zenon, <2>4, <2>6, <2>7, <2>8
    <3>2. Len(c) = 1 + Len(y)
      BY Zenon, <2>4, <2>6, <2>7
    <3> QED
      BY <2>4, <2>8, <3>1, <3>2
  <2> QED
    BY <1>6, <2>9, SeqIs
<1> HIDE DEF a, b, c, d
<1>10. words = d \o c
  <2>1. (a \o b) \o c = a \o (b \o c)
    BY ONLY <1>5, <1>6, JoinAssociates, SMTT(30)
  <2> QED
    BY Zenon, <1>1, <1>7, <1>8, <2>1
<1>11. place \in 1 .. Len(d) + 1 /\ FreeFrom(d, place, tg)
  <2>1. Len(a) \in Nat /\ Len(b) \in Nat /\ Len(d) = Len(a) + Len(b)
    BY <1>5, <1>6, <1>7, JoinOf, SeqIs
  <2>2. place \in Nat /\ place # 0
    BY <1>1, <2>1
  <2>3. FreeFrom(a \o b, place, tg)
    <3>1. IsSeq(a) /\ IsSeq(b) /\ FreeFrom(a, place, tg) /\ Free(b, tg)
      BY <1>1, <1>5, <1>6
    <3> QED
      BY ONLY <2>2, <3>1, JoinFreeFrom
  <2> QED
    BY <1>1, <1>7, <2>1, <2>3
<1>12. IndexOf(d \o c, tg, place) = Len(d) + 1
  BY <1>6, <1>9, <1>11, JoinIndex
<1> QED
  BY Zenon, <1>2, <1>3, <1>6, <1>10, <1>12 DEF c, d, q, TagFound

-----------------------------------------------------------------------------
(* A section in a text: what is between the places a and b of o, in front  *)
(* of it x and behind it z.                                                *)
Within(words, x, o, a, b, z) ==
  /\ IsSeq(o) /\ IsSeq(x) /\ IsSeq(z)
  /\ a \in Nat /\ b \in Nat /\ a <= b /\ b <= Len(o)
  /\ words = x \o (SubSeq(o, a + 1, b) \o z)

LEMMA WithinIs ==
  ASSUME NEW words, NEW x, NEW o, NEW a, NEW b, NEW z, Within(words, x, o, a, b, z)
  PROVE  /\ IsSeq(words) /\ Len(words) \in Nat /\ Len(x) \in Nat /\ Len(o) \in Nat
         /\ Len(x) + (b - a) <= Len(words)
         /\ \A i \in 1 .. b - a : words[Len(x) + i] = o[a + i]
         /\ SubSeq(words, 1, Len(x)) = x
         /\ SubSeq(words, Len(x) + (b - a) + 1, Len(words)) = z
<1> DEFINE m == SubSeq(o, a + 1, b)
           y == m \o z
           u == x \o m
<1>1. IsSeq(o) /\ IsSeq(x) /\ IsSeq(z) /\ a \in Nat /\ b \in Nat /\ a <= b /\ b <= Len(o) /\ words = x \o y
  BY DEF Within
<1>2. Len(x) \in Nat /\ Len(z) \in Nat /\ Len(o) \in Nat
  BY <1>1, SeqIs
<1>3. IsSeq(m) /\ Len(m) = b - a /\ \A i \in 1 .. b - a : m[i] = o[a + i]
  BY <1>1, PieceOf
<1> HIDE DEF m
<1>4. IsSeq(y) /\ Len(y) = Len(m) + Len(z) /\ \A i \in 1 .. Len(m) : y[i] = m[i]
  <2>1. IsSeq(m) /\ IsSeq(z)
    BY <1>1, <1>3
  <2> QED
    BY ONLY <2>1, JoinOf
<1>5. IsSeq(u) /\ Len(u) = Len(x) + Len(m)
  <2>1. IsSeq(m) /\ IsSeq(x)
    BY <1>1, <1>3
  <2> QED
    BY ONLY <2>1, JoinOf
<1>6. words = u \o z
  <2>1. IsSeq(x) /\ IsSeq(m) /\ IsSeq(z)
    BY <1>1, <1>3
  <2>2. (x \o m) \o z = x \o (m \o z)
    BY ONLY <2>1, JoinAssociates
  <2> QED
    BY Zenon, <1>1, <2>2
<1> HIDE DEF y, u
<1>7. /\ IsSeq(words) /\ Len(words) = Len(x) + Len(y)
      /\ \A i \in 1 .. Len(y) : words[Len(x) + i] = y[i]
      /\ SubSeq(words, 1, Len(x)) = x
  <2>1. IsSeq(x) /\ IsSeq(y)
    BY <1>1, <1>4
  <2>2. /\ IsSeq(x \o y) /\ Len(x \o y) = Len(x) + Len(y)
        /\ \A i \in 1 .. Len(y) : (x \o y)[Len(x) + i] = y[i]
    BY ONLY <2>1, JoinOf
  <2>3. SubSeq(x \o y, 1, Len(x)) = x
    BY ONLY <2>1, JoinPieces
  <2> QED
    BY Zenon, <1>1, <2>2, <2>3
<1>8. SubSeq(words, Len(u) + 1, Len(words)) = z
  <2>1. IsSeq(u) /\ IsSeq(z)
    BY <1>1, <1>5
  <2>2. SubSeq(u \o z, Len(u) + 1, Len(u \o z)) = z
    BY ONLY <2>1, JoinPieces
  <2> QED
    BY Zenon, <1>6, <2>2
<1>9. ASSUME NEW i \in 1 .. b - a PROVE words[Len(x) + i] = o[a + i]
  <2>1. i \in 1 .. Len(m) /\ i \in 1 .. Len(y)
    BY <1>1, <1>2, <1>3, <1>4
  <2> QED
    BY Zenon, <1>3, <1>4, <1>7, <2>1
<1>10. Len(x) + (b - a) <= Len(words) /\ Len(words) \in Nat /\ Len(u) = Len(x) + (b - a)
  BY <1>1, <1>2, <1>3, <1>4, <1>5, <1>7
<1> QED
  BY <1>1, <1>2, <1>7, <1>8, <1>9, <1>10

SamePiece(words, x, o, a, i, j) ==
  SubSeq(words, Len(x) + i + 1, Len(x) + j) = SubSeq(o, a + i + 1, a + j)

LEMMA WithinPiece ==
  ASSUME NEW words, NEW x, NEW o, NEW a, NEW b, NEW z, Within(words, x, o, a, b, z),
         NEW i \in Nat, NEW j \in Nat, i <= j, j <= b - a
  PROVE  SamePiece(words, x, o, a, i, j)
<1> DEFINE k == Len(x) + i
           c == a + i
           u == SubSeq(words, k + 1, Len(x) + j)
           v == SubSeq(o, c + 1, a + j)
<1>1. /\ IsSeq(words) /\ Len(words) \in Nat /\ Len(x) \in Nat /\ Len(o) \in Nat
      /\ Len(x) + (b - a) <= Len(words)
      /\ \A m \in 1 .. b - a : words[Len(x) + m] = o[a + m]
  BY WithinIs
<1>2. IsSeq(o) /\ a \in Nat /\ b \in Nat /\ a <= b /\ b <= Len(o)
  BY DEF Within
<1>3. /\ k \in Nat /\ Len(x) + j \in Nat /\ k <= Len(x) + j /\ Len(x) + j <= Len(words)
      /\ c \in Nat /\ a + j \in Nat /\ c <= a + j /\ a + j <= Len(o)
      /\ (Len(x) + j) - k = j - i /\ (a + j) - c = j - i
  BY <1>1, <1>2
<1>4. ASSUME NEW m \in 1 .. j - i PROVE words[k + m] = o[c + m]
  <2>1. i + m \in 1 .. b - a /\ Len(x) + (i + m) = k + m /\ a + (i + m) = c + m
    BY <1>1, <1>2
  <2> QED
    BY Zenon, <1>1, <2>1
<1> HIDE DEF k, c
<1>5. IsSeq(u) /\ Len(u) = j - i /\ \A m \in 1 .. j - i : u[m] = words[k + m]
  BY <1>1, <1>3, PieceOf
<1>6. IsSeq(v) /\ Len(v) = j - i /\ \A m \in 1 .. j - i : v[m] = o[c + m]
  <2> DEFINE d == a + j
  <2>1. IsSeq(o) /\ c \in Nat /\ d \in Nat /\ c <= d /\ d <= Len(o) /\ d - c = j - i
    BY <1>2, <1>3
  <2> HIDE DEF d
  <2>2. /\ IsSeq(SubSeq(o, c + 1, d)) /\ Len(SubSeq(o, c + 1, d)) = d - c
        /\ \A m \in 1 .. d - c : SubSeq(o, c + 1, d)[m] = o[c + m]
    BY ONLY <2>1, PieceOf
  <2> QED
    BY Zenon, <2>1, <2>2 DEF d
<1> HIDE DEF u, v
<1>7. u = v
  <2>1. Len(u) = Len(v) /\ \A m \in 1 .. Len(u) : u[m] = v[m]
    BY Zenon, <1>4, <1>5, <1>6
  <2> QED
    BY <1>5, <1>6, <2>1, SeqsEqual
<1> QED
  BY Zenon, <1>7 DEF SamePiece, u, v, k, c

LEMMA WithinIndex ==
  ASSUME NEW words, NEW x, NEW o, NEW a, NEW b, NEW z, Within(words, x, o, a, b, z),
         NEW token, NEW i \in 2 .. b - a, o[a + i] = token,
         \A m \in 2 .. i - 1 : o[a + m] # token
  PROVE  IndexOf(words, token, Len(x) + 1 + 1) = Len(x) + i
<1> DEFINE k == Len(x) + 1 + 1
           l == Len(x) + i
<1>1. /\ Len(words) \in Nat /\ Len(x) \in Nat /\ Len(x) + (b - a) <= Len(words)
      /\ \A m \in 1 .. b - a : words[Len(x) + m] = o[a + m]
  BY WithinIs
<1>2. a \in Nat /\ b \in Nat /\ a <= b
  BY DEF Within
<1>3. k \in Nat /\ l \in k .. Len(words) /\ i \in 1 .. b - a
  BY <1>1, <1>2
<1>4. words[l] = token
  BY Zenon, <1>1, <1>3
<1>5. ASSUME NEW m \in k .. l - 1 PROVE words[m] # token
  <2> DEFINE n == m - Len(x)
  <2>1. n \in 2 .. i - 1 /\ n \in 1 .. b - a /\ Len(x) + n = m
    BY <1>1, <1>2
  <2> HIDE DEF n
  <2> QED
    BY Zenon, <1>1, <2>1
<1> HIDE DEF k, l
<1>6. IndexOf(words, token, k) = l
  BY <1>1, <1>3, <1>4, <1>5, IndexIs
<1> QED
  BY <1>6 DEF k, l

LEMMA WithinNoIndex ==
  ASSUME NEW words, NEW x, NEW o, NEW a, NEW b, NEW z, Within(words, x, o, a, b, z),
         NEW token, \A m \in 2 .. b - a : o[a + m] # token
  PROVE  LET i == IndexOf(words, token, Len(x) + 1 + 1) IN
         i = 0 \/ (i \in Nat /\ i > Len(x) + (b - a))
<1> DEFINE k == Len(x) + 1 + 1
<1>1. /\ Len(words) \in Nat /\ Len(x) \in Nat /\ Len(x) + (b - a) <= Len(words)
      /\ \A m \in 1 .. b - a : words[Len(x) + m] = o[a + m]
  BY WithinIs
<1>2. a \in Nat /\ b \in Nat /\ a <= b /\ k \in Nat
  BY <1>1 DEF Within
<1>3. ASSUME NEW i \in k .. Len(words), words[i] = token PROVE i \in Nat /\ i > Len(x) + (b - a)
  <2>1. ASSUME ~ (i > Len(x) + (b - a)) PROVE FALSE
    <3> DEFINE n == i - Len(x)
    <3>1. n \in 2 .. b - a /\ n \in 1 .. b - a /\ Len(x) + n = i
      BY <1>1, <1>2, <2>1
    <3> HIDE DEF n
    <3> QED
      BY Zenon, <1>1, <1>3, <3>1
  <2> QED
    BY <1>1, <1>2, <2>1
<1> HIDE DEF k
<1>4. \/ IndexOf(words, token, k) = 0
      \/ \E i \in k .. Len(words) : IndexOf(words, token, k) = i /\ words[i] = token
  BY <1>1, <1>2, IndexThere
<1>5. IndexOf(words, token, k) = 0
      \/ (IndexOf(words, token, k) \in Nat /\ IndexOf(words, token, k) > Len(x) + (b - a))
  BY Zenon, <1>3, <1>4
<1> QED
  BY <1>5 DEF k

LEMMA DividesSomewhere ==
  ASSUME NEW o, IsSeq(o), NEW s \in Nat, NEW e, Ends(o, s, e)
  PROVE  \E l : Divides(o, s, e, l)
<1> DEFINE S == {k \in s + 1 .. e : o[k] = "else" \/ k = e}
<1>1. Len(o) \in Nat /\ e \in s + 1 .. Len(o)
  BY SeqIs DEF Ends
<1>2. S \subseteq Nat /\ e \in S
  BY <1>1
<1>3. PICK l \in S : \A k \in S : l <= k
  <2> HIDE DEF S
  <2> QED
    BY <1>2, LeastIs
<1>4. l \in s + 1 .. e /\ (o[l] = "else" \/ l = e)
  OBVIOUS
<1>5. ASSUME NEW k \in s + 1 .. l - 1 PROVE o[k] # "else"
  <2>1. k \in s + 1 .. e /\ ~ (l <= k)
    BY <1>1, <1>4
  <2>2. k \notin S
    BY <1>3, <2>1
  <2> QED
    BY Zenon, <2>1, <2>2
<1>6. Divides(o, s, e, l)
  BY Zenon, <1>4, <1>5 DEF Divides
<1> QED
  BY <1>6

(* The places that ReplaceSection finds, and the parts it takes. *)
PartsFound(words, x, o, s, e, l) ==
  LET start == Len(x) + 1
      end == IndexOf(words, "end", start + 1)
      ellse == IndexOf(words, "else", start + 1)
      hasElse == ellse > start /\ ellse < end
  IN  /\ end = Len(x) + (e - (s - 1)) /\ start # 0 /\ end # 0
      /\ SubSeq(words, start + 1, (IF hasElse THEN ellse ELSE end) - 1)
           = SubSeq(o, s + 1, l - 1)
      /\ (IF hasElse THEN SubSeq(words, ellse + 1, end - 1) ELSE << >>)
           = FalsePart(o, e, l)

LEMMA SectionFound ==
  ASSUME NEW words, NEW x, NEW o, NEW s \in Nat, s # 0, NEW e, NEW z,
         Within(words, x, o, s - 1, e, z), Ends(o, s, e), NEW l, Divides(o, s, e, l)
  PROVE  PartsFound(words, x, o, s, e, l)
<1> DEFINE a == s - 1
           start == Len(x) + 1
           end == IndexOf(words, "end", start + 1)
           ellse == IndexOf(words, "else", start + 1)
           hasElse == ellse > start /\ ellse < end
<1>1. a \in Nat /\ a + 1 = s /\ Len(x) \in Nat /\ Len(o) \in Nat
  BY WithinIs
<1>2. e \in s + 1 .. Len(o) /\ o[e] = "end" /\ (\A k \in s + 1 .. e - 1 : o[k] # "end")
      /\ l \in s + 1 .. e /\ (\A k \in s + 1 .. l - 1 : o[k] # "else")
      /\ (l # e => o[l] = "else")
  BY DEF Ends, Divides
<1>3. Within(words, x, o, a, e, z)
  OBVIOUS
<1> HIDE DEF a
<1>4. end = Len(x) + (e - a)
  <2> DEFINE i == e - a
  <2>1. i \in 2 .. e - a /\ a + i = e /\ \A m \in 2 .. i - 1 : a + m \in s + 1 .. e - 1
    BY <1>1, <1>2
  <2> HIDE DEF i
  <2>2. o[a + i] = "end" /\ \A m \in 2 .. i - 1 : o[a + m] # "end"
    BY Zenon, <1>2, <2>1
  <2>3. IndexOf(words, "end", Len(x) + 1 + 1) = Len(x) + i
    BY <1>3, <2>1, <2>2, WithinIndex
  <2> QED
    BY Zenon, <2>3 DEF i
<1>5. start # 0 /\ end # 0 /\ start \in Nat /\ end \in Nat
  BY <1>1, <1>2, <1>4
<1>6. CASE l # e
  <2> DEFINE i == l - a
  <2>1. i \in 2 .. e - a /\ a + i = l /\ \A m \in 2 .. i - 1 : a + m \in s + 1 .. l - 1
    BY <1>1, <1>2
  <2>2. ellse = Len(x) + i
    <3> HIDE DEF i
    <3>1. o[a + i] = "else" /\ \A m \in 2 .. i - 1 : o[a + m] # "else"
      BY Zenon, <1>2, <1>6, <2>1
    <3>2. IndexOf(words, "else", Len(x) + 1 + 1) = Len(x) + i
      BY <1>3, <2>1, <3>1, WithinIndex
    <3> QED
      BY Zenon, <3>2
  <2>3. hasElse
    <3> HIDE DEF start, ellse, end
    <3>1. start = Len(x) + 1
      BY DEF start
    <3> QED
      BY ONLY <1>1, <1>2, <1>4, <1>6, <2>2, <3>1
  <2>4. SubSeq(words, start + 1, ellse - 1) = SubSeq(o, s + 1, l - 1)
    <3> HIDE DEF ellse, end
    <3> DEFINE j == i - 1
    <3>1. /\ 1 \in Nat /\ j \in Nat /\ 1 <= j /\ j <= e - a
          /\ Len(x) + j = ellse - 1 /\ a + j = l - 1 /\ a + 1 + 1 = s + 1
      BY <1>1, <1>2, <2>1, <2>2
    <3> HIDE DEF j
    <3>2. SubSeq(words, Len(x) + 1 + 1, Len(x) + j) = SubSeq(o, a + 1 + 1, a + j)
      <4> DEFINE i1 == 1
      <4>1. i1 \in Nat /\ j \in Nat /\ i1 <= j /\ j <= e - a
        BY <3>1
      <4> HIDE DEF i1
      <4>2. SamePiece(words, x, o, a, i1, j)
        BY ONLY <1>3, <4>1, WithinPiece
      <4> QED
        BY Zenon, <4>2 DEF SamePiece, i1
    <3> QED
      BY Zenon, <3>1, <3>2
  <2>5. SubSeq(words, ellse + 1, end - 1) = SubSeq(o, l + 1, e - 1)
    <3> HIDE DEF ellse, end
    <3> DEFINE j == (e - a) - 1
    <3>1. /\ i \in Nat /\ j \in Nat /\ i <= j /\ j <= e - a
          /\ Len(x) + j = end - 1 /\ a + j = e - 1 /\ Len(x) + i = ellse /\ a + i = l
      BY <1>1, <1>2, <1>4, <1>6, <2>1, <2>2
    <3> HIDE DEF i, j
    <3>2. SubSeq(words, Len(x) + i + 1, Len(x) + j) = SubSeq(o, a + i + 1, a + j)
      <4>1. i \in Nat /\ j \in Nat /\ i <= j /\ j <= e - a
        BY <3>1
      <4>2. SamePiece(words, x, o, a, i, j)
        BY ONLY <1>3, <4>1, WithinPiece
      <4> QED
        BY Zenon, <4>2 DEF SamePiece
    <3> QED
      BY Zenon, <3>1, <3>2
  <2>6. FalsePart(o, e, l) = SubSeq(o, l + 1, e - 1)
    BY Zenon, <1>6 DEF FalsePart
  <2> QED
    BY Zenon, <1>4, <1>5, <2>3, <2>4, <2>5, <2>6 DEF a, PartsFound
<1>7. CASE l = e
  <2>1. ~ hasElse
    <3>1. ASSUME NEW m \in 2 .. e - a PROVE o[a + m] # "else"
      <4>1. a + m \in s + 1 .. e - 1 \/ a + m = e
        BY <1>1, <1>2
      <4> QED
        BY Zenon, <1>2, <1>7, <4>1
    <3>2. IndexOf(words, "else", Len(x) + 1 + 1) = 0
          \/ (IndexOf(words, "else", Len(x) + 1 + 1) \in Nat
              /\ IndexOf(words, "else", Len(x) + 1 + 1) > Len(x) + (e - a))
      BY <1>3, <3>1, WithinNoIndex
    <3>3. ellse = 0 \/ (ellse \in Nat /\ ellse > Len(x) + (e - a))
      BY Zenon, <3>2
    <3> HIDE DEF start, ellse, end
    <3>4. start = Len(x) + 1
      BY DEF start
    <3> QED
      BY ONLY <1>1, <1>2, <1>4, <3>3, <3>4
  <2>2. SubSeq(words, start + 1, end - 1) = SubSeq(o, s + 1, l - 1)
    <3> HIDE DEF ellse, end
    <3> DEFINE j == (e - a) - 1
    <3>1. /\ 1 \in Nat /\ j \in Nat /\ 1 <= j /\ j <= e - a
          /\ Len(x) + j = end - 1 /\ a + j = l - 1 /\ a + 1 + 1 = s + 1
      BY <1>1, <1>2, <1>4, <1>7
    <3> HIDE DEF j
    <3>2. SubSeq(words, Len(x) + 1 + 1, Len(x) + j) = SubSeq(o, a + 1 + 1, a + j)
      <4> DEFINE i1 == 1
      <4>1. i1 \in Nat /\ j \in Nat /\ i1 <= j /\ j <= e - a
        BY <3>1
      <4> HIDE DEF i1
      <4>2. SamePiece(words, x, o, a, i1, j)
        BY ONLY <1>3, <4>1, WithinPiece
      <4> QED
        BY Zenon, <4>2 DEF SamePiece, i1
    <3> QED
      BY Zenon, <3>1, <3>2
  <2>3. FalsePart(o, e, l) = << >>
    BY Zenon, <1>7 DEF FalsePart
  <2> QED
    BY Zenon, <1>4, <1>5, <2>1, <2>2, <2>3 DEF a, PartsFound
<1> QED
  BY <1>6, <1>7

(* One turn replaces the next section by what the pass makes of it. *)
TurnFits(o, old, new, tg, op, words, place) ==
  LET start == IndexOf(words, tg, place)
      end == IndexOf(words, "end", start + 1)
      ellse == IndexOf(words, "else", start + 1)
      hasElse == ellse > start /\ ellse < end
      truePart == SubSeq(words, start + 1, (IF hasElse THEN ellse ELSE end) - 1)
      falsePart == IF hasElse THEN SubSeq(words, ellse + 1, end - 1) ELSE << >>
  IN  /\ start # 0 /\ end # 0
      /\ \E e : PassAt(o, old, new, tg,
           Replaced(words, start, end, Replacement(tg, truePart, falsePart, op)), start, e)

LEMMA PassReplaces ==
  ASSUME NEW o, NEW old, NEW new, NEW tg, NEW op, PassFits(o, old, new, tg, op),
         NEW words, NEW place, NEW p, PassAt(o, old, new, tg, words, place, p),
         NEW s \in p + 1 .. Len(o), o[s] = tg, \A k \in p + 1 .. s - 1 : o[k] # tg
  PROVE  TurnFits(o, old, new, tg, op, words, place)
<1> DEFINE a == s - 1
           x == Flat(new, 0, a)
           begin == Len(x) + 1
<1>1. /\ a \in Nat /\ s \in 1 .. Len(o) /\ Len(o) \in Nat
      /\ words = x \o Flat(old, a, Len(o)) /\ IsSeq(x) /\ IsSeq(Flat(old, a, Len(o)))
      /\ IndexOf(words, tg, place) = begin
  <2>1. TagFound(o, old, new, tg, words, place, s)
    <3> HIDE DEF a, x, begin
    <3> QED
      BY PassFinds
  <2> HIDE DEF begin
  <2>2. s \in 1 .. Len(o) /\ Len(o) \in Nat /\ words = x \o Flat(old, a, Len(o)) /\ a \in Nat
        /\ IsSeq(x) /\ IsSeq(Flat(old, a, Len(o)))
    BY Zenon, <2>1 DEF TagFound
  <2>3. IndexOf(words, tg, place) = begin
    BY Zenon, <2>1 DEF TagFound, begin
  <2> QED
    BY Zenon, <2>2, <2>3
<1>2. IsSeq(o) /\ Seqs(old, 0, Len(o)) /\ Seqs(new, 0, Len(o))
  BY DEF PassFits
<1>3. PICK e : Ends(o, s, e)
  BY Zenon, <1>1 DEF PassFits
<1>4. /\ s \in Nat /\ s # 0 /\ e \in Nat /\ a <= e /\ e <= Len(o) /\ a + 1 = s /\ s <= e
      /\ a <= Len(o) /\ Len(o) <= Len(o) /\ 0 \in Nat /\ 0 <= a /\ 0 <= e /\ e \in 0 .. Len(o)
      /\ s + 1 <= e /\ o[e] = "end"
  BY <1>1, <1>3 DEF Ends
<1>5. PICK l : Divides(o, s, e, l)
  BY <1>2, <1>3, <1>4, DividesSomewhere
<1> DEFINE z == Flat(old, e, Len(o))
           r == Flat(new, a, e)
           truePart == SubSeq(o, s + 1, l - 1)
           falsePart == FalsePart(o, e, l)
<1>6. r = Replacement(tg, truePart, falsePart, op) /\ Free(r, tg)
      /\ \A k \in s .. e : old[k] = <<o[k]>>
  BY Zenon, <1>1, <1>3, <1>5 DEF PassFits
<1> HIDE DEF a
<1>7. IsSeq(z) /\ IsSeq(r) /\ Seqs(old, a, Len(o)) /\ Seqs(new, 0, e)
  BY <1>1, <1>2, <1>4, SeqsWithin
<1>8. Within(words, x, o, a, e, z)
  <2>1. Flat(old, a, Len(o)) = Flat(old, a, e) \o z
    <3>1. /\ a \in Nat /\ e \in Nat /\ Len(o) \in Nat /\ a <= e /\ e <= Len(o)
          /\ Seqs(old, a, Len(o))
      BY <1>1, <1>4, <1>7
    <3> QED
      BY ONLY <3>1, FlatJoin
  <2>2. Flat(old, a, e) = SubSeq(o, a + 1, e)
    <3>1. Tokens(old, o, a, e)
      BY Zenon, <1>4, <1>6 DEF Tokens
    <3>2. /\ IsSeq(o) /\ a \in Nat /\ e \in Nat /\ a <= e /\ e <= Len(o)
          /\ Tokens(old, o, a, e)
      BY Zenon, <1>1, <1>2, <1>4, <3>1
    <3> QED
      BY ONLY <3>2, FlatTokens
  <2>3. words = x \o (SubSeq(o, a + 1, e) \o z)
    BY Zenon, <1>1, <2>1, <2>2
  <2> HIDE DEF x, z
  <2> QED
    BY Zenon, <1>1, <1>2, <1>4, <1>7, <2>3 DEF Within
<1> DEFINE end == IndexOf(words, "end", begin + 1)
           ellse == IndexOf(words, "else", begin + 1)
           hasElse == ellse > begin /\ ellse < end
<1>9. /\ end = Len(x) + (e - a) /\ begin # 0 /\ end # 0
      /\ SubSeq(words, begin + 1, (IF hasElse THEN ellse ELSE end) - 1) = truePart
      /\ (IF hasElse THEN SubSeq(words, ellse + 1, end - 1) ELSE << >>) = falsePart
  <2> HIDE DEF x, z
  <2>1. Within(words, x, o, s - 1, e, z)
    BY <1>8 DEF a
  <2>2. PartsFound(words, x, o, s, e, l)
    <3> HIDE DEF a, begin
    <3> QED
      BY <1>3, <1>4, <1>5, <2>1, SectionFound
  <2> HIDE DEF truePart, falsePart
  <2> QED
    BY Zenon, <2>2 DEF a, PartsFound, truePart, falsePart
<1>10. Replaced(words, begin, end, r) = (x \o r) \o z
  <2> HIDE DEF x, z, r, end
  <2>1. SubSeq(words, 1, Len(x)) = x /\ SubSeq(words, Len(x) + (e - a) + 1, Len(words)) = z
        /\ Len(x) \in Nat
    BY <1>8, WithinIs
  <2>2. begin - 1 = Len(x)
    BY <2>1
  <2> HIDE DEF begin
  <2> QED
    BY Zenon, <1>9, <2>1, <2>2 DEF Replaced
<1>11. x \o r = Flat(new, 0, e)
  <2>1. 0 \in Nat /\ a \in Nat /\ e \in Nat /\ 0 <= a /\ a <= e /\ Seqs(new, 0, e)
    BY <1>1, <1>4, <1>7
  <2>2. Flat(new, 0, e) = Flat(new, 0, a) \o Flat(new, a, e)
    BY ONLY <2>1, FlatJoin
  <2> QED
    BY Zenon, <2>2
<1> DEFINE y == Flat(new, 0, e)
           later == Replaced(words, begin, end, r)
<1>12. PassAt(o, old, new, tg, later, begin, e)
  <2>1. later = y \o z
    BY Zenon, <1>10, <1>11
  <2>2. Len(x) \in Nat /\ Len(r) \in Nat /\ Len(x \o r) = Len(x) + Len(r)
    BY <1>1, <1>7, JoinOf, SeqIs
  <2>3. Len(y) = Len(x) + Len(r)
    BY Zenon, <1>11, <2>2
  <2>4. FreeFrom(x, begin, tg)
    BY <2>2 DEF FreeFrom
  <2> HIDE DEF x, r, y, z, later
  <2>5. begin \in 1 .. Len(y) + 1 /\ begin \in Nat /\ begin # 0
    BY <2>2, <2>3
  <2> HIDE DEF begin
  <2>6. FreeFrom(x \o r, begin, tg)
    <3>1. IsSeq(x) /\ IsSeq(r) /\ Free(r, tg)
      BY <1>1, <1>6, <1>7
    <3> QED
      BY ONLY <2>4, <2>5, <3>1, JoinFreeFrom
  <2>7. FreeFrom(y, begin, tg)
    BY Zenon, <1>11, <2>6 DEF y
  <2> QED
    BY Zenon, <1>4, <2>1, <2>5, <2>7 DEF PassAt, y, z
<1> HIDE DEF x, r, z, truePart, falsePart, y, begin
<1>13. begin # 0 /\ end # 0
  BY Zenon, <1>9
<1>14. Replacement(tg, SubSeq(words, begin + 1, (IF hasElse THEN ellse ELSE end) - 1),
                   IF hasElse THEN SubSeq(words, ellse + 1, end - 1) ELSE << >>, op) = r
  BY Zenon, <1>6, <1>9
<1> QED
  BY Zenon, <1>1, <1>12, <1>13, <1>14 DEF TurnFits

-----------------------------------------------------------------------------
(* The sections of a flat text.                                            *)
Section(o, op, s, e) ==
  /\ s \in 1 .. Len(o) /\ o[s] \in Starts(op) /\ Ends(o, s, e)
  /\ \A k \in s + 1 .. e : o[k] \notin Starts(op)

LEMMA StartsAre ==
  ASSUME NEW op
  PROVE  /\ "end" \notin Starts(op) /\ "else" \notin Starts(op)
         /\ op.call = "loop" => Starts(op) = {"loop"}
         /\ op.call # "loop" => Starts(op) = {"if", "ifnot"}
BY DEF Starts

LEMMA FlatSections ==
  ASSUME NEW o, NEW op, IsSeq(o), IsFlat(o, op), NEW s \in 1 .. Len(o), o[s] \in Starts(op)
  PROVE  /\ \E e : Ends(o, s, e)
         /\ \A e : Ends(o, s, e) => Section(o, op, s, e)
<1>1. Len(o) \in Nat /\ DOMAIN o = 1 .. Len(o)
  BY SeqIs
<1>2. PICK j \in s + 1 .. Len(o) : o[j] = "end" /\ \A k \in s + 1 .. j : o[k] \notin Starts(op)
  BY Zenon, <1>1 DEF IsFlat
<1>3. \E e : Ends(o, s, e)
  <2> DEFINE S == {k \in s + 1 .. Len(o) : o[k] = "end"}
  <2>1. S \subseteq Nat /\ S # {}
    BY <1>1, <1>2
  <2>2. PICK e \in S : \A k \in S : e <= k
    <3> HIDE DEF S
    <3> QED
      BY <2>1, LeastIs
  <2>3. e \in s + 1 .. Len(o) /\ o[e] = "end"
    OBVIOUS
  <2>4. ASSUME NEW k \in s + 1 .. e - 1 PROVE o[k] # "end"
    <3>1. k \in s + 1 .. Len(o) /\ ~ (e <= k)
      BY <1>1, <2>3
    <3>2. k \notin S
      BY <2>2, <3>1
    <3> QED
      BY Zenon, <3>1, <3>2
  <2> QED
    BY Zenon, <2>3, <2>4 DEF Ends
<1>4. ASSUME NEW e, Ends(o, s, e) PROVE Section(o, op, s, e)
  <2>1. e \in s + 1 .. Len(o) /\ \A k \in s + 1 .. e - 1 : o[k] # "end"
    BY Zenon, <1>4 DEF Ends
  <2>2. j \notin s + 1 .. e - 1
    BY Zenon, <1>2, <2>1
  <2>3. \A k \in s + 1 .. e : k \in s + 1 .. j
    BY <1>1, <1>2, <2>1, <2>2
  <2> QED
    BY Zenon, <1>2, <1>4, <2>3 DEF Section
<1> QED
  BY <1>3, <1>4

LEMMA SectionThere ==
  ASSUME NEW o, NEW op, NEW i \in Nat
  PROVE  \/ /\ SectionOf(o, op, i) = 0
            /\ \A s \in 1 .. i : o[s] \in Starts(op) => \E k \in s .. i - 1 : o[k] = "end"
         \/ /\ SectionOf(o, op, i) \in 1 .. i /\ o[SectionOf(o, op, i)] \in Starts(op)
            /\ \A k \in SectionOf(o, op, i) .. i - 1 : o[k] # "end"
            /\ \A s \in 1 .. i : /\ o[s] \in Starts(op)
                                 /\ \A k \in s .. i - 1 : o[k] # "end"
                                 => s <= SectionOf(o, op, i)
<1> DEFINE starts == {s \in 1 .. i : o[s] \in Starts(op) /\ \A k \in s .. i - 1 : o[k] # "end"}
           c == CHOOSE s \in starts : \A r \in starts : r <= s
<1>1. SectionOf(o, op, i) = IF starts = {} THEN 0 ELSE c
  BY Zenon DEF SectionOf
<1>2. CASE starts = {}
  <2>1. ASSUME NEW s \in 1 .. i, o[s] \in Starts(op) PROVE \E k \in s .. i - 1 : o[k] = "end"
    <3>1. s \notin starts
      BY Zenon, <1>2
    <3> QED
      BY Zenon, <2>1, <3>1
  <2> QED
    BY Zenon, <1>1, <1>2, <2>1
<1>3. CASE starts # {}
  <2> DEFINE S == {n \in 0 .. i : i - n \in starts}
  <2>1. \A s \in starts : s \in Nat /\ s <= i /\ i - s \in 0 .. i /\ i - (i - s) = s
    OBVIOUS
  <2> HIDE DEF starts
  <2>2. S \subseteq Nat /\ S # {}
    <3>1. PICK s \in starts : TRUE
      BY <1>3
    <3>2. i - (i - s) \in starts /\ i - s \in 0 .. i
      BY <2>1, <3>1
    <3>3. i - s \in S
      BY Zenon, <3>2
    <3> QED
      BY <3>3
  <2>3. PICK n \in S : \A m \in S : n <= m
    <3> HIDE DEF S
    <3> QED
      BY <2>2, LeastIs
  <2>4. i - n \in starts /\ n \in 0 .. i
    OBVIOUS
  <2>5. ASSUME NEW r \in starts PROVE r <= i - n
    <3>1. i - r \in 0 .. i /\ i - (i - r) \in starts /\ r \in Nat
      BY <2>1
    <3>2. i - r \in S
      BY Zenon, <3>1
    <3>3. n <= i - r
      BY <2>3, <3>2
    <3> QED
      BY <2>4, <3>1, <3>3
  <2>6. c \in starts /\ \A r \in starts : r <= c
    BY Zenon, <2>4, <2>5
  <2>7. SectionOf(o, op, i) = c
    BY Zenon, <1>1, <1>3
  <2> HIDE DEF c
  <2>8. c \in 1 .. i /\ o[c] \in Starts(op) /\ \A k \in c .. i - 1 : o[k] # "end"
    BY Zenon, <2>6 DEF starts
  <2>9. ASSUME NEW s \in 1 .. i, o[s] \in Starts(op), \A k \in s .. i - 1 : o[k] # "end"
        PROVE  s <= c
    <3>1. s \in starts
      BY Zenon, <2>9 DEF starts
    <3> QED
      BY <2>6, <3>1
  <2> QED
    BY Zenon, <2>7, <2>8, <2>9
<1> QED
  BY <1>2, <1>3

LEMMA SectionAround ==
  ASSUME NEW o, NEW op, IsSeq(o), NEW s, NEW e, Section(o, op, s, e), NEW i \in s .. e
  PROVE  SectionOf(o, op, i) = s
<1>1. /\ Len(o) \in Nat /\ s \in 1 .. Len(o) /\ o[s] \in Starts(op) /\ e \in s + 1 .. Len(o)
      /\ (\A k \in s + 1 .. e - 1 : o[k] # "end") /\ o[s] # "end"
      /\ \A k \in s + 1 .. e : o[k] \notin Starts(op)
  BY SeqIs, StartsAre DEF Section, Ends
<1>2. i \in Nat /\ s \in 1 .. i /\ s \in Nat
  BY <1>1
<1>3. ASSUME NEW k \in s .. i - 1 PROVE o[k] # "end"
  <2>1. k = s \/ k \in s + 1 .. e - 1
    BY <1>1, <1>2
  <2> QED
    BY Zenon, <1>1, <2>1
<1>4. /\ SectionOf(o, op, i) \in 1 .. i /\ o[SectionOf(o, op, i)] \in Starts(op)
      /\ s <= SectionOf(o, op, i)
  BY Zenon, <1>1, <1>2, <1>3, SectionThere
<1>5. SectionOf(o, op, i) \notin s + 1 .. e
  BY Zenon, <1>1, <1>4
<1> QED
  BY <1>1, <1>2, <1>4, <1>5

(* No token behind the end of a section is in it. *)
LEMMA SectionBehind ==
  ASSUME NEW o, NEW op, IsSeq(o), NEW s, NEW e, Section(o, op, s, e),
         NEW i \in Nat, SectionOf(o, op, i) = s
  PROVE  i \in s .. e
<1>1. /\ Len(o) \in Nat /\ s \in 1 .. Len(o) /\ e \in s + 1 .. Len(o) /\ o[e] = "end"
  BY SeqIs DEF Section, Ends
<1>2. s \in 1 .. i /\ \A k \in s .. i - 1 : o[k] # "end"
  <2>1. s # 0
    BY <1>1
  <2> QED
    BY Zenon, <2>1, SectionThere
<1>3. e \notin s .. i - 1
  BY Zenon, <1>1, <1>2
<1> QED
  BY <1>1, <1>2, <1>3

(* The places in a section. *)
LEMMA FalsePartFrom ==
  ASSUME NEW o, NEW op, IsSeq(o), NEW s, NEW e, Section(o, op, s, e),
         NEW l, Divides(o, s, e, l), NEW i \in s .. e
  PROVE  InFalsePart(o, op, i) <=> i > l
<1>1. /\ Len(o) \in Nat /\ s \in 1 .. Len(o) /\ e \in s + 1 .. Len(o) /\ o[e] = "end"
      /\ l \in s + 1 .. e
      /\ (\A k \in s + 1 .. l - 1 : o[k] # "else")
      /\ l # e => o[l] = "else"
  BY SeqIs DEF Section, Ends, Divides
<1>2. InFalsePart(o, op, i) <=> \E k \in s + 1 .. i - 1 : o[k] = "else"
  <2>1. SectionOf(o, op, i) = s
    BY SectionAround
  <2> QED
    BY Zenon, <2>1 DEF InFalsePart
<1>3. CASE i > l
  <2>1. l \in s + 1 .. i - 1 /\ l # e
    BY <1>1, <1>3
  <2> QED
    BY Zenon, <1>1, <1>2, <1>3, <2>1
<1>4. CASE ~ (i > l)
  <2>1. ASSUME NEW k \in s + 1 .. i - 1 PROVE o[k] # "else"
    <3>1. k \in s + 1 .. l - 1
      BY <1>1, <1>4
    <3> QED
      BY Zenon, <1>1, <3>1
  <2> QED
    BY Zenon, <1>2, <1>4, <2>1
<1> QED
  BY <1>3, <1>4

LEMMA DividerIs ==
  ASSUME NEW o, NEW op, IsSeq(o), NEW s, NEW e, Section(o, op, s, e),
         NEW l, Divides(o, s, e, l), NEW i \in s .. e
  PROVE  IsDivider(o, op, i) <=> (i = l /\ l # e)
<1>1. /\ Len(o) \in Nat /\ s \in 1 .. Len(o) /\ e \in s + 1 .. Len(o) /\ o[e] = "end"
      /\ l \in s + 1 .. e /\ o[s] # "else"
      /\ (\A k \in s + 1 .. l - 1 : o[k] # "else")
      /\ l # e => o[l] = "else"
  BY SeqIs, StartsAre DEF Section, Ends, Divides
<1>2. IsDivider(o, op, i) <=> (o[i] = "else" /\ ~ (i > l))
  BY Zenon, FalsePartFrom DEF IsDivider
<1>3. CASE i = l
  <2>1. ~ (i > l)
    BY <1>1, <1>3
  <2>2. l = e => o[l] # "else"
    BY Zenon, <1>1
  <2> QED
    BY Zenon, <1>1, <1>2, <1>3, <2>1, <2>2
<1>4. CASE i # l
  <2>1. i > l \/ i = s \/ i \in s + 1 .. l - 1
    BY <1>1, <1>4
  <2> QED
    BY Zenon, <1>1, <1>2, <1>4, <2>1
<1> QED
  BY <1>3, <1>4

LEMMA AtInterval ==
  ASSUME NEW s, IsSeq(s), NEW a \in Nat, NEW b \in Nat, a <= b, b <= Len(s)
  PROVE  AtPlaces(s, a + 1 .. b) = SubSeq(s, a + 1, b)
<1> DEFINE T == {k \in Nat : a + k <= b => /\ Ordered(a + 1 .. a + k)
                                           /\ AtPlaces(s, a + 1 .. a + k) = SubSeq(s, a + 1, a + k)}
<1>0. Len(s) \in Nat
  BY SeqIs
<1>1. 0 \in T
  <2>1. a + 0 = a /\ a + 1 .. a = {}
    OBVIOUS
  <2>2. IsSeq(SubSeq(s, a + 1, a)) /\ Len(SubSeq(s, a + 1, a)) = 0
    BY <1>0, PieceOf
  <2>3. SubSeq(s, a + 1, a) = << >>
    BY Zenon, <2>2, SeqIs
  <2>4. AtPlaces(s, a + 1 .. a) = << >> /\ Ordered(a + 1 .. a)
    BY Zenon, <2>1, AtNone, EmptyInOrder
  <2>5. AtPlaces(s, a + 1 .. a + 0) = SubSeq(s, a + 1, a + 0) /\ Ordered(a + 1 .. a + 0)
    BY Zenon, <2>1, <2>3, <2>4
  <2>6. 0 \in Nat
    OBVIOUS
  <2> QED
    BY Zenon, <2>5, <2>6
<1>2. ASSUME NEW k \in Nat, k \in T PROVE k + 1 \in T
  <2> SUFFICES ASSUME a + (k + 1) <= b
               PROVE /\ Ordered(a + 1 .. a + (k + 1))
                     /\ AtPlaces(s, a + 1 .. a + (k + 1)) = SubSeq(s, a + 1, a + (k + 1))
    OBVIOUS
  <2> DEFINE c == a + k
             S == a + 1 .. c
             u == SubSeq(s, a + 1, c)
             v == SubSeq(s, a + 1, c + 1)
             x == Append(u, s[c + 1])
  <2>1. /\ c \in Nat /\ a <= c /\ c <= b /\ a + (k + 1) = c + 1
        /\ c + 1 \in Nat /\ a <= c + 1 /\ c <= Len(s) /\ c + 1 <= Len(s) /\ c + 1 \in Int
    BY <1>0
  <2>2. Ordered(S) /\ AtPlaces(s, S) = u
    BY <1>2, <2>1
  <2>3. S \cup {c + 1} = a + 1 .. c + 1 /\ \A i \in S : i < c + 1
    BY <2>1
  <2> HIDE DEF c, S
  <2>4. Ordered(S \cup {c + 1}) /\ AtPlaces(s, S \cup {c + 1}) = Append(AtPlaces(s, S), s[c + 1])
    BY <2>1, <2>2, <2>3, OneMoreInOrder, AtOneMore, ZenonT(40)
  <2>5. IsSeq(u) /\ Len(u) = c - a /\ \A i \in 1 .. c - a : u[i] = s[a + i]
    BY <2>1, PieceOf
  <2>6. IsSeq(v) /\ Len(v) = (c + 1) - a /\ \A i \in 1 .. (c + 1) - a : v[i] = s[a + i]
    BY <2>1, PieceOf
  <2> HIDE DEF u, v
  <2>7. /\ IsSeq(x) /\ Len(x) = Len(u) + 1 /\ x[Len(u) + 1] = s[c + 1]
        /\ \A i \in 1 .. Len(u) : x[i] = u[i]
    <3> DEFINE w == s[c + 1]
    <3>1. IsSeq(u)
      BY <2>5
    <3> HIDE DEF w
    <3>2. /\ IsSeq(Append(u, w)) /\ Len(Append(u, w)) = Len(u) + 1
          /\ \A i \in 1 .. Len(u) : Append(u, w)[i] = u[i]
          /\ Append(u, w)[Len(u) + 1] = w
      BY ONLY <3>1, AppendOf, ZenonT(40)
    <3> QED
      BY Zenon, <3>2 DEF w
  <2> HIDE DEF x
  <2>8. x = v
    <3>1. ASSUME NEW i \in 1 .. Len(x) PROVE x[i] = v[i]
      <4>1. /\ i \in 1 .. (c + 1) - a
            /\ \/ i \in 1 .. Len(u) /\ i \in 1 .. c - a
               \/ i = Len(u) + 1 /\ a + i = c + 1
        BY <2>1, <2>5, <2>7
      <4> QED
        BY Zenon, <2>5, <2>6, <2>7, <4>1
    <3>2. Len(x) = Len(v)
      BY <2>1, <2>5, <2>6, <2>7
    <3> QED
      BY <2>6, <2>7, <3>1, <3>2, SeqsEqual
  <2>9. Ordered(a + 1 .. c + 1) /\ AtPlaces(s, a + 1 .. c + 1) = v
    BY Zenon, <2>2, <2>3, <2>4, <2>8 DEF x
  <2> QED
    BY Zenon, <2>1, <2>9 DEF v
<1> HIDE DEF T
<1>3. Nat \subseteq T
  BY <1>1, <1>2, NaturalsFollow
<1>4. b - a \in Nat /\ a + (b - a) = b /\ b <= b
  OBVIOUS
<1> QED
  BY <1>3, <1>4 DEF T

(* Of a piece of the text only what is between two places stays. *)
OnlyMiddle(g, o, a, b, c, d) ==
  \A i \in a + 1 .. d : g[i] = IF i \in b + 1 .. c THEN <<o[i]>> ELSE << >>

MiddleTaken(g, o, a, b, c, d) == Flat(g, a, d) = SubSeq(o, b + 1, c)

LEMMA FlatMiddle ==
  ASSUME NEW g, NEW o, IsSeq(o), NEW a \in Nat, NEW b \in Nat, NEW c \in Nat, NEW d \in Nat,
         a <= b, b <= c, c <= d, d <= Len(o), OnlyMiddle(g, o, a, b, c, d)
  PROVE  MiddleTaken(g, o, a, b, c, d)
<1> DEFINE u == SubSeq(o, b + 1, c)
<1>1. Len(o) \in Nat /\ c <= Len(o) /\ a <= c /\ b <= d /\ a <= d
  BY SeqIs
<1>10. \A i \in a + 1 .. d : g[i] = IF i \in b + 1 .. c THEN <<o[i]>> ELSE << >>
  BY DEF OnlyMiddle
<1>2. Seqs(g, a, d) /\ Seqs(g, a, c)
  <2>1. ASSUME NEW i \in a + 1 .. d PROVE IsSeq(g[i])
    <3>1. IsSeq(<<o[i]>>)
      <4>1. <<o[i]>> \in Seq({o[i]})
        OBVIOUS
      <4> QED
        BY <4>1, IsSeqOf
    <3> QED
      BY Zenon, <1>10, <2>1, <3>1, EmptyIsSeq
  <2>2. \A i \in a + 1 .. c : i \in a + 1 .. d
    BY <1>1
  <2> QED
    BY Zenon, <2>1, <2>2 DEF Seqs
<1>3. Flat(g, a, b) = << >>
  <2>1. \A i \in a + 1 .. b : i \in a + 1 .. d /\ i \notin b + 1 .. c
    BY <1>1
  <2>2. \A i \in a + 1 .. b : g[i] = << >>
    BY Zenon, <1>10, <2>1
  <2> QED
    BY <2>2, FlatEmpty
<1>4. Flat(g, c, d) = << >>
  <2>1. \A i \in c + 1 .. d : i \in a + 1 .. d /\ i \notin b + 1 .. c
    BY <1>1
  <2>2. \A i \in c + 1 .. d : g[i] = << >>
    BY Zenon, <1>10, <2>1
  <2> QED
    BY <2>2, FlatEmpty
<1>5. Flat(g, b, c) = u /\ IsSeq(u)
  <2>1. \A i \in b + 1 .. c : i \in a + 1 .. d
    BY <1>1
  <2>2. Tokens(g, o, b, c)
    BY <1>10, <2>1 DEF Tokens
  <2>3. /\ IsSeq(o) /\ b \in Nat /\ c \in Nat /\ b <= c /\ c <= Len(o)
        /\ Tokens(g, o, b, c)
    BY <1>1, <2>2
  <2>4. Flat(g, b, c) = SubSeq(o, b + 1, c)
    BY ONLY <2>3, FlatTokens, ZenonT(40)
  <2> QED
    BY <2>3, <2>4, PieceOf
<1> HIDE DEF u
<1>6. Flat(g, a, c) = Flat(g, a, b) \o Flat(g, b, c)
  <2>1. a \in Nat /\ b \in Nat /\ c \in Nat /\ a <= b /\ b <= c /\ Seqs(g, a, c)
    BY <1>2
  <2> QED
    BY ONLY <2>1, FlatJoin
<1>7. Flat(g, a, d) = Flat(g, a, c) \o Flat(g, c, d)
  <2>1. a \in Nat /\ c \in Nat /\ d \in Nat /\ a <= c /\ c <= d /\ Seqs(g, a, d)
    BY <1>1, <1>2
  <2> QED
    BY ONLY <2>1, FlatJoin
<1>8. << >> \o u = u /\ u \o << >> = u
  BY ONLY <1>5, JoinNothing
<1>9. Flat(g, a, d) = u
  BY Zenon, <1>3, <1>4, <1>5, <1>6, <1>7, <1>8
<1> QED
  BY <1>9 DEF u, MiddleTaken

-----------------------------------------------------------------------------
(* What the reference makes of a section is what ReplaceSection makes of it. *)
Expanded(o, op, new, s, e) ==
  /\ Seqs(new, s - 1, e) /\ Free(Flat(new, s - 1, e), o[s])
  /\ \A l : Divides(o, s, e, l) =>
       Flat(new, s - 1, e) = Replacement(o[s], SubSeq(o, s + 1, l - 1), FalsePart(o, e, l), op)

(* Is the first part of the section kept? *)
FirstKept(o, op, s) == op.value = (o[s] = "if")

LEMMA ConditionResult ==
  ASSUME NEW o, NEW op, IsSeq(o), NEW s, NEW e, Section(o, op, s, e),
         NEW l, Divides(o, s, e, l), NEW i \in s .. e,
         op.call = "setCondition", op.value \in BOOLEAN
  PROVE  /\ FirstKept(o, op, s) =>
              Result(o, op, i) = IF i \in s + 1 .. l - 1 THEN <<o[i]>> ELSE << >>
         /\ ~ FirstKept(o, op, s) =>
              Result(o, op, i) = IF i \in l + 1 .. e - 1 THEN <<o[i]>> ELSE << >>
<1>1. /\ Len(o) \in Nat /\ s \in 1 .. Len(o) /\ e \in s + 1 .. Len(o) /\ l \in s + 1 .. e
      /\ i \in Nat /\ s # 0
  BY SeqIs DEF Section, Ends, Divides
<1>2. SectionOf(o, op, i) = s
  BY SectionAround
<1>3. o[i] = "end" <=> i = e
  <2>1. o[e] = "end" /\ o[s] # "end" /\ \A k \in s + 1 .. e - 1 : o[k] # "end"
    BY StartsAre DEF Section, Ends
  <2>2. i = s \/ i = e \/ i \in s + 1 .. e - 1
    BY <1>1
  <2>3. s # e
    BY <1>1
  <2> QED
    BY Zenon, <2>1, <2>2, <2>3
<1>4. IsDivider(o, op, i) <=> (i = l /\ l # e)
  BY DividerIs
<1>5. InFalsePart(o, op, i) <=> i > l
  BY FalsePartFrom
<1>6. Wanted(o, op, i) <=> (op.value <=> (o[s] = "if" <=> ~ (i > l)))
  <2>1. Wanted(o, op, i) <=> (op.value = ((o[s] = "if") = ~ InFalsePart(o, op, i)))
    BY Zenon, <1>2 DEF Wanted
  <2>2. (o[s] = "if") \in BOOLEAN /\ InFalsePart(o, op, i) \in BOOLEAN
    BY DEF InFalsePart
  <2> QED
    BY Zenon, <1>5, <2>1, <2>2
<1>7. "setCondition" # "setVariable" /\ "setCondition" # "loop"
  OBVIOUS
<1>8. Result(o, op, i) = IF s = i \/ o[i] = "end" \/ IsDivider(o, op, i) \/ ~ Wanted(o, op, i)
                         THEN << >> ELSE <<o[i]>>
  BY Zenon, <1>1, <1>2, <1>7 DEF Result
<1>9. ASSUME FirstKept(o, op, s)
      PROVE  Result(o, op, i) = IF i \in s + 1 .. l - 1 THEN <<o[i]>> ELSE << >>
  <2>1. Wanted(o, op, i) <=> ~ (i > l)
    BY Zenon, <1>6, <1>9 DEF FirstKept
  <2>2. i \in s + 1 .. l - 1 <=> ~ (s = i \/ i = e \/ (i = l /\ l # e) \/ i > l)
    BY <1>1
  <2> QED
    BY Zenon, <1>3, <1>4, <1>8, <2>1, <2>2
<1>10. ASSUME ~ FirstKept(o, op, s)
       PROVE  Result(o, op, i) = IF i \in l + 1 .. e - 1 THEN <<o[i]>> ELSE << >>
  <2>1. Wanted(o, op, i) <=> i > l
    <3>1. op.value <=> ~ (o[s] = "if")
      BY Zenon, <1>10 DEF FirstKept
    <3> QED
      BY Zenon, <1>6, <3>1
  <2>2. i \in l + 1 .. e - 1 <=> ~ (s = i \/ i = e \/ (i = l /\ l # e) \/ ~ (i > l))
    BY <1>1
  <2> QED
    BY Zenon, <1>3, <1>4, <1>8, <2>1, <2>2
<1> QED
  BY <1>9, <1>10

LEMMA TokenIsSeq == \A x : IsSeq(<<x>>) /\ Len(<<x>>) = 1 /\ <<x>>[1] = x
<1> SUFFICES ASSUME NEW x PROVE IsSeq(<<x>>) /\ Len(<<x>>) = 1 /\ <<x>>[1] = x
  OBVIOUS
<1>1. <<x>> \in Seq({x})
  OBVIOUS
<1> QED
  BY <1>1, IsSeqOf

LEMMA TokenFree ==
  ASSUME NEW x, NEW token, x # token
  PROVE  Free(<<x>>, token)
<1>1. Len(<<x>>) = 1 /\ <<x>>[1] = x /\ \A i \in 1 .. 1 : i = 1
  BY TokenIsSeq
<1> QED
  BY Zenon, <1>1 DEF Free

LEMMA ConditionExpanded ==
  ASSUME NEW o, NEW op, IsSeq(o), NEW s, NEW e, Section(o, op, s, e),
         op.call = "setCondition", op.value \in BOOLEAN,
         NEW new, \A k \in s .. e : new[k] = Result(o, op, k)
  PROVE  Expanded(o, op, new, s, e)
<1> DEFINE a == s - 1
<1>1. /\ Len(o) \in Nat /\ s \in 1 .. Len(o) /\ e \in s + 1 .. Len(o) /\ e <= Len(o)
      /\ a \in Nat /\ a + 1 = s /\ a <= e /\ e \in Nat /\ s \in Nat /\ e - 1 \in Nat
      /\ Ends(o, s, e) /\ o[s] \in Starts(op) /\ a <= s /\ e - 1 <= e
  BY SeqIs DEF Section, Ends
<1>2. o[s] # "loop"
  BY <1>1 DEF Starts
<1> HIDE DEF a
<1>3. ASSUME NEW l, Divides(o, s, e, l)
      PROVE /\ Flat(new, a, e) = Replacement(o[s], SubSeq(o, s + 1, l - 1), FalsePart(o, e, l), op)
            /\ \A k \in s .. e : IsSeq(new[k]) /\ Free(new[k], o[s])
  <2>1. l \in s + 1 .. e /\ l \in Nat /\ s <= l - 1 /\ l - 1 \in Nat /\ l - 1 <= e /\ a <= l /\ l <= e
    BY <1>1, <1>3 DEF Divides
  <2>2. ASSUME NEW k \in s + 1 .. e, new[k] = <<o[k]>> PROVE IsSeq(new[k]) /\ Free(new[k], o[s])
    <3>1. o[k] # o[s]
      BY Zenon, <1>1, <2>2 DEF Section
    <3> QED
      BY ZenonT(30), <2>2, <3>1, TokenIsSeq, TokenFree
  <2>3. CASE FirstKept(o, op, s)
    <3>1. ASSUME NEW k \in s .. e
          PROVE  new[k] = IF k \in s + 1 .. l - 1 THEN <<o[k]>> ELSE << >>
      <4>1. Result(o, op, k) = IF k \in s + 1 .. l - 1 THEN <<o[k]>> ELSE << >>
        BY <1>3, <2>3, ConditionResult
      <4> QED
        BY Zenon, <4>1
    <3>2. Flat(new, a, e) = SubSeq(o, s + 1, l - 1)
      <4> DEFINE c == l - 1
      <4>1. OnlyMiddle(new, o, a, s, c, e)
        BY Zenon, <1>1, <3>1 DEF OnlyMiddle
      <4>2. c \in Nat /\ s <= c /\ c <= e
        BY <2>1
      <4> HIDE DEF c
      <4>3. Flat(new, a, e) = SubSeq(o, s + 1, c)
        <5>1. /\ IsSeq(o) /\ a \in Nat /\ s \in Nat /\ c \in Nat /\ e \in Nat
              /\ a <= s /\ s <= c /\ c <= e /\ e <= Len(o) /\ OnlyMiddle(new, o, a, s, c, e)
          BY Zenon, <1>1, <4>1, <4>2
        <5>2. MiddleTaken(new, o, a, s, c, e)
          BY ONLY <5>1, FlatMiddle
        <5> QED
          BY Zenon, <5>2 DEF MiddleTaken
      <4> QED
        BY Zenon, <4>3 DEF c
    <3>3. \A k \in s + 1 .. l - 1 : k \in s + 1 .. e
      BY <2>1, <1>1
    <3>4. \A k \in s .. e : IsSeq(new[k]) /\ Free(new[k], o[s])
      BY Zenon, <2>2, <3>1, <3>3, EmptyIsSeq, EmptyFree
    <3>5. Replacement(o[s], SubSeq(o, s + 1, l - 1), FalsePart(o, e, l), op) = SubSeq(o, s + 1, l - 1)
      BY Zenon, <1>2, <2>3 DEF Replacement, FirstKept
    <3> QED
      BY Zenon, <3>2, <3>4, <3>5
  <2>4. CASE ~ FirstKept(o, op, s)
    <3>1. ASSUME NEW k \in s .. e
          PROVE  new[k] = IF k \in l + 1 .. e - 1 THEN <<o[k]>> ELSE << >>
      <4>1. Result(o, op, k) = IF k \in l + 1 .. e - 1 THEN <<o[k]>> ELSE << >>
        BY <1>3, <2>4, ConditionResult
      <4> QED
        BY Zenon, <4>1
    <3>2. Flat(new, a, e) = FalsePart(o, e, l)
      <4>1. CASE l # e
        <5> DEFINE c == e - 1
        <5>1. OnlyMiddle(new, o, a, l, c, e)
          BY Zenon, <1>1, <3>1 DEF OnlyMiddle
        <5>2. c \in Nat /\ l <= c /\ c <= e
          BY <1>1, <2>1, <4>1
        <5> HIDE DEF c
        <5>3. Flat(new, a, e) = SubSeq(o, l + 1, c)
          <6>1. /\ IsSeq(o) /\ a \in Nat /\ l \in Nat /\ c \in Nat /\ e \in Nat
                /\ a <= l /\ l <= c /\ c <= e /\ e <= Len(o) /\ OnlyMiddle(new, o, a, l, c, e)
            BY Zenon, <1>1, <2>1, <5>1, <5>2
          <6>2. MiddleTaken(new, o, a, l, c, e)
            BY ONLY <6>1, FlatMiddle
          <6> QED
            BY Zenon, <6>2 DEF MiddleTaken
        <5> QED
          BY Zenon, <4>1, <5>3 DEF c, FalsePart
      <4>2. CASE l = e
        <5>1. \A k \in a + 1 .. e : k \notin l + 1 .. e - 1
          BY <1>1, <4>2
        <5>2. \A k \in a + 1 .. e : new[k] = << >>
          BY Zenon, <1>1, <3>1, <5>1
        <5>3. Flat(new, a, e) = << >>
          BY <1>1, <5>2, FlatEmpty
        <5> QED
          BY Zenon, <4>2, <5>3 DEF FalsePart
      <4> QED
        BY Zenon, <4>1, <4>2
    <3>3. \A k \in l + 1 .. e - 1 : k \in s + 1 .. e
      BY <2>1, <1>1
    <3>4. \A k \in s .. e : IsSeq(new[k]) /\ Free(new[k], o[s])
      BY Zenon, <2>2, <3>1, <3>3, EmptyIsSeq, EmptyFree
    <3>5. Replacement(o[s], SubSeq(o, s + 1, l - 1), FalsePart(o, e, l), op) = FalsePart(o, e, l)
      BY Zenon, <1>2, <2>4 DEF Replacement, FirstKept
    <3> QED
      BY Zenon, <3>2, <3>4, <3>5
  <2> QED
    BY Zenon, <2>3, <2>4
<1>4. PICK l : Divides(o, s, e, l)
  BY <1>1, DividesSomewhere
<1>5. \A k \in a + 1 .. e : IsSeq(new[k]) /\ Free(new[k], o[s])
  BY Zenon, <1>1, <1>3, <1>4
<1>6. Seqs(new, a, e)
  BY Zenon, <1>5 DEF Seqs
<1>7. Free(Flat(new, a, e), o[s])
  BY <1>1, <1>5, <1>6, FlatFree
<1> QED
  BY Zenon, <1>3, <1>6, <1>7 DEF Expanded, a

LEMMA FlatWhole ==
  ASSUME NEW m \in Nat, NEW g, g = [i \in 1 .. m |-> g[i]]
  PROVE  Flat(g, 0, m) = FlattenSeq(g)
<1>1. m - 0 = m /\ \A i \in 1 .. m : 0 + i = i
  OBVIOUS
<1>2. [i \in 1 .. m - 0 |-> g[0 + i]] = [i \in 1 .. m |-> g[i]]
  BY <1>1
<1> QED
  BY Zenon, <1>2 DEF Flat

LEMMA NumberedIs ==
  ASSUME NEW part, IsSeq(part), Free(part, "loop"), NEW n, <<"sub", n>> # "loop"
  PROVE  IsSeq(Numbered(part, n)) /\ Free(Numbered(part, n), "loop")
<1> DEFINE x == <<"sub", n>>
           u == Numbered(part, n)
<1>1. Len(part) \in Nat /\ DOMAIN part = 1 .. Len(part)
  BY SeqIs
<1> HIDE DEF x
<1>2. u = [i \in 1 .. Len(part) |-> IF part[i] = "sub" THEN x ELSE part[i]]
  BY Zenon, <1>1 DEF Numbered, x
<1> HIDE DEF u
<1>3. \A i \in 1 .. Len(part) : u[i] = IF part[i] = "sub" THEN x ELSE part[i]
  BY ONLY <1>2
<1>4. u = [i \in 1 .. Len(part) |-> u[i]]
  BY ONLY <1>2
<1>5. IsSeq(u) /\ Len(u) = Len(part)
  BY ONLY <1>1, <1>4, FunctionIsSeq
<1>6. x # "loop"
  BY Zenon DEF x
<1>7. \A i \in 1 .. Len(part) : u[i] # "loop"
  BY Zenon, <1>3, <1>6 DEF Free
<1> QED
  BY Zenon, <1>5, <1>7 DEF u, Free

(* The parts of the section of a loop. *)
BodyHasParts(o, op, s, e, l) ==
  /\ Body(o, op, s, FALSE) = SubSeq(o, s + 1, l - 1)
  /\ Body(o, op, s, TRUE) = FalsePart(o, e, l)

LEMMA BodyIs ==
  ASSUME NEW o, NEW op, IsSeq(o), NEW s, NEW e, Section(o, op, s, e), NEW l, Divides(o, s, e, l)
  PROVE  BodyHasParts(o, op, s, e, l)
<1> DEFINE Places(falsePart) ==
      {k \in DOMAIN o : /\ k > s /\ SectionOf(o, op, k) = s /\ o[k] # "end"
                        /\ ~ IsDivider(o, op, k) /\ InFalsePart(o, op, k) = falsePart}
<1>1. /\ Len(o) \in Nat /\ s \in 1 .. Len(o) /\ e \in s + 1 .. Len(o) /\ l \in s + 1 .. e
      /\ DOMAIN o = 1 .. Len(o)
  BY SeqIs DEF Section, Ends, Divides
<1>2. o[e] = "end" /\ \A k \in s + 1 .. e - 1 : o[k] # "end"
  BY DEF Section, Ends
<1>3. ASSUME NEW k \in DOMAIN o, NEW falsePart \in BOOLEAN
      PROVE k \in Places(falsePart) <=> (k \in s + 1 .. e - 1 /\ k # l /\ (falsePart <=> k > l))
  <2>1. k \in Nat
    BY <1>1
  <2>2. CASE k \in s + 1 .. e
    <3>1. k \in s .. e /\ k > s
      BY <1>1, <2>2
    <3>2. SectionOf(o, op, k) = s
      BY <3>1, SectionAround
    <3>3. IsDivider(o, op, k) <=> (k = l /\ l # e)
      BY <3>1, DividerIs
    <3>4. InFalsePart(o, op, k) <=> k > l
      BY <3>1, FalsePartFrom
    <3>5. InFalsePart(o, op, k) = falsePart <=> (falsePart <=> k > l)
      <4>1. InFalsePart(o, op, k) \in BOOLEAN
        BY DEF InFalsePart
      <4> QED
        BY Zenon, <3>4, <4>1
    <3>6. (k = e \/ k \in s + 1 .. e - 1) /\ e \notin s + 1 .. e - 1
      BY <1>1, <2>2
    <3>7. o[k] # "end" <=> k \in s + 1 .. e - 1
      BY Zenon, <1>2, <3>6
    <3> QED
      BY Zenon, <3>1, <3>2, <3>3, <3>5, <3>6, <3>7
  <2>3. CASE k \notin s + 1 .. e
    <3>1. k \notin s + 1 .. e - 1
      BY <1>1, <2>3
    <3>2. ASSUME k > s, SectionOf(o, op, k) = s PROVE FALSE
      <4>1. k \in s .. e
        BY <2>1, <3>2, SectionBehind
      <4> QED
        BY <1>1, <2>3, <3>2, <4>1
    <3> QED
      BY Zenon, <3>1, <3>2
  <2> QED
    BY Zenon, <2>2, <2>3
<1>4. Body(o, op, s, FALSE) = AtPlaces(o, Places(FALSE)) /\ Body(o, op, s, TRUE) = AtPlaces(o, Places(TRUE))
  BY Zenon DEF Body
<1>5. Places(FALSE) \subseteq DOMAIN o /\ Places(TRUE) \subseteq DOMAIN o
  OBVIOUS
<1> HIDE DEF Places
<1>6. Body(o, op, s, FALSE) = SubSeq(o, s + 1, l - 1)
  <2> DEFINE c == l - 1
  <2>1. s \in Nat /\ c \in Nat /\ s <= c /\ c <= Len(o)
    BY <1>1
  <2>2. Places(FALSE) = s + 1 .. c
    <3>1. ASSUME NEW k PROVE k \in Places(FALSE) <=> k \in s + 1 .. c
      <4>1. k \in s + 1 .. c => k \in DOMAIN o
        BY <1>1
      <4>2. ASSUME k \in DOMAIN o PROVE k \in Places(FALSE) <=> k \in s + 1 .. c
        <5>1. k \in Places(FALSE) <=> (k \in s + 1 .. e - 1 /\ k # l /\ ~ (k > l))
          BY Zenon, <1>3, <4>2
        <5>2. k \in s + 1 .. c <=> (k \in s + 1 .. e - 1 /\ k # l /\ ~ (k > l))
          BY <1>1, <4>2
        <5> QED
          BY Zenon, <5>1, <5>2
      <4> QED
        BY Zenon, <1>5, <4>1, <4>2
    <3> QED
      BY Zenon, <3>1
  <2> HIDE DEF c
  <2>3. AtPlaces(o, s + 1 .. c) = SubSeq(o, s + 1, c)
    BY Zenon, <2>1, AtInterval
  <2> QED
    BY Zenon, <1>4, <2>2, <2>3 DEF c
<1>7. Body(o, op, s, TRUE) = FalsePart(o, e, l)
  <2>1. CASE l = e
    <3>1. ASSUME NEW k, k \in Places(TRUE) PROVE FALSE
      <4>1. k \in DOMAIN o
        BY Zenon, <1>5, <3>1
      <4>2. k \in s + 1 .. e - 1 /\ k > l
        BY Zenon, <1>3, <3>1, <4>1
      <4> QED
        BY <1>1, <2>1, <4>2
    <3>2. Places(TRUE) = {}
      BY Zenon, <3>1
    <3> QED
      BY Zenon, <1>4, <2>1, <3>2, AtNone DEF FalsePart
  <2>2. CASE l # e
    <3> DEFINE c == e - 1
    <3>1. l \in Nat /\ c \in Nat /\ l <= c /\ c <= Len(o)
      BY <1>1, <2>2
    <3>2. Places(TRUE) = l + 1 .. c
      <4>1. ASSUME NEW k PROVE k \in Places(TRUE) <=> k \in l + 1 .. c
        <5>1. k \in l + 1 .. c => k \in DOMAIN o
          BY <1>1
        <5>2. ASSUME k \in DOMAIN o PROVE k \in Places(TRUE) <=> k \in l + 1 .. c
          <6>1. k \in Places(TRUE) <=> (k \in s + 1 .. e - 1 /\ k # l /\ k > l)
            BY Zenon, <1>3, <5>2
          <6>2. k \in l + 1 .. c <=> (k \in s + 1 .. e - 1 /\ k # l /\ k > l)
            BY <1>1, <5>2
          <6> QED
            BY Zenon, <6>1, <6>2
        <5> QED
          BY Zenon, <1>5, <5>1, <5>2
      <4> QED
        BY Zenon, <4>1
    <3> HIDE DEF c
    <3>3. AtPlaces(o, l + 1 .. c) = SubSeq(o, l + 1, c)
      BY Zenon, <3>1, AtInterval
    <3> QED
      BY Zenon, <1>4, <2>2, <3>2, <3>3 DEF c, FalsePart
  <2> QED
    BY <2>1, <2>2
<1> QED
  BY Zenon, <1>6, <1>7 DEF BodyHasParts

(* A piece of a section has no start tag. *)
LEMMA PieceFree ==
  ASSUME NEW o, NEW op, IsSeq(o), NEW s, NEW e, Section(o, op, s, e),
         NEW a \in Nat, NEW b \in Nat, s <= a, a <= b, b <= e
  PROVE  IsSeq(SubSeq(o, a + 1, b)) /\ Free(SubSeq(o, a + 1, b), o[s])
<1> DEFINE u == SubSeq(o, a + 1, b)
<1>1. Len(o) \in Nat /\ s \in 1 .. Len(o) /\ e \in s + 1 .. Len(o) /\ b <= Len(o)
      /\ o[s] \in Starts(op)
  BY SeqIs DEF Section, Ends
<1>2. IsSeq(u) /\ Len(u) = b - a /\ \A i \in 1 .. b - a : u[i] = o[a + i]
  BY <1>1, PieceOf
<1> HIDE DEF u
<1>3. ASSUME NEW i \in 1 .. b - a PROVE u[i] # o[s]
  <2>1. a + i \in s + 1 .. e
    BY <1>1
  <2>2. o[a + i] \notin Starts(op)
    BY Zenon, <2>1 DEF Section
  <2> QED
    BY Zenon, <1>1, <1>2, <2>2
<1>4. Free(u, o[s])
  BY Zenon, <1>2, <1>3 DEF Free
<1> QED
  BY <1>2, <1>4 DEF u

(* What replaces a loop has no loop. *)
LEMMA LoopReplaced ==
  ASSUME NEW op, op.repetitions \in Nat, \A n \in 0 .. op.repetitions : <<"sub", n>> # "loop",
         NEW t, IsSeq(t), Free(t, "loop"), NEW f, IsSeq(f), Free(f, "loop")
  PROVE  IsSeq(Replacement("loop", t, f, op)) /\ Free(Replacement("loop", t, f, op), "loop")
<1> DEFINE m == op.repetitions
           g == [n \in 1 .. m |-> Numbered(t, n - 1)]
           r == Replacement("loop", t, f, op)
<1>1. r = IF m = 0 THEN f ELSE FlattenSeq(g)
  BY Zenon DEF Replacement
<1>2. ASSUME NEW n \in 1 .. m PROVE IsSeq(Numbered(t, n - 1)) /\ Free(Numbered(t, n - 1), "loop")
  <2>1. n - 1 \in 0 .. m
    OBVIOUS
  <2>2. <<"sub", n - 1>> # "loop"
    BY Zenon, <2>1
  <2> QED
    BY Zenon, <2>2, NumberedIs
<1>3. m \in Nat /\ 0 + 1 = 1 /\ 0 <= m /\ 0 \in Nat
  OBVIOUS
<1>4. \A n \in 1 .. m : g[n] = Numbered(t, n - 1)
  OBVIOUS
<1>5. g = [n \in 1 .. m |-> g[n]]
  OBVIOUS
<1> HIDE DEF g, m
<1>6. Flat(g, 0, m) = FlattenSeq(g)
  BY ONLY <1>3, <1>5, FlatWhole
<1>7. \A n \in 0 + 1 .. m : IsSeq(g[n]) /\ Free(g[n], "loop")
  BY Zenon, <1>2, <1>3, <1>4
<1>8. Seqs(g, 0, m)
  BY Zenon, <1>7 DEF Seqs
<1>9. IsSeq(Flat(g, 0, m)) /\ Free(Flat(g, 0, m), "loop")
  BY Zenon, <1>3, <1>7, <1>8, FlatIsSeq, FlatFree
<1>10. IsSeq(r) /\ Free(r, "loop")
  BY Zenon, <1>1, <1>6, <1>9
<1> QED
  BY Zenon, <1>10

LEMMA LoopExpanded ==
  ASSUME NEW o, NEW op, IsSeq(o), NEW s, NEW e, Section(o, op, s, e),
         op.call = "loop", op.repetitions \in Nat,
         \A n \in 0 .. op.repetitions : <<"sub", n>> # "loop",
         NEW new, \A k \in s .. e : new[k] = Result(o, op, k)
  PROVE  Expanded(o, op, new, s, e)
<1> DEFINE a == s - 1
<1>1. /\ Len(o) \in Nat /\ s \in 1 .. Len(o) /\ e \in s + 1 .. Len(o) /\ e <= Len(o)
      /\ a \in Nat /\ a + 1 = s /\ a <= e /\ e \in Nat /\ s \in Nat /\ e - 1 \in Nat /\ s # 0
      /\ Ends(o, s, e) /\ o[s] \in Starts(op) /\ a <= s /\ e - 1 <= e /\ s <= e /\ s <= e - 1 /\ s <= s
  BY SeqIs DEF Section, Ends
<1>2. o[s] = "loop" /\ "loop" # "setVariable"
  BY <1>1 DEF Starts
<1> HIDE DEF a
<1>3. ASSUME NEW k \in s .. e
      PROVE  new[k] = IF k # s THEN << >>
                      ELSE IF op.repetitions = 0 THEN Body(o, op, s, TRUE)
                      ELSE FlattenSeq([n \in 1 .. op.repetitions |->
                                         Numbered(Body(o, op, s, FALSE), n - 1)])
  <2>1. SectionOf(o, op, k) = s
    BY SectionAround
  <2> QED
    BY Zenon, <1>1, <1>2, <1>3, <2>1 DEF Result
<1>4. ASSUME NEW l, Divides(o, s, e, l)
      PROVE  LET r == Replacement("loop", SubSeq(o, s + 1, l - 1), FalsePart(o, e, l), op)
             IN  new[s] = r /\ IsSeq(r) /\ Free(r, "loop")
  <2> DEFINE t == SubSeq(o, s + 1, l - 1)
             f == FalsePart(o, e, l)
             c == l - 1
             d == e - 1
  <2>1. Body(o, op, s, FALSE) = t /\ Body(o, op, s, TRUE) = f
    <3>1. IsSeq(o) /\ Section(o, op, s, e) /\ Divides(o, s, e, l)
      BY <1>4
    <3>2. BodyHasParts(o, op, s, e, l)
      BY ONLY <3>1, BodyIs
    <3> QED
      BY Zenon, <3>2 DEF BodyHasParts
  <2>2. s \in s .. e
    BY <1>1
  <2>3. new[s] = Replacement("loop", t, f, op)
    BY Zenon, <1>3, <2>1, <2>2 DEF Replacement
  <2>4. /\ c \in Nat /\ s <= c /\ c <= e /\ l \in Nat /\ s <= l
        /\ l # e => l <= d /\ d \in Nat /\ d <= e
    BY <1>1, <1>4 DEF Divides
  <2> HIDE DEF c, d
  <2>5. IsSeq(SubSeq(o, s + 1, c)) /\ Free(SubSeq(o, s + 1, c), o[s])
    BY Zenon, <1>1, <2>4, PieceFree
  <2>6. l # e => IsSeq(SubSeq(o, l + 1, d)) /\ Free(SubSeq(o, l + 1, d), o[s])
    BY Zenon, <1>1, <2>4, PieceFree
  <2>7. IsSeq(t) /\ Free(t, "loop")
    BY Zenon, <1>2, <2>5 DEF c
  <2>8. IsSeq(f) /\ Free(f, "loop")
    BY Zenon, <1>2, <2>6, EmptyIsSeq, EmptyFree DEF d, FalsePart
  <2> HIDE DEF t, f
  <2>9. IsSeq(Replacement("loop", t, f, op)) /\ Free(Replacement("loop", t, f, op), "loop")
    BY Zenon, <2>7, <2>8, LoopReplaced
  <2> QED
    BY Zenon, <2>3, <2>9 DEF t, f
<1>5. PICK l : Divides(o, s, e, l)
  BY <1>1, DividesSomewhere
<1>6. IsSeq(new[s]) /\ Free(new[s], "loop")
  BY Zenon, <1>4, <1>5
<1>7. \A k \in s + 1 .. e : new[k] = << >>
  <2>1. \A k \in s + 1 .. e : k \in s .. e /\ k # s
    BY <1>1
  <2> QED
    BY Zenon, <1>3, <2>1
<1>8. \A k \in a + 1 .. e : IsSeq(new[k]) /\ Free(new[k], o[s])
  <2>1. \A k \in a + 1 .. e : k = s \/ k \in s + 1 .. e
    BY <1>1
  <2> QED
    BY Zenon, <1>2, <1>6, <1>7, <2>1, EmptyIsSeq, EmptyFree
<1>9. Seqs(new, a, e)
  BY Zenon, <1>8 DEF Seqs
<1>10. Free(Flat(new, a, e), o[s])
  BY <1>1, <1>8, <1>9, FlatFree
<1>11. Flat(new, a, e) = new[s]
  <2>1. Flat(new, a, a + 1) = new[a + 1]
    BY <1>1, FlatOne
  <2>2. Flat(new, s, e) = << >>
    BY <1>1, <1>7, FlatEmpty
  <2>3. Flat(new, a, e) = Flat(new, a, s) \o Flat(new, s, e)
    <3>1. a \in Nat /\ s \in Nat /\ e \in Nat /\ a <= s /\ s <= e /\ Seqs(new, a, e)
      BY <1>1, <1>9
    <3> QED
      BY ONLY <3>1, FlatJoin
  <2> DEFINE x == new[s]
  <2>4. x \o << >> = x
    <3>1. IsSeq(x)
      BY <1>6
    <3> HIDE DEF x
    <3> QED
      BY ONLY <3>1, JoinNothing
  <2> QED
    BY Zenon, <1>1, <2>1, <2>2, <2>3, <2>4
<1> QED
  BY Zenon, <1>2, <1>4, <1>9, <1>10, <1>11 DEF Expanded, a

-----------------------------------------------------------------------------
(* The passes of setCondition and of loop. *)
AsIs(o) == [i \in 1 .. Len(o) |-> <<o[i]>>]

AfterCall(o, op) == [i \in 1 .. Len(o) |-> Result(o, op, i)]

(* Only the sections that begin with "if" are replaced. *)
AfterIf(o, op) ==
  [i \in 1 .. Len(o) |-> IF SectionOf(o, op, i) # 0 /\ o[SectionOf(o, op, i)] = "if"
                         THEN Result(o, op, i) ELSE <<o[i]>>]

(* A call and what it may be given. *)
Call(op) ==
  /\ op.call \in {"setCondition", "loop"} /\ op.value \in BOOLEAN /\ op.repetitions \in Nat
  /\ \A n \in 0 .. op.repetitions : <<"sub", n>> # "loop"

LEMMA SectionExpanded ==
  ASSUME NEW o, NEW op, IsSeq(o), Call(op), NEW s, NEW e, Section(o, op, s, e),
         NEW new, \A k \in s .. e : new[k] = Result(o, op, k)
  PROVE  Expanded(o, op, new, s, e)
BY Zenon, ConditionExpanded, LoopExpanded DEF Call

(* What a text without sections, and one with one, is made of. *)
LEMMA ResultsAreSeqs ==
  ASSUME NEW o, NEW op, IsSeq(o), IsFlat(o, op), Call(op)
  PROVE  /\ \A i \in 1 .. Len(o) : IsSeq(Result(o, op, i))
         /\ \A i \in 1 .. Len(o) : SectionOf(o, op, i) = 0 => Result(o, op, i) = <<o[i]>>
<1>1. Len(o) \in Nat
  BY SeqIs
<1>2. ASSUME NEW i \in 1 .. Len(o), SectionOf(o, op, i) = 0 PROVE Result(o, op, i) = <<o[i]>>
  <2>1. op.call # "setVariable"
    BY DEF Call
  <2> QED
    BY Zenon, <1>2, <2>1 DEF Result
<1>3. ASSUME NEW i \in 1 .. Len(o), SectionOf(o, op, i) # 0 PROVE IsSeq(Result(o, op, i))
  <2> DEFINE s == SectionOf(o, op, i)
             new == AfterCall(o, op)
  <2>1. i \in Nat
    BY <1>1
  <2>2. s \in 1 .. i /\ o[s] \in Starts(op)
    BY Zenon, <1>3, <2>1, SectionThere
  <2> HIDE DEF s
  <2>3. s \in 1 .. Len(o)
    BY <1>1, <2>1, <2>2
  <2>4. PICK e : Ends(o, s, e) /\ Section(o, op, s, e)
    BY Zenon, <2>2, <2>3, FlatSections
  <2>5. i \in s .. e /\ i \in s - 1 + 1 .. e
    <3>1. i \in s .. e
      BY <2>1, <2>4, SectionBehind DEF s
    <3> QED
      BY <2>3, <3>1
  <2>6. \A k \in s .. e : k \in 1 .. Len(o)
    BY <1>1, <2>3, <2>4 DEF Ends
  <2>7. \A k \in s .. e : new[k] = Result(o, op, k)
    BY <2>6 DEF AfterCall
  <2> HIDE DEF new
  <2>8. Seqs(new, s - 1, e)
    BY Zenon, <2>4, <2>7, SectionExpanded DEF Expanded
  <2> QED
    BY Zenon, <2>5, <2>7, <2>8 DEF Seqs
<1> QED
  BY Zenon, <1>2, <1>3, TokenIsSeq

(* One of the passes: it knows what it makes of the sections of its tag. *)
LEMMA PassIs ==
  ASSUME NEW o, NEW op, IsSeq(o), IsFlat(o, op), Call(op), NEW tg \in Starts(op),
         NEW old, NEW new, Seqs(old, 0, Len(o)), Seqs(new, 0, Len(o)),
         \A s, e : Section(o, op, s, e) /\ o[s] = tg =>
           \A k \in s .. e : old[k] = <<o[k]>> /\ new[k] = Result(o, op, k),
         \A i \in 1 .. Len(o) : Outside(o, tg, i) => new[i] = old[i] /\ Free(old[i], tg)
  PROVE  PassFits(o, old, new, tg, op)
<1>1. tg # "end"
  BY Zenon, StartsAre
<1>2. ASSUME NEW s \in 1 .. Len(o), o[s] = tg
      PROVE  \E e : Ends(o, s, e)
  BY Zenon, <1>2, FlatSections
<1>3. ASSUME NEW s \in 1 .. Len(o), NEW e, o[s] = tg /\ Ends(o, s, e)
      PROVE  /\ \A k \in s .. e : old[k] = <<o[k]>>
             /\ Free(Flat(new, s - 1, e), tg)
             /\ \A l : Divides(o, s, e, l) =>
                  Flat(new, s - 1, e)
                    = Replacement(tg, SubSeq(o, s + 1, l - 1), FalsePart(o, e, l), op)
  <2>1. Section(o, op, s, e)
    BY Zenon, <1>3, FlatSections
  <2>2. \A k \in s .. e : old[k] = <<o[k]>> /\ new[k] = Result(o, op, k)
    BY Zenon, <1>3, <2>1
  <2>3. Expanded(o, op, new, s, e)
    BY Zenon, <2>1, <2>2, SectionExpanded
  <2> QED
    BY Zenon, <1>3, <2>2, <2>3 DEF Expanded
<1> QED
  BY Zenon, <1>1, <1>2, <1>3 DEF PassFits

LEMMA OutsideIs ==
  ASSUME NEW o, NEW op, IsSeq(o), NEW tg \in Starts(op), NEW i \in 1 .. Len(o), Outside(o, tg, i)
  PROVE  /\ o[i] # tg
         /\ SectionOf(o, op, i) # 0 =>
              o[SectionOf(o, op, i)] \in Starts(op) /\ o[SectionOf(o, op, i)] # tg
<1>1. Len(o) \in Nat
  BY SeqIs
<1>2. i \in Nat /\ i \in 1 .. i /\ i .. i - 1 = {}
  BY <1>1
<1>3. o[i] # tg
  BY Zenon, <1>2 DEF Outside
<1>4. ASSUME SectionOf(o, op, i) # 0
      PROVE  o[SectionOf(o, op, i)] \in Starts(op) /\ o[SectionOf(o, op, i)] # tg
  BY Zenon, <1>2, <1>4, SectionThere DEF Outside
<1> QED
  BY <1>3, <1>4

LEMMA ItemsAre ==
  ASSUME NEW o, NEW op
  PROVE  \A i \in 1 .. Len(o) :
           /\ AsIs(o)[i] = <<o[i]>> /\ AfterCall(o, op)[i] = Result(o, op, i)
           /\ AfterIf(o, op)[i] = IF SectionOf(o, op, i) # 0 /\ o[SectionOf(o, op, i)] = "if"
                                  THEN Result(o, op, i) ELSE <<o[i]>>
<1> SUFFICES ASSUME NEW i \in 1 .. Len(o)
             PROVE /\ AsIs(o)[i] = <<o[i]>> /\ AfterCall(o, op)[i] = Result(o, op, i)
                   /\ AfterIf(o, op)[i] = IF SectionOf(o, op, i) # 0 /\ o[SectionOf(o, op, i)] = "if"
                                          THEN Result(o, op, i) ELSE <<o[i]>>
  OBVIOUS
<1>1. AsIs(o)[i] = <<o[i]>>
  BY DEF AsIs
<1>2. AfterCall(o, op)[i] = Result(o, op, i)
  BY DEF AfterCall
<1>3. AfterIf(o, op)[i] = IF SectionOf(o, op, i) # 0 /\ o[SectionOf(o, op, i)] = "if"
                          THEN Result(o, op, i) ELSE <<o[i]>>
  BY DEF AfterIf
<1> QED
  BY <1>1, <1>2, <1>3

LEMMA ItemsAreSeqs ==
  ASSUME NEW o, NEW op, IsSeq(o), IsFlat(o, op), Call(op)
  PROVE  /\ Seqs(AsIs(o), 0, Len(o)) /\ Seqs(AfterCall(o, op), 0, Len(o))
         /\ Seqs(AfterIf(o, op), 0, Len(o))
<1>1. \A i \in 0 + 1 .. Len(o) : i \in 1 .. Len(o)
  OBVIOUS
<1>2. \A i \in 1 .. Len(o) : IsSeq(<<o[i]>>) /\ IsSeq(Result(o, op, i))
  BY Zenon, TokenIsSeq, ResultsAreSeqs
<1>3. \A i \in 1 .. Len(o) : IsSeq(AsIs(o)[i]) /\ IsSeq(AfterCall(o, op)[i])
                             /\ IsSeq(AfterIf(o, op)[i])
  BY Zenon, <1>2, ItemsAre
<1> QED
  BY Zenon, <1>1, <1>3 DEF Seqs

LEMMA LoopPass ==
  ASSUME NEW o, NEW op, IsSeq(o), IsFlat(o, op), Call(op), op.call = "loop"
  PROVE  PassFits(o, AsIs(o), AfterCall(o, op), "loop", op)
<1>1. "loop" \in Starts(op) /\ \A x \in Starts(op) : x = "loop"
  BY StartsAre
<1>2. ASSUME NEW s, NEW e, Section(o, op, s, e), NEW k \in s .. e
      PROVE  AsIs(o)[k] = <<o[k]>> /\ AfterCall(o, op)[k] = Result(o, op, k)
  <2>1. k \in 1 .. Len(o)
    BY <1>2, SeqIs DEF Section, Ends
  <2> QED
    BY Zenon, <2>1, ItemsAre
<1>3. ASSUME NEW i \in 1 .. Len(o), Outside(o, "loop", i)
      PROVE  AfterCall(o, op)[i] = AsIs(o)[i] /\ Free(AsIs(o)[i], "loop")
  <2>1. o[i] # "loop" /\ SectionOf(o, op, i) = 0
    BY Zenon, <1>1, <1>3, OutsideIs
  <2>2. AsIs(o)[i] = <<o[i]>> /\ AfterCall(o, op)[i] = Result(o, op, i)
    BY Zenon, ItemsAre
  <2>3. Result(o, op, i) = <<o[i]>>
    BY Zenon, <2>1, ResultsAreSeqs
  <2>4. Free(<<o[i]>>, "loop")
    BY <2>1, TokenFree
  <2> QED
    BY Zenon, <2>2, <2>3, <2>4
<1> QED
  BY Zenon, <1>1, <1>2, <1>3, ItemsAreSeqs, PassIs

LEMMA IfPass ==
  ASSUME NEW o, NEW op, IsSeq(o), IsFlat(o, op), Call(op), op.call = "setCondition"
  PROVE  PassFits(o, AsIs(o), AfterIf(o, op), "if", op)
<1>1. "if" \in Starts(op)
  BY StartsAre
<1>2. ASSUME NEW s, NEW e, Section(o, op, s, e), o[s] = "if", NEW k \in s .. e
      PROVE  AsIs(o)[k] = <<o[k]>> /\ AfterIf(o, op)[k] = Result(o, op, k)
  <2>1. k \in 1 .. Len(o) /\ s # 0
    BY <1>2, SeqIs DEF Section, Ends
  <2>2. SectionOf(o, op, k) = s
    BY <1>2, SectionAround
  <2> QED
    BY Zenon, <1>2, <2>1, <2>2, ItemsAre
<1>3. ASSUME NEW i \in 1 .. Len(o), Outside(o, "if", i)
      PROVE  AfterIf(o, op)[i] = AsIs(o)[i] /\ Free(AsIs(o)[i], "if")
  <2>1. o[i] # "if" /\ ~ (SectionOf(o, op, i) # 0 /\ o[SectionOf(o, op, i)] = "if")
    BY Zenon, <1>1, <1>3, OutsideIs
  <2>2. AsIs(o)[i] = <<o[i]>> /\ AfterIf(o, op)[i] = <<o[i]>>
    BY Zenon, <2>1, ItemsAre
  <2>3. Free(<<o[i]>>, "if")
    BY <2>1, TokenFree
  <2> QED
    BY Zenon, <2>2, <2>3
<1> QED
  BY Zenon, <1>1, <1>2, <1>3, ItemsAreSeqs, PassIs

LEMMA IfnotPass ==
  ASSUME NEW o, NEW op, IsSeq(o), IsFlat(o, op), Call(op), op.call = "setCondition"
  PROVE  PassFits(o, AfterIf(o, op), AfterCall(o, op), "ifnot", op)
<1>1. "ifnot" \in Starts(op) /\ \A x \in Starts(op) : x = "if" \/ x = "ifnot"
  BY StartsAre
<1>2. ASSUME NEW s, NEW e, Section(o, op, s, e), o[s] = "ifnot", NEW k \in s .. e
      PROVE  AfterIf(o, op)[k] = <<o[k]>> /\ AfterCall(o, op)[k] = Result(o, op, k)
  <2>1. k \in 1 .. Len(o) /\ "ifnot" # "if"
    BY <1>2, SeqIs DEF Section, Ends
  <2>2. SectionOf(o, op, k) = s
    BY <1>2, SectionAround
  <2> QED
    BY Zenon, <1>2, <2>1, <2>2, ItemsAre
<1>3. ASSUME NEW i \in 1 .. Len(o), Outside(o, "ifnot", i)
      PROVE  AfterCall(o, op)[i] = AfterIf(o, op)[i] /\ Free(AfterIf(o, op)[i], "ifnot")
  <2>1. /\ o[i] # "ifnot"
        /\ SectionOf(o, op, i) # 0 => o[SectionOf(o, op, i)] = "if"
    <3>1. /\ o[i] # "ifnot"
          /\ SectionOf(o, op, i) # 0 =>
               o[SectionOf(o, op, i)] \in Starts(op) /\ o[SectionOf(o, op, i)] # "ifnot"
      BY <1>1, <1>3, OutsideIs
    <3> QED
      BY Zenon, <1>1, <3>1
  <2>2. AfterCall(o, op)[i] = AfterIf(o, op)[i]
    <3>1. /\ AfterCall(o, op)[i] = Result(o, op, i)
          /\ AfterIf(o, op)[i] = IF SectionOf(o, op, i) # 0 /\ o[SectionOf(o, op, i)] = "if"
                                 THEN Result(o, op, i) ELSE <<o[i]>>
      BY Zenon, ItemsAre
    <3>2. SectionOf(o, op, i) = 0 => Result(o, op, i) = <<o[i]>>
      BY Zenon, ResultsAreSeqs
    <3> QED
      BY Zenon, <2>1, <3>1, <3>2
  <2>3. Result(o, op, i) = <<o[i]>> \/ Result(o, op, i) = << >>
    <3>1. op.call # "setVariable" /\ op.call # "loop"
      OBVIOUS
    <3> QED
      BY Zenon, <3>1 DEF Result
  <2>4. AfterCall(o, op)[i] = Result(o, op, i)
    BY Zenon, ItemsAre
  <2> QED
    BY Zenon, <2>1, <2>2, <2>3, <2>4, TokenFree, EmptyFree
<1> QED
  BY Zenon, <1>1, <1>2, <1>3, ItemsAreSeqs, PassIs

-----------------------------------------------------------------------------
(* The pass of setVariable: it goes on behind what it inserted.            *)
VariableAt(o, op, words, place, p) ==
  /\ p \in 0 .. Len(o)
  /\ words = Flat(AfterCall(o, op), 0, p) \o Flat(AsIs(o), p, Len(o))
  /\ place = Len(Flat(AfterCall(o, op), 0, p)) + 1

LEMMA VariableItems ==
  ASSUME NEW o, NEW op, IsSeq(o), op.call = "setVariable", IsSeq(op.text)
  PROVE  /\ \A i \in 1 .. Len(o) :
              /\ AsIs(o)[i] = <<o[i]>>
              /\ AfterCall(o, op)[i] = IF o[i] = "sub" THEN op.text ELSE <<o[i]>>
         /\ Seqs(AsIs(o), 0, Len(o)) /\ Seqs(AfterCall(o, op), 0, Len(o))
<1>1. ASSUME NEW i \in 1 .. Len(o)
      PROVE /\ AsIs(o)[i] = <<o[i]>>
            /\ AfterCall(o, op)[i] = IF o[i] = "sub" THEN op.text ELSE <<o[i]>>
  <2>1. Result(o, op, i) = IF o[i] = "sub" THEN op.text ELSE <<o[i]>>
    BY Zenon DEF Result
  <2> QED
    BY Zenon, <2>1, ItemsAre
<1>2. \A i \in 0 + 1 .. Len(o) : i \in 1 .. Len(o)
  OBVIOUS
<1>3. \A i \in 1 .. Len(o) : IsSeq(AsIs(o)[i]) /\ IsSeq(AfterCall(o, op)[i])
  BY Zenon, <1>1, TokenIsSeq
<1> QED
  BY Zenon, <1>1, <1>2, <1>3 DEF Seqs

LEMMA NoVariable ==
  ASSUME NEW o, NEW op, IsSeq(o), op.call = "setVariable", IsSeq(op.text),
         NEW p \in Nat, NEW q \in Nat, p <= q, q <= Len(o), \A i \in p + 1 .. q : o[i] # "sub"
  PROVE  /\ Flat(AfterCall(o, op), p, q) = Flat(AsIs(o), p, q)
         /\ IsSeq(Flat(AsIs(o), p, q)) /\ Free(Flat(AsIs(o), p, q), "sub")
<1>1. Len(o) \in Nat
  BY SeqIs
<1>2. \A i \in p + 1 .. q : i \in 1 .. Len(o)
  BY <1>1
<1>3. \A i \in p + 1 .. q : AfterCall(o, op)[i] = AsIs(o)[i]
  BY Zenon, <1>2, VariableItems
<1>4. \A i \in p + 1 .. q : Free(AsIs(o)[i], "sub")
  <2>1. ASSUME NEW i \in p + 1 .. q PROVE Free(AsIs(o)[i], "sub")
    <3>1. AsIs(o)[i] = <<o[i]>>
      BY Zenon, <1>2, VariableItems
    <3>2. Free(<<o[i]>>, "sub")
      BY TokenFree
    <3> QED
      BY Zenon, <3>1, <3>2
  <2> QED
    BY Zenon, <2>1
<1>5. Seqs(AsIs(o), p, q) /\ IsSeq(Flat(AsIs(o), p, q))
  <2>1. Seqs(AsIs(o), 0, Len(o))
    BY Zenon, VariableItems
  <2> QED
    BY <1>1, <2>1, SeqsWithin
<1> QED
  BY <1>3, <1>4, <1>5, FlatSame, FlatFree

LEMMA VariableEnds ==
  ASSUME NEW o, NEW op, IsSeq(o), op.call = "setVariable", IsSeq(op.text),
         NEW words, NEW place, NEW p, VariableAt(o, op, words, place, p),
         \A s \in p + 1 .. Len(o) : o[s] # "sub"
  PROVE  IndexOf(words, "sub", place) = 0 /\ words = Flat(AfterCall(o, op), 0, Len(o))
<1> DEFINE new == AfterCall(o, op)
           old == AsIs(o)
           a == Flat(new, 0, p)
           b == Flat(old, p, Len(o))
<1>1. p \in 0 .. Len(o) /\ words = a \o b /\ place = Len(a) + 1
  BY DEF VariableAt
<1>2. Len(o) \in Nat /\ p \in Nat /\ 0 \in Nat /\ 0 <= p /\ p <= Len(o) /\ Len(o) <= Len(o)
  BY <1>1, SeqIs
<1>3. Flat(new, p, Len(o)) = b /\ IsSeq(b) /\ Free(b, "sub")
  BY <1>2, NoVariable
<1>4. Seqs(new, 0, Len(o))
  BY Zenon, VariableItems
<1> HIDE DEF new, old
<1>5. IsSeq(a)
  BY <1>2, <1>4, SeqsWithin
<1>6. words = Flat(new, 0, Len(o))
  <2>1. Flat(new, 0, Len(o)) = Flat(new, 0, p) \o Flat(new, p, Len(o))
    <3>1. 0 \in Nat /\ p \in Nat /\ Len(o) \in Nat /\ 0 <= p /\ p <= Len(o) /\ Seqs(new, 0, Len(o))
      BY <1>2, <1>4
    <3> QED
      BY ONLY <3>1, FlatJoin
  <2> QED
    BY Zenon, <1>1, <1>3, <2>1
<1> HIDE DEF a, b
<1>7. place \in Nat /\ place # 0 /\ FreeFrom(a, place, "sub")
  BY <1>1, <1>5, SeqIs DEF FreeFrom
<1>8. FreeFrom(a \o b, place, "sub")
  BY <1>3, <1>5, <1>7, JoinFreeFrom
<1>9. IndexOf(words, "sub", place) = 0
  BY <1>1, <1>8, IndexNone DEF FreeFrom
<1> QED
  BY <1>6, <1>9 DEF new

LEMMA VariableReplaced ==
  ASSUME NEW o, NEW op, IsSeq(o), op.call = "setVariable", IsSeq(op.text),
         NEW words, NEW place, NEW p, VariableAt(o, op, words, place, p),
         NEW s \in p + 1 .. Len(o), o[s] = "sub", \A k \in p + 1 .. s - 1 : o[k] # "sub"
  PROVE  LET start == IndexOf(words, "sub", place)
         IN  /\ start # 0
             /\ VariableAt(o, op, Replaced(words, start, start, op.text), start + Len(op.text), s)
<1> DEFINE new == AfterCall(o, op)
           old == AsIs(o)
           n == Len(o)
           q == s - 1
           r == op.text
           a == Flat(new, 0, p)
           b == Flat(old, p, q)
           d == Flat(new, 0, q)
           x == <<"sub">>
           z == Flat(old, s, n)
           c == Flat(old, q, n)
           begin == Len(d) + 1
<1>1. p \in 0 .. n /\ words = a \o Flat(old, p, n) /\ place = Len(a) + 1
  BY DEF VariableAt
<1>2. /\ n \in Nat /\ p \in Nat /\ 0 \in Nat /\ 0 <= p /\ p <= n /\ s \in 1 .. n /\ s \in Nat
      /\ q \in Nat /\ p <= q /\ q <= n /\ s <= n /\ q + 1 = s /\ 0 <= q /\ 0 <= s /\ q <= s /\ n <= n
      /\ s - q = 1
  BY <1>1, SeqIs
<1>3. Flat(new, p, q) = b /\ IsSeq(b) /\ Free(b, "sub")
  <2>1. \A i \in p + 1 .. q : o[i] # "sub"
    OBVIOUS
  <2> HIDE DEF q
  <2>2. /\ IsSeq(o) /\ op.call = "setVariable" /\ IsSeq(op.text)
        /\ p \in Nat /\ q \in Nat /\ p <= q /\ q <= Len(o) /\ \A i \in p + 1 .. q : o[i] # "sub"
    BY <1>2, <2>1 DEF q
  <2> QED
    BY Zenon, <2>2, NoVariable
<1>4. Seqs(new, 0, n) /\ Seqs(old, 0, n) /\ old[s] = x /\ new[s] = r /\ IsSeq(r)
  BY Zenon, <1>2, VariableItems
<1> HIDE DEF new, old, n, q, r
<1>5. /\ IsSeq(a) /\ IsSeq(d) /\ IsSeq(z) /\ IsSeq(c) /\ Seqs(old, p, n) /\ Seqs(old, q, n)
      /\ Seqs(new, 0, q) /\ Seqs(new, 0, s)
  BY <1>2, <1>4, SeqsWithin
<1>6. d = a \o b
  <2>1. 0 \in Nat /\ p \in Nat /\ q \in Nat /\ 0 <= p /\ p <= q /\ Seqs(new, 0, q)
    BY <1>2, <1>5
  <2>2. Flat(new, 0, q) = Flat(new, 0, p) \o Flat(new, p, q)
    BY ONLY <2>1, FlatJoin
  <2> QED
    BY Zenon, <1>3, <2>2
<1>7. c = x \o z
  <2>1. q \in Nat /\ s \in Nat /\ n \in Nat /\ q <= s /\ s <= n /\ Seqs(old, q, n)
    BY <1>2, <1>5
  <2>2. Flat(old, q, n) = Flat(old, q, s) \o Flat(old, s, n)
    BY ONLY <2>1, FlatJoin
  <2>3. Flat(old, q, q + 1) = old[q + 1]
    BY <1>2, FlatOne
  <2> QED
    BY Zenon, <1>2, <1>4, <2>2, <2>3
<1>8. words = d \o c
  <2>1. p \in Nat /\ q \in Nat /\ n \in Nat /\ p <= q /\ q <= n /\ Seqs(old, p, n)
    BY <1>2, <1>5
  <2>2. Flat(old, p, n) = Flat(old, p, q) \o Flat(old, q, n)
    BY ONLY <2>1, FlatJoin
  <2>3. IsSeq(a) /\ IsSeq(b) /\ IsSeq(c)
    BY <1>3, <1>5
  <2> HIDE DEF a, b, c
  <2>4. (a \o b) \o c = a \o (b \o c)
    BY ONLY <2>3, JoinAssociates
  <2> QED
    BY Zenon, <1>1, <1>6, <2>2, <2>4 DEF b, c
<1>9. Flat(new, 0, s) = d \o r
  <2>1. 0 \in Nat /\ q \in Nat /\ 0 <= q /\ IsSeq(new[q + 1])
    BY Zenon, <1>2, <1>4
  <2>2. Flat(new, 0, q + 1) = Flat(new, 0, q) \o new[q + 1]
    BY ONLY <2>1, FlatMore
  <2> QED
    BY Zenon, <1>2, <1>4, <2>2
<1> DEFINE y == Flat(new, 0, s)
<1>10. IsSeq(x) /\ Len(x) = 1 /\ x[1] = "sub"
  BY Zenon, TokenIsSeq
<1> HIDE DEF x
<1>11. SubSeq(o, q + 1, s) = x
  <2>1. Tokens(old, o, q, s)
    <3>1. \A i \in q + 1 .. s : i = s
      BY <1>2
    <3>2. old[s] = <<o[s]>>
      BY Zenon, <1>4 DEF x
    <3> QED
      BY Zenon, <3>1, <3>2 DEF Tokens
  <2>2. IsSeq(o) /\ q \in Nat /\ s \in Nat /\ q <= s /\ s <= Len(o) /\ Tokens(old, o, q, s)
    BY <1>2, <2>1 DEF n
  <2>3. Flat(old, q, s) = SubSeq(o, q + 1, s)
    BY ONLY <2>2, FlatTokens
  <2>4. Flat(old, q, q + 1) = old[q + 1]
    BY <1>2, FlatOne
  <2> QED
    BY Zenon, <1>2, <1>4, <2>3, <2>4
<1>12. Within(words, d, o, q, s, z)
  <2> HIDE DEF d, c, z
  <2> QED
    BY Zenon, <1>2, <1>5, <1>7, <1>8, <1>11 DEF Within, n
<1> HIDE DEF a, b, c, d, y, z
<1>13. c # << >> /\ c[1] = "sub"
  <2>1. /\ Len(x \o z) = Len(x) + Len(z) /\ \A i \in 1 .. Len(x) : (x \o z)[i] = x[i]
    <3>1. IsSeq(x) /\ IsSeq(z)
      BY <1>5, <1>10
    <3> QED
      BY ONLY <3>1, JoinOf
  <2>2. Len(z) \in Nat /\ 1 \in 1 .. 1
    BY <1>5, SeqIs
  <2>3. c[1] = x[1] /\ Len(c) = 1 + Len(z)
    BY Zenon, <1>7, <1>10, <2>1, <2>2
  <2>4. Len(c) # 0
    BY <2>2, <2>3
  <2> QED
    BY Zenon, <1>5, <1>10, <2>3, <2>4, SeqIs
<1>14. IndexOf(words, "sub", place) = begin
  <2>1. Len(a) \in Nat /\ Len(b) \in Nat /\ Len(d) = Len(a) + Len(b)
    BY <1>3, <1>5, <1>6, JoinOf, SeqIs
  <2>2. place \in Nat /\ place # 0 /\ place \in 1 .. Len(d) + 1 /\ FreeFrom(a, place, "sub")
    BY <1>1, <2>1 DEF FreeFrom
  <2>3. FreeFrom(d, place, "sub")
    <3>1. IsSeq(a) /\ IsSeq(b) /\ Free(b, "sub")
      BY <1>3, <1>5
    <3>2. FreeFrom(a \o b, place, "sub")
      BY ONLY <2>2, <3>1, JoinFreeFrom
    <3> QED
      BY Zenon, <1>6, <3>2
  <2>4. IndexOf(d \o c, "sub", place) = Len(d) + 1
    BY <1>5, <1>13, <2>2, <2>3, JoinIndex
  <2> QED
    BY Zenon, <1>8, <2>4
<1>15. Len(d) \in Nat /\ SubSeq(words, 1, Len(d)) = d /\ SubSeq(words, Len(d) + (s - q) + 1, Len(words)) = z
  BY <1>5, <1>12, WithinIs, SeqIs
<1>16. begin - 1 = Len(d) /\ Len(d) + (s - q) = begin /\ begin # 0
  BY <1>2, <1>15
<1>17. Replaced(words, begin, begin, r) = y \o z
  <2> HIDE DEF begin
  <2> QED
    BY Zenon, <1>9, <1>15, <1>16 DEF Replaced, y
<1>18. begin + Len(r) = Len(y) + 1
  <2>1. Len(d \o r) = Len(d) + Len(r) /\ Len(r) \in Nat
    BY <1>4, <1>5, JoinOf, SeqIs
  <2>2. Len(y) = Len(d) + Len(r)
    BY Zenon, <1>9, <2>1 DEF y
  <2> QED
    BY <1>15, <2>1, <2>2
<1>19. VariableAt(o, op, Replaced(words, begin, begin, r), begin + Len(r), s)
  <2>1. s \in 0 .. Len(o)
    BY <1>2 DEF n
  <2> HIDE DEF begin
  <2> QED
    BY Zenon, <1>17, <1>18, <2>1 DEF VariableAt, y, z, n, new, old
<1> HIDE DEF begin
<1> QED
  BY Zenon, <1>14, <1>16, <1>19 DEF r

-----------------------------------------------------------------------------
(* How a pass begins and goes on. *)
NextTag(o, p, tg) ==
  \/ \A s \in p + 1 .. Len(o) : o[s] # tg
  \/ \E s \in p + 1 .. Len(o) : o[s] = tg /\ \A k \in p + 1 .. s - 1 : o[k] # tg

LEMMA NextToken ==
  ASSUME NEW o, NEW p, NEW tg, IsSeq(o), p \in 0 .. Len(o)
  PROVE  NextTag(o, p, tg)
<1> DEFINE S == {s \in p + 1 .. Len(o) : o[s] = tg}
<1>1. Len(o) \in Nat /\ p \in Nat
  BY SeqIs
<1>2. CASE S = {}
  <2>1. \A s \in p + 1 .. Len(o) : o[s] # tg
    BY Zenon, <1>2
  <2> QED
    BY Zenon, <2>1 DEF NextTag
<1>3. CASE S # {}
  <2>1. S \subseteq Nat
    BY <1>1
  <2>2. PICK s \in S : \A k \in S : s <= k
    <3> HIDE DEF S
    <3> QED
      BY <1>3, <2>1, LeastIs
  <2>3. s \in p + 1 .. Len(o) /\ o[s] = tg
    OBVIOUS
  <2>4. ASSUME NEW k \in p + 1 .. s - 1 PROVE o[k] # tg
    <3>1. k \in p + 1 .. Len(o) /\ ~ (s <= k)
      BY <1>1, <2>3
    <3>2. k \notin S
      BY <2>2, <3>1
    <3> QED
      BY Zenon, <3>1, <3>2
  <2> QED
    BY Zenon, <2>3, <2>4 DEF NextTag
<1> QED
  BY <1>2, <1>3

LEMMA PassGoesOn ==
  ASSUME NEW o, NEW old, NEW new, NEW tg, NEW op, PassFits(o, old, new, tg, op),
         NEW words, NEW place, NEW p, PassAt(o, old, new, tg, words, place, p)
  PROVE  \/ IndexOf(words, tg, place) = 0 /\ words = Flat(new, 0, Len(o))
         \/ IndexOf(words, tg, place) # 0 /\ TurnFits(o, old, new, tg, op, words, place)
<1>1. p \in 0 .. Len(o) /\ IsSeq(o)
  BY Zenon DEF PassAt, PassFits
<1>2. CASE \A s \in p + 1 .. Len(o) : o[s] # tg
  BY Zenon, <1>2, PassEnds
<1>3. ASSUME NEW s \in p + 1 .. Len(o), o[s] = tg, \A k \in p + 1 .. s - 1 : o[k] # tg
      PROVE  IndexOf(words, tg, place) # 0 /\ TurnFits(o, old, new, tg, op, words, place)
  <2>1. TurnFits(o, old, new, tg, op, words, place)
    BY Zenon, <1>3, PassReplaces
  <2> QED
    BY Zenon, <2>1 DEF TurnFits
<1>4. NextTag(o, p, tg)
  BY <1>1, NextToken
<1> QED
  BY Zenon, <1>2, <1>3, <1>4 DEF NextTag

LEMMA NothingBefore ==
  ASSUME NEW g, NEW h, NEW n \in Nat, Seqs(h, 0, n)
  PROVE  Flat(h, 0, n) = Flat(g, 0, 0) \o Flat(h, 0, n) /\ Len(Flat(g, 0, 0)) = 0
<1> DEFINE u == Flat(h, 0, n)
<1>1. Flat(g, 0, 0) = << >>
  BY FlatNone
<1>2. IsSeq(u)
  BY FlatIsSeq
<1> HIDE DEF u
<1>3. << >> \o u = u
  BY ONLY <1>2, JoinNothing
<1>4. Len(<< >>) = 0
  OBVIOUS
<1> QED
  BY Zenon, <1>1, <1>3, <1>4 DEF u

LEMMA PassBegins ==
  ASSUME NEW o, NEW old, NEW new, NEW tg, NEW op, PassFits(o, old, new, tg, op)
  PROVE  PassAt(o, old, new, tg, Flat(old, 0, Len(o)), 1, 0)
<1>1. Len(o) \in Nat /\ Seqs(old, 0, Len(o))
  BY SeqIs DEF PassFits
<1>2. Flat(old, 0, Len(o)) = Flat(new, 0, 0) \o Flat(old, 0, Len(o)) /\ Len(Flat(new, 0, 0)) = 0
  BY <1>1, NothingBefore
<1>3. 0 \in 0 .. Len(o) /\ 1 \in 1 .. 0 + 1 /\ 1 .. 0 = {}
  BY <1>1
<1>4. FreeFrom(Flat(new, 0, 0), 1, tg)
  BY Zenon, <1>2, <1>3 DEF FreeFrom
<1> QED
  BY Zenon, <1>2, <1>3, <1>4 DEF PassAt

LEMMA VariableBegins ==
  ASSUME NEW o, NEW op, IsSeq(o), op.call = "setVariable", IsSeq(op.text)
  PROVE  VariableAt(o, op, Flat(AsIs(o), 0, Len(o)), 1, 0)
<1> DEFINE old == AsIs(o)
           new == AfterCall(o, op)
<1>1. Len(o) \in Nat /\ Seqs(old, 0, Len(o))
  <2>1. Seqs(AsIs(o), 0, Len(o))
    BY Zenon, VariableItems
  <2> QED
    BY <2>1, SeqIs
<1> HIDE DEF old, new
<1>2. Flat(old, 0, Len(o)) = Flat(new, 0, 0) \o Flat(old, 0, Len(o)) /\ Len(Flat(new, 0, 0)) = 0
  BY <1>1, NothingBefore
<1>3. 0 \in 0 .. Len(o) /\ 1 = 0 + 1
  BY <1>1
<1> QED
  BY Zenon, <1>2, <1>3 DEF VariableAt, old, new

LEMMA WholeText ==
  ASSUME NEW o, IsSeq(o)
  PROVE  Flat(AsIs(o), 0, Len(o)) = o
<1> DEFINE old == AsIs(o)
           u == SubSeq(o, 0 + 1, Len(o))
           n == Len(o)
<1>1. n \in Nat /\ 0 \in Nat /\ 0 <= n /\ n <= n /\ n - 0 = n /\ \A i \in 1 .. n : 0 + i = i
  BY SeqIs
<1>2. Tokens(old, o, 0, n)
  <2>1. \A i \in 0 + 1 .. n : i \in 1 .. n
    OBVIOUS
  <2> QED
    BY Zenon, <2>1, ItemsAre DEF Tokens
<1> HIDE DEF old
<1>3. Flat(old, 0, n) = u
  <2>1. IsSeq(o) /\ 0 \in Nat /\ n \in Nat /\ 0 <= n /\ n <= Len(o) /\ Tokens(old, o, 0, n)
    BY Zenon, <1>1, <1>2
  <2>2. Flat(old, 0, n) = SubSeq(o, 0 + 1, n)
    <3> HIDE DEF n
    <3> QED
      BY ONLY <2>1, FlatTokens
  <2> QED
    BY Zenon, <2>2
<1>4. IsSeq(u) /\ Len(u) = n - 0 /\ \A i \in 1 .. n - 0 : u[i] = o[0 + i]
  BY <1>1, PieceOf
<1> HIDE DEF u
<1>5. u = o
  <2>1. Len(u) = Len(o)
    BY Zenon, <1>1, <1>4
  <2>2. \A i \in 1 .. Len(u) : u[i] = o[i]
    <3>1. ASSUME NEW i \in 1 .. n PROVE u[i] = o[i]
      <4>1. 0 + i = i /\ i \in 1 .. n - 0
        BY <1>1
      <4>2. u[i] = o[0 + i]
        BY Zenon, <1>4, <4>1
      <4> QED
        BY Zenon, <4>1, <4>2
    <3> QED
      BY Zenon, <2>1, <3>1
  <2> QED
    BY <1>4, <2>1, <2>2, SeqsEqual
<1> QED
  BY Zenon, <1>3, <1>5 DEF old

LEMMA VariableGoesOn ==
  ASSUME NEW o, NEW op, IsSeq(o), op.call = "setVariable", IsSeq(op.text),
         NEW words, NEW place, NEW p, VariableAt(o, op, words, place, p)
  PROVE  LET start == IndexOf(words, "sub", place)
         IN  \/ start = 0 /\ words = Flat(AfterCall(o, op), 0, Len(o))
             \/ /\ start # 0
                /\ \E s : VariableAt(o, op, Replaced(words, start, start, op.text),
                                     start + Len(op.text), s)
<1>1. p \in 0 .. Len(o)
  BY Zenon DEF VariableAt
<1>2. CASE \A s \in p + 1 .. Len(o) : o[s] # "sub"
  BY Zenon, <1>2, VariableEnds
<1>3. ASSUME NEW s \in p + 1 .. Len(o), o[s] = "sub", \A k \in p + 1 .. s - 1 : o[k] # "sub"
      PROVE  LET start == IndexOf(words, "sub", place)
             IN  /\ start # 0
                 /\ VariableAt(o, op, Replaced(words, start, start, op.text),
                               start + Len(op.text), s)
  BY Zenon, <1>3, VariableReplaced
<1>4. NextTag(o, p, "sub")
  BY <1>1, NextToken
<1> QED
  BY Zenon, <1>2, <1>3, <1>4 DEF NextTag

-----------------------------------------------------------------------------
(***************************************************************************)
(* The invariant of the engine: up to some token the text is what the      *)
(* reference says, from there on it is as the pass found it, and the       *)
(* search goes on where no tag can be missed or found twice.               *)
(***************************************************************************)
Covered == operation.call = "setVariable" \/ IsFlat(original, operation)

(* What the tokens are before and after the pass. *)
Before == IF tag = "ifnot" THEN AfterIf(original, operation) ELSE AsIs(original)

After == IF tag = "if" THEN AfterIf(original, operation) ELSE AfterCall(original, operation)

UpTo(p) ==
  IF operation.call = "setVariable" THEN VariableAt(original, operation, text, from, p)
  ELSE PassAt(original, Before, After, tag, text, from, p)

TagFits ==
  tag \in IF operation.call = "setVariable" THEN {"sub"} ELSE Starts(operation)

EngineInv ==
  /\ original \in Templates /\ operation \in Operations /\ TagFits
  /\ progress \in {"turning", "spinning", "done"}
  /\ Covered =>
       /\ progress # "spinning"
       /\ progress = "turning" => \E p \in 0 .. Len(original) : UpTo(p)
       /\ progress = "done" =>
            text = Flat(AfterCall(original, operation), 0, Len(original))

LEMMA InputsAre ==
  ASSUME original \in Templates, operation \in Operations
  PROVE  /\ IsSeq(original)
         /\ operation.call \in {"setVariable", "setCondition", "loop"}
         /\ operation.call # "setVariable" => Call(operation)
         /\ operation.call = "setVariable" => IsSeq(operation.text)
<1>1. original \in Seq(ToSet(original))
  BY Zenon, TemplatesAssumption
<1>2. /\ operation.call \in {"setVariable", "setCondition", "loop"} /\ operation.value \in BOOLEAN
      /\ operation.repetitions \in Nat /\ operation.text \in Seq(ToSet(operation.text))
      /\ \A n \in 0 .. operation.repetitions : <<"sub", n>> # "loop"
  BY Zenon, TemplatesAssumption
<1> QED
  BY Zenon, <1>1, <1>2 DEF IsSeq, Call

(* The passes of each call fit the text. *)
LEMMA PassesFit ==
  ASSUME original \in Templates, operation \in Operations, IsFlat(original, operation)
  PROVE  /\ operation.call = "loop" =>
              PassFits(original, AsIs(original), AfterCall(original, operation), "loop", operation)
         /\ operation.call = "setCondition" =>
              /\ PassFits(original, AsIs(original), AfterIf(original, operation), "if", operation)
              /\ PassFits(original, AfterIf(original, operation), AfterCall(original, operation),
                          "ifnot", operation)
         /\ TagFits /\ operation.call # "setVariable" =>
              PassFits(original, Before, After, tag, operation)
<1>1. IsSeq(original)
  BY Zenon, InputsAre
<1>2. ASSUME operation.call = "loop"
      PROVE  PassFits(original, AsIs(original), AfterCall(original, operation), "loop", operation)
  <2>1. Call(operation)
    BY InputsAre, <1>2
  <2> QED
    BY Zenon, <1>1, <1>2, <2>1, LoopPass
<1>3. ASSUME operation.call = "setCondition"
      PROVE  /\ PassFits(original, AsIs(original), AfterIf(original, operation), "if", operation)
             /\ PassFits(original, AfterIf(original, operation), AfterCall(original, operation),
                         "ifnot", operation)
  <2>1. Call(operation)
    BY InputsAre, <1>3
  <2> QED
    BY Zenon, <1>1, <1>3, <2>1, IfPass, IfnotPass
<1>4. ASSUME TagFits, operation.call # "setVariable"
      PROVE  PassFits(original, Before, After, tag, operation)
  <2>1. \/ operation.call = "loop" /\ tag = "loop"
        \/ operation.call = "setCondition" /\ tag = "if"
        \/ operation.call = "setCondition" /\ tag = "ifnot"
    BY <1>4, InputsAre DEF TagFits, Starts
  <2>2. "loop" # "if" /\ "loop" # "ifnot" /\ "if" # "ifnot"
    OBVIOUS
  <2> QED
    BY Zenon, <1>2, <1>3, <2>1, <2>2 DEF Before, After
<1> QED
  BY Zenon, <1>2, <1>3, <1>4

LEMMA EngineStarts == EngineInit => EngineInv
<1> SUFFICES ASSUME EngineInit PROVE EngineInv
  OBVIOUS
<1>1. /\ original \in Templates /\ text = original /\ operation \in Operations /\ from = 1
      /\ tag = FirstTag(operation.call) /\ progress = "turning"
  BY DEF EngineInit
<1>2. IsSeq(original) /\ Len(original) \in Nat
      /\ operation.call \in {"setVariable", "setCondition", "loop"}
  BY <1>1, InputsAre, SeqIs
<1>3. /\ operation.call = "setVariable" => tag = "sub"
      /\ operation.call = "setCondition" => tag = "if"
      /\ operation.call = "loop" => tag = "loop"
  BY <1>1 DEF FirstTag
<1>4. TagFits
  BY <1>2, <1>3 DEF TagFits, Starts
<1>5. Flat(AsIs(original), 0, Len(original)) = text
  BY Zenon, <1>1, <1>2, WholeText
<1>6. ASSUME Covered PROVE UpTo(0)
  <2>1. CASE operation.call = "setVariable"
    <3>1. IsSeq(operation.text)
      BY <1>1, <2>1, InputsAre
    <3>2. VariableAt(original, operation, text, from, 0)
      BY Zenon, <1>1, <1>2, <1>5, <2>1, <3>1, VariableBegins
    <3> QED
      BY Zenon, <2>1, <3>2 DEF UpTo
  <2>2. CASE operation.call # "setVariable"
    <3>1. PassFits(original, Before, After, tag, operation)
      BY Zenon, <1>1, <1>4, <1>6, <2>2, PassesFit DEF Covered
    <3>2. tag # "ifnot"
      BY <1>2, <1>3, <2>2
    <3>3. Flat(Before, 0, Len(original)) = text
      BY Zenon, <1>5, <3>2 DEF Before
    <3>4. PassAt(original, Before, After, tag, text, 1, 0)
      BY Zenon, <3>1, <3>3, PassBegins
    <3> QED
      BY Zenon, <1>1, <2>2, <3>4 DEF UpTo
  <2> QED
    BY <2>1, <2>2
<1>7. 0 \in 0 .. Len(original) /\ "turning" # "spinning" /\ "turning" # "done"
  BY <1>2
<1> QED
  BY Zenon, <1>1, <1>4, <1>6, <1>7 DEF EngineInv

LEMMA SetVariableKeeps == EngineInv /\ SetVariable => EngineInv'
<1> SUFFICES ASSUME EngineInv, SetVariable PROVE EngineInv'
  OBVIOUS
<1> DEFINE start == IndexOf(text, "sub", from)
<1>1. /\ progress = "turning" /\ operation.call = "setVariable"
      /\ original' = original /\ operation' = operation /\ tag' = tag
      /\ \/ start = 0 /\ progress' = "done" /\ text' = text /\ from' = from
         \/ /\ start # 0 /\ progress' = progress
            /\ text' = Replaced(text, start, start, operation.text)
            /\ from' = start + Len(operation.text)
  BY DEF SetVariable
<1>2. /\ original \in Templates /\ operation \in Operations /\ TagFits
      /\ progress # "spinning" /\ \E p \in 0 .. Len(original) : UpTo(p)
  BY Zenon, <1>1 DEF EngineInv, Covered
<1>3. TagFits'
  BY Zenon, <1>1, <1>2 DEF TagFits
<1>4. IsSeq(original) /\ IsSeq(operation.text)
  BY Zenon, <1>1, <1>2, InputsAre
<1>5. PICK p : VariableAt(original, operation, text, from, p)
  BY Zenon, <1>1, <1>2 DEF UpTo
<1>6. \/ start = 0 /\ text = Flat(AfterCall(original, operation), 0, Len(original))
      \/ /\ start # 0
         /\ \E s : VariableAt(original, operation, Replaced(text, start, start, operation.text),
                              start + Len(operation.text), s)
  BY Zenon, <1>1, <1>4, <1>5, VariableGoesOn
<1> HIDE DEF start
<1>7. CASE start = 0
  <2>1. progress' = "done" /\ text' = Flat(AfterCall(original', operation'), 0, Len(original'))
    BY Zenon, <1>1, <1>6, <1>7
  <2>2. "done" # "spinning" /\ "done" # "turning"
    OBVIOUS
  <2> QED
    BY Zenon, <1>1, <1>2, <1>3, <2>1, <2>2 DEF EngineInv
<1>8. CASE start # 0
  <2>1. PICK s : VariableAt(original, operation, text', from', s)
    BY Zenon, <1>1, <1>6, <1>8
  <2>2. s \in 0 .. Len(original)
    BY Zenon, <2>1 DEF VariableAt
  <2>3. \E q \in 0 .. Len(original') : UpTo(q)'
    BY Zenon, <1>1, <2>1, <2>2 DEF UpTo
  <2>4. "turning" # "spinning" /\ "turning" # "done" /\ progress' = "turning"
    BY <1>1, <1>8
  <2> QED
    BY Zenon, <1>1, <1>2, <1>3, <2>3, <2>4 DEF EngineInv
<1> QED
  BY <1>7, <1>8

(* Where the pass over the sections is. *)
LEMMA PassGoing ==
  ASSUME EngineInv, Covered, progress = "turning", operation.call # "setVariable"
  PROVE  /\ PassFits(original, Before, After, tag, operation)
         /\ \/ IndexOf(text, tag, from) = 0 /\ text = Flat(After, 0, Len(original))
            \/ /\ IndexOf(text, tag, from) # 0
               /\ TurnFits(original, Before, After, tag, operation, text, from)
<1>1. original \in Templates /\ operation \in Operations /\ TagFits
  BY DEF EngineInv
<1>2. PassFits(original, Before, After, tag, operation)
  BY Zenon, <1>1, PassesFit DEF Covered
<1>3. PICK p : PassAt(original, Before, After, tag, text, from, p)
  BY Zenon DEF EngineInv, UpTo
<1> QED
  BY Zenon, <1>2, <1>3, PassGoesOn

LEMMA ReplaceSectionKeeps == EngineInv /\ ReplaceSection => EngineInv'
<1> SUFFICES ASSUME EngineInv, ReplaceSection PROVE EngineInv'
  OBVIOUS
<1>1. /\ progress = "turning" /\ operation.call # "setVariable" /\ IndexOf(text, tag, from) # 0
      /\ original' = original /\ operation' = operation /\ tag' = tag /\ progress' = progress
  BY Zenon DEF ReplaceSection
<1>2. original \in Templates /\ operation \in Operations /\ TagFits
  BY Zenon DEF EngineInv
<1>3. TagFits'
  BY Zenon, <1>1, <1>2 DEF TagFits
<1>4. Before' = Before /\ After' = After
  BY Zenon, <1>1 DEF Before, After
<1>5. ASSUME Covered PROVE \E p \in 0 .. Len(original') : UpTo(p)'
  <2>1. TurnFits(original, Before, After, tag, operation, text, from)
    BY Zenon, <1>1, <1>5, PassGoing
  <2>2. \E p : PassAt(original, Before, After, tag, text', from', p)
    BY Zenon, <2>1 DEF TurnFits, ReplaceSection
  <2>3. PICK p : PassAt(original, Before, After, tag, text', from', p)
    BY Zenon, <2>2
  <2>4. p \in 0 .. Len(original)
    BY Zenon, <2>3 DEF PassAt
  <2> HIDE DEF Before, After
  <2> QED
    BY Zenon, <1>1, <1>4, <2>3, <2>4 DEF UpTo
<1>6. Covered' <=> Covered
  BY Zenon, <1>1 DEF Covered
<1>7. "turning" # "spinning" /\ "turning" # "done"
  OBVIOUS
<1> QED
  BY Zenon, <1>1, <1>2, <1>3, <1>5, <1>6, <1>7 DEF EngineInv

LEMMA EndTagMissingKeeps == EngineInv /\ EndTagMissing => EngineInv'
<1> SUFFICES ASSUME EngineInv, EndTagMissing PROVE EngineInv'
  OBVIOUS
<1>1. /\ progress = "turning" /\ operation.call # "setVariable" /\ IndexOf(text, tag, from) # 0
      /\ IndexOf(text, "end", IndexOf(text, tag, from) + 1) = 0 /\ progress' = "spinning"
      /\ original' = original /\ operation' = operation /\ tag' = tag
  BY Zenon DEF EndTagMissing
<1>2. original \in Templates /\ operation \in Operations /\ TagFits
  BY Zenon DEF EngineInv
<1>3. TagFits'
  BY Zenon, <1>1, <1>2 DEF TagFits
<1>4. ~ Covered
  <2>1. ASSUME Covered PROVE FALSE
    <3>1. TurnFits(original, Before, After, tag, operation, text, from)
      BY Zenon, <1>1, <2>1, PassGoing
    <3> QED
      BY Zenon, <1>1, <3>1 DEF TurnFits
  <2> QED
    BY <2>1
<1>5. ~ Covered'
  BY Zenon, <1>1, <1>4 DEF Covered
<1> QED
  BY Zenon, <1>1, <1>2, <1>3, <1>5 DEF EngineInv

LEMMA NoMoreSectionsKeeps == EngineInv /\ NoMoreSections => EngineInv'
<1> SUFFICES ASSUME EngineInv, NoMoreSections PROVE EngineInv'
  OBVIOUS
<1>1. /\ progress = "turning" /\ operation.call # "setVariable" /\ IndexOf(text, tag, from) = 0
      /\ original' = original /\ operation' = operation /\ text' = text
      /\ \/ tag = "if" /\ tag' = "ifnot" /\ from' = 1 /\ progress' = progress
         \/ tag # "if" /\ progress' = "done" /\ tag' = tag
  BY DEF NoMoreSections
<1>2. original \in Templates /\ operation \in Operations /\ TagFits
  BY Zenon DEF EngineInv
<1>3. operation.call \in {"setVariable", "setCondition", "loop"}
  BY Zenon, <1>2, InputsAre
<1>4. TagFits'
  <2>1. tag = "if" => operation.call = "setCondition"
    BY <1>1, <1>2, <1>3 DEF TagFits, Starts
  <2>2. CASE tag = "if"
    <3>1. operation' = operation /\ tag' = "ifnot" /\ operation.call = "setCondition"
      BY <1>1, <2>1, <2>2
    <3> QED
      BY <3>1 DEF TagFits, Starts
  <2>3. CASE tag # "if"
    BY Zenon, <1>1, <1>2, <2>3 DEF TagFits
  <2> QED
    BY <2>2, <2>3
<1>5. Covered' <=> Covered
  BY Zenon, <1>1 DEF Covered
<1>6. ASSUME Covered PROVE text = Flat(After, 0, Len(original))
  BY Zenon, <1>1, <1>6, PassGoing
<1>7. CASE tag = "if"
  <2>1. /\ tag' = "ifnot" /\ from' = 1 /\ progress' = "turning"
        /\ "turning" # "spinning" /\ "turning" # "done" /\ "if" # "ifnot"
    BY <1>1, <1>7
  <2>2. Before' = After
    BY Zenon, <1>1, <1>7, <2>1 DEF Before, After
  <2>3. ASSUME Covered PROVE \E p \in 0 .. Len(original') : UpTo(p)'
    <3>1. PassFits(original, Before', After', tag', operation)
      <4>1. operation.call = "setCondition"
        BY <1>1, <1>2, <1>3, <1>7 DEF TagFits, Starts
      <4>2. PassFits(original, AfterIf(original, operation), AfterCall(original, operation),
                     "ifnot", operation)
        BY Zenon, <1>1, <1>2, <2>3, <4>1, PassesFit DEF Covered
      <4> QED
        BY Zenon, <1>1, <2>1, <4>2 DEF Before, After
    <3>2. PassAt(original, Before', After', tag', Flat(Before', 0, Len(original)), 1, 0)
      BY Zenon, <3>1, PassBegins
    <3>3. Flat(Before', 0, Len(original)) = text'
      BY Zenon, <1>1, <1>6, <2>2, <2>3
    <3>4. 0 \in 0 .. Len(original)
      BY Zenon, <3>2 DEF PassAt
    <3> QED
      BY Zenon, <1>1, <2>1, <3>2, <3>3, <3>4 DEF UpTo
  <2> QED
    BY Zenon, <1>1, <1>2, <1>4, <1>5, <2>1, <2>3 DEF EngineInv
<1>8. CASE tag # "if"
  <2>1. progress' = "done" /\ "done" # "spinning" /\ "done" # "turning"
    BY <1>1, <1>8
  <2>2. After = AfterCall(original, operation)
    BY Zenon, <1>8 DEF After
  <2>3. Covered => text' = Flat(AfterCall(original', operation'), 0, Len(original'))
    BY Zenon, <1>1, <1>6, <2>2
  <2> QED
    BY Zenon, <1>1, <1>2, <1>4, <1>5, <2>1, <2>3 DEF EngineInv
<1> QED
  BY <1>7, <1>8

LEMMA EngineKept == EngineInv /\ [EngineNext]_engineVars => EngineInv'
<1>1. ASSUME EngineInv, UNCHANGED engineVars PROVE EngineInv'
  <2>1. /\ original' = original /\ operation' = operation /\ text' = text
        /\ from' = from /\ tag' = tag /\ progress' = progress
    BY <1>1 DEF engineVars
  <2>2. Before' = Before /\ After' = After
    BY Zenon, <2>1 DEF Before, After
  <2>3. \A p : UpTo(p)' <=> UpTo(p)
    BY Zenon, <2>1, <2>2 DEF UpTo
  <2>4. (TagFits' <=> TagFits) /\ (Covered' <=> Covered)
    BY Zenon, <2>1 DEF TagFits, Covered
  <2> QED
    BY Zenon, <1>1, <2>1, <2>3, <2>4 DEF EngineInv
<1> QED
  BY Zenon, <1>1, SetVariableKeeps, ReplaceSectionKeeps, EndTagMissingKeeps, NoMoreSectionsKeeps
     DEF EngineNext

LEMMA EngineTells == EngineInv => FlatTextsExpanded
<1> SUFFICES ASSUME EngineInv PROVE FlatTextsExpanded
  OBVIOUS
<1> DEFINE after == AfterCall(original, operation)
           n == Len(original)
<1>1. original \in Templates /\ operation \in Operations
  BY Zenon DEF EngineInv
<1>2. n \in Nat /\ DOMAIN original = 1 .. n
  BY <1>1, InputsAre, SeqIs
<1>3. after = [i \in 1 .. n |-> Result(original, operation, i)]
  BY DEF AfterCall
<1>4. after = [i \in 1 .. n |-> after[i]]
  BY <1>3
<1>5. after = [i \in DOMAIN original |-> Result(original, operation, i)]
  BY Zenon, <1>2, <1>3
<1> HIDE DEF after, n
<1>6. Flat(after, 0, n) = FlattenSeq(after)
  BY <1>2, <1>4, FlatWhole
<1>7. Covered => /\ progress # "spinning"
                 /\ progress = "done" => text = Flat(after, 0, n)
  BY Zenon DEF EngineInv, after, n
<1>8. Covered => /\ progress # "spinning"
                 /\ progress = "done" =>
                      text = FlattenSeq([i \in DOMAIN original |-> Result(original, operation, i)])
  BY Zenon, <1>5, <1>6, <1>7
<1> QED
  BY Zenon, <1>8 DEF FlatTextsExpanded, Covered

(***************************************************************************)
(* Every turn of setVariable, setCondition and loop keeps the invariant.   *)
(***************************************************************************)
THEOREM EngineAlways == EngineSpec => []EngineInv
BY EngineStarts, EngineKept, PTL DEF EngineSpec

(***************************************************************************)
(* The engine: a call that has ended has expanded a flat text, of whatever *)
(* length, as the reference says, and none waits for ever on an end tag.   *)
(***************************************************************************)
THEOREM FlatTextsExpandedAlways == EngineSpec => []FlatTextsExpanded
BY EngineAlways, EngineTells, PTL
=============================================================================
