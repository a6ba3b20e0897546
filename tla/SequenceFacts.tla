---------------------------- MODULE SequenceFacts ----------------------------
(***************************************************************************)
(* Facts about sequences that the proofs of the transport components use:  *)
(* induction, order and duplicates, and what Filter keeps.                 *)
(*                                                                         *)
(* Induction is stated over sets: to show that every sequence has a        *)
(* property, let T be the set of the sequences that have it.               *)
(***************************************************************************)
EXTENDS Integers, Sequences, FiniteSets, SequencesExt, SequenceFilter,
        FiniteSetTheorems, SequenceTheorems, WellFoundedInduction, TLAPS

(* m stands before n in s. *)
Before(s, m, n) == \E i, j \in DOMAIN s : i < j /\ s[i] = m /\ s[j] = n

(* No element of s is there twice. *)
Distinct(s) == \A i, j \in DOMAIN s : s[i] = s[j] => i = j

-----------------------------------------------------------------------------
(* Induction. *)

(* A set of numbers has a smallest one. *)
LEMMA MinNat ==
  ASSUME NEW T, T \subseteq Nat, T # {}
  PROVE  \E x \in T : \A y \in T : x <= y
<1> DEFINE R == OpToRel(<, Nat)
<1>1. IsWellFoundedOn(R, Nat)
  BY NatLessThanWellFounded, Zenon
<1>2. \A x, y \in Nat : y < x => <<y, x>> \in R
  BY DEF OpToRel
<1> HIDE DEF R
<1>3. PICK x \in T : \A y \in T : ~(<<y, x>> \in R)
  BY <1>1, WFMin
<1>4. \A y \in T : ~(y < x)
  BY <1>2, <1>3
<1>5. \A y \in T : x <= y
  BY <1>4
<1> QED BY <1>5

(* A bounded set of counts has a largest one. *)
LEMMA MaxOfCounts ==
  ASSUME NEW S, NEW k \in Nat, S # {}, \A x \in S : x \in Nat /\ x <= k
  PROVE  Max(S) \in S /\ \A x \in S : x <= Max(S)
<1> DEFINE T == {k - x : x \in S}
<1>1. T \subseteq Nat /\ T # {}
  OBVIOUS
<1> HIDE DEF T
<1>2. PICK t \in T : \A y \in T : t <= y
  BY <1>1, MinNat
<1>3. PICK x \in S : t = k - x
  BY <1>2 DEF T
<1>4. \A y \in S : k - x <= k - y
  BY <1>2, <1>3 DEF T
<1>5. \A y \in S : x >= y
  BY <1>4
<1>6. Max(S) \in S /\ \A y \in S : Max(S) >= y
  BY <1>5 DEF Max
<1> QED BY <1>6

LEMMA NatSetInduction ==
  ASSUME NEW T, 0 \in T, \A n \in Nat : n \in T => n + 1 \in T
  PROVE  Nat \subseteq T
<1> DEFINE U == Nat \ T
<1>1. SUFFICES ASSUME U # {} PROVE FALSE
  OBVIOUS
<1>2. PICK x \in U : \A y \in U : x <= y
  BY <1>1, MinNat
<1>3. x - 1 \in Nat /\ x - 1 \notin U
  BY <1>2
<1> QED BY <1>2, <1>3

LEMMA SeqSetInduction ==
  ASSUME NEW M, NEW T, <<>> \in T,
         \A s \in Seq(M), e \in M : s \in T => Append(s, e) \in T
  PROVE  Seq(M) \subseteq T
<1> DEFINE N == {n \in Nat : \A s \in Seq(M) : Len(s) = n => s \in T}
<1>1. 0 \in N
  <2>1. \A s \in Seq(M) : Len(s) = 0 => s = <<>>
    BY EmptySeq
  <2> QED BY <2>1
<1>2. ASSUME NEW n \in Nat, n \in N PROVE n + 1 \in N
  <2> SUFFICES ASSUME NEW s \in Seq(M), Len(s) = n + 1 PROVE s \in T
    OBVIOUS
  <2>1. s # <<>>
    BY EmptySeq
  <2>2. PICK t \in Seq(M), e \in M : s = Append(t, e)
    BY <2>1, SequenceEmptyOrAppend
  <2>3. Len(t) \in Nat /\ Len(s) = Len(t) + 1
    BY <2>2, AppendProperties, LenProperties
  <2>4. t \in T
    BY <1>2, <2>3
  <2> QED BY <2>2, <2>4
<1> HIDE DEF N
<1>3. Nat \subseteq N
  BY <1>1, <1>2, NatSetInduction
<1>4. \A s \in Seq(M) : Len(s) \in N
  BY <1>3, LenProperties
<1> QED BY <1>4, LenProperties DEF N

-----------------------------------------------------------------------------
(* Order and membership. *)

LEMMA AppendOrder ==
  ASSUME NEW M, NEW s \in Seq(M), NEW e \in M
  PROVE  /\ ToSet(Append(s, e)) = ToSet(s) \cup {e}
         /\ \A m, n : Before(Append(s, e), m, n)
                        <=> Before(s, m, n) \/ (m \in ToSet(s) /\ n = e)
         /\ Distinct(Append(s, e)) <=> Distinct(s) /\ e \notin ToSet(s)
<1> DEFINE t == Append(s, e)
<1>1. /\ Len(s) \in Nat /\ DOMAIN s = 1..Len(s) /\ DOMAIN t = 1..(Len(s) + 1)
      /\ \A i \in 1..Len(s) : t[i] = s[i]
      /\ t[Len(s) + 1] = e
  BY AppendProperties, LenProperties
<1>2. \A i \in DOMAIN t : i \in DOMAIN s \/ i = Len(s) + 1
  BY <1>1
<1> HIDE DEF t
<1>3. ToSet(t) = ToSet(s) \cup {e}
  BY <1>1, <1>2 DEF ToSet
<1>4. ASSUME NEW m, NEW n
      PROVE  Before(t, m, n) <=> Before(s, m, n) \/ (m \in ToSet(s) /\ n = e)
  <2>1. Before(s, m, n) => Before(t, m, n)
    BY <1>1 DEF Before
  <2>2. m \in ToSet(s) /\ n = e => Before(t, m, n)
    BY <1>1 DEF Before, ToSet
  <2>3. ASSUME Before(t, m, n) PROVE Before(s, m, n) \/ (m \in ToSet(s) /\ n = e)
    <3>1. PICK i, j \in DOMAIN t : i < j /\ t[i] = m /\ t[j] = n
      BY <2>3 DEF Before
    <3>2. i \in DOMAIN s /\ s[i] = m
      BY <1>1, <3>1
    <3>3. CASE j \in DOMAIN s
      BY <1>1, <3>1, <3>2, <3>3 DEF Before
    <3>4. CASE j = Len(s) + 1
      BY <1>1, <3>1, <3>2, <3>4 DEF ToSet
    <3> QED BY <1>2, <3>1, <3>3, <3>4
  <2> QED BY <2>1, <2>2, <2>3
<1>5. Distinct(t) <=> Distinct(s) /\ e \notin ToSet(s)
  <2>1. Distinct(t) => Distinct(s) /\ e \notin ToSet(s)
    BY <1>1 DEF Distinct, ToSet
  <2>2. ASSUME Distinct(s), e \notin ToSet(s), NEW i \in DOMAIN t, NEW j \in DOMAIN t,
               t[i] = t[j]
        PROVE  i = j
    BY <1>1, <1>2, <2>2 DEF Distinct, ToSet
  <2> QED BY <2>1, <2>2 DEF Distinct
<1> QED BY <1>3, <1>4, <1>5 DEF t

LEMMA ConcatOrder ==
  ASSUME NEW M, NEW s \in Seq(M), NEW t \in Seq(M)
  PROVE  /\ ToSet(s \o t) = ToSet(s) \cup ToSet(t)
         /\ \A m, n : Before(s \o t, m, n)
                        <=> \/ Before(s, m, n) \/ Before(t, m, n)
                            \/ m \in ToSet(s) /\ n \in ToSet(t)
         /\ Distinct(s \o t)
              <=> Distinct(s) /\ Distinct(t) /\ ToSet(s) \cap ToSet(t) = {}
<1> DEFINE u == s \o t
<1>1. /\ Len(s) \in Nat /\ DOMAIN s = 1..Len(s) /\ Len(t) \in Nat /\ DOMAIN t = 1..Len(t)
      /\ DOMAIN u = 1..(Len(s) + Len(t))
      /\ \A i \in DOMAIN u : u[i] = IF i <= Len(s) THEN s[i] ELSE t[i - Len(s)]
  BY ConcatProperties, LenProperties
<1> HIDE DEF u
<1>2. \A i \in DOMAIN s : i \in DOMAIN u /\ u[i] = s[i] /\ i <= Len(s)
  BY <1>1
<1>3. \A i \in DOMAIN t : i + Len(s) \in DOMAIN u /\ u[i + Len(s)] = t[i]
  BY <1>1
<1>4. ASSUME NEW i \in DOMAIN u, i \notin DOMAIN s
      PROVE  i - Len(s) \in DOMAIN t /\ u[i] = t[i - Len(s)] /\ i > Len(s)
  BY <1>1, <1>4
<1>5. ToSet(u) = ToSet(s) \cup ToSet(t)
  <2>1. ASSUME NEW x \in ToSet(u) PROVE x \in ToSet(s) \cup ToSet(t)
    BY <1>2, <1>4, <2>1 DEF ToSet
  <2>2. ToSet(s) \subseteq ToSet(u)
    BY <1>2 DEF ToSet
  <2>3. ToSet(t) \subseteq ToSet(u)
    <3>1. ASSUME NEW i \in DOMAIN t PROVE t[i] \in ToSet(u)
      BY <1>3 DEF ToSet
    <3> QED BY <3>1 DEF ToSet
  <2> QED BY <2>1, <2>2, <2>3
<1>6. ASSUME NEW m, NEW n
      PROVE  Before(u, m, n) <=> \/ Before(s, m, n) \/ Before(t, m, n)
                                 \/ m \in ToSet(s) /\ n \in ToSet(t)
  <2>1. ASSUME Before(u, m, n), ~Before(s, m, n), ~Before(t, m, n)
        PROVE  m \in ToSet(s) /\ n \in ToSet(t)
    <3>1. PICK i, j \in DOMAIN u : i < j /\ u[i] = m /\ u[j] = n
      BY <2>1 DEF Before
    <3>2. CASE j \in DOMAIN s
      BY <1>1, <1>2, <2>1, <3>1, <3>2 DEF Before
    <3>3. CASE i \notin DOMAIN s
      <4>1. j \notin DOMAIN s
        BY <1>1, <3>1, <3>3
      <4>2. i - Len(s) < j - Len(s)
        BY <1>1, <3>1
      <4> QED BY <1>4, <2>1, <3>1, <3>3, <4>1, <4>2 DEF Before
    <3>4. CASE i \in DOMAIN s /\ j \notin DOMAIN s
      BY <1>2, <1>4, <3>1, <3>4 DEF ToSet
    <3> QED BY <3>2, <3>3, <3>4
  <2>2. Before(s, m, n) => Before(u, m, n)
    BY <1>2 DEF Before
  <2>3. Before(t, m, n) => Before(u, m, n)
    <3>1. \A i, j \in DOMAIN t : i < j => i + Len(s) < j + Len(s)
      BY <1>1
    <3>2. ASSUME NEW i \in DOMAIN t, NEW j \in DOMAIN t, i < j, t[i] = m, t[j] = n
          PROVE  Before(u, m, n)
      BY <1>3, <3>1, <3>2 DEF Before
    <3> QED BY <3>2 DEF Before
  <2>4. ASSUME m \in ToSet(s), n \in ToSet(t) PROVE Before(u, m, n)
    <3>1. PICK i \in DOMAIN s : s[i] = m
      BY <2>4 DEF ToSet
    <3>2. PICK j \in DOMAIN t : t[j] = n
      BY <2>4 DEF ToSet
    <3>3. i < j + Len(s)
      BY <1>1
    <3> QED BY <1>2, <1>3, <3>1, <3>2, <3>3 DEF Before
  <2> QED BY <2>1, <2>2, <2>3, <2>4
<1>7. Distinct(u) <=> Distinct(s) /\ Distinct(t) /\ ToSet(s) \cap ToSet(t) = {}
  <2>1. ASSUME Distinct(u)
        PROVE  Distinct(s) /\ Distinct(t) /\ ToSet(s) \cap ToSet(t) = {}
    <3>1. Distinct(s)
      BY <1>2, <2>1 DEF Distinct
    <3>2. ASSUME NEW i \in DOMAIN t, NEW j \in DOMAIN t, t[i] = t[j] PROVE i = j
      <4>1. i + Len(s) = j + Len(s)
        BY <1>3, <2>1, <3>2 DEF Distinct
      <4> QED BY <1>1, <4>1
    <3>3. ASSUME NEW x \in ToSet(s), x \in ToSet(t) PROVE FALSE
      <4>1. PICK i \in DOMAIN s : s[i] = x
        BY DEF ToSet
      <4>2. PICK j \in DOMAIN t : t[j] = x
        BY <3>3 DEF ToSet
      <4>3. i = j + Len(s)
        BY <1>2, <1>3, <2>1, <4>1, <4>2 DEF Distinct
      <4> QED BY <1>1, <4>3
    <3> QED BY <3>1, <3>2, <3>3 DEF Distinct
  <2>2. ASSUME Distinct(s), Distinct(t), ToSet(s) \cap ToSet(t) = {},
               NEW i \in DOMAIN u, NEW j \in DOMAIN u, u[i] = u[j]
        PROVE  i = j
    <3>1. CASE i \in DOMAIN s /\ j \in DOMAIN s
      BY <1>2, <2>2, <3>1 DEF Distinct
    <3>2. CASE i \notin DOMAIN s /\ j \notin DOMAIN s
      <4>1. i - Len(s) = j - Len(s)
        BY <1>4, <2>2, <3>2 DEF Distinct
      <4> QED BY <1>1, <4>1
    <3>3. CASE i \in DOMAIN s /\ j \notin DOMAIN s
      BY <1>2, <1>4, <2>2, <3>3 DEF ToSet
    <3>4. CASE i \notin DOMAIN s /\ j \in DOMAIN s
      <4>1. u[j] \in ToSet(s)
        BY <1>2, <3>4 DEF ToSet
      <4>2. u[i] \in ToSet(t)
        BY <1>4, <3>4 DEF ToSet
      <4> QED BY <2>2, <4>1, <4>2
    <3> QED BY <3>1, <3>2, <3>3, <3>4
  <2> QED BY <2>1, <2>2 DEF Distinct
<1> QED BY <1>5, <1>6, <1>7 DEF u

LEMMA HeadTailOrder ==
  ASSUME NEW M, NEW s \in Seq(M), s # <<>>
  PROVE  /\ ToSet(s) = {Head(s)} \cup ToSet(Tail(s))
         /\ \A m, n : Before(s, m, n)
                        <=> Before(Tail(s), m, n) \/ (m = Head(s) /\ n \in ToSet(Tail(s)))
         /\ Distinct(s) => Distinct(Tail(s)) /\ Head(s) \notin ToSet(Tail(s))
<1> DEFINE h == <<Head(s)>>  t == Tail(s)
<1>1. Head(s) \in M /\ t \in Seq(M) /\ h \in Seq(M) /\ s = h \o t
  OBVIOUS
<1>2. ToSet(h) = {Head(s)} /\ \A m, n : ~Before(h, m, n)
  BY DEF ToSet, Before
<1> HIDE DEF h, t
<1>3. /\ ToSet(h \o t) = ToSet(h) \cup ToSet(t)
      /\ \A m, n : Before(h \o t, m, n)
                        <=> \/ Before(h, m, n) \/ Before(t, m, n)
                            \/ m \in ToSet(h) /\ n \in ToSet(t)
      /\ Distinct(h \o t)
              <=> Distinct(h) /\ Distinct(t) /\ ToSet(h) \cap ToSet(t) = {}
  BY <1>1, ConcatOrder
<1>4. ToSet(s) = {Head(s)} \cup ToSet(t)
  BY <1>1, <1>2, <1>3
<1>5. \A m, n : Before(s, m, n) <=> Before(t, m, n) \/ (m = Head(s) /\ n \in ToSet(t))
  BY <1>1, <1>2, <1>3
<1>6. Distinct(s) => Distinct(t) /\ Head(s) \notin ToSet(t)
  BY <1>1, <1>2, <1>3
<1> QED BY <1>4, <1>5, <1>6 DEF t

LEMMA SetOfSeq ==
  ASSUME NEW M, NEW s \in Seq(M)
  PROVE  /\ ToSet(s) \subseteq M
         /\ ToSet(s) = {} <=> s = <<>>
         /\ s # <<>> => Head(s) \in ToSet(s)
         /\ \A m, n : Before(s, m, n) => m \in ToSet(s) /\ n \in ToSet(s)
<1>1. Len(s) \in Nat /\ DOMAIN s = 1..Len(s) /\ \A i \in 1..Len(s) : s[i] \in M
  BY LenProperties, ElementOfSeq
<1>2. ToSet(s) \subseteq M
  BY <1>1 DEF ToSet
<1>3. s # <<>> => 1 \in DOMAIN s /\ Head(s) = s[1]
  BY <1>1, EmptySeq
<1> QED BY <1>2, <1>3 DEF ToSet, Before

(* In a sequence without duplicates the order is strict. *)
LEMMA DistinctOrder ==
  ASSUME NEW M, NEW s \in Seq(M), Distinct(s)
  PROVE  \A m, n : ~(Before(s, m, n) /\ Before(s, n, m))
<1>1. DOMAIN s \subseteq Nat
  BY LenProperties
<1> QED BY <1>1 DEF Distinct, Before

LEMMA EmptyFacts ==
  /\ \A S : <<>> \in Seq(S)
  /\ Distinct(<<>>) /\ ToSet(<<>>) = {} /\ \A m, n : ~Before(<<>>, m, n)
BY EmptySeq DEF Distinct, ToSet, Before

(* A sequence without duplicates is as long as its set is large. *)
LEMMA DistinctLength ==
  ASSUME NEW M, NEW s \in Seq(M)
  PROVE  /\ IsFiniteSet(ToSet(s))
         /\ Distinct(s) => Cardinality(ToSet(s)) = Len(s)
<1> DEFINE T == {t \in Seq(M) : /\ IsFiniteSet(ToSet(t))
                                /\ Distinct(t) => Cardinality(ToSet(t)) = Len(t)}
<1>1. <<>> \in T
  <2>1. ToSet(<<>>) = {}
    BY DEF ToSet
  <2> QED BY <2>1, FS_EmptySet, EmptySeq
<1>2. ASSUME NEW t \in Seq(M), NEW e \in M, t \in T PROVE Append(t, e) \in T
  <2>1. IsFiniteSet(ToSet(t)) /\ (Distinct(t) => Cardinality(ToSet(t)) = Len(t))
    BY <1>2
  <2>2. Append(t, e) \in Seq(M) /\ Len(Append(t, e)) = Len(t) + 1
    BY AppendProperties
  <2>3. /\ ToSet(Append(t, e)) = ToSet(t) \cup {e}
        /\ Distinct(Append(t, e)) => Distinct(t) /\ e \notin ToSet(t)
    BY AppendOrder
  <2>4. /\ IsFiniteSet(ToSet(t) \cup {e})
        /\ e \notin ToSet(t) => Cardinality(ToSet(t) \cup {e}) = Cardinality(ToSet(t)) + 1
    BY <2>1, FS_AddElement
  <2> QED BY <2>1, <2>2, <2>3, <2>4
<1>3. Seq(M) \subseteq T
  <2> HIDE DEF T
  <2> QED BY <1>1, <1>2, SeqSetInduction
<1> QED BY <1>3

-----------------------------------------------------------------------------
(* Filter. *)

(* f is the function that Filter(s, S) unfolds, up to n. *)
FiltersUpTo(f, s, S, n) ==
  f = [i \in 0..n |-> IF i = 0 THEN <<>>
                      ELSE IF s[i] \in S THEN Append(f[i - 1], s[i]) ELSE f[i - 1]]

LEMMA FiltersExist ==
  ASSUME NEW s, NEW S
  PROVE  \A n \in Nat : \E f : FiltersUpTo(f, s, S, n)
<1> DEFINE T == {n \in Nat : \E f : FiltersUpTo(f, s, S, n)}
<1>1. 0 \in T
  <2> DEFINE f == [i \in 0..0 |-> <<>>]
  <2>1. FiltersUpTo(f, s, S, 0)
    BY DEF FiltersUpTo
  <2> QED BY <2>1
<1>2. ASSUME NEW n \in Nat, n \in T PROVE n + 1 \in T
  <2>1. PICK f : FiltersUpTo(f, s, S, n)
    BY <1>2
  <2> DEFINE g == [i \in 0..(n + 1) |->
                     IF i <= n THEN f[i]
                     ELSE IF s[n + 1] \in S THEN Append(f[n], s[n + 1]) ELSE f[n]]
  <2>2. \A i \in 0..n : f[i] = IF i = 0 THEN <<>>
                      ELSE IF s[i] \in S THEN Append(f[i - 1], s[i]) ELSE f[i - 1]
    BY <2>1 DEF FiltersUpTo
  <2>3. \A i \in 0..(n + 1) : g[i] = IF i = 0 THEN <<>>
                      ELSE IF s[i] \in S THEN Append(g[i - 1], s[i]) ELSE g[i - 1]
    <3> SUFFICES ASSUME NEW i \in 0..(n + 1)
                 PROVE  g[i] = IF i = 0 THEN <<>>
                      ELSE IF s[i] \in S THEN Append(g[i - 1], s[i]) ELSE g[i - 1]
      OBVIOUS
    <3>1. CASE i <= n
      BY <2>2, <3>1
    <3>2. CASE i = n + 1
      BY <3>2
    <3> QED BY <3>1, <3>2
  <2>4. g = [i \in 0..(n + 1) |-> g[i]]
    OBVIOUS
  <2> HIDE DEF g
  <2>5. FiltersUpTo(g, s, S, n + 1)
    BY <2>3, <2>4 DEF FiltersUpTo
  <2> QED BY <2>5
<1>3. Nat \subseteq T
  <2> HIDE DEF T
  <2> QED BY <1>1, <1>2, NatSetInduction
<1> QED BY <1>3

(* Two such functions agree where the sequences do. *)
LEMMA FiltersAgree ==
  ASSUME NEW s, NEW t, NEW S, NEW n \in Nat, NEW k \in Nat, NEW f, NEW g, n <= k,
         FiltersUpTo(f, s, S, n), FiltersUpTo(g, t, S, k),
         \A i \in 1..n : s[i] = t[i]
  PROVE  f[n] = g[n]
<1> DEFINE T == {i \in Nat : i <= n => f[i] = g[i]}
<1>1. \A i \in 0..n : f[i] = IF i = 0 THEN <<>>
                    ELSE IF s[i] \in S THEN Append(f[i - 1], s[i]) ELSE f[i - 1]
  BY DEF FiltersUpTo
<1>2. \A i \in 0..k : g[i] = IF i = 0 THEN <<>>
                    ELSE IF t[i] \in S THEN Append(g[i - 1], t[i]) ELSE g[i - 1]
  BY DEF FiltersUpTo
<1>3. 0 \in T
  BY <1>1, <1>2
<1>4. ASSUME NEW i \in Nat, i \in T PROVE i + 1 \in T
  <2> SUFFICES ASSUME i + 1 <= n PROVE f[i + 1] = g[i + 1]
    OBVIOUS
  <2>1. i + 1 \in 0..n /\ i + 1 \in 0..k /\ i + 1 # 0 /\ i + 1 \in 1..n /\ (i + 1) - 1 = i
    OBVIOUS
  <2>2. f[i + 1] = IF s[i + 1] \in S THEN Append(f[i], s[i + 1]) ELSE f[i]
    BY <1>1, <2>1
  <2>3. g[i + 1] = IF t[i + 1] \in S THEN Append(g[i], t[i + 1]) ELSE g[i]
    BY <1>2, <2>1
  <2>4. f[i] = g[i] /\ s[i + 1] = t[i + 1]
    BY <1>4, <2>1
  <2> QED BY <2>2, <2>3, <2>4
<1>5. Nat \subseteq T
  <2> HIDE DEF T
  <2> QED BY <1>3, <1>4, NatSetInduction
<1> QED BY <1>5

LEMMA FilterUnfold ==
  ASSUME NEW s, NEW S, Len(s) \in Nat
  PROVE  \E f : FiltersUpTo(f, s, S, Len(s)) /\ Filter(s, S) = f[Len(s)]
<1> DEFINE f == CHOOSE f : FiltersUpTo(f, s, S, Len(s))
<1>1. FiltersUpTo(f, s, S, Len(s))
  BY FiltersExist
<1>2. Filter(s, S) = f[Len(s)]
  BY Zenon DEF Filter, FiltersUpTo
<1> QED BY <1>1, <1>2

(* Filter, one element at a time. *)
LEMMA FilterEmpty ==
  ASSUME NEW S
  PROVE  Filter(<<>>, S) = <<>>
<1>1. Len(<<>>) = 0
  BY EmptySeq
<1>2. PICK f : FiltersUpTo(f, <<>>, S, 0) /\ Filter(<<>>, S) = f[0]
  BY <1>1, FilterUnfold
<1> QED BY <1>2 DEF FiltersUpTo

LEMMA FilterAppend ==
  ASSUME NEW M, NEW S, NEW s \in Seq(M), NEW e \in M
  PROVE  Filter(Append(s, e), S) =
           IF e \in S THEN Append(Filter(s, S), e) ELSE Filter(s, S)
<1> DEFINE t == Append(s, e)  n == Len(s)
<1>1. /\ n \in Nat /\ Len(t) = n + 1
      /\ \A i \in 1..n : s[i] = t[i]
      /\ t[n + 1] = e
  BY AppendProperties, LenProperties
<1> HIDE DEF t, n
<1>2. PICK f : FiltersUpTo(f, s, S, n) /\ Filter(s, S) = f[n]
  BY <1>1, FilterUnfold DEF n
<1>3. PICK g : FiltersUpTo(g, t, S, n + 1) /\ Filter(t, S) = g[n + 1]
  BY <1>1, FilterUnfold
<1>4. f[n] = g[n]
  BY <1>1, <1>2, <1>3, FiltersAgree
<1>5. n + 1 \in 0..(n + 1) /\ n + 1 # 0 /\ (n + 1) - 1 = n
  BY <1>1
<1>6. g[n + 1] = IF t[n + 1] \in S THEN Append(g[n], t[n + 1]) ELSE g[n]
  BY <1>3, <1>5 DEF FiltersUpTo
<1> QED BY <1>1, <1>2, <1>3, <1>4, <1>6 DEF t

(* Filter keeps what is in S, in its order. *)
LEMMA FilterKeeps ==
  ASSUME NEW M, NEW S, NEW s \in Seq(M)
  PROVE  /\ Filter(s, S) \in Seq(M)
         /\ ToSet(Filter(s, S)) = ToSet(s) \cap S
         /\ \A m, n : Before(Filter(s, S), m, n) <=> Before(s, m, n) /\ m \in S /\ n \in S
         /\ Distinct(s) => Distinct(Filter(s, S))
         /\ Len(Filter(s, S)) <= Len(s)
<1> DEFINE
      Keeps(t) == /\ Filter(t, S) \in Seq(M)
                  /\ ToSet(Filter(t, S)) = ToSet(t) \cap S
                  /\ \A m, n : Before(Filter(t, S), m, n)
                                 <=> Before(t, m, n) /\ m \in S /\ n \in S
                  /\ Distinct(t) => Distinct(Filter(t, S))
                  /\ Len(Filter(t, S)) <= Len(t)
      T == {t \in Seq(M) : Keeps(t)}
<1>1. <<>> \in T
  <2> DEFINE z == <<>>
  <2>1. ToSet(z) = {} /\ Distinct(z) /\ \A m, n : ~Before(z, m, n)
    BY DEF ToSet, Distinct, Before
  <2>2. z \in Seq(M) /\ Len(z) = 0 /\ Filter(z, S) = z
    BY EmptySeq, FilterEmpty
  <2> HIDE DEF z
  <2>3. Keeps(z)
    BY <2>1, <2>2
  <2> QED BY <2>2, <2>3 DEF z
<1>2. ASSUME NEW t \in Seq(M), NEW e \in M, t \in T PROVE Append(t, e) \in T
  <2> DEFINE u == Append(t, e)  f == Filter(t, S)
  <2>0. /\ u \in Seq(M) /\ Len(u) = Len(t) + 1 /\ Len(t) \in Nat
    BY AppendProperties, LenProperties
  <2>1. Keeps(t)
    BY <1>2
  <2>2. /\ ToSet(u) = ToSet(t) \cup {e}
        /\ \A m, n : Before(u, m, n) <=> Before(t, m, n) \/ (m \in ToSet(t) /\ n = e)
        /\ Distinct(u) <=> Distinct(t) /\ e \notin ToSet(t)
    BY AppendOrder
  <2>6. \A m, n : Before(t, m, n) => m \in ToSet(t) /\ n \in ToSet(t)
    BY SetOfSeq
  <2>3. CASE e \in S
    <3>1. Filter(u, S) = Append(f, e)
      BY <2>3, FilterAppend
    <3>2. f \in Seq(M) /\ Len(f) \in Nat /\ Len(f) <= Len(t)
      BY <2>1, LenProperties
    <3> HIDE DEF f
    <3>3. /\ ToSet(Append(f, e)) = ToSet(f) \cup {e}
          /\ \A m, n : Before(Append(f, e), m, n)
                         <=> Before(f, m, n) \/ (m \in ToSet(f) /\ n = e)
          /\ Distinct(Append(f, e)) <=> Distinct(f) /\ e \notin ToSet(f)
      BY <3>2, AppendOrder
    <3>4. Append(f, e) \in Seq(M) /\ Len(Append(f, e)) = Len(f) + 1
      BY <3>2, AppendProperties
    <3>5. /\ ToSet(f) = ToSet(t) \cap S
          /\ \A m, n : Before(f, m, n) <=> Before(t, m, n) /\ m \in S /\ n \in S
          /\ Distinct(t) => Distinct(f)
      BY <2>1 DEF f
    <3> HIDE DEF u
    <3>6. ToSet(Append(f, e)) = ToSet(u) \cap S
      BY <2>2, <2>3, <3>3, <3>5
    <3>7. \A m, n : Before(Append(f, e), m, n) <=> Before(u, m, n) /\ m \in S /\ n \in S
      BY <2>2, <2>3, <3>3, <3>5
    <3>8. Distinct(u) => Distinct(Append(f, e))
      BY <2>2, <3>3, <3>5
    <3>9. Len(Append(f, e)) <= Len(u)
      BY <2>0, <3>2, <3>4
    <3> HIDE DEF f
    <3>10. Keeps(u)
      BY <3>1, <3>4, <3>6, <3>7, <3>8, <3>9
    <3> QED BY <2>0, <3>10 DEF u
  <2>4. CASE e \notin S
    <3>1. Filter(u, S) = f
      BY <2>4, FilterAppend
    <3>2. /\ f \in Seq(M) /\ Len(f) \in Nat /\ Len(f) <= Len(t)
          /\ ToSet(f) = ToSet(t) \cap S
          /\ \A m, n : Before(f, m, n) <=> Before(t, m, n) /\ m \in S /\ n \in S
          /\ Distinct(t) => Distinct(f)
      BY <2>1, LenProperties DEF f
    <3> HIDE DEF f, u
    <3>3. ToSet(f) = ToSet(u) \cap S
      BY <2>2, <2>4, <3>2
    <3>4. \A m, n : Before(f, m, n) <=> Before(u, m, n) /\ m \in S /\ n \in S
      BY <2>2, <2>4, <3>2
    <3>5. Distinct(u) => Distinct(f)
      BY <2>2, <3>2
    <3>6. Len(f) <= Len(u)
      BY <2>0, <3>2
    <3>7. Keeps(u)
      BY <3>1, <3>2, <3>3, <3>4, <3>5, <3>6
    <3> QED BY <2>0, <3>7 DEF u
  <2> QED BY <2>3, <2>4
<1>3. Seq(M) \subseteq T
  <2> HIDE DEF T
  <2> QED BY <1>1, <1>2, SeqSetInduction
<1> QED BY <1>3

(* Filter of a sequence that lies in S, or outside of it. *)
LEMMA FilterAllOrNone ==
  ASSUME NEW M, NEW S, NEW s \in Seq(M)
  PROVE  /\ ToSet(s) \subseteq S => Filter(s, S) = s
         /\ ToSet(s) \cap S = {} => Filter(s, S) = <<>>
<1> DEFINE T == {t \in Seq(M) : /\ ToSet(t) \subseteq S => Filter(t, S) = t
                                /\ ToSet(t) \cap S = {} => Filter(t, S) = <<>>}
<1>1. <<>> \in T
  BY FilterEmpty, EmptySeq
<1>2. ASSUME NEW t \in Seq(M), NEW e \in M, t \in T PROVE Append(t, e) \in T
  <2>1. ToSet(Append(t, e)) = ToSet(t) \cup {e} /\ Append(t, e) \in Seq(M)
    BY AppendOrder, AppendProperties
  <2>2. Filter(Append(t, e), S) =
                IF e \in S THEN Append(Filter(t, S), e) ELSE Filter(t, S)
    BY FilterAppend
  <2> QED BY <1>2, <2>1, <2>2
<1>3. Seq(M) \subseteq T
  <2> HIDE DEF T
  <2> QED BY <1>1, <1>2, SeqSetInduction
<1> QED BY <1>3

LEMMA FilterConcat ==
  ASSUME NEW M, NEW S, NEW s \in Seq(M), NEW t \in Seq(M)
  PROVE  Filter(s \o t, S) = Filter(s, S) \o Filter(t, S)
<1> DEFINE T == {u \in Seq(M) : Filter(s \o u, S) = Filter(s, S) \o Filter(u, S)}
<1>0. Filter(s, S) \in Seq(M)
  BY FilterKeeps
<1>1. <<>> \in T
  BY <1>0, FilterEmpty, EmptySeq, ConcatEmptySeq
<1>2. ASSUME NEW u \in Seq(M), NEW e \in M, u \in T PROVE Append(u, e) \in T
  <2> DEFINE f == Filter(s, S)  g == Filter(u, S)
  <2>1. /\ Append(u, e) \in Seq(M) /\ s \o u \in Seq(M)
        /\ s \o Append(u, e) = Append(s \o u, e)
    BY AppendProperties, ConcatProperties
  <2>2. Filter(Append(s \o u, e), S) =
                IF e \in S THEN Append(Filter(s \o u, S), e) ELSE Filter(s \o u, S)
    <3> DEFINE v == s \o u
    <3> HIDE DEF v
    <3>1. v \in Seq(M)
      BY <2>1 DEF v
    <3>2. Filter(Append(v, e), S) = IF e \in S THEN Append(Filter(v, S), e) ELSE Filter(v, S)
      BY <3>1, FilterAppend
    <3> QED BY <3>2 DEF v
  <2>3. Filter(Append(u, e), S) = IF e \in S THEN Append(g, e) ELSE g
    BY FilterAppend
  <2>4. Filter(s \o u, S) = f \o g /\ f \in Seq(M) /\ g \in Seq(M)
    BY <1>2, FilterKeeps
  <2> HIDE DEF f, g
  <2>5. f \o Append(g, e) = Append(f \o g, e)
    BY <2>4
  <2>6. Filter(s \o Append(u, e), S) = f \o Filter(Append(u, e), S)
    BY <2>1, <2>2, <2>3, <2>4, <2>5
  <2> QED BY <2>1, <2>6 DEF f
<1>3. Seq(M) \subseteq T
  <2> HIDE DEF T
  <2> QED BY <1>1, <1>2, SeqSetInduction
<1> QED BY <1>3

-----------------------------------------------------------------------------
(* Prefixes. *)

LEMMA PrefixElements ==
  ASSUME NEW M, NEW s \in Seq(M), NEW t \in Seq(M), IsPrefix(s, t)
  PROVE  Len(s) <= Len(t) /\ \A i \in 1..Len(s) : s[i] = t[i]
<1>1. Len(s) \in Nat /\ Len(t) \in Nat /\ Len(s) <= Len(t)
  BY LenProperties DEF IsPrefix
<1>2. \A i \in 1..Len(s) : s[i] \in M /\ t[i] \in M
  BY <1>1, LenProperties
<1>3. \A i \in 1..(Len(s) - 1 + 1) : SubSeq(s, 1, Len(s))[i] = s[1 + i - 1]
  BY <1>1, <1>2, SubSeqProperties
<1>4. \A i \in 1..(Len(s) - 1 + 1) : SubSeq(t, 1, Len(s))[i] = t[1 + i - 1]
  BY <1>1, <1>2, SubSeqProperties
<1>5. SubSeq(s, 1, Len(s)) = SubSeq(t, 1, Len(s))
  BY DEF IsPrefix
<1>6. ASSUME NEW i \in 1..Len(s) PROVE s[i] = t[i]
  <2>1. i \in 1..(Len(s) - 1 + 1) /\ 1 + i - 1 = i
    BY <1>1
  <2> QED BY <1>3, <1>4, <1>5, <2>1
<1> QED BY <1>1, <1>6

(* What stands before an element of a prefix is in the prefix. *)
LEMMA PrefixOrder ==
  ASSUME NEW M, NEW s \in Seq(M), NEW t \in Seq(M), IsPrefix(s, t), Distinct(t),
         NEW m, NEW n \in ToSet(s), Before(t, m, n)
  PROVE  Before(s, m, n)
<1>1. Len(s) <= Len(t) /\ \A i \in 1..Len(s) : s[i] = t[i]
  BY PrefixElements
<1>2. /\ Len(s) \in Nat /\ DOMAIN s = 1..Len(s)
      /\ Len(t) \in Nat /\ DOMAIN t = 1..Len(t)
  BY LenProperties
<1>3. PICK i, j \in DOMAIN t : i < j /\ t[i] = m /\ t[j] = n
  BY DEF Before
<1>4. PICK k \in DOMAIN s : s[k] = n
  BY DEF ToSet
<1>5. k = j
  BY <1>1, <1>2, <1>3, <1>4 DEF Distinct
<1>6. i \in DOMAIN s /\ s[i] = m
  BY <1>1, <1>2, <1>3, <1>5
<1> QED BY <1>3, <1>4, <1>5, <1>6 DEF Before

LEMMA ConcatPrefix ==
  ASSUME NEW M, NEW s \in Seq(M), NEW t \in Seq(M)
  PROVE  IsPrefix(s, s \o t)
<1>1. Len(s) \in Nat /\ Len(t) \in Nat /\ s \o t \in Seq(M) /\ Len(s \o t) = Len(s) + Len(t)
      /\ DOMAIN s = 1..Len(s) /\ DOMAIN t = 1..Len(t)
      /\ \A i \in 1..(Len(s) + Len(t)) :
           (s \o t)[i] = IF i <= Len(s) THEN s[i] ELSE t[i - Len(s)]
  BY LenProperties, ConcatProperties
<1> DEFINE u == s \o t  a == SubSeq(s, 1, Len(s))  b == SubSeq(u, 1, Len(s))
<1>2. \A i \in 1..Len(s) : s[i] \in M /\ u[i] \in M /\ u[i] = s[i]
  BY <1>1, LenProperties
<1>3. Len(s) <= Len(u)
  BY <1>1
<1> HIDE DEF u
<1>4. /\ a \in Seq(M) /\ Len(a) = (IF 1 <= Len(s) THEN Len(s) - 1 + 1 ELSE 0)
      /\ \A i \in 1..(Len(s) - 1 + 1) : a[i] = s[1 + i - 1]
  BY <1>1, <1>2, SubSeqProperties
<1>5. /\ b \in Seq(M) /\ Len(b) = (IF 1 <= Len(s) THEN Len(s) - 1 + 1 ELSE 0)
      /\ \A i \in 1..(Len(s) - 1 + 1) : b[i] = u[1 + i - 1]
  BY <1>1, <1>2, SubSeqProperties
<1>6. Len(a) = Len(s) /\ Len(b) = Len(s)
  BY <1>1, <1>4, <1>5
<1>7. ASSUME NEW i \in 1..Len(a) PROVE a[i] = b[i]
  <2>1. i \in 1..(Len(s) - 1 + 1) /\ 1 + i - 1 = i /\ i \in 1..Len(s)
    BY <1>1, <1>6
  <2> QED BY <1>2, <1>4, <1>5, <2>1
<1>8. a = b
  <2> HIDE DEF a, b
  <2> QED BY <1>4, <1>5, <1>6, <1>7, SeqEqual
<1> QED BY <1>3, <1>8 DEF IsPrefix, u

(* A sequence as long as its set is large has no duplicates. *)
LEMMA LengthDistinct ==
  ASSUME NEW M, NEW s \in Seq(M), Cardinality(ToSet(s)) = Len(s)
  PROVE  Distinct(s)
<1>1. Len(s) \in Nat /\ DOMAIN s = 1..Len(s) /\ s \in [1..Len(s) -> M]
  BY LenProperties
<1>2. s \in Surjection(1..Len(s), ToSet(s))
  BY <1>1 DEF Surjection, ToSet
<1>3. IsFiniteSet(1..Len(s)) /\ Cardinality(1..Len(s)) = Len(s)
  <2> DEFINE n == Len(s)
  <2>1. n \in Int /\ 1 \in Int /\ n \in Nat
    BY <1>1
  <2> HIDE DEF n
  <2>2. IsFiniteSet(1..n) /\ Cardinality(1..n) = IF 1 > n THEN 0 ELSE n - 1 + 1
    BY <2>1, FS_Interval
  <2> QED BY <2>1, <2>2 DEF n
<1>4. s \in Injection(1..Len(s), ToSet(s))
  BY <1>2, <1>3, FS_SurjSameCardinalityImpliesInj
<1> QED BY <1>1, <1>4 DEF Injection, IsInjective, Distinct

LEMMA BoundedSeqFacts ==
  ASSUME NEW S, NEW k \in Nat, NEW s \in SeqOf(S, k)
  PROVE  s \in Seq(S) /\ Len(s) \in Nat /\ Len(s) <= k
<1>1. PICK m \in 0..k : s \in [1..m -> S]
  BY DEF SeqOf
<1>2. s \in Seq(S) /\ Len(s) = m
  BY <1>1
<1> QED BY <1>2

LEMMA PrefixBefore ==
  ASSUME NEW M, NEW s \in Seq(M), NEW t \in Seq(M), IsPrefix(s, t), NEW m, NEW n, Before(s, m, n)
  PROVE  Before(t, m, n)
<1>1. Len(s) <= Len(t) /\ \A i \in 1..Len(s) : s[i] = t[i]
  BY PrefixElements
<1>2. /\ Len(s) \in Nat /\ DOMAIN s = 1..Len(s)
      /\ Len(t) \in Nat /\ DOMAIN t = 1..Len(t)
  BY LenProperties
<1> QED BY <1>1, <1>2 DEF Before

(* Of two elements of a sequence, one is before the other. *)
LEMMA TotalOrder ==
  ASSUME NEW M, NEW s \in Seq(M), NEW m \in ToSet(s), NEW n \in ToSet(s), m # n
  PROVE  Before(s, m, n) \/ Before(s, n, m)
<1>1. PICK i \in DOMAIN s : s[i] = m
  BY DEF ToSet
<1>2. PICK j \in DOMAIN s : s[j] = n
  BY DEF ToSet
<1>3. i \in Int /\ j \in Int /\ i # j
  BY <1>1, <1>2, LenProperties
<1>4. i < j \/ j < i
  BY <1>3
<1> QED BY <1>1, <1>2, <1>4 DEF Before

LEMMA LastIsLast ==
  ASSUME NEW M, NEW s \in Seq(M), s # <<>>
  PROVE  /\ Last(s) \in ToSet(s)
         /\ \A m \in ToSet(s) : m = Last(s) \/ Before(s, m, Last(s))
<1>1. Len(s) \in Nat /\ Len(s) # 0 /\ DOMAIN s = 1..Len(s) /\ Last(s) = s[Len(s)]
  BY LenProperties, EmptySeq DEF Last
<1>2. Last(s) \in ToSet(s)
  BY <1>1 DEF ToSet
<1>3. ASSUME NEW m \in ToSet(s) PROVE m = Last(s) \/ Before(s, m, Last(s))
  <2>1. PICK i \in DOMAIN s : s[i] = m
    BY DEF ToSet
  <2>2. i = Len(s) \/ i < Len(s)
    BY <1>1, <2>1
  <2> QED BY <1>1, <2>1, <2>2 DEF Before
<1> QED BY <1>2, <1>3

(* A sequence cut after k elements. *)
LEMMA CutSeq ==
  ASSUME NEW M, NEW s \in Seq(M), NEW k \in 0..Len(s)
  PROVE  LET a == SubSeq(s, 1, k)
             r == SubSeq(s, k + 1, Len(s))
         IN  /\ a \in Seq(M) /\ r \in Seq(M) /\ s = a \o r
             /\ Len(a) = k /\ Len(r) = Len(s) - k
             /\ \A x : x \in ToSet(a) <=> \E i \in 1..k : x = s[i]
<1> DEFINE a == SubSeq(s, 1, k)
           r == SubSeq(s, k + 1, Len(s))
<1>1. Len(s) \in Nat /\ k \in Nat /\ k <= Len(s) /\ \A i \in 1..Len(s) : s[i] \in M
  BY LenProperties, ElementOfSeq
<1>2. /\ a \in Seq(M) /\ Len(a) = (IF 1 <= k THEN k - 1 + 1 ELSE 0)
      /\ \A i \in 1..(k - 1 + 1) : a[i] = s[1 + i - 1]
  <2>1. 1 \in Int /\ k \in Int /\ \A i \in 1..k : s[i] \in M
    BY <1>1
  <2> QED BY <2>1, SubSeqProperties
<1>3. /\ r \in Seq(M)
      /\ Len(r) = (IF k + 1 <= Len(s) THEN Len(s) - (k + 1) + 1 ELSE 0)
  <2>1. k + 1 \in Int /\ Len(s) \in Int /\ \A i \in (k + 1)..Len(s) : s[i] \in M
    BY <1>1
  <2> QED BY <2>1, SubSeqProperties
<1>4. s = a \o r
  <2>1. 1 \in 1..(Len(s) + 1) /\ k \in (1 - 1)..Len(s) /\ Len(s) \in k..Len(s)
    BY <1>1
  <2>2. SubSeq(s, 1, k) \o SubSeq(s, k + 1, Len(s)) = SubSeq(s, 1, Len(s))
    BY <2>1, ConcatAdjacentSubSeq
  <2>3. SubSeq(s, 1, Len(s)) = s
    BY SubSeqFull
  <2> QED BY <2>2, <2>3
<1> HIDE DEF a, r
<1>5. Len(a) = k /\ Len(r) = Len(s) - k
  BY <1>1, <1>2, <1>3
<1>6. \A x : x \in ToSet(a) <=> \E i \in 1..k : x = s[i]
  <2>1. DOMAIN a = 1..k
    BY <1>2, <1>5, LenProperties
  <2>2. \A i \in 1..k : i \in 1..(k - 1 + 1) /\ 1 + i - 1 = i
    BY <1>1
  <2>3. \A i \in 1..k : a[i] = s[i]
    BY <1>2, <2>2
  <2> QED BY <2>1, <2>3 DEF ToSet
<1> QED BY <1>2, <1>3, <1>4, <1>5, <1>6 DEF a, r

LEMMA PrefixCount ==
  ASSUME NEW M, NEW s \in Seq(M), Distinct(s), NEW k \in 0..Len(s)
  PROVE  Cardinality({s[i] : i \in 1..k}) = k
<1> DEFINE a == SubSeq(s, 1, k)
           r == SubSeq(s, k + 1, Len(s))
<1>1. /\ a \in Seq(M) /\ r \in Seq(M) /\ s = a \o r /\ Len(a) = k
      /\ \A x : x \in ToSet(a) <=> \E i \in 1..k : x = s[i]
  BY CutSeq
<1> HIDE DEF a, r
<1>2. Distinct(a)
  BY <1>1, ConcatOrder
<1>3. ToSet(a) = {s[i] : i \in 1..k}
  BY <1>1
<1> QED BY <1>1, <1>2, <1>3, DistinctLength
=============================================================================
