---------------------------- MODULE InductionLemmas ----------------------------
(***************************************************************************)
(* Induction on the natural numbers for sets and functions, which the      *)
(* proofs about recursive functions and sequences rest on: that such a     *)
(* function exists, and what its values are; and, from these, what the     *)
(* flattening of a sequence of sequences is.                               *)
(***************************************************************************)
EXTENDS SequencesExt, FiniteSetTheorems, SequenceTheorems, TLAPS

NatLess == {ss \in Nat \X Nat : ss[1] < ss[2]}

(* Every non-empty set of naturals has a least element.                    *)
LEMMA LeastNatural ==
    ASSUME NEW T \in SUBSET Nat, T # {}
    PROVE  \E m \in T : \A n \in T : m <= n
<1>1. IsWellFoundedOn(NatLess, Nat)
  BY NatLessThanWellFounded DEF OpToRel, NatLess
<1>2. PICK m \in T : \A n \in T : <<n, m>> \notin NatLess
  BY <1>1, WFMin
<1>3. \A a, b \in Nat : a < b => <<a, b>> \in NatLess
  BY DEF NatLess
<1>4. \A n \in T : ~(n < m)
  BY <1>2, <1>3
<1>5. \A n \in T : m <= n
  BY <1>4
<1> QED
  BY <1>5

(* A set of naturals that holds 0 and with each number the next is all.    *)
LEMMA SetInduction ==
    ASSUME NEW X \in SUBSET Nat, 0 \in X, \A n \in X : n + 1 \in X
    PROVE  X = Nat
<1> SUFFICES ASSUME Nat \ X # {} PROVE FALSE
  OBVIOUS
<1>1. PICK m \in Nat \ X : \A n \in Nat \ X : m <= n
  BY LeastNatural
<1>2. m - 1 \in Nat /\ ~(m <= m - 1)
  BY <1>1
<1>3. m - 1 \in X
  BY <1>1, <1>2
<1> QED
  BY <1>1, <1>3

(* A function on 0 .. N that steps from A to A stays in A.                 *)
LEMMA RecursionType ==
    ASSUME NEW N \in Nat, NEW A, NEW f, f[0] \in A,
           \A n \in 1 .. N : f[n - 1] \in A => f[n] \in A
    PROVE  \A n \in 0 .. N : f[n] \in A
<1> DEFINE X == {n \in Nat : n <= N => f[n] \in A}
<1>0. X \in SUBSET Nat
  OBVIOUS
<1>1. 0 \in X
  OBVIOUS
<1>2. ASSUME NEW n \in X PROVE n + 1 \in X
  <2>1. CASE n + 1 <= N
    <3>1. n + 1 \in 1 .. N /\ (n + 1) - 1 = n /\ f[n] \in A
      BY <1>2, <2>1
    <3> QED BY <3>1
  <2>2. CASE ~(n + 1 <= N)
    BY <2>2
  <2> QED BY <2>1, <2>2
<1>3. X = Nat
  <2> HIDE DEF X
  <2> QED BY <1>0, <1>1, <1>2, SetInduction
<1> QED
  BY <1>3

(* Two functions on 0 .. N that begin alike and step alike are equal there.*)
Alike(N, f, g) ==
    /\ f[0] = g[0]
    /\ \A n \in 1 .. N : f[n - 1] = g[n - 1] => f[n] = g[n]

LEMMA RecursionUnique ==
    ASSUME NEW N \in Nat, NEW f, NEW g, Alike(N, f, g)
    PROVE  \A n \in 0 .. N : f[n] = g[n]
<1> USE DEF Alike
<1> DEFINE X == {n \in Nat : n <= N => f[n] = g[n]}
<1>0. X \in SUBSET Nat
  OBVIOUS
<1>1. 0 \in X
  OBVIOUS
<1>2. ASSUME NEW n \in X PROVE n + 1 \in X
  <2>1. CASE n + 1 <= N
    <3>1. n + 1 \in 1 .. N /\ (n + 1) - 1 = n /\ f[n] = g[n]
      BY <1>2, <2>1
    <3> QED BY <3>1
  <2>2. CASE ~(n + 1 <= N)
    BY <2>2
  <2> QED BY <2>1, <2>2
<1>3. X = Nat
  <2> HIDE DEF X
  <2> QED BY <1>0, <1>1, <1>2, SetInduction
<1> QED
  BY <1>3

LEMMA AlikeAtTheEnd ==
    ASSUME NEW N \in Nat, NEW f, NEW g, Alike(N, f, g)
    PROVE  f[N] = g[N]
<1>1. N \in 0 .. N
  OBVIOUS
<1> QED
  BY <1>1, RecursionUnique

(* A function is defined by its first value and a step.                    *)
Recurs(N, f, a, F) ==
    /\ f[0] = a
    /\ \A n \in 1 .. N : f[n] = F[<<n, f[n - 1]>>]

LEMMA RecursionExists ==
    ASSUME NEW N \in Nat, NEW A, NEW a \in A, NEW F \in [(1 .. N) \X A -> A]
    PROVE  \E f \in [0 .. N -> A] : Recurs(N, f, a, F)
<1> DEFINE Upto(n, f) == f[0] = a /\ \A i \in 1 .. n : f[i] = F[<<i, f[i - 1]>>]
           X == {n \in Nat : n <= N => \E f \in [0 .. n -> A] : Upto(n, f)}
<1>0. X \in SUBSET Nat
  OBVIOUS
<1>1. 0 \in X
  <2>1. [i \in 0 .. 0 |-> a] \in [0 .. 0 -> A] /\ Upto(0, [i \in 0 .. 0 |-> a])
    OBVIOUS
  <2> HIDE DEF Upto
  <2> QED BY <2>1
<1>2. ASSUME NEW n \in X PROVE n + 1 \in X
  <2>1. CASE n + 1 <= N
    <3>1. PICK f \in [0 .. n -> A] : Upto(n, f)
      BY <1>2, <2>1
    <3> DEFINE g == [i \in 0 .. n + 1 |-> IF i = n + 1 THEN F[<<n + 1, f[n]>>] ELSE f[i]]
    <3>2. n \in Nat /\ n + 1 \in 1 .. N /\ n \in 0 .. n
      BY <2>1
    <3>3. <<n + 1, f[n]>> \in (1 .. N) \X A
      BY <3>2
    <3>4. F[<<n + 1, f[n]>>] \in A
      BY <3>3
    <3>5. g \in [0 .. n + 1 -> A]
      BY <3>2, <3>4
    <3>6. \A i \in 0 .. n : g[i] = f[i]
      BY <3>2
    <3>7. g[n + 1] = F[<<n + 1, f[n]>>]
      BY <3>2
    <3>8. Upto(n + 1, g)
      <4> HIDE DEF g
      <4>1. g[0] = a
        BY <3>1, <3>2, <3>6
      <4>2. ASSUME NEW i \in 1 .. n + 1 PROVE g[i] = F[<<i, g[i - 1]>>]
        <5>1. CASE i = n + 1
          BY <5>1, <3>2, <3>6, <3>7
        <5>2. CASE i \in 1 .. n
          <6>1. i \in 0 .. n /\ i - 1 \in 0 .. n
            BY <5>2, <3>2
          <6> QED BY <5>2, <6>1, <3>1, <3>6
        <5> QED BY <5>1, <5>2, <3>2
      <4> QED BY <4>1, <4>2
    <3> HIDE DEF g, Upto
    <3> QED BY <3>2, <3>5, <3>8
  <2>2. CASE ~(n + 1 <= N)
    BY <2>2
  <2> QED BY <2>1, <2>2
<1>3. X = Nat
  <2> HIDE DEF X
  <2> QED BY <1>0, <1>1, <1>2, SetInduction
<1>4. N \in X
  BY <1>3
<1>5. \E f \in [0 .. N -> A] : Upto(N, f)
  <2>1. N <= N
    OBVIOUS
  <2> HIDE DEF Upto
  <2> QED BY <1>4, <2>1
<1> QED
  BY <1>5 DEF Recurs

-----------------------------------------------------------------------------
(* Sequences of sequences.                                                 *)

(* g[i] is the flattening of the first i of the sequences.                 *)
Joins(g, seqs) ==
    /\ g[0] = << >>
    /\ \A i \in 1 .. Len(seqs) : g[i] = g[i - 1] \o seqs[i]

LEMMA JoinsExists ==
    ASSUME NEW A, NEW seqs \in Seq(Seq(A))
    PROVE  \E g \in [0 .. Len(seqs) -> Seq(A)] : Joins(g, seqs)
<1> DEFINE N == Len(seqs)
           F == [x \in (1 .. N) \X Seq(A) |-> x[2] \o seqs[x[1]]]
<1>1. N \in Nat /\ \A i \in 1 .. N : seqs[i] \in Seq(A)
  BY LenProperties, ElementOfSeq
<1>2. F \in [(1 .. N) \X Seq(A) -> Seq(A)]
  <2>1. ASSUME NEW x \in (1 .. N) \X Seq(A) PROVE x[2] \o seqs[x[1]] \in Seq(A)
    BY <1>1, ConcatProperties
  <2> QED BY <2>1
<1>3. \A i \in 1 .. N, s \in Seq(A) : F[<<i, s>>] = s \o seqs[i]
  OBVIOUS
<1>4. << >> \in Seq(A)
  BY EmptySeq
<1> HIDE DEF F, N
<1>5. \E f \in [0 .. N -> Seq(A)] : Recurs(N, f, << >>, F)
  <2>1. PICK S, e : S = Seq(A) /\ e = << >>
    OBVIOUS
  <2>2. F \in [(1 .. N) \X S -> S] /\ e \in S /\ N \in Nat
    BY <1>1, <1>2, <1>4, <2>1
  <2>3. \E f \in [0 .. N -> S] : Recurs(N, f, e, F)
    BY <2>2, RecursionExists
  <2> QED BY <2>1, <2>3
<1>6. PICK f \in [0 .. N -> Seq(A)] :
          f[0] = << >> /\ \A n \in 1 .. N : f[n] = F[<<n, f[n - 1]>>]
  BY <1>5 DEF Recurs
<1>7. \A n \in 1 .. N : n - 1 \in 0 .. N
  BY <1>1
<1>8. \A n \in 1 .. N : f[n] = f[n - 1] \o seqs[n]
  BY <1>3, <1>6, <1>7
<1>9. Joins(f, seqs)
  BY <1>6, <1>8 DEF Joins, N
<1> QED
  BY <1>6, <1>9 DEF N

LEMMA JoinsUnique ==
    ASSUME NEW seqs, Len(seqs) \in Nat, NEW f, NEW g, Joins(f, seqs), Joins(g, seqs)
    PROVE  \A i \in 0 .. Len(seqs) : f[i] = g[i]
<1>1. Alike(Len(seqs), f, g)
  BY DEF Joins, Alike
<1> QED
  BY <1>1, RecursionUnique

LEMMA FlattenIs ==
    ASSUME NEW A, NEW seqs \in Seq(Seq(A)), NEW g \in [0 .. Len(seqs) -> Seq(A)],
           Joins(g, seqs)
    PROVE  FlattenSeq(seqs) = g[Len(seqs)] /\ FlattenSeq(seqs) \in Seq(A)
<1> DEFINE N == Len(seqs)
<1>1. N \in Nat /\ \A i \in 1 .. N : seqs[i] \in Seq(A)
  BY LenProperties, ElementOfSeq
<1>0. /\ g[0] = << >>
      /\ \A i \in 1 .. N : g[i] = g[i - 1] \o seqs[i]
      /\ \A i \in 0 .. N : g[i] \in Seq(A)
  BY DEF Joins
<1>2. CASE N = 0
  <2>1. seqs = << >>
    BY <1>2, EmptySeq, SeqDef
  <2> QED BY <1>2, <2>1, EmptySeq DEF FlattenSeq, Joins
<1>3. CASE N > 0
  <2> DEFINE Def(f) == f = [i \in 1 .. N |-> IF i = 1 THEN seqs[i] ELSE f[i - 1] \o seqs[i]]
             h == [i \in 1 .. N |-> g[i]]
             f == CHOOSE x : Def(x)
  <2>0. 1 \in 1 .. N /\ 1 - 1 = 0 /\ \A i \in 1 .. N : i # 1 => i - 1 \in 1 .. N
    BY <1>1, <1>3
  <2>1. Def(h)
    <3>1. h[1] = seqs[1]
      <4>1. g[1] = << >> \o seqs[1]
        <5>1. g[1] = g[1 - 1] \o seqs[1]
          BY <1>0, <2>0
        <5> QED BY <1>0, <2>0, <5>1
      <4>2. << >> \o seqs[1] = seqs[1]
        BY <1>1, <1>3, ConcatEmptySeq
      <4> QED BY <1>1, <1>3, <4>1, <4>2
    <3>2. \A i \in 1 .. N : i # 1 => h[i] = h[i - 1] \o seqs[i]
      <4> SUFFICES ASSUME NEW i \in 1 .. N, i # 1 PROVE h[i] = h[i - 1] \o seqs[i]
        OBVIOUS
      <4>1. g[i] = g[i - 1] \o seqs[i]
        BY <1>0
      <4>2. h[i] = g[i] /\ h[i - 1] = g[i - 1]
        BY <2>0
      <4> QED BY <4>1, <4>2
    <3>3. \A i \in 1 .. N : h[i] = IF i = 1 THEN seqs[i] ELSE h[i - 1] \o seqs[i]
      BY <3>1, <3>2
    <3> QED BY <3>3
  <2>2. Def(f)
    BY <2>1
  <2>3. FlattenSeq(seqs) = f[N]
    BY <1>3 DEF FlattenSeq
  <2>4. f[N] = h[N]
    <3> DEFINE f0 == [i \in 0 .. N |-> IF i = 0 THEN << >> ELSE f[i]]
    <3>1. Joins(f0, seqs)
      <4>1. f0[0] = << >>
        BY <1>1
      <4>2. f0[1] = f0[0] \o seqs[1]
        <5>1. f[1] = seqs[1]
          BY <2>0, <2>2
        <5>2. << >> \o seqs[1] = seqs[1]
          BY <1>1, <1>3, ConcatEmptySeq
        <5>3. f0[1] = f[1]
          BY <1>1, <1>3
        <5> QED BY <4>1, <5>1, <5>2, <5>3
      <4>3. ASSUME NEW i \in 1 .. N, i # 1 PROVE f0[i] = f0[i - 1] \o seqs[i]
        <5>1. f[i] = f[i - 1] \o seqs[i]
          BY <2>2, <4>3
        <5>2. f0[i] = f[i] /\ f0[i - 1] = f[i - 1]
          BY <1>1, <4>3
        <5> QED BY <5>1, <5>2
      <4>4. \A i \in 1 .. N : f0[i] = f0[i - 1] \o seqs[i]
        <5> HIDE DEF f0
        <5>1. f0[1] = f0[1 - 1] \o seqs[1]
          BY <2>0, <4>2
        <5> QED BY <4>3, <5>1
      <4> HIDE DEF f0
      <4> QED BY <4>1, <4>4 DEF Joins
    <3>2. f0[N] = g[N]
      <4> HIDE DEF f0
      <4>1. \A i \in 0 .. N : f0[i] = g[i]
        BY <1>1, <3>1, JoinsUnique
      <4> QED BY <1>1, <4>1
    <3>0. N \in 0 .. N /\ N # 0
      BY <1>1, <1>3
    <3>3. f0[N] = f[N]
      BY <3>0
    <3> HIDE DEF f0, h, f
    <3> QED BY <3>2, <3>3
  <2>5. h[N] = g[N] /\ g[N] \in Seq(A)
    <3>1. N \in 1 .. N /\ N \in 0 .. N
      BY <1>1, <1>3
    <3> QED BY <1>0, <3>1
  <2> QED BY <2>3, <2>4, <2>5
<1> QED
  BY <1>1, <1>2, <1>3

LEMMA FlattenEmpty == FlattenSeq(<< >>) = << >>
BY EmptySeq DEF FlattenSeq

LEMMA FlattenType ==
    ASSUME NEW A, NEW seqs \in Seq(Seq(A))
    PROVE  FlattenSeq(seqs) \in Seq(A)
BY JoinsExists, FlattenIs

(* The flattening of two sequences one after the other.                    *)
LEMMA FlattenConcat ==
    ASSUME NEW A, NEW s \in Seq(Seq(A)), NEW t \in Seq(Seq(A))
    PROVE  FlattenSeq(s \o t) = FlattenSeq(s) \o FlattenSeq(t)
<1> DEFINE u == s \o t
           m == Len(s)
           n == Len(t)
<1>1. /\ m \in Nat /\ n \in Nat /\ u \in Seq(Seq(A)) /\ Len(u) = m + n
      /\ \A i \in 1 .. m : u[i] = s[i]
      /\ \A i \in 1 .. n : u[m + i] = t[i]
      /\ \A i \in 1 .. n : t[i] \in Seq(A)
  <2>1. u \in Seq(Seq(A)) /\ Len(u) = m + n
    BY ConcatProperties
  <2>2. m \in Nat /\ n \in Nat /\ \A i \in 1 .. n : t[i] \in Seq(A)
    BY LenProperties, ElementOfSeq
  <2>3. \A i \in 1 .. Len(s) + Len(t) :
            u[i] = IF i <= Len(s) THEN s[i] ELSE t[i - Len(s)]
    BY ConcatProperties
  <2>4. ASSUME NEW i \in 1 .. n PROVE u[m + i] = t[i]
    <3>1. m + i \in 1 .. m + n /\ ~(m + i <= m) /\ (m + i) - m = i
      BY <2>2
    <3> QED BY <2>3, <3>1
  <2>5. \A i \in 1 .. m : u[i] = s[i]
    BY <2>2, <2>3
  <2> QED BY <2>1, <2>2, <2>4, <2>5
<1>2. PICK f : f \in [0 .. m -> Seq(A)] /\ Joins(f, s)
  BY JoinsExists
<1>3. PICK g : g \in [0 .. n -> Seq(A)] /\ Joins(g, t)
  BY JoinsExists
<1>4. PICK h : h \in [0 .. m + n -> Seq(A)] /\ Joins(h, u)
  <2> HIDE DEF u
  <2> QED BY <1>1, JoinsExists
<1>5. /\ FlattenSeq(s) = f[m] /\ FlattenSeq(t) = g[n] /\ f[m] \in Seq(A)
  BY <1>2, <1>3, FlattenIs
<1>6. FlattenSeq(u) = h[m + n]
  <2> HIDE DEF u, m, n
  <2>1. h \in [0 .. Len(u) -> Seq(A)]
    BY <1>1, <1>4
  <2> QED BY <1>1, <1>4, <2>1, FlattenIs
<1> HIDE DEF u
<1>9. /\ h[0] = << >> /\ \A i \in 1 .. m + n : h[i] = h[i - 1] \o u[i]
      /\ f[0] = << >> /\ \A i \in 1 .. m : f[i] = f[i - 1] \o s[i]
      /\ g[0] = << >> /\ \A i \in 1 .. n : g[i] = g[i - 1] \o t[i]
  BY <1>1, <1>2, <1>3, <1>4 DEF Joins
<1> HIDE DEF m, n
<1>7. h[m] = f[m]
  <2>1. h[0] = f[0] /\ \A i \in 1 .. m : h[i - 1] = f[i - 1] => h[i] = f[i]
    <3>1. \A i \in 1 .. m : i \in 1 .. m + n
      BY <1>1
    <3> QED BY <1>1, <1>9, <3>1
  <2>2. Alike(m, h, f) /\ m \in Nat
    BY <1>1, <2>1 DEF Alike
  <2> QED BY <2>2, AlikeAtTheEnd
<1>8. h[m + n] = f[m] \o g[n]
  <2> DEFINE h0 == [j \in 0 .. n |-> h[m + j]]
             g0 == [j \in 0 .. n |-> f[m] \o g[j]]
  <2>1. h0[0] = g0[0]
    <3>1. h0[0] = h[m] /\ g0[0] = f[m] \o << >>
      <4>1. 0 \in 0 .. n /\ m + 0 = m
        BY <1>1
      <4> QED BY <1>9, <4>1
    <3>2. f[m] \o << >> = f[m]
      BY <1>5, ConcatEmptySeq
    <3> QED BY <1>7, <3>1, <3>2
  <2>2. ASSUME NEW j \in 1 .. n, h0[j - 1] = g0[j - 1] PROVE h0[j] = g0[j]
    <3>1. /\ j - 1 \in 0 .. n /\ j \in 0 .. n /\ m + j \in 1 .. m + n
          /\ (m + j) - 1 = m + (j - 1)
      BY <1>1
    <3>2. h[m + j] = h[m + (j - 1)] \o t[j]
      <4>1. h[m + j] = h[(m + j) - 1] \o u[m + j]
        BY <1>9, <3>1
      <4> QED BY <1>1, <3>1, <4>1
    <3>3. h[m + (j - 1)] = f[m] \o g[j - 1]
      BY <2>2, <3>1
    <3>4. g[j] = g[j - 1] \o t[j] /\ g[j - 1] \in Seq(A) /\ t[j] \in Seq(A)
      BY <1>1, <1>3, <1>9, <3>1
    <3>5. (f[m] \o g[j - 1]) \o t[j] = f[m] \o (g[j - 1] \o t[j])
      <4>1. PICK a, b, c : a = f[m] /\ b = g[j - 1] /\ c = t[j]
        OBVIOUS
      <4>2. a \in Seq(A) /\ b \in Seq(A) /\ c \in Seq(A)
        BY <1>5, <3>4, <4>1
      <4>3. (a \o b) \o c = a \o (b \o c)
        BY <4>2, SMTT(20)
      <4> QED BY <4>1, <4>3
    <3> QED BY <3>1, <3>2, <3>3, <3>4, <3>5
  <2>3. h0[n] = h[m + n] /\ g0[n] = f[m] \o g[n]
    <3>1. n \in 0 .. n
      BY <1>1
    <3> QED BY <3>1, Zenon
  <2>4. h0[n] = g0[n]
    <3> HIDE DEF h0, g0
    <3>1. Alike(n, h0, g0) /\ n \in Nat
      BY <1>1, <2>1, <2>2 DEF Alike
    <3> QED BY <3>1, AlikeAtTheEnd
  <2> HIDE DEF h0, g0
  <2> QED BY <2>3, <2>4
<1> QED
  BY <1>5, <1>6, <1>8 DEF u

LEMMA FlattenOne ==
    ASSUME NEW A, NEW x \in Seq(A)
    PROVE  FlattenSeq(<< x >>) = x
<1> DEFINE s == << x >>
           g == [i \in 0 .. 1 |-> IF i = 0 THEN << >> ELSE x]
<1>1. s \in Seq(Seq(A)) /\ Len(s) = 1 /\ s[1] = x
  OBVIOUS
<1>2. Joins(g, s) /\ g \in [0 .. 1 -> Seq(A)] /\ g[1] = x
  BY <1>1, EmptySeq, ConcatEmptySeq DEF Joins
<1>3. FlattenSeq(s) = g[1]
  <2> HIDE DEF s, g
  <2> QED BY <1>1, <1>2, FlattenIs
<1> QED
  BY <1>2, <1>3
=============================================================================
