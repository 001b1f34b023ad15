----------------------------- MODULE MarkupProofs -----------------------------
(***************************************************************************)
(* Proofs about MarkupSplitter and ToolCallText, for any text.             *)
(*                                                                         *)
(* The buffers are stretches of the answer, so that a state of the splitter *)
(* is given by the places o, e, k where its body begins, its buffer begins *)
(* and its buffer ends.  A step of the splitter (StepIs) takes a tag, gives *)
(* up, holds back or passes text on; what it says of the answer, it says   *)
(* with the rest still ahead of it as segment_text says the whole (Says).  *)
(* The tool parser is followed through the text it is fed, of which it has *)
(* said a part and holds back the rest (Tells).                            *)
(***************************************************************************)
EXTENDS ToolCallText, InductionLemmas

-----------------------------------------------------------------------------
(* One sequence after another, by its elements.                            *)
LEMMA ConcatIs ==
    ASSUME NEW S, NEW s \in Seq(S), NEW t \in Seq(S), NEW m, NEW n,
           m = Len(s), n = Len(t)
    PROVE  /\ s \o t \in Seq(S) /\ m \in Nat /\ n \in Nat
           /\ Len(s \o t) = m + n
           /\ \A i \in 1 .. m : (s \o t)[i] = s[i]
           /\ \A i \in 1 .. n : (s \o t)[m + i] = t[i]
<1>1. m \in Nat /\ n \in Nat
  BY LenProperties
<1>2. PICK c : c = s \o t
  OBVIOUS
<1>3. /\ c \in Seq(S) /\ Len(c) = Len(s) + Len(t)
      /\ \A i \in 1 .. Len(s) + Len(t) :
            c[i] = IF i <= Len(s) THEN s[i] ELSE t[i - Len(s)]
  BY <1>2, ConcatProperties
<1>4. \A i \in 1 .. m + n : c[i] = IF i <= m THEN s[i] ELSE t[i - m]
  BY <1>3
<1>5. ASSUME NEW i \in 1 .. m PROVE c[i] = s[i]
  <2>1. i \in 1 .. m + n /\ i <= m
    BY <1>1
  <2> QED BY <1>4, <2>1
<1>6. ASSUME NEW i \in 1 .. n PROVE c[m + i] = t[i]
  <2>1. m + i \in 1 .. m + n /\ ~(m + i <= m) /\ (m + i) - m = i
    BY <1>1
  <2> QED BY <1>4, <2>1
<1> QED
  BY <1>1, <1>2, <1>3, <1>5, <1>6

-----------------------------------------------------------------------------
(* Stretches of the answer.                                                *)

(* The positions after a, up to k.                                         *)
Span(a, k) == [i \in 1 .. k - a |-> a + i]

LEMMA SpanIs ==
    ASSUME NEW a \in Nat, NEW k \in Nat, a <= k
    PROVE  /\ Span(a, k) \in Seq(Nat)
           /\ Len(Span(a, k)) = k - a
           /\ DOMAIN Span(a, k) = 1 .. k - a
           /\ \A i \in 1 .. k - a : Span(a, k)[i] = a + i
<1>1. PICK n \in Nat : n = k - a
  OBVIOUS
<1>2. Span(a, k) \in [1 .. n -> Nat]
  BY <1>1 DEF Span
<1>3. Span(a, k) \in Seq(Nat)
  BY <1>2, SeqDef
<1>4. DOMAIN Span(a, k) = 1 .. n
  BY <1>2
<1>5. Len(Span(a, k)) = n
  BY <1>3, <1>4, LenProperties
<1> QED
  BY <1>1, <1>3, <1>4, <1>5 DEF Span

LEMMA SpanEmpty ==
    ASSUME NEW a \in Nat
    PROVE  Span(a, a) = << >>
BY SpanIs, EmptySeq, LenProperties

LEMMA SpanNotEmpty ==
    ASSUME NEW a \in Nat, NEW k \in Nat, a < k
    PROVE  Span(a, k) # << >>
BY SpanIs, EmptySeq

LEMMA SpanConcat ==
    ASSUME NEW a \in Nat, NEW k \in Nat, NEW m \in Nat, a <= k, k <= m
    PROVE  Span(a, k) \o Span(k, m) = Span(a, m)
<1>1. PICK s, t, u : s = Span(a, k) /\ t = Span(k, m) /\ u = Span(a, m)
  OBVIOUS
<1>2. PICK p \in Nat, q \in Nat : p = k - a /\ q = m - k
  OBVIOUS
<1>3. s \in Seq(Nat) /\ Len(s) = p /\ \A i \in 1 .. p : s[i] = a + i
  BY <1>1, <1>2, SpanIs
<1>4. t \in Seq(Nat) /\ Len(t) = q /\ \A i \in 1 .. q : t[i] = k + i
  BY <1>1, <1>2, SpanIs
<1>5. a <= m /\ m - a = p + q
  BY <1>2
<1>6. u \in Seq(Nat) /\ Len(u) = p + q /\ \A i \in 1 .. p + q : u[i] = a + i
  <2>1. u \in Seq(Nat) /\ Len(u) = m - a /\ \A i \in 1 .. m - a : u[i] = a + i
    BY <1>1, <1>5, SpanIs
  <2> QED BY <1>5, <2>1
<1>7. PICK c : c = s \o t
  OBVIOUS
<1>8. /\ c \in Seq(Nat) /\ Len(c) = p + q
      /\ \A i \in 1 .. p : c[i] = s[i]
      /\ \A i \in 1 .. q : c[p + i] = t[i]
  <2>1. s \in Seq(Nat) /\ t \in Seq(Nat) /\ p = Len(s) /\ q = Len(t)
    BY <1>3, <1>4
  <2> QED BY <1>7, <2>1, ConcatIs
<1>9. ASSUME NEW i \in 1 .. p + q PROVE c[i] = u[i]
  <2>1. CASE i <= p
    <3>1. i \in 1 .. p
      BY <2>1
    <3> QED BY <1>3, <1>6, <1>8, <3>1
  <2>2. CASE ~(i <= p)
    <3>1. PICK x \in 1 .. q : i = p + x
      <4>1. i - p \in 1 .. q /\ i = p + (i - p)
        BY <1>2, <2>2
      <4> QED BY <4>1
    <3>2. k + x = a + i
      BY <1>2, <3>1
    <3>3. c[p + x] = t[x] /\ t[x] = k + x /\ u[i] = a + i
      BY <1>4, <1>6, <1>8
    <3> QED BY <3>1, <3>2, <3>3
  <2> QED BY <2>1, <2>2
<1>10. c = u
  BY <1>6, <1>8, <1>9, SeqEqual
<1> QED
  BY <1>1, <1>7, <1>10

LEMMA SpanPart ==
    ASSUME NEW a \in Nat, NEW k \in Nat, NEW i \in Nat, NEW j \in Nat,
           NEW b \in Nat, NEW e \in Nat,
           a <= k, 1 <= i, i <= j + 1, j <= k - a, b = (a + i) - 1, e = a + j
    PROVE  Part(Span(a, k), i, j) = Span(b, e)
<1>1. PICK s : s = Span(a, k)
  OBVIOUS
<1>2. s \in Seq(Nat) /\ Len(s) = k - a /\ \A x \in 1 .. k - a : s[x] = a + x
  BY <1>1, SpanIs
<1>3. PICK c : c = Part(s, i, j)
  OBVIOUS
<1>4. b <= e /\ e - b = (j - i) + 1
  OBVIOUS
<1>5. \A x \in i .. j : s[x] \in Nat
  BY <1>2
<1>6. /\ c \in Seq(Nat) /\ Len(c) = (IF i <= j THEN j - i + 1 ELSE 0)
      /\ \A x \in 1 .. j - i + 1 : c[x] = s[i + x - 1]
  <2>1. c = SubSeq(s, i, j)
    BY <1>3 DEF Part
  <2> QED BY <1>5, <2>1, SubSeqProperties
<1>7. Len(c) = e - b
  BY <1>4, <1>6
<1>8. PICK u : u = Span(b, e)
  OBVIOUS
<1>9. u \in Seq(Nat) /\ Len(u) = e - b /\ \A x \in 1 .. e - b : u[x] = b + x
  BY <1>4, <1>8, SpanIs
<1>10. ASSUME NEW x \in 1 .. e - b PROVE c[x] = u[x]
  <2>1. (i + x) - 1 \in 1 .. k - a /\ a + ((i + x) - 1) = b + x /\ x \in 1 .. j - i + 1
    BY <1>4
  <2> QED BY <1>2, <1>6, <1>9, <2>1
<1>11. c = u
  BY <1>6, <1>7, <1>9, <1>10, SeqEqual
<1> QED
  BY <1>1, <1>3, <1>8, <1>11

TextOK == text \in Seq(Pieces)

LEMMA TextLength == TextOK => Len(text) \in Nat /\ DOMAIN text = 1 .. Len(text)
BY LenProperties DEF TextOK

LEMMA WholeIs == TextOK => Whole = Span(0, Len(text))
<1> SUFFICES ASSUME TextOK PROVE Whole = Span(0, Len(text))
  OBVIOUS
<1>1. PICK n \in Nat : n = Len(text) /\ DOMAIN text = 1 .. n
  BY TextLength
<1>2. Whole = [i \in 1 .. n |-> i]
  BY <1>1 DEF Whole
<1>3. 1 .. n - 0 = 1 .. n /\ \A i \in 1 .. n : 0 + i = i
  BY <1>1
<1>4. Span(0, n) = [i \in 1 .. n |-> i]
  BY <1>3 DEF Span
<1> QED
  BY <1>1, <1>2, <1>4

LEMMA WholePart ==
    ASSUME TextOK, NEW a \in Nat, NEW k \in Nat, a <= k, k <= Len(text)
    PROVE  Part(Whole, a + 1, k) = Span(a, k)
<1>1. PICK n \in Nat : n = Len(text)
  BY TextLength
<1>2. PICK i \in Nat, z \in Nat : i = a + 1 /\ z = 0
  OBVIOUS
<1>3. z <= n /\ 1 <= i /\ i <= k + 1 /\ k <= n - z /\ a = (z + i) - 1 /\ k = z + k
  BY <1>1, <1>2
<1>4. Part(Span(z, n), i, k) = Span(a, k)
  BY <1>3, SpanPart
<1> QED
  BY <1>1, <1>2, <1>4, WholeIs

-----------------------------------------------------------------------------
(* A step taken again and again.                                           *)
Repeats(N, F, a, f) ==
    /\ f[0] = a
    /\ \A n \in 1 .. N : f[n] = F[f[n - 1]]

Unrolls(N, F, a, f) == f = [n \in 0 .. N |-> IF n = 0 THEN a ELSE F[f[n - 1]]]

LEMMA RepeatsExists ==
    ASSUME NEW N \in Nat, NEW A, NEW a \in A, NEW F \in [A -> A]
    PROVE  \E f \in [0 .. N -> A] : Unrolls(N, F, a, f)
<1> DEFINE G == [x \in (1 .. N) \X A |-> F[x[2]]]
<1>1. G \in [(1 .. N) \X A -> A] /\ \A n \in 1 .. N, x \in A : G[<<n, x>>] = F[x]
  OBVIOUS
<1> HIDE DEF G
<1>2. \E f \in [0 .. N -> A] : Recurs(N, f, a, G)
  BY <1>1, RecursionExists
<1>3. PICK f \in [0 .. N -> A] : f[0] = a /\ \A n \in 1 .. N : f[n] = G[<<n, f[n - 1]>>]
  BY <1>2 DEF Recurs
<1>4. ASSUME NEW n \in 0 .. N PROVE f[n] = IF n = 0 THEN a ELSE F[f[n - 1]]
  <2>1. CASE n = 0
    BY <1>3, <2>1
  <2>2. CASE n # 0
    <3>1. n \in 1 .. N /\ n - 1 \in 0 .. N
      BY <2>2
    <3> QED BY <1>1, <1>3, <2>2, <3>1
  <2> QED BY <2>1, <2>2
<1>5. f = [n \in 0 .. N |-> IF n = 0 THEN a ELSE F[f[n - 1]]]
  BY <1>4
<1> QED
  BY <1>5 DEF Unrolls

Iterates(N, A, F, a, f) ==
    N \in Nat /\ a \in A /\ F \in [A -> A] /\ Repeats(N, F, a, f)

LEMMA RepeatsType ==
    ASSUME NEW N, NEW A, NEW a, NEW F, NEW f, Iterates(N, A, F, a, f)
    PROVE  \A n \in 0 .. N : f[n] \in A
<1> USE DEF Iterates
<1>1. f[0] \in A /\ \A n \in 1 .. N : f[n - 1] \in A => f[n] \in A
  BY DEF Repeats
<1> QED
  BY <1>1, RecursionType

(* Once a step changes nothing, the next ones do not either.               *)
LEMMA RepeatsStay ==
    ASSUME NEW N \in Nat, NEW F, NEW a, NEW f, Repeats(N, F, a, f),
           NEW m \in 0 .. N, F[f[m]] = f[m]
    PROVE  f[N] = f[m]
<1> DEFINE h == [j \in 0 .. N - m |-> f[m + j]]
           g == [j \in 0 .. N - m |-> f[m]]
<1>1. \A n \in 1 .. N : f[n] = F[f[n - 1]]
  BY DEF Repeats
<1>2. h[0] = g[0]
  <2>1. 0 \in 0 .. N - m /\ m + 0 = m
    OBVIOUS
  <2> QED BY <2>1
<1>3. ASSUME NEW j \in 1 .. N - m, h[j - 1] = g[j - 1] PROVE h[j] = g[j]
  <2>1. /\ j \in 0 .. N - m /\ j - 1 \in 0 .. N - m /\ m + j \in 1 .. N
        /\ (m + j) - 1 = m + (j - 1)
    OBVIOUS
  <2>2. f[m + j] = F[f[m + (j - 1)]] /\ f[m + (j - 1)] = f[m]
    BY <1>1, <1>3, <2>1
  <2> QED BY <2>1, <2>2
<1>4. h[N - m] = f[N] /\ g[N - m] = f[m] /\ N - m \in Nat
  <2>1. N - m \in 0 .. N - m /\ m + (N - m) = N
    OBVIOUS
  <2> QED BY <2>1
<1> HIDE DEF h, g
<1>5. Alike(N - m, h, g)
  BY <1>2, <1>3 DEF Alike
<1>6. h[N - m] = g[N - m]
  <2>1. PICK k : k = N - m
    OBVIOUS
  <2> QED BY <1>4, <1>5, <2>1, AlikeAtTheEnd
<1> QED
  BY <1>4, <1>6

(* A step that shortens what it changes comes to rest.                     *)
Shortens(A, F, M) == M \in [A -> Nat] /\ \A x \in A : F[x] = x \/ M[F[x]] < M[x]

LEMMA RepeatsRest ==
    ASSUME NEW N, NEW A, NEW a, NEW F, NEW f, Iterates(N, A, F, a, f),
           NEW M, Shortens(A, F, M), M[a] <= N
    PROVE  F[f[N]] = f[N]
<1> N \in Nat /\ a \in A /\ F \in [A -> A] /\ M \in [A -> Nat]
  BY DEF Iterates, Shortens
<1> DEFINE X == {n \in Nat : n <= N => F[f[n]] = f[n] \/ M[f[n]] + n <= N}
<1>1. /\ f[0] = a /\ \A n \in 1 .. N : f[n] = F[f[n - 1]]
      /\ \A n \in 0 .. N : f[n] \in A /\ M[f[n]] \in Nat
  BY RepeatsType DEF Repeats, Iterates
<1>2. X \in SUBSET Nat /\ 0 \in X
  BY <1>1
<1>3. ASSUME NEW n \in X PROVE n + 1 \in X
  <2>1. CASE n + 1 <= N
    <3>1. /\ n + 1 \in 1 .. N /\ (n + 1) - 1 = n /\ n \in 0 .. N /\ n + 1 \in 0 .. N
          /\ F[f[n]] = f[n] \/ M[f[n]] + n <= N
      BY <2>1
    <3>2. f[n + 1] = F[f[n]] /\ f[n] \in A
      BY <1>1, <3>1
    <3>3. CASE F[f[n]] = f[n]
      <4>1. F[f[n + 1]] = f[n + 1]
        BY <3>2, <3>3
      <4> QED BY <4>1
    <3>4. CASE M[f[n]] + n <= N /\ M[F[f[n]]] < M[f[n]]
      <4>1. PICK x \in Nat, y \in Nat : x = M[f[n]] /\ y = M[f[n + 1]]
        BY <1>1, <3>1
      <4>2. x + n <= N /\ y < x
        BY <3>2, <3>4, <4>1
      <4>3. y + (n + 1) <= N
        BY <4>2
      <4> QED BY <4>1, <4>3
    <3> QED BY <3>1, <3>2, <3>3, <3>4 DEF Shortens
  <2>2. CASE ~(n + 1 <= N)
    BY <2>2
  <2> QED BY <2>1, <2>2
<1>4. X = Nat
  <2> HIDE DEF X
  <2> QED BY <1>2, <1>3, SetInduction
<1>5. F[f[N]] = f[N] \/ M[f[N]] + N <= N
  BY <1>4
<1>6. CASE M[f[N]] + N <= N
  <2>1. f[N] \in A /\ M[f[N]] \in Nat
    BY <1>1
  <2>2. PICK x \in Nat : x = M[f[N]]
    BY <2>1
  <2>3. x = 0
    BY <1>6, <2>2
  <2>4. F[f[N]] \in A /\ M[F[f[N]]] \in Nat
    BY <2>1
  <2>5. PICK y \in Nat : y = M[F[f[N]]]
    BY <2>4
  <2>6. ~(y < x)
    BY <2>3
  <2> QED BY <2>1, <2>2, <2>5, <2>6 DEF Shortens
<1> QED
  BY <1>5, <1>6

(* Steps from a that are, after the first, the steps from b changed by P.  *)
Commutes(A, F, P) == P \in [A -> A] /\ \A x \in A : F[P[x]] = P[F[x]]

LEMMA RepeatsUnfold ==
    ASSUME NEW A, NEW F, NEW P, Commutes(A, F, P),
           NEW N, NEW a, NEW f, Iterates(N, A, F, a, f),
           NEW K, NEW b, NEW h, Iterates(K, A, F, b, h),
           K + 1 <= N, F[a] = P[b], F[h[K]] = h[K]
    PROVE  f[N] = P[h[K]]
<1> /\ N \in Nat /\ K \in Nat /\ a \in A /\ b \in A /\ F \in [A -> A] /\ P \in [A -> A]
    /\ Repeats(N, F, a, f) /\ Repeats(K, F, b, h) /\ \A x \in A : F[P[x]] = P[F[x]]
  BY DEF Iterates, Commutes
<1> DEFINE u == [j \in 0 .. K |-> f[1 + j]]
           v == [j \in 0 .. K |-> P[h[j]]]
<1>1. /\ f[0] = a /\ \A n \in 1 .. N : f[n] = F[f[n - 1]]
      /\ h[0] = b /\ \A n \in 1 .. K : h[n] = F[h[n - 1]]
      /\ \A n \in 0 .. K : h[n] \in A
  <2>1. \A n \in 0 .. K : h[n] \in A
    BY RepeatsType
  <2> QED BY <2>1 DEF Repeats
<1>2. u[0] = v[0]
  <2>1. 0 \in 0 .. K /\ 1 + 0 = 1 /\ 1 \in 1 .. N /\ 1 - 1 = 0
    OBVIOUS
  <2>2. f[1] = F[a]
    BY <1>1, <2>1
  <2> QED BY <1>1, <2>1, <2>2
<1>3. ASSUME NEW j \in 1 .. K, u[j - 1] = v[j - 1] PROVE u[j] = v[j]
  <2>1. /\ j \in 0 .. K /\ j - 1 \in 0 .. K /\ 1 + j \in 1 .. N
        /\ (1 + j) - 1 = 1 + (j - 1)
    OBVIOUS
  <2>2. f[1 + j] = F[f[1 + (j - 1)]]
    BY <1>1, <2>1
  <2>3. f[1 + (j - 1)] = P[h[j - 1]]
    BY <1>3, <2>1
  <2>4. h[j] = F[h[j - 1]] /\ h[j - 1] \in A
    BY <1>1, <2>1
  <2> QED BY <2>1, <2>2, <2>3, <2>4
<1>4. u[K] = f[1 + K] /\ v[K] = P[h[K]] /\ h[K] \in A
  <2>1. K \in 0 .. K
    OBVIOUS
  <2> QED BY <1>1, <2>1
<1> HIDE DEF u, v
<1>5. Alike(K, u, v)
  BY <1>2, <1>3 DEF Alike
<1>6. f[1 + K] = P[h[K]]
  BY <1>4, <1>5, AlikeAtTheEnd
<1>7. F[f[1 + K]] = f[1 + K]
  BY <1>4, <1>6
<1>8. PICK m \in 0 .. N : m = 1 + K
  OBVIOUS
<1>9. f[N] = f[m]
  BY <1>7, <1>8, RepeatsStay
<1> QED
  BY <1>6, <1>8, <1>9

-----------------------------------------------------------------------------
(* What H makes of the elements of a sequence, one after the other.        *)
Mapped(s, H) == FlattenSeq([i \in DOMAIN s |-> H[s[i]]])

MapOf(m, s, H) == m = [i \in DOMAIN s |-> H[s[i]]]

Images(m, s, H, A) ==
    m \in Seq(Seq(A)) /\ Len(m) = Len(s) /\ \A i \in 1 .. Len(s) : m[i] = H[s[i]]

LEMMA MapType ==
    ASSUME NEW S, NEW A, NEW H \in [S -> Seq(A)], NEW s \in Seq(S), NEW m,
           MapOf(m, s, H)
    PROVE  Images(m, s, H, A)
<1>1. PICK n \in Nat : n = Len(s) /\ DOMAIN s = 1 .. n /\ \A i \in 1 .. n : s[i] \in S
  BY LenProperties, ElementOfSeq
<1>2. m = [i \in 1 .. n |-> H[s[i]]]
  BY <1>1 DEF MapOf
<1>3. m \in [1 .. n -> Seq(A)]
  BY <1>1, <1>2
<1>4. m \in Seq(Seq(A)) /\ DOMAIN m = 1 .. n
  BY <1>3, SeqDef
<1>5. Len(m) = n
  BY <1>4, LenProperties
<1> QED
  BY <1>1, <1>2, <1>4, <1>5 DEF Images

LEMMA MappedType ==
    ASSUME NEW S, NEW A, NEW H \in [S -> Seq(A)], NEW s \in Seq(S)
    PROVE  Mapped(s, H) \in Seq(A)
<1>1. PICK m : m = [i \in DOMAIN s |-> H[s[i]]]
  OBVIOUS
<1>2. m \in Seq(Seq(A))
  BY <1>1, MapType DEF MapOf, Images
<1>3. FlattenSeq(m) \in Seq(A)
  BY <1>2, FlattenType
<1> QED
  BY <1>1, <1>3 DEF Mapped

LEMMA MappedEmpty ==
    ASSUME NEW S, NEW A, NEW H \in [S -> Seq(A)]
    PROVE  Mapped(<< >>, H) = << >>
<1>1. PICK m : m = [i \in DOMAIN << >> |-> H[<< >>[i]]]
  OBVIOUS
<1>2. << >> \in Seq(S) /\ Len(<< >>) = 0
  BY EmptySeq
<1>3. m \in Seq(Seq(A)) /\ Len(m) = 0
  <2>1. PICK s : s = << >>
    OBVIOUS
  <2>2. s \in Seq(S) /\ Len(s) = 0 /\ m = [i \in DOMAIN s |-> H[s[i]]]
    BY <1>1, <1>2, <2>1
  <2> QED BY <2>2, MapType DEF MapOf, Images
<1>4. m = << >>
  BY <1>3, EmptySeq
<1> QED
  BY <1>1, <1>4, FlattenEmpty DEF Mapped

LEMMA MappedConcat ==
    ASSUME NEW S, NEW A, NEW H \in [S -> Seq(A)], NEW s \in Seq(S), NEW t \in Seq(S)
    PROVE  Mapped(s \o t, H) = Mapped(s, H) \o Mapped(t, H)
<1>1. PICK c : c = s \o t
  OBVIOUS
<1>2. PICK m, n : m = Len(s) /\ n = Len(t)
  OBVIOUS
<1>3. /\ c \in Seq(S) /\ m \in Nat /\ n \in Nat /\ Len(c) = m + n
      /\ \A i \in 1 .. m : c[i] = s[i]
      /\ \A i \in 1 .. n : c[m + i] = t[i]
  BY <1>1, <1>2, ConcatIs
<1>4. PICK f, g, h : /\ f = [i \in DOMAIN s |-> H[s[i]]] /\ g = [i \in DOMAIN t |-> H[t[i]]]
                     /\ h = [i \in DOMAIN c |-> H[c[i]]]
  OBVIOUS
<1>5. f \in Seq(Seq(A)) /\ Len(f) = m /\ \A i \in 1 .. m : f[i] = H[s[i]]
  <2>1. MapOf(f, s, H)
    BY <1>4 DEF MapOf
  <2>2. Images(f, s, H, A)
    BY <2>1, MapType
  <2> QED BY <1>2, <2>2 DEF Images
<1>6. g \in Seq(Seq(A)) /\ Len(g) = n /\ \A i \in 1 .. n : g[i] = H[t[i]]
  <2>1. MapOf(g, t, H)
    BY <1>4 DEF MapOf
  <2>2. Images(g, t, H, A)
    BY <2>1, MapType
  <2> QED BY <1>2, <2>2 DEF Images
<1>7. h \in Seq(Seq(A)) /\ Len(h) = m + n /\ \A i \in 1 .. m + n : h[i] = H[c[i]]
  BY <1>3, <1>4, MapType DEF MapOf, Images
<1>8. PICK d : d = f \o g
  OBVIOUS
<1>9. /\ d \in Seq(Seq(A)) /\ Len(d) = m + n
      /\ \A i \in 1 .. m : d[i] = f[i]
      /\ \A i \in 1 .. n : d[m + i] = g[i]
  <2>1. f \in Seq(Seq(A)) /\ g \in Seq(Seq(A)) /\ m = Len(f) /\ n = Len(g)
    BY <1>5, <1>6
  <2> QED BY <1>8, <2>1, ConcatIs
<1>10. ASSUME NEW i \in 1 .. m + n PROVE h[i] = d[i]
  <2>1. CASE i <= m
    <3>1. i \in 1 .. m
      BY <2>1
    <3>2. h[i] = H[c[i]] /\ c[i] = s[i]
      BY <1>3, <1>7, <3>1
    <3>3. d[i] = f[i] /\ f[i] = H[s[i]]
      BY <1>5, <1>9, <3>1
    <3> QED BY <3>2, <3>3
  <2>2. CASE ~(i <= m)
    <3>1. PICK x \in 1 .. n : i = m + x
      <4>1. i - m \in 1 .. n /\ i = m + (i - m)
        BY <1>3, <2>2
      <4> QED BY <4>1
    <3>2. h[m + x] = H[c[m + x]] /\ c[m + x] = t[x]
      BY <1>3, <1>7, <3>1
    <3>3. d[m + x] = g[x] /\ g[x] = H[t[x]]
      BY <1>6, <1>9
    <3> QED BY <3>1, <3>2, <3>3
  <2> QED BY <2>1, <2>2
<1>11. h = d
  BY <1>7, <1>9, <1>10, SeqEqual
<1>12. FlattenSeq(f \o g) = FlattenSeq(f) \o FlattenSeq(g)
  BY <1>5, <1>6, FlattenConcat
<1> QED
  BY <1>1, <1>4, <1>8, <1>11, <1>12 DEF Mapped

LEMMA MappedOne ==
    ASSUME NEW S, NEW A, NEW H \in [S -> Seq(A)], NEW x \in S
    PROVE  Mapped(<< x >>, H) = H[x]
<1>1. PICK s : s = << x >>
  OBVIOUS
<1>2. s \in Seq(S) /\ Len(s) = 1 /\ s[1] = x /\ DOMAIN s = 1 .. 1
  BY <1>1
<1>3. PICK m : m = [i \in DOMAIN s |-> H[s[i]]]
  OBVIOUS
<1>4. m \in Seq(Seq(A)) /\ Len(m) = 1 /\ m[1] = H[x]
  <2>1. m \in Seq(Seq(A)) /\ Len(m) = 1 /\ \A i \in 1 .. 1 : m[i] = H[s[i]]
    BY <1>2, <1>3, MapType DEF MapOf, Images
  <2> QED BY <1>2, <2>1
<1>5. PICK u : u = << H[x] >>
  OBVIOUS
<1>6. u \in Seq(Seq(A)) /\ Len(u) = 1 /\ u[1] = H[x]
  BY <1>5
<1>7. m = u
  BY <1>4, <1>6, SeqEqual
<1> QED
  BY <1>1, <1>3, <1>5, <1>7, FlattenOne DEF Mapped

-----------------------------------------------------------------------------
(* The regular expressions, at the positions of the answer.                *)

OpeningAt(i, j) ==
    /\ i \in 1 .. Len(text) /\ j \in 1 .. Len(text) /\ i + 2 <= j
    /\ text[i] = "<" /\ text[i + 1] = "details" /\ text[j] = ">"
    /\ \A x \in i .. j - 1 : text[x] # ">"
    /\ text[i + 2] # "prose" /\ text[i + 2] # "details"

ClosingAt(i) ==
    /\ i \in 1 .. Len(text) /\ i + 2 <= Len(text)
    /\ text[i] = "<" /\ text[i + 1] = "/details" /\ text[i + 2] = ">"

NoOpening(a, k) == \A x, y \in Nat : OpeningAt(x, y) /\ a < x => k < y
NoClosing(a, k) == \A x \in Nat : ClosingAt(x) /\ a < x => k < x + 2
FirstOpening(a, k, i, j) ==
    /\ OpeningAt(i, j) /\ a < i /\ j <= k
    /\ \A x, y \in Nat : OpeningAt(x, y) /\ a < x /\ y <= k => i <= x
FirstClosing(a, k, i) ==
    /\ ClosingAt(i) /\ a < i /\ i + 2 <= k
    /\ \A x \in Nat : ClosingAt(x) /\ a < x /\ x + 2 <= k => i <= x

(* A stretch of the answer.                                                *)
Stretch(a, k) == TextOK /\ a \in Nat /\ k \in Nat /\ a <= k /\ k <= Len(text)

LEMMA SpanReads ==
    ASSUME NEW a, NEW k, Stretch(a, k), NEW x, NEW piece
    PROVE  Is(Span(a, k), x, piece) <=> x \in 1 .. k - a /\ text[a + x] = piece
BY SpanIs DEF Is, Stretch

EndIs(a, n, i, r) ==
    \/ r = 0 /\ \A x \in i .. n : text[a + x] # ">"
    \/ /\ r \in i .. n /\ text[a + r] = ">"
       /\ \A x \in i .. r - 1 : text[a + x] # ">"

LEMMA NextEndIs ==
    ASSUME NEW a, NEW k, Stretch(a, k), NEW i \in 1 .. k - a, NEW r,
           r = NextEnd(Span(a, k), i)
    PROVE  EndIs(a, k - a, i, r)
<1> DEFINE ends == {j \in i .. Len(Span(a, k)) : Is(Span(a, k), j, ">")}
<1>1. PICK n \in Nat : n = k - a /\ i \in Nat
  BY DEF Stretch
<1>2. Len(Span(a, k)) = n
  BY <1>1, SpanIs DEF Stretch
<1>3. \A j : j \in ends <=> j \in i .. n /\ text[a + j] = ">"
  <2>1. \A j : Is(Span(a, k), j, ">") <=> j \in 1 .. n /\ text[a + j] = ">"
    BY <1>1, SpanReads
  <2>2. \A j \in i .. n : j \in 1 .. n
    BY <1>1
  <2> QED BY <1>2, <2>1, <2>2
<1>4. r = IF ends = {} THEN 0 ELSE CHOOSE j \in ends : \A x \in ends : j <= x
  BY DEF NextEnd
<1> HIDE DEF ends
<1>5. CASE ends = {}
  BY <1>1, <1>3, <1>4, <1>5 DEF EndIs
<1>6. CASE ends # {}
  <2>1. ends \in SUBSET Nat
    BY <1>1, <1>3
  <2>2. \E j \in ends : \A x \in ends : j <= x
    BY <1>6, <2>1, LeastNatural
  <2>3. r \in ends /\ \A x \in ends : r <= x
    BY <1>4, <1>6, <2>2
  <2>4. r \in i .. n /\ text[a + r] = ">"
    BY <1>3, <2>3
  <2>5. ASSUME NEW x \in i .. r - 1 PROVE text[a + x] # ">"
    <3>1. x \in i .. n /\ ~(r <= x)
      BY <1>1, <2>4
    <3> QED BY <1>3, <2>3, <3>1
  <2> QED BY <1>1, <2>4, <2>5 DEF EndIs
<1> QED
  BY <1>5, <1>6

LEMMA OpeningsAre ==
    ASSUME NEW a, NEW k, Stretch(a, k), NEW m
    PROVE  m \in Openings(Span(a, k)) <=>
              \E i, j \in Nat : /\ OpeningAt(i, j) /\ a < i /\ j <= k
                                /\ m = << i - a, j - a >>
<1> DEFINE b == Span(a, k)
           starts == {x \in DOMAIN b : Is(b, x, "<") /\ Is(b, x + 1, "details")}
<1>1. PICK n \in Nat : n = k - a /\ a \in Nat /\ k \in Nat /\ k <= Len(text) /\ TextOK
  BY DEF Stretch
<1>2. DOMAIN b = 1 .. n
  BY <1>1, SpanIs DEF Stretch
<1>3. \A x, piece : Is(b, x, piece) <=> x \in 1 .. n /\ text[a + x] = piece
  BY <1>1, SpanReads
<1>4. \A x : x \in starts <=> /\ x \in 1 .. n /\ x + 1 \in 1 .. n
                              /\ text[a + x] = "<" /\ text[a + (x + 1)] = "details"
  BY <1>2, <1>3
<1>5. \A x \in starts : \A r : r = NextEnd(b, x) => EndIs(a, n, x, r)
  <2>1. SUFFICES ASSUME NEW x \in starts, NEW r, r = NextEnd(b, x) PROVE EndIs(a, n, x, r)
    OBVIOUS
  <2>2. x \in 1 .. k - a
    BY <1>1, <1>4
  <2> QED BY <1>1, <2>1, <2>2, NextEndIs
<1>6. m \in Openings(b) <=>
        \E x \in starts : /\ m = << x, NextEnd(b, x) >> /\ NextEnd(b, x) # 0
                          /\ ~Is(b, x + 2, "prose") /\ ~Is(b, x + 2, "details")
  BY DEF Openings
<1> HIDE DEF b, starts
<1>7. ASSUME m \in Openings(b)
      PROVE  \E i, j \in Nat : OpeningAt(i, j) /\ a < i /\ j <= k /\ m = << i - a, j - a >>
  <2>1. PICK x \in starts : /\ m = << x, NextEnd(b, x) >> /\ NextEnd(b, x) # 0
                            /\ ~Is(b, x + 2, "prose") /\ ~Is(b, x + 2, "details")
    BY <1>6, <1>7
  <2>2. PICK r : r = NextEnd(b, x)
    OBVIOUS
  <2>3. /\ x \in 1 .. n /\ x + 1 \in 1 .. n /\ text[a + x] = "<"
        /\ text[a + (x + 1)] = "details"
    BY <1>4
  <2>4. /\ r \in x .. n /\ text[a + r] = ">"
        /\ \A y \in x .. r - 1 : text[a + y] # ">"
    BY <1>5, <2>1, <2>2 DEF EndIs
  <2>5. r # x /\ r # x + 1
    BY <2>3, <2>4
  <2>6. PICK i \in Nat, j \in Nat : i = a + x /\ j = a + r
    BY <1>1, <2>3, <2>4
  <2>7. /\ i \in 1 .. Len(text) /\ j \in 1 .. Len(text) /\ i + 2 <= j /\ a < i /\ j <= k
        /\ x = i - a /\ r = j - a /\ i + 1 = a + (x + 1) /\ i + 2 = a + (x + 2)
        /\ x + 2 \in 1 .. n
    BY <1>1, <2>3, <2>4, <2>5, <2>6, TextLength
  <2>8. text[i + 2] # "prose" /\ text[i + 2] # "details"
    BY <1>3, <2>1, <2>7
  <2>9. ASSUME NEW y \in i .. j - 1 PROVE text[y] # ">"
    <3>1. y - a \in x .. r - 1 /\ a + (y - a) = y
      BY <1>1, <2>6, <2>3, <2>4
    <3> QED BY <2>4, <3>1
  <2>10. text[i] = "<" /\ text[i + 1] = "details" /\ text[j] = ">"
    BY <2>3, <2>4, <2>6, <2>7
  <2>11. OpeningAt(i, j)
    BY <2>7, <2>8, <2>9, <2>10 DEF OpeningAt
  <2>12. m = << i - a, j - a >>
    BY <2>1, <2>2, <2>7
  <2> QED BY <2>7, <2>11, <2>12
<1>8. ASSUME NEW i \in Nat, NEW j \in Nat, OpeningAt(i, j), a < i, j <= k,
             m = << i - a, j - a >>
      PROVE  m \in Openings(b)
  <2>1. /\ i + 2 <= j /\ text[i] = "<" /\ text[i + 1] = "details" /\ text[j] = ">"
        /\ \A y \in i .. j - 1 : text[y] # ">"
        /\ text[i + 2] # "prose" /\ text[i + 2] # "details"
    BY <1>8 DEF OpeningAt
  <2>2. PICK x \in Nat, r \in Nat : x = i - a /\ r = j - a
    BY <1>1, <1>8, <2>1
  <2>3. /\ x \in 1 .. n /\ x + 1 \in 1 .. n /\ x + 2 \in 1 .. n /\ r \in x .. n
        /\ a + x = i /\ a + (x + 1) = i + 1 /\ a + (x + 2) = i + 2 /\ a + r = j
    BY <1>1, <1>8, <2>1, <2>2
  <2>4. x \in starts
    BY <1>4, <2>1, <2>3
  <2>5. ~Is(b, x + 2, "prose") /\ ~Is(b, x + 2, "details")
    BY <1>3, <2>1, <2>3
  <2>6. PICK q : q = NextEnd(b, x)
    OBVIOUS
  <2>7. \/ q = 0 /\ \A y \in x .. n : text[a + y] # ">"
        \/ /\ q \in x .. n /\ text[a + q] = ">"
           /\ \A y \in x .. q - 1 : text[a + y] # ">"
    BY <1>5, <2>4, <2>6 DEF EndIs
  <2>8. q \in x .. n /\ text[a + q] = ">" /\ \A y \in x .. q - 1 : text[a + y] # ">"
    BY <2>1, <2>3, <2>7
  <2>9. ~(q < r)
    <3>1. SUFFICES ASSUME q < r PROVE FALSE
      OBVIOUS
    <3>2. a + q \in i .. j - 1
      BY <1>1, <2>2, <2>3, <2>8, <3>1
    <3> QED BY <2>1, <2>8, <3>2
  <2>10. ~(r < q)
    <3>1. SUFFICES ASSUME r < q PROVE FALSE
      OBVIOUS
    <3>2. r \in x .. q - 1
      BY <2>2, <2>3, <2>8, <3>1
    <3> QED BY <2>1, <2>3, <2>8, <3>2
  <2>11. q = r
    BY <2>2, <2>8, <2>9, <2>10
  <2>12. q # 0
    BY <2>3, <2>11
  <2> QED BY <1>6, <1>8, <2>2, <2>4, <2>5, <2>6, <2>11, <2>12
<1> QED
  BY <1>7, <1>8 DEF b

LEMMA ClosingsAre ==
    ASSUME NEW a, NEW k, Stretch(a, k), NEW m
    PROVE  m \in Closings(Span(a, k)) <=>
              \E i \in Nat : /\ ClosingAt(i) /\ a < i /\ i + 2 <= k
                             /\ m = << i - a, (i - a) + 2 >>
<1> DEFINE b == Span(a, k)
<1>1. PICK n \in Nat : n = k - a /\ a \in Nat /\ k \in Nat /\ k <= Len(text) /\ TextOK
  BY DEF Stretch
<1>2. DOMAIN b = 1 .. n
  BY <1>1, SpanIs DEF Stretch
<1>3. \A x, piece : Is(b, x, piece) <=> x \in 1 .. n /\ text[a + x] = piece
  BY <1>1, SpanReads
<1>4. m \in Closings(b) <=>
        \E x \in 1 .. n : /\ m = << x, x + 2 >> /\ x + 1 \in 1 .. n /\ x + 2 \in 1 .. n
                          /\ text[a + x] = "<" /\ text[a + (x + 1)] = "/details"
                          /\ text[a + (x + 2)] = ">"
  BY <1>2, <1>3 DEF Closings
<1> HIDE DEF b
<1>5. ASSUME NEW x \in 1 .. n, m = << x, x + 2 >>, x + 2 \in 1 .. n,
             text[a + x] = "<", text[a + (x + 1)] = "/details", text[a + (x + 2)] = ">"
      PROVE  \E i \in Nat : ClosingAt(i) /\ a < i /\ i + 2 <= k /\ m = << i - a, (i - a) + 2 >>
  <2>1. PICK i \in Nat : i = a + x
    BY <1>1
  <2>2. /\ i \in 1 .. Len(text) /\ i + 2 <= Len(text) /\ a < i /\ i + 2 <= k
        /\ i + 1 = a + (x + 1) /\ i + 2 = a + (x + 2) /\ x = i - a
    BY <1>1, <1>5, <2>1, TextLength
  <2>3. ClosingAt(i)
    BY <1>5, <2>1, <2>2 DEF ClosingAt
  <2>4. m = << i - a, (i - a) + 2 >>
    BY <1>5, <2>2
  <2> QED BY <2>2, <2>3, <2>4
<1>6. ASSUME NEW i \in Nat, ClosingAt(i), a < i, i + 2 <= k, m = << i - a, (i - a) + 2 >>
      PROVE  \E x \in 1 .. n : /\ m = << x, x + 2 >> /\ x + 1 \in 1 .. n /\ x + 2 \in 1 .. n
                               /\ text[a + x] = "<" /\ text[a + (x + 1)] = "/details"
                               /\ text[a + (x + 2)] = ">"
  <2>1. PICK x \in 1 .. n : x = i - a
    BY <1>1, <1>6
  <2>2. /\ x + 1 \in 1 .. n /\ x + 2 \in 1 .. n /\ a + x = i /\ a + (x + 1) = i + 1
        /\ a + (x + 2) = i + 2
    BY <1>1, <1>6, <2>1
  <2>3. text[i] = "<" /\ text[i + 1] = "/details" /\ text[i + 2] = ">"
    BY <1>6 DEF ClosingAt
  <2>4. m = << x, x + 2 >>
    BY <1>6, <2>1
  <2> QED BY <2>2, <2>3, <2>4
<1> QED
  BY <1>4, <1>5, <1>6 DEF b

(* The first of a set of matches.                                          *)
LEMMA FirstIs ==
    ASSUME NEW T, T # {}, \A m \in T : m[1] \in Nat
    PROVE  First(T) \in T /\ \A m \in T : First(T)[1] <= m[1]
<1> DEFINE Q == {m[1] : m \in T}
<1>1. Q \in SUBSET Nat /\ Q # {}
  OBVIOUS
<1>2. PICK q \in Q : \A r \in Q : q <= r
  <2> HIDE DEF Q
  <2> QED BY <1>1, LeastNatural
<1>3. PICK m \in T : m[1] = q
  OBVIOUS
<1>4. \A n \in T : m[1] <= n[1]
  BY <1>2, <1>3
<1>5. \E x \in T : \A n \in T : x[1] <= n[1]
  BY <1>4
<1> QED
  BY <1>5 DEF First

(* What comes before and after a match.                                    *)
LEMMA SpanFrom ==
    ASSUME NEW a, NEW k, Stretch(a, k), NEW c \in Nat, a <= c, c <= k
    PROVE  From(Span(a, k), (c - a) + 1) = Span(c, k)
<1>1. PICK n \in Nat, i \in Nat : n = k - a /\ i = (c - a) + 1
  BY DEF Stretch
<1>2. Len(Span(a, k)) = n
  BY <1>1, SpanIs DEF Stretch
<1>3. a \in Nat /\ k \in Nat /\ a <= k /\ 1 <= i /\ i <= n + 1 /\ n <= k - a
      /\ c = (a + i) - 1 /\ k = a + n
  BY <1>1 DEF Stretch
<1>4. Part(Span(a, k), i, n) = Span(c, k)
  BY <1>3, SpanPart
<1> QED
  BY <1>1, <1>2, <1>4 DEF From, Part

LEMMA SpanBefore ==
    ASSUME NEW a, NEW k, Stretch(a, k), NEW c \in Nat, a <= c, c <= k
    PROVE  Part(Span(a, k), 1, c - a) = Span(a, c)
<1>1. PICK j \in Nat, i \in Nat : j = c - a /\ i = 1
  BY DEF Stretch
<1>2. a \in Nat /\ k \in Nat /\ a <= k /\ 1 <= i /\ i <= j + 1 /\ j <= k - a
      /\ a = (a + i) - 1 /\ c = a + j
  BY <1>1 DEF Stretch
<1>3. Part(Span(a, k), i, j) = Span(a, c)
  BY <1>2, SpanPart
<1> QED
  BY <1>1, <1>3

LEMMA NoOpeningIs ==
    ASSUME NEW a, NEW k, Stretch(a, k)
    PROVE  Openings(Span(a, k)) = {} <=> NoOpening(a, k)
<1>1. \A x, y \in Nat : OpeningAt(x, y) => x \in Nat /\ y \in Nat /\ (~(y <= k) <=> k < y)
  BY DEF Stretch
<1>2. ASSUME Openings(Span(a, k)) = {}, NEW x \in Nat, NEW y \in Nat, OpeningAt(x, y), a < x
      PROVE  k < y
  <2>1. ASSUME y <= k PROVE FALSE
    <3>1. << x - a, y - a >> \in Openings(Span(a, k))
      BY <1>2, <2>1, OpeningsAre
    <3> QED BY <1>2, <3>1
  <2> QED BY <1>1, <1>2, <2>1
<1>3. ASSUME NoOpening(a, k), NEW m \in Openings(Span(a, k)) PROVE FALSE
  <2>1. PICK i \in Nat, j \in Nat : OpeningAt(i, j) /\ a < i /\ j <= k
    BY <1>3, OpeningsAre
  <2>2. k < j
    BY <1>3, <2>1 DEF NoOpening
  <2>3. k \in Nat
    BY DEF Stretch
  <2> QED BY <2>1, <2>2, <2>3
<1> QED
  BY <1>2, <1>3 DEF NoOpening

LEMMA NoClosingIs ==
    ASSUME NEW a, NEW k, Stretch(a, k)
    PROVE  Closings(Span(a, k)) = {} <=> NoClosing(a, k)
<1>1. k \in Nat /\ \A x \in Nat : ~(x + 2 <= k) <=> k < x + 2
  BY DEF Stretch
<1>2. ASSUME Closings(Span(a, k)) = {}, NEW x \in Nat, ClosingAt(x), a < x
      PROVE  k < x + 2
  <2>1. ASSUME x + 2 <= k PROVE FALSE
    <3>1. << x - a, (x - a) + 2 >> \in Closings(Span(a, k))
      BY <1>2, <2>1, ClosingsAre
    <3> QED BY <1>2, <3>1
  <2> QED BY <1>1, <1>2, <2>1
<1>3. ASSUME NoClosing(a, k), NEW m \in Closings(Span(a, k)) PROVE FALSE
  <2>1. PICK i \in Nat : ClosingAt(i) /\ a < i /\ i + 2 <= k
    BY <1>3, ClosingsAre
  <2>2. k < i + 2
    BY <1>3, <2>1 DEF NoClosing
  <2> QED BY <1>1, <2>1, <2>2
<1> QED
  BY <1>2, <1>3 DEF NoClosing

(* An opening tag that is taken, from i to j, and what is around it.       *)
TakesOpening(a, k, i, j) ==
    LET opening == First(Openings(Span(a, k))) IN
    /\ FirstOpening(a, k, i, j) /\ i \in Nat /\ j \in Nat
    /\ Part(Span(a, k), 1, opening[1] - 1) = Span(a, i - 1)
    /\ From(Span(a, k), opening[2] + 1) = Span(j, k)

LEMMA OpeningTaken ==
    ASSUME NEW a, NEW k, Stretch(a, k), Openings(Span(a, k)) # {}
    PROVE  \E i, j \in Nat : TakesOpening(a, k, i, j)
<1> DEFINE T == Openings(Span(a, k))
           Good(i, j, m) == /\ OpeningAt(i, j) /\ a < i /\ j <= k
                            /\ m = << i - a, j - a >>
<1>1. a \in Nat /\ k \in Nat /\ a <= k /\ k <= Len(text) /\ TextOK
  BY DEF Stretch
<1>2. \A m : m \in T <=> \E i, j \in Nat : Good(i, j, m)
  BY OpeningsAre
<1>3. \A i, j \in Nat : \A m : Good(i, j, m) => m[1] = i - a /\ m[2] = j - a /\ m[1] \in Nat
  BY <1>1
<1>4. PICK m : m = First(T)
  OBVIOUS
<1>5. m \in T /\ \A x \in T : m[1] <= x[1]
  <2>1. T # {} /\ \A x \in T : x[1] \in Nat
    BY <1>2, <1>3
  <2> HIDE DEF T
  <2> QED BY <1>4, <2>1, FirstIs
<1>6. PICK i \in Nat, j \in Nat : Good(i, j, m)
  BY <1>2, <1>5
<1>7. ASSUME NEW x \in Nat, NEW y \in Nat, OpeningAt(x, y), a < x, y <= k PROVE i <= x
  <2>1. PICK z : z = << x - a, y - a >>
    OBVIOUS
  <2>2. z \in T /\ z[1] = x - a
    BY <1>2, <1>7, <2>1
  <2>3. i - a <= x - a
    BY <1>3, <1>5, <1>6, <2>2
  <2> QED BY <1>1, <2>3
<1>8. FirstOpening(a, k, i, j)
  BY <1>6, <1>7 DEF FirstOpening
<1>9. PICK c \in Nat, d \in Nat : c = i - 1 /\ d = j
  BY <1>1, <1>6
<1>10. a <= c /\ c <= k /\ m[1] - 1 = c - a /\ a <= d /\ d <= k /\ m[2] + 1 = (d - a) + 1
  <2>1. i + 2 <= j /\ a < i /\ j <= k /\ m[1] = i - a /\ m[2] = j - a
    BY <1>3, <1>6 DEF OpeningAt
  <2> QED BY <1>1, <1>9, <2>1
<1>11. Part(Span(a, k), 1, m[1] - 1) = Span(a, c)
  BY <1>10, SpanBefore
<1>12. From(Span(a, k), m[2] + 1) = Span(d, k)
  BY <1>10, SpanFrom
<1> QED
  BY <1>4, <1>8, <1>9, <1>11, <1>12 DEF TakesOpening

TakesClosing(a, k, i) ==
    LET closing == First(Closings(Span(a, k))) IN
    /\ FirstClosing(a, k, i) /\ i \in Nat
    /\ Part(Span(a, k), 1, closing[1] - 1) = Span(a, i - 1)
    /\ From(Span(a, k), closing[2] + 1) = Span(i + 2, k)

LEMMA ClosingTaken ==
    ASSUME NEW a, NEW k, Stretch(a, k), Closings(Span(a, k)) # {}
    PROVE  \E i \in Nat : TakesClosing(a, k, i)
<1> DEFINE T == Closings(Span(a, k))
           Good(i, m) == /\ ClosingAt(i) /\ a < i /\ i + 2 <= k
                         /\ m = << i - a, (i - a) + 2 >>
<1>1. a \in Nat /\ k \in Nat /\ a <= k /\ k <= Len(text) /\ TextOK
  BY DEF Stretch
<1>2. \A m : m \in T <=> \E i \in Nat : Good(i, m)
  BY ClosingsAre
<1>3. \A i \in Nat : \A m : Good(i, m) => m[1] = i - a /\ m[2] = (i - a) + 2 /\ m[1] \in Nat
  BY <1>1
<1>4. PICK m : m = First(T)
  OBVIOUS
<1>5. m \in T /\ \A x \in T : m[1] <= x[1]
  <2>1. T # {} /\ \A x \in T : x[1] \in Nat
    BY <1>2, <1>3
  <2> HIDE DEF T
  <2> QED BY <1>4, <2>1, FirstIs
<1>6. PICK i \in Nat : Good(i, m)
  BY <1>2, <1>5
<1>7. ASSUME NEW x \in Nat, ClosingAt(x), a < x, x + 2 <= k PROVE i <= x
  <2>1. PICK z : z = << x - a, (x - a) + 2 >>
    OBVIOUS
  <2>2. z \in T /\ z[1] = x - a
    BY <1>2, <1>7, <2>1
  <2>3. i - a <= x - a
    BY <1>3, <1>5, <1>6, <2>2
  <2> QED BY <1>1, <2>3
<1>8. FirstClosing(a, k, i)
  BY <1>6, <1>7 DEF FirstClosing
<1>9. PICK c \in Nat, d \in Nat : c = i - 1 /\ d = i + 2
  BY <1>1, <1>6
<1>10. a <= c /\ c <= k /\ m[1] - 1 = c - a /\ a <= d /\ d <= k /\ m[2] + 1 = (d - a) + 1
  <2>1. a < i /\ i + 2 <= k /\ m[1] = i - a /\ m[2] = (i - a) + 2
    BY <1>3, <1>6
  <2> QED BY <1>1, <1>9, <2>1
<1>11. Part(Span(a, k), 1, m[1] - 1) = Span(a, c)
  BY <1>10, SpanBefore
<1>12. From(Span(a, k), m[2] + 1) = Span(d, k)
  BY <1>10, SpanFrom
<1> QED
  BY <1>4, <1>8, <1>9, <1>11, <1>12 DEF TakesClosing

LEMMA GreatestUpTo ==
    ASSUME NEW n \in Nat, NEW T \in SUBSET (0 .. n), T # {}
    PROVE  \E m \in T : \A x \in T : x <= m
<1> DEFINE Q == {n - x : x \in T}
<1>1. \A x \in T : n - x \in Nat
  OBVIOUS
<1>2. Q \in SUBSET Nat /\ Q # {}
  BY <1>1
<1>3. PICK q \in Q : \A r \in Q : q <= r
  <2> HIDE DEF Q
  <2> QED BY <1>2, LeastNatural
<1>4. PICK m \in T : q = n - m
  OBVIOUS
<1>5. ASSUME NEW x \in T PROVE x <= m
  <2>1. q <= n - x
    BY <1>3
  <2>2. x \in 0 .. n /\ m \in 0 .. n
    OBVIOUS
  <2> QED BY <1>4, <2>1, <2>2
<1> QED
  BY <1>5

(* What may still become an opening tag is held back, from u on.           *)
BoundaryAt(e, k, u) ==
    /\ u \in Nat /\ e <= u /\ u <= k
    /\ u = k \/ IsBeginning(Span(u, k))
    /\ e < k /\ text[k] = "<" => u + 1 = k
    /\ e + 1 < k /\ text[k - 1] = "<" /\ text[k] = "details" => u + 2 = k

LEMMA BeginningIs ==
    ASSUME NEW u, NEW k, Stretch(u, k)
    PROVE  IsBeginning(Span(u, k)) <=>
              \/ k = u + 1 /\ text[k] = "<"
              \/ k = u + 2 /\ text[k - 1] = "<" /\ text[k] = "details"
<1>1. PICK n \in Nat : n = k - u /\ u \in Nat /\ k \in Nat /\ k = u + n
  BY DEF Stretch
<1>2. \A x, piece : Is(Span(u, k), x, piece) <=> x \in 1 .. n /\ text[u + x] = piece
  BY <1>1, SpanReads
<1>3. Len(Span(u, k)) = n
  BY <1>1, SpanIs DEF Stretch
<1>4. (n = 1 <=> k = u + 1) /\ (n = 2 <=> k = u + 2)
  BY <1>1
<1>5. n = 1 => 1 \in 1 .. n /\ u + 1 = k
  BY <1>1
<1>6. n = 2 => 1 \in 1 .. n /\ 2 \in 1 .. n /\ u + 1 = k - 1 /\ u + 2 = k
  BY <1>1
<1> QED
  BY <1>2, <1>3, <1>4, <1>5, <1>6 DEF IsBeginning

LEMMA BracketIs ==
    ASSUME NEW e, NEW k, Stretch(e, k), NEW i, i = LastBracket(Span(e, k))
    PROVE  \/ i = 0 /\ \A x \in 1 .. k - e : text[e + x] # "<"
           \/ /\ i \in 1 .. k - e /\ text[e + i] = "<"
              /\ \A x \in 1 .. k - e : text[e + x] = "<" => x <= i
<1> DEFINE at == {x \in DOMAIN Span(e, k) : Is(Span(e, k), x, "<")}
<1>1. PICK n \in Nat : n = k - e
  BY DEF Stretch
<1>2. \A x : x \in at <=> x \in 1 .. n /\ text[e + x] = "<"
  <2>1. DOMAIN Span(e, k) = 1 .. n
    BY <1>1, SpanIs DEF Stretch
  <2> QED BY <1>1, <2>1, SpanReads
<1>3. i = IF at = {} THEN 0 ELSE CHOOSE x \in at : \A y \in at : y <= x
  BY DEF LastBracket
<1> HIDE DEF at
<1>4. CASE at = {}
  BY <1>1, <1>2, <1>3, <1>4
<1>5. CASE at # {}
  <2>1. at \in SUBSET (0 .. n)
    BY <1>1, <1>2
  <2>2. \E x \in at : \A y \in at : y <= x
    BY <1>5, <2>1, GreatestUpTo
  <2>3. i \in at /\ \A y \in at : y <= i
    BY <1>3, <1>5, <2>2
  <2> QED BY <1>1, <1>2, <2>3
<1> QED
  BY <1>4, <1>5

LEMMA BoundaryIs ==
    ASSUME NEW e, NEW k, Stretch(e, k)
    PROVE  \E u \in Nat : BoundaryAt(e, k, u) /\ SafeBoundary(Span(e, k)) = u - e
<1>1. PICK n \in Nat : /\ n = k - e /\ e \in Nat /\ k \in Nat /\ k = e + n
                       /\ k <= Len(text) /\ TextOK
  BY DEF Stretch
<1>2. PICK b : b = Span(e, k)
  OBVIOUS
<1>3. Len(b) = n
  BY <1>1, <1>2, SpanIs DEF Stretch
<1>4. PICK i : i = LastBracket(b)
  OBVIOUS
<1>5. \/ i = 0 /\ \A x \in 1 .. n : text[e + x] # "<"
      \/ /\ i \in 1 .. n /\ text[e + i] = "<"
         /\ \A x \in 1 .. n : text[e + x] = "<" => x <= i
  BY <1>1, <1>2, <1>4, BracketIs
<1>6. SafeBoundary(b) = IF i # 0 /\ IsBeginning(From(b, i)) THEN i - 1 ELSE n
  BY <1>3, <1>4 DEF SafeBoundary
<1>7. CASE i = 0
  <2>1. SafeBoundary(b) = k - e
    BY <1>1, <1>6, <1>7
  <2>2. \A x \in 1 .. n : text[e + x] # "<"
    BY <1>1, <1>5, <1>7
  <2>3. ASSUME e < k PROVE text[k] # "<"
    <3>1. n \in 1 .. n /\ e + n = k
      BY <1>1, <2>3
    <3>2. text[e + n] # "<"
      BY <2>2, <3>1
    <3> QED BY <3>1, <3>2
  <2>4. ASSUME e + 1 < k PROVE text[k - 1] # "<"
    <3>1. n - 1 \in 1 .. n /\ e + (n - 1) = k - 1
      BY <1>1, <2>4
    <3>2. text[e + (n - 1)] # "<"
      BY <2>2, <3>1
    <3> QED BY <3>1, <3>2
  <2>5. BoundaryAt(e, k, k)
    BY <1>1, <2>3, <2>4 DEF BoundaryAt
  <2> QED BY <1>1, <1>2, <2>1, <2>5
<1>8. CASE i # 0
  <2>1. PICK u \in Nat : u = (e + i) - 1 /\ u + 1 = e + i
    BY <1>1, <1>5, <1>8
  <2>2. e <= u /\ u < k /\ i = (u - e) + 1 /\ i - 1 = u - e /\ Stretch(u, k)
    <3>1. i \in 1 .. k - e
      BY <1>1, <1>5, <1>8
    <3>2. e <= u /\ u < k /\ i = (u - e) + 1 /\ i - 1 = u - e
      BY <1>1, <2>1, <3>1
    <3> QED BY <1>1, <2>1, <3>2 DEF Stretch
  <2>3. From(b, i) = Span(u, k)
    BY <1>1, <1>2, <2>2, SpanFrom
  <2>4. IsBeginning(Span(u, k)) <=>
           \/ k = u + 1 /\ text[k] = "<"
           \/ k = u + 2 /\ text[k - 1] = "<" /\ text[k] = "details"
    BY <2>2, BeginningIs
  <2>5. text[u + 1] = "<" /\ \A x \in 1 .. n : text[e + x] = "<" => e + x <= u + 1
    <3>1. text[e + i] = "<" /\ \A x \in 1 .. n : text[e + x] = "<" => x <= i
      BY <1>5, <1>8
    <3>2. \A x \in 1 .. n : x <= i => e + x <= u + 1
      BY <1>1, <1>5, <1>8, <2>1
    <3> QED BY <2>1, <3>1, <3>2
  <2>6. \A y \in e + 1 .. k : text[y] = "<" => y <= u + 1
    <3>1. SUFFICES ASSUME NEW y \in e + 1 .. k, text[y] = "<" PROVE y <= u + 1
      OBVIOUS
    <3>2. y - e \in 1 .. n /\ e + (y - e) = y
      BY <1>1, <3>1
    <3> QED BY <2>5, <3>1, <3>2
  <2>7. CASE IsBeginning(Span(u, k))
    <3>1. SafeBoundary(b) = u - e
      BY <1>6, <1>8, <2>2, <2>3, <2>7
    <3>2. ASSUME e < k, text[k] = "<" PROVE u + 1 = k
      BY <1>1, <2>2, <2>6, <3>2
    <3>3. ASSUME e + 1 < k, text[k - 1] = "<", text[k] = "details" PROVE u + 2 = k
      <4>1. k # u + 1
        BY <1>1, <2>1, <2>5, <3>3
      <4>2. k - 1 \in e + 1 .. k
        BY <1>1, <3>3
      <4>3. k - 1 <= u + 1
        BY <2>6, <3>3, <4>2
      <4> QED BY <1>1, <2>1, <2>2, <4>1, <4>3
    <3>4. BoundaryAt(e, k, u)
      BY <1>1, <2>2, <2>7, <3>2, <3>3 DEF BoundaryAt
    <3> QED BY <1>2, <3>1, <3>4
  <2>8. CASE ~IsBeginning(Span(u, k))
    <3>1. SafeBoundary(b) = k - e
      BY <1>1, <1>6, <2>3, <2>8
    <3>2. ASSUME e < k, text[k] = "<" PROVE FALSE
      <4>1. k = u + 1
        BY <1>1, <2>2, <2>6, <3>2
      <4> QED BY <2>4, <2>8, <3>2, <4>1
    <3>3. ASSUME e + 1 < k, text[k - 1] = "<", text[k] = "details" PROVE FALSE
      <4>1. k # u + 1
        BY <1>1, <2>1, <2>5, <3>3
      <4>2. k - 1 \in e + 1 .. k
        BY <1>1, <3>3
      <4>3. k - 1 <= u + 1
        BY <2>6, <3>3, <4>2
      <4>4. k = u + 2
        BY <1>1, <2>1, <2>2, <4>1, <4>3
      <4> QED BY <2>4, <2>8, <3>3, <4>4
    <3>4. BoundaryAt(e, k, k)
      BY <1>1, <3>2, <3>3 DEF BoundaryAt
    <3> QED BY <1>1, <1>2, <3>1, <3>4
  <2> QED BY <2>7, <2>8
<1> QED
  BY <1>7, <1>8

-----------------------------------------------------------------------------
(* The splitter between two steps: it holds the body from o to e, has the  *)
(* answer from e to k before it, and has returned q.                       *)

Segs == [kind : {"text", "metadata", "ambiguous"}, at : Seq(Nat)]

SplitAt(o, e, k, w, q) ==
    [buffer |-> Span(e, k), inWrapper |-> w, body |-> Span(o, e), out |-> q]

Places(o, e, k, w) ==
    /\ Stretch(o, e) /\ Stretch(e, k) /\ w \in BOOLEAN /\ (~w => o = e)

GivesUp(o, e, k, w, q, t) ==
    /\ w /\ NoClosing(e, k) /\ k - o > MaxHoldback
    /\ t = SplitAt(k, k, k, FALSE, Append(q, Segment("ambiguous", Span(o, k))))
Holds(o, e, k, w, q, t) ==
    /\ w /\ NoClosing(e, k) /\ k - o <= MaxHoldback
    /\ t = SplitAt(o, k, k, TRUE, q)
Closes(o, e, k, w, q, t, i) ==
    /\ w /\ FirstClosing(e, k, i)
    /\ t = SplitAt(i + 2, i + 2, k, FALSE, Append(q, Classify(Span(o, i - 1))))
Opens(o, e, k, w, q, t, i, j) ==
    /\ ~w /\ FirstOpening(e, k, i, j)
    /\ t = SplitAt(j, j, k, TRUE, q \o TextIfAny(Span(e, i - 1)))
Passes(o, e, k, w, q, t, u) ==
    /\ ~w /\ NoOpening(e, k) /\ BoundaryAt(e, k, u)
    /\ t = SplitAt(u, u, k, FALSE, q \o TextIfAny(Span(e, u)))

LEMMA StepIs ==
    ASSUME NEW o, NEW e, NEW k, NEW w, Places(o, e, k, w), NEW q, NEW t,
           t = Step(SplitAt(o, e, k, w, q))
    PROVE  \/ GivesUp(o, e, k, w, q, t)
           \/ Holds(o, e, k, w, q, t)
           \/ \E i \in Nat : Closes(o, e, k, w, q, t, i)
           \/ \E i, j \in Nat : Opens(o, e, k, w, q, t, i, j)
           \/ \E u \in Nat : Passes(o, e, k, w, q, t, u)
<1>1. /\ o \in Nat /\ e \in Nat /\ k \in Nat /\ o <= e /\ e <= k /\ Stretch(e, k)
      /\ Stretch(o, e) /\ w \in BOOLEAN /\ (~w => o = e)
  BY DEF Places, Stretch
<1>2. PICK s : s = SplitAt(o, e, k, w, q)
  OBVIOUS
<1>3. /\ s = [buffer |-> s.buffer, inWrapper |-> s.inWrapper, body |-> s.body, out |-> s.out]
      /\ s.buffer = Span(e, k) /\ s.inWrapper = w /\ s.body = Span(o, e) /\ s.out = q
  BY <1>2 DEF SplitAt
<1>4. t = Step(s)
  BY <1>2
<1>5. CASE w
  <2>1. Span(o, e) \o Span(e, k) = Span(o, k)
    BY <1>1, SpanConcat
  <2>2. Len(Span(o, k)) = k - o
    BY <1>1, SpanIs
  <2>3. Span(k, k) = << >>
    BY <1>1, SpanEmpty
  <2>4. s.body \o s.buffer = Span(o, k) /\ Len(s.body \o s.buffer) = k - o
    BY <1>3, <2>1, <2>2
  <2>5. CASE Closings(Span(e, k)) = {}
    <3>1. NoClosing(e, k)
      BY <1>1, <2>5, NoClosingIs
    <3>2. CASE k - o > MaxHoldback
      <4>1. t = [buffer |-> << >>, inWrapper |-> FALSE, body |-> << >>,
                 out |-> Append(q, Segment("ambiguous", Span(o, k)))]
        BY <1>3, <1>4, <1>5, <2>1, <2>5, <2>4, <3>2 DEF Step
      <4> QED BY <1>5, <2>3, <3>1, <3>2, <4>1 DEF GivesUp, SplitAt
    <3>3. CASE ~(k - o > MaxHoldback)
      <4>1. t = [s EXCEPT !.buffer = << >>, !.body = Span(o, k)]
        BY <1>3, <1>4, <1>5, <2>1, <2>5, <2>4, <3>3 DEF Step
      <4>2. t = [buffer |-> << >>, inWrapper |-> w, body |-> Span(o, k), out |-> q]
        BY <1>3, <4>1
      <4>3. k - o <= MaxHoldback
        BY <1>1, <3>3, HoldbackAssumption
      <4> QED BY <1>1, <1>5, <2>3, <3>1, <4>2, <4>3 DEF Holds, SplitAt
    <3> QED BY <3>2, <3>3
  <2>6. CASE Closings(Span(e, k)) # {}
    <3>1. PICK i \in Nat : TakesClosing(e, k, i)
      BY <1>1, <2>6, ClosingTaken
    <3>2. PICK c : c = First(Closings(Span(e, k)))
      OBVIOUS
    <3>3. t = [buffer |-> From(Span(e, k), c[2] + 1), inWrapper |-> FALSE, body |-> << >>,
               out |-> Append(q, Classify(Span(o, e) \o Part(Span(e, k), 1, c[1] - 1)))]
      BY <1>3, <1>4, <1>5, <2>6, <3>2 DEF Step
    <3>4. /\ FirstClosing(e, k, i) /\ Part(Span(e, k), 1, c[1] - 1) = Span(e, i - 1)
          /\ From(Span(e, k), c[2] + 1) = Span(i + 2, k)
      BY <3>1, <3>2 DEF TakesClosing
    <3>5. PICK x \in Nat, y \in Nat : x = i - 1 /\ y = i + 2 /\ e <= x
      BY <1>1, <3>4 DEF FirstClosing
    <3>6. Span(o, e) \o Span(e, x) = Span(o, x)
      BY <1>1, <3>5, SpanConcat
    <3>7. Span(y, y) = << >>
      BY SpanEmpty
    <3>8. t = SplitAt(i + 2, i + 2, k, FALSE, Append(q, Classify(Span(o, i - 1))))
      BY <3>3, <3>4, <3>5, <3>6, <3>7 DEF SplitAt
    <3> QED BY <1>5, <3>4, <3>8 DEF Closes
  <2> QED BY <2>5, <2>6
<1>6. CASE ~w
  <2>1. Span(o, e) = << >> /\ s.body = << >>
    BY <1>1, <1>3, <1>6, SpanEmpty
  <2>2. CASE Openings(Span(e, k)) # {}
    <3>1. PICK i \in Nat, j \in Nat : TakesOpening(e, k, i, j)
      BY <1>1, <2>2, OpeningTaken
    <3>2. PICK c : c = First(Openings(Span(e, k)))
      OBVIOUS
    <3>3. t = [s EXCEPT !.out = q \o TextIfAny(Part(Span(e, k), 1, c[1] - 1)),
                        !.buffer = From(Span(e, k), c[2] + 1), !.inWrapper = TRUE]
      BY <1>3, <1>4, <1>6, <2>2, <3>2 DEF Step
    <3>4. /\ FirstOpening(e, k, i, j) /\ Part(Span(e, k), 1, c[1] - 1) = Span(e, i - 1)
          /\ From(Span(e, k), c[2] + 1) = Span(j, k)
      BY <3>1, <3>2 DEF TakesOpening
    <3>5. Span(j, j) = << >>
      BY SpanEmpty
    <3>6. t = [buffer |-> Span(j, k), inWrapper |-> TRUE, body |-> << >>,
               out |-> q \o TextIfAny(Span(e, i - 1))]
      BY <1>3, <2>1, <3>3, <3>4
    <3> QED BY <1>6, <3>4, <3>5, <3>6 DEF Opens, SplitAt
  <2>3. CASE Openings(Span(e, k)) = {}
    <3>1. NoOpening(e, k)
      BY <1>1, <2>3, NoOpeningIs
    <3>2. PICK u \in Nat : BoundaryAt(e, k, u) /\ SafeBoundary(Span(e, k)) = u - e
      BY <1>1, BoundaryIs
    <3>3. t = [s EXCEPT !.out = q \o TextIfAny(Part(Span(e, k), 1, u - e)),
                        !.buffer = From(Span(e, k), (u - e) + 1)]
      BY <1>3, <1>4, <1>6, <2>3, <3>2 DEF Step
    <3>4. e <= u /\ u <= k
      BY <3>2 DEF BoundaryAt
    <3>5. Part(Span(e, k), 1, u - e) = Span(e, u)
      BY <1>1, <3>4, SpanBefore
    <3>6. From(Span(e, k), (u - e) + 1) = Span(u, k)
      BY <1>1, <3>4, SpanFrom
    <3>7. Span(u, u) = << >>
      BY SpanEmpty
    <3>8. t = [buffer |-> Span(u, k), inWrapper |-> FALSE, body |-> << >>,
               out |-> q \o TextIfAny(Span(e, u))]
      BY <1>1, <1>3, <1>6, <2>1, <3>3, <3>5, <3>6
    <3> QED BY <1>6, <3>1, <3>2, <3>7, <3>8 DEF Passes, SplitAt
  <2> QED BY <2>2, <2>3
<1> QED
  BY <1>1, <1>5, <1>6

-----------------------------------------------------------------------------
(* Segments: their text, and their wrappers.                               *)

TextPart == [x \in Segs |-> IF x.kind = "text" THEN x.at ELSE << >>]
WrapperPart(kind) ==
    [x \in Segs |-> IF x.kind = kind /\ x.at # << >> THEN << x.at >> ELSE << >>]

LEMMA SegmentIs ==
    ASSUME NEW kind \in {"text", "metadata", "ambiguous"}, NEW at \in Seq(Nat)
    PROVE  /\ Segment(kind, at) \in Segs
           /\ Segment(kind, at).kind = kind /\ Segment(kind, at).at = at
BY DEF Segment, Segs

LEMMA PartTypes ==
    /\ TextPart \in [Segs -> Seq(Nat)]
    /\ \A kind : WrapperPart(kind) \in [Segs -> Seq(Seq(Nat))]
<1>1. \A x \in Segs : x.at \in Seq(Nat)
  BY DEF Segs
<1>2. << >> \in Seq(Nat) /\ << >> \in Seq(Seq(Nat))
  BY EmptySeq
<1>3. \A a \in Seq(Nat) : << a >> \in Seq(Seq(Nat))
  OBVIOUS
<1>4. TextPart \in [Segs -> Seq(Nat)]
  BY <1>1, <1>2 DEF TextPart
<1>5. ASSUME NEW kind PROVE WrapperPart(kind) \in [Segs -> Seq(Seq(Nat))]
  <2>1. \A x \in Segs : (IF x.kind = kind /\ x.at # << >> THEN << x.at >> ELSE << >>)
                            \in Seq(Seq(Nat))
    BY <1>1, <1>2, <1>3
  <2> QED BY <2>1 DEF WrapperPart
<1> QED
  BY <1>4, <1>5

LEMMA ViewsAre ==
    ASSUME NEW s \in Seq(Segs)
    PROVE  /\ TextOf(s) = Mapped(s, TextPart)
           /\ \A kind : Wrappers(s, kind) = Mapped(s, WrapperPart(kind))
<1>1. \A i \in DOMAIN s : s[i] \in Segs
  BY LenProperties, ElementOfSeq
<1>2. [i \in DOMAIN s |-> IF s[i].kind = "text" THEN s[i].at ELSE << >>]
        = [i \in DOMAIN s |-> TextPart[s[i]]]
  BY <1>1 DEF TextPart
<1>3. TextOf(s) = Mapped(s, TextPart)
  BY <1>2 DEF TextOf, Mapped
<1>4. ASSUME NEW kind PROVE Wrappers(s, kind) = Mapped(s, WrapperPart(kind))
  <2>1. [i \in DOMAIN s |-> IF s[i].kind = kind /\ s[i].at # << >>
                              THEN << s[i].at >> ELSE << >>]
          = [i \in DOMAIN s |-> WrapperPart(kind)[s[i]]]
    BY <1>1 DEF WrapperPart
  <2> QED BY <2>1 DEF Wrappers, Mapped
<1> QED
  BY <1>3, <1>4

LEMMA TextOfType ==
    ASSUME NEW s \in Seq(Segs)
    PROVE  TextOf(s) \in Seq(Nat)
BY ViewsAre, PartTypes, MappedType

LEMMA WrappersType ==
    ASSUME NEW s \in Seq(Segs), NEW kind
    PROVE  Wrappers(s, kind) \in Seq(Seq(Nat))
<1>1. WrapperPart(kind) \in [Segs -> Seq(Seq(Nat))]
  BY PartTypes
<1>2. Mapped(s, WrapperPart(kind)) \in Seq(Seq(Nat))
  BY <1>1, MappedType
<1> QED
  BY <1>2, ViewsAre

LEMMA TextOfConcat ==
    ASSUME NEW s \in Seq(Segs), NEW t \in Seq(Segs)
    PROVE  TextOf(s \o t) = TextOf(s) \o TextOf(t)
<1>1. s \o t \in Seq(Segs)
  BY ConcatProperties
<1>2. Mapped(s \o t, TextPart) = Mapped(s, TextPart) \o Mapped(t, TextPart)
  BY PartTypes, MappedConcat
<1> QED
  BY <1>1, <1>2, ViewsAre

LEMMA WrappersConcat ==
    ASSUME NEW s \in Seq(Segs), NEW t \in Seq(Segs), NEW kind
    PROVE  Wrappers(s \o t, kind) = Wrappers(s, kind) \o Wrappers(t, kind)
<1>1. PICK c : c = s \o t
  OBVIOUS
<1>2. c \in Seq(Segs)
  BY <1>1, ConcatProperties
<1>3. PICK H : H = WrapperPart(kind)
  OBVIOUS
<1>4. H \in [Segs -> Seq(Seq(Nat))]
  BY <1>3, PartTypes
<1>5. Mapped(s \o t, H) = Mapped(s, H) \o Mapped(t, H)
  BY <1>4, MappedConcat
<1>6. /\ Wrappers(s, kind) = Mapped(s, H) /\ Wrappers(t, kind) = Mapped(t, H)
      /\ Wrappers(c, kind) = Mapped(c, H)
  BY <1>2, <1>3, ViewsAre
<1> QED
  BY <1>1, <1>5, <1>6

LEMMA ViewsOfOne ==
    ASSUME NEW x \in Segs
    PROVE  /\ TextOf(<< x >>) = IF x.kind = "text" THEN x.at ELSE << >>
           /\ \A kind : Wrappers(<< x >>, kind) =
                 IF x.kind = kind /\ x.at # << >> THEN << x.at >> ELSE << >>
<1>1. PICK s : s = << x >>
  OBVIOUS
<1>2. s \in Seq(Segs)
  BY <1>1
<1>3. Mapped(<< x >>, TextPart) = TextPart[x]
  BY PartTypes, MappedOne
<1>4. TextPart[x] = IF x.kind = "text" THEN x.at ELSE << >>
  BY DEF TextPart
<1>5. ASSUME NEW kind
      PROVE  Wrappers(<< x >>, kind) =
                IF x.kind = kind /\ x.at # << >> THEN << x.at >> ELSE << >>
  <2>1. PICK H : H = WrapperPart(kind)
    OBVIOUS
  <2>2. H \in [Segs -> Seq(Seq(Nat))]
    BY <2>1, PartTypes
  <2>3. Mapped(<< x >>, H) = H[x]
    BY <2>2, MappedOne
  <2>4. H[x] = IF x.kind = kind /\ x.at # << >> THEN << x.at >> ELSE << >>
    BY <2>1 DEF WrapperPart
  <2>5. Wrappers(s, kind) = Mapped(s, H)
    BY <1>2, <2>1, ViewsAre
  <2> QED BY <1>1, <2>3, <2>4, <2>5
<1> QED
  BY <1>1, <1>2, <1>3, <1>4, <1>5, ViewsAre

LEMMA ViewsOfNone ==
    /\ TextOf(<< >>) = << >>
    /\ \A kind : Wrappers(<< >>, kind) = << >>
<1>1. PICK s : s = << >>
  OBVIOUS
<1>2. s \in Seq(Segs)
  BY <1>1, EmptySeq
<1>3. Mapped(<< >>, TextPart) = << >>
  BY PartTypes, MappedEmpty
<1>4. ASSUME NEW kind PROVE Wrappers(<< >>, kind) = << >>
  <2>1. PICK H : H = WrapperPart(kind)
    OBVIOUS
  <2>2. H \in [Segs -> Seq(Seq(Nat))]
    BY <2>1, PartTypes
  <2>3. Mapped(<< >>, H) = << >>
    BY <2>2, MappedEmpty
  <2>4. Wrappers(s, kind) = Mapped(s, H)
    BY <1>2, <2>1, ViewsAre
  <2> QED BY <1>1, <2>3, <2>4
<1> QED
  BY <1>1, <1>2, <1>3, <1>4, ViewsAre

(* Two sequences of segments that say the same.                            *)
Same(s, t) ==
    /\ TextOf(s) = TextOf(t)
    /\ \A kind \in {"metadata", "ambiguous"} : Wrappers(s, kind) = Wrappers(t, kind)

LEMMA SameConcat ==
    ASSUME NEW s \in Seq(Segs), NEW t \in Seq(Segs), NEW u \in Seq(Segs), Same(s, t)
    PROVE  Same(u \o s, u \o t)
<1>1. TextOf(u \o s) = TextOf(u \o t)
  <2>1. TextOf(u \o s) = TextOf(u) \o TextOf(s) /\ TextOf(u \o t) = TextOf(u) \o TextOf(t)
    BY TextOfConcat
  <2> QED BY <2>1 DEF Same
<1>2. ASSUME NEW kind \in {"metadata", "ambiguous"}
      PROVE  Wrappers(u \o s, kind) = Wrappers(u \o t, kind)
  <2>1. Wrappers(u \o s, kind) = Wrappers(u, kind) \o Wrappers(s, kind)
    BY WrappersConcat
  <2>2. Wrappers(u \o t, kind) = Wrappers(u, kind) \o Wrappers(t, kind)
    BY WrappersConcat
  <2> QED BY <2>1, <2>2 DEF Same
<1> QED
  BY <1>1, <1>2 DEF Same

LEMMA TextIfAnyIs ==
    ASSUME NEW b \in Seq(Nat)
    PROVE  /\ TextIfAny(b) \in Seq(Segs)
           /\ TextOf(TextIfAny(b)) = b
           /\ \A kind \in {"metadata", "ambiguous"} : Wrappers(TextIfAny(b), kind) = << >>
<1>1. CASE b = << >>
  <2>1. TextIfAny(b) = << >> /\ << >> \in Seq(Segs)
    BY <1>1, EmptySeq DEF TextIfAny
  <2> QED BY <1>1, <2>1, ViewsOfNone
<1>2. CASE b # << >>
  <2>1. PICK x : x = Segment("text", b)
    OBVIOUS
  <2>2. x \in Segs /\ x.kind = "text" /\ x.at = b
    BY <2>1, SegmentIs
  <2>3. TextIfAny(b) = << x >>
    BY <1>2, <2>1 DEF TextIfAny
  <2>4. << x >> \in Seq(Segs)
    BY <2>2
  <2> QED BY <2>2, <2>3, <2>4, ViewsOfOne
<1> QED
  BY <1>1, <1>2

LEMMA ClassifyType ==
    ASSUME NEW b \in Seq(Nat)
    PROVE  Classify(b) \in Segs /\ Classify(b).kind # "text" /\ Classify(b).at = b
BY DEF Classify, Segs, Segment

-----------------------------------------------------------------------------
(* segment_text from one place of the answer to the end of a stretch.      *)

SegAt(c, n, q) == [buffer |-> Span(c, n), out |-> q]

(* What an opening tag leads to.                                           *)
TheClosing(a, n) == CHOOSE x \in Nat : FirstClosing(a, n, x)
Inner(a, n) ==
    IF NoClosing(a, n) THEN << Segment("ambiguous", Span(a, n)) >>
    ELSE << Classify(Span(a, TheClosing(a, n) - 1)) >>
         \o Segments(Span(TheClosing(a, n) + 2, n))

LEMMA FirstClosingUnique ==
    ASSUME NEW a, NEW n, NEW i \in Nat, NEW x \in Nat, FirstClosing(a, n, i), FirstClosing(a, n, x)
    PROVE  x = i
BY DEF FirstClosing

LEMMA FirstOpeningUnique ==
    ASSUME NEW a, NEW n, NEW i \in Nat, NEW j \in Nat, NEW x \in Nat, NEW y \in Nat,
           FirstOpening(a, n, i, j), FirstOpening(a, n, x, y)
    PROVE  x = i /\ y = j
<1>1. i <= x /\ x <= i
  BY DEF FirstOpening
<1>2. x = i
  BY <1>1
<1>3. /\ i + 2 <= j /\ text[j] = ">" /\ \A z \in i .. j - 1 : text[z] # ">"
      /\ i + 2 <= y /\ text[y] = ">" /\ \A z \in i .. y - 1 : text[z] # ">"
  BY <1>2 DEF FirstOpening, OpeningAt
<1>4. ~(j < y) /\ ~(y < j)
  <2>1. j < y => j \in i .. y - 1
    BY <1>3
  <2>2. y < j => y \in i .. j - 1
    BY <1>3
  <2> QED BY <1>3, <2>1, <2>2
<1> QED
  BY <1>2, <1>4

SegsEnd(c, n, q, t) ==
    NoOpening(c, n) /\ t = SegAt(n, n, q \o TextIfAny(Span(c, n)))
SegsOpen(c, n, q, t, i, j) ==
    /\ FirstOpening(c, n, i, j) /\ NoClosing(j, n)
    /\ t = SegAt(n, n, (q \o TextIfAny(Span(c, i - 1)))
                          \o << Segment("ambiguous", Span(j, n)) >>)
SegsWrap(c, n, q, t, i, j, x) ==
    /\ FirstOpening(c, n, i, j) /\ FirstClosing(j, n, x)
    /\ t = SegAt(x + 2, n, (q \o TextIfAny(Span(c, i - 1)))
                              \o << Classify(Span(j, x - 1)) >>)

LEMMA NextSegmentsIs ==
    ASSUME NEW c, NEW n, Stretch(c, n), NEW q, NEW t, t = NextSegments(SegAt(c, n, q))
    PROVE  \/ SegsEnd(c, n, q, t)
           \/ \E i, j \in Nat : SegsOpen(c, n, q, t, i, j)
           \/ \E i, j, x \in Nat : SegsWrap(c, n, q, t, i, j, x)
<1>1. c \in Nat /\ n \in Nat /\ c <= n /\ n <= Len(text) /\ TextOK
  BY DEF Stretch
<1>2. PICK s : s = SegAt(c, n, q)
  OBVIOUS
<1>3. s.buffer = Span(c, n) /\ s.out = q /\ t = NextSegments(s)
  BY <1>2 DEF SegAt
<1>4. Span(n, n) = << >>
  BY <1>1, SpanEmpty
<1>5. CASE Openings(Span(c, n)) = {}
  <2>1. t = [buffer |-> << >>, out |-> q \o TextIfAny(Span(c, n))]
    BY <1>3, <1>5 DEF NextSegments
  <2>2. NoOpening(c, n)
    BY <1>5, NoOpeningIs
  <2> QED BY <1>4, <2>1, <2>2 DEF SegsEnd, SegAt
<1>6. CASE Openings(Span(c, n)) # {}
  <2>1. PICK i \in Nat, j \in Nat : TakesOpening(c, n, i, j)
    BY <1>6, OpeningTaken
  <2>2. PICK m : m = First(Openings(Span(c, n)))
    OBVIOUS
  <2>3. /\ FirstOpening(c, n, i, j) /\ Part(Span(c, n), 1, m[1] - 1) = Span(c, i - 1)
        /\ From(Span(c, n), m[2] + 1) = Span(j, n)
    BY <2>1, <2>2 DEF TakesOpening
  <2>4. Stretch(j, n)
    BY <1>1, <2>3 DEF FirstOpening, Stretch
  <2>5. CASE Closings(Span(j, n)) = {}
    <3>1. t = [buffer |-> << >>,
               out |-> (q \o TextIfAny(Span(c, i - 1))) \o << Segment("ambiguous", Span(j, n)) >>]
      BY <1>3, <1>6, <2>2, <2>3, <2>5 DEF NextSegments
    <3>2. NoClosing(j, n)
      BY <2>4, <2>5, NoClosingIs
    <3>3. SegsOpen(c, n, q, t, i, j)
      BY <1>4, <2>3, <3>1, <3>2 DEF SegsOpen, SegAt
    <3> QED BY <3>3
  <2>6. CASE Closings(Span(j, n)) # {}
    <3>1. PICK x \in Nat : TakesClosing(j, n, x)
      BY <2>4, <2>6, ClosingTaken
    <3>2. PICK d : d = First(Closings(Span(j, n)))
      OBVIOUS
    <3>3. t = [buffer |-> From(Span(j, n), d[2] + 1),
               out |-> (q \o TextIfAny(Span(c, i - 1)))
                          \o << Classify(Part(Span(j, n), 1, d[1] - 1)) >>]
      BY <1>3, <1>6, <2>2, <2>3, <2>6, <3>2 DEF NextSegments
    <3>4. /\ FirstClosing(j, n, x) /\ Part(Span(j, n), 1, d[1] - 1) = Span(j, x - 1)
          /\ From(Span(j, n), d[2] + 1) = Span(x + 2, n)
      BY <3>1, <3>2 DEF TakesClosing
    <3>5. SegsWrap(c, n, q, t, i, j, x)
      BY <2>3, <3>3, <3>4 DEF SegsWrap, SegAt
    <3> QED BY <3>5
  <2> QED BY <2>5, <2>6
<1> QED
  BY <1>5, <1>6

(* What one round adds to the segments, and where it goes on.              *)
AddsEnd(c, n, d, r) ==
    NoOpening(c, n) /\ d = n /\ r = TextIfAny(Span(c, n))
AddsOpen(c, n, d, r, i, j) ==
    /\ FirstOpening(c, n, i, j) /\ NoClosing(j, n) /\ d = n
    /\ r = TextIfAny(Span(c, i - 1)) \o << Segment("ambiguous", Span(j, n)) >>
AddsWrap(c, n, d, r, i, j, x) ==
    /\ FirstOpening(c, n, i, j) /\ FirstClosing(j, n, x) /\ d = x + 2
    /\ r = TextIfAny(Span(c, i - 1)) \o << Classify(Span(j, x - 1)) >>
Adds(c, n, d, r) ==
    \/ AddsEnd(c, n, d, r)
    \/ \E i, j \in Nat : AddsOpen(c, n, d, r, i, j)
    \/ \E i, j, x \in Nat : AddsWrap(c, n, d, r, i, j, x)

LEMMA OpeningNotNone ==
    ASSUME NEW a, NEW k \in Nat, NEW i \in Nat, NEW j \in Nat, FirstOpening(a, k, i, j)
    PROVE  ~NoOpening(a, k)
BY DEF FirstOpening, NoOpening

LEMMA ClosingNotNone ==
    ASSUME NEW a, NEW k \in Nat, NEW i \in Nat, FirstClosing(a, k, i)
    PROVE  ~NoClosing(a, k)
BY DEF FirstClosing, NoClosing

LEMMA SpanType ==
    ASSUME NEW a, NEW k, Stretch(a, k)
    PROVE  Span(a, k) \in Seq(Nat) /\ Len(Span(a, k)) = k - a
BY SpanIs DEF Stretch

LEMMA OneType ==
    ASSUME NEW S, NEW x \in S
    PROVE  << x >> \in Seq(S)
OBVIOUS

LEMMA ConcatType ==
    ASSUME NEW S, NEW s \in Seq(S), NEW t \in Seq(S)
    PROVE  s \o t \in Seq(S)
BY ConcatProperties

Three(S, a, b, c) == a \in Seq(S) /\ b \in Seq(S) /\ c \in Seq(S)

Assoc(a, b, c) == (a \o b) \o c = a \o (b \o c)

LEMMA ConcatAssoc ==
    ASSUME NEW S, NEW a, NEW b, NEW c, Three(S, a, b, c)
    PROVE  Assoc(a, b, c)
BY SMTT(20) DEF Three, Assoc

LEMMA AddsType ==
    ASSUME NEW c, NEW n, Stretch(c, n), NEW d, NEW r, Adds(c, n, d, r)
    PROVE  /\ Stretch(d, n) /\ r \in Seq(Segs)
           /\ c < d \/ (c = n /\ d = n /\ r = << >>)
<1>1. c \in Nat /\ n \in Nat /\ c <= n /\ n <= Len(text) /\ TextOK
  BY DEF Stretch
<1>2. CASE AddsEnd(c, n, d, r)
  <2>1. d = n /\ r = TextIfAny(Span(c, n)) /\ Span(c, n) \in Seq(Nat)
    BY <1>2, SpanType DEF AddsEnd
  <2>2. r \in Seq(Segs) /\ Stretch(d, n)
    BY <1>1, <2>1, TextIfAnyIs DEF Stretch
  <2>3. c = n => Span(c, n) = << >> /\ r = << >>
    BY <1>1, <2>1, SpanEmpty DEF TextIfAny
  <2> QED BY <1>1, <2>1, <2>2, <2>3
<1>3. ASSUME NEW i \in Nat, NEW j \in Nat, FirstOpening(c, n, i, j)
      PROVE  /\ TextIfAny(Span(c, i - 1)) \in Seq(Segs) /\ Stretch(j, n) /\ c < j
  <2>1. PICK x \in Nat : x = i - 1 /\ c <= x /\ x <= n /\ c < j /\ j <= n
    BY <1>1, <1>3 DEF FirstOpening, OpeningAt
  <2>2. Stretch(c, x) /\ Stretch(j, n)
    BY <1>1, <2>1 DEF Stretch
  <2>3. Span(c, x) \in Seq(Nat)
    BY <2>2, SpanType
  <2> QED BY <2>1, <2>2, <2>3, TextIfAnyIs
<1>4. ASSUME NEW i \in Nat, NEW j \in Nat, AddsOpen(c, n, d, r, i, j)
      PROVE  Stretch(d, n) /\ r \in Seq(Segs) /\ c < d
  <2>1. TextIfAny(Span(c, i - 1)) \in Seq(Segs) /\ Stretch(j, n) /\ c < j
    BY <1>3, <1>4 DEF AddsOpen
  <2>2. Segment("ambiguous", Span(j, n)) \in Segs
    BY <2>1, SpanType, SegmentIs
  <2>3. r \in Seq(Segs)
    BY <1>4, <2>1, <2>2, OneType, ConcatType DEF AddsOpen
  <2> QED BY <1>1, <1>4, <2>1, <2>3 DEF AddsOpen, Stretch
<1>5. ASSUME NEW i \in Nat, NEW j \in Nat, NEW x \in Nat, AddsWrap(c, n, d, r, i, j, x)
      PROVE  Stretch(d, n) /\ r \in Seq(Segs) /\ c < d
  <2>1. TextIfAny(Span(c, i - 1)) \in Seq(Segs) /\ Stretch(j, n) /\ c < j
    BY <1>3, <1>5 DEF AddsWrap
  <2>2. PICK y \in Nat : y = x - 1 /\ j <= y /\ y <= n /\ d = x + 2 /\ d <= n
    BY <1>1, <1>5, <2>1 DEF AddsWrap, FirstClosing, Stretch
  <2>3. Stretch(j, y) /\ Stretch(d, n) /\ c < d
    BY <1>1, <2>1, <2>2 DEF Stretch
  <2>4. Classify(Span(j, y)) \in Segs
    BY <2>3, SpanType, ClassifyType
  <2>5. r \in Seq(Segs)
    BY <1>5, <2>1, <2>2, <2>4, OneType, ConcatType DEF AddsWrap
  <2> QED BY <2>3, <2>5
<1> QED
  BY <1>2, <1>4, <1>5, <1>1 DEF Adds

LEMMA AddsUnique ==
    ASSUME NEW c, NEW n, Stretch(c, n), NEW d, NEW r, Adds(c, n, d, r),
           NEW e, NEW s, Adds(c, n, e, s)
    PROVE  d = e /\ r = s
<1>1. n \in Nat
  BY DEF Stretch
<1>2. CASE AddsEnd(c, n, d, r)
  <2>1. ~ \E i, j \in Nat : FirstOpening(c, n, i, j)
    BY <1>1, <1>2, OpeningNotNone DEF AddsEnd
  <2>2. AddsEnd(c, n, e, s)
    BY <2>1 DEF Adds, AddsOpen, AddsWrap
  <2> QED BY <1>2, <2>2 DEF AddsEnd
<1>3. ASSUME NEW i \in Nat, NEW j \in Nat, AddsOpen(c, n, d, r, i, j) PROVE d = e /\ r = s
  <2>1. ~AddsEnd(c, n, e, s)
    BY <1>1, <1>3, OpeningNotNone DEF AddsEnd, AddsOpen
  <2>2. ASSUME NEW x \in Nat, NEW y \in Nat, FirstOpening(c, n, x, y) PROVE x = i /\ y = j
    BY <1>3, <2>2, FirstOpeningUnique DEF AddsOpen
  <2>3. ASSUME NEW x \in Nat, NEW y \in Nat, AddsOpen(c, n, e, s, x, y) PROVE d = e /\ r = s
    BY <1>3, <2>2, <2>3 DEF AddsOpen
  <2>4. ASSUME NEW x \in Nat, NEW y \in Nat, NEW z \in Nat, AddsWrap(c, n, e, s, x, y, z)
        PROVE  FALSE
    <3>1. x = i /\ y = j
      BY <2>2, <2>4 DEF AddsWrap
    <3>2. FirstClosing(j, n, z) /\ NoClosing(j, n)
      BY <1>3, <2>4, <3>1 DEF AddsWrap, AddsOpen
    <3> QED BY <1>1, <3>2, ClosingNotNone
  <2> QED BY <2>1, <2>3, <2>4 DEF Adds
<1>4. ASSUME NEW i \in Nat, NEW j \in Nat, NEW k \in Nat, AddsWrap(c, n, d, r, i, j, k)
      PROVE  d = e /\ r = s
  <2>1. ~AddsEnd(c, n, e, s)
    BY <1>1, <1>4, OpeningNotNone DEF AddsEnd, AddsWrap
  <2>2. ASSUME NEW x \in Nat, NEW y \in Nat, FirstOpening(c, n, x, y) PROVE x = i /\ y = j
    BY <1>4, <2>2, FirstOpeningUnique DEF AddsWrap
  <2>3. ASSUME NEW x \in Nat, NEW y \in Nat, AddsOpen(c, n, e, s, x, y) PROVE FALSE
    <3>1. x = i /\ y = j
      BY <2>2, <2>3 DEF AddsOpen
    <3>2. FirstClosing(j, n, k) /\ NoClosing(j, n)
      BY <1>4, <2>3, <3>1 DEF AddsWrap, AddsOpen
    <3> QED BY <1>1, <3>2, ClosingNotNone
  <2>4. ASSUME NEW x \in Nat, NEW y \in Nat, NEW z \in Nat, AddsWrap(c, n, e, s, x, y, z)
        PROVE  d = e /\ r = s
    <3>1. x = i /\ y = j
      BY <2>2, <2>4 DEF AddsWrap
    <3>2. z = k
      BY <1>4, <2>4, <3>1, FirstClosingUnique DEF AddsWrap
    <3> QED BY <1>4, <2>4, <3>1, <3>2 DEF AddsWrap
  <2> QED BY <2>1, <2>3, <2>4 DEF Adds
<1> QED
  BY <1>2, <1>3, <1>4 DEF Adds

LEMMA NextSegmentsAdds ==
    ASSUME NEW c, NEW n, Stretch(c, n), NEW q \in Seq(Segs)
    PROVE  \E d, r : Adds(c, n, d, r) /\ NextSegments(SegAt(c, n, q)) = SegAt(d, n, q \o r)
<1>1. PICK t : t = NextSegments(SegAt(c, n, q))
  OBVIOUS
<1>2. \/ SegsEnd(c, n, q, t)
      \/ \E i, j \in Nat : SegsOpen(c, n, q, t, i, j)
      \/ \E i, j, x \in Nat : SegsWrap(c, n, q, t, i, j, x)
  BY <1>1, NextSegmentsIs
<1>3. c \in Nat /\ n \in Nat /\ c <= n /\ n <= Len(text) /\ TextOK
  BY DEF Stretch
<1>4. CASE SegsEnd(c, n, q, t)
  <2>1. PICK r : r = TextIfAny(Span(c, n))
    OBVIOUS
  <2>2. AddsEnd(c, n, n, r) /\ t = SegAt(n, n, q \o r)
    BY <1>4, <2>1 DEF SegsEnd, AddsEnd
  <2> QED BY <1>1, <2>2 DEF Adds
<1>5. ASSUME NEW i \in Nat, NEW j \in Nat, FirstOpening(c, n, i, j)
      PROVE  TextIfAny(Span(c, i - 1)) \in Seq(Segs) /\ Stretch(j, n)
  <2>1. PICK x \in Nat : x = i - 1 /\ c <= x /\ x <= n /\ c < j /\ j <= n
    BY <1>3, <1>5 DEF FirstOpening, OpeningAt
  <2>2. Stretch(c, x) /\ Stretch(j, n)
    BY <1>3, <2>1 DEF Stretch
  <2>3. Span(c, x) \in Seq(Nat)
    BY <2>2, SpanType
  <2> QED BY <2>1, <2>2, <2>3, TextIfAnyIs
<1>6. ASSUME NEW i \in Nat, NEW j \in Nat, SegsOpen(c, n, q, t, i, j)
      PROVE  \E d, r : Adds(c, n, d, r) /\ t = SegAt(d, n, q \o r)
  <2>1. PICK p, w : p = TextIfAny(Span(c, i - 1)) /\ w = << Segment("ambiguous", Span(j, n)) >>
    OBVIOUS
  <2>2. p \in Seq(Segs) /\ Stretch(j, n)
    BY <1>5, <1>6, <2>1 DEF SegsOpen
  <2>3. w \in Seq(Segs)
    BY <2>1, <2>2, SpanType, SegmentIs, OneType
  <2>4. (q \o p) \o w = q \o (p \o w)
    <3>1. Three(Segs, q, p, w)
      BY <2>2, <2>3 DEF Three
    <3> QED BY <3>1, ConcatAssoc DEF Assoc
  <2>5. AddsOpen(c, n, n, p \o w, i, j) /\ t = SegAt(n, n, q \o (p \o w))
    BY <1>6, <2>1, <2>4 DEF SegsOpen, AddsOpen
  <2> QED BY <2>5 DEF Adds
<1>7. ASSUME NEW i \in Nat, NEW j \in Nat, NEW x \in Nat, SegsWrap(c, n, q, t, i, j, x)
      PROVE  \E d, r : Adds(c, n, d, r) /\ t = SegAt(d, n, q \o r)
  <2>1. PICK p, w : p = TextIfAny(Span(c, i - 1)) /\ w = << Classify(Span(j, x - 1)) >>
    OBVIOUS
  <2>2. p \in Seq(Segs) /\ Stretch(j, n)
    BY <1>5, <1>7, <2>1 DEF SegsWrap
  <2>3. w \in Seq(Segs)
    <3>1. PICK y \in Nat : y = x - 1 /\ j <= y /\ y <= n
      BY <1>3, <1>7, <2>2 DEF SegsWrap, FirstClosing, Stretch
    <3>2. Stretch(j, y)
      BY <1>3, <2>2, <3>1 DEF Stretch
    <3> QED BY <2>1, <3>1, <3>2, SpanType, ClassifyType, OneType
  <2>4. (q \o p) \o w = q \o (p \o w)
    <3>1. Three(Segs, q, p, w)
      BY <2>2, <2>3 DEF Three
    <3> QED BY <3>1, ConcatAssoc DEF Assoc
  <2>5. AddsWrap(c, n, x + 2, p \o w, i, j, x) /\ t = SegAt(x + 2, n, q \o (p \o w))
    BY <1>7, <2>1, <2>4 DEF SegsWrap, AddsWrap
  <2> QED BY <2>5 DEF Adds
<1> QED
  BY <1>1, <1>2, <1>4, <1>6, <1>7

(* The rounds of segment_text.                                             *)
SegStates(n) == {SegAt(c, n, q) : c \in 0 .. n, q \in Seq(Segs)}
SegRound(n) == [x \in SegStates(n) |-> NextSegments(x)]

LEMMA SegStatesAre ==
    ASSUME NEW n \in Nat, TextOK, n <= Len(text), NEW x \in SegStates(n)
    PROVE  \E c, q : /\ Stretch(c, n) /\ q \in Seq(Segs) /\ x = SegAt(c, n, q)
                     /\ x.out = q /\ x.buffer = Span(c, n) /\ Len(x.buffer) = n - c
<1>1. PICK c \in 0 .. n, q \in Seq(Segs) : x = SegAt(c, n, q)
  BY DEF SegStates
<1>2. Stretch(c, n)
  BY DEF Stretch
<1>3. Len(Span(c, n)) = n - c
  BY <1>2, SpanType
<1> QED
  BY <1>1, <1>2, <1>3 DEF SegAt

LEMMA SegStatesHave ==
    ASSUME NEW c, NEW n, Stretch(c, n), NEW q \in Seq(Segs)
    PROVE  SegAt(c, n, q) \in SegStates(n)
<1>1. c \in 0 .. n
  BY DEF Stretch
<1> QED
  BY <1>1 DEF SegStates

LEMMA SegRoundIs ==
    ASSUME NEW c, NEW n, Stretch(c, n), NEW q \in Seq(Segs), NEW d, NEW r, Adds(c, n, d, r)
    PROVE  SegRound(n)[SegAt(c, n, q)] = SegAt(d, n, q \o r)
<1>1. PICK e, s : Adds(c, n, e, s) /\ NextSegments(SegAt(c, n, q)) = SegAt(e, n, q \o s)
  BY NextSegmentsAdds
<1>2. d = e /\ r = s
  BY <1>1, AddsUnique
<1> QED
  BY <1>1, <1>2, SegStatesHave DEF SegRound

LEMMA SegRoundType ==
    ASSUME NEW n \in Nat, TextOK, n <= Len(text)
    PROVE  SegRound(n) \in [SegStates(n) -> SegStates(n)]
<1>1. ASSUME NEW x \in SegStates(n) PROVE NextSegments(x) \in SegStates(n)
  <2>1. PICK c, q : Stretch(c, n) /\ q \in Seq(Segs) /\ x = SegAt(c, n, q)
    BY SegStatesAre
  <2>2. PICK d, r : Adds(c, n, d, r) /\ NextSegments(SegAt(c, n, q)) = SegAt(d, n, q \o r)
    BY <2>1, NextSegmentsAdds
  <2>3. Stretch(d, n) /\ r \in Seq(Segs)
    BY <2>1, <2>2, AddsType
  <2>4. SegAt(d, n, q \o r) \in SegStates(n)
    BY <2>1, <2>3, ConcatType, SegStatesHave
  <2> QED BY <2>1, <2>2, <2>4
<1> QED
  BY <1>1 DEF SegRound

LEMMA SegmentsRounds ==
    ASSUME NEW c, NEW n, Stretch(c, n), NEW N, N = n - c, NEW a, a = SegAt(c, n, << >>)
    PROVE  \E f : /\ Repeats(N, SegRound(n), a, f) /\ f[N] \in SegStates(n)
                  /\ Segments(Span(c, n)) = f[N].out
                  /\ SegRound(n)[f[N]] = f[N]
<1>1. N \in Nat /\ n \in Nat /\ c \in Nat /\ c <= n /\ TextOK /\ n <= Len(text)
  BY DEF Stretch
<1>2. PICK A, F : A = SegStates(n) /\ F = SegRound(n)
  OBVIOUS
<1>3. F \in [A -> A] /\ a \in A /\ \A x \in A : F[x] = NextSegments(x)
  BY <1>1, <1>2, SegRoundType, SegStatesHave, EmptySeq DEF SegRound
<1>4. PICK b : b = Span(c, n) /\ Len(b) = N
  BY SpanType
<1> DEFINE Def(r) == r = [k \in 0 .. N |-> IF k = 0 THEN [buffer |-> b, out |-> << >>]
                                           ELSE NextSegments(r[k - 1])]
           g == CHOOSE r : Def(r)
<1>5. PICK f \in [0 .. N -> A] : f = [k \in 0 .. N |-> IF k = 0 THEN a ELSE F[f[k - 1]]]
  <2>1. \E f \in [0 .. N -> A] : Unrolls(N, F, a, f)
    BY <1>1, <1>3, RepeatsExists
  <2> QED BY <2>1 DEF Unrolls
<1>6. a = [buffer |-> b, out |-> << >>]
  BY <1>4 DEF SegAt
<1>7. Def(f)
  <2>1. ASSUME NEW k \in 0 .. N
        PROVE  (IF k = 0 THEN a ELSE F[f[k - 1]])
                 = IF k = 0 THEN [buffer |-> b, out |-> << >>] ELSE NextSegments(f[k - 1])
    <3>1. CASE k = 0
      BY <1>6, <3>1
    <3>2. CASE k # 0
      <4>1. k - 1 \in 0 .. N
        BY <1>1, <3>2
      <4> QED BY <1>3, <3>2, <4>1
    <3> QED BY <3>1, <3>2
  <2> QED BY <1>5, <2>1
<1>8. Def(g)
  BY <1>7
<1>9. Segments(b) = g[N].out
  BY <1>4 DEF Segments
<1>10. g[0] = a /\ \A k \in 1 .. N : g[k] = NextSegments(g[k - 1])
  <2>1. g[0] = a
    <3>1. 0 \in 0 .. N
      BY <1>1
    <3> QED BY <1>6, <1>8, <3>1
  <2>2. ASSUME NEW k \in 1 .. N PROVE g[k] = NextSegments(g[k - 1])
    <3>1. k \in 0 .. N /\ k # 0
      BY <1>1
    <3> QED BY <1>8, <3>1
  <2> HIDE DEF g
  <2> QED BY <2>1, <2>2
<1> HIDE DEF g, Def
<1>11. \A k \in 0 .. N : g[k] \in A
  <2>1. g[0] \in A /\ \A k \in 1 .. N : g[k - 1] \in A => g[k] \in A
    <3>1. \A x \in A : NextSegments(x) \in A
      BY <1>3
    <3> QED BY <1>3, <1>10, <3>1
  <2> QED BY <1>1, <2>1, RecursionType
<1>12. Repeats(N, F, a, g)
  <2>1. ASSUME NEW k \in 1 .. N PROVE g[k] = F[g[k - 1]]
    <3>1. k - 1 \in 0 .. N
      BY <1>1
    <3> QED BY <1>3, <1>10, <1>11, <3>1
  <2> QED BY <1>10, <2>1 DEF Repeats
<1>13. F[g[N]] = g[N]
  <2> DEFINE M == [x \in A |-> Len(x.buffer)]
  <2>1. ASSUME NEW x \in A PROVE Len(x.buffer) \in Nat /\ (F[x] = x \/ Len(F[x].buffer) < Len(x.buffer))
    <3>1. PICK e, q : /\ Stretch(e, n) /\ q \in Seq(Segs) /\ x = SegAt(e, n, q)
                      /\ Len(x.buffer) = n - e
      BY <1>1, <1>2, SegStatesAre
    <3>2. PICK d, r : Adds(e, n, d, r) /\ NextSegments(SegAt(e, n, q)) = SegAt(d, n, q \o r)
      BY <3>1, NextSegmentsAdds
    <3>3. Stretch(d, n) /\ r \in Seq(Segs) /\ (e < d \/ (e = n /\ d = n /\ r = << >>))
      BY <3>1, <3>2, AddsType
    <3>4. F[x] = SegAt(d, n, q \o r)
      BY <1>3, <3>1, <3>2
    <3>5. Len(F[x].buffer) = n - d
      BY <3>3, <3>4, SpanType DEF SegAt
    <3>6. CASE e < d
      BY <3>1, <3>3, <3>5, <3>6 DEF Stretch
    <3>7. CASE e = n /\ d = n /\ r = << >>
      <4>1. q \o r = q
        BY <3>1, <3>7, ConcatEmptySeq
      <4> QED BY <1>1, <3>1, <3>4, <3>7, <4>1
    <3> QED BY <3>3, <3>6, <3>7
  <2>2. M \in [A -> Nat] /\ M[a] <= N /\ Shortens(A, F, M)
    <3>1. M \in [A -> Nat]
      BY <2>1
    <3>2. M[a] = N
      BY <1>3, <1>4, <1>6
    <3>3. ASSUME NEW x \in A PROVE F[x] = x \/ M[F[x]] < M[x]
      <4>1. F[x] \in A
        BY <1>3
      <4>2. M[F[x]] = Len(F[x].buffer) /\ M[x] = Len(x.buffer)
        BY <4>1
      <4> QED BY <2>1, <4>2
    <3> HIDE DEF M
    <3> QED BY <1>1, <3>1, <3>2, <3>3 DEF Shortens
  <2>3. Iterates(N, A, F, a, g)
    BY <1>1, <1>3, <1>12 DEF Iterates
  <2> HIDE DEF M
  <2> QED BY <2>2, <2>3, RepeatsRest
<1>14. N \in 0 .. N
  BY <1>1
<1> QED
  BY <1>2, <1>4, <1>9, <1>11, <1>12, <1>13, <1>14

LEMMA SegmentsType ==
    ASSUME NEW c, NEW n, Stretch(c, n)
    PROVE  Segments(Span(c, n)) \in Seq(Segs)
<1>1. PICK N, a : N = n - c /\ a = SegAt(c, n, << >>)
  OBVIOUS
<1>2. PICK f : f[N] \in SegStates(n) /\ Segments(Span(c, n)) = f[N].out
  BY <1>1, SegmentsRounds
<1>3. f[N].out \in Seq(Segs)
  BY <1>2, SegStatesAre DEF Stretch
<1> QED
  BY <1>2, <1>3

(* segment_text says first what its first round adds.                      *)
LEMMA SegmentsUnfold ==
    ASSUME NEW c, NEW n, Stretch(c, n), NEW d, NEW r, Adds(c, n, d, r)
    PROVE  Segments(Span(c, n)) = r \o Segments(Span(d, n))
<1>1. /\ n \in Nat /\ c \in Nat /\ c <= n /\ TextOK /\ n <= Len(text)
      /\ Stretch(d, n) /\ r \in Seq(Segs) /\ d \in Nat /\ d <= n
      /\ (c < d \/ (c = n /\ d = n /\ r = << >>))
  BY AddsType DEF Stretch
<1>2. CASE c = n /\ d = n /\ r = << >>
  <2>1. Segments(Span(d, n)) \in Seq(Segs)
    BY <1>1, SegmentsType
  <2>2. << >> \o Segments(Span(d, n)) = Segments(Span(d, n))
    BY <2>1, ConcatEmptySeq
  <2> QED BY <1>2, <2>2
<1>3. CASE c < d
  <2>1. PICK N \in Nat, K \in Nat : N = n - c /\ K = n - d /\ K + 1 <= N
    BY <1>1, <1>3
  <2>2. PICK a, b : a = SegAt(c, n, << >>) /\ b = SegAt(d, n, << >>)
    OBVIOUS
  <2>3. PICK A, F : A = SegStates(n) /\ F = SegRound(n)
    OBVIOUS
  <2>4. F \in [A -> A] /\ a \in A /\ b \in A
    BY <1>1, <2>2, <2>3, SegRoundType, SegStatesHave, EmptySeq
  <2>5. PICK f : Repeats(N, F, a, f) /\ Segments(Span(c, n)) = f[N].out
    BY <2>1, <2>2, <2>3, SegmentsRounds
  <2>6. PICK h : /\ Repeats(K, F, b, h) /\ h[K] \in A /\ F[h[K]] = h[K]
                 /\ Segments(Span(d, n)) = h[K].out
    BY <1>1, <2>1, <2>2, <2>3, SegmentsRounds
  <2> DEFINE P == [x \in A |-> [buffer |-> x.buffer, out |-> r \o x.out]]
  <2>7. ASSUME NEW e, NEW q, Stretch(e, n), q \in Seq(Segs)
        PROVE  P[SegAt(e, n, q)] = SegAt(e, n, r \o q) /\ r \o q \in Seq(Segs)
    <3>1. SegAt(e, n, q) \in A
      BY <2>3, <2>7, SegStatesHave
    <3>2. SegAt(e, n, q).buffer = Span(e, n) /\ SegAt(e, n, q).out = q
      BY DEF SegAt
    <3>3. P[SegAt(e, n, q)] = [buffer |-> Span(e, n), out |-> r \o q]
      BY <3>1, <3>2
    <3> QED BY <1>1, <2>7, <3>3, ConcatType DEF SegAt
  <2>8. ASSUME NEW x \in A PROVE P[x] \in A /\ F[P[x]] = P[F[x]]
    <3>1. PICK e, q : Stretch(e, n) /\ q \in Seq(Segs) /\ x = SegAt(e, n, q)
      BY <1>1, <2>3, SegStatesAre
    <3>2. PICK g, s : Adds(e, n, g, s)
      BY <3>1, NextSegmentsAdds
    <3>3. Stretch(g, n) /\ s \in Seq(Segs)
      BY <3>1, <3>2, AddsType
    <3> HIDE DEF P
    <3>4. P[x] = SegAt(e, n, r \o q) /\ r \o q \in Seq(Segs)
      BY <2>7, <3>1
    <3>5. F[x] = SegAt(g, n, q \o s)
      BY <2>3, <3>1, <3>2, SegRoundIs
    <3>6. F[P[x]] = SegAt(g, n, (r \o q) \o s)
      <4>1. PICK z \in Seq(Segs) : z = r \o q
        BY <3>4
      <4>2. F[SegAt(e, n, z)] = SegAt(g, n, z \o s)
        BY <2>3, <3>1, <3>2, SegRoundIs
      <4> QED BY <3>4, <4>1, <4>2
    <3>7. q \o s \in Seq(Segs)
      BY <3>1, <3>3, ConcatType
    <3>8. P[F[x]] = SegAt(g, n, r \o (q \o s))
      BY <2>7, <3>3, <3>5, <3>7
    <3>9. (r \o q) \o s = r \o (q \o s)
      <4>1. Three(Segs, r, q, s)
        BY <1>1, <3>1, <3>3 DEF Three
      <4> QED BY <4>1, ConcatAssoc DEF Assoc
    <3>10. P[x] \in A
      BY <2>3, <3>1, <3>4, SegStatesHave
    <3> QED BY <3>6, <3>8, <3>9, <3>10
  <2>9. F[a] = P[b]
    <3>1. << >> \in Seq(Segs)
      BY EmptySeq
    <3>2. F[a] = SegAt(d, n, << >> \o r)
      <4>1. PICK z \in Seq(Segs) : z = << >>
        BY <3>1
      <4>2. F[SegAt(c, n, z)] = SegAt(d, n, z \o r)
        BY <2>3, SegRoundIs
      <4> QED BY <2>2, <4>1, <4>2
    <3>3. P[b] = SegAt(d, n, r \o << >>)
      BY <1>1, <2>2, <2>7, <3>1
    <3>4. << >> \o r = r /\ r \o << >> = r
      BY <1>1, ConcatEmptySeq
    <3> QED BY <3>2, <3>3, <3>4
  <2>10. P \in [A -> A]
    <3>1. P = [x \in A |-> P[x]]
      OBVIOUS
    <3> HIDE DEF P
    <3> QED BY <2>8, <3>1
  <2>11. P[h[K]].out = r \o h[K].out
    BY <2>6
  <2>12. f[N] = P[h[K]]
    <3> HIDE DEF P
    <3>1. Commutes(A, F, P)
      BY <2>8, <2>10 DEF Commutes
    <3>2. Iterates(N, A, F, a, f) /\ Iterates(K, A, F, b, h)
      BY <2>1, <2>4, <2>5, <2>6 DEF Iterates
    <3> QED BY <2>1, <2>6, <2>9, <3>1, <3>2, RepeatsUnfold
  <2> HIDE DEF P
  <2> QED BY <2>5, <2>6, <2>11, <2>12
<1> QED
  BY <1>1, <1>2, <1>3

-----------------------------------------------------------------------------
(* Rising sequences of positions after n, up to m.                         *)
Within(s, n, m) ==
    /\ \A i \in 1 .. Len(s) : s[i] \in Nat /\ n < s[i] /\ s[i] <= m
    /\ \A i, j \in 1 .. Len(s) : i < j => s[i] < s[j]

LEMMA WithinEmpty ==
    ASSUME NEW n, NEW m
    PROVE  Within(<< >>, n, m)
<1>1. Len(<< >>) = 0
  BY EmptySeq
<1> QED
  BY <1>1 DEF Within

LEMMA WithinSpan ==
    ASSUME NEW a \in Nat, NEW k \in Nat, a <= k
    PROVE  Within(Span(a, k), a, k)
<1>1. PICK s : s = Span(a, k)
  OBVIOUS
<1>2. Len(s) = k - a /\ \A i \in 1 .. k - a : s[i] = a + i
  BY <1>1, SpanIs
<1>3. \A i, j \in 1 .. k - a : i < j => a + i < a + j
  OBVIOUS
<1>4. \A i \in 1 .. k - a : a + i \in Nat /\ a < a + i /\ a + i <= k
  OBVIOUS
<1> QED
  BY <1>1, <1>2, <1>3, <1>4 DEF Within

LEMMA WithinWiden ==
    ASSUME NEW s \in Seq(Nat), NEW n \in Nat, NEW m \in Nat, Within(s, n, m),
           NEW a \in Nat, NEW b \in Nat, a <= n, m <= b
    PROVE  Within(s, a, b)
<1>1. \A i \in 1 .. Len(s) : s[i] \in Nat /\ n < s[i] /\ s[i] <= m
  BY DEF Within
<1>2. \A i \in 1 .. Len(s) : s[i] \in Nat /\ a < s[i] /\ s[i] <= b
  BY <1>1
<1> QED
  BY <1>2 DEF Within

LEMMA WithinConcat ==
    ASSUME NEW s \in Seq(Nat), NEW t \in Seq(Nat), NEW n \in Nat, NEW m \in Nat, NEW p \in Nat,
           Within(s, n, m), Within(t, m, p), n <= m, m <= p
    PROVE  Within(s \o t, n, p)
<1>1. PICK c, x, y : c = s \o t /\ x = Len(s) /\ y = Len(t)
  OBVIOUS
<1>2. /\ x \in Nat /\ y \in Nat /\ Len(c) = x + y
      /\ \A i \in 1 .. x : c[i] = s[i]
      /\ \A i \in 1 .. y : c[x + i] = t[i]
  BY <1>1, ConcatIs
<1>3. ASSUME NEW i \in 1 .. x + y
      PROVE  \/ i \in 1 .. x /\ c[i] = s[i]
             \/ \E z \in 1 .. y : i = x + z /\ c[i] = t[z]
  <2>1. CASE i <= x
    BY <1>2, <2>1
  <2>2. CASE ~(i <= x)
    <3>1. i - x \in 1 .. y /\ i = x + (i - x)
      BY <1>2, <2>2
    <3> QED BY <1>2, <3>1
  <2> QED BY <2>1, <2>2
<1>4. \A i \in 1 .. x : s[i] \in Nat /\ n < s[i] /\ s[i] <= m
  BY <1>1 DEF Within
<1>5. \A i \in 1 .. y : t[i] \in Nat /\ m < t[i] /\ t[i] <= p
  BY <1>1 DEF Within
<1>6. ASSUME NEW i \in 1 .. x + y PROVE c[i] \in Nat /\ n < c[i] /\ c[i] <= p
  <2>1. CASE i \in 1 .. x /\ c[i] = s[i]
    BY <1>4, <2>1
  <2>2. ASSUME NEW z \in 1 .. y, c[i] = t[z] PROVE c[i] \in Nat /\ n < c[i] /\ c[i] <= p
    BY <1>5, <2>2
  <2> QED BY <1>3, <2>1, <2>2
<1>7. ASSUME NEW i \in 1 .. x + y, NEW j \in 1 .. x + y, i < j PROVE c[i] < c[j]
  <2>1. CASE i \in 1 .. x /\ c[i] = s[i]
    <3>1. CASE j \in 1 .. x /\ c[j] = s[j]
      BY <1>1, <1>7, <2>1, <3>1 DEF Within
    <3>2. ASSUME NEW z \in 1 .. y, c[j] = t[z] PROVE c[i] < c[j]
      <4>1. s[i] \in Nat /\ s[i] <= m /\ t[z] \in Nat /\ m < t[z]
        BY <1>4, <1>5, <2>1
      <4> QED BY <2>1, <3>2, <4>1
    <3> QED BY <1>3, <3>1, <3>2
  <2>2. ASSUME NEW z \in 1 .. y, i = x + z, c[i] = t[z] PROVE c[i] < c[j]
    <3>1. ~(j \in 1 .. x)
      BY <1>2, <1>7, <2>2
    <3>2. PICK v \in 1 .. y : j = x + v /\ c[j] = t[v]
      BY <1>3, <3>1
    <3>3. z < v
      BY <1>2, <1>7, <2>2, <3>2
    <3> QED BY <1>1, <2>2, <3>2, <3>3 DEF Within
  <2> QED BY <1>3, <2>1, <2>2
<1> QED
  BY <1>1, <1>2, <1>6, <1>7 DEF Within

-----------------------------------------------------------------------------
(* segment_text by the first tag.                                          *)

LEMMA SegmentsEmpty ==
    ASSUME NEW n, Stretch(n, n)
    PROVE  Segments(Span(n, n)) = << >>
<1>1. PICK N, a : N = n - n /\ a = SegAt(n, n, << >>)
  OBVIOUS
<1>2. N = 0
  BY <1>1 DEF Stretch
<1>3. PICK f : Repeats(N, SegRound(n), a, f) /\ Segments(Span(n, n)) = f[N].out
  BY <1>1, SegmentsRounds
<1> QED
  BY <1>1, <1>2, <1>3 DEF Repeats, SegAt

LEMMA SegmentsNone ==
    ASSUME NEW c, NEW n, Stretch(c, n), NoOpening(c, n)
    PROVE  Segments(Span(c, n)) = TextIfAny(Span(c, n))
<1>1. PICK r : r = TextIfAny(Span(c, n))
  OBVIOUS
<1>2. Adds(c, n, n, r) /\ Stretch(n, n)
  BY <1>1 DEF Adds, AddsEnd, Stretch
<1>3. Segments(Span(c, n)) = r \o Segments(Span(n, n))
  BY <1>2, SegmentsUnfold
<1>4. r \in Seq(Segs)
  BY <1>2, AddsType
<1>5. r \o << >> = r
  BY <1>4, ConcatEmptySeq
<1> QED
  BY <1>1, <1>2, <1>3, <1>5, SegmentsEmpty

LEMMA InnerSome ==
    ASSUME NEW a, NEW n \in Nat, NEW x \in Nat, FirstClosing(a, n, x)
    PROVE  Inner(a, n) = << Classify(Span(a, x - 1)) >> \o Segments(Span(x + 2, n))
<1>1. ~NoClosing(a, n)
  BY ClosingNotNone
<1>2. PICK y : y = TheClosing(a, n)
  OBVIOUS
<1>3. y \in Nat /\ FirstClosing(a, n, y)
  BY <1>2 DEF TheClosing
<1>4. x = y
  BY <1>3, FirstClosingUnique
<1> QED
  BY <1>1, <1>2, <1>4 DEF Inner

(* There is a first closing tag or none.                                   *)
LEMMA ClosingCases ==
    ASSUME NEW a, NEW n, Stretch(a, n)
    PROVE  NoClosing(a, n) \/ \E x \in Nat : FirstClosing(a, n, x)
<1>1. CASE Closings(Span(a, n)) = {}
  BY <1>1, NoClosingIs
<1>2. CASE Closings(Span(a, n)) # {}
  BY <1>2, ClosingTaken DEF TakesClosing
<1> QED
  BY <1>1, <1>2

LEMMA OpeningCases ==
    ASSUME NEW a, NEW n, Stretch(a, n)
    PROVE  NoOpening(a, n) \/ \E i, j \in Nat : FirstOpening(a, n, i, j)
<1>1. CASE Openings(Span(a, n)) = {}
  BY <1>1, NoOpeningIs
<1>2. CASE Openings(Span(a, n)) # {}
  BY <1>2, OpeningTaken DEF TakesOpening
<1> QED
  BY <1>1, <1>2

LEMMA InnerType ==
    ASSUME NEW a, NEW n, Stretch(a, n)
    PROVE  Inner(a, n) \in Seq(Segs)
<1>1. a \in Nat /\ n \in Nat /\ a <= n /\ n <= Len(text) /\ TextOK
  BY DEF Stretch
<1>2. CASE NoClosing(a, n)
  <2>1. Segment("ambiguous", Span(a, n)) \in Segs
    BY SpanType, SegmentIs
  <2> QED BY <1>2, <2>1, OneType DEF Inner
<1>3. ASSUME NEW x \in Nat, FirstClosing(a, n, x) PROVE Inner(a, n) \in Seq(Segs)
  <2>1. PICK y \in Nat, z \in Nat : y = x - 1 /\ z = x + 2 /\ a <= y /\ y <= n /\ z <= n
    BY <1>1, <1>3 DEF FirstClosing
  <2>2. Stretch(a, y) /\ Stretch(z, n)
    BY <1>1, <2>1 DEF Stretch
  <2>3. << Classify(Span(a, y)) >> \in Seq(Segs)
    BY <2>2, SpanType, ClassifyType, OneType
  <2>4. Segments(Span(z, n)) \in Seq(Segs)
    BY <2>2, SegmentsType
  <2>5. << Classify(Span(a, y)) >> \o Segments(Span(z, n)) \in Seq(Segs)
    BY <2>3, <2>4, ConcatType
  <2>6. Inner(a, n) = << Classify(Span(a, x - 1)) >> \o Segments(Span(x + 2, n))
    BY <1>1, <1>3, InnerSome
  <2> QED BY <2>1, <2>5, <2>6
<1> QED
  BY <1>2, <1>3, ClosingCases

LEMMA SegmentsOpen ==
    ASSUME NEW c, NEW n, Stretch(c, n), NEW i \in Nat, NEW j \in Nat, FirstOpening(c, n, i, j)
    PROVE  /\ Segments(Span(c, n)) = TextIfAny(Span(c, i - 1)) \o Inner(j, n)
           /\ Stretch(j, n) /\ Stretch(c, i - 1) /\ c < j
<1>1. c \in Nat /\ n \in Nat /\ c <= n /\ n <= Len(text) /\ TextOK
  BY DEF Stretch
<1>2. PICK y \in Nat : y = i - 1 /\ c <= y /\ y <= n /\ c < j /\ j <= n
  BY <1>1 DEF FirstOpening, OpeningAt
<1>3. Stretch(j, n) /\ Stretch(c, y)
  BY <1>1, <1>2 DEF Stretch
<1>4. PICK p : p = TextIfAny(Span(c, i - 1)) /\ p \in Seq(Segs)
  BY <1>2, <1>3, SpanType, TextIfAnyIs
<1>5. CASE NoClosing(j, n)
  <2>1. PICK w, r : w = << Segment("ambiguous", Span(j, n)) >> /\ r = p \o w
    OBVIOUS
  <2>2. Inner(j, n) = w
    BY <1>5, <2>1 DEF Inner
  <2>3. w \in Seq(Segs)
    BY <1>3, <2>2, InnerType
  <2>4. AddsOpen(c, n, n, r, i, j)
    BY <1>4, <1>5, <2>1 DEF AddsOpen
  <2>5. Adds(c, n, n, r)
    BY <2>4 DEF Adds
  <2>6. Segments(Span(c, n)) = r \o Segments(Span(n, n))
    BY <2>5, SegmentsUnfold
  <2>7. Segments(Span(n, n)) = << >>
    BY <1>1, SegmentsEmpty DEF Stretch
  <2>8. r \o << >> = r
    BY <1>4, <2>1, <2>3, ConcatType, ConcatEmptySeq
  <2> QED BY <1>2, <1>3, <1>4, <2>1, <2>2, <2>6, <2>7, <2>8
<1>6. ASSUME NEW x \in Nat, FirstClosing(j, n, x)
      PROVE  Segments(Span(c, n)) = p \o Inner(j, n)
  <2>1. PICK w, r : w = << Classify(Span(j, x - 1)) >> /\ r = p \o w
    OBVIOUS
  <2>2. Inner(j, n) = w \o Segments(Span(x + 2, n))
    BY <1>1, <1>6, <2>1, InnerSome
  <2>3. PICK u \in Nat, z \in Nat : u = x - 1 /\ z = x + 2 /\ j <= u /\ u <= n /\ z <= n
    BY <1>1, <1>6 DEF FirstClosing
  <2>4. Stretch(j, u) /\ Stretch(z, n)
    BY <1>1, <2>3 DEF Stretch
  <2>5. w \in Seq(Segs)
    BY <2>1, <2>3, <2>4, SpanType, ClassifyType, OneType
  <2>6. Segments(Span(z, n)) \in Seq(Segs)
    BY <2>4, SegmentsType
  <2>7. AddsWrap(c, n, z, r, i, j, x)
    BY <1>4, <1>6, <2>1, <2>3 DEF AddsWrap
  <2>8. Adds(c, n, z, r)
    BY <2>7 DEF Adds
  <2>9. Segments(Span(c, n)) = r \o Segments(Span(z, n))
    BY <2>8, SegmentsUnfold
  <2>10. (p \o w) \o Segments(Span(z, n)) = p \o (w \o Segments(Span(z, n)))
    <3>1. PICK v : v = Segments(Span(z, n))
      OBVIOUS
    <3>2. Three(Segs, p, w, v)
      BY <1>4, <2>5, <2>6, <3>1 DEF Three
    <3>3. (p \o w) \o v = p \o (w \o v)
      BY <3>2, ConcatAssoc DEF Assoc
    <3> QED BY <3>1, <3>3
  <2> QED BY <2>1, <2>2, <2>3, <2>9, <2>10
<1> QED
  BY <1>2, <1>3, <1>4, <1>5, <1>6, ClosingCases

-----------------------------------------------------------------------------
(* What a stretch of the splitter's steps does to the answer: what it      *)
(* returns, and what is still to be said of the answer up to n.            *)

(* The cut after piece k tears no tag that matters.                        *)
Clean(k) ==
    /\ \A x, y \in Nat : OpeningAt(x, y) /\ x + 1 < k => y <= k
    /\ \A x \in Nat : ClosingAt(x) /\ x <= k => x + 2 <= k

(* No closing tag starts in what is held back of a wrapper.                *)
BodyOpen(o, e, w) == w => \A x \in Nat : ClosingAt(x) /\ o < x => e < x

Ahead(o, e, w, n) == IF w THEN Inner(o, n) ELSE Segments(Span(e, n))

NoneGivenUp(q) ==
    \A i \in DOMAIN q : q[i].kind = "ambiguous" => Len(q[i].at) <= MaxHoldback

Says(o, e, w, k, x, p, f, v) ==
    Clean(k) /\ NoneGivenUp(x) /\ BodyOpen(o, e, w) =>
        /\ BodyOpen(p, f, v)
        /\ \A n \in k .. Len(text) : Same(x \o Ahead(p, f, v, n), Ahead(o, e, w, n))

Moves(o, e, w, k, x, p, f, v) ==
    /\ Places(p, f, k, v) /\ f - p <= MaxHoldback
    /\ o <= p /\ e <= f
    /\ x \in Seq(Segs) /\ Within(TextOf(x), o, p)
    /\ Says(o, e, w, k, x, p, f, v)

LEMMA AheadType ==
    ASSUME NEW o, NEW e, NEW w, NEW k, Places(o, e, k, w), NEW n \in k .. Len(text)
    PROVE  Ahead(o, e, w, n) \in Seq(Segs)
<1>1. Stretch(o, n) /\ Stretch(e, n)
  BY DEF Places, Stretch
<1> QED
  BY <1>1, InnerType, SegmentsType DEF Ahead

LEMMA NoneGivenUpConcat ==
    ASSUME NEW x \in Seq(Segs), NEW y \in Seq(Segs), NoneGivenUp(x \o y)
    PROVE  NoneGivenUp(x) /\ NoneGivenUp(y)
<1>1. PICK c, m, n : c = x \o y /\ m = Len(x) /\ n = Len(y)
  OBVIOUS
<1>2. /\ c \in Seq(Segs) /\ m \in Nat /\ n \in Nat /\ Len(c) = m + n
      /\ \A i \in 1 .. m : c[i] = x[i]
      /\ \A i \in 1 .. n : c[m + i] = y[i]
  BY <1>1, ConcatIs
<1>3. DOMAIN c = 1 .. m + n /\ DOMAIN x = 1 .. m /\ DOMAIN y = 1 .. n
  BY <1>1, <1>2, LenProperties
<1>4. \A i \in 1 .. m : i \in 1 .. m + n
  BY <1>2
<1>5. \A i \in 1 .. n : m + i \in 1 .. m + n
  BY <1>2
<1>6. NoneGivenUp(c)
  BY <1>1
<1>7. NoneGivenUp(x)
  <2>1. ASSUME NEW i \in 1 .. m, x[i].kind = "ambiguous" PROVE Len(x[i].at) <= MaxHoldback
    BY <1>2, <1>3, <1>4, <1>6, <2>1 DEF NoneGivenUp
  <2> QED BY <1>3, <2>1 DEF NoneGivenUp
<1>8. NoneGivenUp(y)
  <2>1. ASSUME NEW i \in 1 .. n, y[i].kind = "ambiguous" PROVE Len(y[i].at) <= MaxHoldback
    <3>1. c[m + i] = y[i] /\ m + i \in DOMAIN c
      BY <1>2, <1>3, <1>5
    <3> QED BY <1>6, <2>1, <3>1 DEF NoneGivenUp
  <2> QED BY <1>3, <2>1 DEF NoneGivenUp
<1> QED
  BY <1>7, <1>8

LEMMA SaysThen ==
    ASSUME NEW k, NEW x \in Seq(Segs), NEW y \in Seq(Segs),
           NEW o, NEW e, NEW w, Places(o, e, k, w),
           NEW p, NEW f, NEW v, Places(p, f, k, v), Says(o, e, w, k, x, p, f, v),
           NEW r, NEW g, NEW u, Places(r, g, k, u), Says(p, f, v, k, y, r, g, u)
    PROVE  Says(o, e, w, k, x \o y, r, g, u)
<1> SUFFICES ASSUME Clean(k), NoneGivenUp(x \o y), BodyOpen(o, e, w)
             PROVE  /\ BodyOpen(r, g, u)
                    /\ \A n \in k .. Len(text) :
                          Same((x \o y) \o Ahead(r, g, u, n), Ahead(o, e, w, n))
  BY DEF Says
<1>1. NoneGivenUp(x) /\ NoneGivenUp(y)
  BY NoneGivenUpConcat
<1>2. /\ BodyOpen(p, f, v)
      /\ \A n \in k .. Len(text) : Same(x \o Ahead(p, f, v, n), Ahead(o, e, w, n))
  BY <1>1 DEF Says
<1>3. /\ BodyOpen(r, g, u)
      /\ \A n \in k .. Len(text) : Same(y \o Ahead(r, g, u, n), Ahead(p, f, v, n))
  BY <1>1, <1>2 DEF Says
<1>4. ASSUME NEW n \in k .. Len(text)
      PROVE  Same((x \o y) \o Ahead(r, g, u, n), Ahead(o, e, w, n))
  <2>1. PICK a, b, c : a = Ahead(o, e, w, n) /\ b = Ahead(p, f, v, n) /\ c = Ahead(r, g, u, n)
    OBVIOUS
  <2>2. a \in Seq(Segs) /\ b \in Seq(Segs) /\ c \in Seq(Segs)
    <3>1. a \in Seq(Segs)
      BY <2>1, AheadType
    <3>2. b \in Seq(Segs)
      BY <2>1, AheadType
    <3>3. c \in Seq(Segs)
      BY <2>1, AheadType
    <3> QED BY <3>1, <3>2, <3>3
  <2>3. Same(x \o b, a) /\ Same(y \o c, b)
    BY <1>2, <1>3, <2>1
  <2>4. PICK d \in Seq(Segs) : d = y \o c
    BY <2>2, ConcatType
  <2>5. Same(x \o d, x \o b)
    BY <2>2, <2>3, <2>4, SameConcat
  <2>6. (x \o y) \o c = x \o d
    <3>1. Three(Segs, x, y, c)
      BY <2>2 DEF Three
    <3>2. (x \o y) \o c = x \o (y \o c)
      BY <3>1, ConcatAssoc DEF Assoc
    <3> QED BY <2>4, <3>2
  <2> QED BY <2>1, <2>3, <2>5, <2>6 DEF Same
<1> QED
  BY <1>3, <1>4

LEMMA MovesThen ==
    ASSUME NEW o, NEW e, NEW w, NEW k, NEW x, NEW p, NEW f, NEW v, NEW y, NEW r, NEW g, NEW u,
           Places(o, e, k, w), Moves(o, e, w, k, x, p, f, v), Moves(p, f, v, k, y, r, g, u)
    PROVE  Moves(o, e, w, k, x \o y, r, g, u)
<1>1. /\ Places(p, f, k, v) /\ Places(r, g, k, u) /\ x \in Seq(Segs) /\ y \in Seq(Segs)
      /\ g - r <= MaxHoldback
  BY DEF Moves
<1>2. /\ o \in Nat /\ p \in Nat /\ r \in Nat /\ e \in Nat /\ f \in Nat /\ g \in Nat
      /\ o <= p /\ p <= r /\ e <= f /\ f <= g
  BY DEF Moves, Places, Stretch
<1>3. x \o y \in Seq(Segs) /\ TextOf(x \o y) = TextOf(x) \o TextOf(y)
  BY <1>1, ConcatType, TextOfConcat
<1>4. Within(TextOf(x) \o TextOf(y), o, r)
  <2>1. PICK s, t : s = TextOf(x) /\ t = TextOf(y)
    OBVIOUS
  <2>2. s \in Seq(Nat) /\ t \in Seq(Nat)
    BY <1>1, <2>1, TextOfType
  <2>3. Within(s, o, p) /\ Within(t, p, r)
    BY <2>1 DEF Moves
  <2>4. Within(s \o t, o, r)
    BY <1>2, <2>2, <2>3, WithinConcat
  <2> QED BY <2>1, <2>4
<1>5. Says(o, e, w, k, x, p, f, v) /\ Says(p, f, v, k, y, r, g, u)
  BY DEF Moves
<1>6. Says(o, e, w, k, x \o y, r, g, u)
  BY <1>1, <1>5, SaysThen
<1> QED
  BY <1>1, <1>2, <1>3, <1>4, <1>6 DEF Moves

LEMMA MovesNot ==
    ASSUME NEW o, NEW e, NEW w, NEW k, Places(o, e, k, w), e - o <= MaxHoldback
    PROVE  Moves(o, e, w, k, << >>, o, e, w)
<1>1. << >> \in Seq(Segs) /\ TextOf(<< >>) = << >>
  BY EmptySeq, ViewsOfNone
<1>2. Within(TextOf(<< >>), o, o)
  BY <1>1, WithinEmpty
<1>3. ASSUME NEW n \in k .. Len(text)
      PROVE  Same(<< >> \o Ahead(o, e, w, n), Ahead(o, e, w, n))
  <2>1. Ahead(o, e, w, n) \in Seq(Segs)
    BY AheadType
  <2>2. << >> \o Ahead(o, e, w, n) = Ahead(o, e, w, n)
    BY <2>1, ConcatEmptySeq
  <2> QED BY <2>2 DEF Same
<1>4. o <= o /\ e <= e
  BY DEF Places, Stretch
<1> QED
  BY <1>1, <1>2, <1>3, <1>4 DEF Moves, Says

-----------------------------------------------------------------------------
(* The steps, case by case.                                                *)

LEMMA GivesUpMoves ==
    ASSUME NEW o, NEW e, NEW k, Places(o, e, k, TRUE), k - o > MaxHoldback, NEW x,
           x = << Segment("ambiguous", Span(o, k)) >>
    PROVE  Moves(o, e, TRUE, k, x, k, k, FALSE)
<1>1. /\ o \in Nat /\ e \in Nat /\ k \in Nat /\ o <= e /\ e <= k /\ k <= Len(text) /\ TextOK
  BY DEF Places, Stretch
<1>2. PICK s : s = Segment("ambiguous", Span(o, k))
  OBVIOUS
<1>3. Stretch(o, k) /\ Span(o, k) \in Seq(Nat) /\ Len(Span(o, k)) = k - o
  BY <1>1, SpanType DEF Stretch
<1>4. s \in Segs /\ s.kind = "ambiguous" /\ s.at = Span(o, k) /\ x = << s >>
  BY <1>2, <1>3, SegmentIs
<1>5. x \in Seq(Segs) /\ TextOf(x) = << >>
  BY <1>4, OneType, ViewsOfOne
<1>6. ~NoneGivenUp(x)
  <2>1. 1 \in DOMAIN x /\ x[1] = s
    BY <1>4
  <2>2. ~(k - o <= MaxHoldback)
    BY <1>1, HoldbackAssumption
  <2> QED BY <1>3, <1>4, <2>1, <2>2 DEF NoneGivenUp
<1>7. Places(k, k, k, FALSE) /\ k - k <= MaxHoldback
  BY <1>1, HoldbackAssumption DEF Places, Stretch
<1>8. Within(TextOf(x), o, k)
  BY <1>5, WithinEmpty
<1>9. Says(o, e, TRUE, k, x, k, k, FALSE)
  BY <1>6 DEF Says
<1>10. o <= k /\ e <= k
  BY <1>1
<1> QED
  BY <1>5, <1>7, <1>8, <1>9, <1>10 DEF Moves

LEMMA HoldsMoves ==
    ASSUME NEW o, NEW e, NEW k, Places(o, e, k, TRUE), NoClosing(e, k), k - o <= MaxHoldback
    PROVE  Moves(o, e, TRUE, k, << >>, o, k, TRUE)
<1>1. /\ o \in Nat /\ e \in Nat /\ k \in Nat /\ o <= e /\ e <= k /\ k <= Len(text) /\ TextOK
  BY DEF Places, Stretch
<1>2. << >> \in Seq(Segs) /\ TextOf(<< >>) = << >>
  BY EmptySeq, ViewsOfNone
<1>3. Places(o, k, k, TRUE)
  BY <1>1 DEF Places, Stretch
<1>4. ASSUME Clean(k), BodyOpen(o, e, TRUE) PROVE BodyOpen(o, k, TRUE)
  <2>1. SUFFICES ASSUME NEW x \in Nat, ClosingAt(x), o < x PROVE k < x
    BY DEF BodyOpen
  <2>2. e < x
    BY <1>4, <2>1 DEF BodyOpen
  <2>3. k < x + 2
    BY <2>1, <2>2 DEF NoClosing
  <2>4. x <= k => x + 2 <= k
    BY <1>4, <2>1 DEF Clean
  <2> QED BY <1>1, <2>3, <2>4
<1>5. ASSUME NEW n \in k .. Len(text)
      PROVE  Same(<< >> \o Ahead(o, k, TRUE, n), Ahead(o, e, TRUE, n))
  <2>1. Ahead(o, k, TRUE, n) \in Seq(Segs)
    BY <1>3, AheadType
  <2>2. << >> \o Ahead(o, k, TRUE, n) = Ahead(o, k, TRUE, n)
    BY <2>1, ConcatEmptySeq
  <2>3. Ahead(o, k, TRUE, n) = Ahead(o, e, TRUE, n)
    BY DEF Ahead
  <2> QED BY <2>2, <2>3 DEF Same
<1>6. Says(o, e, TRUE, k, << >>, o, k, TRUE)
  BY <1>4, <1>5 DEF Says
<1>7. Within(TextOf(<< >>), o, o)
  BY <1>2, WithinEmpty
<1>8. o <= o /\ e <= k
  BY <1>1
<1> QED
  BY <1>2, <1>3, <1>6, <1>7, <1>8 DEF Moves

LEMMA ClosesMoves ==
    ASSUME NEW o, NEW e, NEW k, Places(o, e, k, TRUE), NEW i \in Nat, FirstClosing(e, k, i),
           NEW x, x = << Classify(Span(o, i - 1)) >>
    PROVE  Moves(o, e, TRUE, k, x, i + 2, i + 2, FALSE)
<1>1. /\ o \in Nat /\ e \in Nat /\ k \in Nat /\ o <= e /\ e <= k /\ k <= Len(text) /\ TextOK
  BY DEF Places, Stretch
<1>2. PICK y \in Nat, z \in Nat : /\ y = i - 1 /\ z = i + 2 /\ o <= y /\ y <= k /\ z <= k
                                  /\ e <= z /\ o <= z
  BY <1>1 DEF FirstClosing
<1>3. Stretch(o, y) /\ Stretch(z, k) /\ Stretch(z, z)
  BY <1>1, <1>2 DEF Stretch
<1>4. PICK s : s = Classify(Span(o, y))
  OBVIOUS
<1>5. s \in Segs /\ s.kind # "text" /\ x = << s >>
  BY <1>2, <1>3, <1>4, SpanType, ClassifyType
<1>6. x \in Seq(Segs) /\ TextOf(x) = << >>
  BY <1>5, OneType, ViewsOfOne
<1>7. Places(z, z, k, FALSE) /\ z - z <= MaxHoldback
  BY <1>2, <1>3, HoldbackAssumption DEF Places
<1>8. ASSUME BodyOpen(o, e, TRUE), NEW n \in k .. Len(text)
      PROVE  Same(x \o Ahead(z, z, FALSE, n), Ahead(o, e, TRUE, n))
  <2>1. ASSUME NEW c \in Nat, ClosingAt(c), o < c, c + 2 <= n PROVE i <= c
    <3>1. e < c
      BY <1>8, <2>1 DEF BodyOpen
    <3>2. c + 2 <= k => i <= c
      BY <2>1, <3>1 DEF FirstClosing
    <3> QED BY <1>1, <1>2, <3>2
  <2>2. FirstClosing(o, n, i)
    <3>1. ClosingAt(i) /\ o < i /\ i + 2 <= n
      BY <1>1 DEF FirstClosing
    <3> QED BY <2>1, <3>1 DEF FirstClosing
  <2>3. n \in Nat
    BY <1>1
  <2>4. Inner(o, n) = << Classify(Span(o, i - 1)) >> \o Segments(Span(i + 2, n))
    BY <2>2, <2>3, InnerSome
  <2> QED BY <1>2, <2>4 DEF Ahead, Same
<1>9. BodyOpen(z, z, FALSE)
  BY DEF BodyOpen
<1>10. Within(TextOf(x), o, z)
  BY <1>6, WithinEmpty
<1> QED
  BY <1>2, <1>6, <1>7, <1>8, <1>9, <1>10 DEF Moves, Says

LEMMA OpensMoves ==
    ASSUME NEW e, NEW k, Places(e, e, k, FALSE), NEW i \in Nat, NEW j \in Nat,
           FirstOpening(e, k, i, j), NEW x, x = TextIfAny(Span(e, i - 1))
    PROVE  Moves(e, e, FALSE, k, x, j, j, TRUE)
<1>1. /\ e \in Nat /\ k \in Nat /\ e <= k /\ k <= Len(text) /\ TextOK
  BY DEF Places, Stretch
<1>2. PICK y \in Nat : /\ y = i - 1 /\ e <= y /\ y <= j /\ e < j /\ j <= k
  BY <1>1 DEF FirstOpening, OpeningAt
<1>3. Stretch(e, y) /\ Stretch(j, k) /\ Stretch(j, j)
  BY <1>1, <1>2 DEF Stretch
<1>4. Span(e, y) \in Seq(Nat)
  BY <1>3, SpanType
<1>5. x \in Seq(Segs) /\ TextOf(x) = Span(e, y)
  BY <1>2, <1>4, TextIfAnyIs
<1>6. Within(TextOf(x), e, j)
  <2>1. Within(Span(e, y), e, y)
    BY <1>1, <1>2, WithinSpan
  <2>2. e <= e
    BY <1>1
  <2> QED BY <1>1, <1>2, <1>4, <1>5, <2>1, <2>2, WithinWiden
<1>7. Places(j, j, k, TRUE) /\ j - j <= MaxHoldback
  BY <1>2, <1>3, HoldbackAssumption DEF Places
<1>8. BodyOpen(j, j, TRUE)
  BY DEF BodyOpen
<1>9. ASSUME NEW n \in k .. Len(text)
      PROVE  Same(x \o Ahead(j, j, TRUE, n), Ahead(e, e, FALSE, n))
  <2>1. OpeningAt(i, j) /\ e < i /\ j <= n
    BY <1>1 DEF FirstOpening
  <2>2. ASSUME NEW a \in Nat, NEW b \in Nat, OpeningAt(a, b), e < a, b <= n PROVE i <= a
    <3>1. SUFFICES ASSUME a < i PROVE FALSE
      OBVIOUS
    <3>2. ~(j \in a .. b - 1)
      BY <2>1, <2>2 DEF OpeningAt
    <3>3. a < j
      BY <2>1, <3>1 DEF OpeningAt
    <3>4. b <= j
      BY <3>2, <3>3
    <3>5. b <= k
      BY <1>1, <1>2, <3>4
    <3>6. i <= a
      BY <2>2, <3>5 DEF FirstOpening
    <3> QED BY <3>1, <3>6
  <2>3. FirstOpening(e, n, i, j)
    BY <2>1, <2>2 DEF FirstOpening
  <2>4. Stretch(e, n)
    BY <1>1 DEF Stretch
  <2>5. Segments(Span(e, n)) = TextIfAny(Span(e, i - 1)) \o Inner(j, n)
    BY <2>3, <2>4, SegmentsOpen
  <2> QED BY <2>5 DEF Ahead, Same
<1>10. Says(e, e, FALSE, k, x, j, j, TRUE)
  BY <1>8, <1>9 DEF Says
<1>11. e <= j
  BY <1>1, <1>2
<1> QED
  BY <1>5, <1>6, <1>7, <1>10, <1>11 DEF Moves

(* Text that is passed on holds no beginning of a tag.                     *)
LEMMA PassedHasNoTag ==
    ASSUME NEW e, NEW k, Stretch(e, k), NoOpening(e, k), Clean(k), NEW u, BoundaryAt(e, k, u),
           NEW a \in Nat, NEW b \in Nat, OpeningAt(a, b), e < a
    PROVE  u < a
<1>1. e \in Nat /\ k \in Nat /\ u \in Nat /\ e <= u /\ u <= k
  BY DEF Stretch, BoundaryAt
<1>2. k < b /\ (a + 1 < k => b <= k)
  BY DEF NoOpening, Clean
<1>3. ~(a + 1 < k)
  BY <1>1, <1>2
<1>4. CASE a = k
  <2>1. text[k] = "<" /\ e < k
    BY <1>4 DEF OpeningAt
  <2>2. u + 1 = k
    BY <2>1 DEF BoundaryAt
  <2> QED BY <1>1, <1>4, <2>2
<1>5. CASE a + 1 = k
  <2>1. a = k - 1 /\ text[k - 1] = "<" /\ text[k] = "details" /\ e + 1 < k
    <3>1. a = k - 1 /\ e + 1 < k
      BY <1>1, <1>5
    <3> QED BY <1>5, <3>1 DEF OpeningAt
  <2>2. u + 2 = k
    BY <2>1 DEF BoundaryAt
  <2> QED BY <1>1, <2>1, <2>2
<1>6. CASE k < a
  BY <1>1, <1>6
<1> QED
  BY <1>1, <1>3, <1>4, <1>5, <1>6

LEMMA SameText ==
    ASSUME NEW a \in Nat, NEW u \in Nat, NEW c \in Nat, a <= u, u <= c,
           NEW t, NEW x, NEW y, t = TextIfAny(Span(a, c)),
           x = TextIfAny(Span(a, u)), y = TextIfAny(Span(u, c))
    PROVE  /\ Same(x \o y, t) /\ x \in Seq(Segs) /\ y \in Seq(Segs) /\ t \in Seq(Segs)
<1>1. Span(a, c) \in Seq(Nat) /\ Span(a, u) \in Seq(Nat) /\ Span(u, c) \in Seq(Nat)
  <2>1. a <= c
    OBVIOUS
  <2> QED BY <2>1, SpanIs
<1>2. /\ t \in Seq(Segs) /\ TextOf(t) = Span(a, c)
      /\ \A kind \in {"metadata", "ambiguous"} : Wrappers(t, kind) = << >>
  BY <1>1, TextIfAnyIs
<1>3. /\ x \in Seq(Segs) /\ TextOf(x) = Span(a, u)
      /\ \A kind \in {"metadata", "ambiguous"} : Wrappers(x, kind) = << >>
  BY <1>1, TextIfAnyIs
<1>4. /\ y \in Seq(Segs) /\ TextOf(y) = Span(u, c)
      /\ \A kind \in {"metadata", "ambiguous"} : Wrappers(y, kind) = << >>
  BY <1>1, TextIfAnyIs
<1>5. TextOf(x \o y) = Span(a, c)
  <2>1. TextOf(x \o y) = TextOf(x) \o TextOf(y)
    BY <1>3, <1>4, TextOfConcat
  <2>2. Span(a, u) \o Span(u, c) = Span(a, c)
    BY SpanConcat
  <2> QED BY <1>3, <1>4, <2>1, <2>2
<1>6. ASSUME NEW kind \in {"metadata", "ambiguous"} PROVE Wrappers(x \o y, kind) = << >>
  <2>1. Wrappers(x \o y, kind) = Wrappers(x, kind) \o Wrappers(y, kind)
    BY <1>3, <1>4, WrappersConcat
  <2>2. << >> \o << >> = << >>
    BY EmptySeq, ConcatEmptySeq
  <2> QED BY <1>3, <1>4, <2>1, <2>2
<1> QED
  BY <1>2, <1>3, <1>4, <1>5, <1>6 DEF Same

LEMMA PassesMoves ==
    ASSUME NEW e, NEW k, Places(e, e, k, FALSE), NoOpening(e, k), NEW u \in Nat,
           BoundaryAt(e, k, u), NEW x, x = TextIfAny(Span(e, u))
    PROVE  Moves(e, e, FALSE, k, x, u, u, FALSE)
<1>1. /\ e \in Nat /\ k \in Nat /\ e <= k /\ k <= Len(text) /\ TextOK /\ e <= u /\ u <= k
      /\ Stretch(e, k)
  BY DEF Places, Stretch, BoundaryAt
<1>2. Stretch(e, u) /\ Stretch(u, k) /\ Stretch(u, u)
  BY <1>1 DEF Stretch
<1>3. Span(e, u) \in Seq(Nat)
  BY <1>2, SpanType
<1>4. x \in Seq(Segs) /\ TextOf(x) = Span(e, u)
  BY <1>3, TextIfAnyIs
<1>5. Within(TextOf(x), e, u)
  BY <1>1, <1>4, WithinSpan
<1>6. Places(u, u, k, FALSE) /\ u - u <= MaxHoldback
  BY <1>2, HoldbackAssumption DEF Places
<1>7. BodyOpen(u, u, FALSE)
  BY DEF BodyOpen
<1>8. ASSUME Clean(k), NEW n \in k .. Len(text)
      PROVE  Same(x \o Segments(Span(u, n)), Segments(Span(e, n)))
  <2>1. n \in Nat /\ Stretch(e, n) /\ Stretch(u, n) /\ u <= n
    BY <1>1 DEF Stretch
  <2>2. \A a, b \in Nat : OpeningAt(a, b) /\ e < a => u < a
    BY <1>1, <1>8, PassedHasNoTag
  <2>3. CASE NoOpening(e, n)
    <3>1. NoOpening(u, n)
      BY <1>1, <2>3 DEF NoOpening
    <3>2. PICK t, y : t = TextIfAny(Span(e, n)) /\ y = TextIfAny(Span(u, n))
      OBVIOUS
    <3>3. Segments(Span(e, n)) = t /\ Segments(Span(u, n)) = y
      BY <2>1, <2>3, <3>1, <3>2, SegmentsNone
    <3>4. Same(x \o y, t)
      BY <1>1, <2>1, <3>2, SameText
    <3> QED BY <3>3, <3>4
  <2>4. ASSUME NEW i \in Nat, NEW j \in Nat, FirstOpening(e, n, i, j)
        PROVE  Same(x \o Segments(Span(u, n)), Segments(Span(e, n)))
    <3>1. u < i
      BY <2>2, <2>4 DEF FirstOpening
    <3>2. FirstOpening(u, n, i, j)
      <4>1. OpeningAt(i, j) /\ j <= n
        BY <2>4 DEF FirstOpening
      <4>2. ASSUME NEW a \in Nat, NEW b \in Nat, OpeningAt(a, b), u < a, b <= n PROVE i <= a
        <5>1. e < a
          BY <1>1, <4>2
        <5> QED BY <2>4, <4>2, <5>1 DEF FirstOpening
      <4> QED BY <3>1, <4>1, <4>2 DEF FirstOpening
    <3>3. PICK c \in Nat : c = i - 1 /\ u <= c
      BY <3>1
    <3>4. PICK t, y, z : t = TextIfAny(Span(e, c)) /\ y = TextIfAny(Span(u, c)) /\ z = Inner(j, n)
      OBVIOUS
    <3>5. Segments(Span(e, n)) = t \o z /\ Stretch(j, n)
      <4>1. Segments(Span(e, n)) = TextIfAny(Span(e, i - 1)) \o Inner(j, n) /\ Stretch(j, n)
        BY <2>1, <2>4, SegmentsOpen
      <4> QED BY <3>3, <3>4, <4>1
    <3>6. Segments(Span(u, n)) = y \o z
      <4>1. Segments(Span(u, n)) = TextIfAny(Span(u, i - 1)) \o Inner(j, n)
        BY <2>1, <3>2, SegmentsOpen
      <4> QED BY <3>3, <3>4, <4>1
    <3>7. Same(x \o y, t) /\ x \in Seq(Segs) /\ y \in Seq(Segs) /\ t \in Seq(Segs)
      BY <1>1, <3>3, <3>4, SameText
    <3>8. z \in Seq(Segs)
      BY <3>4, <3>5, InnerType
    <3>9. x \o (y \o z) = (x \o y) \o z
      <4>1. (x \o y) \o z = x \o (y \o z)
        <5>1. Three(Segs, x, y, z)
          BY <3>7, <3>8 DEF Three
        <5> QED BY <5>1, ConcatAssoc DEF Assoc
      <4> QED BY <4>1
    <3>10. Same((x \o y) \o z, t \o z)
      <4>1. PICK d \in Seq(Segs) : d = x \o y
        BY <3>7, ConcatType
      <4>2. TextOf(d \o z) = TextOf(d) \o TextOf(z) /\ TextOf(t \o z) = TextOf(t) \o TextOf(z)
        BY <3>7, <3>8, TextOfConcat
      <4>3. ASSUME NEW kind \in {"metadata", "ambiguous"}
            PROVE  Wrappers(d \o z, kind) = Wrappers(t \o z, kind)
        <5>1. PICK v \in Seq(Segs) : v = t
          BY <3>7
        <5>2. Wrappers(d \o z, kind) = Wrappers(d, kind) \o Wrappers(z, kind)
          BY <3>8, WrappersConcat
        <5>3. Wrappers(v \o z, kind) = Wrappers(v, kind) \o Wrappers(z, kind)
          BY <3>8, WrappersConcat
        <5> QED BY <3>7, <4>1, <5>1, <5>2, <5>3 DEF Same
      <4> QED BY <3>7, <4>1, <4>2, <4>3 DEF Same
    <3> QED BY <3>5, <3>6, <3>9, <3>10
  <2> QED BY <2>1, <2>3, <2>4, OpeningCases
<1> QED
  BY <1>1, <1>4, <1>5, <1>6, <1>7, <1>8 DEF Moves, Says, Ahead

(* A definition by rounds reaches what its step makes of the start.        *)
StepsBy(N, A, F, a, g) ==
    g[0] = a /\ \A k \in 1 .. N : g[k - 1] \in A => g[k] = F[g[k - 1]]

LEMMA LoopIs ==
    ASSUME NEW N \in Nat, NEW A, NEW a \in A, NEW F \in [A -> A], NEW M, Shortens(A, F, M),
           M[a] <= N, NEW g, StepsBy(N, A, F, a, g)
    PROVE  Iterates(N, A, F, a, g) /\ g[N] \in A /\ F[g[N]] = g[N]
<1>1. \A k \in 0 .. N : g[k] \in A
  <2>1. g[0] \in A /\ \A k \in 1 .. N : g[k - 1] \in A => g[k] \in A
    BY DEF StepsBy
  <2> QED BY <2>1, RecursionType
<1>2. Repeats(N, F, a, g)
  <2>1. ASSUME NEW k \in 1 .. N PROVE g[k] = F[g[k - 1]]
    <3>1. k - 1 \in 0 .. N
      OBVIOUS
    <3> QED BY <1>1, <3>1 DEF StepsBy
  <2> QED BY <2>1 DEF Repeats, StepsBy
<1>3. Iterates(N, A, F, a, g)
  BY <1>2 DEF Iterates
<1>4. F[g[N]] = g[N]
  BY <1>3, RepeatsRest
<1>5. N \in 0 .. N
  OBVIOUS
<1> QED
  BY <1>1, <1>3, <1>4, <1>5

-----------------------------------------------------------------------------
(* One step, and all of them.                                              *)

AtRest(e, k, w) == e = k \/ (~w /\ IsBeginning(Span(e, k)))

(* From one state of the splitter a step moves to another, or stays.       *)
Progress(o, e, w, k, x, p, f, v) ==
    \/ e < f
    \/ p = o /\ f = e /\ v = w /\ x = << >> /\ AtRest(e, k, w)

LEMMA AppendIs ==
    ASSUME NEW S, NEW q \in Seq(S), NEW x \in S
    PROVE  Append(q, x) = q \o << x >>
BY AppendIsConcat

LEMMA StepMoves ==
    ASSUME NEW o, NEW e, NEW w, NEW k, Places(o, e, k, w), e - o <= MaxHoldback, NEW q \in Seq(Segs)
    PROVE  \E p, f, v, x : /\ Moves(o, e, w, k, x, p, f, v) /\ Progress(o, e, w, k, x, p, f, v)
                           /\ Step(SplitAt(o, e, k, w, q)) = SplitAt(p, f, k, v, q \o x)
<1>1. /\ o \in Nat /\ e \in Nat /\ k \in Nat /\ o <= e /\ e <= k /\ k <= Len(text) /\ TextOK
      /\ w \in BOOLEAN /\ (~w => o = e)
  BY DEF Places, Stretch
<1>2. PICK t : t = Step(SplitAt(o, e, k, w, q))
  OBVIOUS
<1>3. \/ GivesUp(o, e, k, w, q, t)
      \/ Holds(o, e, k, w, q, t)
      \/ \E i \in Nat : Closes(o, e, k, w, q, t, i)
      \/ \E i, j \in Nat : Opens(o, e, k, w, q, t, i, j)
      \/ \E u \in Nat : Passes(o, e, k, w, q, t, u)
  BY <1>2, StepIs
<1>4. CASE GivesUp(o, e, k, w, q, t)
  <2>1. PICK s, x : s = Segment("ambiguous", Span(o, k)) /\ x = << s >>
    OBVIOUS
  <2>2. w = TRUE /\ k - o > MaxHoldback
    BY <1>1, <1>4 DEF GivesUp
  <2>3. Moves(o, e, w, k, x, k, k, FALSE)
    BY <2>1, <2>2, GivesUpMoves
  <2>4. s \in Segs
    BY <1>1, <2>1, SpanType, SegmentIs DEF Stretch
  <2>5. Append(q, s) = q \o x
    BY <2>1, <2>4, AppendIs
  <2>6. e < k
    <3>1. CASE e = k
      BY <1>1, <2>2, <3>1, HoldbackAssumption
    <3> QED BY <1>1, <3>1
  <2>7. t = SplitAt(k, k, k, FALSE, q \o x)
    BY <1>4, <2>1, <2>5 DEF GivesUp
  <2> QED BY <1>2, <2>3, <2>6, <2>7 DEF Progress
<1>5. CASE Holds(o, e, k, w, q, t)
  <2>1. w = TRUE /\ k - o <= MaxHoldback /\ NoClosing(e, k) /\ t = SplitAt(o, k, k, TRUE, q)
    BY <1>1, <1>5 DEF Holds
  <2>2. Moves(o, e, w, k, << >>, o, k, TRUE)
    BY <2>1, HoldsMoves
  <2>3. q \o << >> = q
    BY ConcatEmptySeq
  <2>4. Progress(o, e, w, k, << >>, o, k, TRUE)
    BY <1>1, <2>1 DEF Progress, AtRest
  <2> QED BY <1>2, <2>1, <2>2, <2>3, <2>4
<1>6. ASSUME NEW i \in Nat, Closes(o, e, k, w, q, t, i)
      PROVE  \E p, f, v, x : /\ Moves(o, e, w, k, x, p, f, v) /\ Progress(o, e, w, k, x, p, f, v)
                             /\ t = SplitAt(p, f, k, v, q \o x)
  <2>1. PICK s, x : s = Classify(Span(o, i - 1)) /\ x = << s >>
    OBVIOUS
  <2>2. w = TRUE /\ FirstClosing(e, k, i)
    BY <1>1, <1>6 DEF Closes
  <2>3. Moves(o, e, w, k, x, i + 2, i + 2, FALSE)
    BY <2>1, <2>2, ClosesMoves
  <2>4. s \in Segs
    <3>1. PICK y \in Nat : y = i - 1 /\ o <= y /\ y <= k
      BY <1>1, <2>2 DEF FirstClosing
    <3>2. Stretch(o, y)
      BY <1>1, <3>1 DEF Stretch
    <3> QED BY <2>1, <3>1, <3>2, SpanType, ClassifyType
  <2>5. Append(q, s) = q \o x
    BY <2>1, <2>4, AppendIs
  <2>6. e < i + 2
    BY <1>1, <2>2 DEF FirstClosing
  <2>7. t = SplitAt(i + 2, i + 2, k, FALSE, q \o x)
    BY <1>6, <2>1, <2>5 DEF Closes
  <2> QED BY <2>3, <2>6, <2>7 DEF Progress
<1>7. ASSUME NEW i \in Nat, NEW j \in Nat, Opens(o, e, k, w, q, t, i, j)
      PROVE  \E p, f, v, x : /\ Moves(o, e, w, k, x, p, f, v) /\ Progress(o, e, w, k, x, p, f, v)
                             /\ t = SplitAt(p, f, k, v, q \o x)
  <2>1. PICK x : x = TextIfAny(Span(e, i - 1))
    OBVIOUS
  <2>2. w = FALSE /\ o = e /\ FirstOpening(e, k, i, j)
    BY <1>1, <1>7 DEF Opens
  <2>3. Moves(o, e, w, k, x, j, j, TRUE)
    BY <2>1, <2>2, OpensMoves
  <2>4. e < j
    BY <1>1, <2>2 DEF FirstOpening, OpeningAt
  <2>5. t = SplitAt(j, j, k, TRUE, q \o x)
    BY <1>7, <2>1 DEF Opens
  <2> QED BY <2>3, <2>4, <2>5 DEF Progress
<1>8. ASSUME NEW u \in Nat, Passes(o, e, k, w, q, t, u)
      PROVE  \E p, f, v, x : /\ Moves(o, e, w, k, x, p, f, v) /\ Progress(o, e, w, k, x, p, f, v)
                             /\ t = SplitAt(p, f, k, v, q \o x)
  <2>1. PICK x : x = TextIfAny(Span(e, u))
    OBVIOUS
  <2>2. w = FALSE /\ o = e /\ NoOpening(e, k) /\ BoundaryAt(e, k, u)
    BY <1>1, <1>8 DEF Passes
  <2>3. Moves(o, e, w, k, x, u, u, FALSE)
    BY <2>1, <2>2, PassesMoves
  <2>4. e < u \/ (u = e /\ x = << >> /\ AtRest(e, k, w))
    <3>1. e <= u /\ (u = k \/ IsBeginning(Span(u, k)))
      BY <2>2 DEF BoundaryAt
    <3>2. CASE u = e
      <4>1. x = << >>
        BY <2>1, <3>2, SpanEmpty DEF TextIfAny
      <4> QED BY <2>2, <3>1, <3>2, <4>1 DEF AtRest
    <3> QED BY <1>1, <3>1, <3>2
  <2>5. t = SplitAt(u, u, k, FALSE, q \o x)
    BY <1>8, <2>1 DEF Passes
  <2>6. Progress(o, e, w, k, x, u, u, FALSE)
    BY <2>2, <2>4 DEF Progress
  <2> QED BY <2>3, <2>5, <2>6
<1> QED
  BY <1>2, <1>3, <1>4, <1>5, <1>6, <1>7, <1>8

(* The states the splitter reaches from one state.                         *)
SplitStates(k) == {SplitAt(o, e, k, w, q) : o \in 0 .. k, e \in 0 .. k, w \in BOOLEAN, q \in Seq(Segs)}
Reached(o, e, w, k, t) ==
    \E p, f, v, x : Moves(o, e, w, k, x, p, f, v) /\ t = SplitAt(p, f, k, v, x)
ReachedStates(o, e, w, k) == {t \in SplitStates(k) : Reached(o, e, w, k, t)}

LEMMA ReachedHas ==
    ASSUME NEW o, NEW e, NEW w, NEW k, NEW p, NEW f, NEW v, NEW x, Moves(o, e, w, k, x, p, f, v)
    PROVE  SplitAt(p, f, k, v, x) \in ReachedStates(o, e, w, k)
<1>1. p \in 0 .. k /\ f \in 0 .. k /\ v \in BOOLEAN /\ x \in Seq(Segs)
  BY DEF Moves, Places, Stretch
<1>2. SplitAt(p, f, k, v, x) \in SplitStates(k)
  BY <1>1 DEF SplitStates
<1> QED
  BY <1>2 DEF ReachedStates, Reached

LEMMA ReachedStep ==
    ASSUME NEW o, NEW e, NEW w, NEW k, Places(o, e, k, w), NEW t \in ReachedStates(o, e, w, k)
    PROVE  /\ Step(t) \in ReachedStates(o, e, w, k)
           /\ Len(t.buffer) \in Nat
           /\ Step(t) = t \/ Len(Step(t).buffer) < Len(t.buffer)
           /\ Step(t) = t => t.inWrapper \in BOOLEAN
<1>1. PICK p, f, v, x : Moves(o, e, w, k, x, p, f, v) /\ t = SplitAt(p, f, k, v, x)
  BY DEF ReachedStates, Reached
<1>2. Places(p, f, k, v) /\ f - p <= MaxHoldback /\ x \in Seq(Segs)
  BY <1>1 DEF Moves
<1>3. PICK r, g, u, y : /\ Moves(p, f, v, k, y, r, g, u) /\ Progress(p, f, v, k, y, r, g, u)
                        /\ Step(t) = SplitAt(r, g, k, u, x \o y)
  BY <1>1, <1>2, StepMoves
<1>4. Moves(o, e, w, k, x \o y, r, g, u)
  BY <1>1, <1>3, MovesThen
<1>5. Step(t) \in ReachedStates(o, e, w, k)
  BY <1>3, <1>4, ReachedHas
<1>6. t.buffer = Span(f, k) /\ Step(t).buffer = Span(g, k) /\ t.inWrapper = v
  BY <1>1, <1>3 DEF SplitAt
<1>7. Stretch(f, k) /\ Stretch(g, k) /\ v \in BOOLEAN
  BY <1>2, <1>3 DEF Moves, Places
<1>8. Len(t.buffer) = k - f /\ Len(Step(t).buffer) = k - g
  BY <1>6, <1>7, SpanType
<1>9. CASE f < g
  BY <1>5, <1>6, <1>7, <1>8, <1>9 DEF Stretch
<1>10. CASE r = p /\ g = f /\ u = v /\ y = << >>
  <2>1. x \o y = x
    BY <1>2, <1>10, ConcatEmptySeq
  <2>2. Step(t) = t
    BY <1>1, <1>3, <1>10, <2>1
  <2> QED BY <1>5, <1>6, <1>7, <1>8, <2>2 DEF Stretch
<1> QED
  BY <1>3, <1>9, <1>10 DEF Progress

(* A state that a step does not change is at rest.                         *)
LEMMA RestIs ==
    ASSUME NEW o, NEW e, NEW w, NEW k, Places(o, e, k, w), e - o <= MaxHoldback,
           NEW q \in Seq(Segs), Step(SplitAt(o, e, k, w, q)) = SplitAt(o, e, k, w, q)
    PROVE  AtRest(e, k, w)
<1>1. PICK p, f, v, x : /\ Moves(o, e, w, k, x, p, f, v) /\ Progress(o, e, w, k, x, p, f, v)
                        /\ Step(SplitAt(o, e, k, w, q)) = SplitAt(p, f, k, v, q \o x)
  BY StepMoves
<1>2. Span(e, k) = Span(f, k)
  BY <1>1 DEF SplitAt
<1>3. Stretch(e, k) /\ Stretch(f, k)
  BY <1>1 DEF Places, Moves
<1>4. k - e = k - f
  <2>1. Len(Span(e, k)) = k - e
    BY <1>3, SpanType
  <2>2. Len(Span(f, k)) = k - f
    BY <1>3, SpanType
  <2> QED BY <1>2, <2>1, <2>2
<1>5. ~(e < f)
  BY <1>3, <1>4 DEF Stretch
<1> QED
  BY <1>1, <1>5 DEF Progress

LEMMA StepsIs ==
    ASSUME NEW o, NEW e, NEW w, NEW k, Places(o, e, k, w), e - o <= MaxHoldback
    PROVE  \E p, f, v, x : /\ Moves(o, e, w, k, x, p, f, v) /\ AtRest(f, k, v)
                           /\ Steps(SplitAt(o, e, k, w, << >>)) = SplitAt(p, f, k, v, x)
<1>1. PICK A : A = ReachedStates(o, e, w, k)
  OBVIOUS
<1>2. PICK a : a = SplitAt(o, e, k, w, << >>)
  OBVIOUS
<1>3. a \in A /\ a.buffer = Span(e, k)
  BY <1>1, <1>2, MovesNot, ReachedHas DEF SplitAt
<1>4. PICK n \in Nat, N \in Nat : n = k - e /\ N = n + 1 /\ Len(a.buffer) = n
  BY <1>3, SpanType DEF Places, Stretch
<1> DEFINE F == [x \in A |-> Step(x)]
           M == [x \in A |-> Len(x.buffer)]
           Def(r) == r = [i \in 0 .. N |-> IF i = 0 THEN a ELSE Step(r[i - 1])]
           g == CHOOSE r : Def(r)
<1>5. \A x \in A : /\ Step(x) \in A /\ Len(x.buffer) \in Nat
                   /\ Step(x) = x \/ Len(Step(x).buffer) < Len(x.buffer)
  BY <1>1, ReachedStep
<1>6. F \in [A -> A] /\ \A x \in A : F[x] = Step(x)
  BY <1>5
<1>7. Shortens(A, F, M) /\ M[a] <= N
  <2>1. M \in [A -> Nat] /\ \A x \in A : M[x] = Len(x.buffer)
    BY <1>5
  <2>2. ASSUME NEW x \in A PROVE F[x] = x \/ M[F[x]] < M[x]
    <3>1. F[x] = Step(x) /\ Step(x) \in A
      BY <1>5, <1>6
    <3> HIDE DEF F, M
    <3> QED BY <1>5, <2>1, <3>1
  <2>3. M[a] = n
    BY <1>3, <1>4, <2>1
  <2> HIDE DEF F, M
  <2> QED BY <1>4, <2>1, <2>2, <2>3 DEF Shortens
<1> HIDE DEF F, M
<1>8. Def(g)
  <2>1. PICK f \in [0 .. N -> A] : f = [i \in 0 .. N |-> IF i = 0 THEN a ELSE F[f[i - 1]]]
    <3>1. \E f \in [0 .. N -> A] : Unrolls(N, F, a, f)
      BY <1>3, <1>6, RepeatsExists
    <3> QED BY <3>1 DEF Unrolls
  <2>2. ASSUME NEW i \in 0 .. N
        PROVE  (IF i = 0 THEN a ELSE F[f[i - 1]]) = IF i = 0 THEN a ELSE Step(f[i - 1])
    <3>1. i # 0 => i - 1 \in 0 .. N
      OBVIOUS
    <3> QED BY <1>6, <3>1
  <2>3. Def(f)
    BY <2>1, <2>2
  <2> QED BY <2>3
<1>9. Steps(a) = g[N]
  BY <1>4 DEF Steps
<1>10. StepsBy(N, A, F, a, g)
  <2>1. g[0] = a
    <3>1. 0 \in 0 .. N
      OBVIOUS
    <3> QED BY <1>8, <3>1
  <2>2. ASSUME NEW i \in 1 .. N, g[i - 1] \in A PROVE g[i] = F[g[i - 1]]
    <3>1. i \in 0 .. N /\ i # 0
      OBVIOUS
    <3>2. g[i] = Step(g[i - 1])
      BY <1>8, <3>1
    <3> HIDE DEF g
    <3> QED BY <1>6, <2>2, <3>2
  <2> HIDE DEF g
  <2> QED BY <2>1, <2>2 DEF StepsBy
<1> HIDE DEF g, Def
<1>11. g[N] \in A /\ F[g[N]] = g[N]
  BY <1>3, <1>6, <1>7, <1>10, LoopIs
<1>12. PICK t : t = Steps(a)
  OBVIOUS
<1>13. t \in A /\ Step(t) = t
  BY <1>6, <1>9, <1>11, <1>12
<1>14. PICK p, f, v, x : Moves(o, e, w, k, x, p, f, v) /\ t = SplitAt(p, f, k, v, x)
  BY <1>1, <1>13 DEF ReachedStates, Reached
<1>15. AtRest(f, k, v)
  <2>1. Places(p, f, k, v) /\ f - p <= MaxHoldback /\ x \in Seq(Segs)
    BY <1>14 DEF Moves
  <2> QED BY <1>13, <1>14, <2>1, RestIs
<1> QED
  BY <1>2, <1>12, <1>14, <1>15

(* A position of the answer: a number of which the proofs about the tool   *)
(* parser use nothing.                                                     *)
Position == Nat

-----------------------------------------------------------------------------
(* The two parts of a buffer before and after a place.                     *)

LEMMA PartsExist ==
    ASSUME NEW b \in Seq(Position), NEW m \in 0 .. Len(b)
    PROVE  \E t, u \in Seq(Position) : b = t \o u /\ Len(t) = m /\ Len(u) = Len(b) - m
<1>1. PICK n \in Nat : n = Len(b)
  OBVIOUS
<1>2. PICK t, u : t = SubSeq(b, 1, m) /\ u = SubSeq(b, m + 1, n)
  OBVIOUS
<1>3. t \in Seq(Position) /\ Len(t) = m /\ \A i \in 1 .. m : t[i] = b[i]
  BY <1>1, <1>2, SubSeqProperties
<1>4. u \in Seq(Position) /\ Len(u) = n - m /\ \A i \in 1 .. n - m : u[i] = b[m + i]
  BY <1>1, <1>2, SubSeqProperties
<1>5. PICK c : c = t \o u
  OBVIOUS
<1>6. /\ c \in Seq(Position) /\ Len(c) = n /\ \A i \in 1 .. m : c[i] = t[i]
      /\ \A i \in 1 .. n - m : c[m + i] = u[i]
  BY <1>1, <1>3, <1>4, <1>5, ConcatIs
<1>7. ASSUME NEW i \in 1 .. n PROVE b[i] = c[i]
  <2>1. CASE i <= m
    BY <1>1, <1>3, <1>6, <2>1
  <2>2. CASE i > m
    <3>1. PICK j : j = i - m
      OBVIOUS
    <3>2. j \in 1 .. n - m /\ m + j = i
      BY <1>1, <2>2, <3>1
    <3>3. u[j] = b[m + j] /\ c[m + j] = u[j]
      BY <1>4, <1>6, <3>2
    <3> QED BY <3>2, <3>3
  <2> QED BY <1>1, <2>1, <2>2
<1>8. b = c
  BY <1>1, <1>6, <1>7, SeqEqual
<1> QED
  BY <1>1, <1>3, <1>4, <1>5, <1>8

Joined(b, t, u, m) == b = t \o u /\ m = Len(t)

LEMMA PartsAre ==
    ASSUME NEW t \in Seq(Position), NEW u \in Seq(Position), NEW b, NEW m, Joined(b, t, u, m)
    PROVE  Part(b, 1, m) = t /\ From(b, m + 1) = u
<1>1. b = t \o u /\ m = Len(t)
  BY DEF Joined
<1>2. PICK n : n = Len(u)
  OBVIOUS
<1>3. /\ b \in Seq(Position) /\ m \in Nat /\ n \in Nat /\ Len(b) = m + n
      /\ \A i \in 1 .. m : b[i] = t[i]
      /\ \A i \in 1 .. n : b[m + i] = u[i]
  BY <1>1, <1>2, ConcatIs
<1>4. PICK p : p = SubSeq(b, 1, m)
  OBVIOUS
<1>5. p \in Seq(Position) /\ Len(p) = m /\ \A i \in 1 .. m : p[i] = b[i]
  BY <1>3, <1>4, SubSeqProperties
<1>6. p = t
  BY <1>1, <1>3, <1>5, SeqEqual
<1>7. PICK f : f = SubSeq(b, m + 1, Len(b))
  OBVIOUS
<1>8. f \in Seq(Position) /\ Len(f) = n /\ \A i \in 1 .. n : f[i] = b[m + i]
  BY <1>3, <1>7, SubSeqProperties
<1>9. f = u
  BY <1>1, <1>2, <1>3, <1>8, SeqEqual
<1> QED
  BY <1>4, <1>6, <1>7, <1>9 DEF Part, From

LEMMA PartsOf ==
    ASSUME NEW t \in Seq(Position), NEW u \in Seq(Position)
    PROVE  Part(t \o u, 1, Len(t)) = t /\ From(t \o u, Len(t) + 1) = u
<1>1. PICK b, m : b = t \o u /\ m = Len(t)
  OBVIOUS
<1>2. Joined(b, t, u, m)
  BY <1>1 DEF Joined
<1>3. Part(b, 1, m) = t /\ From(b, m + 1) = u
  BY <1>2, PartsAre
<1> QED
  BY <1>1, <1>3

LEMMA JoinedLength ==
    ASSUME NEW t \in Seq(Position), NEW u \in Seq(Position)
    PROVE  /\ t \o u \in Seq(Position) /\ Len(t \o u) = Len(t) + Len(u)
           /\ Len(t) \in Nat /\ Len(u) \in Nat
BY ConcatIs

LEMMA IsJoined ==
    ASSUME NEW t \in Seq(Position), NEW u \in Seq(Position), NEW b, b = t \o u, NEW m, m = Len(t),
           NEW piece
    PROVE  /\ \A i \in 1 .. m : Is(b, i, piece) <=> Is(t, i, piece)
           /\ \A i \in Nat : i >= 1 => (Is(b, m + i, piece) <=> Is(u, i, piece))
<1>1. PICK n : n = Len(u)
  OBVIOUS
<1>2. /\ b \in Seq(Position) /\ m \in Nat /\ n \in Nat /\ Len(b) = m + n
      /\ \A i \in 1 .. m : b[i] = t[i]
      /\ \A i \in 1 .. n : b[m + i] = u[i]
  BY <1>1, ConcatIs
<1>3. DOMAIN b = 1 .. m + n /\ DOMAIN t = 1 .. m /\ DOMAIN u = 1 .. n
  BY <1>1, <1>2
<1>4. ASSUME NEW i \in 1 .. m PROVE Is(b, i, piece) <=> Is(t, i, piece)
  BY <1>2, <1>3 DEF Is
<1>5. ASSUME NEW i \in Nat, i >= 1 PROVE Is(b, m + i, piece) <=> Is(u, i, piece)
  <2>1. CASE i <= n
    <3>1. m + i \in DOMAIN b /\ i \in DOMAIN u /\ b[m + i] = u[i]
      BY <1>2, <1>3, <1>5, <2>1
    <3> QED BY <3>1 DEF Is
  <2>2. CASE i > n
    <3>1. m + i \notin DOMAIN b /\ i \notin DOMAIN u
      BY <1>2, <1>3, <1>5, <2>2
    <3> QED BY <3>1 DEF Is
  <2> QED BY <1>2, <2>1, <2>2
<1> QED
  BY <1>4, <1>5

-----------------------------------------------------------------------------
(* The first marker of a buffer.                                           *)

MarkAt(b, name, i) ==
    i \in DOMAIN b /\ Is(b, i, "<") /\ Is(b, i + 1, name) /\ Is(b, i + 2, ">")

MarkerIs(b, name, m) ==
    \/ m = 0 /\ \A i \in Nat : ~MarkAt(b, name, i)
    \/ /\ m \in Nat /\ m >= 1 /\ m + 2 <= Len(b) /\ MarkAt(b, name, m)
       /\ \A i \in Nat : MarkAt(b, name, i) => m <= i

LEMMA MarkerHas ==
    ASSUME NEW b \in Seq(Position), NEW name, NEW m, m = Marker(b, name)
    PROVE  MarkerIs(b, name, m)
<1> DEFINE at == {i \in DOMAIN b : Is(b, i, "<") /\ Is(b, i + 1, name) /\ Is(b, i + 2, ">")}
<1>1. PICK n \in Nat : n = Len(b) /\ DOMAIN b = 1 .. n
  OBVIOUS
<1>2. m = IF at = {} THEN 0 ELSE CHOOSE i \in at : \A j \in at : i <= j
  BY DEF Marker
<1>3. \A i : i \in at <=> MarkAt(b, name, i)
  BY DEF MarkAt
<1>4. at \in SUBSET Nat
  BY <1>1
<1> HIDE DEF at
<1>5. CASE at = {}
  BY <1>2, <1>3, <1>5 DEF MarkerIs
<1>6. CASE at # {}
  <2>1. \E i \in at : \A j \in at : i <= j
    BY <1>4, <1>6, LeastNatural
  <2>2. m \in at /\ \A j \in at : m <= j
    BY <1>2, <1>6, <2>1
  <2>3. MarkAt(b, name, m)
    BY <1>3, <2>2
  <2>4. m \in 1 .. n /\ m + 2 \in 1 .. n
    BY <1>1, <2>3 DEF MarkAt, Is
  <2> QED BY <1>1, <1>3, <2>2, <2>3, <2>4 DEF MarkerIs
<1> QED
  BY <1>5, <1>6

LEMMA MarkerOnly ==
    ASSUME NEW b, NEW name, NEW m, MarkerIs(b, name, m), NEW n, MarkerIs(b, name, n)
    PROVE  m = n
BY DEF MarkerIs

LEMMA MarkerGrows ==
    ASSUME NEW b \in Seq(Position), NEW R \in Seq(Position), NEW c, c = b \o R,
           NEW name, NEW m, MarkerIs(b, name, m), m # 0
    PROVE  MarkerIs(c, name, m)
<1>1. PICK n \in Nat : n = Len(b)
  OBVIOUS
<1>2. \A i \in 1 .. n : \A piece : Is(c, i, piece) <=> Is(b, i, piece)
  BY <1>1, IsJoined
<1>3. /\ m \in Nat /\ m >= 1 /\ m + 2 <= n /\ MarkAt(b, name, m)
      /\ \A i \in Nat : MarkAt(b, name, i) => m <= i
  BY <1>1 DEF MarkerIs
<1>4. c \in Seq(Position) /\ Len(c) >= n
  BY <1>1, ConcatIs
<1>5. MarkAt(c, name, m)
  <2>1. m \in 1 .. n /\ m + 1 \in 1 .. n /\ m + 2 \in 1 .. n
    BY <1>1, <1>3
  <2>2. m \in DOMAIN c
    BY <1>4, <2>1
  <2> QED BY <1>2, <1>3, <2>1, <2>2 DEF MarkAt
<1>6. ASSUME NEW i \in Nat, MarkAt(c, name, i) PROVE m <= i
  <2>1. CASE i + 2 <= n
    <3>1. i \in 1 .. n /\ i + 1 \in 1 .. n /\ i + 2 \in 1 .. n
      BY <1>1, <1>4, <1>6, <2>1 DEF MarkAt
    <3>2. MarkAt(b, name, i)
      BY <1>1, <1>2, <1>6, <3>1 DEF MarkAt
    <3> QED BY <1>3, <3>2
  <2> QED BY <1>1, <1>3, <2>1
<1> QED
  BY <1>1, <1>3, <1>4, <1>5, <1>6 DEF MarkerIs

LEMMA MarkerAfter ==
    ASSUME NEW t \in Seq(Position), NEW u \in Seq(Position), NEW b, b = t \o u, NEW k, k = Len(t),
           NEW name, \A i \in 1 .. k : ~MarkAt(b, name, i), NEW m, MarkerIs(u, name, m)
    PROVE  MarkerIs(b, name, IF m = 0 THEN 0 ELSE m + k)
<1>1. k \in Nat /\ b \in Seq(Position) /\ Len(b) = k + Len(u) /\ Len(u) \in Nat
  BY ConcatIs
<1>2. \A i \in Nat : \A piece : i >= 1 => (Is(b, k + i, piece) <=> Is(u, i, piece))
  BY IsJoined
<1>3. ASSUME NEW i \in Nat, i >= 1 PROVE MarkAt(b, name, k + i) <=> MarkAt(u, name, i)
  <2>1. (k + i) + 1 = k + (i + 1) /\ (k + i) + 2 = k + (i + 2)
    BY <1>1
  <2>2. k + i \in DOMAIN b <=> i \in DOMAIN u
    BY <1>1, <1>3
  <2> QED BY <1>2, <1>3, <2>1, <2>2 DEF MarkAt
<1>4. ASSUME NEW i \in Nat, MarkAt(b, name, i) PROVE \E j \in Nat : j >= 1 /\ i = k + j
  <2>1. i \in 1 .. Len(b)
    BY <1>1, <1>4 DEF MarkAt
  <2>2. i > k
    BY <1>1, <1>4, <2>1
  <2>3. i - k \in Nat /\ i - k >= 1 /\ i = k + (i - k)
    BY <1>1, <2>1, <2>2
  <2> QED BY <2>3
<1>5. CASE m = 0
  <2>1. \A i \in Nat : ~MarkAt(u, name, i)
    BY <1>5 DEF MarkerIs
  <2>2. \A i \in Nat : ~MarkAt(b, name, i)
    BY <1>3, <1>4, <2>1
  <2> QED BY <1>5, <2>2 DEF MarkerIs
<1>6. CASE m # 0
  <2>1. /\ m \in Nat /\ m >= 1 /\ m + 2 <= Len(u) /\ MarkAt(u, name, m)
        /\ \A i \in Nat : MarkAt(u, name, i) => m <= i
    BY <1>6 DEF MarkerIs
  <2>2. PICK n \in Nat : n = k + m
    BY <1>1, <2>1
  <2>3. MarkAt(b, name, n)
    BY <1>3, <2>1, <2>2
  <2>4. ASSUME NEW i \in Nat, MarkAt(b, name, i) PROVE n <= i
    <3>1. PICK j \in Nat : j >= 1 /\ i = k + j
      BY <1>4, <2>4
    <3>2. MarkAt(u, name, j)
      BY <1>3, <2>4, <3>1
    <3>3. m <= j
      BY <2>1, <3>2
    <3> QED BY <1>1, <2>1, <2>2, <3>1, <3>3
  <2>5. n >= 1 /\ n + 2 <= Len(b) /\ n = m + k
    BY <1>1, <2>1, <2>2
  <2>6. MarkerIs(b, name, n)
    BY <2>3, <2>4, <2>5 DEF MarkerIs
  <2> QED BY <1>6, <2>5, <2>6
<1> QED
  BY <1>5, <1>6
(* No marker starts in a part that is passed on.                           *)
Clear(b, name, k) == \A i \in 1 .. k : ~MarkAt(b, name, i)

LEMMA MarkerFollows ==
    ASSUME NEW t \in Seq(Position), NEW u \in Seq(Position), NEW name,
           Clear(t \o u, name, Len(t)), NEW m, MarkerIs(u, name, m)
    PROVE  MarkerIs(t \o u, name, IF m = 0 THEN 0 ELSE m + Len(t))
BY MarkerAfter DEF Clear

-----------------------------------------------------------------------------
(* A buffer around its first marker: t, the marker, and u.                 *)
None(b, name) == MarkerIs(b, name, 0)
Split(b, name, t, u) ==
    /\ t \in Seq(Position) /\ u \in Seq(Position)
    /\ \E mark \in Seq(Position) : Len(mark) = 3 /\ b = t \o (mark \o u)
    /\ MarkerIs(b, name, Len(t) + 1)

LEMMA SplitIs ==
    ASSUME NEW b \in Seq(Position), NEW name, NEW m, m = Marker(b, name)
    PROVE  \/ m = 0 /\ None(b, name)
           \/ m # 0 /\ \E t, u : Split(b, name, t, u)
<1>1. MarkerIs(b, name, m)
  BY MarkerHas
<1>2. CASE m = 0
  BY <1>1, <1>2 DEF None
<1>3. CASE m # 0
  <2>1. PICK n \in Nat : n = Len(b)
    OBVIOUS
  <2>2. m \in Nat /\ m >= 1 /\ m + 2 <= n
    BY <1>1, <1>3, <2>1 DEF MarkerIs
  <2>3. PICK k \in Nat : k = m - 1 /\ k + 1 = m /\ k \in 0 .. n
    BY <2>2
  <2>4. PICK t \in Seq(Position), c \in Seq(Position) : b = t \o c /\ Len(t) = k /\ Len(c) = n - k
    BY <2>1, <2>3, PartsExist
  <2>5. 3 \in 0 .. Len(c)
    <3>1. PICK l : l = Len(c)
      OBVIOUS
    <3>2. l = n - k
      BY <2>4, <3>1
    <3>3. 3 \in 0 .. l
      <4>1. k + 3 <= n
        BY <2>2, <2>3
      <4> QED BY <3>2, <4>1
    <3> QED BY <3>1, <3>3
  <2>6. PICK mark \in Seq(Position), u \in Seq(Position) : c = mark \o u /\ Len(mark) = 3
    BY <2>5, PartsExist
  <2>7. Split(b, name, t, u)
    BY <1>1, <2>3, <2>4, <2>6 DEF Split
  <2> QED BY <1>3, <2>7
<1> QED
  BY <1>2, <1>3

LEMMA SplitParts ==
    ASSUME NEW b \in Seq(Position), NEW name, NEW t, NEW u, Split(b, name, t, u),
           NEW m, m = Marker(b, name)
    PROVE  /\ m # 0 /\ Part(b, 1, m - 1) = t /\ From(b, m + 3) = u
           /\ Len(u) + 3 <= Len(b) /\ t \in Seq(Position) /\ u \in Seq(Position)
<1>1. PICK mark \in Seq(Position) : Len(mark) = 3 /\ b = t \o (mark \o u)
  BY DEF Split
<1>2. t \in Seq(Position) /\ u \in Seq(Position)
  BY DEF Split
<1>3. MarkerIs(b, name, Len(t) + 1)
  BY DEF Split
<1>4. m = Len(t) + 1
  BY <1>3, MarkerHas, MarkerOnly
<1>5. mark \o u \in Seq(Position)
  BY <1>2, JoinedLength
<1>6. Part(b, 1, Len(t)) = t
  BY <1>1, <1>2, <1>5, PartsOf
<1>7. t \o mark \in Seq(Position) /\ Len(t \o mark) = Len(t) + Len(mark)
  BY <1>2, JoinedLength
<1>8. t \o (mark \o u) = (t \o mark) \o u
  <2>1. Three(Position, t, mark, u)
    BY <1>2 DEF Three
  <2> QED BY <2>1, ConcatAssoc DEF Assoc
<1>9. From((t \o mark) \o u, Len(t \o mark) + 1) = u
  BY <1>2, <1>7, PartsOf
<1>10. Len((t \o mark) \o u) = Len(t \o mark) + Len(u)
  BY <1>2, <1>7, JoinedLength
<1>11. PICK j \in Nat, k \in Nat, l \in Nat, n \in Nat :
          j = Len(t) /\ k = Len(u) /\ l = Len(t \o mark) /\ n = Len(b)
  <2>1. Len(t) \in Nat /\ Len(u) \in Nat
    BY <1>2
  <2> QED BY <2>1
<1>12. l = j + 3
  BY <1>1, <1>7, <1>11
<1>13. n = l + k
  BY <1>1, <1>8, <1>10, <1>11
<1>14. m = j + 1
  BY <1>4, <1>11
<1>15. m - 1 = j /\ m + 3 = l + 1 /\ m # 0 /\ k + 3 <= n
  BY <1>12, <1>13, <1>14
<1>16. Part(b, 1, j) = t
  BY <1>6, <1>11
<1>17. From(b, l + 1) = u
  BY <1>1, <1>8, <1>9, <1>11
<1> QED
  BY <1>2, <1>11, <1>15, <1>16, <1>17

LEMMA SplitGrows ==
    ASSUME NEW b \in Seq(Position), NEW name, NEW t, NEW u, Split(b, name, t, u),
           NEW R \in Seq(Position)
    PROVE  Split(b \o R, name, t, u \o R)
<1>1. PICK mark \in Seq(Position) : Len(mark) = 3 /\ b = t \o (mark \o u)
  BY DEF Split
<1>2. t \in Seq(Position) /\ u \in Seq(Position)
  BY DEF Split
<1>3. MarkerIs(b, name, Len(t) + 1)
  BY DEF Split
<1>4. mark \o u \in Seq(Position)
  BY <1>2, JoinedLength
<1>5. (t \o (mark \o u)) \o R = t \o ((mark \o u) \o R)
  <2>1. PICK v \in Seq(Position) : v = mark \o u
    BY <1>4
  <2>2. Three(Position, t, v, R)
    BY <1>2 DEF Three
  <2>3. (t \o v) \o R = t \o (v \o R)
    BY <2>2, ConcatAssoc DEF Assoc
  <2> QED BY <2>1, <2>3
<1>6. (mark \o u) \o R = mark \o (u \o R)
  <2>1. Three(Position, mark, u, R)
    BY <1>2 DEF Three
  <2> QED BY <2>1, ConcatAssoc DEF Assoc
<1>7. b \o R = t \o (mark \o (u \o R))
  BY <1>1, <1>5, <1>6
<1>8. MarkerIs(b \o R, name, Len(t) + 1)
  <2>1. PICK k \in Nat, m \in Nat : k = Len(t) /\ m = k + 1 /\ m # 0
    BY <1>2
  <2>2. PICK c : c = b \o R
    OBVIOUS
  <2>3. MarkerIs(b, name, m)
    BY <1>3, <2>1
  <2>4. MarkerIs(c, name, m)
    BY <2>1, <2>2, <2>3, MarkerGrows
  <2> QED BY <2>1, <2>2, <2>4
<1>9. u \o R \in Seq(Position)
  BY <1>2, JoinedLength
<1> QED
  BY <1>1, <1>2, <1>7, <1>8, <1>9 DEF Split

LEMMA SplitAfter ==
    ASSUME NEW s \in Seq(Position), NEW c \in Seq(Position), NEW name,
           Clear(s \o c, name, Len(s)), NEW t, NEW u, Split(c, name, t, u)
    PROVE  Split(s \o c, name, s \o t, u)
<1>1. PICK mark \in Seq(Position) : Len(mark) = 3 /\ c = t \o (mark \o u)
  BY DEF Split
<1>2. t \in Seq(Position) /\ u \in Seq(Position)
  BY DEF Split
<1>3. PICK k \in Nat, m \in Nat, n \in Nat : k = Len(s) /\ n = Len(t) /\ m = n + 1
  <2>1. Len(s) \in Nat /\ Len(t) \in Nat
    BY <1>2
  <2>2. PICK n \in Nat : n = Len(t)
    BY <2>1
  <2>3. n + 1 \in Nat
    OBVIOUS
  <2> QED BY <2>1, <2>2, <2>3
<1>4. MarkerIs(c, name, m)
  BY <1>3 DEF Split
<1>5. MarkerIs(s \o c, name, IF m = 0 THEN 0 ELSE m + Len(s))
  BY <1>4, MarkerFollows
<1>6. s \o t \in Seq(Position) /\ Len(s \o t) = Len(s) + Len(t)
  BY <1>2, JoinedLength
<1>7. Len(s \o t) + 1 = IF m = 0 THEN 0 ELSE m + Len(s)
  <2>1. Len(s \o t) = k + n
    BY <1>3, <1>6
  <2>2. (k + n) + 1 = IF m = 0 THEN 0 ELSE m + k
    BY <1>3
  <2> QED BY <1>3, <2>1, <2>2
<1>8. mark \o u \in Seq(Position)
  BY <1>2, JoinedLength
<1>9. s \o (t \o (mark \o u)) = (s \o t) \o (mark \o u)
  <2>1. PICK v \in Seq(Position) : v = mark \o u
    BY <1>8
  <2>2. Three(Position, s, t, v)
    BY <1>2 DEF Three
  <2>3. s \o (t \o v) = (s \o t) \o v
    BY <2>2, ConcatAssoc DEF Assoc
  <2> QED BY <2>1, <2>3
<1>10. s \o c = (s \o t) \o (mark \o u)
  BY <1>1, <1>9
<1>11. MarkerIs(s \o c, name, Len(s \o t) + 1)
  BY <1>5, <1>7
<1> QED
  BY <1>1, <1>2, <1>6, <1>10, <1>11 DEF Split

LEMMA NoneAfter ==
    ASSUME NEW s \in Seq(Position), NEW c \in Seq(Position), NEW name,
           Clear(s \o c, name, Len(s)), None(c, name)
    PROVE  None(s \o c, name)
<1>1. PICK m : m = 0
  OBVIOUS
<1>2. MarkerIs(c, name, m)
  BY <1>1 DEF None
<1>3. MarkerIs(s \o c, name, IF m = 0 THEN 0 ELSE m + Len(s))
  BY <1>2, MarkerFollows
<1> QED
  BY <1>1, <1>3 DEF None

-----------------------------------------------------------------------------
(* Items.                                                                  *)
Its == [kind : {"text", "tool_call", "warning"}, at : Seq(Position)]

LEMMA ItemTypes ==
    ASSUME NEW b \in Seq(Position)
    PROVE  /\ TextItem(b) \in Seq(Its)
           /\ ParseBlock(b) \in Its /\ ParseBlock(b).at = b
           /\ ParseBlock(b).kind \in {"tool_call", "warning"}
           /\ CallIfAny(b) \in Seq(Its)
<1>1. ParseBlock(b) \in Its /\ ParseBlock(b).at = b /\ ParseBlock(b).kind \in {"tool_call", "warning"}
  BY DEF ParseBlock, Item, Its
<1>2. CallIfAny(b) \in Seq(Its)
  BY <1>1, OneType, EmptySeq DEF CallIfAny
<1>3. Item("text", b) \in Its
  BY DEF Item, Its
<1>4. TextItem(b) \in Seq(Its)
  BY <1>3, OneType, EmptySeq DEF TextItem
<1> QED
  BY <1>1, <1>2, <1>4

ItemAt(b, q) == [buffer |-> b, items |-> q]

(* What one round adds to the items, and what it leaves.                   *)
ItemsEnd(b, d, r) == None(b, "tool_call") /\ d = << >> /\ r = TextItem(b)
ItemsOpen(b, d, r, t, u) ==
    /\ Split(b, "tool_call", t, u) /\ None(u, "/tool_call") /\ d = << >>
    /\ r = TextItem(t) \o CallIfAny(u)
ItemsBlock(b, d, r, t, u, v) ==
    /\ Split(b, "tool_call", t, u) /\ Split(u, "/tool_call", v, d)
    /\ r = TextItem(t) \o << ParseBlock(v) >>
ItemAdds(b, d, r) ==
    \/ ItemsEnd(b, d, r)
    \/ \E t, u : ItemsOpen(b, d, r, t, u)
    \/ \E t, u, v : ItemsBlock(b, d, r, t, u, v)

LEMMA SplitNotNone ==
    ASSUME NEW b \in Seq(Position), NEW name, NEW t, NEW u, Split(b, name, t, u)
    PROVE  ~None(b, name) /\ t \in Seq(Position) /\ u \in Seq(Position) /\ Marker(b, name) # 0
<1>1. PICK m : m = Marker(b, name)
  OBVIOUS
<1>2. m # 0 /\ t \in Seq(Position) /\ u \in Seq(Position)
  BY <1>1, SplitParts
<1>3. MarkerIs(b, name, m)
  BY <1>1, MarkerHas
<1> QED
  BY <1>1, <1>2, <1>3, MarkerOnly DEF None

LEMMA NoneIs ==
    ASSUME NEW b \in Seq(Position), NEW name
    PROVE  None(b, name) <=> Marker(b, name) = 0
<1>1. PICK m : m = Marker(b, name)
  OBVIOUS
<1>2. MarkerIs(b, name, m)
  BY <1>1, MarkerHas
<1> QED
  BY <1>1, <1>2, MarkerOnly DEF None

LEMMA ItemAddsType ==
    ASSUME NEW b \in Seq(Position), NEW d, NEW r, ItemAdds(b, d, r)
    PROVE  /\ d \in Seq(Position) /\ r \in Seq(Its) /\ Len(d) \in Nat
           /\ Len(d) < Len(b) \/ (b = << >> /\ d = << >> /\ r = << >>)
<1>1. CASE ItemsEnd(b, d, r)
  <2>1. d = << >> /\ d \in Seq(Position) /\ Len(d) = 0
    BY <1>1, EmptySeq DEF ItemsEnd
  <2>2. r = TextItem(b) /\ r \in Seq(Its)
    BY <1>1, ItemTypes DEF ItemsEnd
  <2>3. CASE b = << >>
    <3>1. r = << >>
      BY <2>2, <2>3 DEF TextItem
    <3> QED BY <2>1, <2>2, <2>3, <3>1
  <2>4. CASE b # << >>
    <3>1. Len(b) \in Nat /\ Len(b) # 0
      BY <2>4, EmptySeq
    <3> QED BY <2>1, <2>2, <3>1
  <2> QED BY <2>3, <2>4
<1>2. ASSUME NEW t, NEW u, ItemsOpen(b, d, r, t, u)
      PROVE  d \in Seq(Position) /\ r \in Seq(Its) /\ Len(d) \in Nat /\ Len(d) < Len(b)
  <2>1. d = << >> /\ d \in Seq(Position) /\ Len(d) = 0
    BY <1>2, EmptySeq DEF ItemsOpen
  <2>2. Split(b, "tool_call", t, u)
    BY <1>2 DEF ItemsOpen
  <2>3. t \in Seq(Position) /\ u \in Seq(Position) /\ Len(u) + 3 <= Len(b)
    BY <2>2, SplitParts
  <2>4. r \in Seq(Its)
    <3>1. TextItem(t) \in Seq(Its)
      BY <2>3, ItemTypes
    <3>2. CallIfAny(u) \in Seq(Its)
      BY <2>3, ItemTypes
    <3> QED BY <1>2, <3>1, <3>2, ConcatType DEF ItemsOpen
  <2>5. Len(u) \in Nat /\ Len(b) \in Nat
    BY <2>3
  <2> QED BY <2>1, <2>3, <2>4, <2>5
<1>3. ASSUME NEW t, NEW u, NEW v, ItemsBlock(b, d, r, t, u, v)
      PROVE  d \in Seq(Position) /\ r \in Seq(Its) /\ Len(d) \in Nat /\ Len(d) < Len(b)
  <2>1. Split(b, "tool_call", t, u) /\ Split(u, "/tool_call", v, d)
    BY <1>3 DEF ItemsBlock
  <2>2. t \in Seq(Position) /\ u \in Seq(Position) /\ Len(u) + 3 <= Len(b)
    BY <2>1, SplitParts
  <2>3. v \in Seq(Position) /\ d \in Seq(Position) /\ Len(d) + 3 <= Len(u)
    BY <2>1, <2>2, SplitParts
  <2>4. r \in Seq(Its)
    <3>1. TextItem(t) \in Seq(Its)
      BY <2>2, ItemTypes
    <3>2. << ParseBlock(v) >> \in Seq(Its)
      BY <2>3, ItemTypes, OneType
    <3> QED BY <1>3, <3>1, <3>2, ConcatType DEF ItemsBlock
  <2>5. Len(u) \in Nat /\ Len(b) \in Nat /\ Len(d) \in Nat
    BY <2>2, <2>3
  <2> QED BY <2>2, <2>3, <2>4, <2>5
<1> QED
  BY <1>1, <1>2, <1>3 DEF ItemAdds

LEMMA NextItemsAdds ==
    ASSUME NEW b \in Seq(Position), NEW q \in Seq(Its), NEW d, NEW r, ItemAdds(b, d, r)
    PROVE  NextItems(ItemAt(b, q)) = ItemAt(d, q \o r)
<1>1. PICK p : p = ItemAt(b, q)
  OBVIOUS
<1>2. p.buffer = b /\ p.items = q
  BY <1>1 DEF ItemAt
<1>3. PICK start : start = Marker(b, "tool_call")
  OBVIOUS
<1>4. CASE ItemsEnd(b, d, r)
  <2>1. start = 0
    BY <1>3, <1>4, NoneIs DEF ItemsEnd
  <2>2. NextItems(p) = [buffer |-> << >>, items |-> q \o TextItem(b)]
    BY <1>2, <1>3, <2>1 DEF NextItems
  <2> QED BY <1>1, <1>4, <2>2 DEF ItemsEnd, ItemAt
<1>5. ASSUME NEW t, NEW u, ItemsOpen(b, d, r, t, u) PROVE NextItems(p) = ItemAt(d, q \o r)
  <2>1. Split(b, "tool_call", t, u) /\ None(u, "/tool_call")
    BY <1>5 DEF ItemsOpen
  <2>2. /\ start # 0 /\ Part(b, 1, start - 1) = t /\ From(b, start + 3) = u
        /\ t \in Seq(Position) /\ u \in Seq(Position)
    BY <1>3, <2>1, SplitParts
  <2>3. Marker(u, "/tool_call") = 0
    BY <2>1, <2>2, NoneIs
  <2>4. NextItems(p) = [buffer |-> << >>, items |-> q \o TextItem(t) \o CallIfAny(u)]
    BY <1>2, <1>3, <2>2, <2>3 DEF NextItems
  <2>5. TextItem(t) \in Seq(Its)
    BY <2>2, ItemTypes
  <2>6. CallIfAny(u) \in Seq(Its)
    BY <2>2, ItemTypes
  <2>7. (q \o TextItem(t)) \o CallIfAny(u) = q \o (TextItem(t) \o CallIfAny(u))
    <3>1. PICK x, y : x = TextItem(t) /\ y = CallIfAny(u)
      OBVIOUS
    <3>2. Three(Its, q, x, y)
      BY <2>5, <2>6, <3>1 DEF Three
    <3> QED BY <3>1, <3>2, ConcatAssoc DEF Assoc
  <2> QED BY <1>5, <2>4, <2>7 DEF ItemsOpen, ItemAt
<1>6. ASSUME NEW t, NEW u, NEW v, ItemsBlock(b, d, r, t, u, v) PROVE NextItems(p) = ItemAt(d, q \o r)
  <2>1. Split(b, "tool_call", t, u) /\ Split(u, "/tool_call", v, d)
    BY <1>6 DEF ItemsBlock
  <2>2. /\ start # 0 /\ Part(b, 1, start - 1) = t /\ From(b, start + 3) = u
        /\ t \in Seq(Position) /\ u \in Seq(Position)
    BY <1>3, <2>1, SplitParts
  <2>3. PICK end : end = Marker(u, "/tool_call")
    OBVIOUS
  <2>4. end # 0 /\ Part(u, 1, end - 1) = v /\ From(u, end + 3) = d /\ v \in Seq(Position)
    BY <2>1, <2>2, <2>3, SplitParts
  <2>5. NextItems(p) = [buffer |-> d, items |-> q \o TextItem(t) \o << ParseBlock(v) >>]
    BY <1>2, <1>3, <2>2, <2>3, <2>4 DEF NextItems
  <2>6. TextItem(t) \in Seq(Its)
    BY <2>2, ItemTypes
  <2>7. << ParseBlock(v) >> \in Seq(Its)
    BY <2>4, ItemTypes, OneType
  <2>8. (q \o TextItem(t)) \o << ParseBlock(v) >> = q \o (TextItem(t) \o << ParseBlock(v) >>)
    <3>1. PICK x, y : x = TextItem(t) /\ y = << ParseBlock(v) >>
      OBVIOUS
    <3>2. Three(Its, q, x, y)
      BY <2>6, <2>7, <3>1 DEF Three
    <3> QED BY <3>1, <3>2, ConcatAssoc DEF Assoc
  <2> QED BY <1>6, <2>5, <2>8 DEF ItemsBlock, ItemAt
<1> QED
  BY <1>1, <1>4, <1>5, <1>6 DEF ItemAdds

LEMMA ItemAddsSome ==
    ASSUME NEW b \in Seq(Position)
    PROVE  \E d, r : ItemAdds(b, d, r)
<1>1. CASE None(b, "tool_call")
  <2>1. PICK d, r : d = << >> /\ r = TextItem(b)
    OBVIOUS
  <2>2. ItemsEnd(b, d, r)
    BY <1>1, <2>1 DEF ItemsEnd
  <2> QED BY <2>2 DEF ItemAdds
<1>2. CASE ~None(b, "tool_call")
  <2>1. PICK t, u : Split(b, "tool_call", t, u)
    BY <1>2, SplitIs
  <2>2. u \in Seq(Position)
    BY <2>1, SplitNotNone
  <2>3. CASE None(u, "/tool_call")
    <3>1. PICK d, r : d = << >> /\ r = TextItem(t) \o CallIfAny(u)
      OBVIOUS
    <3>2. ItemsOpen(b, d, r, t, u)
      BY <2>1, <2>3, <3>1 DEF ItemsOpen
    <3> QED BY <3>2 DEF ItemAdds
  <2>4. CASE ~None(u, "/tool_call")
    <3>1. PICK v, d : Split(u, "/tool_call", v, d)
      BY <2>2, <2>4, SplitIs
    <3>2. PICK r : r = TextItem(t) \o << ParseBlock(v) >>
      OBVIOUS
    <3>3. ItemsBlock(b, d, r, t, u, v)
      BY <2>1, <3>1, <3>2 DEF ItemsBlock
    <3> QED BY <3>3 DEF ItemAdds
  <2> QED BY <2>3, <2>4
<1> QED
  BY <1>1, <1>2

(* The rounds of the items of a complete text.                             *)
ItemStates == {ItemAt(b, q) : b \in Seq(Position), q \in Seq(Its)}
ItemRound == [x \in ItemStates |-> NextItems(x)]

LEMMA ItemStatesAre ==
    ASSUME NEW x \in ItemStates
    PROVE  \E b \in Seq(Position), q \in Seq(Its) :
              x = ItemAt(b, q) /\ x.buffer = b /\ x.items = q
BY DEF ItemStates, ItemAt

LEMMA ItemStatesHave ==
    ASSUME NEW b \in Seq(Position), NEW q \in Seq(Its)
    PROVE  ItemAt(b, q) \in ItemStates
BY DEF ItemStates

LEMMA ItemRoundIs ==
    ASSUME NEW b \in Seq(Position), NEW q \in Seq(Its), NEW d, NEW r, ItemAdds(b, d, r)
    PROVE  /\ ItemRound[ItemAt(b, q)] = ItemAt(d, q \o r)
           /\ ItemAt(d, q \o r) \in ItemStates
<1>1. d \in Seq(Position) /\ r \in Seq(Its)
  BY ItemAddsType
<1>2. q \o r \in Seq(Its)
  BY <1>1, ConcatType
<1>3. ItemAt(d, q \o r) \in ItemStates
  BY <1>1, <1>2, ItemStatesHave
<1>4. NextItems(ItemAt(b, q)) = ItemAt(d, q \o r)
  BY NextItemsAdds
<1>5. ItemAt(b, q) \in ItemStates
  BY ItemStatesHave
<1> QED
  BY <1>3, <1>4, <1>5 DEF ItemRound

LEMMA ItemRoundType ==
    /\ ItemRound \in [ItemStates -> ItemStates]
    /\ \A x \in ItemStates : /\ ItemRound[x] = NextItems(x)
                             /\ Len(x.buffer) \in Nat
                             /\ ItemRound[x] = x \/ Len(ItemRound[x].buffer) < Len(x.buffer)
<1>1. ASSUME NEW x \in ItemStates
      PROVE  /\ ItemRound[x] = NextItems(x) /\ ItemRound[x] \in ItemStates
             /\ Len(x.buffer) \in Nat
             /\ ItemRound[x] = x \/ Len(ItemRound[x].buffer) < Len(x.buffer)
  <2>1. PICK b \in Seq(Position), q \in Seq(Its) : x = ItemAt(b, q) /\ x.buffer = b
    BY ItemStatesAre
  <2>2. PICK d, r : ItemAdds(b, d, r)
    BY ItemAddsSome
  <2>3. /\ d \in Seq(Position) /\ r \in Seq(Its) /\ Len(d) \in Nat
        /\ Len(d) < Len(b) \/ (b = << >> /\ d = << >> /\ r = << >>)
    BY <2>2, ItemAddsType
  <2>4. ItemRound[x] = ItemAt(d, q \o r) /\ ItemRound[x] \in ItemStates
    BY <2>1, <2>2, ItemRoundIs
  <2>5. ItemRound[x].buffer = d
    BY <2>4 DEF ItemAt
  <2>6. ItemRound[x] = NextItems(x)
    BY DEF ItemRound
  <2>7. CASE Len(d) < Len(b)
    BY <2>1, <2>4, <2>5, <2>6, <2>7
  <2>8. CASE b = << >> /\ d = << >> /\ r = << >>
    <3>1. q \o r = q
      BY <2>8, ConcatEmptySeq
    <3>2. ItemRound[x] = x
      BY <2>1, <2>4, <2>8, <3>1
    <3> QED BY <2>1, <2>4, <2>6, <3>2
  <2> QED BY <2>3, <2>7, <2>8
<1>2. ItemRound = [x \in ItemStates |-> ItemRound[x]]
  BY DEF ItemRound
<1> QED
  BY <1>1, <1>2

ItemsRun(b, N, f) ==
    /\ Iterates(N, ItemStates, ItemRound, ItemAt(b, << >>), f)
    /\ f[N] \in ItemStates /\ ItemRound[f[N]] = f[N]
    /\ Items(b) = f[N].items

LEMMA ItemsRounds ==
    ASSUME NEW b \in Seq(Position), NEW N \in Nat, N = Len(b)
    PROVE  \E f : ItemsRun(b, N, f)
<1>1. PICK A, F : A = ItemStates /\ F = ItemRound
  OBVIOUS
<1>2. F \in [A -> A] /\ \A x \in A : F[x] = NextItems(x)
  BY <1>1, ItemRoundType
<1>3. PICK a : a = ItemAt(b, << >>)
  OBVIOUS
<1>4. a \in A /\ a = [buffer |-> b, items |-> << >>] /\ a.buffer = b
  BY <1>1, <1>3, ItemStatesHave, EmptySeq DEF ItemAt
<1> DEFINE Def(r) == r = [k \in 0 .. N |-> IF k = 0 THEN [buffer |-> b, items |-> << >>]
                                           ELSE NextItems(r[k - 1])]
           g == CHOOSE r : Def(r)
           M == [x \in A |-> Len(x.buffer)]
<1>5. Def(g)
  <2>1. PICK f \in [0 .. N -> A] : f = [k \in 0 .. N |-> IF k = 0 THEN a ELSE F[f[k - 1]]]
    <3>1. \E f \in [0 .. N -> A] : Unrolls(N, F, a, f)
      BY <1>2, <1>4, RepeatsExists
    <3> QED BY <3>1 DEF Unrolls
  <2>2. ASSUME NEW k \in 0 .. N
        PROVE  (IF k = 0 THEN a ELSE F[f[k - 1]])
                 = IF k = 0 THEN [buffer |-> b, items |-> << >>] ELSE NextItems(f[k - 1])
    <3>1. k # 0 => k - 1 \in 0 .. N
      OBVIOUS
    <3> QED BY <1>2, <1>4, <3>1
  <2>3. Def(f)
    BY <2>1, <2>2
  <2> QED BY <2>3
<1>6. Items(b) = g[N].items
  BY DEF Items
<1>7. StepsBy(N, A, F, a, g)
  <2>1. g[0] = a
    <3>1. 0 \in 0 .. N
      OBVIOUS
    <3> QED BY <1>4, <1>5, <3>1
  <2>2. ASSUME NEW k \in 1 .. N, g[k - 1] \in A PROVE g[k] = F[g[k - 1]]
    <3>1. k \in 0 .. N /\ k # 0
      OBVIOUS
    <3>2. g[k] = NextItems(g[k - 1])
      BY <1>5, <3>1
    <3> HIDE DEF g
    <3> QED BY <1>2, <2>2, <3>2
  <2> HIDE DEF g
  <2> QED BY <2>1, <2>2 DEF StepsBy
<1> HIDE DEF g, Def
<1>8. Shortens(A, F, M) /\ M[a] <= N
  <2>1. \A x \in A : M[x] = Len(x.buffer) /\ M[x] \in Nat
    BY <1>1, ItemRoundType
  <2>2. M \in [A -> Nat]
    BY <2>1
  <2>3. ASSUME NEW x \in A PROVE F[x] = x \/ M[F[x]] < M[x]
    <3>1. F[x] \in A
      BY <1>2
    <3>2. F[x] = x \/ Len(F[x].buffer) < Len(x.buffer)
      BY <1>1, ItemRoundType
    <3> HIDE DEF M
    <3> QED BY <2>1, <3>1, <3>2
  <2>4. M[a] = N
    BY <1>4
  <2> HIDE DEF M
  <2> QED BY <2>2, <2>3, <2>4 DEF Shortens
<1> HIDE DEF M
<1>9. Iterates(N, A, F, a, g) /\ g[N] \in A /\ F[g[N]] = g[N]
  BY <1>2, <1>4, <1>7, <1>8, LoopIs
<1> QED
  BY <1>1, <1>3, <1>6, <1>9 DEF ItemsRun

LEMMA ItemsType ==
    ASSUME NEW b \in Seq(Position)
    PROVE  Items(b) \in Seq(Its)
<1>1. PICK N \in Nat : N = Len(b)
  OBVIOUS
<1>2. PICK f : ItemsRun(b, N, f)
  BY <1>1, ItemsRounds
<1>3. PICK x : x = f[N] /\ x \in ItemStates /\ Items(b) = x.items
  BY <1>2 DEF ItemsRun
<1> QED
  BY <1>3, ItemStatesAre

(* The items of a text are first those of its first round.                 *)
LEMMA ItemsUnfold ==
    ASSUME NEW b \in Seq(Position), NEW d, NEW r, ItemAdds(b, d, r)
    PROVE  Items(b) = r \o Items(d)
<1>1. /\ d \in Seq(Position) /\ r \in Seq(Its)
      /\ Len(d) < Len(b) \/ (b = << >> /\ d = << >> /\ r = << >>)
  BY ItemAddsType
<1>2. CASE b = << >> /\ d = << >> /\ r = << >>
  <2>1. PICK s \in Seq(Its) : s = Items(b)
    BY ItemsType
  <2>2. << >> \o s = s
    BY ConcatEmptySeq
  <2> QED BY <1>2, <2>1, <2>2
<1>3. CASE Len(d) < Len(b)
  <2>1. PICK N \in Nat : N = Len(b)
    OBVIOUS
  <2>2. PICK K \in Nat : K = Len(d)
    BY <1>1
  <2>3. K + 1 <= N
    BY <1>3, <2>1, <2>2
  <2>4. PICK A, F : A = ItemStates /\ F = ItemRound
    OBVIOUS
  <2>5. PICK a, e : a = ItemAt(b, << >>) /\ e = ItemAt(d, << >>)
    OBVIOUS
  <2>6. PICK f : Iterates(N, A, F, a, f) /\ Items(b) = f[N].items
    <3>1. \E f : ItemsRun(b, N, f)
      BY <2>1, ItemsRounds
    <3> QED BY <2>4, <2>5, <3>1 DEF ItemsRun
  <2>7. PICK h : Iterates(K, A, F, e, h) /\ h[K] \in A /\ F[h[K]] = h[K] /\ Items(d) = h[K].items
    <3>1. \E h : ItemsRun(d, K, h)
      BY <1>1, <2>2, ItemsRounds
    <3> QED BY <2>4, <2>5, <3>1 DEF ItemsRun
  <2> DEFINE P == [x \in A |-> [buffer |-> x.buffer, items |-> r \o x.items]]
  <2>8. ASSUME NEW c \in Seq(Position), NEW q \in Seq(Its)
        PROVE  P[ItemAt(c, q)] = ItemAt(c, r \o q) /\ r \o q \in Seq(Its)
    <3>1. ItemAt(c, q) \in A
      BY <2>4, ItemStatesHave
    <3>2. ItemAt(c, q).buffer = c /\ ItemAt(c, q).items = q
      BY DEF ItemAt
    <3>3. P[ItemAt(c, q)] = [buffer |-> c, items |-> r \o q]
      BY <3>1, <3>2
    <3> QED BY <1>1, <3>3, ConcatType DEF ItemAt
  <2>9. ASSUME NEW x \in A PROVE P[x] \in A /\ F[P[x]] = P[F[x]]
    <3>1. PICK c \in Seq(Position), q \in Seq(Its) : x = ItemAt(c, q)
      BY <2>4, ItemStatesAre
    <3>2. PICK g, s : ItemAdds(c, g, s)
      BY ItemAddsSome
    <3>3. g \in Seq(Position) /\ s \in Seq(Its)
      BY <3>2, ItemAddsType
    <3> HIDE DEF P
    <3>4. P[x] = ItemAt(c, r \o q) /\ r \o q \in Seq(Its)
      BY <2>8, <3>1
    <3>5. F[x] = ItemAt(g, q \o s)
      BY <2>4, <3>1, <3>2, ItemRoundIs
    <3>6. F[P[x]] = ItemAt(g, (r \o q) \o s)
      <4>1. PICK z \in Seq(Its) : z = r \o q
        BY <3>4
      <4>2. F[ItemAt(c, z)] = ItemAt(g, z \o s)
        BY <2>4, <3>2, ItemRoundIs
      <4> QED BY <3>4, <4>1, <4>2
    <3>7. P[F[x]] = ItemAt(g, r \o (q \o s))
      <4>1. PICK z \in Seq(Its) : z = q \o s
        BY <3>3, ConcatType
      <4>2. P[ItemAt(g, z)] = ItemAt(g, r \o z)
        BY <2>8, <3>3
      <4> QED BY <3>5, <4>1, <4>2
    <3>8. (r \o q) \o s = r \o (q \o s)
      <4>1. Three(Its, r, q, s)
        BY <1>1, <3>3 DEF Three
      <4> QED BY <4>1, ConcatAssoc DEF Assoc
    <3>9. P[x] \in A
      BY <2>4, <3>4, ItemStatesHave
    <3> QED BY <3>6, <3>7, <3>8, <3>9
  <2>10. F[a] = P[e]
    <3>1. PICK z \in Seq(Its) : z = << >>
      BY EmptySeq
    <3>2. F[ItemAt(b, z)] = ItemAt(d, z \o r)
      BY <2>4, ItemRoundIs
    <3>3. P[ItemAt(d, z)] = ItemAt(d, r \o z)
      BY <1>1, <2>8
    <3>4. z \o r = r /\ r \o z = r
      BY <1>1, <3>1, ConcatEmptySeq
    <3> HIDE DEF P
    <3> QED BY <2>5, <3>1, <3>2, <3>3, <3>4
  <2>11. P \in [A -> A]
    <3>1. P = [x \in A |-> P[x]]
      OBVIOUS
    <3> HIDE DEF P
    <3> QED BY <2>9, <3>1
  <2>12. P[h[K]].items = r \o h[K].items
    BY <2>7
  <2>13. f[N] = P[h[K]]
    <3> HIDE DEF P
    <3>1. Commutes(A, F, P)
      BY <2>9, <2>11 DEF Commutes
    <3> QED BY <2>3, <2>6, <2>7, <2>10, <3>1, RepeatsUnfold
  <2> HIDE DEF P
  <2> QED BY <2>6, <2>7, <2>12, <2>13
<1> QED
  BY <1>1, <1>2, <1>3

-----------------------------------------------------------------------------
(* The items of a text, and of the rest of a block and what follows it.    *)
InBlock(c) ==
    LET m == Marker(c, "/tool_call") IN
    IF m = 0 THEN CallIfAny(c)
    ELSE << ParseBlock(Part(c, 1, m - 1)) >> \o Items(From(c, m + 3))

LEMMA InBlockOpen ==
    ASSUME NEW c \in Seq(Position), None(c, "/tool_call")
    PROVE  InBlock(c) = CallIfAny(c)
BY NoneIs DEF InBlock

LEMMA InBlockEnds ==
    ASSUME NEW c \in Seq(Position), NEW t, NEW u, Split(c, "/tool_call", t, u)
    PROVE  InBlock(c) = << ParseBlock(t) >> \o Items(u)
<1>1. PICK m : m = Marker(c, "/tool_call")
  OBVIOUS
<1>2. m # 0 /\ Part(c, 1, m - 1) = t /\ From(c, m + 3) = u
  BY <1>1, SplitParts
<1> QED
  BY <1>1, <1>2 DEF InBlock

LEMMA InBlockType ==
    ASSUME NEW c \in Seq(Position)
    PROVE  InBlock(c) \in Seq(Its)
<1>1. CASE None(c, "/tool_call")
  BY <1>1, InBlockOpen, ItemTypes
<1>2. CASE ~None(c, "/tool_call")
  <2>1. PICK t, u : Split(c, "/tool_call", t, u)
    BY <1>2, SplitIs
  <2>2. t \in Seq(Position) /\ u \in Seq(Position)
    BY <2>1, SplitNotNone
  <2>3. << ParseBlock(t) >> \in Seq(Its)
    BY <2>2, ItemTypes, OneType
  <2>4. Items(u) \in Seq(Its)
    BY <2>2, ItemsType
  <2> QED BY <2>1, <2>3, <2>4, InBlockEnds, ConcatType
<1> QED
  BY <1>1, <1>2

LEMMA ItemsPlain ==
    ASSUME NEW b \in Seq(Position), None(b, "tool_call")
    PROVE  Items(b) = TextItem(b)
<1>1. PICK d, r : d = << >> /\ r = TextItem(b) /\ d \in Seq(Position)
  BY EmptySeq
<1>2. ItemAdds(b, d, r)
  BY <1>1 DEF ItemAdds, ItemsEnd
<1>3. Items(b) = r \o Items(d)
  BY <1>2, ItemsUnfold
<1>4. Items(d) = << >>
  <2>1. PICK s \in Seq(Its) : s = Items(d)
    BY <1>1, ItemsType
  <2>2. PICK N \in Nat : N = Len(d) /\ N = 0
    BY <1>1
  <2>3. PICK f : ItemsRun(d, N, f)
    BY <1>1, <2>2, ItemsRounds
  <2>4. f[0] = ItemAt(d, << >>) /\ Items(d) = f[0].items
    BY <2>2, <2>3 DEF ItemsRun, Iterates, Repeats
  <2> QED BY <2>4 DEF ItemAt
<1>5. r \in Seq(Its)
  BY <1>1, ItemTypes
<1>6. r \o << >> = r
  BY <1>5, ConcatEmptySeq
<1> QED
  BY <1>1, <1>3, <1>4, <1>6

LEMMA ItemsBegin ==
    ASSUME NEW b \in Seq(Position), NEW t, NEW u, Split(b, "tool_call", t, u)
    PROVE  Items(b) = TextItem(t) \o InBlock(u)
<1>1. t \in Seq(Position) /\ u \in Seq(Position)
  BY SplitNotNone
<1>2. TextItem(t) \in Seq(Its)
  BY <1>1, ItemTypes
<1>3. CASE None(u, "/tool_call")
  <2>1. PICK d, r : d = << >> /\ r = TextItem(t) \o CallIfAny(u) /\ d \in Seq(Position)
    BY EmptySeq
  <2>2. ItemAdds(b, d, r)
    BY <1>3, <2>1 DEF ItemAdds, ItemsOpen
  <2>3. Items(b) = r \o Items(d)
    BY <2>2, ItemsUnfold
  <2>4. None(d, "tool_call")
    BY <2>1, EmptySeq DEF None, MarkerIs, MarkAt
  <2>5. Items(d) = << >>
    BY <2>1, <2>4, ItemsPlain DEF TextItem
  <2>6. r \in Seq(Its)
    BY <2>2, ItemAddsType
  <2>7. r \o << >> = r
    BY <2>6, ConcatEmptySeq
  <2> QED BY <1>1, <1>3, <2>1, <2>3, <2>5, <2>7, InBlockOpen
<1>4. CASE ~None(u, "/tool_call")
  <2>1. PICK v, d : Split(u, "/tool_call", v, d)
    BY <1>1, <1>4, SplitIs
  <2>2. v \in Seq(Position) /\ d \in Seq(Position)
    BY <1>1, <2>1, SplitNotNone
  <2>3. PICK r : r = TextItem(t) \o << ParseBlock(v) >>
    OBVIOUS
  <2>4. ItemAdds(b, d, r)
    BY <2>1, <2>3 DEF ItemAdds, ItemsBlock
  <2>5. Items(b) = r \o Items(d)
    BY <2>4, ItemsUnfold
  <2>6. PICK x \in Seq(Its), y \in Seq(Its), z \in Seq(Its) :
           x = TextItem(t) /\ y = << ParseBlock(v) >> /\ z = Items(d)
    <3>1. << ParseBlock(v) >> \in Seq(Its)
      BY <2>2, ItemTypes, OneType
    <3>2. Items(d) \in Seq(Its)
      BY <2>2, ItemsType
    <3> QED BY <1>2, <3>1, <3>2
  <2>7. (x \o y) \o z = x \o (y \o z)
    <3>1. Three(Its, x, y, z)
      BY DEF Three
    <3> QED BY <3>1, ConcatAssoc DEF Assoc
  <2>8. InBlock(u) = y \o z
    BY <1>1, <2>1, <2>6, InBlockEnds
  <2> QED BY <2>3, <2>5, <2>6, <2>7, <2>8
<1> QED
  BY <1>3, <1>4

-----------------------------------------------------------------------------
(* The items of one kind, the text of items, and their calls.              *)
ItemPart(kind) == [x \in Its |-> IF x.kind = kind THEN << x.at >> ELSE << >>]
ItemsOf(s, kind) == Mapped(s, ItemPart(kind))
Said(s) == FlattenSeq(ItemsOf(s, "text"))
Done(s) == ItemsOf(s, "tool_call")

LEMMA ItemPartType ==
    ASSUME NEW kind
    PROVE  ItemPart(kind) \in [Its -> Seq(Seq(Position))]
<1>1. ASSUME NEW x \in Its
      PROVE  (IF x.kind = kind THEN << x.at >> ELSE << >>) \in Seq(Seq(Position))
  <2>1. x.at \in Seq(Position)
    BY DEF Its
  <2>2. << x.at >> \in Seq(Seq(Position)) /\ << >> \in Seq(Seq(Position))
    BY <2>1, OneType, EmptySeq
  <2> QED BY <2>2
<1> QED
  BY <1>1 DEF ItemPart

LEMMA ItemsOfType ==
    ASSUME NEW s \in Seq(Its), NEW kind
    PROVE  ItemsOf(s, kind) \in Seq(Seq(Position))
BY ItemPartType, MappedType DEF ItemsOf

LEMMA ItemsOfConcat ==
    ASSUME NEW s \in Seq(Its), NEW t \in Seq(Its), NEW kind
    PROVE  ItemsOf(s \o t, kind) = ItemsOf(s, kind) \o ItemsOf(t, kind)
<1>1. PICK A : A = Seq(Position)
  OBVIOUS
<1>2. PICK H \in [Its -> Seq(A)] : H = ItemPart(kind)
  BY <1>1, ItemPartType
<1>3. Mapped(s \o t, H) = Mapped(s, H) \o Mapped(t, H)
  BY MappedConcat
<1> QED
  BY <1>2, <1>3 DEF ItemsOf

LEMMA ItemsOfOne ==
    ASSUME NEW x \in Its, NEW kind
    PROVE  ItemsOf(<< x >>, kind) = IF x.kind = kind THEN << x.at >> ELSE << >>
<1>1. ItemsOf(<< x >>, kind) = ItemPart(kind)[x]
  BY ItemPartType, MappedOne DEF ItemsOf
<1> QED
  BY <1>1 DEF ItemPart

LEMMA ItemsOfNone ==
    ASSUME NEW kind
    PROVE  ItemsOf(<< >>, kind) = << >>
BY ItemPartType, MappedEmpty DEF ItemsOf

LEMMA SaidIs ==
    ASSUME NEW s \in Seq(Its)
    PROVE  Said(s) \in Seq(Position) /\ Done(s) \in Seq(Seq(Position))
<1>1. PICK x \in Seq(Seq(Position)) : x = ItemsOf(s, "text")
  BY ItemsOfType
<1>2. FlattenSeq(x) \in Seq(Position)
  BY FlattenType
<1> QED
  BY <1>1, <1>2, ItemsOfType DEF Said, Done

LEMMA SaidConcat ==
    ASSUME NEW s \in Seq(Its), NEW t \in Seq(Its)
    PROVE  Said(s \o t) = Said(s) \o Said(t) /\ Done(s \o t) = Done(s) \o Done(t)
<1>1. PICK x \in Seq(Seq(Position)), y \in Seq(Seq(Position)) :
         x = ItemsOf(s, "text") /\ y = ItemsOf(t, "text")
  BY ItemsOfType
<1>2. FlattenSeq(x \o y) = FlattenSeq(x) \o FlattenSeq(y)
  BY FlattenConcat
<1> QED
  BY <1>1, <1>2, ItemsOfConcat DEF Said, Done

LEMMA SaidNone == Said(<< >>) = << >> /\ Done(<< >>) = << >>
BY ItemsOfNone, FlattenEmpty DEF Said, Done

LEMMA SaidText ==
    ASSUME NEW b \in Seq(Position)
    PROVE  Said(TextItem(b)) = b /\ Done(TextItem(b)) = << >>
<1>1. CASE b = << >>
  BY <1>1, SaidNone DEF TextItem
<1>2. CASE b # << >>
  <2>1. PICK x \in Its : x = Item("text", b) /\ x.kind = "text" /\ x.at = b
    <3>1. Item("text", b) \in Its
      BY DEF Item, Its
    <3>2. Item("text", b).kind = "text" /\ Item("text", b).at = b
      BY DEF Item
    <3> QED BY <3>1, <3>2
  <2>2. ItemsOf(<< x >>, "text") = << b >>
    BY <2>1, ItemsOfOne
  <2>3. ItemsOf(<< x >>, "tool_call") = << >>
    BY <2>1, ItemsOfOne
  <2>4. FlattenSeq(<< b >>) = b
    BY FlattenOne
  <2> QED BY <1>2, <2>1, <2>2, <2>3, <2>4 DEF TextItem, Said, Done
<1> QED
  BY <1>1, <1>2

LEMMA SaidBlock ==
    ASSUME NEW b \in Seq(Position)
    PROVE  /\ Said(<< ParseBlock(b) >>) = << >>
           /\ Said(CallIfAny(b)) = << >>
           /\ Done(CallIfAny(b)) = Done(<< ParseBlock(b) >>)
<1>1. PICK x \in Its : x = ParseBlock(b) /\ x.kind \in {"tool_call", "warning"}
  BY ItemTypes
<1>2. ItemsOf(<< x >>, "text") = << >>
  BY <1>1, ItemsOfOne
<1>3. Said(<< x >>) = << >>
  BY <1>2, FlattenEmpty DEF Said
<1>4. CASE x.kind = "tool_call"
  BY <1>1, <1>3, <1>4 DEF CallIfAny
<1>5. CASE x.kind = "warning"
  <2>1. Done(<< x >>) = << >>
    BY <1>5, ItemsOfOne DEF Done
  <2>2. CallIfAny(b) = << >>
    BY <1>1, <1>5 DEF CallIfAny
  <2> QED BY <1>1, <1>3, <2>1, <2>2, SaidNone
<1> QED
  BY <1>1, <1>4, <1>5

-----------------------------------------------------------------------------
(* Rising positions stay so when some are dropped.                         *)
LEMMA WithinDrop ==
    ASSUME NEW s \in Seq(Position), NEW x \in Seq(Position), NEW u \in Seq(Position),
           NEW n, NEW m, Within(s \o (x \o u), n, m)
    PROVE  Within(s \o u, n, m)
<1>1. PICK a \in Nat, b \in Nat, c \in Nat : a = Len(s) /\ b = Len(x) /\ c = Len(u)
  OBVIOUS
<1>2. PICK y : y = x \o u
  OBVIOUS
<1>3. /\ y \in Seq(Position) /\ Len(y) = b + c
      /\ \A i \in 1 .. c : y[b + i] = u[i]
  <2>1. /\ x \o u \in Seq(Position) /\ Len(x \o u) = b + c
        /\ \A i \in 1 .. c : (x \o u)[b + i] = u[i]
    BY <1>1, ConcatIs
  <2> QED BY <1>2, <2>1
<1>4. PICK z : z = s \o y
  OBVIOUS
<1>5. PICK d \in Nat : d = b + c /\ d = Len(y)
  BY <1>1, <1>3
<1>6. /\ z \in Seq(Position) /\ Len(z) = a + d
      /\ \A i \in 1 .. a : z[i] = s[i]
      /\ \A i \in 1 .. d : z[a + i] = y[i]
  <2>1. s \in Seq(Position) /\ y \in Seq(Position) /\ a = Len(s) /\ d = Len(y)
    BY <1>1, <1>3, <1>5
  <2>2. /\ s \o y \in Seq(Position) /\ Len(s \o y) = a + d
        /\ \A i \in 1 .. a : (s \o y)[i] = s[i]
        /\ \A i \in 1 .. d : (s \o y)[a + i] = y[i]
    BY <2>1, ConcatIs
  <2> QED BY <1>4, <2>2
<1>7. PICK w : w = s \o u
  OBVIOUS
<1>8. /\ w \in Seq(Position) /\ Len(w) = a + c
      /\ \A i \in 1 .. a : w[i] = s[i]
      /\ \A i \in 1 .. c : w[a + i] = u[i]
  <2>1. /\ s \o u \in Seq(Position) /\ Len(s \o u) = a + c
        /\ \A i \in 1 .. a : (s \o u)[i] = s[i]
        /\ \A i \in 1 .. c : (s \o u)[a + i] = u[i]
    BY <1>1, ConcatIs
  <2> QED BY <1>7, <2>1
<1> DEFINE at(i) == IF i <= a THEN i ELSE i + b
<1>9. ASSUME NEW i \in 1 .. a + c
      PROVE  at(i) \in 1 .. a + d /\ w[i] = z[at(i)]
  <2>1. CASE i <= a
    BY <1>1, <1>5, <1>6, <1>8, <2>1
  <2>2. CASE i > a
    <3>1. PICK j \in 1 .. c : i = a + j
      <4>1. i - a \in 1 .. c /\ i = a + (i - a)
        BY <1>1, <2>2
      <4> QED BY <4>1
    <3>2. w[i] = u[j] /\ u[j] = y[b + j]
      BY <1>3, <1>8, <3>1
    <3>3. b + j \in 1 .. d /\ a + (b + j) = i + b /\ at(i) = i + b
      BY <1>1, <1>5, <2>2, <3>1
    <3>4. z[a + (b + j)] = y[b + j]
      BY <1>6, <3>3
    <3>5. at(i) \in 1 .. a + d
      BY <1>1, <1>5, <3>1, <3>3
    <3> QED BY <3>2, <3>3, <3>4, <3>5
  <2> QED BY <1>1, <2>1, <2>2
<1>10. ASSUME NEW i \in 1 .. a + c, NEW j \in 1 .. a + c, i < j
       PROVE  at(i) < at(j)
  BY <1>1, <1>10
<1>11. Within(z, n, m)
  BY <1>2, <1>4
<1>12. /\ \A i \in 1 .. a + d : z[i] \in Nat /\ n < z[i] /\ z[i] <= m
       /\ \A i, j \in 1 .. a + d : i < j => z[i] < z[j]
  BY <1>6, <1>11 DEF Within
<1> HIDE DEF at
<1>13. \A i \in 1 .. a + c : w[i] \in Nat /\ n < w[i] /\ w[i] <= m
  BY <1>9, <1>12
<1>14. \A i, j \in 1 .. a + c : i < j => w[i] < w[j]
  BY <1>9, <1>10, <1>12
<1>15. Within(w, n, m)
  BY <1>8, <1>13, <1>14 DEF Within
<1> QED
  BY <1>7, <1>15

-----------------------------------------------------------------------------
(* What becomes of a buffer: text X is said, the calls Y are found, and    *)
(* what remains to be said of it and of any text R that follows is what    *)
(* there is to be said of d.                                               *)
ToolRest(b, w) == IF w THEN InBlock(b) ELSE Items(b)

Agrees(b, w, X, Y, d, v, R) ==
    /\ Said(ToolRest(b \o R, w)) = X \o Said(ToolRest(d \o R, v))
    /\ Done(ToolRest(b \o R, w)) = Y \o Done(ToolRest(d \o R, v))

Keeps(b, X, d, E, R) ==
    \A n, m : Within(E \o (b \o R), n, m) => Within(E \o (X \o (d \o R)), n, m)

Tells(b, w, X, Y, d, v) ==
    /\ b \in Seq(Position) /\ w \in BOOLEAN
    /\ d \in Seq(Position) /\ v \in BOOLEAN
    /\ X \in Seq(Position) /\ Y \in Seq(Seq(Position))
    /\ \A R \in Seq(Position) : Agrees(b, w, X, Y, d, v, R)
    /\ \A E \in Seq(Position), R \in Seq(Position) : Keeps(b, X, d, E, R)

LEMMA ToolRestType ==
    ASSUME NEW b \in Seq(Position), NEW w \in BOOLEAN
    PROVE  /\ ToolRest(b, w) \in Seq(Its)
           /\ Said(ToolRest(b, w)) \in Seq(Position)
           /\ Done(ToolRest(b, w)) \in Seq(Seq(Position))
<1>1. PICK s : s = ToolRest(b, w)
  OBVIOUS
<1>2. s \in Seq(Its)
  BY <1>1, ItemsType, InBlockType DEF ToolRest
<1> QED
  BY <1>1, <1>2, SaidIs

LEMMA TellsNot ==
    ASSUME NEW b \in Seq(Position), NEW w \in BOOLEAN
    PROVE  Tells(b, w, << >>, << >>, b, w)
<1>1. << >> \in Seq(Position) /\ << >> \in Seq(Seq(Position))
  BY EmptySeq
<1>2. ASSUME NEW R \in Seq(Position) PROVE Agrees(b, w, << >>, << >>, b, w, R)
  <2>1. PICK c \in Seq(Position) : c = b \o R
    BY JoinedLength
  <2>2. PICK x \in Seq(Position), y \in Seq(Seq(Position)) :
           x = Said(ToolRest(c, w)) /\ y = Done(ToolRest(c, w))
    BY ToolRestType
  <2>3. << >> \o x = x /\ << >> \o y = y
    BY ConcatEmptySeq
  <2> QED BY <2>1, <2>2, <2>3 DEF Agrees
<1>3. ASSUME NEW E \in Seq(Position), NEW R \in Seq(Position) PROVE Keeps(b, << >>, b, E, R)
  <2>1. PICK c \in Seq(Position) : c = b \o R
    BY JoinedLength
  <2>2. << >> \o c = c
    BY ConcatEmptySeq
  <2> QED BY <2>1, <2>2 DEF Keeps
<1> QED
  BY <1>1, <1>2, <1>3 DEF Tells

LEMMA TellsThen ==
    ASSUME NEW b, NEW w, NEW X, NEW Y, NEW d, NEW v, Tells(b, w, X, Y, d, v),
           NEW W, NEW Z, NEW e, NEW u, Tells(d, v, W, Z, e, u)
    PROVE  Tells(b, w, X \o W, Y \o Z, e, u)
<1>1. /\ b \in Seq(Position) /\ w \in BOOLEAN /\ d \in Seq(Position) /\ v \in BOOLEAN
      /\ e \in Seq(Position) /\ u \in BOOLEAN
      /\ X \in Seq(Position) /\ W \in Seq(Position)
      /\ Y \in Seq(Seq(Position)) /\ Z \in Seq(Seq(Position))
  BY DEF Tells
<1>2. X \o W \in Seq(Position) /\ Y \o Z \in Seq(Seq(Position))
  BY <1>1, ConcatType
<1>3. ASSUME NEW R \in Seq(Position) PROVE Agrees(b, w, X \o W, Y \o Z, e, u, R)
  <2>1. Agrees(b, w, X, Y, d, v, R)
    BY DEF Tells
  <2>2. Agrees(d, v, W, Z, e, u, R)
    BY DEF Tells
  <2>3. PICK c \in Seq(Position) : c = e \o R
    BY <1>1, JoinedLength
  <2>4. PICK x \in Seq(Position), y \in Seq(Seq(Position)) :
           x = Said(ToolRest(c, u)) /\ y = Done(ToolRest(c, u))
    BY <1>1, ToolRestType
  <2>5. (X \o W) \o x = X \o (W \o x)
    <3>1. Three(Position, X, W, x)
      BY <1>1 DEF Three
    <3> QED BY <3>1, ConcatAssoc DEF Assoc
  <2>6. (Y \o Z) \o y = Y \o (Z \o y)
    <3>1. PICK S : S = Seq(Position)
      OBVIOUS
    <3>2. Three(S, Y, Z, y)
      BY <1>1, <3>1 DEF Three
    <3> QED BY <3>2, ConcatAssoc DEF Assoc
  <2> QED BY <2>1, <2>2, <2>3, <2>4, <2>5, <2>6 DEF Agrees
<1>4. ASSUME NEW E \in Seq(Position), NEW R \in Seq(Position) PROVE Keeps(b, X \o W, e, E, R)
  <2>1. PICK F \in Seq(Position) : F = E \o X
    BY <1>1, JoinedLength
  <2>2. Keeps(b, X, d, E, R)
    BY DEF Tells
  <2>3. Keeps(d, W, e, F, R)
    BY DEF Tells
  <2>4. PICK c \in Seq(Position), f \in Seq(Position) : c = d \o R /\ f = e \o R
    BY <1>1, JoinedLength
  <2>5. E \o (X \o c) = F \o c
    <3>1. Three(Position, E, X, c)
      BY <1>1 DEF Three
    <3>2. Assoc(E, X, c)
      BY <3>1, ConcatAssoc
    <3>3. (E \o X) \o c = E \o (X \o c)
      BY <3>2 DEF Assoc
    <3> QED BY <2>1, <3>3
  <2>6. PICK g \in Seq(Position) : g = W \o f
    BY <1>1, JoinedLength
  <2>7. F \o g = E \o (X \o g)
    <3>1. Three(Position, E, X, g)
      BY <1>1 DEF Three
    <3>2. Assoc(E, X, g)
      BY <3>1, ConcatAssoc
    <3>3. (E \o X) \o g = E \o (X \o g)
      BY <3>2 DEF Assoc
    <3> QED BY <2>1, <3>3
  <2>8. X \o g = (X \o W) \o f
    <3>1. Three(Position, X, W, f)
      BY <1>1 DEF Three
    <3>2. Assoc(X, W, f)
      BY <3>1, ConcatAssoc
    <3>3. (X \o W) \o f = X \o (W \o f)
      BY <3>2 DEF Assoc
    <3> QED BY <2>6, <3>3
  <2>9. ASSUME NEW n, NEW m, Within(E \o (b \o R), n, m)
        PROVE  Within(E \o ((X \o W) \o (e \o R)), n, m)
    <3>1. Within(E \o (X \o c), n, m)
      BY <2>2, <2>4, <2>9 DEF Keeps
    <3>2. Within(F \o (d \o R), n, m)
      BY <2>4, <2>5, <3>1
    <3>3. Within(F \o (W \o (e \o R)), n, m)
      BY <2>3, <3>2 DEF Keeps
    <3> QED BY <2>4, <2>6, <2>7, <2>8, <3>3
  <2> QED BY <2>9 DEF Keeps
<1> QED
  BY <1>1, <1>2, <1>3, <1>4 DEF Tells

LEMMA TellsGrow ==
    ASSUME NEW b, NEW w, NEW X, NEW Y, NEW d, NEW v, Tells(b, w, X, Y, d, v),
           NEW c \in Seq(Position)
    PROVE  Tells(b \o c, w, X, Y, d \o c, v)
<1>1. /\ b \in Seq(Position) /\ w \in BOOLEAN /\ d \in Seq(Position) /\ v \in BOOLEAN
      /\ X \in Seq(Position) /\ Y \in Seq(Seq(Position))
  BY DEF Tells
<1>2. b \o c \in Seq(Position) /\ d \o c \in Seq(Position)
  BY <1>1, JoinedLength
<1>3. ASSUME NEW R \in Seq(Position)
      PROVE  (b \o c) \o R = b \o (c \o R) /\ (d \o c) \o R = d \o (c \o R) /\ c \o R \in Seq(Position)
  <2>1. b \in Seq(Position) /\ d \in Seq(Position) /\ c \in Seq(Position) /\ R \in Seq(Position)
    BY <1>1
  <2>2. (b \o c) \o R = b \o (c \o R)
    <3>1. Three(Position, b, c, R)
      BY <2>1 DEF Three
    <3> QED BY <3>1, ConcatAssoc DEF Assoc
  <2>3. (d \o c) \o R = d \o (c \o R)
    <3>1. Three(Position, d, c, R)
      BY <2>1 DEF Three
    <3> QED BY <3>1, ConcatAssoc DEF Assoc
  <2> QED BY <2>2, <2>3, JoinedLength
<1>4. ASSUME NEW R \in Seq(Position) PROVE Agrees(b \o c, w, X, Y, d \o c, v, R)
  <2>1. Agrees(b, w, X, Y, d, v, c \o R)
    BY <1>3 DEF Tells
  <2> QED BY <1>3, <2>1 DEF Agrees
<1>5. ASSUME NEW E \in Seq(Position), NEW R \in Seq(Position) PROVE Keeps(b \o c, X, d \o c, E, R)
  <2>1. Keeps(b, X, d, E, c \o R)
    BY <1>3 DEF Tells
  <2> QED BY <1>3, <2>1 DEF Keeps
<1> QED
  BY <1>1, <1>2, <1>4, <1>5 DEF Tells

-----------------------------------------------------------------------------
(* What may be the beginning of a marker is held back.                     *)
PartialAt(b, i) ==
    \/ i = Len(b) /\ Is(b, i, "<")
    \/ i + 1 = Len(b) /\ Is(b, i, "<") /\ Is(b, i + 1, "tool_call")

LEMMA PartialIs ==
    ASSUME NEW b \in Seq(Position), NEW i \in 1 .. Len(b)
    PROVE  IsPartialMarker(From(b, i)) <=> PartialAt(b, i)
<1>1. PICK n \in Nat : n = Len(b)
  OBVIOUS
<1>2. PICK k \in 0 .. n : k + 1 = i /\ k < n /\ k \in Nat
  <2>1. i - 1 \in 0 .. n /\ (i - 1) + 1 = i /\ i - 1 < n
    BY <1>1
  <2> QED BY <2>1
<1>3. PICK t \in Seq(Position), u \in Seq(Position) : b = t \o u /\ Len(t) = k /\ Len(u) = n - k
  BY <1>1, PartsExist
<1>4. From(b, i) = u
  <2>1. From(t \o u, Len(t) + 1) = u
    BY PartsOf
  <2> QED BY <1>2, <1>3, <2>1
<1>5. ASSUME NEW j \in Nat, j >= 1, NEW piece PROVE Is(b, k + j, piece) <=> Is(u, j, piece)
  <2>1. PICK c, m : c = t \o u /\ m = Len(t)
    OBVIOUS
  <2>2. Is(c, m + j, piece) <=> Is(u, j, piece)
    BY <1>5, <2>1, IsJoined
  <2> QED BY <1>3, <2>1, <2>2
<1>6. Is(b, i, "<") <=> Is(u, 1, "<")
  BY <1>2, <1>5
<1>7. Is(b, i + 1, "tool_call") <=> Is(u, 2, "tool_call")
  <2>1. i + 1 = k + 2
    BY <1>2
  <2> QED BY <1>5, <2>1
<1>8. (Len(u) = 1 <=> i = n) /\ (Len(u) = 2 <=> i + 1 = n)
  <2>1. PICK l : l = Len(u) /\ l = n - k
    BY <1>3
  <2>2. (l = 1 <=> i = n) /\ (l = 2 <=> i + 1 = n)
    BY <1>2, <2>1
  <2> QED BY <2>1, <2>2
<1> QED
  BY <1>1, <1>4, <1>6, <1>7, <1>8 DEF IsPartialMarker, PartialAt

(* The cut of a buffer without a marker: what is passed on, and what is    *)
(* held back.                                                              *)
Passed(b, t, d) ==
    /\ t \in Seq(Position) /\ d \in Seq(Position) /\ b = t \o d
    /\ d = << >> \/ IsPartialMarker(d)
    /\ \A i \in 1 .. Len(t) : ~PartialAt(b, i)

LEMMA TextBoundaryIs ==
    ASSUME NEW b \in Seq(Position), NEW m, m = SafeTextBoundary(b)
    PROVE  \E t, d : Passed(b, t, d) /\ Part(b, 1, m) = t /\ From(b, m + 1) = d
<1> DEFINE at == {i \in DOMAIN b : Is(b, i, "<") /\ IsPartialMarker(From(b, i))}
<1>1. PICK n \in Nat : n = Len(b) /\ DOMAIN b = 1 .. n
  OBVIOUS
<1>2. ASSUME NEW i PROVE i \in at <=> i \in 1 .. n /\ PartialAt(b, i)
  <2>1. CASE i \in 1 .. n
    <3>1. IsPartialMarker(From(b, i)) <=> PartialAt(b, i)
      BY <1>1, <2>1, PartialIs
    <3>2. PartialAt(b, i) => Is(b, i, "<")
      BY DEF PartialAt
    <3> QED BY <1>1, <2>1, <3>1, <3>2
  <2>2. CASE i \notin 1 .. n
    BY <1>1, <2>2
  <2> QED BY <2>1, <2>2
<1>3. m = IF at = {} THEN Len(b) ELSE (CHOOSE i \in at : TRUE) - 1
  BY DEF SafeTextBoundary
<1> HIDE DEF at
<1>4. ASSUME NEW i \in 1 .. n, NEW j \in 1 .. n, PartialAt(b, i), PartialAt(b, j) PROVE i = j
  BY <1>1, <1>4 DEF PartialAt, Is
<1>5. m \in 0 .. n
  <2>1. CASE at = {}
    BY <1>1, <1>3, <2>1
  <2>2. CASE at # {}
    <3>1. PICK i : i \in at /\ m = i - 1
      BY <1>3, <2>2
    <3>2. i \in 1 .. n
      BY <1>2, <3>1
    <3> QED BY <3>1, <3>2
  <2> QED BY <2>1, <2>2
<1>6. PICK t \in Seq(Position), d \in Seq(Position) : b = t \o d /\ Len(t) = m /\ Len(d) = n - m
  BY <1>1, <1>5, PartsExist
<1>7. Part(b, 1, m) = t /\ From(b, m + 1) = d
  <2>1. Part(t \o d, 1, Len(t)) = t /\ From(t \o d, Len(t) + 1) = d
    BY PartsOf
  <2> QED BY <1>6, <2>1
<1>8. ASSUME NEW i \in 1 .. m PROVE ~PartialAt(b, i)
  <2>1. SUFFICES ASSUME PartialAt(b, i) PROVE FALSE
    OBVIOUS
  <2>2. i \in 1 .. n
    BY <1>5
  <2>3. i \in at /\ at # {}
    BY <1>2, <2>1, <2>2
  <2>4. PICK j : j \in at /\ m = j - 1
    BY <1>3, <2>3
  <2>5. j \in 1 .. n /\ PartialAt(b, j)
    BY <1>2, <2>4
  <2>6. i = j
    BY <1>4, <2>1, <2>2, <2>5
  <2> QED BY <1>5, <2>4, <2>5, <2>6
<1>9. d = << >> \/ IsPartialMarker(d)
  <2>1. CASE at = {}
    <3>1. m = n
      BY <1>1, <1>3, <2>1
    <3>2. Len(d) = 0
      BY <1>1, <1>6, <3>1
    <3> QED BY <1>6, <3>2, EmptySeq
  <2>2. CASE at # {}
    <3>1. PICK j : j \in at /\ m = j - 1
      BY <1>3, <2>2
    <3>2. j \in 1 .. n /\ PartialAt(b, j)
      BY <1>2, <3>1
    <3>3. IsPartialMarker(From(b, j))
      BY <1>1, <3>2, PartialIs
    <3>4. j = m + 1
      BY <3>1, <3>2
    <3> QED BY <1>7, <3>3, <3>4
  <2> QED BY <2>1, <2>2
<1>10. \A i \in 1 .. Len(t) : ~PartialAt(b, i)
  BY <1>6, <1>8
<1> QED
  BY <1>6, <1>7, <1>9, <1>10 DEF Passed

(* No marker starts in text that is passed on, whatever follows.           *)
LEMMA PassedClear ==
    ASSUME NEW b \in Seq(Position), None(b, "tool_call"), NEW t, NEW d, Passed(b, t, d),
           NEW R \in Seq(Position)
    PROVE  Clear(t \o (d \o R), "tool_call", Len(t))
<1>1. /\ t \in Seq(Position) /\ d \in Seq(Position) /\ b = t \o d
      /\ \A i \in 1 .. Len(t) : ~PartialAt(b, i)
  BY DEF Passed
<1>2. PICK k \in Nat, n \in Nat : k = Len(t) /\ n = Len(b) /\ k <= n
  <2>1. Len(t \o d) = Len(t) + Len(d) /\ Len(t) \in Nat /\ Len(d) \in Nat
    BY <1>1, JoinedLength
  <2> QED BY <1>1, <2>1
<1>3. PICK c : c = b \o R /\ c = t \o (d \o R)
  <2>1. (t \o d) \o R = t \o (d \o R)
    <3>1. Three(Position, t, d, R)
      BY <1>1 DEF Three
    <3>2. Assoc(t, d, R)
      BY <3>1, ConcatAssoc
    <3> QED BY <3>2 DEF Assoc
  <2> QED BY <1>1, <2>1
<1>4. ASSUME NEW i \in 1 .. n, NEW piece PROVE Is(c, i, piece) <=> Is(b, i, piece)
  BY <1>2, <1>3, IsJoined
<1>5. ASSUME NEW i \in 1 .. k, MarkAt(c, "tool_call", i) PROVE FALSE
  <2>1. Is(c, i, "<") /\ Is(c, i + 1, "tool_call") /\ Is(c, i + 2, ">")
    BY <1>5 DEF MarkAt
  <2>2. i \in 1 .. n
    BY <1>2
  <2>3. Is(b, i, "<")
    BY <1>4, <2>1, <2>2
  <2>4. ~PartialAt(b, i)
    BY <1>1, <1>2
  <2>5. i # n
    BY <1>2, <2>3, <2>4 DEF PartialAt
  <2>6. i + 1 \in 1 .. n
    BY <2>2, <2>5
  <2>7. Is(b, i + 1, "tool_call")
    BY <1>4, <2>1, <2>6
  <2>8. i + 1 # n
    BY <1>2, <2>3, <2>4, <2>7 DEF PartialAt
  <2>9. i + 2 \in 1 .. n
    BY <2>6, <2>8
  <2>10. Is(b, i + 2, ">")
    BY <1>4, <2>1, <2>9
  <2>11. MarkAt(b, "tool_call", i)
    BY <1>2, <2>2, <2>3, <2>7, <2>10 DEF MarkAt
  <2> QED BY <2>11 DEF None, MarkerIs
<1> QED
  BY <1>2, <1>3, <1>5 DEF Clear

LEMMA ItemsAfterClear ==
    ASSUME NEW s \in Seq(Position), NEW c \in Seq(Position), Clear(s \o c, "tool_call", Len(s))
    PROVE  /\ Said(Items(s \o c)) = s \o Said(Items(c))
           /\ Done(Items(s \o c)) = Done(Items(c))
<1>1. s \o c \in Seq(Position)
  BY JoinedLength
<1>2. CASE None(c, "tool_call")
  <2>1. None(s \o c, "tool_call")
    BY <1>2, NoneAfter
  <2>2. Items(c) = TextItem(c)
    BY <1>2, ItemsPlain
  <2>3. Items(s \o c) = TextItem(s \o c)
    BY <1>1, <2>1, ItemsPlain
  <2>4. Said(TextItem(s \o c)) = s \o c /\ Done(TextItem(s \o c)) = << >>
    BY <1>1, SaidText
  <2>5. Said(TextItem(c)) = c /\ Done(TextItem(c)) = << >>
    BY SaidText
  <2> QED BY <2>2, <2>3, <2>4, <2>5
<1>3. CASE ~None(c, "tool_call")
  <2>1. PICK t, u : Split(c, "tool_call", t, u)
    BY <1>3, SplitIs
  <2>2. t \in Seq(Position) /\ u \in Seq(Position)
    BY <2>1, SplitNotNone
  <2>3. s \o t \in Seq(Position)
    BY <2>2, JoinedLength
  <2>4. Split(s \o c, "tool_call", s \o t, u)
    BY <2>1, SplitAfter
  <2>5. Items(s \o c) = TextItem(s \o t) \o InBlock(u)
    BY <1>1, <2>4, ItemsBegin
  <2>6. Items(c) = TextItem(t) \o InBlock(u)
    BY <2>1, ItemsBegin
  <2>7. PICK x \in Seq(Its), y \in Seq(Its), z \in Seq(Its) :
           x = TextItem(s \o t) /\ y = TextItem(t) /\ z = InBlock(u)
    BY <2>2, <2>3, ItemTypes, InBlockType
  <2>8. Said(x) = s \o t /\ Done(x) = << >> /\ Said(y) = t /\ Done(y) = << >>
    BY <2>2, <2>3, <2>7, SaidText
  <2>9. Said(x \o z) = (s \o t) \o Said(z) /\ Done(x \o z) = << >> \o Done(z)
    BY <2>8, SaidConcat
  <2>10. Said(y \o z) = t \o Said(z) /\ Done(y \o z) = << >> \o Done(z)
    BY <2>8, SaidConcat
  <2>11. PICK r \in Seq(Position) : r = Said(z)
    BY SaidIs
  <2>12. (s \o t) \o r = s \o (t \o r)
    <3>1. Three(Position, s, t, r)
      BY <2>2 DEF Three
    <3>2. Assoc(s, t, r)
      BY <3>1, ConcatAssoc
    <3> QED BY <3>2 DEF Assoc
  <2> QED BY <2>5, <2>6, <2>7, <2>9, <2>10, <2>11, <2>12
<1> QED
  BY <1>2, <1>3

-----------------------------------------------------------------------------
(* What the tool parser's steps tell.                                      *)

LEMMA PassTells ==
    ASSUME NEW b \in Seq(Position), None(b, "tool_call"), NEW t, NEW d, Passed(b, t, d)
    PROVE  Tells(b, FALSE, t, << >>, d, FALSE)
<1>1. t \in Seq(Position) /\ d \in Seq(Position) /\ b = t \o d
  BY DEF Passed
<1>2. ASSUME NEW R \in Seq(Position) PROVE b \o R = t \o (d \o R)
  BY <1>1, ConcatAssoc DEF Three, Assoc
<1>3. ASSUME NEW R \in Seq(Position) PROVE Agrees(b, FALSE, t, << >>, d, FALSE, R)
  <2>1. PICK c \in Seq(Position) : c = d \o R
    BY <1>1, JoinedLength
  <2>2. Clear(t \o c, "tool_call", Len(t))
    BY <2>1, PassedClear
  <2>3. Said(Items(t \o c)) = t \o Said(Items(c)) /\ Done(Items(t \o c)) = Done(Items(c))
    BY <1>1, <2>2, ItemsAfterClear
  <2>4. PICK y \in Seq(Seq(Position)) : y = Done(Items(c))
    BY ItemsType, SaidIs
  <2>5. << >> \o y = y
    BY ConcatEmptySeq
  <2>6. b \o R = t \o c
    BY <1>2, <2>1
  <2> QED BY <2>1, <2>3, <2>4, <2>5, <2>6 DEF Agrees, ToolRest
<1>4. ASSUME NEW E \in Seq(Position), NEW R \in Seq(Position) PROVE Keeps(b, t, d, E, R)
  BY <1>2 DEF Keeps
<1>5. << >> \in Seq(Seq(Position))
  BY EmptySeq
<1> QED
  BY <1>1, <1>3, <1>4, <1>5 DEF Tells

LEMMA BeginTells ==
    ASSUME NEW b \in Seq(Position), NEW t, NEW u, Split(b, "tool_call", t, u)
    PROVE  Tells(b, FALSE, t, << >>, u, TRUE)
<1>1. t \in Seq(Position) /\ u \in Seq(Position)
  BY SplitNotNone
<1>2. PICK mark \in Seq(Position) : b = t \o (mark \o u)
  BY DEF Split
<1>3. ASSUME NEW R \in Seq(Position) PROVE Agrees(b, FALSE, t, << >>, u, TRUE, R)
  <2>1. Split(b \o R, "tool_call", t, u \o R)
    BY SplitGrows
  <2>2. PICK c \in Seq(Position), e \in Seq(Position) : c = b \o R /\ e = u \o R
    BY <1>1, JoinedLength
  <2>3. Items(c) = TextItem(t) \o InBlock(e)
    <3>1. Split(c, "tool_call", t, e)
      BY <2>1, <2>2
    <3> QED BY <3>1, ItemsBegin
  <2>4. PICK x \in Seq(Its), z \in Seq(Its) : x = TextItem(t) /\ z = InBlock(e)
    BY <1>1, ItemTypes, InBlockType
  <2>5. Said(x) = t /\ Done(x) = << >>
    BY <1>1, <2>4, SaidText
  <2>6. Said(x \o z) = t \o Said(z) /\ Done(x \o z) = << >> \o Done(z)
    BY <2>5, SaidConcat
  <2> QED BY <2>2, <2>3, <2>4, <2>6 DEF Agrees, ToolRest
<1>4. ASSUME NEW E \in Seq(Position), NEW R \in Seq(Position) PROVE Keeps(b, t, u, E, R)
  <2>1. PICK c \in Seq(Position) : c = u \o R
    BY <1>1, JoinedLength
  <2>2. PICK m \in Seq(Position), k \in Seq(Position), s \in Seq(Position) :
           m = mark \o u /\ k = mark \o c /\ s = E \o t
    BY <1>1, JoinedLength
  <2>3. (t \o m) \o R = t \o (m \o R)
    <3>1. Three(Position, t, m, R)
      BY <1>1 DEF Three
    <3>2. Assoc(t, m, R)
      BY <3>1, ConcatAssoc
    <3> QED BY <3>2 DEF Assoc
  <2>4. (mark \o u) \o R = mark \o (u \o R)
    <3>1. Three(Position, mark, u, R)
      BY <1>1 DEF Three
    <3>2. Assoc(mark, u, R)
      BY <3>1, ConcatAssoc
    <3> QED BY <3>2 DEF Assoc
  <2>5. b \o R = t \o k
    BY <1>2, <2>1, <2>2, <2>3, <2>4
  <2>6. (E \o t) \o k = E \o (t \o k)
    <3>1. Three(Position, E, t, k)
      BY <1>1 DEF Three
    <3>2. Assoc(E, t, k)
      BY <3>1, ConcatAssoc
    <3> QED BY <3>2 DEF Assoc
  <2>7. (E \o t) \o c = E \o (t \o c)
    <3>1. Three(Position, E, t, c)
      BY <1>1 DEF Three
    <3>2. Assoc(E, t, c)
      BY <3>1, ConcatAssoc
    <3> QED BY <3>2 DEF Assoc
  <2>8. ASSUME NEW n, NEW l, Within(E \o (b \o R), n, l) PROVE Within(E \o (t \o (u \o R)), n, l)
    <3>1. Within(s \o (mark \o c), n, l)
      BY <2>2, <2>5, <2>6, <2>8
    <3>2. Within(s \o c, n, l)
      BY <3>1, WithinDrop
    <3> QED BY <2>1, <2>2, <2>7, <3>2
  <2> QED BY <2>8 DEF Keeps
<1>5. << >> \in Seq(Seq(Position))
  BY EmptySeq
<1> QED
  BY <1>1, <1>3, <1>4, <1>5 DEF Tells

LEMMA EndTells ==
    ASSUME NEW b \in Seq(Position), NEW t, NEW u, Split(b, "/tool_call", t, u)
    PROVE  Tells(b, TRUE, << >>, Done(<< ParseBlock(t) >>), u, FALSE)
<1>1. t \in Seq(Position) /\ u \in Seq(Position)
  BY SplitNotNone
<1>2. PICK mark \in Seq(Position) : b = t \o (mark \o u)
  BY DEF Split
<1>3. PICK x \in Seq(Its) : x = << ParseBlock(t) >>
  BY <1>1, ItemTypes, OneType
<1>4. Said(x) = << >> /\ Done(x) \in Seq(Seq(Position))
  BY <1>1, <1>3, SaidBlock, SaidIs
<1>5. ASSUME NEW R \in Seq(Position) PROVE Agrees(b, TRUE, << >>, Done(x), u, FALSE, R)
  <2>1. Split(b \o R, "/tool_call", t, u \o R)
    BY SplitGrows
  <2>2. PICK c \in Seq(Position), e \in Seq(Position) : c = b \o R /\ e = u \o R
    BY <1>1, JoinedLength
  <2>3. InBlock(c) = << ParseBlock(t) >> \o Items(e)
    <3>1. Split(c, "/tool_call", t, e)
      BY <2>1, <2>2
    <3> QED BY <3>1, InBlockEnds
  <2>4. PICK z \in Seq(Its) : z = Items(e)
    BY ItemsType
  <2>5. Said(x \o z) = << >> \o Said(z) /\ Done(x \o z) = Done(x) \o Done(z)
    BY <1>4, SaidConcat
  <2> QED BY <1>3, <2>2, <2>3, <2>4, <2>5 DEF Agrees, ToolRest
<1>6. ASSUME NEW E \in Seq(Position), NEW R \in Seq(Position) PROVE Keeps(b, << >>, u, E, R)
  <2>1. PICK c \in Seq(Position) : c = u \o R
    BY <1>1, JoinedLength
  <2>2. PICK m \in Seq(Position), k \in Seq(Position), f \in Seq(Position) :
           m = mark \o u /\ k = mark \o c /\ f = t \o mark
    BY <1>1, JoinedLength
  <2>3. (t \o m) \o R = t \o (m \o R)
    <3>1. Three(Position, t, m, R)
      BY <1>1 DEF Three
    <3>2. Assoc(t, m, R)
      BY <3>1, ConcatAssoc
    <3> QED BY <3>2 DEF Assoc
  <2>4. (mark \o u) \o R = mark \o (u \o R)
    <3>1. Three(Position, mark, u, R)
      BY <1>1 DEF Three
    <3>2. Assoc(mark, u, R)
      BY <3>1, ConcatAssoc
    <3> QED BY <3>2 DEF Assoc
  <2>5. (t \o mark) \o c = t \o (mark \o c)
    <3>1. Three(Position, t, mark, c)
      BY <1>1 DEF Three
    <3>2. Assoc(t, mark, c)
      BY <3>1, ConcatAssoc
    <3> QED BY <3>2 DEF Assoc
  <2>6. b \o R = f \o c
    BY <1>2, <2>1, <2>2, <2>3, <2>4, <2>5
  <2>7. << >> \o c = c
    BY ConcatEmptySeq
  <2>8. ASSUME NEW n, NEW l, Within(E \o (b \o R), n, l) PROVE Within(E \o (<< >> \o (u \o R)), n, l)
    <3>1. Within(E \o (f \o c), n, l)
      BY <2>6, <2>8
    <3>2. Within(E \o c, n, l)
      BY <3>1, WithinDrop
    <3> QED BY <2>1, <2>7, <3>2
  <2> QED BY <2>8 DEF Keeps
<1>7. << >> \in Seq(Position)
  BY EmptySeq
<1>8. Tells(b, TRUE, << >>, Done(x), u, FALSE)
  BY <1>1, <1>4, <1>5, <1>6, <1>7 DEF Tells
<1> QED
  BY <1>3, <1>8

-----------------------------------------------------------------------------
(* The tool parser between two rounds.                                     *)
ToolAt(b, w, q) == [buffer |-> b, inside |-> w, items |-> q]

(* Nothing is held back but the inside of a block or the beginning of a    *)
(* marker.                                                                 *)
ToolRested(b, w) ==
    IF w THEN None(b, "/tool_call") ELSE b = << >> \/ IsPartialMarker(b)

ToolTurns(b, w, x, d, v) ==
    /\ x \in Seq(Its) /\ Tells(b, w, Said(x), Done(x), d, v)
    /\ \/ Len(d) < Len(b)
       \/ d = b /\ v = w /\ x = << >> /\ ToolRested(b, w)

LEMMA SplitShorter ==
    ASSUME NEW b \in Seq(Position), NEW name, NEW t, NEW u, Split(b, name, t, u)
    PROVE  Len(u) < Len(b)
<1>1. PICK m : m = Marker(b, name)
  OBVIOUS
<1>2. Len(u) + 3 <= Len(b) /\ u \in Seq(Position)
  BY <1>1, SplitParts
<1>3. PICK k \in Nat, n \in Nat : k = Len(u) /\ n = Len(b)
  BY <1>2
<1>4. k + 3 <= n
  BY <1>2, <1>3
<1>5. k < n
  BY <1>4
<1> QED
  BY <1>3, <1>5

LEMMA TakesEnd ==
    ASSUME NEW b \in Seq(Position), NEW w \in BOOLEAN, w, NEW q \in Seq(Its)
    PROVE  \E d, v, x : /\ ToolTurns(b, w, x, d, v)
                        /\ TakeMarker(ToolAt(b, w, q)) = ToolAt(d, v, q \o x)
<1>1. w = TRUE
  OBVIOUS
<1>2. PICK p : p = ToolAt(b, w, q) /\ p.buffer = b /\ p.inside = w /\ p.items = q
  <2>1. ToolAt(b, w, q).buffer = b /\ ToolAt(b, w, q).inside = w /\ ToolAt(b, w, q).items = q
    BY DEF ToolAt
  <2> QED BY <2>1
<1>3. PICK m : m = Marker(b, "/tool_call")
  OBVIOUS
<1>4. CASE m = 0
  <2>1. TakeMarker(p) = p
    BY <1>2, <1>3, <1>4 DEF TakeMarker
  <2>2. PICK x \in Seq(Its) : x = << >>
    BY EmptySeq
  <2>3. Tells(b, w, Said(x), Done(x), b, w)
    BY <2>2, TellsNot, SaidNone
  <2>4. ToolRested(b, w)
    BY <1>3, <1>4, NoneIs DEF ToolRested
  <2>5. q \o x = q
    BY <2>2, ConcatEmptySeq
  <2>6. ToolTurns(b, w, x, b, w)
    BY <2>2, <2>3, <2>4 DEF ToolTurns
  <2> QED BY <1>2, <2>1, <2>5, <2>6
<1>5. CASE m # 0
  <2>1. PICK t, u : Split(b, "/tool_call", t, u)
    BY <1>3, <1>5, SplitIs
  <2>2. Part(b, 1, m - 1) = t /\ From(b, m + 3) = u /\ t \in Seq(Position) /\ u \in Seq(Position)
    BY <1>3, <2>1, SplitParts
  <2>3. TakeMarker(p) = [buffer |-> u, inside |-> FALSE, items |-> Append(q, ParseBlock(t))]
    BY <1>2, <1>3, <1>5, <2>2 DEF TakeMarker
  <2>4. ParseBlock(t) \in Its
    BY <2>2, ItemTypes
  <2>5. PICK x \in Seq(Its) : x = << ParseBlock(t) >>
    BY <2>4, OneType
  <2>6. Append(q, ParseBlock(t)) = q \o x
    BY <2>4, <2>5, AppendIs
  <2>7. Said(x) = << >>
    BY <2>2, <2>5, SaidBlock
  <2>8. Tells(b, w, Said(x), Done(x), u, FALSE)
    BY <2>1, <2>5, <2>7, <1>1, EndTells
  <2>9. Len(u) < Len(b)
    BY <2>1, SplitShorter
  <2>10. ToolTurns(b, w, x, u, FALSE)
    BY <2>8, <2>9 DEF ToolTurns
  <2> QED BY <1>2, <2>3, <2>6, <2>10 DEF ToolAt
<1> QED
  BY <1>4, <1>5

LEMMA TakesText ==
    ASSUME NEW b \in Seq(Position), NEW w \in BOOLEAN, ~w, NEW q \in Seq(Its)
    PROVE  \E d, v, x : /\ ToolTurns(b, w, x, d, v)
                        /\ TakeMarker(ToolAt(b, w, q)) = ToolAt(d, v, q \o x)
<1>1. w = FALSE
  OBVIOUS
<1>2. PICK p : p = ToolAt(b, w, q) /\ p.buffer = b /\ p.inside = w /\ p.items = q
  <2>1. ToolAt(b, w, q).buffer = b /\ ToolAt(b, w, q).inside = w /\ ToolAt(b, w, q).items = q
    BY DEF ToolAt
  <2> QED BY <2>1
<1>3. PICK m : m = Marker(b, "tool_call")
  OBVIOUS
<1>4. CASE m # 0
  <2>1. PICK t, u : Split(b, "tool_call", t, u)
    BY <1>3, <1>4, SplitIs
  <2>2. Part(b, 1, m - 1) = t /\ From(b, m + 3) = u /\ t \in Seq(Position) /\ u \in Seq(Position)
    BY <1>3, <2>1, SplitParts
  <2>3. PICK x \in Seq(Its) : x = TextItem(t)
    BY <2>2, ItemTypes
  <2>4. TakeMarker(p) = [buffer |-> u, inside |-> TRUE, items |-> q \o x]
    BY <1>2, <1>3, <1>4, <2>2, <2>3 DEF TakeMarker
  <2>5. Said(x) = t /\ Done(x) = << >>
    BY <2>2, <2>3, SaidText
  <2>6. Tells(b, w, Said(x), Done(x), u, TRUE)
    BY <2>1, <2>5, <1>1, BeginTells
  <2>7. Len(u) < Len(b)
    BY <2>1, SplitShorter
  <2>8. ToolTurns(b, w, x, u, TRUE)
    BY <2>6, <2>7 DEF ToolTurns
  <2> QED BY <1>2, <2>4, <2>8 DEF ToolAt
<1>5. CASE m = 0
  <2>1. None(b, "tool_call")
    BY <1>3, <1>5, NoneIs
  <2>2. PICK upto : upto = SafeTextBoundary(b)
    OBVIOUS
  <2>3. PICK t, d : Passed(b, t, d) /\ Part(b, 1, upto) = t /\ From(b, upto + 1) = d
    BY <2>2, TextBoundaryIs
  <2>4. t \in Seq(Position) /\ d \in Seq(Position) /\ b = t \o d /\ (d = << >> \/ IsPartialMarker(d))
    BY <2>3 DEF Passed
  <2>5. PICK x \in Seq(Its) : x = TextItem(t)
    BY <2>4, ItemTypes
  <2>6. TakeMarker(p) = [buffer |-> d, inside |-> FALSE, items |-> q \o x]
    BY <1>2, <1>3, <1>5, <2>2, <2>3, <2>5 DEF TakeMarker
  <2>7. Said(x) = t /\ Done(x) = << >>
    BY <2>4, <2>5, SaidText
  <2>8. Tells(b, w, Said(x), Done(x), d, FALSE)
    BY <2>1, <2>3, <2>7, <1>1, PassTells
  <2>9. Len(d) < Len(b) \/ (d = b /\ x = << >> /\ ToolRested(b, w))
    <3>1. CASE t = << >>
      <4>1. << >> \o d = d
        BY <2>4, ConcatEmptySeq
      <4>2. d = b /\ x = << >>
        BY <2>4, <2>5, <3>1, <4>1 DEF TextItem
      <4> QED BY <2>4, <4>2 DEF ToolRested
    <3>2. CASE t # << >>
      <4>1. Len(t) # 0
        BY <2>4, <3>2, EmptySeq
      <4>2. Len(t \o d) = Len(t) + Len(d) /\ Len(t) \in Nat /\ Len(d) \in Nat
        BY <2>4, JoinedLength
      <4>3. PICK i \in Nat, j \in Nat, l \in Nat : i = Len(t) /\ j = Len(d) /\ l = Len(b)
        BY <4>2
      <4>4. i # 0 /\ l = i + j
        BY <2>4, <4>1, <4>2, <4>3
      <4>5. j < l
        BY <4>4
      <4> QED BY <4>3, <4>5
    <3> QED BY <3>1, <3>2
  <2>10. ToolTurns(b, w, x, d, FALSE)
    BY <1>1, <2>8, <2>9 DEF ToolTurns
  <2> QED BY <1>2, <2>6, <2>10 DEF ToolAt
<1> QED
  BY <1>4, <1>5

LEMMA TakeMarkerTurns ==
    ASSUME NEW b \in Seq(Position), NEW w \in BOOLEAN, NEW q \in Seq(Its)
    PROVE  \E d, v, x : /\ ToolTurns(b, w, x, d, v)
                        /\ TakeMarker(ToolAt(b, w, q)) = ToolAt(d, v, q \o x)
<1>1. CASE w = TRUE
  BY <1>1, TakesEnd
<1>2. CASE w = FALSE
  BY <1>2, TakesText
<1> QED
  BY <1>1, <1>2

-----------------------------------------------------------------------------
(* The states the tool parser reaches from one state.                      *)
ToolStates == {ToolAt(d, v, x) : d \in Seq(Position), v \in BOOLEAN, x \in Seq(Its)}
ToolReached(b, w, t) ==
    \E d, v, x : x \in Seq(Its) /\ Tells(b, w, Said(x), Done(x), d, v) /\ t = ToolAt(d, v, x)
ToolReachedStates(b, w) == {t \in ToolStates : ToolReached(b, w, t)}

LEMMA ToolReachedHas ==
    ASSUME NEW b, NEW w, NEW d, NEW v, NEW x \in Seq(Its), Tells(b, w, Said(x), Done(x), d, v)
    PROVE  ToolAt(d, v, x) \in ToolReachedStates(b, w)
<1>1. d \in Seq(Position) /\ v \in BOOLEAN
  BY DEF Tells
<1>2. ToolAt(d, v, x) \in ToolStates
  BY <1>1 DEF ToolStates
<1> QED
  BY <1>2 DEF ToolReachedStates, ToolReached

LEMMA ToolReachedStep ==
    ASSUME NEW b, NEW w, NEW t \in ToolReachedStates(b, w)
    PROVE  /\ TakeMarker(t) \in ToolReachedStates(b, w)
           /\ Len(t.buffer) \in Nat
           /\ TakeMarker(t) = t \/ Len(TakeMarker(t).buffer) < Len(t.buffer)
<1>1. PICK d, v, x : x \in Seq(Its) /\ Tells(b, w, Said(x), Done(x), d, v) /\ t = ToolAt(d, v, x)
  BY DEF ToolReachedStates, ToolReached
<1>2. d \in Seq(Position) /\ v \in BOOLEAN
  BY <1>1 DEF Tells
<1>3. PICK e, u, y : ToolTurns(d, v, y, e, u) /\ TakeMarker(t) = ToolAt(e, u, x \o y)
  BY <1>1, <1>2, TakeMarkerTurns
<1>4. y \in Seq(Its) /\ Tells(d, v, Said(y), Done(y), e, u)
  BY <1>3 DEF ToolTurns
<1>5. PICK z \in Seq(Its) : z = x \o y
  BY <1>1, <1>4, ConcatType
<1>6. Said(z) = Said(x) \o Said(y) /\ Done(z) = Done(x) \o Done(y)
  BY <1>1, <1>4, <1>5, SaidConcat
<1>7. Tells(b, w, Said(z), Done(z), e, u)
  BY <1>1, <1>4, <1>6, TellsThen
<1>8. TakeMarker(t) \in ToolReachedStates(b, w)
  BY <1>3, <1>5, <1>7, ToolReachedHas
<1>9. t.buffer = d /\ TakeMarker(t).buffer = e
  BY <1>1, <1>3 DEF ToolAt
<1>10. CASE e = d /\ u = v /\ y = << >>
  <2>1. x \o y = x
    BY <1>1, <1>10, ConcatEmptySeq
  <2> QED BY <1>1, <1>2, <1>3, <1>8, <1>9, <1>10, <2>1
<1> QED
  BY <1>2, <1>3, <1>8, <1>9, <1>10 DEF ToolTurns

LEMMA ToolRestIs ==
    ASSUME NEW b \in Seq(Position), NEW w \in BOOLEAN, NEW q \in Seq(Its),
           TakeMarker(ToolAt(b, w, q)) = ToolAt(b, w, q)
    PROVE  ToolRested(b, w)
<1>1. PICK d, v, x : ToolTurns(b, w, x, d, v) /\ TakeMarker(ToolAt(b, w, q)) = ToolAt(d, v, q \o x)
  BY TakeMarkerTurns
<1>2. d = b
  BY <1>1 DEF ToolAt
<1>3. Len(b) \in Nat
  OBVIOUS
<1> QED
  BY <1>1, <1>2, <1>3 DEF ToolTurns

LEMMA TakeBlocksIs ==
    ASSUME NEW b \in Seq(Position), NEW w \in BOOLEAN
    PROVE  \E d, v, x : /\ x \in Seq(Its) /\ Tells(b, w, Said(x), Done(x), d, v)
                        /\ ToolRested(d, v)
                        /\ TakeBlocks(ToolAt(b, w, << >>)) = ToolAt(d, v, x)
<1>1. PICK A : A = ToolReachedStates(b, w)
  OBVIOUS
<1>2. PICK a : a = ToolAt(b, w, << >>)
  OBVIOUS
<1>3. a \in A /\ a.buffer = b
  <2>1. PICK x \in Seq(Its) : x = << >>
    BY EmptySeq
  <2>2. Tells(b, w, Said(x), Done(x), b, w)
    BY <2>1, TellsNot, SaidNone
  <2> QED BY <1>1, <1>2, <2>1, <2>2, ToolReachedHas DEF ToolAt
<1>4. PICK n \in Nat, N \in Nat : N = n + 1 /\ Len(a.buffer) = n
  BY <1>3
<1> DEFINE F == [x \in A |-> TakeMarker(x)]
           M == [x \in A |-> Len(x.buffer)]
           Def(r) == r = [i \in 0 .. N |-> IF i = 0 THEN a ELSE TakeMarker(r[i - 1])]
           g == CHOOSE r : Def(r)
<1>5. \A x \in A : /\ TakeMarker(x) \in A /\ Len(x.buffer) \in Nat
                   /\ TakeMarker(x) = x \/ Len(TakeMarker(x).buffer) < Len(x.buffer)
  BY <1>1, ToolReachedStep
<1>6. F \in [A -> A] /\ \A x \in A : F[x] = TakeMarker(x)
  BY <1>5
<1>7. Shortens(A, F, M) /\ M[a] <= N
  <2>1. M \in [A -> Nat] /\ \A x \in A : M[x] = Len(x.buffer)
    BY <1>5
  <2>2. ASSUME NEW x \in A PROVE F[x] = x \/ M[F[x]] < M[x]
    <3>1. F[x] = TakeMarker(x) /\ TakeMarker(x) \in A
      BY <1>5, <1>6
    <3> HIDE DEF F, M
    <3> QED BY <1>5, <2>1, <3>1
  <2>3. M[a] = n
    BY <1>3, <1>4, <2>1
  <2> HIDE DEF F, M
  <2> QED BY <1>4, <2>1, <2>2, <2>3 DEF Shortens
<1> HIDE DEF F, M
<1>8. Def(g)
  <2>1. PICK f \in [0 .. N -> A] : f = [i \in 0 .. N |-> IF i = 0 THEN a ELSE F[f[i - 1]]]
    <3>1. \E f \in [0 .. N -> A] : Unrolls(N, F, a, f)
      BY <1>3, <1>6, RepeatsExists
    <3> QED BY <3>1 DEF Unrolls
  <2>2. ASSUME NEW i \in 0 .. N
        PROVE  (IF i = 0 THEN a ELSE F[f[i - 1]]) = IF i = 0 THEN a ELSE TakeMarker(f[i - 1])
    <3>1. i # 0 => i - 1 \in 0 .. N
      OBVIOUS
    <3> QED BY <1>6, <3>1
  <2>3. Def(f)
    BY <2>1, <2>2
  <2> QED BY <2>3
<1>9. TakeBlocks(a) = g[N]
  BY <1>4 DEF TakeBlocks
<1>10. StepsBy(N, A, F, a, g)
  <2>1. g[0] = a
    <3>1. 0 \in 0 .. N
      OBVIOUS
    <3> QED BY <1>8, <3>1
  <2>2. ASSUME NEW i \in 1 .. N, g[i - 1] \in A PROVE g[i] = F[g[i - 1]]
    <3>1. i \in 0 .. N /\ i # 0
      OBVIOUS
    <3>2. g[i] = TakeMarker(g[i - 1])
      BY <1>8, <3>1
    <3> HIDE DEF g
    <3> QED BY <1>6, <2>2, <3>2
  <2> HIDE DEF g
  <2> QED BY <2>1, <2>2 DEF StepsBy
<1> HIDE DEF g, Def
<1>11. g[N] \in A /\ F[g[N]] = g[N]
  BY <1>3, <1>6, <1>7, <1>10, LoopIs
<1>12. PICK t : t = TakeBlocks(a)
  OBVIOUS
<1>13. t \in A /\ TakeMarker(t) = t
  BY <1>6, <1>9, <1>11, <1>12
<1>14. PICK d, v, x : x \in Seq(Its) /\ Tells(b, w, Said(x), Done(x), d, v) /\ t = ToolAt(d, v, x)
  BY <1>1, <1>13 DEF ToolReachedStates, ToolReached
<1>15. ToolRested(d, v)
  <2>1. d \in Seq(Position) /\ v \in BOOLEAN
    BY <1>14 DEF Tells
  <2> QED BY <1>13, <1>14, <2>1, ToolRestIs
<1> QED
  BY <1>2, <1>12, <1>14, <1>15

(* feed: what it says and finds, and what it keeps.                        *)
LEMMA ToolFedIs ==
    ASSUME NEW p, p.buffer \in Seq(Position), p.inside \in BOOLEAN, NEW c \in Seq(Position)
    PROVE  \E d, v, x : /\ x \in Seq(Its) /\ Tells(p.buffer \o c, p.inside, Said(x), Done(x), d, v)
                        /\ ToolRested(d, v)
                        /\ ToolFed(p, c) = ToolAt(d, v, x)
<1>1. PICK b \in Seq(Position) : b = p.buffer \o c
  BY JoinedLength
<1>2. PICK d, v, x : /\ x \in Seq(Its) /\ Tells(b, p.inside, Said(x), Done(x), d, v)
                     /\ ToolRested(d, v)
                     /\ TakeBlocks(ToolAt(b, p.inside, << >>)) = ToolAt(d, v, x)
  BY TakeBlocksIs
<1>3. ToolFed(p, c) = TakeBlocks(ToolAt(b, p.inside, << >>))
  BY <1>1 DEF ToolFed, ToolAt
<1> QED
  BY <1>1, <1>2, <1>3

(* close: an unterminated block is tried, and a held beginning dropped.    *)
LEMMA ToolFlushedIs ==
    ASSUME NEW p, p.buffer \in Seq(Position), p.inside \in BOOLEAN, ToolRested(p.buffer, p.inside)
    PROVE  /\ ToolFlushed(p) \in Seq(Its) /\ Said(ToolFlushed(p)) = << >>
           /\ Done(ToolFlushed(p)) = Done(ToolRest(p.buffer, p.inside))
           /\ p.inside => Said(ToolRest(p.buffer, p.inside)) = << >>
           /\ ~p.inside => /\ Said(ToolRest(p.buffer, p.inside)) = p.buffer
                           /\ p.buffer = << >> \/ IsPartialMarker(p.buffer)
<1>1. PICK b \in Seq(Position), w \in BOOLEAN : b = p.buffer /\ w = p.inside
  OBVIOUS
<1>2. ToolRested(b, w)
  BY <1>1
<1>3. CASE w
  <2>1. ToolRest(b, w) = CallIfAny(b)
    BY <1>2, <1>3, InBlockOpen DEF ToolRest, ToolRested
  <2>2. ToolFlushed(p) = CallIfAny(b)
    BY <1>1, <1>3 DEF ToolFlushed
  <2>3. CallIfAny(b) \in Seq(Its)
    BY ItemTypes
  <2>4. Said(CallIfAny(b)) = << >>
    BY SaidBlock
  <2> QED BY <1>1, <1>3, <2>1, <2>2, <2>3, <2>4
<1>4. CASE ~w
  <2>1. b = << >> \/ IsPartialMarker(b)
    BY <1>2, <1>4 DEF ToolRested
  <2>2. None(b, "tool_call")
    <3>1. PICK n \in Nat : n = Len(b)
      OBVIOUS
    <3>2. n = 0 \/ n = 1 \/ n = 2
      BY <2>1, <3>1, EmptySeq DEF IsPartialMarker
    <3>3. ASSUME NEW i \in Nat, MarkAt(b, "tool_call", i) PROVE FALSE
      <4>1. i \in 1 .. n /\ i + 2 \in 1 .. n
        BY <3>1, <3>3 DEF MarkAt, Is
      <4> QED BY <3>2, <4>1
    <3> QED BY <3>3 DEF None, MarkerIs
  <2>3. ToolRest(b, w) = TextItem(b)
    BY <1>4, <2>2, ItemsPlain DEF ToolRest
  <2>4. Said(TextItem(b)) = b /\ Done(TextItem(b)) = << >>
    BY SaidText
  <2>5. ToolFlushed(p) = << >>
    BY <1>1, <1>4 DEF ToolFlushed
  <2>6. << >> \in Seq(Its)
    BY EmptySeq
  <2> QED BY <1>1, <1>4, <2>1, <2>3, <2>4, <2>5, <2>6, SaidNone
<1> QED
  BY <1>3, <1>4
=============================================================================
