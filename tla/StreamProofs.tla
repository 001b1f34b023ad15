------------------------------ MODULE StreamProofs ------------------------------
(***************************************************************************)
(* Proofs about the two streams of the gateway.  The one it reads:         *)
(* QwenExchange and the decoder it is built on, for bodies of any length,  *)
(* cut into chunks in any way.  And, after it, the one it writes:          *)
(* ChatStream, for turns of any length and any set of calls: the frames of *)
(* a body come in order, complete() accepts which of the turns stream()    *)
(* accepts, and where both tell the same message.                          *)
(***************************************************************************)
EXTENDS QwenExchange, ChatStream, InductionLemmas

-----------------------------------------------------------------------------
(* The characters.                                                         *)

Text     == Bytes \union {"bad", "char"}
Pendings == {<< >>, <<"lead">>}

(* What each byte adds to the text, and what is left after the last one.   *)
Incomplete(before, bytes, i) == IF i = 0 THEN before # << >> ELSE bytes[i] = "lead"

Pieces(before, bytes) ==
    [i \in DOMAIN bytes |-> DecodeByte(bytes[i], Incomplete(before, bytes, i - 1))]

LEMMA DecodeIs ==
    ASSUME NEW before, NEW bytes
    PROVE  /\ Decode(before, bytes).text = FlattenSeq(Pieces(before, bytes))
           /\ Decode(before, bytes).pending =
                 IF Incomplete(before, bytes, Len(bytes)) THEN <<"lead">> ELSE << >>
BY DEF Decode, Pieces, Incomplete

LEMMA PiecesType ==
    ASSUME NEW before, NEW bytes \in Seq(Bytes)
    PROVE  /\ Pieces(before, bytes) \in Seq(Seq(Text))
           /\ Len(Pieces(before, bytes)) = Len(bytes)
           /\ \A i \in 1 .. Len(bytes) :
                 Pieces(before, bytes)[i] =
                    DecodeByte(bytes[i], Incomplete(before, bytes, i - 1))
<1> DEFINE n == Len(bytes)
<1>1. n \in Nat /\ DOMAIN bytes = 1 .. n /\ \A i \in 1 .. n : bytes[i] \in Bytes
  BY LenProperties, ElementOfSeq
<1>2. ASSUME NEW byte \in Bytes, NEW b PROVE DecodeByte(byte, b) \in Seq(Text)
  <2>1. {"bad", "char", byte} \subseteq Text
    BY DEF Text
  <2>2. PICK T : T = Text
    OBVIOUS
  <2>3. /\ << >> \in Seq(T) /\ <<"bad">> \in Seq(T) /\ <<"char">> \in Seq(T)
        /\ <<byte>> \in Seq(T) /\ <<"bad", byte>> \in Seq(T)
    BY <2>1, <2>2
  <2> QED BY <2>2, <2>3 DEF DecodeByte
<1>3. \A i \in 1 .. n : DecodeByte(bytes[i], Incomplete(before, bytes, i - 1)) \in Seq(Text)
  BY <1>1, <1>2
<1>4. Pieces(before, bytes) \in [1 .. n -> Seq(Text)]
  BY <1>1, <1>3 DEF Pieces
<1>5. Pieces(before, bytes) \in Seq(Seq(Text))
  BY <1>1, <1>4, SeqDef
<1>6. DOMAIN Pieces(before, bytes) = 1 .. n
  BY <1>4
<1>7. Len(Pieces(before, bytes)) = n
  BY <1>1, <1>5, <1>6, LenProperties
<1> QED
  BY <1>1, <1>5, <1>7 DEF Pieces

LEMMA DecodeType ==
    ASSUME NEW before, NEW bytes \in Seq(Bytes)
    PROVE  /\ Decode(before, bytes).text \in Seq(Text)
           /\ Decode(before, bytes).pending \in Pendings
BY DecodeIs, PiecesType, FlattenType DEF Pendings

LEMMA DecodeNothing ==
    ASSUME NEW before \in Pendings
    PROVE  Decode(before, << >>).text = << >> /\ Decode(before, << >>).pending = before
<1>1. Pieces(before, << >>) = << >> /\ Len(<< >>) = 0
  BY DEF Pieces
<1> QED
  BY <1>1, DecodeIs, FlattenEmpty DEF Incomplete, Pendings

(* The incremental decoder: what it keeps is all it needs.                 *)
LEMMA DecodeConcat ==
    ASSUME NEW before \in Pendings, NEW a \in Seq(Bytes), NEW b \in Seq(Bytes)
    PROVE  LET half == Decode(before, a)
               more == Decode(half.pending, b)
           IN /\ Decode(before, a \o b).text = half.text \o more.text
              /\ Decode(before, a \o b).pending = more.pending
<1> DEFINE c == a \o b
           p == Decode(before, a).pending
           m == Len(a)
           n == Len(b)
<1>1. /\ c \in Seq(Bytes) /\ Len(c) = m + n
      /\ \A i \in 1 .. m + n : c[i] = IF i <= m THEN a[i] ELSE b[i - m]
  BY ConcatProperties
<1>2. m \in Nat /\ n \in Nat
  BY LenProperties
<1>3. p \in Pendings /\ (p # << >> <=> Incomplete(before, a, m))
  BY DecodeIs DEF Pendings
<1> HIDE DEF c, p
<1>4. \A i \in 0 .. m : Incomplete(before, c, i) = Incomplete(before, a, i)
  BY <1>1, <1>2 DEF Incomplete
<1>5. \A i \in 0 .. n : Incomplete(before, c, m + i) = Incomplete(p, b, i)
  <2>1. CASE m = 0
    BY <1>1, <1>2, <1>3, <2>1 DEF Incomplete
  <2>2. CASE m # 0
    <3>1. ASSUME NEW i \in 0 .. n, i # 0 PROVE Incomplete(before, c, m + i) = Incomplete(p, b, i)
      <4>1. m + i \in 1 .. m + n /\ ~(m + i <= m) /\ (m + i) - m = i /\ m + i # 0
        BY <1>2, <3>1
      <4>2. c[m + i] = b[i]
        BY <1>1, <4>1
      <4> QED BY <3>1, <4>1, <4>2 DEF Incomplete
    <3>2. Incomplete(before, c, m + 0) = Incomplete(p, b, 0)
      <4>1. m + 0 = m /\ m \in 0 .. m
        BY <1>2
      <4> QED BY <1>3, <1>4, <4>1 DEF Incomplete
    <3> QED BY <3>1, <3>2
  <2> QED BY <2>1, <2>2
<1>6. Pieces(before, c) = Pieces(before, a) \o Pieces(p, b)
  <2> DEFINE x == Pieces(before, c)
             y == Pieces(before, a)
             z == Pieces(p, b)
  <2>1. /\ x \in Seq(Seq(Text)) /\ y \in Seq(Seq(Text)) /\ z \in Seq(Seq(Text))
        /\ Len(x) = m + n /\ Len(y) = m /\ Len(z) = n
    BY <1>1, PiecesType
  <2>2. /\ y \o z \in Seq(Seq(Text)) /\ Len(y \o z) = m + n
        /\ \A i \in 1 .. m + n : (y \o z)[i] = IF i <= m THEN y[i] ELSE z[i - m]
    <3> HIDE DEF x, y, z, m, n
    <3> QED BY <2>1, ConcatProperties
  <2>3. ASSUME NEW i \in 1 .. m + n PROVE x[i] = (y \o z)[i]
    <3>1. x[i] = DecodeByte(c[i], Incomplete(before, c, i - 1))
      BY <1>1, PiecesType
    <3>2. CASE i <= m
      <4>1. i \in 1 .. m /\ i - 1 \in 0 .. m
        BY <1>2, <3>2
      <4>2. y[i] = DecodeByte(a[i], Incomplete(before, a, i - 1))
        BY <4>1, PiecesType
      <4>3. c[i] = a[i] /\ Incomplete(before, c, i - 1) = Incomplete(before, a, i - 1)
        BY <1>1, <1>4, <3>2, <4>1
      <4> HIDE DEF x, y, z
      <4> QED BY <2>2, <3>1, <3>2, <4>2, <4>3
    <3>3. CASE ~(i <= m)
      <4>1. i - m \in 1 .. n /\ (i - m) - 1 \in 0 .. n /\ m + ((i - m) - 1) = i - 1
        BY <1>2, <3>3
      <4>2. z[i - m] = DecodeByte(b[i - m], Incomplete(p, b, (i - m) - 1))
        BY <4>1, PiecesType
      <4>3. c[i] = b[i - m] /\ Incomplete(before, c, i - 1) = Incomplete(p, b, (i - m) - 1)
        BY <1>1, <1>5, <3>3, <4>1
      <4> HIDE DEF x, y, z
      <4> QED BY <2>2, <3>1, <3>3, <4>2, <4>3
    <3> QED BY <3>2, <3>3
  <2> HIDE DEF x, y, z, m, n
  <2>4. x = y \o z
    BY <2>1, <2>2, <2>3, SeqEqual
  <2> QED BY <2>4 DEF x, y, z
<1>7. Decode(before, c).text = Decode(before, a).text \o Decode(p, b).text
  <2>1. Pieces(before, a) \in Seq(Seq(Text)) /\ Pieces(p, b) \in Seq(Seq(Text))
    BY PiecesType
  <2>2. FlattenSeq(Pieces(before, c)) = FlattenSeq(Pieces(before, a)) \o FlattenSeq(Pieces(p, b))
    BY <1>6, <2>1, FlattenConcat
  <2> QED BY <2>2, DecodeIs
<1>8. Decode(before, c).pending = Decode(p, b).pending
  <2>1. Incomplete(before, c, Len(c)) = Incomplete(p, b, n)
    BY <1>1, <1>2, <1>5
  <2> QED BY <2>1, DecodeIs
<1> QED
  BY <1>7, <1>8 DEF c, p

-----------------------------------------------------------------------------
(* The blank lines of a text.                                              *)

(* The blank line l begins at i, and none begins before.                   *)
First(text, i, l) ==
    /\ i \in DOMAIN text /\ l \in BlankLines
    /\ Occurs(l, text, i)
    /\ \A j \in DOMAIN text, k \in BlankLines : Occurs(k, text, j) => i <= j

CRLFs == <<"CR", "LF", "CR", "LF">>
LFs   == <<"LF", "LF">>
CRs   == <<"CR", "CR">>

LEMMA BlankLinesAre ==
    /\ BlankLines = {CRLFs, LFs, CRs}
    /\ Len(CRLFs) = 4 /\ Len(LFs) = 2 /\ Len(CRs) = 2
BY DEF BlankLines, CRLFs, LFs, CRs

(* A part of a text.                                                       *)
LEMMA PartIs ==
    ASSUME NEW T, NEW text \in Seq(T),
           NEW m \in 1 .. Len(text) + 1, NEW n \in m - 1 .. Len(text)
    PROVE  /\ SubSeq(text, m, n) \in Seq(T) /\ Len(SubSeq(text, m, n)) = n - m + 1
           /\ \A i \in 1 .. n - m + 1 : SubSeq(text, m, n)[i] = text[m + i - 1]
<1>1. m \in Int /\ n \in Int /\ m <= n + 1
  BY LenProperties
<1>2. \A i \in m .. n : text[i] \in T
  <2>1. \A i \in m .. n : i \in 1 .. Len(text)
    BY LenProperties
  <2> QED BY <2>1, ElementOfSeq
<1> QED
  BY <1>1, <1>2, SubSeqProperties

(* c is at i and after i.                                                  *)
Twice(text, i, c) == i + 1 \in DOMAIN text /\ text[i] = c /\ text[i + 1] = c

CutEnds(text, i) ==
    /\ i + 3 \in DOMAIN text
    /\ text[i] = "CR" /\ text[i + 1] = "LF" /\ text[i + 2] = "CR" /\ text[i + 3] = "LF"

LEMMA TwiceOccurs ==
    ASSUME NEW T, NEW text \in Seq(T), NEW i \in DOMAIN text, NEW c
    PROVE  Occurs(<<c, c>>, text, i) <=> Twice(text, i, c)
<1>1. Len(text) \in Nat /\ DOMAIN text = 1 .. Len(text) /\ i \in 1 .. Len(text)
  BY LenProperties
<1>2. Len(<<c, c>>) = 2 /\ i + 2 - 1 = i + 1
  BY <1>1
<1>3. Occurs(<<c, c>>, text, i) <=> i + 1 <= Len(text) /\ SubSeq(text, i, i + 1) = <<c, c>>
  BY <1>2 DEF Occurs
<1>4. CASE i + 1 <= Len(text)
  <2>1. PICK s : s = SubSeq(text, i, i + 1)
    OBVIOUS
  <2>2. i + 1 \in i - 1 .. Len(text) /\ i \in 1 .. Len(text) + 1 /\ (i + 1) - i + 1 = 2
    BY <1>1, <1>4
  <2>3. s \in Seq(T) /\ Len(s) = 2 /\ \A j \in 1 .. 2 : s[j] = text[i + j - 1]
    <3>1. PICK n : n = i + 1
      OBVIOUS
    <3>2. n \in i - 1 .. Len(text) /\ i \in 1 .. Len(text) + 1 /\ n - i + 1 = 2
      BY <2>2, <3>1
    <3>3. /\ SubSeq(text, i, n) \in Seq(T) /\ Len(SubSeq(text, i, n)) = n - i + 1
          /\ \A j \in 1 .. n - i + 1 : SubSeq(text, i, n)[j] = text[i + j - 1]
      BY <3>2, PartIs
    <3> QED BY <2>1, <3>1, <3>2, <3>3
  <2>4. s[1] = text[i] /\ s[2] = text[i + 1]
    BY <1>1, <2>3
  <2>5. s = <<c, c>> <=> s[1] = c /\ s[2] = c
    BY <2>3
  <2>6. Occurs(<<c, c>>, text, i) <=> s = <<c, c>>
    BY <1>3, <1>4, <2>1
  <2>7. Twice(text, i, c) <=> s[1] = c /\ s[2] = c
    BY <1>1, <1>4, <2>4 DEF Twice
  <2> QED BY <2>5, <2>6, <2>7
<1>5. CASE ~(i + 1 <= Len(text))
  BY <1>1, <1>3, <1>5 DEF Twice
<1> QED
  BY <1>4, <1>5

LEMMA OccursIs ==
    ASSUME NEW T, NEW text \in Seq(T)
    PROVE  \A i \in DOMAIN text : /\ Occurs(LFs, text, i) <=> Twice(text, i, "LF")
                                  /\ Occurs(CRs, text, i) <=> Twice(text, i, "CR")
                                  /\ Occurs(CRLFs, text, i) <=> CutEnds(text, i)
<1> SUFFICES ASSUME NEW i \in DOMAIN text
             PROVE  /\ Occurs(LFs, text, i) <=> Twice(text, i, "LF")
                    /\ Occurs(CRs, text, i) <=> Twice(text, i, "CR")
                    /\ Occurs(CRLFs, text, i) <=> CutEnds(text, i)
  OBVIOUS
<1>1. Len(text) \in Nat /\ DOMAIN text = 1 .. Len(text) /\ i \in 1 .. Len(text)
  BY LenProperties
<1>2. Occurs(LFs, text, i) <=> Twice(text, i, "LF")
  BY TwiceOccurs DEF LFs
<1>3. Occurs(CRs, text, i) <=> Twice(text, i, "CR")
  BY TwiceOccurs DEF CRs
<1>4. Occurs(CRLFs, text, i) <=> i + 3 <= Len(text) /\ SubSeq(text, i, i + 3) = CRLFs
  <2>1. i + 4 - 1 = i + 3
    BY <1>1
  <2> QED BY <2>1, BlankLinesAre DEF Occurs
<1>5. CASE i + 3 <= Len(text)
  <2>1. PICK s : s = SubSeq(text, i, i + 3)
    OBVIOUS
  <2>2. i + 3 \in i - 1 .. Len(text) /\ i \in 1 .. Len(text) + 1 /\ (i + 3) - i + 1 = 4
    BY <1>1, <1>5
  <2>3. s \in Seq(T) /\ Len(s) = 4 /\ \A j \in 1 .. 4 : s[j] = text[i + j - 1]
    <3>1. PICK n : n = i + 3
      OBVIOUS
    <3>2. n \in i - 1 .. Len(text) /\ i \in 1 .. Len(text) + 1 /\ n - i + 1 = 4
      BY <2>2, <3>1
    <3>3. /\ SubSeq(text, i, n) \in Seq(T) /\ Len(SubSeq(text, i, n)) = n - i + 1
          /\ \A j \in 1 .. n - i + 1 : SubSeq(text, i, n)[j] = text[i + j - 1]
      BY <1>1, <3>2, PartIs
    <3> QED BY <2>1, <3>1, <3>2, <3>3
  <2>4. s[1] = text[i] /\ s[2] = text[i + 1] /\ s[3] = text[i + 2] /\ s[4] = text[i + 3]
    BY <1>1, <2>3
  <2>5. s = CRLFs <=> s[1] = "CR" /\ s[2] = "LF" /\ s[3] = "CR" /\ s[4] = "LF"
    BY <2>3 DEF CRLFs
  <2>6. Occurs(CRLFs, text, i) <=> s = CRLFs
    BY <1>4, <1>5, <2>1
  <2>7. CutEnds(text, i) <=> s[1] = "CR" /\ s[2] = "LF" /\ s[3] = "CR" /\ s[4] = "LF"
    BY <1>1, <1>5, <2>4 DEF CutEnds
  <2> QED BY <1>2, <1>3, <2>5, <2>6, <2>7
<1>6. CASE ~(i + 3 <= Len(text))
  BY <1>1, <1>2, <1>3, <1>4, <1>6 DEF CutEnds
<1> QED
  BY <1>5, <1>6

(* A text has one first blank line at most.                                *)
LEMMA FirstUnique ==
    ASSUME NEW T, NEW text \in Seq(T), NEW i, NEW l, NEW j, NEW k,
           First(text, i, l), First(text, j, k)
    PROVE  i = j /\ l = k
<1>1. i \in DOMAIN text /\ DOMAIN text \subseteq Nat /\ j \in DOMAIN text
  BY LenProperties DEF First
<1>2. i <= j /\ j <= i
  BY DEF First
<1>3. i = j
  BY <1>1, <1>2
<1>4. l \in BlankLines /\ k \in BlankLines /\ Occurs(l, text, i) /\ Occurs(k, text, i)
  BY <1>3 DEF First
<1>5. /\ Occurs(LFs, text, i) => text[i] = "LF"
      /\ Occurs(CRs, text, i) => text[i] = "CR" /\ text[i + 1] = "CR"
      /\ Occurs(CRLFs, text, i) => text[i] = "CR" /\ text[i + 1] = "LF"
  BY <1>1, OccursIs DEF Twice, CutEnds
<1>6. l = k
  BY <1>4, <1>5, BlankLinesAre
<1> QED
  BY <1>3, <1>6

(* A text with a blank line somewhere has a first one.                     *)
LEMMA FirstExists ==
    ASSUME NEW T, NEW text \in Seq(T), NEW j \in DOMAIN text, NEW k \in BlankLines,
           Occurs(k, text, j)
    PROVE  \E i, l : First(text, i, l)
<1> DEFINE X == {n \in DOMAIN text : \E l \in BlankLines : Occurs(l, text, n)}
<1>1. X \in SUBSET Nat /\ X # {}
  BY LenProperties
<1>2. \E m \in X : \A n \in X : m <= n
  <2> HIDE DEF X
  <2> QED BY <1>1, LeastNatural
<1>3. PICK m \in X : \A n \in X : m <= n
  BY <1>2
<1>4. PICK l \in BlankLines : Occurs(l, text, m)
  BY <1>3
<1>5. First(text, m, l)
  BY <1>3, <1>4 DEF First
<1> QED
  BY <1>5

LEMMA BoundaryIs ==
    ASSUME NEW T, NEW text \in Seq(T), NEW i, NEW l, First(text, i, l)
    PROVE  FindBoundary(text) = {[index |-> i, line |-> l]}
<1> DEFINE r == [index |-> i, line |-> l]
<1>1. r \in FindBoundary(text)
  BY DEF First, FindBoundary
<1>2. ASSUME NEW x \in FindBoundary(text) PROVE x = r
  <2>1. /\ x \in [index : DOMAIN text, line : BlankLines]
        /\ Occurs(x.line, text, x.index)
        /\ \A y \in [index : DOMAIN text, line : BlankLines] :
              Occurs(y.line, text, y.index) => x.index <= y.index
    BY <1>2 DEF FindBoundary
  <2>2. \A j \in DOMAIN text, k \in BlankLines : Occurs(k, text, j) => x.index <= j
    <3> SUFFICES ASSUME NEW j \in DOMAIN text, NEW k \in BlankLines, Occurs(k, text, j)
                 PROVE  x.index <= j
      OBVIOUS
    <3>1. [index |-> j, line |-> k] \in [index : DOMAIN text, line : BlankLines]
      OBVIOUS
    <3> QED BY <2>1, <3>1
  <2>3. First(text, x.index, x.line)
    BY <2>1, <2>2 DEF First
  <2>4. x.index = i /\ x.line = l
    BY <2>3, FirstUnique
  <2> QED BY <2>1, <2>4
<1> QED
  BY <1>1, <1>2

LEMMA NoBoundary ==
    ASSUME NEW T, NEW text \in Seq(T), ~\E i, l : First(text, i, l)
    PROVE  FindBoundary(text) = {}
BY FirstExists DEF FindBoundary

(* Where the first blank line lies.                                        *)
LEMMA FirstLies ==
    ASSUME NEW T, NEW text \in Seq(T), NEW i, NEW l, First(text, i, l)
    PROVE  /\ i \in 1 .. Len(text) /\ Len(l) \in {2, 4}
           /\ i + Len(l) <= Len(text) + 1
<1>1. DOMAIN text = 1 .. Len(text) /\ Len(text) \in Nat
  BY LenProperties
<1>2. Len(l) \in {2, 4}
  BY BlankLinesAre DEF First
<1>3. i + Len(l) - 1 <= Len(text)
  BY DEF First, Occurs
<1> QED
  BY <1>1, <1>2, <1>3 DEF First

(* It stays the first one, whatever text follows: a longer blank line that *)
(* the text cuts holds no shorter one.                                     *)
LEMMA FirstStays ==
    ASSUME NEW T, NEW a \in Seq(T), NEW b \in Seq(T), NEW i, NEW l, First(a, i, l)
    PROVE  First(a \o b, i, l)
<1> DEFINE c == a \o b
<1>1. /\ c \in Seq(T) /\ Len(c) = Len(a) + Len(b)
      /\ \A j \in 1 .. Len(a) + Len(b) : c[j] = IF j <= Len(a) THEN a[j] ELSE b[j - Len(a)]
      /\ Len(a) \in Nat /\ Len(b) \in Nat
  BY ConcatProperties, LenProperties
<1> HIDE DEF c
<1>2. /\ DOMAIN a = 1 .. Len(a) /\ DOMAIN c = 1 .. Len(c) /\ DOMAIN a \subseteq DOMAIN c
      /\ \A j \in DOMAIN a : c[j] = a[j]
  BY <1>1, LenProperties
<1>3. /\ i \in DOMAIN a /\ l \in BlankLines /\ Occurs(l, a, i)
      /\ \A j \in DOMAIN a, k \in BlankLines : Occurs(k, a, j) => i <= j
  BY DEF First
<1>4. Occurs(l, c, i) /\ i + 1 \in DOMAIN a /\ ~(a[i] = "LF" /\ a[i + 1] = "CR")
  <2>1. /\ Twice(a, i, "LF") => Twice(c, i, "LF") /\ i + 1 \in DOMAIN a
        /\ Twice(a, i, "CR") => Twice(c, i, "CR") /\ i + 1 \in DOMAIN a
    BY <1>2, <1>3 DEF Twice
  <2>2. CutEnds(a, i) => CutEnds(c, i) /\ i + 1 \in DOMAIN a
    <3> SUFFICES ASSUME CutEnds(a, i) PROVE CutEnds(c, i) /\ i + 1 \in DOMAIN a
      OBVIOUS
    <3>1. i + 1 \in DOMAIN a /\ i + 2 \in DOMAIN a /\ i + 3 \in DOMAIN a
      BY <1>1, <1>2, <1>3 DEF CutEnds
    <3> QED BY <1>2, <1>3, <3>1 DEF CutEnds
  <2>3. /\ Twice(a, i, "LF") => a[i + 1] = "LF"
        /\ Twice(a, i, "CR") => a[i] = "CR"
        /\ CutEnds(a, i) => a[i] = "CR"
    BY DEF Twice, CutEnds
  <2>4. l \in {CRLFs, LFs, CRs}
    BY <1>3, BlankLinesAre
  <2>5. /\ l = LFs => Twice(a, i, "LF")
        /\ l = CRs => Twice(a, i, "CR")
        /\ l = CRLFs => CutEnds(a, i)
    BY <1>3, OccursIs
  <2>6. /\ Twice(c, i, "LF") => Occurs(LFs, c, i)
        /\ Twice(c, i, "CR") => Occurs(CRs, c, i)
        /\ CutEnds(c, i) => Occurs(CRLFs, c, i)
    BY <1>1, <1>2, <1>3, OccursIs
  <2> QED BY <2>1, <2>2, <2>3, <2>4, <2>5, <2>6
<1>5. ASSUME NEW j \in DOMAIN c, NEW k \in BlankLines, Occurs(k, c, j), j < i
      PROVE  FALSE
  <2>1. j \in DOMAIN a /\ j + 1 \in DOMAIN a /\ j + 2 \in DOMAIN a
    BY <1>1, <1>2, <1>3, <1>4, <1>5
  <2>2. ~Occurs(k, a, j)
    BY <1>1, <1>2, <1>3, <1>5, <2>1
  <2>3. k \in {CRLFs, LFs, CRs}
    BY BlankLinesAre
  <2>4. /\ Twice(c, j, "LF") => Twice(a, j, "LF")
        /\ Twice(c, j, "CR") => Twice(a, j, "CR")
    BY <1>2, <2>1 DEF Twice
  <2>5. /\ k = LFs => Twice(c, j, "LF") /\ ~Twice(a, j, "LF")
        /\ k = CRs => Twice(c, j, "CR") /\ ~Twice(a, j, "CR")
        /\ k = CRLFs => CutEnds(c, j) /\ ~CutEnds(a, j)
    <3>1. /\ Occurs(LFs, c, j) <=> Twice(c, j, "LF")
          /\ Occurs(CRs, c, j) <=> Twice(c, j, "CR")
          /\ Occurs(CRLFs, c, j) <=> CutEnds(c, j)
      BY <1>1, OccursIs
    <3>2. /\ Occurs(LFs, a, j) <=> Twice(a, j, "LF")
          /\ Occurs(CRs, a, j) <=> Twice(a, j, "CR")
          /\ Occurs(CRLFs, a, j) <=> CutEnds(a, j)
      BY <2>1, OccursIs
    <3> QED BY <1>5, <2>2, <3>1, <3>2
  <2>6. CutEnds(c, j) /\ ~CutEnds(a, j)
    BY <2>3, <2>4, <2>5
  <2>7. j + 3 \notin DOMAIN a
    BY <1>2, <2>1, <2>6 DEF CutEnds
  <2>8. i = j + 1
    <3>1. DOMAIN a = 1 .. Len(a) /\ Len(a) \in Nat /\ i \in Nat /\ j \in Nat
      BY <1>1, <1>2, <1>3, <2>1
    <3>2. j + 1 \in 1 .. Len(a) /\ j + 3 \notin 1 .. Len(a) /\ i + 1 \in 1 .. Len(a)
      BY <1>4, <2>1, <2>7, <3>1
    <3> QED BY <1>5, <3>1, <3>2
  <2>9. (j + 1) + 1 = j + 2
    BY <1>1, <1>2
  <2>10. a[i] = "LF" /\ a[i + 1] = "CR"
    BY <1>2, <2>1, <2>6, <2>8, <2>9 DEF CutEnds
  <2> QED BY <1>4, <2>10
<1>6. \A j \in DOMAIN c, k \in BlankLines : Occurs(k, c, j) => i <= j
  <2>1. \A j \in DOMAIN c : j \in Nat /\ i \in Nat
    BY <1>1, <1>2, <1>3
  <2> QED BY <1>5, <2>1
<1>7. First(c, i, l)
  BY <1>2, <1>3, <1>4, <1>6 DEF First
<1> QED
  BY <1>7 DEF c

-----------------------------------------------------------------------------
(* The lines of a text, and their frame.                                   *)

ReadStates == [lines : Seq(Seq(Text)), line : Seq(Text)]

LEMMA LinesOfType ==
    ASSUME NEW r \in ReadStates
    PROVE  LinesOf(r) \in Seq(Seq(Text))
<1>1. r.lines \in Seq(Seq(Text)) /\ r.line \in Seq(Text)
  BY DEF ReadStates
<1> QED
  BY <1>1, AppendProperties DEF LinesOf

LEMMA UnreadIs ==
    /\ Unread \in ReadStates /\ LinesOf(Unread) = << >>
    /\ Unread.lines = << >> /\ Unread.line = << >>
BY EmptySeq DEF Unread, ReadStates, LinesOf

(* What a character adds.                                                  *)
LEMMA ReadOnIs ==
    ASSUME NEW r, NEW text, NEW i
    PROVE  /\ EndsLine(text, i) =>
                 ReadOn(r, text, i) = [lines |-> LinesOf(r), line |-> << >>]
           /\ text[i] \notin Ends =>
                 ReadOn(r, text, i) = [lines |-> r.lines, line |-> Append(r.line, text[i])]
           /\ ~EndsLine(text, i) /\ text[i] \in Ends => ReadOn(r, text, i) = r
           /\ EndsLine(text, i) => text[i] \in Ends
<1>1. EndsLine(text, i) => text[i] \in Ends
  BY DEF EndsLine
<1> QED
  BY <1>1 DEF ReadOn

LEMMA ReadOnType ==
    ASSUME NEW text \in Seq(Text), NEW i \in 1 .. Len(text), NEW r \in ReadStates
    PROVE  ReadOn(r, text, i) \in ReadStates
<1>1. r.lines \in Seq(Seq(Text)) /\ r.line \in Seq(Text) /\ text[i] \in Text
  BY ElementOfSeq DEF ReadStates
<1>2. LinesOf(r) \in Seq(Seq(Text)) /\ << >> \in Seq(Text)
  BY LinesOfType, EmptySeq
<1>3. Append(r.line, text[i]) \in Seq(Text)
  BY <1>1, AppendProperties
<1>4. [lines |-> LinesOf(r), line |-> << >>] \in ReadStates
  BY <1>2 DEF ReadStates
<1>5. [lines |-> r.lines, line |-> Append(r.line, text[i])] \in ReadStates
  BY <1>1, <1>3 DEF ReadStates
<1> QED
  BY <1>4, <1>5, ReadOnIs

(* f[n] is what the first n characters of a text are read as.              *)
ReadSo(N, f, text) ==
    /\ f[0] = Unread
    /\ \A n \in 1 .. N : f[n] = ReadOn(f[n - 1], text, n)

LEMMA LinesAre ==
    ASSUME NEW text \in Seq(Text), NEW N, N = Len(text)
    PROVE  /\ N \in Nat
           /\ \E g \in [0 .. N -> ReadStates] : ReadSo(N, g, text) /\ Lines(text) = LinesOf(g[N])
<1>1. N \in Nat
  BY LenProperties
<1> DEFINE F == [x \in (1 .. N) \X ReadStates |-> ReadOn(x[2], text, x[1])]
<1>2. F \in [(1 .. N) \X ReadStates -> ReadStates]
  BY ReadOnType
<1>3. \A n \in 1 .. N, r \in ReadStates : F[<<n, r>>] = ReadOn(r, text, n)
  OBVIOUS
<1> HIDE DEF F
<1>4. PICK f \in [0 .. N -> ReadStates] : Recurs(N, f, Unread, F)
  <2>1. Unread \in ReadStates
    BY UnreadIs
  <2> QED BY <1>1, <1>2, <2>1, RecursionExists
<1>5. ReadSo(N, f, text)
  <2>1. \A n \in 1 .. N : n - 1 \in 0 .. N
    BY <1>1
  <2> QED BY <1>3, <1>4, <2>1 DEF Recurs, ReadSo
<1> DEFINE Def(r) == r = [n \in 0 .. N |->
                            IF n = 0 THEN Unread ELSE ReadOn(r[n - 1], text, n)]
           g == CHOOSE r : Def(r)
<1>6. Def(f)
  <2>1. ASSUME NEW n \in 0 .. N
        PROVE  f[n] = IF n = 0 THEN Unread ELSE ReadOn(f[n - 1], text, n)
    <3>1. n # 0 => n \in 1 .. N
      BY <1>1
    <3> QED BY <1>5, <3>1 DEF ReadSo
  <2> QED BY <1>4, <2>1
<1>7. Def(g)
  BY <1>6
<1>8. Lines(text) = LinesOf(g[N])
  BY DEF Lines
<1>9. ReadSo(N, g, text)
  <2>1. g[0] = Unread
    <3>1. 0 \in 0 .. N
      BY <1>1
    <3> QED BY <1>7, <3>1
  <2>2. ASSUME NEW n \in 1 .. N PROVE g[n] = ReadOn(g[n - 1], text, n)
    <3>1. n \in 0 .. N /\ n # 0
      BY <1>1
    <3> QED BY <1>7, <3>1
  <2> HIDE DEF g
  <2> QED BY <2>1, <2>2 DEF ReadSo
<1> HIDE DEF g
<1>10. Alike(N, g, f)
  BY <1>5, <1>9 DEF ReadSo, Alike
<1>11. g[N] = f[N]
  BY <1>1, <1>10, AlikeAtTheEnd
<1> QED
  BY <1>1, <1>5, <1>8, <1>11

Frames == {FrameOf(ls)[1] : ls \in Seq(Seq(Text))}

LEMMA FrameType ==
    ASSUME NEW ls \in Seq(Seq(Text))
    PROVE  FrameOf(ls) \in Seq(Frames)
<1>1. FrameOf(ls) = << >> \/ \E x : FrameOf(ls) = <<x>>
  <2> DEFINE Has(name) == \E i \in DOMAIN ls : IsField(ls[i], name)
             Field == Has("data") \/ Has("event")
             a == [event |-> Has("event"),
                   data  |-> [i \in DOMAIN Data(ls) |-> Tail(Data(ls)[i])]]
             b == [event |-> FALSE, data |-> ls]
  <2>1. FrameOf(ls) = CASE Field -> <<a>>
                        [] ls \in {<< <<"json">> >>, << <<"odd">> >>} -> <<b>>
                        [] OTHER -> << >>
    BY DEF FrameOf
  <2> HIDE DEF Field, a, b
  <2> QED BY <2>1
<1>2. CASE FrameOf(ls) = << >>
  BY <1>2, EmptySeq
<1>3. CASE \E x : FrameOf(ls) = <<x>>
  <2>1. PICK x : FrameOf(ls) = <<x>>
    BY <1>3
  <2>2. FrameOf(ls)[1] = x
    BY <2>1
  <2>3. x \in Frames
    BY <2>2 DEF Frames
  <2> QED BY <2>1, <2>3
<1> QED
  BY <1>1, <1>2, <1>3

LEMMA NoFrame == FrameOf(<< >>) = << >>
<1>1. PICK ls : ls = << >>
  OBVIOUS
<1>2. DOMAIN ls = {} /\ ls \notin {<< <<"json">> >>, << <<"odd">> >>}
  BY <1>1
<1> QED
  BY <1>1, <1>2 DEF FrameOf

LEMMA ParseType ==
    ASSUME NEW raw \in Seq(Text)
    PROVE  ParseFrame(raw) \in Seq(Frames)
<1>1. PICK N : N = Len(raw)
  OBVIOUS
<1>2. PICK g \in [0 .. N -> ReadStates] : Lines(raw) = LinesOf(g[N])
  BY <1>1, LinesAre
<1>3. N \in 0 .. N
  BY <1>1, LinesAre
<1>4. Lines(raw) \in Seq(Seq(Text))
  BY <1>2, <1>3, LinesOfType
<1> QED
  BY <1>4, FrameType DEF ParseFrame

-----------------------------------------------------------------------------
(* The loop.                                                               *)

States == [frames : Seq(Frames), rest : Seq(Text)]

(* No blank line is left.                                                  *)
Ended(text) == ~\E i, l : First(text, i, l)

(* The text before the first blank line, and the text after it.            *)
Before(text, i) == SubSeq(text, 1, i - 1)
After(text, i, l) == SubSeq(text, i + Len(l), Len(text))

LEMMA PartsType ==
    ASSUME NEW text \in Seq(Text), NEW i, NEW l, First(text, i, l)
    PROVE  /\ Before(text, i) \in Seq(Text)
           /\ After(text, i, l) \in Seq(Text)
           /\ Len(After(text, i, l)) = Len(text) + 1 - (i + Len(l))
           /\ Len(After(text, i, l)) \in Nat /\ Len(text) \in Nat
           /\ Len(After(text, i, l)) + 2 <= Len(text)
<1>1. /\ i \in 1 .. Len(text) /\ Len(l) \in {2, 4} /\ i + Len(l) <= Len(text) + 1
      /\ Len(text) \in Nat
  BY FirstLies, LenProperties
<1>2. \A j \in 1 .. Len(text) : text[j] \in Text
  BY ElementOfSeq
<1>3. Before(text, i) \in Seq(Text)
  <2>1. 1 \in Int /\ i - 1 \in Int /\ \A j \in 1 .. i - 1 : text[j] \in Text
    BY <1>1, <1>2
  <2> QED BY <2>1, SubSeqProperties DEF Before
<1>4. After(text, i, l) \in Seq(Text) /\ Len(After(text, i, l)) = Len(text) + 1 - (i + Len(l))
  <2>1. PICK m, n : m = i + Len(l) /\ n = Len(text)
    OBVIOUS
  <2>2. /\ m \in Int /\ n \in Int /\ m <= n + 1
        /\ \A j \in m .. n : text[j] \in Text
    BY <1>1, <1>2, <2>1
  <2>3. /\ SubSeq(text, m, n) \in Seq(Text)
        /\ Len(SubSeq(text, m, n)) = IF m <= n THEN n - m + 1 ELSE 0
    BY <2>2, SubSeqProperties
  <2>4. Len(SubSeq(text, m, n)) = n + 1 - m
    BY <2>2, <2>3
  <2> QED BY <2>1, <2>3, <2>4 DEF After
<1>5. PICK r, n, k : r = Len(After(text, i, l)) /\ n = Len(text) /\ k = Len(l)
  OBVIOUS
<1>6. r = n + 1 - (i + k) /\ n \in Nat /\ i \in 1 .. n /\ k \in {2, 4} /\ i + k <= n + 1
  BY <1>1, <1>4, <1>5
<1>7. r \in Nat /\ r + 2 <= n
  BY <1>6
<1> QED
  BY <1>1, <1>3, <1>4, <1>5, <1>7

LEMMA CutIs ==
    ASSUME NEW st, st.rest \in Seq(Text), NEW i, NEW l, First(st.rest, i, l)
    PROVE  Cut(st) = [frames |-> st.frames \o ParseFrame(Before(st.rest, i)),
                      rest   |-> After(st.rest, i, l)]
<1> DEFINE r == [index |-> i, line |-> l]
<1>1. FindBoundary(st.rest) = {r}
  BY BoundaryIs
<1>2. (CHOOSE y \in FindBoundary(st.rest) : TRUE) = r
  BY <1>1
<1>3. FindBoundary(st.rest) # {}
  BY <1>1
<1>4. r.index = i /\ r.line = l
  OBVIOUS
<1>5. PICK x : x = CHOOSE y \in FindBoundary(st.rest) : TRUE
  OBVIOUS
<1>6. x.index = i /\ x.line = l
  BY <1>2, <1>4, <1>5
<1>7. Cut(st) = [frames |-> st.frames \o ParseFrame(SubSeq(st.rest, 1, x.index - 1)),
                 rest   |-> SubSeq(st.rest, x.index + Len(x.line), Len(st.rest))]
  <2> HIDE DEF r
  <2> QED BY <1>3, <1>5, Zenon DEF Cut
<1> QED
  BY <1>6, <1>7 DEF Before, After

LEMMA CutEnded ==
    ASSUME NEW st, st.rest \in Seq(Text), Ended(st.rest)
    PROVE  Cut(st) = st
BY NoBoundary DEF Cut, Ended

LEMMA CutType ==
    ASSUME NEW st \in States
    PROVE  Cut(st) \in States
<1>0. st.rest \in Seq(Text) /\ st.frames \in Seq(Frames)
  BY DEF States
<1>1. CASE Ended(st.rest)
  BY <1>0, <1>1, CutEnded
<1>2. CASE ~Ended(st.rest)
  <2>1. PICK i, l : First(st.rest, i, l)
    BY <1>2 DEF Ended
  <2>2. /\ Cut(st) = [frames |-> st.frames \o ParseFrame(Before(st.rest, i)),
                      rest   |-> After(st.rest, i, l)]
        /\ Before(st.rest, i) \in Seq(Text) /\ After(st.rest, i, l) \in Seq(Text)
    BY <1>0, <2>1, CutIs, PartsType
  <2>3. ParseFrame(Before(st.rest, i)) \in Seq(Frames)
    BY <2>2, ParseType
  <2>4. st.frames \o ParseFrame(Before(st.rest, i)) \in Seq(Frames)
    BY <1>0, <2>3, ConcatProperties
  <2> QED BY <2>2, <2>4 DEF States
<1> QED
  BY <1>1, <1>2

(* f[n] is what n rounds make of a text.                                   *)
Rounds(N, f, text) ==
    /\ f[0] = [frames |-> << >>, rest |-> text]
    /\ \A n \in 1 .. N : f[n] = Cut(f[n - 1])

LEMMA RoundsExist ==
    ASSUME NEW N \in Nat, NEW text \in Seq(Text)
    PROVE  \E f : f \in [0 .. N -> States] /\ Rounds(N, f, text)
<1> DEFINE F == [x \in (1 .. N) \X States |-> Cut(x[2])]
           a == [frames |-> << >>, rest |-> text]
<1>1. F \in [(1 .. N) \X States -> States]
  BY CutType
<1>2. a \in States
  BY EmptySeq DEF States
<1>3. \A n \in 1 .. N, st \in States : F[<<n, st>>] = Cut(st)
  OBVIOUS
<1> HIDE DEF F, a
<1>4. \E f \in [0 .. N -> States] : Recurs(N, f, a, F)
  BY <1>1, <1>2, RecursionExists
<1>5. PICK f : f \in [0 .. N -> States] /\ Recurs(N, f, a, F)
  BY <1>4
<1>6. \A n \in 1 .. N : n - 1 \in 0 .. N
  OBVIOUS
<1>7. \A n \in 1 .. N : f[n] = Cut(f[n - 1])
  BY <1>3, <1>5, <1>6 DEF Recurs
<1>8. Rounds(N, f, text)
  BY <1>5, <1>7 DEF Rounds, Recurs, a
<1> QED
  BY <1>5, <1>8

LEMMA RoundsUnique ==
    ASSUME NEW N \in Nat, NEW text, NEW f, NEW g, Rounds(N, f, text), Rounds(N, g, text)
    PROVE  f[N] = g[N]
<1>1. Alike(N, f, g)
  BY DEF Rounds, Alike
<1> QED
  BY <1>1, AlikeAtTheEnd

LEMMA Halves ==
    ASSUME NEW n \in Nat
    PROVE  n \div 2 \in Nat /\ 2 * (n \div 2) <= n /\ n <= 2 * (n \div 2) + 1
OBVIOUS

LEMMA DrainIs ==
    ASSUME NEW text \in Seq(Text), NEW f, Rounds(Len(text) \div 2, f, text)
    PROVE  Drain(text) = f[Len(text) \div 2]
<1>1. PICK N : N = Len(text) \div 2
  OBVIOUS
<1>2. N \in Nat
  BY <1>1, Halves, LenProperties
<1> DEFINE Start == [frames |-> << >>, rest |-> text]
           Def(r) == r = [n \in 0 .. N |-> IF n = 0 THEN Start ELSE Cut(r[n - 1])]
           h == [n \in 0 .. N |-> f[n]]
           g == CHOOSE r : Def(r)
<1>3. f[0] = Start /\ \A n \in 1 .. N : f[n] = Cut(f[n - 1])
  BY <1>1 DEF Rounds
<1>4. Def(h)
  <2>1. ASSUME NEW n \in 0 .. N PROVE h[n] = IF n = 0 THEN Start ELSE Cut(h[n - 1])
    <3>1. CASE n = 0
      BY <1>3, <3>1
    <3>2. CASE n # 0
      <4>1. n \in 1 .. N /\ n - 1 \in 0 .. N
        BY <1>2, <3>2
      <4>2. h[n] = f[n] /\ h[n - 1] = f[n - 1]
        BY <4>1
      <4> QED BY <1>3, <3>2, <4>1, <4>2
    <3> QED BY <3>1, <3>2
  <2> QED BY <2>1
<1>5. Def(g)
  BY <1>4
<1>6. Drain(text) = g[N]
  BY <1>1 DEF Drain
<1>7. Rounds(N, g, text)
  <2>1. g[0] = Start
    <3>1. 0 \in 0 .. N
      BY <1>2
    <3> QED BY <1>5, <3>1
  <2>2. ASSUME NEW n \in 1 .. N PROVE g[n] = Cut(g[n - 1])
    <3>1. n \in 0 .. N /\ n # 0
      BY <1>2
    <3> QED BY <1>5, <3>1
  <2> HIDE DEF g
  <2> QED BY <2>1, <2>2 DEF Rounds
<1> HIDE DEF g
<1>8. g[N] = f[N]
  BY <1>1, <1>2, <1>7, RoundsUnique
<1> QED
  BY <1>1, <1>6, <1>8

(* Each round that finds a blank line takes two characters or more.        *)
LEMMA RoundsShorten ==
    ASSUME NEW N \in Nat, NEW text \in Seq(Text), NEW f, f \in [0 .. N -> States],
           Rounds(N, f, text)
    PROVE  /\ Ended(f[N].rest) \/ Len(f[N].rest) + 2 * N <= Len(text)
           /\ f[N] \in States
<1> DEFINE X == {n \in Nat : n <= N => \/ Ended(f[n].rest)
                                       \/ Len(f[n].rest) + 2 * n <= Len(text)}
<1>0. /\ f[0] = [frames |-> << >>, rest |-> text]
      /\ \A n \in 1 .. N : f[n] = Cut(f[n - 1])
      /\ \A n \in 0 .. N : f[n] \in States /\ f[n].rest \in Seq(Text)
  BY DEF Rounds, States
<1>1. X \in SUBSET Nat /\ 0 \in X
  <2>1. f[0].rest = text /\ Len(text) \in Nat
    BY <1>0, LenProperties
  <2>2. Len(f[0].rest) + 2 * 0 <= Len(text)
    BY <2>1
  <2> QED BY <2>2
<1>2. ASSUME NEW n \in X PROVE n + 1 \in X
  <2> SUFFICES ASSUME n + 1 <= N
               PROVE  \/ Ended(f[n + 1].rest)
                      \/ Len(f[n + 1].rest) + 2 * (n + 1) <= Len(text)
    OBVIOUS
  <2>1. n \in 0 .. N /\ n + 1 \in 1 .. N /\ (n + 1) - 1 = n /\ n <= N
    OBVIOUS
  <2>2. PICK st : st = f[n]
    OBVIOUS
  <2>3. st \in States /\ st.rest \in Seq(Text) /\ f[n + 1] = Cut(st)
    BY <1>0, <2>1, <2>2
  <2>4. CASE Ended(st.rest)
    BY <2>3, <2>4, CutEnded
  <2>5. CASE ~Ended(st.rest)
    <3>1. PICK i, l : First(st.rest, i, l)
      BY <2>5 DEF Ended
    <3>2. f[n + 1].rest = After(st.rest, i, l)
      <4>1. Cut(st) = [frames |-> st.frames \o ParseFrame(Before(st.rest, i)),
                       rest   |-> After(st.rest, i, l)]
        BY <2>3, <3>1, CutIs
      <4>2. Cut(st).rest = After(st.rest, i, l)
        BY <4>1
      <4> QED BY <2>3, <4>2
    <3>3. PICK a, b, c : a = Len(After(st.rest, i, l)) /\ b = Len(st.rest) /\ c = Len(text)
      OBVIOUS
    <3>4. a \in Nat /\ b \in Nat /\ a + 2 <= b
      BY <2>3, <3>1, <3>3, PartsType
    <3>5. b + 2 * n <= c
      BY <2>1, <2>2, <2>5, <3>3
    <3>6. c \in Nat
      BY <3>3, LenProperties
    <3>7. a + 2 * (n + 1) <= c
      BY <3>4, <3>5, <3>6
    <3> QED BY <3>2, <3>3, <3>7
  <2> QED BY <2>4, <2>5
<1>3. X = Nat
  <2> HIDE DEF X
  <2> QED BY <1>1, <1>2, SetInduction
<1>4. N \in X
  <2> HIDE DEF X
  <2> QED BY <1>3
<1>5. N <= N /\ N \in 0 .. N
  OBVIOUS
<1>6. Ended(f[N].rest) \/ Len(f[N].rest) + 2 * N <= Len(text)
  BY <1>4, <1>5
<1> QED
  BY <1>0, <1>5, <1>6

LEMMA ShortEnds ==
    ASSUME NEW text \in Seq(Text), Len(text) <= 1
    PROVE  Ended(text)
<1> SUFFICES ASSUME NEW i, NEW l, First(text, i, l) PROVE FALSE
  BY DEF Ended
<1>1. /\ Len(After(text, i, l)) \in Nat /\ Len(text) \in Nat
      /\ Len(After(text, i, l)) + 2 <= Len(text)
  BY PartsType
<1> QED
  BY <1>1

(* The loop has ended when it has gone as often as half the characters.    *)
LEMMA RoundsEnd ==
    ASSUME NEW text \in Seq(Text), NEW N, N = Len(text) \div 2,
           NEW f, f \in [0 .. N -> States], Rounds(N, f, text)
    PROVE  Ended(f[N].rest) /\ f[N] \in States
<1>1. N \in Nat /\ Len(text) \in Nat /\ Len(text) <= 2 * N + 1
  BY Halves, LenProperties
<1>2. f[N] \in States /\ (Ended(f[N].rest) \/ Len(f[N].rest) + 2 * N <= Len(text))
  BY <1>1, RoundsShorten
<1>3. f[N].rest \in Seq(Text)
  BY <1>2 DEF States
<1>4. CASE Len(f[N].rest) + 2 * N <= Len(text)
  <2>1. PICK k, n : k = Len(f[N].rest) /\ n = Len(text)
    OBVIOUS
  <2>2. k \in Nat /\ n \in Nat /\ n <= 2 * N + 1 /\ k + 2 * N <= n
    BY <1>1, <1>3, <1>4, <2>1, LenProperties
  <2>3. k <= 1
    BY <1>1, <2>2
  <2> QED BY <1>2, <1>3, <2>1, <2>3, ShortEnds
<1> QED
  BY <1>2, <1>4

LEMMA DrainType ==
    ASSUME NEW text \in Seq(Text)
    PROVE  Drain(text) \in States /\ Ended(Drain(text).rest)
<1>1. PICK N : N = Len(text) \div 2
  OBVIOUS
<1>2. N \in Nat
  BY <1>1, Halves, LenProperties
<1>3. PICK f : f \in [0 .. N -> States] /\ Rounds(N, f, text)
  BY <1>2, RoundsExist
<1>4. Drain(text) = f[N]
  BY <1>1, <1>3, DrainIs
<1>5. Ended(f[N].rest) /\ f[N] \in States
  BY <1>1, <1>3, RoundsEnd
<1> QED
  BY <1>4, <1>5

(* Once ended, the loop changes nothing.                                   *)
LEMMA RoundsStay ==
    ASSUME NEW N \in Nat, NEW text \in Seq(Text), NEW f, f \in [0 .. N -> States],
           Rounds(N, f, text), NEW m \in 0 .. N, Ended(f[m].rest)
    PROVE  f[N] = f[m]
<1> DEFINE h == [j \in 0 .. N - m |-> f[m + j]]
           g == [j \in 0 .. N - m |-> f[m]]
<1>0. /\ \A n \in 1 .. N : f[n] = Cut(f[n - 1])
      /\ \A n \in 0 .. N : f[n].rest \in Seq(Text)
  BY DEF Rounds, States
<1>1. h[0] = g[0]
  <2>1. 0 \in 0 .. N - m /\ m + 0 = m
    OBVIOUS
  <2> QED BY <2>1
<1>2. ASSUME NEW j \in 1 .. N - m, h[j - 1] = g[j - 1] PROVE h[j] = g[j]
  <2>1. /\ j \in 0 .. N - m /\ j - 1 \in 0 .. N - m /\ m + j \in 1 .. N
        /\ (m + j) - 1 = m + (j - 1)
    OBVIOUS
  <2>2. f[m + j] = Cut(f[m + (j - 1)]) /\ f[m + (j - 1)] = f[m]
    BY <1>0, <1>2, <2>1
  <2>3. Cut(f[m]) = f[m]
    BY <1>0, CutEnded
  <2> QED BY <2>1, <2>2, <2>3
<1>3. h[N - m] = f[N] /\ g[N - m] = f[m] /\ N - m \in Nat
  <2>1. N - m \in 0 .. N - m /\ m + (N - m) = N
    OBVIOUS
  <2> QED BY <2>1
<1> HIDE DEF h, g
<1>4. Alike(N - m, h, g)
  BY <1>1, <1>2 DEF Alike
<1>5. h[N - m] = g[N - m]
  <2>1. PICK k : k = N - m
    OBVIOUS
  <2> QED BY <1>3, <1>4, <2>1, AlikeAtTheEnd
<1> QED
  BY <1>3, <1>5

(* Frames that were there before stay before those a round adds.           *)
LEMMA CutPrefix ==
    ASSUME NEW fs \in Seq(Frames), NEW st \in States
    PROVE  Cut([frames |-> fs \o st.frames, rest |-> st.rest]) =
              [frames |-> fs \o Cut(st).frames, rest |-> Cut(st).rest]
<1> DEFINE u == [frames |-> fs \o st.frames, rest |-> st.rest]
<1>0. /\ st.rest \in Seq(Text) /\ st.frames \in Seq(Frames)
      /\ st = [frames |-> st.frames, rest |-> st.rest]
      /\ u.rest = st.rest /\ u.frames = fs \o st.frames
  BY DEF States
<1> HIDE DEF u
<1>1. CASE Ended(st.rest)
  <2>1. Cut(st) = st /\ Cut(u) = u
    BY <1>0, <1>1, CutEnded
  <2> QED BY <2>1 DEF u
<1>2. CASE ~Ended(st.rest)
  <2>1. PICK i, l : First(st.rest, i, l)
    BY <1>2 DEF Ended
  <2>2. PICK p, r : p = ParseFrame(Before(st.rest, i)) /\ r = After(st.rest, i, l)
    OBVIOUS
  <2>3. Cut(st) = [frames |-> st.frames \o p, rest |-> r]
    BY <1>0, <2>1, <2>2, CutIs
  <2>4. Cut(u) = [frames |-> (fs \o st.frames) \o p, rest |-> r]
    <3>1. u.rest \in Seq(Text) /\ First(u.rest, i, l)
      BY <1>0, <2>1
    <3>2. Cut(u) = [frames |-> u.frames \o ParseFrame(Before(u.rest, i)),
                    rest   |-> After(u.rest, i, l)]
      BY <3>1, CutIs
    <3> QED BY <1>0, <2>2, <3>2
  <2>5. p \in Seq(Frames)
    BY <1>0, <2>1, <2>2, PartsType, ParseType
  <2>6. (fs \o st.frames) \o p = fs \o (st.frames \o p)
    <3>1. PICK F, x, y, z : F = Frames /\ x = fs /\ y = st.frames /\ z = p
      OBVIOUS
    <3>2. x \in Seq(F) /\ y \in Seq(F) /\ z \in Seq(F)
      BY <1>0, <2>5, <3>1
    <3>3. (x \o y) \o z = x \o (y \o z)
      BY <3>2, SMT
    <3> QED BY <3>1, <3>3
  <2>7. Cut(st).frames = st.frames \o p /\ Cut(st).rest = r
    BY <2>3
  <2> QED BY <2>4, <2>6, <2>7 DEF u
<1> QED
  BY <1>1, <1>2

(* A text without a blank line waits as it is.                             *)
LEMMA DrainEnded ==
    ASSUME NEW text \in Seq(Text), Ended(text)
    PROVE  Drain(text) = [frames |-> << >>, rest |-> text]
<1>1. PICK N : N = Len(text) \div 2
  OBVIOUS
<1>2. N \in Nat
  BY <1>1, Halves, LenProperties
<1>3. PICK f : f \in [0 .. N -> States] /\ Rounds(N, f, text)
  BY <1>2, RoundsExist
<1>4. f[0] = [frames |-> << >>, rest |-> text] /\ f[0].rest = text
  BY <1>3 DEF Rounds
<1>5. f[N] = f[0]
  <2>1. 0 \in 0 .. N /\ Ended(f[0].rest)
    BY <1>2, <1>4
  <2> QED BY <1>2, <1>3, <2>1, RoundsStay
<1> QED
  BY <1>1, <1>3, <1>4, <1>5, DrainIs

(* The first frame, and then the frames of the text after it.              *)
LEMMA DrainFirst ==
    ASSUME NEW text \in Seq(Text), NEW i, NEW l, First(text, i, l)
    PROVE  LET first == ParseFrame(Before(text, i))
               more  == Drain(After(text, i, l))
           IN Drain(text) = [frames |-> first \o more.frames, rest |-> more.rest]
<1>1. PICK first, rest : first = ParseFrame(Before(text, i)) /\ rest = After(text, i, l)
  OBVIOUS
<1>2. first \in Seq(Frames) /\ rest \in Seq(Text)
  BY <1>1, PartsType, ParseType
<1>3. PICK n, m : n = Len(text) /\ m = Len(rest)
  OBVIOUS
<1>4. n \in Nat /\ m \in Nat /\ m + 2 <= n
  BY <1>1, <1>3, PartsType
<1>5. PICK N, M : N = n \div 2 /\ M = m \div 2
  OBVIOUS
<1>6. N \in Nat /\ M \in Nat /\ M + 1 <= N
  BY <1>4, <1>5
<1>7. PICK f : f \in [0 .. N -> States] /\ Rounds(N, f, text)
  BY <1>6, RoundsExist
<1>8. PICK g : g \in [0 .. M -> States] /\ Rounds(M, g, rest)
  BY <1>2, <1>6, RoundsExist
<1>9. Drain(text) = f[N] /\ Drain(rest) = g[M] /\ Ended(g[M].rest) /\ g[M] \in States
  BY <1>2, <1>3, <1>5, <1>7, <1>8, DrainIs, RoundsEnd
<1>10. /\ f[0] = [frames |-> << >>, rest |-> text]
       /\ \A j \in 1 .. N : f[j] = Cut(f[j - 1])
       /\ g[0] = [frames |-> << >>, rest |-> rest]
       /\ \A j \in 1 .. M : g[j] = Cut(g[j - 1])
       /\ \A j \in 0 .. M : g[j] \in States
  BY <1>7, <1>8 DEF Rounds
<1> DEFINE h == [j \in 0 .. M |-> f[j + 1]]
           k == [j \in 0 .. M |-> [frames |-> first \o g[j].frames, rest |-> g[j].rest]]
<1>11. h[0] = k[0]
  <2>1. 1 \in 1 .. N /\ 1 - 1 = 0 /\ 0 \in 0 .. M /\ 0 + 1 = 1
    BY <1>6
  <2>2. f[1] = Cut(f[0])
    BY <1>10, <2>1
  <2>3. Cut(f[0]) = [frames |-> << >> \o first, rest |-> rest]
    <3>1. PICK st : st = f[0]
      OBVIOUS
    <3>2. st.rest = text /\ st.frames = << >>
      BY <1>10, <3>1
    <3>3. Cut(st) = [frames |-> st.frames \o ParseFrame(Before(st.rest, i)),
                     rest   |-> After(st.rest, i, l)]
      BY <3>2, CutIs
    <3> QED BY <1>1, <3>1, <3>2, <3>3
  <2>4. << >> \o first = first /\ first \o << >> = first
    BY <1>2, ConcatEmptySeq
  <2>5. g[0].frames = << >> /\ g[0].rest = rest
    BY <1>10
  <2>6. h[0] = f[1] /\ k[0] = [frames |-> first \o << >>, rest |-> rest]
    BY <2>1, <2>5
  <2> HIDE DEF h, k
  <2> QED BY <2>2, <2>3, <2>4, <2>6
<1>12. ASSUME NEW j \in 1 .. M, h[j - 1] = k[j - 1] PROVE h[j] = k[j]
  <2>1. /\ j \in 0 .. M /\ j - 1 \in 0 .. M /\ j + 1 \in 1 .. N
        /\ (j + 1) - 1 = j /\ (j - 1) + 1 = j
    BY <1>6
  <2>2. f[j + 1] = Cut(f[j])
    BY <1>10, <2>1
  <2>3. PICK st : st = g[j - 1]
    OBVIOUS
  <2>4. st \in States /\ g[j] = Cut(st)
    BY <1>10, <2>1, <2>3
  <2>5. f[j] = [frames |-> first \o st.frames, rest |-> st.rest]
    BY <1>12, <2>1, <2>3
  <2>6. Cut(f[j]) = [frames |-> first \o Cut(st).frames, rest |-> Cut(st).rest]
    BY <1>2, <2>4, <2>5, CutPrefix
  <2>7. h[j] = f[j + 1] /\ k[j] = [frames |-> first \o g[j].frames, rest |-> g[j].rest]
    BY <2>1
  <2> HIDE DEF h, k
  <2> QED BY <2>2, <2>4, <2>6, <2>7
<1>13. f[M + 1] = [frames |-> first \o g[M].frames, rest |-> g[M].rest]
  <2>1. M \in 0 .. M
    BY <1>6
  <2>2. h[M] = f[M + 1] /\ k[M] = [frames |-> first \o g[M].frames, rest |-> g[M].rest]
    BY <2>1
  <2> HIDE DEF h, k
  <2>3. Alike(M, h, k)
    BY <1>11, <1>12 DEF Alike
  <2> QED BY <1>6, <2>2, <2>3, AlikeAtTheEnd
<1>14. f[N] = f[M + 1]
  <2>1. PICK p : p = M + 1
    OBVIOUS
  <2>2. f[p].rest = g[M].rest
    BY <1>13, <2>1
  <2>3. p \in 0 .. N /\ Ended(f[p].rest)
    BY <1>6, <1>9, <2>1, <2>2
  <2>4. f[N] = f[p]
    BY <1>6, <1>7, <2>3, RoundsStay
  <2> QED BY <2>1, <2>4
<1> QED
  BY <1>1, <1>9, <1>13, <1>14

(* The beginning and the end of a text.                                    *)
LEMMA BeginningIs ==
    ASSUME NEW T, NEW text \in Seq(T), NEW n \in 0 .. Len(text)
    PROVE  /\ SubSeq(text, 1, n) \in Seq(T) /\ Len(SubSeq(text, 1, n)) = n
           /\ \A j \in 1 .. n : SubSeq(text, 1, n)[j] = text[j]
<1>1. /\ 1 \in 1 .. Len(text) + 1 /\ n \in 1 - 1 .. Len(text)
      /\ n - 1 + 1 = n /\ \A j \in 1 .. n : 1 + j - 1 = j
  BY LenProperties
<1>2. /\ SubSeq(text, 1, n) \in Seq(T) /\ Len(SubSeq(text, 1, n)) = n - 1 + 1
      /\ \A j \in 1 .. n - 1 + 1 : SubSeq(text, 1, n)[j] = text[1 + j - 1]
  BY <1>1, PartIs
<1> QED
  BY <1>1, <1>2

(* part is what a text of length n has from m on.                          *)
EndOf(part, text, m, n, T) ==
    /\ part \in Seq(T) /\ Len(part) = n + 1 - m
    /\ \A j \in 1 .. n + 1 - m : part[j] = text[m + j - 1]

LEMMA EndIs ==
    ASSUME NEW T, NEW text \in Seq(T), NEW m \in 1 .. Len(text) + 1, NEW n, n = Len(text)
    PROVE  EndOf(SubSeq(text, m, n), text, m, n, T)
<1>1. n \in m - 1 .. Len(text) /\ n - m + 1 = n + 1 - m
  BY LenProperties
<1>2. /\ SubSeq(text, m, n) \in Seq(T) /\ Len(SubSeq(text, m, n)) = n - m + 1
      /\ \A j \in 1 .. n - m + 1 : SubSeq(text, m, n)[j] = text[m + j - 1]
  BY <1>1, PartIs
<1> QED
  BY <1>1, <1>2 DEF EndOf

(* Text that follows leaves the parts of a text where they are.            *)
LEMMA PartsStay ==
    ASSUME NEW a \in Seq(Text), NEW b \in Seq(Text), NEW i, NEW l, First(a, i, l)
    PROVE  /\ Before(a \o b, i) = Before(a, i)
           /\ After(a \o b, i, l) = After(a, i, l) \o b
<1> PICK c, m, x, y : c = a \o b /\ m = i + Len(l) /\ x = Len(a) /\ y = Len(b)
  OBVIOUS
<1>1. /\ c \in Seq(Text) /\ Len(c) = x + y /\ x \in Nat /\ y \in Nat
      /\ \A j \in 1 .. x + y : c[j] = IF j <= x THEN a[j] ELSE b[j - x]
      /\ \A j \in 1 .. x + y : c[j] \in Text
  <2>1. /\ c \in Seq(Text) /\ Len(c) = x + y /\ x \in Nat /\ y \in Nat
        /\ \A j \in 1 .. x + y : c[j] = IF j <= x THEN a[j] ELSE b[j - x]
    BY ConcatProperties, LenProperties
  <2> QED BY <2>1, ElementOfSeq
<1>2. i \in 1 .. x /\ m \in Nat /\ i <= m /\ m <= x + 1
  BY <1>1, FirstLies
<1>3. \A j \in 1 .. x : a[j] \in Text
  BY ElementOfSeq
<1>4. Before(c, i) = Before(a, i)
  <2>1. PICK n : n = i - 1
    OBVIOUS
  <2>2. n \in Nat /\ n <= x
    BY <1>1, <1>2, <2>1
  <2>3. /\ SubSeq(a, 1, n) \in Seq(Text) /\ Len(SubSeq(a, 1, n)) = n
        /\ \A j \in 1 .. n : SubSeq(a, 1, n)[j] = a[j]
    BY <1>1, <2>2, BeginningIs
  <2>4. /\ SubSeq(c, 1, n) \in Seq(Text) /\ Len(SubSeq(c, 1, n)) = n
        /\ \A j \in 1 .. n : SubSeq(c, 1, n)[j] = c[j]
    <3>1. n \in 0 .. Len(c)
      BY <1>1, <2>2
    <3> QED BY <1>1, <3>1, BeginningIs
  <2>5. \A j \in 1 .. n : c[j] = a[j]
    BY <1>1, <2>2
  <2>6. SubSeq(c, 1, n) = SubSeq(a, 1, n)
    BY <2>3, <2>4, <2>5, SeqEqual
  <2> QED BY <2>1, <2>6 DEF Before
<1>5. After(c, i, l) = After(a, i, l) \o b
  <2>1. PICK r, s, n : r = After(a, i, l) /\ s = After(c, i, l) /\ n = x + 1 - m
    OBVIOUS
  <2>2. n \in Nat
    BY <1>1, <1>2, <2>1
  <2>3. /\ r \in Seq(Text) /\ Len(r) = n
        /\ \A j \in 1 .. n : r[j] = a[m + j - 1]
    <3>1. r = SubSeq(a, m, x)
      BY <1>1, <2>1 DEF After
    <3>2. m \in 1 .. Len(a) + 1 /\ x = Len(a)
      BY <1>1, <1>2
    <3>3. /\ r \in Seq(Text) /\ Len(r) = x + 1 - m
          /\ \A j \in 1 .. x + 1 - m : r[j] = a[m + j - 1]
      <4>1. EndOf(SubSeq(a, m, x), a, m, x, Text)
        BY <3>2, EndIs
      <4> QED BY <3>1, <4>1 DEF EndOf
    <3> QED BY <2>1, <3>3
  <2>4. /\ s \in Seq(Text) /\ Len(s) = n + y
        /\ \A j \in 1 .. n + y : s[j] = c[m + j - 1]
    <3>1. PICK z : z = x + y
      OBVIOUS
    <3>2. s = SubSeq(c, m, z)
      BY <1>1, <2>1, <3>1 DEF After
    <3>3. m \in 1 .. Len(c) + 1 /\ z = Len(c)
      BY <1>1, <1>2, <3>1
    <3>4. /\ s \in Seq(Text) /\ Len(s) = z + 1 - m
          /\ \A j \in 1 .. z + 1 - m : s[j] = c[m + j - 1]
      <4>1. c \in Seq(Text)
        BY <1>1
      <4>2. EndOf(SubSeq(c, m, z), c, m, z, Text)
        BY <3>3, <4>1, EndIs
      <4> QED BY <3>2, <4>2 DEF EndOf
    <3>5. z + 1 - m = n + y
      BY <1>1, <1>2, <2>1, <3>1
    <3> QED BY <3>4, <3>5
  <2>5. /\ r \o b \in Seq(Text) /\ Len(r \o b) = n + y
        /\ \A j \in 1 .. n + y : (r \o b)[j] = IF j <= n THEN r[j] ELSE b[j - n]
    BY <2>3, ConcatProperties
  <2>6. ASSUME NEW j \in 1 .. n + y PROVE s[j] = (r \o b)[j]
    <3>1. m + j - 1 \in 1 .. x + y
      BY <1>1, <1>2, <2>1, <2>2
    <3>2. s[j] = IF m + j - 1 <= x THEN a[m + j - 1] ELSE b[(m + j - 1) - x]
      BY <1>1, <2>4, <3>1
    <3>3. (m + j - 1 <= x <=> j <= n) /\ (m + j - 1) - x = j - n
      BY <1>1, <1>2, <2>1, <2>2
    <3>4. j <= n => r[j] = a[m + j - 1]
      BY <2>2, <2>3
    <3> QED BY <2>5, <3>2, <3>3, <3>4
  <2>7. s = r \o b
    <3>1. PICK t : t = r \o b
      OBVIOUS
    <3>2. /\ t \in Seq(Text) /\ Len(s) = Len(t)
          /\ \A j \in 1 .. Len(s) : s[j] = t[j]
      BY <2>4, <2>5, <2>6, <3>1
    <3>3. s = t
      BY <2>4, <3>2, SeqEqual
    <3> QED BY <3>1, <3>3
  <2> QED BY <2>1, <2>7
<1> QED
  BY <1>4, <1>5

(* The text may be taken in two parts: what waits after the first is all   *)
(* that the second needs.                                                  *)
Splits(a) ==
    \A b \in Seq(Text) :
       LET more == Drain(Drain(a).rest \o b)
       IN Drain(a \o b) = [frames |-> Drain(a).frames \o more.frames, rest |-> more.rest]

LEMMA SplitsEnded ==
    ASSUME NEW a \in Seq(Text), Ended(a)
    PROVE  Splits(a)
<1> SUFFICES ASSUME NEW b \in Seq(Text)
             PROVE  LET more == Drain(Drain(a).rest \o b)
                    IN Drain(a \o b) = [frames |-> Drain(a).frames \o more.frames,
                                        rest   |-> more.rest]
  BY DEF Splits
<1>1. Drain(a).frames = << >> /\ Drain(a).rest = a
  BY DrainEnded
<1>2. PICK d : d = Drain(a \o b)
  OBVIOUS
<1>3. a \o b \in Seq(Text)
  BY ConcatProperties
<1>4. d \in States
  BY <1>2, <1>3, DrainType
<1>5. d.frames \in Seq(Frames) /\ d = [frames |-> d.frames, rest |-> d.rest]
  BY <1>4 DEF States
<1>6. << >> \o d.frames = d.frames
  BY <1>5, ConcatEmptySeq
<1> QED
  BY <1>1, <1>2, <1>5, <1>6

LEMMA SplitsFirst ==
    ASSUME NEW a \in Seq(Text), NEW i, NEW l, First(a, i, l), Splits(After(a, i, l))
    PROVE  Splits(a)
<1> SUFFICES ASSUME NEW b \in Seq(Text)
             PROVE  LET more == Drain(Drain(a).rest \o b)
                    IN Drain(a \o b) = [frames |-> Drain(a).frames \o more.frames,
                                        rest   |-> more.rest]
  BY DEF Splits
<1>1. PICK p, r, c : p = ParseFrame(Before(a, i)) /\ r = After(a, i, l) /\ c = a \o b
  OBVIOUS
<1>2. p \in Seq(Frames) /\ r \in Seq(Text) /\ c \in Seq(Text)
  BY <1>1, PartsType, ParseType, ConcatProperties
<1>3. PICK d, e : d = Drain(r) /\ e = Drain(d.rest \o b)
  OBVIOUS
<1>4. d.frames \in Seq(Frames) /\ d.rest \in Seq(Text)
  BY <1>2, <1>3, DrainType DEF States
<1>5. e.frames \in Seq(Frames)
  <2>1. d.rest \o b \in Seq(Text)
    BY <1>4, ConcatProperties
  <2>2. e \in States
    BY <1>3, <2>1, DrainType
  <2> QED BY <2>2 DEF States
<1>6. Drain(a) = [frames |-> p \o d.frames, rest |-> d.rest]
  BY <1>1, <1>3, DrainFirst
<1>7. Drain(r \o b) = [frames |-> d.frames \o e.frames, rest |-> e.rest]
  BY <1>1, <1>3 DEF Splits
<1>8. Drain(c) = [frames |-> p \o (d.frames \o e.frames), rest |-> e.rest]
  <2>1. First(c, i, l) /\ Before(c, i) = Before(a, i) /\ After(c, i, l) = r \o b
    <3>1. First(a \o b, i, l)
      BY FirstStays
    <3>2. /\ Before(a \o b, i) = Before(a, i)
          /\ After(a \o b, i, l) = After(a, i, l) \o b
      BY PartsStay
    <3> QED BY <1>1, <3>1, <3>2
  <2>2. PICK q, t : q = Drain(t) /\ t = r \o b
    OBVIOUS
  <2>3. Drain(c) = [frames |-> p \o q.frames, rest |-> q.rest]
    <3>1. Drain(c) = [frames |-> ParseFrame(Before(c, i)) \o Drain(After(c, i, l)).frames,
                      rest   |-> Drain(After(c, i, l)).rest]
      BY <1>2, <2>1, DrainFirst
    <3> QED BY <1>1, <2>1, <2>2, <3>1
  <2>4. q = [frames |-> d.frames \o e.frames, rest |-> e.rest]
    BY <1>7, <2>2
  <2>5. q.frames = d.frames \o e.frames /\ q.rest = e.rest
    BY <2>4
  <2> QED BY <2>3, <2>5
<1>9. p \o (d.frames \o e.frames) = (p \o d.frames) \o e.frames
  <2>1. PICK F, x, y, z : F = Frames /\ x = p /\ y = d.frames /\ z = e.frames
    OBVIOUS
  <2>2. x \in Seq(F) /\ y \in Seq(F) /\ z \in Seq(F)
    BY <1>2, <1>4, <1>5, <2>1
  <2>3. x \o (y \o z) = (x \o y) \o z
    BY <2>2, SMT
  <2> QED BY <2>1, <2>3
<1>10. Drain(a).frames = p \o d.frames /\ Drain(a).rest = d.rest
  BY <1>6
<1> QED
  BY <1>1, <1>3, <1>8, <1>9, <1>10

LEMMA DrainConcat ==
    ASSUME NEW a \in Seq(Text)
    PROVE  Splits(a)
<1> DEFINE X == {n \in Nat : \A s \in Seq(Text) : Len(s) <= n => Splits(s)}
<1>0. X \in SUBSET Nat
  OBVIOUS
<1>1. 0 \in X
  <2> SUFFICES ASSUME NEW s \in Seq(Text), Len(s) <= 0 PROVE Splits(s)
    OBVIOUS
  <2>1. Len(s) <= 1
    BY LenProperties
  <2> QED BY <2>1, ShortEnds, SplitsEnded
<1>2. ASSUME NEW n \in X PROVE n + 1 \in X
  <2>0. n \in Nat /\ \A s \in Seq(Text) : Len(s) <= n => Splits(s)
    BY <1>2
  <2> SUFFICES ASSUME NEW s \in Seq(Text), Len(s) <= n + 1 PROVE Splits(s)
    BY <2>0
  <2>1. CASE Ended(s)
    BY <2>1, SplitsEnded
  <2>2. CASE ~Ended(s)
    <3>1. PICK i, l : First(s, i, l)
      BY <2>2 DEF Ended
    <3>2. PICK r, x, y : r = After(s, i, l) /\ x = Len(r) /\ y = Len(s)
      OBVIOUS
    <3>3. r \in Seq(Text) /\ x \in Nat /\ y \in Nat /\ x + 2 <= y /\ y <= n + 1
      BY <3>1, <3>2, PartsType
    <3>4. x <= n
      BY <2>0, <3>3
    <3>5. Splits(r)
      BY <2>0, <3>2, <3>3, <3>4
    <3> QED BY <3>1, <3>2, <3>5, SplitsFirst
  <2> QED BY <2>1, <2>2
<1>3. X = Nat
  <2> HIDE DEF X
  <2> QED BY <1>0, <1>1, <1>2, SetInduction
<1>4. Len(a) \in Nat /\ Len(a) <= Len(a)
  BY LenProperties
<1>5. Len(a) \in X
  <2> HIDE DEF X
  <2> QED BY <1>3, <1>4
<1> QED
  BY <1>4, <1>5

-----------------------------------------------------------------------------
(* The format, character by character.                                     *)

Formats == [frames : Seq(Frames), read : ReadStates]

(* What a text that ends here is read as.                                  *)
Ending(st) == st.frames \o FrameOf(LinesOf(st.read))

LEMMA EndingType ==
    ASSUME NEW st \in Formats
    PROVE  /\ st.frames \in Seq(Frames) /\ st.read \in ReadStates
           /\ st = [frames |-> st.frames, read |-> st.read]
           /\ FrameOf(LinesOf(st.read)) \in Seq(Frames)
           /\ Ending(st) \in Seq(Frames)
<1>1. /\ st.frames \in Seq(Frames) /\ st.read \in ReadStates
      /\ st = [frames |-> st.frames, read |-> st.read]
  BY DEF Formats
<1>2. FrameOf(LinesOf(st.read)) \in Seq(Frames)
  BY <1>1, LinesOfType, FrameType
<1>3. st.frames \o FrameOf(LinesOf(st.read)) \in Seq(Frames)
  BY <1>1, <1>2, ConcatProperties
<1> QED
  BY <1>1, <1>2, <1>3 DEF Ending

(* A character ends a frame, or is read on.                                *)
LEMMA ReadFormatIs ==
    ASSUME NEW text, NEW i, NEW st
    PROVE  /\ EndsLine(text, i) /\ st.read.line = << >> =>
                 ReadFormat(st, text, i) = [frames |-> Ending(st), read |-> Unread]
           /\ ~(EndsLine(text, i) /\ st.read.line = << >>) =>
                 ReadFormat(st, text, i) = [frames |-> st.frames,
                                            read   |-> ReadOn(st.read, text, i)]
<1>1. st.read.line = << >> => Ending(st) = st.frames \o FrameOf(st.read.lines)
  BY DEF Ending, LinesOf
<1> QED
  BY <1>1 DEF ReadFormat

LEMMA ReadFormatType ==
    ASSUME NEW text \in Seq(Text), NEW i \in 1 .. Len(text), NEW st \in Formats
    PROVE  ReadFormat(st, text, i) \in Formats
<1>1. /\ st.frames \in Seq(Frames) /\ ReadOn(st.read, text, i) \in ReadStates
      /\ Ending(st) \in Seq(Frames) /\ Unread \in ReadStates
  BY EndingType, ReadOnType, UnreadIs
<1> QED
  BY <1>1, ReadFormatIs DEF Formats

(* f[n] is what the first n characters of a text are read as.              *)
Given(N, f, text) ==
    /\ f[0] = [frames |-> << >>, read |-> Unread]
    /\ \A n \in 1 .. N : f[n] = ReadFormat(f[n - 1], text, n)

LEMMA GivenExists ==
    ASSUME NEW text \in Seq(Text), NEW N, N = Len(text)
    PROVE  N \in Nat /\ \E f \in [0 .. N -> Formats] : Given(N, f, text)
<1>1. N \in Nat
  BY LenProperties
<1> DEFINE F == [x \in (1 .. N) \X Formats |-> ReadFormat(x[2], text, x[1])]
           a == [frames |-> << >>, read |-> Unread]
<1>2. F \in [(1 .. N) \X Formats -> Formats]
  BY ReadFormatType
<1>3. \A n \in 1 .. N, st \in Formats : F[<<n, st>>] = ReadFormat(st, text, n)
  OBVIOUS
<1>4. a \in Formats
  BY EmptySeq, UnreadIs DEF Formats
<1> HIDE DEF F, a
<1>5. \E f \in [0 .. N -> Formats] : Recurs(N, f, a, F)
  BY <1>1, <1>2, <1>4, RecursionExists
<1>6. PICK f : f \in [0 .. N -> Formats] /\ Recurs(N, f, a, F)
  BY <1>5
<1>7. \A n \in 1 .. N : n - 1 \in 0 .. N
  BY <1>1
<1>8. Given(N, f, text)
  BY <1>3, <1>6, <1>7 DEF Recurs, Given, a
<1> QED
  BY <1>1, <1>6, <1>8

LEMMA ReferenceIs ==
    ASSUME NEW text, NEW N \in Nat, N = Len(text), NEW f, Given(N, f, text)
    PROVE  Reference(text) = Ending(f[N])
<1> DEFINE Start == [frames |-> << >>, read |-> Unread]
           Def(r) == r = [n \in 0 .. N |->
                            IF n = 0 THEN [frames |-> << >>, read |-> Unread]
                                     ELSE ReadFormat(r[n - 1], text, n)]
           h == [n \in 0 .. N |-> f[n]]
           g == CHOOSE r : Def(r)
<1>1. Def(h)
  <2>1. ASSUME NEW n \in 0 .. N
        PROVE  h[n] = IF n = 0 THEN Start ELSE ReadFormat(h[n - 1], text, n)
    <3>1. CASE n = 0
      BY <3>1 DEF Given
    <3>2. CASE n # 0
      <4>1. n \in 1 .. N /\ n - 1 \in 0 .. N
        BY <3>2
      <4>2. h[n] = f[n] /\ h[n - 1] = f[n - 1]
        BY <4>1
      <4> QED BY <3>2, <4>1, <4>2 DEF Given
    <3> QED BY <3>1, <3>2
  <2> QED BY <2>1
<1>2. Def(g)
  BY <1>1
<1>3. Reference(text) = g[N].frames \o FrameOf(LinesOf(g[N].read))
  BY DEF Reference
<1>4. Given(N, g, text)
  <2>1. g[0] = Start
    <3>1. 0 \in 0 .. N
      OBVIOUS
    <3> QED BY <1>2, <3>1
  <2>2. ASSUME NEW n \in 1 .. N PROVE g[n] = ReadFormat(g[n - 1], text, n)
    <3>1. n \in 0 .. N /\ n # 0
      OBVIOUS
    <3> QED BY <1>2, <3>1
  <2> HIDE DEF g
  <2> QED BY <2>1, <2>2 DEF Given
<1> HIDE DEF g
<1>5. Alike(N, g, f)
  BY <1>4 DEF Given, Alike
<1>6. g[N] = f[N]
  BY <1>5, AlikeAtTheEnd
<1> QED
  BY <1>3, <1>6 DEF Ending

(* An end of line keeps what the text so far is read as; one more gives    *)
(* that frame, and an LF after a CR is nothing.                            *)
LEMMA OneEnd ==
    ASSUME NEW text, NEW i, NEW st \in Formats, EndsLine(text, i)
    PROVE  LET s == ReadFormat(st, text, i)
           IN s \in Formats /\ s.read.line = << >> /\ Ending(s) = Ending(st)
<1>1. CASE st.read.line = << >>
  <2>1. PICK s : s = ReadFormat(st, text, i)
    OBVIOUS
  <2>2. s = [frames |-> Ending(st), read |-> Unread] /\ Ending(st) \in Seq(Frames)
    BY <1>1, <2>1, ReadFormatIs, EndingType
  <2>3. s \in Formats /\ s.read.line = << >> /\ s.frames = Ending(st) /\ s.read = Unread
    BY <2>2, UnreadIs DEF Formats
  <2>4. FrameOf(LinesOf(s.read)) = << >>
    BY <2>3, UnreadIs, NoFrame
  <2>5. Ending(s) = Ending(st) \o << >>
    BY <2>3, <2>4 DEF Ending
  <2>6. Ending(st) \o << >> = Ending(st)
    BY <2>2, ConcatEmptySeq
  <2> QED BY <2>1, <2>3, <2>5, <2>6
<1>2. CASE st.read.line # << >>
  <2>1. PICK s, ls : s = ReadFormat(st, text, i) /\ ls = LinesOf(st.read)
    OBVIOUS
  <2>2. s = [frames |-> st.frames, read |-> [lines |-> ls, line |-> << >>]]
    BY <1>2, <2>1, ReadFormatIs, ReadOnIs
  <2>3. ls \in Seq(Seq(Text)) /\ st.frames \in Seq(Frames) /\ << >> \in Seq(Text)
    BY <2>1, LinesOfType, EndingType, EmptySeq
  <2>4. [lines |-> ls, line |-> << >>] \in ReadStates
    BY <2>3 DEF ReadStates
  <2>5. s \in Formats /\ s.read.line = << >> /\ s.frames = st.frames /\ s.read.lines = ls
    BY <2>2, <2>3, <2>4 DEF Formats
  <2>6. LinesOf(s.read) = ls
    BY <2>5 DEF LinesOf
  <2> QED BY <2>1, <2>5, <2>6 DEF Ending
<1> QED
  BY <1>1, <1>2

LEMMA NoEnd ==
    ASSUME NEW text, NEW i, NEW st \in Formats, text[i] \in Ends, ~EndsLine(text, i)
    PROVE  ReadFormat(st, text, i) = st
<1>1. ReadFormat(st, text, i) = [frames |-> st.frames, read |-> st.read]
  BY ReadFormatIs, ReadOnIs
<1> QED
  BY <1>1, EndingType

(* After an end of line no line is open.                                   *)
LEMMA EndLeaves ==
    ASSUME NEW text, NEW N \in Nat, NEW f \in [0 .. N -> Formats], Given(N, f, text),
           NEW n \in 1 .. N, text[n] \in Ends
    PROVE  f[n].read.line = << >>
<1>1. \A m \in 1 .. N : /\ f[m] = ReadFormat(f[m - 1], text, m)
                        /\ f[m - 1] \in Formats /\ f[m] \in Formats
  <2>1. \A m \in 1 .. N : m - 1 \in 0 .. N /\ m \in 0 .. N
    OBVIOUS
  <2> QED BY <2>1 DEF Given
<1>2. \A m \in 1 .. N : EndsLine(text, m) => f[m].read.line = << >>
  BY <1>1, OneEnd
<1>3. CASE ~EndsLine(text, n)
  <2>1. text[n] = "LF" /\ n > 1 /\ text[n - 1] = "CR"
    BY <1>3 DEF EndsLine
  <2>2. n - 1 \in 1 .. N /\ EndsLine(text, n - 1)
    BY <2>1 DEF EndsLine, Ends
  <2>3. f[n] = f[n - 1]
    BY <1>1, <1>3, NoEnd
  <2> QED BY <1>2, <2>2, <2>3
<1> QED
  BY <1>2, <1>3

(* A blank line gives the frame of the text before it, and the reading     *)
(* begins anew after it.                                                   *)
LEMMA TwoEnds ==
    ASSUME NEW text, NEW N \in Nat, NEW f \in [0 .. N -> Formats], Given(N, f, text),
           NEW m \in 1 .. N, NEW n \in 1 .. N,
           EndsLine(text, n), f[m].read.line = << >>, f[n - 1] = f[m]
    PROVE  f[n] = [frames |-> Ending(f[m]), read |-> Unread]
<1>1. f[n] = ReadFormat(f[m], text, n)
  BY DEF Given
<1> QED
  BY <1>1, ReadFormatIs

LEMMA BlankLineEnds ==
    ASSUME NEW text \in Seq(Text), NEW N, N = Len(text), NEW f \in [0 .. N -> Formats],
           Given(N, f, text), NEW i, NEW l, First(text, i, l)
    PROVE  /\ i - 1 \in 0 .. N /\ i + Len(l) - 1 \in 1 .. N
           /\ f[i + Len(l) - 1] = [frames |-> Ending(f[i - 1]), read |-> Unread]
<1>1. /\ N \in Nat /\ DOMAIN text = 1 .. N
      /\ i \in DOMAIN text /\ l \in {CRLFs, LFs, CRs} /\ Occurs(l, text, i)
  BY LenProperties, BlankLinesAre DEF First
<1>2. \A m \in 1 .. N : /\ f[m] = ReadFormat(f[m - 1], text, m)
                        /\ f[m - 1] \in Formats /\ f[m] \in Formats
  <2>1. \A m \in 1 .. N : m - 1 \in 0 .. N /\ m \in 0 .. N
    BY <1>1
  <2> QED BY <2>1 DEF Given
<1>3. \A m \in 1 .. N : EndsLine(text, m) =>
         f[m].read.line = << >> /\ Ending(f[m]) = Ending(f[m - 1])
  BY <1>2, OneEnd
<1>4. \A m \in 1 .. N : text[m] \in Ends /\ ~EndsLine(text, m) =>
         f[m] = f[m - 1] /\ f[m].read.line = << >>
  BY <1>1, <1>2, NoEnd, EndLeaves
<1>5. /\ \A m \in 1 .. N : text[m] = "CR" => EndsLine(text, m)
      /\ \A m \in 1 .. N : text[m] = "LF" /\ text[m - 1] # "CR" => EndsLine(text, m)
      /\ \A m \in 1 .. N : text[m] = "LF" /\ m > 1 /\ text[m - 1] = "CR" =>
            text[m] \in Ends /\ ~EndsLine(text, m)
  BY DEF EndsLine, Ends
<1>6. CASE l \in {LFs, CRs}
  <2>1. i + 1 \in 1 .. N /\ (i + 1) - 1 = i /\ text[i] = text[i + 1] /\ text[i] \in {"LF", "CR"}
        /\ i \in 1 .. N
    BY <1>1, <1>6, OccursIs DEF Twice
  <2>2. EndsLine(text, i + 1) /\ text[i] \in Ends
    BY <1>5, <2>1 DEF Ends
  <2>3. f[i].read.line = << >> /\ Ending(f[i]) = Ending(f[i - 1])
    BY <1>3, <1>4, <2>1, <2>2
  <2>4. PICK n : n = i + 1
    OBVIOUS
  <2>5. f[n] = [frames |-> Ending(f[i]), read |-> Unread]
    BY <1>1, <2>1, <2>2, <2>3, <2>4, TwoEnds
  <2>6. i + Len(l) - 1 = n /\ i - 1 \in 0 .. N
    <3>1. Len(l) = 2
      BY <1>6, BlankLinesAre
    <3>2. i + 2 - 1 = i + 1 /\ i - 1 \in 0 .. N
      BY <1>1, <2>1
    <3> QED BY <2>4, <3>1, <3>2
  <2> QED BY <2>1, <2>3, <2>4, <2>5, <2>6
<1>7. CASE l = CRLFs
  <2>1. /\ i \in 1 .. N /\ i + 1 \in 1 .. N /\ i + 2 \in 1 .. N /\ i + 3 \in 1 .. N
        /\ (i + 1) - 1 = i /\ (i + 2) - 1 = i + 1 /\ (i + 3) - 1 = i + 2
        /\ i + 1 > 1 /\ i + 3 > 1
        /\ text[i] = "CR" /\ text[i + 1] = "LF" /\ text[i + 2] = "CR" /\ text[i + 3] = "LF"
    <3>1. CutEnds(text, i)
      BY <1>1, <1>7, OccursIs
    <3>2. i \in Nat /\ i >= 1
      BY <1>1
    <3> QED BY <1>1, <3>1, <3>2 DEF CutEnds
  <2>2. f[i].read.line = << >> /\ Ending(f[i]) = Ending(f[i - 1])
    BY <1>3, <1>5, <2>1
  <2>3. f[i + 1] = f[i]
    BY <1>4, <1>5, <2>1
  <2>4. PICK n : n = i + 2
    OBVIOUS
  <2>5. n \in 1 .. N /\ EndsLine(text, n) /\ n - 1 = i + 1
    BY <1>5, <2>1, <2>4
  <2>6. f[n] = [frames |-> Ending(f[i]), read |-> Unread]
    <3>1. f[n - 1] = f[i]
      BY <2>3, <2>5
    <3> QED BY <1>1, <2>1, <2>2, <2>5, <3>1, TwoEnds
  <2>7. f[i + 3] = f[n]
    BY <1>4, <1>5, <2>1, <2>4
  <2>8. i + Len(l) - 1 = i + 3 /\ i - 1 \in 0 .. N
    BY <1>1, <1>7, <2>1, BlankLinesAre
  <2> QED BY <2>1, <2>2, <2>6, <2>7, <2>8
<1> QED
  BY <1>1, <1>6, <1>7

(* What a character does depends on it and on whether it ends a line.      *)
LEMMA SameCharacter ==
    ASSUME NEW a, NEW b, NEW i, NEW j, a[i] = b[j], EndsLine(a, i) <=> EndsLine(b, j)
    PROVE  \A st : ReadFormat(st, a, i) = ReadFormat(st, b, j)
BY DEF ReadFormat, ReadOn

(* The text before the blank line is read by itself as in the whole text.  *)
LEMMA BeforeIs ==
    ASSUME NEW text \in Seq(Text), NEW N, N = Len(text), NEW f \in [0 .. N -> Formats],
           Given(N, f, text), NEW i \in 1 .. N
    PROVE  Reference(Before(text, i)) = Ending(f[i - 1])
<1>1. PICK b, n : b = Before(text, i) /\ n = i - 1
  OBVIOUS
<1>2. N \in Nat /\ n \in Nat /\ n \in 0 .. Len(text) /\ n <= N
  BY <1>1, LenProperties
<1>3. Len(b) = n /\ \A m \in 1 .. n : b[m] = text[m]
  BY <1>1, <1>2, BeginningIs DEF Before
<1>4. Given(n, f, b)
  <2>1. ASSUME NEW m \in 1 .. n PROVE f[m] = ReadFormat(f[m - 1], b, m)
    <3>1. m \in 1 .. N /\ b[m] = text[m] /\ (m > 1 => b[m - 1] = text[m - 1])
      <4>1. m > 1 => m - 1 \in 1 .. n
        BY <1>2
      <4> QED BY <1>2, <1>3, <4>1
    <3>2. EndsLine(b, m) <=> EndsLine(text, m)
      BY <3>1 DEF EndsLine
    <3>3. f[m] = ReadFormat(f[m - 1], text, m)
      BY <3>1 DEF Given
    <3> QED BY <3>1, <3>2, <3>3, SameCharacter
  <2> QED BY <2>1 DEF Given
<1> QED
  BY <1>1, <1>2, <1>3, <1>4, ReferenceIs

(* Frames that were there before stay before those the text gives.         *)
LEMMA FormatPrefix ==
    ASSUME NEW fs \in Seq(Frames), NEW st \in Formats
    PROVE  LET u == [frames |-> fs \o st.frames, read |-> st.read]
           IN /\ Ending(u) = fs \o Ending(st)
              /\ \A text, i : ReadFormat(u, text, i) =
                    [frames |-> fs \o ReadFormat(st, text, i).frames,
                     read   |-> ReadFormat(st, text, i).read]
<1>1. PICK u : u = [frames |-> fs \o st.frames, read |-> st.read]
  OBVIOUS
<1>2. u.frames = fs \o st.frames /\ u.read = st.read
  BY <1>1
<1>3. Ending(u) = fs \o Ending(st)
  <2>1. PICK F, x, y, z : F = Frames /\ x = fs /\ y = st.frames
                          /\ z = FrameOf(LinesOf(st.read))
    OBVIOUS
  <2>2. x \in Seq(F) /\ y \in Seq(F) /\ z \in Seq(F)
    BY <2>1, EndingType
  <2>3. (x \o y) \o z = x \o (y \o z)
    BY <2>2, SMT
  <2> QED BY <1>2, <2>1, <2>3 DEF Ending
<1>4. ASSUME NEW text, NEW i
      PROVE  ReadFormat(u, text, i) = [frames |-> fs \o ReadFormat(st, text, i).frames,
                                       read   |-> ReadFormat(st, text, i).read]
  <2>1. CASE EndsLine(text, i) /\ st.read.line = << >>
    <3>1. ReadFormat(st, text, i) = [frames |-> Ending(st), read |-> Unread]
      BY <2>1, ReadFormatIs
    <3>2. ReadFormat(u, text, i) = [frames |-> Ending(u), read |-> Unread]
      BY <1>2, <2>1, ReadFormatIs
    <3>3. ReadFormat(st, text, i).frames = Ending(st) /\ ReadFormat(st, text, i).read = Unread
      BY <3>1
    <3> QED BY <1>3, <3>2, <3>3
  <2>2. CASE ~(EndsLine(text, i) /\ st.read.line = << >>)
    <3>1. PICK r : r = ReadOn(st.read, text, i)
      OBVIOUS
    <3>2. ReadFormat(st, text, i) = [frames |-> st.frames, read |-> r]
      BY <2>2, <3>1, ReadFormatIs
    <3>3. ReadFormat(u, text, i) = [frames |-> fs \o st.frames, read |-> r]
      BY <1>2, <2>2, <3>1, ReadFormatIs
    <3>4. ReadFormat(st, text, i).frames = st.frames /\ ReadFormat(st, text, i).read = r
      BY <3>2
    <3> QED BY <3>3, <3>4
  <2> QED BY <2>1, <2>2
<1> QED
  BY <1>1, <1>3, <1>4

(* b is what a text of length N has after m.                               *)
Follows(b, text, m, N) ==
    /\ b \in Seq(Text) /\ Len(b) = N - m
    /\ \A n \in 1 .. N - m : b[n] = text[m + n]

(* The text after the blank line is read by itself as in the whole text:   *)
(* an LF that only ended its CR ends an empty line by itself, and a frame  *)
(* without lines is none.                                                  *)
LEMMA AfterIs ==
    ASSUME NEW text \in Seq(Text), NEW N, N = Len(text), NEW f \in [0 .. N -> Formats],
           Given(N, f, text), NEW fs \in Seq(Frames), NEW m \in 1 .. N,
           f[m] = [frames |-> fs, read |-> Unread],
           NEW b, Follows(b, text, m, N)
    PROVE  Ending(f[N]) = fs \o Reference(b)
<1>0. b \in Seq(Text) /\ Len(b) = N - m /\ \A n \in 1 .. N - m : b[n] = text[m + n]
  BY DEF Follows
<1>1. PICK K : K = Len(b)
  OBVIOUS
<1>2. /\ N \in Nat /\ K \in Nat /\ m \in Nat /\ m >= 1 /\ K = N - m /\ m + K = N
      /\ K \in 0 .. K
  BY <1>0, <1>1, LenProperties
<1>3. PICK h \in [0 .. K -> Formats] : Given(K, h, b)
  BY <1>0, <1>1, GivenExists
<1>4. /\ h[0] = [frames |-> << >>, read |-> Unread]
      /\ \A n \in 1 .. K : h[n] = ReadFormat(h[n - 1], b, n)
      /\ \A n \in 0 .. K : h[n] \in Formats
  BY <1>3 DEF Given
<1>5. \A n \in 1 .. N : f[n] = ReadFormat(f[n - 1], text, n)
  BY DEF Given
<1> DEFINE p == [n \in 0 .. K |-> f[m + n]]
           q == [n \in 0 .. K |-> [frames |-> fs \o h[n].frames, read |-> h[n].read]]
<1>6. p[0] = q[0]
  <2>1. 0 \in 0 .. K /\ m + 0 = m /\ fs \o << >> = fs
    BY <1>2, ConcatEmptySeq
  <2>2. h[0].frames = << >> /\ h[0].read = Unread
    BY <1>4
  <2> QED BY <2>1, <2>2
<1>7. ASSUME NEW n \in 1 .. K, p[n - 1] = q[n - 1] PROVE p[n] = q[n]
  <2>1. /\ n \in 0 .. K /\ n - 1 \in 0 .. K /\ m + n \in 1 .. N /\ m + n > 1
        /\ (m + n) - 1 = m + (n - 1) /\ b[n] = text[m + n]
    BY <1>0, <1>2
  <2>2. PICK st, c, d : st = h[n - 1] /\ c = m + n /\ d = m + (n - 1)
    OBVIOUS
  <2>3. st \in Formats
    BY <1>4, <2>1, <2>2
  <2>4. f[d] = [frames |-> fs \o st.frames, read |-> st.read]
    <3>1. p[n - 1] = f[d] /\ q[n - 1] = [frames |-> fs \o st.frames, read |-> st.read]
      BY <2>1, <2>2
    <3> QED BY <1>7, <3>1
  <2>5. f[c] = ReadFormat(f[d], text, c) /\ h[n] = ReadFormat(st, b, n)
    <3>1. c \in 1 .. N /\ c - 1 = d
      BY <2>1, <2>2
    <3> QED BY <1>4, <1>5, <2>2, <3>1
  <2>6. PICK s : s = ReadFormat(st, text, c)
    OBVIOUS
  <2>7. f[c] = [frames |-> fs \o s.frames, read |-> s.read]
    <3>1. \A t, i : ReadFormat([frames |-> fs \o st.frames, read |-> st.read], t, i) =
                       [frames |-> fs \o ReadFormat(st, t, i).frames,
                        read   |-> ReadFormat(st, t, i).read]
      BY <2>3, FormatPrefix
    <3>2. ReadFormat(f[d], text, c) = [frames |-> fs \o ReadFormat(st, text, c).frames,
                                       read   |-> ReadFormat(st, text, c).read]
      BY <2>4, <3>1
    <3> QED BY <2>5, <2>6, <3>2
  <2>8. h[n] = s
    <3>1. CASE EndsLine(b, n) <=> EndsLine(text, c)
      <4>1. b[n] = text[c]
        BY <2>1, <2>2
      <4>2. ReadFormat(st, b, n) = ReadFormat(st, text, c)
        BY <3>1, <4>1 DEF ReadFormat, ReadOn
      <4> QED BY <2>5, <2>6, <4>2
    <3>2. CASE ~(EndsLine(b, n) <=> EndsLine(text, c))
      <4>1. n = 1
        <5>1. n > 1 => n - 1 \in 1 .. K
          BY <1>2
        <5>2. n > 1 => b[n - 1] = text[m + (n - 1)]
          BY <1>0, <1>2, <5>1
        <5>3. n > 1 => b[n - 1] = text[c - 1]
          BY <2>1, <2>2, <5>2
        <5>4. n > 1 => (EndsLine(b, n) <=> EndsLine(text, c))
          BY <2>1, <2>2, <5>3 DEF EndsLine
        <5> QED BY <1>2, <3>2, <5>4
      <4>2. text[c] \in Ends /\ EndsLine(b, n) /\ ~EndsLine(text, c)
        BY <2>1, <2>2, <3>2, <4>1 DEF EndsLine
      <4>3. s = st
        BY <2>3, <2>6, <4>2, NoEnd
      <4>4. st = [frames |-> << >>, read |-> Unread]
        BY <1>4, <2>2, <4>1
      <4>5. st.read.line = << >> /\ st.frames = << >> /\ st.read = Unread
        BY <4>4, UnreadIs
      <4>6. h[n] = [frames |-> Ending(st), read |-> Unread]
        BY <2>5, <4>2, <4>5, ReadFormatIs
      <4>7. Ending(st) = << >>
        <5>1. Ending(st) = << >> \o << >>
          BY <4>5, UnreadIs, NoFrame DEF Ending
        <5> QED BY <5>1, EmptySeq, ConcatEmptySeq
      <4> QED BY <4>3, <4>4, <4>6, <4>7
    <3> QED BY <3>1, <3>2
  <2>9. p[n] = f[c] /\ q[n] = [frames |-> fs \o h[n].frames, read |-> h[n].read]
    BY <2>1, <2>2
  <2> QED BY <2>7, <2>8, <2>9
<1>8. p[K] = f[N] /\ q[K] = [frames |-> fs \o h[K].frames, read |-> h[K].read]
  BY <1>2
<1> HIDE DEF p, q
<1>9. p[K] = q[K]
  <2>1. Alike(K, p, q)
    BY <1>6, <1>7 DEF Alike
  <2> QED BY <1>2, <2>1, AlikeAtTheEnd
<1>10. PICK st : st = h[K]
  OBVIOUS
<1>11. st \in Formats /\ f[N] = [frames |-> fs \o st.frames, read |-> st.read]
  BY <1>2, <1>4, <1>8, <1>9, <1>10
<1>12. Ending(f[N]) = fs \o Ending(st)
  BY <1>11, FormatPrefix
<1>13. Reference(b) = Ending(st)
  BY <1>1, <1>2, <1>3, <1>10, ReferenceIs
<1> QED
  BY <1>12, <1>13

LEMMA AfterFollows ==
    ASSUME NEW text \in Seq(Text), NEW i, NEW l, First(text, i, l)
    PROVE  Follows(After(text, i, l), text, i + Len(l) - 1, Len(text))
<1>1. PICK N, m, k : N = Len(text) /\ m = i + Len(l) - 1 /\ k = i + Len(l)
  OBVIOUS
<1>2. N \in Nat /\ m \in 1 .. N /\ k = m + 1 /\ k \in 1 .. Len(text) + 1
  <2>1. PICK c : c = Len(l)
    OBVIOUS
  <2>2. i \in 1 .. N /\ c \in {2, 4} /\ i + c <= N + 1 /\ N \in Nat
    BY <1>1, <2>1, FirstLies, LenProperties
  <2>3. m = i + c - 1 /\ k = i + c /\ N = Len(text)
    BY <1>1, <2>1
  <2> QED BY <2>2, <2>3
<1>3. EndOf(SubSeq(text, k, N), text, k, N, Text)
  BY <1>1, <1>2, EndIs
<1>4. After(text, i, l) = SubSeq(text, k, N)
  BY <1>1 DEF After
<1>5. N + 1 - k = N - m /\ \A n \in 1 .. N - m : k + n - 1 = m + n
  BY <1>2
<1> QED
  BY <1>1, <1>3, <1>4, <1>5 DEF EndOf, Follows

LEMMA ReferenceFirst ==
    ASSUME NEW text \in Seq(Text), NEW i, NEW l, First(text, i, l)
    PROVE  Reference(text) = Reference(Before(text, i)) \o Reference(After(text, i, l))
<1>1. PICK N, m, b : N = Len(text) /\ m = i + Len(l) - 1 /\ b = After(text, i, l)
  OBVIOUS
<1>2. PICK f \in [0 .. N -> Formats] : N \in Nat /\ Given(N, f, text)
  BY <1>1, GivenExists
<1>3. PICK fs : fs = Ending(f[i - 1])
  OBVIOUS
<1>4. i - 1 \in 0 .. N /\ m \in 1 .. N /\ f[m] = [frames |-> fs, read |-> Unread]
  BY <1>1, <1>2, <1>3, BlankLineEnds
<1>5. fs \in Seq(Frames)
  <2>1. f[i - 1] \in Formats
    BY <1>2, <1>4
  <2> QED BY <1>3, <2>1, EndingType
<1>6. i \in 1 .. N /\ i + Len(l) = m + 1
  <2>1. i \in 1 .. N /\ Len(l) \in {2, 4}
    BY <1>1, FirstLies
  <2> QED BY <1>1, <1>2, <2>1
<1>7. Follows(b, text, m, N)
  BY <1>1, AfterFollows
<1>8. Reference(Before(text, i)) = fs
  BY <1>1, <1>2, <1>3, <1>6, BeforeIs
<1>9. Ending(f[N]) = fs \o Reference(b)
  BY <1>1, <1>2, <1>4, <1>5, <1>7, AfterIs
<1>10. Reference(text) = Ending(f[N])
  BY <1>1, <1>2, ReferenceIs
<1> QED
  BY <1>1, <1>8, <1>9, <1>10

(* Between two ends of line there is a line, except at the beginning.      *)
Calm(text) ==
    \A n \in 3 .. Len(text) :
       text[n - 1] \in Ends /\ text[n] \in Ends => text[n - 1] = "CR" /\ text[n] = "LF"

(* Such a text is one frame.                                               *)
LEMMA CalmIs ==
    ASSUME NEW text \in Seq(Text), Calm(text)
    PROVE  Reference(text) = ParseFrame(text)
<1>1. PICK N : N = Len(text)
  OBVIOUS
<1>2. PICK f \in [0 .. N -> Formats] : N \in Nat /\ Given(N, f, text)
  BY <1>1, GivenExists
<1>3. PICK g \in [0 .. N -> ReadStates] : ReadSo(N, g, text) /\ Lines(text) = LinesOf(g[N])
  BY <1>1, LinesAre
<1>4. /\ f[0] = [frames |-> << >>, read |-> Unread] /\ g[0] = Unread
      /\ \A n \in 1 .. N : f[n] = ReadFormat(f[n - 1], text, n)
      /\ \A n \in 1 .. N : g[n] = ReadOn(g[n - 1], text, n)
      /\ \A n \in 0 .. N : g[n] \in ReadStates
  BY <1>2, <1>3 DEF Given, ReadSo
<1>5. \A r : r.line = << >> \/ r.line # << >>
  OBVIOUS
<1>6. ASSUME NEW n \in 1 .. N, g[n].line = << >> PROVE text[n] \in Ends
  <2> SUFFICES ASSUME text[n] \notin Ends PROVE FALSE
    OBVIOUS
  <2>1. n - 1 \in 0 .. N
    BY <1>2
  <2>2. PICK r, x : r = g[n - 1] /\ x = text[n]
    OBVIOUS
  <2>3. r \in ReadStates /\ r.line \in Seq(Text) /\ x \in Text
    BY <1>1, <1>4, <2>1, <2>2, ElementOfSeq DEF ReadStates
  <2>4. g[n] = [lines |-> r.lines, line |-> Append(r.line, x)]
    BY <1>4, <2>2, ReadOnIs
  <2>5. Append(r.line, x) = << >>
    BY <1>6, <2>4
  <2> QED BY <2>3, <2>5
<1>7. 1 \in 1 .. N /\ text[1] \in Ends => g[1] = Unread
  <2> SUFFICES ASSUME 1 \in 1 .. N, text[1] \in Ends PROVE g[1] = Unread
    OBVIOUS
  <2>1. g[1] = ReadOn(Unread, text, 1)
    <3>1. 1 - 1 = 0
      OBVIOUS
    <3> QED BY <1>4, <3>1
  <2>2. LinesOf(Unread) = << >> /\ Unread = [lines |-> << >>, line |-> << >>]
    BY UnreadIs DEF Unread
  <2> QED BY <2>1, <2>2, ReadOnIs
<1> DEFINE p == [n \in 0 .. N |-> f[n]]
           q == [n \in 0 .. N |-> [frames |-> << >>, read |-> g[n]]]
<1>8. p[0] = q[0]
  <2>1. 0 \in 0 .. N
    BY <1>2
  <2> QED BY <1>4, <2>1
<1>9. ASSUME NEW n \in 1 .. N, p[n - 1] = q[n - 1] PROVE p[n] = q[n]
  <2>1. n \in 0 .. N /\ n - 1 \in 0 .. N /\ n \in Nat
    BY <1>2
  <2>2. PICK st, r : st = f[n - 1] /\ r = g[n - 1]
    OBVIOUS
  <2>3. st = [frames |-> << >>, read |-> r]
    <3>1. p[n - 1] = st /\ q[n - 1] = [frames |-> << >>, read |-> r]
      BY <2>1, <2>2
    <3> QED BY <1>9, <3>1
  <2>4. st.frames = << >> /\ st.read = r
    BY <2>3
  <2>5. f[n] = ReadFormat(st, text, n) /\ g[n] = ReadOn(r, text, n)
    BY <1>4, <2>2
  <2>6. f[n] = [frames |-> << >>, read |-> g[n]]
    <3>1. CASE EndsLine(text, n) /\ r.line = << >>
      <4>1. r = Unread
        <5>1. n = 1 => r = g[0]
          BY <2>2
        <5>2. n = 2 => r = g[1] /\ 1 \in 1 .. N
          BY <2>1, <2>2
        <5>3. n # 1 => n - 1 \in 1 .. N
          BY <2>1
        <5>4. n # 1 => text[n - 1] \in Ends
          BY <1>6, <2>2, <3>1, <5>3
        <5>5. n = 2 => text[1] \in Ends
          <6>1. 2 - 1 = 1
            OBVIOUS
          <6> QED BY <5>4, <6>1
        <5>6. n \notin 3 .. N
          <6> SUFFICES ASSUME n \in 3 .. N PROVE FALSE
            OBVIOUS
          <6>1. n # 1 /\ n > 1 /\ n \in 3 .. Len(text) /\ text[n] \in Ends
            BY <1>1, <2>1, <3>1 DEF EndsLine
          <6>2. text[n - 1] = "CR" /\ text[n] = "LF"
            BY <5>4, <6>1 DEF Calm
          <6> QED BY <3>1, <6>1, <6>2 DEF EndsLine
        <5>7. n = 1 \/ n = 2
          BY <1>2, <5>6
        <5> QED BY <1>4, <1>7, <5>1, <5>2, <5>5, <5>7
      <4>2. f[n] = [frames |-> Ending(st), read |-> Unread]
        BY <2>4, <2>5, <3>1, ReadFormatIs
      <4>3. Ending(st) = << >>
        <5>1. Ending(st) = << >> \o << >>
          BY <2>4, <4>1, UnreadIs, NoFrame DEF Ending
        <5> QED BY <5>1, EmptySeq, ConcatEmptySeq
      <4>4. g[n] = Unread
        <5>1. g[n] = [lines |-> LinesOf(Unread), line |-> << >>]
          BY <2>5, <3>1, <4>1, ReadOnIs
        <5>2. Unread = [lines |-> << >>, line |-> << >>]
          BY DEF Unread
        <5> QED BY <5>1, <5>2, UnreadIs
      <4> QED BY <4>2, <4>3, <4>4
    <3>2. CASE ~(EndsLine(text, n) /\ r.line = << >>)
      BY <2>4, <2>5, <3>2, ReadFormatIs
    <3> QED BY <3>1, <3>2
  <2>7. p[n] = f[n] /\ q[n] = [frames |-> << >>, read |-> g[n]]
    BY <2>1
  <2> QED BY <2>6, <2>7
<1>10. p[N] = f[N] /\ q[N] = [frames |-> << >>, read |-> g[N]] /\ N \in 0 .. N
  BY <1>2
<1> HIDE DEF p, q
<1>11. p[N] = q[N]
  <2>1. Alike(N, p, q)
    BY <1>8, <1>9 DEF Alike
  <2> QED BY <1>2, <2>1, AlikeAtTheEnd
<1>12. PICK r : r = g[N]
  OBVIOUS
<1>13. f[N] = [frames |-> << >>, read |-> r] /\ r \in ReadStates
  BY <1>4, <1>10, <1>11, <1>12
<1>14. Ending(f[N]) = << >> \o FrameOf(LinesOf(r))
  <2>1. f[N].frames = << >> /\ f[N].read = r
    BY <1>13
  <2> QED BY <2>1 DEF Ending
<1>15. << >> \o FrameOf(LinesOf(r)) = FrameOf(LinesOf(r))
  <2>1. FrameOf(LinesOf(r)) \in Seq(Frames)
    BY <1>13, LinesOfType, FrameType
  <2> QED BY <2>1, ConcatEmptySeq
<1>16. Reference(text) = Ending(f[N])
  BY <1>1, <1>2, ReferenceIs
<1> QED
  BY <1>3, <1>12, <1>14, <1>15, <1>16 DEF ParseFrame

(* A text without a line is no frame.                                      *)
LEMMA NoLines ==
    ASSUME NEW text \in Seq(Text), ToSet(text) \subseteq Ends
    PROVE  ParseFrame(text) = << >>
<1>1. PICK N : N = Len(text)
  OBVIOUS
<1>2. PICK g \in [0 .. N -> ReadStates] : ReadSo(N, g, text) /\ Lines(text) = LinesOf(g[N])
  BY <1>1, LinesAre
<1>3. N \in Nat /\ \A n \in 1 .. N : text[n] \in Ends
  BY <1>1, LenProperties DEF ToSet
<1> DEFINE q == [n \in 0 .. N |-> Unread]
<1>4. Alike(N, g, q)
  <2>1. g[0] = q[0]
    <3>1. 0 \in 0 .. N
      BY <1>3
    <3> QED BY <1>2, <3>1 DEF ReadSo
  <2>2. ASSUME NEW n \in 1 .. N, g[n - 1] = q[n - 1] PROVE g[n] = q[n]
    <3>1. n \in 0 .. N /\ n - 1 \in 0 .. N
      BY <1>3
    <3>2. g[n] = ReadOn(Unread, text, n) /\ q[n] = Unread
      BY <1>2, <2>2, <3>1 DEF ReadSo
    <3>3. Unread = [lines |-> << >>, line |-> << >>]
      BY DEF Unread
    <3>4. ReadOn(Unread, text, n) = Unread
      BY <1>3, <3>3, ReadOnIs, UnreadIs
    <3> QED BY <3>2, <3>4
  <2> HIDE DEF q
  <2> QED BY <2>1, <2>2 DEF Alike
<1>5. q[N] = Unread
  BY <1>3
<1> HIDE DEF q
<1>6. g[N] = Unread
  BY <1>3, <1>4, <1>5, AlikeAtTheEnd
<1> QED
  BY <1>2, <1>6, UnreadIs, NoFrame DEF ParseFrame

-----------------------------------------------------------------------------
(* The frames of the format are those the loop finds.                      *)

(* An LF is before a CR at the beginning only, or inside CR LF CR LF.      *)
Soft(text) ==
    \A j \in 2 .. Len(text) - 1 :
       text[j] = "LF" /\ text[j + 1] = "CR" => CutEnds(text, j - 1)

LEMMA MixedIsSoft ==
    ASSUME NEW text \in Seq(Text), ~MixedBlank(text)
    PROVE  Soft(text)
<1>1. Len(text) \in Nat /\ DOMAIN text = 1 .. Len(text)
  BY LenProperties
<1> SUFFICES ASSUME NEW j \in 2 .. Len(text) - 1, text[j] = "LF", text[j + 1] = "CR"
             PROVE  CutEnds(text, j - 1)
  BY DEF Soft
<1>2. j \in 1 .. Len(text) - 1 /\ j - 1 \in DOMAIN text
  BY <1>1
<1>3. Occurs(CRLFs, text, j - 1)
  BY <1>2 DEF MixedBlank, CRLFs
<1> QED
  BY <1>2, <1>3, OccursIs

(* The text up to the first blank line is calm.                            *)
LEMMA SoftIsCalm ==
    ASSUME NEW text \in Seq(Text), Soft(text), NEW n \in 0 .. Len(text),
           NEW b, Len(b) = n, \A m \in 1 .. n : b[m] = text[m],
           \A j \in DOMAIN text, k \in BlankLines : Occurs(k, text, j) => n < j
    PROVE  Calm(b)
<1>1. Len(text) \in Nat /\ DOMAIN text = 1 .. Len(text) /\ n \in Nat /\ n <= Len(text)
  BY LenProperties
<1>2. SUFFICES ASSUME NEW m \in 3 .. n, b[m - 1] \in Ends, b[m] \in Ends
               PROVE  b[m - 1] = "CR" /\ b[m] = "LF"
  BY DEF Calm
<1>3. PICK c : c = m - 1
  OBVIOUS
<1>4. /\ c \in DOMAIN text /\ c + 1 \in DOMAIN text /\ c - 1 \in DOMAIN text /\ c + 1 = m
      /\ c \in 2 .. Len(text) - 1 /\ c < n /\ c - 1 < n
  BY <1>1, <1>3
<1>5. b[m - 1] = text[c] /\ b[m] = text[c + 1]
  BY <1>1, <1>3, <1>4
<1>6. ~(n < c) /\ ~(n < c - 1)
  BY <1>1, <1>4
<1>7. ~Twice(text, c, "LF") /\ ~Twice(text, c, "CR") /\ ~CutEnds(text, c - 1)
  <2>1. LFs \in BlankLines /\ CRs \in BlankLines /\ CRLFs \in BlankLines
    BY BlankLinesAre
  <2>2. ~Occurs(LFs, text, c) /\ ~Occurs(CRs, text, c) /\ ~Occurs(CRLFs, text, c - 1)
    BY <1>4, <1>6, <2>1
  <2> QED BY <1>4, <2>2, OccursIs
<1>8. ~(text[c] = "LF" /\ text[c + 1] = "CR")
  BY <1>4, <1>7 DEF Soft
<1> QED
  BY <1>2, <1>4, <1>5, <1>7, <1>8 DEF Twice, Ends

LEMMA SoftAfter ==
    ASSUME NEW text \in Seq(Text), Soft(text), NEW N, N = Len(text), NEW m \in 1 .. N,
           NEW b, Follows(b, text, m, N)
    PROVE  Soft(b)
<1>1. /\ N \in Nat /\ DOMAIN text = 1 .. N
      /\ b \in Seq(Text) /\ Len(b) = N - m /\ DOMAIN b = 1 .. N - m
      /\ \A n \in 1 .. N - m : b[n] = text[m + n]
  BY LenProperties DEF Follows
<1>2. SUFFICES ASSUME NEW j \in 2 .. N - m - 1, b[j] = "LF", b[j + 1] = "CR"
               PROVE  CutEnds(b, j - 1)
  BY <1>1 DEF Soft
<1>3. PICK c, d : c = m + j /\ d = j - 1
  OBVIOUS
<1>4. /\ j \in 1 .. N - m /\ j + 1 \in 1 .. N - m /\ d \in 1 .. N - m
      /\ c \in 2 .. Len(text) - 1 /\ m + (j + 1) = c + 1 /\ m + d = c - 1
      /\ j = d + 1
  BY <1>1, <1>3
<1>5. text[c] = "LF" /\ text[c + 1] = "CR"
  BY <1>1, <1>2, <1>3, <1>4
<1>6. CutEnds(text, c - 1)
  BY <1>4, <1>5 DEF Soft
<1>7. PICK e : e = c - 1
  OBVIOUS
<1>8. /\ e + 3 \in 1 .. N
      /\ text[e] = "CR" /\ text[e + 1] = "LF" /\ text[e + 2] = "CR" /\ text[e + 3] = "LF"
  BY <1>1, <1>6, <1>7 DEF CutEnds
<1>9. /\ d + 3 \in 1 .. N - m /\ d + 2 \in 1 .. N - m /\ d + 1 \in 1 .. N - m
      /\ m + d = e /\ m + (d + 1) = e + 1 /\ m + (d + 2) = e + 2 /\ m + (d + 3) = e + 3
  BY <1>1, <1>3, <1>4, <1>7, <1>8
<1>10. CutEnds(b, d)
  BY <1>1, <1>4, <1>8, <1>9 DEF CutEnds
<1> QED
  BY <1>3, <1>10

(* The frames the loop finds, and that of the rest.                        *)
Drained(text) == Drain(text).frames \o ParseFrame(Drain(text).rest)

LEMMA ReferenceEnded ==
    ASSUME NEW text \in Seq(Text), Soft(text), Ended(text)
    PROVE  Reference(text) = Drained(text)
<1>1. PICK n : n = Len(text)
  OBVIOUS
<1>2. n \in Nat /\ n \in 0 .. Len(text)
  BY <1>1, LenProperties
<1>3. ~\E j \in DOMAIN text, k \in BlankLines : Occurs(k, text, j)
  BY FirstExists DEF Ended
<1>4. Calm(text)
  BY <1>1, <1>2, <1>3, SoftIsCalm
<1>5. Drain(text).frames = << >> /\ Drain(text).rest = text
  BY DrainEnded
<1>6. << >> \o ParseFrame(text) = ParseFrame(text)
  BY ParseType, ConcatEmptySeq
<1> QED
  BY <1>4, <1>5, <1>6, CalmIs DEF Drained

LEMMA ReferenceCut ==
    ASSUME NEW text \in Seq(Text), Soft(text), NEW i, NEW l, First(text, i, l),
           Reference(After(text, i, l)) = Drained(After(text, i, l))
    PROVE  Reference(text) = Drained(text)
<1>1. PICK b, p, n : b = Before(text, i) /\ p = ParseFrame(b) /\ n = i - 1
  OBVIOUS
<1>2. PICK d : d = Drain(After(text, i, l))
  OBVIOUS
<1>3. b \in Seq(Text) /\ p \in Seq(Frames)
  BY <1>1, PartsType, ParseType
<1>4. i \in 1 .. Len(text) /\ n \in 0 .. Len(text) /\ Len(text) \in Nat
  BY <1>1, FirstLies, LenProperties
<1>5. Calm(b)
  <2>1. Len(b) = n /\ \A m \in 1 .. n : b[m] = text[m]
    BY <1>1, <1>4, BeginningIs DEF Before
  <2>2. \A j \in DOMAIN text, k \in BlankLines : Occurs(k, text, j) => n < j
    <3>1. \A j \in DOMAIN text : j \in Nat /\ (i <= j => n < j)
      BY <1>1, <1>4, LenProperties
    <3> QED BY <3>1 DEF First
  <2> QED BY <1>4, <2>1, <2>2, SoftIsCalm
<1>6. Reference(b) = p
  BY <1>1, <1>3, <1>5, CalmIs
<1>7. d \in States /\ d.frames \in Seq(Frames) /\ ParseFrame(d.rest) \in Seq(Frames)
  <2>1. d \in States
    BY <1>2, PartsType, DrainType
  <2> QED BY <2>1, ParseType DEF States
<1>8. Reference(text) = p \o (d.frames \o ParseFrame(d.rest))
  BY <1>1, <1>2, <1>6, ReferenceFirst DEF Drained
<1>9. Drain(text).frames = p \o d.frames /\ Drain(text).rest = d.rest
  <2>1. Drain(text) = [frames |-> p \o d.frames, rest |-> d.rest]
    BY <1>1, <1>2, DrainFirst
  <2> QED BY <2>1
<1>10. p \o (d.frames \o ParseFrame(d.rest)) = (p \o d.frames) \o ParseFrame(d.rest)
  <2>1. PICK F, x, y, z : F = Frames /\ x = p /\ y = d.frames /\ z = ParseFrame(d.rest)
    OBVIOUS
  <2>2. x \in Seq(F) /\ y \in Seq(F) /\ z \in Seq(F)
    BY <1>3, <1>7, <2>1
  <2>3. x \o (y \o z) = (x \o y) \o z
    BY <2>2, SMT
  <2> QED BY <2>1, <2>3
<1> QED
  BY <1>8, <1>9, <1>10 DEF Drained

LEMMA ReferenceIsDrained ==
    ASSUME NEW text \in Seq(Text), Soft(text)
    PROVE  Reference(text) = Drained(text)
<1> DEFINE X == {n \in Nat : \A s \in Seq(Text) : Len(s) <= n /\ Soft(s) =>
                                                     Reference(s) = Drained(s)}
<1>0. X \in SUBSET Nat
  OBVIOUS
<1>1. 0 \in X
  <2> SUFFICES ASSUME NEW s \in Seq(Text), Len(s) <= 0, Soft(s)
               PROVE  Reference(s) = Drained(s)
    OBVIOUS
  <2>1. Len(s) <= 1
    BY LenProperties
  <2> QED BY <2>1, ShortEnds, ReferenceEnded
<1>2. ASSUME NEW n \in X PROVE n + 1 \in X
  <2>0. n \in Nat /\ \A s \in Seq(Text) : Len(s) <= n /\ Soft(s) => Reference(s) = Drained(s)
    BY <1>2
  <2> SUFFICES ASSUME NEW s \in Seq(Text), Len(s) <= n + 1, Soft(s)
               PROVE  Reference(s) = Drained(s)
    BY <2>0
  <2>1. CASE Ended(s)
    BY <2>1, ReferenceEnded
  <2>2. CASE ~Ended(s)
    <3>1. PICK i, l : First(s, i, l)
      BY <2>2 DEF Ended
    <3>2. PICK r, x, y, m : /\ r = After(s, i, l) /\ x = Len(r) /\ y = Len(s)
                            /\ m = i + Len(l) - 1
      OBVIOUS
    <3>3. r \in Seq(Text) /\ x \in Nat /\ y \in Nat /\ x + 2 <= y /\ y <= n + 1
      BY <3>1, <3>2, PartsType
    <3>4. x <= n
      BY <2>0, <3>3
    <3>5. Soft(r)
      <4>1. m \in 1 .. y
        <5>1. PICK c : c = Len(l)
          OBVIOUS
        <5>2. i \in 1 .. y /\ c \in {2, 4} /\ i + c <= y + 1
          BY <3>1, <3>2, <5>1, FirstLies
        <5>3. m = i + c - 1
          BY <3>2, <5>1
        <5> QED BY <3>3, <5>2, <5>3
      <4>2. Follows(r, s, m, y)
        BY <3>1, <3>2, AfterFollows
      <4> QED BY <3>2, <4>1, <4>2, SoftAfter
    <3>6. Reference(r) = Drained(r)
      BY <2>0, <3>2, <3>3, <3>4, <3>5
    <3> QED BY <3>1, <3>2, <3>6, ReferenceCut
  <2> QED BY <2>1, <2>2
<1>3. X = Nat
  <2> HIDE DEF X
  <2> QED BY <1>0, <1>1, <1>2, SetInduction
<1>4. Len(text) \in Nat /\ Len(text) <= Len(text)
  BY LenProperties
<1>5. Len(text) \in X
  <2> HIDE DEF X
  <2> QED BY <1>3, <1>4
<1> QED
  BY <1>4, <1>5

-----------------------------------------------------------------------------
(* The decoder, chunk by chunk.                                            *)

(* What is kept is what the bytes so far leave over, cut anywhere.         *)
DecoderInv ==
    /\ body \in Seq(Bytes)
    /\ closed \in BOOLEAN
    /\ ~closed => /\ pending = Decode(<< >>, body).pending
                  /\ frames = Drain(Decode(<< >>, body).text).frames
                  /\ buffer = Drain(Decode(<< >>, body).text).rest

LEMMA ChunksType == Chunks \subseteq Seq(Bytes)
<1> SUFFICES ASSUME NEW chunk \in Chunks PROVE chunk \in Seq(Bytes)
  OBVIOUS
<1>1. PICK n \in 1 .. MaxChunk : chunk \in [1 .. n -> Bytes]
  BY DEF Chunks
<1>2. n \in Nat
  BY DecoderAssumption
<1> QED
  BY <1>1, <1>2, SeqDef

LEMMA NothingDrains == Drain(<< >>) = [frames |-> << >>, rest |-> << >>]
<1>1. << >> \in Seq(Text) /\ Len(<< >>) <= 1
  BY EmptySeq
<1> QED
  BY <1>1, ShortEnds, DrainEnded

LEMMA DecoderStarts == DecoderInit => DecoderInv
<1> SUFFICES ASSUME DecoderInit PROVE DecoderInv
  OBVIOUS
<1>1. << >> \in Pendings /\ << >> \in Seq(Bytes)
  BY EmptySeq DEF Pendings
<1>2. Decode(<< >>, << >>).text = << >> /\ Decode(<< >>, << >>).pending = << >>
  BY <1>1, DecodeNothing
<1>3. PICK w : w = Drain(<< >>)
  OBVIOUS
<1>4. w.frames = << >> /\ w.rest = << >>
  BY <1>3, NothingDrains
<1>5. /\ body \in Seq(Bytes) /\ closed \in BOOLEAN
      /\ pending = Decode(<< >>, body).pending /\ Drain(Decode(<< >>, body).text) = w
      /\ frames = << >> /\ buffer = << >>
  BY <1>1, <1>2, <1>3 DEF DecoderInit
<1> QED
  BY <1>4, <1>5 DEF DecoderInv

(* A chunk adds the frames it completes behind those there are.            *)
LEMMA PushStep ==
    ASSUME DecoderInv, NEW chunk \in Chunks, Push(chunk)
    PROVE  /\ DecoderInv' /\ ~closed'
           /\ frames \in Seq(Frames)
           /\ \E more \in Seq(Frames) : frames' = frames \o more
<1>1. ~closed /\ chunk \in Seq(Bytes) /\ body \in Seq(Bytes)
  BY ChunksType DEF Push, DecoderInv
<1>2. PICK half, more : half = Decode(<< >>, body) /\ more = Decode(half.pending, chunk)
  OBVIOUS
<1>3. /\ pending = half.pending
      /\ frames = Drain(half.text).frames /\ buffer = Drain(half.text).rest
  BY <1>1, <1>2 DEF DecoderInv
<1>4. PICK whole : whole = Decode(<< >>, body \o chunk)
  OBVIOUS
<1>5. whole.text = half.text \o more.text /\ whole.pending = more.pending
  <2>1. << >> \in Pendings
    BY DEF Pendings
  <2> QED BY <1>1, <1>2, <1>4, <2>1, DecodeConcat
<1>6. half.text \in Seq(Text) /\ more.text \in Seq(Text)
  BY <1>1, <1>2, DecodeType
<1>7. PICK d, e : d = Drain(half.text) /\ e = Drain(d.rest \o more.text)
  OBVIOUS
<1>8. Drain(whole.text) = [frames |-> d.frames \o e.frames, rest |-> e.rest]
  <2>1. Splits(half.text)
    BY <1>6, DrainConcat
  <2> QED BY <1>5, <1>6, <1>7, <2>1 DEF Splits
<1>9. d \in States /\ e \in States
  <2>1. d \in States
    BY <1>6, <1>7, DrainType
  <2>2. d.rest \in Seq(Text)
    BY <2>1 DEF States
  <2>3. d.rest \o more.text \in Seq(Text)
    BY <1>6, <2>2, ConcatProperties
  <2> QED BY <1>7, <2>1, <2>3, DrainType
<1>10. d.frames \in Seq(Frames) /\ e.frames \in Seq(Frames)
  BY <1>9 DEF States
<1>11. /\ body' = body \o chunk /\ closed' = closed
       /\ pending' = Decode(pending, chunk).pending
       /\ frames' = frames \o Drain(buffer \o Decode(pending, chunk).text).frames
       /\ buffer' = Drain(buffer \o Decode(pending, chunk).text).rest
  BY DEF Push
<1>12. pending' = more.pending /\ frames' = frames \o e.frames /\ buffer' = e.rest
  BY <1>2, <1>3, <1>7, <1>11
<1>13. frames = d.frames
  BY <1>3, <1>7
<1>14. DecoderInv'
  <2>1. body' \in Seq(Bytes)
    BY <1>1, <1>11, ConcatProperties
  <2>2. Decode(<< >>, body') = whole
    BY <1>4, <1>11
  <2>3. Drain(whole.text).frames = d.frames \o e.frames /\ Drain(whole.text).rest = e.rest
    <3>1. PICK w, x, y : w = Drain(whole.text) /\ x = d.frames \o e.frames /\ y = e.rest
      OBVIOUS
    <3>2. w = [frames |-> x, rest |-> y]
      BY <1>8, <3>1
    <3>3. w.frames = x /\ w.rest = y
      BY <3>2
    <3> QED BY <3>1, <3>3
  <2>4. closed' \in BOOLEAN
    BY <1>11 DEF DecoderInv
  <2> QED
    BY <1>5, <1>12, <1>13, <2>1, <2>2, <2>3, <2>4 DEF DecoderInv
<1> QED
  BY <1>1, <1>10, <1>11, <1>12, <1>13, <1>14

LEMMA CloseStep == DecoderInv /\ Close => DecoderInv' /\ closed'
BY DEF DecoderInv, Close

LEMMA DecoderRests == DecoderInv /\ UNCHANGED decoderVars => DecoderInv'
BY DEF DecoderInv, decoderVars

LEMMA DecoderStep == DecoderInv /\ [Next]_vars => DecoderInv'
<1> SUFFICES ASSUME DecoderInv, [Next]_vars PROVE DecoderInv'
  OBVIOUS
<1>1. CASE \E chunk \in Chunks : ReadChunk(chunk)
  BY <1>1, PushStep DEF ReadChunk
<1>2. CASE BodyEnds
  BY <1>2, CloseStep DEF BodyEnds
<1>3. CASE UNCHANGED decoderVars
  BY <1>3, DecoderRests
<1>4. CASE UNCHANGED vars
  BY <1>4, DecoderRests DEF vars
<1> QED
  BY <1>1, <1>2, <1>3, <1>4
  DEF Next, ChatAnswered, Answered, ChatLost, PostLost, BodyBreaks, ReadDocument

LEMMA DecoderHolds == Spec => []DecoderInv
<1>1. Init => DecoderInv
  BY DecoderStarts DEF Init
<1> QED
  BY <1>1, DecoderStep, PTL DEF Spec

(* However the network cuts a body into chunks, inside a character, a line *)
(* or a blank line, the decoder has returned the frames of the bytes it    *)
(* was given, each once, and keeps exactly what follows them               *)
(* (sse.py:45-70).                                                         *)
THEOREM CutsHold == Spec => []CutsDoNotMatter
<1>1. DecoderInv => CutsDoNotMatter
  <2> SUFFICES ASSUME DecoderInv, ~closed
               PROVE  frames = Drain(Whole).frames /\ buffer = Drain(Whole).rest
    BY DEF CutsDoNotMatter
  <2>1. PICK t : t = Decode(<< >>, body).text
    OBVIOUS
  <2>2. t \in Seq(Text)
    BY <2>1, DecodeType DEF DecoderInv
  <2>3. Whole = t
    BY <2>1, <2>2, ConcatEmptySeq DEF Whole
  <2> QED BY <2>1, <2>3 DEF DecoderInv
<1> QED
  BY <1>1, DecoderHolds, PTL

-----------------------------------------------------------------------------
(* What the decoder has returned once it is closed.                        *)

(* The frames the loop finds in the whole body, and that of the rest.      *)
ClosedInv == closed => Whole \in Seq(Text) /\ frames = Drained(Whole)

LEMMA CloseDrains ==
    ASSUME DecoderInv, Close
    PROVE  ClosedInv' /\ \E more \in Seq(Frames) : frames' = frames \o more
<1>1. PICK half, last, d, e : /\ half = Decode(<< >>, body) /\ last = LastText(half.pending)
                              /\ d = Drain(half.text) /\ e = Drain(d.rest \o last)
  OBVIOUS
<1>2. /\ ~closed /\ closed' /\ body' = body
      /\ pending = half.pending /\ frames = d.frames /\ buffer = d.rest
  BY <1>1 DEF Close, DecoderInv
<1>3. half.text \in Seq(Text) /\ last \in Seq(Text)
  <2>1. half.text \in Seq(Text)
    BY <1>1, DecodeType DEF DecoderInv
  <2>2. "bad" \in Text
    BY DEF Text
  <2>3. << >> \in Seq(Text) /\ <<"bad">> \in Seq(Text)
    BY <2>2, EmptySeq
  <2> QED BY <1>1, <2>1, <2>3 DEF LastText
<1>4. d.frames \in Seq(Frames) /\ d.rest \in Seq(Text)
  BY <1>1, <1>3, DrainType DEF States
<1>5. e.frames \in Seq(Frames) /\ e.rest \in Seq(Text)
  <2>1. d.rest \o last \in Seq(Text)
    BY <1>3, <1>4, ConcatProperties
  <2> QED BY <1>1, <2>1, DrainType DEF States
<1>6. PICK p : p = ParseFrame(e.rest)
  OBVIOUS
<1>7. p \in Seq(Frames)
  BY <1>5, <1>6, ParseType
<1>8. frames' = (d.frames \o e.frames) \o p
  <2>1. frames' = frames \o Drain(buffer \o LastText(pending)).frames
                  \o (IF ToSet(Drain(buffer \o LastText(pending)).rest) \subseteq Ends
                        THEN << >> ELSE ParseFrame(Drain(buffer \o LastText(pending)).rest))
    BY DEF Close
  <2>2. Drain(buffer \o LastText(pending)) = e
    BY <1>1, <1>2
  <2>3. ToSet(e.rest) \subseteq Ends => p = << >>
    BY <1>5, <1>6, NoLines
  <2> QED BY <1>2, <1>6, <2>1, <2>2, <2>3
<1>9. PICK w : w = half.text \o last
  OBVIOUS
<1>10. w \in Seq(Text) /\ Drained(w) = (d.frames \o e.frames) \o p
  <2>1. w \in Seq(Text)
    BY <1>3, <1>9, ConcatProperties
  <2>2. Drain(w) = [frames |-> d.frames \o e.frames, rest |-> e.rest]
    <3>1. Splits(half.text)
      BY <1>3, DrainConcat
    <3> QED BY <1>1, <1>3, <1>9, <3>1 DEF Splits
  <2>3. Drain(w).frames = d.frames \o e.frames /\ Drain(w).rest = e.rest
    <3>1. PICK u, x, y : u = Drain(w) /\ x = d.frames \o e.frames /\ y = e.rest
      OBVIOUS
    <3>2. u = [frames |-> x, rest |-> y]
      BY <2>2, <3>1
    <3>3. u.frames = x /\ u.rest = y
      BY <3>2
    <3> QED BY <3>1, <3>3
  <2> QED BY <1>6, <2>1, <2>3 DEF Drained
<1>11. Whole' = w
  <2>1. Whole' = Decode(<< >>, body').text
                 \o (IF closed' THEN LastText(Decode(<< >>, body').pending) ELSE << >>)
    BY DEF Whole
  <2> QED BY <1>1, <1>2, <1>9, <2>1
<1>12. ClosedInv'
  <2>1. frames' = Drained(w)
    BY <1>8, <1>10
  <2>2. Drained(Whole)' = Drained(Whole')
    BY DEF Drained, Drain, Cut, ParseFrame
  <2> QED BY <1>10, <1>11, <2>1, <2>2 DEF ClosedInv
<1>13. (d.frames \o e.frames) \o p = d.frames \o (e.frames \o p)
  <2>1. PICK F, x, y, z : F = Frames /\ x = d.frames /\ y = e.frames /\ z = p
    OBVIOUS
  <2>2. x \in Seq(F) /\ y \in Seq(F) /\ z \in Seq(F)
    BY <1>4, <1>5, <1>7, <2>1
  <2>3. (x \o y) \o z = x \o (y \o z)
    BY <2>2, SMT
  <2> QED BY <2>1, <2>3
<1>14. e.frames \o p \in Seq(Frames)
  BY <1>5, <1>7, ConcatProperties
<1> QED
  BY <1>2, <1>8, <1>12, <1>13, <1>14

LEMMA ClosedRests == ClosedInv /\ UNCHANGED decoderVars => ClosedInv'
BY DEF ClosedInv, Whole, decoderVars

LEMMA ClosedStep == DecoderInv /\ ClosedInv /\ [Next]_vars => ClosedInv'
<1> SUFFICES ASSUME DecoderInv, ClosedInv, [Next]_vars PROVE ClosedInv'
  OBVIOUS
<1>1. CASE \E chunk \in Chunks : ReadChunk(chunk)
  <2>1. ~closed'
    BY <1>1, PushStep DEF ReadChunk
  <2> QED BY <2>1 DEF ClosedInv
<1>2. CASE BodyEnds
  BY <1>2, CloseDrains DEF BodyEnds
<1>3. CASE UNCHANGED decoderVars
  BY <1>3, ClosedRests
<1>4. CASE UNCHANGED vars
  BY <1>4, ClosedRests DEF vars
<1> QED
  BY <1>1, <1>2, <1>3, <1>4
  DEF Next, ChatAnswered, Answered, ChatLost, PostLost, BodyBreaks, ReadDocument

LEMMA ClosedHolds == Spec => []ClosedInv
<1>1. Init => ClosedInv
  BY DEF Init, DecoderInit, ClosedInv
<1> QED
  BY <1>1, ClosedStep, DecoderHolds, PTL DEF Spec

LEMMA ClosedFrames ==
    ASSUME ClosedInv, closed, ~MixedBlank(Whole)
    PROVE  frames = Reference(Whole)
<1>1. PICK w : w = Whole
  OBVIOUS
<1>2. w \in Seq(Text) /\ ~MixedBlank(w) /\ frames = Drained(w)
  BY <1>1 DEF ClosedInv
<1>3. Reference(w) = Drained(w)
  BY <1>2, MixedIsSoft, ReferenceIsDrained
<1> QED
  BY <1>1, <1>2, <1>3

(* A closed body has been split at its blank lines as the format says,     *)
(* whichever way its lines end and wherever the chunks were cut; the last  *)
(* frame is there although nothing ends it, and so is a bare JSON error    *)
(* body (sse.py:54-132).                                                   *)
THEOREM FormatHolds == Spec => []FramesAreThoseOfTheFormat
<1>1. ClosedInv => FramesAreThoseOfTheFormat
  BY ClosedFrames DEF FramesAreThoseOfTheFormat
<1> QED
  BY <1>1, ClosedHolds, PTL

-----------------------------------------------------------------------------
(* The events of frames.                                                   *)

Kinds == {"parsed", "unknown"}

EventLists(fs) == [i \in DOMAIN fs |-> EventsOf(fs[i])]

LEMMA EventsType == \A frame : EventsOf(frame) \in Seq(Kinds)
<1>1. << >> \in Seq(Kinds) /\ <<"parsed">> \in Seq(Kinds) /\ <<"unknown">> \in Seq(Kinds)
  BY DEF Kinds
<1> QED
  BY <1>1 DEF EventsOf

LEMMA ListsType ==
    ASSUME NEW F, NEW fs \in Seq(F)
    PROVE  /\ EventLists(fs) \in Seq(Seq(Kinds))
           /\ Len(EventLists(fs)) = Len(fs)
           /\ \A i \in 1 .. Len(fs) : EventLists(fs)[i] = EventsOf(fs[i])
<1> DEFINE n == Len(fs)
<1>1. n \in Nat /\ DOMAIN fs = 1 .. n
  BY LenProperties
<1>2. EventLists(fs) \in [1 .. n -> Seq(Kinds)]
  BY <1>1, EventsType DEF EventLists
<1>3. EventLists(fs) \in Seq(Seq(Kinds))
  BY <1>1, <1>2, SeqDef
<1>4. DOMAIN EventLists(fs) = 1 .. n
  BY <1>2
<1>5. Len(EventLists(fs)) = n
  BY <1>1, <1>3, <1>4, LenProperties
<1> QED
  BY <1>1, <1>3, <1>5 DEF EventLists

LEMMA NoEvents == AllEvents(<< >>) = << >>
<1>1. EventLists(<< >>) = << >>
  BY DEF EventLists
<1> QED
  BY <1>1, FlattenEmpty DEF AllEvents, EventLists

LEMMA EventsConcat ==
    ASSUME NEW F, NEW a \in Seq(F), NEW b \in Seq(F)
    PROVE  AllEvents(a \o b) = AllEvents(a) \o AllEvents(b)
<1>1. PICK c, m, n : c = a \o b /\ m = Len(a) /\ n = Len(b)
  OBVIOUS
<1>2. /\ m \in Nat /\ n \in Nat /\ c \in Seq(F) /\ Len(c) = m + n
      /\ \A i \in 1 .. m + n : c[i] = IF i <= m THEN a[i] ELSE b[i - m]
  BY <1>1, ConcatProperties, LenProperties
<1>3. PICK s, t, u : s = EventLists(a) /\ t = EventLists(b) /\ u = EventLists(c)
  OBVIOUS
<1>4. /\ s \in Seq(Seq(Kinds)) /\ Len(s) = m
      /\ \A i \in 1 .. m : s[i] = EventsOf(a[i])
  BY <1>1, <1>3, ListsType
<1>5. /\ t \in Seq(Seq(Kinds)) /\ Len(t) = n
      /\ \A i \in 1 .. n : t[i] = EventsOf(b[i])
  BY <1>1, <1>3, ListsType
<1>6. /\ u \in Seq(Seq(Kinds)) /\ Len(u) = m + n
      /\ \A i \in 1 .. m + n : u[i] = EventsOf(c[i])
  BY <1>2, <1>3, ListsType
<1>7. u = s \o t
  <2>1. PICK v : v = s \o t
    OBVIOUS
  <2>2. /\ v \in Seq(Seq(Kinds)) /\ Len(v) = m + n
        /\ \A i \in 1 .. m + n : v[i] = IF i <= m THEN s[i] ELSE t[i - m]
    <3>1. PICK E : E = Seq(Kinds)
      OBVIOUS
    <3>2. s \in Seq(E) /\ t \in Seq(E)
      BY <1>4, <1>5, <3>1
    <3>3. /\ v \in Seq(E) /\ Len(v) = Len(s) + Len(t)
          /\ \A i \in 1 .. Len(s) + Len(t) :
                v[i] = IF i <= Len(s) THEN s[i] ELSE t[i - Len(s)]
      BY <2>1, <3>2, ConcatProperties
    <3> QED BY <1>4, <1>5, <3>1, <3>3
  <2>3. ASSUME NEW i \in 1 .. m + n PROVE u[i] = v[i]
    <3>1. CASE i <= m
      <4>1. i \in 1 .. m
        BY <1>2, <3>1
      <4>2. c[i] = a[i] /\ v[i] = s[i]
        BY <1>2, <2>2, <3>1
      <4> QED BY <1>4, <1>6, <4>1, <4>2
    <3>2. CASE ~(i <= m)
      <4>1. i - m \in 1 .. n
        BY <1>2, <3>2
      <4>2. c[i] = b[i - m] /\ v[i] = t[i - m]
        BY <1>2, <2>2, <3>2
      <4> QED BY <1>5, <1>6, <4>1, <4>2
    <3> QED BY <3>1, <3>2
  <2>4. Len(u) = Len(v) /\ \A i \in 1 .. Len(u) : u[i] = v[i]
    BY <1>6, <2>2, <2>3
  <2>5. u = v
    BY <1>6, <2>2, <2>4, SeqEqual
  <2> QED BY <2>1, <2>5
<1>8. FlattenSeq(u) = FlattenSeq(s) \o FlattenSeq(t)
  BY <1>4, <1>5, <1>7, FlattenConcat
<1> QED
  BY <1>1, <1>3, <1>8 DEF AllEvents, EventLists

LEMMA Added ==
    ASSUME NEW F, NEW a \in Seq(F), NEW b \in Seq(F)
    PROVE  SubSeq(a \o b, Len(a) + 1, Len(a \o b)) = b
<1>1. PICK c, m, n : c = a \o b /\ m = Len(a) /\ n = Len(b)
  OBVIOUS
<1>2. /\ m \in Nat /\ n \in Nat /\ c \in Seq(F) /\ Len(c) = m + n
      /\ \A i \in 1 .. m + n : c[i] = IF i <= m THEN a[i] ELSE b[i - m]
      /\ \A i \in 1 .. m + n : c[i] \in F
  <2>1. /\ m \in Nat /\ n \in Nat /\ c \in Seq(F) /\ Len(c) = m + n
        /\ \A i \in 1 .. m + n : c[i] = IF i <= m THEN a[i] ELSE b[i - m]
    BY <1>1, ConcatProperties, LenProperties
  <2> QED BY <2>1, ElementOfSeq
<1>3. PICK x, y, d : x = m + 1 /\ y = m + n /\ d = SubSeq(c, x, y)
  OBVIOUS
<1>4. /\ x \in Int /\ y \in Int
      /\ \A i \in x .. y : c[i] \in F
  BY <1>2, <1>3
<1>5. /\ d \in Seq(F) /\ Len(d) = (IF x <= y THEN y - x + 1 ELSE 0)
      /\ \A i \in 1 .. y - x + 1 : d[i] = c[x + i - 1]
  BY <1>3, <1>4, SubSeqProperties
<1>6. Len(d) = n /\ \A i \in 1 .. n : d[i] = b[i]
  <2>1. Len(d) = n
    BY <1>2, <1>3, <1>5
  <2>2. ASSUME NEW i \in 1 .. n PROVE d[i] = b[i]
    <3>1. i \in 1 .. y - x + 1 /\ x + i - 1 = m + i /\ m + i \in 1 .. m + n
          /\ ~(m + i <= m) /\ m + i - m = i
      BY <1>2, <1>3
    <3>2. d[i] = c[m + i]
      BY <1>5, <3>1
    <3>3. c[m + i] = b[m + i - m]
      BY <1>2, <3>1
    <3> QED BY <3>1, <3>2, <3>3
  <2> QED BY <2>1, <2>2
<1>7. d = b
  BY <1>1, <1>5, <1>6, SeqEqual
<1> QED
  BY <1>1, <1>2, <1>3, <1>7

(* Where no frame is odd all are legible; the first odd one stays the      *)
(* first, wherever frames without one stand before it.                     *)
LEMMA LegibleAll == \A fs : ~AnyOdd(fs) => Legible(fs) = fs
BY DEF AnyOdd, Legible

LEMMA LegibleIs ==
    ASSUME NEW F, NEW fs \in Seq(F), AnyOdd(fs)
    PROVE  \E k \in 1 .. Len(fs) :
              /\ IsOdd(fs[k]) /\ \A i \in 1 .. k - 1 : ~IsOdd(fs[i])
              /\ Legible(fs) = SubSeq(fs, 1, k - 1)
<1> DEFINE odd == {i \in DOMAIN fs : IsOdd(fs[i])}
<1>1. DOMAIN fs = 1 .. Len(fs) /\ Len(fs) \in Nat
  BY LenProperties
<1>2. odd \in SUBSET Nat /\ odd # {}
  BY <1>1 DEF AnyOdd
<1>3. \E k \in odd : \A j \in odd : k <= j
  <2> HIDE DEF odd
  <2> QED BY <1>2, LeastNatural
<1>4. PICK k : k = CHOOSE i \in odd : \A j \in odd : i <= j
  OBVIOUS
<1>5. k \in odd /\ \A j \in odd : k <= j
  <2> HIDE DEF odd
  <2> QED BY <1>3, <1>4
<1>6. Legible(fs) = SubSeq(fs, 1, k - 1)
  BY <1>2, <1>4 DEF Legible
<1>7. k \in 1 .. Len(fs) /\ IsOdd(fs[k])
  BY <1>1, <1>5
<1>8. ASSUME NEW i \in 1 .. k - 1 PROVE ~IsOdd(fs[i])
  <2>1. i \in 1 .. Len(fs) /\ ~(k <= i)
    BY <1>1, <1>7
  <2> QED BY <1>1, <1>5, <2>1
<1> QED
  BY <1>6, <1>7, <1>8

LEMMA OddConcat ==
    ASSUME NEW F, NEW a \in Seq(F), NEW b \in Seq(F)
    PROVE  /\ AnyOdd(a \o b) <=> AnyOdd(a) \/ AnyOdd(b)
           /\ Legible(b) \in Seq(F)
           /\ ~AnyOdd(a) => Legible(a \o b) = a \o Legible(b)
<1>1. PICK c, m, n : c = a \o b /\ m = Len(a) /\ n = Len(b)
  OBVIOUS
<1>2. /\ m \in Nat /\ n \in Nat /\ c \in Seq(F) /\ Len(c) = m + n
      /\ DOMAIN a = 1 .. m /\ DOMAIN b = 1 .. n /\ DOMAIN c = 1 .. m + n
      /\ \A i \in 1 .. m + n : c[i] = IF i <= m THEN a[i] ELSE b[i - m]
  <2>1. /\ m \in Nat /\ n \in Nat /\ c \in Seq(F) /\ Len(c) = m + n
        /\ \A i \in 1 .. m + n : c[i] = IF i <= m THEN a[i] ELSE b[i - m]
    BY <1>1, ConcatProperties, LenProperties
  <2>2. DOMAIN a = 1 .. m /\ DOMAIN b = 1 .. n /\ DOMAIN c = 1 .. m + n
    BY <1>1, <2>1, LenProperties
  <2> QED BY <2>1, <2>2
<1>3. \A i \in 1 .. m : i \in 1 .. m + n /\ c[i] = a[i]
  BY <1>2
<1>4. \A i \in 1 .. n : m + i \in 1 .. m + n /\ c[m + i] = b[i]
  <2> TAKE i \in 1 .. n
  <2>1. m + i \in 1 .. m + n /\ ~(m + i <= m) /\ (m + i) - m = i
    BY <1>2
  <2> QED BY <1>2, <2>1
<1>5. AnyOdd(c) <=> AnyOdd(a) \/ AnyOdd(b)
  <2>1. ASSUME AnyOdd(a) \/ AnyOdd(b) PROVE AnyOdd(c)
    BY <1>2, <1>3, <1>4, <2>1 DEF AnyOdd
  <2>2. ASSUME NEW i \in 1 .. m + n, IsOdd(c[i]), ~AnyOdd(a) PROVE AnyOdd(b)
    <3>1. ~(i <= m)
      BY <1>2, <1>3, <2>2 DEF AnyOdd
    <3>2. i - m \in 1 .. n /\ c[i] = b[i - m]
      BY <1>2, <3>1
    <3> QED BY <1>2, <2>2, <3>2 DEF AnyOdd
  <2>3. AnyOdd(c) => \E i \in 1 .. m + n : IsOdd(c[i])
    BY <1>2 DEF AnyOdd
  <2> QED BY <2>1, <2>2, <2>3
<1>6. Legible(b) \in Seq(F)
  <2>1. CASE ~AnyOdd(b)
    BY <2>1, LegibleAll
  <2>2. CASE AnyOdd(b)
    <3>1. PICK k \in 1 .. n : Legible(b) = SubSeq(b, 1, k - 1)
      BY <1>1, <2>2, LegibleIs
    <3>2. \A i \in 1 .. k - 1 : b[i] \in F
      <4>1. \A i \in 1 .. n : b[i] \in F
        BY <1>1, ElementOfSeq
      <4> QED BY <1>2, <3>1, <4>1
    <3>3. 1 \in Int /\ k - 1 \in Int
      BY <1>2, <3>1
    <3> QED BY <3>1, <3>2, <3>3, SubSeqProperties
  <2> QED BY <2>1, <2>2
<1>7. ASSUME ~AnyOdd(a) PROVE Legible(c) = a \o Legible(b)
  <2>1. CASE ~AnyOdd(b)
    BY <1>1, <1>5, <1>7, <2>1, LegibleAll
  <2>2. CASE AnyOdd(b)
    <3>1. PICK k \in 1 .. n : /\ IsOdd(b[k]) /\ \A i \in 1 .. k - 1 : ~IsOdd(b[i])
                              /\ Legible(b) = SubSeq(b, 1, k - 1)
      BY <1>1, <2>2, LegibleIs
    <3>2. PICK l \in 1 .. m + n : /\ IsOdd(c[l]) /\ \A i \in 1 .. l - 1 : ~IsOdd(c[i])
                                  /\ Legible(c) = SubSeq(c, 1, l - 1)
      BY <1>2, <1>5, <2>2, LegibleIs
    <3>3. l = m + k
      <4>1. m + k \in 1 .. m + n /\ IsOdd(c[m + k])
        BY <1>4, <3>1
      <4>2. ~(m + k < l)
        <5>1. m + k < l => m + k \in 1 .. l - 1
          BY <1>2, <3>1, <3>2
        <5> QED BY <3>2, <4>1, <5>1
      <4>3. ~(l <= m)
        <5>1. l <= m => l \in 1 .. m
          BY <1>2, <3>2
        <5> QED BY <1>2, <1>3, <1>7, <3>2, <5>1 DEF AnyOdd
      <4>4. ~(l < m + k)
        <5>1. l < m + k => /\ l - m \in 1 .. k - 1 /\ l - m \in 1 .. n
                           /\ m + (l - m) = l
          BY <1>2, <3>1, <3>2, <4>3
        <5>2. l < m + k => c[l] = b[l - m]
          BY <1>4, <5>1
        <5> QED BY <3>1, <3>2, <5>1, <5>2
      <4> QED BY <1>2, <3>1, <3>2, <4>2, <4>4
    <3>4. PICK s, t, u : s = SubSeq(b, 1, k - 1) /\ t = SubSeq(c, 1, l - 1) /\ u = a \o s
      OBVIOUS
    <3>5. /\ s \in Seq(F) /\ Len(s) = k - 1
          /\ \A i \in 1 .. k - 1 : s[i] = b[i]
      <4>1. \A i \in 1 .. k - 1 : b[i] \in F
        <5>1. \A i \in 1 .. n : b[i] \in F
          BY <1>1, ElementOfSeq
        <5> QED BY <1>2, <3>1, <5>1
      <4>2. 1 \in Int /\ k - 1 \in Int
        BY <1>2, <3>1
      <4>3. /\ s \in Seq(F) /\ Len(s) = (IF 1 <= k - 1 THEN (k - 1) - 1 + 1 ELSE 0)
            /\ \A i \in 1 .. (k - 1) - 1 + 1 : s[i] = b[1 + i - 1]
        BY <3>4, <4>1, <4>2, SubSeqProperties
      <4> QED BY <1>2, <3>1, <4>3
    <3>6. /\ t \in Seq(F) /\ Len(t) = l - 1
          /\ \A i \in 1 .. l - 1 : t[i] = c[i]
      <4>1. \A i \in 1 .. l - 1 : c[i] \in F
        <5>1. \A i \in 1 .. m + n : c[i] \in F
          BY <1>2, ElementOfSeq
        <5> QED BY <1>2, <3>2, <5>1
      <4>2. 1 \in Int /\ l - 1 \in Int
        BY <1>2, <3>2
      <4>3. /\ t \in Seq(F) /\ Len(t) = (IF 1 <= l - 1 THEN (l - 1) - 1 + 1 ELSE 0)
            /\ \A i \in 1 .. (l - 1) - 1 + 1 : t[i] = c[1 + i - 1]
        BY <3>4, <4>1, <4>2, SubSeqProperties
      <4> QED BY <1>2, <3>2, <4>3
    <3>7. /\ u \in Seq(F) /\ Len(u) = m + (k - 1)
          /\ \A i \in 1 .. m + (k - 1) : u[i] = IF i <= m THEN a[i] ELSE s[i - m]
      <4>1. /\ u \in Seq(F) /\ Len(u) = Len(a) + Len(s)
            /\ \A i \in 1 .. Len(a) + Len(s) :
                  u[i] = IF i <= Len(a) THEN a[i] ELSE s[i - Len(a)]
        BY <3>4, <3>5, ConcatProperties
      <4> QED BY <1>1, <3>5, <4>1
    <3>8. ASSUME NEW i \in 1 .. l - 1 PROVE t[i] = u[i]
      <4>1. i \in 1 .. m + (k - 1) /\ i \in 1 .. m + n
        BY <1>2, <3>1, <3>3
      <4>2. CASE i <= m
        BY <1>2, <3>6, <3>7, <4>1, <4>2
      <4>3. CASE ~(i <= m)
        <5>1. i - m \in 1 .. k - 1
          BY <1>2, <3>1, <4>1, <4>3
        <5> QED BY <1>2, <3>5, <3>6, <3>7, <4>1, <4>3, <5>1
      <4> QED BY <4>2, <4>3
    <3>9. Len(t) = Len(u) /\ \A i \in 1 .. Len(t) : t[i] = u[i]
      BY <1>2, <3>1, <3>3, <3>6, <3>7, <3>8
    <3>10. t = u
      BY <3>6, <3>7, <3>9, SeqEqual
    <3> QED BY <3>1, <3>2, <3>4, <3>10
  <2> QED BY <2>1, <2>2
<1> QED
  BY <1>1, <1>5, <1>6, <1>7

-----------------------------------------------------------------------------
(* What has been shown.                                                    *)

(* Before the body nothing is shown; while it is read, and where it broke, *)
(* the events of the legible frames there are; it is only read on where    *)
(* all are.                                                                *)
ShownInv ==
    /\ stage \in {"chat", "post", "document"} =>
          ~closed /\ shown = << >> /\ frames = << >>
    /\ ~closed /\ stage # "done" => shown = AllEvents(Legible(frames))
    /\ stage = "stream" => ~closed /\ ~AnyOdd(frames)

LEMMA NoneOdd == ~AnyOdd(<< >>) /\ Legible(<< >>) = << >>
<1>1. PICK fs : fs = << >>
  OBVIOUS
<1>2. DOMAIN fs = {}
  BY <1>1
<1>3. ~AnyOdd(fs)
  BY <1>2 DEF AnyOdd
<1> QED
  BY <1>1, <1>3, LegibleAll

LEMMA OddRests ==
    /\ AllEvents(Legible(frames))' = AllEvents(Legible(frames'))
    /\ AnyOdd(frames)' <=> AnyOdd(frames')
BY DEF AllEvents, Legible, AnyOdd, IsOdd, EventsOf, Payload

LEMMA ShownStarts == Init => ShownInv
<1> SUFFICES ASSUME Init PROVE ShownInv
  OBVIOUS
<1>1. shown = << >> /\ frames = << >> /\ ~closed
  BY DEF Init, DecoderInit
<1>2. stage # "stream"
  BY DEF Init
<1> QED
  BY <1>1, <1>2, NoEvents, NoneOdd DEF ShownInv

LEMMA ShownReads ==
    ASSUME DecoderInv, ShownInv, NEW chunk \in Chunks, ReadChunk(chunk)
    PROVE  ShownInv'
<1>1. /\ stage = "stream" /\ Push(chunk)
      /\ shown' = shown \o AllEvents(Legible(NewFrames))
      /\ stage' \in {"stream", "failed"}
      /\ stage' = "stream" => ~AnyOdd(NewFrames)
  BY DEF ReadChunk, ParserRaises, Raise
<1>2. ~closed /\ ~closed' /\ frames \in Seq(Frames)
  BY <1>1, PushStep DEF Push
<1>3. PICK more : more \in Seq(Frames) /\ frames' = frames \o more
  BY <1>1, PushStep
<1>4. NewFrames = more
  BY <1>2, <1>3, Added DEF NewFrames
<1>5. ~AnyOdd(frames) /\ shown = AllEvents(frames)
  BY <1>1, <1>2, LegibleAll DEF ShownInv
<1>6. /\ Legible(more) \in Seq(Frames)
      /\ Legible(frames') = frames \o Legible(more)
      /\ AnyOdd(frames') <=> AnyOdd(more)
  BY <1>2, <1>3, <1>5, OddConcat
<1>7. AllEvents(Legible(frames')) = AllEvents(frames) \o AllEvents(Legible(more))
  BY <1>2, <1>6, EventsConcat
<1>8. shown' = AllEvents(Legible(frames'))
  BY <1>1, <1>4, <1>5, <1>7
<1> QED
  BY <1>1, <1>2, <1>4, <1>6, <1>8, OddRests DEF ShownInv

LEMMA ShownStep == DecoderInv /\ ShownInv /\ [Next]_vars => ShownInv'
<1> SUFFICES ASSUME DecoderInv, ShownInv, [Next]_vars PROVE ShownInv'
  OBVIOUS
<1>1. ASSUME NEW code, NEW header, ChatAnswered(code, header) PROVE ShownInv'
  <2>1. stage' \in {"failed", "post"}
    BY <1>1 DEF ChatAnswered, Raise, Proceed
  <2> QED BY <1>1, <2>1, OddRests DEF ChatAnswered, ShownInv, decoderVars
<1>2. ASSUME NEW code, NEW header, Answered(code, header) PROVE ShownInv'
  <2>1. stage' \in {"failed", "stream", "document"}
    BY <1>2 DEF Answered, Refuses, Raise, Proceed
  <2> QED BY <1>2, <2>1, OddRests, NoneOdd DEF Answered, ShownInv, decoderVars
<1>3. ASSUME NEW exc, ChatLost(exc) PROVE ShownInv'
  BY <1>3, OddRests DEF ChatLost, Raise, Proceed, ShownInv, decoderVars
<1>4. ASSUME NEW exc, PostLost(exc) PROVE ShownInv'
  BY <1>4, OddRests DEF PostLost, Raise, ShownInv, decoderVars
<1>5. ASSUME NEW chunk \in Chunks, ReadChunk(chunk) PROVE ShownInv'
  BY <1>5, ShownReads
<1>6. ASSUME NEW exc, BodyBreaks(exc) PROVE ShownInv'
  BY <1>6, OddRests DEF BodyBreaks, Raise, ShownInv, decoderVars
<1>7. CASE BodyEnds
  <2>1. closed' /\ stage' \in {"failed", "done"}
    BY <1>7 DEF BodyEnds, Close, ParserRaises, Conclude, Raise, Proceed
  <2> QED BY <2>1 DEF ShownInv
<1>8. CASE ReadDocument
  <2>1. stage = "document" /\ UNCHANGED decoderVars
    BY <1>8 DEF ReadDocument
  <2>2. frames' = << >> /\ shown = << >>
    BY <2>1 DEF ShownInv, decoderVars
  <2>3. stage' = "done" \/ (stage' = "failed" /\ shown' = << >>)
    BY <1>8, <2>2 DEF ReadDocument, ParserRaises, Conclude, Raise, Proceed
  <2>4. AllEvents(Legible(frames')) = << >>
    BY <2>2, NoEvents, NoneOdd
  <2> QED BY <2>3, <2>4, OddRests DEF ShownInv
<1>9. CASE UNCHANGED vars
  BY <1>9, OddRests DEF vars, exchangeVars, decoderVars, ShownInv
<1> QED
  BY <1>1, <1>2, <1>3, <1>4, <1>5, <1>6, <1>7, <1>8, <1>9 DEF Next

(* A body that breaks off has shown the events of all its complete frames  *)
(* and nothing of the frame it broke in, wherever the chunks were cut: a   *)
(* fail-over repeats nothing half told (client.py:445-461).  A frame the   *)
(* parser raises on ends it there.                                         *)
THEOREM BrokenBodiesHold == Spec => []BrokenBodyIsWhole
<1>1. Spec => []ShownInv
  BY ShownStarts, ShownStep, DecoderHolds, PTL DEF Spec
<1>2. CutsDoNotMatter /\ ShownInv => BrokenBodyIsWhole
  BY DEF CutsDoNotMatter, ShownInv, BrokenBodyIsWhole
<1> QED
  BY <1>1, <1>2, CutsHold, PTL

-----------------------------------------------------------------------------
(* An answer, or none.                                                     *)

(* Frames without an event each are without events.                        *)
LEMMA NothingShown ==
    ASSUME NEW F, NEW fs \in Seq(F)
    PROVE  /\ AllEvents(fs) \in Seq(Kinds)
           /\ AllEvents(fs) = << >> <=> \A i \in DOMAIN fs : EventsOf(fs[i]) = << >>
<1>1. PICK s, N : s = EventLists(fs) /\ N = Len(fs)
  OBVIOUS
<1>2. /\ N \in Nat /\ DOMAIN fs = 1 .. N /\ s \in Seq(Seq(Kinds)) /\ Len(s) = N
      /\ \A i \in 1 .. N : s[i] = EventsOf(fs[i])
  BY <1>1, ListsType, LenProperties
<1>3. PICK g \in [0 .. N -> Seq(Kinds)] : Joins(g, s)
  BY <1>2, JoinsExists
<1>4. /\ g[0] = << >> /\ \A i \in 1 .. N : g[i] = g[i - 1] \o s[i]
      /\ \A i \in 0 .. N : g[i] \in Seq(Kinds)
  BY <1>2, <1>3 DEF Joins
<1>5. AllEvents(fs) = g[N]
  BY <1>1, <1>2, <1>3, FlattenIs DEF AllEvents, EventLists
<1> DEFINE X == {n \in Nat : n <= N => (g[n] = << >> <=> \A i \in 1 .. n : s[i] = << >>)}
<1>6. X \in SUBSET Nat /\ 0 \in X
  BY <1>4
<1>7. ASSUME NEW n \in X PROVE n + 1 \in X
  <2> SUFFICES ASSUME n + 1 <= N
               PROVE  g[n + 1] = << >> <=> \A i \in 1 .. n + 1 : s[i] = << >>
    OBVIOUS
  <2>1. /\ n \in Nat /\ n <= N /\ n \in 0 .. N /\ n + 1 \in 1 .. N /\ (n + 1) - 1 = n
        /\ 1 .. n + 1 = (1 .. n) \union {n + 1}
    <3>1. n \in Nat
      OBVIOUS
    <3>2. n <= N /\ n \in 0 .. N /\ n + 1 \in 1 .. N /\ (n + 1) - 1 = n
      BY <1>2, <3>1
    <3>3. 1 .. n + 1 = (1 .. n) \union {n + 1}
      <4> HIDE DEF X
      <4> QED BY <3>1
    <3> QED BY <3>1, <3>2, <3>3
  <2>2. PICK a, b, m : a = g[n] /\ b = s[n + 1] /\ m = n + 1
    OBVIOUS
  <2>3. a \in Seq(Kinds) /\ b \in Seq(Kinds) /\ g[m] = a \o b
    BY <1>2, <1>4, <2>1, <2>2, ElementOfSeq
  <2>4. a \o b = << >> <=> a = << >> /\ b = << >>
    <3>1. Len(a \o b) = Len(a) + Len(b) /\ Len(a) \in Nat /\ Len(b) \in Nat
          /\ a \o b \in Seq(Kinds)
      BY <2>3, ConcatProperties, LenProperties
    <3>2. /\ a = << >> <=> Len(a) = 0
          /\ b = << >> <=> Len(b) = 0
          /\ a \o b = << >> <=> Len(a \o b) = 0
      BY <2>3, <3>1, EmptySeq
    <3> QED BY <3>1, <3>2
  <2>5. a = << >> <=> \A i \in 1 .. n : s[i] = << >>
    BY <1>7, <2>1, <2>2
  <2> QED BY <2>1, <2>2, <2>3, <2>4, <2>5
<1>8. N \in X
  <2>1. X = Nat
    <3> HIDE DEF X
    <3> QED BY <1>6, <1>7, SetInduction
  <2> HIDE DEF X
  <2> QED BY <1>2, <2>1
<1>9. N <= N /\ N \in 0 .. N
  BY <1>2
<1>10. g[N] = << >> <=> \A i \in 1 .. N : s[i] = << >>
  BY <1>8, <1>9
<1> QED
  BY <1>2, <1>4, <1>5, <1>9, <1>10

(* A body has been shown to its end, and the call ended accordingly.       *)
EndedInv ==
    /\ stage \in {"chat", "post", "stream", "document"} => ~closed
    /\ closed /\ AnyOdd(frames) => stage = "failed" /\ failure = Internal
    /\ closed /\ ~AnyOdd(frames) => IF AllEvents(frames) = << >>
                                      THEN stage = "failed" /\ failure = ParseError
                                      ELSE stage = "done"

LEMMA EndsShown ==
    ASSUME DecoderInv, ShownInv, BodyEnds
    PROVE  EndedInv'
<1>1. /\ stage = "stream" /\ Close
      /\ shown' = shown \o AllEvents(Legible(NewFrames))
      /\ IF AnyOdd(NewFrames) THEN ParserRaises ELSE Conclude
  BY DEF BodyEnds
<1>2. ~closed /\ closed' /\ frames \in Seq(Frames)
  <2>1. frames \in Seq(Frames)
    BY <1>1, DecodeType, DrainType DEF Close, DecoderInv, States
  <2> QED BY <1>1, <2>1 DEF Close
<1>3. PICK more : more \in Seq(Frames) /\ frames' = frames \o more
  BY <1>1, CloseDrains
<1>4. NewFrames = more
  BY <1>2, <1>3, Added DEF NewFrames
<1>5. ~AnyOdd(frames) /\ shown = AllEvents(frames)
  BY <1>1, <1>2, LegibleAll DEF ShownInv
<1>6. AllEvents(frames') = AllEvents(frames) \o AllEvents(more)
  BY <1>2, <1>3, EventsConcat
<1>7. AnyOdd(frames') <=> AnyOdd(more)
  BY <1>2, <1>3, <1>5, OddConcat
<1>8. AllEvents(frames)' = AllEvents(frames')
  BY DEF AllEvents, EventsOf, Payload
<1>9. Internal' = Internal /\ ParseError' = ParseError /\ FromException("ValueError") = Internal
  BY DEF Internal, ParseError, GatewayError, FromException, HttpxTimeouts, OSErrors
<1>10. CASE AnyOdd(more)
  <2>1. stage' = "failed" /\ failure' = Internal
    BY <1>1, <1>4, <1>9, <1>10 DEF ParserRaises, Raise
  <2> QED BY <1>2, <1>7, <1>9, <1>10, <2>1, OddRests DEF EndedInv
<1>11. CASE ~AnyOdd(more)
  <2>1. AllEvents(frames)' = shown'
    BY <1>1, <1>4, <1>5, <1>6, <1>8, <1>11, LegibleAll
  <2>2. IF shown' = << >> THEN stage' = "failed" /\ failure' = ParseError
                          ELSE stage' = "done"
    BY <1>1, <1>4, <1>11 DEF Conclude, Raise, Proceed
  <2> QED BY <1>2, <1>7, <1>9, <1>11, <2>1, <2>2, OddRests DEF EndedInv
<1> QED
  BY <1>10, <1>11

LEMMA EndedStep == DecoderInv /\ ShownInv /\ EndedInv /\ [Next]_vars => EndedInv'
<1> SUFFICES ASSUME DecoderInv, ShownInv, EndedInv, [Next]_vars PROVE EndedInv'
  OBVIOUS
<1>1. ASSUME UNCHANGED decoderVars, ~closed PROVE EndedInv'
  BY <1>1 DEF EndedInv, decoderVars
<1>2. ASSUME NEW code, NEW header, ChatAnswered(code, header) \/ Answered(code, header)
      PROVE  EndedInv'
  BY <1>1, <1>2 DEF ChatAnswered, Answered, EndedInv
<1>3. ASSUME NEW exc, ChatLost(exc) \/ PostLost(exc) \/ BodyBreaks(exc) PROVE EndedInv'
  BY <1>1, <1>3 DEF ChatLost, PostLost, BodyBreaks, EndedInv
<1>4. ASSUME NEW chunk \in Chunks, ReadChunk(chunk) PROVE EndedInv'
  <2>1. ~closed'
    BY <1>4, PushStep DEF ReadChunk
  <2> QED BY <2>1 DEF EndedInv
<1>5. CASE BodyEnds
  BY <1>5, EndsShown
<1>6. CASE ReadDocument
  BY <1>1, <1>6 DEF ReadDocument, EndedInv
<1>7. CASE UNCHANGED vars
  <2>1. ParseError' = ParseError /\ Internal' = Internal
    BY DEF ParseError, Internal, GatewayError
  <2>2. AllEvents(frames)' = AllEvents(frames)
    BY <1>7 DEF vars, decoderVars, AllEvents, EventsOf, Payload
  <2>3. AnyOdd(frames)' <=> AnyOdd(frames)
    BY <1>7, OddRests DEF vars, decoderVars
  <2> QED BY <1>7, <2>1, <2>2, <2>3 DEF EndedInv, vars, decoderVars, exchangeVars
<1> QED
  BY <1>2, <1>3, <1>4, <1>5, <1>6, <1>7 DEF Next

(* A body that ends well is an answer exactly if one of its frames, as the *)
(* format defines them, carries data other than the end marker; an HTML    *)
(* page, or a stream of nothing but [DONE], is a parse error               *)
(* (client.py:463-464, README.md:733).  With a frame the parser raises on  *)
(* it is an internal error.                                                *)
THEOREM MalformedHolds == Spec => []EmptyIsMalformed
<1>1. Init => EndedInv
  <2> SUFFICES ASSUME Init PROVE EndedInv
    OBVIOUS
  <2>1. ~closed
    BY DEF Init, DecoderInit
  <2> QED BY <2>1 DEF EndedInv
<1>2. Spec => []EndedInv
  <2>1. Spec => []ShownInv
    BY ShownStarts, ShownStep, DecoderHolds, PTL DEF Spec
  <2> QED BY <1>1, <2>1, EndedStep, DecoderHolds, PTL DEF Spec
<1>3. ClosedInv /\ EndedInv => EmptyIsMalformed
  <2> SUFFICES ASSUME ClosedInv, EndedInv, closed, ~MixedBlank(Whole)
               PROVE  IF AnyOdd(Reference(Whole))
                        THEN stage = "failed" /\ failure = Internal
                      ELSE IF \E i \in DOMAIN Reference(Whole) :
                            Payload(Reference(Whole)[i]) \notin {<< >>, <<"done">>}
                        THEN stage = "done"
                        ELSE stage = "failed" /\ failure = ParseError
    BY DEF EmptyIsMalformed
  <2>1. PICK fs : fs = frames
    OBVIOUS
  <2>2. Reference(Whole) = fs
    BY <2>1, ClosedFrames
  <2>3. fs \in Seq(Frames)
    <3>1. PICK w : w = Whole
      OBVIOUS
    <3>2. w \in Seq(Text) /\ fs = Drained(w)
      BY <2>1, <3>1 DEF ClosedInv
    <3>3. Drain(w).frames \in Seq(Frames) /\ Drain(w).rest \in Seq(Text)
      BY <3>2, DrainType DEF States
    <3>4. ParseFrame(Drain(w).rest) \in Seq(Frames)
      BY <3>3, ParseType
    <3> QED BY <3>2, <3>3, <3>4, ConcatProperties DEF Drained
  <2>4. \A frame : EventsOf(frame) = << >> <=> Payload(frame) \in {<< >>, <<"done">>}
    BY DEF EventsOf
  <2>5. AllEvents(fs) = << >> <=>
           ~\E i \in DOMAIN fs : Payload(fs[i]) \notin {<< >>, <<"done">>}
    BY <2>3, <2>4, NothingShown
  <2>6. /\ AnyOdd(fs) => stage = "failed" /\ failure = Internal
        /\ ~AnyOdd(fs) => IF AllEvents(fs) = << >>
                             THEN stage = "failed" /\ failure = ParseError
                             ELSE stage = "done"
    BY <2>1 DEF EndedInv
  <2> QED BY <2>2, <2>5, <2>6
<1> QED
  BY <1>2, <1>3, ClosedHolds, PTL

-----------------------------------------------------------------------------
(* Who is blamed.                                                          *)

(* A body is only read after an answer below 400; what failed, failed at   *)
(* upstream, unless it sent what is not foreseen, which ends the call.     *)
BlameInv ==
    /\ stage \in {"stream", "document"} => answered \in Nat /\ answered < 400
    /\ unforeseen \in BOOLEAN
    /\ stage # "failed" => ~unforeseen
    /\ FailureIsUpstreams

LEMMA StatusesBlame ==
    ASSUME NEW code, NEW seconds, NEW f, f = FromUpstreamStatus(code, seconds)
    PROVE  /\ f.category # "internal"
           /\ ~f.retryable => code \in {400, 404}
           /\ code \in {401, 403, 429, 498} =>
                 f.category \in {"authentication", "permission", "rate_limit"}
BY DEF FromUpstreamStatus, InvalidCredential, Forbidden, TimedOut, RateLimited, Refused,
       Unavailable, GatewayError

LEMMA RefusalsBlame ==
    ASSUME NEW code, NEW header, NEW f, f = Refusal(code, header)
    PROVE  /\ f.category = "internal" <=> header.kind = "endless"
           /\ header.kind # "endless" =>
                 /\ ~f.retryable => code \in {400, 404}
                 /\ code \in {401, 403, 429, 498} =>
                       f.category \in {"authentication", "permission", "rate_limit"}
<1>1. CASE header.kind = "endless"
  <2>1. f = FromException("OverflowError")
    BY <1>1 DEF Refusal
  <2>2. f.category = "internal"
    BY <2>1 DEF FromException, HttpxTimeouts, OSErrors, Internal, GatewayError
  <2> QED BY <1>1, <2>2
<1>2. CASE header.kind # "endless"
  <2>1. PICK seconds : f = FromUpstreamStatus(code, seconds)
    BY <1>2 DEF Refusal
  <2> QED BY <1>2, <2>1, StatusesBlame
<1> QED
  BY <1>1, <1>2

LEMMA RaisesInternal ==
    ASSUME ParserRaises
    PROVE  stage' = "failed" /\ failure'.category = "internal" /\ unforeseen'
BY DEF ParserRaises, Raise, FromException, HttpxTimeouts, OSErrors, Internal, GatewayError

LEMMA ExceptionsBlame ==
    ASSUME NEW exc \in HttpxErrors \union OSErrors, NEW f, f = FromException(exc)
    PROVE  f.category # "internal" /\ f.retryable
BY DEF FromException, HttpxErrors, HttpxTimeouts, OSErrors, TimedOut, ParseError, Unreachable,
       GatewayError

LEMMA BlameStep == BlameInv /\ [Next]_vars => BlameInv'
<1> SUFFICES ASSUME BlameInv, [Next]_vars PROVE BlameInv'
  OBVIOUS
<1>0. \A n \in Nat : n < 400 => n \notin {401, 403, 429, 498}
  OBVIOUS
<1>1. ASSUME NEW code \in Statuses, NEW header, ChatAnswered(code, header) PROVE BlameInv'
  <2>1. CASE code \in {401, 403, 429}
    <3>1. /\ stage' = "failed" /\ failure' = Refusal(code, header)
          /\ answered' = code /\ unforeseen' = (header.kind = "endless")
      BY <1>1, <2>1 DEF ChatAnswered, Raise
    <3>2. PICK f : f = Refusal(code, header)
      OBVIOUS
    <3>3. /\ f.category = "internal" <=> header.kind = "endless"
          /\ header.kind # "endless" =>
                /\ ~f.retryable => code \in {400, 404}
                /\ code \in {401, 403, 429, 498} =>
                      f.category \in {"authentication", "permission", "rate_limit"}
      BY <3>2, RefusalsBlame
    <3>4. unforeseen' \in BOOLEAN /\ (unforeseen' <=> header.kind = "endless")
      BY <3>1
    <3>5. FailureIsUpstreams'
      BY <3>1, <3>2, <3>3, <3>4 DEF FailureIsUpstreams
    <3> QED BY <3>1, <3>4, <3>5 DEF BlameInv
  <2>2. CASE code \notin {401, 403, 429}
    <3>1. stage' = "post" /\ stage = "chat" /\ unforeseen' = unforeseen
      BY <1>1, <2>2 DEF ChatAnswered, Proceed
    <3> QED BY <3>1 DEF BlameInv, FailureIsUpstreams
  <2> QED BY <2>1, <2>2
<1>2. ASSUME NEW code \in Statuses, NEW header, Answered(code, header) PROVE BlameInv'
  <2>1. CASE Refuses(code, header)
    <3>1. /\ stage' = "failed" /\ failure' = Refusal(code, header)
          /\ answered' = code /\ unforeseen' = (header.kind = "endless")
      BY <1>2, <2>1 DEF Answered, Refuses, Raise
    <3>2. PICK f : f = Refusal(code, header)
      OBVIOUS
    <3>3. /\ f.category = "internal" <=> header.kind = "endless"
          /\ header.kind # "endless" =>
                /\ ~f.retryable => code \in {400, 404}
                /\ code \in {401, 403, 429, 498} =>
                      f.category \in {"authentication", "permission", "rate_limit"}
      BY <3>2, RefusalsBlame
    <3>4. unforeseen' \in BOOLEAN /\ (unforeseen' <=> header.kind = "endless")
      BY <3>1
    <3>5. FailureIsUpstreams'
      BY <3>1, <3>2, <3>3, <3>4 DEF FailureIsUpstreams
    <3> QED BY <3>1, <3>4, <3>5 DEF BlameInv
  <2>2. CASE ~Refuses(code, header)
    <3>1. /\ stage' \in {"stream", "document"} /\ code < 400 /\ answered' = code /\ code \in Nat
          /\ stage = "post" /\ unforeseen' = unforeseen
      BY <1>2, <2>2, ExchangeAssumption DEF Answered, Proceed
    <3> QED BY <3>1 DEF BlameInv, FailureIsUpstreams
  <2> QED BY <2>1, <2>2
<1>3. ASSUME NEW exc \in Losses, ChatLost(exc) PROVE BlameInv'
  <2>1. CASE exc \in HttpxErrors
    <3>1. stage' = "post" /\ stage = "chat" /\ unforeseen' = unforeseen
      BY <1>3, <2>1 DEF ChatLost, Proceed
    <3> QED BY <3>1 DEF BlameInv, FailureIsUpstreams
  <2>2. CASE exc \notin HttpxErrors
    <3>1. /\ stage' = "failed" /\ failure' = FromException(exc) /\ answered' = 0
          /\ stage = "chat" /\ unforeseen' = unforeseen
      BY <1>3, <2>2 DEF ChatLost, Raise
    <3>2. exc \in HttpxErrors \union OSErrors
      BY ExchangeAssumption
    <3> QED BY <3>1, <3>2, ExceptionsBlame DEF BlameInv, FailureIsUpstreams
  <2> QED BY <2>1, <2>2
<1>4. ASSUME NEW exc \in Losses, PostLost(exc) PROVE BlameInv'
  <2>1. /\ stage' = "failed" /\ failure' = FromException(exc) /\ answered' = 0
        /\ stage = "post" /\ unforeseen' = unforeseen
    BY <1>4 DEF PostLost, Raise
  <2>2. exc \in HttpxErrors \union OSErrors
    BY ExchangeAssumption
  <2> QED BY <2>1, <2>2, ExceptionsBlame DEF BlameInv, FailureIsUpstreams
<1>5. ASSUME NEW chunk, ReadChunk(chunk) PROVE BlameInv'
  <2>1. stage = "stream" /\ answered' = answered
    BY <1>5 DEF ReadChunk
  <2>2. ParserRaises \/ UNCHANGED <<stage, failure, unforeseen>>
    BY <1>5 DEF ReadChunk
  <2>3. CASE ParserRaises
    <3>1. stage' = "failed" /\ failure'.category = "internal" /\ unforeseen' = TRUE
      BY <2>3, RaisesInternal DEF ParserRaises
    <3> QED BY <2>1, <3>1 DEF BlameInv, FailureIsUpstreams
  <2>4. CASE UNCHANGED <<stage, failure, unforeseen>>
    BY <2>1, <2>4 DEF BlameInv, FailureIsUpstreams
  <2> QED BY <2>2, <2>3, <2>4
<1>6. ASSUME NEW exc \in Breaks, BodyBreaks(exc) PROVE BlameInv'
  <2>1. /\ stage \in {"stream", "document"} /\ answered' = answered
        /\ stage' = "failed" /\ failure' = FromException(exc) /\ unforeseen' = unforeseen
    BY <1>6 DEF BodyBreaks, Raise
  <2>2. exc \in HttpxErrors \union OSErrors
    BY ExchangeAssumption
  <2>3. answered' \notin {401, 403, 429, 498}
    BY <1>0, <2>1 DEF BlameInv
  <2> QED BY <2>1, <2>2, <2>3, ExceptionsBlame DEF BlameInv, FailureIsUpstreams
<1>7. CASE BodyEnds \/ ReadDocument
  <2>1. /\ stage \in {"stream", "document"} /\ answered' = answered
        /\ ParserRaises \/ (Conclude /\ UNCHANGED unforeseen)
    BY <1>7 DEF BodyEnds, ReadDocument
  <2>2. answered' \notin {401, 403, 429, 498}
    BY <1>0, <2>1 DEF BlameInv
  <2>3. ParseError.category = "parse" /\ ParseError.retryable
    BY DEF ParseError, GatewayError
  <2>4. CASE ParserRaises
    BY <2>1, <2>4, RaisesInternal DEF BlameInv, FailureIsUpstreams
  <2>5. CASE Conclude /\ UNCHANGED unforeseen
    <3>1. stage' = "done" \/ (stage' = "failed" /\ failure' = ParseError)
      BY <2>5 DEF Conclude, Raise, Proceed
    <3> QED BY <2>1, <2>2, <2>3, <2>5, <3>1 DEF BlameInv, FailureIsUpstreams
  <2> QED BY <2>1, <2>4, <2>5
<1>8. CASE UNCHANGED vars
  BY <1>8 DEF vars, exchangeVars, BlameInv, FailureIsUpstreams
<1> QED
  BY <1>1, <1>2, <1>3, <1>4, <1>5, <1>6, <1>7, <1>8 DEF Next

(* However a call fails, the gateway blames itself exactly if upstream     *)
(* sent an endless Retry-After or JSON the parser raises on.  Otherwise    *)
(* upstream is blamed; a refusal of the credential or a throttling counts  *)
(* as such, from the first request as from the second; only a request      *)
(* upstream holds invalid is not retried (errors.py:228-294).              *)
THEOREM BlameHolds == Spec => []FailureIsUpstreams
<1>1. Init => BlameInv
  BY DEF Init, BlameInv, FailureIsUpstreams
<1>2. BlameInv => FailureIsUpstreams
  BY DEF BlameInv
<1> QED
  BY <1>1, <1>2, BlameStep, PTL DEF Spec

-----------------------------------------------------------------------------
(***************************************************************************)
(* ChatStream.                                                             *)
(*                                                                         *)
(* What complete() makes of the events and what a client makes of the      *)
(* chunks are both defined from the left, one element at a time.  It is    *)
(* shown first that one more element is one more step, and then, by the    *)
(* steps of the turn, that the two stay side by side.                      *)
(***************************************************************************)

(* One more event, one more chunk.                                         *)

Total(es) ==
    LET after[n \in 0 .. Len(es)] ==
          IF n = 0 THEN EmptyResult ELSE Aggregated(after[n - 1], es[n])
    IN after[Len(es)]

Read(cs) ==
    LET after[n \in 0 .. Len(cs)] ==
          IF n = 0 THEN NoMessage ELSE Received(after[n - 1], cs[n])
    IN after[Len(cs)]

LEMMA FoldsAre == Complete = Total(events) /\ Reassembled = Read(yielded)
BY DEF Complete, Total, Reassembled, Read

Totals(N, f, es) ==
    /\ f[0] = EmptyResult
    /\ \A n \in 1 .. N : f[n] = Aggregated(f[n - 1], es[n])

Reads(N, f, cs) ==
    /\ f[0] = NoMessage
    /\ \A n \in 1 .. N : f[n] = Received(f[n - 1], cs[n])

LEMMA TotalsExist ==
    ASSUME NEW N \in Nat, NEW es
    PROVE  \E f : f = [i \in 0 .. N |-> f[i]] /\ Totals(N, f, es)
<1> DEFINE X == {n \in Nat : \E f : f = [i \in 0 .. n |-> f[i]] /\ Totals(n, f, es)}
<1>0. X \in SUBSET Nat
  OBVIOUS
<1>1. 0 \in X
  <2>1. PICK f : f = [i \in 0 .. 0 |-> EmptyResult]
    OBVIOUS
  <2>2. f = [i \in 0 .. 0 |-> f[i]] /\ Totals(0, f, es)
    BY <2>1 DEF Totals
  <2> QED BY <2>2
<1>2. ASSUME NEW n \in X PROVE n + 1 \in X
  <2>1. n \in Nat
    OBVIOUS
  <2>2. PICK f : f = [i \in 0 .. n |-> f[i]] /\ Totals(n, f, es)
    BY <1>2
  <2>3. PICK g : g = [i \in 0 .. n + 1 |-> IF i = n + 1 THEN Aggregated(f[n], es[n + 1])
                                                      ELSE f[i]]
    OBVIOUS
  <2>4. g[n + 1] = Aggregated(f[n], es[n + 1]) /\ \A i \in 0 .. n : g[i] = f[i]
    BY <2>1, <2>3
  <2>5. g = [i \in 0 .. n + 1 |-> g[i]]
    BY <2>3
  <2>6. g[0] = EmptyResult
    BY <2>1, <2>2, <2>4 DEF Totals
  <2>7. ASSUME NEW i \in 1 .. n + 1 PROVE g[i] = Aggregated(g[i - 1], es[i])
    <3>1. CASE i = n + 1
      <4>1. i - 1 = n /\ n \in 0 .. n
        BY <2>1, <3>1
      <4> QED BY <2>4, <3>1, <4>1
    <3>2. CASE i # n + 1
      <4>1. i \in 1 .. n /\ i \in 0 .. n /\ i - 1 \in 0 .. n
        BY <2>1, <3>2
      <4> QED BY <2>2, <2>4, <4>1 DEF Totals
    <3> QED BY <3>1, <3>2
  <2>8. Totals(n + 1, g, es)
    BY <2>6, <2>7 DEF Totals
  <2> QED BY <2>1, <2>5, <2>8
<1>3. X = Nat
  <2> HIDE DEF X
  <2> QED BY <1>0, <1>1, <1>2, SetInduction
<1> QED
  BY <1>3

LEMMA TotalIs ==
    ASSUME NEW es, Len(es) \in Nat, NEW f, Totals(Len(es), f, es)
    PROVE  Total(es) = f[Len(es)]
<1>1. PICK N : N = Len(es)
  OBVIOUS
<1> DEFINE Def(r) == r = [n \in 0 .. N |-> IF n = 0 THEN EmptyResult
                                           ELSE Aggregated(r[n - 1], es[n])]
           h == [n \in 0 .. N |-> f[n]]
           g == CHOOSE r : Def(r)
<1>2. N \in Nat /\ f[0] = EmptyResult /\ \A n \in 1 .. N : f[n] = Aggregated(f[n - 1], es[n])
  BY <1>1 DEF Totals
<1>3. Def(h)
  <2>1. ASSUME NEW n \in 0 .. N
        PROVE  h[n] = IF n = 0 THEN EmptyResult ELSE Aggregated(h[n - 1], es[n])
    <3>1. CASE n = 0
      BY <1>2, <3>1
    <3>2. CASE n # 0
      <4>1. n \in 1 .. N /\ n - 1 \in 0 .. N
        BY <1>2, <3>2
      <4>2. h[n] = f[n] /\ h[n - 1] = f[n - 1]
        BY <4>1
      <4> QED BY <1>2, <3>2, <4>1, <4>2
    <3> QED BY <3>1, <3>2
  <2> QED BY <2>1
<1>4. Def(g)
  <2> HIDE DEF h
  <2> QED BY <1>3
<1>5. Total(es) = g[N]
  BY <1>1 DEF Total
<1>6. Alike(N, g, f)
  <2>1. g[0] = EmptyResult
    <3>1. 0 \in 0 .. N
      BY <1>2
    <3> HIDE DEF g
    <3> QED BY <1>4, <3>1
  <2>2. ASSUME NEW n \in 1 .. N PROVE g[n] = Aggregated(g[n - 1], es[n])
    <3>1. n \in 0 .. N /\ n # 0
      BY <1>2
    <3> HIDE DEF g
    <3> QED BY <1>4, <3>1
  <2> HIDE DEF g
  <2> QED BY <1>2, <2>1, <2>2 DEF Alike
<1> QED
  <2> HIDE DEF g
  <2> QED BY <1>1, <1>2, <1>5, <1>6, AlikeAtTheEnd

LEMMA TotalEmpty == Total(<< >>) = EmptyResult
<1>1. PICK f : Totals(0, f, << >>)
  BY TotalsExist
<1>2. PICK e : e = << >>
  OBVIOUS
<1>3. Len(e) = 0
  BY <1>2
<1>4. Total(e) = f[Len(e)]
  BY <1>1, <1>2, <1>3, TotalIs
<1> QED
  BY <1>1, <1>2, <1>3, <1>4 DEF Totals

LEMMA TotalAppend ==
    ASSUME NEW S, NEW es \in Seq(S), NEW e \in S
    PROVE  Total(Append(es, e)) = Aggregated(Total(es), e)
<1>1. PICK n, t : n = Len(es) /\ t = Append(es, e)
  OBVIOUS
<1>2. n \in Nat /\ Len(t) = n + 1 /\ t[n + 1] = e /\ \A i \in 1 .. n : t[i] = es[i]
  BY <1>1, AppendProperties, LenProperties
<1>3. n + 1 \in Nat
  BY <1>2
<1>4. PICK f : Totals(n + 1, f, t)
  BY <1>3, TotalsExist
<1>5. Total(t) = f[n + 1]
  BY <1>2, <1>3, <1>4, TotalIs
<1>6. f[n + 1] = Aggregated(f[n], e)
  <2>1. n + 1 \in 1 .. n + 1 /\ (n + 1) - 1 = n
    BY <1>2
  <2> QED BY <1>2, <1>4, <2>1 DEF Totals
<1>7. Totals(n, f, es)
  <2>1. \A i \in 1 .. n : i \in 1 .. n + 1
    BY <1>2
  <2> QED BY <1>2, <1>4, <2>1 DEF Totals
<1>8. Total(es) = f[n]
  BY <1>1, <1>2, <1>7, TotalIs
<1> QED
  BY <1>1, <1>5, <1>6, <1>8

LEMMA ReadsExist ==
    ASSUME NEW N \in Nat, NEW cs
    PROVE  \E f : f = [i \in 0 .. N |-> f[i]] /\ Reads(N, f, cs)
<1> DEFINE X == {n \in Nat : \E f : f = [i \in 0 .. n |-> f[i]] /\ Reads(n, f, cs)}
<1>0. X \in SUBSET Nat
  OBVIOUS
<1>1. 0 \in X
  <2>1. PICK f : f = [i \in 0 .. 0 |-> NoMessage]
    OBVIOUS
  <2>2. f = [i \in 0 .. 0 |-> f[i]] /\ Reads(0, f, cs)
    BY <2>1 DEF Reads
  <2> QED BY <2>2
<1>2. ASSUME NEW n \in X PROVE n + 1 \in X
  <2>1. n \in Nat
    OBVIOUS
  <2>2. PICK f : f = [i \in 0 .. n |-> f[i]] /\ Reads(n, f, cs)
    BY <1>2
  <2>3. PICK g : g = [i \in 0 .. n + 1 |-> IF i = n + 1 THEN Received(f[n], cs[n + 1])
                                                      ELSE f[i]]
    OBVIOUS
  <2>4. g[n + 1] = Received(f[n], cs[n + 1]) /\ \A i \in 0 .. n : g[i] = f[i]
    BY <2>1, <2>3
  <2>5. g = [i \in 0 .. n + 1 |-> g[i]]
    BY <2>3
  <2>6. g[0] = NoMessage
    BY <2>1, <2>2, <2>4 DEF Reads
  <2>7. ASSUME NEW i \in 1 .. n + 1 PROVE g[i] = Received(g[i - 1], cs[i])
    <3>1. CASE i = n + 1
      <4>1. i - 1 = n /\ n \in 0 .. n
        BY <2>1, <3>1
      <4> QED BY <2>4, <3>1, <4>1
    <3>2. CASE i # n + 1
      <4>1. i \in 1 .. n /\ i \in 0 .. n /\ i - 1 \in 0 .. n
        BY <2>1, <3>2
      <4> QED BY <2>2, <2>4, <4>1 DEF Reads
    <3> QED BY <3>1, <3>2
  <2>8. Reads(n + 1, g, cs)
    BY <2>6, <2>7 DEF Reads
  <2> QED BY <2>1, <2>5, <2>8
<1>3. X = Nat
  <2> HIDE DEF X
  <2> QED BY <1>0, <1>1, <1>2, SetInduction
<1> QED
  BY <1>3

LEMMA ReadIs ==
    ASSUME NEW cs, Len(cs) \in Nat, NEW f, Reads(Len(cs), f, cs)
    PROVE  Read(cs) = f[Len(cs)]
<1>1. PICK N : N = Len(cs)
  OBVIOUS
<1> DEFINE Def(r) == r = [n \in 0 .. N |-> IF n = 0 THEN NoMessage
                                           ELSE Received(r[n - 1], cs[n])]
           h == [n \in 0 .. N |-> f[n]]
           g == CHOOSE r : Def(r)
<1>2. N \in Nat /\ f[0] = NoMessage /\ \A n \in 1 .. N : f[n] = Received(f[n - 1], cs[n])
  BY <1>1 DEF Reads
<1>3. Def(h)
  <2>1. ASSUME NEW n \in 0 .. N
        PROVE  h[n] = IF n = 0 THEN NoMessage ELSE Received(h[n - 1], cs[n])
    <3>1. CASE n = 0
      BY <1>2, <3>1
    <3>2. CASE n # 0
      <4>1. n \in 1 .. N /\ n - 1 \in 0 .. N
        BY <1>2, <3>2
      <4>2. h[n] = f[n] /\ h[n - 1] = f[n - 1]
        BY <4>1
      <4> QED BY <1>2, <3>2, <4>1, <4>2
    <3> QED BY <3>1, <3>2
  <2> QED BY <2>1
<1>4. Def(g)
  <2> HIDE DEF h
  <2> QED BY <1>3
<1>5. Read(cs) = g[N]
  BY <1>1 DEF Read
<1>6. Alike(N, g, f)
  <2>1. g[0] = NoMessage
    <3>1. 0 \in 0 .. N
      BY <1>2
    <3> HIDE DEF g
    <3> QED BY <1>4, <3>1
  <2>2. ASSUME NEW n \in 1 .. N PROVE g[n] = Received(g[n - 1], cs[n])
    <3>1. n \in 0 .. N /\ n # 0
      BY <1>2
    <3> HIDE DEF g
    <3> QED BY <1>4, <3>1
  <2> HIDE DEF g
  <2> QED BY <1>2, <2>1, <2>2 DEF Alike
<1> QED
  <2> HIDE DEF g
  <2> QED BY <1>1, <1>2, <1>5, <1>6, AlikeAtTheEnd

LEMMA ReadEmpty == Read(<< >>) = NoMessage
<1>1. PICK f : Reads(0, f, << >>)
  BY ReadsExist
<1>2. PICK e : e = << >>
  OBVIOUS
<1>3. Len(e) = 0
  BY <1>2
<1>4. Read(e) = f[Len(e)]
  BY <1>1, <1>2, <1>3, ReadIs
<1> QED
  BY <1>1, <1>2, <1>3, <1>4 DEF Reads

LEMMA ReadAppend ==
    ASSUME NEW S, NEW cs \in Seq(S), NEW e \in S
    PROVE  Read(Append(cs, e)) = Received(Read(cs), e)
<1>1. PICK n, t : n = Len(cs) /\ t = Append(cs, e)
  OBVIOUS
<1>2. n \in Nat /\ Len(t) = n + 1 /\ t[n + 1] = e /\ \A i \in 1 .. n : t[i] = cs[i]
  BY <1>1, AppendProperties, LenProperties
<1>3. n + 1 \in Nat
  BY <1>2
<1>4. PICK f : Reads(n + 1, f, t)
  BY <1>3, ReadsExist
<1>5. Read(t) = f[n + 1]
  BY <1>2, <1>3, <1>4, ReadIs
<1>6. f[n + 1] = Received(f[n], e)
  <2>1. n + 1 \in 1 .. n + 1 /\ (n + 1) - 1 = n
    BY <1>2
  <2> QED BY <1>2, <1>4, <2>1 DEF Reads
<1>7. Reads(n, f, cs)
  <2>1. \A i \in 1 .. n : i \in 1 .. n + 1
    BY <1>2
  <2> QED BY <1>2, <1>4, <2>1 DEF Reads
<1>8. Read(cs) = f[n]
  BY <1>1, <1>2, <1>7, ReadIs
<1> QED
  BY <1>1, <1>5, <1>6, <1>8

(* Short sequences, which the provers do not put together.                 *)
LEMMA PairIs ==
    ASSUME NEW F, NEW x \in F, NEW y \in F
    PROVE  <<x>> \o <<y>> = <<x, y>>
<1>1. PICK s, t : s = <<x>> \o <<y>> /\ t = <<x, y>>
  OBVIOUS
<1>2. t \in Seq(F) /\ Len(t) = 2 /\ t[1] = x /\ t[2] = y
  BY <1>1
<1>3. PICK a, b : a = <<x>> /\ b = <<y>>
  OBVIOUS
<1>4. a \in Seq(F) /\ b \in Seq(F) /\ Len(a) = 1 /\ Len(b) = 1 /\ a[1] = x /\ b[1] = y
  BY <1>3
<1>5. s \in Seq(F) /\ Len(s) = 2 /\ s[1] = x /\ s[2] = y
  <2>1. s = a \o b
    BY <1>1, <1>3
  <2>2. /\ s \in Seq(F) /\ Len(s) = 2
        /\ \A i \in 1 .. 2 : s[i] = IF i <= 1 THEN a[i] ELSE b[i - 1]
    BY <1>4, <2>1, ConcatProperties
  <2> QED BY <1>4, <2>2
<1>6. \A i \in 1 .. 2 : s[i] = t[i]
  BY <1>2, <1>5
<1> QED
  BY <1>1, <1>2, <1>5, <1>6, SeqEqual

-----------------------------------------------------------------------------
(* Types.                                                                  *)

Heads    == [id : Nat, name : STRING]
Finishes == Reasons \union {"none", "stop", "tool_calls"}
Values   == Nat \union Finishes \union Heads \union Seq(Nat)
ChatKinds    == {"role", "content", "reasoning", "call", "arguments", "final", "usage",
             "error", "[DONE]"}
ChatFrames   == [kind : ChatKinds, index : Nat, value : Values]
CallType == [id : Nat, index : Nat, name : STRING, arguments : Seq(Nat)]
Results  == [content : Seq(Nat), reasoning : Seq(Nat), calls : Seq(CallType),
             usage : Nat, finish : Finishes, error : BOOLEAN]
Events   == [type : {"text", "reasoning", "error"} \union Plain, value : Nat]
            \union [type : {"tool_call"}, value : Calls]
            \union [type : {"done"}, value : Reasons]

ChatTypes ==
    /\ events \in Seq(Events)
    /\ result \in Results
    /\ indexes \in Seq(Nat)
    /\ started \subseteq Nat
    /\ emitted \in BOOLEAN
    /\ yielded \in Seq(ChatFrames)
    /\ verdict \in {"open", "success", "parse_error", "upstream_error"}

LEMMA CallsAre ==
    ASSUME NEW c \in Calls
    PROVE  /\ c \in CallType /\ c.id \in Nat /\ c.index \in Nat /\ c.name \in STRING
           /\ c.arguments \in Seq(Nat) /\ c.arguments # << >>
BY TurnAssumption DEF CallType

LEMMA ValuesAre ==
    /\ \A n \in Nat : n \in Values
    /\ \A s \in Finishes : s \in Values
    /\ \A h \in Heads : h \in Values
    /\ \A s \in Seq(Nat) : s \in Values
BY DEF Values

LEMMA ChunkType ==
    ASSUME NEW kind \in ChatKinds, NEW index \in Nat, NEW value \in Values
    PROVE  /\ Chunk(kind, index, value) \in ChatFrames
           /\ Chunk(kind, index, value).kind = kind
           /\ Chunk(kind, index, value).index = index
           /\ Chunk(kind, index, value).value = value
BY DEF Chunk, ChatFrames

LEMMA PayloadsType ==
    ASSUME events \in Seq(Events), NEW e \in Payloads
    PROVE  /\ e \in Events
           /\ e.type \in {"text", "reasoning", "tool_call"} \union Plain
<1>1. Len(events) \in Nat
  BY LenProperties
<1>2. CASE e = Event("text", Len(events)) \/ e = Event("reasoning", Len(events))
  BY <1>1, <1>2 DEF Event, Events
<1>3. CASE \E c \in Calls : e = Event("tool_call", c)
  BY <1>3 DEF Event, Events
<1>4. CASE \E t \in Plain : e = Event(t, Len(events))
  BY <1>1, <1>4 DEF Event, Events
<1> QED
  BY <1>2, <1>3, <1>4 DEF Payloads

LEMMA EventsAre ==
    ASSUME NEW e \in Events
    PROVE  /\ e.type \in {"text", "reasoning", "error", "tool_call", "done"} \union Plain
           /\ e.type \in {"text", "reasoning", "error"} \union Plain => e.value \in Nat
           /\ e.type = "tool_call" => e.value \in Calls
           /\ e.type = "done" => e.value \in Finishes
           /\ Plain \intersect {"text", "reasoning", "error", "tool_call", "done"} = {}
BY TurnAssumption DEF Events, Finishes

LEMMA MergeType ==
    ASSUME NEW calls \in Seq(CallType), NEW c \in CallType
    PROVE  MergeCall(calls, c) \in Seq(CallType)
<1> DEFINE same == {i \in DOMAIN calls : SameCall(calls[i], c)}
           Merged(i) == [calls EXCEPT ![i].name = IF c.name # "" THEN c.name ELSE @,
                                      ![i].arguments =
                                         IF c.arguments # <<>> THEN c.arguments ELSE @]
<1>1. ASSUME NEW i PROVE Merged(i) \in Seq(CallType)
  <2>1. PICK n \in Nat : calls \in [1 .. n -> CallType]
    BY SeqDef
  <2>2. PICK N, S, D : N = Seq(Nat) /\ S = STRING /\ D = 1 .. n
    OBVIOUS
  <2>3. CallType = [id : Nat, index : Nat, name : S, arguments : N]
    BY <2>2 DEF CallType
  <2>4. c.name \in S /\ c.arguments \in N /\ calls \in [D -> CallType]
    BY <2>1, <2>2, <2>3
  <2>5. Merged(i) \in [D -> CallType]
    BY <2>3, <2>4
  <2>6. Merged(i) \in [1 .. n -> CallType]
    BY <2>2, <2>5
  <2>7. PICK m : m = Merged(i)
    OBVIOUS
  <2>8. m \in [1 .. n -> CallType]
    BY <2>6, <2>7
  <2>9. m \in Seq(CallType)
    <3> HIDE DEF Merged
    <3>1. PICK C : C = CallType
      OBVIOUS
    <3>2. n \in Nat /\ m \in [1 .. n -> C]
      BY <2>8, <3>1
    <3>3. m \in Seq(C)
      BY <3>2, SeqDef
    <3> QED BY <3>1, <3>3
  <2> QED BY <2>7, <2>9
<1>2. Append(calls, c) \in Seq(CallType)
  BY AppendProperties
<1>3. MergeCall(calls, c) = IF same = {} THEN Append(calls, c)
                            ELSE Merged(CHOOSE k \in same : \A n \in same : k <= n)
  BY DEF MergeCall
<1> QED
  <2> HIDE DEF Merged, same
  <2> QED BY <1>1, <1>2, <1>3

LEMMA AggregatedType ==
    ASSUME NEW r \in Results, NEW e \in Events
    PROVE  Aggregated(r, e) \in Results
<1>1. /\ r.content \in Seq(Nat) /\ r.reasoning \in Seq(Nat) /\ r.calls \in Seq(CallType)
      /\ r.usage \in Nat /\ r.finish \in Finishes /\ r.error \in BOOLEAN
  BY DEF Results
<1>2. CASE e.type = "text"
  <2>1. Append(r.content, e.value) \in Seq(Nat)
    BY <1>1, <1>2, EventsAre, AppendProperties
  <2> QED BY <1>2, <2>1 DEF Aggregated, Results
<1>3. CASE e.type = "reasoning"
  <2>1. Append(r.reasoning, e.value) \in Seq(Nat)
    BY <1>1, <1>3, EventsAre, AppendProperties
  <2> QED BY <1>3, <2>1 DEF Aggregated, Results
<1>4. CASE e.type = "tool_call"
  <2>1. MergeCall(r.calls, e.value) \in Seq(CallType)
    BY <1>1, <1>4, EventsAre, CallsAre, MergeType
  <2> QED BY <1>4, <2>1 DEF Aggregated, Results
<1>5. CASE e.type = "usage"
  <2>1. e.value \in Nat
    BY <1>5, EventsAre
  <2> QED BY <1>5, <2>1 DEF Aggregated, Results
<1>6. CASE e.type = "error"
  BY <1>6 DEF Aggregated, Results
<1>7. CASE e.type = "done"
  <2>1. e.value \in Finishes
    BY <1>7, EventsAre
  <2> QED BY <1>7, <2>1 DEF Aggregated, Results
<1>8. CASE e.type \notin {"text", "reasoning", "tool_call", "usage", "error", "done"}
  BY <1>8 DEF Aggregated
<1> QED
  BY <1>2, <1>3, <1>4, <1>5, <1>6, <1>7, <1>8

LEMMA EmptyType == EmptyResult \in Results
<1>1. PICK x, N, C : x = << >> /\ N = Seq(Nat) /\ C = Seq(CallType)
  OBVIOUS
<1>2. x \in N /\ x \in C /\ "none" \in Finishes
  BY <1>1, EmptySeq DEF Finishes
<1>3. EmptyResult = [content |-> x, reasoning |-> x, calls |-> x, usage |-> 0,
                     finish |-> "none", error |-> FALSE]
  BY <1>1 DEF EmptyResult
<1>4. Results = [content : N, reasoning : N, calls : C, usage : Nat, finish : Finishes,
                 error : BOOLEAN]
  BY <1>1 DEF Results
<1> QED
  BY <1>2, <1>3, <1>4

-----------------------------------------------------------------------------
(* The chunks of an event.                                                 *)

(* The place of an id in a list of ids, or the next one.                   *)
IndexIn(ids, id) ==
    LET at == {i \in DOMAIN ids : ids[i] = id}
    IN IF at = {} THEN Len(ids) ELSE (CHOOSE i \in at : TRUE) - 1

LEMMA IndexIs ==
    ASSUME NEW ids \in Seq(Nat), NEW id
    PROVE  /\ IndexIn(ids, id) \in 0 .. Len(ids)
           /\ IndexIn(ids, id) = Len(ids) <=> \A i \in DOMAIN ids : ids[i] # id
           /\ IndexIn(ids, id) # Len(ids) => ids[IndexIn(ids, id) + 1] = id
<1> DEFINE at == {i \in DOMAIN ids : ids[i] = id}
           k == CHOOSE i \in at : TRUE
<1>1. DOMAIN ids = 1 .. Len(ids) /\ Len(ids) \in Nat
  BY LenProperties
<1>2. CASE at = {}
  <2>1. IndexIn(ids, id) = Len(ids)
    BY <1>2 DEF IndexIn
  <2> QED BY <1>1, <1>2, <2>1
<1>3. CASE at # {}
  <2>1. k \in at
    BY <1>3
  <2>2. IndexIn(ids, id) = k - 1
    BY <1>3 DEF IndexIn
  <2>3. k \in 1 .. Len(ids) /\ ids[k] = id
    BY <1>1, <2>1
  <2>4. k - 1 \in 0 .. Len(ids) /\ k - 1 # Len(ids) /\ (k - 1) + 1 = k
    BY <1>1, <2>3
  <2> HIDE DEF k
  <2> QED BY <1>1, <2>2, <2>3, <2>4
<1> QED
  BY <1>2, <1>3

(* An id keeps its index when another one is added behind.                 *)
LEMMA IndexStays ==
    ASSUME NEW ids \in Seq(Nat), NEW new \in Nat, NEW id,
           \A i \in DOMAIN ids : ids[i] # new,
           id = new \/ \E i \in DOMAIN ids : ids[i] = id
    PROVE  IndexIn(Append(ids, new), id) = IndexIn(ids, id)
<1>1. PICK more, n : more = Append(ids, new) /\ n = Len(ids)
  OBVIOUS
<1>2. /\ n \in Nat /\ DOMAIN ids = 1 .. n /\ DOMAIN more = 1 .. n + 1 /\ more[n + 1] = new
      /\ \A i \in 1 .. n : more[i] = ids[i]
  <2>1. more \in Seq(Nat) /\ Len(more) = n + 1
    BY <1>1, AppendProperties
  <2> QED BY <1>1, <2>1, AppendProperties, LenProperties
<1>3. CASE id = new
  <2>1. {i \in DOMAIN more : more[i] = id} = {n + 1}
    BY <1>2, <1>3
  <2>2. {i \in DOMAIN ids : ids[i] = id} = {}
    BY <1>3
  <2>3. IndexIn(more, id) = (n + 1) - 1
    BY <2>1 DEF IndexIn
  <2>4. IndexIn(ids, id) = n
    BY <1>1, <2>2 DEF IndexIn
  <2> QED BY <1>1, <1>2, <2>3, <2>4
<1>4. CASE id # new
  <2>1. {i \in DOMAIN more : more[i] = id} = {i \in DOMAIN ids : ids[i] = id}
    BY <1>2, <1>4
  <2>2. PICK at : at = {i \in DOMAIN ids : ids[i] = id}
    OBVIOUS
  <2>3. at # {}
    BY <1>4, <2>2
  <2>4. IndexIn(ids, id) = (CHOOSE i \in at : TRUE) - 1
    BY <2>2, <2>3 DEF IndexIn
  <2>5. IndexIn(more, id) = (CHOOSE i \in at : TRUE) - 1
    BY <2>1, <2>2, <2>3 DEF IndexIn
  <2> QED BY <1>1, <2>4, <2>5
<1> QED
  BY <1>3, <1>4

(* What the chunks of a call are: its head if it is new, its arguments.    *)
HeadChunk(c)      == Chunk("call", IndexIn(indexes, c.id), [id |-> c.id, name |-> c.name])
ArgumentsChunk(c) == Chunk("arguments", IndexIn(indexes, c.id), c.arguments)

LEMMA CallChunks ==
    ASSUME ChatTypes, NEW c \in Calls
    PROVE  /\ HeadChunk(c) \in ChatFrames /\ ArgumentsChunk(c) \in ChatFrames
           /\ HeadChunk(c).kind = "call" /\ ArgumentsChunk(c).kind = "arguments"
           /\ HeadChunk(c).index = IndexIn(indexes, c.id)
           /\ ArgumentsChunk(c).index = IndexIn(indexes, c.id)
           /\ HeadChunk(c).value = [id |-> c.id, name |-> c.name]
           /\ ArgumentsChunk(c).value = c.arguments
           /\ ToolChunks(c) = IF c.id \in started THEN <<ArgumentsChunk(c)>>
                                                  ELSE <<HeadChunk(c), ArgumentsChunk(c)>>
<1>1. c.id \in Nat /\ c.name \in STRING /\ c.arguments \in Seq(Nat) /\ c.arguments # << >>
  BY CallsAre
<1>2. PICK h : h = [id |-> c.id, name |-> c.name]
  OBVIOUS
<1>3. h \in Values
  <2>1. h \in Heads
    BY <1>1, <1>2 DEF Heads
  <2> QED BY <2>1, ValuesAre
<1>4. c.arguments \in Values
  BY <1>1, ValuesAre
<1>5. PICK k : k = IndexIn(indexes, c.id)
  OBVIOUS
<1>6. k \in Nat
  <2>1. k \in 0 .. Len(indexes) /\ Len(indexes) \in Nat
    BY <1>5, IndexIs, LenProperties DEF ChatTypes
  <2> QED BY <2>1
<1>7. HeadChunk(c) = Chunk("call", k, h) /\ ArgumentsChunk(c) = Chunk("arguments", k, c.arguments)
  BY <1>2, <1>5 DEF HeadChunk, ArgumentsChunk
<1>8. /\ HeadChunk(c) \in ChatFrames /\ ArgumentsChunk(c) \in ChatFrames
      /\ HeadChunk(c).kind = "call" /\ ArgumentsChunk(c).kind = "arguments"
      /\ HeadChunk(c).index = k /\ ArgumentsChunk(c).index = k
      /\ HeadChunk(c).value = h /\ ArgumentsChunk(c).value = c.arguments
  <2>1. "call" \in ChatKinds /\ "arguments" \in ChatKinds
    BY DEF ChatKinds
  <2>2. /\ HeadChunk(c) \in ChatFrames /\ HeadChunk(c).kind = "call"
        /\ HeadChunk(c).index = k /\ HeadChunk(c).value = h
    BY <1>3, <1>6, <1>7, <2>1, ChunkType
  <2>3. /\ ArgumentsChunk(c) \in ChatFrames /\ ArgumentsChunk(c).kind = "arguments"
        /\ ArgumentsChunk(c).index = k /\ ArgumentsChunk(c).value = c.arguments
    BY <1>4, <1>6, <1>7, <2>1, ChunkType
  <2> QED BY <2>2, <2>3
<1>9. ToolIndex(c.id) = k
  BY <1>5 DEF ToolIndex, IndexIn
<1>10. PICK x, y : x = HeadChunk(c) /\ y = ArgumentsChunk(c)
  OBVIOUS
<1>11. ToolChunks(c) = (IF c.id \in started THEN << >> ELSE <<x>>) \o <<y>>
  BY <1>1, <1>2, <1>7, <1>9, <1>10 DEF ToolChunks
<1>12. << >> \o <<y>> = <<y>> /\ <<x>> \o <<y>> = <<x, y>>
  <2>1. PICK F : F = ChatFrames
    OBVIOUS
  <2>2. x \in F /\ y \in F
    BY <1>8, <1>10, <2>1
  <2> QED BY <2>2, PairIs
<1> QED
  BY <1>2, <1>5, <1>8, <1>10, <1>11, <1>12

-----------------------------------------------------------------------------
(* Bodies.                                                                 *)

RoleChunk == Chunk("role", 0, 0)

(* The body a chunk is added to: the opening chunk goes out before it.     *)
Started == IF emitted THEN yielded ELSE Append(yielded, RoleChunk)

LEMMA RoleIs == RoleChunk \in ChatFrames /\ RoleChunk.kind = "role"
<1>1. "role" \in ChatKinds /\ 0 \in Nat /\ 0 \in Values
  BY DEF ChatKinds, Values
<1> QED
  BY <1>1, ChunkType DEF RoleChunk

LEMMA OpenedAdds ==
    ASSUME yielded \in Seq(ChatFrames), NEW x \in ChatFrames, NEW y \in ChatFrames
    PROVE  /\ yielded \o Opened(<< >>) = yielded
           /\ yielded \o Opened(<<x>>) = Append(Started, x)
           /\ yielded \o Opened(<<x, y>>) = Append(Append(Started, x), y)
<1>1. PICK F, s, r : F = ChatFrames /\ s = yielded /\ r = RoleChunk
  OBVIOUS
<1>2. s \in Seq(F) /\ x \in F /\ y \in F /\ r \in F
  BY <1>1, RoleIs
<1>3. /\ Opened(<< >>) = << >>
      /\ Opened(<<x>>) = IF emitted THEN <<x>> ELSE <<r>> \o <<x>>
      /\ Opened(<<x, y>>) = IF emitted THEN <<x, y>> ELSE <<r>> \o <<x, y>>
  BY <1>1 DEF Opened, RoleChunk
<1>4. s \o << >> = s /\ s \o <<x>> = Append(s, x) /\ s \o <<x, y>> = Append(Append(s, x), y)
  BY <1>2
<1>5. <<r>> \in Seq(F) /\ <<x>> \in Seq(F) /\ <<x, y>> \in Seq(F) /\ s \o <<r>> = Append(s, r)
  BY <1>2
<1>6. PICK b, c, d : b = <<r>> /\ c = <<x>> /\ d = <<x, y>>
  OBVIOUS
<1>7. s \o (b \o c) = (s \o b) \o c /\ s \o (b \o d) = (s \o b) \o d
  <2>1. b \in Seq(F) /\ c \in Seq(F) /\ d \in Seq(F)
    BY <1>5, <1>6
  <2>2. s \o (b \o c) = (s \o b) \o c
    BY <1>2, <2>1, SMT
  <2>3. s \o (b \o d) = (s \o b) \o d
    BY <1>2, <2>1, SMT
  <2> QED BY <2>2, <2>3
<1>8. Append(s, r) \in Seq(F)
  BY <1>2, AppendProperties
<1>9. /\ Append(s, r) \o <<x>> = Append(Append(s, r), x)
      /\ Append(s, r) \o <<x, y>> = Append(Append(Append(s, r), x), y)
  <2>1. PICK q : q = Append(s, r)
    OBVIOUS
  <2>2. q \in Seq(F)
    BY <1>8, <2>1
  <2>3. q \o <<x>> = Append(q, x) /\ q \o <<x, y>> = Append(Append(q, x), y)
    BY <1>2, <2>2
  <2> QED BY <2>1, <2>3
<1>10. Started = IF emitted THEN s ELSE Append(s, r)
  BY <1>1 DEF Started
<1>11. CASE emitted
  BY <1>1, <1>3, <1>4, <1>10, <1>11
<1>12. CASE ~emitted
  <2>1. yielded \o Opened(<<x>>) = s \o (b \o c) /\ yielded \o Opened(<<x, y>>) = s \o (b \o d)
    BY <1>1, <1>3, <1>6, <1>12
  <2>2. s \o b = Append(s, r)
    BY <1>5, <1>6
  <2>3. (s \o b) \o c = Append(Started, x) /\ (s \o b) \o d = Append(Append(Started, x), y)
    BY <1>6, <1>9, <1>10, <1>12, <2>2
  <2> QED BY <1>1, <1>3, <1>4, <1>7, <2>1, <2>3
<1> QED
  BY <1>11, <1>12

(* The order of the chunks of a body that goes on.                         *)
Going == {"role", "content", "reasoning", "call", "arguments"}

Framed(s) ==
    /\ s \in Seq(ChatFrames)
    /\ \A i \in DOMAIN s : s[i].kind \in Going
    /\ \A i \in DOMAIN s : s[i].kind = "role" <=> i = 1
    /\ \A i \in DOMAIN s : s[i].kind = "arguments" =>
          \E k \in DOMAIN s : k < i /\ s[k].kind = "call" /\ s[k].index = s[i].index

HasCall(s, n) == \E k \in DOMAIN s : s[k].kind = "call" /\ s[k].index = n

LEMMA AppendIs ==
    ASSUME NEW F, NEW s \in Seq(F), NEW c \in F
    PROVE  /\ Len(s) \in Nat /\ DOMAIN s = 1 .. Len(s)
           /\ Append(s, c) \in Seq(F) /\ Len(Append(s, c)) = Len(s) + 1
           /\ DOMAIN Append(s, c) = 1 .. Len(s) + 1
           /\ Append(s, c)[Len(s) + 1] = c
           /\ \A i \in 1 .. Len(s) : Append(s, c)[i] = s[i]
           /\ Append(s, c) # << >>
<1>1. PICK t, n : t = Append(s, c) /\ n = Len(s)
  OBVIOUS
<1>2. n \in Nat /\ DOMAIN s = 1 .. n
  BY <1>1, LenProperties
<1>3. t \in Seq(F) /\ Len(t) = n + 1 /\ t[n + 1] = c /\ \A i \in 1 .. n : t[i] = s[i]
  BY <1>1, AppendProperties
<1>4. DOMAIN t = 1 .. n + 1
  BY <1>2, <1>3, LenProperties
<1>5. t # << >>
  BY <1>2, <1>3
<1> QED
  BY <1>1, <1>2, <1>3, <1>4, <1>5

LEMMA AppendFramed ==
    ASSUME NEW s, Framed(s), NEW c \in ChatFrames, c.kind \in Going,
           c.kind = "role" <=> s = << >>,
           c.kind = "arguments" => HasCall(s, c.index)
    PROVE  /\ Framed(Append(s, c)) /\ Append(s, c) # << >>
           /\ \A n : HasCall(s, n) => HasCall(Append(s, c), n)
           /\ c.kind = "call" => HasCall(Append(s, c), c.index)
<1>1. PICK t, n : t = Append(s, c) /\ n = Len(s)
  OBVIOUS
<1>2. /\ n \in Nat /\ DOMAIN s = 1 .. n /\ t \in Seq(ChatFrames) /\ DOMAIN t = 1 .. n + 1
      /\ t[n + 1] = c /\ (\A i \in 1 .. n : t[i] = s[i]) /\ t # << >>
  BY <1>1, AppendIs DEF Framed
<1>3. s = << >> <=> n = 0
  BY <1>1, <1>2, EmptySeq DEF Framed
<1>4. ASSUME NEW m, HasCall(s, m) PROVE HasCall(t, m)
  <2>1. PICK k \in 1 .. n : s[k].kind = "call" /\ s[k].index = m
    BY <1>2, <1>4 DEF HasCall
  <2>2. k \in DOMAIN t /\ t[k] = s[k]
    BY <1>2
  <2> QED BY <2>1, <2>2 DEF HasCall
<1>5. c.kind = "call" => HasCall(t, c.index)
  <2>1. n + 1 \in DOMAIN t
    BY <1>2
  <2> QED BY <1>2, <2>1 DEF HasCall
<1>6. ASSUME NEW i \in 1 .. n + 1
      PROVE  /\ t[i].kind \in Going /\ (t[i].kind = "role" <=> i = 1)
             /\ t[i].kind = "arguments" =>
                  \E k \in 1 .. n + 1 : k < i /\ t[k].kind = "call" /\ t[k].index = t[i].index
  <2>1. CASE i \in 1 .. n
    <3>1. /\ s[i].kind \in Going /\ (s[i].kind = "role" <=> i = 1)
          /\ s[i].kind = "arguments" =>
               \E k \in 1 .. n : k < i /\ s[k].kind = "call" /\ s[k].index = s[i].index
      BY <1>2, <2>1 DEF Framed
    <3>2. \A k \in 1 .. n : k \in 1 .. n + 1
      BY <1>2
    <3> QED BY <1>2, <2>1, <3>1, <3>2
  <2>2. CASE i = n + 1
    <3>1. t[i] = c
      BY <1>2, <2>2
    <3>2. i = 1 <=> n = 0
      BY <1>2, <2>2
    <3>3. ASSUME c.kind = "arguments"
          PROVE  \E k \in 1 .. n + 1 : k < i /\ t[k].kind = "call" /\ t[k].index = c.index
      <4>1. PICK k \in 1 .. n : s[k].kind = "call" /\ s[k].index = c.index
        BY <1>2, <3>3 DEF HasCall
      <4>2. k \in 1 .. n + 1 /\ k < i /\ t[k] = s[k]
        BY <1>2, <2>2
      <4> QED BY <4>1, <4>2
    <3> QED BY <1>3, <3>1, <3>2, <3>3
  <2> QED BY <1>2, <2>1, <2>2
<1>7. Framed(t)
  BY <1>2, <1>6 DEF Framed
<1> QED
  BY <1>1, <1>2, <1>4, <1>5, <1>7

(* BodyIsFramed, of any body.                                              *)
PlaceIn(t, kind) == {i \in DOMAIN t : t[i].kind = kind}

BodyFramed(t, v) ==
    /\ t # << >> => PlaceIn(t, "role") = {1}
    /\ \A i \in PlaceIn(t, "arguments") :
          \E k \in PlaceIn(t, "call") : k < i /\ t[k].index = t[i].index
    /\ \A i \in PlaceIn(t, "final") :
          \A k \in (i + 1) .. Len(t) : t[k].kind \in {"usage", "error", "[DONE]"}
    /\ v = "success" => Cardinality(PlaceIn(t, "final")) = 1
    /\ v # "open" /\ t # << >> => PlaceIn(t, "[DONE]") = {Len(t)}
    /\ v = "upstream_error" /\ t # << >> => PlaceIn(t, "error") = {Len(t) - 1}

LEMMA BodyIs == BodyIsFramed <=> BodyFramed(yielded, verdict)
BY DEF BodyIsFramed, BodyFramed, Place, PlaceIn

LEMMA FramedGoesOn ==
    ASSUME NEW s, Framed(s)
    PROVE  BodyFramed(s, "open")
<1>1. DOMAIN s = 1 .. Len(s) /\ Len(s) \in Nat
  BY LenProperties DEF Framed
<1>2. s # << >> => PlaceIn(s, "role") = {1}
  <2>1. s # << >> => 1 \in DOMAIN s
    BY <1>1, EmptySeq DEF Framed
  <2> QED BY <2>1 DEF Framed, PlaceIn
<1>3. PlaceIn(s, "final") = {}
  BY DEF Framed, PlaceIn, Going
<1>4. \A i \in PlaceIn(s, "arguments") :
         \E k \in PlaceIn(s, "call") : k < i /\ s[k].index = s[i].index
  BY DEF Framed, PlaceIn
<1> QED
  BY <1>2, <1>3, <1>4 DEF BodyFramed

(* A body whose end has been added: what was framed stays so.              *)
LEMMA FramedEnds ==
    ASSUME NEW s, Framed(s), s # << >>, NEW t \in Seq(ChatFrames), Len(s) < Len(t),
           \A i \in 1 .. Len(s) : t[i] = s[i],
           \A i \in Len(s) + 1 .. Len(t) : t[i].kind \in ChatKinds \ Going
    PROVE  /\ PlaceIn(t, "role") = {1}
           /\ \A i \in PlaceIn(t, "arguments") :
                 \E k \in PlaceIn(t, "call") : k < i /\ t[k].index = t[i].index
           /\ \A kind \in ChatKinds \ Going :
                 PlaceIn(t, kind) = {i \in Len(s) + 1 .. Len(t) : t[i].kind = kind}
<1>1. PICK m, n : m = Len(s) /\ n = Len(t)
  OBVIOUS
<1>2. /\ m \in Nat /\ n \in Nat /\ m < n /\ DOMAIN s = 1 .. m /\ DOMAIN t = 1 .. n
      /\ \A i \in 1 .. m : t[i] = s[i]
      /\ \A i \in m + 1 .. n : t[i].kind \in ChatKinds \ Going
  BY <1>1, LenProperties DEF Framed
<1>3. 1 \in 1 .. m
  BY <1>1, <1>2, EmptySeq DEF Framed
<1>4. \A i \in 1 .. n : i \in 1 .. m \/ i \in m + 1 .. n
  BY <1>2
<1>5. \A i \in 1 .. m : i \in 1 .. n /\ i \notin m + 1 .. n
  BY <1>2
<1>6. \A i \in m + 1 .. n : t[i].kind \notin Going
  BY <1>2
<1>7. PlaceIn(t, "role") = {1}
  <2>1. \A i \in 1 .. m : t[i].kind = "role" <=> i = 1
    BY <1>2 DEF Framed
  <2>2. \A i \in m + 1 .. n : t[i].kind # "role" /\ i # 1
    BY <1>2, <1>3, <1>6 DEF Going
  <2> QED BY <1>2, <1>3, <1>4, <1>5, <2>1, <2>2 DEF PlaceIn
<1>8. ASSUME NEW i \in PlaceIn(t, "arguments")
      PROVE  \E k \in PlaceIn(t, "call") : k < i /\ t[k].index = t[i].index
  <2>1. i \in 1 .. m /\ s[i].kind = "arguments" /\ t[i] = s[i]
    BY <1>2, <1>4, <1>6 DEF PlaceIn, Going
  <2>2. PICK k \in 1 .. m : k < i /\ s[k].kind = "call" /\ s[k].index = s[i].index
    BY <1>2, <2>1 DEF Framed
  <2>3. k \in PlaceIn(t, "call") /\ t[k] = s[k]
    BY <1>2, <1>5, <2>2 DEF PlaceIn
  <2> QED BY <2>1, <2>2, <2>3
<1>9. ASSUME NEW kind \in ChatKinds \ Going
      PROVE  PlaceIn(t, kind) = {i \in m + 1 .. n : t[i].kind = kind}
  <2>1. \A i \in 1 .. m : t[i].kind # kind
    BY <1>2 DEF Framed
  <2>2. \A i \in m + 1 .. n : i \in 1 .. n
    BY <1>2
  <2> QED BY <1>2, <1>4, <2>1, <2>2 DEF PlaceIn
<1> QED
  BY <1>1, <1>7, <1>8, <1>9


(* The ends of a body.                                                     *)
LEMMA NothingFramed ==
    ASSUME NEW v, v # "success"
    PROVE  BodyFramed(<< >>, v)
<1>1. \A kind : PlaceIn(<< >>, kind) = {}
  BY DEF PlaceIn
<1> QED
  BY <1>1 DEF BodyFramed

LEMMA SuccessFramed ==
    ASSUME NEW s, Framed(s), s # << >>, NEW f \in ChatFrames, NEW u \in ChatFrames, NEW d \in ChatFrames,
           f.kind = "final", u.kind = "usage", d.kind = "[DONE]",
           NEW t, t \in {Append(Append(s, f), d), Append(Append(Append(s, f), u), d)}
    PROVE  BodyFramed(t, "success")
<1>1. PICK m, n : m = Len(s) /\ n = Len(t)
  OBVIOUS
<1>2. /\ m \in Nat /\ n \in {m + 2, m + 3} /\ t \in Seq(ChatFrames) /\ t # << >>
      /\ \A i \in 1 .. m : t[i] = s[i]
      /\ t[m + 1] = f /\ t[n] = d /\ (n = m + 3 => t[m + 2] = u)
  <2>1. PICK p : p = Append(s, f)
    OBVIOUS
  <2>2. /\ m \in Nat /\ p \in Seq(ChatFrames) /\ Len(p) = m + 1 /\ p[m + 1] = f
        /\ \A i \in 1 .. m : p[i] = s[i]
    BY <1>1, <2>1, AppendIs DEF Framed
  <2>3. CASE t = Append(p, d)
    <3>1. /\ t \in Seq(ChatFrames) /\ Len(t) = (m + 1) + 1 /\ t[(m + 1) + 1] = d /\ t # << >>
          /\ \A i \in 1 .. m + 1 : t[i] = p[i]
      BY <2>2, <2>3, AppendIs
    <3>2. n = m + 2 /\ (m + 1) + 1 = n /\ m + 1 \in 1 .. m + 1 /\ \A i \in 1 .. m : i \in 1 .. m + 1
      BY <1>1, <2>2, <3>1
    <3> QED BY <1>1, <2>2, <3>1, <3>2
  <2>4. CASE t = Append(Append(p, u), d)
    <3>1. PICK q : q = Append(p, u)
      OBVIOUS
    <3>2. /\ q \in Seq(ChatFrames) /\ Len(q) = (m + 1) + 1 /\ q[(m + 1) + 1] = u
          /\ \A i \in 1 .. m + 1 : q[i] = p[i]
      BY <2>2, <3>1, AppendIs
    <3>3. (m + 1) + 1 = m + 2 /\ (m + 2) + 1 = m + 3
      BY <2>2
    <3>4. /\ t \in Seq(ChatFrames) /\ Len(t) = m + 3 /\ t[m + 3] = d /\ t # << >>
          /\ \A i \in 1 .. m + 2 : t[i] = q[i]
      BY <2>4, <3>1, <3>2, <3>3, AppendIs
    <3>5. /\ n = m + 3 /\ m + 1 \in 1 .. m + 1 /\ m + 1 \in 1 .. m + 2 /\ m + 2 \in 1 .. m + 2
          /\ \A i \in 1 .. m : i \in 1 .. m + 1 /\ i \in 1 .. m + 2
      BY <1>1, <2>2, <3>4
    <3> QED BY <2>2, <3>2, <3>3, <3>4, <3>5
  <2> QED BY <2>1, <2>3, <2>4
<1>3. \A i \in m + 1 .. n : i = m + 1 \/ i = n \/ (n = m + 3 /\ i = m + 2)
  BY <1>2
<1>4. m < n /\ m + 1 # n /\ (n = m + 3 => m + 2 # n /\ m + 1 # m + 2) /\ m + 1 \in m + 1 .. n
      /\ n \in m + 1 .. n
  BY <1>2
<1>5. \A i \in m + 1 .. n : t[i].kind \in ChatKinds \ Going
  BY <1>2, <1>3 DEF ChatKinds, Going
<1>6. /\ PlaceIn(t, "role") = {1}
      /\ \A i \in PlaceIn(t, "arguments") :
            \E k \in PlaceIn(t, "call") : k < i /\ t[k].index = t[i].index
      /\ \A kind \in ChatKinds \ Going : PlaceIn(t, kind) = {i \in m + 1 .. n : t[i].kind = kind}
  BY <1>1, <1>2, <1>4, <1>5, FramedEnds
<1>7. "final" \in ChatKinds \ Going /\ "[DONE]" \in ChatKinds \ Going
  BY DEF ChatKinds, Going
<1>8. PlaceIn(t, "final") = {m + 1}
  <2>1. PlaceIn(t, "final") = {i \in m + 1 .. n : t[i].kind = "final"}
    BY <1>6, <1>7
  <2> QED BY <1>2, <1>3, <1>4, <2>1
<1>9. PlaceIn(t, "[DONE]") = {n}
  <2>1. PlaceIn(t, "[DONE]") = {i \in m + 1 .. n : t[i].kind = "[DONE]"}
    BY <1>6, <1>7
  <2> QED BY <1>2, <1>3, <1>4, <2>1
<1>10. \A k \in (m + 1) + 1 .. n : t[k].kind \in {"usage", "error", "[DONE]"}
  <2>1. \A k \in (m + 1) + 1 .. n : k \in m + 1 .. n /\ k # m + 1
    BY <1>2
  <2> QED BY <1>2, <1>3, <2>1
<1>11. Cardinality({m + 1}) = 1
  BY FS_Singleton
<1> QED
  BY <1>1, <1>6, <1>8, <1>9, <1>10, <1>11 DEF BodyFramed

LEMMA BrokenFramed ==
    ASSUME NEW s, Framed(s), s # << >>, NEW e \in ChatFrames, NEW d \in ChatFrames,
           e.kind = "error", d.kind = "[DONE]", NEW v, v # "success"
    PROVE  BodyFramed(Append(Append(s, e), d), v)
<1>1. PICK m, p, t : m = Len(s) /\ p = Append(s, e) /\ t = Append(p, d)
  OBVIOUS
<1>2. /\ m \in Nat /\ p \in Seq(ChatFrames) /\ Len(p) = m + 1 /\ p[m + 1] = e
      /\ \A i \in 1 .. m : p[i] = s[i]
  BY <1>1, AppendIs DEF Framed
<1>3. /\ t \in Seq(ChatFrames) /\ Len(t) = (m + 1) + 1 /\ t[(m + 1) + 1] = d /\ t # << >>
      /\ \A i \in 1 .. m + 1 : t[i] = p[i]
  BY <1>1, <1>2, AppendIs
<1>4. /\ Len(t) = m + 2 /\ t[m + 1] = e /\ t[m + 2] = d
      /\ \A i \in 1 .. m : t[i] = s[i]
  <2>1. (m + 1) + 1 = m + 2 /\ m + 1 \in 1 .. m + 1 /\ \A i \in 1 .. m : i \in 1 .. m + 1
    BY <1>2
  <2> QED BY <1>2, <1>3, <2>1
<1>5. \A i \in m + 1 .. m + 2 : i = m + 1 \/ i = m + 2
  BY <1>2
<1>6. /\ m < m + 2 /\ m + 1 # m + 2 /\ m + 1 \in m + 1 .. m + 2 /\ m + 2 \in m + 1 .. m + 2
      /\ (m + 2) - 1 = m + 1
  BY <1>2
<1>7. \A i \in m + 1 .. m + 2 : t[i].kind \in ChatKinds \ Going
  BY <1>4, <1>5 DEF ChatKinds, Going
<1>8. /\ PlaceIn(t, "role") = {1}
      /\ \A i \in PlaceIn(t, "arguments") :
            \E k \in PlaceIn(t, "call") : k < i /\ t[k].index = t[i].index
      /\ \A kind \in ChatKinds \ Going :
            PlaceIn(t, kind) = {i \in m + 1 .. m + 2 : t[i].kind = kind}
  <2>1. PICK n : n = Len(t)
    OBVIOUS
  <2>2. n = m + 2
    BY <1>4, <2>1
  <2>3. /\ Len(s) < Len(t) /\ (\A i \in 1 .. Len(s) : t[i] = s[i])
        /\ \A i \in Len(s) + 1 .. Len(t) : t[i].kind \in ChatKinds \ Going
    BY <1>1, <1>4, <1>6, <1>7
  <2>4. /\ PlaceIn(t, "role") = {1}
        /\ \A i \in PlaceIn(t, "arguments") :
              \E k \in PlaceIn(t, "call") : k < i /\ t[k].index = t[i].index
        /\ \A kind \in ChatKinds \ Going :
              PlaceIn(t, kind) = {i \in Len(s) + 1 .. Len(t) : t[i].kind = kind}
    BY <1>3, <2>3, FramedEnds
  <2> QED BY <1>1, <2>1, <2>2, <2>4
<1>9. /\ "final" \in ChatKinds \ Going /\ "error" \in ChatKinds \ Going
      /\ "[DONE]" \in ChatKinds \ Going
  BY DEF ChatKinds, Going
<1>10. PlaceIn(t, "final") = {}
  <2>1. PlaceIn(t, "final") = {i \in m + 1 .. m + 2 : t[i].kind = "final"}
    BY <1>8, <1>9
  <2> QED BY <1>4, <1>5, <2>1
<1>11. PlaceIn(t, "error") = {m + 1}
  <2>1. PlaceIn(t, "error") = {i \in m + 1 .. m + 2 : t[i].kind = "error"}
    BY <1>8, <1>9
  <2> QED BY <1>4, <1>5, <1>6, <2>1
<1>12. PlaceIn(t, "[DONE]") = {m + 2}
  <2>1. PlaceIn(t, "[DONE]") = {i \in m + 1 .. m + 2 : t[i].kind = "[DONE]"}
    BY <1>8, <1>9
  <2> QED BY <1>4, <1>5, <1>6, <2>1
<1> QED
  BY <1>1, <1>4, <1>6, <1>8, <1>10, <1>11, <1>12 DEF BodyFramed

-----------------------------------------------------------------------------
(* What the steps do.                                                      *)

ContentChunk(e) == Chunk(IF e.type = "text" THEN "content" ELSE "reasoning", 0, e.value)

LEMMA ContentIs ==
    ASSUME NEW e \in Events, e.type \in {"text", "reasoning"}
    PROVE  /\ ContentChunk(e) \in ChatFrames
           /\ ContentChunk(e).kind = IF e.type = "text" THEN "content" ELSE "reasoning"
           /\ ContentChunk(e).value = e.value
<1>1. e.value \in Values /\ 0 \in Nat
  BY EventsAre, ValuesAre
<1>2. PICK kind : kind = IF e.type = "text" THEN "content" ELSE "reasoning"
  OBVIOUS
<1>3. kind \in ChatKinds
  BY <1>2 DEF ChatKinds
<1> QED
  BY <1>1, <1>2, <1>3, ChunkType DEF ContentChunk

(* An event is silent, or text, or a call.                                 *)
Silent(e) ==
    /\ e.type \in Plain \/ (e.type = "reasoning" /\ ~ExposeReasoning)
    /\ UNCHANGED <<yielded, emitted, indexes, started>>

Spoken(e) ==
    /\ e.type = "text" \/ (e.type = "reasoning" /\ ExposeReasoning)
    /\ yielded' = Append(Started, ContentChunk(e))
    /\ emitted'
    /\ UNCHANGED <<indexes, started>>

Called(e) ==
    LET c == e.value
        s == IF c.id \in started THEN Started ELSE Append(Started, HeadChunk(c))
    IN /\ e.type = "tool_call"
       /\ yielded' = Append(s, ArgumentsChunk(c))
       /\ emitted'
       /\ indexes' = IF IndexIn(indexes, c.id) = Len(indexes) THEN Append(indexes, c.id)
                                                               ELSE indexes
       /\ started' = started \union {c.id}

LEMMA HandleIs ==
    ASSUME ChatTypes, NEW e \in Payloads, Handle(e)
    PROVE  /\ verdict = "open" /\ verdict' = "open" /\ e \in Events
           /\ events' = Append(events, e) /\ result' = Aggregated(result, e)
           /\ Silent(e) \/ Spoken(e) \/ Called(e)
<1>1. e \in Events /\ e.type \in {"text", "reasoning", "tool_call"} \union Plain
  BY PayloadsType DEF ChatTypes
<1>2. /\ verdict = "open" /\ verdict' = "open"
      /\ events' = Append(events, e) /\ result' = Aggregated(result, e)
      /\ yielded' = yielded \o Opened(ChunksOf(e))
      /\ emitted' = (emitted \/ ChunksOf(e) # << >>)
  BY DEF Handle, Emits
<1>3. yielded \in Seq(ChatFrames) /\ emitted \in BOOLEAN
  BY DEF ChatTypes
<1>4. Plain \intersect {"text", "reasoning", "error", "tool_call", "done"} = {}
  BY TurnAssumption
<1>5. RoleChunk \in ChatFrames
  BY RoleIs
<1>6. CASE e.type \in Plain \/ (e.type = "reasoning" /\ ~ExposeReasoning)
  <2>1. /\ e.type \notin {"text", "tool_call", "done"}
        /\ e.type = "reasoning" => ~ExposeReasoning
    BY <1>4, <1>6
  <2>2. ChunksOf(e) = << >>
    BY <1>6, <2>1 DEF ChunksOf
  <2>3. yielded' = yielded
    BY <1>2, <1>3, <1>5, <2>2, OpenedAdds
  <2>4. emitted' = emitted
    BY <1>2, <1>3, <2>2
  <2>5. indexes' = indexes /\ started' = started
    BY <2>1 DEF Handle
  <2> QED BY <1>1, <1>2, <1>6, <2>3, <2>4, <2>5 DEF Silent
<1>7. CASE e.type = "text" \/ (e.type = "reasoning" /\ ExposeReasoning)
  <2>1. ChunksOf(e) = <<ContentChunk(e)>>
    BY <1>7 DEF ChunksOf, ContentChunk
  <2>2. ContentChunk(e) \in ChatFrames
    BY <1>1, <1>7, ContentIs
  <2>3. yielded' = Append(Started, ContentChunk(e))
    BY <1>2, <1>3, <2>1, <2>2, OpenedAdds
  <2>4. <<ContentChunk(e)>> # << >>
    OBVIOUS
  <2>5. emitted'
    BY <1>2, <2>1, <2>4
  <2>6. indexes' = indexes /\ started' = started
    BY <1>7 DEF Handle
  <2> QED BY <1>1, <1>2, <1>7, <2>3, <2>5, <2>6 DEF Spoken
<1>8. CASE e.type = "tool_call"
  <2>1. PICK c : c = e.value
    OBVIOUS
  <2>2. c \in Calls
    BY <1>1, <1>8, <2>1, EventsAre
  <2>3. ChunksOf(e) = ToolChunks(c)
    BY <1>8, <2>1 DEF ChunksOf
  <2>4. /\ HeadChunk(c) \in ChatFrames /\ ArgumentsChunk(c) \in ChatFrames
        /\ ToolChunks(c) = IF c.id \in started THEN <<ArgumentsChunk(c)>>
                                               ELSE <<HeadChunk(c), ArgumentsChunk(c)>>
    BY <2>2, CallChunks
  <2>5. PICK x, y : x = HeadChunk(c) /\ y = ArgumentsChunk(c)
    OBVIOUS
  <2>6. ToolChunks(c) # << >>
    <3>1. <<y>> # << >> /\ <<x, y>> # << >>
      OBVIOUS
    <3> QED BY <2>4, <2>5, <3>1
  <2>7. yielded' = Append(IF c.id \in started THEN Started ELSE Append(Started, x), y)
    <3>1. /\ yielded \o Opened(<<y>>) = Append(Started, y)
          /\ yielded \o Opened(<<x, y>>) = Append(Append(Started, x), y)
      BY <1>3, <2>4, <2>5, OpenedAdds
    <3> QED BY <1>2, <2>3, <2>4, <2>5, <3>1
  <2>8. emitted'
    BY <1>2, <2>3, <2>6
  <2>9. ToolIndex(c.id) = IndexIn(indexes, c.id)
    BY DEF ToolIndex, IndexIn
  <2>10. /\ indexes' = IF IndexIn(indexes, c.id) = Len(indexes) THEN Append(indexes, c.id)
                                                                ELSE indexes
         /\ started' = started \union {c.id}
    BY <1>8, <2>1, <2>9 DEF Handle
  <2>11. Called(e)
    BY <1>8, <2>1, <2>5, <2>7, <2>8, <2>10 DEF Called
  <2> QED BY <1>1, <1>2, <2>11
<1> QED
  BY <1>1, <1>6, <1>7, <1>8

LEMMA AllTypes ==
    ASSUME ChatTypes, NEW e \in Payloads, Handle(e), yielded' \in Seq(ChatFrames)
    PROVE  ChatTypes'
<1>1. /\ verdict' = "open" /\ e \in Events /\ events' = Append(events, e)
      /\ result' = Aggregated(result, e) /\ (Silent(e) \/ Spoken(e) \/ Called(e))
  BY HandleIs
<1>2. events' \in Seq(Events) /\ result' \in Results
  BY <1>1, AppendProperties, AggregatedType DEF ChatTypes
<1>3. indexes' \in Seq(Nat) /\ started' \subseteq Nat /\ emitted' \in BOOLEAN
  <2>1. CASE Silent(e)
    BY <2>1 DEF Silent, ChatTypes
  <2>2. CASE Spoken(e)
    BY <2>2 DEF Spoken, ChatTypes
  <2>3. CASE Called(e)
    <3>1. PICK id : id = e.value.id
      OBVIOUS
    <3>2. id \in Nat
      BY <1>1, <2>3, <3>1, EventsAre, CallsAre DEF Called
    <3>3. indexes' \in {indexes, Append(indexes, id)} /\ started' = started \union {id}
      BY <2>3, <3>1 DEF Called
    <3>4. Append(indexes, id) \in Seq(Nat)
      BY <3>2, AppendProperties DEF ChatTypes
    <3>5. emitted' \in BOOLEAN
      BY <2>3 DEF Called, Handle, Emits
    <3> QED BY <3>2, <3>3, <3>4, <3>5 DEF ChatTypes
  <2> QED BY <1>1, <2>1, <2>2, <2>3
<1> QED
  BY <1>1, <1>2, <1>3 DEF ChatTypes

(* The chunks at the end of a turn.                                        *)
FinalReason(reason) ==
    IF result.calls # << >> THEN "tool_calls"
    ELSE IF reason # "none" THEN reason ELSE "stop"

TheFinal(reason) == Chunk("final", 0, FinalReason(reason))
TheUsage         == Chunk("usage", 0, result.usage)
TheError         == Chunk("error", 0, 0)
TheDone          == Chunk("[DONE]", 0, 0)

LEMMA EndChunks ==
    ASSUME ChatTypes, NEW reason \in Reasons \union {"none"}
    PROVE  /\ TheFinal(reason) \in ChatFrames /\ TheFinal(reason).kind = "final"
           /\ TheFinal(reason).value = FinalReason(reason)
           /\ TheUsage \in ChatFrames /\ TheUsage.kind = "usage"
           /\ TheError \in ChatFrames /\ TheError.kind = "error"
           /\ TheDone \in ChatFrames /\ TheDone.kind = "[DONE]"
<1>1. FinalReason(reason) \in Values
  BY DEF FinalReason, Values, Finishes
<1>2. result.usage \in Values /\ 0 \in Values /\ 0 \in Nat
  BY DEF ChatTypes, Results, Values
<1>3. "final" \in ChatKinds /\ "usage" \in ChatKinds /\ "error" \in ChatKinds /\ "[DONE]" \in ChatKinds
  BY DEF ChatKinds
<1>4. /\ TheFinal(reason) \in ChatFrames /\ TheFinal(reason).kind = "final"
      /\ TheFinal(reason).value = FinalReason(reason)
  BY <1>1, <1>2, <1>3, ChunkType DEF TheFinal
<1>5. TheUsage \in ChatFrames /\ TheUsage.kind = "usage"
  BY <1>2, <1>3, ChunkType DEF TheUsage
<1>6. TheError \in ChatFrames /\ TheError.kind = "error"
  BY <1>2, <1>3, ChunkType DEF TheError
<1>7. TheDone \in ChatFrames /\ TheDone.kind = "[DONE]"
  BY <1>2, <1>3, ChunkType DEF TheDone
<1> QED
  BY <1>4, <1>5, <1>6, <1>7

Finished(s) == IF IncludeUsage THEN Append(Append(s, TheUsage), TheDone)
                               ELSE Append(s, TheDone)

Succeeds(reason) ==
    /\ emitted \/ reason # "none"
    /\ emitted' = TRUE
    /\ verdict' = "success"
    /\ yielded' = Finished(Append(Started, TheFinal(reason)))

Fails ==
    /\ ~emitted
    /\ emitted' = FALSE
    /\ verdict' = "parse_error"
    /\ yielded' = yielded

LEMMA FinalIs ==
    ASSUME ChatTypes, result.finish = "none", NEW reason \in Reasons, reason # "none"
    PROVE  /\ FinalChunk(result, "none") = TheFinal("none")
           /\ ChunksOf(Event("done", reason)) = <<TheFinal(reason)>>
<1>1. FinalChunk(result, "none") = TheFinal("none")
  BY DEF FinalChunk, EffectiveReason, TheFinal, FinalReason
<1>2. PICK e, r : e = Event("done", reason) /\ r = Aggregated(result, e)
  OBVIOUS
<1>3. e.type = "done" /\ e.value = reason
  BY <1>2 DEF Event
<1>4. r.calls = result.calls
  <2>1. r = [result EXCEPT !.finish = reason]
    BY <1>2, <1>3 DEF Aggregated
  <2> QED BY <2>1 DEF ChatTypes, Results
<1>5. ChunksOf(e) = <<FinalChunk(r, reason)>>
  BY <1>2, <1>3 DEF ChunksOf
<1>6. FinalChunk(r, reason) = TheFinal(reason)
  BY <1>4 DEF FinalChunk, TheFinal, FinalReason
<1> QED
  BY <1>1, <1>2, <1>5, <1>6

LEMMA FinishedIs ==
    ASSUME ChatTypes, NEW s \in Seq(ChatFrames)
    PROVE  /\ s \o (IF IncludeUsage THEN <<TheUsage>> ELSE << >>) \o <<TheDone>> = Finished(s)
           /\ Finished(s) \in Seq(ChatFrames)
<1>1. PICK F, u, d : F = ChatFrames /\ u = TheUsage /\ d = TheDone
  OBVIOUS
<1>2. s \in Seq(F) /\ u \in F /\ d \in F
  BY <1>1, EndChunks
<1>3. s \o <<u>> = Append(s, u) /\ s \o << >> = s /\ s \o <<d>> = Append(s, d)
  BY <1>2
<1>4. Append(s, u) \in Seq(F) /\ Append(s, d) \in Seq(F)
  BY <1>2, AppendProperties
<1>5. PICK q : q = Append(s, u)
  OBVIOUS
<1>6. q \o <<d>> = Append(q, d) /\ Append(q, d) \in Seq(F)
  <2>1. q \in Seq(F)
    BY <1>4, <1>5
  <2> QED BY <1>2, <2>1, AppendProperties
<1>7. Finished(s) = IF IncludeUsage THEN Append(q, d) ELSE Append(s, d)
  BY <1>1, <1>5 DEF Finished
<1>8. CASE IncludeUsage
  BY <1>1, <1>3, <1>5, <1>6, <1>7, <1>8
<1>9. CASE ~IncludeUsage
  BY <1>1, <1>3, <1>4, <1>7, <1>9
<1> QED
  BY <1>8, <1>9

LEMMA StartedType == ChatTypes => Started \in Seq(ChatFrames)
<1>1. ChatTypes => yielded \in Seq(ChatFrames) /\ Append(yielded, RoleChunk) \in Seq(ChatFrames)
  BY RoleIs, AppendProperties DEF ChatTypes
<1> QED
  BY <1>1 DEF Started

LEMMA FinalEndIs ==
    ASSUME ChatTypes, result.finish = "none", NEW reason \in Reasons \union {"none"},
           EndOfTurn(reason)
    PROVE  /\ verdict = "open" /\ UNCHANGED <<indexes, started>>
           /\ events' = IF reason = "none" THEN events ELSE Append(events, Event("done", reason))
           /\ result' = IF reason = "none" THEN result
                        ELSE Aggregated(result, Event("done", reason))
           /\ Succeeds(reason) \/ (reason = "none" /\ Fails)
<1>1. PICK u, d : u = (IF IncludeUsage THEN <<TheUsage>> ELSE << >>) /\ d = TheDone
  OBVIOUS
<1>2. PICK f : f = TheFinal(reason)
  OBVIOUS
<1>3. f \in ChatFrames
  BY <1>2, EndChunks
<1>4. /\ emitted \in BOOLEAN /\ yielded \in Seq(ChatFrames) /\ events \in Seq(Events)
      /\ Append(Started, f) \in Seq(ChatFrames)
  BY <1>3, StartedType, AppendProperties DEF ChatTypes
<1>5. Append(Started, f) \o u \o <<d>> = Finished(Append(Started, f))
  BY <1>1, <1>4, FinishedIs
<1>6. CASE reason = "none"
  <2>1. /\ verdict = "open" /\ UNCHANGED <<indexes, started>>
        /\ events' = events \o << >> /\ result' = result /\ emitted' = emitted
        /\ IF emitted' THEN /\ verdict' = "success"
                            /\ yielded' = yielded \o << >> \o <<FinalChunk(result, "none")>> \o u \o <<d>>
                       ELSE Fail("parse_error")
    BY <1>1, <1>4, <1>6 DEF EndOfTurn, TheUsage, TheDone
  <2>2. events' = events
    BY <1>4, <2>1, ConcatEmptySeq
  <2>3. FinalChunk(result, "none") = f
    BY <1>2, <1>6 DEF FinalChunk, EffectiveReason, TheFinal, FinalReason
  <2>4. CASE emitted
    <3>1. yielded \o << >> = yielded /\ yielded \o <<f>> = Append(yielded, f)
      BY <1>3, <1>4
    <3>2. Started = yielded
      BY <2>4 DEF Started
    <3>3. yielded' = Append(Started, f) \o u \o <<d>>
      BY <2>1, <2>3, <2>4, <3>1, <3>2
    <3>4. Succeeds(reason)
      BY <1>2, <1>5, <2>1, <2>4, <3>3 DEF Succeeds
    <3> QED BY <1>6, <2>1, <2>2, <3>4
  <2>5. CASE ~emitted
    <3>1. Fails
      BY <1>4, <2>1, <2>5 DEF Fails, Fail
    <3> QED BY <1>6, <2>1, <2>2, <3>1
  <2> QED BY <2>4, <2>5
<1>7. CASE reason # "none"
  <2>1. PICK e : e = Event("done", reason)
    OBVIOUS
  <2>2. ChunksOf(e) = <<f>>
    BY <1>2, <1>7, <2>1, FinalIs
  <2>3. <<e>> # << >> /\ <<e>>[1] = e /\ <<f>> # << >>
    OBVIOUS
  <2>4. /\ verdict = "open" /\ UNCHANGED <<indexes, started>>
        /\ events' = events \o <<e>> /\ result' = Aggregated(result, e) /\ emitted' = TRUE
        /\ verdict' = "success"
        /\ yielded' = yielded \o Opened(<<f>>) \o << >> \o u \o <<d>>
    BY <1>1, <1>4, <1>7, <2>1, <2>2, <2>3 DEF EndOfTurn, Emits, TheUsage, TheDone
  <2>5. events' = Append(events, e)
    <3>1. e \in Events
      BY <1>7, <2>1 DEF Event, Events
    <3> QED BY <1>4, <2>4, <3>1
  <2>6. yielded \o Opened(<<f>>) = Append(Started, f)
    BY <1>3, <1>4, OpenedAdds
  <2>7. PICK t : t = Append(Started, f)
    OBVIOUS
  <2>8. t \o << >> = t
    BY <1>4, <2>7, ConcatEmptySeq
  <2>9. yielded' = Append(Started, f) \o u \o <<d>>
    BY <2>4, <2>6, <2>7, <2>8
  <2>10. Succeeds(reason)
    BY <1>2, <1>5, <1>7, <2>4, <2>9 DEF Succeeds
  <2> QED BY <1>7, <2>1, <2>4, <2>5, <2>10
<1> QED
  BY <1>6, <1>7

LEMMA BreakIs ==
    ASSUME ChatTypes, NEW e, Break(e)
    PROVE  /\ verdict = "open" /\ verdict' = "upstream_error"
           /\ events' = Append(events, e) /\ UNCHANGED <<result, indexes, started, emitted>>
           /\ yielded' = IF emitted THEN Append(Append(yielded, TheError), TheDone) ELSE yielded
<1>1. /\ verdict = "open" /\ verdict' = "upstream_error"
      /\ events' = Append(events, e) /\ UNCHANGED <<result, indexes, started, emitted>>
      /\ yielded' = IF emitted THEN yielded \o <<TheError, TheDone>> ELSE yielded
  BY DEF Break, Fail, ErrorEnd, TheError, TheDone
<1>2. PICK F, s, x, y : F = ChatFrames /\ s = yielded /\ x = TheError /\ y = TheDone
  OBVIOUS
<1>3. s \in Seq(F) /\ x \in F /\ y \in F
  BY <1>2, EndChunks DEF ChatTypes
<1>4. s \o <<x, y>> = Append(Append(s, x), y)
  BY <1>3
<1> QED
  BY <1>1, <1>2, <1>4

-----------------------------------------------------------------------------
(* The body is framed.                                                     *)

OpenInv ==
    /\ Framed(yielded)
    /\ yielded = << >> <=> ~emitted
    /\ result.finish = "none"
    /\ started = {indexes[i] : i \in DOMAIN indexes}
    /\ \A id \in started : HasCall(yielded, IndexIn(indexes, id))

BodyInv ==
    /\ ChatTypes
    /\ BodyFramed(yielded, verdict)
    /\ verdict = "open" => OpenInv

LEMMA BodyInit == ChatInit => BodyInv
<1> SUFFICES ASSUME ChatInit PROVE BodyInv
  OBVIOUS
<1>1. << >> \in Seq(Events) /\ << >> \in Seq(Nat) /\ << >> \in Seq(ChatFrames)
  BY EmptySeq
<1>2. ChatTypes
  BY <1>1, EmptyType DEF ChatInit, ChatTypes
<1>3. Framed(<< >>)
  BY <1>1 DEF Framed
<1>4. DOMAIN indexes = {} /\ yielded = << >> /\ started = {} /\ ~emitted /\ verdict = "open"
  BY DEF ChatInit
<1>5. result.finish = "none"
  BY DEF ChatInit, EmptyResult
<1>6. BodyFramed(yielded, verdict)
  BY <1>4, NothingFramed
<1> QED
  BY <1>2, <1>3, <1>4, <1>5, <1>6 DEF BodyInv, OpenInv

LEMMA StartedFramed ==
    ASSUME ChatTypes, OpenInv
    PROVE  /\ Framed(Started) /\ Started # << >>
           /\ \A n : HasCall(yielded, n) => HasCall(Started, n)
<1>1. Framed(yielded) /\ (yielded = << >> <=> ~emitted)
  BY DEF OpenInv
<1>2. CASE emitted
  BY <1>1, <1>2 DEF Started
<1>3. CASE ~emitted
  <2>1. /\ Framed(Append(yielded, RoleChunk)) /\ Append(yielded, RoleChunk) # << >>
        /\ \A n : HasCall(yielded, n) => HasCall(Append(yielded, RoleChunk), n)
    BY <1>1, <1>3, RoleIs, AppendFramed DEF Going
  <2> QED BY <1>3, <2>1 DEF Started
<1> QED
  BY <1>2, <1>3

LEMMA FinishStays ==
    ASSUME ChatTypes, NEW e \in Events, e.type # "done", result.finish = "none"
    PROVE  Aggregated(result, e).finish = "none"
<1>1. PICK c, d, m : /\ c = Append(result.content, e.value)
                     /\ d = Append(result.reasoning, e.value)
                     /\ m = MergeCall(result.calls, e.value)
  OBVIOUS
<1>2. Aggregated(result, e) \in {[result EXCEPT !.content = c], [result EXCEPT !.reasoning = d],
                                 [result EXCEPT !.calls = m], [result EXCEPT !.usage = e.value],
                                 [result EXCEPT !.error = TRUE], result}
  BY <1>1 DEF Aggregated
<1> QED
  BY <1>2 DEF ChatTypes, Results

LEMMA HandleFramed ==
    ASSUME BodyInv, NEW e \in Payloads, Handle(e)
    PROVE  BodyInv'
<1>1. ChatTypes
  BY DEF BodyInv
<1>2. /\ verdict = "open" /\ verdict' = "open" /\ e \in Events
      /\ result' = Aggregated(result, e)
      /\ Silent(e) \/ Spoken(e) \/ Called(e)
  BY <1>1, HandleIs
<1>3. OpenInv
  BY <1>2 DEF BodyInv
<1>4. /\ Framed(Started) /\ Started # << >>
      /\ \A n : HasCall(yielded, n) => HasCall(Started, n)
  BY <1>1, <1>3, StartedFramed
<1>5. result'.finish = "none"
  <2>1. e.type # "done"
    BY <1>1, PayloadsType, EventsAre DEF ChatTypes
  <2> QED BY <1>1, <1>2, <1>3, <2>1, FinishStays DEF OpenInv
<1>6. OpenInv'
  <2>1. CASE Silent(e)
    BY <1>3, <1>5, <2>1 DEF OpenInv, Silent
  <2>2. CASE Spoken(e)
    <3>1. e.type \in {"text", "reasoning"}
      BY <2>2 DEF Spoken
    <3>2. ContentChunk(e) \in ChatFrames /\ ContentChunk(e).kind \in {"content", "reasoning"}
      BY <1>2, <3>1, ContentIs
    <3>3. /\ Framed(yielded') /\ yielded' # << >>
          /\ \A n : HasCall(Started, n) => HasCall(yielded', n)
      BY <1>4, <2>2, <3>2, AppendFramed DEF Spoken, Going
    <3>4. emitted' /\ indexes' = indexes /\ started' = started
      BY <2>2 DEF Spoken
    <3> QED BY <1>3, <1>4, <1>5, <3>3, <3>4 DEF OpenInv
  <2>3. CASE Called(e)
    <3>1. PICK c, x, y : c = e.value /\ x = HeadChunk(c) /\ y = ArgumentsChunk(c)
      OBVIOUS
    <3>2. c \in Calls /\ c.id \in Nat
      BY <1>2, <2>3, <3>1, EventsAre, CallsAre DEF Called
    <3>3. /\ x \in ChatFrames /\ y \in ChatFrames /\ x.kind = "call" /\ y.kind = "arguments"
          /\ x.index = IndexIn(indexes, c.id) /\ y.index = IndexIn(indexes, c.id)
      BY <1>1, <3>1, <3>2, CallChunks
    <3>4. PICK s : s = IF c.id \in started THEN Started ELSE Append(Started, x)
      OBVIOUS
    <3>5. /\ yielded' = Append(s, y) /\ emitted'
          /\ indexes' = IF IndexIn(indexes, c.id) = Len(indexes) THEN Append(indexes, c.id)
                                                                  ELSE indexes
          /\ started' = started \union {c.id}
      BY <2>3, <3>1, <3>4 DEF Called
    <3>6. /\ Framed(s) /\ s # << >> /\ HasCall(s, IndexIn(indexes, c.id))
          /\ \A n : HasCall(yielded, n) => HasCall(s, n)
      <4>1. CASE c.id \in started
        BY <1>3, <1>4, <3>4, <4>1 DEF OpenInv
      <4>2. CASE c.id \notin started
        <5>1. /\ Framed(Append(Started, x)) /\ Append(Started, x) # << >>
              /\ \A n : HasCall(Started, n) => HasCall(Append(Started, x), n)
              /\ HasCall(Append(Started, x), x.index)
          BY <1>4, <3>3, AppendFramed DEF Going
        <5> QED BY <1>4, <3>3, <3>4, <4>2, <5>1
      <4> QED BY <4>1, <4>2
    <3>7. /\ Framed(yielded') /\ yielded' # << >>
          /\ \A n : HasCall(s, n) => HasCall(yielded', n)
      BY <3>3, <3>5, <3>6, AppendFramed DEF Going
    <3>8. indexes \in Seq(Nat) /\ started = {indexes[i] : i \in DOMAIN indexes}
      BY <1>1, <1>3 DEF ChatTypes, OpenInv
    <3>9. /\ started' = {indexes'[i] : i \in DOMAIN indexes'}
          /\ \A id \in started' : IndexIn(indexes', id) = IndexIn(indexes, id)
      <4>1. CASE c.id \in started
        <5>1. IndexIn(indexes, c.id) # Len(indexes)
          BY <3>8, <4>1, IndexIs
        <5>2. indexes' = indexes /\ started' = started
          BY <3>5, <4>1, <5>1
        <5> QED BY <3>8, <5>2
      <4>2. CASE c.id \notin started
        <5>1. IndexIn(indexes, c.id) = Len(indexes) /\ \A i \in DOMAIN indexes : indexes[i] # c.id
          BY <3>8, <4>2, IndexIs
        <5>2. PICK more, n : more = Append(indexes, c.id) /\ n = Len(indexes)
          OBVIOUS
        <5>3. indexes' = more
          BY <3>5, <5>1, <5>2
        <5>4. /\ n \in Nat /\ DOMAIN indexes = 1 .. n /\ DOMAIN more = 1 .. n + 1
              /\ more[n + 1] = c.id /\ \A i \in 1 .. n : more[i] = indexes[i]
          BY <3>2, <3>8, <5>2, AppendIs
        <5>5. started \union {c.id} = {more[i] : i \in DOMAIN more}
          <6>1. \A i \in 1 .. n + 1 : i \in 1 .. n \/ i = n + 1
            BY <5>4
          <6>2. n + 1 \in 1 .. n + 1 /\ \A i \in 1 .. n : i \in 1 .. n + 1
            BY <5>4
          <6> QED BY <3>8, <5>4, <6>1, <6>2
        <5>6. \A id \in started \union {c.id} : IndexIn(more, id) = IndexIn(indexes, id)
          <6>1. ASSUME NEW id \in started \union {c.id}
                PROVE  IndexIn(more, id) = IndexIn(indexes, id)
            <7>1. id = c.id \/ \E i \in DOMAIN indexes : indexes[i] = id
              BY <3>8, <6>1
            <7> QED BY <3>2, <3>8, <5>1, <5>2, <7>1, IndexStays
          <6> QED BY <6>1
        <5> QED BY <3>5, <5>3, <5>5, <5>6
      <4> QED BY <4>1, <4>2
    <3>10. \A id \in started' : HasCall(yielded', IndexIn(indexes', id))
      <4>1. ASSUME NEW id \in started' PROVE HasCall(yielded', IndexIn(indexes, id))
        <5>1. CASE id = c.id
          BY <3>6, <3>7, <5>1
        <5>2. CASE id \in started
          BY <1>3, <3>6, <3>7, <5>2 DEF OpenInv
        <5> QED BY <3>5, <5>1, <5>2
      <4> QED BY <3>9, <4>1
    <3> QED BY <1>5, <3>5, <3>7, <3>9, <3>10 DEF OpenInv
  <2> QED BY <1>2, <2>1, <2>2, <2>3
<1>7. yielded' \in Seq(ChatFrames)
  BY <1>6 DEF OpenInv, Framed
<1>8. ChatTypes'
  BY <1>1, <1>7, AllTypes
<1>9. BodyFramed(yielded', "open")
  BY <1>6, FramedGoesOn DEF OpenInv
<1> QED
  BY <1>2, <1>6, <1>8, <1>9 DEF BodyInv

LEMMA EndFramed ==
    ASSUME BodyInv, NEW reason \in Reasons \union {"none"}, EndOfTurn(reason)
    PROVE  BodyInv'
<1>1. ChatTypes /\ verdict = "open" /\ OpenInv /\ result.finish = "none"
  BY DEF BodyInv, EndOfTurn, OpenInv
<1>2. /\ UNCHANGED <<indexes, started>>
      /\ events' = IF reason = "none" THEN events ELSE Append(events, Event("done", reason))
      /\ result' = IF reason = "none" THEN result ELSE Aggregated(result, Event("done", reason))
      /\ Succeeds(reason) \/ (reason = "none" /\ Fails)
  BY <1>1, FinalEndIs
<1>3. events' \in Seq(Events) /\ result' \in Results
  <2>1. reason # "none" => Event("done", reason) \in Events
    BY DEF Event, Events
  <2> QED BY <1>1, <1>2, <2>1, AppendProperties, AggregatedType DEF ChatTypes
<1>4. /\ yielded' \in Seq(ChatFrames) /\ emitted' \in BOOLEAN /\ BodyFramed(yielded', verdict')
      /\ verdict' \in {"success", "parse_error"}
  <2>1. CASE Succeeds(reason)
    <3>1. PICK s, f, u, d, t : /\ s = Started /\ f = TheFinal(reason) /\ u = TheUsage
                               /\ d = TheDone /\ t = yielded'
      OBVIOUS
    <3>2. Framed(s) /\ s # << >> /\ s \in Seq(ChatFrames)
      BY <1>1, <3>1, StartedFramed DEF Framed
    <3>3. /\ f \in ChatFrames /\ u \in ChatFrames /\ d \in ChatFrames
          /\ f.kind = "final" /\ u.kind = "usage" /\ d.kind = "[DONE]"
      BY <1>1, <3>1, EndChunks
    <3>4. /\ t = Finished(Append(s, f)) /\ verdict' = "success" /\ emitted' = TRUE
      BY <2>1, <3>1 DEF Succeeds
    <3>5. t \in {Append(Append(s, f), d), Append(Append(Append(s, f), u), d)}
      BY <3>1, <3>4 DEF Finished
    <3>6. BodyFramed(t, "success")
      BY <3>2, <3>3, <3>5, SuccessFramed
    <3>7. t \in Seq(ChatFrames)
      <4>1. Append(s, f) \in Seq(ChatFrames)
        BY <3>2, <3>3, AppendProperties
      <4> QED BY <1>1, <3>4, <4>1, FinishedIs
    <3> QED BY <3>1, <3>4, <3>6, <3>7
  <2>2. CASE Fails
    <3>1. yielded' = << >> /\ emitted' = FALSE /\ verdict' = "parse_error"
      BY <1>1, <2>2 DEF Fails, OpenInv
    <3>2. BodyFramed(<< >>, "parse_error")
      BY NothingFramed
    <3> QED BY <3>1, <3>2, EmptySeq
  <2> QED BY <1>2, <2>1, <2>2
<1>5. ChatTypes'
  BY <1>1, <1>2, <1>3, <1>4 DEF ChatTypes
<1> QED
  BY <1>4, <1>5 DEF BodyInv

LEMMA BreakFramed ==
    ASSUME BodyInv, Break(Event("error", 0))
    PROVE  BodyInv'
<1>1. ChatTypes /\ verdict = "open" /\ OpenInv
  BY DEF BodyInv, Break
<1>2. PICK e : e = Event("error", 0)
  OBVIOUS
<1>3. /\ verdict' = "upstream_error" /\ events' = Append(events, e)
      /\ UNCHANGED <<result, indexes, started, emitted>>
      /\ yielded' = IF emitted THEN Append(Append(yielded, TheError), TheDone) ELSE yielded
  BY <1>1, <1>2, BreakIs
<1>4. events' \in Seq(Events)
  <2>1. e \in Events
    BY <1>2 DEF Event, Events
  <2> QED BY <1>1, <1>3, <2>1, AppendProperties DEF ChatTypes
<1>5. /\ TheError \in ChatFrames /\ TheDone \in ChatFrames
      /\ TheError.kind = "error" /\ TheDone.kind = "[DONE]"
  BY <1>1, EndChunks
<1>6. yielded' \in Seq(ChatFrames) /\ BodyFramed(yielded', "upstream_error")
  <2>1. CASE emitted
    <3>1. BodyFramed(Append(Append(yielded, TheError), TheDone), "upstream_error")
      BY <1>1, <1>5, <2>1, BrokenFramed DEF OpenInv
    <3>2. Append(yielded, TheError) \in Seq(ChatFrames)
      BY <1>1, <1>5, AppendProperties DEF ChatTypes
    <3>3. Append(Append(yielded, TheError), TheDone) \in Seq(ChatFrames)
      BY <1>5, <3>2, AppendProperties
    <3> QED BY <1>3, <2>1, <3>1, <3>3
  <2>2. CASE ~emitted
    <3>1. yielded' = << >>
      BY <1>1, <1>3, <2>2 DEF OpenInv
    <3> QED BY <3>1, NothingFramed, EmptySeq
  <2> QED BY <2>1, <2>2
<1>7. ChatTypes'
  BY <1>1, <1>3, <1>4, <1>6 DEF ChatTypes
<1> QED
  BY <1>3, <1>6, <1>7 DEF BodyInv

LEMMA BodyRests == BodyInv /\ UNCHANGED chatVars => BodyInv'
BY DEF BodyInv, OpenInv, ChatTypes, chatVars

LEMMA BodyStep == BodyInv /\ [ChatNext]_chatVars => BodyInv'
BY HandleFramed, EndFramed, BreakFramed, BodyRests DEF ChatNext

LEMMA BodyHolds == ChatSpec => []BodyInv
BY BodyInit, BodyStep, PTL DEF ChatSpec

(* The frames of a body come in the order clients rely on, in turns of any *)
(* length and with any calls: the role first, a call before its arguments, *)
(* one final chunk, at most the usage after it, and [DONE] at the end      *)
(* whether the turn succeeded or broke off (normalizer.py:186-241,         *)
(* streaming.py:35-45).                                                    *)
THEOREM FramesHold == ChatSpec => []BodyIsFramed
<1>1. BodyInv => BodyIsFramed
  BY BodyIs DEF BodyInv
<1> QED
  BY <1>1, BodyHolds, PTL


-----------------------------------------------------------------------------
(* What complete() makes of the events is what stream() has aggregated, an *)
(* error apart.                                                            *)

(* The events that make an answer of a turn.                               *)
Answers(es) == \E i \in DOMAIN es : es[i].type \in {"text", "tool_call"}

VerdictInv ==
    /\ verdict # "upstream_error" => Total(events) = result
    /\ verdict = "upstream_error" => Total(events) = [result EXCEPT !.error = TRUE]
    /\ result.error = FALSE
    /\ ~emitted => result.content = << >> /\ result.calls = << >>
    /\ verdict = "parse_error" => ~emitted
    /\ Answers(events) <=> result.content # << >> \/ result.calls # << >>

(* A call is a new one, or takes the place of an earlier one's arguments.  *)
HasName(c) == c.name # ""

Replaced(calls, c, k) ==
    [calls EXCEPT ![k].name = IF HasName(c) THEN c.name ELSE @,
                  ![k].arguments = IF c.arguments # <<>> THEN c.arguments ELSE @]

LEMMA MergeIs ==
    ASSUME NEW calls, NEW c
    PROVE  /\ (\A i \in DOMAIN calls : ~SameCall(calls[i], c)) => MergeCall(calls, c) = Append(calls, c)
           /\ (\E i \in DOMAIN calls : SameCall(calls[i], c)) =>
                 \E k : MergeCall(calls, c) = Replaced(calls, c, k)
<1> DEFINE same == {i \in DOMAIN calls : SameCall(calls[i], c)}
<1>1. MergeCall(calls, c) = IF same = {} THEN Append(calls, c)
                            ELSE Replaced(calls, c, CHOOSE k \in same : \A n \in same : k <= n)
  BY DEF MergeCall, HasName, Replaced
<1>2. same = {} <=> \A i \in DOMAIN calls : ~SameCall(calls[i], c)
  OBVIOUS
<1> HIDE DEF same
<1> QED
  BY <1>1, <1>2

LEMMA ReplacedIs ==
    ASSUME NEW calls \in Seq(CallType), NEW c \in CallType, NEW k, NEW m, m = Replaced(calls, c, k)
    PROVE  /\ DOMAIN m = DOMAIN calls /\ Len(m) = Len(calls)
           /\ \A i \in DOMAIN calls : i # k => m[i] = calls[i]
           /\ k \in DOMAIN calls /\ c.arguments # << >> => m[k].arguments = c.arguments
<1>1. PICK n \in Nat : calls \in [1 .. n -> CallType]
  BY SeqDef
<1>2. PICK N, S, D : N = Seq(Nat) /\ S = STRING /\ D = 1 .. n
  OBVIOUS
<1>3. CallType = [id : Nat, index : Nat, name : S, arguments : N]
  BY <1>2 DEF CallType
<1>4. c.name \in S /\ c.arguments \in N /\ calls \in [D -> CallType]
  BY <1>1, <1>2, <1>3
<1>5. m \in [D -> CallType]
  BY <1>3, <1>4 DEF Replaced
<1>6. DOMAIN m = 1 .. n /\ DOMAIN calls = 1 .. n
  BY <1>1, <1>2, <1>5
<1>7. Len(m) = n /\ Len(calls) = n
  BY <1>1, <1>6
<1>8. \A i \in DOMAIN calls : i # k => m[i] = calls[i]
  BY DEF Replaced
<1>9. ASSUME k \in DOMAIN calls, c.arguments # << >> PROVE m[k].arguments = c.arguments
  <2>1. calls[k] \in [id : Nat, index : Nat, name : S, arguments : N]
    BY <1>3, <1>4, <1>9
  <2> QED BY <1>9, <2>1 DEF Replaced
<1> QED
  BY <1>6, <1>7, <1>8, <1>9

LEMMA MergeKeeps ==
    ASSUME NEW calls \in Seq(CallType), NEW c \in CallType
    PROVE  MergeCall(calls, c) # << >>
<1>1. PICK m : m = MergeCall(calls, c)
  OBVIOUS
<1>2. CASE \A i \in DOMAIN calls : ~SameCall(calls[i], c)
  BY <1>2, MergeIs, AppendIs
<1>3. CASE \E i \in DOMAIN calls : SameCall(calls[i], c)
  <2>1. PICK k : m = Replaced(calls, c, k)
    BY <1>1, <1>3, MergeIs
  <2>2. DOMAIN m # {}
    BY <1>3, <2>1, ReplacedIs
  <2>3. DOMAIN << >> = {}
    OBVIOUS
  <2> QED BY <1>1, <2>2, <2>3
<1> QED
  BY <1>2, <1>3

LEMMA AggregatedLeaves ==
    ASSUME NEW r \in Results, NEW e \in Events
    PROVE  /\ e.type # "error" => Aggregated(r, e).error = r.error
           /\ e.type # "text" => Aggregated(r, e).content = r.content
           /\ e.type # "reasoning" => Aggregated(r, e).reasoning = r.reasoning
           /\ e.type # "tool_call" => Aggregated(r, e).calls = r.calls
<1>1. PICK c, d, m : /\ c = Append(r.content, e.value) /\ d = Append(r.reasoning, e.value)
                     /\ m = MergeCall(r.calls, e.value)
  OBVIOUS
<1>2. CASE e.type = "text"
  BY <1>1, <1>2 DEF Aggregated, Results
<1>3. CASE e.type = "reasoning"
  BY <1>1, <1>3 DEF Aggregated, Results
<1>4. CASE e.type = "tool_call"
  BY <1>1, <1>4 DEF Aggregated, Results
<1>5. CASE e.type \notin {"text", "reasoning", "tool_call"}
  <2>1. Aggregated(r, e) \in {[r EXCEPT !.usage = e.value], [r EXCEPT !.error = TRUE],
                              [r EXCEPT !.finish = e.value], r}
    BY <1>5 DEF Aggregated
  <2>2. Aggregated(r, e) = [r EXCEPT !.error = TRUE] => e.type = "error" \/ r.error = TRUE
    BY <1>5 DEF Aggregated, Results
  <2> QED BY <1>5, <2>1, <2>2 DEF Results
<1> QED
  BY <1>2, <1>3, <1>4, <1>5

LEMMA AnswersAppend ==
    ASSUME events \in Seq(Events), NEW e \in Events, events' = Append(events, e)
    PROVE  Answers(events') <=> Answers(events) \/ e.type \in {"text", "tool_call"}
<1>1. PICK s, n, t : s = events /\ n = Len(s) /\ t = events'
  OBVIOUS
<1>2. /\ n \in Nat /\ DOMAIN s = 1 .. n /\ DOMAIN t = 1 .. n + 1 /\ t[n + 1] = e
      /\ \A i \in 1 .. n : t[i] = s[i]
  BY <1>1, AppendIs
<1>3. \A i \in 1 .. n + 1 : i \in 1 .. n \/ i = n + 1
  BY <1>2
<1>4. n + 1 \in 1 .. n + 1 /\ \A i \in 1 .. n : i \in 1 .. n + 1
  BY <1>2
<1> QED
  BY <1>1, <1>2, <1>3, <1>4 DEF Answers

(* Text and calls are kept, and nothing else is added to them.             *)
LEMMA AggregatedAnswers ==
    ASSUME NEW r \in Results, NEW e \in Events, NEW q, q = Aggregated(r, e)
    PROVE  q.content # << >> \/ q.calls # << >>
             <=> r.content # << >> \/ r.calls # << >> \/ e.type \in {"text", "tool_call"}
<1>1. r.content \in Seq(Nat) /\ r.calls \in Seq(CallType)
  BY DEF Results
<1>2. CASE e.type = "text"
  <2>1. PICK c : c = Append(r.content, e.value)
    OBVIOUS
  <2>2. c # << >>
    BY <1>1, <1>2, <2>1, EventsAre, AppendIs
  <2>3. q.content = c
    BY <1>2, <2>1 DEF Aggregated, Results
  <2> QED BY <1>2, <2>2, <2>3
<1>3. CASE e.type = "tool_call"
  <2>1. PICK c, m : c = e.value /\ m = MergeCall(r.calls, e.value)
    OBVIOUS
  <2>2. c \in CallType
    BY <1>3, <2>1, EventsAre, CallsAre
  <2>3. m # << >>
    BY <1>1, <2>1, <2>2, MergeKeeps
  <2>4. q.calls = m
    BY <1>3, <2>1 DEF Aggregated, Results
  <2> QED BY <1>3, <2>3, <2>4
<1>4. CASE e.type \notin {"text", "tool_call"}
  BY <1>4, AggregatedLeaves
<1> QED
  BY <1>2, <1>3, <1>4

LEMMA VerdictInit == ChatInit => VerdictInv
<1>1. ASSUME events = << >> PROVE ~Answers(events)
  <2>1. DOMAIN events = {}
    BY <1>1
  <2> QED BY <2>1 DEF Answers
<1> QED
  BY <1>1, TotalEmpty DEF ChatInit, EmptyResult, VerdictInv

LEMMA HandleVerdict ==
    ASSUME BodyInv, VerdictInv, NEW e \in Payloads, Handle(e)
    PROVE  VerdictInv'
<1>1. ChatTypes /\ events \in Seq(Events) /\ result \in Results
  BY DEF BodyInv, ChatTypes
<1>2. /\ verdict = "open" /\ verdict' = "open" /\ e \in Events
      /\ events' = Append(events, e) /\ result' = Aggregated(result, e)
      /\ Silent(e) \/ Spoken(e) \/ Called(e)
  BY <1>1, HandleIs
<1>3. e.type # "error"
  BY DEF Handle
<1>4. Total(events') = result'
  <2>1. Total(events) = result
    BY <1>2 DEF VerdictInv
  <2> QED BY <1>1, <1>2, <2>1, TotalAppend
<1>5. result'.error = FALSE
  BY <1>1, <1>2, <1>3, AggregatedLeaves DEF VerdictInv
<1>6. ASSUME ~emitted' PROVE result'.content = << >> /\ result'.calls = << >>
  <2>1. Silent(e)
    BY <1>2, <1>6 DEF Spoken, Called
  <2>2. ~emitted
    BY <1>6, <2>1 DEF Silent
  <2>3. e.type # "text" /\ e.type # "tool_call"
    BY <2>1, TurnAssumption DEF Silent
  <2> QED BY <1>1, <1>2, <2>2, <2>3, AggregatedLeaves DEF VerdictInv
<1>7. Answers(events') <=> result'.content # << >> \/ result'.calls # << >>
  <2>1. Answers(events) <=> result.content # << >> \/ result.calls # << >>
    BY DEF VerdictInv
  <2> QED BY <1>1, <1>2, <2>1, AnswersAppend, AggregatedAnswers
<1> QED
  BY <1>2, <1>4, <1>5, <1>6, <1>7 DEF VerdictInv

LEMMA EndVerdict ==
    ASSUME BodyInv, VerdictInv, NEW reason \in Reasons \union {"none"}, EndOfTurn(reason)
    PROVE  VerdictInv'
<1>1. /\ ChatTypes /\ verdict = "open" /\ result.finish = "none"
      /\ events \in Seq(Events) /\ result \in Results /\ emitted \in BOOLEAN
  BY DEF BodyInv, EndOfTurn, OpenInv, ChatTypes
<1>2. PICK e : e = Event("done", reason)
  OBVIOUS
<1>3. /\ events' = IF reason = "none" THEN events ELSE Append(events, e)
      /\ result' = IF reason = "none" THEN result ELSE Aggregated(result, e)
      /\ Succeeds(reason) \/ (reason = "none" /\ Fails)
  BY <1>1, <1>2, FinalEndIs
<1>4. /\ verdict' \in {"success", "parse_error"}
      /\ verdict' = "parse_error" => ~emitted'
      /\ ~emitted' => ~emitted
  BY <1>3 DEF Succeeds, Fails
<1>5. /\ Total(events) = result /\ result.error = FALSE
      /\ ~emitted => result.content = << >> /\ result.calls = << >>
      /\ Answers(events) <=> result.content # << >> \/ result.calls # << >>
  BY <1>1 DEF VerdictInv
<1>6. CASE reason = "none"
  BY <1>3, <1>4, <1>5, <1>6 DEF VerdictInv
<1>7. CASE reason # "none"
  <2>1. e \in Events /\ e.type = "done"
    BY <1>2, <1>7 DEF Event, Events
  <2>2. Total(events') = result'
    BY <1>1, <1>3, <1>5, <1>7, <2>1, TotalAppend
  <2>3. /\ result'.error = FALSE /\ result'.content = result.content
        /\ result'.calls = result.calls
    BY <1>1, <1>3, <1>5, <1>7, <2>1, AggregatedLeaves
  <2>4. Answers(events') <=> Answers(events)
    BY <1>1, <1>3, <1>7, <2>1, AnswersAppend
  <2> QED BY <1>4, <1>5, <2>2, <2>3, <2>4 DEF VerdictInv
<1> QED
  BY <1>6, <1>7

LEMMA BreakVerdict ==
    ASSUME BodyInv, VerdictInv, Break(Event("error", 0))
    PROVE  VerdictInv'
<1>1. ChatTypes /\ events \in Seq(Events) /\ result \in Results
  BY DEF BodyInv, ChatTypes
<1>2. PICK e : e = Event("error", 0)
  OBVIOUS
<1>3. /\ verdict = "open" /\ verdict' = "upstream_error" /\ events' = Append(events, e)
      /\ UNCHANGED <<result, emitted>>
  BY <1>1, <1>2, BreakIs
<1>4. e \in Events /\ e.type = "error"
  BY <1>2 DEF Event, Events
<1>5. Total(events') = Aggregated(Total(events), e)
  BY <1>1, <1>3, <1>4, TotalAppend
<1>6. Total(events') = [result' EXCEPT !.error = TRUE]
  BY <1>3, <1>4, <1>5 DEF VerdictInv, Aggregated
<1>7. Answers(events') <=> Answers(events)
  BY <1>1, <1>3, <1>4, AnswersAppend
<1> QED
  BY <1>3, <1>6, <1>7 DEF VerdictInv

LEMMA VerdictRests == VerdictInv /\ UNCHANGED chatVars => VerdictInv'
BY DEF VerdictInv, Total, Answers, chatVars

LEMMA VerdictStep == BodyInv /\ VerdictInv /\ [ChatNext]_chatVars => VerdictInv'
BY HandleVerdict, EndVerdict, BreakVerdict, VerdictRests DEF ChatNext

LEMMA VerdictHolds == ChatSpec => []VerdictInv
BY VerdictInit, VerdictStep, BodyHolds, PTL DEF ChatSpec

(* complete() accepts exactly the turns with text or a call that stream()  *)
(* accepts, and both take the same turns for broken off, for any number of *)
(* events and calls (completion_service.py:119-133, 201-247).              *)
THEOREM StreamsAccept == ChatSpec => []CompleteImpliesStreamed
<1>1. BodyInv /\ VerdictInv => CompleteImpliesStreamed
  <2> SUFFICES ASSUME BodyInv, VerdictInv, verdict # "open" PROVE CompleteImpliesStreamed
    BY DEF CompleteImpliesStreamed
  <2>1. result \in Results /\ verdict \in {"success", "parse_error", "upstream_error"}
    BY DEF BodyInv, ChatTypes
  <2>2. Complete = Total(events)
    BY FoldsAre
  <2>3. CASE verdict = "upstream_error"
    <3>1. Complete.error = TRUE
      BY <2>1, <2>2, <2>3 DEF VerdictInv, Results
    <3> QED BY <2>3, <3>1 DEF CompleteVerdict, CompleteImpliesStreamed
  <2>4. CASE verdict \in {"success", "parse_error"}
    <3>1. Complete = result /\ Complete.error = FALSE
      BY <2>2, <2>4 DEF VerdictInv
    <3>2. verdict = "parse_error" => result.content = << >> /\ result.calls = << >>
      BY <2>4 DEF VerdictInv
    <3>3. CompleteVerdict = "success" <=> Answers(events)
      BY <3>1 DEF VerdictInv, CompleteVerdict
    <3>4. verdict = "parse_error" => ~Answers(events)
      BY <3>2 DEF VerdictInv
    <3>5. CompleteVerdict # "upstream_error"
      BY <3>1 DEF CompleteVerdict
    <3>6. Answers(events) <=> \E i \in DOMAIN events : events[i].type \in {"text", "tool_call"}
      BY DEF Answers
    <3> QED BY <2>4, <3>3, <3>4, <3>5, <3>6 DEF CompleteImpliesStreamed
  <2> QED BY <2>1, <2>3, <2>4
<1> QED
  BY <1>1, BodyHolds, VerdictHolds, PTL


-----------------------------------------------------------------------------
(* What the client reads is what has been aggregated, but for the calls    *)
(* that have been merged.                                                  *)

PublicOf(c)    == Public(c.id, c.name, c.arguments)
Publics(calls) == [i \in DOMAIN calls |-> PublicOf(calls[i])]
PublicType     == [id : Nat, name : STRING, arguments : Seq(Nat)]

(* A message with what has been aggregated in r, the calls k and the       *)
(* finish reason f.                                                        *)
Told(r, k, f) ==
    [content   |-> r.content,
     reasoning |-> IF ExposeReasoning THEN r.reasoning ELSE << >>,
     calls     |-> k,
     finish    |-> f]

(* The calls k of the client are those of the indexes, and those that were *)
(* aggregated are among them.                                              *)
Numbered(k) ==
    /\ k \in Seq(PublicType) /\ Len(k) = Len(indexes)
    /\ \A i \in 1 .. Len(k) : k[i].id = indexes[i]
    /\ \A i \in DOMAIN result.calls : \E j \in 1 .. Len(k) : k[j].id = result.calls[i].id

(* The calls so far are those of the events, under the index of their id.  *)
Listed ==
    /\ Len(indexes) = Len(result.calls)
    /\ \A i \in 1 .. Len(result.calls) :
          /\ indexes[i] = result.calls[i].id
          /\ \E n \in 1 .. Len(events) :
                IsCall(events[n]) /\ events[n].value = result.calls[i]

(* The length of the arguments of all calls of cs together.                *)
Weighs(cs, a) ==
    \E f : /\ f[0] = 0 /\ f[Len(cs)] = a
           /\ \A n \in 0 .. Len(cs) : f[n] \in Int
           /\ \A n \in 1 .. Len(cs) : f[n] = f[n - 1] + Len(cs[n].arguments)

LEMMA WeighsNothing == Weighs(<< >>, 0)
<1>1. PICK f : f = [n \in {0} |-> 0]
  OBVIOUS
<1>2. f[0] = 0 /\ Len(<< >>) = 0 /\ 1 .. 0 = {} /\ 0 .. 0 = {0}
  BY <1>1
<1> QED
  BY <1>2 DEF Weighs

LEMMA WeighsInt ==
    ASSUME NEW cs, Len(cs) \in Nat, NEW a, Weighs(cs, a)
    PROVE  a \in Int
BY DEF Weighs

(* The calls of ds are as long as those of cs.                             *)
LEMMA WeighsAlike ==
    ASSUME NEW cs, NEW ds, Len(cs) \in Nat, Len(ds) = Len(cs),
           \A n \in 1 .. Len(cs) : Len(ds[n].arguments) = Len(cs[n].arguments),
           NEW a, Weighs(cs, a), NEW b, Weighs(ds, b)
    PROVE  a = b
<1>1. PICK N : N = Len(cs)
  OBVIOUS
<1>2. PICK f : /\ f[0] = 0 /\ f[N] = a
               /\ \A n \in 1 .. N : f[n] = f[n - 1] + Len(cs[n].arguments)
  BY <1>1 DEF Weighs
<1>3. PICK g : /\ g[0] = 0 /\ g[N] = b
               /\ \A n \in 1 .. N : g[n] = g[n - 1] + Len(ds[n].arguments)
  BY <1>1 DEF Weighs
<1>4. Alike(N, f, g) /\ N \in Nat
  BY <1>1, <1>2, <1>3 DEF Alike
<1> QED
  BY <1>2, <1>3, <1>4, AlikeAtTheEnd

LEMMA WeighsAppend ==
    ASSUME NEW F, NEW cs \in Seq(F), NEW c \in F, Len(c.arguments) \in Nat,
           NEW a, Weighs(cs, a)
    PROVE  Weighs(Append(cs, c), a + Len(c.arguments))
<1>1. PICK N, ds, v, b : /\ N = Len(cs) /\ ds = Append(cs, c) /\ v = Len(c.arguments)
                         /\ b = a + Len(c.arguments)
  OBVIOUS
<1>2. /\ N \in Nat /\ Len(ds) = N + 1 /\ ds[N + 1] = c
      /\ \A n \in 1 .. N : ds[n] = cs[n]
  BY <1>1, AppendIs
<1>3. PICK f : /\ f[0] = 0 /\ f[N] = a /\ \A n \in 0 .. N : f[n] \in Int
               /\ \A n \in 1 .. N : f[n] = f[n - 1] + Len(cs[n].arguments)
  BY <1>1 DEF Weighs
<1>4. PICK g : g = [n \in 0 .. N + 1 |-> IF n = N + 1 THEN b ELSE f[n]]
  OBVIOUS
<1>5. a \in Int /\ b \in Int /\ b = a + v
  BY <1>1, <1>2, <1>3
<1>6. g[N + 1] = b /\ \A n \in 0 .. N : g[n] = f[n]
  BY <1>2, <1>4
<1>7. g[0] = 0
  BY <1>2, <1>3, <1>6
<1>8. \A n \in 0 .. N + 1 : g[n] \in Int
  BY <1>2, <1>3, <1>4, <1>5
<1>9. ASSUME NEW n \in 1 .. N + 1 PROVE g[n] = g[n - 1] + Len(ds[n].arguments)
  <2>1. CASE n = N + 1
    <3>1. n - 1 = N /\ N \in 0 .. N
      BY <1>2, <2>1
    <3> QED BY <1>1, <1>2, <1>3, <1>5, <1>6, <2>1, <3>1
  <2>2. CASE n # N + 1
    <3>1. n \in 1 .. N /\ n \in 0 .. N /\ n - 1 \in 0 .. N
      BY <1>2, <2>2
    <3> QED BY <1>2, <1>3, <1>6, <3>1
  <2> QED BY <2>1, <2>2
<1>10. Weighs(ds, b)
  BY <1>2, <1>6, <1>7, <1>8, <1>9 DEF Weighs
<1> QED
  BY <1>1, <1>10

(* Other arguments for one call.                                           *)
LEMMA WeighsChange ==
    ASSUME NEW cs, NEW ds, Len(cs) \in Nat, Len(ds) = Len(cs), NEW j \in 1 .. Len(cs),
           \A n \in 1 .. Len(cs) : n # j => ds[n] = cs[n],
           NEW v \in Int, \A n \in 1 .. Len(cs) : Len(cs[n].arguments) \in Int,
           Len(ds[j].arguments) = Len(cs[j].arguments) + v,
           NEW a, Weighs(cs, a)
    PROVE  Weighs(ds, a + v)
<1>1. PICK N, b : N = Len(cs) /\ b = a + v
  OBVIOUS
<1>2. PICK f : /\ f[0] = 0 /\ f[N] = a /\ \A n \in 0 .. N : f[n] \in Int
               /\ \A n \in 1 .. N : f[n] = f[n - 1] + Len(cs[n].arguments)
  BY <1>1 DEF Weighs
<1>3. PICK g : g = [n \in 0 .. N |-> IF n < j THEN f[n] ELSE f[n] + v]
  OBVIOUS
<1>4. N \in Nat /\ j \in 1 .. N
  BY <1>1
<1>5. \A n \in 0 .. N : g[n] = (IF n < j THEN f[n] ELSE f[n] + v) /\ g[n] \in Int
  BY <1>2, <1>3, <1>4
<1>6. g[0] = 0 /\ g[N] = b
  <2>1. 0 \in 0 .. N /\ N \in 0 .. N /\ 0 < j /\ ~(N < j \/ j > N)
    BY <1>4
  <2>2. g[0] = f[0] /\ (N < j => FALSE) /\ g[N] = f[N] + v
    BY <1>4, <1>5, <2>1
  <2> QED BY <1>1, <1>2, <2>2
<1>7. ASSUME NEW n \in 1 .. N PROVE g[n] = g[n - 1] + Len(ds[n].arguments)
  <2>1. n - 1 \in 0 .. N /\ n \in 0 .. N
    BY <1>4
  <2>2. PICK x, y, z : x = f[n - 1] /\ y = Len(cs[n].arguments) /\ z = f[n]
    OBVIOUS
  <2>3. x \in Int /\ y \in Int /\ z \in Int /\ z = x + y
    BY <1>1, <1>2, <2>1, <2>2
  <2>4. CASE n = j
    <3>1. g[n] = z + v /\ g[n - 1] = x
      BY <1>4, <1>5, <2>1, <2>2, <2>4
    <3>2. Len(ds[n].arguments) = y + v
      BY <2>2, <2>4
    <3> QED BY <2>3, <3>1, <3>2
  <2>5. CASE n < j
    <3>1. g[n] = z /\ g[n - 1] = x
      BY <1>4, <1>5, <2>1, <2>2, <2>5
    <3>2. ds[n] = cs[n]
      BY <1>1, <1>4, <2>5
    <3> QED BY <2>2, <2>3, <3>1, <3>2
  <2>6. CASE n > j
    <3>1. g[n] = z + v /\ g[n - 1] = x + v
      BY <1>4, <1>5, <2>1, <2>2, <2>6
    <3>2. ds[n] = cs[n]
      BY <1>1, <1>4, <2>6
    <3>3. Len(ds[n].arguments) = y
      BY <2>2, <3>2
    <3> QED BY <2>3, <3>1, <3>3
  <2> QED BY <1>4, <2>4, <2>5, <2>6
<1>8. Weighs(ds, b)
  BY <1>1, <1>5, <1>6, <1>7 DEF Weighs
<1> QED
  BY <1>1, <1>8

LEMMA WeighsType ==
    ASSUME NEW cs \in Seq(CallType)
    PROVE  \A n \in 1 .. Len(cs) : cs[n].arguments \in Seq(Nat) /\ Len(cs[n].arguments) \in Nat
<1>1. \A n \in 1 .. Len(cs) : cs[n] \in CallType
  BY LenProperties, ElementOfSeq
<1> QED
  BY <1>1, LenProperties DEF CallType

LEMMA LengthOf ==
    ASSUME NEW s \in Seq(Nat), s # << >>
    PROVE  Len(s) \in Nat /\ Len(s) > 0
BY EmptySeq, LenProperties

(* With a call at most its arguments are added to what complete() has, and *)
(* less if it is taken for an earlier one, whose arguments it replaces.    *)
Filled(cs) == \A i \in 1 .. Len(cs) : cs[i].arguments # << >>

LEMMA MergeWeighs ==
    ASSUME NEW calls \in Seq(CallType), NEW c \in CallType, Filled(calls), c.arguments # << >>,
           NEW b, Weighs(calls, b)
    PROVE  /\ Filled(MergeCall(calls, c))
           /\ \E d : /\ Weighs(MergeCall(calls, c), d) /\ d <= b + Len(c.arguments)
                     /\ (\E i \in DOMAIN calls : SameCall(calls[i], c)) => d < b + Len(c.arguments)
<1>1. PICK m, n, v : m = MergeCall(calls, c) /\ n = Len(calls) /\ v = Len(c.arguments)
  OBVIOUS
<1>2. c.arguments \in Seq(Nat) /\ v \in Nat /\ v > 0
  BY <1>1, LengthOf DEF CallType
<1>3. n \in Nat /\ DOMAIN calls = 1 .. n /\ b \in Int
  BY <1>1, LenProperties, WeighsInt
<1>4. \A i \in 1 .. n : calls[i].arguments \in Seq(Nat) /\ Len(calls[i].arguments) \in Nat
  BY <1>1, WeighsType
<1>5. CASE \A i \in DOMAIN calls : ~SameCall(calls[i], c)
  <2>1. m = Append(calls, c)
    BY <1>1, <1>5, MergeIs
  <2>2. Len(m) = n + 1 /\ m[n + 1] = c /\ \A i \in 1 .. n : m[i] = calls[i]
    BY <1>1, <2>1, AppendIs
  <2>3. Weighs(m, b + v)
    BY <1>1, <1>2, <2>1, WeighsAppend
  <2>4. \A i \in 1 .. n + 1 : i = n + 1 \/ i \in 1 .. n
    BY <1>3
  <2>5. Filled(m)
    BY <1>1, <2>2, <2>4 DEF Filled
  <2>6. b + v <= b + v
    BY <1>2, <1>3
  <2> QED BY <1>1, <1>5, <2>3, <2>5, <2>6
<1>6. CASE \E i \in DOMAIN calls : SameCall(calls[i], c)
  <2>1. PICK k : m = Replaced(calls, c, k)
    BY <1>1, <1>6, MergeIs
  <2>2. /\ Len(m) = n /\ \A i \in 1 .. n : i # k => m[i] = calls[i]
        /\ k \in 1 .. n => m[k].arguments = c.arguments
    BY <1>1, <1>3, <2>1, ReplacedIs
  <2>3. Filled(m)
    BY <1>1, <2>2 DEF Filled
  <2>4. CASE k \in 1 .. n
    <3>1. PICK w, x : w = Len(calls[k].arguments) /\ x = v - Len(calls[k].arguments)
      OBVIOUS
    <3>2. w \in Nat /\ w > 0
      BY <1>1, <1>4, <2>4, <3>1, LengthOf DEF Filled
    <3>3. x \in Int /\ Len(m[k].arguments) = Len(calls[k].arguments) + x
      BY <1>1, <1>2, <2>2, <2>4, <3>1, <3>2
    <3>4. \A i \in 1 .. n : Len(calls[i].arguments) \in Int
      BY <1>4
    <3>5. Weighs(m, b + x)
      BY <1>1, <1>3, <2>2, <2>4, <3>3, <3>4, WeighsChange
    <3>6. b + x < b + v /\ b + x <= b + v
      <4>1. x = v - w /\ b \in Int /\ v \in Nat /\ w \in Nat /\ w > 0
        BY <1>2, <1>3, <3>1, <3>2
      <4> QED BY <4>1
    <3> QED BY <1>1, <2>3, <3>5, <3>6
  <2>5. CASE k \notin 1 .. n
    <3>1. \A i \in 1 .. n : m[i] = calls[i]
      BY <2>2, <2>5
    <3>2. Weighs(m, b)
      BY <1>1, <2>2, <3>1 DEF Weighs
    <3>3. b < b + v /\ b <= b + v
      BY <1>2, <1>3
    <3> QED BY <1>1, <2>3, <3>2, <3>3
  <2> QED BY <2>4, <2>5
<1> QED
  BY <1>5, <1>6

(* The calls k of the client weigh more than those aggregated as soon as   *)
(* one has been taken for another.                                         *)
Kept ==
    \A n \in 1 .. Len(events) :
        IsCall(events[n]) => \E i \in 1 .. Len(result.calls) : result.calls[i] = events[n].value

Weighed(k) ==
    /\ Filled(result.calls)
    /\ ToldApart => Kept
    /\ \E a, b : /\ Weighs(k, a) /\ Weighs(result.calls, b)
                 /\ b <= a /\ (~ToldApart => b < a)

(* What the client has read is what has been aggregated, but for its own   *)
(* calls k, which are the same as long as all can be told apart.           *)
StoryInv ==
    verdict \in {"open", "success"} =>
        \E k : /\ Numbered(k) /\ Weighed(k)
               /\ ToldApart => Listed /\ k = Publics(result.calls)
               /\ Read(yielded) = Told(result, k, IF verdict = "open" THEN "none"
                                                  ELSE EffectiveReason(result))

LEMMA MessageIs ==
    ASSUME NEW r
    PROVE  Message(r) = Told(r, Publics(r.calls), EffectiveReason(r))
<1>1. PICK k : k = [i \in DOMAIN r.calls |-> Public(r.calls[i].id, r.calls[i].name,
                                                    r.calls[i].arguments)]
  OBVIOUS
<1>2. Publics(r.calls) = k
  BY <1>1 DEF Publics, PublicOf
<1> QED
  BY <1>1, <1>2 DEF Message, Told

(* The opening chunk, the usage and the end say nothing of the message.    *)
LEMMA SaysNothing ==
    ASSUME NEW s \in Seq(ChatFrames), NEW c \in ChatFrames, c.kind \in {"role", "usage", "error", "[DONE]"}
    PROVE  Read(Append(s, c)) = Read(s)
<1>1. Read(Append(s, c)) = Received(Read(s), c)
  BY ReadAppend
<1>2. \A m : Received(m, c) = m
  BY DEF Received
<1> QED
  BY <1>1, <1>2

LEMMA StartedTells == ChatTypes => Started \in Seq(ChatFrames) /\ Read(Started) = Read(yielded)
<1> SUFFICES ASSUME ChatTypes PROVE Started \in Seq(ChatFrames) /\ Read(Started) = Read(yielded)
  OBVIOUS
<1>1. Read(Append(yielded, RoleChunk)) = Read(yielded)
  BY RoleIs, SaysNothing DEF ChatTypes
<1> QED
  BY <1>1, StartedType DEF Started

LEMMA AppendFunction ==
    ASSUME NEW F, NEW s \in Seq(F), NEW c \in F, NEW n, n = Len(s)
    PROVE  Append(s, c) = [i \in 1 .. n + 1 |-> IF i = n + 1 THEN c ELSE s[i]]
<1>1. PICK t, f : /\ t = Append(s, c)
                  /\ f = [i \in 1 .. n + 1 |-> IF i = n + 1 THEN c ELSE s[i]]
  OBVIOUS
<1>2. /\ n \in Nat /\ t \in Seq(F) /\ Len(t) = n + 1 /\ t[n + 1] = c
      /\ \A i \in 1 .. n : t[i] = s[i]
  BY <1>1, AppendIs
<1>3. t \in [1 .. n + 1 -> F]
  BY <1>2, LenProperties
<1>4. \A i \in 1 .. n + 1 : t[i] = f[i]
  <2>1. ASSUME NEW i \in 1 .. n + 1 PROVE t[i] = f[i]
    <3>1. CASE i = n + 1
      BY <1>1, <1>2, <3>1
    <3>2. CASE i # n + 1
      <4>1. i \in 1 .. n
        BY <1>2, <3>2
      <4> QED BY <1>1, <1>2, <3>2, <4>1
    <3> QED BY <3>1, <3>2
  <2> QED BY <2>1
<1> QED
  BY <1>1, <1>3, <1>4

(* A piece of text is added at the end.                                    *)
LEMMA TextTells ==
    ASSUME NEW r \in Results, NEW e \in Events, NEW k,
           e.type = "text" \/ (e.type = "reasoning" /\ ExposeReasoning)
    PROVE  Received(Told(r, k, "none"), ContentChunk(e)) = Told(Aggregated(r, e), k, "none")
<1>1. /\ ContentChunk(e).kind = IF e.type = "text" THEN "content" ELSE "reasoning"
      /\ ContentChunk(e).value = e.value
  BY ContentIs
<1>2. PICK x, c, d, q, m : /\ x = ContentChunk(e) /\ c = Append(r.content, e.value)
                           /\ d = Append(r.reasoning, e.value)
                           /\ q = Aggregated(r, e) /\ m = Told(r, k, "none")
  OBVIOUS
<1>3. PICK t, w, v : /\ t = r.content
                     /\ w = (IF ExposeReasoning THEN r.reasoning ELSE << >>)
                     /\ v = (IF ExposeReasoning THEN q.reasoning ELSE << >>)
  OBVIOUS
<1>4. /\ m = [content |-> t, reasoning |-> w, calls |-> k, finish |-> "none"]
      /\ Told(q, k, "none") = [content |-> q.content, reasoning |-> v, calls |-> k,
                               finish |-> "none"]
  BY <1>2, <1>3 DEF Told
<1>5. CASE e.type = "text"
  <2>1. q.content = c /\ q.reasoning = r.reasoning
    BY <1>2, <1>5 DEF Aggregated, Results
  <2>2. Received(m, x) = [m EXCEPT !.content = c]
    <3>1. Received(m, x) = [m EXCEPT !.content = Append(m.content, x.value)]
      BY <1>1, <1>2, <1>5 DEF Received
    <3>2. m.content = t
      BY <1>4
    <3> QED BY <1>1, <1>2, <1>3, <3>1, <3>2
  <2>3. v = w
    BY <1>3, <2>1
  <2>4. [m EXCEPT !.content = c] = [content |-> c, reasoning |-> w, calls |-> k, finish |-> "none"]
    BY <1>4
  <2>5. Told(q, k, "none") = [content |-> c, reasoning |-> w, calls |-> k, finish |-> "none"]
    BY <1>4, <2>1, <2>3
  <2> QED BY <1>2, <2>2, <2>4, <2>5
<1>6. CASE e.type = "reasoning" /\ ExposeReasoning
  <2>1. q.reasoning = d /\ q.content = t
    BY <1>2, <1>3, <1>6 DEF Aggregated, Results
  <2>2. w = r.reasoning /\ v = d
    BY <1>3, <1>6, <2>1
  <2>3. Received(m, x) = [m EXCEPT !.reasoning = d]
    <3>1. Received(m, x) = [m EXCEPT !.reasoning = Append(m.reasoning, x.value)]
      BY <1>1, <1>2, <1>6 DEF Received
    <3>2. m.reasoning = w
      BY <1>4
    <3> QED BY <1>1, <1>2, <2>2, <3>1, <3>2
  <2>4. [m EXCEPT !.reasoning = d] = [content |-> t, reasoning |-> d, calls |-> k, finish |-> "none"]
    BY <1>4
  <2>5. Told(q, k, "none") = [content |-> t, reasoning |-> d, calls |-> k, finish |-> "none"]
    BY <1>4, <2>1, <2>2
  <2> QED BY <1>2, <2>3, <2>4, <2>5
<1> QED
  BY <1>5, <1>6

(* A call that is told apart from those before it is a new one.            *)
LEMMA MergeAppends ==
    ASSUME NEW calls, NEW c, \A i \in DOMAIN calls : ~SameCall(calls[i], c)
    PROVE  MergeCall(calls, c) = Append(calls, c)
<1>1. {i \in DOMAIN calls : SameCall(calls[i], c)} = {}
  OBVIOUS
<1> QED
  BY <1>1 DEF MergeCall

(* Merging brings in no id but that of the call.                           *)
LEMMA MergeIds ==
    ASSUME NEW calls \in Seq(CallType), NEW c \in CallType
    PROVE  \A i \in DOMAIN MergeCall(calls, c) :
              \/ MergeCall(calls, c)[i].id = c.id
              \/ \E j \in DOMAIN calls : MergeCall(calls, c)[i].id = calls[j].id
<1> DEFINE same == {i \in DOMAIN calls : SameCall(calls[i], c)}
           Merged(i) == [calls EXCEPT ![i].name = IF HasName(c) THEN c.name ELSE @,
                                      ![i].arguments =
                                         IF c.arguments # <<>> THEN c.arguments ELSE @]
<1>1. ASSUME NEW k
      PROVE  /\ DOMAIN Merged(k) = DOMAIN calls
             /\ \A i \in DOMAIN calls : Merged(k)[i].id = calls[i].id
  <2>1. PICK n \in Nat : calls \in [1 .. n -> CallType]
    BY SeqDef
  <2>2. PICK N, S, D : N = Seq(Nat) /\ S = STRING /\ D = 1 .. n
    OBVIOUS
  <2>3. CallType = [id : Nat, index : Nat, name : S, arguments : N]
    BY <2>2 DEF CallType
  <2>4. c.name \in S /\ c.arguments \in N /\ calls \in [D -> CallType]
    BY <2>1, <2>2, <2>3
  <2>5. DOMAIN Merged(k) = DOMAIN calls
    OBVIOUS
  <2>6. ASSUME NEW i \in DOMAIN calls PROVE Merged(k)[i].id = calls[i].id
    <3>1. calls[i] \in [id : Nat, index : Nat, name : S, arguments : N]
      BY <2>3, <2>4, <2>6
    <3>2. CASE i = k
      BY <2>6, <3>1, <3>2
    <3>3. CASE i # k
      BY <2>6, <3>3
    <3> QED BY <3>2, <3>3
  <2> QED BY <2>5, <2>6
<1>2. DOMAIN calls = 1 .. Len(calls) /\ Len(calls) \in Nat
  BY LenProperties
<1>3. MergeCall(calls, c) = IF same = {} THEN Append(calls, c)
                            ELSE Merged(CHOOSE k \in same : \A n \in same : k <= n)
  BY DEF MergeCall, HasName
<1>4. CASE same = {}
  <2>1. PICK m, n : m = Append(calls, c) /\ n = Len(calls)
    OBVIOUS
  <2>2. DOMAIN m = 1 .. n + 1 /\ m[n + 1] = c /\ \A i \in 1 .. n : m[i] = calls[i]
    BY <2>1, AppendIs
  <2>3. ASSUME NEW i \in 1 .. n + 1
        PROVE  m[i].id = c.id \/ \E j \in 1 .. n : m[i].id = calls[j].id
    <3>1. CASE i = n + 1
      BY <2>2, <3>1
    <3>2. CASE i # n + 1
      <4>1. i \in 1 .. n
        BY <1>2, <2>1, <3>2
      <4> QED BY <2>2, <4>1
    <3> QED BY <3>1, <3>2
  <2> QED BY <1>2, <1>3, <1>4, <2>1, <2>2, <2>3
<1>5. CASE same # {}
  <2> HIDE DEF Merged, same
  <2>1. PICK k : MergeCall(calls, c) = Merged(k)
    BY <1>3, <1>5
  <2> QED BY <1>1, <2>1
<1> QED
  BY <1>4, <1>5

(* More arguments of a call the client has.                                *)
MoreOf(k, j, v) == [k EXCEPT ![j].arguments = @ \o v]

LEMMA ArgumentsTell ==
    ASSUME NEW r, NEW k \in Seq(PublicType), NEW y, NEW j \in 1 .. Len(k),
           y.kind = "arguments", y.index = j - 1, y.value \in Seq(Nat),
           NEW g, g = MoreOf(k, j, y.value)
    PROVE  /\ Received(Told(r, k, "none"), y) = Told(r, g, "none")
           /\ g \in Seq(PublicType) /\ Len(g) = Len(k)
           /\ \A i \in 1 .. Len(k) : g[i].id = k[i].id
<1>1. PICK n \in Nat : n = Len(k) /\ k \in [1 .. n -> PublicType] /\ DOMAIN k = 1 .. n
  BY LenProperties, SeqDef
<1>2. PICK N : N = Seq(Nat)
  OBVIOUS
<1>3. PICK a : a = k[j].arguments \o y.value
  OBVIOUS
<1>4. a \in N
  <2>1. k[j].arguments \in Seq(Nat)
    BY <1>1 DEF PublicType
  <2> QED BY <1>2, <1>3, <2>1, ConcatProperties
<1>5. PICK q : q = [k[j] EXCEPT !.arguments = a]
  OBVIOUS
<1>6. q \in PublicType /\ q.id = k[j].id
  <2>1. PublicType = [id : Nat, name : STRING, arguments : N]
    BY <1>2 DEF PublicType
  <2>2. k[j] \in [id : Nat, name : STRING, arguments : N]
    BY <1>1, <2>1
  <2> QED BY <1>4, <1>5, <2>1, <2>2
<1>7. g = [i \in 1 .. n |-> IF i = j THEN q ELSE k[i]]
  BY <1>1, <1>3, <1>5 DEF MoreOf
<1>8. g \in [1 .. n -> PublicType] /\ \A i \in 1 .. n : g[i].id = k[i].id
  BY <1>1, <1>6, <1>7
<1>9. g \in Seq(PublicType) /\ Len(g) = n
  BY <1>8, SeqDef, LenProperties
<1>10. Received(Told(r, k, "none"), y) = Told(r, g, "none")
  <2>1. PICK m : m = Told(r, k, "none")
    OBVIOUS
  <2>2. Received(m, y) = [m EXCEPT !.calls[y.index + 1].arguments = @ \o y.value]
    BY DEF Received
  <2>3. y.index + 1 = j
    BY <1>1
  <2>4. m.calls = k
    BY <2>1 DEF Told
  <2>5. Received(m, y) = [m EXCEPT !.calls = g]
    BY <2>1, <2>2, <2>3, <2>4 DEF Told, MoreOf
  <2> QED BY <2>1, <2>5 DEF Told
<1> QED
  BY <1>1, <1>8, <1>9, <1>10

(* The head of a new call is a call without arguments.                     *)
LEMMA HeadTells ==
    ASSUME NEW r, NEW k \in Seq(PublicType), NEW c \in CallType, NEW x,
           x.kind = "call", x.index = Len(k), x.value = [id |-> c.id, name |-> c.name],
           NEW g, g = Append(k, Public(c.id, c.name, << >>))
    PROVE  Received(Told(r, k, "none"), x) = Told(r, g, "none")
<1>1. PICK n, m, p : n = Len(k) /\ m = Told(r, k, "none") /\ p = Public(c.id, c.name, << >>)
  OBVIOUS
<1>2. n \in Nat /\ DOMAIN k = 1 .. n /\ k \in Seq(PublicType)
  BY <1>1, LenProperties
<1>3. PICK f : f = [i \in 1 .. n + 1 |-> IF i = n + 1 THEN p ELSE k[i]]
  OBVIOUS
<1>4. g = f
  <2>1. p \in PublicType
    BY <1>1, EmptySeq DEF Public, PublicType, CallType
  <2> QED BY <1>1, <1>3, <2>1, AppendFunction
<1>5. Received(m, x) = [m EXCEPT !.calls = f]
  <2>1. Received(m, x) = [m EXCEPT !.calls =
                            [i \in DOMAIN m.calls \union {x.index + 1} |->
                               IF i = x.index + 1 THEN Public(x.value.id, x.value.name, << >>)
                                                  ELSE m.calls[i]]]
    BY DEF Received
  <2>2. x.value.id = c.id /\ x.value.name = c.name /\ x.index = n /\ m.calls = k
    BY <1>1 DEF Told
  <2>3. DOMAIN k \union {n + 1} = 1 .. n + 1
    BY <1>2
  <2>4. [i \in DOMAIN m.calls \union {x.index + 1} |->
           IF i = x.index + 1 THEN Public(x.value.id, x.value.name, << >>) ELSE m.calls[i]] = f
    BY <1>1, <1>3, <2>2, <2>3
  <2> QED BY <2>1, <2>4
<1> QED
  BY <1>1, <1>4, <1>5 DEF Told

(* The head of a new call and its arguments add that call.                 *)
LEMMA CallTells ==
    ASSUME NEW r, NEW k \in Seq(PublicType), NEW c \in CallType, NEW x, NEW y,
           x.kind = "call", x.index = Len(k), x.value = [id |-> c.id, name |-> c.name],
           y.kind = "arguments", y.index = Len(k), y.value = c.arguments
    PROVE  /\ Received(Received(Told(r, k, "none"), x), y) = Told(r, Append(k, PublicOf(c)), "none")
           /\ Append(k, PublicOf(c)) \in Seq(PublicType)
           /\ PublicOf(c) \in PublicType /\ PublicOf(c).id = c.id
<1>1. PICK n, p, q : n = Len(k) /\ p = Public(c.id, c.name, << >>) /\ q = PublicOf(c)
  OBVIOUS
<1>2. c.id \in Nat /\ c.name \in STRING /\ c.arguments \in Seq(Nat) /\ << >> \in Seq(Nat)
  BY EmptySeq DEF CallType
<1>3. p \in PublicType /\ q \in PublicType /\ q.id = c.id
  BY <1>1, <1>2 DEF Public, PublicOf, PublicType
<1>4. PICK g : g = Append(k, p)
  OBVIOUS
<1>5. /\ n \in Nat /\ g \in Seq(PublicType) /\ Len(g) = n + 1 /\ DOMAIN g = 1 .. n + 1
      /\ g[n + 1] = p /\ \A i \in 1 .. n : g[i] = k[i]
  BY <1>1, <1>3, <1>4, AppendIs
<1>6. Received(Told(r, k, "none"), x) = Told(r, g, "none")
  BY <1>1, <1>4, HeadTells
<1>7. PICK h : h = MoreOf(g, n + 1, y.value)
  OBVIOUS
<1>8. Received(Told(r, g, "none"), y) = Told(r, h, "none")
  <2>1. PICK j : j = n + 1
    OBVIOUS
  <2>2. j \in 1 .. Len(g) /\ y.index = j - 1 /\ y.value \in Seq(Nat)
    BY <1>1, <1>2, <1>5, <2>1
  <2>3. h = MoreOf(g, j, y.value)
    BY <1>7, <2>1
  <2>4. y.kind = "arguments"
    OBVIOUS
  <2> QED BY <1>5, <2>2, <2>3, <2>4, ArgumentsTell
<1>9. h = Append(k, q)
  <2>1. << >> \o c.arguments = c.arguments
    BY <1>2, ConcatEmptySeq
  <2>2. [p EXCEPT !.arguments = @ \o y.value] = q
    BY <1>1, <2>1 DEF Public, PublicOf
  <2>3. h = [i \in 1 .. n + 1 |-> IF i = n + 1 THEN q ELSE g[i]]
    BY <1>5, <1>7, <2>2 DEF MoreOf
  <2>4. Append(k, q) = [i \in 1 .. n + 1 |-> IF i = n + 1 THEN q ELSE k[i]]
    BY <1>1, <1>3, AppendFunction
  <2>5. \A i \in 1 .. n + 1 : (IF i = n + 1 THEN q ELSE g[i]) = IF i = n + 1 THEN q ELSE k[i]
    BY <1>5
  <2> QED BY <2>3, <2>4, <2>5
<1>10. Append(k, q) \in Seq(PublicType)
  BY <1>3, AppendIs
<1> QED
  BY <1>1, <1>3, <1>6, <1>8, <1>9, <1>10

LEMMA PublicsAppend ==
    ASSUME NEW calls \in Seq(CallType), NEW c \in CallType
    PROVE  Publics(Append(calls, c)) = Append(Publics(calls), PublicOf(c))
<1>1. PICK n, s, t, p : /\ n = Len(calls) /\ s = calls /\ t = Append(calls, c)
                        /\ p = Publics(calls)
  OBVIOUS
<1>2. /\ n \in Nat /\ DOMAIN s = 1 .. n /\ DOMAIN t = 1 .. n + 1 /\ t[n + 1] = c
      /\ \A i \in 1 .. n : t[i] = s[i]
  BY <1>1, AppendIs
<1>3. p = [i \in 1 .. n |-> PublicOf(s[i])]
  BY <1>1, <1>2 DEF Publics
<1>4. Len(p) = n
  BY <1>2, <1>3
<1>5. Append(p, PublicOf(c)) = [i \in 1 .. n + 1 |-> IF i = n + 1 THEN PublicOf(c) ELSE p[i]]
  <2>1. PICK P, q : P = {PublicOf(d) : d \in CallType} /\ q = PublicOf(c)
    OBVIOUS
  <2>2. \A i \in 1 .. n : s[i] \in CallType
    BY <1>1, <1>2, SeqDef
  <2>3. p \in Seq(P) /\ q \in P
    BY <1>2, <1>3, <2>1, <2>2, SeqDef
  <2> QED BY <1>4, <2>1, <2>3, AppendFunction
<1>6. Publics(t) = [i \in 1 .. n + 1 |-> PublicOf(t[i])]
  BY <1>2 DEF Publics
<1>7. \A i \in 1 .. n + 1 : PublicOf(t[i]) = IF i = n + 1 THEN PublicOf(c) ELSE p[i]
  <2>1. ASSUME NEW i \in 1 .. n + 1
        PROVE  PublicOf(t[i]) = IF i = n + 1 THEN PublicOf(c) ELSE p[i]
    <3>1. CASE i = n + 1
      BY <1>2, <3>1
    <3>2. CASE i # n + 1
      <4>1. i \in 1 .. n
        BY <1>2, <3>2
      <4>2. t[i] = s[i] /\ p[i] = PublicOf(s[i])
        BY <1>2, <1>3, <4>1
      <4> QED BY <3>2, <4>2
    <3> QED BY <3>1, <3>2
  <2> QED BY <2>1
<1> QED
  BY <1>1, <1>5, <1>6, <1>7

LEMMA StoryInit == ChatInit => StoryInv
<1> SUFFICES ASSUME ChatInit PROVE StoryInv
  OBVIOUS
<1>1. /\ result = EmptyResult /\ indexes = << >> /\ yielded = << >> /\ verdict = "open"
  BY DEF ChatInit
<1>2. Read(yielded) = NoMessage
  BY <1>1, ReadEmpty
<1>3. PICK x : x = << >>
  OBVIOUS
<1>4. DOMAIN x = {} /\ Len(x) = 0 /\ x \in Seq(PublicType)
  BY <1>3, EmptySeq
<1>5. result.calls = x /\ result.content = x /\ result.reasoning = x
  BY <1>1, <1>3 DEF EmptyResult
<1>6. Publics(x) = x
  <2>1. PICK f : f = Publics(x)
    OBVIOUS
  <2>2. f = [i \in DOMAIN x |-> x[i]]
    BY <1>4, <2>1 DEF Publics
  <2>3. x = [i \in DOMAIN x |-> x[i]]
    BY <1>3
  <2> QED BY <2>1, <2>2, <2>3
<1>7. Told(result, x, "none") = NoMessage
  BY <1>3, <1>5 DEF Told, NoMessage
<1>8. Numbered(x)
  BY <1>1, <1>3, <1>4, <1>5 DEF Numbered
<1>9. Listed
  BY <1>1, <1>3, <1>4, <1>5 DEF Listed
<1>10. events = x /\ ToldApart /\ Kept
  BY <1>3, <1>4 DEF ChatInit, ToldApart, Kept
<1>11. Weighs(x, 0) /\ 0 <= 0
  BY <1>3, WeighsNothing
<1>12. Weighed(x)
  BY <1>4, <1>5, <1>10, <1>11 DEF Weighed, Filled
<1> QED
  BY <1>1, <1>2, <1>5, <1>6, <1>7, <1>8, <1>9, <1>12 DEF StoryInv

(* Events are only added: what was told apart then was so before.          *)
LEMMA ApartBefore ==
    ASSUME events \in Seq(Events), NEW e \in Events, events' = Append(events, e), ToldApart'
    PROVE  /\ ToldApart
           /\ \A n \in 1 .. Len(events) :
                 IsCall(events[n]) /\ IsCall(e) => ~SameCall(events[n].value, e.value)
<1>1. PICK s, n, t : s = events /\ n = Len(s) /\ t = events'
  OBVIOUS
<1>2. /\ n \in Nat /\ DOMAIN s = 1 .. n /\ DOMAIN t = 1 .. n + 1 /\ t[n + 1] = e
      /\ \A i \in 1 .. n : t[i] = s[i]
  BY <1>1, AppendIs
<1>3. \A i, j \in 1 .. n + 1 :
         i # j /\ IsCall(t[i]) /\ IsCall(t[j]) => ~SameCall(t[i].value, t[j].value)
  BY <1>1, <1>2 DEF ToldApart, SameCall, IsCall
<1>4. \A i \in 1 .. n : i \in 1 .. n + 1 /\ i # n + 1
  BY <1>2
<1>5. n + 1 \in 1 .. n + 1
  BY <1>2
<1>6. \A i, j \in 1 .. n :
         i # j /\ IsCall(s[i]) /\ IsCall(s[j]) => ~SameCall(s[i].value, s[j].value)
  BY <1>2, <1>3, <1>4
<1>7. \A i \in 1 .. n : IsCall(s[i]) /\ IsCall(e) => ~SameCall(s[i].value, e.value)
  BY <1>2, <1>3, <1>4, <1>5
<1> QED
  BY <1>1, <1>2, <1>6, <1>7 DEF ToldApart

(* What makes a turn whose calls were told apart one where they are not.   *)
LEMMA ApartAfter ==
    ASSUME events \in Seq(Events), NEW e \in Events, events' = Append(events, e), ToldApart, ~ToldApart'
    PROVE  /\ IsCall(e)
           /\ \E n \in 1 .. Len(events) : IsCall(events[n]) /\ SameCall(events[n].value, e.value)
<1>1. PICK s, n, t : s = events /\ n = Len(s) /\ t = events'
  OBVIOUS
<1>2. /\ n \in Nat /\ DOMAIN s = 1 .. n /\ DOMAIN t = 1 .. n + 1 /\ t[n + 1] = e
      /\ \A i \in 1 .. n : t[i] = s[i]
  BY <1>1, AppendIs
<1>3. PICK i, j \in 1 .. n + 1 :
          i # j /\ IsCall(t[i]) /\ IsCall(t[j]) /\ SameCall(t[i].value, t[j].value)
  BY <1>1, <1>2 DEF ToldApart, SameCall, IsCall
<1>4. \A a, b : SameCall(a, b) => SameCall(b, a)
  BY DEF SameCall
<1>5. \A m \in 1 .. n + 1 : m = n + 1 \/ m \in 1 .. n
  BY <1>2
<1>6. ~(i \in 1 .. n /\ j \in 1 .. n)
  BY <1>1, <1>2, <1>3 DEF ToldApart
<1>7. CASE i = n + 1
  BY <1>1, <1>2, <1>3, <1>4, <1>5, <1>7
<1>8. CASE j = n + 1
  BY <1>1, <1>2, <1>3, <1>5, <1>8
<1> QED
  BY <1>5, <1>6, <1>7, <1>8

LEMMA QuietWeighs ==
    ASSUME events \in Seq(Events), NEW k, Weighed(k),
           NEW e \in Events, ~IsCall(e), events' = Append(events, e), result'.calls = result.calls
    PROVE  Weighed(k)'
<1>1. PICK s, n, t, c : s = events /\ n = Len(s) /\ t = events' /\ c = result.calls
  OBVIOUS
<1>2. /\ n \in Nat /\ Len(t) = n + 1 /\ t[n + 1] = e /\ \A i \in 1 .. n : t[i] = s[i]
  BY <1>1, AppendIs
<1>3. ToldApart' <=> ToldApart
  BY ApartBefore, ApartAfter
<1>4. \A i \in 1 .. n + 1 : i = n + 1 \/ i \in 1 .. n
  BY <1>2
<1>5. ASSUME Kept PROVE Kept'
  <2>1. \A i \in 1 .. n : IsCall(s[i]) => \E l \in 1 .. Len(c) : c[l] = s[i].value
    BY <1>1, <1>5 DEF Kept
  <2>2. \A i \in 1 .. n + 1 : IsCall(t[i]) => \E l \in 1 .. Len(c) : c[l] = t[i].value
    BY <1>2, <1>4, <2>1
  <2> QED BY <1>1, <1>2, <2>2 DEF Kept, IsCall
<1> QED
  BY <1>3, <1>5 DEF Weighed

(* A call in the events: the client has its arguments as well.             *)
LEMMA CalledWeighs ==
    ASSUME events \in Seq(Events), result.calls \in Seq(CallType), NEW k, Len(k) \in Nat, Weighed(k),
           ToldApart => Listed, NEW e \in Events, e.type = "tool_call", events' = Append(events, e),
           result'.calls = MergeCall(result.calls, e.value),
           NEW g, \A a : Weighs(k, a) => Weighs(g, a + Len(e.value.arguments))
    PROVE  Weighed(g)'
<1>1. PICK c, s, t, v : /\ c = e.value /\ s = result.calls /\ t = result'.calls
                        /\ v = Len(c.arguments)
  OBVIOUS
<1>2. c \in CallType /\ c.arguments \in Seq(Nat) /\ c.arguments # << >> /\ IsCall(e)
  BY <1>1, EventsAre, CallsAre DEF IsCall
<1>3. v \in Nat /\ v > 0
  BY <1>1, <1>2, LengthOf
<1>4. PICK a, b : /\ Weighs(k, a) /\ Weighs(s, b)
                  /\ b <= a /\ (~ToldApart => b < a)
  BY <1>1 DEF Weighed
<1>5. a \in Int /\ b \in Int
  BY <1>1, <1>4, WeighsInt, LenProperties
<1>6. t = MergeCall(s, c)
  BY <1>1
<1>7. Filled(t) /\ \E d : /\ Weighs(t, d) /\ d <= b + v
                          /\ (\E i \in DOMAIN s : SameCall(s[i], c)) => d < b + v
  BY <1>1, <1>2, <1>4, <1>6, MergeWeighs DEF Weighed
<1>8. PICK d : /\ Weighs(t, d) /\ d <= b + v
               /\ (\E i \in DOMAIN s : SameCall(s[i], c)) => d < b + v
  BY <1>7
<1>9. Weighs(g, a + v)
  BY <1>1, <1>4
<1>10. t \in Seq(CallType)
  BY <1>1, <1>2, <1>6, MergeType
<1>11. d \in Int
  BY <1>8, <1>10, WeighsInt, LenProperties
<1>12. d <= a + v
  BY <1>3, <1>4, <1>5, <1>8, <1>11
<1>13. ASSUME ~ToldApart' PROVE d < a + v
  <2>1. CASE ~ToldApart
    BY <1>3, <1>4, <1>5, <1>8, <1>11, <2>1
  <2>2. CASE ToldApart
    <3>1. PICK n \in 1 .. Len(events) : IsCall(events[n]) /\ SameCall(events[n].value, e.value)
      BY <1>13, <2>2, ApartAfter
    <3>2. PICK i \in 1 .. Len(s) : s[i] = events[n].value
      BY <1>1, <2>2, <3>1 DEF Weighed, Kept
    <3>3. i \in DOMAIN s /\ SameCall(s[i], c)
      BY <1>1, <3>1, <3>2, LenProperties
    <3> QED BY <1>3, <1>4, <1>5, <1>8, <1>11, <3>3
  <2> QED BY <2>1, <2>2
<1>14. ASSUME ToldApart' PROVE Kept'
  <2>1. PICK es, m, fs : es = events /\ m = Len(es) /\ fs = events'
    OBVIOUS
  <2>2. /\ m \in Nat /\ Len(fs) = m + 1 /\ fs[m + 1] = e /\ \A i \in 1 .. m : fs[i] = es[i]
    BY <2>1, AppendIs
  <2>3. /\ ToldApart
        /\ \A n \in 1 .. m : IsCall(es[n]) => ~SameCall(es[n].value, c)
    BY <1>1, <1>2, <1>14, <2>1, ApartBefore
  <2>4. \A n \in 1 .. m : IsCall(es[n]) => \E i \in 1 .. Len(s) : s[i] = es[n].value
    BY <1>1, <2>1, <2>3 DEF Weighed, Kept
  <2>5. ASSUME NEW i \in DOMAIN s PROVE ~SameCall(s[i], c)
    <3>1. PICK n \in 1 .. m : IsCall(es[n]) /\ es[n].value = s[i]
      BY <1>1, <2>1, <2>3, <2>5, LenProperties DEF Listed
    <3> QED BY <2>3, <3>1
  <2>6. PICK N : N = Len(s)
    OBVIOUS
  <2>7. t = Append(s, c)
    BY <1>6, <2>5, MergeIs
  <2>8. N \in Nat /\ Len(t) = N + 1 /\ t[N + 1] = c /\ \A i \in 1 .. N : t[i] = s[i]
    BY <1>1, <1>2, <2>6, <2>7, AppendIs
  <2>9. ASSUME NEW n \in 1 .. m + 1, IsCall(fs[n])
        PROVE  \E i \in 1 .. N + 1 : t[i] = fs[n].value
    <3>1. CASE n = m + 1
      <4>1. N + 1 \in 1 .. N + 1
        BY <2>8
      <4> QED BY <1>1, <2>2, <2>8, <3>1, <4>1
    <3>2. CASE n # m + 1
      <4>1. n \in 1 .. m
        BY <2>2, <3>2
      <4>2. PICK i \in 1 .. N : s[i] = es[n].value
        BY <2>2, <2>4, <2>6, <2>9, <4>1
      <4>3. i \in 1 .. N + 1
        BY <2>8
      <4> QED BY <2>2, <2>8, <4>1, <4>2, <4>3
    <3> QED BY <3>1, <3>2
  <2> QED BY <1>1, <2>1, <2>2, <2>8, <2>9 DEF Kept, IsCall
<1> QED
  BY <1>7, <1>8, <1>9, <1>12, <1>13, <1>14, <1>1 DEF Weighed

(* An event that is no call leaves the calls what they were.               *)
LEMMA StillListed ==
    ASSUME events \in Seq(Events), Listed, NEW e \in Events, events' = Append(events, e),
           result'.calls = result.calls, UNCHANGED indexes
    PROVE  Listed'
<1>1. PICK s, n, t, m : s = events /\ n = Len(s) /\ t = events' /\ m = Len(t)
  OBVIOUS
<1>2. n \in Nat /\ m = n + 1 /\ \A k \in 1 .. n : t[k] = s[k]
  BY <1>1, AppendIs
<1>3. \A x : (\E k \in 1 .. n : IsCall(s[k]) /\ s[k].value = x)
                => \E k \in 1 .. m : IsCall(t[k]) /\ t[k].value = x
  <2>1. \A k \in 1 .. n : k \in 1 .. m
    BY <1>2
  <2> QED BY <1>2, <2>1
<1> QED
  BY <1>1, <1>3 DEF Listed, IsCall

LEMMA StillNumbered ==
    ASSUME NEW k, Numbered(k), result'.calls = result.calls, UNCHANGED indexes
    PROVE  Numbered(k)'
BY DEF Numbered

LEMMA QuietTells ==
    ASSUME events \in Seq(Events), NEW k, Numbered(k), Weighed(k),
           ToldApart => Listed /\ k = Publics(result.calls),
           NEW e \in Events, e.type # "tool_call", events' = Append(events, e),
           result'.calls = result.calls, UNCHANGED indexes
    PROVE  /\ Numbered(k)' /\ Weighed(k)'
           /\ ToldApart' => Listed' /\ k = Publics(result'.calls)
<1>1. Numbered(k)'
  BY StillNumbered
<1>2. ASSUME ToldApart' PROVE Listed' /\ k = Publics(result'.calls)
  <2>1. ToldApart
    BY <1>2, ApartBefore
  <2> QED BY <2>1, StillListed
<1>3. Weighed(k)'
  BY QuietWeighs DEF IsCall
<1> QED
  BY <1>1, <1>2, <1>3

(* A call in the events: a new one, or more arguments for one of its id.   *)
LEMMA PublicLength ==
    ASSUME NEW k \in Seq(PublicType)
    PROVE  \A l \in 1 .. Len(k) : k[l].arguments \in Seq(Nat) /\ Len(k[l].arguments) \in Nat
<1>1. \A l \in 1 .. Len(k) : k[l] \in PublicType
  BY LenProperties, ElementOfSeq
<1> QED
  BY <1>1, LenProperties DEF PublicType

LEMMA MoreLength ==
    ASSUME NEW k \in Seq(PublicType), NEW i \in 1 .. Len(k), NEW v \in Seq(Nat),
           NEW g, g = MoreOf(k, i, v)
    PROVE  Len(g[i].arguments) = Len(k[i].arguments) + Len(v)
<1>1. PICK N, a, b : N = Seq(Nat) /\ a = k[i].arguments /\ b = a \o v
  OBVIOUS
<1>2. k[i] \in [id : Nat, name : STRING, arguments : N] /\ i \in DOMAIN k
  BY <1>1, LenProperties, ElementOfSeq DEF PublicType
<1>3. Len(b) = Len(a) + Len(v)
  BY <1>1, PublicLength, ConcatProperties
<1>4. g[i].arguments = b
  BY <1>1, <1>2 DEF MoreOf
<1> QED
  BY <1>1, <1>3, <1>4

LEMMA CalledTells ==
    ASSUME BodyInv, verdict = "open", NEW k, Numbered(k), Weighed(k),
           ToldApart => Listed /\ k = Publics(result.calls),
           Read(yielded) = Told(result, k, "none"),
           NEW e \in Events, Called(e), events' = Append(events, e),
           result' = Aggregated(result, e)
    PROVE  \E g : /\ Numbered(g)' /\ Weighed(g)'
                  /\ ToldApart' => Listed' /\ g = Publics(result'.calls)
                  /\ Read(yielded') = Told(result', g, "none")
<1>1. /\ ChatTypes /\ events \in Seq(Events) /\ result \in Results /\ indexes \in Seq(Nat)
      /\ started = {indexes[i] : i \in DOMAIN indexes}
  BY DEF BodyInv, ChatTypes, OpenInv
<1>2. PICK c, x, y, s, n : /\ c = e.value /\ x = HeadChunk(c) /\ y = ArgumentsChunk(c)
                           /\ s = result.calls /\ n = Len(indexes)
  OBVIOUS
<1>3. e.type = "tool_call" /\ c \in Calls /\ c \in CallType /\ c.id \in Nat
  BY <1>2, EventsAre, CallsAre DEF Called
<1>4. n \in Nat /\ DOMAIN indexes = 1 .. n /\ s \in Seq(CallType) /\ DOMAIN s = 1 .. Len(s)
  BY <1>1, <1>2, LenProperties DEF Results
<1>5. /\ k \in Seq(PublicType) /\ Len(k) = n /\ DOMAIN k = 1 .. n
      /\ \A i \in 1 .. n : k[i].id = indexes[i]
      /\ \A i \in DOMAIN s : \E j \in 1 .. n : k[j].id = s[i].id
  BY <1>2, LenProperties DEF Numbered
<1>6. PICK j : j = IndexIn(indexes, c.id)
  OBVIOUS
<1>7. /\ j \in 0 .. n /\ (j = n <=> \A i \in 1 .. n : indexes[i] # c.id)
      /\ j # n => indexes[j + 1] = c.id
  BY <1>1, <1>2, <1>4, <1>6, IndexIs
<1>8. c.id \in started <=> j # n
  <2>1. c.id \in started <=> \E i \in 1 .. n : indexes[i] = c.id
    BY <1>1, <1>4
  <2> QED BY <1>7, <2>1
<1>9. /\ x \in ChatFrames /\ y \in ChatFrames /\ x.kind = "call" /\ y.kind = "arguments"
      /\ x.index = j /\ y.index = j
      /\ x.value = [id |-> c.id, name |-> c.name] /\ y.value = c.arguments
  BY <1>1, <1>2, <1>3, <1>6, CallChunks
<1>10. PICK t : t = result'.calls
  OBVIOUS
<1>11. t = MergeCall(s, c)
  <2>1. PICK m : m = MergeCall(s, c)
    OBVIOUS
  <2>2. result' = [result EXCEPT !.calls = m]
    BY <1>2, <1>3, <2>1 DEF Aggregated
  <2> QED BY <1>1, <1>10, <2>1, <2>2 DEF Results
<1>12. \A i \in DOMAIN t : t[i].id = c.id \/ \E l \in DOMAIN s : t[i].id = s[l].id
  BY <1>3, <1>4, <1>11, MergeIds
<1>13. \A g : Told(result', g, "none") = Told(result, g, "none")
  <2>1. result'.content = result.content /\ result'.reasoning = result.reasoning
    BY <1>1, <1>3, AggregatedLeaves
  <2> QED BY <2>1 DEF Told
<1>14. Started \in Seq(ChatFrames) /\ Read(Started) = Told(result, k, "none")
  BY <1>1, StartedTells
<1>15. ASSUME ToldApart'
       PROVE  /\ Listed /\ k = Publics(s)
              /\ \A i \in 1 .. Len(s) : ~SameCall(s[i], c)
  <2>1. ToldApart /\ \A l \in 1 .. Len(events) :
                        IsCall(events[l]) /\ IsCall(e) => ~SameCall(events[l].value, c)
    BY <1>1, <1>2, <1>15, ApartBefore
  <2>2. IsCall(e)
    BY <1>3 DEF IsCall
  <2>3. ASSUME NEW i \in 1 .. Len(s) PROVE ~SameCall(s[i], c)
    <3>1. PICK l \in 1 .. Len(events) : IsCall(events[l]) /\ events[l].value = s[i]
      BY <1>2, <2>1, <2>3 DEF Listed
    <3> QED BY <2>1, <2>2, <3>1
  <2> QED BY <1>2, <2>1, <2>3
<1>16. ASSUME NEW g, \A a : Weighs(k, a) => Weighs(g, a + Len(c.arguments))
       PROVE  Weighed(g)'
  <2>1. /\ result.calls \in Seq(CallType) /\ result'.calls = MergeCall(result.calls, e.value)
        /\ Len(k) \in Nat /\ (ToldApart => Listed)
    BY <1>2, <1>4, <1>5, <1>10, <1>11
  <2>2. \A a : Weighs(k, a) => Weighs(g, a + Len(e.value.arguments))
    BY <1>2, <1>16
  <2> QED BY <1>1, <1>3, <2>1, <2>2, CalledWeighs
<1>17. CASE j # n
  <2>1. PICK i \in 1 .. n : i = j + 1 /\ j = i - 1 /\ indexes[i] = c.id
    BY <1>4, <1>7, <1>17
  <2>2. PICK g : g = MoreOf(k, i, y.value)
    OBVIOUS
  <2>3. y.value \in Seq(Nat) /\ i \in 1 .. Len(k) /\ y.kind = "arguments" /\ y.index = i - 1
    BY <1>3, <1>5, <1>9, <2>1 DEF CallType
  <2>4. /\ Received(Told(result, k, "none"), y) = Told(result, g, "none")
        /\ g \in Seq(PublicType) /\ Len(g) = n /\ \A l \in 1 .. n : g[l].id = k[l].id
    BY <1>5, <2>2, <2>3, ArgumentsTell
  <2>5. yielded' = Append(Started, y) /\ indexes' = indexes
    BY <1>2, <1>6, <1>8, <1>17 DEF Called
  <2>6. Read(yielded') = Told(result', g, "none")
    BY <1>9, <1>13, <1>14, <2>4, <2>5, ReadAppend
  <2>7. \A m \in DOMAIN t : \E l \in 1 .. n : g[l].id = t[m].id
    <3>1. g[i].id = c.id
      BY <1>5, <2>1, <2>4
    <3> QED BY <1>5, <1>12, <2>4, <3>1
  <2>8. Numbered(g)'
    BY <1>2, <1>5, <1>10, <2>4, <2>5, <2>7 DEF Numbered
  <2>9. ~ToldApart'
    <3>1. ASSUME ToldApart' PROVE FALSE
      <4>1. Len(s) = n /\ s[i].id = c.id
        BY <1>2, <1>15, <2>1, <3>1 DEF Listed
      <4> QED BY <1>15, <3>1, <4>1 DEF SameCall
    <3> QED BY <3>1
  <2>10. Weighed(g)'
    <3>1. Len(g[i].arguments) = Len(k[i].arguments) + Len(c.arguments)
      BY <1>5, <1>9, <2>1, <2>2, <2>3, MoreLength
    <3>2. \A l \in 1 .. n : l # i => g[l] = k[l]
      BY <1>5, <2>2 DEF MoreOf
    <3>3. /\ \A l \in 1 .. n : Len(k[l].arguments) \in Int
          /\ Len(c.arguments) \in Int
      BY <1>3, <1>5, PublicLength, LenProperties DEF CallType
    <3>4. \A a : Weighs(k, a) => Weighs(g, a + Len(c.arguments))
      BY <1>4, <1>5, <2>1, <2>4, <3>1, <3>2, <3>3, WeighsChange
    <3> QED BY <1>16, <3>4
  <2> QED BY <2>6, <2>8, <2>9, <2>10
<1>18. CASE j = n
  <2>1. PICK p, g : p = PublicOf(c) /\ g = Append(k, PublicOf(c))
    OBVIOUS
  <2>2. /\ Received(Received(Told(result, k, "none"), x), y) = Told(result, g, "none")
        /\ g \in Seq(PublicType) /\ p \in PublicType /\ p.id = c.id
    BY <1>3, <1>5, <1>9, <1>18, <2>1, CallTells
  <2>3. yielded' = Append(Append(Started, x), y) /\ indexes' = Append(indexes, c.id)
    BY <1>2, <1>6, <1>8, <1>18 DEF Called
  <2>4. Read(yielded') = Told(result', g, "none")
    <3>1. PICK b : b = Append(Started, x)
      OBVIOUS
    <3>2. b \in Seq(ChatFrames) /\ Read(b) = Received(Told(result, k, "none"), x)
      BY <1>9, <1>14, <3>1, AppendProperties, ReadAppend
    <3>3. Read(Append(b, y)) = Received(Read(b), y)
      BY <1>9, <3>2, ReadAppend
    <3> QED BY <1>13, <2>2, <2>3, <3>1, <3>2, <3>3
  <2>5. /\ Len(g) = n + 1 /\ g[n + 1] = p /\ \A i \in 1 .. n : g[i] = k[i]
    BY <1>5, <2>1, <2>2, AppendIs
  <2>6. PICK is : is = indexes'
    OBVIOUS
  <2>7. Len(is) = n + 1 /\ is[n + 1] = c.id /\ \A i \in 1 .. n : is[i] = indexes[i]
    BY <1>1, <1>2, <1>3, <2>3, <2>6, AppendIs
  <2>8. \A i \in 1 .. n + 1 : g[i].id = is[i]
    <3>1. ASSUME NEW i \in 1 .. n + 1 PROVE g[i].id = is[i]
      <4>1. CASE i = n + 1
        BY <2>2, <2>5, <2>7, <4>1
      <4>2. CASE i # n + 1
        <5>1. i \in 1 .. n
          BY <1>4, <4>2
        <5> QED BY <1>5, <2>5, <2>7, <5>1
      <4> QED BY <4>1, <4>2
    <3> QED BY <3>1
  <2>9. \A i \in DOMAIN t : \E l \in 1 .. n + 1 : g[l].id = t[i].id
    <3>1. ASSUME NEW i \in DOMAIN t PROVE \E l \in 1 .. n + 1 : g[l].id = t[i].id
      <4>1. CASE t[i].id = c.id
        <5>1. n + 1 \in 1 .. n + 1
          BY <1>4
        <5> QED BY <2>2, <2>5, <4>1, <5>1
      <4>2. CASE \E l \in DOMAIN s : t[i].id = s[l].id
        <5>1. PICK l \in 1 .. n : k[l].id = t[i].id
          BY <1>5, <4>2
        <5>2. l \in 1 .. n + 1
          BY <1>4
        <5> QED BY <2>5, <5>1, <5>2
      <4> QED BY <1>12, <4>1, <4>2
    <3> QED BY <3>1
  <2>10. Numbered(g)'
    BY <1>10, <2>2, <2>5, <2>6, <2>7, <2>8, <2>9 DEF Numbered
  <2>11. ASSUME ToldApart' PROVE Listed' /\ g = Publics(result'.calls)
    <3>1. t = Append(s, c)
      BY <1>4, <1>11, <1>15, <2>11, MergeAppends
    <3>2. g = Publics(t)
      BY <1>3, <1>4, <1>15, <2>1, <2>11, <3>1, PublicsAppend
    <3>3. /\ Len(s) = n
          /\ \A i \in 1 .. n : /\ indexes[i] = s[i].id
                               /\ \E l \in 1 .. Len(events) :
                                     IsCall(events[l]) /\ events[l].value = s[i]
      BY <1>2, <1>15, <2>11 DEF Listed
    <3>4. Len(t) = n + 1 /\ t[n + 1] = c /\ \A i \in 1 .. n : t[i] = s[i]
      BY <1>3, <1>4, <3>1, <3>3, AppendIs
    <3>5. PICK es, m : es = events' /\ m = Len(events)
      OBVIOUS
    <3>6. /\ m \in Nat /\ Len(es) = m + 1 /\ es[m + 1] = e
          /\ \A l \in 1 .. m : es[l] = events[l]
      BY <1>1, <3>5, AppendIs
    <3>7. ASSUME NEW i \in 1 .. n + 1
          PROVE  /\ is[i] = t[i].id
                 /\ \E l \in 1 .. m + 1 : IsCall(es[l]) /\ es[l].value = t[i]
      <4>1. CASE i = n + 1
        <5>1. m + 1 \in 1 .. m + 1 /\ IsCall(e)
          BY <1>3, <3>6 DEF IsCall
        <5> QED BY <1>2, <2>7, <3>4, <3>6, <4>1, <5>1
      <4>2. CASE i # n + 1
        <5>1. i \in 1 .. n
          BY <1>4, <4>2
        <5>2. PICK l \in 1 .. m : IsCall(events[l]) /\ events[l].value = s[i]
          BY <3>3, <3>5, <5>1
        <5>3. l \in 1 .. m + 1
          BY <3>6
        <5> QED BY <2>7, <3>3, <3>4, <3>6, <5>1, <5>2, <5>3
      <4> QED BY <4>1, <4>2
    <3>8. Listed'
      BY <1>10, <2>6, <2>7, <3>4, <3>5, <3>6, <3>7 DEF Listed, IsCall
    <3> QED BY <1>10, <3>2, <3>8
  <2>12. Weighed(g)'
    <3>1. p.arguments = c.arguments /\ Len(c.arguments) \in Nat
      BY <1>3, <2>1, LenProperties DEF PublicOf, Public, CallType
    <3>2. \A a : Weighs(k, a) => Weighs(g, a + Len(c.arguments))
      BY <1>5, <2>1, <2>2, <3>1, WeighsAppend
    <3> QED BY <1>16, <3>2
  <2> QED BY <2>4, <2>10, <2>11, <2>12
<1> QED
  BY <1>17, <1>18

LEMMA HandleTells ==
    ASSUME BodyInv, StoryInv, NEW e \in Payloads, Handle(e)
    PROVE  StoryInv'
<1>1. ChatTypes /\ events \in Seq(Events) /\ result \in Results
  BY DEF BodyInv, ChatTypes
<1>2. /\ verdict = "open" /\ verdict' = "open" /\ e \in Events
      /\ events' = Append(events, e) /\ result' = Aggregated(result, e)
      /\ Silent(e) \/ Spoken(e) \/ Called(e)
  BY <1>1, HandleIs
<1>3. PICK k : /\ Numbered(k) /\ Weighed(k)
               /\ ToldApart => Listed /\ k = Publics(result.calls)
               /\ Read(yielded) = Told(result, k, "none")
  BY <1>2 DEF StoryInv
<1>4. Started \in Seq(ChatFrames) /\ Read(Started) = Told(result, k, "none")
  BY <1>1, <1>3, StartedTells
<1>5. \E g : /\ Numbered(g)' /\ Weighed(g)'
             /\ ToldApart' => Listed' /\ g = Publics(result'.calls)
             /\ Read(yielded') = Told(result', g, "none")
  <2>1. CASE Silent(e)
    <3>1. e.type # "text" /\ e.type # "tool_call" /\ (e.type # "reasoning" \/ ~ExposeReasoning)
      BY <2>1, TurnAssumption DEF Silent
    <3>2. /\ result'.content = result.content /\ result'.calls = result.calls
          /\ result'.reasoning = result.reasoning \/ ~ExposeReasoning
      BY <1>1, <1>2, <3>1, AggregatedLeaves
    <3>3. Told(result', k, "none") = Told(result, k, "none")
      BY <3>2 DEF Told
    <3>4. yielded' = yielded /\ indexes' = indexes
      BY <2>1 DEF Silent
    <3>5. Numbered(k)' /\ Weighed(k)' /\ (ToldApart' => Listed' /\ k = Publics(result'.calls))
      BY <1>1, <1>2, <1>3, <3>1, <3>2, <3>4, QuietTells
    <3> QED BY <1>3, <3>3, <3>4, <3>5
  <2>2. CASE Spoken(e)
    <3>1. /\ e.type = "text" \/ (e.type = "reasoning" /\ ExposeReasoning)
          /\ yielded' = Append(Started, ContentChunk(e)) /\ indexes' = indexes
      BY <2>2 DEF Spoken
    <3>2. ContentChunk(e) \in ChatFrames
      BY <1>2, <3>1, ContentIs
    <3>3. Read(yielded') = Received(Told(result, k, "none"), ContentChunk(e))
      BY <1>4, <3>1, <3>2, ReadAppend
    <3>4. Read(yielded') = Told(result', k, "none")
      BY <1>1, <1>2, <3>1, <3>3, TextTells
    <3>5. result'.calls = result.calls
      BY <1>1, <1>2, <3>1, AggregatedLeaves
    <3>6. Numbered(k)' /\ Weighed(k)' /\ (ToldApart' => Listed' /\ k = Publics(result'.calls))
      BY <1>1, <1>2, <1>3, <3>1, <3>5, QuietTells
    <3> QED BY <3>4, <3>6
  <2>3. CASE Called(e)
    BY <1>2, <1>3, <2>3, CalledTells
  <2> QED BY <1>2, <2>1, <2>2, <2>3
<1> QED
  BY <1>2, <1>5 DEF StoryInv

LEMMA EndTells ==
    ASSUME BodyInv, StoryInv, NEW reason \in Reasons \union {"none"}, EndOfTurn(reason)
    PROVE  StoryInv'
<1>1. /\ ChatTypes /\ verdict = "open" /\ result.finish = "none" /\ result \in Results
      /\ events \in Seq(Events)
  BY DEF BodyInv, EndOfTurn, OpenInv, ChatTypes
<1>2. PICK e : e = Event("done", reason)
  OBVIOUS
<1>3. /\ events' = IF reason = "none" THEN events ELSE Append(events, e)
      /\ result' = IF reason = "none" THEN result ELSE Aggregated(result, e)
      /\ indexes' = indexes
      /\ Succeeds(reason) \/ Fails
  BY <1>1, <1>2, FinalEndIs
<1>4. PICK k : /\ Numbered(k) /\ Weighed(k)
               /\ ToldApart => Listed /\ k = Publics(result.calls)
               /\ Read(yielded) = Told(result, k, "none")
  BY <1>1 DEF StoryInv
<1>5. CASE Fails
  BY <1>5 DEF Fails, StoryInv
<1>6. CASE Succeeds(reason)
  <2>1. PICK s, f, u, d, b : /\ s = Started /\ f = TheFinal(reason) /\ u = TheUsage
                             /\ d = TheDone /\ b = Append(Started, TheFinal(reason))
    OBVIOUS
  <2>2. s \in Seq(ChatFrames) /\ Read(s) = Told(result, k, "none")
    BY <1>1, <1>4, <2>1, StartedTells
  <2>3. /\ f \in ChatFrames /\ u \in ChatFrames /\ d \in ChatFrames
        /\ f.kind = "final" /\ f.value = FinalReason(reason)
        /\ u.kind = "usage" /\ d.kind = "[DONE]"
    BY <1>1, <2>1, EndChunks
  <2>4. b \in Seq(ChatFrames) /\ Read(b) = Received(Told(result, k, "none"), f)
    BY <2>1, <2>2, <2>3, AppendProperties, ReadAppend
  <2>5. Read(Finished(b)) = Read(b)
    <3>1. Read(Append(b, d)) = Read(b)
      BY <2>3, <2>4, SaysNothing
    <3>2. PICK v : v = Append(b, u)
      OBVIOUS
    <3>3. v \in Seq(ChatFrames) /\ Read(v) = Read(b)
      BY <2>3, <2>4, <3>2, AppendProperties, SaysNothing
    <3>4. Read(Append(v, d)) = Read(v)
      BY <2>3, <3>3, SaysNothing
    <3> QED BY <2>1, <3>1, <3>2, <3>3, <3>4 DEF Finished
  <2>6. verdict' = "success" /\ Read(yielded') = Told(result, k, FinalReason(reason))
    <3>1. yielded' = Finished(b) /\ verdict' = "success"
      BY <1>6, <2>1 DEF Succeeds
    <3>2. Received(Told(result, k, "none"), f)
            = [Told(result, k, "none") EXCEPT !.finish = FinalReason(reason)]
      BY <2>3 DEF Received
    <3>3. [Told(result, k, "none") EXCEPT !.finish = FinalReason(reason)]
            = Told(result, k, FinalReason(reason))
      BY DEF Told
    <3> QED BY <2>4, <2>5, <3>1, <3>2, <3>3
  <2>7. /\ result'.content = result.content /\ result'.reasoning = result.reasoning
        /\ result'.calls = result.calls /\ result'.finish = reason
        /\ reason # "none" => e \in Events /\ e.type # "tool_call"
    <3>1. CASE reason = "none"
      BY <1>1, <1>3, <3>1
    <3>2. CASE reason # "none"
      <4>1. e \in Events /\ e.type = "done" /\ e.value = reason
        BY <1>2, <3>2 DEF Event, Events
      <4>2. result' = [result EXCEPT !.finish = reason]
        BY <1>3, <3>2, <4>1 DEF Aggregated
      <4> QED BY <1>1, <4>1, <4>2 DEF Results
    <3> QED BY <3>1, <3>2
  <2>8. Read(yielded') = Told(result', k, EffectiveReason(result'))
    <3>1. EffectiveReason(result') = FinalReason(reason)
      BY <2>7 DEF EffectiveReason, FinalReason
    <3>2. Told(result, k, FinalReason(reason)) = Told(result', k, FinalReason(reason))
      BY <2>7 DEF Told
    <3> QED BY <2>6, <3>1, <3>2
  <2>9. Numbered(k)' /\ Weighed(k)' /\ (ToldApart' => Listed' /\ k = Publics(result'.calls))
    <3>1. CASE reason = "none"
      <4>1. events' = events /\ result' = result /\ indexes' = indexes
        BY <1>3, <3>1
      <4>2. Numbered(k)'
        BY <1>4, <4>1, StillNumbered
      <4>3. (ToldApart' <=> ToldApart) /\ (Listed' <=> Listed) /\ (Kept' <=> Kept)
        BY <4>1 DEF ToldApart, Listed, Kept, IsCall, SameCall
      <4>4. Weighed(k)'
        BY <1>4, <4>1, <4>3 DEF Weighed
      <4> QED BY <1>4, <4>1, <4>2, <4>3, <4>4
    <3>2. CASE reason # "none"
      BY <1>1, <1>3, <1>4, <2>7, <3>2, QuietTells
    <3> QED BY <3>1, <3>2
  <2> QED BY <2>6, <2>8, <2>9 DEF StoryInv
<1> QED
  BY <1>3, <1>5, <1>6

LEMMA BreakTells ==
    ASSUME BodyInv, StoryInv, Break(Event("error", 0))
    PROVE  StoryInv'
BY DEF Break, Fail, StoryInv

LEMMA StoryRests == StoryInv /\ UNCHANGED chatVars => StoryInv'
<1> SUFFICES ASSUME StoryInv, UNCHANGED chatVars, verdict' \in {"open", "success"} PROVE StoryInv'
  BY DEF StoryInv
<1>1. /\ events' = events /\ result' = result /\ indexes' = indexes /\ yielded' = yielded
      /\ verdict' = verdict
  BY DEF chatVars
<1>2. PICK k : /\ Numbered(k) /\ Weighed(k)
               /\ ToldApart => Listed /\ k = Publics(result.calls)
               /\ Read(yielded) = Told(result, k, IF verdict = "open" THEN "none"
                                                  ELSE EffectiveReason(result))
  BY <1>1 DEF StoryInv
<1>3. Numbered(k)'
  BY <1>1, <1>2, StillNumbered
<1>4. (ToldApart' <=> ToldApart) /\ (Listed' <=> Listed) /\ (Kept' <=> Kept)
  BY <1>1 DEF ToldApart, Listed, Kept, IsCall, SameCall
<1>5. Weighed(k)'
  BY <1>1, <1>2, <1>4 DEF Weighed
<1>6. ToldApart' => Listed' /\ k = Publics(result'.calls)
  BY <1>1, <1>2, <1>4
<1>7. Read(yielded') = Told(result', k, IF verdict' = "open" THEN "none"
                                       ELSE EffectiveReason(result'))
  BY <1>1, <1>2
<1> QED
  BY <1>3, <1>5, <1>6, <1>7 DEF StoryInv

LEMMA StoryStep == BodyInv /\ StoryInv /\ [ChatNext]_chatVars => StoryInv'
BY HandleTells, EndTells, BreakTells, StoryRests DEF ChatNext

(* Calls that weigh more are not the same.                                 *)
LEMMA WeighedTells ==
    ASSUME NEW k, Weighed(k), result.calls \in Seq(CallType), k = Publics(result.calls)
    PROVE  ToldApart
<1>1. PICK s, n : s = result.calls /\ n = Len(s)
  OBVIOUS
<1>2. n \in Nat /\ DOMAIN s = 1 .. n
  BY <1>1, LenProperties
<1>3. k = [i \in 1 .. n |-> PublicOf(s[i])]
  BY <1>1, <1>2 DEF Publics
<1>4. Len(k) = n
  BY <1>2, <1>3
<1>5. \A i \in 1 .. n : k[i].arguments = s[i].arguments
  BY <1>3 DEF PublicOf, Public
<1>6. PICK a, b : Weighs(k, a) /\ Weighs(s, b) /\ (~ToldApart => b < a)
  BY <1>1 DEF Weighed
<1>7. b = a /\ a \in Int
  BY <1>1, <1>2, <1>4, <1>5, <1>6, WeighsAlike, WeighsInt
<1> QED
  BY <1>6, <1>7

LEMMA StoryIsComplete == BodyInv /\ VerdictInv /\ StoryInv => StreamedIsComplete
<1> SUFFICES ASSUME BodyInv, VerdictInv, StoryInv, verdict = "success"
             PROVE  LET message == Message(Complete) IN
                    /\ Reassembled.content = message.content
                    /\ Reassembled.reasoning = message.reasoning
                    /\ Reassembled.finish = message.finish
                    /\ Ids(message.calls) \subseteq Ids(Reassembled.calls)
                    /\ Reassembled.calls = message.calls <=> ToldApart
  BY DEF StreamedIsComplete
<1>1. PICK m, q, k, r : /\ m = Message(Complete) /\ q = Reassembled /\ r = result
                        /\ Numbered(k) /\ Weighed(k)
                        /\ (ToldApart => k = Publics(result.calls))
                        /\ Read(yielded) = Told(result, k, EffectiveReason(result))
  BY DEF StoryInv
<1>2. m = Told(r, Publics(r.calls), EffectiveReason(r)) /\ q = Told(r, k, EffectiveReason(r))
  BY <1>1, FoldsAre, MessageIs DEF VerdictInv
<1>3. /\ q.content = m.content /\ q.reasoning = m.reasoning /\ q.finish = m.finish
      /\ q.calls = k /\ m.calls = Publics(r.calls)
  BY <1>2 DEF Told
<1>4. Ids(m.calls) \subseteq Ids(k)
  <2>1. ASSUME NEW i \in DOMAIN r.calls PROVE Publics(r.calls)[i].id \in Ids(k)
    <3>1. Publics(r.calls)[i].id = r.calls[i].id
      BY DEF Publics, PublicOf, Public
    <3>2. PICK j \in 1 .. Len(k) : k[j].id = r.calls[i].id
      BY <1>1 DEF Numbered
    <3>3. DOMAIN k = 1 .. Len(k)
      BY <1>1, LenProperties DEF Numbered
    <3> QED BY <3>1, <3>2, <3>3 DEF Ids
  <2>2. DOMAIN Publics(r.calls) = DOMAIN r.calls
    BY DEF Publics
  <2> QED BY <1>3, <2>1, <2>2 DEF Ids
<1>5. k = Publics(r.calls) => ToldApart
  <2>1. result.calls \in Seq(CallType)
    BY DEF BodyInv, ChatTypes, Results
  <2> QED BY <1>1, <2>1, WeighedTells
<1> QED
  BY <1>1, <1>3, <1>4, <1>5

(* A client that streams puts together the text, the reasoning and the     *)
(* finish reason complete() gives for the same turn, and has every call of *)
(* the complete answer, whatever the number of events and calls.  The      *)
(* calls are the same, with their arguments, exactly in the turns where no *)
(* two of them are one to _merge_tool_call (normalizer.py:63-143, 186-241).*)
THEOREM StreamsTell == ChatSpec => []StreamedIsComplete
<1>1. BodyInv /\ StoryInv /\ [ChatNext]_chatVars => StoryInv'
  BY StoryStep
<1>2. ChatSpec => []StoryInv
  BY <1>1, StoryInit, BodyHolds, PTL DEF ChatSpec
<1> QED
  BY <1>2, StoryIsComplete, BodyHolds, VerdictHolds, PTL
=============================================================================
