--------------------------- MODULE QwenParserProofs ---------------------------
(***************************************************************************)
(* Proofs about QwenParser, for any answer, cut into chunks in any way,    *)
(* with any fragments, thoughts and other frames in between.               *)
(*                                                                         *)
(* "Voiced" says that events tell a sequence of segments but for what the  *)
(* tool parser holds back; "Told" says that the segments are those of the  *)
(* answer received but for what the splitter holds back.  The invariant is *)
(* that the two hold together: every frame adds to both, and close adds    *)
(* what is held back.  The properties of the answer are read off it; the   *)
(* end of the turn, the thoughts and the calls have small invariants of    *)
(* their own.                                                              *)
(***************************************************************************)
EXTENDS QwenParser, MarkupProofs

-----------------------------------------------------------------------------
(* Events, and what those of one type say.                                 *)
Spoken == {"text", "tool_call", "warning", "metadata", "ambiguous"}
EndReasons == {"stop", "length", "tool_calls", "content_filter"}
Calls == [id : Nat, name : STRING \union {""}, arguments : Seq(Nat)]
EventValues == Seq(Nat) \union EndReasons \union Calls

Events ==
    {e \in [type : OwnEvents \union Others, value : EventValues] :
        /\ e.type \in Spoken \union {"reasoning"} => e.value \in Seq(Position)
        /\ e.type = "native_call" => e.value \in Calls}

EventPart(type) == [e \in Events |-> IF e.type = type THEN << e.value >> ELSE << >>]
SpokenIn(es, type) ==
    FlattenSeq([i \in DOMAIN es |-> IF es[i].type = type THEN << es[i].value >> ELSE << >>])

LEMMA EventPartType ==
    /\ \A type : EventPart(type) \in [Events -> Seq(EventValues)]
    /\ \A type \in Spoken \union {"reasoning"} : EventPart(type) \in [Events -> Seq(Seq(Position))]
    /\ EventPart("native_call") \in [Events -> Seq(Calls)]
<1>1. ASSUME NEW type, NEW S, NEW e \in Events, e.type = type => e.value \in S
      PROVE  (IF e.type = type THEN << e.value >> ELSE << >>) \in Seq(S)
  <2>1. CASE e.type = type
    <3>1. << e.value >> \in Seq(S)
      BY <1>1, <2>1, OneType
    <3> QED BY <2>1, <3>1
  <2>2. CASE e.type # type
    BY <2>2, EmptySeq
  <2> QED BY <2>1, <2>2
<1>2. ASSUME NEW type, NEW S, \A e \in Events : e.type = type => e.value \in S
      PROVE  EventPart(type) \in [Events -> Seq(S)]
  <2>1. \A e \in Events : (IF e.type = type THEN << e.value >> ELSE << >>) \in Seq(S)
    BY <1>1, <1>2
  <2> QED BY <2>1 DEF EventPart
<1>3. ASSUME NEW type PROVE EventPart(type) \in [Events -> Seq(EventValues)]
  <2>1. \A e \in Events : e.type = type => e.value \in EventValues
    BY DEF Events
  <2> QED BY <1>2, <2>1
<1>4. ASSUME NEW type \in Spoken \union {"reasoning"}
      PROVE  EventPart(type) \in [Events -> Seq(Seq(Position))]
  <2>1. \A e \in Events : e.type = type => e.value \in Seq(Position)
    BY DEF Events
  <2> QED BY <1>2, <2>1
<1>5. EventPart("native_call") \in [Events -> Seq(Calls)]
  <2>1. \A e \in Events : e.type = "native_call" => e.value \in Calls
    BY DEF Events
  <2> QED BY <1>2, <2>1
<1> QED
  BY <1>3, <1>4, <1>5

LEMMA SpokenInIs ==
    ASSUME NEW es \in Seq(Events), NEW type
    PROVE  SpokenIn(es, type) = Mapped(es, EventPart(type))
<1>1. \A i \in DOMAIN es : es[i] \in Events
  BY LenProperties, ElementOfSeq
<1>2. [i \in DOMAIN es |-> IF es[i].type = type THEN << es[i].value >> ELSE << >>]
        = [i \in DOMAIN es |-> EventPart(type)[es[i]]]
  BY <1>1 DEF EventPart
<1> QED
  BY <1>2 DEF SpokenIn, Mapped

LEMMA SpokenInType ==
    ASSUME NEW es \in Seq(Events)
    PROVE  /\ \A type : SpokenIn(es, type) \in Seq(EventValues)
           /\ \A type \in Spoken \union {"reasoning"} : SpokenIn(es, type) \in Seq(Seq(Position))
           /\ SpokenIn(es, "native_call") \in Seq(Calls)
<1>1. ASSUME NEW type PROVE SpokenIn(es, type) \in Seq(EventValues)
  <2>1. EventPart(type) \in [Events -> Seq(EventValues)]
    BY EventPartType
  <2> QED BY <2>1, SpokenInIs, MappedType
<1>2. ASSUME NEW type \in Spoken \union {"reasoning"} PROVE SpokenIn(es, type) \in Seq(Seq(Position))
  <2>1. EventPart(type) \in [Events -> Seq(Seq(Position))]
    BY EventPartType
  <2>2. Mapped(es, EventPart(type)) \in Seq(Seq(Position))
    BY <2>1, MappedType
  <2> QED BY <2>2, SpokenInIs
<1>3. SpokenIn(es, "native_call") \in Seq(Calls)
  <2>1. EventPart("native_call") \in [Events -> Seq(Calls)]
    BY EventPartType
  <2> QED BY <2>1, SpokenInIs, MappedType
<1> QED
  BY <1>1, <1>2, <1>3

LEMMA SpokenInConcat ==
    ASSUME NEW s \in Seq(Events), NEW t \in Seq(Events), NEW type
    PROVE  SpokenIn(s \o t, type) = SpokenIn(s, type) \o SpokenIn(t, type)
<1>1. EventPart(type) \in [Events -> Seq(EventValues)]
  BY EventPartType
<1>2. s \o t \in Seq(Events)
  BY ConcatType
<1>3. PICK H \in [Events -> Seq(EventValues)] : H = EventPart(type)
  BY <1>1
<1>4. Mapped(s \o t, H) = Mapped(s, H) \o Mapped(t, H)
  BY MappedConcat
<1> QED
  BY <1>2, <1>3, <1>4, SpokenInIs

LEMMA SpokenInOne ==
    ASSUME NEW e \in Events, NEW type
    PROVE  SpokenIn(<< e >>, type) = IF e.type = type THEN << e.value >> ELSE << >>
<1>1. EventPart(type) \in [Events -> Seq(EventValues)]
  BY EventPartType
<1>2. << e >> \in Seq(Events)
  BY OneType
<1>3. Mapped(<< e >>, EventPart(type)) = EventPart(type)[e]
  BY <1>1, MappedOne
<1> QED
  BY <1>2, <1>3, SpokenInIs DEF EventPart

LEMMA SpokenInNone ==
    ASSUME NEW type
    PROVE  SpokenIn(<< >>, type) = << >>
<1>1. EventPart(type) \in [Events -> Seq(EventValues)]
  BY EventPartType
<1>2. << >> \in Seq(Events)
  BY EmptySeq
<1> QED
  BY <1>1, <1>2, SpokenInIs, MappedEmpty

(* Events that are not of a type say nothing of it.                        *)
LEMMA SpokenInNot ==
    ASSUME NEW es \in Seq(Events), NEW type, \A i \in DOMAIN es : es[i].type # type
    PROVE  SpokenIn(es, type) = << >>
<1>1. PICK n \in Nat : n = Len(es) /\ DOMAIN es = 1 .. n
  BY LenProperties
<1>2. PICK m : m = [i \in DOMAIN es |-> IF es[i].type = type THEN << es[i].value >> ELSE << >>]
  OBVIOUS
<1>3. \A i \in 1 .. n : m[i] = << >>
  BY <1>1, <1>2
<1>4. m \in Seq(Seq(Nat)) /\ Len(m) = n
  <2>1. \A i \in 1 .. n : m[i] \in Seq(Nat)
    BY <1>3, EmptySeq
  <2>2. m \in [1 .. n -> Seq(Nat)]
    BY <1>1, <1>2, <2>1
  <2> QED BY <2>2
<1>5. PICK g \in [0 .. n -> Seq(Nat)] : Joins(g, m)
  BY <1>4, JoinsExists
<1>6. \A i \in 0 .. n : g[i] = << >>
  <2>1. PICK A : \A x : x \in A <=> x = << >>
    <3>1. \A x : x \in {<< >>} <=> x = << >>
      OBVIOUS
    <3> QED BY <3>1
  <2>2. g[0] \in A
    BY <1>5, <2>1 DEF Joins
  <2>3. ASSUME NEW i \in 1 .. n, g[i - 1] \in A PROVE g[i] \in A
    <3>1. g[i] = g[i - 1] \o m[i]
      BY <1>4, <1>5 DEF Joins
    <3>2. << >> \o << >> = << >>
      OBVIOUS
    <3> QED BY <1>3, <2>1, <2>3, <3>1, <3>2
  <2>4. \A i \in 0 .. n : g[i] \in A
    BY <2>2, <2>3, RecursionType
  <2> QED BY <2>1, <2>4
<1>7. FlattenSeq(m) = g[n]
  BY <1>4, <1>5, FlattenIs
<1> QED
  BY <1>2, <1>6, <1>7 DEF SpokenIn

-----------------------------------------------------------------------------
(* The bodies that hold anything.                                          *)
Bodies == Seq(Position)
Whether == [b \in Bodies |-> IF b = << >> THEN << >> ELSE << b >>]

LEMMA WhetherType == Whether \in [Bodies -> Seq(Bodies)]
<1>1. \A b \in Bodies : << b >> \in Seq(Bodies)
  BY OneType
<1> QED
  BY <1>1, EmptySeq DEF Whether

LEMMA NonEmptyIs ==
    ASSUME NEW s \in Seq(Bodies)
    PROVE  NonEmpty(s) = Mapped(s, Whether)
<1>1. \A i \in DOMAIN s : s[i] \in Bodies
  BY LenProperties, ElementOfSeq
<1>2. [i \in DOMAIN s |-> IF s[i] = << >> THEN << >> ELSE << s[i] >>]
        = [i \in DOMAIN s |-> Whether[s[i]]]
  BY <1>1 DEF Whether
<1> QED
  BY <1>2 DEF NonEmpty, Mapped

LEMMA NonEmptyConcat ==
    ASSUME NEW s \in Seq(Bodies), NEW t \in Seq(Bodies)
    PROVE  NonEmpty(s \o t) = NonEmpty(s) \o NonEmpty(t)
<1>1. s \o t \in Seq(Bodies)
  BY ConcatType
<1>2. Mapped(s \o t, Whether) = Mapped(s, Whether) \o Mapped(t, Whether)
  BY WhetherType, MappedConcat
<1> QED
  BY <1>1, <1>2, NonEmptyIs

LEMMA NonEmptyFew ==
    /\ NonEmpty(<< >>) = << >>
    /\ \A b \in Bodies : NonEmpty(<< b >>) = IF b = << >> THEN << >> ELSE << b >>
<1>1. << >> \in Seq(Bodies)
  BY EmptySeq
<1>2. ASSUME NEW b \in Bodies PROVE NonEmpty(<< b >>) = IF b = << >> THEN << >> ELSE << b >>
  <2>1. << b >> \in Seq(Bodies)
    BY OneType
  <2>2. Mapped(<< b >>, Whether) = Whether[b]
    BY WhetherType, MappedOne
  <2> QED BY <2>1, <2>2, NonEmptyIs DEF Whether
<1> QED
  BY <1>1, <1>2, NonEmptyIs, WhetherType, MappedEmpty

-----------------------------------------------------------------------------
(* _segments_to_events: the events es that come of the segments q, and     *)
(* what becomes of the tool parser's buffer.                               *)
ItemKinds == {"text", "tool_call", "warning"}

LEMMA ItemEventsAre ==
    ASSUME NEW items \in Seq(Its), NEW es, es = ItemEvents(items)
    PROVE  /\ es \in Seq(Events)
           /\ \A i \in DOMAIN es : es[i].type \in ItemKinds
           /\ \A type : SpokenIn(es, type) = ItemsOf(items, type)
<1>1. PICK n \in Nat : n = Len(items) /\ DOMAIN items = 1 .. n
  BY LenProperties
<1>2. \A i \in 1 .. n : items[i] \in Its
  BY <1>1, ElementOfSeq
<1>3. es = [i \in 1 .. n |-> [type |-> items[i].kind, value |-> items[i].at]]
  BY <1>1 DEF ItemEvents, Event
<1>4. ASSUME NEW i \in 1 .. n
      PROVE  /\ es[i].type = items[i].kind /\ es[i].value = items[i].at
             /\ es[i].type \in ItemKinds /\ es[i] \in Events
  <2>1. PICK x \in Its : x = items[i]
    BY <1>2
  <2>2. x.kind \in ItemKinds /\ x.at \in Seq(Position)
    BY DEF Its, ItemKinds
  <2>3. es[i] = [type |-> x.kind, value |-> x.at]
    BY <1>3, <2>1
  <2>4. [type |-> x.kind, value |-> x.at] \in Events
    <3>1. x.kind \in OwnEvents \union Others /\ x.kind # "native_call"
      BY <2>2 DEF ItemKinds, OwnEvents
    <3>2. x.at \in EventValues
      BY <2>2 DEF EventValues, Position
    <3> QED BY <2>2, <3>1, <3>2 DEF Events
  <2> QED BY <2>1, <2>2, <2>3, <2>4
<1>5. es \in Seq(Events) /\ DOMAIN es = 1 .. n
  <2>1. es \in [1 .. n -> Events]
    BY <1>3, <1>4
  <2> QED BY <2>1
<1>6. ASSUME NEW type PROVE SpokenIn(es, type) = ItemsOf(items, type)
  <2>1. [i \in DOMAIN es |-> IF es[i].type = type THEN << es[i].value >> ELSE << >>]
          = [i \in DOMAIN items |-> ItemPart(type)[items[i]]]
    BY <1>1, <1>2, <1>4, <1>5 DEF ItemPart
  <2> QED BY <2>1 DEF SpokenIn, ItemsOf, Mapped
<1> QED
  BY <1>4, <1>5, <1>6

-----------------------------------------------------------------------------
Modest(es) ==
    \A i \in DOMAIN es : es[i].type = "ambiguous" => Len(es[i].value) <= MaxHoldback

LEMMA ModestConcat ==
    ASSUME NEW x \in Seq(Events), NEW y \in Seq(Events)
    PROVE  Modest(x \o y) <=> Modest(x) /\ Modest(y)
<1>1. PICK z, m, n : z = x \o y /\ m = Len(x) /\ n = Len(y)
  OBVIOUS
<1>2. /\ z \in Seq(Events) /\ m \in Nat /\ n \in Nat /\ Len(z) = m + n
      /\ \A i \in 1 .. m : z[i] = x[i]
      /\ \A i \in 1 .. n : z[m + i] = y[i]
  BY <1>1, ConcatIs
<1>3. DOMAIN x = 1 .. m /\ DOMAIN y = 1 .. n /\ DOMAIN z = 1 .. m + n
  BY <1>1, <1>2, LenProperties
<1>4. ASSUME Modest(x \o y) PROVE Modest(x) /\ Modest(y)
  <2>1. \A i \in 1 .. m : i \in 1 .. m + n
    BY <1>2
  <2>2. \A i \in 1 .. n : m + i \in 1 .. m + n
    BY <1>2
  <2> QED BY <1>1, <1>2, <1>3, <1>4, <2>1, <2>2 DEF Modest
<1>5. ASSUME Modest(x), Modest(y), NEW i \in 1 .. m + n, z[i].type = "ambiguous"
      PROVE  Len(z[i].value) <= MaxHoldback
  <2>1. CASE i <= m
    BY <1>2, <1>3, <1>5, <2>1 DEF Modest
  <2>2. CASE i > m
    <3>1. PICK j \in 1 .. n : i = m + j
      BY <1>2, <2>2
    <3> QED BY <1>2, <1>3, <1>5, <3>1 DEF Modest
  <2> QED BY <1>2, <2>1, <2>2
<1> QED
  BY <1>1, <1>3, <1>4, <1>5 DEF Modest

VoicedType(q, es, b, w, d, v) ==
    /\ q \in Seq(Segs) /\ es \in Seq(Events)
    /\ b \in Seq(Position) /\ d \in Seq(Position) /\ w \in BOOLEAN /\ v \in BOOLEAN
VoicedWraps(q, es) ==
    /\ \A kind \in {"metadata", "ambiguous"} :
          NonEmpty(SpokenIn(es, kind)) = Wrappers(q, kind)
    /\ Modest(es) => NoneGivenUp(q)
VoicedPlain(q, es, b, w, d, v) ==
    /\ d = b /\ v = w /\ SpokenIn(es, "tool_call") = << >>
    /\ FlattenSeq(SpokenIn(es, "text")) = TextOf(q)
VoicedTools(q, es, b, w, d, v) ==
    /\ Tells(b \o TextOf(q), w, FlattenSeq(SpokenIn(es, "text")), SpokenIn(es, "tool_call"), d, v)
    /\ ToolRested(b, w) => ToolRested(d, v)
Voiced(q, es, b, w, d, v) ==
    /\ VoicedType(q, es, b, w, d, v) /\ VoicedWraps(q, es)
    /\ ~response.tools => VoicedPlain(q, es, b, w, d, v)
    /\ response.tools => VoicedTools(q, es, b, w, d, v)

(* Events that come of the answer.                                         *)
OfAnswer(es) == \A i \in DOMAIN es : es[i].type \in Spoken

LEMMA OfAnswerConcat ==
    ASSUME NEW x \in Seq(Events), NEW y \in Seq(Events), OfAnswer(x), OfAnswer(y)
    PROVE  OfAnswer(x \o y)
<1>1. PICK z, m, n : z = x \o y /\ m = Len(x) /\ n = Len(y)
  OBVIOUS
<1>2. /\ z \in Seq(Events) /\ m \in Nat /\ n \in Nat /\ Len(z) = m + n
      /\ \A i \in 1 .. m : z[i] = x[i]
      /\ \A i \in 1 .. n : z[m + i] = y[i]
  BY <1>1, ConcatIs
<1>3. DOMAIN x = 1 .. m /\ DOMAIN y = 1 .. n /\ DOMAIN z = 1 .. m + n
  BY <1>1, <1>2, LenProperties
<1>4. ASSUME NEW i \in 1 .. m + n PROVE z[i].type \in Spoken
  <2>1. CASE i <= m
    <3>1. z[i] = x[i] /\ i \in 1 .. m
      BY <1>2, <2>1
    <3>2. x[i].type \in Spoken
      BY <1>3, <3>1 DEF OfAnswer
    <3> QED BY <3>1, <3>2
  <2>2. CASE i > m
    <3>1. PICK j \in 1 .. n : i = m + j
      BY <1>2, <2>2
    <3>2. z[i] = y[j]
      BY <1>2, <3>1
    <3>3. y[j].type \in Spoken
      BY <1>3 DEF OfAnswer
    <3> QED BY <3>2, <3>3
  <2> QED BY <1>2, <2>1, <2>2
<1> QED
  BY <1>1, <1>3, <1>4 DEF OfAnswer

LEMMA SpokenFlatConcat ==
    ASSUME NEW x \in Seq(Events), NEW y \in Seq(Events), NEW type \in Spoken \union {"reasoning"}
    PROVE  /\ FlattenSeq(SpokenIn(x \o y, type))
                = FlattenSeq(SpokenIn(x, type)) \o FlattenSeq(SpokenIn(y, type))
           /\ FlattenSeq(SpokenIn(x, type)) \in Seq(Position)
<1>1. PICK s \in Seq(Seq(Position)), t \in Seq(Seq(Position)) :
         s = SpokenIn(x, type) /\ t = SpokenIn(y, type)
  BY SpokenInType
<1>2. FlattenSeq(s \o t) = FlattenSeq(s) \o FlattenSeq(t) /\ FlattenSeq(s) \in Seq(Position)
  BY FlattenConcat, FlattenType
<1> QED
  BY <1>1, <1>2, SpokenInConcat

LEMMA VoicedNot ==
    ASSUME NEW b \in Seq(Position), NEW w \in BOOLEAN
    PROVE  Voiced(<< >>, << >>, b, w, b, w)
<1>1. PICK q \in Seq(Segs), es \in Seq(Events) : q = << >> /\ es = << >>
  BY EmptySeq
<1>2. \A type : SpokenIn(es, type) = << >>
  BY <1>1, SpokenInNone
<1>3. DOMAIN q = {} /\ DOMAIN es = {}
  BY <1>1
<1>4. TextOf(q) = << >> /\ \A kind : Wrappers(q, kind) = << >>
  BY <1>1, ViewsOfNone
<1>5. VoicedType(q, es, b, w, b, w)
  BY <1>3 DEF VoicedType
<1>6. VoicedWraps(q, es)
  BY <1>2, <1>3, <1>4, NonEmptyFew DEF VoicedWraps, NoneGivenUp
<1>7. VoicedPlain(q, es, b, w, b, w)
  BY <1>2, <1>4, FlattenEmpty DEF VoicedPlain
<1>8. VoicedTools(q, es, b, w, b, w)
  <2>1. b \o << >> = b
    OBVIOUS
  <2>2. Tells(b, w, << >>, << >>, b, w)
    BY TellsNot
  <2> QED BY <1>2, <1>4, <2>1, <2>2, FlattenEmpty DEF VoicedTools
<1> QED
  BY <1>1, <1>5, <1>6, <1>7, <1>8 DEF Voiced

LEMMA VoicedThen ==
    ASSUME NEW q, NEW es, NEW b, NEW w, NEW d, NEW v, Voiced(q, es, b, w, d, v),
           NEW r, NEW fs, NEW e, NEW u, Voiced(r, fs, d, v, e, u)
    PROVE  Voiced(q \o r, es \o fs, b, w, e, u)
<1>1. /\ q \in Seq(Segs) /\ es \in Seq(Events) /\ r \in Seq(Segs) /\ fs \in Seq(Events)
      /\ b \in Seq(Position) /\ d \in Seq(Position) /\ e \in Seq(Position)
      /\ w \in BOOLEAN /\ v \in BOOLEAN /\ u \in BOOLEAN
  BY DEF Voiced, VoicedType
<1>2. PICK p, gs : p = q \o r /\ gs = es \o fs
  OBVIOUS
<1>3. VoicedType(p, gs, b, w, e, u)
  BY <1>1, <1>2, ConcatType DEF VoicedType
<1>4. VoicedWraps(p, gs)
  <2>1. ASSUME NEW kind \in {"metadata", "ambiguous"}
        PROVE  NonEmpty(SpokenIn(gs, kind)) = Wrappers(p, kind)
    <3>1. kind \in Spoken \union {"reasoning"}
      BY DEF Spoken
    <3>2. PICK x \in Seq(Bodies), y \in Seq(Bodies) : x = SpokenIn(es, kind) /\ y = SpokenIn(fs, kind)
      BY <1>1, <3>1, SpokenInType DEF Bodies
    <3>3. SpokenIn(gs, kind) = x \o y
      BY <1>1, <1>2, <3>2, SpokenInConcat
    <3>4. NonEmpty(x \o y) = NonEmpty(x) \o NonEmpty(y)
      BY NonEmptyConcat
    <3>5. NonEmpty(x) = Wrappers(q, kind) /\ NonEmpty(y) = Wrappers(r, kind)
      BY <3>2 DEF Voiced, VoicedWraps
    <3>6. Wrappers(p, kind) = Wrappers(q, kind) \o Wrappers(r, kind)
      BY <1>1, <1>2, WrappersConcat
    <3> QED BY <3>3, <3>4, <3>5, <3>6
  <2>2. ASSUME Modest(gs) PROVE NoneGivenUp(p)
    <3>1. Modest(es) /\ Modest(fs)
      BY <1>1, <1>2, <2>2, ModestConcat
    <3>2. NoneGivenUp(q) /\ NoneGivenUp(r)
      BY <3>1 DEF Voiced, VoicedWraps
    <3>3. PICK m, n : m = Len(q) /\ n = Len(r)
      OBVIOUS
    <3>4. /\ p \in Seq(Segs) /\ m \in Nat /\ n \in Nat /\ Len(p) = m + n
          /\ \A i \in 1 .. m : p[i] = q[i]
          /\ \A i \in 1 .. n : p[m + i] = r[i]
      BY <1>1, <1>2, <3>3, ConcatIs
    <3>5. DOMAIN q = 1 .. m /\ DOMAIN r = 1 .. n /\ DOMAIN p = 1 .. m + n
      BY <1>1, <3>3, <3>4, LenProperties
    <3>6. ASSUME NEW i \in 1 .. m + n, p[i].kind = "ambiguous" PROVE Len(p[i].at) <= MaxHoldback
      <4>1. CASE i <= m
        BY <3>2, <3>4, <3>5, <3>6, <4>1 DEF NoneGivenUp
      <4>2. CASE i > m
        <5>1. PICK j \in 1 .. n : i = m + j
          BY <3>4, <4>2
        <5> QED BY <3>2, <3>4, <3>5, <3>6, <5>1 DEF NoneGivenUp
      <4> QED BY <3>4, <4>1, <4>2
    <3> QED BY <3>5, <3>6 DEF NoneGivenUp
  <2> QED BY <2>1, <2>2 DEF VoicedWraps
<1>5. /\ TextOf(p) = TextOf(q) \o TextOf(r)
      /\ TextOf(q) \in Seq(Position) /\ TextOf(r) \in Seq(Position)
  BY <1>1, <1>2, TextOfConcat, TextOfType DEF Position
<1>6. /\ FlattenSeq(SpokenIn(gs, "text"))
            = FlattenSeq(SpokenIn(es, "text")) \o FlattenSeq(SpokenIn(fs, "text"))
      /\ SpokenIn(gs, "tool_call") = SpokenIn(es, "tool_call") \o SpokenIn(fs, "tool_call")
  <2>1. "text" \in Spoken \union {"reasoning"}
    BY DEF Spoken
  <2> QED BY <1>1, <1>2, <2>1, SpokenFlatConcat, SpokenInConcat
<1>7. ASSUME ~response.tools PROVE VoicedPlain(p, gs, b, w, e, u)
  <2>1. VoicedPlain(q, es, b, w, d, v) /\ VoicedPlain(r, fs, d, v, e, u)
    BY <1>7 DEF Voiced
  <2>2. << >> \o << >> = << >>
    OBVIOUS
  <2> QED BY <1>5, <1>6, <2>1, <2>2 DEF VoicedPlain
<1>8. ASSUME response.tools PROVE VoicedTools(p, gs, b, w, e, u)
  <2>1. VoicedTools(q, es, b, w, d, v) /\ VoicedTools(r, fs, d, v, e, u)
    BY <1>8 DEF Voiced
  <2>2. PICK x, y, X, Y, W, Z : /\ x = TextOf(q) /\ y = TextOf(r)
                                /\ X = FlattenSeq(SpokenIn(es, "text")) /\ Y = SpokenIn(es, "tool_call")
                                /\ W = FlattenSeq(SpokenIn(fs, "text")) /\ Z = SpokenIn(fs, "tool_call")
    OBVIOUS
  <2>3. Tells(b \o x, w, X, Y, d, v) /\ Tells(d \o y, v, W, Z, e, u)
    BY <2>1, <2>2 DEF VoicedTools
  <2>4. Tells((b \o x) \o y, w, X, Y, d \o y, v)
    BY <1>5, <2>2, <2>3, TellsGrow
  <2>5. Tells((b \o x) \o y, w, X \o W, Y \o Z, e, u)
    BY <2>3, <2>4, TellsThen
  <2>6. Three(Position, b, x, y)
    BY <1>1, <1>5, <2>2 DEF Three
  <2>7. Assoc(b, x, y)
    BY <2>6, ConcatAssoc
  <2>8. (b \o x) \o y = b \o TextOf(p)
    BY <1>5, <2>2, <2>7 DEF Assoc
  <2> QED BY <1>6, <2>1, <2>2, <2>5, <2>8 DEF VoicedTools
<1> QED
  BY <1>2, <1>3, <1>4, <1>7, <1>8 DEF Voiced

-----------------------------------------------------------------------------
(* One segment, and all of them.                                           *)
ParserAt(b, w, es) == [buffer |-> b, inside |-> w, events |-> es]

(* What a segment adds to the events, whatever they are so far.            *)
AddsEvents(b, w, s, fs, d, v) ==
    \A es \in Seq(Events) : Through(ParserAt(b, w, es), s) = ParserAt(d, v, es \o fs)

LEMMA EventIs ==
    ASSUME NEW s \in Segs, NEW e, e = Event(s.kind, s.at)
    PROVE  e \in Events /\ e.type = s.kind /\ e.value = s.at /\ s.at \in Seq(Position)
<1>1. s.kind \in {"text", "metadata", "ambiguous"} /\ s.at \in Seq(Position)
  BY DEF Segs, Position
<1>2. e = [type |-> s.kind, value |-> s.at]
  BY DEF Event
<1>3. s.kind \in OwnEvents \union Others /\ s.kind # "native_call"
  BY <1>1 DEF OwnEvents
<1>4. s.at \in EventValues
  BY <1>1 DEF EventValues, Position
<1> QED
  BY <1>1, <1>2, <1>3, <1>4 DEF Events

LEMMA PlainVoices ==
    ASSUME NEW b \in Seq(Position), NEW w \in BOOLEAN, NEW s \in Segs,
           s.kind = "text" => ~response.tools
    PROVE  \E fs, d, v : /\ Voiced(<< s >>, fs, b, w, d, v) /\ OfAnswer(fs)
                         /\ AddsEvents(b, w, s, fs, d, v)
<1>1. PICK e \in Events : e = Event(s.kind, s.at) /\ e.type = s.kind /\ e.value = s.at
  BY EventIs
<1>2. PICK fs, q : fs = << e >> /\ q = << s >>
  OBVIOUS
<1>3. /\ fs \in Seq(Events) /\ q \in Seq(Segs) /\ DOMAIN fs = {1} /\ DOMAIN q = {1}
      /\ fs[1] = e /\ q[1] = s
  BY <1>2, OneType
<1>4. \A type : SpokenIn(fs, type) = IF e.type = type THEN << e.value >> ELSE << >>
  BY <1>2, SpokenInOne
<1>5. /\ s.kind \in {"text", "metadata", "ambiguous"} /\ s.at \in Seq(Position)
      /\ s.at \in Bodies
  BY DEF Segs, Position, Bodies
<1>6. /\ TextOf(q) = IF s.kind = "text" THEN s.at ELSE << >>
      /\ \A kind : Wrappers(q, kind) =
            IF s.kind = kind /\ s.at # << >> THEN << s.at >> ELSE << >>
  BY <1>2, ViewsOfOne
<1>7. VoicedType(q, fs, b, w, b, w)
  BY <1>3 DEF VoicedType
<1>8. VoicedWraps(q, fs)
  <2>1. ASSUME NEW kind \in {"metadata", "ambiguous"}
        PROVE  NonEmpty(SpokenIn(fs, kind)) = Wrappers(q, kind)
    <3>1. CASE s.kind = kind
      <4>1. SpokenIn(fs, kind) = << s.at >>
        BY <1>1, <1>4, <3>1
      <4>2. NonEmpty(<< s.at >>) = IF s.at = << >> THEN << >> ELSE << s.at >>
        BY <1>5, NonEmptyFew
      <4> QED BY <1>6, <3>1, <4>1, <4>2
    <3>2. CASE s.kind # kind
      BY <1>1, <1>4, <1>6, <3>2, NonEmptyFew
    <3> QED BY <3>1, <3>2
  <2>2. Modest(fs) => NoneGivenUp(q)
    BY <1>1, <1>3 DEF Modest, NoneGivenUp
  <2> QED BY <2>1, <2>2 DEF VoicedWraps
<1>9. SpokenIn(fs, "tool_call") = << >>
  BY <1>1, <1>4, <1>5
<1>10. FlattenSeq(SpokenIn(fs, "text")) = TextOf(q)
  <2>1. CASE s.kind = "text"
    <3>1. SpokenIn(fs, "text") = << s.at >>
      BY <1>1, <1>4, <2>1
    <3>2. FlattenSeq(<< s.at >>) = s.at
      BY <1>5, FlattenOne
    <3> QED BY <1>6, <2>1, <3>1, <3>2
  <2>2. CASE s.kind # "text"
    BY <1>1, <1>4, <1>6, <2>2, FlattenEmpty
  <2> QED BY <2>1, <2>2
<1>11. VoicedPlain(q, fs, b, w, b, w)
  BY <1>9, <1>10 DEF VoicedPlain
<1>12. response.tools => VoicedTools(q, fs, b, w, b, w)
  <2>1. ASSUME response.tools PROVE Tells(b \o TextOf(q), w, TextOf(q), << >>, b, w)
    <3>1. TextOf(q) = << >>
      BY <1>6, <2>1
    <3>2. b \o << >> = b
      OBVIOUS
    <3>3. Tells(b, w, << >>, << >>, b, w)
      BY TellsNot
    <3> QED BY <3>1, <3>2, <3>3
  <2> QED BY <1>9, <1>10, <2>1 DEF VoicedTools
<1>13. OfAnswer(fs)
  BY <1>1, <1>3, <1>5 DEF OfAnswer, Spoken
<1>14. AddsEvents(b, w, s, fs, b, w)
  <2>1. ASSUME NEW es \in Seq(Events)
        PROVE  Through(ParserAt(b, w, es), s) = ParserAt(b, w, es \o fs)
    <3>1. Append(es, e) = es \o fs
      BY <1>2, AppendIs
    <3>2. Through(ParserAt(b, w, es), s) = ParserAt(b, w, Append(es, e))
      BY <1>1 DEF Through, ParserAt
    <3> QED BY <3>1, <3>2
  <2> QED BY <2>1 DEF AddsEvents
<1> QED
  BY <1>2, <1>7, <1>8, <1>11, <1>12, <1>14, <1>13 DEF Voiced

LEMMA ToolsVoice ==
    ASSUME NEW b \in Seq(Position), NEW w \in BOOLEAN, NEW s \in Segs,
           s.kind = "text", response.tools
    PROVE  \E fs, d, v : /\ Voiced(<< s >>, fs, b, w, d, v) /\ OfAnswer(fs)
                         /\ AddsEvents(b, w, s, fs, d, v)
<1>1. s.at \in Seq(Position)
  BY DEF Segs, Position
<1>2. PICK c \in Seq(Position) : c = s.at
  BY <1>1
<1>3. PICK p : p = ParserAt(b, w, << >>)
  OBVIOUS
<1>4. p.buffer = b /\ p.inside = w
  BY <1>3 DEF ParserAt
<1>5. PICK d, v, x : /\ x \in Seq(Its) /\ Tells(b \o c, w, Said(x), Done(x), d, v)
                     /\ ToolRested(d, v) /\ ToolFed(p, c) = ToolAt(d, v, x)
  <2>1. p.buffer \in Seq(Position) /\ p.inside \in BOOLEAN
    BY <1>4
  <2> QED BY <1>4, <2>1, ToolFedIs
<1>6. PICK fs \in Seq(Events) :
        /\ fs = ItemEvents(x) /\ \A i \in DOMAIN fs : fs[i].type \in ItemKinds
        /\ \A type : SpokenIn(fs, type) = ItemsOf(x, type)
  BY <1>5, ItemEventsAre
<1>7. PICK q : q = << s >>
  OBVIOUS
<1>8. q \in Seq(Segs) /\ DOMAIN q = {1} /\ q[1] = s
  BY <1>7, OneType
<1>9. TextOf(q) = c /\ \A kind \in {"metadata", "ambiguous"} : Wrappers(q, kind) = << >>
  BY <1>2, <1>7, ViewsOfOne
<1>10. VoicedType(q, fs, b, w, d, v)
  <2>1. d \in Seq(Position) /\ v \in BOOLEAN
    BY <1>5 DEF Tells
  <2> QED BY <1>6, <1>8, <2>1 DEF VoicedType
<1>11. VoicedWraps(q, fs)
  <2>1. ASSUME NEW kind \in {"metadata", "ambiguous"}
        PROVE  NonEmpty(SpokenIn(fs, kind)) = Wrappers(q, kind)
    <3>1. \A i \in DOMAIN fs : fs[i].type # kind
      BY <1>6 DEF ItemKinds
    <3>2. SpokenIn(fs, kind) = << >>
      BY <3>1, SpokenInNot
    <3> QED BY <1>9, <3>2, NonEmptyFew
  <2>2. NoneGivenUp(q)
    BY <1>8 DEF NoneGivenUp
  <2> QED BY <2>1, <2>2 DEF VoicedWraps
<1>12. VoicedTools(q, fs, b, w, d, v)
  <2>1. FlattenSeq(SpokenIn(fs, "text")) = Said(x) /\ SpokenIn(fs, "tool_call") = Done(x)
    BY <1>6 DEF Said, Done
  <2> QED BY <1>5, <1>9, <2>1 DEF VoicedTools
<1>13. OfAnswer(fs)
  BY <1>6 DEF OfAnswer, Spoken, ItemKinds
<1>14. AddsEvents(b, w, s, fs, d, v)
  <2>1. ASSUME NEW es \in Seq(Events)
        PROVE  Through(ParserAt(b, w, es), s) = ParserAt(d, v, es \o fs)
    <3>1. ToolFed(ParserAt(b, w, es), s.at) = ToolAt(d, v, x)
      <4>1. ToolFed(ParserAt(b, w, es), s.at) = ToolFed(p, c)
        BY <1>2, <1>3 DEF ToolFed, ParserAt
      <4> QED BY <1>5, <4>1
    <3>2. PICK r, z : r = ParserAt(b, w, es) /\ z = ToolFed(r, s.at)
      OBVIOUS
    <3>3. z.buffer = d /\ z.inside = v /\ z.items = x /\ r.events = es
      BY <3>1, <3>2 DEF ToolAt, ParserAt
    <3>4. Through(r, s) = [buffer |-> z.buffer, inside |-> z.inside,
                           events |-> r.events \o ItemEvents(z.items)]
      BY <3>2 DEF Through
    <3> QED BY <1>6, <3>2, <3>3, <3>4 DEF ParserAt
  <2> QED BY <2>1 DEF AddsEvents
<1> QED
  BY <1>7, <1>10, <1>11, <1>12, <1>14, <1>13 DEF Voiced

LEMMA ThroughVoices ==
    ASSUME NEW b \in Seq(Position), NEW w \in BOOLEAN, NEW s \in Segs
    PROVE  \E fs, d, v : /\ Voiced(<< s >>, fs, b, w, d, v) /\ OfAnswer(fs)
                         /\ AddsEvents(b, w, s, fs, d, v)
<1>1. CASE s.kind = "text" /\ response.tools
  BY <1>1, ToolsVoice
<1>2. CASE ~(s.kind = "text" /\ response.tools)
  BY <1>2, PlainVoices
<1> QED
  BY <1>1, <1>2

-----------------------------------------------------------------------------
(* The first segments, one after the other.                                *)
Start(q, n) == SubSeq(q, 1, n)

LEMMA StartGrows ==
    ASSUME NEW S, NEW q \in Seq(S), NEW n \in 1 .. Len(q)
    PROVE  /\ Start(q, n - 1) \in Seq(S) /\ Start(q, n) \in Seq(S) /\ q[n] \in S
           /\ Start(q, n) = Start(q, n - 1) \o << q[n] >>
<1>1. PICK N \in Nat : N = Len(q)
  BY LenProperties
<1>2. q[n] \in S
  BY ElementOfSeq
<1>3. PICK s, t, u : s = Start(q, n) /\ t = Start(q, n - 1) /\ u = t \o << q[n] >>
  OBVIOUS
<1>4. s \in Seq(S) /\ Len(s) = n /\ \A i \in 1 .. n : s[i] = q[i]
  <2>1. s \in Seq(S)
    BY <1>1, <1>3, ElementOfSeq, SubSeqProperties DEF Start
  <2> QED BY <1>1, <1>3, <2>1 DEF Start
<1>5. t \in Seq(S) /\ Len(t) = n - 1 /\ \A i \in 1 .. n - 1 : t[i] = q[i]
  <2>1. t \in Seq(S)
    BY <1>1, <1>3, ElementOfSeq, SubSeqProperties DEF Start
  <2> QED BY <1>1, <1>3, <2>1 DEF Start
<1>6. PICK k \in Nat : k = n - 1 /\ Len(t) = k
  BY <1>5
<1>7. PICK z : z = << q[n] >>
  OBVIOUS
<1>8. z \in Seq(S) /\ Len(z) = 1 /\ z[1] = q[n]
  BY <1>2, <1>7, OneType
<1>9. u \in Seq(S) /\ Len(u) = k + 1 /\ (\A i \in 1 .. k : u[i] = t[i]) /\ u[k + 1] = q[n]
  <2>1. PICK m : m = 1 /\ m = Len(z)
    BY <1>8
  <2>2. /\ u \in Seq(S) /\ Len(u) = k + m /\ \A i \in 1 .. k : u[i] = t[i]
        /\ \A i \in 1 .. m : u[k + i] = z[i]
    BY <1>3, <1>5, <1>6, <1>7, <1>8, <2>1, ConcatIs
  <2> QED BY <1>8, <2>1, <2>2
<1>10. s = u
  <2>1. ASSUME NEW i \in 1 .. n PROVE s[i] = u[i]
    <3>1. CASE i = n
      BY <1>4, <1>6, <1>9, <3>1
    <3>2. CASE i # n
      <4>1. i \in 1 .. k
        BY <1>6, <3>2
      <4> QED BY <1>4, <1>5, <1>6, <1>9, <4>1
    <3> QED BY <3>1, <3>2
  <2> QED BY <1>4, <1>6, <1>9, <2>1, SeqEqual
<1> QED
  BY <1>2, <1>3, <1>4, <1>5, <1>10

LEMMA StartIs ==
    ASSUME NEW S, NEW q \in Seq(S)
    PROVE  Start(q, 0) = << >> /\ Start(q, Len(q)) = q
<1>1. SubSeq(q, 1, 0) = << >>
  OBVIOUS
<1>2. SubSeq(q, 1, Len(q)) = q
  OBVIOUS
<1> QED
  BY <1>1, <1>2 DEF Start

Parsers == {ParserAt(d, v, es) : d \in Seq(Position), v \in BOOLEAN, es \in Seq(Events)}

LEMMA ParsersHave ==
    ASSUME NEW d \in Seq(Position), NEW v \in BOOLEAN, NEW es \in Seq(Events)
    PROVE  ParserAt(d, v, es) \in Parsers
BY DEF Parsers

LEMMA ParsersThrough ==
    ASSUME NEW p \in Parsers, NEW s \in Segs
    PROVE  Through(p, s) \in Parsers
<1>1. PICK d \in Seq(Position), v \in BOOLEAN, es \in Seq(Events) : p = ParserAt(d, v, es)
  BY DEF Parsers
<1>2. PICK fs, e, u : Voiced(<< s >>, fs, d, v, e, u) /\ AddsEvents(d, v, s, fs, e, u)
  BY ThroughVoices
<1>3. fs \in Seq(Events) /\ e \in Seq(Position) /\ u \in BOOLEAN
  BY <1>2 DEF Voiced, VoicedType
<1>4. Through(p, s) = ParserAt(e, u, es \o fs)
  BY <1>1, <1>2 DEF AddsEvents
<1>5. PICK gs \in Seq(Events) : gs = es \o fs
  BY <1>3, ConcatType
<1> QED
  BY <1>3, <1>4, <1>5, ParsersHave

(* The parser and the events after the first n segments.                   *)
EmitsTo(q, n, b, w, p) ==
    \E es, d, v : /\ Voiced(Start(q, n), es, b, w, d, v) /\ OfAnswer(es)
                   /\ p = ParserAt(d, v, es)

LEMMA EmitsOn ==
    ASSUME NEW q \in Seq(Segs), NEW n \in 1 .. Len(q), NEW b, NEW w, NEW p, EmitsTo(q, n - 1, b, w, p)
    PROVE  EmitsTo(q, n, b, w, Through(p, q[n]))
<1>1. PICK es, d, v : Voiced(Start(q, n - 1), es, b, w, d, v) /\ OfAnswer(es) /\ p = ParserAt(d, v, es)
  BY DEF EmitsTo
<1>2. PICK s \in Segs : s = q[n] /\ Start(q, n) = Start(q, n - 1) \o << s >>
  BY StartGrows
<1>3. es \in Seq(Events) /\ d \in Seq(Position) /\ v \in BOOLEAN
  BY <1>1 DEF Voiced, VoicedType
<1>4. PICK fs, e, u : Voiced(<< s >>, fs, d, v, e, u) /\ OfAnswer(fs) /\ AddsEvents(d, v, s, fs, e, u)
  BY <1>3, ThroughVoices
<1>5. Through(p, s) = ParserAt(e, u, es \o fs)
  BY <1>1, <1>3, <1>4 DEF AddsEvents
<1>6. Voiced(Start(q, n - 1) \o << s >>, es \o fs, b, w, e, u)
  BY <1>1, <1>4, VoicedThen
<1>7. Voiced(Start(q, n), es \o fs, b, w, e, u)
  BY <1>2, <1>6
<1>8. OfAnswer(es \o fs)
  <2>1. fs \in Seq(Events)
    BY <1>4 DEF Voiced, VoicedType
  <2> QED BY <1>1, <1>3, <1>4, <2>1, OfAnswerConcat
<1> QED
  BY <1>2, <1>5, <1>7, <1>8 DEF EmitsTo

LEMMA EmitIs ==
    ASSUME tools.buffer \in Seq(Position), tools.inside \in BOOLEAN, NEW q \in Seq(Segs)
    PROVE  \E es, d, v : /\ Voiced(q, es, tools.buffer, tools.inside, d, v) /\ OfAnswer(es)
                         /\ Emit(q) = ParserAt(d, v, es)
<1>1. PICK b \in Seq(Position), w \in BOOLEAN : b = tools.buffer /\ w = tools.inside
  OBVIOUS
<1>2. PICK N \in Nat : N = Len(q)
  BY LenProperties
<1>3. PICK a : a = ParserAt(b, w, << >>)
  OBVIOUS
<1>4. a \in Parsers
  <2>1. PICK es \in Seq(Events) : es = << >>
    BY EmptySeq
  <2> QED BY <1>3, <2>1, ParsersHave
<1>5. a = [buffer |-> tools.buffer, inside |-> tools.inside, events |-> << >>]
  BY <1>1, <1>3 DEF ParserAt
<1>6. \A n \in 1 .. N : q[n] \in Segs
  BY <1>2, ElementOfSeq
<1> DEFINE F == [x \in (1 .. N) \X Parsers |-> Through(x[2], q[x[1]])]
           Def(r) == r = [n \in 0 .. N |-> IF n = 0 THEN a ELSE Through(r[n - 1], q[n])]
           g == CHOOSE r : Def(r)
<1>7. Def(g)
  <2>1. F \in [(1 .. N) \X Parsers -> Parsers]
    BY <1>6, ParsersThrough
  <2>2. PICK f \in [0 .. N -> Parsers] : Recurs(N, f, a, F)
    <3> HIDE DEF F
    <3> QED BY <1>4, <2>1, RecursionExists
  <2>3. f[0] = a
    BY <2>2 DEF Recurs
  <2>4. ASSUME NEW n \in 1 .. N PROVE f[n] = Through(f[n - 1], q[n])
    <3>1. n - 1 \in 0 .. N
      OBVIOUS
    <3>2. f[n - 1] \in Parsers
      BY <3>1
    <3>3. f[n] = F[<< n, f[n - 1] >>]
      <4> HIDE DEF F
      <4> QED BY <2>2 DEF Recurs
    <3>4. << n, f[n - 1] >> \in (1 .. N) \X Parsers
      BY <3>2
    <3> QED BY <3>3, <3>4
  <2>5. \A n \in 0 .. N : f[n] = IF n = 0 THEN a ELSE Through(f[n - 1], q[n])
    BY <2>3, <2>4
  <2>6. f = [n \in 0 .. N |-> f[n]]
    OBVIOUS
  <2>7. Def(f)
    BY <2>5, <2>6
  <2> QED BY <2>7
<1>8. Emit(q) = g[N]
  BY <1>2, <1>5 DEF Emit
<1>9. g[0] = a /\ \A n \in 1 .. N : g[n] = Through(g[n - 1], q[n])
  <2>1. 0 \in 0 .. N /\ \A n \in 1 .. N : n \in 0 .. N /\ n # 0
    OBVIOUS
  <2> QED BY <1>7, <2>1
<1> HIDE DEF g, Def, F
<1> DEFINE X == {n \in Nat : n <= N => EmitsTo(q, n, b, w, g[n])}
<1>10. X = Nat
  <2>1. 0 \in X
    <3>1. Voiced(<< >>, << >>, b, w, b, w)
      BY VoicedNot
    <3>2. Start(q, 0) = << >>
      BY StartIs
    <3>3. OfAnswer(<< >>)
      BY DEF OfAnswer
    <3>4. EmitsTo(q, 0, b, w, a)
      BY <1>3, <3>1, <3>2, <3>3 DEF EmitsTo
    <3> QED BY <1>9, <3>4
  <2>2. ASSUME NEW n \in X PROVE n + 1 \in X
    <3>1. n \in Nat /\ (n <= N => EmitsTo(q, n, b, w, g[n]))
      OBVIOUS
    <3>2. PICK m \in Nat : m = n + 1
      BY <3>1
    <3>3. m - 1 = n
      BY <3>1, <3>2
    <3>4. ASSUME m <= N PROVE EmitsTo(q, m, b, w, g[m])
      <4>1. m \in 1 .. N /\ n <= N
        BY <3>1, <3>2, <3>4
      <4>2. g[m] = Through(g[n], q[m])
        BY <1>9, <3>3, <4>1
      <4>3. EmitsTo(q, m - 1, b, w, g[n])
        BY <3>1, <3>3, <4>1
      <4> QED BY <1>2, <4>1, <4>2, <4>3, EmitsOn
    <3> QED BY <3>2, <3>4
  <2>3. X \in SUBSET Nat
    OBVIOUS
  <2> HIDE DEF X
  <2> QED BY <2>1, <2>2, <2>3, SetInduction
<1>11. EmitsTo(q, N, b, w, g[N])
  BY <1>2, <1>10
<1>12. Start(q, N) = q
  BY <1>2, StartIs
<1> QED
  BY <1>1, <1>8, <1>11, <1>12 DEF EmitsTo

-----------------------------------------------------------------------------
(* What is said of the answer stays said while the answer stays.           *)
Kept == text' = text /\ response' = response

LEMMA IsKept ==
    ASSUME Kept
    PROVE  \A b, i, piece : Is(b, i, piece)' = Is(b, i, piece)
BY DEF Is, Kept

LEMMA OpeningsKept ==
    ASSUME Kept
    PROVE  \A b : Openings(b)' = Openings(b)
BY DEF Openings, Is, NextEnd, Kept

LEMMA ClosingsKept ==
    ASSUME Kept
    PROVE  \A b : Closings(b)' = Closings(b)
BY DEF Closings, Is, Kept

LEMMA ClassifyKept ==
    ASSUME Kept
    PROVE  \A b : Classify(b)' = Classify(b)
BY DEF Classify, InTag, Is, Kept, Segment

LEMMA NextSegmentsKept ==
    ASSUME Kept, NEW s
    PROVE  NextSegments(s)' = NextSegments(s)
<1>1. PICK b, q : b = s.buffer /\ q = s.out
  OBVIOUS
<1>2. Openings(b)' = Openings(b)
  BY OpeningsKept
<1>3. PICK i, inner : i = First(Openings(b)) /\ inner = From(b, i[2] + 1)
  OBVIOUS
<1>4. Closings(inner)' = Closings(inner)
  BY ClosingsKept
<1>5. PICK j, body : j = First(Closings(inner)) /\ body = Part(inner, 1, j[1] - 1)
  OBVIOUS
<1>6. Classify(body)' = Classify(body)
  BY ClassifyKept
<1> QED
  BY <1>1, <1>2, <1>3, <1>4, <1>5, <1>6 DEF NextSegments

LEMMA SegmentsKept ==
    ASSUME Kept, NEW b
    PROVE  Segments(b)' = Segments(b)
BY NextSegmentsKept DEF Segments

LEMMA MarkerKept ==
    ASSUME Kept
    PROVE  \A b, name : Marker(b, name)' = Marker(b, name)
BY DEF Marker, Is, Kept

LEMMA ParseBlockKept ==
    ASSUME Kept
    PROVE  /\ \A b : ParseBlock(b)' = ParseBlock(b)
           /\ \A b : CallIfAny(b)' = CallIfAny(b)
<1>1. \A b : ParseBlock(b)' = ParseBlock(b)
  BY DEF ParseBlock, Is, Kept, Item
<1> QED
  BY <1>1 DEF CallIfAny

LEMMA NextItemsKept ==
    ASSUME Kept
    PROVE  \A s : NextItems(s)' = NextItems(s)
BY MarkerKept, ParseBlockKept DEF NextItems, TextItem, Item, From, Part

LEMMA ItemsKept ==
    ASSUME Kept, NEW b
    PROVE  Items(b)' = Items(b)
BY NextItemsKept DEF Items

LEMMA InBlockKept ==
    ASSUME Kept, NEW c
    PROVE  InBlock(c)' = InBlock(c)
<1>1. PICK m : m = Marker(c, "/tool_call")
  OBVIOUS
<1>2. Marker(c, "/tool_call")' = m
  BY <1>1, MarkerKept
<1>3. PICK b, d : b = Part(c, 1, m - 1) /\ d = From(c, m + 3)
  OBVIOUS
<1>4. Items(d)' = Items(d) /\ ParseBlock(b)' = ParseBlock(b) /\ CallIfAny(c)' = CallIfAny(c)
  BY ItemsKept, ParseBlockKept
<1> QED
  BY <1>1, <1>2, <1>3, <1>4 DEF InBlock

LEMMA ToolRestKept ==
    ASSUME Kept
    PROVE  \A b, w : ToolRest(b, w)' = ToolRest(b, w)
<1>1. ASSUME NEW b, NEW w PROVE ToolRest(b, w)' = ToolRest(b, w)
  BY InBlockKept, ItemsKept DEF ToolRest
<1> QED
  BY <1>1

LEMMA AgreesKept ==
    ASSUME Kept, NEW b, NEW w, NEW X, NEW Y, NEW d, NEW v, NEW R
    PROVE  Agrees(b, w, X, Y, d, v, R)' = Agrees(b, w, X, Y, d, v, R)
<1>1. PICK c, e : c = b \o R /\ e = d \o R
  OBVIOUS
<1>2. ToolRest(c, w)' = ToolRest(c, w) /\ ToolRest(e, v)' = ToolRest(e, v)
  BY ToolRestKept
<1> QED
  BY <1>1, <1>2 DEF Agrees

LEMMA TellsKept ==
    ASSUME Kept, NEW b, NEW w, NEW X, NEW Y, NEW d, NEW v
    PROVE  Tells(b, w, X, Y, d, v)' <=> Tells(b, w, X, Y, d, v)
<1>1. (\A R \in Seq(Position) : Agrees(b, w, X, Y, d, v, R)')
        <=> \A R \in Seq(Position) : Agrees(b, w, X, Y, d, v, R)
  BY AgreesKept
<1> QED
  BY <1>1 DEF Tells

LEMMA ToolRestedKept ==
    ASSUME Kept, NEW b, NEW w
    PROVE  ToolRested(b, w)' <=> ToolRested(b, w)
BY DEF ToolRested, None, MarkerIs, MarkAt, Is, IsPartialMarker, Kept

LEMMA VoicedKept ==
    ASSUME Kept, NEW q, NEW es, NEW b, NEW w, NEW d, NEW v
    PROVE  Voiced(q, es, b, w, d, v)' <=> Voiced(q, es, b, w, d, v)
<1>1. VoicedTools(q, es, b, w, d, v)' <=> VoicedTools(q, es, b, w, d, v)
  <2>1. PICK c, X, Y : /\ c = b \o TextOf(q) /\ X = FlattenSeq(SpokenIn(es, "text"))
                       /\ Y = SpokenIn(es, "tool_call")
    OBVIOUS
  <2>2. Tells(c, w, X, Y, d, v)' <=> Tells(c, w, X, Y, d, v)
    BY TellsKept
  <2>3. (ToolRested(b, w)' <=> ToolRested(b, w)) /\ (ToolRested(d, v)' <=> ToolRested(d, v))
    BY ToolRestedKept
  <2> QED BY <2>1, <2>2, <2>3 DEF VoicedTools
<1> QED
  BY <1>1 DEF Voiced, Kept

-----------------------------------------------------------------------------
(* The splitter's side.                                                    *)
LEMMA TagsKept ==
    ASSUME Kept
    PROVE  /\ \A i, j : OpeningAt(i, j)' <=> OpeningAt(i, j)
           /\ \A i : ClosingAt(i)' <=> ClosingAt(i)
BY DEF OpeningAt, ClosingAt, Kept

LEMMA ClosingsOfKept ==
    ASSUME Kept
    PROVE  /\ \A a, k : NoClosing(a, k)' <=> NoClosing(a, k)
           /\ \A a, k, i : FirstClosing(a, k, i)' <=> FirstClosing(a, k, i)
BY TagsKept DEF NoClosing, FirstClosing

LEMMA InnerKept ==
    ASSUME Kept, NEW a, NEW n
    PROVE  Inner(a, n)' = Inner(a, n)
<1>1. NoClosing(a, n)' <=> NoClosing(a, n)
  BY ClosingsOfKept
<1>2. TheClosing(a, n)' = TheClosing(a, n)
  BY ClosingsOfKept DEF TheClosing
<1>3. PICK x : x = TheClosing(a, n)
  OBVIOUS
<1>4. PICK b, c : b = Span(a, x - 1) /\ c = Span(x + 2, n)
  OBVIOUS
<1>5. Classify(b)' = Classify(b) /\ Segments(c)' = Segments(c)
  BY ClassifyKept, SegmentsKept
<1> QED
  BY <1>1, <1>2, <1>3, <1>4, <1>5 DEF Inner

LEMMA AheadKept ==
    ASSUME Kept, NEW o, NEW e, NEW w, NEW n
    PROVE  Ahead(o, e, w, n)' = Ahead(o, e, w, n)
<1>1. PICK c : c = Span(e, n)
  OBVIOUS
<1>2. Inner(o, n)' = Inner(o, n) /\ Segments(c)' = Segments(c)
  BY InnerKept, SegmentsKept
<1> QED
  BY <1>1, <1>2 DEF Ahead

LEMMA PlacesKept ==
    ASSUME Kept, NEW o, NEW e, NEW k, NEW w
    PROVE  /\ Places(o, e, k, w)' <=> Places(o, e, k, w)
           /\ BodyOpen(o, e, w)' <=> BodyOpen(o, e, w)
           /\ AtRest(e, k, w)' <=> AtRest(e, k, w)
<1>1. Places(o, e, k, w)' <=> Places(o, e, k, w)
  BY DEF Places, Stretch, TextOK, Kept
<1>2. BodyOpen(o, e, w)' <=> BodyOpen(o, e, w)
  BY TagsKept DEF BodyOpen
<1>3. AtRest(e, k, w)' <=> AtRest(e, k, w)
  <2>1. PICK b : b = Span(e, k)
    OBVIOUS
  <2>2. IsBeginning(b)' <=> IsBeginning(b)
    BY DEF IsBeginning, Is, Kept
  <2> QED BY <2>1, <2>2 DEF AtRest
<1> QED
  BY <1>1, <1>2, <1>3

-----------------------------------------------------------------------------
(* The splitter when the answer up to k has been received and it has       *)
(* returned the segments Q.                                                *)
SplitterAt(o, e, k, w) == [buffer |-> Span(e, k), inWrapper |-> w, body |-> Span(o, e)]

Faithful(k, Q, o, e, w) ==
    response.cuts = "between" /\ NoneGivenUp(Q) =>
        /\ BodyOpen(o, e, w)
        /\ \A n \in k .. Len(text) : Same(Q \o Ahead(o, e, w, n), Segments(Span(0, n)))

Told(k, Q, o, e, w) ==
    /\ Places(o, e, k, w) /\ e - o <= MaxHoldback /\ AtRest(e, k, w)
    /\ Q \in Seq(Segs) /\ Within(TextOf(Q), 0, o)
    /\ Faithful(k, Q, o, e, w)

LEMMA ToldKept ==
    ASSUME Kept, NEW k, NEW Q, NEW o, NEW e, NEW w, Told(k, Q, o, e, w)
    PROVE  Told(k, Q, o, e, w)'
<1>1. /\ Places(o, e, k, w)' <=> Places(o, e, k, w)
      /\ BodyOpen(o, e, w)' <=> BodyOpen(o, e, w)
      /\ AtRest(e, k, w)' <=> AtRest(e, k, w)
  BY PlacesKept
<1>2. ASSUME NEW n \in k .. Len(text), Same(Q \o Ahead(o, e, w, n), Segments(Span(0, n)))
      PROVE  Same(Q \o Ahead(o, e, w, n)', Segments(Span(0, n))')
  <2>1. PICK b, x, y : b = Span(0, n) /\ x = Ahead(o, e, w, n) /\ y = Segments(b)
    OBVIOUS
  <2>2. Ahead(o, e, w, n)' = x /\ Segments(b)' = y
    BY <2>1, AheadKept, SegmentsKept
  <2> QED BY <1>2, <2>1, <2>2
<1>3. Len(text)' = Len(text) /\ response' = response
  BY DEF Kept
<1>4. Faithful(k, Q, o, e, w)'
  BY <1>1, <1>2, <1>3 DEF Told, Faithful
<1> QED
  BY <1>1, <1>4 DEF Told

LEMMA ToldBegins ==
    ASSUME TextOK
    PROVE  Told(0, << >>, 0, 0, FALSE)
<1>1. Stretch(0, 0)
  BY TextLength DEF Stretch
<1>2. Places(0, 0, 0, FALSE) /\ 0 - 0 <= MaxHoldback
  BY <1>1, HoldbackAssumption DEF Places
<1>3. PICK Q \in Seq(Segs) : Q = << >>
  BY EmptySeq
<1>4. Within(TextOf(Q), 0, 0)
  BY <1>3, ViewsOfNone, WithinEmpty
<1>5. ASSUME NEW n \in 0 .. Len(text)
      PROVE  Same(Q \o Ahead(0, 0, FALSE, n), Segments(Span(0, n)))
  <2>1. Stretch(0, n)
    BY TextLength DEF Stretch
  <2>2. PICK s \in Seq(Segs) : s = Segments(Span(0, n))
    BY <2>1, SegmentsType
  <2>3. Q \o s = s
    BY <1>3
  <2> QED BY <2>2, <2>3 DEF Ahead, Same
<1>6. BodyOpen(0, 0, FALSE)
  BY DEF BodyOpen
<1> QED
  BY <1>2, <1>3, <1>4, <1>5, <1>6 DEF Told, Faithful, AtRest

LEMMA ToldOn ==
    ASSUME NEW k, NEW Q, NEW o, NEW e, NEW w, Told(k, Q, o, e, w),
           NEW m \in Nat, k <= m, m <= Len(text), response.cuts = "between" => Clean(m),
           NEW p, NEW f, NEW v, NEW x, Moves(o, e, w, m, x, p, f, v), AtRest(f, m, v)
    PROVE  Told(m, Q \o x, p, f, v)
<1>1. /\ Places(o, e, k, w) /\ Q \in Seq(Segs) /\ Within(TextOf(Q), 0, o)
      /\ Places(p, f, m, v) /\ f - p <= MaxHoldback /\ o <= p /\ x \in Seq(Segs)
      /\ Within(TextOf(x), o, p) /\ Says(o, e, w, m, x, p, f, v)
  BY DEF Told, Moves
<1>2. /\ o \in Nat /\ p \in Nat /\ k \in Nat /\ e \in Nat /\ o <= e /\ e <= k
      /\ Len(text) \in Nat /\ TextOK
  BY <1>1, TextLength DEF Places, Stretch
<1>3. Places(o, e, m, w)
  <2>1. e <= m
    BY <1>2
  <2> QED BY <1>1, <1>2, <2>1 DEF Places, Stretch
<1>4. PICK P \in Seq(Segs) : P = Q \o x
  BY <1>1, ConcatType
<1>5. Within(TextOf(P), 0, p)
  <2>1. PICK s, t : s = TextOf(Q) /\ t = TextOf(x)
    OBVIOUS
  <2>2. s \in Seq(Nat) /\ t \in Seq(Nat) /\ TextOf(P) = s \o t
    BY <1>1, <1>4, <2>1, TextOfType, TextOfConcat
  <2>3. PICK z \in Nat : z = 0 /\ z <= o
    BY <1>2
  <2>4. Within(s \o t, z, p)
    BY <1>1, <1>2, <2>1, <2>2, <2>3, WithinConcat
  <2> QED BY <2>2, <2>3, <2>4
<1>6. ASSUME response.cuts = "between", NoneGivenUp(P)
      PROVE  /\ BodyOpen(p, f, v)
             /\ \A n \in m .. Len(text) : Same(P \o Ahead(p, f, v, n), Segments(Span(0, n)))
  <2>1. NoneGivenUp(Q) /\ NoneGivenUp(x) /\ Clean(m)
    BY <1>1, <1>4, <1>6, NoneGivenUpConcat
  <2>2. /\ BodyOpen(o, e, w)
        /\ \A n \in k .. Len(text) : Same(Q \o Ahead(o, e, w, n), Segments(Span(0, n)))
    BY <1>6, <2>1 DEF Told, Faithful
  <2>3. /\ BodyOpen(p, f, v)
        /\ \A n \in m .. Len(text) : Same(x \o Ahead(p, f, v, n), Ahead(o, e, w, n))
    BY <1>1, <2>1, <2>2 DEF Says
  <2>4. ASSUME NEW n \in m .. Len(text)
        PROVE  Same(P \o Ahead(p, f, v, n), Segments(Span(0, n)))
    <3>1. PICK a \in Seq(Segs) : a = Ahead(o, e, w, n)
      BY <1>3, AheadType
    <3>2. PICK c \in Seq(Segs) : c = Ahead(p, f, v, n)
      BY <1>1, AheadType
    <3>3. PICK d \in Seq(Segs) : d = x \o c
      BY <1>1, ConcatType
    <3>4. n \in k .. Len(text)
      BY <1>2
    <3>5. Same(d, a)
      BY <2>3, <3>1, <3>2, <3>3
    <3>6. Same(Q \o d, Q \o a)
      BY <1>1, <3>5, SameConcat
    <3>7. Same(Q \o a, Segments(Span(0, n)))
      BY <2>2, <3>1, <3>4
    <3>8. P \o c = Q \o d
      <4>1. Q \in Seq(Segs) /\ x \in Seq(Segs) /\ c \in Seq(Segs)
        BY <1>1, <3>2
      <4>2. Three(Segs, Q, x, c)
        BY <4>1 DEF Three
      <4>3. Assoc(Q, x, c)
        BY <4>2, ConcatAssoc
      <4> QED BY <1>4, <3>3, <4>3 DEF Assoc
    <3> QED BY <3>2, <3>6, <3>7, <3>8 DEF Same
  <2> QED BY <2>3, <2>4
<1>7. Faithful(m, P, p, f, v)
  BY <1>6 DEF Faithful
<1> QED
  BY <1>1, <1>4, <1>5, <1>7 DEF Told

-----------------------------------------------------------------------------
(* A cut between tags.                                                     *)
LEMMA MayCutClean ==
    ASSUME TextOK, NEW k \in Nat, k <= Len(text), MayCut(k), response.cuts = "between"
    PROVE  Clean(k)
<1>1. ~TornOpening(k) /\ ~TornClosing(k)
  BY DEF MayCut
<1>2. PICK N \in Nat : N = Len(text)
  BY TextLength
<1>3. Whole = Span(0, N) /\ Stretch(0, N)
  BY <1>2, WholeIs, TextLength DEF Stretch
<1>4. ASSUME NEW x \in Nat, NEW y \in Nat, OpeningAt(x, y), x + 1 < k PROVE y <= k
  <2>1. 0 < x /\ y <= N
    BY <1>2, <1>4 DEF OpeningAt
  <2>2. << x - 0, y - 0 >> \in Openings(Whole)
    <3>1. PICK m : m = << x - 0, y - 0 >>
      OBVIOUS
    <3> QED BY <1>3, <1>4, <2>1, <3>1, OpeningsAre
  <2>3. PICK m : m = << x - 0, y - 0 >> /\ m[1] = x /\ m[2] = y
    <3>1. x - 0 = x /\ y - 0 = y
      OBVIOUS
    <3>2. << x, y >>[1] = x /\ << x, y >>[2] = y
      OBVIOUS
    <3> QED BY <3>1, <3>2
  <2>4. ~(m[1] + 1 < k /\ k < m[2])
    BY <1>1, <2>2, <2>3 DEF TornOpening
  <2> QED BY <1>4, <2>3, <2>4
<1>5. ASSUME NEW x \in Nat, ClosingAt(x), x <= k PROVE x + 2 <= k
  <2>1. 0 < x /\ x + 2 <= N
    BY <1>2, <1>5 DEF ClosingAt
  <2>2. << x - 0, (x - 0) + 2 >> \in Closings(Whole)
    <3>1. PICK m : m = << x - 0, (x - 0) + 2 >>
      OBVIOUS
    <3> QED BY <1>3, <1>5, <2>1, <3>1, ClosingsAre
  <2>3. PICK m : m = << x - 0, (x - 0) + 2 >> /\ m[1] = x /\ m[2] = x + 2
    <3>1. x - 0 = x
      OBVIOUS
    <3>2. PICK y : y = x + 2
      OBVIOUS
    <3>3. << x, y >>[1] = x /\ << x, y >>[2] = y
      OBVIOUS
    <3> QED BY <3>1, <3>2, <3>3
  <2>4. ~(m[1] <= k /\ k < m[2])
    BY <1>1, <2>2, <2>3 DEF TornClosing
  <2> QED BY <1>5, <2>3, <2>4
<1> QED
  BY <1>4, <1>5 DEF Clean

(* feed: the splitter goes on to m.                                        *)
LEMMA FedIs ==
    ASSUME NEW k, NEW Q, NEW o, NEW e, NEW w, Told(k, Q, o, e, w),
           NEW m \in Nat, k <= m, m <= Len(text), MayCut(m)
    PROVE  \E p, f, v, x : /\ Told(m, Q \o x, p, f, v) /\ x \in Seq(Segs)
                           /\ Fed(SplitterAt(o, e, k, w), Span(k, m)) = SplitAt(p, f, m, v, x)
<1>1. Places(o, e, k, w) /\ e - o <= MaxHoldback
  BY DEF Told
<1>2. o \in Nat /\ e \in Nat /\ k \in Nat /\ o <= e /\ e <= k /\ TextOK
  BY <1>1 DEF Places, Stretch
<1>3. e <= m
  BY <1>2
<1>4. Places(o, e, m, w)
  BY <1>1, <1>2, <1>3 DEF Places, Stretch
<1>5. Span(e, k) \o Span(k, m) = Span(e, m)
  BY <1>2, SpanConcat
<1>6. Fed(SplitterAt(o, e, k, w), Span(k, m)) = Steps(SplitAt(o, e, m, w, << >>))
  BY <1>5 DEF Fed, SplitterAt, SplitAt
<1>7. PICK p, f, v, x : /\ Moves(o, e, w, m, x, p, f, v) /\ AtRest(f, m, v)
                        /\ Steps(SplitAt(o, e, m, w, << >>)) = SplitAt(p, f, m, v, x)
  BY <1>1, <1>4, StepsIs
<1>8. response.cuts = "between" => Clean(m)
  BY <1>2, MayCutClean
<1>9. Told(m, Q \o x, p, f, v)
  BY <1>7, <1>8, ToldOn
<1> QED
  BY <1>6, <1>7, <1>9 DEF Moves

(* close: what is left says what was still to be said.                     *)
FlushSays(k, Q, r) ==
    /\ r \in Seq(Segs) /\ NoneGivenUp(r) /\ Within(TextOf(Q \o r), 0, k)
    /\ response.cuts = "between" /\ NoneGivenUp(Q) => Same(Q \o r, Segments(Span(0, k)))

LEMMA FlushedInside ==
    ASSUME NEW k, NEW o, Places(o, k, k, TRUE), k - o <= MaxHoldback,
           NEW r, r = Flushed(SplitterAt(o, k, k, TRUE))
    PROVE  /\ r \in Seq(Segs) /\ NoneGivenUp(r) /\ TextOf(r) = << >>
           /\ BodyOpen(o, k, TRUE) => Same(r, Ahead(o, k, TRUE, k))
<1>1. o \in Nat /\ k \in Nat /\ o <= k /\ Stretch(o, k) /\ Stretch(k, k)
  BY DEF Places, Stretch
<1>2. PICK s, t : s = Span(o, k) /\ t = Span(k, k)
  OBVIOUS
<1>3. s \in Seq(Nat) /\ Len(s) = k - o /\ t = << >> /\ s \o t = s
  <2>1. s \in Seq(Nat) /\ Len(s) = k - o
    BY <1>1, <1>2, SpanType
  <2>2. t = << >>
    BY <1>1, <1>2, SpanEmpty
  <2> QED BY <2>1, <2>2
<1>4. r = IF s = << >> THEN << >> ELSE << Segment("ambiguous", s) >>
  BY <1>2, <1>3 DEF Flushed, SplitterAt
<1>5. PICK x \in Segs : x = Segment("ambiguous", s) /\ x.kind = "ambiguous" /\ x.at = s
  BY <1>3, SegmentIs
<1>6. r \in Seq(Segs) /\ NoneGivenUp(r) /\ TextOf(r) = << >>
  <2>1. CASE s = << >>
    <3>1. r = << >> /\ DOMAIN r = {}
      <4>1. r = << >>
        BY <1>4, <2>1
      <4>2. DOMAIN << >> = {}
        OBVIOUS
      <4> QED BY <4>1, <4>2
    <3>2. r \in Seq(Segs)
      BY <3>1, EmptySeq
    <3>3. NoneGivenUp(r)
      BY <3>1 DEF NoneGivenUp
    <3> QED BY <3>1, <3>2, <3>3, ViewsOfNone
  <2>2. CASE s # << >>
    <3>1. r = << x >>
      BY <1>4, <1>5, <2>2
    <3>2. r \in Seq(Segs) /\ DOMAIN r = {1} /\ r[1] = x
      <4>1. << x >> \in Seq(Segs)
        BY OneType
      <4>2. DOMAIN << x >> = {1} /\ << x >>[1] = x
        OBVIOUS
      <4> QED BY <3>1, <4>1, <4>2
    <3>3. TextOf(r) = << >>
      BY <1>5, <3>1, ViewsOfOne
    <3> QED BY <1>3, <1>5, <3>2, <3>3 DEF NoneGivenUp
  <2> QED BY <2>1, <2>2
<1>7. ASSUME BodyOpen(o, k, TRUE) PROVE Same(r, Ahead(o, k, TRUE, k))
  <2>1. NoClosing(o, k)
    <3>1. ASSUME NEW c \in Nat, ClosingAt(c), o < c PROVE k < c + 2
      <4>1. k < c
        BY <1>7, <3>1 DEF BodyOpen
      <4> QED BY <1>1, <4>1
    <3> QED BY <3>1 DEF NoClosing
  <2>2. Ahead(o, k, TRUE, k) = << x >>
    BY <1>2, <1>5, <2>1 DEF Ahead, Inner
  <2>3. CASE s = << >>
    <3>1. r = << >>
      BY <1>4, <2>3
    <3>2. TextOf(<< x >>) = << >> /\ \A kind : Wrappers(<< x >>, kind) = << >>
      BY <1>5, <2>3, ViewsOfOne
    <3> QED BY <2>2, <3>1, <3>2, ViewsOfNone DEF Same
  <2>4. CASE s # << >>
    BY <1>4, <1>5, <2>2, <2>4 DEF Same
  <2> QED BY <2>3, <2>4
<1> QED
  BY <1>6, <1>7

LEMMA FlushedOutside ==
    ASSUME NEW k, NEW e, Places(e, e, k, FALSE), AtRest(e, k, FALSE),
           NEW r, r = Flushed(SplitterAt(e, e, k, FALSE))
    PROVE  /\ r = TextIfAny(Span(e, k)) /\ r = Ahead(e, e, FALSE, k)
<1>1. e \in Nat /\ k \in Nat /\ e <= k /\ Stretch(e, k)
  BY DEF Places, Stretch
<1>2. r = TextIfAny(Span(e, k))
  BY DEF Flushed, SplitterAt
<1>3. NoOpening(e, k)
  <2>1. k <= e + 2
    <3>1. CASE e = k
      BY <1>1, <3>1
    <3>2. CASE IsBeginning(Span(e, k))
      <4>1. k = e + 1 \/ k = e + 2
        BY <1>1, <3>2, BeginningIs
      <4> QED BY <1>1, <4>1
    <3> QED BY <3>1, <3>2 DEF AtRest
  <2>2. ASSUME NEW x \in Nat, NEW y \in Nat, OpeningAt(x, y), e < x PROVE k < y
    <3>1. x + 2 <= y
      BY <2>2 DEF OpeningAt
    <3> QED BY <1>1, <2>1, <2>2, <3>1
  <2> QED BY <2>2 DEF NoOpening
<1>4. Segments(Span(e, k)) = TextIfAny(Span(e, k))
  BY <1>1, <1>3, SegmentsNone
<1> QED
  BY <1>2, <1>4 DEF Ahead

LEMMA FlushedIs ==
    ASSUME NEW k, NEW Q, NEW o, NEW e, NEW w, Told(k, Q, o, e, w),
           NEW r, r = Flushed(SplitterAt(o, e, k, w))
    PROVE  FlushSays(k, Q, r)
<1>1. /\ Places(o, e, k, w) /\ e - o <= MaxHoldback /\ AtRest(e, k, w)
      /\ Q \in Seq(Segs) /\ Within(TextOf(Q), 0, o)
  BY DEF Told
<1>2. /\ o \in Nat /\ e \in Nat /\ k \in Nat /\ o <= e /\ e <= k /\ w \in BOOLEAN
      /\ k <= Len(text) /\ Stretch(e, k) /\ (~w => o = e)
  BY <1>1 DEF Places, Stretch
<1>3. PICK a \in Seq(Segs) : a = Ahead(o, e, w, k)
  <2>1. k \in k .. Len(text)
    BY <1>1, <1>2, TextLength DEF Places, Stretch
  <2> QED BY <1>1, <2>1, AheadType
<1>4. /\ r \in Seq(Segs) /\ NoneGivenUp(r)
      /\ BodyOpen(o, e, w) => Same(r, a)
      /\ \E p \in Nat : o <= p /\ p <= k /\ Within(TextOf(r), p, k)
  <2>1. CASE w
    <3>1. e = k
      BY <1>1, <2>1 DEF AtRest
    <3>2. w = TRUE
      BY <1>2, <2>1
    <3>3. Places(o, k, k, TRUE) /\ k - o <= MaxHoldback /\ r = Flushed(SplitterAt(o, k, k, TRUE))
      BY <1>1, <3>1, <3>2
    <3>4. /\ r \in Seq(Segs) /\ NoneGivenUp(r) /\ TextOf(r) = << >>
          /\ BodyOpen(o, k, TRUE) => Same(r, Ahead(o, k, TRUE, k))
      BY <3>3, FlushedInside
    <3>5. Within(TextOf(r), k, k)
      BY <3>4, WithinEmpty
    <3> QED BY <1>2, <1>3, <3>1, <3>2, <3>4, <3>5
  <2>2. CASE ~w
    <3>1. o = e /\ w = FALSE
      BY <1>2, <2>2
    <3>2. Places(e, e, k, FALSE) /\ AtRest(e, k, FALSE) /\ r = Flushed(SplitterAt(e, e, k, FALSE))
      BY <1>1, <3>1
    <3>3. r = TextIfAny(Span(e, k)) /\ r = Ahead(e, e, FALSE, k)
      BY <3>2, FlushedOutside
    <3>4. PICK b \in Seq(Nat) : b = Span(e, k)
      BY <1>2, SpanType
    <3>5. r \in Seq(Segs) /\ TextOf(r) = b
      BY <3>3, <3>4, TextIfAnyIs
    <3>6. NoneGivenUp(r)
      <4>1. r = << >> \/ r = << Segment("text", b) >>
        BY <3>3, <3>4 DEF TextIfAny
      <4>2. CASE r = << >>
        BY <4>2 DEF NoneGivenUp
      <4>3. CASE r = << Segment("text", b) >>
        <5>1. Segment("text", b).kind = "text"
          BY <3>4, SegmentIs
        <5>2. PICK x : x = Segment("text", b) /\ r = << x >> /\ x.kind = "text"
          BY <4>3, <5>1
        <5>3. DOMAIN << x >> = {1} /\ << x >>[1] = x
          OBVIOUS
        <5> QED BY <5>2, <5>3 DEF NoneGivenUp
      <4> QED BY <4>1, <4>2, <4>3
    <3>7. Within(TextOf(r), e, k)
      BY <1>2, <3>4, <3>5, WithinSpan
    <3>8. Same(r, a)
      BY <1>3, <3>1, <3>3 DEF Same
    <3> QED BY <1>2, <3>1, <3>5, <3>6, <3>7, <3>8
  <2> QED BY <1>2, <2>1, <2>2
<1>5. Within(TextOf(Q \o r), 0, k)
  <2>1. PICK p \in Nat : o <= p /\ p <= k /\ Within(TextOf(r), p, k)
    BY <1>4
  <2>2. PICK s, t : s = TextOf(Q) /\ t = TextOf(r)
    OBVIOUS
  <2>3. s \in Seq(Nat) /\ t \in Seq(Nat) /\ TextOf(Q \o r) = s \o t
    BY <1>1, <1>4, <2>2, TextOfType, TextOfConcat
  <2>4. PICK z \in Nat : z = 0 /\ z <= o /\ z <= p
    BY <1>2
  <2>5. Within(s, z, p)
    <3>1. Within(s, z, o) /\ z <= z
      BY <1>1, <2>2, <2>4
    <3> QED BY <1>2, <2>1, <2>3, <2>4, <3>1, WithinWiden
  <2>6. Within(s \o t, z, k)
    BY <1>2, <2>1, <2>2, <2>3, <2>4, <2>5, WithinConcat
  <2> QED BY <2>3, <2>4, <2>6
<1>6. ASSUME response.cuts = "between", NoneGivenUp(Q)
      PROVE  Same(Q \o r, Segments(Span(0, k)))
  <2>1. BodyOpen(o, e, w) /\ Same(Q \o a, Segments(Span(0, k)))
    <3>1. k \in k .. Len(text)
      BY <1>1, <1>2, TextLength DEF Places, Stretch
    <3> QED BY <1>3, <1>6, <3>1 DEF Told, Faithful
  <2>2. Same(Q \o r, Q \o a)
    BY <1>1, <1>3, <1>4, <2>1, SameConcat
  <2> QED BY <2>1, <2>2 DEF Same
<1> QED
  BY <1>4, <1>5, <1>6 DEF FlushSays

-----------------------------------------------------------------------------
(* The page.                                                               *)
ProseTo(n) == TextOf(Segments(Span(0, n)))

LEMMA PageIs ==
    ASSUME TextOK, NEW n \in Nat, n <= Len(text)
    PROVE  /\ Part(Whole, 1, n) = Span(0, n)
           /\ ProseTo(n) \in Seq(Position)
           /\ Page(n) = IF response.tools THEN Items(ProseTo(n)) ELSE TextItem(ProseTo(n))
           /\ Page(n) \in Seq(Its)
           /\ \A kind : OnPage(n, kind) = ItemsOf(Page(n), kind)
<1>1. Part(Whole, 1, n) = Span(0, n)
  <2>1. PICK a \in Nat : a = 0 /\ a + 1 = 1 /\ a <= n
    OBVIOUS
  <2>2. Part(Whole, a + 1, n) = Span(a, n)
    BY <2>1, WholePart
  <2> QED BY <2>1, <2>2
<1>2. Stretch(0, n)
  BY TextLength DEF Stretch
<1>3. PICK prose \in Seq(Position) : prose = ProseTo(n)
  BY <1>2, SegmentsType, TextOfType DEF Position, ProseTo
<1>4. PICK p : p = Page(n)
  OBVIOUS
<1>5. p = IF response.tools THEN Items(prose) ELSE TextItem(prose)
  BY <1>1, <1>3, <1>4 DEF Page, ProseTo
<1>6. p \in Seq(Its)
  BY <1>5, ItemsType, ItemTypes
<1>7. ASSUME NEW kind PROVE OnPage(n, kind) = ItemsOf(p, kind)
  <2>1. \A i \in DOMAIN p : p[i] \in Its
    BY <1>6, LenProperties, ElementOfSeq
  <2>2. [i \in DOMAIN p |-> IF p[i].kind = kind THEN << p[i].at >> ELSE << >>]
          = [i \in DOMAIN p |-> ItemPart(kind)[p[i]]]
    BY <2>1 DEF ItemPart
  <2> QED BY <1>4, <2>2 DEF OnPage, ItemsOf, Mapped
<1> QED
  BY <1>1, <1>3, <1>4, <1>5, <1>6, <1>7

(* The text on the page, and its calls.                                    *)
Prints(n) == FlattenSeq(OnPage(n, "text"))

LEMMA PrintsAre ==
    ASSUME TextOK, NEW n \in Nat, n <= Len(text)
    PROVE  /\ response.tools => /\ Prints(n) = Said(Items(ProseTo(n)))
                                /\ OnPage(n, "tool_call") = Done(Items(ProseTo(n)))
           /\ ~response.tools => Prints(n) = ProseTo(n) /\ OnPage(n, "tool_call") = << >>
<1>1. PICK prose \in Seq(Position) : prose = ProseTo(n)
  BY PageIs
<1>2. PICK p : p = Page(n)
  OBVIOUS
<1>3. Prints(n) = Said(p) /\ OnPage(n, "tool_call") = Done(p)
  BY <1>2, PageIs DEF Prints, Said, Done
<1>4. p = IF response.tools THEN Items(prose) ELSE TextItem(prose)
  BY <1>1, <1>2, PageIs
<1>5. Said(TextItem(prose)) = prose /\ Done(TextItem(prose)) = << >>
  BY SaidText
<1> QED
  BY <1>1, <1>3, <1>4, <1>5

-----------------------------------------------------------------------------
(* What the events show of the answer.                                     *)
ShownIn(es) == FlattenSeq(SpokenIn(es, "text"))

LEMMA ShownInType ==
    ASSUME NEW es \in Seq(Events)
    PROVE  /\ ShownIn(es) \in Seq(Position)
           /\ SpokenIn(es, "tool_call") \in Seq(Seq(Position))
<1>1. "text" \in Spoken \union {"reasoning"} /\ "tool_call" \in Spoken \union {"reasoning"}
  BY DEF Spoken
<1>2. PICK x \in Seq(Seq(Position)) : x = SpokenIn(es, "text")
  BY <1>1, SpokenInType
<1>3. SpokenIn(es, "tool_call") \in Seq(Seq(Position))
  BY <1>1, SpokenInType
<1> QED
  BY <1>2, <1>3, FlattenType DEF ShownIn

(* Of the text P the events show X, find Y, and leave d, whatever text R   *)
(* follows.                                                                *)
ShowsOf(E, R, es, d, v) ==
    /\ Said(Items(E \o R)) = ShownIn(es) \o Said(ToolRest(d \o R, v))
    /\ Done(Items(E \o R)) = SpokenIn(es, "tool_call") \o Done(ToolRest(d \o R, v))

LEMMA VoicedAgrees ==
    ASSUME NEW P, NEW es, NEW d, NEW v, Voiced(P, es, << >>, FALSE, d, v), response.tools,
           NEW R \in Seq(Position), NEW E, E = TextOf(P)
    PROVE  ShowsOf(E, R, es, d, v)
<1>1. VoicedTools(P, es, << >>, FALSE, d, v)
  BY DEF Voiced
<1>2. E \in Seq(Position)
  BY TextOfType DEF Voiced, VoicedType, Position
<1>3. << >> \o E = E
  BY <1>2
<1>4. Tells(E, FALSE, ShownIn(es), SpokenIn(es, "tool_call"), d, v)
  BY <1>1, <1>3 DEF VoicedTools, ShownIn
<1>5. Agrees(E, FALSE, ShownIn(es), SpokenIn(es, "tool_call"), d, v, R)
  BY <1>4 DEF Tells
<1>6. ToolRest(E \o R, FALSE) = Items(E \o R)
  BY DEF ToolRest
<1> QED
  BY <1>5, <1>6 DEF Agrees, ShowsOf

LEMMA ShownWithin ==
    ASSUME NEW P, NEW es, NEW d, NEW v, Voiced(P, es, << >>, FALSE, d, v),
           response.tools \in BOOLEAN, NEW n, NEW m, Within(TextOf(P), n, m)
    PROVE  Within(ShownIn(es), n, m)
<1>1. CASE ~response.tools
  BY <1>1 DEF Voiced, VoicedPlain, ShownIn
<1>2. CASE response.tools
  <2>1. VoicedTools(P, es, << >>, FALSE, d, v)
    BY <1>2 DEF Voiced
  <2>2. PICK E \in Seq(Position) : E = TextOf(P)
    BY TextOfType DEF Voiced, VoicedType, Position
  <2>3. PICK X : X = ShownIn(es)
    OBVIOUS
  <2>4. Tells(E, FALSE, X, SpokenIn(es, "tool_call"), d, v)
    <3>1. << >> \o E = E
      OBVIOUS
    <3> QED BY <2>1, <2>2, <2>3, <3>1 DEF VoicedTools, ShownIn
  <2>5. PICK z \in Seq(Position) : z = << >>
    BY EmptySeq
  <2>6. X \in Seq(Position) /\ d \in Seq(Position) /\ Keeps(E, X, d, z, z)
    BY <2>4, <2>5 DEF Tells
  <2>7. z \o (E \o z) = E /\ z \o (X \o (d \o z)) = X \o (d \o z) /\ X \o z = X
    <3>1. \A s \in Seq(Position) : z \o s = s /\ s \o z = s
      BY <2>5
    <3>2. X \o (d \o z) \in Seq(Position)
      <4>1. d \o z = d
        BY <2>6, <3>1
      <4> QED BY <2>6, <4>1, ConcatType
    <3> QED BY <2>6, <3>1, <3>2
  <2>8. Within(E, n, m)
    BY <2>2
  <2>9. Within(X \o (d \o z), n, m)
    BY <2>6, <2>7, <2>8 DEF Keeps
  <2>10. Within(X \o z, n, m)
    BY <2>6, <2>9, WithinDrop
  <2> QED BY <2>3, <2>7, <2>10
<1> QED
  BY <1>1, <1>2

(* While the answer arrives, what is shown is the beginning of the page.   *)
Begins(X, n) == \E u \in Seq(Position) : Prints(n) = X \o u

LEMMA ShownBegins ==
    ASSUME NEW k, NEW Q, NEW o, NEW e, NEW w, Told(k, Q, o, e, w),
           NEW es, NEW d, NEW v, Voiced(Q, es, << >>, FALSE, d, v), Modest(es),
           response.cuts = "between", response.tools \in BOOLEAN
    PROVE  Begins(ShownIn(es), Len(text))
<1>1. Places(o, e, k, w) /\ Q \in Seq(Segs)
  BY DEF Told
<1>2. TextOK /\ Len(text) \in Nat /\ Len(text) \in k .. Len(text)
  BY <1>1, TextLength DEF Places, Stretch
<1>3. PICK N \in Nat : N = Len(text) /\ N \in k .. Len(text)
  BY <1>2
<1>4. PICK a \in Seq(Segs) : a = Ahead(o, e, w, N)
  BY <1>1, <1>3, AheadType
<1>5. NoneGivenUp(Q)
  BY DEF Voiced, VoicedWraps
<1>6. Same(Q \o a, Segments(Span(0, N)))
  BY <1>3, <1>4, <1>5 DEF Told, Faithful
<1>7. PICK E \in Seq(Position), R \in Seq(Position) : E = TextOf(Q) /\ R = TextOf(a)
  BY <1>1, <1>4, TextOfType DEF Position
<1>8. ProseTo(N) = E \o R
  BY <1>1, <1>4, <1>6, <1>7, TextOfConcat DEF Same, ProseTo
<1>9. CASE response.tools
  <2>1. Said(Items(E \o R)) = ShownIn(es) \o Said(ToolRest(d \o R, v))
    <3>1. ShowsOf(E, R, es, d, v)
      BY <1>7, <1>9, VoicedAgrees
    <3> QED BY <3>1 DEF ShowsOf
  <2>2. Prints(N) = Said(Items(E \o R))
    <3>1. Prints(N) = Said(Items(ProseTo(N)))
      BY <1>2, <1>3, <1>9, PrintsAre
    <3> QED BY <1>8, <3>1
  <2>3. Said(ToolRest(d \o R, v)) \in Seq(Position)
    <3>1. d \o R \in Seq(Position) /\ v \in BOOLEAN
      BY ConcatType DEF Voiced, VoicedType
    <3> QED BY <3>1, ToolRestType
  <2> QED BY <1>3, <2>1, <2>2, <2>3 DEF Begins
<1>10. CASE ~response.tools
  <2>1. ShownIn(es) = E
    BY <1>7, <1>10 DEF Voiced, VoicedPlain, ShownIn
  <2>2. Prints(N) = E \o R
    BY <1>2, <1>3, <1>8, <1>10, PrintsAre
  <2> QED BY <1>3, <2>1, <2>2 DEF Begins
<1> QED
  BY <1>9, <1>10

(* When the answer has ended: all of its page is shown but a beginning of  *)
(* a marker at its end, all its calls are found, and its wrappers.         *)
EndsWith(X, n) ==
    \E u \in Seq(Position) : /\ Prints(n) = X \o u
                             /\ u = << >> \/ (response.tools /\ IsPartialMarker(u))

LEMMA ClosesWhole ==
    ASSUME TextOK, NEW k \in Nat, k <= Len(text), response.tools \in BOOLEAN,
           NEW P, NEW es, NEW d, NEW v, Voiced(P, es, << >>, FALSE, d, v), ToolRested(d, v),
           NEW p, p.buffer = d, p.inside = v, Same(P, Segments(Span(0, k)))
    PROVE  /\ EndsWith(ShownIn(es), k)
           /\ SpokenIn(es, "tool_call") \o Done(ToolFlushed(p)) = OnPage(k, "tool_call")
           /\ \A kind \in {"metadata", "ambiguous"} :
                 NonEmpty(SpokenIn(es, kind)) = Wrappers(Segments(Span(0, k)), kind)
<1>1. /\ P \in Seq(Segs) /\ es \in Seq(Events) /\ d \in Seq(Position) /\ v \in BOOLEAN
  BY DEF Voiced, VoicedType
<1>2. PICK E \in Seq(Position) : E = TextOf(P) /\ E = ProseTo(k)
  BY <1>1, TextOfType DEF Position, Same, ProseTo
<1>3. \A kind \in {"metadata", "ambiguous"} :
         NonEmpty(SpokenIn(es, kind)) = Wrappers(Segments(Span(0, k)), kind)
  BY DEF Voiced, VoicedWraps, Same
<1>4. /\ ToolFlushed(p) \in Seq(Its) /\ Said(ToolFlushed(p)) = << >>
      /\ Done(ToolFlushed(p)) = Done(ToolRest(d, v))
      /\ v => Said(ToolRest(d, v)) = << >>
      /\ ~v => Said(ToolRest(d, v)) = d /\ (d = << >> \/ IsPartialMarker(d))
  BY <1>1, ToolFlushedIs
<1>5. CASE response.tools
  <2>1. PICK z \in Seq(Position) : z = << >>
    BY EmptySeq
  <2>2. E \o z = E /\ d \o z = d
    BY <1>1, <2>1
  <2>3. /\ Said(Items(E)) = ShownIn(es) \o Said(ToolRest(d, v))
        /\ Done(Items(E)) = SpokenIn(es, "tool_call") \o Done(ToolRest(d, v))
    <3>1. ShowsOf(E, z, es, d, v)
      BY <1>2, <1>5, VoicedAgrees
    <3> QED BY <2>2, <3>1 DEF ShowsOf
  <2>4. Prints(k) = Said(Items(E)) /\ OnPage(k, "tool_call") = Done(Items(E))
    BY <1>2, <1>5, PrintsAre
  <2>5. EndsWith(ShownIn(es), k)
    <3>1. CASE v
      BY <1>4, <2>1, <2>3, <2>4, <3>1 DEF EndsWith
    <3>2. CASE ~v
      BY <1>1, <1>4, <1>5, <2>3, <2>4, <3>2 DEF EndsWith
    <3> QED BY <1>1, <3>1, <3>2
  <2> QED BY <1>3, <1>4, <2>3, <2>4, <2>5
<1>6. CASE ~response.tools
  <2>1. VoicedPlain(P, es, << >>, FALSE, d, v)
    BY <1>6 DEF Voiced
  <2>2. d = << >> /\ v = FALSE /\ SpokenIn(es, "tool_call") = << >> /\ ShownIn(es) = E
    BY <1>2, <2>1 DEF VoicedPlain, ShownIn
  <2>3. ToolFlushed(p) = << >>
    BY <2>2 DEF ToolFlushed
  <2>4. Done(ToolFlushed(p)) = << >> /\ << >> \o << >> = << >>
    BY <2>3, SaidNone
  <2>5. Prints(k) = E /\ OnPage(k, "tool_call") = << >>
    BY <1>2, <1>6, PrintsAre
  <2>6. EndsWith(ShownIn(es), k)
    <3>1. PICK z \in Seq(Position) : z = << >>
      BY EmptySeq
    <3>2. E \o z = E
      BY <3>1
    <3> QED BY <2>2, <2>5, <3>1, <3>2 DEF EndsWith
  <2> QED BY <1>3, <2>2, <2>4, <2>5, <2>6
<1> QED
  BY <1>5, <1>6

-----------------------------------------------------------------------------
(* The numbers of a finite set can be put in order.                        *)
Rising(S, n, s) == s \in [1 .. n -> S] /\ \A i, j \in 1 .. n : i < j => s[i] < s[j]

LEMMA RisingExists ==
    ASSUME NEW S \in SUBSET Nat, IsFiniteSet(S)
    PROVE  \E s : Rising(S, Cardinality(S), s)
<1> DEFINE Orders(n) == \A T \in SUBSET Nat : IsFiniteSet(T) /\ Cardinality(T) = n
                                                => \E s : Rising(T, n, s)
           X == {n \in Nat : Orders(n)}
<1>1. Orders(0)
  <2>1. ASSUME NEW T \in SUBSET Nat, IsFiniteSet(T), Cardinality(T) = 0
        PROVE  \E s : Rising(T, 0, s)
    <3>1. PICK s : s = [i \in 1 .. 0 |-> 0]
      OBVIOUS
    <3>2. 1 .. 0 = {}
      OBVIOUS
    <3>3. s \in [1 .. 0 -> T]
      BY <3>1, <3>2
    <3> QED BY <3>2, <3>3 DEF Rising
  <2> QED BY <2>1
<1>2. ASSUME NEW n \in Nat, Orders(n) PROVE Orders(n + 1)
  <2>1. ASSUME NEW T \in SUBSET Nat, IsFiniteSet(T), Cardinality(T) = n + 1
        PROVE  \E s : Rising(T, n + 1, s)
    <3>1. T # {}
      <4>1. Cardinality(T) # 0
        BY <2>1
      <4> QED BY <4>1, FS_EmptySet
    <3>2. PICK m \in T : \A x \in T : m <= x
      BY <3>1, LeastNatural
    <3>3. PICK U : U = T \ {m}
      OBVIOUS
    <3>4. U \in SUBSET Nat /\ IsFiniteSet(U) /\ Cardinality(U) = n
      <4>1. IsFiniteSet(U) /\ Cardinality(U) = Cardinality(T) - 1
        BY <2>1, <3>2, <3>3, FS_RemoveElement
      <4> QED BY <2>1, <3>3, <4>1
    <3>5. PICK u : Rising(U, n, u)
      BY <1>2, <3>4
    <3>6. PICK N \in Nat : N = n + 1
      OBVIOUS
    <3>7. PICK s : s = [i \in 1 .. N |-> IF i = 1 THEN m ELSE u[i - 1]]
      OBVIOUS
    <3>8. ASSUME NEW i \in 1 .. N, i # 1
          PROVE  i - 1 \in 1 .. n /\ s[i] = u[i - 1] /\ s[i] \in T /\ m < s[i]
      <4>1. i - 1 \in 1 .. n
        BY <3>6, <3>8
      <4>2. u[i - 1] \in U
        BY <3>5, <4>1 DEF Rising
      <4>3. s[i] = u[i - 1]
        BY <3>7, <3>8
      <4>4. u[i - 1] \in T /\ u[i - 1] # m
        BY <3>3, <4>2
      <4>5. m <= u[i - 1] /\ m \in Nat /\ u[i - 1] \in Nat
        BY <2>1, <3>2, <4>4
      <4> QED BY <4>1, <4>3, <4>4, <4>5
    <3>9. 1 \in 1 .. N /\ s[1] = m
      BY <3>6, <3>7
    <3>10. s \in [1 .. N -> T]
      <4>1. \A i \in 1 .. N : s[i] \in T
        BY <3>2, <3>8, <3>9
      <4> QED BY <3>7, <4>1
    <3>11. ASSUME NEW i \in 1 .. N, NEW j \in 1 .. N, i < j PROVE s[i] < s[j]
      <4>1. j # 1 /\ j - 1 \in 1 .. n /\ s[j] = u[j - 1] /\ m < s[j]
        BY <3>8, <3>11
      <4>2. CASE i = 1
        BY <3>9, <4>1, <4>2
      <4>3. CASE i # 1
        <5>1. i - 1 \in 1 .. n /\ s[i] = u[i - 1]
          BY <3>8, <4>3
        <5>2. PICK a \in 1 .. n, b \in 1 .. n : a = i - 1 /\ b = j - 1
          BY <4>1, <5>1
        <5>3. a < b
          BY <3>11, <5>2
        <5>4. u[a] < u[b]
          BY <3>5, <5>3 DEF Rising
        <5> QED BY <4>1, <5>1, <5>2, <5>4
      <4> QED BY <4>2, <4>3
    <3> QED BY <3>6, <3>10, <3>11 DEF Rising
  <2> QED BY <2>1
<1>3. X = Nat
  <2>1. X \in SUBSET Nat /\ 0 \in X
    BY <1>1
  <2>2. \A n \in X : n + 1 \in X
    BY <1>2
  <2> HIDE DEF X
  <2> QED BY <2>1, <2>2, SetInduction
<1>4. Cardinality(S) \in Nat
  BY FS_CardinalityType
<1> QED
  BY <1>3, <1>4

LEMMA InOrderIs ==
    ASSUME NEW S \in SUBSET Nat, IsFiniteSet(S), NEW n, n = Cardinality(S)
    PROVE  n \in Nat /\ Rising(S, n, InOrder(S))
<1>1. n \in Nat
  BY FS_CardinalityType
<1>2. PICK s : Rising(S, n, s)
  BY RisingExists
<1> DEFINE Right(x) == \A i, j \in DOMAIN x : i < j => x[i] < x[j]
<1>3. s \in [1 .. n -> S] /\ Right(s)
  BY <1>2 DEF Rising
<1>4. PICK x : x = CHOOSE y \in [1 .. n -> S] : Right(y)
  OBVIOUS
<1>5. x \in [1 .. n -> S] /\ Right(x)
  BY <1>3, <1>4
<1>6. InOrder(S) = x
  BY <1>4 DEF InOrder
<1> QED
  BY <1>1, <1>5, <1>6 DEF Rising

-----------------------------------------------------------------------------
(* The native calls, of the fragments received.                            *)
IndexesIn(r) == {r[n].index : n \in DOMAIN r}
NamedIn(r) == {r[n].index : n \in {m \in DOMAIN r : r[m].name # ""}}
ArgumentPart(index) == [f \in Fragments |-> IF f.index = index THEN f.arguments ELSE << >>]
ArgumentsIn(r, index) ==
    FlattenSeq([n \in DOMAIN r |-> IF r[n].index = index THEN r[n].arguments ELSE << >>])

LEMMA ArgumentPartType ==
    ASSUME NEW index
    PROVE  ArgumentPart(index) \in [Fragments -> Seq(Nat)]
<1>1. \A f \in Fragments : f.arguments \in Seq(Nat)
  BY DEF Fragments
<1> QED
  BY <1>1, EmptySeq DEF ArgumentPart

LEMMA ArgumentsInIs ==
    ASSUME NEW r \in Seq(Fragments), NEW index
    PROVE  ArgumentsIn(r, index) = Mapped(r, ArgumentPart(index))
<1>1. \A i \in DOMAIN r : r[i] \in Fragments
  BY LenProperties, ElementOfSeq
<1>2. [n \in DOMAIN r |-> IF r[n].index = index THEN r[n].arguments ELSE << >>]
        = [n \in DOMAIN r |-> ArgumentPart(index)[r[n]]]
  BY <1>1 DEF ArgumentPart
<1> QED
  BY <1>2 DEF ArgumentsIn, Mapped

LEMMA ArgumentsInGrow ==
    ASSUME NEW r \in Seq(Fragments), NEW f \in Fragments, NEW index
    PROVE  /\ ArgumentsIn(Append(r, f), index)
                = IF f.index = index THEN ArgumentsIn(r, index) \o f.arguments
                  ELSE ArgumentsIn(r, index)
           /\ ArgumentsIn(r, index) \in Seq(Nat)
<1>1. PICK H \in [Fragments -> Seq(Nat)] : H = ArgumentPart(index)
  BY ArgumentPartType
<1>2. << f >> \in Seq(Fragments)
  BY OneType
<1>3. Append(r, f) = r \o << f >> /\ r \o << f >> \in Seq(Fragments)
  BY <1>2, AppendIs, ConcatType
<1>4. Mapped(r \o << f >>, H) = Mapped(r, H) \o Mapped(<< f >>, H)
  BY <1>2, MappedConcat
<1>5. Mapped(<< f >>, H) = H[f]
  BY MappedOne
<1>6. Mapped(r, H) \in Seq(Nat)
  BY MappedType
<1>7. H[f] = IF f.index = index THEN f.arguments ELSE << >>
  BY <1>1 DEF ArgumentPart
<1>8. ArgumentsIn(Append(r, f), index) = Mapped(r, H) \o H[f]
  BY <1>1, <1>3, <1>4, <1>5, ArgumentsInIs
<1>9. ArgumentsIn(r, index) = Mapped(r, H)
  BY <1>1, ArgumentsInIs
<1>10. Mapped(r, H) \o << >> = Mapped(r, H)
  BY <1>6
<1> QED
  BY <1>6, <1>7, <1>8, <1>9, <1>10

(* No fragment of an index, no arguments.                                  *)
LEMMA ArgumentsInNone ==
    ASSUME NEW r \in Seq(Fragments), NEW index, index \notin IndexesIn(r)
    PROVE  ArgumentsIn(r, index) = << >>
<1>1. PICK m : m = [n \in DOMAIN r |-> IF r[n].index = index THEN r[n].arguments ELSE << >>]
  OBVIOUS
<1>2. \A n \in DOMAIN r : r[n].index # index
  BY DEF IndexesIn
<1>3. m = [n \in DOMAIN r |-> << >>]
  BY <1>1, <1>2
<1>4. PICK N \in Nat : N = Len(r) /\ DOMAIN r = 1 .. N
  BY LenProperties
<1>5. m \in Seq(Seq(Nat)) /\ Len(m) = N /\ \A n \in 1 .. N : m[n] = << >>
  BY <1>3, <1>4
<1>6. PICK g : g = [n \in 0 .. N |-> << >>]
  OBVIOUS
<1>7. g \in [0 .. Len(m) -> Seq(Nat)] /\ Joins(g, m)
  <2>1. << >> \in Seq(Nat) /\ << >> \o << >> = << >>
    BY EmptySeq
  <2>2. \A n \in 1 .. N : n \in 0 .. N /\ n - 1 \in 0 .. N
    OBVIOUS
  <2>3. g \in [0 .. N -> Seq(Nat)] /\ g[0] = << >> /\ \A n \in 0 .. N : g[n] = << >>
    BY <1>6, <2>1
  <2> QED BY <1>5, <2>1, <2>2, <2>3 DEF Joins
<1>8. FlattenSeq(m) = g[N]
  BY <1>5, <1>7, FlattenIs
<1> QED
  BY <1>1, <1>6, <1>8 DEF ArgumentsIn

-----------------------------------------------------------------------------
(* Events of one type, and events that do not come of the answer.          *)
AllOf(es, type) == \A i \in DOMAIN es : es[i].type = type

LEMMA SpokenInAll ==
    ASSUME NEW es \in Seq(Events), NEW type, AllOf(es, type)
    PROVE  SpokenIn(es, type) = [i \in DOMAIN es |-> es[i].value]
<1>1. PICK N \in Nat : N = Len(es) /\ DOMAIN es = 1 .. N
  BY LenProperties
<1>2. PICK m : m = [i \in 1 .. N |-> << es[i].value >>]
  OBVIOUS
<1>3. [i \in DOMAIN es |-> IF es[i].type = type THEN << es[i].value >> ELSE << >>] = m
  BY <1>1, <1>2 DEF AllOf
<1>4. \A i \in 1 .. N : es[i].value \in EventValues
  BY <1>1, ElementOfSeq DEF Events
<1>5. /\ m \in Seq(Seq(EventValues)) /\ Len(m) = N
      /\ \A i \in 1 .. N : m[i] = << es[i].value >>
  <2>1. \A i \in 1 .. N : << es[i].value >> \in Seq(EventValues)
    BY <1>4, OneType
  <2> QED BY <1>2, <2>1
<1>6. PICK x \in Seq(EventValues) : x = [i \in 1 .. N |-> es[i].value]
  <2>1. PICK f \in [1 .. N -> EventValues] : f = [i \in 1 .. N |-> es[i].value]
    BY <1>4
  <2>2. f \in Seq(EventValues)
    OBVIOUS
  <2> QED BY <2>1, <2>2
<1>7. Len(x) = N /\ DOMAIN x = 1 .. N /\ \A i \in 1 .. N : x[i] = es[i].value
  BY <1>6
<1>8. PICK g : g = [n \in 0 .. N |-> SubSeq(x, 1, n)]
  OBVIOUS
<1>9. g \in [0 .. N -> Seq(EventValues)] /\ g[0] = << >> /\ g[N] = x
  <2>1. \A n \in 0 .. N : SubSeq(x, 1, n) \in Seq(EventValues)
    BY <1>7
  <2>2. SubSeq(x, 1, 0) = << >> /\ SubSeq(x, 1, N) = x
    BY <1>7
  <2> QED BY <1>8, <2>1, <2>2
<1>10. ASSUME NEW n \in 1 .. N PROVE g[n] = g[n - 1] \o m[n]
  <2>1. n \in 0 .. N /\ n - 1 \in 0 .. N
    OBVIOUS
  <2>2. g[n] = Start(x, n) /\ g[n - 1] = Start(x, n - 1)
    BY <1>8, <2>1 DEF Start
  <2>3. n \in 1 .. Len(x)
    BY <1>7
  <2>4. Start(x, n) = Start(x, n - 1) \o << x[n] >>
    BY <2>3, StartGrows
  <2> QED BY <1>5, <1>7, <2>2, <2>4
<1>11. Joins(g, m)
  BY <1>5, <1>9, <1>10 DEF Joins
<1>12. FlattenSeq(m) = g[N]
  BY <1>5, <1>9, <1>11, FlattenIs
<1> QED
  BY <1>1, <1>3, <1>6, <1>9, <1>12 DEF SpokenIn

Besides(fs) == \A i \in DOMAIN fs : fs[i].type \notin Spoken

LEMMA BesidesSpoken ==
    ASSUME NEW es \in Seq(Events), NEW fs \in Seq(Events), Besides(fs), NEW type \in Spoken
    PROVE  SpokenIn(es \o fs, type) = SpokenIn(es, type)
<1>1. PICK x \in Seq(EventValues) : x = SpokenIn(es, type)
  BY SpokenInType
<1>2. \A i \in DOMAIN fs : fs[i].type # type
  BY DEF Besides
<1>3. SpokenIn(fs, type) = << >>
  BY <1>2, SpokenInNot
<1>4. SpokenIn(es \o fs, type) = SpokenIn(es, type) \o SpokenIn(fs, type)
  BY SpokenInConcat
<1>5. x \o << >> = x
  OBVIOUS
<1> QED
  BY <1>1, <1>3, <1>4, <1>5

LEMMA VoicedBesides ==
    ASSUME NEW q, NEW es, NEW b, NEW w, NEW d, NEW v, Voiced(q, es, b, w, d, v),
           NEW fs \in Seq(Events), Besides(fs)
    PROVE  Voiced(q, es \o fs, b, w, d, v)
<1>1. es \in Seq(Events) /\ es \o fs \in Seq(Events)
  BY ConcatType DEF Voiced, VoicedType
<1>2. PICK gs : gs = es \o fs
  OBVIOUS
<1>3. \A type \in Spoken : SpokenIn(gs, type) = SpokenIn(es, type)
  BY <1>1, <1>2, BesidesSpoken
<1>4. /\ SpokenIn(gs, "text") = SpokenIn(es, "text")
      /\ SpokenIn(gs, "tool_call") = SpokenIn(es, "tool_call")
      /\ SpokenIn(gs, "metadata") = SpokenIn(es, "metadata")
      /\ SpokenIn(gs, "ambiguous") = SpokenIn(es, "ambiguous")
  BY <1>3 DEF Spoken
<1>5. VoicedType(q, gs, b, w, d, v)
  BY <1>1, <1>2 DEF Voiced, VoicedType
<1>6. Modest(gs) => Modest(es)
  BY <1>1, <1>2, ModestConcat
<1>7. VoicedWraps(q, gs)
  <2>1. VoicedWraps(q, es)
    BY DEF Voiced
  <2>2. \A kind \in {"metadata", "ambiguous"} : SpokenIn(gs, kind) = SpokenIn(es, kind)
    BY <1>4
  <2> QED BY <1>6, <2>1, <2>2 DEF VoicedWraps
<1>8. VoicedPlain(q, es, b, w, d, v) => VoicedPlain(q, gs, b, w, d, v)
  BY <1>4 DEF VoicedPlain
<1>9. VoicedTools(q, es, b, w, d, v) => VoicedTools(q, gs, b, w, d, v)
  BY <1>4 DEF VoicedTools
<1> QED
  BY <1>2, <1>5, <1>7, <1>8, <1>9 DEF Voiced

(* The event of a frame that is not of the answer.                         *)
LEMMA EventType ==
    ASSUME NEW type \in OwnEvents \union Others, NEW value \in EventValues,
           type \in Spoken \union {"reasoning"} => value \in Seq(Position),
           type = "native_call" => value \in Calls
    PROVE  /\ Event(type, value) \in Events
           /\ Event(type, value).type = type /\ Event(type, value).value = value
  BY DEF Event, Events

LEMMA BesidesOne ==
    ASSUME NEW e \in Events, e.type \notin Spoken, NEW es \in Seq(Events)
    PROVE  /\ Append(es, e) = es \o << e >> /\ << e >> \in Seq(Events) /\ Besides(<< e >>)
           /\ Append(es, e) \in Seq(Events)
<1>1. << e >> \in Seq(Events)
  BY OneType
<1>2. DOMAIN << e >> = {1} /\ << e >>[1] = e
  OBVIOUS
<1>3. Append(es, e) = es \o << e >>
  BY AppendIs
<1>4. es \o << e >> \in Seq(Events)
  BY <1>1, ConcatType
<1> QED
  BY <1>1, <1>2, <1>3, <1>4 DEF Besides

LEMMA OwnAndOther ==
    /\ \A type \in Others : type \notin OwnEvents
    /\ Spoken \subseteq OwnEvents /\ "reasoning" \in OwnEvents /\ "native_call" \in OwnEvents
    /\ "done" \in OwnEvents /\ "reasoning" \notin Spoken /\ "native_call" \notin Spoken
    /\ "done" \notin Spoken
  BY ResponsesAssumption DEF OwnEvents, Spoken

-----------------------------------------------------------------------------
(* The indexes of the fragments, and the calls made of them.               *)
LEMMA IndexesInType ==
    ASSUME NEW r \in Seq(Fragments)
    PROVE  /\ IndexesIn(r) \in SUBSET Nat /\ NamedIn(r) \subseteq IndexesIn(r)
           /\ IsFiniteSet(NamedIn(r))
<1>1. PICK N \in Nat : N = Len(r) /\ DOMAIN r = 1 .. N
  BY LenProperties
<1>2. \A n \in 1 .. N : r[n].index \in Nat
  <2>1. \A f \in Fragments : f.index \in Nat
    BY DEF Fragments
  <2>2. \A n \in 1 .. N : r[n] \in Fragments
    BY <1>1, ElementOfSeq
  <2> QED BY <2>1, <2>2
<1>3. IndexesIn(r) \in SUBSET Nat
  BY <1>1, <1>2 DEF IndexesIn
<1>4. NamedIn(r) \subseteq IndexesIn(r)
  BY DEF IndexesIn, NamedIn
<1>5. IsFiniteSet(IndexesIn(r))
  <2>1. IsFiniteSet(1 .. N)
    BY FS_Interval
  <2>2. PICK g : g = [n \in 1 .. N |-> r[n].index]
    OBVIOUS
  <2>3. g \in Surjection(1 .. N, IndexesIn(r))
    BY <1>1, <2>2 DEF Surjection, IndexesIn
  <2> QED BY <2>1, <2>3, FS_Surjection
<1> QED
  BY <1>3, <1>4, <1>5, FS_Subset

LEMMA IndexesGrow ==
    ASSUME NEW r \in Seq(Fragments), NEW f \in Fragments
    PROVE  /\ IndexesIn(Append(r, f)) = IndexesIn(r) \union {f.index}
           /\ NamedIn(Append(r, f))
                = NamedIn(r) \union (IF f.name # "" THEN {f.index} ELSE {})
<1>1. PICK s, N : s = Append(r, f) /\ N = Len(r)
  OBVIOUS
<1>2. /\ N \in Nat /\ DOMAIN r = 1 .. N /\ DOMAIN s = 1 .. N + 1
      /\ \A n \in 1 .. N : s[n] = r[n]
      /\ s[N + 1] = f
  BY <1>1
<1>3. IndexesIn(s) = IndexesIn(r) \union {f.index}
  <2>1. \A n \in 1 .. N : n \in 1 .. N + 1
    BY <1>2
  <2>2. \A n \in 1 .. N + 1 : n \in 1 .. N \/ n = N + 1
    BY <1>2
  <2>3. N + 1 \in 1 .. N + 1
    BY <1>2
  <2> QED BY <1>2, <2>1, <2>2, <2>3 DEF IndexesIn
<1>4. NamedIn(s) = NamedIn(r) \union (IF f.name # "" THEN {f.index} ELSE {})
  <2>1. \A n \in 1 .. N : n \in 1 .. N + 1
    BY <1>2
  <2>2. \A n \in 1 .. N + 1 : n \in 1 .. N \/ n = N + 1
    BY <1>2
  <2>3. N + 1 \in 1 .. N + 1
    BY <1>2
  <2> QED BY <1>2, <2>1, <2>2, <2>3 DEF NamedIn
<1> QED
  BY <1>1, <1>3, <1>4

(* c holds a call for each index of the fragments r, with the arguments    *)
(* that came for it, and with a name if one came.                          *)
Reassembled(c, r) ==
    /\ c \in [IndexesIn(r) -> Calls]
    /\ \A i \in IndexesIn(r) : /\ c[i].arguments = ArgumentsIn(r, i)
                               /\ c[i].name # "" <=> i \in NamedIn(r)

LEMMA ReassembledNot == Reassembled(<< >>, << >>)
<1>1. IndexesIn(<< >>) = {}
  BY DEF IndexesIn
<1>2. << >> \in [{} -> Calls]
  OBVIOUS
<1> QED
  BY <1>1, <1>2 DEF Reassembled

LEMMA PushIs ==
    ASSUME NEW r \in Seq(Fragments), NEW f \in Fragments, Reassembled(calls, r)
    PROVE  Reassembled(Push(f), Append(r, f))
<1>1. PICK s, D : s = Append(r, f) /\ D = IndexesIn(r)
  OBVIOUS
<1>2. IndexesIn(s) = D \union {f.index} /\ D \in SUBSET Nat
  BY <1>1, IndexesGrow, IndexesInType
<1>3. f.index \in Nat /\ f.id \in Nat /\ f.name \in STRING /\ f.arguments \in Seq(Nat)
  BY DEF Fragments
<1>4. /\ DOMAIN calls = D /\ \A i \in D : calls[i] \in Calls
      /\ \A i \in D : /\ calls[i].arguments = ArgumentsIn(r, i)
                      /\ calls[i].name # "" <=> i \in NamedIn(r)
  BY <1>1 DEF Reassembled
<1>5. PICK begun : begun = IF f.index \in D THEN calls[f.index]
                           ELSE [id |-> IF f.id # 0 THEN f.id ELSE NewId(f.index),
                                 name |-> "", arguments |-> << >>]
  OBVIOUS
<1>6. /\ begun \in Calls
      /\ begun.arguments = ArgumentsIn(r, f.index)
      /\ begun.name # "" <=> f.index \in NamedIn(r)
  <2>1. CASE f.index \in D
    BY <1>4, <1>5, <2>1
  <2>2. CASE f.index \notin D
    <3>1. NewId(f.index) \in Nat
      BY <1>3 DEF NewId
    <3>2. << >> \in Seq(Nat)
      OBVIOUS
    <3>3. begun \in Calls /\ begun.name = "" /\ begun.arguments = << >>
      <4>1. PICK a \in Nat, z \in Seq(Nat) :
               a = (IF f.id # 0 THEN f.id ELSE NewId(f.index)) /\ z = << >>
        BY <1>3, <3>1, <3>2
      <4>2. begun = [id |-> a, name |-> "", arguments |-> z]
        BY <1>5, <2>2, <4>1
      <4>3. [id |-> a, name |-> "", arguments |-> z] \in Calls
        BY DEF Calls
      <4>4. begun.name = "" /\ begun.arguments = z
        BY <4>2
      <4> QED BY <4>1, <4>2, <4>3, <4>4
    <3>4. f.index \notin NamedIn(r)
      BY <1>1, <2>2, IndexesInType
    <3>5. ArgumentsIn(r, f.index) = << >>
      BY <1>1, <2>2, ArgumentsInNone
    <3> QED BY <3>3, <3>4, <3>5
  <2> QED BY <2>1, <2>2
<1>7. PICK call : call = [id        |-> IF f.id # 0 THEN f.id ELSE begun.id,
                          name      |-> IF f.name # "" THEN f.name ELSE begun.name,
                          arguments |-> begun.arguments \o f.arguments]
  OBVIOUS
<1>8. call \in Calls /\ call.arguments = begun.arguments \o f.arguments
      /\ call.name = IF f.name # "" THEN f.name ELSE begun.name
  <2>1. begun.id \in Nat /\ begun.name \in STRING \union {""} /\ begun.arguments \in Seq(Nat)
    BY <1>6 DEF Calls
  <2>2. begun.arguments \o f.arguments \in Seq(Nat)
    BY <1>3, <2>1, ConcatType
  <2> QED BY <1>3, <1>7, <2>1, <2>2 DEF Calls
<1>9. Push(f) = [i \in D \union {f.index} |-> IF i # f.index THEN calls[i] ELSE call]
  BY <1>4, <1>5, <1>7 DEF Push
<1>10. Push(f) \in [IndexesIn(s) -> Calls]
  BY <1>2, <1>4, <1>8, <1>9
<1>11. ASSUME NEW i \in D \union {f.index}
       PROVE  /\ Push(f)[i].arguments = ArgumentsIn(s, i)
              /\ Push(f)[i].name # "" <=> i \in NamedIn(s)
  <2>1. NamedIn(s) = NamedIn(r) \union (IF f.name # "" THEN {f.index} ELSE {})
    BY <1>1, IndexesGrow
  <2>2. ArgumentsIn(s, i) = IF f.index = i THEN ArgumentsIn(r, i) \o f.arguments
                            ELSE ArgumentsIn(r, i)
    BY <1>1, ArgumentsInGrow
  <2>3. CASE i = f.index
    <3>1. Push(f)[i] = call
      BY <1>9, <2>3
    <3>2. Push(f)[i].arguments = ArgumentsIn(s, i)
      BY <1>6, <1>8, <2>2, <2>3, <3>1
    <3>3. call.name # "" <=> i \in NamedIn(s)
      BY <1>6, <1>8, <2>1, <2>3
    <3> QED BY <3>1, <3>2, <3>3
  <2>4. CASE i # f.index
    <3>1. i \in D /\ Push(f)[i] = calls[i]
      BY <1>9, <2>4
    <3> QED BY <1>4, <2>1, <2>2, <2>4, <3>1
  <2> QED BY <2>3, <2>4
<1> QED
  BY <1>1, <1>2, <1>10, <1>11 DEF Reassembled

(* _ToolAccumulator.finalize: the calls that have a name.                  *)
Gathered(fs, r) ==
    LET n == Cardinality(NamedIn(r)) IN
    /\ fs \in Seq(Events) /\ Len(fs) = n /\ AllOf(fs, "native_call")
    /\ \A k \in 1 .. n : fs[k].value.arguments = ArgumentsIn(r, InOrder(NamedIn(r))[k])

LEMMA FinalCallsAre ==
    ASSUME NEW r \in Seq(Fragments), Reassembled(calls, r)
    PROVE  Gathered(FinalCalls, r)
<1>1. PICK named, n, order : /\ named = NamedIn(r) /\ n = Cardinality(named)
                             /\ order = InOrder(named)
  OBVIOUS
<1>2. /\ named \in SUBSET Nat /\ IsFiniteSet(named) /\ named \subseteq IndexesIn(r)
  BY <1>1, IndexesInType
<1>3. n \in Nat /\ Rising(named, n, order)
  BY <1>1, <1>2, InOrderIs
<1>4. order \in [1 .. n -> named] /\ DOMAIN order = 1 .. n
  BY <1>3 DEF Rising
<1>5. {i \in DOMAIN calls : calls[i].name # ""} = named
  BY <1>1, <1>2 DEF Reassembled
<1>6. FinalCalls = [k \in 1 .. n |-> Event("native_call", calls[order[k]])]
  BY <1>1, <1>4, <1>5 DEF FinalCalls
<1>7. ASSUME NEW k \in 1 .. n
      PROVE  /\ Event("native_call", calls[order[k]]) \in Events
             /\ Event("native_call", calls[order[k]]).type = "native_call"
             /\ Event("native_call", calls[order[k]]).value = calls[order[k]]
             /\ calls[order[k]].arguments = ArgumentsIn(r, order[k])
  <2>1. PICK i, c : i = order[k] /\ c = calls[i]
    OBVIOUS
  <2>2. i \in IndexesIn(r)
    BY <1>2, <1>4, <2>1
  <2>3. c \in Calls /\ c.arguments = ArgumentsIn(r, i)
    BY <2>1, <2>2 DEF Reassembled
  <2>4. Event("native_call", c) \in Events /\ Event("native_call", c).type = "native_call"
        /\ Event("native_call", c).value = c
    <3>1. "native_call" \in OwnEvents \union Others /\ c \in EventValues
          /\ "native_call" \notin Spoken \union {"reasoning"}
      BY <2>3, OwnAndOther DEF EventValues
    <3> QED BY <2>3, <3>1, EventType
  <2> QED BY <2>1, <2>3, <2>4
<1>8. PICK fs : fs = FinalCalls
  OBVIOUS
<1>9. fs \in [1 .. n -> Events] /\ \A k \in 1 .. n : fs[k] = Event("native_call", calls[order[k]])
  BY <1>6, <1>7, <1>8
<1>10. fs \in Seq(Events) /\ Len(fs) = n /\ DOMAIN fs = 1 .. n
  BY <1>3, <1>9
<1>11. AllOf(fs, "native_call")
  BY <1>7, <1>9, <1>10 DEF AllOf
<1>12. \A k \in 1 .. n : fs[k].value.arguments = ArgumentsIn(r, order[k])
  BY <1>7, <1>9
<1> QED
  BY <1>1, <1>8, <1>10, <1>11, <1>12 DEF Gathered

-----------------------------------------------------------------------------
(* The inductive invariant.                                                *)
ParserTypeOK ==
    /\ response \in ResponseType /\ text = response.answer
    /\ sent \in Nat /\ sent <= Len(text)
    /\ received \in Seq(Fragments) /\ thoughts \in Nat /\ sawCall \in BOOLEAN
    /\ phase \in {"open", "closed", "refused"} /\ out \in Seq(Events)

(* The segments Q of the answer up to k are told by the events es, and     *)
(* what both parsers hold back is no more than they must.                  *)
AnswerSoFar(o, e, k, w, Q, es, d, v) ==
    Told(k, Q, o, e, w) /\ Voiced(Q, es, << >>, FALSE, d, v) /\ ToolRested(d, v)

HeldAs(o, e, k, w, d, v) ==
    sent = k /\ splitter = SplitterAt(o, e, k, w) /\ tools = [buffer |-> d, inside |-> v]

AnswerInv ==
    \E o, e, k, w, Q, es, d, v :
        /\ AnswerSoFar(o, e, k, w, Q, es, d, v) /\ HeldAs(o, e, k, w, d, v)
        /\ phase # "closed" => out = es

CallsInv == Reassembled(calls, received)

ParserInv == ParserTypeOK /\ AnswerInv /\ CallsInv

LEMMA TypesOf ==
    ASSUME ParserTypeOK
    PROVE  /\ TextOK /\ response.tools \in BOOLEAN /\ Len(text) \in Nat
           /\ response.thoughts \in Nat
<1>1. response.answer \in Seq(Pieces) /\ response.tools \in BOOLEAN /\ response.thoughts \in Nat
  BY DEF ParserTypeOK, ResponseType
<1>2. TextOK
  BY <1>1 DEF ParserTypeOK, TextOK
<1> QED
  BY <1>1, <1>2, TextLength

LEMMA AnswerSoFarKept ==
    ASSUME Kept, NEW o, NEW e, NEW k, NEW w, NEW Q, NEW es, NEW d, NEW v,
           AnswerSoFar(o, e, k, w, Q, es, d, v)
    PROVE  AnswerSoFar(o, e, k, w, Q, es, d, v)'
<1>1. Told(k, Q, o, e, w)'
  BY ToldKept DEF AnswerSoFar
<1>2. PICK b, n : b = << >> /\ n = FALSE
  OBVIOUS
<1>3. Voiced(Q, es, b, n, d, v)'
  BY <1>2, VoicedKept DEF AnswerSoFar
<1>4. ToolRested(d, v)'
  BY ToolRestedKept DEF AnswerSoFar
<1> QED
  BY <1>1, <1>2, <1>3, <1>4 DEF AnswerSoFar

(* The parsers of a new response.                                          *)
LEMMA AnswerBegins ==
    ASSUME TextOK
    PROVE  AnswerSoFar(0, 0, 0, FALSE, << >>, << >>, << >>, FALSE)
<1>1. Told(0, << >>, 0, 0, FALSE)
  BY ToldBegins
<1>2. PICK b \in Seq(Position) : b = << >>
  BY EmptySeq
<1>3. Voiced(<< >>, << >>, b, FALSE, b, FALSE)
  BY VoicedNot
<1>4. ToolRested(b, FALSE)
  BY <1>2 DEF ToolRested
<1> QED
  BY <1>1, <1>2, <1>3, <1>4 DEF AnswerSoFar

(* What one emission adds.                                                 *)
Emitted(Q, es, x, fs, c, t) ==
    /\ Voiced(Q \o x, es \o fs, << >>, FALSE, c, t) /\ ToolRested(c, t)
    /\ fs \in Seq(Events) /\ OfAnswer(fs)
    /\ Emit(x) = ParserAt(c, t, fs)

LEMMA AnswerGoesOn ==
    ASSUME NEW o, NEW e, NEW k, NEW w, NEW Q, NEW es, NEW d, NEW v,
           AnswerSoFar(o, e, k, w, Q, es, d, v), HeldAs(o, e, k, w, d, v),
           NEW x \in Seq(Segs), response.tools \in BOOLEAN
    PROVE  \E fs, c, t : Emitted(Q, es, x, fs, c, t)
<1>1. /\ Voiced(Q, es, << >>, FALSE, d, v) /\ ToolRested(d, v)
      /\ tools = [buffer |-> d, inside |-> v]
  BY DEF AnswerSoFar, HeldAs
<1>2. d \in Seq(Position) /\ v \in BOOLEAN /\ tools.buffer = d /\ tools.inside = v
  BY <1>1 DEF Voiced, VoicedType
<1>3. PICK fs, c, t : /\ Voiced(x, fs, tools.buffer, tools.inside, c, t) /\ OfAnswer(fs)
                      /\ Emit(x) = ParserAt(c, t, fs)
  BY <1>2, EmitIs
<1>4. Voiced(x, fs, d, v, c, t)
  BY <1>2, <1>3
<1>5. PICK b, n : b = << >> /\ n = FALSE
  OBVIOUS
<1>6. Voiced(Q, es, b, n, d, v)
  BY <1>1, <1>5
<1>7. Voiced(Q \o x, es \o fs, b, n, c, t)
  BY <1>4, <1>6, VoicedThen
<1>8. ToolRested(c, t)
  <2>1. CASE response.tools
    BY <1>1, <1>4, <2>1 DEF Voiced, VoicedTools
  <2>2. CASE ~response.tools
    BY <1>1, <1>4, <2>2 DEF Voiced, VoicedPlain
  <2> QED BY <2>1, <2>2
<1>9. fs \in Seq(Events)
  BY <1>4 DEF Voiced, VoicedType
<1> QED
  BY <1>3, <1>5, <1>7, <1>8, <1>9 DEF Emitted

(* A frame with more of the answer.                                        *)
AddsOfAnswer(es) ==
    /\ es \in Seq(Events) /\ OfAnswer(es) /\ out' = out \o es
    /\ sawCall' = (sawCall \/ HasCall(es))

LEMMA AnswerFrameTells ==
    ASSUME ParserTypeOK, AnswerInv, NEW k \in (sent + 1) .. Len(text), AnswerFrame(k)
    PROVE  AnswerInv' /\ \E es : AddsOfAnswer(es)
<1>1. PICK o, e, j, w, Q, es, d, v :
         /\ AnswerSoFar(o, e, j, w, Q, es, d, v) /\ HeldAs(o, e, j, w, d, v)
         /\ phase # "closed" => out = es
  BY DEF AnswerInv
<1>2. TextOK /\ Len(text) \in Nat /\ response.tools \in BOOLEAN
  BY TypesOf
<1>3. /\ sent = j /\ splitter = SplitterAt(o, e, j, w) /\ out = es
      /\ tools = [buffer |-> d, inside |-> v]
  BY <1>1 DEF AnswerFrame, HeldAs
<1>4. j \in Nat /\ k \in Nat /\ j <= k /\ k <= Len(text)
  BY <1>2, <1>3 DEF ParserTypeOK
<1>5. SubSeq(Whole, sent + 1, k) = Span(j, k)
  BY <1>2, <1>3, <1>4, WholePart DEF Part
<1>6. MayCut(k) /\ Told(j, Q, o, e, w)
  BY <1>1 DEF AnswerFrame, AnswerSoFar
<1>7. PICK p, f, u, x : /\ Told(k, Q \o x, p, f, u) /\ x \in Seq(Segs)
                        /\ Fed(SplitterAt(o, e, j, w), Span(j, k)) = SplitAt(p, f, k, u, x)
  BY <1>4, <1>6, FedIs
<1>8. PICK fed : fed = Fed(splitter, SubSeq(Whole, sent + 1, k))
  OBVIOUS
<1>9. fed = SplitAt(p, f, k, u, x)
  BY <1>3, <1>5, <1>7, <1>8
<1>10. fed.out = x /\ Splitting(fed) = SplitterAt(p, f, k, u)
  BY <1>9 DEF SplitAt, Splitting, SplitterAt
<1>11. PICK fs, c, t : Emitted(Q, es, x, fs, c, t)
  BY <1>1, <1>2, <1>7, AnswerGoesOn
<1>12. PICK now : now = Emit(fed.out)
  OBVIOUS
<1>13. now.buffer = c /\ now.inside = t /\ now.events = fs
  BY <1>10, <1>11, <1>12 DEF ParserAt, Emitted
<1>14. /\ sent' = k /\ splitter' = Splitting(fed)
       /\ tools' = [buffer |-> now.buffer, inside |-> now.inside]
       /\ out' = out \o now.events /\ sawCall' = (sawCall \/ HasCall(now.events))
       /\ Kept /\ phase' = phase
  BY <1>8, <1>12 DEF AnswerFrame, Kept
<1>15. PICK P, gs : P = Q \o x /\ gs = es \o fs
  OBVIOUS
<1>16. AnswerSoFar(p, f, k, u, P, gs, c, t)
  BY <1>7, <1>11, <1>15 DEF AnswerSoFar, Emitted
<1>17. AnswerSoFar(p, f, k, u, P, gs, c, t)'
  BY <1>14, <1>16, AnswerSoFarKept
<1>18. HeldAs(p, f, k, u, c, t)'
  BY <1>10, <1>13, <1>14 DEF HeldAs
<1>19. out' = gs
  BY <1>3, <1>13, <1>14, <1>15
<1>20. AnswerInv'
  BY <1>17, <1>18, <1>19 DEF AnswerInv
<1>21. AddsOfAnswer(fs)
  BY <1>11, <1>13, <1>14 DEF AddsOfAnswer, Emitted
<1> QED
  BY <1>20, <1>21

(* A step that leaves the answer alone.                                    *)
LEMMA AnswerInvBesides ==
    ASSUME AnswerInv, Kept, sent' = sent, splitter' = splitter, tools' = tools,
           NEW gs \in Seq(Events), Besides(gs),
           phase' # "closed" => phase # "closed" /\ out' = out \o gs
    PROVE  AnswerInv'
<1>1. PICK o, e, k, w, Q, es, d, v :
         /\ AnswerSoFar(o, e, k, w, Q, es, d, v) /\ HeldAs(o, e, k, w, d, v)
         /\ phase # "closed" => out = es
  BY DEF AnswerInv
<1>2. PICK b, n : b = << >> /\ n = FALSE
  OBVIOUS
<1>3. Voiced(Q, es, b, n, d, v)
  BY <1>1, <1>2 DEF AnswerSoFar
<1>4. PICK fs : fs = es \o gs
  OBVIOUS
<1>5. Voiced(Q, fs, b, n, d, v)
  BY <1>3, <1>4, VoicedBesides
<1>6. AnswerSoFar(o, e, k, w, Q, fs, d, v)
  BY <1>1, <1>2, <1>5 DEF AnswerSoFar
<1>7. AnswerSoFar(o, e, k, w, Q, fs, d, v)'
  BY <1>6, AnswerSoFarKept
<1>8. HeldAs(o, e, k, w, d, v)'
  BY <1>1 DEF HeldAs
<1>9. phase' # "closed" => out' = fs
  BY <1>1, <1>4
<1> QED
  BY <1>7, <1>8, <1>9 DEF AnswerInv

-----------------------------------------------------------------------------
(* The end of the stream.                                                  *)

(* What the splitter still held back, told by the events fs.               *)
LastWords(k, P, fs, c, t) ==
    /\ sent = k /\ P \in Seq(Segs) /\ Within(TextOf(P), 0, k)
    /\ response.cuts = "between" /\ NoneGivenUp(P) => Same(P, Segments(Span(0, k)))
    /\ Voiced(P, out \o fs, << >>, FALSE, c, t) /\ ToolRested(c, t)
    /\ fs \in Seq(Events) /\ OfAnswer(fs)
    /\ Emit(Flushed(splitter)) = ParserAt(c, t, fs)

LEMMA FlushEmits ==
    ASSUME ParserTypeOK, AnswerInv, phase # "closed"
    PROVE  \E k, P, fs, c, t : LastWords(k, P, fs, c, t)
<1>1. PICK o, e, k, w, Q, es, d, v :
         /\ AnswerSoFar(o, e, k, w, Q, es, d, v) /\ HeldAs(o, e, k, w, d, v)
         /\ phase # "closed" => out = es
  BY DEF AnswerInv
<1>2. response.tools \in BOOLEAN
  BY TypesOf
<1>3. PICK r : r = Flushed(SplitterAt(o, e, k, w))
  OBVIOUS
<1>4. Told(k, Q, o, e, w)
  BY <1>1 DEF AnswerSoFar
<1>5. FlushSays(k, Q, r)
  BY <1>3, <1>4, FlushedIs
<1>6. r \in Seq(Segs)
  BY <1>5 DEF FlushSays
<1>7. PICK fs, c, t : Emitted(Q, es, r, fs, c, t)
  BY <1>1, <1>2, <1>6, AnswerGoesOn
<1>8. PICK P : P = Q \o r
  OBVIOUS
<1>9. Voiced(P, out \o fs, << >>, FALSE, c, t) /\ ToolRested(c, t)
  BY <1>1, <1>7, <1>8 DEF Emitted
<1>10. P \in Seq(Segs)
  BY <1>9 DEF Voiced, VoicedType
<1>11. Within(TextOf(P), 0, k)
  BY <1>5, <1>8 DEF FlushSays
<1>12. ASSUME response.cuts = "between", NoneGivenUp(P)
       PROVE  Same(P, Segments(Span(0, k)))
  <2>1. Q \in Seq(Segs)
    BY <1>4 DEF Told
  <2>2. NoneGivenUp(Q)
    BY <1>6, <1>8, <1>12, <2>1, NoneGivenUpConcat
  <2> QED BY <1>5, <1>8, <1>12, <2>2 DEF FlushSays
<1>13. sent = k /\ Flushed(splitter) = r
  BY <1>1, <1>3 DEF HeldAs
<1>14. fs \in Seq(Events) /\ OfAnswer(fs) /\ Emit(r) = ParserAt(c, t, fs)
  BY <1>7 DEF Emitted
<1> QED
  BY <1>9, <1>10, <1>11, <1>12, <1>13, <1>14 DEF LastWords

(* Why the turn ended.                                                     *)
EndReason(events) ==
    LET reason == NormalizedReason(finish, sawCall \/ HasCall(events))
    IN IF reason # "none" THEN reason ELSE "stop"

LEMMA EndReasonType ==
    ASSUME NEW events
    PROVE  EndReason(events) \in EndReasons
  BY DEF EndReason, NormalizedReason, Alias, EndReasons

LEMMA DoneEvent ==
    ASSUME NEW R \in EndReasons, NEW e, e = Event("done", R)
    PROVE  e \in Events /\ e.type = "done" /\ e.value = R
<1>1. "done" \in OwnEvents \union Others /\ "done" \notin Spoken \union {"reasoning"}
      /\ R \in EventValues
  BY OwnAndOther DEF EventValues
<1> QED
  BY <1>1, EventType

(* The events of close: fs and gs of the answer, hs the native calls, and  *)
(* the end.                                                                *)
ClosesWith(k, P, fs, c, t, gs, hs, R) ==
    /\ LastWords(k, P, fs, c, t)
    /\ gs \in Seq(Events) /\ gs = ItemEvents(ToolFlushed(ParserAt(c, t, fs)))
    /\ Gathered(hs, received)
    /\ R \in EndReasons /\ R = EndReason((fs \o gs) \o hs)
    /\ Closing = ((fs \o gs) \o hs) \o << Event("done", R) >>

LEMMA ClosingIs ==
    ASSUME ParserInv, phase # "closed"
    PROVE  \E k, P, fs, c, t, gs, hs, R : ClosesWith(k, P, fs, c, t, gs, hs, R)
<1>1. PICK k, P, fs, c, t : LastWords(k, P, fs, c, t)
  BY FlushEmits DEF ParserInv
<1>2. PICK p : p = ParserAt(c, t, fs)
  OBVIOUS
<1>3. PICK items : items = ToolFlushed(p)
  OBVIOUS
<1>4. p.buffer = c /\ p.inside = t /\ p.events = fs
  BY <1>2 DEF ParserAt
<1>5. c \in Seq(Position) /\ t \in BOOLEAN /\ ToolRested(c, t)
  BY <1>1 DEF LastWords, Voiced, VoicedType
<1>6. items \in Seq(Its)
  BY <1>3, <1>4, <1>5, ToolFlushedIs
<1>7. PICK gs, hs : gs = ItemEvents(items) /\ hs = FinalCalls
  OBVIOUS
<1>8. gs \in Seq(Events)
  BY <1>6, <1>7, ItemEventsAre
<1>9. Gathered(hs, received)
  <2>1. received \in Seq(Fragments) /\ Reassembled(calls, received)
    BY DEF ParserInv, ParserTypeOK, CallsInv
  <2> QED BY <1>7, <2>1, FinalCallsAre
<1>10. PICK R : R = EndReason((fs \o gs) \o hs)
  OBVIOUS
<1>11. R \in EndReasons
  BY <1>10, EndReasonType
<1>12. PICK last : last = Emit(Flushed(splitter))
  OBVIOUS
<1>13. last = p
  BY <1>1, <1>2, <1>12 DEF LastWords
<1>14. PICK events : events = (last.events \o ItemEvents(ToolFlushed(last))) \o FinalCalls
  OBVIOUS
<1>15. events = (fs \o gs) \o hs
  BY <1>3, <1>4, <1>7, <1>13, <1>14
<1>16. Closing = events \o << Event("done", EndReason(events)) >>
  BY <1>12, <1>14 DEF Closing, EndReason
<1> QED
  BY <1>1, <1>2, <1>3, <1>7, <1>8, <1>9, <1>10, <1>11, <1>15, <1>16 DEF ClosesWith

(* The whole of the events, part by part.                                  *)
Ending(a, b, ls, l, x, fs, gs, hs, R) ==
    /\ a = out \o fs /\ b = a \o gs /\ ls = hs \o l /\ l = << x >> /\ x = Event("done", R)
    /\ out \o Closing = b \o ls
    /\ a \in Seq(Events) /\ b \in Seq(Events) /\ ls \in Seq(Events) /\ l \in Seq(Events)
    /\ x \in Events /\ x.type = "done" /\ x.value = R /\ Besides(ls)
    /\ Closing \in Seq(Events)

LEMMA EndingIs ==
    ASSUME out \in Seq(Events), NEW k, NEW P, NEW fs, NEW c, NEW t, NEW gs, NEW hs, NEW R,
           ClosesWith(k, P, fs, c, t, gs, hs, R)
    PROVE  \E a, b, ls, l, x : Ending(a, b, ls, l, x, fs, gs, hs, R)
<1>1. /\ fs \in Seq(Events) /\ gs \in Seq(Events) /\ hs \in Seq(Events)
      /\ AllOf(hs, "native_call") /\ R \in EndReasons
  BY DEF ClosesWith, LastWords, Gathered
<1>2. PICK x : x = Event("done", R)
  OBVIOUS
<1>3. x \in Events /\ x.type = "done" /\ x.value = R
  BY <1>2, <1>1, DoneEvent
<1>4. PICK l : l = << x >>
  OBVIOUS
<1>5. l \in Seq(Events) /\ DOMAIN l = {1} /\ l[1] = x
  <2>1. l \in Seq(Events)
    BY <1>3, <1>4, OneType
  <2> QED BY <1>4, <2>1
<1>6. PICK ab, bs : ab = fs \o gs /\ bs = hs \o l
  OBVIOUS
<1>7. ab \in Seq(Events) /\ bs \in Seq(Events)
  BY <1>1, <1>5, <1>6, ConcatType
<1>8. Closing = (ab \o hs) \o l
  BY <1>2, <1>4, <1>6 DEF ClosesWith
<1>9. Three(Events, ab, hs, l) /\ Three(Events, out, ab, bs) /\ Three(Events, out, fs, gs)
  BY <1>1, <1>5, <1>7 DEF Three
<1>10. Assoc(ab, hs, l) /\ Assoc(out, ab, bs) /\ Assoc(out, fs, gs)
  BY <1>9, ConcatAssoc
<1>11. Closing = ab \o bs
  BY <1>6, <1>8, <1>10 DEF Assoc
<1>12. out \o Closing = (out \o ab) \o bs
  BY <1>10, <1>11 DEF Assoc
<1>13. out \o ab = (out \o fs) \o gs
  BY <1>6, <1>10 DEF Assoc
<1>14. Besides(bs)
  <2>1. PICK m, n : m = Len(hs) /\ n = Len(l)
    OBVIOUS
  <2>2. /\ m \in Nat /\ Len(bs) = m + n /\ n = 1
        /\ \A i \in 1 .. m : bs[i] = hs[i]
        /\ \A i \in 1 .. n : bs[m + i] = l[i]
    <3>1. n = 1
      BY <1>4, <2>1
    <3>2. /\ m \in Nat /\ Len(hs \o l) = m + n
          /\ \A i \in 1 .. m : (hs \o l)[i] = hs[i]
          /\ \A i \in 1 .. n : (hs \o l)[m + i] = l[i]
      BY <1>1, <1>5, <2>1, ConcatIs
    <3> QED BY <1>6, <3>1, <3>2
  <2>3. DOMAIN bs = 1 .. m + 1 /\ DOMAIN hs = 1 .. m
    BY <1>1, <1>7, <2>1, <2>2, LenProperties
  <2>4. "native_call" \notin Spoken /\ "done" \notin Spoken
    BY OwnAndOther
  <2>5. ASSUME NEW i \in 1 .. m + 1 PROVE bs[i].type \notin Spoken
    <3>1. CASE i <= m
      <4>1. i \in 1 .. m
        BY <2>2, <3>1
      <4>2. bs[i] = hs[i] /\ hs[i].type = "native_call"
        BY <1>1, <2>2, <2>3, <4>1 DEF AllOf
      <4> QED BY <2>4, <4>2
    <3>2. CASE i = m + 1
      <4>1. 1 \in 1 .. n
        BY <2>2
      <4>2. bs[i] = x
        BY <1>5, <2>2, <3>2, <4>1
      <4> QED BY <1>3, <2>4, <4>2
    <3> QED BY <2>2, <3>1, <3>2
  <2> QED BY <2>3, <2>5 DEF Besides
<1>15. PICK a : a = out \o fs
  OBVIOUS
<1>16. PICK b : b = a \o gs
  OBVIOUS
<1>17. a \in Seq(Events) /\ b \in Seq(Events)
  <2>1. a \in Seq(Events)
    BY <1>1, <1>15, ConcatType
  <2> QED BY <1>1, <1>16, <2>1, ConcatType
<1>18. out \o Closing = b \o bs
  BY <1>12, <1>13, <1>15, <1>16
<1>19. Closing \in Seq(Events)
  BY <1>7, <1>11, ConcatType
<1> QED
  BY <1>2, <1>3, <1>4, <1>5, <1>6, <1>7, <1>14, <1>15, <1>16, <1>17, <1>18, <1>19 DEF Ending

-----------------------------------------------------------------------------
(* The frames that are not of the answer.                                  *)
AddsBesides(gs) == gs \in Seq(Events) /\ Besides(gs) /\ out' = out \o gs

LEMMA FreshIs ==
    ASSUME thoughts \in Nat, NEW n \in Nat
    PROVE  Fresh(n) = IF n > thoughts THEN Span(thoughts, n) ELSE << >>
<1>1. ListOf(n) = Span(0, n)
  BY DEF ListOf, Span
<1>2. PICK m \in Nat : m = thoughts
  OBVIOUS
<1>3. PICK s : s = Span(0, n)
  OBVIOUS
<1>4. s \in Seq(Nat) /\ Len(s) = n
  BY <1>3, SpanIs
<1>5. CASE n > m
  <2>1. 1 <= m + 1 /\ m + 1 <= n + 1 /\ n <= n - 0 /\ m = (0 + (m + 1)) - 1 /\ n = 0 + n
    BY <1>5
  <2>2. Part(Span(0, n), m + 1, n) = Span(m, n)
    BY <2>1, SpanPart
  <2> QED BY <1>1, <1>2, <1>5, <2>2 DEF Fresh, Part
<1>6. CASE ~(n > m)
  <2>1. SubSeq(s, m + 1, n) = << >>
    BY <1>4, <1>6
  <2> QED BY <1>1, <1>2, <1>3, <1>6, <2>1 DEF Fresh
<1> QED
  BY <1>5, <1>6

NewThoughts(n, gs) ==
    \/ ~(n > thoughts) /\ gs = << >>
    \/ n > thoughts /\ gs = << Event("reasoning", Span(thoughts, n)) >>

LEMMA ThoughtEvent ==
    ASSUME NEW m \in Nat, NEW n \in Nat, m <= n, NEW e, e = Event("reasoning", Span(m, n))
    PROVE  e \in Events /\ e.type = "reasoning" /\ e.value = Span(m, n) /\ e.type \notin Spoken
<1>1. Span(m, n) \in Seq(Position)
  BY SpanIs DEF Position
<1>2. Span(m, n) \in EventValues
  BY SpanIs DEF EventValues
<1> QED
  BY <1>1, <1>2, OwnAndOther, EventType

LEMMA NothingAdded ==
    ASSUME out \in Seq(Events), out' = out
    PROVE  AddsBesides(<< >>)
<1>1. PICK gs \in Seq(Events) : gs = << >>
  BY EmptySeq
<1>2. DOMAIN gs = {} /\ out \o gs = out
  BY <1>1
<1> QED
  BY <1>1, <1>2 DEF AddsBesides, Besides

LEMMA ThoughtsFrameTells ==
    ASSUME ParserTypeOK, NEW n \in Nat, ThoughtsFrame(n)
    PROVE  \E gs : AddsBesides(gs) /\ NewThoughts(n, gs)
<1>1. PICK m \in Nat : m = thoughts
  BY DEF ParserTypeOK
<1>2. Fresh(n) = IF n > m THEN Span(m, n) ELSE << >>
  BY <1>1, FreshIs
<1>3. out \in Seq(Events)
  BY DEF ParserTypeOK
<1>4. CASE ~(n > m)
  <2>1. out' = out
    BY <1>2, <1>4 DEF ThoughtsFrame
  <2>2. AddsBesides(<< >>)
    BY <1>3, <2>1, NothingAdded
  <2> QED BY <1>1, <1>4, <2>2 DEF NewThoughts
<1>5. CASE n > m
  <2>1. PICK e : e = Event("reasoning", Span(m, n))
    OBVIOUS
  <2>2. e \in Events /\ e.type \notin Spoken
    BY <1>5, <2>1, ThoughtEvent
  <2>3. Span(m, n) # << >>
    BY <1>5, SpanNotEmpty
  <2>4. out' = Append(out, e)
    BY <1>2, <1>5, <2>1, <2>3 DEF ThoughtsFrame
  <2>5. AddsBesides(<< e >>)
    BY <1>3, <2>2, <2>4, BesidesOne DEF AddsBesides
  <2> QED BY <1>1, <1>5, <2>1, <2>5 DEF NewThoughts
<1> QED
  BY <1>4, <1>5

LEMMA OtherEvent ==
    ASSUME NEW type \in Others, NEW e, e = Event(type, << >>)
    PROVE  e \in Events /\ e.type = type /\ e.type \notin OwnEvents /\ e.type \notin Spoken
<1>1. type \notin OwnEvents
  BY OwnAndOther
<1>2. type \notin Spoken \union {"reasoning"} /\ type # "native_call"
  BY <1>1, OwnAndOther
<1>3. << >> \in EventValues
  BY EmptySeq DEF EventValues
<1> QED
  BY <1>1, <1>2, <1>3, EventType

LEMMA OtherFrameTells ==
    ASSUME ParserTypeOK, NEW type \in Others, OtherFrame(type)
    PROVE  AddsBesides(<< Event(type, << >>) >>)
<1>1. PICK e : e = Event(type, << >>)
  OBVIOUS
<1>2. e \in Events /\ e.type \notin Spoken
  BY <1>1, OtherEvent
<1>3. out' = Append(out, e) /\ out \in Seq(Events)
  BY <1>1 DEF OtherFrame, ParserTypeOK
<1> QED
  BY <1>1, <1>2, <1>3, BesidesOne DEF AddsBesides

-----------------------------------------------------------------------------
(* The invariant holds at the start and is kept by every step.             *)
LEMMA ParserInitOK == Init => ParserInv
<1> SUFFICES ASSUME Init PROVE ParserInv
  OBVIOUS
<1>1. response \in ResponseType
  BY ResponsesAssumption DEF Init
<1>2. response.answer \in Seq(Pieces)
  BY <1>1 DEF ResponseType
<1>3. text \in Seq(Pieces)
  BY <1>2 DEF Init
<1>4. TextOK /\ Len(text) \in Nat
  BY <1>3, TextLength DEF TextOK
<1>5. ParserTypeOK
  <2>1. << >> \in Seq(Fragments) /\ << >> \in Seq(Events)
    BY EmptySeq
  <2>2. /\ text = response.answer /\ sent = 0 /\ received = << >> /\ thoughts = 0
        /\ sawCall = FALSE /\ phase = "open" /\ out = << >>
    BY DEF Init
  <2>3. sent \in Nat /\ sent <= Len(text) /\ thoughts \in Nat
    BY <1>4, <2>2
  <2>4. sawCall \in BOOLEAN /\ phase \in {"open", "closed", "refused"}
    BY <2>2
  <2>5. received \in Seq(Fragments) /\ out \in Seq(Events)
    BY <2>1, <2>2
  <2> QED BY <1>1, <2>2, <2>3, <2>4, <2>5 DEF ParserTypeOK
<1>6. AnswerInv
  <2>1. AnswerSoFar(0, 0, 0, FALSE, << >>, << >>, << >>, FALSE)
    BY <1>4, AnswerBegins
  <2>2. SplitterAt(0, 0, 0, FALSE) = NewSplitter
    BY SpanEmpty DEF SplitterAt, NewSplitter
  <2>3. HeldAs(0, 0, 0, FALSE, << >>, FALSE)
    BY <2>2 DEF HeldAs, Init, NewToolParser
  <2>4. out = << >>
    BY DEF Init
  <2> QED BY <2>1, <2>3, <2>4 DEF AnswerInv
<1>7. CallsInv
  BY ReassembledNot DEF Init, CallsInv
<1> QED
  BY <1>5, <1>6, <1>7 DEF ParserInv

LEMMA AnswerFrameKeeps ==
    ASSUME ParserInv, NEW k \in (sent + 1) .. Len(text), AnswerFrame(k)
    PROVE  ParserInv'
<1>1. ParserTypeOK /\ AnswerInv /\ CallsInv
  BY DEF ParserInv
<1>2. AnswerInv' /\ \E es : AddsOfAnswer(es)
  BY <1>1, AnswerFrameTells
<1>3. PICK es : es \in Seq(Events) /\ out' = out \o es /\ sawCall' = (sawCall \/ HasCall(es))
  BY <1>2 DEF AddsOfAnswer
<1>4. out' \in Seq(Events)
  BY <1>1, <1>3, ConcatType DEF ParserTypeOK
<1>5. sawCall' \in BOOLEAN
  BY <1>3
<1>6. k \in Nat /\ k <= Len(text)
  BY <1>1, TypesOf DEF ParserTypeOK
<1>7. ParserTypeOK'
  BY <1>1, <1>4, <1>5, <1>6 DEF ParserTypeOK, AnswerFrame
<1>8. CallsInv'
  BY <1>1 DEF CallsInv, AnswerFrame
<1> QED
  BY <1>2, <1>7, <1>8 DEF ParserInv

LEMMA BesidesKeeps ==
    ASSUME ParserInv, phase \in {"open"}, phase' = phase,
           UNCHANGED <<text, response, sent, splitter, tools>>,
           NEW gs, AddsBesides(gs)
    PROVE  AnswerInv' /\ out' \in Seq(Events)
<1>1. ParserTypeOK /\ AnswerInv /\ Kept
  BY DEF ParserInv, Kept
<1>2. gs \in Seq(Events) /\ Besides(gs) /\ out' = out \o gs
  BY DEF AddsBesides
<1>3. AnswerInv'
  BY <1>1, <1>2, AnswerInvBesides
<1>4. out' \in Seq(Events)
  BY <1>1, <1>2, ConcatType DEF ParserTypeOK
<1> QED
  BY <1>3, <1>4

LEMMA ThoughtsFrameKeeps ==
    ASSUME ParserInv, NEW n \in Nat, ThoughtsFrame(n)
    PROVE  ParserInv'
<1>1. ParserTypeOK /\ CallsInv
  BY DEF ParserInv
<1>2. PICK gs : AddsBesides(gs)
  BY <1>1, ThoughtsFrameTells
<1>3. AnswerInv' /\ out' \in Seq(Events)
  BY <1>2, BesidesKeeps DEF ThoughtsFrame
<1>4. ParserTypeOK'
  BY <1>1, <1>3 DEF ParserTypeOK, ThoughtsFrame
<1>5. CallsInv'
  BY <1>1 DEF CallsInv, ThoughtsFrame
<1> QED
  BY <1>3, <1>4, <1>5 DEF ParserInv

LEMMA ToolFrameKeeps ==
    ASSUME ParserInv, NEW f \in Deltas, ToolFrame(f)
    PROVE  ParserInv'
<1>1. ParserTypeOK /\ CallsInv /\ f \in Fragments
  BY ResponsesAssumption DEF ParserInv
<1>2. AddsBesides(<< >>)
  BY <1>1, NothingAdded DEF ParserTypeOK, ToolFrame
<1>3. AnswerInv' /\ out' \in Seq(Events)
  BY <1>2, BesidesKeeps DEF ToolFrame
<1>4. received' \in Seq(Fragments)
  BY <1>1 DEF ParserTypeOK, ToolFrame
<1>5. ParserTypeOK'
  BY <1>1, <1>3, <1>4 DEF ParserTypeOK, ToolFrame
<1>6. CallsInv'
  <2>1. Reassembled(Push(f), Append(received, f))
    BY <1>1, PushIs DEF ParserTypeOK, CallsInv
  <2> QED BY <2>1 DEF CallsInv, ToolFrame
<1> QED
  BY <1>3, <1>5, <1>6 DEF ParserInv

LEMMA FinishFrameKeeps ==
    ASSUME ParserInv, NEW reason, FinishFrame(reason)
    PROVE  ParserInv'
<1>1. ParserTypeOK /\ CallsInv
  BY DEF ParserInv
<1>2. AddsBesides(<< >>)
  BY <1>1, NothingAdded DEF ParserTypeOK, FinishFrame
<1>3. AnswerInv' /\ out' \in Seq(Events)
  BY <1>2, BesidesKeeps DEF FinishFrame
<1>4. ParserTypeOK'
  BY <1>1, <1>3 DEF ParserTypeOK, FinishFrame
<1>5. CallsInv'
  BY <1>1 DEF CallsInv, FinishFrame
<1> QED
  BY <1>3, <1>4, <1>5 DEF ParserInv

LEMMA OtherFrameKeeps ==
    ASSUME ParserInv, NEW type \in Others, OtherFrame(type)
    PROVE  ParserInv'
<1>1. ParserTypeOK /\ CallsInv
  BY DEF ParserInv
<1>2. PICK gs : AddsBesides(gs)
  BY <1>1, OtherFrameTells
<1>3. AnswerInv' /\ out' \in Seq(Events)
  BY <1>2, BesidesKeeps DEF OtherFrame
<1>4. ParserTypeOK'
  BY <1>1, <1>3 DEF ParserTypeOK, OtherFrame
<1>5. CallsInv'
  BY <1>1 DEF CallsInv, OtherFrame
<1> QED
  BY <1>3, <1>4, <1>5 DEF ParserInv

LEMMA EndOfStreamKeeps ==
    ASSUME ParserInv, EndOfStream
    PROVE  ParserInv'
<1>1. ParserTypeOK /\ CallsInv /\ AnswerInv /\ Kept
  BY DEF ParserInv, EndOfStream, Kept
<1>2. out \in Seq(Events) /\ phase = "open"
  BY <1>1 DEF ParserTypeOK, EndOfStream
<1>3. out' \in Seq(Events)
  <2>1. CASE out = << >>
    BY <1>2, <2>1 DEF EndOfStream
  <2>2. CASE out # << >>
    <3>1. PICK k, P, fs, c, t, gs, hs, R : ClosesWith(k, P, fs, c, t, gs, hs, R)
      BY <1>2, ClosingIs
    <3>2. Closing \in Seq(Events)
      BY <1>2, <3>1, EndingIs DEF Ending
    <3> QED BY <1>2, <2>2, <3>2, ConcatType DEF EndOfStream
  <2> QED BY <2>1, <2>2
<1>4. ParserTypeOK'
  <2>1. phase' \in {"open", "closed", "refused"}
    BY DEF EndOfStream
  <2> QED BY <1>1, <1>3, <2>1 DEF ParserTypeOK, EndOfStream
<1>5. AnswerInv'
  <2>1. PICK gs \in Seq(Events) : gs = << >>
    BY EmptySeq
  <2>2. Besides(gs) /\ out \o gs = out
    BY <1>2, <2>1 DEF Besides
  <2>3. phase' # "closed" => out' = out
    BY DEF EndOfStream
  <2> QED BY <1>1, <1>2, <2>1, <2>2, <2>3, AnswerInvBesides DEF EndOfStream
<1>6. CallsInv'
  BY <1>1 DEF CallsInv, EndOfStream
<1> QED
  BY <1>4, <1>5, <1>6 DEF ParserInv

LEMMA ParserStutters ==
    ASSUME ParserInv, UNCHANGED vars
    PROVE  ParserInv'
<1>1. ParserTypeOK /\ CallsInv /\ AnswerInv /\ Kept
  BY DEF ParserInv, vars, Kept
<1>2. AddsBesides(<< >>)
  BY <1>1, NothingAdded DEF ParserTypeOK, vars
<1>3. << >> \in Seq(Events) /\ Besides(<< >>) /\ out' = out \o << >>
  BY <1>2 DEF AddsBesides
<1>4. AnswerInv'
  BY <1>1, <1>3, AnswerInvBesides DEF vars
<1>5. ParserTypeOK' /\ CallsInv'
  BY <1>1 DEF ParserTypeOK, CallsInv, vars
<1> QED
  BY <1>4, <1>5 DEF ParserInv

LEMMA ParserNextKeeps == ParserInv /\ [Next]_vars => ParserInv'
<1> SUFFICES ASSUME ParserInv, [Next]_vars PROVE ParserInv'
  OBVIOUS
<1>1. CASE \E k \in (sent + 1) .. Len(text) : AnswerFrame(k)
  BY <1>1, AnswerFrameKeeps
<1>2. CASE \E n \in 1 .. response.thoughts : ThoughtsFrame(n)
  <2>1. response.thoughts \in Nat
    BY TypesOf DEF ParserInv
  <2>2. PICK n \in Nat : ThoughtsFrame(n)
    BY <1>2, <2>1
  <2> QED BY <2>2, ThoughtsFrameKeeps
<1>3. CASE \E f \in Deltas : ToolFrame(f)
  BY <1>3, ToolFrameKeeps
<1>4. CASE \E r \in Reasons : FinishFrame(r)
  BY <1>4, FinishFrameKeeps
<1>5. CASE \E t \in Others : OtherFrame(t)
  BY <1>5, OtherFrameKeeps
<1>6. CASE EndOfStream
  BY <1>6, EndOfStreamKeeps
<1>7. CASE UNCHANGED vars
  BY <1>7, ParserStutters
<1> QED
  BY <1>1, <1>2, <1>3, <1>4, <1>5, <1>6, <1>7 DEF Next, Frame

(* In every response, of any length and cut in any way, the two parsers    *)
(* hold back what they must and no more, and the events so far tell the    *)
(* rest of the answer and the fragments received.                          *)
THEOREM ParserInvariant == Spec => []ParserInv
<1>1. Init => ParserInv
  BY ParserInitOK
<1>2. ParserInv /\ [Next]_vars => ParserInv'
  BY ParserNextKeeps
<1> QED
  BY <1>1, <1>2, PTL DEF Spec

(* Little is held back.                                                    *)
LEMMA InvHoldsLittle == ParserInv => OnlyUnfinishedWaits
<1> SUFFICES ASSUME ParserInv PROVE OnlyUnfinishedWaits
  OBVIOUS
<1>1. PICK o, e, k, w, Q, es, d, v :
         AnswerSoFar(o, e, k, w, Q, es, d, v) /\ HeldAs(o, e, k, w, d, v)
  BY DEF ParserInv, AnswerInv
<1>2. /\ splitter.buffer = Span(e, k) /\ splitter.inWrapper = w /\ splitter.body = Span(o, e)
      /\ tools.buffer = d /\ tools.inside = v
  BY <1>1 DEF HeldAs, SplitterAt
<1>3. /\ Places(o, e, k, w) /\ e - o <= MaxHoldback /\ AtRest(e, k, w) /\ ToolRested(d, v)
  BY <1>1 DEF AnswerSoFar, Told
<1>4. /\ o \in Nat /\ e \in Nat /\ k \in Nat /\ o <= e /\ e <= k /\ w \in BOOLEAN
  BY <1>3 DEF Places, Stretch
<1>5. Len(splitter.body) <= MaxHoldback
  BY <1>2, <1>3, <1>4, SpanIs
<1>6. w => Span(e, k) = << >>
  BY <1>3, <1>4, SpanEmpty DEF AtRest
<1>7. ~w /\ Span(e, k) # << >> => IsBeginning(Span(e, k))
  BY <1>3, <1>4, SpanEmpty DEF AtRest
<1>8. ~v /\ d # << >> => IsPartialMarker(d)
  BY <1>3 DEF ToolRested
<1>9. v => Marker(d, "/tool_call") = 0
  <2>1. d \in Seq(Position)
    BY <1>1 DEF AnswerSoFar, Voiced, VoicedType
  <2>2. v => MarkerIs(d, "/tool_call", 0)
    BY <1>3 DEF ToolRested, None
  <2> QED BY <2>1, <2>2, MarkerHas, MarkerOnly
<1> QED
  BY <1>2, <1>5, <1>6, <1>7, <1>8, <1>9 DEF OnlyUnfinishedWaits

(* However an answer is cut, the splitter holds back no more of a wrapper  *)
(* than _MAX_HOLDBACK, the tool parser only a block whose end has not      *)
(* come, and outside of both no more than a beginning of a tag or of a     *)
(* marker waits.                                                           *)
THEOREM OnlyTheUnfinishedWaits == Spec => []OnlyUnfinishedWaits
  BY ParserInvariant, InvHoldsLittle, PTL

-----------------------------------------------------------------------------
(* Each thought is emitted once.                                           *)
ThoughtsInv == FlattenSeq(SpokenIn(out, "reasoning")) = Span(0, thoughts)

LEMMA SilentOn ==
    ASSUME NEW es \in Seq(Events), NEW gs \in Seq(Events),
           \A i \in DOMAIN gs : gs[i].type # "reasoning"
    PROVE  FlattenSeq(SpokenIn(es \o gs, "reasoning")) = FlattenSeq(SpokenIn(es, "reasoning"))
<1>1. SpokenIn(gs, "reasoning") = << >>
  BY SpokenInNot
<1>2. SpokenIn(es \o gs, "reasoning") = SpokenIn(es, "reasoning") \o SpokenIn(gs, "reasoning")
  BY SpokenInConcat
<1>3. PICK x \in Seq(EventValues) : x = SpokenIn(es, "reasoning")
  BY SpokenInType
<1>4. x \o << >> = x
  OBVIOUS
<1> QED
  BY <1>1, <1>2, <1>3, <1>4

LEMMA SilentOfAnswer ==
    ASSUME NEW gs, OfAnswer(gs)
    PROVE  \A i \in DOMAIN gs : gs[i].type # "reasoning"
  BY OwnAndOther DEF OfAnswer

LEMMA ThoughtsFrameThinks ==
    ASSUME ParserTypeOK, ThoughtsInv, NEW n \in Nat, ThoughtsFrame(n)
    PROVE  ThoughtsInv'
<1>1. PICK m \in Nat : m = thoughts
  BY DEF ParserTypeOK
<1>2. PICK es \in Seq(Events) : es = out
  BY DEF ParserTypeOK
<1>3. PICK gs : AddsBesides(gs) /\ NewThoughts(n, gs)
  BY ThoughtsFrameTells
<1>4. gs \in Seq(Events) /\ out' = es \o gs
  BY <1>2, <1>3 DEF AddsBesides
<1>5. CASE ~(n > m)
  <2>1. gs = << >> /\ thoughts' = thoughts
    BY <1>1, <1>3, <1>5 DEF NewThoughts, ThoughtsFrame
  <2>2. out' = out
    BY <1>2, <1>4, <2>1
  <2> QED BY <2>1, <2>2 DEF ThoughtsInv
<1>6. CASE n > m
  <2>1. PICK e : e = Event("reasoning", Span(m, n))
    OBVIOUS
  <2>2. gs = << e >> /\ thoughts' = n
    BY <1>1, <1>3, <1>6, <2>1 DEF NewThoughts, ThoughtsFrame
  <2>3. e \in Events /\ e.type = "reasoning" /\ e.value = Span(m, n)
    BY <1>6, <2>1, ThoughtEvent
  <2>4. SpokenIn(gs, "reasoning") = << Span(m, n) >>
    BY <2>2, <2>3, SpokenInOne
  <2>5. FlattenSeq(SpokenIn(gs, "reasoning")) = Span(m, n)
    <3>1. Span(m, n) \in Seq(Nat)
      BY <1>6, SpanIs
    <3>2. FlattenSeq(<< Span(m, n) >>) = Span(m, n)
      BY <3>1, FlattenOne
    <3> QED BY <2>4, <3>2
  <2>6. FlattenSeq(SpokenIn(es, "reasoning")) = Span(0, m)
    BY <1>1, <1>2 DEF ThoughtsInv
  <2>7. FlattenSeq(SpokenIn(es \o gs, "reasoning"))
          = FlattenSeq(SpokenIn(es, "reasoning")) \o FlattenSeq(SpokenIn(gs, "reasoning"))
    BY <1>4, SpokenFlatConcat
  <2>8. Span(0, m) \o Span(m, n) = Span(0, n)
    <3>1. 0 \in Nat /\ 0 <= m /\ m <= n
      BY <1>6
    <3> QED BY <3>1, SpanConcat
  <2>9. FlattenSeq(SpokenIn(es \o gs, "reasoning")) = Span(0, n)
    BY <2>5, <2>6, <2>7, <2>8
  <2> QED BY <1>4, <2>2, <2>9 DEF ThoughtsInv
<1> QED
  BY <1>5, <1>6

LEMMA SilentStep ==
    ASSUME ThoughtsInv, out \in Seq(Events), thoughts' = thoughts, NEW gs \in Seq(Events),
           \A i \in DOMAIN gs : gs[i].type # "reasoning", out' = out \o gs
    PROVE  ThoughtsInv'
<1>1. PICK es : es = out
  OBVIOUS
<1>2. FlattenSeq(SpokenIn(es \o gs, "reasoning")) = FlattenSeq(SpokenIn(es, "reasoning"))
  BY <1>1, SilentOn
<1> QED
  BY <1>1, <1>2 DEF ThoughtsInv

(* The types of the events of close.                                       *)
LEMMA CloseParts ==
    ASSUME NEW k, NEW P, NEW fs, NEW c, NEW t, NEW gs, NEW hs, NEW R,
           ClosesWith(k, P, fs, c, t, gs, hs, R)
    PROVE  /\ fs \in Seq(Events) /\ OfAnswer(fs)
           /\ gs \in Seq(Events) /\ \A i \in DOMAIN gs : gs[i].type \in ItemKinds
           /\ hs \in Seq(Events) /\ AllOf(hs, "native_call")
           /\ R \in EndReasons
<1>1. /\ fs \in Seq(Events) /\ OfAnswer(fs) /\ gs \in Seq(Events)
      /\ hs \in Seq(Events) /\ AllOf(hs, "native_call") /\ R \in EndReasons
      /\ gs = ItemEvents(ToolFlushed(ParserAt(c, t, fs)))
      /\ c \in Seq(Position) /\ t \in BOOLEAN /\ ToolRested(c, t)
  BY DEF ClosesWith, LastWords, Gathered, Voiced, VoicedType
<1>2. PICK p : p = ParserAt(c, t, fs)
  OBVIOUS
<1>3. p.buffer = c /\ p.inside = t
  BY <1>2 DEF ParserAt
<1>4. ToolFlushed(p) \in Seq(Its)
  BY <1>1, <1>3, ToolFlushedIs
<1>5. \A i \in DOMAIN gs : gs[i].type \in ItemKinds
  BY <1>1, <1>2, <1>4, ItemEventsAre
<1> QED
  BY <1>1, <1>5

LEMMA EndOfStreamThinks ==
    ASSUME ParserInv, ThoughtsInv, EndOfStream
    PROVE  ThoughtsInv'
<1>1. out \in Seq(Events) /\ phase = "open" /\ thoughts' = thoughts
  BY DEF ParserInv, ParserTypeOK, EndOfStream
<1>2. CASE out = << >>
  BY <1>1, <1>2 DEF EndOfStream, ThoughtsInv
<1>3. CASE out # << >>
  <2>1. PICK k, P, fs, c, t, gs, hs, R : ClosesWith(k, P, fs, c, t, gs, hs, R)
    BY <1>1, ClosingIs
  <2>2. PICK a, b, ls, l, x : Ending(a, b, ls, l, x, fs, gs, hs, R)
    BY <1>1, <2>1, EndingIs
  <2>3. PICK es : es = out
    OBVIOUS
  <2>4. /\ a = es \o fs /\ b = a \o gs /\ ls = hs \o l /\ l = << x >>
        /\ a \in Seq(Events) /\ ls \in Seq(Events) /\ l \in Seq(Events)
        /\ x.type = "done" /\ es \in Seq(Events)
    BY <1>1, <2>2, <2>3 DEF Ending
  <2>5. b \in Seq(Events)
    BY <2>2 DEF Ending
  <2>6. out' = b \o ls
    BY <1>3, <2>2 DEF EndOfStream, Ending
  <2>7. /\ fs \in Seq(Events) /\ OfAnswer(fs) /\ gs \in Seq(Events) /\ hs \in Seq(Events)
        /\ \A i \in DOMAIN gs : gs[i].type \in ItemKinds
        /\ AllOf(hs, "native_call")
    BY <2>1, CloseParts
  <2>8. FlattenSeq(SpokenIn(a, "reasoning")) = FlattenSeq(SpokenIn(es, "reasoning"))
    <3>1. \A i \in DOMAIN fs : fs[i].type # "reasoning"
      BY <2>7, SilentOfAnswer
    <3> QED BY <2>4, <2>7, <3>1, SilentOn
  <2>9. FlattenSeq(SpokenIn(b, "reasoning")) = FlattenSeq(SpokenIn(a, "reasoning"))
    <3>1. \A i \in DOMAIN gs : gs[i].type # "reasoning"
      BY <2>7 DEF ItemKinds
    <3> QED BY <2>4, <2>7, <3>1, SilentOn
  <2>10. FlattenSeq(SpokenIn(b \o hs, "reasoning")) = FlattenSeq(SpokenIn(b, "reasoning"))
    <3>1. \A i \in DOMAIN hs : hs[i].type # "reasoning"
      BY <2>7 DEF AllOf
    <3> QED BY <2>5, <2>7, <3>1, SilentOn
  <2>11. FlattenSeq(SpokenIn((b \o hs) \o l, "reasoning"))
            = FlattenSeq(SpokenIn(b \o hs, "reasoning"))
    <3>1. DOMAIN l = {1} /\ l[1] = x
      BY <2>4
    <3>2. \A i \in DOMAIN l : l[i].type # "reasoning"
      BY <2>4, <3>1
    <3>3. PICK bh : bh = b \o hs
      OBVIOUS
    <3>4. bh \in Seq(Events)
      BY <2>5, <2>7, <3>3, ConcatType
    <3>5. FlattenSeq(SpokenIn(bh \o l, "reasoning")) = FlattenSeq(SpokenIn(bh, "reasoning"))
      BY <2>4, <3>2, <3>4, SilentOn
    <3> QED BY <3>3, <3>5
  <2>12. (b \o hs) \o l = b \o ls
    <3>1. Three(Events, b, hs, l)
      BY <2>4, <2>5, <2>7 DEF Three
    <3> QED BY <2>4, <3>1, ConcatAssoc DEF Assoc
  <2>13. FlattenSeq(SpokenIn(b \o ls, "reasoning")) = FlattenSeq(SpokenIn(es, "reasoning"))
    BY <2>8, <2>9, <2>10, <2>11, <2>12
  <2>14. FlattenSeq(SpokenIn(out', "reasoning")) = FlattenSeq(SpokenIn(es, "reasoning"))
    BY <2>6, <2>13
  <2> QED BY <1>1, <2>3, <2>14 DEF ThoughtsInv
<1> QED
  BY <1>2, <1>3

LEMMA ThoughtsNext == ParserInv /\ ThoughtsInv /\ [Next]_vars => ThoughtsInv'
<1> SUFFICES ASSUME ParserInv, ThoughtsInv, [Next]_vars PROVE ThoughtsInv'
  OBVIOUS
<1>1. ParserTypeOK /\ AnswerInv /\ out \in Seq(Events)
  BY DEF ParserInv, ParserTypeOK
<1>2. ASSUME NEW k \in (sent + 1) .. Len(text), AnswerFrame(k) PROVE ThoughtsInv'
  <2>1. PICK es : AddsOfAnswer(es)
    BY <1>1, <1>2, AnswerFrameTells
  <2>2. es \in Seq(Events) /\ OfAnswer(es) /\ out' = out \o es
    BY <2>1 DEF AddsOfAnswer
  <2>3. \A i \in DOMAIN es : es[i].type # "reasoning"
    BY <2>2, SilentOfAnswer
  <2>4. thoughts' = thoughts
    BY <1>2 DEF AnswerFrame
  <2> QED BY <1>1, <2>2, <2>3, <2>4, SilentStep
<1>3. CASE \E n \in 1 .. response.thoughts : ThoughtsFrame(n)
  <2>1. response.thoughts \in Nat
    BY TypesOf DEF ParserInv
  <2>2. PICK n \in Nat : ThoughtsFrame(n)
    BY <1>3, <2>1
  <2> QED BY <1>1, <2>2, ThoughtsFrameThinks
<1>4. ASSUME NEW f, ToolFrame(f) PROVE ThoughtsInv'
  BY <1>4 DEF ToolFrame, ThoughtsInv
<1>5. ASSUME NEW r, FinishFrame(r) PROVE ThoughtsInv'
  BY <1>5 DEF FinishFrame, ThoughtsInv
<1>6. ASSUME NEW type \in Others, OtherFrame(type) PROVE ThoughtsInv'
  <2>1. PICK e, gs : e = Event(type, << >>) /\ gs = << e >>
    OBVIOUS
  <2>2. gs \in Seq(Events) /\ out' = out \o gs
    BY <1>1, <1>6, <2>1, OtherFrameTells DEF AddsBesides
  <2>3. e.type # "reasoning"
    BY <2>1, OtherEvent, OwnAndOther
  <2>4. DOMAIN gs = {1} /\ gs[1] = e
    BY <2>1
  <2>5. \A i \in DOMAIN gs : gs[i].type # "reasoning"
    BY <2>3, <2>4
  <2>6. thoughts' = thoughts
    BY <1>6 DEF OtherFrame
  <2> QED BY <1>1, <2>2, <2>5, <2>6, SilentStep
<1>7. CASE EndOfStream
  BY <1>7, EndOfStreamThinks
<1>8. CASE UNCHANGED vars
  BY <1>8 DEF vars, ThoughtsInv
<1> QED
  BY <1>2, <1>3, <1>4, <1>5, <1>6, <1>7, <1>8 DEF Next, Frame

LEMMA ThoughtsInit == Init => ThoughtsInv
<1>1. Span(0, 0) = << >>
  BY SpanEmpty
<1>2. FlattenSeq(SpokenIn(<< >>, "reasoning")) = << >>
  BY SpokenInNone, FlattenEmpty
<1> QED
  BY <1>1, <1>2 DEF Init, ThoughtsInv

LEMMA ThoughtsInvOnce ==
    ASSUME ParserTypeOK
    PROVE  ThoughtsInv => ThoughtsOnce
<1>1. Values("reasoning") = SpokenIn(out, "reasoning")
  BY DEF Values, SpokenIn
<1>2. PICK n \in Nat : n = thoughts
  BY DEF ParserTypeOK
<1>3. ListOf(n) = Span(0, n)
  BY DEF ListOf, Span
<1> QED
  BY <1>1, <1>2, <1>3 DEF ThoughtsInv, ThoughtsOnce

(* _consume_summary_thought emits every thought once and in order, however *)
(* the frames repeat the list.                                             *)
THEOREM ThoughtsAreSaidOnce == Spec => []ThoughtsOnce
<1>1. Init => ThoughtsInv
  BY ThoughtsInit
<1>2. ParserInv /\ ThoughtsInv /\ [Next]_vars => ThoughtsInv'
  BY ThoughtsNext
<1>3. ParserInv /\ ThoughtsInv => ThoughtsOnce
  BY ThoughtsInvOnce DEF ParserInv
<1> QED
  BY <1>1, <1>2, <1>3, ParserInvariant, PTL DEF Spec

-----------------------------------------------------------------------------
(* The end of the turn.                                                    *)
Only(es, T) == \A i \in DOMAIN es : es[i].type \in T

(* z holds the elements of x and of y.                                     *)
HoldsBoth(z, x, y) ==
    /\ \A i \in DOMAIN z : (\E j \in DOMAIN x : z[i] = x[j]) \/ (\E j \in DOMAIN y : z[i] = y[j])
    /\ \A j \in DOMAIN x : \E i \in DOMAIN z : z[i] = x[j]
    /\ \A j \in DOMAIN y : \E i \in DOMAIN z : z[i] = y[j]

LEMMA ElementsOfConcat ==
    ASSUME NEW x \in Seq(Events), NEW y \in Seq(Events)
    PROVE  HoldsBoth(x \o y, x, y)
<1>1. PICK m, n, z : m = Len(x) /\ n = Len(y) /\ z = x \o y
  OBVIOUS
<1>2. /\ z \in Seq(Events) /\ m \in Nat /\ n \in Nat /\ Len(z) = m + n
      /\ \A i \in 1 .. m : z[i] = x[i]
      /\ \A i \in 1 .. n : z[m + i] = y[i]
  BY <1>1, ConcatIs
<1>3. DOMAIN x = 1 .. m /\ DOMAIN y = 1 .. n /\ DOMAIN z = 1 .. m + n
  BY <1>1, <1>2, LenProperties
<1>4. ASSUME NEW i \in 1 .. m + n
      PROVE  (\E j \in 1 .. m : z[i] = x[j]) \/ (\E j \in 1 .. n : z[i] = y[j])
  <2>1. CASE i <= m
    <3>1. i \in 1 .. m
      BY <1>2, <2>1
    <3> QED BY <1>2, <3>1
  <2>2. CASE i > m
    <3>1. PICK j \in 1 .. n : i = m + j
      BY <1>2, <2>2
    <3> QED BY <1>2, <3>1
  <2> QED BY <1>2, <2>1, <2>2
<1>5. \A j \in 1 .. m : j \in 1 .. m + n
  BY <1>2
<1>6. \A j \in 1 .. n : m + j \in 1 .. m + n
  BY <1>2
<1>7. HoldsBoth(z, x, y)
  BY <1>2, <1>3, <1>4, <1>5, <1>6 DEF HoldsBoth
<1> QED
  BY <1>1, <1>7

LEMMA OnlyConcat ==
    ASSUME NEW x \in Seq(Events), NEW y \in Seq(Events), NEW T, Only(x, T), Only(y, T)
    PROVE  Only(x \o y, T)
<1>1. PICK z : z = x \o y
  OBVIOUS
<1>2. HoldsBoth(z, x, y)
  BY <1>1, ElementsOfConcat
<1>3. Only(z, T)
  BY <1>2 DEF Only, HoldsBoth
<1> QED
  BY <1>1, <1>3

LEMMA HasCallConcat ==
    ASSUME NEW x \in Seq(Events), NEW y \in Seq(Events)
    PROVE  HasCall(x \o y) <=> HasCall(x) \/ HasCall(y)
<1>1. PICK z : z = x \o y
  OBVIOUS
<1>2. HoldsBoth(z, x, y)
  BY <1>1, ElementsOfConcat
<1>3. HasCall(z) <=> HasCall(x) \/ HasCall(y)
  BY <1>2 DEF HasCall, HoldsBoth
<1> QED
  BY <1>1, <1>3

Unended == (OwnEvents \union Others) \ {"done"}
Pending == Unended \ {"native_call"}

LEMMA OnlyOfAnswer ==
    ASSUME NEW gs, OfAnswer(gs)
    PROVE  Only(gs, Pending)
<1>1. Spoken \subseteq Pending
  BY OwnAndOther DEF Pending, Unended
<1> QED
  BY <1>1 DEF OfAnswer, Only

(* One event more.                                                         *)
LEMMA OneMore ==
    ASSUME NEW s \in Seq(Events), NEW e \in Events, NEW z, z = s \o << e >>
    PROVE  /\ Len(s) \in Nat /\ Len(z) = Len(s) + 1 /\ z[Len(z)] = e
           /\ DOMAIN s = 1 .. Len(s) /\ DOMAIN z = 1 .. Len(s) + 1
           /\ \A i \in 1 .. Len(s) : z[i] = s[i]
<1>1. PICK l : l = << e >>
  OBVIOUS
<1>2. l \in Seq(Events)
  BY <1>1, OneType
<1>3. PICK m, n : m = Len(s) /\ n = Len(l)
  OBVIOUS
<1>4. /\ s \o l \in Seq(Events) /\ m \in Nat /\ n \in Nat /\ Len(s \o l) = m + n
      /\ \A i \in 1 .. m : (s \o l)[i] = s[i]
      /\ \A i \in 1 .. n : (s \o l)[m + i] = l[i]
  BY <1>2, <1>3, ConcatIs
<1>5. z \in Seq(Events) /\ Len(z) = m + 1 /\ z[m + 1] = e /\ \A i \in 1 .. m : z[i] = s[i]
  <2>1. Len(l) = 1 /\ l[1] = e
    BY <1>1
  <2>2. 1 \in 1 .. n /\ n = 1
    BY <1>3, <2>1
  <2> QED BY <1>1, <1>4, <2>1, <2>2
<1>6. DOMAIN s = 1 .. m /\ DOMAIN z = 1 .. m + 1
  BY <1>3, <1>5, LenProperties
<1> QED
  BY <1>3, <1>4, <1>5, <1>6

EndedBy(z, s, x) ==
    /\ z[Len(z)] = x
    /\ \A i \in DOMAIN z : z[i].type = "done" <=> i = Len(z)
    /\ HasCall(z) <=> HasCall(s)

LEMMA DoneLast ==
    ASSUME NEW s \in Seq(Events), Only(s, Unended), NEW x \in Events, x.type = "done"
    PROVE  EndedBy(s \o << x >>, s, x)
<1>1. PICK m, z : m = Len(s) /\ z = s \o << x >>
  OBVIOUS
<1>2. /\ m \in Nat /\ Len(z) = m + 1 /\ z[m + 1] = x
      /\ DOMAIN s = 1 .. m /\ DOMAIN z = 1 .. m + 1
      /\ \A i \in 1 .. m : z[i] = s[i]
  BY <1>1, OneMore
<1>3. \A i \in 1 .. m : s[i].type # "done"
  BY <1>2 DEF Only, Unended
<1>4. ASSUME NEW i \in 1 .. m + 1 PROVE z[i].type = "done" <=> i = m + 1
  <2>1. CASE i = m + 1
    BY <1>2, <2>1
  <2>2. CASE i # m + 1
    <3>1. i \in 1 .. m
      BY <1>2, <2>2
    <3> QED BY <1>2, <1>3, <2>2, <3>1
  <2> QED BY <2>1, <2>2
<1>5. ~IsCall(x)
  BY DEF IsCall
<1>6. HasCall(z) <=> HasCall(s)
  <2>1. ASSUME HasCall(z) PROVE HasCall(s)
    <3>1. PICK i \in 1 .. m + 1 : IsCall(z[i])
      BY <1>2, <2>1 DEF HasCall
    <3>2. i # m + 1
      BY <1>2, <1>5, <3>1
    <3>3. i \in 1 .. m
      BY <1>2, <3>2
    <3>4. IsCall(s[i])
      BY <1>2, <3>1, <3>3
    <3> QED BY <1>2, <3>3, <3>4 DEF HasCall
  <2>2. ASSUME HasCall(s) PROVE HasCall(z)
    <3>1. PICK i \in 1 .. m : IsCall(s[i])
      BY <1>2, <2>2 DEF HasCall
    <3>2. i \in 1 .. m + 1 /\ IsCall(z[i])
      BY <1>2, <3>1
    <3> QED BY <1>2, <3>2 DEF HasCall
  <2> QED BY <2>1, <2>2
<1>7. EndedBy(z, s, x)
  BY <1>2, <1>4, <1>6 DEF EndedBy
<1> QED
  BY <1>1, <1>7

(* While the turn lasts: the parser knows whether there was a call, and    *)
(* without one its reason is the upstream's.                               *)
EndInv ==
    phase # "closed" =>
        /\ Only(out, Pending)
        /\ sawCall <=> received # << >> \/ HasCall(out)
        /\ ~sawCall => Alias(finish) = Alias(given)

LEMMA SettledAlias ==
    ASSUME NEW r
    PROVE  Alias(Settled(r, FALSE)) = Alias(r)
<1>1. Settled(r, FALSE) = IF Alias(r) # "none" THEN Alias(r) ELSE r
  BY DEF Settled, NormalizedReason
<1>2. CASE Alias(r) = "none"
  BY <1>1, <1>2
<1>3. CASE Alias(r) # "none"
  <2>1. Alias(r) \in {"stop", "length", "tool_calls", "content_filter"}
    BY <1>3 DEF Alias
  <2>2. Alias(Alias(r)) = Alias(r)
    BY <2>1 DEF Alias
  <2> QED BY <1>1, <1>3, <2>2
<1> QED
  BY <1>2, <1>3

LEMMA EndInit == Init => EndInv /\ EndsOnce
<1> SUFFICES ASSUME Init PROVE EndInv /\ EndsOnce
  OBVIOUS
<1>1. /\ out = << >> /\ received = << >> /\ sawCall = FALSE /\ finish = "none" /\ given = "none"
      /\ phase = "open"
  BY DEF Init
<1>2. DOMAIN out = {}
  BY <1>1
<1> QED
  BY <1>1, <1>2 DEF EndInv, EndsOnce, Only, HasCall

(* A step that adds events other than native calls and the end.            *)
LEMMA EndInvOn ==
    ASSUME EndInv, phase = "open", phase' = "open", out \in Seq(Events),
           NEW gs \in Seq(Events), Only(gs, Pending), out' = out \o gs, received' = received,
           sawCall \in BOOLEAN,
           sawCall' = (sawCall \/ HasCall(gs)),
           finish' = Settled(finish, sawCall') \/ finish' = finish, given' = given
    PROVE  EndInv' /\ EndsOnce'
<1>1. /\ Only(out, Pending)
      /\ sawCall <=> received # << >> \/ HasCall(out)
      /\ ~sawCall => Alias(finish) = Alias(given)
  BY DEF EndInv
<1>2. PICK s, z : s = out /\ z = s \o gs
  OBVIOUS
<1>3. Only(z, Pending)
  BY <1>1, <1>2, OnlyConcat
<1>4. HasCall(z) <=> HasCall(s) \/ HasCall(gs)
  BY <1>2, HasCallConcat
<1>5. out' = z
  BY <1>2
<1>6. Only(out, Pending)'
  BY <1>3, <1>5
<1>7. (sawCall <=> received # << >> \/ HasCall(out))'
  <2>1. sawCall' <=> received # << >> \/ HasCall(z)
    BY <1>1, <1>2, <1>4
  <2> QED BY <1>5, <2>1
<1>8. ~sawCall' => Alias(finish') = Alias(given')
  <2>1. ASSUME ~sawCall' PROVE Alias(finish') = Alias(given')
    <3>1. ~sawCall /\ sawCall' = FALSE
      BY <2>1
    <3>2. Alias(finish) = Alias(given)
      BY <1>1, <3>1
    <3>3. finish' = Settled(finish, FALSE) \/ finish' = finish
      BY <3>1
    <3>4. Alias(Settled(finish, FALSE)) = Alias(finish)
      BY SettledAlias
    <3> QED BY <3>2, <3>3, <3>4
  <2> QED BY <2>1
<1>9. EndInv'
  BY <1>6, <1>7, <1>8 DEF EndInv
<1>10. EndsOnce'
  BY DEF EndsOnce
<1> QED
  BY <1>9, <1>10

LEMMA ThoughtsOnly ==
    ASSUME thoughts \in Nat, NEW n \in Nat, NEW gs, NewThoughts(n, gs)
    PROVE  Only(gs, Pending) /\ ~HasCall(gs)
<1>1. CASE gs = << >>
  <2>1. DOMAIN gs = {}
    BY <1>1
  <2> QED BY <2>1 DEF Only, HasCall
<1>2. CASE gs # << >>
  <2>1. PICK m \in Nat : m = thoughts
    OBVIOUS
  <2>2. PICK e : e = Event("reasoning", Span(m, n))
    OBVIOUS
  <2>3. gs = << e >> /\ n > m
    BY <1>2, <2>1, <2>2 DEF NewThoughts
  <2>4. e.type = "reasoning"
    BY <2>2, <2>3, ThoughtEvent
  <2>5. DOMAIN gs = {1} /\ gs[1] = e
    BY <2>3
  <2>6. "reasoning" \in Pending
    BY OwnAndOther DEF Pending, Unended
  <2>7. ~IsCall(e)
    BY <2>4 DEF IsCall
  <2> QED BY <2>4, <2>5, <2>6, <2>7 DEF Only, HasCall
<1> QED
  BY <1>1, <1>2

LEMMA OtherOnly ==
    ASSUME NEW type \in Others, NEW gs, gs = << Event(type, << >>) >>
    PROVE  Only(gs, Pending) /\ ~HasCall(gs)
<1>1. PICK e : e = Event(type, << >>)
  OBVIOUS
<1>2. e.type = type /\ e.type \notin OwnEvents
  BY <1>1, OtherEvent
<1>3. DOMAIN gs = {1} /\ gs[1] = e
  BY <1>1
<1>4. e.type \in Pending
  BY <1>2, OwnAndOther DEF Pending, Unended
<1>5. ~IsCall(e)
  BY <1>2 DEF IsCall, OwnEvents
<1> QED
  BY <1>3, <1>4, <1>5 DEF Only, HasCall

LEMMA NoneOnly == Only(<< >>, Pending) /\ ~HasCall(<< >>)
<1>1. DOMAIN << >> = {}
  OBVIOUS
<1> QED
  BY <1>1 DEF Only, HasCall

LEMMA ToolFrameEnds ==
    ASSUME ParserTypeOK, EndInv, NEW f, ToolFrame(f)
    PROVE  EndInv' /\ EndsOnce'
<1>1. /\ phase = "open" /\ phase' = "open" /\ out' = out /\ sawCall' = TRUE
      /\ received' = Append(received, f)
  BY DEF ToolFrame
<1>2. Only(out, Pending)
  BY <1>1 DEF EndInv
<1>3. PICK s : s = Append(received, f)
  OBVIOUS
<1>4. received' # << >>
  <2>1. received \in Seq(Fragments)
    BY DEF ParserTypeOK
  <2> QED BY <1>1, <2>1
<1>5. Only(out, Pending)'
  BY <1>1, <1>2
<1>6. EndInv'
  BY <1>1, <1>4, <1>5 DEF EndInv
<1>7. EndsOnce'
  BY <1>1 DEF EndsOnce
<1> QED
  BY <1>6, <1>7

LEMMA FinishFrameEnds ==
    ASSUME ParserTypeOK, EndInv, NEW r, FinishFrame(r)
    PROVE  EndInv' /\ EndsOnce'
<1>1. /\ phase = "open" /\ phase' = "open" /\ out' = out /\ sawCall' = sawCall
      /\ received' = received /\ given' = r /\ finish' = Settled(r, sawCall)
  BY DEF FinishFrame
<1>2. /\ Only(out, Pending)
      /\ sawCall <=> received # << >> \/ HasCall(out)
  BY <1>1 DEF EndInv
<1>3. Only(out, Pending)' /\ (HasCall(out)' <=> HasCall(out))
  BY <1>1, <1>2
<1>4. ~sawCall => Settled(r, sawCall) = Settled(r, FALSE)
  <2>1. sawCall \in BOOLEAN
    BY DEF ParserTypeOK
  <2> QED BY <2>1
<1>5. ~sawCall' => Alias(finish') = Alias(given')
  BY <1>1, <1>4, SettledAlias
<1>6. EndInv'
  BY <1>1, <1>2, <1>3, <1>5 DEF EndInv
<1>7. EndsOnce'
  BY <1>1 DEF EndsOnce
<1> QED
  BY <1>6, <1>7

(* close: the end is said once, and for the right reason.                  *)
LEMMA EndOfStreamEnds ==
    ASSUME ParserInv, EndInv, EndOfStream
    PROVE  EndInv' /\ EndsOnce'
<1>1. out \in Seq(Events) /\ phase = "open" /\ sawCall \in BOOLEAN
  BY DEF ParserInv, ParserTypeOK, EndOfStream
<1>2. /\ Only(out, Pending)
      /\ sawCall <=> received # << >> \/ HasCall(out)
      /\ ~sawCall => Alias(finish) = Alias(given)
  BY <1>1 DEF EndInv
<1>3. /\ received' = received /\ sawCall' = sawCall /\ finish' = finish /\ given' = given
  BY DEF EndOfStream
<1>4. CASE out = << >>
  <2>1. out' = out /\ phase' = "refused"
    BY <1>4 DEF EndOfStream
  <2>2. Only(out, Pending)' /\ (HasCall(out)' <=> HasCall(out))
    BY <1>2, <2>1
  <2> QED BY <1>2, <1>3, <2>1, <2>2 DEF EndInv, EndsOnce
<1>5. CASE out # << >>
  <2>1. PICK k, P, fs, c, t, gs, hs, R : ClosesWith(k, P, fs, c, t, gs, hs, R)
    BY <1>1, ClosingIs
  <2>2. /\ fs \in Seq(Events) /\ OfAnswer(fs)
        /\ gs \in Seq(Events) /\ \A i \in DOMAIN gs : gs[i].type \in ItemKinds
        /\ hs \in Seq(Events) /\ AllOf(hs, "native_call") /\ R \in EndReasons
    BY <2>1, CloseParts
  <2>3. PICK x, l : x = Event("done", R) /\ l = << x >>
    OBVIOUS
  <2>4. x \in Events /\ x.type = "done" /\ x.value = R
    BY <2>2, <2>3, DoneEvent
  <2>5. PICK fg : fg = fs \o gs
    OBVIOUS
  <2>6. PICK ev : ev = fg \o hs
    OBVIOUS
  <2>7. Closing = ev \o l /\ R = EndReason(ev)
    BY <2>1, <2>3, <2>5, <2>6 DEF ClosesWith
  <2>8. fg \in Seq(Events)
    BY <2>2, <2>5, ConcatType
  <2>9. ev \in Seq(Events)
    BY <2>2, <2>6, <2>8, ConcatType
  <2>10. Only(ev, Unended)
    <3>1. Pending \subseteq Unended /\ ItemKinds \subseteq Unended /\ "native_call" \in Unended
      BY OwnAndOther DEF Pending, Unended, ItemKinds, Spoken
    <3>2. Only(fs, Pending)
      BY <2>2, OnlyOfAnswer
    <3>3. Only(fs, Unended) /\ Only(gs, Unended) /\ Only(hs, Unended)
      BY <2>2, <3>1, <3>2 DEF Only, AllOf
    <3>4. Only(fg, Unended)
      BY <2>2, <2>5, <3>3, OnlyConcat
    <3> QED BY <2>2, <2>6, <2>8, <3>3, <3>4, OnlyConcat
  <2>11. PICK s : s = out \o ev
    OBVIOUS
  <2>12. s \in Seq(Events) /\ l \in Seq(Events)
    <3>1. s \in Seq(Events)
      BY <1>1, <2>9, <2>11, ConcatType
    <3>2. l \in Seq(Events)
      BY <2>3, <2>4, OneType
    <3> QED BY <3>1, <3>2
  <2>13. Only(s, Unended)
    <3>1. Only(out, Unended)
      BY <1>2 DEF Only, Pending
    <3> QED BY <1>1, <2>9, <2>10, <2>11, <3>1, OnlyConcat
  <2>14. HasCall(s) <=> HasCall(out) \/ HasCall(ev)
    BY <1>1, <2>9, <2>11, HasCallConcat
  <2>15. PICK z : z = s \o l
    OBVIOUS
  <2>16. out' = z /\ phase' = "closed"
    <3>1. Three(Events, out, ev, l)
      BY <1>1, <2>9, <2>12 DEF Three
    <3>2. Assoc(out, ev, l)
      BY <3>1, ConcatAssoc
    <3>3. out \o Closing = z
      BY <2>7, <2>11, <2>15, <3>2 DEF Assoc
    <3> QED BY <1>5, <3>3 DEF EndOfStream
  <2>17. /\ z[Len(z)] = x
         /\ \A i \in DOMAIN z : z[i].type = "done" <=> i = Len(z)
         /\ HasCall(z) <=> HasCall(s)
    <3>1. EndedBy(s \o << x >>, s, x)
      BY <2>4, <2>12, <2>13, DoneLast
    <3>2. EndedBy(z, s, x)
      BY <2>3, <2>15, <3>1
    <3> QED BY <3>2 DEF EndedBy
  <2>18. received # << >> \/ HasCall(z) => R = "tool_calls"
    <3>1. ASSUME received # << >> \/ HasCall(z) PROVE R = "tool_calls"
      <4>1. sawCall \/ HasCall(ev)
        BY <1>2, <2>14, <2>17, <3>1
      <4>2. NormalizedReason(finish, sawCall \/ HasCall(ev)) = "tool_calls"
        BY <4>1 DEF NormalizedReason
      <4> QED BY <2>7, <4>2 DEF EndReason
    <3> QED BY <3>1
  <2>19. ASSUME received = << >>, ~HasCall(z)
         PROVE  R = IF Alias(given) = "none" THEN "stop" ELSE Alias(given)
    <3>1. ~sawCall /\ ~HasCall(ev)
      BY <1>2, <2>14, <2>17, <2>19
    <3>2. Alias(finish) = Alias(given)
      BY <1>2, <3>1
    <3>3. NormalizedReason(finish, sawCall \/ HasCall(ev)) = Alias(finish)
      BY <3>1 DEF NormalizedReason
    <3> QED BY <2>7, <3>2, <3>3 DEF EndReason
  <2>20. EndInv'
    BY <2>16 DEF EndInv
  <2>21. EndsOnce'
    <3>1. (HasCall(out)' <=> HasCall(z)) /\ out'[Len(out')] = x /\ received' = received
      BY <1>3, <2>16, <2>17
    <3>2. \A i \in DOMAIN out' : out'[i].type = "done" <=> i = Len(out')
      BY <2>16, <2>17
    <3> QED BY <1>3, <2>4, <2>18, <2>19, <3>1, <3>2 DEF EndsOnce
  <2> QED BY <2>20, <2>21
<1> QED
  BY <1>4, <1>5

LEMMA EndNext == ParserInv /\ EndInv /\ EndsOnce /\ [Next]_vars => EndInv' /\ EndsOnce'
<1> SUFFICES ASSUME ParserInv, EndInv, EndsOnce, [Next]_vars PROVE EndInv' /\ EndsOnce'
  OBVIOUS
<1>1. /\ ParserTypeOK /\ AnswerInv /\ out \in Seq(Events) /\ sawCall \in BOOLEAN
      /\ thoughts \in Nat
  BY DEF ParserInv, ParserTypeOK
<1>2. ASSUME NEW k \in (sent + 1) .. Len(text), AnswerFrame(k) PROVE EndInv' /\ EndsOnce'
  <2>1. PICK gs : AddsOfAnswer(gs)
    BY <1>1, <1>2, AnswerFrameTells
  <2>2. /\ gs \in Seq(Events) /\ OfAnswer(gs) /\ out' = out \o gs
        /\ sawCall' = (sawCall \/ HasCall(gs))
    BY <2>1 DEF AddsOfAnswer
  <2>3. Only(gs, Pending)
    BY <2>2, OnlyOfAnswer
  <2>4. /\ phase = "open" /\ phase' = "open" /\ received' = received /\ given' = given
        /\ finish' = Settled(finish, sawCall')
    BY <1>2 DEF AnswerFrame
  <2> QED BY <1>1, <2>2, <2>3, <2>4, EndInvOn
<1>3. CASE \E n \in 1 .. response.thoughts : ThoughtsFrame(n)
  <2>1. response.thoughts \in Nat
    BY TypesOf DEF ParserInv
  <2>2. PICK n \in Nat : ThoughtsFrame(n)
    BY <1>3, <2>1
  <2>3. PICK gs : AddsBesides(gs) /\ NewThoughts(n, gs)
    BY <1>1, <2>2, ThoughtsFrameTells
  <2>4. Only(gs, Pending) /\ ~HasCall(gs) /\ gs \in Seq(Events) /\ out' = out \o gs
    BY <1>1, <2>3, ThoughtsOnly DEF AddsBesides
  <2>5. /\ phase = "open" /\ phase' = "open" /\ received' = received /\ given' = given
        /\ finish' = Settled(finish, sawCall) /\ sawCall' = sawCall
    BY <2>2 DEF ThoughtsFrame
  <2>6. sawCall' = (sawCall \/ HasCall(gs)) /\ finish' = Settled(finish, sawCall')
    BY <1>1, <2>4, <2>5
  <2> QED BY <1>1, <2>4, <2>5, <2>6, EndInvOn
<1>4. ASSUME NEW f, ToolFrame(f) PROVE EndInv' /\ EndsOnce'
  BY <1>1, <1>4, ToolFrameEnds
<1>5. ASSUME NEW r, FinishFrame(r) PROVE EndInv' /\ EndsOnce'
  BY <1>1, <1>5, FinishFrameEnds
<1>6. ASSUME NEW type \in Others, OtherFrame(type) PROVE EndInv' /\ EndsOnce'
  <2>1. PICK gs : gs = << Event(type, << >>) >>
    OBVIOUS
  <2>2. gs \in Seq(Events) /\ out' = out \o gs
    BY <1>1, <1>6, <2>1, OtherFrameTells DEF AddsBesides
  <2>3. Only(gs, Pending) /\ ~HasCall(gs)
    BY <2>1, OtherOnly
  <2>4. /\ phase = "open" /\ phase' = "open" /\ received' = received /\ given' = given
        /\ finish' = finish /\ sawCall' = sawCall
    BY <1>6 DEF OtherFrame
  <2>5. sawCall' = (sawCall \/ HasCall(gs))
    BY <1>1, <2>3, <2>4
  <2> QED BY <1>1, <2>2, <2>3, <2>4, <2>5, EndInvOn
<1>7. CASE EndOfStream
  BY <1>7, EndOfStreamEnds
<1>8. CASE UNCHANGED vars
  <2>1. /\ phase' = phase /\ out' = out /\ sawCall' = sawCall /\ received' = received
        /\ finish' = finish /\ given' = given
    BY <1>8 DEF vars
  <2>2. HasCall(out)' <=> HasCall(out)
    BY <2>1
  <2>3. EndInv'
    BY <2>1, <2>2 DEF EndInv
  <2>4. EndsOnce'
    BY <2>1, <2>2 DEF EndsOnce
  <2> QED BY <2>3, <2>4
<1> QED
  BY <1>2, <1>3, <1>4, <1>5, <1>6, <1>7, <1>8 DEF Next, Frame

(* close ends the turn with one "done", the last event, whose reason is    *)
(* tool_calls if a call was emitted or a native fragment came, named or    *)
(* not, and otherwise the last the upstream gave, "stop" if not known.     *)
THEOREM TurnEndsOnce == Spec => []EndsOnce
<1>1. Init => EndInv /\ EndsOnce
  BY EndInit
<1>2. ParserInv /\ (EndInv /\ EndsOnce) /\ [Next]_vars => (EndInv /\ EndsOnce)'
  BY EndNext
<1> QED
  BY <1>1, <1>2, ParserInvariant, PTL DEF Spec

-----------------------------------------------------------------------------
(* The native calls at the end.                                            *)
LEMMA NativeOnly ==
    ASSUME NEW es \in Seq(Events), Only(es, Pending)
    PROVE  SpokenIn(es, "native_call") = << >>
<1>1. \A i \in DOMAIN es : es[i].type # "native_call"
  BY DEF Only, Pending
<1> QED
  BY <1>1, SpokenInNot

LEMMA EndsWithCalls ==
    ASSUME out \in Seq(Events), Only(out, Pending),
           NEW k, NEW P, NEW fs, NEW c, NEW t, NEW gs, NEW hs, NEW R,
           ClosesWith(k, P, fs, c, t, gs, hs, R)
    PROVE  SpokenIn(out \o Closing, "native_call") = [i \in DOMAIN hs |-> hs[i].value]
<1>1. PICK a, b, ls, l, x : Ending(a, b, ls, l, x, fs, gs, hs, R)
  BY EndingIs
<1>2. /\ a = out \o fs /\ b = a \o gs /\ ls = hs \o l /\ l = << x >>
      /\ a \in Seq(Events) /\ ls \in Seq(Events) /\ l \in Seq(Events)
      /\ x.type = "done" /\ x \in Events
  BY <1>1 DEF Ending
<1>3. b \in Seq(Events) /\ out \o Closing = b \o ls
  BY <1>1 DEF Ending
<1>4. /\ fs \in Seq(Events) /\ OfAnswer(fs)
      /\ gs \in Seq(Events) /\ \A i \in DOMAIN gs : gs[i].type \in ItemKinds
      /\ hs \in Seq(Events) /\ AllOf(hs, "native_call")
  BY CloseParts
<1>5. Only(b, Pending)
  <2>1. Only(fs, Pending)
    BY <1>4, OnlyOfAnswer
  <2>2. Only(gs, Pending)
    <3>1. ItemKinds \subseteq Pending
      BY OwnAndOther DEF Pending, Unended, ItemKinds, Spoken
    <3> QED BY <1>4, <3>1 DEF Only
  <2>3. Only(a, Pending)
    BY <1>2, <1>4, <2>1, OnlyConcat
  <2> QED BY <1>2, <1>4, <2>2, <2>3, OnlyConcat
<1>6. SpokenIn(b, "native_call") = << >>
  BY <1>3, <1>5, NativeOnly
<1>7. SpokenIn(l, "native_call") = << >>
  <2>1. SpokenIn(<< x >>, "native_call") = << >>
    BY <1>2, SpokenInOne
  <2> QED BY <1>2, <2>1
<1>8. PICK y \in Seq(EventValues) : y = SpokenIn(hs, "native_call")
  BY <1>4, SpokenInType
<1>9. SpokenIn(ls, "native_call") = y
  <2>1. SpokenIn(hs \o l, "native_call") = SpokenIn(hs, "native_call") \o SpokenIn(l, "native_call")
    <3>1. hs \in Seq(Events) /\ l \in Seq(Events)
      BY <1>2, <1>4
    <3> QED BY <3>1, SpokenInConcat
  <2>2. y \o << >> = y
    OBVIOUS
  <2> QED BY <1>2, <1>7, <1>8, <2>1, <2>2
<1>10. SpokenIn(b \o ls, "native_call") = y
  <2>1. SpokenIn(b \o ls, "native_call") = SpokenIn(b, "native_call") \o SpokenIn(ls, "native_call")
    <3>1. b \in Seq(Events) /\ ls \in Seq(Events)
      BY <1>2, <1>3
    <3> QED BY <3>1, SpokenInConcat
  <2>2. << >> \o y = y
    OBVIOUS
  <2> QED BY <1>6, <1>9, <2>1, <2>2
<1>11. SpokenIn(hs, "native_call") = [i \in DOMAIN hs |-> hs[i].value]
  BY <1>4, SpokenInAll
<1> QED
  BY <1>3, <1>8, <1>10, <1>11

(* What the client gets of the native calls.                               *)
GotAll(got, r) ==
    /\ Len(got) = Cardinality(NamedIn(r))
    /\ \A k \in DOMAIN got : got[k].arguments = ArgumentsIn(r, InOrder(NamedIn(r))[k])

LEMMA EndOfStreamCalls ==
    ASSUME ParserInv, EndInv, EndOfStream
    PROVE  CallsAreReassembled'
<1>1. out \in Seq(Events) /\ phase = "open"
  BY DEF ParserInv, ParserTypeOK, EndOfStream
<1>2. Only(out, Pending)
  BY <1>1 DEF EndInv
<1>3. CASE out = << >>
  <2>1. phase' = "refused"
    BY <1>3 DEF EndOfStream
  <2> QED BY <2>1 DEF CallsAreReassembled
<1>4. CASE out # << >>
  <2>1. PICK k, P, fs, c, t, gs, hs, R : ClosesWith(k, P, fs, c, t, gs, hs, R)
    BY <1>1, ClosingIs
  <2>2. SpokenIn(out \o Closing, "native_call") = [i \in DOMAIN hs |-> hs[i].value]
    BY <1>1, <1>2, <2>1, EndsWithCalls
  <2>3. PICK r, got : r = received /\ got = SpokenIn(out \o Closing, "native_call")
    OBVIOUS
  <2>4. Gathered(hs, r)
    BY <2>1, <2>3 DEF ClosesWith
  <2>5. PICK n : n = Cardinality(NamedIn(r))
    OBVIOUS
  <2>6. /\ hs \in Seq(Events) /\ Len(hs) = n
        /\ \A i \in 1 .. n : hs[i].value.arguments = ArgumentsIn(r, InOrder(NamedIn(r))[i])
    BY <2>4, <2>5 DEF Gathered
  <2>7. DOMAIN hs = 1 .. n /\ n \in Nat
    BY <2>6, LenProperties
  <2>8. got = [i \in 1 .. n |-> hs[i].value]
    BY <2>2, <2>3, <2>7
  <2>9. DOMAIN got = 1 .. n /\ Len(got) = n
    BY <2>7, <2>8
  <2>10. GotAll(got, r)
    BY <2>5, <2>6, <2>8, <2>9 DEF GotAll
  <2>11. out' = out \o Closing /\ received' = r
    BY <1>4, <2>3 DEF EndOfStream
  <2>12. Values("native_call")' = got
    BY <2>3, <2>11 DEF Values, SpokenIn
  <2>13. NamedIndexes' = NamedIn(r)
    BY <2>11 DEF NamedIndexes, NamedIn
  <2>14. \A index : ArgumentsOf(index)' = ArgumentsIn(r, index)
    BY <2>11 DEF ArgumentsOf, ArgumentsIn
  <2> QED BY <2>10, <2>12, <2>13, <2>14 DEF CallsAreReassembled, GotAll
<1> QED
  BY <1>3, <1>4

LEMMA CallsNext ==
    ParserInv /\ EndInv /\ CallsAreReassembled /\ [Next]_vars => CallsAreReassembled'
<1> SUFFICES ASSUME ParserInv, EndInv, CallsAreReassembled, [Next]_vars
             PROVE  CallsAreReassembled'
  OBVIOUS
<1>1. CASE Frame
  <2>1. phase' = "open"
    BY <1>1 DEF Frame, AnswerFrame, ThoughtsFrame, ToolFrame, FinishFrame, OtherFrame
  <2> QED BY <2>1 DEF CallsAreReassembled
<1>2. CASE EndOfStream
  BY <1>2, EndOfStreamCalls
<1>3. CASE UNCHANGED vars
  <2>1. phase' = phase /\ out' = out /\ received' = received
    BY <1>3 DEF vars
  <2>2. Values("native_call")' = Values("native_call")
    BY <2>1 DEF Values
  <2>3. NamedIndexes' = NamedIndexes
    BY <2>1 DEF NamedIndexes
  <2>4. \A index : ArgumentsOf(index)' = ArgumentsOf(index)
    BY <2>1 DEF ArgumentsOf
  <2> QED BY <2>1, <2>2, <2>3, <2>4 DEF CallsAreReassembled
<1> QED
  BY <1>1, <1>2, <1>3 DEF Next

(* _ToolAccumulator puts every native call together of its fragments, in   *)
(* the order they came, one call per named index and by index.             *)
THEOREM NativeCallsAreWhole == Spec => []CallsAreReassembled
<1>1. Init => (EndInv /\ EndsOnce) /\ CallsAreReassembled
  <2>1. Init => CallsAreReassembled
    BY DEF Init, CallsAreReassembled
  <2> QED BY <2>1, EndInit
<1>2. ParserInv /\ ((EndInv /\ EndsOnce) /\ CallsAreReassembled) /\ [Next]_vars
         => ((EndInv /\ EndsOnce) /\ CallsAreReassembled)'
  BY EndNext, CallsNext
<1> QED
  BY <1>1, <1>2, ParserInvariant, PTL DEF Spec

-----------------------------------------------------------------------------
(* What the client has of the answer, at the end.                          *)
Complete(k, z) ==
    /\ EndsWith(ShownIn(z), k)
    /\ SpokenIn(z, "tool_call") = OnPage(k, "tool_call")
    /\ \A kind \in {"metadata", "ambiguous"} :
          NonEmpty(SpokenIn(z, kind)) = Wrappers(Segments(Span(0, k)), kind)

AnswerFinal(k, z) ==
    /\ Within(ShownIn(z), 0, k)
    /\ response.cuts = "between" /\ Modest(z) => Complete(k, z)

(* The rest of the events of close say what the tool parser held back.     *)
Rest(a, b, z, items) ==
    /\ ShownIn(z) = ShownIn(a)
    /\ SpokenIn(z, "tool_call") = SpokenIn(a, "tool_call") \o Done(items)
    /\ \A kind \in {"metadata", "ambiguous"} : SpokenIn(z, kind) = SpokenIn(a, kind)
    /\ Modest(z) => Modest(a)

LEMMA RestIsSaid ==
    ASSUME NEW a \in Seq(Events), NEW items \in Seq(Its), Said(items) = << >>,
           NEW gs, gs = ItemEvents(items), NEW b, b = a \o gs,
           NEW ls \in Seq(Events), Besides(ls)
    PROVE  Rest(a, b, b \o ls, items)
<1>1. /\ gs \in Seq(Events) /\ \A i \in DOMAIN gs : gs[i].type \in ItemKinds
      /\ \A type : SpokenIn(gs, type) = ItemsOf(items, type)
  BY ItemEventsAre
<1>2. b \in Seq(Events)
  BY <1>1, ConcatType
<1>3. PICK z : z = b \o ls
  OBVIOUS
<1>4. \A type \in Spoken : SpokenIn(z, type) = SpokenIn(b, type)
  BY <1>2, <1>3, BesidesSpoken
<1>5. \A type : SpokenIn(a \o gs, type) = SpokenIn(a, type) \o SpokenIn(gs, type)
  BY <1>1, SpokenInConcat
<1>6. ShownIn(z) = ShownIn(a)
  <2>1. SpokenIn(z, "text") = SpokenIn(a \o gs, "text")
    BY <1>4 DEF Spoken
  <2>2. "text" \in Spoken \union {"reasoning"}
    BY DEF Spoken
  <2>3. FlattenSeq(SpokenIn(a \o gs, "text"))
           = FlattenSeq(SpokenIn(a, "text")) \o FlattenSeq(SpokenIn(gs, "text"))
    BY <1>1, <2>2, SpokenFlatConcat
  <2>4. FlattenSeq(SpokenIn(gs, "text")) = << >>
    <3>1. SpokenIn(gs, "text") = ItemsOf(items, "text")
      BY <1>1
    <3> QED BY <3>1 DEF Said
  <2>5. PICK s \in Seq(Position) : s = FlattenSeq(SpokenIn(a, "text"))
    BY ShownInType DEF ShownIn
  <2>6. s \o << >> = s
    OBVIOUS
  <2> QED BY <2>1, <2>3, <2>4, <2>5, <2>6 DEF ShownIn
<1>7. SpokenIn(z, "tool_call") = SpokenIn(a, "tool_call") \o Done(items)
  <2>1. SpokenIn(z, "tool_call") = SpokenIn(a \o gs, "tool_call")
    BY <1>4 DEF Spoken
  <2>2. SpokenIn(gs, "tool_call") = ItemsOf(items, "tool_call")
    BY <1>1
  <2> QED BY <1>5, <2>1, <2>2 DEF Done
<1>8. ASSUME NEW kind \in {"metadata", "ambiguous"} PROVE SpokenIn(z, kind) = SpokenIn(a, kind)
  <2>1. SpokenIn(z, kind) = SpokenIn(a \o gs, kind)
    BY <1>4 DEF Spoken
  <2>2. \A i \in DOMAIN gs : gs[i].type # kind
    BY <1>1 DEF ItemKinds
  <2>3. SpokenIn(gs, kind) = << >>
    BY <1>1, <2>2, SpokenInNot
  <2>4. PICK s \in Seq(EventValues) : s = SpokenIn(a, kind)
    BY SpokenInType
  <2>5. s \o << >> = s
    OBVIOUS
  <2> QED BY <1>5, <2>1, <2>3, <2>4, <2>5
<1>9. Modest(z) => Modest(a)
  <2>1. Modest(z) => Modest(b)
    BY <1>2, <1>3, ModestConcat
  <2>2. Modest(a \o gs) => Modest(a)
    BY <1>1, ModestConcat
  <2> QED BY <2>1, <2>2
<1>10. Rest(a, b, z, items)
  BY <1>6, <1>7, <1>8, <1>9 DEF Rest
<1> QED
  BY <1>3, <1>10

LEMMA ClosesFinally ==
    ASSUME ParserInv, phase # "closed"
    PROVE  \E k : sent = k /\ AnswerFinal(k, out \o Closing)
<1>1. PICK k, P, fs, c, t, gs, hs, R : ClosesWith(k, P, fs, c, t, gs, hs, R)
  BY ClosingIs
<1>2. out \in Seq(Events) /\ TextOK /\ response.tools \in BOOLEAN /\ Len(text) \in Nat
      /\ sent \in Nat /\ sent <= Len(text)
  BY TypesOf DEF ParserInv, ParserTypeOK
<1>3. PICK a, b, ls, l, x : Ending(a, b, ls, l, x, fs, gs, hs, R)
  BY <1>1, <1>2, EndingIs
<1>4. /\ a = out \o fs /\ b = a \o gs /\ a \in Seq(Events) /\ ls \in Seq(Events) /\ Besides(ls)
      /\ out \o Closing = b \o ls
  BY <1>3 DEF Ending
<1>5. LastWords(k, P, fs, c, t)
  BY <1>1 DEF ClosesWith
<1>6. PICK p : p = ParserAt(c, t, fs)
  OBVIOUS
<1>7. p.buffer = c /\ p.inside = t
  BY <1>6 DEF ParserAt
<1>8. PICK items : items = ToolFlushed(p)
  OBVIOUS
<1>9. /\ Voiced(P, a, << >>, FALSE, c, t) /\ ToolRested(c, t)
      /\ sent = k /\ P \in Seq(Segs) /\ Within(TextOf(P), 0, k)
      /\ response.cuts = "between" /\ NoneGivenUp(P) => Same(P, Segments(Span(0, k)))
  BY <1>4, <1>5 DEF LastWords
<1>10. c \in Seq(Position) /\ t \in BOOLEAN
  BY <1>9 DEF Voiced, VoicedType
<1>11. items \in Seq(Its) /\ Said(items) = << >>
  BY <1>7, <1>8, <1>9, <1>10, ToolFlushedIs
<1>12. gs = ItemEvents(items)
  BY <1>1, <1>6, <1>8 DEF ClosesWith
<1>13. Rest(a, b, b \o ls, items)
  BY <1>4, <1>11, <1>12, RestIsSaid
<1>14. PICK z : z = b \o ls
  OBVIOUS
<1>15. Within(ShownIn(a), 0, k)
  BY <1>2, <1>9, ShownWithin
<1>16. ASSUME response.cuts = "between", Modest(z) PROVE Complete(k, z)
  <2>1. Modest(a)
    BY <1>13, <1>14, <1>16 DEF Rest
  <2>2. NoneGivenUp(P)
    BY <1>9, <2>1 DEF Voiced, VoicedWraps
  <2>3. Same(P, Segments(Span(0, k)))
    BY <1>9, <1>16, <2>2
  <2>4. /\ EndsWith(ShownIn(a), k)
        /\ SpokenIn(a, "tool_call") \o Done(ToolFlushed(p)) = OnPage(k, "tool_call")
        /\ \A kind \in {"metadata", "ambiguous"} :
              NonEmpty(SpokenIn(a, kind)) = Wrappers(Segments(Span(0, k)), kind)
    <3>1. k \in Nat /\ k <= Len(text)
      BY <1>2, <1>9
    <3> QED BY <1>2, <1>7, <1>9, <2>3, <3>1, ClosesWhole
  <2> QED BY <1>8, <1>13, <1>14, <2>4 DEF Complete, Rest
<1>17. Within(ShownIn(z), 0, k)
  BY <1>13, <1>14, <1>15 DEF Rest
<1>18. AnswerFinal(k, z)
  BY <1>16, <1>17 DEF AnswerFinal
<1> QED
  BY <1>4, <1>9, <1>14, <1>18

-----------------------------------------------------------------------------
(* It stays so while the answer does.                                      *)
LEMMA PageKept ==
    ASSUME Kept, NEW n
    PROVE  Page(n)' = Page(n)
<1>1. PICK c : c = Part(Whole, 1, n)
  OBVIOUS
<1>2. Part(Whole, 1, n)' = c
  BY <1>1 DEF Kept, Whole, Part
<1>3. PICK s : s = Segments(c)
  OBVIOUS
<1>4. Segments(c)' = s
  BY <1>3, SegmentsKept
<1>5. PICK prose : prose = TextOf(s)
  OBVIOUS
<1>6. TextOf(Segments(Part(Whole, 1, n))) = prose
  BY <1>1, <1>3, <1>5
<1>7. TextOf(Segments(Part(Whole, 1, n)))' = prose
  BY <1>2, <1>4, <1>5 DEF TextOf
<1>8. Items(prose)' = Items(prose) /\ response' = response
  BY ItemsKept DEF Kept
<1> QED
  BY <1>6, <1>7, <1>8 DEF Page, TextItem, Item

LEMMA OnPageKept ==
    ASSUME Kept, NEW n, NEW kind
    PROVE  OnPage(n, kind)' = OnPage(n, kind)
<1>1. PICK p : p = Page(n)
  OBVIOUS
<1>2. Page(n)' = p
  BY <1>1, PageKept
<1> QED
  BY <1>1, <1>2 DEF OnPage

LEMMA PrintsKept ==
    ASSUME Kept, NEW n
    PROVE  Prints(n)' = Prints(n)
<1>1. PICK p : p = OnPage(n, "text")
  OBVIOUS
<1>2. OnPage(n, "text")' = p
  BY <1>1, OnPageKept
<1> QED
  BY <1>1, <1>2 DEF Prints

LEMMA EndsWithKept ==
    ASSUME Kept, NEW X, NEW n, EndsWith(X, n)
    PROVE  EndsWith(X, n)'
<1>1. PICK u \in Seq(Position) : /\ Prints(n) = X \o u
                                 /\ u = << >> \/ (response.tools /\ IsPartialMarker(u))
  BY DEF EndsWith
<1>2. Prints(n)' = X \o u
  BY <1>1, PrintsKept
<1>3. (u = << >> \/ (response.tools /\ IsPartialMarker(u)))'
  BY <1>1 DEF IsPartialMarker, Is, Kept
<1>4. u \in Seq(Position)'
  BY <1>1 DEF Position
<1> QED
  BY <1>2, <1>3, <1>4 DEF EndsWith

LEMMA CompleteKept ==
    ASSUME Kept, NEW k, NEW z, Complete(k, z)
    PROVE  Complete(k, z)'
<1>1. PICK c, X, Y : c = Span(0, k) /\ X = ShownIn(z) /\ Y = SpokenIn(z, "tool_call")
  OBVIOUS
<1>2. PICK s : s = Segments(c)
  OBVIOUS
<1>3. Segments(c)' = s
  BY <1>2, SegmentsKept
<1>4. Span(0, k)' = c /\ ShownIn(z)' = X /\ SpokenIn(z, "tool_call")' = Y
  BY <1>1 DEF Span, ShownIn, SpokenIn
<1>5. EndsWith(X, k)'
  BY <1>1, EndsWithKept DEF Complete
<1>6. Y = OnPage(k, "tool_call") /\ OnPage(k, "tool_call")' = Y
  BY <1>1, OnPageKept DEF Complete
<1>7. ASSUME NEW kind \in {"metadata", "ambiguous"}
      PROVE  NonEmpty(SpokenIn(z, kind))' = Wrappers(Segments(Span(0, k)), kind)'
  <2>1. NonEmpty(SpokenIn(z, kind)) = Wrappers(s, kind)
    BY <1>1, <1>2 DEF Complete
  <2>2. PICK v, q : v = NonEmpty(SpokenIn(z, kind)) /\ q = Wrappers(s, kind)
    OBVIOUS
  <2>3. NonEmpty(SpokenIn(z, kind))' = v
    BY <2>2 DEF NonEmpty, SpokenIn
  <2>4. Wrappers(Segments(Span(0, k)), kind)' = q
    BY <1>3, <1>4, <2>2 DEF Wrappers
  <2> QED BY <2>1, <2>2, <2>3, <2>4
<1>8. EndsWith(ShownIn(z), k)'
  <2>1. \E u \in Seq(Position) : /\ Prints(k)' = X \o u
                                 /\ u = << >> \/ (response'.tools /\ IsPartialMarker(u)')
    BY <1>5 DEF EndsWith, Position
  <2> QED BY <1>4, <2>1 DEF EndsWith, Position
<1> QED
  BY <1>4, <1>6, <1>7, <1>8 DEF Complete

LEMMA AnswerFinalKept ==
    ASSUME Kept, NEW k, NEW z, AnswerFinal(k, z)
    PROVE  AnswerFinal(k, z)'
<1>1. Within(ShownIn(z), 0, k)'
  BY DEF AnswerFinal, Within, ShownIn, SpokenIn
<1>2. (response.cuts = "between" /\ Modest(z))' => response.cuts = "between" /\ Modest(z)
  BY DEF Kept, Modest
<1>3. Complete(k, z) => Complete(k, z)'
  BY CompleteKept
<1> QED
  BY <1>1, <1>2, <1>3 DEF AnswerFinal

-----------------------------------------------------------------------------
(* A closed response has all of its answer.                                *)
AnswerEnd == phase = "closed" => \E k, z : sent = k /\ out = z /\ AnswerFinal(k, z)

LEMMA AnswerEndInit == Init => AnswerEnd
BY DEF Init, AnswerEnd

LEMMA AnswerEndNext == ParserInv /\ AnswerEnd /\ [Next]_vars => AnswerEnd'
<1> SUFFICES ASSUME ParserInv, AnswerEnd, [Next]_vars, phase' = "closed"
             PROVE  \E k, z : sent' = k /\ out' = z /\ AnswerFinal(k, z)'
  BY DEF AnswerEnd
<1>1. ~Frame
  BY DEF Frame, AnswerFrame, ThoughtsFrame, ToolFrame, FinishFrame, OtherFrame
<1>2. CASE EndOfStream
  <2>1. Kept /\ sent' = sent /\ phase # "closed"
    BY <1>2 DEF EndOfStream, Kept
  <2>2. out' = out \o Closing
    BY <1>2 DEF EndOfStream
  <2>3. PICK k, z : sent = k /\ z = out \o Closing /\ AnswerFinal(k, z)
    BY <2>1, ClosesFinally
  <2>4. AnswerFinal(k, z)'
    BY <2>1, <2>3, AnswerFinalKept
  <2> QED BY <2>1, <2>2, <2>3, <2>4
<1>3. CASE UNCHANGED vars
  <2>1. Kept /\ sent' = sent /\ out' = out /\ phase = "closed"
    BY <1>3 DEF vars, Kept
  <2>2. PICK k, z : sent = k /\ out = z /\ AnswerFinal(k, z)
    BY <2>1 DEF AnswerEnd
  <2>3. AnswerFinal(k, z)'
    BY <2>1, <2>2, AnswerFinalKept
  <2> QED BY <2>1, <2>2, <2>3
<1> QED
  BY <1>1, <1>2, <1>3 DEF Next

LEMMA AnswerEnds == Spec => [](ParserInv /\ AnswerEnd)
<1>1. Init => ParserInv /\ AnswerEnd
  BY ParserInitOK, AnswerEndInit
<1>2. ParserInv /\ AnswerEnd /\ [Next]_vars => ParserInv' /\ AnswerEnd'
  BY ParserNextKeeps, AnswerEndNext
<1> QED
  BY <1>1, <1>2, PTL DEF Spec

LEMMA ShownIs == Shown = ShownIn(out) /\ \A type : Values(type) = SpokenIn(out, type)
BY DEF Shown, Values, ShownIn, SpokenIn

-----------------------------------------------------------------------------
(* What is shown keeps the order of the answer.                            *)
LEMMA InvShowsWithin ==
    ASSUME ParserInv, AnswerEnd
    PROVE  \E k : Within(ShownIn(out), 0, k)
<1>1. CASE phase = "closed"
  BY <1>1 DEF AnswerEnd, AnswerFinal
<1>2. CASE phase # "closed"
  <2>1. PICK o, e, k, w, Q, es, d, v :
           AnswerSoFar(o, e, k, w, Q, es, d, v) /\ out = es
    BY <1>2 DEF ParserInv, AnswerInv
  <2>2. Within(TextOf(Q), 0, o) /\ Voiced(Q, es, << >>, FALSE, d, v)
    BY <2>1 DEF AnswerSoFar, Told
  <2>3. response.tools \in BOOLEAN
    BY TypesOf DEF ParserInv
  <2>4. PICK z : z = 0 /\ Within(TextOf(Q), z, o)
    BY <2>2
  <2>5. Within(ShownIn(es), z, o)
    BY <2>2, <2>3, <2>4, ShownWithin
  <2> QED BY <2>1, <2>4, <2>5
<1> QED
  BY <1>1, <1>2

LEMMA InvKeepsOrder == ParserInv /\ AnswerEnd => OrderIsKept
<1> SUFFICES ASSUME ParserInv, AnswerEnd PROVE OrderIsKept
  OBVIOUS
<1>1. PICK k, X : X = ShownIn(out) /\ Within(X, 0, k)
  BY InvShowsWithin
<1>2. X \in Seq(Position) /\ Shown = X
  BY <1>1, ShownInType, ShownIs DEF ParserInv, ParserTypeOK
<1>3. DOMAIN X = 1 .. Len(X)
  BY <1>2
<1> QED
  BY <1>1, <1>2, <1>3 DEF Within, OrderIsKept

(* The text of the answer is shown in its order and no piece of it twice,  *)
(* wherever the answer is cut, also in the middle of a tag.                *)
THEOREM TextKeepsItsOrder == Spec => []OrderIsKept
BY AnswerEnds, InvKeepsOrder, PTL

-----------------------------------------------------------------------------
LEMMA EndsWithMeans ==
    ASSUME NEW n, NEW X \in Seq(Position), EndsWith(X, n)
    PROVE  \/ X = Prints(n)
           \/ /\ response.tools /\ IsPrefix(X, Prints(n))
              /\ IsPartialMarker(SubSeq(Prints(n), Len(X) + 1, Len(Prints(n))))
<1>1. PICK u \in Seq(Position) : /\ Prints(n) = X \o u
                                 /\ u = << >> \/ (response.tools /\ IsPartialMarker(u))
  BY DEF EndsWith
<1>2. PICK p : p = Prints(n)
  OBVIOUS
<1>3. CASE u = << >>
  BY <1>1, <1>3
<1>4. CASE response.tools /\ IsPartialMarker(u)
  <2>1. p = X \o u /\ p \in Seq(Position) /\ Len(X) \in Nat /\ Len(u) \in Nat
        /\ Len(p) = Len(X) + Len(u)
    BY <1>1, <1>2
  <2>2. SubSeq(p, Len(X) + 1, Len(p)) = u
    BY <2>1
  <2>3. IsPrefix(X, p)
    <3>1. SubSeq(p, 1, Len(X)) = X
      BY <2>1
    <3> QED BY <2>1, <3>1 DEF IsPrefix
  <2> QED BY <1>2, <1>4, <2>2, <2>3
<1> QED
  BY <1>1, <1>3, <1>4

(* A closed answer is the whole answer.                                    *)
LEMMA InvIsWhole == ParserInv /\ AnswerEnd => AnswerIsWhole
<1> SUFFICES ASSUME ParserInv, AnswerEnd, phase = "closed", response.cuts = "between",
                    NothingGivenUp
             PROVE  /\ Values("tool_call") = OnPage(sent, "tool_call")
                    /\ \A kind \in {"metadata", "ambiguous"} :
                          NonEmpty(Values(kind)) =
                             Wrappers(Segments(Part(Whole, 1, sent)), kind)
                    /\ \/ Shown = Prints(sent)
                       \/ /\ response.tools
                          /\ IsPrefix(Shown, Prints(sent))
                          /\ IsPartialMarker(SubSeq(Prints(sent), Len(Shown) + 1,
                                                    Len(Prints(sent))))
  BY DEF AnswerIsWhole, Prints
<1>1. PICK k, z : sent = k /\ out = z /\ AnswerFinal(k, z)
  BY DEF AnswerEnd
<1>2. Modest(z)
  BY <1>1 DEF NothingGivenUp, Modest
<1>3. Complete(k, z)
  BY <1>1, <1>2 DEF AnswerFinal
<1>4. TextOK /\ k \in Nat /\ k <= Len(text) /\ z \in Seq(Events)
  BY <1>1, TypesOf DEF ParserInv, ParserTypeOK
<1>5. Part(Whole, 1, k) = Span(0, k)
  BY <1>4, PageIs
<1>6. Shown = ShownIn(z) /\ \A type : Values(type) = SpokenIn(z, type)
  BY <1>1, ShownIs
<1>7. PICK X \in Seq(Position) : X = ShownIn(z)
  BY <1>4, ShownInType
<1>8. \/ X = Prints(k)
      \/ /\ response.tools /\ IsPrefix(X, Prints(k))
         /\ IsPartialMarker(SubSeq(Prints(k), Len(X) + 1, Len(Prints(k))))
  BY <1>3, <1>7, EndsWithMeans DEF Complete
<1> QED
  BY <1>1, <1>3, <1>5, <1>6, <1>7, <1>8 DEF Complete

(* An answer cut between its tags is told as the whole text would be: its  *)
(* text, its calls and its wrappers.                                       *)
THEOREM AnswerArrivesWhole == Spec => []AnswerIsWhole
BY AnswerEnds, InvIsWhole, PTL

-----------------------------------------------------------------------------
(* What is shown is on the page.                                           *)
LEMMA BeginsIn ==
    ASSUME NEW n, NEW X \in Seq(Position), NEW u \in Seq(Position), Prints(n) = X \o u
    PROVE  ToSet(X) \subseteq ToSet(Prints(n))
<1>1. PICK p : p = Prints(n) /\ p = X \o u
  OBVIOUS
<1>2. ASSUME NEW i \in DOMAIN X PROVE i \in DOMAIN p /\ p[i] = X[i]
  BY <1>1
<1> QED
  BY <1>1, <1>2 DEF ToSet

LEMMA InvLeaksNothing ==
    ParserInv /\ AnswerEnd => (response.cuts = "between" => NothingLeaks)
<1> SUFFICES ASSUME ParserInv, AnswerEnd, response.cuts = "between", NothingGivenUp
             PROVE  ToSet(Shown) \subseteq
                       ToSet(Prints(IF phase = "closed" THEN sent ELSE Len(text)))
  BY DEF NothingLeaks, Prints
<1>1. out \in Seq(Events) /\ response.tools \in BOOLEAN
  BY TypesOf DEF ParserInv, ParserTypeOK
<1>2. PICK X \in Seq(Position) : X = ShownIn(out) /\ Shown = X
  BY <1>1, ShownInType, ShownIs
<1>3. CASE phase = "closed"
  <2>1. PICK k, z : sent = k /\ out = z /\ AnswerFinal(k, z)
    BY <1>3 DEF AnswerEnd
  <2>2. Modest(z)
    BY <2>1 DEF NothingGivenUp, Modest
  <2>3. EndsWith(X, k)
    BY <1>2, <2>1, <2>2 DEF AnswerFinal, Complete
  <2>4. PICK u \in Seq(Position) : Prints(k) = X \o u
    BY <2>3 DEF EndsWith
  <2>5. ToSet(X) \subseteq ToSet(Prints(k))
    BY <2>4, BeginsIn
  <2> QED BY <1>2, <1>3, <2>1, <2>5
<1>4. CASE phase # "closed"
  <2>1. PICK o, e, k, w, Q, es, d, v :
           AnswerSoFar(o, e, k, w, Q, es, d, v) /\ out = es
    BY <1>4 DEF ParserInv, AnswerInv
  <2>2. Told(k, Q, o, e, w) /\ Voiced(Q, es, << >>, FALSE, d, v)
    BY <2>1 DEF AnswerSoFar
  <2>3. Modest(es)
    BY <2>1 DEF NothingGivenUp, Modest
  <2>4. Begins(X, Len(text))
    BY <1>1, <1>2, <2>1, <2>2, <2>3, ShownBegins
  <2>5. PICK u \in Seq(Position) : Prints(Len(text)) = X \o u
    BY <2>4 DEF Begins
  <2>6. ToSet(X) \subseteq ToSet(Prints(Len(text)))
    BY <2>5, BeginsIn
  <2> QED BY <1>2, <1>4, <2>6
<1> QED
  BY <1>3, <1>4

(* While an answer cut between its tags arrives, no piece of a wrapper, of *)
(* a tool block or of a marker is shown.  (Cut within a tag it may be: see *)
(* the run torn_tag.)                                                      *)
THEOREM NothingLeaksBetweenTags == Spec => [](response.cuts = "between" => NothingLeaks)
BY AnswerEnds, InvLeaksNothing, PTL
=============================================================================
