---------------------------- MODULE MarkupSplitter ----------------------------
(***************************************************************************)
(* The separation of assistant prose from the web client's UI wrappers     *)
(* (providers/qwen/markup.py): segment_text, which works on a complete     *)
(* text, and StreamingMarkupSplitter, which must say the same of a text    *)
(* that arrives in chunks.                                                 *)
(*                                                                         *)
(* A text is a sequence of pieces, the smallest parts a chunk boundary may *)
(* separate here:                                                          *)
(*   "<"    an angle bracket          "details"   the wrapper's name       *)
(*   ">"    its other half            "/details"  the name of its end      *)
(*   "attr" an attribute of a tag     "prose"     a word                   *)
(*   "meta" a line "Response ID: ..."                                      *)
(* and the tool markers of ToolCallText.                                   *)
(* A buffer is a sequence of positions of the text, so that what becomes   *)
(* of every piece can be followed.  QwenParser drives both.                *)
(***************************************************************************)
EXTENDS Naturals, FiniteSets, SequencesExt

CONSTANT MaxHoldback   \* _MAX_HOLDBACK, in pieces

ASSUME HoldbackAssumption == MaxHoldback \in Nat

VARIABLE text           \* the answer

Pieces == {"<", ">", "details", "/details", "attr", "prose", "meta",
           "tool_call", "/tool_call", "call"}
Segment(kind, at) == [kind |-> kind, at |-> at]

Is(b, i, piece) == i \in DOMAIN b /\ text[b[i]] = piece
Part(b, i, j)   == SubSeq(b, i, j)
From(b, i)      == SubSeq(b, i, Len(b))

-----------------------------------------------------------------------------
(* The regular expressions, as the positions <<first, last>> of a match.   *)

NextEnd(b, i) ==
    LET ends == {j \in i..Len(b) : Is(b, j, ">")}
    IN IF ends = {} THEN 0 ELSE CHOOSE j \in ends : \A k \in ends : j <= k

(* <details\b[^>]*>                                                        *)
Openings(b) ==
    {m \in {<<i, NextEnd(b, i)>> :
               i \in {k \in DOMAIN b : Is(b, k, "<") /\ Is(b, k + 1, "details")}} :
        /\ m[2] # 0
        /\ ~Is(b, m[1] + 2, "prose") /\ ~Is(b, m[1] + 2, "details")}

(* </details\s*>                                                           *)
Closings(b) ==
    {<<i, i + 2>> :
        i \in {k \in DOMAIN b : /\ Is(b, k, "<") /\ Is(b, k + 1, "/details")
                                /\ Is(b, k + 2, ">")}}

First(matches) == CHOOSE m \in matches : \A n \in matches : m[1] <= n[1]

(* _TAG, within one line: these pieces are removed by _strip_tags.         *)
InTag(b, k) ==
    \E i \in 1..k, j \in k..Len(b) :
        /\ Is(b, i, "<") /\ Is(b, j, ">")
        /\ text[b[i + 1]] \in {"details", "/details", "tool_call", "/tool_call",
                               "prose"}
        /\ \A x \in (i + 1)..(j - 1) : text[b[x]] \notin {">", "meta"}

(* classify_wrapper_body: a wrapper with nothing but metadata lines is     *)
(* metadata, one with anything else is ambiguous.                          *)
Classify(body) ==
    Segment(IF \A k \in DOMAIN body : Is(body, k, "meta") \/ InTag(body, k)
              THEN "metadata" ELSE "ambiguous",
            body)

TextIfAny(b) == IF b = <<>> THEN <<>> ELSE <<Segment("text", b)>>

(* One round of _iter_segments: the text before the first wrapper, and the *)
(* wrapper.  s.buffer is the text from the cursor on.                      *)
NextSegments(s) ==
    IF Openings(s.buffer) = {}
      THEN [buffer |-> <<>>, out |-> s.out \o TextIfAny(s.buffer)]
      ELSE LET opening == First(Openings(s.buffer))
               inner   == From(s.buffer, opening[2] + 1)
               prefix  == TextIfAny(Part(s.buffer, 1, opening[1] - 1))
           IN IF Closings(inner) = {}
                THEN [buffer |-> <<>>,
                      out |-> s.out \o prefix \o <<Segment("ambiguous", inner)>>]
                ELSE LET closing == First(Closings(inner)) IN
                     [buffer |-> From(inner, closing[2] + 1),
                      out |-> s.out \o prefix
                              \o <<Classify(Part(inner, 1, closing[1] - 1))>>]

(* segment_text: each round takes a piece or more, and none once the text  *)
(* is used up.                                                             *)
Segments(b) ==
    LET round[n \in 0..Len(b)] ==
          IF n = 0 THEN [buffer |-> b, out |-> <<>>] ELSE NextSegments(round[n - 1])
    IN round[Len(b)].out

-----------------------------------------------------------------------------
(* StreamingMarkupSplitter.                                                *)

NewSplitter == [buffer |-> <<>>, inWrapper |-> FALSE, body |-> <<>>]

(* "<" and "<details" may still become an opening tag.                     *)
IsBeginning(b) ==
    \/ Len(b) = 1 /\ Is(b, 1, "<")
    \/ Len(b) = 2 /\ Is(b, 1, "<") /\ Is(b, 2, "details")

LastBracket(b) ==
    LET at == {i \in DOMAIN b : Is(b, i, "<")}
    IN IF at = {} THEN 0 ELSE CHOOSE i \in at : \A j \in at : j <= i

(* A wrong variant: any text after a bracket is held back.                 *)
HoldsAnyTail(b) ==
    IF LastBracket(b) = 0 THEN Len(b) ELSE LastBracket(b) - 1

(* A wrong variant: nothing is held back.                                  *)
HoldsNothing(b) == Len(b)

(* _safe_emit_boundary: a tail that may become "<details" is kept.         *)
SafeBoundary(b) ==
    LET i == LastBracket(b) IN
    IF i # 0 /\ IsBeginning(From(b, i))
      THEN i - 1 ELSE Len(b)

(* _step.  s is the splitter, with what it returned so far in s.out.  A    *)
(* step that takes no tag leaves a splitter that the next does not change. *)
Step(s) ==
    IF s.inWrapper
      THEN LET all == s.body \o s.buffer IN
           IF Closings(s.buffer) = {}
             THEN IF Len(all) > MaxHoldback
                    THEN [buffer |-> <<>>, inWrapper |-> FALSE, body |-> <<>>,
                          out |-> Append(s.out, Segment("ambiguous", all))]
                    ELSE [s EXCEPT !.buffer = <<>>, !.body = all]
             ELSE LET closing == First(Closings(s.buffer)) IN
                  [buffer |-> From(s.buffer, closing[2] + 1),
                   inWrapper |-> FALSE, body |-> <<>>,
                   out |-> Append(s.out, Classify(
                      s.body \o Part(s.buffer, 1, closing[1] - 1)))]
      ELSE IF Openings(s.buffer) # {}
             THEN LET opening == First(Openings(s.buffer)) IN
                  [s EXCEPT
                     !.out = s.out \o TextIfAny(Part(s.buffer, 1, opening[1] - 1)),
                     !.buffer = From(s.buffer, opening[2] + 1),
                     !.inWrapper = TRUE]
             ELSE LET upto == SafeBoundary(s.buffer) IN
                  [s EXCEPT
                     !.out = s.out \o TextIfAny(Part(s.buffer, 1, upto)),
                     !.buffer = From(s.buffer, upto + 1)]

(* feed: _step until it stands still, which it does when it has taken every *)
(* tag of the buffer.                                                      *)
Steps(s) ==
    LET round[n \in 0..Len(s.buffer) + 1] ==
          IF n = 0 THEN s ELSE Step(round[n - 1])
    IN round[Len(s.buffer) + 1]

(* A wrong variant: a chunk is put before what was held back.              *)
FedInFront(s, chunk) ==
    Steps([buffer |-> chunk \o s.buffer, inWrapper |-> s.inWrapper,
           body |-> s.body, out |-> <<>>])

Splitting(s) == [buffer |-> s.buffer, inWrapper |-> s.inWrapper, body |-> s.body]
Fed(s, chunk) ==
    Steps([buffer |-> s.buffer \o chunk, inWrapper |-> s.inWrapper,
           body |-> s.body, out |-> <<>>])

(* A wrong variant: what is held back is forgotten at the end.             *)
ForgetsTail(s) == <<>>

(* close: what is left is text, or an unterminated wrapper.                *)
Flushed(s) ==
    IF s.inWrapper
      THEN IF s.body \o s.buffer = <<>> THEN <<>>
           ELSE <<Segment("ambiguous", s.body \o s.buffer)>>
      ELSE TextIfAny(s.buffer)

-----------------------------------------------------------------------------
Whole == [i \in DOMAIN text |-> i]

(* Where the cut after piece k tears an opening tag in a way SafeBoundary  *)
(* does not hold back, or a closing tag.                                   *)
TornOpening(k) == \E m \in Openings(Whole) : m[1] + 1 < k /\ k < m[2]
TornClosing(k) == \E m \in Closings(Whole) : m[1] <= k /\ k < m[2]

TextOf(segments) ==
    FlattenSeq([i \in DOMAIN segments |->
        IF segments[i].kind = "text" THEN segments[i].at ELSE <<>>])

(* The wrappers of one kind that hold anything.                            *)
Wrappers(segments, kind) ==
    FlattenSeq([i \in DOMAIN segments |->
        IF segments[i].kind = kind /\ segments[i].at # <<>>
          THEN <<segments[i].at>> ELSE <<>>])
=============================================================================
