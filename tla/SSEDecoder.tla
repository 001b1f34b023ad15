------------------------------ MODULE SSEDecoder ------------------------------
(***************************************************************************)
(* utils/sse.py: the bytes of a provider's response come in chunks that    *)
(* may be cut anywhere, inside a character, a line or a blank line, and    *)
(* leave as frames.                                                        *)
(*                                                                         *)
(* A byte is an end of line, one of the two bytes of a character, or stands*)
(* for a text whose own cuts only the buffer sees: "data" for the prefix   *)
(* of a data line, "event" for an event field, "json" for a JSON object,   *)
(* "odd" for one that the parser raises on, "done" for the text [DONE].    *)
(***************************************************************************)
EXTENDS Naturals, Sequences, SequencesExt

CONSTANTS
    Bytes,     \* the bytes that are sent in this model
    MaxChunk,  \* bound on the length of a chunk
    MaxBody    \* bound on the length of the body

ASSUME DecoderAssumption ==
    /\ Bytes \subseteq {"CR", "LF", "data", "event", "json", "odd", "done", "lead", "cont"}
    /\ {MaxChunk, MaxBody} \subseteq Nat

VARIABLES
    body,     \* history: the bytes received so far
    pending,  \* the incomplete character the incremental decoder keeps
    buffer,   \* _buffer: text after the last complete frame
    frames,   \* the frames returned so far
    closed    \* close has been called

decoderVars == <<body, pending, buffer, frames, closed>>

Ends   == {"CR", "LF"}
Chunks == UNION {[1 .. n -> Bytes] : n \in 1 .. MaxChunk}

-----------------------------------------------------------------------------
(* UTF-8, with replacement characters for what is not.                     *)

(* What a byte adds to the text, with an incomplete character before it or *)
(* without.                                                                *)
DecodeByte(byte, incomplete) ==
    CASE byte = "lead" -> IF incomplete THEN <<"bad">> ELSE << >>
      [] byte = "cont" -> IF incomplete THEN <<"char">> ELSE <<"bad">>
      [] OTHER         -> IF incomplete THEN <<"bad", byte>> ELSE <<byte>>

Decode(before, bytes) ==
    LET Incomplete(i) == IF i = 0 THEN before # << >> ELSE bytes[i] = "lead"
    IN [text    |-> FlattenSeq([i \in DOMAIN bytes |->
                                   DecodeByte(bytes[i], Incomplete(i - 1))]),
        pending |-> IF Incomplete(Len(bytes)) THEN <<"lead">> ELSE << >>]

(* decode(b"", True): an incomplete character is replaced.                 *)
LastText(before) == IF before = << >> THEN << >> ELSE <<"bad">>

-----------------------------------------------------------------------------
(* parse_frame.                                                            *)

(* A line ends with CR, LF or CR LF: an LF after a CR ends nothing more.   *)
EndsLine(text, i) ==
    text[i] \in Ends /\ ~(text[i] = "LF" /\ i > 1 /\ text[i - 1] = "CR")

(* What has been read of a text: lines, and the one that has not ended.    *)
(* Empty lines are skipped.                                                *)
Unread == [lines |-> << >>, line |-> << >>]

LinesOf(read) ==
    IF read.line = << >> THEN read.lines ELSE Append(read.lines, read.line)

ReadOn(read, text, i) ==
    CASE EndsLine(text, i)  -> [lines |-> LinesOf(read), line |-> << >>]
      [] text[i] \notin Ends -> [lines |-> read.lines, line |-> Append(read.line, text[i])]
      [] OTHER              -> read

Lines(text) ==
    LET read[n \in 0 .. Len(text)] ==
          IF n = 0 THEN Unread ELSE ReadOn(read[n - 1], text, n)
    IN LinesOf(read[Len(text)])

IsField(line, name) == line[1] = name
Data(lines)         == SelectSeq(lines, LAMBDA l : IsField(l, "data"))

(* The frame of these lines, as a sequence of at most one.  A text without *)
(* a field is a frame only if it is a JSON object and nothing else.        *)
FrameOf(lines) ==
    LET Has(name) == \E i \in DOMAIN lines : IsField(lines[i], name)
    IN CASE Has("data") \/ Has("event") ->
              << [event |-> Has("event"),
                  data  |-> [i \in DOMAIN Data(lines) |-> Tail(Data(lines)[i])]] >>
         [] lines \in {<< <<"json">> >>, << <<"odd">> >>} -> << [event |-> FALSE, data |-> lines] >>
         [] OTHER -> << >>

ParseFrame(raw) == FrameOf(Lines(raw))

-----------------------------------------------------------------------------
(* _find_boundary and _drain.                                              *)

BlankLines == {<<"CR", "LF", "CR", "LF">>, <<"LF", "LF">>, <<"CR", "CR">>}

Occurs(b, text, i) ==
    i + Len(b) - 1 <= Len(text) /\ SubSeq(text, i, i + Len(b) - 1) = b

(* A wrong variant: two CR are no blank line.                              *)
IgnoresCR(text) ==
    LET Found == {x \in [index : DOMAIN text, line : BlankLines \ {<<"CR", "CR">>}] :
                     Occurs(x.line, text, x.index)}
    IN {x \in Found : \A y \in Found : x.index <= y.index}

(* The first blank line of a text: a set of at most one.                   *)
FindBoundary(text) ==
    LET Found == {x \in [index : DOMAIN text, line : BlankLines] :
                     Occurs(x.line, text, x.index)}
    IN {x \in Found : \A y \in Found : x.index <= y.index}

(* One round of the loop: the text up to the first blank line is a frame.  *)
Cut(st) ==
    LET first == FindBoundary(st.rest)
        x     == CHOOSE y \in first : TRUE
    IN IF first = {}
         THEN st
         ELSE [frames |-> st.frames \o ParseFrame(SubSeq(st.rest, 1, x.index - 1)),
               rest   |-> SubSeq(st.rest, x.index + Len(x.line), Len(st.rest))]

(* The frames of a text up to its last blank line, and the text after it:  *)
(* each round but the last takes two characters or more.                   *)
Drain(text) ==
    LET round[n \in 0 .. Len(text) \div 2] ==
          IF n = 0 THEN [frames |-> << >>, rest |-> text] ELSE Cut(round[n - 1])
    IN round[Len(text) \div 2]

-----------------------------------------------------------------------------
DecoderInit ==
    /\ body = << >>
    /\ pending = << >>
    /\ buffer = << >>
    /\ frames = << >>
    /\ closed = FALSE

(* A wrong variant: a chunk is decoded by itself.                          *)
DecodesAlone(chunk) ==
    LET text    == Decode(<< >>, chunk).text \o LastText(Decode(<< >>, chunk).pending)
        drained == Drain(buffer \o text)
    IN /\ ~closed
       /\ Len(body) + Len(chunk) <= MaxBody
       /\ body' = body \o chunk
       /\ frames' = frames \o drained.frames
       /\ buffer' = drained.rest
       /\ UNCHANGED <<pending, closed>>

Push(chunk) ==
    LET decoded == Decode(pending, chunk)
        drained == Drain(buffer \o decoded.text)
    IN /\ ~closed
       /\ Len(body) + Len(chunk) <= MaxBody
       /\ body' = body \o chunk
       /\ pending' = decoded.pending
       /\ frames' = frames \o drained.frames
       /\ buffer' = drained.rest
       /\ UNCHANGED closed

(* close: what is left is a frame although no blank line ends it.          *)
Close ==
    LET drained == Drain(buffer \o LastText(pending))
        blank   == ToSet(drained.rest) \subseteq Ends
    IN /\ ~closed
       /\ pending' = << >>
       /\ frames' = frames \o drained.frames
                    \o (IF blank THEN << >> ELSE ParseFrame(drained.rest))
       /\ buffer' = IF blank THEN drained.rest ELSE << >>
       /\ closed' = TRUE
       /\ UNCHANGED body

-----------------------------------------------------------------------------
(* Properties.                                                             *)

(* The text of the whole body.                                             *)
Whole == Decode(<< >>, body).text
         \o (IF closed THEN LastText(Decode(<< >>, body).pending) ELSE << >>)

(* Reading a text by the definition of the format: the lines between one   *)
(* blank line, whichever way it ends, and the next are a frame.            *)
ReadFormat(st, text, i) ==
    IF EndsLine(text, i) /\ st.read.line = << >>
      THEN [frames |-> st.frames \o FrameOf(st.read.lines), read |-> Unread]
      ELSE [frames |-> st.frames, read |-> ReadOn(st.read, text, i)]

Reference(text) ==
    LET given[n \in 0 .. Len(text)] ==
          IF n = 0 THEN [frames |-> << >>, read |-> Unread]
                   ELSE ReadFormat(given[n - 1], text, n)
        end == given[Len(text)]
    IN end.frames \o FrameOf(LinesOf(end.read))

(* A blank line with an end of line of another kind than the line before,  *)
(* which the decoder does not see: LF CR other than inside CR LF CR LF.    *)
MixedBlank(text) ==
    \E i \in 1 .. Len(text) - 1 :
       /\ text[i] = "LF" /\ text[i + 1] = "CR"
       /\ ~(i > 1 /\ Occurs(<<"CR", "LF", "CR", "LF">>, text, i - 1))

(* Wherever the chunks were cut, the frames returned so far are the frames *)
(* of the bytes received so far, no frame is returned twice or late, and   *)
(* what waits in the buffer is exactly what follows them (sse.py:45-70).   *)
CutsDoNotMatter ==
    ~closed => /\ frames = Drain(Whole).frames
               /\ buffer = Drain(Whole).rest

(* Once closed, a body has been split at its blank lines as the format     *)
(* says, with each kind of end of line, the last frame included although   *)
(* nothing ends it, and a bare JSON error body as a frame (sse.py:54-132). *)
FramesAreThoseOfTheFormat ==
    closed /\ ~MixedBlank(Whole) => frames = Reference(Whole)
=============================================================================
