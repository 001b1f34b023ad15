------------------------------ MODULE QwenParser ------------------------------
(***************************************************************************)
(* QwenEventParser (providers/qwen/parser.py) over one upstream response,  *)
(* and _consume_sse (providers/qwen/client.py), which feeds it.            *)
(*                                                                         *)
(* A response is a sequence of frames in an order the upstream chooses:    *)
(* pieces of the answer, the list of thoughts so far, fragments of native  *)
(* tool calls, a finish reason, text of an unknown phase.  The answer goes *)
(* through MarkupSplitter and, when the client declared tools the upstream *)
(* cannot call, through ToolCallText.  It may be cut anywhere "between"    *)
(* tags, or also in the middle of "opening" or of "closing" tags.          *)
(***************************************************************************)
EXTENDS ToolCallText

CONSTANTS
    Responses,    \* what the upstream may send (see ResponseType)
    Deltas,       \* fragments of native tool calls
    Reasons,      \* finish reasons
    Others        \* events of frames that leave the parser's state alone

VARIABLES
    response,  \* the response being parsed; its answer is text
    sent,      \* how much of the answer has been received
    splitter,  \* _answer_splitter
    tools,     \* _text_tool_parser
    received,  \* history: the native fragments, in order
    calls,     \* _tool_accumulator.calls: index -> call, for those begun
    thoughts,  \* _summary_thought_count
    sawCall,   \* _saw_tool_call
    finish,    \* _finish_reason, "none" for None
    given,     \* history: the last reason the upstream gave
    out,       \* the events so far
    phase      \* "open", "closed", or "refused" with a parse error

vars == <<text, response, sent, splitter, tools, received, calls, thoughts, sawCall,
          finish, given, out, phase>>

(* A response: its answer and where it may be cut, whether the parser was  *)
(* made with parse_text_tool_calls, and how many native fragments,         *)
(* thoughts and other frames come with it at most.                         *)
ResponseType ==
    [answer : Seq(Pieces), cuts : {"between", "opening", "closing"},
     tools : BOOLEAN, deltas : Nat, thoughts : Nat, others : BOOLEAN]

(* A fragment {index, id, function: {name, arguments}}; 0, "" and <<>>     *)
(* stand for absent fields.                                                *)
Fragments == [index : Nat, id : Nat, name : STRING, arguments : Seq(Nat)]

(* The types of the events that come of the answer, the thoughts, the      *)
(* native calls and the end.                                               *)
OwnEvents == {"text", "tool_call", "warning", "metadata", "ambiguous", "reasoning",
              "native_call", "done"}

ASSUME ResponsesAssumption ==
    /\ Responses \subseteq ResponseType /\ Deltas \subseteq Fragments
    /\ Others \intersect OwnEvents = {}

(* tool_call_id() for a call whose first fragment has no id.               *)
NewId(index) == 1000 + index

Event(type, value) == [type |-> type, value |-> value]

(* What the events of one type said.                                      *)
Values(type) ==
    FlattenSeq([i \in DOMAIN out |->
        IF out[i].type = type THEN <<out[i].value>> ELSE <<>>])

Init ==
    /\ response \in Responses
    /\ text = response.answer
    /\ sent = 0
    /\ splitter = NewSplitter
    /\ tools = NewToolParser
    /\ received = <<>>
    /\ calls = <<>>
    /\ thoughts = 0
    /\ sawCall = FALSE
    /\ finish = "none"
    /\ given = "none"
    /\ out = <<>>
    /\ phase = "open"

-----------------------------------------------------------------------------
(* normalize_finish_reason.                                                *)
Alias(reason) ==
    CASE reason \in {"stop", "end_turn"} -> "stop"
      [] reason \in {"length", "max_tokens"} -> "length"
      [] reason \in {"tool_calls", "tool_use", "function_call"} -> "tool_calls"
      [] reason = "content_filter" -> "content_filter"
      [] OTHER -> "none"

(* A wrong variant: calls found in the text do not count.                  *)
UpstreamReason(reason, has) == Alias(reason)

NormalizedReason(reason, has) == IF has THEN "tool_calls" ELSE Alias(reason)

(* The end of _parse_delta: a reason that is known is kept in its          *)
(* normalized form.                                                        *)
Settled(reason, has) ==
    LET known == NormalizedReason(reason, has)
    IN IF known # "none" THEN known ELSE reason

ItemEvents(items) == [i \in DOMAIN items |-> Event(items[i].kind, items[i].at)]

(* _segments_to_events: text goes to the tool parser, if there is one, and *)
(* a wrapper becomes a metadata or a system event.  p is the tool parser   *)
(* with the events so far.                                                 *)
Through(p, s) ==
    LET fed == ToolFed(p, s.at)
    IN IF s.kind = "text" /\ response.tools
         THEN [buffer |-> fed.buffer, inside |-> fed.inside,
               events |-> p.events \o ItemEvents(fed.items)]
         ELSE [p EXCEPT !.events = Append(@, Event(s.kind, s.at))]

Emit(segments) ==
    LET after[n \in 0..Len(segments)] ==
          IF n = 0 THEN [buffer |-> tools.buffer, inside |-> tools.inside, events |-> <<>>]
                   ELSE Through(after[n - 1], segments[n])
    IN after[Len(segments)]

IsCall(e) == e.type \in {"tool_call", "native_call"}
HasCall(events) == \E i \in DOMAIN events : IsCall(events[i])

(* Where the upstream may cut its answer.                                  *)
MayCut(k) ==
    /\ TornOpening(k) => response.cuts = "opening"
    /\ TornClosing(k) => response.cuts = "closing"

(* A frame with more of the answer.                                        *)
AnswerFrame(k) ==
    LET fed == Fed(splitter, SubSeq(Whole, sent + 1, k))
        now == Emit(fed.out)
    IN
    /\ phase = "open"
    /\ MayCut(k)
    /\ sent' = k
    /\ splitter' = Splitting(fed)
    /\ tools' = [buffer |-> now.buffer, inside |-> now.inside]
    /\ out' = out \o now.events
    /\ sawCall' = (sawCall \/ HasCall(now.events))
    /\ finish' = Settled(finish, sawCall')
    /\ UNCHANGED <<text, response, received, calls, thoughts, given, phase>>

(* The list of the first n thoughts.                                       *)
ListOf(n) == [i \in 1..n |-> i]

(* A wrong variant: every frame's list is emitted from its beginning.      *)
FreshFromStart(n) == ListOf(n)

(* _consume_summary_thought: the list repeats the thoughts of the earlier  *)
(* frames, only those past _summary_thought_count are new.                 *)
Fresh(n) == SubSeq(ListOf(n), thoughts + 1, n)

ThoughtsFrame(n) ==
    /\ phase = "open"
    /\ out' = IF Fresh(n) = <<>> THEN out
              ELSE Append(out, Event("reasoning", Fresh(n)))
    /\ thoughts' = IF n > thoughts THEN n ELSE thoughts
    /\ finish' = Settled(finish, sawCall)
    /\ UNCHANGED <<text, response, sent, splitter, tools, received, calls, sawCall,
                   given, phase>>

(* A wrong variant: a fragment's arguments replace those before.           *)
PushReplacing(f) ==
    LET begun == IF f.index \in DOMAIN calls THEN calls[f.index]
                 ELSE [id |-> IF f.id # 0 THEN f.id ELSE NewId(f.index),
                       name |-> "", arguments |-> <<>>]
    IN [i \in DOMAIN calls \union {f.index} |->
          IF i # f.index THEN calls[i]
          ELSE [id        |-> IF f.id # 0 THEN f.id ELSE begun.id,
                name      |-> IF f.name # "" THEN f.name ELSE begun.name,
                arguments |-> f.arguments]]

(* _ToolAccumulator.push.                                                  *)
Push(f) ==
    LET begun == IF f.index \in DOMAIN calls THEN calls[f.index]
                 ELSE [id |-> IF f.id # 0 THEN f.id ELSE NewId(f.index),
                       name |-> "", arguments |-> <<>>]
    IN [i \in DOMAIN calls \union {f.index} |->
          IF i # f.index THEN calls[i]
          ELSE [id        |-> IF f.id # 0 THEN f.id ELSE begun.id,
                name      |-> IF f.name # "" THEN f.name ELSE begun.name,
                arguments |-> begun.arguments \o f.arguments]]

ToolFrame(f) ==
    /\ phase = "open"
    /\ Len(received) < response.deltas
    /\ received' = Append(received, f)
    /\ calls' = Push(f)
    /\ sawCall' = TRUE
    /\ finish' = Settled(finish, TRUE)
    /\ UNCHANGED <<text, response, sent, splitter, tools, thoughts, given, out, phase>>

(* _parse_choice of a frame with nothing but a finish reason.              *)
FinishFrame(reason) ==
    /\ phase = "open" /\ response.others
    /\ given' = reason
    /\ finish' = Settled(reason, sawCall)
    /\ UNCHANGED <<text, response, sent, splitter, tools, received, calls, thoughts,
                   sawCall, out, phase>>

(* A frame that only gives an event: usage, an error of the upstream, ids, *)
(* the state of its search, or text of a phase that is not known.          *)
OtherFrame(type) ==
    /\ phase = "open" /\ response.others
    /\ Values(type) = <<>>     \* bound: one of each
    /\ out' = Append(out, Event(type, <<>>))
    /\ UNCHANGED <<text, response, sent, splitter, tools, received, calls, thoughts,
                   sawCall, finish, given, phase>>

(* The numbers of a finite set, the least first.                           *)
InOrder(numbers) ==
    CHOOSE s \in [1..Cardinality(numbers) -> numbers] :
        \A i, j \in DOMAIN s : i < j => s[i] < s[j]

(* _ToolAccumulator.finalize, in the order of the indexes.                 *)
FinalCalls ==
    LET named == {i \in DOMAIN calls : calls[i].name # ""}
        order == InOrder(named)
    IN [k \in DOMAIN order |-> Event("native_call", calls[order[k]])]

(* close: what the splitter and the tool parser hold back, the native      *)
(* calls, and the end of the turn.                                         *)
Closing ==
    LET last   == Emit(Flushed(splitter))
        events == last.events \o ItemEvents(ToolFlushed(last)) \o FinalCalls
        has    == sawCall \/ HasCall(events)
        reason == NormalizedReason(finish, has)
    IN events \o <<Event("done", IF reason # "none" THEN reason ELSE "stop")>>

(* The end of the upstream's stream.  A response of which no frame gave an *)
(* event is refused before close is called.                                *)
EndOfStream ==
    /\ phase = "open"
    /\ phase' = IF out = <<>> THEN "refused" ELSE "closed"
    /\ out' = IF out = <<>> THEN out ELSE out \o Closing
    /\ UNCHANGED <<text, response, sent, splitter, tools, received, calls, thoughts,
                   sawCall, finish, given>>

Frame ==
    \/ \E k \in (sent + 1)..Len(text) : AnswerFrame(k)
    \/ \E n \in 1..response.thoughts : ThoughtsFrame(n)
    \/ \E f \in Deltas : ToolFrame(f)
    \/ \E r \in Reasons : FinishFrame(r)
    \/ \E t \in Others : OtherFrame(t)

Next == Frame \/ EndOfStream
Spec == Init /\ [][Next]_vars

-----------------------------------------------------------------------------
(* The first n pieces of the answer as they read on a page, however they   *)
(* came: the prose outside the wrappers, with its tool blocks taken out.   *)
Page(n) ==
    LET prose == TextOf(Segments(Part(Whole, 1, n)))
    IN IF response.tools THEN Items(prose) ELSE TextItem(prose)
OnPage(n, kind) ==
    FlattenSeq([i \in DOMAIN Page(n) |->
        IF Page(n)[i].kind = kind THEN <<Page(n)[i].at>> ELSE <<>>])
Shown == FlattenSeq(Values("text"))

NonEmpty(bodies) ==
    FlattenSeq([i \in DOMAIN bodies |->
        IF bodies[i] = <<>> THEN <<>> ELSE <<bodies[i]>>])

(* No wrapper was too large to be held back until its end.                 *)
NothingGivenUp ==
    \A i \in DOMAIN out : out[i].type = "ambiguous" => Len(out[i].value) <= MaxHoldback

(* However the answer was cut between its tags, the client gets its text,  *)
(* its calls and its wrappers as of the whole: "incremental version of     *)
(* segment_text".  With the tool parser on, a beginning of a marker at the *)
(* very end is dropped, and nothing else.                                  *)
AnswerIsWhole ==
    phase = "closed" /\ response.cuts = "between" /\ NothingGivenUp =>
        LET said == FlattenSeq(OnPage(sent, "text"))
        IN /\ Values("tool_call") = OnPage(sent, "tool_call")
           /\ \A kind \in {"metadata", "ambiguous"} :
                 NonEmpty(Values(kind)) =
                    Wrappers(Segments(Part(Whole, 1, sent)), kind)
           /\ \/ Shown = said
              \/ /\ response.tools
                 /\ IsPrefix(Shown, said)
                 /\ IsPartialMarker(SubSeq(said, Len(Shown) + 1, Len(said)))

(* The client never reads a piece of a wrapper or of a tool block, not     *)
(* even of their markers: what is shown while the answer arrives is text   *)
(* of the whole answer (README: "a partial <details tag never leaks into   *)
(* the stream", "partial markers are never leaked").                       *)
NothingLeaks ==
    NothingGivenUp => ToSet(Shown) \subseteq
        ToSet(FlattenSeq(OnPage(IF phase = "closed" THEN sent ELSE Len(text),
                                "text")))

(* The text keeps its order and is shown once, not even changed around a   *)
(* wrapper too large to be held back.                                      *)
OrderIsKept ==
    \A i, j \in DOMAIN Shown : i < j => Shown[i] < Shown[j]

(* The stream does not stall: of a wrapper no more than the limit waits,   *)
(* of a tool block only one whose end has not come, and outside of both    *)
(* only what may be the beginning of a tag or a marker.  The limit is the  *)
(* splitter's: for an open tool block there is none (tools.py:171-174).    *)
OnlyUnfinishedWaits ==
    /\ Len(splitter.body) <= MaxHoldback
    /\ splitter.inWrapper => splitter.buffer = <<>>
    /\ ~splitter.inWrapper /\ splitter.buffer # <<>> =>
          IsBeginning(splitter.buffer)
    /\ tools.inside => Marker(tools.buffer, "/tool_call") = 0
    /\ ~tools.inside /\ tools.buffer # <<>> => IsPartialMarker(tools.buffer)

(* Each thought is emitted once and in order, though the upstream repeats  *)
(* its list, possibly an older one.                                        *)
ThoughtsOnce == FlattenSeq(Values("reasoning")) = ListOf(thoughts)

(* The native calls are those of the fragments: one per index that was     *)
(* ever named, by index, with the arguments in the order they came.        *)
NamedIndexes ==
    {received[n].index : n \in {m \in DOMAIN received : received[m].name # ""}}
ArgumentsOf(index) ==
    FlattenSeq([n \in DOMAIN received |->
        IF received[n].index = index THEN received[n].arguments ELSE <<>>])
CallsAreReassembled ==
    phase = "closed" =>
        LET got   == Values("native_call")
            order == InOrder(NamedIndexes)
        IN /\ Len(got) = Cardinality(NamedIndexes)
           /\ \A k \in DOMAIN got : got[k].arguments = ArgumentsOf(order[k])

(* A closed response ends with its only "done".  It says tool_calls if a   *)
(* call was emitted, or if a native fragment came, even one that was never *)
(* named and gave no call; else what the upstream said last, "stop" if     *)
(* that is nothing known.                                                  *)
EndsOnce ==
    phase = "closed" =>
        LET last == out[Len(out)] IN
        /\ \A i \in DOMAIN out : out[i].type = "done" <=> i = Len(out)
        /\ last.value = IF received # <<>> \/ HasCall(out) THEN "tool_calls"
                        ELSE IF Alias(given) = "none" THEN "stop" ELSE Alias(given)
=============================================================================
