------------------------------ MODULE ChatStream ------------------------------
(***************************************************************************)
(* One upstream turn as the client sees it: the events of the provider     *)
(* through StreamFormatter and ResponseAggregator (gateway/normalizer.py), *)
(* the loop of stream() that drives them and the body sse_response_body    *)
(* makes of the chunks (gateway/streaming.py), beside the answer           *)
(* complete() would have given for the same events.                        *)
(*                                                                         *)
(* The events come in any order the parser may give them: at most one      *)
(* "done", as the last one.  Text is a number per event, so that its order *)
(* shows.                                                                  *)
(***************************************************************************)
EXTENDS Naturals, Sequences, FiniteSets, SequencesExt

CONSTANTS
    Calls,            \* tool calls the provider may emit
    Plain,            \* event types without a payload it may emit
    MaxEvents,        \* bound on the events before "done"
    Reasons,          \* finish reasons of "done"
    ExposeReasoning,  \* expose_reasoning
    IncludeUsage      \* stream_options.include_usage

(* Every call comes with arguments: the parser puts {} where upstream gives *)
(* none (_ToolAccumulator.finalize, coerce_arguments).                     *)
ASSUME TurnAssumption ==
    /\ Calls \subseteq [id : Nat, index : Nat, name : STRING,
                        arguments : Seq(Nat) \ {<<>>}]
    /\ Plain \subseteq {"tool_result", "metadata", "system_event", "usage", "unknown"}
    /\ MaxEvents \in Nat

VARIABLES
    events,   \* history: the events so far
    result,   \* the AggregatedResult
    indexes,  \* StreamFormatter._tool_indexes: the ids, by index
    started,  \* _tool_started
    emitted,  \* emitted_any
    yielded,  \* what sse_response_body has yielded
    verdict   \* "open", "success", "parse_error", "upstream_error"

chatVars == <<events, result, indexes, started, emitted, yielded, verdict>>

Event(type, value) == [type |-> type, value |-> value]
Chunk(kind, index, value) == [kind |-> kind, index |-> index, value |-> value]

EmptyResult ==
    [content |-> <<>>, reasoning |-> <<>>, calls |-> <<>>, usage |-> 0,
     finish |-> "none", error |-> FALSE]

ChatInit ==
    /\ events = <<>>
    /\ result = EmptyResult
    /\ indexes = <<>>
    /\ started = {}
    /\ emitted = FALSE
    /\ yielded = <<>>
    /\ verdict = "open"

-----------------------------------------------------------------------------
(* ResponseAggregator.                                                     *)

(* What _merge_tool_call takes for the same call.                          *)
SameCall(a, b) == a.id = b.id \/ (a.index = b.index /\ a.name = b.name)

(* A wrong variant: a second call of a tool is taken for a repetition.     *)
MergeByName(calls, c) ==
    IF \E i \in DOMAIN calls : calls[i].name = c.name THEN calls ELSE Append(calls, c)

MergeCall(calls, c) ==
    LET same == {i \in DOMAIN calls : SameCall(calls[i], c)} IN
    IF same = {} THEN Append(calls, c)
    ELSE LET i == CHOOSE k \in same : \A n \in same : k <= n IN
         [calls EXCEPT ![i].name = IF c.name # "" THEN c.name ELSE @,
                       ![i].arguments =
                          IF c.arguments # <<>> THEN c.arguments ELSE @]

(* add.                                                                    *)
Aggregated(r, e) ==
    CASE e.type = "text" -> [r EXCEPT !.content = Append(@, e.value)]
      [] e.type = "reasoning" -> [r EXCEPT !.reasoning = Append(@, e.value)]
      [] e.type = "tool_call" -> [r EXCEPT !.calls = MergeCall(@, e.value)]
      [] e.type = "usage" -> [r EXCEPT !.usage = e.value]
      [] e.type = "error" -> [r EXCEPT !.error = TRUE]
      [] e.type = "done" -> [r EXCEPT !.finish = e.value]
      [] OTHER -> r

(* effective_finish_reason.                                                *)
EffectiveReason(r) ==
    IF r.calls # <<>> THEN "tool_calls"
    ELSE IF r.finish # "none" THEN r.finish ELSE "stop"

Public(id, name, arguments) == [id |-> id, name |-> name, arguments |-> arguments]

(* The public message of to_response.                                      *)
Message(r) ==
    [content   |-> r.content,
     reasoning |-> IF ExposeReasoning THEN r.reasoning ELSE <<>>,
     calls     |-> [i \in DOMAIN r.calls |->
                      Public(r.calls[i].id, r.calls[i].name, r.calls[i].arguments)],
     finish    |-> EffectiveReason(r)]

(* complete() aggregates the events of the whole turn, and judges them in  *)
(* _finish_success.                                                        *)
Complete ==
    LET after[n \in 0 .. Len(events)] ==
          IF n = 0 THEN EmptyResult ELSE Aggregated(after[n - 1], events[n])
    IN after[Len(events)]

CompleteVerdict ==
    IF Complete.error THEN "upstream_error"
    ELSE IF Complete.content = <<>> /\ Complete.calls = <<>> THEN "parse_error"
    ELSE "success"

-----------------------------------------------------------------------------
(* StreamFormatter.                                                        *)

(* The index a call is streamed under: its place in _tool_indexes.         *)
ToolIndex(id) ==
    LET at == {i \in DOMAIN indexes : indexes[i] = id}
    IN IF at = {} THEN Len(indexes) ELSE (CHOOSE i \in at : TRUE) - 1

(* _tool_chunks.                                                           *)
ToolChunks(c) ==
    (IF c.id \in started THEN <<>>
     ELSE <<Chunk("call", ToolIndex(c.id), [id |-> c.id, name |-> c.name])>>)
    \o (IF c.arguments = <<>> THEN <<>>
        ELSE <<Chunk("arguments", ToolIndex(c.id), c.arguments)>>)

(* final_chunk, once the event has been aggregated into r.                 *)
FinalChunk(r, reason) ==
    Chunk("final", 0,
          IF r.calls # <<>> THEN "tool_calls"
          ELSE IF reason # "none" THEN reason ELSE EffectiveReason(r))

(* handle: the chunks of one event.                                        *)
ChunksOf(e) ==
    CASE e.type = "text" -> <<Chunk("content", 0, e.value)>>
      [] e.type = "reasoning" ->
            IF ExposeReasoning THEN <<Chunk("reasoning", 0, e.value)>> ELSE <<>>
      [] e.type = "tool_call" -> ToolChunks(e.value)
      [] e.type = "done" -> <<FinalChunk(Aggregated(result, e), e.value)>>
      [] OTHER -> <<>>

(* A wrong variant: only text counts as an answer.                         *)
TextOnly(e) == e.type = "text"

(* An event that reaches the client sets emitted_any.                      *)
Emits(e) == ChunksOf(e) # <<>>

(* The opening chunk goes out before the first chunk of the turn.          *)
Opened(chunks) ==
    IF chunks = <<>> \/ emitted THEN chunks
    ELSE <<Chunk("role", 0, 0)>> \o chunks

(* A wrong variant: an error ends the body without [DONE].                 *)
BareError == <<Chunk("error", 0, 0)>>

(* The end of sse_response_body: an error frame, if the turn failed with   *)
(* the stream begun, and [DONE].                                           *)
ErrorEnd == <<Chunk("error", 0, 0), Chunk("[DONE]", 0, 0)>>

(* An event of the provider, in stream()'s loop.                           *)
Handle(e) ==
    /\ verdict = "open"
    /\ Len(events) < MaxEvents
    /\ e.type # "error"
    /\ events' = Append(events, e)
    /\ result' = Aggregated(result, e)
    /\ yielded' = yielded \o Opened(ChunksOf(e))
    /\ emitted' = (emitted \/ Emits(e))
    /\ indexes' = IF e.type = "tool_call" /\ ToolIndex(e.value.id) = Len(indexes)
                    THEN Append(indexes, e.value.id) ELSE indexes
    /\ started' = IF e.type = "tool_call" THEN started \union {e.value.id}
                                          ELSE started
    /\ UNCHANGED verdict

(* A failure that has reached the client is the last frame before [DONE];  *)
(* without one another credential is tried.                                *)
Fail(result_) ==
    /\ verdict' = result_
    /\ yielded' = IF emitted THEN yielded \o ErrorEnd ELSE yielded

(* The parser's "done", then the end of stream(): the usage chunk and the  *)
(* verdict.  reason "none" is a provider that emits no "done".             *)
EndOfTurn(reason) ==
    LET done   == IF reason = "none" THEN <<>> ELSE <<Event("done", reason)>>
        chunks == IF done = <<>> THEN <<>> ELSE Opened(ChunksOf(done[1]))
        final  == IF done # <<>> THEN <<>>
                  ELSE <<FinalChunk(result, "none")>>
        usage  == IF IncludeUsage THEN <<Chunk("usage", 0, result.usage)>>
                                  ELSE <<>>
    IN /\ verdict = "open"
       /\ events' = events \o done
       /\ result' = IF done = <<>> THEN result ELSE Aggregated(result, done[1])
       /\ emitted' = (emitted \/ (done # <<>> /\ Emits(done[1])))
       /\ IF emitted'
            THEN /\ verdict' = "success"
                 /\ yielded' = yielded \o chunks \o final \o usage
                                 \o <<Chunk("[DONE]", 0, 0)>>
            ELSE Fail("parse_error")
       /\ UNCHANGED <<indexes, started>>

(* An error event, or the failure of the connection.                       *)
Break(e) ==
    /\ verdict = "open"
    /\ events' = Append(events, e)
    /\ Fail("upstream_error")
    /\ UNCHANGED <<result, indexes, started, emitted>>

Payloads ==
    {Event("text", Len(events)), Event("reasoning", Len(events))}
    \union {Event("tool_call", c) : c \in Calls}
    \union {Event(t, Len(events)) : t \in Plain}

ChatNext ==
    \/ \E e \in Payloads : Handle(e)
    \/ \E r \in Reasons \union {"none"} : EndOfTurn(r)
    \/ Break(Event("error", 0))

ChatSpec == ChatInit /\ [][ChatNext]_chatVars

-----------------------------------------------------------------------------
(* The message a client puts together: it adds each chunk to what it has,  *)
(* a part of a call to the call of that index.                             *)
NoMessage == [content |-> <<>>, reasoning |-> <<>>, calls |-> <<>>, finish |-> "none"]

Received(m, c) ==
    CASE c.kind = "content"   -> [m EXCEPT !.content = Append(@, c.value)]
      [] c.kind = "reasoning" -> [m EXCEPT !.reasoning = Append(@, c.value)]
      [] c.kind = "call"      ->
            [m EXCEPT !.calls =
                [i \in DOMAIN @ \union {c.index + 1} |->
                    IF i = c.index + 1 THEN Public(c.value.id, c.value.name, <<>>)
                                       ELSE @[i]]]
      [] c.kind = "arguments" -> [m EXCEPT !.calls[c.index + 1].arguments = @ \o c.value]
      [] c.kind = "final"     -> [m EXCEPT !.finish = c.value]
      [] OTHER                -> m

Reassembled ==
    LET after[n \in 0 .. Len(yielded)] ==
          IF n = 0 THEN NoMessage ELSE Received(after[n - 1], yielded[n])
    IN after[Len(yielded)]

(* No two calls of the turn are the same to _merge_tool_call.              *)
IsCall(e) == e.type = "tool_call"
ToldApart ==
    \A i, j \in DOMAIN events :
        i # j /\ IsCall(events[i]) /\ IsCall(events[j]) =>
            ~SameCall(events[i].value, events[j].value)

Ids(calls) == {calls[i].id : i \in DOMAIN calls}

(* A client that streams and one that waits get the same text, reasoning   *)
(* and finish reason for the same turn, and every call of the complete     *)
(* answer is one the stream began.  The calls are the same, arguments too, *)
(* exactly in the turns without two that _merge_tool_call takes for one: of *)
(* these complete() keeps one with the arguments of one, while the stream  *)
(* begins one per id and sends the arguments of all.                       *)
StreamedIsComplete ==
    verdict = "success" /\ CompleteVerdict = "success" =>
        LET message == Message(Complete) IN
        /\ Reassembled.content = message.content
        /\ Reassembled.reasoning = message.reasoning
        /\ Reassembled.finish = message.finish
        /\ Ids(message.calls) \subseteq Ids(Reassembled.calls)
        /\ Reassembled.calls = message.calls <=> ToldApart

(* The frames of a body come in the order clients rely on: the role first, *)
(* a call before its arguments, one final chunk, then at most the usage;   *)
(* [DONE] ends it, whether the turn succeeded or broke off.                *)
Place(kind) == {i \in DOMAIN yielded : yielded[i].kind = kind}
BodyIsFramed ==
    /\ yielded # <<>> => Place("role") = {1}
    /\ \A i \in Place("arguments") :
          \E k \in Place("call") : k < i /\ yielded[k].index = yielded[i].index
    /\ \A i \in Place("final") :
          \A k \in (i + 1)..Len(yielded) : yielded[k].kind \in {"usage", "error", "[DONE]"}
    /\ verdict = "success" => Cardinality(Place("final")) = 1
    /\ verdict # "open" /\ yielded # <<>> => Place("[DONE]") = {Len(yielded)}
    /\ verdict = "upstream_error" /\ yielded # <<>> => Place("error") = {Len(yielded) - 1}

(* complete() accepts exactly the turns with text or a call that stream()  *)
(* accepts, and both take a turn that broke off for an error of upstream.  *)
(* A turn with neither text nor call is no answer to complete()            *)
(* (completion_service.py:128), while any chunk makes it one to stream().  *)
CompleteImpliesStreamed ==
    verdict # "open" =>
        /\ CompleteVerdict = "success" <=>
              /\ verdict = "success"
              /\ \E i \in DOMAIN events : events[i].type \in {"text", "tool_call"}
        /\ CompleteVerdict = "upstream_error" <=> verdict = "upstream_error"
=============================================================================
