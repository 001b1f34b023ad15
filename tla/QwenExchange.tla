----------------------------- MODULE QwenExchange -----------------------------
(***************************************************************************)
(* providers/qwen/client.py, one call of stream_completion: in the web     *)
(* mode a chat is created first, then the completion is posted, and its    *)
(* answer, an event stream or a JSON document, becomes events.  Whatever   *)
(* goes wrong on the way leaves as an error of gateway/errors.py.          *)
(*                                                                         *)
(* The network is external: it answers with any status, cuts the body      *)
(* anywhere and may break at each step.  The events of a frame are reduced *)
(* to one, "parsed" if its data is JSON and "unknown" if it is not; JSON   *)
(* that QwenParser makes no event of counts as a frame without data; JSON  *)
(* it raises on, as int() does on a tool call's index that is no number,   *)
(* is odd.  A client that leaves closes the generator at a yield, which    *)
(* changes nothing here: that is CompletionService's Disconnect.           *)
(***************************************************************************)
EXTENDS SSEDecoder, UpstreamErrors

CONSTANTS
    Modes,       \* the modes of the credentials: "web", "portal"
    Statuses,    \* the HTTP statuses upstream answers with
    Headers,     \* its Retry-After headers, see RetryAfter
    Losses,      \* the exceptions a request may end with
    Breaks       \* the exceptions a body may end with

ASSUME ExchangeAssumption ==
    /\ Modes \subseteq {"web", "portal"}
    /\ Statuses \subseteq 200 .. 599
    /\ Headers \subseteq HeaderSet
    /\ Losses \union Breaks \subseteq HttpxErrors \union OSErrors

VARIABLES
    stage,     \* what the call waits for, or how it ended
    answered,  \* the status last answered, 0 if none
    shown,     \* the events yielded to the completion service
    failure,   \* the error raised to it
    unforeseen \* history: upstream sent what no handler of an exception names

exchangeVars == <<stage, answered, shown, failure, unforeseen>>
vars == <<decoderVars, exchangeVars>>

NoFailure == Internal

Init ==
    /\ DecoderInit
    /\ stage \in {IF mode = "web" THEN "chat" ELSE "post" : mode \in Modes}
    /\ answered = 0
    /\ shown = << >>
    /\ failure = NoFailure
    /\ unforeseen = FALSE

Raise(error) ==
    /\ stage' = "failed"
    /\ failure' = error

Proceed(next) ==
    /\ stage' = next
    /\ UNCHANGED failure

-----------------------------------------------------------------------------
(* _create_web_chat.                                                       *)

(* The answer to POST /chats/new.  Only a refusal of the credential ends   *)
(* the call; without a chat, and with one that is not read, it goes on.    *)
ChatAnswered(code, header) ==
    /\ stage = "chat"
    /\ IF code \in {401, 403, 429}
         THEN Raise(Refusal(code, header)) /\ unforeseen' = (header.kind = "endless")
         ELSE Proceed("post") /\ UNCHANGED unforeseen
    /\ answered' = code
    /\ UNCHANGED <<decoderVars, shown>>

(* An error of httpx is swallowed there, any other meets the handler of    *)
(* the completion service.                                                 *)
ChatLost(exc) ==
    /\ stage = "chat"
    /\ IF exc \in HttpxErrors THEN Proceed("post") ELSE Raise(FromException(exc))
    /\ answered' = 0
    /\ UNCHANGED <<decoderVars, shown, unforeseen>>

-----------------------------------------------------------------------------
(* _consume_sse.                                                           *)

Refuses(code, header) ==
    /\ code >= 400
    /\ Raise(Refusal(code, header))
    /\ unforeseen' = (header.kind = "endless")

(* The answer's status and type; a JSON document is read as a whole.       *)
Answered(code, header) ==
    /\ stage = "post"
    /\ \/ Refuses(code, header)
       \/ /\ code < 400
          /\ \E next \in {"stream", "document"} : Proceed(next)
          /\ UNCHANGED unforeseen
    /\ answered' = code
    /\ UNCHANGED <<decoderVars, shown>>

PostLost(exc) ==
    /\ stage = "post"
    /\ Raise(FromException(exc))
    /\ answered' = 0
    /\ UNCHANGED <<decoderVars, shown, unforeseen>>

(* After the last event: an answer without any is a parse error.           *)
Conclude == IF shown' = << >> THEN Raise(ParseError) ELSE Proceed("done")

(* What the parser raises passes the handler, which names httpx's errors   *)
(* and OSError, and becomes an internal error in the completion service.   *)
ParserRaises ==
    /\ Raise(FromException("ValueError"))
    /\ unforeseen' = TRUE

(* A document is JSON with events, JSON without, no JSON, or odd JSON.     *)
ReadDocument ==
    /\ stage = "document"
    /\ \/ /\ shown' \in {<<"parsed">>, <<"unknown">>, << >>}
          /\ Conclude
          /\ UNCHANGED unforeseen
       \/ ParserRaises /\ UNCHANGED shown
    /\ UNCHANGED <<decoderVars, answered>>

(* The text of a frame's data, its lines joined and stripped.              *)
Payload(frame) == FlattenSeq(frame.data)

(* A wrong variant: the end marker is data like any other.                 *)
EventsAndMarker(frame) ==
    CASE Payload(frame) = << >>      -> << >>
      [] Payload(frame) = <<"json">> -> <<"parsed">>
      [] OTHER                       -> <<"unknown">>

(* _frame_to_events, and the end marker that is skipped before it.         *)
EventsOf(frame) ==
    CASE Payload(frame) \in {<< >>, <<"done">>} -> << >>
      [] Payload(frame) = <<"json">>            -> <<"parsed">>
      [] OTHER                                  -> <<"unknown">>

AllEvents(fs) == FlattenSeq([i \in DOMAIN fs |-> EventsOf(fs[i])])

(* Frames the parser raises on, and the frames before the first of them.   *)
IsOdd(frame) == Payload(frame) = <<"odd">>
AnyOdd(fs)   == \E i \in DOMAIN fs : IsOdd(fs[i])
Legible(fs)  ==
    LET odd == {i \in DOMAIN fs : IsOdd(fs[i])}
    IN IF odd = {} THEN fs
       ELSE SubSeq(fs, 1, (CHOOSE i \in odd : \A j \in odd : i <= j) - 1)

NewFrames == SubSeq(frames', Len(frames) + 1, Len(frames'))

ReadChunk(chunk) ==
    /\ stage = "stream"
    /\ Push(chunk)
    /\ shown' = shown \o AllEvents(Legible(NewFrames))
    /\ IF AnyOdd(NewFrames) THEN ParserRaises
       ELSE UNCHANGED <<stage, failure, unforeseen>>
    /\ UNCHANGED answered

(* The body ends where upstream says it ends: what is left is flushed.     *)
BodyEnds ==
    /\ stage = "stream"
    /\ Close
    /\ shown' = shown \o AllEvents(Legible(NewFrames))
    /\ IF AnyOdd(NewFrames) THEN ParserRaises
       ELSE Conclude /\ UNCHANGED unforeseen
    /\ UNCHANGED answered

(* A wrong variant: what is left is flushed whatever happened.             *)
BreaksAfterFlush(exc) ==
    \/ /\ stage = "stream"
       /\ shown' = shown \o AllEvents(ParseFrame(buffer))
       /\ Raise(FromException(exc))
       /\ UNCHANGED <<decoderVars, answered, unforeseen>>
    \/ stage = "document" /\ Raise(FromException(exc))
       /\ UNCHANGED <<decoderVars, answered, shown, unforeseen>>

(* The body breaks off: the unfinished frame is dropped with the decoder,  *)
(* the events yielded before stay with the completion service.             *)
BodyBreaks(exc) ==
    /\ stage \in {"stream", "document"}
    /\ Raise(FromException(exc))
    /\ UNCHANGED <<decoderVars, answered, shown, unforeseen>>

Next ==
    \/ \E code \in Statuses, header \in Headers :
          ChatAnswered(code, header) \/ Answered(code, header)
    \/ \E exc \in Losses : ChatLost(exc) \/ PostLost(exc)
    \/ \E chunk \in Chunks : ReadChunk(chunk)
    \/ \E exc \in Breaks : BodyBreaks(exc)
    \/ BodyEnds \/ ReadDocument

Spec == Init /\ [][Next]_vars

-----------------------------------------------------------------------------
(* Properties.                                                             *)

(* A body that breaks off has shown the events of its complete frames, all *)
(* of them and nothing of the frame it broke in, wherever the chunks were  *)
(* cut: a fail-over after it repeats nothing half told, and what a client  *)
(* has seen before the error is an exact beginning (client.py:445-461).  A *)
(* frame the parser raises on ends it there, whatever came with it.        *)
BrokenBodyIsWhole ==
    stage = "failed" /\ ~closed => shown = AllEvents(Legible(Drain(Whole).frames))

(* A body that ends well is an answer exactly if one of its frames, as the *)
(* format defines them, carries data other than the end marker; if none    *)
(* does, as with an HTML page or a stream of nothing but [DONE], the call  *)
(* fails with a parse error (client.py:463-464, README.md:734,             *)
(* tests/test_qwen_adapter.py:147).  If one of them is odd it is no answer *)
(* but an internal error.                                                  *)
EmptyIsMalformed ==
    closed /\ ~MixedBlank(Whole) =>
       IF AnyOdd(Reference(Whole))
         THEN stage = "failed" /\ failure = Internal
       ELSE IF \E i \in DOMAIN Reference(Whole) :
             Payload(Reference(Whole)[i]) \notin {<< >>, <<"done">>}
         THEN stage = "done"
         ELSE stage = "failed" /\ failure = ParseError

(* However a call fails, the gateway blames itself, with an error that     *)
(* neither rests the credential nor is retried, exactly if upstream sent   *)
(* what no handler names: an endless Retry-After or odd JSON.  Any other   *)
(* failure is laid to upstream: a refusal of the credential or a           *)
(* throttling counts as such and leads to another credential, from the     *)
(* first request as from the second, and only a request that upstream      *)
(* holds invalid is not retried (errors.py:228-294, client.py:458-461).    *)
FailureIsUpstreams ==
    stage = "failed" =>
       /\ failure.category = "internal" <=> unforeseen
       /\ ~unforeseen =>
             /\ ~failure.retryable => answered \in {400, 404}
             /\ answered \in {401, 403, 429, 498} =>
                   failure.category \in {"authentication", "permission", "rate_limit"}
=============================================================================
