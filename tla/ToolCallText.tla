----------------------------- MODULE ToolCallText -----------------------------
(***************************************************************************)
(* ToolCallTextParser (providers/qwen/tools.py): <tool_call> blocks are    *)
(* taken out of the assistant's text while it arrives.  A text is the one  *)
(* of MarkupSplitter; the piece "call" stands for the JSON of a call to a  *)
(* declared tool, which is what parse_tool_block accepts, and anything     *)
(* else in a block for what it rejects.                                    *)
(***************************************************************************)
EXTENDS MarkupSplitter

Item(kind, at) == [kind |-> kind, at |-> at]
TextItem(b) == IF b = <<>> THEN <<>> ELSE <<Item("text", b)>>

(* Position of the first marker "<tool_call>" or "</tool_call>", 0 if none.*)
Marker(b, name) ==
    LET at == {i \in DOMAIN b : /\ Is(b, i, "<") /\ Is(b, i + 1, name)
                                /\ Is(b, i + 2, ">")}
    IN IF at = {} THEN 0 ELSE CHOOSE i \in at : \A j \in at : i <= j

(* parse_tool_block: a block that calls a declared tool and says nothing   *)
(* else becomes a call, any other a warning.                               *)
ParseBlock(block) ==
    IF Len(block) = 1 /\ Is(block, 1, "call") THEN Item("tool_call", block)
    ELSE Item("warning", block)

(* "<" and "<tool_call": a beginning of TOOL_OPEN.                         *)
IsPartialMarker(b) ==
    \/ Len(b) = 1 /\ Is(b, 1, "<")
    \/ Len(b) = 2 /\ Is(b, 1, "<") /\ Is(b, 2, "tool_call")

(* _safe_text_boundary: how much of b cannot be part of a marker.          *)
SafeTextBoundary(b) ==
    LET at == {i \in DOMAIN b : Is(b, i, "<") /\ IsPartialMarker(From(b, i))}
    IN IF at = {} THEN Len(b) ELSE (CHOOSE i \in at : TRUE) - 1

NewToolParser == [buffer |-> <<>>, inside |-> FALSE]

(* One round of the loop in feed.  p is the parser, with what it returned  *)
(* so far in p.items.  A round that takes no marker leaves a parser that   *)
(* the next does not change.                                               *)
TakeMarker(p) ==
    IF p.inside
      THEN LET end == Marker(p.buffer, "/tool_call") IN
           IF end = 0 THEN p
           ELSE [buffer |-> From(p.buffer, end + 3),
                 inside |-> FALSE,
                 items |-> Append(p.items, ParseBlock(Part(p.buffer, 1, end - 1)))]
      ELSE LET start == Marker(p.buffer, "tool_call") IN
           IF start # 0
             THEN [buffer |-> From(p.buffer, start + 3),
                   inside |-> TRUE,
                   items |-> p.items \o TextItem(Part(p.buffer, 1, start - 1))]
             ELSE LET upto == SafeTextBoundary(p.buffer) IN
                  [buffer |-> From(p.buffer, upto + 1), inside |-> FALSE,
                   items |-> p.items \o TextItem(Part(p.buffer, 1, upto))]

(* feed, after the chunk has been appended.                                *)
TakeBlocks(p) ==
    LET round[n \in 0..Len(p.buffer) + 1] ==
          IF n = 0 THEN p ELSE TakeMarker(round[n - 1])
    IN round[Len(p.buffer) + 1]

ToolFed(p, chunk) ==
    TakeBlocks([buffer |-> p.buffer \o chunk, inside |-> p.inside,
                items |-> <<>>])

(* close: an unterminated block is tried once; text held back is dropped.  *)
CallIfAny(block) ==
    IF ParseBlock(block).kind = "tool_call" THEN <<ParseBlock(block)>> ELSE <<>>

ToolFlushed(p) == IF p.inside THEN CallIfAny(p.buffer) ELSE <<>>

-----------------------------------------------------------------------------
(* The items of a complete text, block by block.                           *)
NextItems(p) ==
    LET start  == Marker(p.buffer, "tool_call")
        inner  == From(p.buffer, start + 3)
        end    == Marker(inner, "/tool_call")
        prefix == TextItem(Part(p.buffer, 1, start - 1))
    IN CASE start = 0 ->
              [buffer |-> <<>>, items |-> p.items \o TextItem(p.buffer)]
         [] start # 0 /\ end = 0 ->
              [buffer |-> <<>>,
               items |-> p.items \o prefix \o CallIfAny(inner)]
         [] OTHER ->
              [buffer |-> From(inner, end + 3),
               items |-> p.items \o prefix \o <<ParseBlock(Part(inner, 1, end - 1))>>]

Items(b) ==
    LET round[n \in 0..Len(b)] ==
          IF n = 0 THEN [buffer |-> b, items |-> <<>>] ELSE NextItems(round[n - 1])
    IN round[Len(b)].items
=============================================================================
