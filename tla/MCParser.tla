------------------------------- MODULE MCParser -------------------------------
(* Small responses for QwenParser.                                         *)
EXTENDS QwenParser

(* Every answer of at most n of these blocks.                              *)
Answers(blocks, n) ==
    UNION {{FlattenSeq(s) : s \in [1..k -> blocks]} : k \in 1..n}

MarkupBlocks == {<<"prose">>, <<"meta">>, <<"<">>, <<"<", "details", ">">>,
                 <<"<", "details", "attr", ">">>, <<"<", "/details", ">">>}
ToolBlocks == {<<"prose">>, <<"<">>, <<"call">>, <<"<", "tool_call", ">">>,
               <<"<", "/tool_call", ">">>, <<"<", "details", ">">>,
               <<"<", "/details", ">">>}

(* Nothing, a word, and a call in the text.                                *)
FewAnswers == {<<>>, <<"prose">>,
               <<"<", "tool_call", ">", "call", "<", "/tool_call", ">">>}

Response(answer, cuts, withTools, deltas) ==
    [answer |-> answer, cuts |-> cuts, tools |-> withTools, deltas |-> deltas,
     thoughts |-> IF deltas = 0 THEN 0 ELSE 2, others |-> deltas # 0]

(* Answers alone, with wrappers or with tools in every cut, and short      *)
(* answers among frames of every other kind.                               *)
AllResponses ==
    {Response(a, cuts, FALSE, 0) :
        a \in Answers(MarkupBlocks, 4), cuts \in {"between", "closing"}}
    \union {Response(a, "between", TRUE, 0) : a \in Answers(ToolBlocks, 4)}
    \union {Response(a, "between", TRUE, 3) : a \in FewAnswers}

TornResponses == {Response(a, "opening", FALSE, 0) : a \in Answers(MarkupBlocks, 3)}

Fragment(i, id, name, args) ==
    [index |-> i, id |-> id, name |-> name, arguments |-> args]

NativeCalls == {Fragment(0, 7, "f", <<>>), Fragment(0, 0, "", <<1>>),
                Fragment(1, 8, "g", <<2>>), Fragment(1, 0, "", <<3>>)}
=============================================================================
