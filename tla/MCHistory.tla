------------------------------ MODULE MCHistory ------------------------------
(* Small answers and turns for History. *)
EXTENDS History

Signed(type, t, s) == Block(type, <<t>>, "", "", s, <<>>)
ToolCall(id, name, s) == Block("toolCall", <<>>, id, name, s, <<>>)
Result(id, inner) == Block("tool-result", <<>>, id, "", "", inner)

MCAnswers ==
    {[content |-> <<Signed("thinking", "why", "s1"), Signed("text", "yes", "")>>,
      stop |-> "stop"],
     [content |-> <<ToolCall("c1", "read", "s1"), ToolCall("c1", "write", "s2")>>,
      stop |-> "toolUse"],
     [content |-> <<Signed("text", "well", "s3"), ToolCall("c2", "read", "")>>,
      stop |-> "toolUse"]}

MCRewritings == {<<"cut">>}

MCTurns ==
    {<<Text(<<"do">>), Text(<<>>), Text(<<"it">>)>>,
     <<Result("c1", <<Text(<<"done">>)>>)>>,
     <<Text(<<"and">>), Result("c2", <<>>),
       Result("c1", <<Text(<<"a">>), Result("c2", <<Text(<<"b">>)>>)>>)>>,
     <<Result("c2", <<Text(<<>>)>>), Image("scan")>>,
     <<>>}

ResultsIn(blocks) == {b \in Range(blocks) : b.type = "tool-result"}
MCResults ==
    LET said == UNION {ResultsIn(t) : t \in MCTurns}
    IN said \cup UNION {ResultsIn(r.inner) : r \in said}

\* What the stability of the prefix rests on, beyond the steps of the loop.
ASSUME AgreementAssumption == ConvertersAgree
=============================================================================
