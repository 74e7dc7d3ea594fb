----------------------------- MODULE MCAgentLoop -----------------------------
EXTENDS AgentLoop

CONSTANTS t1, t2, k1, k2, n1, n2

\* Three short turns, so that the third user message from the end counts.
ShortTurns ==
  FlattenSeq([i \in 1 .. 3 |-> <<UserMessage(-i), AssistantMessage(-i, <<>>)>>])

\* One turn longer than the history: the cut falls between a call and its results.
LongTurn ==
  LET ids == [i \in 1 .. 4 |-> <<-1, i>>]
  IN <<UserMessage(-1), AssistantMessage(-1, ids)>>
     \o [i \in 1 .. 4 |-> ToolMessage(-1, ids[i])]
     \o <<AssistantMessage(-1, <<>>)>>

Stores ==
  {[k \in {k1, k2} |-> IF k = k1 THEN ms ELSE <<>>] : ms \in {<<>>, ShortTurns, LongTurn}}

Body(kind, text, tools) == [kind |-> kind, text |-> text, tools |-> tools]

MCResponses ==
  {Body("error", "", <<>>), Body("ok", "", <<>>), Body("ok", "text", <<>>),
   Body("ok", "", <<"edit_file", "agent">>), Body("ok", "", <<"plan_work">>)}
=============================================================================
