------------------------------- MODULE Provider -------------------------------
(***************************************************************************)
(* One call of the language model (LiteLLMProvider::Chat,                  *)
(* src/providers/litellm_provider.cpp): what of the messages is put into   *)
(* the request, in each of the two styles it may be written in, and what   *)
(* becomes of the response.  Texts, tool definitions, URL, proxy and       *)
(* headers are left out.                                                   *)
(***************************************************************************)
EXTENDS Context

\* ShouldUseAnthropicMessages decides by the names of model and server.
Styles == {"anthropic", "openai"}

\* An entry of payload["messages"]: its role, the tool calls it makes and the call
\* whose result it is, which makes it the user's in one of the styles.
AnthropicEntry(m) ==
  [role |-> IF m.role = "tool" THEN "user" ELSE m.role,
   uses |-> IF m.role = "assistant" THEN m.calls ELSE <<>>,
   result |-> m.id]

OpenAiEntry(m) == [role |-> m.role, uses |-> m.calls, result |-> m.id]

\* In one style the system messages are no entries but a field of the payload.
PayloadMessages(style, ms) ==
  LET said == EntriesAt(ms, {i \in DOMAIN ms : ms[i].role # "system"}) IN
  IF style = "anthropic" THEN [i \in DOMAIN said |-> AnthropicEntry(said[i])]
  ELSE [i \in DOMAIN ms |-> OpenAiEntry(ms[i])]

\* What the server accepts: the results of the calls an entry makes follow it at
\* once, in the order of the calls, and there is no other result.
WholeExchanges(entries) ==
  /\ \A i \in DOMAIN entries : \A n \in DOMAIN entries[i].uses :
       /\ i + n <= Len(entries)
       /\ entries[i + n].result = entries[i].uses[n]
  /\ \A i \in DOMAIN entries :
       entries[i].result # NoCall =>
         \E j \in 1 .. i - 1 : /\ i - j <= Len(entries[j].uses)
                               /\ entries[j].uses[i - j] = entries[i].result

\* LLMResponse.  No response, an HTTP error, a body that is no JSON or has no
\* choices, and every exception become a text, which is an answer like any other.
LLMResponse(body) ==
  IF body.kind = "error" THEN [text |-> "error", tool_calls |-> <<>>]
  ELSE [text |-> body.text, tool_calls |-> body.tools]
=============================================================================
