------------------------------- MODULE Context -------------------------------
(***************************************************************************)
(* What the model is sent: the part of a stored conversation that a turn   *)
(* starts from (Session::GetHistory) and the projection of the turn's      *)
(* messages before every call (ContextBuilder::ProjectMessages).           *)
(*                                                                         *)
(* A message is a record: its role, the turn it belongs to, the id of the  *)
(* call it answers (a tool's result), the ids of the calls it makes (an    *)
(* assistant's message) and a tag, "virtual" for is_virtual and "reminder" *)
(* for a text that begins with <system-reminder>.  Texts are left out.     *)
(***************************************************************************)
EXTENDS Integers, Sequences, FiniteSets, FiniteSetsExt, SequencesExt, Selection

NoCall == <<0, 0>>

Message(role, turn, id, calls, tag) ==
  [role |-> role, turn |-> turn, id |-> id, calls |-> calls, tag |-> tag]

SystemMessage == Message("system", 0, NoCall, <<>>, "")
UserMessage(turn) == Message("user", turn, NoCall, <<>>, "")
AssistantMessage(turn, calls) == Message("assistant", turn, NoCall, calls, "")
ToolMessage(turn, id) == Message("tool", turn, id, <<>>, "")
VirtualMessage(turn) == Message("user", turn, NoCall, <<>>, "virtual")

HasRole(ms, role) == {i \in DOMAIN ms : ms[i].role = role}

\* The third from the last of a set of at least three positions.
ThirdLast(S) == CHOOSE i \in S : Cardinality({j \in S : j >= i}) = 3

\* Session::GetHistory: at most max messages, from the third user message from
\* the end, else from the first one; without any, wherever the cut falls.
GetHistory(ms, max) ==
  LET hard_start == IF Len(ms) > max THEN Len(ms) - max + 1 ELSE 1
      users == {i \in HasRole(ms, "user") : i >= hard_start}
      start == IF users = {} THEN hard_start
               ELSE IF Cardinality(users) >= 3 THEN ThirdLast(users)
               ELSE Min(users)
  IN SubSeq(ms, start, Len(ms))

\* ContextBuilder::BuildMessages.
BuildMessages(history, turn) ==
  <<SystemMessage>> \o history \o <<UserMessage(turn)>>

----------------------------------------------------------------------------
(* ProjectMessages *)

\* Mutant of ProtectedStart.
LastTwo(ms) == Len(ms) - 1

\* std::remove_if on is_virtual.
WithoutVirtual(ms) == EntriesAt(ms, {i \in DOMAIN ms : ms[i].tag # "virtual"})

\* Where the protected tail begins: at the third user message from the end; with
\* fewer of them at the last assistant message; without one after the end.
ProtectedStart(ms) ==
  LET users == HasRole(ms, "user")
      assistants == HasRole(ms, "assistant")
  IN IF Cardinality(users) >= 3 THEN ThirdLast(users)
     ELSE IF assistants # {} THEN Max(assistants)
     ELSE Len(ms) + 1

\* What is before the tail is dropped, but for system messages.
Snipped(ms) ==
  EntriesAt(ms, HasRole(ms, "system") \cup (ProtectedStart(ms) .. Len(ms)))

CallsOf(ms) == UNION {ToSet(ms[i].calls) : i \in HasRole(ms, "assistant")}
AnsweredIn(ms) == {ms[i].id : i \in HasRole(ms, "tool")}

\* A placeholder result for every call without one, at the end, in any order.
WithPlaceholders(ms) ==
  ms \o SetToSeq({ToolMessage(0, id) : id \in CallsOf(ms) \ AnsweredIn(ms)})

\* A reminder that follows a tool's result becomes part of that result.
Coalesced(ms) ==
  LET stray(i) == ms[i].role = "user" /\ ms[i].tag = "reminder"
      role[i \in 0 .. Len(ms)] ==   \* role of merged.back() after message i
        IF i = 0 THEN ""
        ELSE IF stray(i) /\ role[i - 1] = "tool" THEN "tool"
        ELSE ms[i].role
  IN EntriesAt(ms, {i \in DOMAIN ms : ~(stray(i) /\ role[i - 1] = "tool")})

ProjectMessages(ms) == Coalesced(WithPlaceholders(Snipped(WithoutVirtual(ms))))

----------------------------------------------------------------------------
(* What a sequence of messages may be *)

IsSeq(s) == s \in Seq(ToSet(s))

\* A message, as each of them is made: only an assistant's has calls, only a tool's
\* the id of one, and what is virtual is said by the user.
IsMessage(m) ==
  /\ IsSeq(m.calls)
  /\ m.role # "assistant" => m.calls = <<>>
  /\ m.role # "tool" => m.id = NoCall
  /\ m.tag = "virtual" => m.role = "user"

IsConversation(ms) == IsSeq(ms) /\ \A i \in DOMAIN ms : IsMessage(ms[i])

\* Every call has its result, in the order of the calls, right after the message
\* that makes them, and every result has its call.
Paired(ms) ==
  /\ \A i \in HasRole(ms, "assistant") :
       LET n == Len(ms[i].calls) IN
       /\ i + n <= Len(ms)
       /\ \A j \in 1 .. n : ms[i + j].role = "tool" /\ ms[i + j].id = ms[i].calls[j]
  /\ \A i \in HasRole(ms, "tool") :
       \E j \in HasRole(ms, "assistant") : j < i /\ i - j <= Len(ms[j].calls)

IsFinal(m) == m.role = "assistant" /\ m.calls = <<>>

\* A conversation of whole turns: each begins with the user's message and ends
\* with the answer.
WholeTurns(ms) ==
  /\ Paired(ms)
  /\ ms # <<>> => ms[1].role = "user" /\ IsFinal(Last(ms))
  /\ \A i \in HasRole(ms, "user") : i = 1 \/ IsFinal(ms[i - 1])
  /\ \A i \in DOMAIN ms : IsFinal(ms[i]) => i = Len(ms) \/ ms[i + 1].role = "user"
=============================================================================
