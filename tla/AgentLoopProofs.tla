--------------------------- MODULE AgentLoopProofs ---------------------------
(* Theorems about AgentLoop for any number of threads, sessions, subagents, *)
(* turns and crashes, and whatever the model responds.                      *)
EXTENDS AgentLoop, SelectionProofs, FiniteSetTheorems, SequenceTheorems, TLAPS

TurnFields ==
  {"at", "key", "n", "guardrail", "session", "context", "iteration",
   "toolCalled", "retried", "reminded", "calls", "planned"}
AgentFields == {"at", "status", "turns", "key", "home", "copy"}
InLoop == {"loop", "tools", "finish"}

\* A session whose notifications are of subagents that session k has started.
SessionOf(s, k, subagents) ==
  /\ DOMAIN s = {"messages", "notes"}
  /\ IsSeq(s.messages)
  /\ s.notes \in Seq(Agents)
  /\ \A i \in DOMAIN s.notes :
       subagents[s.notes[i]].at # "free" /\ subagents[s.notes[i]].home = k

\* The copy of a turn has no notifications: they were taken out of it.
IsCopy(s) ==
  /\ DOMAIN s = {"messages", "notes"}
  /\ IsSeq(s.messages)
  /\ s.notes = <<>>

\* Types.
TurnInv ==
  /\ DOMAIN turn = Threads
  /\ \A t \in Threads :
       /\ DOMAIN turn[t] = TurnFields
       /\ turn[t].at # "idle" => turn[t].key \in Keys
       /\ turn[t].at \in InLoop => IsCopy(turn[t].session)

\* One turn at a time, and the tools know its session.
LockInv ==
  \A t \in Threads : turn[t].at # "idle" =>
    /\ target = turn[t].key
    /\ \A u \in Threads : turn[u].at # "idle" => u = t

\* A subagent that runs knows the session that started it.
AgentInv ==
  /\ DOMAIN agent = Agents
  /\ \A n \in Agents :
       /\ DOMAIN agent[n] = AgentFields
       /\ agent[n].at \notin {"free", "done"} =>
            agent[n].key \in Keys /\ agent[n].home = agent[n].key
       /\ agent[n].at = "saving" => SessionOf(agent[n].copy, agent[n].key, agent)

\* What is kept of a session, in memory and on disk.
StoreInv ==
  /\ DOMAIN cache = Keys /\ DOMAIN db = Keys
  /\ \A k \in Keys :
       /\ cache[k] # NoSession => SessionOf(cache[k], k, agent)
       /\ db[k] # NoSession => SessionOf(db[k], k, agent)
       /\ cache[k] # NoSession /\ db[k] # NoSession => cache[k] = db[k]

\* The copy of a turn continues what is stored, until a completion handler has
\* saved over it what was out of date.
GrowInv ==
  \A t \in Threads :
    turn[t].at \in InLoop =>
      LET k == turn[t].key IN
        \/ db[k] = NoSession
        \/ k \in stale
        \/ IsPrefix(db[k].messages, turn[t].session.messages)

Inv == TurnInv /\ LockInv /\ AgentInv /\ StoreInv /\ GrowInv

\* Whole turns, and perhaps a last one to which the answer is missing.
Turns(ms) ==
  /\ Paired(ms)
  /\ ms # <<>> => ms[1].role = "user"
  /\ \A i \in HasRole(ms, "user") : i = 1 \/ IsFinal(ms[i - 1])
  /\ \A i \in DOMAIN ms : IsFinal(ms[i]) => i = Len(ms) \/ ms[i + 1].role = "user"

Whole(ms) == IsConversation(ms) /\ WholeTurns(ms)
Open(ms) == IsConversation(ms) /\ Turns(ms) /\ ms # <<>> /\ ~IsFinal(Last(ms))

\* The results of the calls of message i follow it, in their order.
Answered(ms, i) ==
  LET n == Len(ms[i].calls) IN
  /\ i + n <= Len(ms)
  /\ \A j \in 1 .. n : ms[i + j].role = "tool" /\ ms[i + j].id = ms[i].calls[j]

\* Message i is among the results of the calls of message j.
Answers(ms, i, j) ==
  j \in HasRole(ms, "assistant") /\ j < i /\ i - j <= Len(ms[j].calls)

\* Message i is what a cut of the history has left of a turn: no request comes before
\* it, and the turn goes on.
CutOff(ms, i) ==
  /\ \A j \in HasRole(ms, "user") : i < j
  /\ \E j \in HasRole(ms, "assistant") : i < j

\* Messages of which a projection can be made: every call has its results, and every
\* result its call, but for those of a turn that is cut off.
Sound(ms) ==
  /\ IsConversation(ms)
  /\ \A i \in HasRole(ms, "assistant") : Answered(ms, i)
  /\ \A i \in HasRole(ms, "tool") : CutOff(ms, i) \/ \E j \in DOMAIN ms : Answers(ms, i, j)

\* The copy of a turn when the tools that wait have given their results.
Results(r) == [i \in DOMAIN r.calls |-> ToolMessage(r.n, r.calls[i].id)]
Completed(r) == r.session.messages \o Results(r)

\* The messages of the copy lack only the results that wait, and the answer; those
\* for the model, which begin with the history, lack the same.
CopyOk(r) ==
  /\ r.at # "tools" => r.calls = <<>>
  /\ r.at = "tools" => IsSeq(r.calls) /\ r.calls # <<>>
  /\ r.at \in InLoop => Open(Completed(r))
  /\ r.at \in {"loop", "tools"} =>
       IsSeq(r.context) /\ Sound(r.context \o Results(r))

CopyInv == \A t \in Threads : CopyOk(turn[t])

\* What is kept of a session, or waits to be saved over it, is whole.
WholeInv ==
  /\ \A k \in Keys : /\ cache[k] # NoSession => Whole(cache[k].messages)
                     /\ db[k] # NoSession => Whole(db[k].messages)
  /\ \A n \in Agents : agent[n].at = "saving" => Whole(agent[n].copy.messages)

TurnsInv == CopyInv /\ WholeInv

----------------------------------------------------------------------------
(* Helpers *)

\* A sequence, by its elements.
LEMMA SeqFacts ==
  ASSUME NEW S, NEW s, s \in Seq(S)
  PROVE  /\ Len(s) \in Nat /\ DOMAIN s = 1 .. Len(s)
         /\ IsSeq(s)
         /\ s = <<>> <=> Len(s) = 0
         /\ s # <<>> => Last(s) = s[Len(s)]
<1>1. s \in [1 .. Len(s) -> S] /\ Len(s) \in Nat
  BY LenProperties
<1>2. s \in [1 .. Len(s) -> ToSet(s)]
  BY <1>1 DEF ToSet
<1>3. IsSeq(s)
  BY <1>1, <1>2, SeqDef DEF IsSeq
<1> QED
  BY <1>1, <1>3 DEF Last

\* Append keeps a sequence one, and adds one element.
LEMMA AppendElements ==
  ASSUME NEW s, IsSeq(s), NEW e
  PROVE  /\ IsSeq(Append(s, e))
         /\ Len(Append(s, e)) = Len(s) + 1 /\ Len(s) \in Nat
         /\ \A i \in 1 .. Len(s) : Append(s, e)[i] = s[i]
         /\ Append(s, e)[Len(s) + 1] = e
         /\ Append(s, e) # <<>> /\ Last(Append(s, e)) = e
<1> DEFINE S == ToSet(s) \cup {e}
           q == Append(s, e)
<1>1. s \in Seq(S)
  BY SeqMonotonic DEF IsSeq
<1>2. /\ q \in Seq(S) /\ Len(q) = Len(s) + 1
      /\ \A i \in 1 .. Len(s) : q[i] = s[i]
      /\ Len(s) \in Nat /\ q[Len(s) + 1] = e
  BY <1>1, e \in S
<1> HIDE DEF q, S
<1>3. IsSeq(q) /\ q # <<>> /\ Last(q) = e
  BY <1>2, SeqFacts
<1> QED
  BY <1>2, <1>3 DEF q

\* What was a prefix stays one.
LEMMA AppendFacts ==
  ASSUME NEW s, IsSeq(s), NEW e
  PROVE  /\ IsSeq(Append(s, e))
         /\ IsPrefix(s, s)
         /\ IsPrefix(s, Append(s, e))
         /\ \A r : IsSeq(r) /\ IsPrefix(r, s) => IsPrefix(r, Append(s, e))
<1> DEFINE S == ToSet(s) \cup {e}
           q == Append(s, e)
<1>1. s \in Seq(S)
  BY SeqMonotonic DEF IsSeq
<1>2. /\ q \in Seq(S) /\ Len(q) = Len(s) + 1
      /\ \A i \in 1 .. Len(s) : q[i] = s[i]
      /\ Len(s) \in Nat
  BY <1>1, e \in S
<1> HIDE DEF q, S
<1>3. IsSeq(q)
  BY AppendElements DEF q
<1>4. ASSUME NEW r, IsSeq(r), IsPrefix(r, s)
      PROVE  IsPrefix(r, q)
  <2>1. Len(r) \in Nat /\ Len(r) <= Len(s)
    BY <1>4 DEF IsSeq, IsPrefix
  <2>2. SubSeq(q, 1, Len(r)) = SubSeq(s, 1, Len(r))
    BY <1>1, <1>2, <2>1
  <2> QED
    BY <1>2, <1>4, <2>1, <2>2 DEF IsPrefix
<1>5. IsPrefix(s, s)
  BY <1>2 DEF IsPrefix
<1> QED
  BY <1>3, <1>4, <1>5 DEF q

\* Something for every element of a sequence.
LEMMA MapFacts ==
  ASSUME NEW s, IsSeq(s), NEW f, f = [i \in DOMAIN s |-> f[i]]
  PROVE  IsSeq(f) /\ Len(f) = Len(s) /\ DOMAIN f = 1 .. Len(s) /\ DOMAIN s = 1 .. Len(s)
<1>1. Len(s) \in Nat /\ DOMAIN s = 1 .. Len(s)
  BY SeqFacts DEF IsSeq
<1>2. f \in [1 .. Len(s) -> ToSet(f)]
  BY <1>1 DEF ToSet
<1>3. f \in Seq(ToSet(f)) /\ Len(f) = Len(s)
  BY <1>1, <1>2, SeqDef, LenProperties
<1> QED
  BY <1>1, <1>3 DEF IsSeq

\* Two sequences, one after the other.
LEMMA ConcatFacts ==
  ASSUME NEW p, IsSeq(p), NEW r, IsSeq(r)
  PROVE  /\ IsSeq(p \o r) /\ Len(p \o r) = Len(p) + Len(r)
         /\ \A i \in 1 .. Len(p) : (p \o r)[i] = p[i]
         /\ \A i \in 1 .. Len(r) : (p \o r)[Len(p) + i] = r[i]
<1> DEFINE S == ToSet(p) \cup ToSet(r)
<1>1. p \in Seq(S) /\ r \in Seq(S)
  BY SeqMonotonic DEF IsSeq
<1> HIDE DEF S
<1>2. /\ p \o r \in Seq(S) /\ Len(p \o r) = Len(p) + Len(r)
      /\ \A i \in 1 .. Len(p) : (p \o r)[i] = p[i]
      /\ \A i \in 1 .. Len(r) : (p \o r)[Len(p) + i] = r[i]
  BY <1>1
<1> QED
  BY <1>2, SeqFacts

\* Subagents that were started stay so, and stay with their session.
HomesKept(a, b) ==
  \A n \in Agents : a[n].at # "free" => b[n].at # "free" /\ b[n].home = a[n].home

\* A session stays one of k.
LEMMA SessionStays ==
  ASSUME NEW s, NEW k, NEW a, NEW b, HomesKept(a, b), SessionOf(s, k, a)
  PROVE  SessionOf(s, k, b)
<1>1. \A i \in DOMAIN s.notes : s.notes[i] \in Agents
  BY DEF SessionOf
<1> QED
  BY <1>1 DEF SessionOf, HomesKept

\* A new session, and the copies a turn and a completion handler make.
LEMMA SessionsMade ==
  /\ \A k, a : SessionOf(NewSession, k, a)
  /\ \A s, k, a : SessionOf(s, k, a) => IsSeq(s.messages)
  /\ \A s, k, a : IsCopy(s) => SessionOf(s, k, a)
  /\ \A ms : IsSeq(ms) => IsCopy(Session(ms, <<>>))
<1>1. IsSeq(<<>>) /\ <<>> \in Seq(Agents)
  BY DEF IsSeq
<1>2. ASSUME NEW ms, IsSeq(ms), NEW s, s = Session(ms, <<>>)
      PROVE  DOMAIN s = {"messages", "notes"} /\ s.messages = ms /\ s.notes = <<>>
  BY <1>2 DEF Session
<1>3. \A ms : IsSeq(ms) => IsCopy(Session(ms, <<>>))
  BY <1>2 DEF IsCopy
<1>4. \A s, k, a : IsCopy(s) => SessionOf(s, k, a)
  BY <1>1 DEF SessionOf, IsCopy
<1>5. \A k, a : SessionOf(NewSession, k, a)
  BY <1>1, <1>3, <1>4 DEF NewSession
<1> QED
  BY <1>3, <1>4, <1>5 DEF SessionOf

----------------------------------------------------------------------------
(* Turns, as sequences of messages *)

\* A message and the results of its calls, after the first n messages of q.
Exchange(q, n) ==
  LET calls == q[n + 1].calls IN
  /\ q[n + 1].role \in {"user", "assistant"}
  /\ IsMessage(q[n + 1])
  /\ Len(q) = n + 1 + Len(calls)
  /\ \A j \in 1 .. Len(calls) : /\ q[n + 1 + j].role = "tool"
                                /\ q[n + 1 + j].id = calls[j]
                                /\ IsMessage(q[n + 1 + j])

\* An exchange may follow whole turns if it begins with the user's message, and an
\* open turn if it begins with one of the assistant's.
LEMMA ExchangeFollows ==
  ASSUME NEW ms, IsConversation(ms), Turns(ms),
         NEW q, IsSeq(q),
         \A i \in 1 .. Len(ms) : q[i] = ms[i],
         Exchange(q, Len(ms)),
         q[Len(ms) + 1].role = "user" <=> ms = <<>> \/ IsFinal(Last(ms))
  PROVE  IsConversation(q) /\ Turns(q)
<1> DEFINE n == Len(ms)
           calls == q[n + 1].calls
           L == Len(calls)
           First == q[n + 1]
<1>0. /\ n = Len(ms) /\ calls = First.calls /\ L = Len(calls) /\ First = q[n + 1]
      /\ First.role \in {"user", "assistant"} /\ (First.role = "user" => calls = <<>>)
      /\ IsSeq(calls) /\ Len(q) = n + 1 + L /\ IsMessage(First)
      /\ \A j \in 1 .. L : /\ q[n + 1 + j].role = "tool"
                           /\ q[n + 1 + j].id = calls[j]
                           /\ IsMessage(q[n + 1 + j])
  <2>1. IsMessage(First) => IsSeq(calls) /\ (First.role = "user" => calls = <<>>)
    BY DEF IsMessage
  <2> QED
    BY <2>1 DEF Exchange
<1> HIDE DEF n, calls, L, First
<1>1. /\ n \in Nat /\ DOMAIN ms = 1 .. n
      /\ ms = <<>> <=> n = 0
      /\ n # 0 => Last(ms) = ms[n]
      /\ \A i \in 1 .. n : IsMessage(ms[i]) /\ Len(ms[i].calls) \in Nat
  <2>1. \A i \in 1 .. n : IsMessage(ms[i]) => Len(ms[i].calls) \in Nat
    BY SeqFacts DEF IsSeq, IsMessage
  <2>2. \A i \in DOMAIN ms : IsMessage(ms[i])
    BY DEF IsConversation
  <2>3. /\ n \in Nat /\ DOMAIN ms = 1 .. n
        /\ ms = <<>> <=> n = 0
        /\ n # 0 => Last(ms) = ms[n]
    BY <1>0, SeqFacts DEF IsConversation, IsSeq
  <2> QED
    BY <2>1, <2>2, <2>3
<1>2. /\ L \in Nat /\ Len(q) = n + 1 + L /\ DOMAIN q = 1 .. Len(q)
      /\ calls = <<>> <=> L = 0
      /\ q # <<>>
  <2>2. L \in Nat /\ (calls = <<>> <=> L = 0)
    BY <1>0, SeqFacts DEF IsSeq
  <2>3. DOMAIN q = 1 .. Len(q) /\ (q = <<>> <=> Len(q) = 0)
    BY SeqFacts DEF IsSeq
  <2>4. Len(q) = n + 1 + L /\ n \in Nat
    BY <1>0, <1>1
  <2>5. n + 1 + L # 0
    BY <2>2, <2>4
  <2>6. q # <<>>
    BY <2>3, <2>4, <2>5, Zenon
  <2> QED
    BY <2>2, <2>3, <2>4, <2>6, Zenon
<1>3. /\ n \in Nat /\ L \in Nat /\ n + 1 \in DOMAIN q
      /\ DOMAIN ms = 1 .. n /\ DOMAIN q = 1 .. Len(q) /\ Len(q) = n + 1 + L
  <2>1. /\ n \in Nat /\ L \in Nat /\ DOMAIN ms = 1 .. n
        /\ DOMAIN q = 1 .. Len(q) /\ Len(q) = n + 1 + L
    BY <1>1, <1>2, Zenon
  <2>2. n + 1 \in 1 .. n + 1 + L
    BY <2>1
  <2> QED
    BY <2>1, <2>2
<1>4. \A i \in 1 .. n : q[i] = ms[i] /\ Len(ms[i].calls) \in Nat /\ i \in DOMAIN q
  <2>1. n = Len(ms)
    BY <1>0
  <2>2. \A i \in 1 .. n : i \in 1 .. n + 1 + L
    BY <1>3
  <2> QED
    BY <1>1, <1>3, <2>1, <2>2
<1>5. /\ q[n + 1].role \in {"user", "assistant"}
      /\ q[n + 1].role = "user" => L = 0
      /\ q[n + 1].calls = calls /\ Len(calls) = L
      /\ q[n + 1].role = "user" <=> n = 0 \/ IsFinal(ms[n])
  BY <1>0, <1>1, <1>2
<1>6. \A j \in 1 .. L : q[n + 1 + j].role = "tool" /\ q[n + 1 + j].id = calls[j]
  BY <1>0
<1>7. \A i \in DOMAIN q :
        \/ i \in 1 .. n
        \/ i = n + 1
        \/ \E j \in 1 .. L : i = n + 1 + j
  <2>1. ASSUME NEW i \in DOMAIN q, i \notin 1 .. n, i # n + 1
        PROVE  i - (n + 1) \in 1 .. L /\ i = n + 1 + (i - (n + 1))
    BY <1>3, <2>1
  <2> QED
    BY <2>1
<1>8. IsConversation(q)
  <2>1. ASSUME NEW i \in DOMAIN q PROVE IsMessage(q[i])
    BY <1>0, <1>1, <1>4, <1>7
  <2> QED
    BY <2>1 DEF IsConversation
<1>9. Paired(q)
  <2>1. ASSUME NEW i \in DOMAIN q, q[i].role = "assistant"
        PROVE  /\ i + Len(q[i].calls) <= Len(q)
               /\ \A j \in 1 .. Len(q[i].calls) :
                    q[i + j].role = "tool" /\ q[i + j].id = q[i].calls[j]
    <3>1. CASE i \in 1 .. n
      <4>1. /\ i + Len(ms[i].calls) <= n
            /\ \A j \in 1 .. Len(ms[i].calls) :
                 ms[i + j].role = "tool" /\ ms[i + j].id = ms[i].calls[j]
        <5>1. i \in HasRole(ms, "assistant")
          BY <1>3, <1>4, <2>1, <3>1 DEF HasRole
        <5>2. Paired(ms) /\ n = Len(ms)
          BY <1>0 DEF Turns
        <5> QED
          BY <5>1, <5>2 DEF Paired
      <4>2. \A j \in 1 .. Len(ms[i].calls) : i + j \in 1 .. n
        BY <1>3, <1>4, <3>1, <4>1
      <4>3. i + Len(ms[i].calls) <= Len(q)
        BY <1>3, <1>4, <3>1, <4>1
      <4> QED
        BY <1>4, <3>1, <4>1, <4>2, <4>3
    <3>2. CASE i = n + 1
      BY <1>3, <1>5, <1>6, <3>2
    <3> QED
      BY <1>6, <1>7, <2>1, <3>1, <3>2
  <2>2. ASSUME NEW i \in DOMAIN q, q[i].role = "tool"
        PROVE  \E j \in HasRole(q, "assistant") : j < i /\ i - j <= Len(q[j].calls)
    <3>1. CASE i \in 1 .. n
      <4>1. PICK j \in HasRole(ms, "assistant") : j < i /\ i - j <= Len(ms[j].calls)
        BY <1>3, <1>4, <2>2, <3>1 DEF Turns, Paired, HasRole
      <4>2. j \in 1 .. n /\ q[j] = ms[j] /\ j \in HasRole(q, "assistant")
        BY <1>3, <1>4, <4>1 DEF HasRole
      <4> QED
        BY <4>1, <4>2
    <3>2. ASSUME NEW j \in 1 .. L, i = n + 1 + j
          PROVE  /\ n + 1 \in HasRole(q, "assistant")
                 /\ n + 1 < i /\ i - (n + 1) <= Len(q[n + 1].calls)
      <4>1. L # 0 /\ n + 1 < i /\ i - (n + 1) <= L
        BY <1>3, <3>2
      <4>2. q[n + 1].role = "assistant"
        BY <1>5, <4>1
      <4> QED
        BY <1>3, <1>5, <4>1, <4>2 DEF HasRole
    <3> QED
      BY <1>5, <1>7, <2>2, <3>1, <3>2
  <2> QED
    BY <2>1, <2>2 DEF Paired, HasRole
<1>10. q[1].role = "user"
  <2>1. CASE n = 0
    BY <1>5, <2>1
  <2>2. CASE n # 0
    BY <1>1, <1>3, <1>4, <2>2 DEF Turns
  <2> QED
    BY <2>1, <2>2
<1>11. ASSUME NEW i \in DOMAIN q, q[i].role = "user"
       PROVE  i = 1 \/ IsFinal(q[i - 1])
  <2>1. CASE i \in 1 .. n
    <3>1. i = 1 \/ IsFinal(ms[i - 1])
      BY <1>3, <1>4, <1>11, <2>1 DEF Turns, HasRole
    <3>2. i = 1 \/ i - 1 \in 1 .. n
      BY <1>3, <2>1
    <3> QED
      BY <1>4, <3>1, <3>2
  <2>2. CASE i = n + 1
    <3>1. n = 0 \/ IsFinal(ms[n])
      BY <1>5, <1>11, <2>2
    <3>2. CASE n # 0
      <4>1. i - 1 = n /\ n \in 1 .. n
        BY <1>3, <2>2, <3>2
      <4> QED
        BY <1>4, <3>1, <3>2, <4>1
    <3> QED
      BY <2>2, <3>2
  <2> QED
    BY <1>6, <1>7, <1>11, <2>1, <2>2
<1>12. ASSUME NEW i \in DOMAIN q, IsFinal(q[i])
       PROVE  i = Len(q) \/ q[i + 1].role = "user"
  <2>0. q[i].role = "assistant" /\ q[i].calls = <<>>
    BY <1>12 DEF IsFinal
  <2>1. CASE i \in 1 .. n /\ i # n
    <3>1. ms[i + 1].role = "user" /\ i + 1 \in 1 .. n
      <4>1. i \in DOMAIN ms /\ IsFinal(ms[i]) /\ i # Len(ms)
        BY <1>0, <1>3, <1>4, <1>12, <2>1
      <4>2. i + 1 \in 1 .. n
        BY <1>3, <2>1
      <4> QED
        BY <4>1, <4>2 DEF Turns
    <3> QED
      BY <1>4, <2>1, <3>1
  <2>2. CASE i = n /\ n # 0
    <3>1. n \in 1 .. n
      BY <1>3, <2>2
    <3>2. IsFinal(ms[n])
      BY <1>4, <1>12, <2>2, <3>1
    <3> QED
      BY <1>5, <2>2, <3>2
  <2>3. CASE i = n + 1
    <3>1. calls = <<>>
      BY <1>5, <2>0, <2>3
    <3>2. L = 0
      BY <1>2, <3>1
    <3> QED
      BY <1>3, <2>3, <3>2
  <2>4. ~\E j \in 1 .. L : i = n + 1 + j
    BY <1>6, <2>0
  <2>5. i = n => n # 0
    BY <1>3
  <2> QED
    BY <1>7, <2>1, <2>2, <2>3, <2>4, <2>5
<1> QED
  BY <1>8, <1>9, <1>10, <1>11, <1>12 DEF Turns, HasRole

\* The result of a call.
LEMMA ToolMessages ==
  \A n, id : LET m == ToolMessage(n, id) IN
    m.role = "tool" /\ m.id = id /\ m.calls = <<>> /\ IsMessage(m)
BY DEF ToolMessage, Message, IsMessage, IsSeq

\* The user's message opens a turn, and the answer completes it.
LEMMA TurnOpens ==
  ASSUME NEW ms, Whole(ms), NEW n
  PROVE  Open(Append(ms, UserMessage(n)))
<1> DEFINE m == UserMessage(n)
           q == Append(ms, m)
<1>1. m.role = "user" /\ m.calls = <<>> /\ ~IsFinal(m) /\ IsMessage(m) /\ Len(m.calls) = 0
  BY DEF UserMessage, Message, IsFinal, IsSeq, IsMessage
<1> HIDE DEF m
<1>2. /\ IsSeq(q) /\ q # <<>> /\ Last(q) = m
      /\ Len(q) = Len(ms) + 1 /\ Len(ms) \in Nat /\ q[Len(ms) + 1] = m
      /\ \A i \in 1 .. Len(ms) : q[i] = ms[i]
  BY AppendElements DEF Whole, IsConversation
<1> HIDE DEF q
<1>3. Exchange(q, Len(ms))
  <2>1. q[Len(ms) + 1].calls = <<>> /\ Len(<<>>) = 0 /\ IsMessage(q[Len(ms) + 1])
    BY <1>1, <1>2
  <2>2. q[Len(ms) + 1].role \in {"user", "assistant"}
    BY <1>1, <1>2
  <2>3. \A j \in 1 .. 0 : FALSE
    OBVIOUS
  <2> QED
    BY <1>2, <2>1, <2>2, <2>3 DEF Exchange
<1>4. IsConversation(q) /\ Turns(q)
  BY <1>1, <1>2, <1>3, ExchangeFollows DEF Whole, WholeTurns, Turns
<1> QED
  BY <1>1, <1>2, <1>4 DEF Open, q, m

\* The answer completes the last turn.
LEMMA TurnCompletes ==
  ASSUME NEW ms, Open(ms), NEW n
  PROVE  Whole(Append(ms, AssistantMessage(n, <<>>)))
<1> DEFINE m == AssistantMessage(n, <<>>)
           q == Append(ms, m)
<1>1. m.role = "assistant" /\ m.calls = <<>> /\ IsFinal(m) /\ IsMessage(m) /\ Len(m.calls) = 0
  BY DEF AssistantMessage, Message, IsFinal, IsSeq, IsMessage
<1> HIDE DEF m
<1>2. /\ IsSeq(q) /\ q # <<>> /\ Last(q) = m
      /\ Len(q) = Len(ms) + 1 /\ Len(ms) \in Nat /\ q[Len(ms) + 1] = m
      /\ \A i \in 1 .. Len(ms) : q[i] = ms[i]
  BY AppendElements DEF Open, IsConversation
<1> HIDE DEF q
<1>3. Exchange(q, Len(ms))
  <2>1. q[Len(ms) + 1].calls = <<>> /\ Len(<<>>) = 0 /\ IsMessage(q[Len(ms) + 1])
    BY <1>1, <1>2
  <2>2. q[Len(ms) + 1].role \in {"user", "assistant"}
    BY <1>1, <1>2
  <2>3. \A j \in 1 .. 0 : FALSE
    OBVIOUS
  <2> QED
    BY <1>2, <2>1, <2>2, <2>3 DEF Exchange
<1>4. IsConversation(q) /\ Turns(q)
  BY <1>1, <1>2, <1>3, ExchangeFollows DEF Open
<1> QED
  BY <1>1, <1>2, <1>4 DEF Whole, WholeTurns, Turns, q, m

\* A message with calls, and all their results.
LEMMA CallsWithResults ==
  ASSUME NEW ms, IsSeq(ms), NEW n, NEW ids, IsSeq(ids), ids # <<>>,
         NEW r, IsSeq(r), Len(r) = Len(ids),
         \A i \in 1 .. Len(ids) : r[i] = ToolMessage(n, ids[i])
  PROVE  LET q == Append(ms, AssistantMessage(n, ids)) \o r IN
         /\ IsSeq(q) /\ Exchange(q, Len(ms)) /\ q[Len(ms) + 1].role = "assistant"
         /\ \A i \in 1 .. Len(ms) : q[i] = ms[i]
         /\ q # <<>> /\ ~IsFinal(Last(q))
<1> DEFINE m == AssistantMessage(n, ids)
           p == Append(ms, m)
           q == p \o r
           k == Len(ms)
           L == Len(ids)
<1>0. q = p \o r
  OBVIOUS
<1>1. m.role = "assistant" /\ m.calls = ids /\ IsMessage(m)
  BY DEF AssistantMessage, Message, IsMessage
<1>2. \A i \in 1 .. L : /\ r[i].role = "tool" /\ r[i].id = ids[i] /\ IsMessage(r[i])
                        /\ ~IsFinal(r[i])
  BY ToolMessages DEF IsFinal
<1>3. L \in Nat /\ L # 0 /\ Len(r) = L
  BY SeqFacts DEF IsSeq
<1> HIDE DEF m
<1>4. /\ IsSeq(p) /\ Len(p) = k + 1 /\ k \in Nat /\ p[k + 1] = m
      /\ \A i \in 1 .. k : p[i] = ms[i]
  BY AppendElements
<1> HIDE DEF p, q
<1>5. /\ IsSeq(q) /\ Len(q) = k + 1 + L
      /\ \A i \in 1 .. k + 1 : q[i] = p[i]
      /\ \A i \in 1 .. L : q[k + 1 + i] = r[i]
  <2>1. IsSeq(q) /\ Len(q) = Len(p) + Len(r)
    BY <1>0, <1>4, ConcatFacts
  <2>2. \A i \in 1 .. Len(p) : q[i] = p[i]
    BY <1>0, <1>4, ConcatFacts
  <2>3. \A i \in 1 .. Len(r) : q[Len(p) + i] = r[i]
    BY <1>0, <1>4, ConcatFacts
  <2> HIDE DEF L, k
  <2> QED
    BY <1>3, <1>4, <2>1, <2>2, <2>3
<1> HIDE DEF k, L
<1>6. q[k + 1] = m /\ \A i \in 1 .. k : q[i] = ms[i]
  BY <1>4, <1>5
<1>7. Exchange(q, k)
  <2>1. /\ q[k + 1].calls = ids /\ q[k + 1].role = "assistant" /\ Len(ids) = L
        /\ IsMessage(q[k + 1])
    BY <1>1, <1>6 DEF L
  <2> QED
    BY <1>2, <1>5, <2>1 DEF Exchange
<1>8. q # <<>> /\ ~IsFinal(Last(q))
  <2>1. Len(q) # 0 /\ q[Len(q)] = r[L]
    BY <1>3, <1>4, <1>5
  <2>2. ~IsFinal(r[L])
    BY <1>2, <1>3
  <2> QED
    BY <1>5, <2>1, <2>2, SeqFacts DEF IsSeq
<1> QED
  BY <1>1, <1>5, <1>6, <1>7, <1>8 DEF k, q, p, m

\* They leave the turn open.
LEMMA TurnStaysOpen ==
  ASSUME NEW ms, Open(ms), NEW n, NEW ids, IsSeq(ids), ids # <<>>,
         NEW r, IsSeq(r), Len(r) = Len(ids),
         \A i \in 1 .. Len(ids) : r[i] = ToolMessage(n, ids[i])
  PROVE  Open(Append(ms, AssistantMessage(n, ids)) \o r)
<1> DEFINE q == Append(ms, AssistantMessage(n, ids)) \o r
<1>1. IsConversation(ms) /\ Turns(ms) /\ IsSeq(ms) /\ ~(ms = <<>> \/ IsFinal(Last(ms)))
  BY DEF Open, IsConversation
<1>2. /\ IsSeq(q) /\ Exchange(q, Len(ms)) /\ q[Len(ms) + 1].role = "assistant"
      /\ \A i \in 1 .. Len(ms) : q[i] = ms[i]
      /\ q # <<>> /\ ~IsFinal(Last(q))
  BY <1>1, CallsWithResults
<1> HIDE DEF q
<1>3. IsConversation(q) /\ Turns(q)
  BY <1>1, <1>2, ExchangeFollows
<1> QED
  BY <1>2, <1>3 DEF Open, q

\* The first of the messages that are to follow may be appended already.
LEMMA FirstMoves ==
  ASSUME NEW p, IsSeq(p), NEW r, IsSeq(r), r # <<>>
  PROVE  Append(p, Head(r)) \o Tail(r) = p \o r
<1> DEFINE S == ToSet(p) \cup ToSet(r)
<1>1. p \in Seq(S) /\ r \in Seq(S)
  BY SeqMonotonic DEF IsSeq
<1> HIDE DEF S
<1>2. Append(p, Head(r)) = p \o <<Head(r)>> /\ Head(r) \in S /\ Tail(r) \in Seq(S)
  BY <1>1
<1>3. r = <<Head(r)>> \o Tail(r)
  BY <1>1
<1>4. (p \o <<Head(r)>>) \o Tail(r) = p \o (<<Head(r)>> \o Tail(r))
  BY <1>1, <1>2
<1> QED
  BY <1>2, <1>3, <1>4

----------------------------------------------------------------------------
(* What a filter and the projection leave of the messages *)

\* Positions that follow one another are kept next to each other.
LEMMA RunsAreKept ==
  ASSUME NEW s, NEW D, NEW e, NEW f, NEW m \in Nat, Len(e) \in Nat,
         Keeps(s, D, m, e, f), NEW k \in 1 .. Len(e),
         NEW n \in Nat, \A j \in 1 .. n : f[k] + j \in D /\ f[k] + j <= m
  PROVE  \A j \in 0 .. n : k + j <= Len(e) /\ f[k + j] = f[k] + j
<1> DEFINE L == Len(e)
           T == {j \in Nat : j <= n => k + j <= L /\ f[k + j] = f[k] + j}
<1>0. /\ L \in Nat /\ k \in 1 .. L
      /\ \A x \in 1 .. L : f[x] \in 1 .. m
      /\ \A x, y \in 1 .. L : x < y => f[x] < f[y]
      /\ \A p \in 1 .. m : p \in D => \E x \in 1 .. L : f[x] = p
  BY DEF Keeps
<1> HIDE DEF L
<1>1. 0 \in T
  BY <1>0
<1>2. ASSUME NEW j \in Nat, j \in T
      PROVE  j + 1 \in T
  <2> SUFFICES ASSUME j + 1 <= n
               PROVE  k + (j + 1) <= L /\ f[k + (j + 1)] = f[k] + (j + 1)
    OBVIOUS
  <2>1. k + j <= L /\ f[k + j] = f[k] + j /\ k + j \in 1 .. L
    BY <1>0, <1>2
  <2>2. f[k] + (j + 1) \in 1 .. m /\ f[k] + (j + 1) \in D
    BY <1>0
  <2>3. PICK x \in 1 .. L : f[x] = f[k] + (j + 1)
    BY <1>0, <2>2
  <2>4. f[k] \in Nat
    BY <1>0
  <2>5. x > k + j
    <3>1. CASE x < k + j
      <4>1. f[x] < f[k + j]
        BY <1>0, <2>1, <3>1
      <4> QED
        BY <2>1, <2>3, <2>4, <4>1
    <3>2. x # k + j
      BY <2>1, <2>3, <2>4
    <3> QED
      BY <1>0, <3>1, <3>2
  <2>6. ~(x > k + j + 1)
    <3> SUFFICES ASSUME x > k + j + 1 PROVE FALSE
      OBVIOUS
    <3>1. k + j + 1 \in 1 .. L
      BY <1>0
    <3>2. f[k + j] < f[k + j + 1] /\ f[k + j + 1] < f[x] /\ f[k + j + 1] \in Nat
      BY <1>0, <2>1, <3>1
    <3> QED
      BY <2>1, <2>3, <2>4, <3>2
  <2>7. x = k + (j + 1)
    BY <1>0, <2>5, <2>6
  <2> QED
    BY <2>3, <2>7
<1>3. Nat \subseteq T
  <2> HIDE DEF T
  <2> QED
    BY <1>1, <1>2, Induction
<1> QED
  BY <1>3 DEF L

\* A filter that keeps the results with their calls.
KeepsResults(ms, D) ==
  /\ D \subseteq DOMAIN ms
  /\ \A i \in D : ms[i].role = "assistant" =>
       \A j \in 1 .. Len(ms[i].calls) : i + j \in D

\* After it the calls have their results still, and so have the results their call
\* when it is kept.
LEMMA FilterKeepsResults ==
  ASSUME NEW ms, IsConversation(ms),
         \A i \in HasRole(ms, "assistant") : Answered(ms, i),
         NEW D, KeepsResults(ms, D),
         NEW e, e = EntriesAt(ms, D)
  PROVE  /\ IsConversation(e)
         /\ \A k \in HasRole(e, "assistant") : Answered(e, k)
         /\ \E f : /\ Keeps(ms, D, Len(ms), e, f)
                   /\ \A k \in DOMAIN e : \A j \in D :
                        Answers(ms, f[k], j) => \E l \in DOMAIN e : Answers(e, k, l)
<1> DEFINE S == ToSet(ms)
           m == Len(ms)
           L == Len(e)
<1>1. ms \in Seq(S) /\ \A i \in DOMAIN ms : IsMessage(ms[i])
  BY DEF IsConversation, IsSeq
<1>2. m \in Nat /\ DOMAIN ms = 1 .. m
  BY <1>1, SeqFacts
<1> HIDE DEF S
<1>3. e \in Seq(S)
  BY <1>1, EntriesFacts
<1>4. L \in Nat /\ DOMAIN e = 1 .. L /\ IsSeq(e)
  BY <1>3, SeqFacts
<1>5. PICK f : Keeps(ms, D, m, e, f)
  BY <1>1, EntriesFacts
<1> HIDE DEF m, L
<1>6. /\ \A x \in 1 .. L : f[x] \in 1 .. m /\ f[x] \in D /\ e[x] = ms[f[x]]
      /\ \A x, y \in 1 .. L : x < y => f[x] < f[y]
      /\ \A p \in 1 .. m : p \in D => \E x \in 1 .. L : f[x] = p
  BY <1>5 DEF Keeps, L
<1>7. IsConversation(e)
  BY <1>1, <1>2, <1>4, <1>6 DEF IsConversation
<1>8. ASSUME NEW k \in 1 .. L, ms[f[k]].role = "assistant"
      PROVE  \A j \in 0 .. Len(ms[f[k]].calls) : k + j <= L /\ f[k + j] = f[k] + j
  <2>1. Len(ms[f[k]].calls) \in Nat
    <3>1. IsSeq(ms[f[k]].calls)
      BY <1>1, <1>2, <1>6 DEF IsMessage
    <3> QED
      BY <3>1, SeqFacts DEF IsSeq
  <2>2. Answered(ms, f[k])
    BY <1>2, <1>6, <1>8 DEF HasRole
  <2>3. \A j \in 1 .. Len(ms[f[k]].calls) : f[k] + j \in D /\ f[k] + j <= m
    <3> TAKE j \in 1 .. Len(ms[f[k]].calls)
    <3>1. f[k] + j \in D
      BY <1>6, <1>8 DEF KeepsResults
    <3>2. f[k] + j \in 1 .. m
      BY <1>2, <3>1 DEF KeepsResults
    <3> QED
      BY <1>2, <3>1, <3>2
  <2> DEFINE n == Len(ms[f[k]].calls)
  <2> HIDE DEF n
  <2>4. n \in Nat /\ k \in 1 .. Len(e) /\ Len(e) \in Nat
    BY <1>4, <2>1 DEF n, L
  <2>5. \A j \in 1 .. n : f[k] + j \in D /\ f[k] + j <= m
    BY <2>3 DEF n
  <2>6. \A j \in 0 .. n : k + j <= Len(e) /\ f[k + j] = f[k] + j
    BY <1>2, <1>5, <2>4, <2>5, RunsAreKept
  <2> QED
    BY <2>6 DEF n, L
<1>9. ASSUME NEW k \in HasRole(e, "assistant")
      PROVE  Answered(e, k)
  <2>1. k \in 1 .. L /\ ms[f[k]].role = "assistant" /\ e[k] = ms[f[k]]
    BY <1>4, <1>6, <1>9 DEF HasRole
  <2> DEFINE n == Len(ms[f[k]].calls)
  <2>2. n \in Nat
    <3>1. IsSeq(ms[f[k]].calls)
      BY <1>1, <1>2, <1>6, <2>1 DEF IsMessage
    <3> QED
      BY <3>1, SeqFacts DEF IsSeq
  <2>3. /\ \A j \in 1 .. n : ms[f[k] + j].role = "tool" /\ ms[f[k] + j].id = ms[f[k]].calls[j]
        /\ Len(e[k].calls) = n /\ e[k].calls = ms[f[k]].calls
    <3>1. Answered(ms, f[k])
      BY <1>2, <1>6, <2>1 DEF HasRole
    <3> QED
      BY <2>1, <3>1 DEF Answered
  <2>4. \A j \in 0 .. n : k + j <= L /\ f[k + j] = f[k] + j
    BY <1>8, <2>1
  <2> HIDE DEF n
  <2>5. k + n <= L
    BY <2>2, <2>4
  <2>6. \A j \in 1 .. n : e[k + j] = ms[f[k] + j]
    <3> TAKE j \in 1 .. n
    <3>1. k + j \in 1 .. L /\ f[k + j] = f[k] + j
      BY <1>4, <2>1, <2>2, <2>4
    <3>2. e[k + j] = ms[f[k + j]]
      BY <1>6, <3>1
    <3> QED
      BY <3>1, <3>2
  <2> QED
    BY <2>3, <2>5, <2>6 DEF Answered, L
<1>10. ASSUME NEW k \in DOMAIN e, NEW j \in D, Answers(ms, f[k], j)
       PROVE  \E l \in DOMAIN e : Answers(e, k, l)
  <2>0. k \in 1 .. L
    BY <1>4
  <2>1. ms[j].role = "assistant" /\ j \in 1 .. m /\ j < f[k] /\ f[k] - j <= Len(ms[j].calls)
    BY <1>2, <1>10 DEF Answers, HasRole
  <2>2. PICK l \in 1 .. L : f[l] = j
    BY <1>6, <2>1
  <2> DEFINE d == f[k] - j
             n == Len(ms[j].calls)
  <2>3. n \in Nat
    <3>1. IsSeq(ms[j].calls)
      BY <1>1, <1>2, <2>1 DEF IsMessage
    <3> QED
      BY <3>1, SeqFacts DEF IsSeq
  <2>4. f[k] \in 1 .. m
    BY <1>6, <2>0
  <2>5. d \in 1 .. n /\ j + d = f[k]
    BY <1>2, <2>1, <2>3, <2>4
  <2> HIDE DEF d, n
  <2>6. l + d <= L /\ f[l + d] = j + d
    <3>1. d \in 0 .. n
      BY <2>3, <2>5
    <3> QED
      BY <1>8, <2>1, <2>2, <3>1 DEF n
  <2>7. l + d = k
    <3>1. l + d \in 1 .. L /\ f[l + d] = f[k]
      BY <1>4, <2>3, <2>5, <2>6
    <3>2. CASE l + d < k
      <4>1. f[l + d] < f[k]
        BY <1>6, <2>0, <3>1, <3>2
      <4> QED
        BY <1>2, <2>4, <3>1, <4>1
    <3>3. CASE l + d > k
      <4>1. f[k] < f[l + d]
        BY <1>6, <2>0, <3>1, <3>3
      <4> QED
        BY <1>2, <2>4, <3>1, <4>1
    <3> QED
      BY <1>4, <2>0, <3>1, <3>2, <3>3
  <2>8. e[l] = ms[j] /\ l \in HasRole(e, "assistant")
    BY <1>4, <1>6, <2>1, <2>2 DEF HasRole
  <2>9. l < k /\ k - l <= n
    BY <2>0, <2>2, <2>3, <2>5, <2>7
  <2> QED
    BY <1>4, <2>2, <2>8, <2>9 DEF Answers, n
<1> QED
  BY <1>5, <1>7, <1>9, <1>10 DEF m

\* The first and the last of some positions.
LEMMA EndsExist ==
  ASSUME NEW n \in Nat, NEW S \in SUBSET (1 .. n), S # {}
  PROVE  /\ Max(S) \in S /\ \A y \in S : y <= Max(S)
         /\ Min(S) \in S /\ \A y \in S : Min(S) <= y
<1> DEFINE T == {m \in Nat : \A Q \in SUBSET (1 .. m) : Q # {} =>
                   /\ \E x \in Q : \A y \in Q : x >= y
                   /\ \E x \in Q : \A y \in Q : x =< y}
<1>1. 0 \in T
  <2>1. 1 .. 0 = {}
    OBVIOUS
  <2> QED
    BY <2>1
<1>2. ASSUME NEW m \in Nat, m \in T
      PROVE  m + 1 \in T
  <2> SUFFICES ASSUME NEW Q \in SUBSET (1 .. m + 1), Q # {}
               PROVE  /\ \E x \in Q : \A y \in Q : x >= y
                      /\ \E x \in Q : \A y \in Q : x =< y
    OBVIOUS
  <2> DEFINE R == Q \ {m + 1}
  <2>1. R \in SUBSET (1 .. m)
    OBVIOUS
  <2>2. CASE R = {}
    <3>1. Q = {m + 1}
      BY <2>2
    <3> QED
      BY <3>1
  <2>3. CASE R # {}
    <3>1. /\ \E x \in R : \A y \in R : x >= y
          /\ \E x \in R : \A y \in R : x =< y
      BY <1>2, <2>1, <2>3
    <3>2. \A y \in R : y \in Nat /\ y <= m /\ y \in Q
      BY <2>1
    <3>3. \A y \in Q : y = m + 1 \/ y \in R
      OBVIOUS
    <3> HIDE DEF R
    <3>4. \E x \in Q : \A y \in Q : x =< y
      <4>1. PICK x \in R : \A y \in R : x =< y
        BY <3>1
      <4>2. \A y \in Q : x =< y
        BY <3>2, <3>3, <4>1
      <4> QED
        BY <3>2, <4>2
    <3>5. \E x \in Q : \A y \in Q : x >= y
      <4>1. CASE m + 1 \in Q
        <5>1. \A y \in Q : m + 1 >= y
          BY <3>2, <3>3
        <5> QED
          BY <4>1, <5>1
      <4>2. CASE m + 1 \notin Q
        BY <3>1, <3>2, <3>3, <4>2
      <4> QED
        BY <4>1, <4>2
    <3> QED
      BY <3>4, <3>5
  <2> QED
    BY <2>2, <2>3
<1>3. n \in T
  <2> HIDE DEF T
  <2> QED
    BY <1>1, <1>2, Induction
<1>4. /\ \E x \in S : \A y \in S : x >= y
      /\ \E x \in S : \A y \in S : x =< y
  BY <1>3
<1>5. Max(S) \in S /\ \A y \in S : Max(S) >= y
  BY <1>4 DEF Max
<1>6. Min(S) \in S /\ \A y \in S : Min(S) =< y
  BY <1>4 DEF Min
<1> QED
  BY <1>5, <1>6

\* Of three positions or more there is a third from the last.
LEMMA ThirdLastExists ==
  ASSUME NEW n \in Nat, NEW S \in SUBSET (1 .. n), Cardinality(S) >= 3
  PROVE  ThirdLast(S) \in S /\ Cardinality({j \in S : j >= ThirdLast(S)}) = 3
<1>1. IsFiniteSet(1 .. n)
  BY FS_Interval
<1>2. IsFiniteSet(S) /\ Cardinality(S) \in Nat /\ S # {}
  <2>1. IsFiniteSet(S)
    BY <1>1, FS_Subset
  <2> QED
    BY <2>1, FS_CardinalityType, FS_EmptySet
<1>3. PICK a \in S : \A y \in S : y <= a
  BY <1>2, EndsExist
<1> DEFINE R == S \ {a}
<1>4. IsFiniteSet(R) /\ Cardinality(R) = Cardinality(S) - 1
  BY <1>2, FS_RemoveElement
<1>5. R \in SUBSET (1 .. n) /\ R # {}
  <2>1. Cardinality(R) # 0
    BY <1>2, <1>4
  <2> QED
    BY <2>1, FS_EmptySet
<1>6. PICK b \in R : \A y \in R : y <= b
  BY <1>5, EndsExist
<1> DEFINE Q == R \ {b}
<1>7. IsFiniteSet(Q) /\ Cardinality(Q) = Cardinality(R) - 1
  BY <1>4, FS_RemoveElement
<1>8. Q \in SUBSET (1 .. n) /\ Q # {}
  <2>1. Cardinality(Q) # 0
    BY <1>2, <1>4, <1>7
  <2> QED
    BY <2>1, FS_EmptySet
<1>9. PICK c \in Q : \A y \in Q : y <= c
  <2> HIDE DEF Q
  <2> QED
    BY <1>8, EndsExist
<1>10. a \in 1 .. n /\ b \in 1 .. n /\ c \in 1 .. n /\ b < a /\ c < b
  BY <1>3, <1>6, <1>9
<1>11. {j \in S : j >= c} = {a, b, c}
  <2>1. \A j \in S : j >= c => j \in {a, b, c}
    BY <1>9, <1>10
  <2>2. \A j \in {a, b, c} : j \in S /\ j >= c
    BY <1>10
  <2> QED
    BY <2>1, <2>2
<1>12. Cardinality({a, b, c}) = 3
  <2>1. IsFiniteSet({c}) /\ Cardinality({c}) = 1
    BY FS_Singleton
  <2>2. b \notin {c} /\ a \notin {c} \cup {b}
    BY <1>10
  <2>3. IsFiniteSet({c} \cup {b}) /\ Cardinality({c} \cup {b}) = 2
    BY <2>1, <2>2, FS_AddElement
  <2>4. Cardinality(({c} \cup {b}) \cup {a}) = 3
    BY <2>2, <2>3, FS_AddElement
  <2>5. ({c} \cup {b}) \cup {a} = {a, b, c}
    OBVIOUS
  <2> QED
    BY <2>4, <2>5
<1>13. c \in S /\ Cardinality({j \in S : j >= c}) = 3
  BY <1>11, <1>12
<1> QED
  BY <1>13 DEF ThirdLast

\* A conversation, by its messages.
LEMMA ConversationFacts ==
  ASSUME NEW ms, IsConversation(ms)
  PROVE  /\ Len(ms) \in Nat /\ DOMAIN ms = 1 .. Len(ms)
         /\ \A i \in DOMAIN ms : IsMessage(ms[i]) /\ Len(ms[i].calls) \in Nat
<1>1. \A i \in DOMAIN ms : IsMessage(ms[i])
  BY DEF IsConversation
<1>2. \A i \in DOMAIN ms : Len(ms[i].calls) \in Nat
  BY <1>1, SeqFacts DEF IsMessage, IsSeq
<1> QED
  BY <1>1, <1>2, SeqFacts DEF IsConversation, IsSeq

\* To drop messages that are neither calls nor results keeps results with calls.
Spares(ms, D) ==
  D \subseteq DOMAIN ms /\ \A i \in DOMAIN ms : ms[i].role \in {"assistant", "tool"} => i \in D

\* It does so for any filter that spares them.
LEMMA SparingKeepsResults ==
  ASSUME NEW ms, IsConversation(ms),
         \A i \in HasRole(ms, "assistant") : Answered(ms, i),
         NEW D, Spares(ms, D)
  PROVE  KeepsResults(ms, D)
<1> SUFFICES ASSUME NEW i \in D, ms[i].role = "assistant",
                    NEW j \in 1 .. Len(ms[i].calls)
             PROVE  i + j \in D
  BY DEF KeepsResults, Spares
<1>1. i \in HasRole(ms, "assistant")
  BY DEF HasRole, Spares
<1>2. i + Len(ms[i].calls) <= Len(ms) /\ ms[i + j].role = "tool"
  BY <1>1 DEF Answered
<1>3. i + j \in DOMAIN ms
  BY <1>1, <1>2, ConversationFacts DEF HasRole
<1> QED
  BY <1>2, <1>3 DEF Spares

\* What is paired stays so.
LEMMA SparingKeepsPairs ==
  ASSUME NEW ms, IsConversation(ms), Paired(ms),
         NEW D, Spares(ms, D)
  PROVE  IsConversation(EntriesAt(ms, D)) /\ Paired(EntriesAt(ms, D))
<1> DEFINE e == EntriesAt(ms, D)
<1>1. \A i \in HasRole(ms, "assistant") : Answered(ms, i)
  BY DEF Paired, Answered
<1>2. KeepsResults(ms, D)
  BY <1>1, SparingKeepsResults
<1> HIDE DEF e
<1>3. /\ IsConversation(e)
      /\ \A k \in HasRole(e, "assistant") : Answered(e, k)
  BY <1>1, <1>2, FilterKeepsResults DEF e
<1>4. PICK f : /\ Keeps(ms, D, Len(ms), e, f)
               /\ \A k \in DOMAIN e : \A j \in D :
                    Answers(ms, f[k], j) => \E l \in DOMAIN e : Answers(e, k, l)
  BY <1>1, <1>2, FilterKeepsResults DEF e
<1>5. ASSUME NEW k \in HasRole(e, "tool")
      PROVE  \E l \in HasRole(e, "assistant") : l < k /\ k - l <= Len(e[l].calls)
  <2>1. k \in DOMAIN e /\ f[k] \in DOMAIN ms /\ ms[f[k]].role = "tool"
    BY <1>3, <1>4, ConversationFacts DEF Keeps, HasRole
  <2>2. PICK j \in HasRole(ms, "assistant") : j < f[k] /\ f[k] - j <= Len(ms[j].calls)
    BY <2>1 DEF Paired, HasRole
  <2>3. Answers(ms, f[k], j) /\ j \in D
    BY <2>2 DEF Answers, HasRole, Spares
  <2>4. PICK l \in DOMAIN e : Answers(e, k, l)
    BY <1>4, <2>1, <2>3
  <2> QED
    BY <2>4 DEF Answers
<1> QED
  BY <1>3, <1>5 DEF Paired, Answered, e

\* The virtual messages are the user's, and go.
LEMMA WithoutVirtualIsSound ==
  ASSUME NEW ms, Sound(ms)
  PROVE  Sound(WithoutVirtual(ms))
<1> DEFINE D == {i \in DOMAIN ms : ms[i].tag # "virtual"}
           e == EntriesAt(ms, D)
<1>0. e = WithoutVirtual(ms)
  BY DEF WithoutVirtual
<1>1. /\ IsConversation(ms) /\ \A i \in HasRole(ms, "assistant") : Answered(ms, i)
      /\ \A i \in DOMAIN ms : IsMessage(ms[i])
  BY ConversationFacts DEF Sound
<1>2. Spares(ms, D)
  <2>1. \A i \in DOMAIN ms : ms[i].role \in {"assistant", "tool"} => ms[i].tag # "virtual"
    BY <1>1 DEF IsMessage
  <2> QED
    BY <2>1 DEF Spares
<1> HIDE DEF D, e
<1>3. KeepsResults(ms, D)
  BY <1>1, <1>2, SparingKeepsResults
<1>4. /\ IsConversation(e)
      /\ \A k \in HasRole(e, "assistant") : Answered(e, k)
  BY <1>1, <1>3, FilterKeepsResults DEF e
<1>5. PICK f : /\ Keeps(ms, D, Len(ms), e, f)
               /\ \A k \in DOMAIN e : \A j \in D :
                    Answers(ms, f[k], j) => \E l \in DOMAIN e : Answers(e, k, l)
  BY <1>1, <1>3, FilterKeepsResults DEF e
<1>6. /\ Len(e) \in Nat /\ DOMAIN e = 1 .. Len(e)
      /\ Len(ms) \in Nat /\ DOMAIN ms = 1 .. Len(ms)
  BY <1>1, <1>4, ConversationFacts
<1>7. /\ \A k \in DOMAIN e : f[k] \in DOMAIN ms /\ f[k] \in D /\ e[k] = ms[f[k]]
      /\ \A k, l \in DOMAIN e : k < l => f[k] < f[l]
      /\ \A p \in DOMAIN ms : p \in D => \E k \in DOMAIN e : f[k] = p
  BY <1>5, <1>6 DEF Keeps
<1>8. \A k, l \in DOMAIN e : f[k] < f[l] => k < l
  <2> SUFFICES ASSUME NEW k \in DOMAIN e, NEW l \in DOMAIN e, f[k] < f[l], ~(k < l)
               PROVE  FALSE
    OBVIOUS
  <2>1. f[k] \in Nat /\ f[l] \in Nat
    BY <1>6, <1>7
  <2>2. k = l \/ l < k
    BY <1>6
  <2>3. k = l \/ f[l] < f[k]
    BY <1>7, <2>2
  <2> QED
    BY <2>1, <2>3
<1>9. ASSUME NEW k \in HasRole(e, "tool")
      PROVE  CutOff(e, k) \/ \E l \in DOMAIN e : Answers(e, k, l)
  <2>1. k \in DOMAIN e /\ f[k] \in HasRole(ms, "tool")
    BY <1>7, <1>9 DEF HasRole
  <2>2. CASE CutOff(ms, f[k])
    <3>1. ASSUME NEW l \in HasRole(e, "user")
          PROVE  k < l
      <4>1. l \in DOMAIN e /\ f[l] \in HasRole(ms, "user")
        BY <1>7, <3>1 DEF HasRole
      <4> QED
        BY <1>8, <2>1, <2>2, <4>1 DEF CutOff
    <3>2. PICK j \in HasRole(ms, "assistant") : f[k] < j
      BY <2>2 DEF CutOff
    <3>3. j \in DOMAIN ms /\ j \in D /\ ms[j].role = "assistant"
      BY <1>2, <3>2 DEF HasRole, Spares
    <3>4. PICK l \in DOMAIN e : f[l] = j
      BY <1>7, <3>3
    <3>5. l \in HasRole(e, "assistant") /\ k < l
      BY <1>7, <1>8, <2>1, <3>2, <3>3, <3>4 DEF HasRole
    <3> QED
      BY <3>1, <3>5 DEF CutOff
  <2>3. ASSUME NEW j \in DOMAIN ms, Answers(ms, f[k], j)
        PROVE  \E l \in DOMAIN e : Answers(e, k, l)
    <3>1. j \in D
      BY <1>2, <2>3 DEF Answers, HasRole, Spares
    <3> QED
      BY <1>5, <2>1, <2>3, <3>1
  <2> QED
    BY <1>1, <2>1, <2>2, <2>3 DEF Sound
<1> QED
  BY <1>0, <1>4, <1>9 DEF Sound

\* Where the protected tail begins is a message of the user, or one of the
\* assistant that none follows.
LEMMA TailBegins ==
  ASSUME NEW ms, IsConversation(ms)
  PROVE  LET p == ProtectedStart(ms) IN
         \/ p \in HasRole(ms, "user")
         \/ p \in HasRole(ms, "assistant") /\ \A i \in HasRole(ms, "assistant") : i <= p
         \/ p = Len(ms) + 1
<1> DEFINE n == Len(ms)
           U == HasRole(ms, "user")
           A == HasRole(ms, "assistant")
<1>1. n \in Nat /\ U \in SUBSET (1 .. n) /\ A \in SUBSET (1 .. n)
  BY ConversationFacts DEF HasRole
<1> HIDE DEF U, A
<1>2. ProtectedStart(ms) = IF Cardinality(U) >= 3 THEN ThirdLast(U)
                           ELSE IF A # {} THEN Max(A) ELSE n + 1
  BY DEF ProtectedStart, U, A
<1>3. Cardinality(U) >= 3 => ThirdLast(U) \in U
  BY <1>1, ThirdLastExists
<1>4. A # {} => Max(A) \in A /\ \A i \in A : i <= Max(A)
  BY <1>1, EndsExist
<1> QED
  BY <1>2, <1>3, <1>4 DEF U, A

\* Nothing of the tail has lost its call or its results.
LEMMA SnippedIsPaired ==
  ASSUME NEW ms, Sound(ms)
  PROVE  IsConversation(Snipped(ms)) /\ Paired(Snipped(ms))
<1> DEFINE p == ProtectedStart(ms)
           n == Len(ms)
           D == HasRole(ms, "system") \cup (p .. n)
           e == EntriesAt(ms, D)
<1>0. e = Snipped(ms)
  BY DEF Snipped
<1>1. /\ IsConversation(ms) /\ \A i \in HasRole(ms, "assistant") : Answered(ms, i)
      /\ n \in Nat /\ DOMAIN ms = 1 .. n
      /\ \A i \in DOMAIN ms : Len(ms[i].calls) \in Nat
  BY ConversationFacts DEF Sound
<1>2. \/ p \in HasRole(ms, "user")
      \/ p \in HasRole(ms, "assistant") /\ \A i \in HasRole(ms, "assistant") : i <= p
      \/ p = n + 1
  BY <1>1, TailBegins
<1> HIDE DEF p
<1>3. p \in 1 .. n + 1
  BY <1>1, <1>2 DEF HasRole
<1>4. /\ D \subseteq DOMAIN ms
      /\ \A i \in DOMAIN ms : i >= p => i \in D
      /\ \A i \in D : ms[i].role # "system" => i >= p /\ i \in 1 .. n
  BY <1>1, <1>3 DEF HasRole
<1> HIDE DEF D, e
<1>5. KeepsResults(ms, D)
  <2> SUFFICES ASSUME NEW i \in D, ms[i].role = "assistant",
                      NEW j \in 1 .. Len(ms[i].calls)
               PROVE  i + j \in D
    BY <1>4 DEF KeepsResults
  <2>1. i \in 1 .. n /\ i >= p /\ Len(ms[i].calls) \in Nat
    BY <1>1, <1>4
  <2>2. i + Len(ms[i].calls) <= n
    BY <1>1, <2>1 DEF HasRole, Answered
  <2>3. i + j \in 1 .. n /\ i + j >= p
    BY <1>1, <1>3, <2>1, <2>2
  <2> QED
    BY <1>1, <1>4, <2>3
<1>6. /\ IsConversation(e)
      /\ \A k \in HasRole(e, "assistant") : Answered(e, k)
  BY <1>1, <1>5, FilterKeepsResults DEF e
<1>7. PICK f : /\ Keeps(ms, D, n, e, f)
               /\ \A k \in DOMAIN e : \A j \in D :
                    Answers(ms, f[k], j) => \E l \in DOMAIN e : Answers(e, k, l)
  BY <1>1, <1>5, FilterKeepsResults DEF e
<1>8. ASSUME NEW i \in D, ms[i].role = "tool"
      PROVE  \E j \in D : Answers(ms, i, j)
  <2>1. i \in 1 .. n /\ i >= p /\ i # p
    <3>1. i \in 1 .. n /\ i >= p
      BY <1>4, <1>8
    <3> QED
      BY <1>2, <1>8, <3>1 DEF HasRole
  <2>2. ~CutOff(ms, i)
    <3>1. CASE p \in HasRole(ms, "user")
      BY <1>3, <2>1, <3>1 DEF CutOff
    <3>2. CASE \A j \in HasRole(ms, "assistant") : j <= p
      <4>1. \A j \in HasRole(ms, "assistant") : j \in 1 .. n /\ j <= p
        BY <1>1, <3>2 DEF HasRole
      <4>2. \A j \in HasRole(ms, "assistant") : ~(i < j)
        BY <1>1, <1>3, <2>1, <4>1
      <4> QED
        BY <4>2 DEF CutOff
    <3>3. CASE p = n + 1
      BY <1>1, <2>1, <3>3
    <3> QED
      BY <1>2, <3>1, <3>2, <3>3
  <2>3. PICK j \in DOMAIN ms : Answers(ms, i, j)
    <3>1. i \in HasRole(ms, "tool")
      BY <1>1, <1>8, <2>1 DEF HasRole
    <3> QED
      BY <2>2, <3>1 DEF Sound
  <2>4. /\ j \in HasRole(ms, "assistant") /\ j \in 1 .. n
        /\ j < i /\ i - j <= Len(ms[j].calls) /\ Len(ms[j].calls) \in Nat
    BY <1>1, <2>3 DEF Answers
  <2>5. j >= p
    <3> SUFFICES ASSUME j < p PROVE FALSE
      BY <1>3, <2>4
    <3>1. p - j \in 1 .. Len(ms[j].calls) /\ j + (p - j) = p /\ p # n + 1
      BY <1>1, <1>3, <2>1, <2>4
    <3>2. ms[j + (p - j)].role = "tool"
      BY <1>1, <2>4, <3>1 DEF Answered
    <3> QED
      BY <1>2, <3>1, <3>2 DEF HasRole
  <2> QED
    BY <1>1, <1>4, <2>3, <2>4, <2>5
<1>9. ASSUME NEW k \in HasRole(e, "tool")
      PROVE  \E l \in HasRole(e, "assistant") : l < k /\ k - l <= Len(e[l].calls)
  <2>1. k \in DOMAIN e /\ f[k] \in D /\ ms[f[k]].role = "tool"
    BY <1>6, <1>7, <1>9, ConversationFacts DEF Keeps, HasRole
  <2>2. PICK j \in D : Answers(ms, f[k], j)
    BY <1>8, <2>1
  <2>3. PICK l \in DOMAIN e : Answers(e, k, l)
    BY <1>7, <2>1, <2>2
  <2> QED
    BY <2>3 DEF Answers
<1>10. Paired(e)
  BY <1>6, <1>9 DEF Paired, Answered
<1> QED
  BY <1>0, <1>6, <1>10

\* There is no call without a result, and no placeholder.
LEMMA NoPlaceholders ==
  ASSUME NEW ms, IsConversation(ms), Paired(ms)
  PROVE  WithPlaceholders(ms) = ms
<1> DEFINE P == {ToolMessage(0, id) : id \in CallsOf(ms) \ AnsweredIn(ms)}
<1>1. \A id \in CallsOf(ms) : id \in AnsweredIn(ms)
  <2> TAKE id \in CallsOf(ms)
  <2>1. PICK i \in HasRole(ms, "assistant") : id \in ToSet(ms[i].calls)
    BY DEF CallsOf
  <2>2. i \in DOMAIN ms /\ IsSeq(ms[i].calls)
    BY <2>1 DEF HasRole, IsConversation, IsMessage
  <2>3. PICK j \in 1 .. Len(ms[i].calls) : ms[i].calls[j] = id
    BY <2>1, <2>2, SeqFacts DEF ToSet, IsSeq
  <2>4. /\ i + Len(ms[i].calls) <= Len(ms)
        /\ ms[i + j].role = "tool" /\ ms[i + j].id = id
    BY <2>1, <2>3 DEF Paired
  <2>5. i + j \in DOMAIN ms
    BY <2>2, <2>4, ConversationFacts
  <2> QED
    BY <2>4, <2>5 DEF AnsweredIn, HasRole
<1>2. P = {}
  BY <1>1
<1> HIDE DEF P
<1>3. SetToSeq({}) = <<>>
  <2>1. Cardinality({}) = 0 /\ 1 .. 0 = {}
    BY FS_EmptySet
  <2>2. \A g \in [{} -> {}] : g = <<>>
    <3>1. \A g \in [{} -> {}] : g = [x \in {} |-> x]
      OBVIOUS
    <3>2. <<>> = [x \in {} |-> x]
      OBVIOUS
    <3> QED
      BY <3>1, <3>2
  <2>3. DOMAIN <<>> = {}
    OBVIOUS
  <2>4. IsInjective(<<>>)
    BY <2>3, Zenon DEF IsInjective
  <2>5. <<>> \in [{} -> {}]
    OBVIOUS
  <2>6. SetToSeq({}) = CHOOSE g \in [{} -> {}] : IsInjective(g)
    BY <2>1 DEF SetToSeq
  <2> QED
    BY <2>2, <2>4, <2>5, <2>6
<1>4. ms \o <<>> = ms
  BY DEF IsConversation, IsSeq
<1> QED
  BY <1>2, <1>3, <1>4 DEF WithPlaceholders, P

\* Only the user's messages become part of a result.
LEMMA CoalescedIsPaired ==
  ASSUME NEW ms, IsConversation(ms), Paired(ms)
  PROVE  IsConversation(Coalesced(ms)) /\ Paired(Coalesced(ms))
<1>1. PICK D : Coalesced(ms) = EntriesAt(ms, D) /\ Spares(ms, D)
  BY DEF Coalesced, Spares
<1> QED
  BY <1>1, SparingKeepsPairs

\* All of ProjectMessages.
LEMMA ProjectionIsPaired ==
  ASSUME NEW ms, Sound(ms)
  PROVE  IsConversation(ProjectMessages(ms)) /\ Paired(ProjectMessages(ms))
<1>1. Sound(WithoutVirtual(ms))
  BY WithoutVirtualIsSound
<1>2. /\ IsConversation(Snipped(WithoutVirtual(ms)))
      /\ Paired(Snipped(WithoutVirtual(ms)))
  BY <1>1, SnippedIsPaired
<1> QED
  BY <1>2, NoPlaceholders, CoalescedIsPaired DEF ProjectMessages

\* In either style what is paired is accepted.
LEMMA PayloadIsWhole ==
  ASSUME NEW ms, IsConversation(ms), Paired(ms), NEW style \in Styles
  PROVE  WholeExchanges(PayloadMessages(style, ms))
<1>1. ASSUME NEW q, IsConversation(q), Paired(q),
             NEW p, DOMAIN p = DOMAIN q, Len(p) = Len(q),
             \A i \in DOMAIN q : /\ p[i].result = q[i].id
                                 /\ p[i].uses = q[i].calls
      PROVE  WholeExchanges(p)
  <2>1. /\ Len(q) \in Nat /\ DOMAIN q = 1 .. Len(q)
        /\ \A i \in DOMAIN q : /\ IsMessage(q[i]) /\ Len(q[i].calls) \in Nat
                               /\ DOMAIN q[i].calls = 1 .. Len(q[i].calls)
    <3>1. \A i \in DOMAIN q : DOMAIN q[i].calls = 1 .. Len(q[i].calls)
      BY <1>1, SeqFacts DEF IsConversation, IsMessage, IsSeq
    <3> QED
      BY <1>1, <3>1, ConversationFacts
  <2>2. ASSUME NEW i \in DOMAIN p, NEW n \in DOMAIN p[i].uses
        PROVE  i + n <= Len(p) /\ p[i + n].result = p[i].uses[n]
    <3>1. i \in DOMAIN q /\ n \in 1 .. Len(q[i].calls) /\ q[i].calls # <<>>
      BY <1>1, <2>1, <2>2
    <3>2. i \in HasRole(q, "assistant")
      BY <2>1, <3>1 DEF IsMessage, HasRole
    <3>3. i + Len(q[i].calls) <= Len(q) /\ q[i + n].id = q[i].calls[n]
      BY <1>1, <3>1, <3>2 DEF Paired
    <3>4. i + n \in DOMAIN q /\ i + n <= Len(q)
      BY <2>1, <3>1, <3>3
    <3> QED
      BY <1>1, <3>1, <3>3, <3>4
  <2>3. ASSUME NEW i \in DOMAIN p, p[i].result # NoCall
        PROVE  \E j \in 1 .. i - 1 : /\ i - j <= Len(p[j].uses)
                                     /\ p[j].uses[i - j] = p[i].result
    <3>1. i \in HasRole(q, "tool") /\ i \in 1 .. Len(q)
      BY <1>1, <2>1, <2>3 DEF IsMessage, HasRole
    <3>2. PICK j \in HasRole(q, "assistant") : j < i /\ i - j <= Len(q[j].calls)
      BY <1>1, <3>1 DEF Paired
    <3>3. /\ j \in DOMAIN q /\ j \in 1 .. i - 1 /\ i - j \in 1 .. Len(q[j].calls)
          /\ j + (i - j) = i
      <4>1. j \in 1 .. Len(q) /\ j \in DOMAIN q /\ Len(q[j].calls) \in Nat
        BY <2>1, <3>2 DEF HasRole
      <4>2. j < i /\ i - j <= Len(q[j].calls)
        BY <3>2
      <4> QED
        BY <3>1, <4>1, <4>2
    <3>4. q[j + (i - j)].id = q[j].calls[i - j]
      BY <1>1, <3>2, <3>3 DEF Paired
    <3> QED
      BY <1>1, <3>2, <3>3, <3>4
  <2> QED
    BY <2>2, <2>3 DEF WholeExchanges
<1> DEFINE D == {i \in DOMAIN ms : ms[i].role # "system"}
           said == EntriesAt(ms, D)
<1>2. IsConversation(said) /\ Paired(said)
  <2>1. Spares(ms, D)
    BY DEF Spares
  <2> HIDE DEF D
  <2> QED
    BY <2>1, SparingKeepsPairs
<1> DEFINE anthropic == [i \in DOMAIN said |-> AnthropicEntry(said[i])]
           openai == [i \in DOMAIN ms |-> OpenAiEntry(ms[i])]
<1>3. /\ style = "anthropic" => PayloadMessages(style, ms) = anthropic
      /\ style # "anthropic" => PayloadMessages(style, ms) = openai
  BY DEF PayloadMessages
<1> HIDE DEF said
<1>4. WholeExchanges(anthropic)
  <2>1. DOMAIN anthropic = DOMAIN said /\ Len(anthropic) = Len(said)
    <3>1. anthropic = [i \in DOMAIN said |-> anthropic[i]]
      OBVIOUS
    <3> HIDE DEF anthropic
    <3> QED
      BY <1>2, <3>1, MapFacts DEF IsConversation
  <2>2. \A i \in DOMAIN said : /\ anthropic[i].result = said[i].id
                                /\ anthropic[i].uses = said[i].calls
    BY <1>2, ConversationFacts DEF AnthropicEntry, IsMessage
  <2> HIDE DEF anthropic
  <2> QED
    BY <1>1, <1>2, <2>1, <2>2
<1>5. WholeExchanges(openai)
  <2>1. DOMAIN openai = DOMAIN ms /\ Len(openai) = Len(ms)
    <3>1. openai = [i \in DOMAIN ms |-> openai[i]]
      OBVIOUS
    <3> HIDE DEF openai
    <3> QED
      BY <3>1, MapFacts DEF IsConversation
  <2>2. \A i \in DOMAIN ms : /\ openai[i].result = ms[i].id
                              /\ openai[i].uses = ms[i].calls
    BY DEF OpenAiEntry
  <2> HIDE DEF openai
  <2> QED
    BY <1>1, <2>1, <2>2
<1> QED
  BY <1>3, <1>4, <1>5

\* More messages, with the results of their calls.
LEMMA SoundGrows ==
  ASSUME NEW ms, Sound(ms),
         NEW q, IsConversation(q), Len(ms) <= Len(q),
         \A i \in 1 .. Len(ms) : q[i] = ms[i],
         \A i \in DOMAIN q : i > Len(ms) =>
           /\ q[i].role = "assistant" => Answered(q, i)
           /\ q[i].role = "tool" => \E j \in DOMAIN q : Answers(q, i, j)
  PROVE  Sound(q)
<1> DEFINE n == Len(ms)
<1>1. /\ n \in Nat /\ DOMAIN ms = 1 .. n
      /\ Len(q) \in Nat /\ DOMAIN q = 1 .. Len(q) /\ n <= Len(q)
      /\ \A i \in DOMAIN ms : Len(ms[i].calls) \in Nat
  BY ConversationFacts DEF Sound
<1>2. \A i \in 1 .. n : i \in DOMAIN q /\ q[i] = ms[i]
  BY <1>1
<1>3. \A i \in DOMAIN q : i \in 1 .. n \/ i > n
  BY <1>1
<1>4. \A role : \A i \in 1 .. n : i \in HasRole(q, role) <=> i \in HasRole(ms, role)
  BY <1>1, <1>2 DEF HasRole
<1>5. ASSUME NEW i \in 1 .. n, q[i].role = "assistant"
      PROVE  Answered(q, i)
  <2>1. Answered(ms, i)
    BY <1>1, <1>2, <1>5 DEF HasRole, Sound
  <2>2. q[i].calls = ms[i].calls /\ Len(ms[i].calls) \in Nat
    BY <1>1, <1>2
  <2> DEFINE L == Len(ms[i].calls)
  <2>3. /\ i + L <= n
        /\ \A j \in 1 .. L : ms[i + j].role = "tool" /\ ms[i + j].id = ms[i].calls[j]
    BY <2>1 DEF Answered
  <2>4. L \in Nat /\ Len(q[i].calls) = L
    BY <2>2
  <2> HIDE DEF L, n
  <2>5. /\ i + L <= Len(q)
        /\ \A j \in 1 .. L : i + j \in 1 .. n
    BY <1>1, <2>3, <2>4
  <2>6. \A j \in 1 .. L : q[i + j] = ms[i + j]
    BY <1>2, <2>5
  <2> QED
    BY <2>2, <2>3, <2>4, <2>5, <2>6 DEF Answered
<1>6. ASSUME NEW i \in 1 .. n, q[i].role = "tool"
      PROVE  CutOff(q, i) \/ \E j \in DOMAIN q : Answers(q, i, j)
  <2>1. CutOff(ms, i) \/ \E j \in DOMAIN ms : Answers(ms, i, j)
    BY <1>1, <1>2, <1>6 DEF HasRole, Sound
  <2>2. CASE CutOff(ms, i)
    <3>1. \A j \in HasRole(q, "user") : i < j
      <4> TAKE j \in HasRole(q, "user")
      <4>1. j \in 1 .. n => i < j
        BY <1>4, <2>2 DEF CutOff
      <4>2. j > n => i < j
        BY <1>1 DEF HasRole
      <4> QED
        BY <1>3, <4>1, <4>2 DEF HasRole
    <3>2. PICK j \in HasRole(ms, "assistant") : i < j
      BY <2>2 DEF CutOff
    <3>3. j \in HasRole(q, "assistant")
      BY <1>1, <1>4, <3>2 DEF HasRole
    <3> QED
      BY <3>1, <3>2, <3>3 DEF CutOff
  <2>3. ASSUME NEW j \in DOMAIN ms, Answers(ms, i, j)
        PROVE  Answers(q, i, j) /\ j \in DOMAIN q
    BY <1>1, <1>2, <1>4, <2>3 DEF Answers
  <2> QED
    BY <2>1, <2>2, <2>3
<1>7. \A i \in HasRole(q, "assistant") : Answered(q, i)
  BY <1>3, <1>5 DEF HasRole
<1>8. \A i \in HasRole(q, "tool") : CutOff(q, i) \/ \E j \in DOMAIN q : Answers(q, i, j)
  BY <1>3, <1>6 DEF HasRole
<1> QED
  BY <1>7, <1>8 DEF Sound

\* Where the history begins is a message of the user, or after all of them.
LEMMA HistoryBegins ==
  ASSUME NEW ms, IsConversation(ms), NEW max \in Nat
  PROVE  \E start \in 1 .. Len(ms) + 1 :
           /\ GetHistory(ms, max) = SubSeq(ms, start, Len(ms))
           /\ \/ start \in HasRole(ms, "user")
              \/ \A i \in HasRole(ms, "user") : i < start
<1> DEFINE n == Len(ms)
           hard == IF n > max THEN n - max + 1 ELSE 1
           U == {i \in HasRole(ms, "user") : i >= hard}
           start == IF U = {} THEN hard
                    ELSE IF Cardinality(U) >= 3 THEN ThirdLast(U) ELSE Min(U)
<1>1. GetHistory(ms, max) = SubSeq(ms, start, n)
  BY DEF GetHistory
<1>2. n \in Nat /\ HasRole(ms, "user") \subseteq 1 .. n
  BY ConversationFacts DEF HasRole
<1>3. hard \in 1 .. n + 1
  BY <1>2
<1> HIDE DEF hard
<1>4. U \in SUBSET (1 .. n)
  BY <1>2
<1>5. U = {} => \A i \in HasRole(ms, "user") : i < hard
  BY <1>2, <1>3
<1>6. U # {} => start \in U
  <2> HIDE DEF U
  <2>1. Cardinality(U) >= 3 => ThirdLast(U) \in U
    BY <1>2, <1>4, ThirdLastExists
  <2>2. U # {} => Min(U) \in U
    BY <1>2, <1>4, EndsExist
  <2> QED
    BY <2>1, <2>2
<1>7. U = {} => start = hard
  OBVIOUS
<1> HIDE DEF start
<1>8. /\ start \in 1 .. n + 1
      /\ start \in HasRole(ms, "user") \/ \A i \in HasRole(ms, "user") : i < start
  <2>1. CASE U = {}
    BY <1>3, <1>5, <1>7, <2>1
  <2>2. CASE U # {}
    BY <1>2, <1>4, <1>6, <2>2
  <2> QED
    BY <2>1, <2>2
<1> QED
  BY <1>1, <1>8

\* The system prompt and the history: a cut within the last turn leaves results
\* without their call, and after them the answer, but no message of the user.
LEMMA HistoryIsSound ==
  ASSUME NEW ms, Whole(ms), NEW max \in Nat
  PROVE  Sound(<<SystemMessage>> \o GetHistory(ms, max))
<1> DEFINE S == ToSet(ms)
           n == Len(ms)
           h == GetHistory(ms, max)
           b == <<SystemMessage>> \o h
<1>1. /\ IsConversation(ms) /\ Paired(ms)
      /\ ms # <<>> => IsFinal(Last(ms))
      /\ ms \in Seq(S)
  BY DEF Whole, WholeTurns, IsConversation, IsSeq
<1>2. /\ n \in Nat /\ DOMAIN ms = 1 .. n
      /\ \A i \in DOMAIN ms : IsMessage(ms[i]) /\ Len(ms[i].calls) \in Nat
  BY <1>1, ConversationFacts
<1> HIDE DEF S
<1>3. PICK start \in 1 .. n + 1 :
        /\ h = SubSeq(ms, start, n)
        /\ start \in HasRole(ms, "user") \/ \A i \in HasRole(ms, "user") : i < start
  BY <1>1, HistoryBegins
<1> HIDE DEF h
<1> DEFINE L == n - start + 1
<1>4. /\ h \in Seq(S) /\ Len(h) = L /\ L \in Nat
      /\ \A i \in 1 .. L : h[i] = ms[start + i - 1]
  BY <1>1, <1>2, <1>3
<1>5. IsSeq(h) /\ IsSeq(<<SystemMessage>>) /\ Len(<<SystemMessage>>) = 1
  <2>1. <<SystemMessage>> \in Seq({SystemMessage})
    OBVIOUS
  <2> QED
    BY <1>4, <2>1, SeqFacts
<1>6. /\ IsSeq(b) /\ Len(b) = 1 + L /\ b[1] = SystemMessage
      /\ \A i \in 1 .. L : b[1 + i] = h[i]
  <2>1. IsSeq(b)
    BY <1>5, ConcatFacts
  <2>2. Len(b) = Len(<<SystemMessage>>) + Len(h)
    BY <1>5, ConcatFacts
  <2>3. \A i \in 1 .. Len(<<SystemMessage>>) : b[i] = <<SystemMessage>>[i]
    BY <1>5, ConcatFacts
  <2>4. \A i \in 1 .. Len(h) : b[Len(<<SystemMessage>>) + i] = h[i]
    BY <1>5, ConcatFacts
  <2>5. b[1] = SystemMessage
    BY <1>5, <2>3
  <2> HIDE DEF b, L
  <2> QED
    BY <1>4, <1>5, <2>1, <2>2, <2>4, <2>5
<1> HIDE DEF b
<1>7. DOMAIN b = 1 .. 1 + L
  BY <1>6, SeqFacts DEF IsSeq
<1> DEFINE At(x) == x + start - 2
<1>8. \A x \in 2 .. 1 + L : At(x) \in start .. n /\ At(x) \in 1 .. n /\ b[x] = ms[At(x)]
  <2> TAKE x \in 2 .. 1 + L
  <2>1. x - 1 \in 1 .. L /\ 1 + (x - 1) = x /\ start + (x - 1) - 1 = At(x)
    BY <1>2, <1>3
  <2>2. b[1 + (x - 1)] = h[x - 1] /\ h[x - 1] = ms[start + (x - 1) - 1]
    BY <1>4, <1>6, <2>1
  <2>3. At(x) \in start .. n /\ At(x) \in 1 .. n
    BY <1>2, <1>3
  <2> HIDE DEF At
  <2> QED
    BY <2>1, <2>2, <2>3
<1>9. SystemMessage.role = "system" /\ IsMessage(SystemMessage)
  BY DEF SystemMessage, Message, IsMessage, IsSeq
<1>10. \A x \in DOMAIN b : b[x].role # "system" => x \in 2 .. 1 + L
  <2>1. \A x \in DOMAIN b : x = 1 \/ x \in 2 .. 1 + L
    BY <1>4, <1>7
  <2> QED
    BY <1>6, <1>9, <2>1
<1>11. IsConversation(b)
  <2>1. \A x \in DOMAIN b : x = 1 \/ x \in 2 .. 1 + L
    BY <1>4, <1>7
  <2> QED
    BY <1>2, <1>6, <1>8, <1>9, <2>1 DEF IsConversation
<1>12. ASSUME NEW x \in HasRole(b, "assistant")
       PROVE  Answered(b, x)
  <2>1. x \in 2 .. 1 + L /\ ms[At(x)].role = "assistant" /\ At(x) \in 1 .. n /\ b[x] = ms[At(x)]
    BY <1>8, <1>10, <1>12 DEF HasRole
  <2> DEFINE l == Len(ms[At(x)].calls)
  <2>2. /\ l \in Nat /\ At(x) + l <= n
        /\ \A j \in 1 .. l : /\ ms[At(x) + j].role = "tool"
                             /\ ms[At(x) + j].id = ms[At(x)].calls[j]
    BY <1>1, <1>2, <2>1 DEF Paired, HasRole
  <2> HIDE DEF l
  <2>3. x + l <= Len(b)
    BY <1>2, <1>3, <1>6, <2>1, <2>2
  <2>4. \A j \in 1 .. l : x + j \in 2 .. 1 + L /\ At(x + j) = At(x) + j
    BY <1>2, <1>3, <2>1, <2>2
  <2>5. \A j \in 1 .. l : b[x + j] = ms[At(x) + j]
    BY <1>8, <2>4
  <2> QED
    BY <2>1, <2>2, <2>3, <2>5 DEF Answered, l
<1>13. ASSUME NEW x \in HasRole(b, "tool")
       PROVE  CutOff(b, x) \/ \E y \in DOMAIN b : Answers(b, x, y)
  <2> DEFINE i == At(x)
  <2>1. x \in 2 .. 1 + L /\ ms[i].role = "tool" /\ i \in start .. n /\ i \in 1 .. n
    BY <1>8, <1>10, <1>13 DEF HasRole
  <2>2. PICK j \in HasRole(ms, "assistant") : j < i /\ i - j <= Len(ms[j].calls)
    BY <1>1, <1>2, <2>1 DEF Paired, HasRole
  <2>3. j \in 1 .. n /\ ms[j].role = "assistant" /\ Len(ms[j].calls) \in Nat
    BY <1>2, <2>2 DEF HasRole
  <2>4. CASE j >= start
    <3> DEFINE y == j - start + 2
    <3>1. y \in 2 .. 1 + L /\ At(y) = j /\ y < x /\ x - y = i - j
      <4>1. x \in Int /\ start \in Int /\ n \in Int /\ j \in Int /\ start <= j /\ j <= n
        BY <1>2, <1>3, <2>1, <2>3, <2>4
      <4>2. j < x + start - 2
        BY <2>2
      <4> QED
        BY <4>1, <4>2
    <3> HIDE DEF y, i
    <3>2. b[y] = ms[j] /\ y \in DOMAIN b
      <4>1. b[y] = ms[At(y)]
        BY <1>8, <3>1
      <4>2. y \in 1 .. 1 + L
        BY <1>4, <3>1
      <4> QED
        BY <1>7, <3>1, <4>1, <4>2
    <3> QED
      BY <2>2, <2>3, <3>1, <3>2 DEF Answers, HasRole
  <2>5. CASE j < start
    <3>1. \A u \in HasRole(ms, "user") : u < start
      <4>1. start - j \in 1 .. Len(ms[j].calls) /\ j + (start - j) = start
        BY <1>2, <1>3, <2>1, <2>2, <2>3, <2>5
      <4>2. ms[j + (start - j)].role = "tool"
        BY <1>1, <2>2, <4>1 DEF Paired
      <4>3. start \notin HasRole(ms, "user")
        BY <4>1, <4>2 DEF HasRole
      <4> QED
        BY <1>3, <4>3
    <3>2. \A y \in HasRole(b, "user") : FALSE
      <4> SUFFICES ASSUME NEW y \in HasRole(b, "user") PROVE FALSE
        OBVIOUS
      <4>1. y \in 2 .. 1 + L /\ ms[At(y)].role = "user" /\ At(y) \in start .. n /\ At(y) \in 1 .. n
        BY <1>8, <1>10 DEF HasRole
      <4>2. At(y) \in HasRole(ms, "user")
        BY <1>2, <4>1 DEF HasRole
      <4> HIDE DEF At
      <4> QED
        BY <1>3, <3>1, <4>1, <4>2
    <3>3. ms[n].role = "assistant" /\ n # i /\ n \in 1 .. n
      <4>1. ms # <<>> /\ Last(ms) = ms[n] /\ n \in 1 .. n
        BY <1>1, <1>2, <2>1, SeqFacts
      <4>2. ms[n].role = "assistant"
        BY <1>1, <4>1 DEF IsFinal
      <4> QED
        BY <2>1, <4>1, <4>2
    <3>4. 1 + L \in 2 .. 1 + L /\ At(1 + L) = n /\ x < 1 + L /\ 1 + L \in 1 .. 1 + L
      BY <1>2, <1>3, <2>1, <3>3
    <3>5. 1 + L \in HasRole(b, "assistant") /\ x < 1 + L
      <4>1. b[1 + L] = ms[At(1 + L)]
        BY <1>8, <3>4
      <4> HIDE DEF L, At
      <4> QED
        BY <1>7, <3>3, <3>4, <4>1 DEF HasRole
    <3> QED
      BY <3>2, <3>5 DEF CutOff
  <2> QED
    BY <1>3, <2>3, <2>4, <2>5
<1>14. Sound(b)
  BY <1>11, <1>12, <1>13 DEF Sound
<1> QED
  BY <1>14 DEF b, h

\* q is b, the user's message of turn n, and virtual messages.
BeginsTurn(q, b, n) ==
  /\ Sound(b) /\ IsSeq(q)
  /\ Len(b) \in Nat /\ Len(b) + 1 \in DOMAIN q
  /\ \A i \in 1 .. Len(b) : q[i] = b[i]
  /\ q[Len(b) + 1] = UserMessage(n)
  /\ \A i \in DOMAIN q : i > Len(b) + 1 => q[i] = VirtualMessage(n)

\* A turn begins: the user's message follows, and the notifications.
LEMMA BuiltMessages ==
  ASSUME NEW ms, Whole(ms), NEW max \in Nat, NEW n, NEW notes, IsSeq(notes)
  PROVE  LET b == <<SystemMessage>> \o GetHistory(ms, max)
             q == BuildMessages(GetHistory(ms, max), n)
                    \o [i \in DOMAIN notes |-> VirtualMessage(n)]
         IN  BeginsTurn(q, b, n)
<1> DEFINE b == <<SystemMessage>> \o GetHistory(ms, max)
           u == <<UserMessage(n)>>
           p == b \o u
           v == [i \in DOMAIN notes |-> VirtualMessage(n)]
           q == p \o v
           k == Len(b)
<1>0. q = BuildMessages(GetHistory(ms, max), n)
            \o [i \in DOMAIN notes |-> VirtualMessage(n)]
  BY DEF BuildMessages
<1>1a. q = p \o v
  OBVIOUS
<1>1. Sound(b)
  BY HistoryIsSound
<1>2. IsSeq(v) /\ \A i \in 1 .. Len(v) : v[i] = VirtualMessage(n)
  <2>1. v = [i \in DOMAIN notes |-> v[i]]
    OBVIOUS
  <2>2. \A i \in DOMAIN notes : v[i] = VirtualMessage(n)
    OBVIOUS
  <2> HIDE DEF v
  <2> QED
    BY <2>1, <2>2, MapFacts
<1>3. IsSeq(u) /\ Len(u) = 1 /\ u[1] = UserMessage(n)
  <2>1. u \in Seq({UserMessage(n)})
    OBVIOUS
  <2> QED
    BY <2>1, SeqFacts
<1> HIDE DEF b, v
<1>4. IsSeq(b) /\ k \in Nat
  BY <1>1, ConversationFacts DEF Sound, IsConversation
<1> HIDE DEF u, q
<1>5. /\ IsSeq(p) /\ Len(p) = k + 1 /\ p[k + 1] = UserMessage(n)
      /\ \A i \in 1 .. k : p[i] = b[i]
  <2>1. IsSeq(p)
    BY <1>3, <1>4, ConcatFacts
  <2>4. Len(p) = k + Len(u)
    BY <1>3, <1>4, ConcatFacts
  <2>2. \A i \in 1 .. k : p[i] = b[i]
    BY <1>3, <1>4, ConcatFacts
  <2>3. \A i \in 1 .. Len(u) : p[k + i] = u[i]
    <3>1. IsSeq(b) /\ IsSeq(u)
      BY <1>3, <1>4
    <3> HIDE DEF p, k
    <3>2. \A i \in 1 .. Len(u) : (b \o u)[Len(b) + i] = u[i]
      BY <3>1, ConcatFacts
    <3> QED
      BY <3>2, Zenon DEF p, k
  <2> HIDE DEF p, k
  <2> QED
    BY <1>3, <2>1, <2>2, <2>3, <2>4
<1> HIDE DEF p, k
<1>6. IsSeq(q) /\ Len(q) = Len(p) + Len(v)
  BY <1>1a, <1>2, <1>5, ConcatFacts
<1>7. /\ \A i \in 1 .. Len(p) : q[i] = p[i]
      /\ \A i \in 1 .. Len(v) : q[Len(p) + i] = v[i]
  BY <1>1a, <1>2, <1>5, ConcatFacts
<1>8. /\ Len(v) \in Nat
      /\ DOMAIN q = 1 .. Len(q)
  BY <1>2, <1>6, SeqFacts DEF IsSeq
<1>9. \A i \in DOMAIN q : i \in 1 .. k \/ i = k + 1 \/ i - (k + 1) \in 1 .. Len(v)
  BY <1>4, <1>5, <1>6, <1>8
<1>10. \A i \in 1 .. k : q[i] = b[i]
  BY <1>4, <1>5, <1>7
<1>11. k + 1 \in DOMAIN q /\ q[k + 1] = UserMessage(n)
  <2>1. k + 1 \in 1 .. Len(p) /\ k + 1 \in 1 .. Len(q)
    BY <1>4, <1>5, <1>6, <1>8
  <2> QED
    BY <1>5, <1>7, <1>8, <2>1
<1>12. ASSUME NEW i \in DOMAIN q, i > k + 1
       PROVE  q[i] = VirtualMessage(n)
  <2> DEFINE j == i - (k + 1)
  <2>1. j \in 1 .. Len(v) /\ Len(p) + j = i
    BY <1>4, <1>5, <1>8, <1>9, <1>12
  <2> HIDE DEF j
  <2> QED
    BY <1>2, <1>7, <2>1
<1>13. BeginsTurn(q, b, n)
  BY <1>1, <1>4, <1>6, <1>10, <1>11, <1>12 DEF BeginsTurn, k
<1> QED
  BY <1>0, <1>13 DEF b

\* It is sound to begin with.
LEMMA BuiltIsSound ==
  ASSUME NEW ms, Whole(ms), NEW max \in Nat, NEW n, NEW notes, IsSeq(notes)
  PROVE  LET q == BuildMessages(GetHistory(ms, max), n)
                    \o [i \in DOMAIN notes |-> VirtualMessage(n)]
         IN  IsSeq(q) /\ Sound(q)
<1> DEFINE b == <<SystemMessage>> \o GetHistory(ms, max)
           q == BuildMessages(GetHistory(ms, max), n)
                  \o [i \in DOMAIN notes |-> VirtualMessage(n)]
           k == Len(b)
<1>1. /\ Sound(b) /\ IsSeq(q)
      /\ k \in Nat /\ k + 1 \in DOMAIN q
      /\ \A i \in 1 .. k : q[i] = b[i]
      /\ q[k + 1] = UserMessage(n)
      /\ \A i \in DOMAIN q : i > k + 1 => q[i] = VirtualMessage(n)
  <2>1. BeginsTurn(q, b, n)
    BY BuiltMessages
  <2> HIDE DEF b, q
  <2> QED
    BY <2>1 DEF BeginsTurn
<1> HIDE DEF b, q
<1>2. /\ UserMessage(n).role = "user" /\ IsMessage(UserMessage(n))
      /\ VirtualMessage(n).role = "user" /\ IsMessage(VirtualMessage(n))
  BY DEF UserMessage, VirtualMessage, Message, IsMessage, IsSeq
<1>3. Len(q) \in Nat /\ DOMAIN q = 1 .. Len(q) /\ k <= Len(q)
  <2>1. Len(q) \in Nat /\ DOMAIN q = 1 .. Len(q)
    BY <1>1, SeqFacts DEF IsSeq
  <2> HIDE DEF k
  <2> QED
    BY <1>1, <2>1
<1>4. \A i \in DOMAIN q : i > k => q[i].role = "user" /\ IsMessage(q[i])
  <2>1. \A i \in DOMAIN q : i > k => i = k + 1 \/ i > k + 1
    BY <1>1, <1>3
  <2> HIDE DEF k
  <2> QED
    BY <1>1, <1>2, <2>1
<1>5. IsConversation(q)
  <2>1. \A i \in 1 .. k : IsMessage(b[i])
    BY <1>1, ConversationFacts DEF Sound
  <2>2. \A i \in DOMAIN q : i \in 1 .. k \/ i > k
    BY <1>1, <1>3
  <2> HIDE DEF k
  <2> QED
    BY <1>1, <1>4, <2>1, <2>2 DEF IsConversation
<1>6. /\ Len(b) <= Len(q)
      /\ \A i \in 1 .. Len(b) : q[i] = b[i]
      /\ \A i \in DOMAIN q : i > Len(b) =>
           q[i].role # "assistant" /\ q[i].role # "tool"
  BY <1>1, <1>3, <1>4
<1>7. Sound(q)
  BY <1>1, <1>5, <1>6, SoundGrows
<1> QED
  BY <1>1, <1>7 DEF q

\* An exchange follows.
LEMMA ExchangeIsSound ==
  ASSUME NEW ms, Sound(ms), NEW q, IsSeq(q),
         \A i \in 1 .. Len(ms) : q[i] = ms[i],
         Exchange(q, Len(ms))
  PROVE  Sound(q)
<1> DEFINE n == Len(ms)
           L == Len(q[n + 1].calls)
<1>1. /\ n \in Nat /\ \A i \in 1 .. n : IsMessage(ms[i])
  BY ConversationFacts DEF Sound
<1>2. /\ IsMessage(q[n + 1]) /\ Len(q) = n + 1 + L
      /\ q[n + 1].role \in {"user", "assistant"}
      /\ \A j \in 1 .. L : /\ q[n + 1 + j].role = "tool"
                           /\ q[n + 1 + j].id = q[n + 1].calls[j]
                           /\ IsMessage(q[n + 1 + j])
  BY DEF Exchange
<1>3. L \in Nat /\ (L # 0 => q[n + 1].role = "assistant")
  BY <1>2, SeqFacts DEF IsMessage, IsSeq
<1> HIDE DEF L, n
<1>4. DOMAIN q = 1 .. n + 1 + L
  BY <1>2, SeqFacts DEF IsSeq
<1>5. \A i \in DOMAIN q : i \in 1 .. n \/ i = n + 1 \/ i - (n + 1) \in 1 .. L
  BY <1>1, <1>3, <1>4
<1>6. \A i \in DOMAIN q : i - (n + 1) \in 1 .. L =>
        q[i].role = "tool" /\ IsMessage(q[i])
  <2> TAKE i \in DOMAIN q
  <2> HAVE i - (n + 1) \in 1 .. L
  <2>1. n + 1 + (i - (n + 1)) = i
    BY <1>1, <1>4
  <2> QED
    BY <1>2, <2>1
<1>7. IsConversation(q)
  <2>1. \A i \in 1 .. n : q[i] = ms[i]
    BY DEF n
  <2>2. \A i \in DOMAIN q : IsMessage(q[i])
    BY <1>1, <1>2, <1>5, <1>6, <2>1
  <2> QED
    BY <2>2 DEF IsConversation
<1>8. ASSUME NEW i \in DOMAIN q, i > n
      PROVE  /\ q[i].role = "assistant" => Answered(q, i)
             /\ q[i].role = "tool" => \E j \in DOMAIN q : Answers(q, i, j)
  <2>1. CASE i = n + 1
    <3>1. Answered(q, n + 1)
      BY <1>1, <1>2, <1>3 DEF Answered, L
    <3> QED
      BY <1>2, <2>1, <3>1
  <2>2. CASE i - (n + 1) \in 1 .. L
    <3>1. n + 1 \in DOMAIN q /\ n + 1 < i /\ i - (n + 1) <= L /\ L # 0
      BY <1>1, <1>3, <1>4, <2>2
    <3>2. Answers(q, i, n + 1)
      BY <1>3, <3>1 DEF Answers, HasRole, L
    <3> QED
      BY <1>6, <2>2, <3>1, <3>2
  <2> QED
    BY <1>1, <1>5, <1>8, <2>1, <2>2
<1>9. n <= Len(q)
  BY <1>1, <1>2, <1>3
<1> QED
  BY <1>7, <1>8, <1>9, SoundGrows DEF n

\* The model is reminded.
LEMMA ReminderIsSound ==
  ASSUME NEW ms, Sound(ms)
  PROVE  LET q == Append(ms, Message("user", 0, NoCall, <<>>, "")) IN IsSeq(q) /\ Sound(q)
<1> DEFINE m == Message("user", 0, NoCall, <<>>, "")
           q == Append(ms, m)
<1>1. m.role = "user" /\ m.calls = <<>> /\ IsMessage(m) /\ Len(m.calls) = 0
  BY DEF Message, IsSeq, IsMessage
<1> HIDE DEF m
<1>2. IsSeq(ms)
  BY DEF Sound, IsConversation
<1>3. /\ IsSeq(q) /\ Len(q) = Len(ms) + 1 /\ Len(ms) \in Nat /\ q[Len(ms) + 1] = m
      /\ \A i \in 1 .. Len(ms) : q[i] = ms[i]
  BY <1>2, AppendElements
<1> HIDE DEF q
<1>4. Exchange(q, Len(ms))
  <2>1. /\ q[Len(ms) + 1].calls = <<>> /\ Len(<<>>) = 0 /\ IsMessage(q[Len(ms) + 1])
        /\ q[Len(ms) + 1].role \in {"user", "assistant"}
    BY <1>1, <1>3
  <2>2. \A j \in 1 .. 0 : FALSE
    OBVIOUS
  <2> QED
    BY <1>3, <2>1, <2>2 DEF Exchange
<1> QED
  BY <1>3, <1>4, ExchangeIsSound DEF q, m

----------------------------------------------------------------------------
(* The kinds of steps *)

\* The turn of t goes on, or ends.
Onward(t) ==
  /\ DOMAIN turn' = Threads
  /\ \A u \in Threads : u # t => turn'[u] = turn[u]
  /\ DOMAIN turn'[t] = TurnFields
  /\ turn[t].at # "idle"
  /\ \/ turn'[t].at = "idle"
     \/ /\ turn[t].at \in InLoop /\ turn'[t].at \in InLoop
        /\ turn'[t].key = turn[t].key
        /\ IsCopy(turn'[t].session)
        /\ \/ turn'[t].session.messages = turn[t].session.messages
           \/ \E m : turn'[t].session.messages = Append(turn[t].session.messages, m)

\* No subagent is started, or one is by turn t.
Starts(t) ==
  \/ UNCHANGED agent
  \/ \E n \in Agents :
       /\ agent[n].at = "free"
       /\ agent' = [agent EXCEPT ![n] =
            [NoAgent EXCEPT !.at = "launched", !.status = "backgrounded",
                            !.key = turn[t].key, !.home = turn[t].key]]

Loop(t) ==
  \/ ChatFails(t)
  \/ \E body \in Responses : Chat(t, LLMResponse(body))
  \/ OutOfIterations(t)
  \/ ToolFails(t)
  \/ \E n \in Agents : SpawnSubagent(t, n)
  \/ OtherTool(t)

\* A turn appends a message to its copy, and moves.
LEMMA CopyGrows ==
  ASSUME Inv, NEW t \in Threads, turn[t].at \in InLoop,
         NEW s, DOMAIN s = {"messages", "notes"}, s.notes = turn[t].session.notes,
         NEW m, s.messages = Append(turn[t].session.messages, m)
  PROVE  IsCopy(s)
<1>1. IsCopy(turn[t].session)
  BY DEF Inv, TurnInv
<1> QED
  BY <1>1, AppendFacts DEF IsCopy

\* A reply without a call leaves everything but the flags and the context.
LEMMA TextStep ==
  ASSUME Inv, NEW t \in Threads, NEW blank, ChatText(t, blank)
  PROVE  /\ turn[t].at = "loop" /\ turn'[t].at \in {"loop", "finish"}
         /\ DOMAIN turn' = Threads
         /\ \A u \in Threads : u # t => turn'[u] = turn[u]
         /\ DOMAIN turn'[t] = TurnFields
         /\ turn'[t].key = turn[t].key /\ turn'[t].n = turn[t].n
         /\ turn'[t].calls = turn[t].calls /\ turn'[t].session = turn[t].session
         /\ \/ turn'[t].context = turn[t].context
            \/ turn'[t].context =
                 Append(turn[t].context, Message("user", 0, NoCall, <<>>, ""))
<1>0. DOMAIN turn = Threads /\ DOMAIN turn[t] = TurnFields /\ turn[t].at = "loop"
  BY DEF Inv, TurnInv, ChatText
<1>1. CASE \E flag : Remind(t, flag)
  <2>1. PICK flag : Remind(t, flag)
    BY <1>1
  <2> DEFINE b == turn[t].retried \/ flag = "retried"
             c == turn[t].reminded \/ flag = "reminded"
             w == Append(turn[t].context, Message("user", 0, NoCall, <<>>, ""))
  <2>2. turn' = [turn EXCEPT
          ![t].iteration = turn[t].iteration + 1, ![t].retried = b, ![t].reminded = c,
          ![t].context = w]
    BY <2>1, Zenon DEF Remind
  <2> HIDE DEF b, c, w
  <2>3. \E x, y, z : turn' = [turn EXCEPT ![t].iteration = x, ![t].retried = y,
                                          ![t].reminded = z, ![t].context = w]
    BY <2>2, Zenon
  <2>4. /\ turn'[t].context = w /\ turn'[t].at = turn[t].at
        /\ DOMAIN turn' = Threads
        /\ \A u \in Threads : u # t => turn'[u] = turn[u]
        /\ DOMAIN turn'[t] = TurnFields
        /\ turn'[t].key = turn[t].key /\ turn'[t].n = turn[t].n
        /\ turn'[t].calls = turn[t].calls /\ turn'[t].session = turn[t].session
    BY <1>0, <2>3 DEF TurnFields
  <2>5. w = Append(turn[t].context, Message("user", 0, NoCall, <<>>, ""))
    BY DEF w
  <2> QED
    BY <1>0, <2>4, <2>5
<1>2. CASE turn' = [turn EXCEPT ![t].at = "finish"]
  BY <1>0, <1>2 DEF TurnFields
<1> QED
  BY <1>1, <1>2 DEF ChatText

\* What a step of the loop does to its turn and to what is kept.
LEMMA LoopStep ==
  ASSUME Inv, NEW t \in Threads, Loop(t)
  PROVE  Onward(t) /\ Starts(t) /\ UNCHANGED <<target, cache, db, stale>>
<1> USE DEF InLoop
<1>0. /\ DOMAIN turn = Threads /\ DOMAIN turn[t] = TurnFields
      /\ turn[t].at \in InLoop => IsCopy(turn[t].session)
      /\ turn[t].at \in InLoop => DOMAIN turn[t].session = {"messages", "notes"}
  BY DEF Inv, TurnInv, IsCopy
<1>1. CASE Fail(t) /\ turn[t].at \in {"loop", "tools"}
  BY <1>0, <1>1 DEF Fail, Onward, Starts, NoTurn, TurnFields, outside
<1>2. ASSUME NEW tools, ChatCalls(t, tools)
      PROVE  Onward(t) /\ UNCHANGED <<outside, cache, db, agent, stale>>
  <2> DEFINE s == turn'[t].session
  <2>1. /\ turn[t].at = "loop" /\ turn'[t].at = "tools" /\ DOMAIN turn' = Threads
        /\ \A u \in Threads : u # t => turn'[u] = turn[u]
        /\ DOMAIN turn'[t] = TurnFields /\ turn'[t].key = turn[t].key
        /\ DOMAIN s = {"messages", "notes"} /\ s.notes = turn[t].session.notes
        /\ \E m : s.messages = Append(turn[t].session.messages, m)
    BY <1>0, <1>2 DEF ChatCalls, TurnFields
  <2> HIDE DEF s
  <2>2. IsCopy(s)
    BY <2>1, CopyGrows
  <2> QED
    BY <1>2, <2>1, <2>2 DEF ChatCalls, Onward, s
<1>3. ASSUME NEW blank, ChatText(t, blank)
      PROVE  Onward(t) /\ UNCHANGED <<outside, cache, db, agent, stale>>
  BY <1>0, <1>3, TextStep DEF ChatText, Onward
<1>4. CASE OutOfIterations(t)
  BY <1>0, <1>4 DEF OutOfIterations, Onward, Starts, TurnFields, outside
<1>5. ASSUME turn[t].at = "tools", ToolResult(t)
      PROVE  Onward(t)
  <2> DEFINE s == turn'[t].session
  <2>1. /\ turn'[t].at \in InLoop /\ DOMAIN turn' = Threads
        /\ \A u \in Threads : u # t => turn'[u] = turn[u]
        /\ DOMAIN turn'[t] = TurnFields /\ turn'[t].key = turn[t].key
        /\ DOMAIN s = {"messages", "notes"} /\ s.notes = turn[t].session.notes
        /\ \E m : s.messages = Append(turn[t].session.messages, m)
    BY <1>0, <1>5 DEF ToolResult, TurnFields
  <2> HIDE DEF s
  <2>2. IsCopy(s)
    BY <1>5, <2>1, CopyGrows
  <2> QED
    BY <1>5, <2>1, <2>2 DEF Onward, s
<1>6. CASE OtherTool(t)
  BY <1>5, <1>6 DEF OtherTool, Starts, outside
<1>7. CASE \E n \in Agents : SpawnSubagent(t, n)
  BY <1>5, <1>7 DEF SpawnSubagent, NextTool, Starts, outside
<1>8. CASE \E body \in Responses : Chat(t, LLMResponse(body))
  BY <1>2, <1>3, <1>8 DEF Chat, Starts, outside
<1> QED
  BY <1>1, <1>4, <1>6, <1>7, <1>8 DEF Loop, ChatFails, ToolFails

\* A turn begins in session k, which may be deleted first; "/new" alone is no turn.
Begins(t, k) ==
  /\ \A u \in Threads : turn[u].at = "idle"
  /\ DOMAIN turn' = Threads
  /\ \A u \in Threads : u # t => turn'[u] = turn[u]
  /\ DOMAIN turn'[t] = TurnFields
  /\ turn'[t].at \in {"idle", "open"}
  /\ turn'[t].at = "open" => turn'[t].key = k /\ turn'[t].calls = <<>>
  /\ turn'[t].at = "idle" => turn'[t].calls = turn[t].calls
  /\ target' = k
  /\ UNCHANGED <<cache, db>> \/ DeleteSession(k)
  /\ UNCHANGED <<agent, stale>>

\* What the beginning of a turn does.
LEMMA BeginStep ==
  ASSUME Inv, NEW t \in Threads, NEW k \in Keys, NEW g \in BOOLEAN,
         \/ BeginDirect(t, k, g) \/ BeginMessage(t, k, g) \/ BeginNew(t, k, g)
         \/ JustNew(t, k)
  PROVE  Begins(t, k)
<1>0. DOMAIN turn = Threads /\ \A u \in Threads : DOMAIN turn[u] = TurnFields
  BY DEF Inv, TurnInv
<1>1. CASE Enter(t, k, g) /\ (UNCHANGED <<cache, db>> \/ DeleteSession(k))
  BY <1>0, <1>1 DEF Enter, process_mutex_free, Begins, NoTurn, TurnFields
<1>2. CASE JustNew(t, k)
  <2>1. /\ \A u \in Threads : turn[u].at = "idle"
        /\ turn' = turn /\ target' = k /\ agent' = agent /\ stale' = stale
        /\ DeleteSession(k)
    BY <1>2 DEF JustNew, process_mutex_free
  <2>2. /\ DOMAIN turn' = Threads /\ \A u \in Threads : u # t => turn'[u] = turn[u]
        /\ DOMAIN turn'[t] = TurnFields /\ turn'[t].at = "idle"
    BY <1>0, <2>1
  <2> QED
    BY <2>1, <2>2 DEF Begins
<1> QED
  BY <1>1, <1>2 DEF BeginDirect, BeginMessage, BeginNew

\* A subagent moves, or its handler takes a copy of the session.
Moves(n) ==
  /\ DOMAIN agent' = Agents
  /\ \A m \in Agents : m # n => agent'[m] = agent[m]
  /\ DOMAIN agent'[n] = AgentFields
  /\ agent[n].at \notin {"free", "done"} /\ agent'[n].at # "free"
  /\ agent'[n].key = agent[n].key /\ agent'[n].home = agent[n].home
  /\ agent'[n].at = "saving" =>
       agent'[n].copy = Load(agent[n].key) /\ Load(agent[n].key) # NoSession
  /\ UNCHANGED <<turn, target, db, stale>>
  /\ \/ UNCHANGED cache
     \/ /\ Load(agent[n].key) # NoSession
        /\ cache' = [cache EXCEPT ![agent[n].key] = Load(agent[n].key)]

\* What a subagent does before its completion handler saves.
LEMMA MoveStep ==
  ASSUME Inv, NEW n \in Agents,
         \/ /\ AgentStarts(n) \/ AgentChats(n) \/ AgentCallsTools(n) \/ AgentOutOfTurns(n)
            /\ UNCHANGED <<turn, outside, cache, db, toolKey, stale>>
         \/ HandlerGets(n)
  PROVE  Moves(n)
<1> USE DEF AgentFields
<1>0. DOMAIN agent = Agents /\ \A m \in Agents : DOMAIN agent[m] = AgentFields
  BY DEF Inv, AgentInv
<1>1. CASE /\ AgentStarts(n) \/ AgentCallsTools(n) \/ AgentOutOfTurns(n)
           /\ UNCHANGED <<turn, outside, cache, db, toolKey, stale>>
  BY <1>0, <1>1 DEF AgentStarts, AgentCallsTools, AgentOutOfTurns, MoveAgent, Moves, outside
<1>2. CASE AgentChats(n) /\ UNCHANGED <<turn, outside, cache, db, toolKey, stale>>
  <2>1. PICK next \in {<<"tools", "running">>, <<"ended", "completed">>, <<"ended", "failed">>} :
          agent' = [agent EXCEPT ![n].turns = @ + 1, ![n].at = next[1], ![n].status = next[2]]
    BY <1>2 DEF AgentChats
  <2>2. next[1] \in {"tools", "ended"}
    BY <2>1
  <2> QED
    BY <1>0, <1>2, <2>1, <2>2 DEF AgentChats, Moves, outside
<1>3. CASE HandlerGets(n)
  BY <1>0, <1>3 DEF HandlerGets, Moves, outside
<1> QED
  BY <1>1, <1>2, <1>3

----------------------------------------------------------------------------
(* The steps keep the invariant *)

\* What one step does to the stored messages of a session.
Grows ==
  \A k \in Keys :
    \/ db[k] = NoSession \/ db'[k] = NoSession \/ k \in stale'
    \/ IsPrefix(db[k].messages, db'[k].messages)

\* What is stored does not change.
LEMMA Unchanged ==
  ASSUME Inv, UNCHANGED db
  PROVE  Grows
<1>1. ASSUME NEW k \in Keys, db[k] # NoSession
      PROVE  IsPrefix(db[k].messages, db[k].messages)
  BY <1>1, SessionsMade, AppendFacts DEF Inv, StoreInv
<1> QED
  BY <1>1 DEF Grows

\* Sessions that do not change stay good ones when no subagent is forgotten.
LEMMA SessionsStay ==
  ASSUME Inv, HomesKept(agent, agent')
  PROVE  /\ \A k \in Keys : /\ cache[k] # NoSession => SessionOf(cache[k], k, agent')
                            /\ db[k] # NoSession => SessionOf(db[k], k, agent')
         /\ \A n \in Agents : agent[n].at = "saving" =>
              SessionOf(agent[n].copy, agent[n].key, agent')
BY SessionStays DEF Inv, StoreInv, AgentInv

\* The invariant holds at the start, and every kind of step keeps it.
LEMMA InitKeeps == Init => Inv
<1> SUFFICES ASSUME Init PROVE Inv
  OBVIOUS
<1>1. TurnInv /\ LockInv /\ AgentInv /\ GrowInv
  BY DEF Init, NoTurn, NoAgent, TurnInv, LockInv, AgentInv, GrowInv, TurnFields, AgentFields, InLoop
<1>2. StoreInv
  <2>1. PICK a \in Archives :
          db = [k \in Keys |-> IF a[k] = <<>> THEN NoSession ELSE Session(a[k], <<>>)]
    BY DEF Init
  <2>2. \A k \in Keys : IsSeq(a[k])
    BY AgentLoopAssumption DEF IsConversation
  <2>3. \A k \in Keys : db[k] = NoSession \/ SessionOf(db[k], k, agent)
    BY <2>1, <2>2, SessionsMade
  <2> QED
    BY <2>1, <2>3 DEF Init, StoreInv
<1> QED
  BY <1>1, <1>2 DEF Inv

\* A step of the loop.
LEMMA LoopKeeps ==
  ASSUME Inv, NEW t \in Threads, Onward(t), Starts(t),
         UNCHANGED <<target, cache, db, stale>>
  PROVE  Inv' /\ HomesKept(agent, agent')
<1>1. TurnInv' /\ LockInv'
  BY DEF Inv, TurnInv, LockInv, Onward, InLoop
<1>2. HomesKept(agent, agent')
  BY DEF Inv, AgentInv, Starts, HomesKept
<1>3. StoreInv'
  BY <1>2, SessionsStay DEF Inv, StoreInv
<1>4. AgentInv'
  <2>1. CASE UNCHANGED agent
    BY <2>1 DEF Inv, AgentInv
  <2>2. ASSUME NEW n \in Agents, agent[n].at = "free",
               agent' = [agent EXCEPT ![n] =
                 [NoAgent EXCEPT !.at = "launched", !.status = "backgrounded",
                                 !.key = turn[t].key, !.home = turn[t].key]]
        PROVE  AgentInv'
    <3>1. /\ DOMAIN agent'[n] = AgentFields /\ agent'[n].at = "launched"
          /\ agent'[n].key = turn[t].key /\ agent'[n].home = turn[t].key
          /\ DOMAIN agent' = Agents /\ \A m \in Agents : m # n => agent'[m] = agent[m]
      BY <2>2 DEF Inv, AgentInv, NoAgent, AgentFields
    <3>2. turn[t].key \in Keys
      BY DEF Inv, TurnInv, Onward
    <3> QED
      BY <1>2, <3>1, <3>2, SessionsStay DEF Inv, AgentInv
  <2> QED
    BY <2>1, <2>2 DEF Starts
<1>5. GrowInv'
  <2>1. ASSUME NEW u \in Threads, turn'[u].at \in InLoop
        PROVE  LET k == turn'[u].key IN
                 \/ db[k] = NoSession \/ k \in stale
                 \/ IsPrefix(db[k].messages, turn'[u].session.messages)
    <3>1. CASE u # t
      BY <2>1, <3>1 DEF Onward, Inv, GrowInv
    <3>2. CASE u = t
      <4> DEFINE k == turn[t].key
      <4>1. /\ turn[t].at \in InLoop /\ turn'[t].key = k /\ k \in Keys
            /\ IsSeq(turn[t].session.messages)
            /\ \/ turn'[t].session.messages = turn[t].session.messages
               \/ \E m : turn'[t].session.messages = Append(turn[t].session.messages, m)
        BY <2>1, <3>2 DEF Onward, Inv, TurnInv, InLoop, IsCopy
      <4>2. db[k] = NoSession \/ IsSeq(db[k].messages)
        BY <4>1, SessionsMade DEF Inv, StoreInv
      <4>3. \/ db[k] = NoSession \/ k \in stale
            \/ IsPrefix(db[k].messages, turn[t].session.messages)
        BY <4>1 DEF Inv, GrowInv
      <4> HIDE DEF k
      <4> QED
        BY <3>2, <4>1, <4>2, <4>3, AppendFacts
    <3> QED
      BY <3>1, <3>2
  <2> QED
    BY <2>1 DEF GrowInv
<1> QED
  BY <1>1, <1>2, <1>3, <1>4, <1>5 DEF Inv

\* The beginning of a turn.
LEMMA BeginKeeps ==
  ASSUME Inv, NEW t \in Threads, NEW k \in Keys, Begins(t, k)
  PROVE  Inv' /\ Grows
<1>1. TurnInv' /\ LockInv' /\ GrowInv'
  BY DEF Begins, Inv, TurnInv, LockInv, GrowInv, InLoop
<1>2. AgentInv'
  BY DEF Begins, Inv, AgentInv
<1>3. StoreInv'
  BY DEF Begins, DeleteSession, Inv, StoreInv
<1>4. Grows
  <2>1. CASE UNCHANGED db
    BY <2>1, Unchanged
  <2>2. CASE DeleteSession(k)
    <3>1. ASSUME NEW j \in Keys, j # k, db[j] # NoSession
          PROVE  db'[j] = db[j] /\ IsPrefix(db[j].messages, db[j].messages)
      BY <2>2, <3>1, SessionsMade, AppendFacts DEF DeleteSession, Inv, StoreInv
    <3>2. db'[k] = NoSession
      BY <2>2 DEF DeleteSession, Inv, StoreInv
    <3> QED
      BY <3>1, <3>2 DEF Grows
  <2> QED
    BY <2>1, <2>2 DEF Begins
<1> QED
  BY <1>1, <1>2, <1>3, <1>4 DEF Inv

\* A subagent's step.
LEMMA MoveKeeps ==
  ASSUME Inv, NEW n \in Agents, Moves(n)
  PROVE  Inv' /\ HomesKept(agent, agent')
<1> DEFINE k == agent[n].key
<1>0. k \in Keys /\ agent[n].home = k
  BY DEF Moves, Inv, AgentInv
<1>1. TurnInv' /\ LockInv' /\ GrowInv'
  BY DEF Moves, Inv, TurnInv, LockInv, GrowInv
<1>2. HomesKept(agent, agent')
  BY DEF Moves, HomesKept
<1>3. Load(k) # NoSession => SessionOf(Load(k), k, agent')
  BY <1>0, <1>2, SessionsStay DEF Load
<1>4. AgentInv'
  BY <1>0, <1>2, <1>3, SessionsStay DEF Moves, Inv, AgentInv
<1>5. StoreInv'
  <2>1. CASE UNCHANGED cache
    BY <1>2, <2>1, SessionsStay DEF Moves, Inv, StoreInv
  <2>2. CASE Load(k) # NoSession /\ cache' = [cache EXCEPT ![k] = Load(k)]
    <3>1. db[k] = NoSession \/ Load(k) = db[k]
      BY <1>0 DEF Load, Inv, StoreInv
    <3> HIDE DEF k
    <3> QED
      BY <1>0, <1>2, <1>3, <2>2, <3>1, SessionsStay DEF Moves, Inv, StoreInv
  <2> QED
    BY <2>1, <2>2 DEF Moves
<1> QED
  BY <1>1, <1>2, <1>4, <1>5 DEF Inv

\* The session is copied.
LEMMA OpenKeeps ==
  ASSUME Inv, NEW t \in Threads, OpenSession(t)
  PROVE  Inv'
<1> DEFINE k == turn[t].key
           s == GetOrCreate(k)
           c == turn'[t].session
<1>0. /\ k \in Keys /\ target = k /\ turn[t].at = "open"
      /\ DOMAIN turn = Threads /\ DOMAIN turn[t] = TurnFields
  BY DEF OpenSession, Inv, TurnInv, LockInv
<1>1. SessionOf(s, k, agent) /\ (db[k] # NoSession => s = db[k])
  BY <1>0, SessionsMade DEF GetOrCreate, Load, Inv, StoreInv
<1>2. /\ turn'[t].at = "loop" /\ turn'[t].key = k
      /\ c = Session(Append(s.messages, UserMessage(turn[t].n)), <<>>)
      /\ DOMAIN turn' = Threads /\ DOMAIN turn'[t] = TurnFields
      /\ \A u \in Threads : u # t => turn'[u] = turn[u]
      /\ cache' = [cache EXCEPT ![k] = s]
      /\ UNCHANGED <<db, target, agent, stale>>
  BY <1>0 DEF OpenSession, TurnFields
<1> HIDE DEF c, s, k
<1>3. IsCopy(c) /\ IsPrefix(s.messages, c.messages)
  <2>1. c.messages = Append(s.messages, UserMessage(turn[t].n))
    BY <1>2 DEF Session
  <2>2. IsSeq(s.messages)
    BY <1>1 DEF SessionOf
  <2> QED
    BY <1>2, <2>1, <2>2, AppendFacts, SessionsMade
<1>4. TurnInv' /\ LockInv'
  BY <1>0, <1>2, <1>3 DEF c, Inv, TurnInv, LockInv, InLoop
<1>5. AgentInv'
  BY <1>2 DEF Inv, AgentInv
<1>6. StoreInv'
  BY <1>0, <1>1, <1>2 DEF Inv, StoreInv
<1>7. GrowInv'
  BY <1>1, <1>2, <1>3 DEF c, Inv, GrowInv
<1> QED
  BY <1>4, <1>5, <1>6, <1>7 DEF Inv

\* The copy is saved.
LEMMA FinishKeeps ==
  ASSUME Inv, NEW t \in Threads, Finish(t)
  PROVE  Inv' /\ Grows
<1> DEFINE k == turn[t].key
           old == turn[t].session
           s == [old EXCEPT !.messages = Append(@, AssistantMessage(turn[t].n, <<>>))]
<1>0. /\ k \in Keys /\ IsCopy(old)
      /\ db[k] = NoSession \/ k \in stale \/ IsPrefix(db[k].messages, old.messages)
  BY DEF Finish, Inv, TurnInv, GrowInv, InLoop
<1>1. /\ db' = [db EXCEPT ![k] = s] /\ cache' = [cache EXCEPT ![k] = s]
      /\ turn' = [turn EXCEPT ![t] = NoTurn]
      /\ turn[t].at = "finish"
      /\ UNCHANGED <<target, agent, stale>>
  BY DEF Finish, SaveSession, outside
<1>2. /\ DOMAIN s = {"messages", "notes"} /\ s.notes = old.notes
      /\ s.messages = Append(old.messages, AssistantMessage(turn[t].n, <<>>))
  BY <1>0 DEF IsCopy
<1> HIDE DEF k, old, s
<1>3. IsCopy(s) /\ \A a : SessionOf(s, k, a)
  BY <1>0, <1>2, AppendFacts, SessionsMade DEF IsCopy
<1>4. TurnInv' /\ LockInv'
  BY <1>1 DEF Inv, TurnInv, LockInv, NoTurn, TurnFields, InLoop
<1>5. AgentInv'
  BY <1>1 DEF Inv, AgentInv
<1>6. StoreInv'
  BY <1>0, <1>1, <1>3 DEF Inv, StoreInv
<1>7. GrowInv'
  BY <1>1 DEF Inv, TurnInv, LockInv, GrowInv, NoTurn, InLoop
<1>8. Grows
  <2>1. ASSUME NEW j \in Keys, j # k, db[j] # NoSession
        PROVE  db'[j] = db[j] /\ IsPrefix(db[j].messages, db[j].messages)
    BY <1>1, <2>1, SessionsMade, AppendFacts DEF Inv, StoreInv
  <2>2. db'[k] = s
    BY <1>0, <1>1 DEF Inv, StoreInv
  <2>3. db[k] = NoSession \/ IsSeq(db[k].messages)
    BY <1>0, SessionsMade DEF Inv, StoreInv
  <2>4. db[k] = NoSession \/ k \in stale \/ IsPrefix(db[k].messages, s.messages)
    BY <1>0, <1>2, <2>3, AppendFacts DEF IsCopy
  <2> QED
    BY <1>1, <2>1, <2>2, <2>4 DEF Grows
<1> QED
  BY <1>4, <1>5, <1>6, <1>7, <1>8 DEF Inv

\* A completion handler saves its copy.
LEMMA SaveKeeps ==
  ASSUME Inv, NEW n \in Agents, HandlerSaves(n)
  PROVE  Inv' /\ HomesKept(agent, agent') /\ Grows
<1> DEFINE k == agent[n].key
           old == agent[n].copy
           s == [old EXCEPT !.notes = Append(@, n)]
<1>0. /\ k \in Keys /\ agent[n].home = k /\ agent[n].at = "saving"
      /\ SessionOf(old, k, agent)
      /\ DOMAIN agent = Agents /\ DOMAIN agent[n] = AgentFields
  BY DEF HandlerSaves, Inv, AgentInv
<1>1. /\ db' = [db EXCEPT ![k] = s] /\ cache' = [cache EXCEPT ![k] = s]
      /\ UNCHANGED <<turn, target>>
      /\ \/ db[k] # NoSession /\ db[k].messages = old.messages /\ stale' = stale
         \/ stale' = stale \cup {k}
  BY DEF HandlerSaves, SaveSession, outside
<1>2. /\ DOMAIN agent' = Agents /\ DOMAIN agent'[n] = AgentFields
      /\ agent'[n].at = "done" /\ agent'[n].home = k
      /\ \A m \in Agents : m # n => agent'[m] = agent[m]
  BY <1>0 DEF HandlerSaves, AgentFields
<1>3. /\ DOMAIN s = {"messages", "notes"} /\ s.messages = old.messages
      /\ s.notes = Append(old.notes, n)
  BY <1>0 DEF SessionOf
<1> HIDE DEF k, old, s
<1>4. HomesKept(agent, agent')
  BY <1>0, <1>2 DEF HomesKept
<1>5. SessionOf(s, k, agent')
  <2>1. SessionOf(old, k, agent')
    BY <1>0, <1>4, SessionStays
  <2>2. /\ s.notes \in Seq(Agents)
        /\ \A i \in DOMAIN s.notes :
             \/ s.notes[i] = n
             \/ i \in DOMAIN old.notes /\ s.notes[i] = old.notes[i]
    <3>1. old.notes \in Seq(Agents)
      BY <2>1 DEF SessionOf
    <3> QED
      BY <1>3, <3>1
  <2> QED
    BY <1>2, <1>3, <2>1, <2>2 DEF SessionOf
<1>6. TurnInv' /\ LockInv'
  BY <1>1 DEF Inv, TurnInv, LockInv
<1>7. AgentInv'
  BY <1>2, <1>4, SessionsStay DEF Inv, AgentInv
<1>8. StoreInv'
  BY <1>0, <1>1, <1>4, <1>5, SessionsStay DEF Inv, StoreInv
<1>9. db' = [j \in Keys |-> IF j = k THEN s ELSE db[j]]
  BY <1>1 DEF Inv, StoreInv
<1>10. \A j \in Keys :
         \/ j \in stale'
         \/ j # k /\ db'[j] = db[j]
         \/ db[j] # NoSession /\ db'[j].messages = db[j].messages
  BY <1>1, <1>3, <1>9
<1>11. GrowInv'
  BY <1>1, <1>10 DEF Inv, GrowInv, TurnInv, InLoop
<1>12. Grows
  <2>1. \A j \in Keys : db[j] # NoSession => IsPrefix(db[j].messages, db[j].messages)
    BY SessionsMade, AppendFacts DEF Inv, StoreInv
  <2> QED
    BY <1>10, <2>1 DEF Grows
<1> QED
  BY <1>4, <1>6, <1>7, <1>8, <1>11, <1>12 DEF Inv

\* A crash.
LEMMA CrashKeeps ==
  ASSUME Inv, Crash
  PROVE  Inv'
<1>1. HomesKept(agent, agent') /\ AgentInv'
  BY DEF Crash, HomesKept, Inv, AgentInv, NoAgent, AgentFields
<1>2. TurnInv' /\ LockInv' /\ GrowInv'
  BY DEF Crash, TurnInv, LockInv, GrowInv, NoTurn, TurnFields, InLoop
<1>3. StoreInv'
  BY <1>1, SessionsStay DEF Crash, Inv, StoreInv
<1> QED
  BY <1>1, <1>2, <1>3 DEF Inv

\* Every step.
LEMMA NextKeeps == Inv /\ [Next]_vars => Inv' /\ Grows
<1> SUFFICES ASSUME Inv, [Next]_vars PROVE Inv' /\ Grows
  OBVIOUS
<1>1. ASSUME NEW t \in Threads, NEW k \in Keys, NEW g \in BOOLEAN,
             \/ BeginDirect(t, k, g) \/ BeginMessage(t, k, g) \/ BeginNew(t, k, g)
             \/ JustNew(t, k)
      PROVE  Inv' /\ Grows
  BY <1>1, BeginStep, BeginKeeps
<1>2. ASSUME NEW t \in Threads, TurnStep(t)
      PROVE  Inv' /\ Grows
  <2>1. CASE Loop(t)
    BY <2>1, LoopStep, LoopKeeps, Unchanged
  <2>2. CASE OpenSession(t)
    BY <2>2, OpenKeeps, Unchanged DEF OpenSession
  <2>3. CASE Finish(t)
    BY <2>3, FinishKeeps
  <2> QED
    BY <1>2, <2>1, <2>2, <2>3 DEF TurnStep, Loop
<1>3. ASSUME NEW n \in Agents, AgentStep(n)
      PROVE  Inv' /\ Grows
  <2>1. CASE HandlerSaves(n)
    BY <2>1, SaveKeeps
  <2>2. CASE ~HandlerSaves(n)
    <3>1. Moves(n)
      BY <1>3, <2>2, MoveStep DEF AgentStep
    <3> QED
      BY <3>1, MoveKeeps, Unchanged DEF Moves
  <2> QED
    BY <2>1, <2>2
<1>4. CASE Crash
  BY <1>4, CrashKeeps, Unchanged DEF Crash
<1>5. CASE UNCHANGED vars
  <2>1. Inv'
    BY <1>5 DEF vars, Inv, TurnInv, LockInv, AgentInv, StoreInv, GrowInv
  <2> QED
    BY <1>5, <2>1, Unchanged DEF vars
<1>6. CASE Next /\ ~Crash
  <2>1. \/ \E t \in Threads, k \in Keys, g \in BOOLEAN :
             \/ BeginDirect(t, k, g) \/ BeginMessage(t, k, g) \/ BeginNew(t, k, g)
             \/ JustNew(t, k)
        \/ \E t \in Threads : TurnStep(t)
        \/ \E n \in Agents : AgentStep(n)
    BY <1>6 DEF Next
  <2> QED
    BY <1>1, <1>2, <1>3, <2>1
<1> QED
  BY <1>4, <1>5, <1>6

----------------------------------------------------------------------------
(* The steps keep turns whole *)

\* Nothing follows.
LEMMA NothingFollows ==
  ASSUME NEW c, IsSeq(c)
  PROVE  c \o <<>> = c
BY DEF IsSeq

\* No result waits.
LEMMA NoResults ==
  ASSUME NEW r, r.calls = <<>>
  PROVE  Results(r) = <<>>
BY DEF Results

\* Nor is one missing in the copy.
LEMMA NoneWaits ==
  ASSUME NEW r, r.calls = <<>>, IsSeq(r.session.messages)
  PROVE  Completed(r) = r.session.messages
<1>1. Results(r) = <<>>
  BY NoResults
<1> QED
  BY <1>1 DEF Completed, IsSeq

\* f has a value for every element of s.
IsMap(f, s) == f = [i \in DOMAIN s |-> f[i]]

\* The results of the calls of a message.
LEMMA ResultsOfCalls ==
  ASSUME NEW tools, IsSeq(tools), tools # <<>>,
         NEW ids, IsMap(ids, tools),
         NEW q, IsMap(q.calls, tools),
         \A i \in DOMAIN tools : q.calls[i].id = ids[i]
  PROVE  /\ IsSeq(ids) /\ ids # <<>> /\ IsSeq(q.calls) /\ q.calls # <<>>
         /\ IsSeq(Results(q)) /\ Len(Results(q)) = Len(ids)
         /\ \A i \in 1 .. Len(ids) : Results(q)[i] = ToolMessage(q.n, ids[i])
<1> DEFINE L == Len(tools)
           res == Results(q)
<1>1. L \in Nat /\ L # 0 /\ DOMAIN tools = 1 .. L
  BY SeqFacts DEF IsSeq
<1>2. IsSeq(ids) /\ Len(ids) = L /\ ids # <<>>
  <2>1. IsSeq(ids) /\ Len(ids) = L
    BY MapFacts DEF IsMap
  <2> QED
    BY <1>1, <2>1, SeqFacts DEF IsSeq
<1>3. IsSeq(q.calls) /\ Len(q.calls) = L /\ DOMAIN q.calls = 1 .. L
      /\ \A i \in 1 .. L : q.calls[i].id = ids[i]
  <2>1. IsSeq(q.calls) /\ Len(q.calls) = L /\ DOMAIN q.calls = 1 .. L
    BY MapFacts DEF IsMap
  <2>2. \A i \in 1 .. L : q.calls[i].id = ids[i]
    BY <1>1
  <2> QED
    BY <2>1, <2>2
<1>4. q.calls # <<>>
  BY <1>1, <1>3, SeqFacts DEF IsSeq
<1>5. res = [i \in DOMAIN q.calls |-> ToolMessage(q.n, q.calls[i].id)]
  BY DEF Results
<1>6. res = [i \in DOMAIN q.calls |-> res[i]]
  BY <1>5
<1>7. IsSeq(res) /\ Len(res) = L
  BY <1>3, <1>6, MapFacts
<1>8. \A i \in 1 .. L : res[i] = ToolMessage(q.n, ids[i])
  BY <1>3, <1>5
<1> HIDE DEF res, L
<1> QED
  BY <1>2, <1>3, <1>4, <1>7, <1>8 DEF res

\* The model asks for tools.
LEMMA CallsKeepOpen ==
  ASSUME NEW r, CopyOk(r), r.at = "loop", IsSeq(r.session.messages),
         NEW tools, IsSeq(tools), tools # <<>>,
         NEW q, q.n = r.n, q.at = "tools",
         NEW ids, IsMap(ids, tools), IsMap(q.calls, tools),
         \A i \in DOMAIN tools : q.calls[i].id = ids[i],
         q.session.messages = Append(r.session.messages, AssistantMessage(r.n, ids)),
         q.context = Append(r.context, AssistantMessage(r.n, ids))
  PROVE  CopyOk(q)
<1> DEFINE m == AssistantMessage(r.n, ids)
           c == r.context
           res == Results(q)
           x == Append(c, m) \o res
<1>1. /\ IsSeq(ids) /\ ids # <<>> /\ IsSeq(q.calls) /\ q.calls # <<>>
      /\ IsSeq(res) /\ Len(res) = Len(ids)
      /\ \A i \in 1 .. Len(ids) : res[i] = ToolMessage(r.n, ids[i])
  <2>1. /\ IsSeq(ids) /\ ids # <<>> /\ IsSeq(q.calls) /\ q.calls # <<>>
        /\ IsSeq(Results(q)) /\ Len(Results(q)) = Len(ids)
        /\ \A i \in 1 .. Len(ids) : Results(q)[i] = ToolMessage(q.n, ids[i])
    BY ResultsOfCalls
  <2> QED
    BY <2>1
<1> HIDE DEF res, c, x
<1>2. Open(r.session.messages)
  BY NoneWaits DEF CopyOk, InLoop
<1>3. Open(Append(r.session.messages, m) \o res)
  BY <1>1, <1>2, TurnStaysOpen
<1>4. IsSeq(c) /\ Sound(c)
  <2>1. Results(r) = <<>> /\ IsSeq(c) /\ Sound(c \o Results(r))
    BY DEF CopyOk, Results, c
  <2> QED
    BY <2>1, NothingFollows
<1>5. IsSeq(Append(c, m))
  BY <1>4, AppendElements
<1>6. /\ IsSeq(x) /\ Exchange(x, Len(c))
      /\ \A i \in 1 .. Len(c) : x[i] = c[i]
  BY <1>1, <1>4, CallsWithResults DEF x
<1>7. Sound(x)
  BY <1>4, <1>6, ExchangeIsSound
<1>8. /\ Completed(q) = Append(r.session.messages, m) \o res
      /\ q.context = Append(c, m) /\ x = q.context \o Results(q)
  BY DEF Completed, res, c, x
<1> HIDE DEF m
<1> QED
  BY <1>1, <1>3, <1>5, <1>7, <1>8 DEF CopyOk

\* The first result that waits comes in.
LEMMA ResultIsNext ==
  ASSUME NEW r, IsSeq(r.calls), r.calls # <<>>,
         NEW q, q.n = r.n, q.calls = Tail(r.calls)
  PROVE  /\ IsSeq(q.calls) /\ (Len(r.calls) > 1 <=> q.calls # <<>>)
         /\ \A ms : IsSeq(ms) =>
              Append(ms, ToolMessage(r.n, Head(r.calls).id)) \o Results(q)
                = ms \o Results(r)
<1> DEFINE c == r.calls
           L == Len(c)
           res == Results(r)
<1>1. IsSeq(c) /\ c # <<>>
  OBVIOUS
<1>2. L \in Nat /\ L # 0 /\ DOMAIN c = 1 .. L
  BY <1>1, SeqFacts DEF IsSeq
<1>3. /\ Head(c) = c[1] /\ Tail(c) \in Seq(ToSet(c)) /\ Len(Tail(c)) = L - 1
      /\ \A i \in 1 .. L - 1 : Tail(c)[i] = c[i + 1]
  <2> DEFINE S == ToSet(c)
  <2>1. c \in Seq(S) /\ L # 0
    BY <1>1, <1>2 DEF IsSeq
  <2> HIDE DEF S, c
  <2>2. /\ Head(c) = c[1] /\ Tail(c) \in Seq(S) /\ Len(Tail(c)) = Len(c) - 1
        /\ \A i \in 1 .. Len(c) - 1 : Tail(c)[i] = c[i + 1]
    BY <1>1, <1>2, <2>1
  <2> QED
    BY <2>2 DEF S
<1>4. /\ IsSeq(res) /\ Len(res) = L /\ DOMAIN res = 1 .. L
      /\ \A i \in 1 .. L : res[i] = ToolMessage(r.n, c[i].id)
  <2>1. res = [i \in DOMAIN c |-> ToolMessage(r.n, c[i].id)]
    BY DEF Results
  <2>2. res = [i \in DOMAIN c |-> res[i]]
    BY <2>1
  <2>3. IsSeq(res) /\ Len(res) = L /\ DOMAIN res = 1 .. L
    BY <1>1, <2>2, MapFacts
  <2>4. \A i \in 1 .. L : res[i] = ToolMessage(r.n, c[i].id)
    BY <1>2, <2>1
  <2> HIDE DEF res, L
  <2> QED
    BY <2>3, <2>4
<1>5. /\ Head(res) = res[1] /\ Tail(res) \in Seq(ToSet(res)) /\ Len(Tail(res)) = L - 1
      /\ \A i \in 1 .. L - 1 : Tail(res)[i] = res[i + 1]
      /\ res # <<>>
  <2> HIDE DEF res, L
  <2> QED
    BY <1>2, <1>4 DEF IsSeq
<1>6. DOMAIN Tail(c) = 1 .. L - 1 /\ IsSeq(Tail(c)) /\ (L - 1 = 0 <=> Tail(c) = <<>>)
  <2> HIDE DEF L, c
  <2>1. /\ DOMAIN Tail(c) = 1 .. Len(Tail(c)) /\ IsSeq(Tail(c))
        /\ Tail(c) = <<>> <=> Len(Tail(c)) = 0
    BY <1>3, SeqFacts
  <2> QED
    BY <1>3, <2>1
<1>7. Results(q) = Tail(res)
  <2>1. Results(q) = [i \in 1 .. L - 1 |-> ToolMessage(r.n, Tail(c)[i].id)]
    BY <1>6 DEF Results
  <2>2. \A i \in 1 .. L - 1 : Tail(res)[i] = ToolMessage(r.n, Tail(c)[i].id)
    <3>1. \A i \in 1 .. L - 1 : i + 1 \in 1 .. L
      BY <1>2
    <3> HIDE DEF res, L
    <3> QED
      BY <1>3, <1>4, <1>5, <3>1
  <2>3. Tail(res) \in [1 .. L - 1 -> ToSet(res)]
    <3> HIDE DEF res, L
    <3> QED
      BY <1>5, LenProperties
  <2> HIDE DEF res, L
  <2> QED
    BY <2>1, <2>2, <2>3
<1>8. Head(res) = ToolMessage(r.n, Head(c).id)
  BY <1>2, <1>3, <1>4, <1>5
<1>9. ASSUME NEW ms, IsSeq(ms)
      PROVE  Append(ms, Head(res)) \o Tail(res) = ms \o res
  <2> HIDE DEF res
  <2> QED
    BY <1>4, <1>5, <1>9, FirstMoves
<1>10. L > 1 <=> Tail(c) # <<>>
  <2> HIDE DEF L, c
  <2> QED
    BY <1>2, <1>6
<1> QED
  BY <1>6, <1>7, <1>8, <1>9, <1>10

\* A tool has given its result.
LEMMA ResultKeepsOpen ==
  ASSUME NEW r, CopyOk(r), r.at = "tools", IsSeq(r.session.messages),
         NEW q, q.n = r.n, q.calls = Tail(r.calls),
         IF Len(r.calls) > 1 THEN q.at = "tools" ELSE q.at \in {"loop", "finish"},
         q.session.messages = Append(r.session.messages, ToolMessage(r.n, Head(r.calls).id)),
         q.context = Append(r.context, ToolMessage(r.n, Head(r.calls).id))
  PROVE  CopyOk(q)
<1>1. /\ IsSeq(r.calls) /\ r.calls # <<>> /\ Open(Completed(r))
      /\ IsSeq(r.context) /\ Sound(r.context \o Results(r))
  BY DEF CopyOk, InLoop
<1>2. /\ IsSeq(q.calls) /\ (Len(r.calls) > 1 <=> q.calls # <<>>)
      /\ \A ms : IsSeq(ms) =>
           Append(ms, ToolMessage(r.n, Head(r.calls).id)) \o Results(q) = ms \o Results(r)
  BY <1>1, ResultIsNext
<1>3. Completed(q) = Completed(r)
  BY <1>2 DEF Completed
<1>4. q.context \o Results(q) = r.context \o Results(r)
  BY <1>1, <1>2
<1>5. IsSeq(q.context)
  BY <1>1, AppendElements
<1> QED
  BY <1>1, <1>2, <1>3, <1>4, <1>5 DEF CopyOk

\* The messages of q are those of r, and a reminder at most.
MoreContext(r, q) ==
  \/ q.context = r.context
  \/ q.context = Append(r.context, Message("user", 0, NoCall, <<>>, ""))

\* A turn that goes on with nothing new in its copy, and with a reminder at most.
LEMMA SameKeepsOpen ==
  ASSUME NEW r, CopyOk(r), r.at = "loop",
         NEW q, q.at \in {"loop", "finish"}, q.calls = r.calls, q.n = r.n,
         q.session = r.session, MoreContext(r, q)
  PROVE  CopyOk(q)
<1>1. /\ r.calls = <<>> /\ q.calls = <<>> /\ Open(Completed(r))
      /\ IsSeq(r.context) /\ Sound(r.context \o Results(r))
  BY DEF CopyOk, InLoop
<1>2. Results(r) = <<>> /\ Results(q) = <<>>
  BY <1>1, NoResults
<1>3. Completed(q) = Completed(r)
  BY <1>2 DEF Completed
<1>4. Sound(r.context)
  BY <1>1, <1>2, NothingFollows
<1>5. IsSeq(q.context) /\ Sound(q.context)
  BY <1>1, <1>4, ReminderIsSound DEF MoreContext
<1>6. Sound(q.context \o Results(q))
  BY <1>2, <1>5, NothingFollows
<1> QED
  BY <1>1, <1>3, <1>5, <1>6 DEF CopyOk

\* There is no turn.
LEMMA IdleIsOk == CopyOk(NoTurn)
BY DEF CopyOk, NoTurn, InLoop

\* Only the turn of t changes.
LEMMA CopyStays ==
  ASSUME CopyInv, NEW t \in Threads,
         \A u \in Threads : u # t => turn'[u] = turn[u],
         CopyOk(turn'[t])
  PROVE  CopyInv'
BY DEF CopyInv

\* A step of the loop leaves every copy, and the messages for the model, sound.
LEMMA LoopKeepsCopies ==
  ASSUME Inv, CopyInv, NEW t \in Threads, Loop(t)
  PROVE  CopyInv'
<1> USE DEF InLoop
<1>0. /\ DOMAIN turn = Threads /\ DOMAIN turn[t] = TurnFields /\ CopyOk(turn[t])
      /\ turn[t].at \in InLoop => IsSeq(turn[t].session.messages)
      /\ turn[t].at \in InLoop => DOMAIN turn[t].session = {"messages", "notes"}
  BY DEF Inv, TurnInv, IsCopy, CopyInv
<1>1. \A u \in Threads : u # t => turn'[u] = turn[u]
  BY LoopStep DEF Onward
<1>2. CASE Fail(t)
  <2>1. turn'[t] = NoTurn
    BY <1>0, <1>2 DEF Fail
  <2> QED
    BY <1>1, <2>1, IdleIsOk, CopyStays
<1>3. ASSUME NEW body \in Responses, Chat(t, LLMResponse(body))
      PROVE  CopyInv'
  <2> DEFINE tools == LLMResponse(body).tool_calls
  <2>0. IsSeq(tools)
    BY AgentLoopAssumption
  <2> HIDE DEF tools
  <2>1. CASE tools # <<>> /\ ChatCalls(t, tools)
    <3> DEFINE ids == [i \in DOMAIN tools |-> <<turn[t].n, Len(turn[t].session.messages) + i>>]
               r == turn[t]
               q == turn'[t]
    <3> DEFINE calls == [i \in DOMAIN tools |-> [id |-> ids[i], tool |-> tools[i]]]
               ms == Append(r.session.messages, AssistantMessage(r.n, ids))
               c == Append(r.context, AssistantMessage(r.n, ids))
    <3>1. /\ r.at = "loop" /\ q.n = r.n /\ q.at = "tools"
          /\ q.calls = calls /\ q.session.messages = ms /\ q.context = c
      <4>1. /\ r.at = "loop"
            /\ \E a : turn' = [turn EXCEPT
                 ![t].at = "tools", ![t].iteration = a, ![t].toolCalled = TRUE,
                 ![t].calls = calls, ![t].context = c, ![t].session.messages = ms]
        BY <2>1, Zenon DEF ChatCalls
      <4> HIDE DEF ids, calls, ms, c
      <4> QED
        BY <1>0, <4>1 DEF TurnFields
    <3>2. IsMap(ids, tools)
      BY DEF IsMap
    <3>3. IsSeq(r.session.messages) /\ CopyOk(r)
      BY <1>0, <3>1
    <3>4. /\ IsMap(q.calls, tools)
          /\ \A i \in DOMAIN tools : q.calls[i].id = ids[i]
      <4> HIDE DEF ids, q
      <4> QED
        BY <3>1 DEF IsMap
    <3>5. /\ q.session.messages = Append(r.session.messages, AssistantMessage(r.n, ids))
          /\ q.context = Append(r.context, AssistantMessage(r.n, ids))
          /\ tools # <<>>
      BY <2>1, <3>1, Zenon
    <3> HIDE DEF ids, q, r
    <3>6. CopyOk(q)
      BY <2>0, <3>1, <3>2, <3>3, <3>4, <3>5, CallsKeepOpen
    <3> QED
      BY <1>1, <3>6, CopyStays DEF q
  <2>2. ASSUME NEW blank, ChatText(t, blank)
        PROVE  CopyInv'
    <3> DEFINE r == turn[t]
               q == turn'[t]
    <3>1. /\ r.at = "loop" /\ q.at \in {"loop", "finish"} /\ q.calls = r.calls
          /\ q.n = r.n /\ q.session = r.session
      BY <2>2, TextStep
    <3>2. MoreContext(r, q)
      BY <2>2, TextStep DEF MoreContext
    <3>3. CopyOk(r)
      BY <1>0
    <3> HIDE DEF q, r
    <3>4. CopyOk(q)
      BY <3>1, <3>2, <3>3, SameKeepsOpen
    <3> QED
      BY <1>1, <3>4, CopyStays DEF q
  <2> QED
    BY <1>3, <2>1, <2>2 DEF Chat, tools
<1>4. CASE OutOfIterations(t)
  <2>1. /\ turn[t].at = "loop" /\ turn'[t].at = "finish"
        /\ turn'[t].calls = turn[t].calls /\ turn'[t].n = turn[t].n
        /\ turn'[t].session = turn[t].session /\ turn'[t].context = turn[t].context
    BY <1>0, <1>4 DEF OutOfIterations, TurnFields
  <2> DEFINE r == turn[t]
             q == turn'[t]
  <2>2. /\ r.at = "loop" /\ q.at = "finish" /\ q.calls = r.calls /\ q.n = r.n
        /\ q.session = r.session /\ MoreContext(r, q) /\ CopyOk(r)
    BY <1>0, <2>1 DEF MoreContext
  <2> HIDE DEF q, r
  <2>3. CopyOk(q)
    BY <2>2, SameKeepsOpen
  <2> QED
    BY <1>1, <2>3, CopyStays DEF q
<1>5. CASE turn[t].at = "tools" /\ ToolResult(t)
  <2> DEFINE r == turn[t]
             q == turn'[t]
  <2>1. /\ q.n = r.n /\ q.calls = Tail(r.calls)
        /\ IF Len(r.calls) > 1 THEN q.at = "tools" ELSE q.at \in {"loop", "finish"}
        /\ q.session.messages = Append(r.session.messages, ToolMessage(r.n, Head(r.calls).id))
        /\ q.context = Append(r.context, ToolMessage(r.n, Head(r.calls).id))
    BY <1>0, <1>5 DEF ToolResult, TurnFields
  <2>2. IsSeq(r.session.messages) /\ CopyOk(r) /\ r.at = "tools"
    BY <1>0, <1>5
  <2> HIDE DEF q, r
  <2>3. CopyOk(q)
    BY <2>1, <2>2, ResultKeepsOpen
  <2> QED
    BY <1>1, <2>3, CopyStays DEF q
<1> QED
  BY <1>2, <1>3, <1>4, <1>5
  DEF Loop, ChatFails, ToolFails, SpawnSubagent, OtherTool, NextTool

\* An empty session has no turn.
LEMMA EmptyIsWhole == Whole(NewSession.messages)
<1>1. NewSession.messages = <<>>
  BY DEF NewSession, Session
<1>2. Whole(<<>>)
  BY DEF Whole, IsConversation, IsSeq, WholeTurns, Paired, HasRole
<1> QED
  BY <1>1, <1>2

\* Turns are whole at the start, and every kind of step keeps them so.
LEMMA InitIsWhole == Init => TurnsInv
<1> SUFFICES ASSUME Init PROVE TurnsInv
  OBVIOUS
<1>1. CopyInv
  BY IdleIsOk DEF Init, CopyInv
<1>2. PICK a \in Archives :
        db = [k \in Keys |-> IF a[k] = <<>> THEN NoSession ELSE Session(a[k], <<>>)]
  BY DEF Init
<1>3. \A k \in Keys : Whole(a[k])
  BY AgentLoopAssumption DEF Whole
<1>4. ASSUME NEW k \in Keys, db[k] # NoSession
      PROVE  Whole(db[k].messages)
  <2>1. db[k] = Session(a[k], <<>>)
    BY <1>2, <1>4
  <2>2. db[k].messages = a[k]
    BY <2>1 DEF Session
  <2> QED
    BY <1>3, <2>2
<1>5. WholeInv
  BY <1>4 DEF Init, WholeInv, NoAgent
<1> QED
  BY <1>1, <1>5 DEF TurnsInv

\* A step of the loop.
LEMMA LoopIsWhole ==
  ASSUME Inv, TurnsInv, NEW t \in Threads, Loop(t)
  PROVE  TurnsInv'
<1>1. CopyInv'
  BY LoopKeepsCopies DEF TurnsInv
<1>2. UNCHANGED <<cache, db>>
  BY LoopStep
<1>3. \A n \in Agents : agent'[n].at = "saving" => agent'[n] = agent[n]
  <2>1. Starts(t) /\ DOMAIN agent = Agents
    BY LoopStep DEF Inv, AgentInv
  <2>2. ASSUME NEW n \in Agents,
               agent' = [agent EXCEPT ![n] =
                 [NoAgent EXCEPT !.at = "launched", !.status = "backgrounded",
                                 !.key = turn[t].key, !.home = turn[t].key]]
        PROVE  \A m \in Agents : agent'[m].at = "saving" => agent'[m] = agent[m]
    <3>1. agent'[n].at = "launched" /\ \A m \in Agents : m # n => agent'[m] = agent[m]
      BY <2>1, <2>2 DEF NoAgent
    <3> QED
      BY <3>1
  <2> QED
    BY <2>1, <2>2 DEF Starts
<1>4. WholeInv'
  BY <1>2, <1>3 DEF TurnsInv, WholeInv
<1> QED
  BY <1>1, <1>4 DEF TurnsInv

\* The beginning of a turn.
LEMMA BeginIsWhole ==
  ASSUME Inv, TurnsInv, NEW t \in Threads, NEW k \in Keys, Begins(t, k)
  PROVE  TurnsInv'
<1>1. turn'[t].at = "open" => CopyOk(turn'[t])
  BY DEF Begins, CopyOk, InLoop
<1>2. turn'[t].at = "idle" => turn'[t].calls = <<>>
  BY DEF Begins, TurnsInv, CopyInv, CopyOk
<1>3. WholeInv'
  BY DEF Begins, DeleteSession, TurnsInv, WholeInv, Inv, StoreInv
<1>4. CopyInv'
  BY <1>1, <1>2, CopyStays DEF Begins, TurnsInv, CopyInv, CopyOk, InLoop
<1> QED
  BY <1>3, <1>4 DEF TurnsInv

\* A subagent's step.
LEMMA MoveIsWhole ==
  ASSUME Inv, TurnsInv, NEW n \in Agents, Moves(n)
  PROVE  TurnsInv'
<1> DEFINE k == agent[n].key
<1>1. k \in Keys /\ DOMAIN cache = Keys
  BY DEF Moves, Inv, AgentInv, StoreInv
<1>2. Load(k) # NoSession => Whole(Load(k).messages)
  BY <1>1 DEF Load, TurnsInv, WholeInv
<1>3. \A m \in Agents : agent'[m].at = "saving" => Whole(agent'[m].copy.messages)
  BY <1>2 DEF Moves, TurnsInv, WholeInv
<1>4. \A j \in Keys : cache'[j] # NoSession => Whole(cache'[j].messages)
  <2>1. CASE UNCHANGED cache
    BY <2>1 DEF TurnsInv, WholeInv
  <2>2. CASE Load(k) # NoSession /\ cache' = [cache EXCEPT ![k] = Load(k)]
    <3> HIDE DEF k
    <3> QED
      BY <1>1, <1>2, <2>2 DEF TurnsInv, WholeInv
  <2> QED
    BY <2>1, <2>2 DEF Moves
<1>5. CopyInv'
  BY DEF Moves, TurnsInv, CopyInv
<1> QED
  BY <1>3, <1>4, <1>5 DEF Moves, TurnsInv, WholeInv

\* The session is copied, and the messages for the model are built.
LEMMA OpenIsWhole ==
  ASSUME Inv, TurnsInv, NEW t \in Threads, OpenSession(t)
  PROVE  TurnsInv'
<1> DEFINE k == turn[t].key
           s == GetOrCreate(k)
           q == turn'[t]
           n == turn[t].n
           virtual == [i \in DOMAIN s.notes |-> VirtualMessage(n)]
<1>0. /\ k \in Keys /\ turn[t].at = "open" /\ turn[t].calls = <<>>
      /\ DOMAIN turn = Threads /\ DOMAIN turn[t] = TurnFields
      /\ DOMAIN cache = Keys
  BY DEF OpenSession, Inv, TurnInv, StoreInv, TurnsInv, CopyInv, CopyOk
<1>1. Whole(s.messages) /\ IsSeq(s.notes)
  <2>1. Whole(s.messages)
    BY <1>0, EmptyIsWhole DEF GetOrCreate, Load, TurnsInv, WholeInv
  <2>2. SessionOf(s, k, agent)
    BY <1>0, SessionsMade DEF GetOrCreate, Load, Inv, StoreInv
  <2> HIDE DEF s
  <2> QED
    BY <2>1, <2>2, SeqFacts DEF SessionOf
<1>2. /\ q.at = "loop" /\ q.calls = <<>>
      /\ q.session = Session(Append(s.messages, UserMessage(n)), <<>>)
      /\ q.context = BuildMessages(GetHistory(s.messages, MaxHistory), n) \o virtual
      /\ \A u \in Threads : u # t => turn'[u] = turn[u]
      /\ cache' = [cache EXCEPT ![k] = s]
      /\ UNCHANGED <<db, agent>>
  BY <1>0 DEF OpenSession, TurnFields
<1> HIDE DEF q, s, k, n
<1>3. CopyOk(q)
  <2>1. q.session.messages = Append(s.messages, UserMessage(n))
    BY <1>2 DEF Session
  <2>2. Open(q.session.messages)
    BY <1>1, <2>1, TurnOpens
  <2>3. Open(Completed(q))
    BY <1>2, <2>2, NoneWaits DEF Open, IsConversation
  <2>4. IsSeq(q.context) /\ Sound(q.context)
    BY <1>1, <1>2, BuiltIsSound, AgentLoopAssumption
  <2>5. Results(q) = <<>> /\ q.context \o <<>> = q.context
    BY <1>2, <2>4 DEF Results, IsSeq
  <2> QED
    BY <1>2, <2>3, <2>4, <2>5 DEF CopyOk
<1>4. CopyInv'
  BY <1>2, <1>3, CopyStays DEF TurnsInv, q
<1>5. WholeInv'
  BY <1>0, <1>1, <1>2 DEF TurnsInv, WholeInv
<1> QED
  BY <1>4, <1>5 DEF TurnsInv

\* The answer, and the copy is saved.
LEMMA FinishIsWhole ==
  ASSUME Inv, TurnsInv, NEW t \in Threads, Finish(t)
  PROVE  TurnsInv'
<1> DEFINE k == turn[t].key
           old == turn[t].session
           s == [old EXCEPT !.messages = Append(@, AssistantMessage(turn[t].n, <<>>))]
<1>0. /\ k \in Keys /\ IsCopy(old) /\ turn[t].at = "finish"
      /\ DOMAIN turn = Threads /\ DOMAIN cache = Keys /\ DOMAIN db = Keys
  BY DEF Finish, Inv, TurnInv, StoreInv, InLoop
<1>1. /\ db' = [db EXCEPT ![k] = s] /\ cache' = [cache EXCEPT ![k] = s]
      /\ turn' = [turn EXCEPT ![t] = NoTurn]
      /\ UNCHANGED agent
  BY DEF Finish, SaveSession
<1>2. s.messages = Append(old.messages, AssistantMessage(turn[t].n, <<>>))
  BY <1>0 DEF IsCopy
<1>3. Open(old.messages)
  BY <1>0, NoneWaits DEF TurnsInv, CopyInv, CopyOk, InLoop, IsCopy
<1> HIDE DEF k, old, s
<1>4. Whole(s.messages)
  BY <1>2, <1>3, TurnCompletes
<1>5. CopyInv'
  <2>1. turn'[t] = NoTurn /\ \A u \in Threads : u # t => turn'[u] = turn[u]
    BY <1>0, <1>1
  <2> QED
    BY <2>1, IdleIsOk, CopyStays DEF TurnsInv
<1>6. WholeInv'
  BY <1>0, <1>1, <1>4 DEF TurnsInv, WholeInv
<1> QED
  BY <1>5, <1>6 DEF TurnsInv

\* A completion handler saves its copy.
LEMMA SaveIsWhole ==
  ASSUME Inv, TurnsInv, NEW n \in Agents, HandlerSaves(n)
  PROVE  TurnsInv'
<1> DEFINE k == agent[n].key
           old == agent[n].copy
           s == [old EXCEPT !.notes = Append(@, n)]
<1>0. /\ k \in Keys /\ SessionOf(old, k, agent) /\ Whole(old.messages)
      /\ DOMAIN agent = Agents /\ DOMAIN agent[n] = AgentFields
      /\ DOMAIN cache = Keys /\ DOMAIN db = Keys
  BY DEF HandlerSaves, Inv, AgentInv, StoreInv, TurnsInv, WholeInv
<1>1. /\ db' = [db EXCEPT ![k] = s] /\ cache' = [cache EXCEPT ![k] = s]
      /\ UNCHANGED turn
  BY DEF HandlerSaves, SaveSession
<1>2. agent'[n].at = "done" /\ \A m \in Agents : m # n => agent'[m] = agent[m]
  BY <1>0 DEF HandlerSaves, AgentFields
<1>3. s.messages = old.messages
  BY <1>0 DEF SessionOf
<1> HIDE DEF k, old, s
<1>4. WholeInv'
  BY <1>0, <1>1, <1>2, <1>3 DEF TurnsInv, WholeInv
<1>5. CopyInv'
  BY <1>1 DEF TurnsInv, CopyInv
<1> QED
  BY <1>4, <1>5 DEF TurnsInv

\* A crash.
LEMMA CrashIsWhole ==
  ASSUME Inv, TurnsInv, Crash
  PROVE  TurnsInv'
<1>1. CopyInv'
  BY IdleIsOk DEF Crash, CopyInv
<1>2. WholeInv'
  BY DEF Crash, NoAgent, TurnsInv, WholeInv
<1> QED
  BY <1>1, <1>2 DEF TurnsInv

\* Every step.
LEMMA NextIsWhole == Inv /\ TurnsInv /\ [Next]_vars => TurnsInv'
<1> SUFFICES ASSUME Inv, TurnsInv, [Next]_vars PROVE TurnsInv'
  OBVIOUS
<1>1. ASSUME NEW t \in Threads, NEW k \in Keys, NEW g \in BOOLEAN,
             \/ BeginDirect(t, k, g) \/ BeginMessage(t, k, g) \/ BeginNew(t, k, g)
             \/ JustNew(t, k)
      PROVE  TurnsInv'
  BY <1>1, BeginStep, BeginIsWhole
<1>2. ASSUME NEW t \in Threads, TurnStep(t)
      PROVE  TurnsInv'
  BY <1>2, LoopIsWhole, OpenIsWhole, FinishIsWhole DEF TurnStep, Loop
<1>3. ASSUME NEW n \in Agents, AgentStep(n)
      PROVE  TurnsInv'
  BY <1>3, MoveStep, MoveIsWhole, SaveIsWhole DEF AgentStep
<1>4. CASE UNCHANGED vars
  BY <1>4 DEF vars, TurnsInv, CopyInv, WholeInv
<1>5. CASE Next /\ ~Crash
  <2>1. \/ \E t \in Threads, k \in Keys, g \in BOOLEAN :
             \/ BeginDirect(t, k, g) \/ BeginMessage(t, k, g) \/ BeginNew(t, k, g)
             \/ JustNew(t, k)
        \/ \E t \in Threads : TurnStep(t)
        \/ \E n \in Agents : AgentStep(n)
    BY <1>5 DEF Next
  <2> QED
    BY <1>1, <1>2, <1>3, <2>1
<1> QED
  BY <1>4, <1>5, CrashIsWhole

----------------------------------------------------------------------------
(* The input of a turn stays among the messages for the model *)

\* The messages of the user after position p that the model is sent.
Later(ms, p) == {i \in HasRole(ms, "user") : i > p /\ ms[i].tag # "virtual"}

\* A turn adds no more reminders than it has flags.
FewReminders(r, L) ==
  /\ \E a, b : L \subseteq {a, b}
  /\ (r.retried /\ r.reminded) \/ \E a : L \subseteq {a}
  /\ (r.retried \/ r.reminded) \/ L = {}

HasInput(r, p) ==
  /\ p \in DOMAIN r.context /\ r.context[p] = UserMessage(r.n)
  /\ FewReminders(r, Later(r.context, p))

InputInv ==
  \A t \in Threads : turn[t].at \in {"loop", "tools"} => \E p : HasInput(turn[t], p)

\* The messages for the model grow by one that is not the user's, or not at all.
GoesOn(r, q) ==
  /\ q.retried = r.retried /\ q.reminded = r.reminded
  /\ \/ q.context = r.context
     \/ \E m : m.role # "user" /\ q.context = Append(r.context, m)

\* They grow by a reminder, and its flag is set.
Reminds(r, q) ==
  /\ \E m : q.context = Append(r.context, m)
  /\ \/ ~r.retried /\ q.retried /\ (r.reminded => q.reminded)
     \/ ~r.reminded /\ q.reminded /\ (r.retried => q.retried)

\* d is the messages of c and then m.
IsAppend(d, c, m) == IsSeq(c) /\ d = Append(c, m)

\* A message is added.
LEMMA AppendLater ==
  ASSUME NEW c, NEW p, p \in DOMAIN c, NEW m, NEW d, IsAppend(d, c, m)
  PROVE  /\ p \in DOMAIN d /\ d[p] = c[p]
         /\ Later(d, p) \subseteq Later(c, p) \cup {Len(c) + 1}
         /\ Len(c) + 1 \in Later(d, p) => m.role = "user"
<1> DEFINE n == Len(c)
<1>1. n \in Nat /\ DOMAIN c = 1 .. n
  BY SeqFacts DEF IsAppend, IsSeq
<1>2. /\ IsSeq(d) /\ Len(d) = n + 1
      /\ \A i \in 1 .. n : d[i] = c[i]
      /\ d[n + 1] = m
  BY AppendElements DEF IsAppend
<1>3. DOMAIN d = 1 .. n + 1
  BY <1>2, SeqFacts DEF IsSeq
<1> HIDE DEF n
<1>4. \A i \in DOMAIN d : i = n + 1 \/ (i \in DOMAIN c /\ d[i] = c[i])
  BY <1>1, <1>2, <1>3
<1>5. p \in DOMAIN d /\ d[p] = c[p]
  BY <1>1, <1>2, <1>3
<1>6. Later(d, p) \subseteq Later(c, p) \cup {n + 1}
  BY <1>4 DEF Later, HasRole
<1>7. n + 1 \in Later(d, p) => m.role = "user"
  BY <1>2 DEF Later, HasRole
<1> QED
  BY <1>5, <1>6, <1>7 DEF n

\* It is not the user's.
LEMMA AppendOther ==
  ASSUME NEW c, NEW p, p \in DOMAIN c, NEW m, m.role # "user",
         NEW d, IsAppend(d, c, m)
  PROVE  p \in DOMAIN d /\ d[p] = c[p] /\ Later(d, p) \subseteq Later(c, p)
<1>1. /\ p \in DOMAIN d /\ d[p] = c[p]
      /\ Later(d, p) \subseteq Later(c, p) \cup {Len(c) + 1}
      /\ Len(c) + 1 \in Later(d, p) => m.role = "user"
  BY AppendLater
<1> QED
  BY <1>1

\* What has its input keeps it, whatever follows that is not the user's.
LEMMA InputStays ==
  ASSUME NEW r, IsSeq(r.context), NEW p, HasInput(r, p),
         NEW q, q.n = r.n, GoesOn(r, q)
  PROVE  HasInput(q, p)
<1> DEFINE K == Later(r.context, p)
           L == Later(q.context, p)
<1>1. /\ p \in DOMAIN q.context /\ q.context[p] = UserMessage(q.n)
      /\ L \subseteq K
  <2>1. CASE q.context = r.context
    BY <2>1 DEF HasInput
  <2>2. ASSUME NEW m, m.role # "user", q.context = Append(r.context, m)
        PROVE  /\ p \in DOMAIN q.context /\ q.context[p] = UserMessage(q.n)
               /\ L \subseteq K
    <3> DEFINE c == r.context
               d == q.context
    <3>1. /\ p \in DOMAIN c /\ c[p] = UserMessage(q.n)
          /\ m.role # "user" /\ IsAppend(d, c, m)
      BY <2>2 DEF HasInput, IsAppend
    <3>2. K = Later(c, p) /\ L = Later(d, p)
      OBVIOUS
    <3> HIDE DEF c, d, K, L
    <3>3. p \in DOMAIN d /\ d[p] = c[p] /\ Later(d, p) \subseteq Later(c, p)
      BY <3>1, AppendOther
    <3> QED
      BY <3>1, <3>2, <3>3 DEF c, d
  <2> QED
    BY <2>1, <2>2 DEF GoesOn
<1>2. FewReminders(r, K)
  BY DEF HasInput
<1>3. q.retried = r.retried /\ q.reminded = r.reminded
  BY DEF GoesOn
<1> HIDE DEF K, L
<1>4. \E a, b : L \subseteq {a, b}
  BY <1>1, <1>2 DEF FewReminders
<1>5. (\E a : K \subseteq {a}) => \E a : L \subseteq {a}
  BY <1>1
<1>6. K = {} => L = {}
  BY <1>1
<1>7. FewReminders(q, L)
  BY <1>2, <1>3, <1>4, <1>5, <1>6, Zenon DEF FewReminders
<1> QED
  BY <1>1, <1>7 DEF HasInput, L

\* A reminder is one more, and takes a flag.
LEMMA InputReminded ==
  ASSUME NEW r, IsSeq(r.context), NEW p, HasInput(r, p),
         NEW q, q.n = r.n, Reminds(r, q)
  PROVE  HasInput(q, p)
<1> DEFINE K == Later(r.context, p)
           L == Later(q.context, p)
           x == Len(r.context) + 1
<1>1. /\ p \in DOMAIN q.context /\ q.context[p] = UserMessage(q.n)
      /\ L \subseteq K \cup {x}
  <2>1. PICK m : q.context = Append(r.context, m)
    BY DEF Reminds
  <2> DEFINE c == r.context
             d == q.context
  <2>2. p \in DOMAIN c /\ c[p] = UserMessage(q.n) /\ IsAppend(d, c, m)
    BY <2>1 DEF HasInput, IsAppend
  <2> HIDE DEF c, d
  <2>3. /\ p \in DOMAIN d /\ d[p] = c[p]
        /\ Later(d, p) \subseteq Later(c, p) \cup {Len(c) + 1}
    BY <2>2, AppendLater
  <2> QED
    BY <2>2, <2>3 DEF c, d
<1>2. FewReminders(r, K)
  BY DEF HasInput
<1> HIDE DEF K, L, x
<1>3. K = {} => \E a : L \subseteq {a}
  BY <1>1
<1>4. (\E a : K \subseteq {a}) => \E a, b : L \subseteq {a, b}
  <2> SUFFICES ASSUME NEW a, K \subseteq {a} PROVE \E b, c : L \subseteq {b, c}
    OBVIOUS
  <2>1. L \subseteq {a, x}
    BY <1>1
  <2> QED
    BY <2>1
<1>5. (\E a : L \subseteq {a}) => \E a, b : L \subseteq {a, b}
  <2> SUFFICES ASSUME NEW a, L \subseteq {a} PROVE \E b, c : L \subseteq {b, c}
    OBVIOUS
  <2>1. L \subseteq {a, a}
    OBVIOUS
  <2> QED
    BY <2>1
<1>6. ~(r.retried /\ r.reminded)
  BY Zenon DEF Reminds
<1>7. q.retried \/ q.reminded
  BY Zenon DEF Reminds
<1>8. (r.retried \/ r.reminded) => (q.retried /\ q.reminded)
  BY Zenon DEF Reminds
<1>9. \E a : K \subseteq {a}
  BY <1>2, <1>6, Zenon DEF FewReminders
<1>10. (r.retried \/ r.reminded) \/ K = {}
  BY <1>2, Zenon DEF FewReminders
<1>11. FewReminders(q, L)
  BY <1>3, <1>4, <1>5, <1>7, <1>8, <1>9, <1>10, Zenon DEF FewReminders
<1> QED
  BY <1>1, <1>11 DEF HasInput, L

\* What a step of the loop does to the messages for the model.
LEMMA LoopGoesOn ==
  ASSUME Inv, NEW t \in Threads, Loop(t), turn'[t].at \in {"loop", "tools"}
  PROVE  /\ turn[t].at \in {"loop", "tools"} /\ turn'[t].n = turn[t].n
         /\ GoesOn(turn[t], turn'[t]) \/ Reminds(turn[t], turn'[t])
<1>0. DOMAIN turn = Threads /\ DOMAIN turn[t] = TurnFields
  BY DEF Inv, TurnInv
<1> DEFINE r == turn[t]
           q == turn'[t]
           Goes == /\ r.at \in {"loop", "tools"} /\ q.n = r.n
                   /\ GoesOn(r, q) \/ Reminds(r, q)
<1>1. ~Fail(t) /\ ~OutOfIterations(t)
  BY <1>0 DEF Fail, OutOfIterations, NoTurn, TurnFields
<1>2. ASSUME NEW tools, ChatCalls(t, tools)
      PROVE  Goes
  <2> DEFINE ids == [i \in DOMAIN tools |-> <<r.n, Len(r.session.messages) + i>>]
             calls == [i \in DOMAIN tools |-> [id |-> ids[i], tool |-> tools[i]]]
             m == AssistantMessage(r.n, ids)
             c == Append(r.context, m)
             ms == Append(r.session.messages, m)
  <2>1. /\ r.at = "loop"
        /\ \E a : turn' = [turn EXCEPT
             ![t].at = "tools", ![t].iteration = a, ![t].toolCalled = TRUE,
             ![t].calls = calls, ![t].context = c, ![t].session.messages = ms]
    BY <1>2, Zenon DEF ChatCalls
  <2>2. m.role # "user"
    BY DEF AssistantMessage, Message
  <2> HIDE DEF ids, calls, m, ms
  <2>3. /\ q.n = r.n /\ q.retried = r.retried /\ q.reminded = r.reminded
        /\ q.context = c
    <3> HIDE DEF c
    <3> QED
      BY <1>0, <2>1 DEF TurnFields
  <2> QED
    BY <2>1, <2>2, <2>3 DEF GoesOn
<1>3. ASSUME NEW blank, ChatText(t, blank)
      PROVE  Goes
  <2>1. r.at = "loop"
    BY <1>3 DEF ChatText
  <2>2. ASSUME NEW flag, Remind(t, flag),
               \/ flag = "retried" /\ ~r.retried
               \/ flag = "reminded" /\ ~r.reminded
        PROVE  Goes
    <3> DEFINE b == r.retried \/ flag = "retried"
               c == r.reminded \/ flag = "reminded"
               w == Append(r.context, Message("user", 0, NoCall, <<>>, ""))
    <3>1. turn' = [turn EXCEPT
            ![t].iteration = r.iteration + 1, ![t].retried = b, ![t].reminded = c,
            ![t].context = w]
      BY <2>2, Zenon DEF Remind
    <3>2. q.n = r.n /\ q.retried = b /\ q.reminded = c /\ q.context = w
      <4> HIDE DEF b, c, w
      <4>1. \E x : turn' = [turn EXCEPT ![t].iteration = x, ![t].retried = b,
                                        ![t].reminded = c, ![t].context = w]
        BY <3>1, Zenon
      <4> QED
        BY <1>0, <4>1 DEF TurnFields
    <3>3. \E m : q.context = Append(r.context, m)
      BY <3>2
    <3> HIDE DEF q, r
    <3>4. \/ ~r.retried /\ q.retried /\ (r.reminded => q.reminded)
          \/ ~r.reminded /\ q.reminded /\ (r.retried => q.retried)
      BY <2>2, <3>2, Zenon
    <3> QED
      BY <2>1, <3>2, <3>3, <3>4, Zenon DEF Reminds
  <2>3. ~(turn' = [turn EXCEPT ![t].at = "finish"])
    BY <1>0 DEF TurnFields
  <2> QED
    BY <1>3, <2>2, <2>3, Zenon DEF ChatText
<1>4. ASSUME r.at = "tools", ToolResult(t)
      PROVE  Goes
  <2> DEFINE m == ToolMessage(r.n, Head(r.calls).id)
  <2>1. /\ q.n = r.n /\ q.retried = r.retried /\ q.reminded = r.reminded
        /\ q.context = Append(r.context, m)
    BY <1>0, <1>4 DEF ToolResult, TurnFields
  <2>2. m.role # "user"
    BY DEF ToolMessage, Message
  <2> HIDE DEF m
  <2> QED
    BY <1>4, <2>1, <2>2 DEF GoesOn
<1>5. ASSUME NEW body \in Responses, Chat(t, LLMResponse(body))
      PROVE  Goes
  BY <1>2, <1>3, <1>5 DEF Chat
<1> HIDE DEF Goes
<1>6. Goes
  BY <1>1, <1>4, <1>5
  DEF Loop, ChatFails, ToolFails, SpawnSubagent, OtherTool, NextTool
<1> QED
  BY <1>6 DEF Goes

\* The messages for a new turn have its input, and no reminder.
LEMMA InputBegins ==
  ASSUME Inv, TurnsInv, NEW t \in Threads, OpenSession(t)
  PROVE  \E p : HasInput(turn'[t], p)
<1> DEFINE k == turn[t].key
           s == GetOrCreate(k)
           q == turn'[t]
           n == turn[t].n
           b == <<SystemMessage>> \o GetHistory(s.messages, MaxHistory)
           p == Len(b) + 1
<1>1. /\ k \in Keys /\ DOMAIN turn = Threads /\ DOMAIN turn[t] = TurnFields
      /\ DOMAIN cache = Keys
  BY DEF OpenSession, Inv, TurnInv, StoreInv
<1>2. Whole(s.messages) /\ IsSeq(s.notes)
  <2>1. Whole(s.messages)
    BY <1>1, EmptyIsWhole DEF GetOrCreate, Load, TurnsInv, WholeInv
  <2>2. SessionOf(s, k, agent)
    BY <1>1, SessionsMade DEF GetOrCreate, Load, Inv, StoreInv
  <2> HIDE DEF s
  <2> QED
    BY <2>1, <2>2, SeqFacts DEF SessionOf
<1>3. /\ q.context = BuildMessages(GetHistory(s.messages, MaxHistory), n)
                       \o [i \in DOMAIN s.notes |-> VirtualMessage(n)]
      /\ q.n = n
  BY <1>1 DEF OpenSession, TurnFields
<1> HIDE DEF q, s, k, n
<1>4. BeginsTurn(q.context, b, n)
  BY <1>2, <1>3, BuiltMessages, AgentLoopAssumption
<1> HIDE DEF b
<1>5. /\ p \in DOMAIN q.context /\ q.context[p] = UserMessage(n)
      /\ \A i \in DOMAIN q.context : i > p => q.context[i] = VirtualMessage(n)
  BY <1>4 DEF BeginsTurn
<1> HIDE DEF p
<1>6. VirtualMessage(n).tag = "virtual"
  BY DEF VirtualMessage, Message
<1>7. Later(q.context, p) = {}
  BY <1>5, <1>6 DEF Later, HasRole
<1>8. FewReminders(q, {})
  BY Zenon DEF FewReminders
<1>9. HasInput(q, p)
  BY <1>3, <1>5, <1>7, <1>8 DEF HasInput
<1> QED
  BY <1>9 DEF q

\* There is nothing to keep.
LEMMA NoInput ==
  ASSUME InputInv, NEW t \in Threads,
         \A u \in Threads : u # t => turn'[u] = turn[u],
         turn'[t].at \in {"loop", "tools"} => \E p : HasInput(turn'[t], p)
  PROVE  InputInv'
BY DEF InputInv

\* Every step keeps the input.
LEMMA NextKeepsInput == Inv /\ TurnsInv /\ InputInv /\ [Next]_vars => InputInv'
<1> SUFFICES ASSUME Inv, TurnsInv, InputInv, [Next]_vars PROVE InputInv'
  OBVIOUS
<1>1. ASSUME NEW t \in Threads, NEW k \in Keys, NEW g \in BOOLEAN,
             \/ BeginDirect(t, k, g) \/ BeginMessage(t, k, g) \/ BeginNew(t, k, g)
             \/ JustNew(t, k)
      PROVE  InputInv'
  <2>1. Begins(t, k)
    BY <1>1, BeginStep
  <2> QED
    BY <2>1, NoInput DEF Begins
<1>2. ASSUME NEW t \in Threads, Loop(t)
      PROVE  InputInv'
  <2>1. \A u \in Threads : u # t => turn'[u] = turn[u]
    BY <1>2, LoopStep DEF Onward
  <2>2. ASSUME turn'[t].at \in {"loop", "tools"}
        PROVE  \E p : HasInput(turn'[t], p)
    <3> DEFINE r == turn[t]
               q == turn'[t]
    <3>1. /\ r.at \in {"loop", "tools"} /\ q.n = r.n
          /\ GoesOn(r, q) \/ Reminds(r, q)
      BY <1>2, <2>2, LoopGoesOn
    <3>2. PICK p : HasInput(r, p)
      BY <3>1 DEF InputInv
    <3>3. IsSeq(r.context)
      BY <3>1 DEF TurnsInv, CopyInv, CopyOk
    <3> HIDE DEF q, r
    <3>4. HasInput(q, p)
      BY <3>1, <3>2, <3>3, InputStays, InputReminded
    <3> QED
      BY <3>4 DEF q
  <2> QED
    BY <2>1, <2>2, NoInput
<1>3. ASSUME NEW t \in Threads, OpenSession(t)
      PROVE  InputInv'
  BY <1>3, InputBegins, NoInput DEF OpenSession, Inv, TurnInv
<1>4. ASSUME NEW t \in Threads, Finish(t)
      PROVE  InputInv'
  <2>1. DOMAIN turn = Threads /\ turn' = [turn EXCEPT ![t] = NoTurn]
    BY <1>4 DEF Finish, Inv, TurnInv
  <2> QED
    BY <2>1, NoInput DEF NoTurn
<1>5. ASSUME NEW n \in Agents, AgentStep(n)
      PROVE  InputInv'
  <2>1. UNCHANGED turn
    BY <1>5 DEF AgentStep, HandlerGets, HandlerSaves
  <2> QED
    BY <2>1 DEF InputInv
<1>6. CASE Crash
  BY <1>6 DEF Crash, NoTurn, InputInv
<1>7. CASE UNCHANGED vars
  BY <1>7 DEF vars, InputInv
<1>8. CASE Next /\ ~Crash
  <2>1. \/ \E t \in Threads, k \in Keys, g \in BOOLEAN :
             \/ BeginDirect(t, k, g) \/ BeginMessage(t, k, g) \/ BeginNew(t, k, g)
             \/ JustNew(t, k)
        \/ \E t \in Threads : TurnStep(t)
        \/ \E n \in Agents : AgentStep(n)
    BY <1>8 DEF Next
  <2>2. \A t \in Threads : TurnStep(t) => Loop(t) \/ OpenSession(t) \/ Finish(t)
    BY DEF TurnStep, Loop
  <2> QED
    BY <1>1, <1>2, <1>3, <1>4, <1>5, <2>1, <2>2
<1> QED
  BY <1>6, <1>7, <1>8

\* A filter keeps what it is to keep.
LEMMA EntryStays ==
  ASSUME NEW ms, IsSeq(ms), NEW D, NEW i, i \in D, i \in DOMAIN ms
  PROVE  \E k \in DOMAIN EntriesAt(ms, D) : EntriesAt(ms, D)[k] = ms[i]
<1> DEFINE S == ToSet(ms)
           n == Len(ms)
           e == EntriesAt(ms, D)
<1>1. ms \in Seq(S)
  BY DEF IsSeq
<1> HIDE DEF S
<1>2. DOMAIN ms = 1 .. n
  BY <1>1, SeqFacts
<1>3. e \in Seq(S) /\ \E f : Keeps(ms, D, n, e, f)
  BY <1>1, EntriesFacts
<1> HIDE DEF e
<1>4. DOMAIN e = 1 .. Len(e)
  BY <1>3, SeqFacts
<1>5. PICK f : Keeps(ms, D, n, e, f)
  BY <1>3
<1>6. PICK k \in 1 .. Len(e) : f[k] = i
  BY <1>2, <1>5 DEF Keeps
<1>7. e[k] = ms[i]
  BY <1>5, <1>6 DEF Keeps
<1> QED
  BY <1>4, <1>6, <1>7 DEF e

\* Without the virtual messages there are no more messages after the input.
LEMMA LaterStays ==
  ASSUME NEW ms, IsSeq(ms), NEW p, p \in DOMAIN ms, ms[p].tag # "virtual",
         NEW a, NEW b, Later(ms, p) \subseteq {a, b}
  PROVE  \E k \in DOMAIN WithoutVirtual(ms) :
           /\ WithoutVirtual(ms)[k] = ms[p]
           /\ \E c, d : {i \in HasRole(WithoutVirtual(ms), "user") : i > k} \subseteq {c, d}
<1> DEFINE S == ToSet(ms)
           n == Len(ms)
           D == {i \in DOMAIN ms : ms[i].tag # "virtual"}
           e == EntriesAt(ms, D)
<1>0. e = WithoutVirtual(ms)
  BY DEF WithoutVirtual
<1>1. ms \in Seq(S)
  BY DEF IsSeq
<1> HIDE DEF S
<1>2. DOMAIN ms = 1 .. n /\ n \in Nat
  BY <1>1, SeqFacts
<1>3. p \in D
  OBVIOUS
<1>4. \A i \in D : i \in 1 .. n /\ ms[i].tag # "virtual"
  BY <1>2
<1> HIDE DEF D
<1>5. e \in Seq(S) /\ \E f : Keeps(ms, D, n, e, f)
  BY <1>1, EntriesFacts
<1> HIDE DEF e
<1>6. DOMAIN e = 1 .. Len(e) /\ Len(e) \in Nat
  BY <1>5, SeqFacts
<1>7. PICK f : Keeps(ms, D, n, e, f)
  BY <1>5
<1> DEFINE L == Len(e)
<1>8. /\ \A i \in 1 .. L : f[i] \in D /\ f[i] \in 1 .. n /\ e[i] = ms[f[i]]
      /\ \A i, j \in 1 .. L : i < j => f[i] < f[j]
      /\ \A x \in 1 .. n : x \in D => \E i \in 1 .. L : f[i] = x
  BY <1>4, <1>7 DEF Keeps
<1> HIDE DEF L
<1>9. PICK k \in 1 .. L : f[k] = p
  BY <1>3, <1>4, <1>8
<1>10. L \in Nat /\ DOMAIN e = 1 .. L
  BY <1>6 DEF L
<1>11. \A i, j \in 1 .. L : f[i] = f[j] => i = j
  <2> SUFFICES ASSUME NEW i \in 1 .. L, NEW j \in 1 .. L, f[i] = f[j], i # j
               PROVE  FALSE
    OBVIOUS
  <2>1. i < j \/ j < i
    BY <1>10
  <2>2. f[i] < f[j] \/ f[j] < f[i]
    BY <1>8, <2>1
  <2> QED
    BY <1>8, <2>2
<1> DEFINE At(x) == CHOOSE i \in 1 .. L : f[i] = x
<1>12. \A i \in 1 .. L : At(f[i]) = i
  BY <1>11
<1> HIDE DEF At
<1>13. ASSUME NEW i \in HasRole(e, "user"), i > k
       PROVE  i \in {At(a), At(b)}
  <2>1. i \in 1 .. L /\ e[i].role = "user"
    BY <1>10, <1>13 DEF HasRole
  <2>2. f[i] > p
    <3>1. f[k] < f[i]
      BY <1>8, <1>9, <1>13, <2>1
    <3> QED
      BY <1>8, <1>9, <2>1, <3>1
  <2>3. f[i] \in Later(ms, p)
    BY <1>2, <1>4, <1>8, <2>1, <2>2 DEF Later, HasRole
  <2>4. f[i] = a \/ f[i] = b
    BY <2>3
  <2> QED
    BY <1>12, <2>1, <2>4
<1>14. {i \in HasRole(e, "user") : i > k} \subseteq {At(a), At(b)}
  BY <1>13
<1>15. k \in DOMAIN e /\ e[k] = ms[p]
  BY <1>8, <1>9, <1>10
<1> QED
  BY <1>0, <1>14, <1>15

\* A position with no more than two messages of the user after it is in the tail.
LEMMA InputInTail ==
  ASSUME NEW ms, IsConversation(ms), Cardinality(HasRole(ms, "user")) >= 3,
         NEW k, k \in DOMAIN ms,
         NEW c, NEW d, {i \in HasRole(ms, "user") : i > k} \subseteq {c, d}
  PROVE  ProtectedStart(ms) <= k
<1> DEFINE U == HasRole(ms, "user")
           n == Len(ms)
           p == ThirdLast(U)
           T == {i \in U : i >= p}
<1>1. n \in Nat /\ DOMAIN ms = 1 .. n /\ U \in SUBSET (1 .. n)
  BY ConversationFacts DEF HasRole
<1>2. ProtectedStart(ms) = p
  BY DEF ProtectedStart
<1> HIDE DEF U
<1>3. p \in U /\ Cardinality(T) = 3
  BY <1>1, ThirdLastExists DEF U
<1> HIDE DEF p, n
<1>4. p \in Int /\ k \in Int /\ \A i \in U : i \in Int
  <2>1. k \in 1 .. n /\ \A i \in U : i \in 1 .. n
    BY <1>1
  <2>2. p \in 1 .. n
    BY <1>3, <2>1
  <2> QED
    BY <1>1, <2>1, <2>2
<1>5. SUFFICES ASSUME k < p PROVE FALSE
  BY <1>2, <1>4
<1>6. T \subseteq {c, d}
  <2>1. \A i \in T : i \in U /\ i > k
    BY <1>4, <1>5
  <2> QED
    BY <2>1 DEF U
<1>7. IsFiniteSet({c, d}) /\ Cardinality({c, d}) <= 2
  <2>1. IsFiniteSet({c}) /\ Cardinality({c}) = 1
    BY FS_Singleton
  <2>2. /\ IsFiniteSet({c} \cup {d})
        /\ Cardinality({c} \cup {d}) = IF d \in {c} THEN Cardinality({c})
                                       ELSE Cardinality({c}) + 1
    BY <2>1, FS_AddElement
  <2>3. {c} \cup {d} = {c, d}
    OBVIOUS
  <2>4. Cardinality({c} \cup {d}) <= 2
    BY <2>1, <2>2
  <2> QED
    BY <2>2, <2>3, <2>4
<1>8. Cardinality(T) <= Cardinality({c, d}) /\ Cardinality({c, d}) \in Nat
  <2> HIDE DEF T
  <2> QED
    BY <1>6, <1>7, FS_Subset, FS_CardinalityType
<1> QED
  BY <1>3, <1>7, <1>8

\* The projection keeps the input of a turn if the user has three messages.
LEMMA InputIsKept ==
  ASSUME NEW r, IsSeq(r.context), Sound(r.context), NEW p, HasInput(r, p),
         Cardinality(HasRole(WithoutVirtual(r.context), "user")) >= 3
  PROVE  UserMessage(r.n) \in ToSet(ProjectMessages(r.context))
<1> DEFINE c == r.context
           v == WithoutVirtual(c)
           s == Snipped(v)
           w == WithPlaceholders(s)
           m == UserMessage(r.n)
<1>1. m.role = "user" /\ m.tag = ""
  BY DEF UserMessage, Message
<1>2. p \in DOMAIN c /\ c[p] = m /\ \E a, b : Later(c, p) \subseteq {a, b}
  BY DEF HasInput, FewReminders
<1>3. Sound(v)
  BY WithoutVirtualIsSound
<1> HIDE DEF m
<1>4. PICK k \in DOMAIN v :
        /\ v[k] = m
        /\ \E x, y : {i \in HasRole(v, "user") : i > k} \subseteq {x, y}
  <2>1. PICK a, b : Later(c, p) \subseteq {a, b}
    BY <1>2
  <2>2. IsSeq(c) /\ p \in DOMAIN c /\ c[p] = m /\ c[p].tag # "virtual"
    BY <1>1, <1>2
  <2> HIDE DEF c
  <2>3. \E k \in DOMAIN WithoutVirtual(c) :
          /\ WithoutVirtual(c)[k] = c[p]
          /\ \E x, y : {i \in HasRole(WithoutVirtual(c), "user") : i > k} \subseteq {x, y}
    BY <2>1, <2>2, LaterStays
  <2> QED
    BY <2>2, <2>3
<1> HIDE DEF c, v
<1>5. IsConversation(v) /\ IsSeq(v) /\ k \in 1 .. Len(v) /\ Len(v) \in Nat
  <2>1. IsConversation(v)
    BY <1>3 DEF Sound
  <2> QED
    BY <1>4, <2>1, ConversationFacts DEF IsConversation
<1>6. ProtectedStart(v) <= k
  BY <1>4, <1>5, InputInTail DEF c, v
<1>7. ProtectedStart(v) \in Int
  <2> DEFINE q == ProtectedStart(v)
  <2>1. \/ q \in HasRole(v, "user")
        \/ q \in HasRole(v, "assistant")
        \/ q = Len(v) + 1
    BY <1>5, TailBegins
  <2>2. DOMAIN v = 1 .. Len(v)
    BY <1>5, ConversationFacts
  <2> HIDE DEF q
  <2> QED
    BY <1>5, <2>1, <2>2 DEF HasRole, q
<1>8. k \in HasRole(v, "system") \cup (ProtectedStart(v) .. Len(v))
  BY <1>5, <1>6, <1>7
<1>9. PICK l \in DOMAIN s : s[l] = m
  <2> DEFINE D == HasRole(v, "system") \cup (ProtectedStart(v) .. Len(v))
  <2>1. s = EntriesAt(v, D)
    BY DEF Snipped
  <2> HIDE DEF D, s
  <2>2. k \in D
    BY <1>8 DEF D
  <2> QED
    BY <1>4, <1>5, <2>1, <2>2, EntryStays
<1>10. IsConversation(s) /\ Paired(s)
  BY <1>3, SnippedIsPaired
<1> HIDE DEF s
<1>11. w = s /\ IsSeq(s)
  BY <1>10, NoPlaceholders DEF IsConversation
<1>12. PICK D : Coalesced(s) = EntriesAt(s, D) /\ l \in D
  <2>1. ~(s[l].role = "user" /\ s[l].tag = "reminder")
    BY <1>1, <1>9
  <2> QED
    BY <1>9, <2>1 DEF Coalesced
<1>13. PICK j \in DOMAIN Coalesced(s) : Coalesced(s)[j] = m
  BY <1>9, <1>11, <1>12, EntryStays
<1>14. ProjectMessages(c) = Coalesced(s)
  BY <1>11 DEF ProjectMessages, s, v
<1> QED
  BY <1>13, <1>14 DEF ToSet, m, c

----------------------------------------------------------------------------
(* Theorems *)

\* Types, the lock, what subagents know and what is kept.
LEMMA Invariant == Spec => []Inv
BY InitKeeps, NextKeeps, PTL DEF Spec

\* Turns in different sessions share the tools and do not mix: send_message
\* answers the chat whose turn it is (process_mutex_ is held for the whole turn),
\* and a subagent's notification is stored in the session that started it.
THEOREM TurnsDoNotMix == Spec => []TurnsKeepApart
<1>1. Inv => TurnsKeepApart
  <2> SUFFICES ASSUME Inv PROVE TurnsKeepApart
    OBVIOUS
  <2>1. \A t \in Threads : turn[t].at # "idle" => target = turn[t].key
    BY DEF Inv, LockInv
  <2>2. ASSUME NEW k \in Keys, db[k] # NoSession
        PROVE  \A i \in DOMAIN db[k].notes : agent[db[k].notes[i]].home = k
    BY <2>2 DEF Inv, StoreInv, SessionOf
  <2> QED
    BY <2>1, <2>2 DEF TurnsKeepApart
<1> QED
  BY <1>1, Invariant, PTL

\* What is stored of a session only grows, but for "/new" and until a completion
\* handler has saved over it what was out of date: no turn, failed or cut off,
\* loses the messages of an earlier one.
THEOREM NoTurnIsLost == Spec => HistoryOnlyGrows
<1>1. Inv /\ [Next]_vars =>
        [\A k \in Keys :
           \/ db[k] = NoSession \/ db'[k] = NoSession \/ k \in stale'
           \/ IsPrefix(db[k].messages, db'[k].messages)]_vars
  BY NextKeeps DEF Grows
<1> QED
  BY <1>1, Invariant, PTL DEF Spec, HistoryOnlyGrows

\* Copies, the messages for the model and what is kept are whole.
LEMMA TurnsInvariant == Spec => []TurnsInv
BY InitIsWhole, NextIsWhole, Invariant, PTL DEF Spec

\* What is stored of a session is a conversation of whole turns, each with all its
\* calls and all their results: a turn that is cancelled, throws or is cut off by a
\* crash leaves nothing of itself, since Finish alone saves the copy, and a handler
\* that saves an outdated copy saves one that was whole.
THEOREM WholeTurnsAreStored == Spec => []StoredTurnsAreWhole
<1>1. TurnsInv => StoredTurnsAreWhole
  BY DEF TurnsInv, WholeInv, Whole, StoredTurnsAreWhole
<1> QED
  BY <1>1, TurnsInvariant, PTL

\* The request to the model, in either style, has the result of every call and the
\* call of every result, whatever is stored, wherever the history and the projection
\* are cut, and however many calls and reminders the turn has added.
THEOREM ModelSeesWhole == Spec => []ModelSeesWholeExchanges
<1>1. TurnsInv => ModelSeesWholeExchanges
  <2> SUFFICES ASSUME TurnsInv, NEW t \in Threads, NEW style \in Styles,
                      turn[t].at = "loop"
               PROVE  WholeExchanges(PayloadMessages(style, ProjectMessages(turn[t].context)))
    BY DEF ModelSeesWholeExchanges
  <2>1. /\ turn[t].calls = <<>> /\ IsSeq(turn[t].context)
        /\ Sound(turn[t].context \o Results(turn[t]))
    BY DEF TurnsInv, CopyInv, CopyOk
  <2>2. Results(turn[t]) = <<>> /\ turn[t].context \o <<>> = turn[t].context
    BY <2>1 DEF Results, IsSeq
  <2> QED
    BY <2>1, <2>2, ProjectionIsPaired, PayloadIsWhole
<1> QED
  BY <1>1, TurnsInvariant, PTL

\* The reminders a turn adds, one of either kind, never push its input out of the
\* protected tail: from the third message of the user on, the model is sent what it
\* is to answer, whatever the turns before, the notifications and the tools added.
THEOREM InputStaysInTail == Spec => []LaterInputIsSent
<1>1. Init => InputInv
  BY DEF Init, NoTurn, InputInv
<1>2. TurnsInv /\ InputInv => LaterInputIsSent
  <2> SUFFICES ASSUME TurnsInv, InputInv, NEW t \in Threads, turn[t].at = "loop",
                      Cardinality(HasRole(WithoutVirtual(turn[t].context), "user")) >= 3
               PROVE  InputIsSent(t)
    BY DEF LaterInputIsSent
  <2> DEFINE r == turn[t]
  <2>1. PICK p : HasInput(r, p)
    BY DEF InputInv
  <2>2. IsSeq(r.context) /\ r.calls = <<>> /\ Sound(r.context \o Results(r))
    BY DEF TurnsInv, CopyInv, CopyOk
  <2>3. Sound(r.context)
    BY <2>2, NoResults, NothingFollows
  <2>4. UserMessage(r.n) \in ToSet(ProjectMessages(r.context))
    <3>1. Cardinality(HasRole(WithoutVirtual(r.context), "user")) >= 3
      OBVIOUS
    <3> HIDE DEF r
    <3> QED
      BY <2>1, <2>2, <2>3, <3>1, InputIsKept
  <2>5. UserMessage(r.n).role = "user" /\ UserMessage(r.n).turn = r.n
    BY DEF UserMessage, Message
  <2> QED
    BY <2>4, <2>5 DEF InputIsSent
<1>3. Spec => []InputInv
  BY <1>1, Invariant, TurnsInvariant, NextKeepsInput, PTL DEF Spec
<1> QED
  BY <1>2, <1>3, TurnsInvariant, PTL
=============================================================================
