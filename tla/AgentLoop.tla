------------------------------ MODULE AgentLoop ------------------------------
(***************************************************************************)
(* The turns of one agent (src/agent/agent_loop.cpp) on the sessions it    *)
(* keeps (src/session/session_manager.cpp).                                *)
(*                                                                         *)
(* A turn holds process_mutex_ from beginning to end: it takes a copy of   *)
(* the session, calls the model and the tools in a loop, and saves the     *)
(* copy over whatever is stored by then.  The completion handler of a      *)
(* background subagent does the same to the session of its parent without  *)
(* that lock.  The sessions' own mutex_ makes each call of the session     *)
(* manager a step; the database write inside it is a transaction.          *)
(*                                                                         *)
(* The texts of replies and results are left out, and with them memory     *)
(* blocks, what a tool does, and which files a session has read.           *)
(***************************************************************************)
EXTENDS Provider

CONSTANTS
  Threads,        \* threads that run turns: inbound, pool workers, timers
  Keys,           \* sessions
  Agents,         \* subagents that may be started in the background
  Archives,       \* what may be stored of each session from earlier days
  Responses,      \* what the model's server may respond
  MaxHistory,     \* max_history_messages
  MaxIterations,  \* max_iterations
  MaxAgentTurns,  \* max_turns of a subagent
  MaxTurns,       \* bound: turns begun
  MaxCrashes,     \* bound: ends of the process
  NoSession, NoKey

ASSUME AgentLoopAssumption ==
  /\ MaxHistory \in Nat /\ MaxIterations \in Nat
  /\ NoKey \notin Keys
  /\ \A a \in Archives : \A k \in Keys : IsConversation(a[k]) /\ WholeTurns(a[k])
  /\ \A body \in Responses : IsSeq(LLMResponse(body).tool_calls)

VARIABLES
  turn,     \* of each thread: the turn it runs
  turns,    \* turns begun so far
  cache,    \* cache_ of the session manager
  db,       \* sessions.db
  target,   \* chat of the send_message tool: session of the turn that set it
  toolKey,  \* session_key_ of the agent tool
  agent,    \* each subagent: its thread, its record, and its parent's session
  stale,    \* sessions over which a handler has saved an outdated copy
  crashes

vars == <<turn, turns, cache, db, target, toolKey, agent, stale,
          crashes>>

Session(messages, notes) == [messages |-> messages, notes |-> notes]
NewSession == Session(<<>>, <<>>)

NoTurn ==
  [at |-> "idle", key |-> NoKey, n |-> 0, guardrail |-> FALSE,
   session |-> NewSession, context |-> <<>>, iteration |-> 0,
   toolCalled |-> FALSE, retried |-> FALSE, reminded |-> FALSE,
   calls |-> <<>>, planned |-> FALSE]
NoAgent == [at |-> "free", status |-> "idle", turns |-> 0, key |-> NoKey,
            home |-> NoKey, copy |-> NewSession]

Init ==
  /\ turn = [t \in Threads |-> NoTurn]
  /\ turns = 0
  /\ cache = [k \in Keys |-> NoSession]
  /\ \E a \in Archives :
       db = [k \in Keys |-> IF a[k] = <<>> THEN NoSession
                            ELSE Session(a[k], <<>>)]
  /\ target = NoKey
  /\ toolKey = NoKey
  /\ agent = [n \in Agents |-> NoAgent]
  /\ stale = {}
  /\ crashes = 0

----------------------------------------------------------------------------
(* The session manager *)

\* Load, as GetOrCreate and Get see it: the cached copy, else the stored one.
Load(k) == IF cache[k] # NoSession THEN cache[k] ELSE db[k]

GetOrCreate(k) == IF Load(k) = NoSession THEN NewSession ELSE Load(k)

\* Save: the whole session replaces the stored and the cached one.
SaveSession(k, s) ==
  /\ db' = [db EXCEPT ![k] = s]
  /\ cache' = [cache EXCEPT ![k] = s]

DeleteSession(k) ==
  /\ db' = [db EXCEPT ![k] = NoSession]
  /\ cache' = [cache EXCEPT ![k] = NoSession]

----------------------------------------------------------------------------
(* A turn begins *)

\* Mutant of process_mutex_free.
NoLock == TRUE

process_mutex_free == \A t \in Threads : turn[t].at = "idle"

\* The lock, and the tools are told whose turn it is.
Enter(t, k, guardrail) ==
  /\ turn[t].at = "idle"
  /\ process_mutex_free
  /\ turns < MaxTurns
  /\ turns' = turns + 1
  /\ turn' = [turn EXCEPT ![t] =
       [NoTurn EXCEPT !.at = "open", !.key = k, !.n = turns + 1,
                      !.guardrail = guardrail]]
  /\ target' = k
  /\ UNCHANGED <<toolKey, agent, stale, crashes>>

\* ProcessDirect, for a task, a cron job or the heartbeat.
BeginDirect(t, k, guardrail) ==
  /\ Enter(t, k, guardrail)
  /\ UNCHANGED <<cache, db>>

\* ProcessMessage; what the two tell the tools differs, not what they do next.
BeginMessage(t, k, guardrail) ==
  /\ Enter(t, k, guardrail)
  /\ UNCHANGED <<cache, db>>

\* "/new" and a request: the session is deleted, then the turn goes on.
BeginNew(t, k, guardrail) ==
  /\ Enter(t, k, guardrail)
  /\ DeleteSession(k)

\* "/new" alone is answered at once.
JustNew(t, k) ==
  /\ turn[t].at = "idle"
  /\ process_mutex_free
  /\ turns < MaxTurns
  /\ turns' = turns + 1
  /\ target' = k
  /\ DeleteSession(k)
  /\ UNCHANGED <<turn, toolKey, agent, stale, crashes>>

\* The copy of the session, the messages for the model, the user's message in
\* the copy, and the notifications that wait in it as virtual messages.
OpenSession(t) ==
  LET k == turn[t].key
      n == turn[t].n
      s == GetOrCreate(k)
      virtual == [i \in DOMAIN s.notes |-> VirtualMessage(n)]
  IN
  /\ turn[t].at = "open"
  /\ cache' = [cache EXCEPT ![k] = s]
  /\ turn' = [turn EXCEPT
       ![t].at = "loop",
       ![t].session = Session(Append(s.messages, UserMessage(n)), <<>>),
       ![t].context = BuildMessages(GetHistory(s.messages, MaxHistory), n) \o virtual]
  /\ UNCHANGED <<turns, db, target, toolKey, agent, stale, crashes>>

----------------------------------------------------------------------------
(* The loop over model and tools *)

outside == <<turns, target, crashes>>

\* Mutant of Fail: the copy is saved.
FailSaving(t) ==
  /\ SaveSession(turn[t].key, turn[t].session)
  /\ turn' = [turn EXCEPT ![t] = NoTurn]
  /\ UNCHANGED <<outside, toolKey, agent, stale>>

\* An exception leaves the turn: the copy is dropped, and the lock with it.
Fail(t) ==
  /\ turn' = [turn EXCEPT ![t] = NoTurn]
  /\ UNCHANGED <<outside, cache, db, toolKey, agent, stale>>

\* The task was cancelled (ProcessDirect only); Chat itself catches what it throws.
ChatFails(t) ==
  /\ turn[t].at = "loop"
  /\ turn[t].iteration < MaxIterations
  /\ Fail(t)

\* A reply that asks for tools.
ChatCalls(t, tools) ==
  LET n == turn[t].n
      ids == [i \in DOMAIN tools |-> <<n, Len(turn[t].session.messages) + i>>]
      message == AssistantMessage(n, ids)
  IN
  /\ turn[t].at = "loop"
  /\ turn[t].iteration < MaxIterations
  /\ turn' = [turn EXCEPT
       ![t].at = "tools",
       ![t].iteration = @ + 1,
       ![t].toolCalled = TRUE,
       ![t].calls = [i \in DOMAIN tools |-> [id |-> ids[i], tool |-> tools[i]]],
       ![t].context = Append(@, message),
       ![t].session.messages = Append(@, message)]
  /\ UNCHANGED <<outside, cache, db, toolKey, agent, stale>>

\* The model is reminded, and asked again.
Remind(t, flag) ==
  turn' = [turn EXCEPT
    ![t].iteration = @ + 1,
    ![t].retried = @ \/ flag = "retried",
    ![t].reminded = @ \/ flag = "reminded",
    ![t].context = Append(@, Message("user", 0, NoCall, <<>>, ""))]

\* A reply without a call, blank or not: the request needs a tool and none was
\* called; or the reply after a tool is blank; or it is the answer.
ChatText(t, blank) ==
  LET r == turn[t]
      needsTool == r.guardrail /\ ~r.toolCalled /\ ~r.retried
      needsText == r.toolCalled /\ blank /\ ~r.reminded
  IN
  /\ r.at = "loop"
  /\ r.iteration < MaxIterations
  /\ \/ needsTool /\ Remind(t, "retried")
     \/ ~needsTool /\ needsText /\ Remind(t, "reminded")
     \/ /\ ~needsTool /\ ~needsText
        /\ turn' = [turn EXCEPT ![t].at = "finish"]
  /\ UNCHANGED <<outside, cache, db, toolKey, agent, stale>>

\* HasToolCalls decides.
Chat(t, response) ==
  \/ response.tool_calls # <<>> /\ ChatCalls(t, response.tool_calls)
  \/ response.tool_calls = <<>> /\ ChatText(t, response.text = "")

\* Mutant of OutOfIterations: one round too many.
OutOfIterationsLate(t) ==
  /\ turn[t].at = "loop"
  /\ turn[t].iteration > MaxIterations
  /\ turn' = [turn EXCEPT ![t].at = "finish"]
  /\ UNCHANGED <<outside, cache, db, toolKey, agent, stale>>

\* max_iterations: the loop ends without an answer of the model.
OutOfIterations(t) ==
  /\ turn[t].at = "loop"
  /\ turn[t].iteration >= MaxIterations
  /\ turn' = [turn EXCEPT ![t].at = "finish"]
  /\ UNCHANGED <<outside, cache, db, toolKey, agent, stale>>

\* The result of the first call that waits goes into the messages and the copy;
\* after the last one the loop goes on, or ends if plan_work was among them.
ToolResult(t) ==
  LET r == turn[t]
      call == Head(r.calls)
      planned == r.planned \/ call.tool = "plan_work"
      message == ToolMessage(r.n, call.id)
  IN turn' = [turn EXCEPT
       ![t].calls = Tail(@),
       ![t].planned = planned,
       ![t].at = IF Len(r.calls) > 1 THEN "tools"
                 ELSE IF planned THEN "finish" ELSE "loop",
       ![t].context = Append(@, message),
       ![t].session.messages = Append(@, message)]

NextTool(t, tool) ==
  /\ turn[t].at = "tools"
  /\ Head(turn[t].calls).tool = tool

\* A cancelled task, or a tool that throws.
ToolFails(t) == turn[t].at = "tools" /\ Fail(t)

\* The agent tool with run_in_background: it is told the session first.
SpawnSubagent(t, n) ==
  /\ NextTool(t, "agent")
  /\ agent[n].at = "free"
  /\ toolKey' = turn[t].key
  /\ agent' = [agent EXCEPT ![n] =
       [NoAgent EXCEPT !.at = "launched", !.status = "backgrounded",
                       !.key = toolKey', !.home = turn[t].key]]
  /\ ToolResult(t)
  /\ UNCHANGED <<outside, cache, db, stale>>

\* All other tools, and a subagent in the foreground; edit_file is refused, with
\* a result that says so, when the copy has not read the file.
OtherTool(t) ==
  /\ turn[t].at = "tools"
  /\ ToolResult(t)
  /\ UNCHANGED <<outside, cache, db, toolKey, agent, stale>>

\* The answer, or a default text, ends the copy, which is saved.
Finish(t) ==
  LET r == turn[t]
      s == [r.session EXCEPT !.messages = Append(@, AssistantMessage(r.n, <<>>))]
  IN
  /\ r.at = "finish"
  /\ SaveSession(r.key, s)
  /\ turn' = [turn EXCEPT ![t] = NoTurn]
  /\ UNCHANGED <<outside, toolKey, agent, stale>>

----------------------------------------------------------------------------
(* A subagent in the background: a detached thread *)

MoveAgent(n, at, status) ==
  agent' = [agent EXCEPT ![n].at = at, ![n].status = status]

AgentStarts(n) ==
  /\ agent[n].at = "launched"
  /\ MoveAgent(n, "loop", "running")

\* A turn of its own loop: calls, an answer, or an exception.
AgentChats(n) ==
  /\ agent[n].at = "loop"
  /\ agent[n].turns < MaxAgentTurns
  /\ \E next \in {<<"tools", "running">>, <<"ended", "completed">>, <<"ended", "failed">>} :
       agent' = [agent EXCEPT ![n].turns = @ + 1, ![n].at = next[1],
                              ![n].status = next[2]]

\* A tool that throws has the exception as its result.
AgentCallsTools(n) ==
  /\ agent[n].at = "tools"
  /\ MoveAgent(n, "loop", "running")

\* Without an answer the default text is the result.
AgentOutOfTurns(n) ==
  /\ agent[n].at = "loop"
  /\ agent[n].turns >= MaxAgentTurns
  /\ MoveAgent(n, "ended", "completed")

\* Mutant of HandlerGets: the session of the turn that runs by now.
HandlerGetsLatest(n) ==
  LET k == target IN
  /\ agent[n].at = "ended"
  /\ IF Load(k) = NoSession
     THEN agent' = [agent EXCEPT ![n].at = "done"] /\ UNCHANGED cache
     ELSE /\ agent' = [agent EXCEPT ![n].at = "saving", ![n].key = k, ![n].copy = Load(k)]
          /\ cache' = [cache EXCEPT ![k] = Load(k)]
  /\ UNCHANGED <<turn, outside, db, toolKey, stale>>

\* The completion handler: a copy of the parent's session, if there is one.
HandlerGets(n) ==
  LET k == agent[n].key IN
  /\ agent[n].at = "ended"
  /\ IF Load(k) = NoSession
     THEN agent' = [agent EXCEPT ![n].at = "done"] /\ UNCHANGED cache
     ELSE /\ agent' = [agent EXCEPT ![n].at = "saving", ![n].copy = Load(k)]
          /\ cache' = [cache EXCEPT ![k] = Load(k)]
  /\ UNCHANGED <<turn, outside, db, toolKey, stale>>

\* The notification is added to the copy, which is saved.
HandlerSaves(n) ==
  LET k == agent[n].key
      s == agent[n].copy
      outdated == db[k] = NoSession \/ db[k].messages # s.messages
  IN
  /\ agent[n].at = "saving"
  /\ SaveSession(k, [s EXCEPT !.notes = Append(@, n)])
  /\ agent' = [agent EXCEPT ![n].at = "done", ![n].copy = NewSession]
  /\ stale' = IF outdated THEN stale \cup {k} ELSE stale
  /\ UNCHANGED <<turn, outside, toolKey>>

\* The process ends and is started again: the database is what is left.
Crash ==
  /\ crashes < MaxCrashes
  /\ crashes' = crashes + 1
  /\ turn' = [t \in Threads |-> NoTurn]
  /\ cache' = [k \in Keys |-> NoSession]
  /\ target' = NoKey
  /\ toolKey' = NoKey
  /\ agent' = [n \in Agents |-> IF agent[n].at = "free" THEN NoAgent
                               ELSE [NoAgent EXCEPT !.at = "done", !.home = agent[n].home]]
  /\ UNCHANGED <<turns, db, stale>>

----------------------------------------------------------------------------
TurnStep(t) ==
  \/ OpenSession(t)
  \/ ChatFails(t)
  \/ \E body \in Responses : Chat(t, LLMResponse(body))
  \/ OutOfIterations(t)
  \/ ToolFails(t)
  \/ \E n \in Agents : SpawnSubagent(t, n)
  \/ OtherTool(t)
  \/ Finish(t)

AgentStep(n) ==
  \/ /\ AgentStarts(n) \/ AgentChats(n) \/ AgentCallsTools(n) \/ AgentOutOfTurns(n)
     /\ UNCHANGED <<turn, outside, cache, db, toolKey, stale>>
  \/ HandlerGets(n)
  \/ HandlerSaves(n)

Next ==
  \/ \E t \in Threads, k \in Keys, g \in BOOLEAN :
       BeginDirect(t, k, g) \/ BeginMessage(t, k, g) \/ BeginNew(t, k, g)
  \/ \E t \in Threads, k \in Keys : JustNew(t, k)
  \/ \E t \in Threads : TurnStep(t)
  \/ \E n \in Agents : AgentStep(n)
  \/ Crash

Spec == Init /\ [][Next]_vars

\* The threads of turns and subagents are scheduled, and model and tools come back.
FairSpec ==
  /\ Spec
  /\ \A t \in Threads : WF_vars(TurnStep(t))
  /\ \A n \in Agents : WF_vars(AgentStep(n))

----------------------------------------------------------------------------
(* Properties *)

IsSession(s) ==
  /\ DOMAIN s = {"messages", "notes"}
  /\ \A i \in DOMAIN s.messages : s.messages[i].role \in {"user", "assistant", "tool"}
  /\ ToSet(s.notes) \subseteq Agents

\* Types: a turn is at one of its steps, and what is cached or stored is a session.
TypeOK ==
  /\ \A t \in Threads :
       /\ turn[t].at \in {"idle", "open", "loop", "tools", "finish"}
       /\ turn[t].at = "tools" <=> turn[t].calls # <<>>
       /\ turn[t].iteration \in 0 .. MaxIterations
       /\ IsSession(turn[t].session)
  /\ \A k \in Keys : /\ cache[k] # NoSession => IsSession(cache[k])
                     /\ db[k] # NoSession => IsSession(db[k])
  /\ \A n \in Agents :
       /\ agent[n].at \in {"free", "launched", "loop", "tools", "ended", "saving", "done"}
       /\ agent[n].at \in {"ended", "saving"} => agent[n].status \in {"completed", "failed"}
       /\ agent[n].turns \in 0 .. MaxAgentTurns
  /\ stale \subseteq Keys
  /\ turns \in 0 .. MaxTurns /\ crashes \in 0 .. MaxCrashes

\* What is stored of a session is a conversation of whole turns, each with all
\* its calls and their results: whatever the model does, whoever saves over
\* whom, and wherever a turn is cancelled, throws or is cut off by a crash.
StoredTurnsAreWhole ==
  \A k \in Keys : db[k] # NoSession => WholeTurns(db[k].messages)

\* The request to the model, in either style, has the result of every call and the
\* call of every result, although the history is cut at any message and the
\* projection at another one: else the server refuses it, and the session is stuck.
ModelSeesWholeExchanges ==
  \A t \in Threads, style \in Styles :
    turn[t].at = "loop" /\ turn[t].iteration < MaxIterations =>
      WholeExchanges(PayloadMessages(style, ProjectMessages(turn[t].context)))

\* Turns of several sessions share the tools, and do not mix: send_message answers
\* the chat whose turn it is, and the notification of a subagent goes to the session
\* that started it, whatever is done in other sessions before it ends.
TurnsKeepApart ==
  /\ \A t \in Threads : turn[t].at # "idle" => target = turn[t].key
  /\ \A k \in Keys : db[k] # NoSession =>
       \A i \in DOMAIN db[k].notes : agent[db[k].notes[i]].home = k

\* The stored messages of a session only grow, but for "/new", until a
\* completion handler has saved a copy that was out of date.
HistoryOnlyGrows ==
  [][\A k \in Keys :
       \/ db[k] = NoSession \/ db'[k] = NoSession \/ k \in stale'
       \/ IsPrefix(db[k].messages, db'[k].messages)]_vars

\* Every turn ends: the guardrail and the reminder send the model round the loop
\* again, but not for ever.
TurnEnds == \A t \in Threads : turn[t].at # "idle" ~> turn[t].at = "idle"

\* The user's message of turn t is among the messages for the model.
InputIsSent(t) ==
  \E m \in ToSet(ProjectMessages(turn[t].context)) :
    m.role = "user" /\ m.turn = turn[t].n

\* The comment on the protected tail says that the current input is kept.
CurrentInputIsSent == \A t \in Threads : turn[t].at = "loop" => InputIsSent(t)

\* It is kept once the user has three messages, of whatever turns: the input and the
\* two reminders that a turn may add, one of either kind, just fill the tail.
LaterInputIsSent ==
  \A t \in Threads :
    /\ turn[t].at = "loop"
    /\ Cardinality(HasRole(WithoutVirtual(turn[t].context), "user")) >= 3
    => InputIsSent(t)

=============================================================================
