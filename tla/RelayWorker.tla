----------------------------- MODULE RelayWorker -----------------------------
(***************************************************************************)
(* The connection of one managed agent to the relay server                 *)
(* (src/relay/relay_manager.cpp, class Worker): the thread that connects,  *)
(* reads and executes commands, the heartbeat thread it starts for every   *)
(* connection, the writer of activity reports, and Stop, called by the     *)
(* main thread.                                                            *)
(*                                                                         *)
(* A step is one send, one read, one critical section or one join.  A      *)
(* send that finds the session closed or the link broken throws; on a      *)
(* link whose peer has gone it succeeds without effect, and the data that  *)
(* nobody acknowledges is what makes TCP give the link up.  Two threads    *)
(* that join the same std::thread are undefined behaviour: the loser gets  *)
(* std::system_error, which nobody catches.  Contents of commands, results *)
(* and errors are left out, and so is the HTTP half of the worker.         *)
(***************************************************************************)
EXTENDS Naturals, Sequences, SequencesExt, FiniteSets

CONSTANTS
  Commands,    \* commands of the server
  MaxReports,  \* bound: reports of the inbound thread
  None         \* no command

ASSUME RelayAssumption == None \notin Commands /\ MaxReports \in Nat

VARIABLES
  running,    \* running_
  at,         \* the thread of Run and the main thread: where each is
  ret,        \* where each goes on after StopHeartbeat
  command,    \* command in execution
  session,    \* whether session_ is set
  link,       \* the connection behind the session
  inbox,      \* commands sent by the server and not yet read
  dispatched, \* commands sent by the server on this connection
  heard,      \* of each command: what the server has received of it
  hbRunning,  \* heartbeat_running_
  hb,         \* heartbeat_thread_
  joiner,     \* who is inside its join
  outRunning, \* outbound_writer_running_
  queue,      \* outbound_queue_
  batch,      \* what the writer has taken from it
  writer,     \* outbound_writer_thread_
  reports,    \* reports made so far
  crashed     \* std::terminate

vars == <<running, at, ret, command, session, link, inbox, dispatched, heard,
          hbRunning, hb, joiner, outRunning, queue, batch, writer, reports,
          crashed>>
hbVars == <<hbRunning, hb, joiner>>
outVars == <<outRunning, queue, batch, writer, reports>>
serverVars == <<inbox, dispatched, heard>>
linkVars == <<session, link>>

Dead == {"broken", "closed", "none"}
Whole(end) == <<"ack", "running", end>>
Settled(c) == heard[c] \in {Whole("completed"), Whole("failed")}

Init ==
  /\ running = FALSE
  /\ at = [worker |-> "off", main |-> "new"]
  /\ ret = [worker |-> "off", main |-> "off"]
  /\ command = None
  /\ session = FALSE /\ link = "none"
  /\ inbox = <<>> /\ dispatched = {}
  /\ heard = [c \in Commands |-> <<>>]
  /\ hbRunning = FALSE /\ hb = "none" /\ joiner = "none"
  /\ outRunning = FALSE /\ queue = <<>> /\ batch = <<>> /\ writer = "none"
  /\ reports = 0
  /\ crashed = FALSE

GoTo(x, pc) == at' = [at EXCEPT ![x] = pc]
Call(x, pc, back) == GoTo(x, pc) /\ ret' = [ret EXCEPT ![x] = back]

----------------------------------------------------------------------------
(* SendText: session_ is looked up and written to *)

CanSend == session /\ link \notin Dead

\* What a successful send does to the link.
Written == link' = IF link = "dying" THEN "doomed" ELSE link

----------------------------------------------------------------------------
(* Start and Stop, on the main thread *)

Start ==
  /\ at["main"] = "new"
  /\ at' = [worker |-> "loop", main |-> "up"]
  /\ running' = TRUE
  /\ outRunning' = TRUE /\ writer' = "wait"
  /\ UNCHANGED <<ret, command, linkVars, serverVars, hbVars, queue, batch,
                 reports, crashed>>

Stop ==
  /\ at["main"] = "up"
  /\ running' = FALSE
  /\ Call("main", "hbFlag", "outFlag")
  /\ UNCHANGED <<command, linkVars, serverVars, hbVars, outVars, crashed>>

StopOutboundWriter ==
  /\ at["main"] = "outFlag"
  /\ outRunning' = FALSE
  /\ GoTo("main", "outJoin")
  /\ UNCHANGED <<running, ret, command, linkVars, serverVars, hbVars, queue,
                 batch, writer, reports, crashed>>

JoinWriter ==
  /\ at["main"] = "outJoin" /\ writer = "ended"
  /\ GoTo("main", "take")
  /\ UNCHANGED <<running, ret, command, linkVars, serverVars, hbVars, outVars,
                 crashed>>

JoinWorker ==
  /\ at["main"] = "join" /\ at["worker"] = "ended"
  /\ GoTo("main", "stopped")
  /\ UNCHANGED <<running, ret, command, linkVars, serverVars, hbVars, outVars,
                 crashed>>

----------------------------------------------------------------------------
(* StopHeartbeat and CloseSession, called by both threads *)

HeartbeatFlag(x) ==
  /\ at[x] = "hbFlag"
  /\ hbRunning' = FALSE
  /\ GoTo(x, "hbCheck")
  /\ UNCHANGED <<running, ret, command, linkVars, serverVars, hb, joiner,
                 outVars, crashed>>

\* Mutant of HeartbeatJoinable: the heartbeat thread is not joined.
HeartbeatNotJoined(x) ==
  /\ at[x] = "hbCheck"
  /\ GoTo(x, ret[x])
  /\ UNCHANGED <<running, ret, command, linkVars, serverVars, hbVars, outVars,
                 crashed>>

HeartbeatJoinable(x) ==
  /\ at[x] = "hbCheck"
  /\ GoTo(x, IF hb = "none" THEN ret[x] ELSE "hbJoin")
  /\ UNCHANGED <<running, ret, command, linkVars, serverVars, hbVars, outVars,
                 crashed>>

\* join: the second thread to come, and one that finds the thread joined since
\* it looked, gets an exception.
HeartbeatJoin(x) ==
  /\ at[x] = "hbJoin" /\ joiner # x
  /\ IF joiner = "none" /\ hb # "none"
     THEN joiner' = x /\ UNCHANGED crashed
     ELSE crashed' = TRUE /\ UNCHANGED joiner
  /\ UNCHANGED <<running, at, ret, command, linkVars, serverVars, hbRunning, hb,
                 outVars>>

HeartbeatJoined(x) ==
  /\ at[x] = "hbJoin" /\ joiner = x /\ hb = "ended"
  /\ hb' = "none" /\ joiner' = "none"
  /\ GoTo(x, ret[x])
  /\ UNCHANGED <<running, ret, command, linkVars, serverVars, hbRunning,
                 outVars, crashed>>

StopHeartbeat(x) ==
  \/ HeartbeatFlag(x)
  \/ HeartbeatJoinable(x)
  \/ HeartbeatJoin(x)
  \/ HeartbeatJoined(x)

AfterClose(x) == IF x = "worker" THEN "down" ELSE "join"

TakeSession(x) ==
  /\ at[x] = "take"
  /\ session' = FALSE
  /\ GoTo(x, IF session THEN "close" ELSE AfterClose(x))
  /\ UNCHANGED <<running, ret, command, link, serverVars, hbVars, outVars,
                 crashed>>

CloseTaken(x) ==
  /\ at[x] = "close"
  /\ link' = "closed"
  /\ GoTo(x, AfterClose(x))
  /\ UNCHANGED <<running, ret, command, session, serverVars, hbVars, outVars,
                 crashed>>

CloseSession(x) == TakeSession(x) \/ CloseTaken(x)

----------------------------------------------------------------------------
(* Run: connect, start the heartbeat, read, and all over again *)

RunLoop ==
  /\ at["worker"] = "loop"
  /\ GoTo("worker", IF running THEN "connect" ELSE "ended")
  /\ UNCHANGED <<running, ret, command, linkVars, serverVars, hbVars, outVars,
                 crashed>>

\* An exception anywhere under Run.
Throw == Call("worker", "hbFlag", "take")

Connected ==
  /\ at["worker"] = "connect"
  /\ link' = "open" /\ inbox' = <<>> /\ dispatched' = {}
  /\ GoTo("worker", "store")
  /\ UNCHANGED <<running, ret, command, session, heard, hbVars, outVars,
                 crashed>>

NotConnected ==
  /\ at["worker"] = "connect"
  /\ Throw
  /\ UNCHANGED <<running, command, linkVars, serverVars, hbVars, outVars,
                 crashed>>

StoreSession ==
  /\ at["worker"] = "store"
  /\ session' = TRUE
  /\ GoTo("worker", "greet")
  /\ UNCHANGED <<running, ret, command, link, serverVars, hbVars, outVars,
                 crashed>>

\* Mutant of HeartbeatStarts: the flag stays down after the first connection.
HeartbeatStartsOnce ==
  /\ at["worker"] = "hbSet"
  /\ GoTo("worker", "hbSpawn")
  /\ UNCHANGED <<running, ret, command, linkVars, serverVars, hbVars, outVars,
                 crashed>>

HeartbeatStarts ==
  /\ at["worker"] = "hbSet"
  /\ hbRunning' = TRUE
  /\ GoTo("worker", "hbSpawn")
  /\ UNCHANGED <<running, ret, command, linkVars, serverVars, hb, joiner,
                 outVars, crashed>>

\* Assigning to a std::thread that is still joinable terminates the process.
HeartbeatSpawn ==
  /\ at["worker"] = "hbSpawn"
  /\ IF hb = "none"
     THEN hb' = "wait" /\ GoTo("worker", "poll") /\ UNCHANGED crashed
     ELSE crashed' = TRUE /\ UNCHANGED <<hb, at>>
  /\ UNCHANGED <<running, ret, command, linkVars, serverVars, hbRunning,
                 joiner, outVars>>

\* The loop of ReadLoop: back to Run when the worker is stopped.
Poll ==
  /\ at["worker"] = "poll"
  /\ IF running THEN GoTo("worker", "read") /\ UNCHANGED ret ELSE Throw
  /\ UNCHANGED <<running, command, linkVars, serverVars, hbVars, outVars,
                 crashed>>

ReadFails ==
  /\ at["worker"] = "read"
  /\ ~session \/ link \in Dead
  /\ Throw
  /\ UNCHANGED <<running, command, linkVars, serverVars, hbVars, outVars,
                 crashed>>

ReadCommand ==
  /\ at["worker"] = "read"
  /\ session /\ link \notin Dead /\ inbox # <<>>
  /\ command' = Head(inbox) /\ inbox' = Tail(inbox)
  /\ GoTo("worker", "ack")
  /\ UNCHANGED <<running, ret, linkVars, dispatched, heard, hbVars, outVars,
                 crashed>>

----------------------------------------------------------------------------
(* HandleMessage: one step per send *)

\* Step pc sends: the command's status, or only an activity if status is "".
SendOk(pc, status, next) ==
  /\ at["worker"] = pc /\ CanSend
  /\ Written
  /\ heard' = IF link = "open" /\ status # ""
              THEN [heard EXCEPT ![command] = Append(@, status)] ELSE heard
  /\ at' = [at EXCEPT !["worker"] = next]
  /\ UNCHANGED <<running, ret, command, session, inbox, dispatched, hbVars,
                 outVars, crashed>>

SendThrows(pc, caught) ==
  /\ at["worker"] = pc /\ ~CanSend
  /\ IF caught THEN GoTo("worker", "failed") /\ UNCHANGED ret ELSE Throw
  /\ UNCHANGED <<running, command, linkVars, serverVars, hbVars, outVars,
                 crashed>>

\* Connect's greeting, followed by StartHeartbeat.
Greet ==
  \/ /\ at["worker"] = "greet" /\ CanSend
     /\ Written
     /\ Call("worker", "hbFlag", "hbSet")
     /\ UNCHANGED <<running, command, session, serverVars, hbVars, outVars,
                    crashed>>
  \/ SendThrows("greet", FALSE)

\* Mutant of Ack: a command is acknowledged after its result.
AckLast == SendOk("ack", "running", "exec") \/ SendThrows("ack", FALSE)

Ack == SendOk("ack", "ack", "busy") \/ SendThrows("ack", FALSE)
Busy == SendOk("busy", "", "running") \/ SendThrows("busy", FALSE)
Running == SendOk("running", "running", "exec") \/ SendThrows("running", FALSE)

\* ProcessDirect reports its phases, and returns or throws.
ExecReports == SendOk("exec", "", "exec") \/ SendThrows("exec", TRUE)
ExecReturns ==
  /\ at["worker"] = "exec"
  /\ \E next \in {"completed", "failed"} : GoTo("worker", next)
  /\ UNCHANGED <<running, ret, command, linkVars, serverVars, hbVars, outVars,
                 crashed>>

Completed == SendOk("completed", "completed", "idle") \/ SendThrows("completed", TRUE)
Idle == SendOk("idle", "", "poll") \/ SendThrows("idle", TRUE)
Failed == SendOk("failed", "failed", "error") \/ SendThrows("failed", FALSE)
ErrorShown == SendOk("error", "", "poll") \/ SendThrows("error", FALSE)

\* wait_for on reconnect_cv_ ends with its time at the latest.
Reconnect ==
  /\ at["worker"] = "sleep"
  /\ GoTo("worker", "loop")
  /\ UNCHANGED <<running, ret, command, linkVars, serverVars, hbVars, outVars,
                 crashed>>

\* After StopHeartbeat and CloseSession.
PauseOrEnd ==
  /\ at["worker"] = "down"
  /\ GoTo("worker", IF running THEN "sleep" ELSE "ended")
  /\ UNCHANGED <<running, ret, command, linkVars, serverVars, hbVars, outVars,
                 crashed>>

WorkerStep ==
  \/ RunLoop \/ NotConnected \/ StoreSession \/ Greet
  \/ StopHeartbeat("worker") \/ HeartbeatStarts \/ HeartbeatSpawn
  \/ Poll \/ ReadFails \/ ReadCommand
  \/ Ack \/ Busy \/ Running \/ ExecReports \/ ExecReturns
  \/ Completed \/ Idle \/ Failed \/ ErrorShown
  \/ CloseSession("worker") \/ PauseOrEnd \/ Reconnect

MainStep ==
  \/ StopHeartbeat("main") \/ StopOutboundWriter \/ JoinWriter
  \/ CloseSession("main") \/ JoinWorker

----------------------------------------------------------------------------
(* The heartbeat thread *)

HeartbeatEnds ==
  /\ hb = "wait" /\ ~(hbRunning /\ running)
  /\ hb' = "ended"
  /\ UNCHANGED <<running, at, ret, command, linkVars, serverVars, hbRunning,
                 joiner, outVars, crashed>>

HeartbeatDue ==
  /\ hb = "wait" /\ hbRunning /\ running
  /\ hb' = "send"
  /\ UNCHANGED <<running, at, ret, command, linkVars, serverVars, hbRunning,
                 joiner, outVars, crashed>>

HeartbeatSends ==
  /\ hb = "send"
  /\ \/ CanSend /\ Written /\ hb' = "wait"
     \/ ~CanSend /\ hb' = "ended" /\ UNCHANGED link
  /\ UNCHANGED <<running, at, ret, command, session, serverVars, hbRunning,
                 joiner, outVars, crashed>>

HeartbeatStep == HeartbeatEnds \/ HeartbeatDue \/ HeartbeatSends

----------------------------------------------------------------------------
(* Activity reports of the inbound thread, and their writer *)

EnqueueJson(n) == queue' = IF outRunning THEN Append(queue, n) ELSE queue

\* ReportInboundPhase, ReportInboundCompletion.
Report ==
  /\ reports < MaxReports
  /\ reports' = reports + 1
  /\ EnqueueJson(reports + 1)
  /\ UNCHANGED <<running, at, ret, command, linkVars, serverVars, hbVars,
                 outRunning, batch, writer, crashed>>

WriterTakes ==
  /\ writer = "wait" /\ outRunning /\ queue # <<>>
  /\ batch' = queue /\ queue' = <<>>
  /\ writer' = "send"
  /\ UNCHANGED <<running, at, ret, command, linkVars, serverVars, hbVars,
                 outRunning, reports, crashed>>

\* A report whose send fails is dropped.
WriterSends ==
  /\ writer = "send"
  /\ \/ CanSend /\ Written
     \/ ~CanSend /\ UNCHANGED link
  /\ batch' = Tail(batch)
  /\ writer' = IF Len(batch) = 1 THEN "wait" ELSE "send"
  /\ UNCHANGED <<running, at, ret, command, session, serverVars, hbVars,
                 outRunning, queue, reports, crashed>>

WriterEnds ==
  /\ writer = "wait" /\ ~outRunning
  /\ writer' = "ended"
  /\ UNCHANGED <<running, at, ret, command, linkVars, serverVars, hbVars,
                 outRunning, queue, batch, reports, crashed>>

WriterStep == WriterTakes \/ WriterSends \/ WriterEnds

----------------------------------------------------------------------------
(* The server and the network *)

\* The server sends a command it has no result of, once per connection.
Dispatch(c) ==
  /\ link = "open" /\ c \notin dispatched /\ ~Settled(c)
  /\ inbox' = Append(inbox, c)
  /\ dispatched' = dispatched \cup {c}
  /\ heard' = [heard EXCEPT ![c] = <<>>]
  /\ UNCHANGED <<running, at, ret, command, linkVars, hbVars, outVars, crashed>>

\* The peer goes without a word.
PeerGone ==
  /\ link = "open"
  /\ link' = "dying"
  /\ UNCHANGED <<running, at, ret, command, session, serverVars, hbVars,
                 outVars, crashed>>

\* The connection is reset.
Reset ==
  /\ link \in {"open", "dying", "doomed"}
  /\ link' = "broken"
  /\ UNCHANGED <<running, at, ret, command, session, serverVars, hbVars,
                 outVars, crashed>>

\* TCP gives up a link on which data stays unacknowledged.
GiveUp == link = "doomed" /\ Reset

----------------------------------------------------------------------------

Step ==
  \/ Start \/ Stop \/ MainStep
  \/ Connected \/ WorkerStep
  \/ HeartbeatStep \/ Report \/ WriterStep
  \/ \E c \in Commands : Dispatch(c)
  \/ PeerGone \/ Reset

Next == ~crashed /\ Step

\* Threads are scheduled, executions and waits end, and TCP gives up in the end.
\* A server that can be reached again and again is reached.  Nobody has to call
\* Stop, and nothing has to break.
Fairness ==
  /\ WF_vars(~crashed /\ WorkerStep /\ ~(at["worker"] = "exec" /\ at' = at))
  /\ WF_vars(~crashed /\ ExecReturns)
  /\ SF_vars(~crashed /\ Connected)
  /\ WF_vars(~crashed /\ MainStep)
  /\ WF_vars(~crashed /\ HeartbeatStep)
  /\ WF_vars(~crashed /\ WriterStep)
  /\ WF_vars(~crashed /\ GiveUp)

Spec == Init /\ [][Next]_vars
FairSpec == Spec /\ Fairness

----------------------------------------------------------------------------
(* Properties *)

\* The server hears of a command in order and never of two ends (sends that fail
\* between completed and failed are what could do it), and the worker does not
\* wait for the next command before the last one has its end.
CommandsAreAnswered ==
  /\ \A c \in Commands : \E end \in {"completed", "failed"} :
       IsPrefix(heard[c], Whole(end))
  /\ at["worker"] = "read" /\ link = "open" =>
       \A c \in dispatched : Settled(c) \/ Contains(inbox, c)

\* No loss of a connection ends the process: the heartbeat thread is joined
\* before the next one is started.  Only a Stop can meet Run in the same join.
OnlyStopTerminates == crashed => ~running

\* A worker that is not stopped comes back from every loss of its connection,
\* the silent ones too: the heartbeat writes, and so they are noticed.
ComesBack == (link \in {"dying", "broken"}) ~> (link = "open" \/ ~running)

=============================================================================
