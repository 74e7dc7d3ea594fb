---------------------------- MODULE TaskRuntime ----------------------------
(***************************************************************************)
(* The task runtime of the gateway (src/task/task_runtime.cpp): one poll   *)
(* loop per auto-claiming local agent takes tasks from the relay server,   *)
(* a thread pool executes them through the agent, a detached watchdog      *)
(* thread bounds each execution, and the inbound thread of the agent       *)
(* registry turns a user's reply into the resumption of a task that asked  *)
(* a question.                                                             *)
(*                                                                         *)
(* Threads: poll loop of each agent (poll, offer), worker executing task t *)
(* (exec[t], asked[t]), watchdog of task t (wd[t]), inbound thread (the    *)
(* variables whose names begin with inb).                                  *)
(* A step of the model is a critical section of the runtime's mutex_, one  *)
(* HTTP call, or the entry to or the return from a ProcessDirect call.     *)
(***************************************************************************)
EXTENDS Naturals, Sequences, FiniteSets

CONSTANTS
  Agents,     \* local agents the relay manages with autoClaimTasks
  Tasks,      \* task ids at the relay server
  Chats,      \* pairs (channel instance, chat id) a user can write in
  AgentOf,    \* the agent whose queue at the server holds the task
  None,       \* absence: no task, no chat, no waiting record
  Unnamed,    \* a waiting record whose task_id is empty
  PoolSize,   \* max(1, maxConcurrentTasks)
  TimeoutOn,  \* taskTimeoutS > 0
  Lossy,      \* a call to the server, or the answer to it, can be lost
  MaxMsgs,    \* bound: inbound messages in a behaviour
  MaxStarts   \* bound: starts of the process in a behaviour

ASSUME RuntimeAssumption ==
  /\ AgentOf \in [Tasks -> Agents]
  /\ None \notin Tasks \cup Chats \cup Agents
  /\ Unnamed \notin Tasks \cup {None}
  /\ PoolSize \in Nat \ {0}
  /\ TimeoutOn \in BOOLEAN
  /\ Lossy \in BOOLEAN
  /\ MaxMsgs \in Nat
  /\ MaxStarts \in Nat

VARIABLES
  phase,     \* the process: down, starting (TaskRuntime::Start is to come), up,
             \* stopping (running_ = false), stopped
  starts,    \* how often the process was started
  server,    \* status of each task as the relay server knows it
  poll,      \* poll loop of each agent: where it is
  offer,     \* task the poll loop was handed and has not yet submitted
  active,    \* active_tasks_
  claimed,   \* claimed_task_ids_
  waiting,   \* waiting_tasks_: key -> task id of the record
  disk,      \* the waiting tasks file
  queue,     \* tasks_ of the thread pool
  exec,      \* ExecuteClaimedTask of each task: where it is
  asked,     \* chat of the last question ExecuteClaimedTask observed
  wd,        \* watchdog of each task: where it is
  msgs,      \* inbound messages so far
  inbPc,     \* the inbound thread: where it is
  inbAgent,  \* ... agent of the message it handles
  inbChat,   \* ... chat of the message it handles
  inbTask,   \* ... task id of the record the message resumes
  inbAsked   \* ... chat of the last question the resumed run observed

pollVars == <<poll, offer>>
execVars == <<queue, exec, asked>>
inbVars  == <<msgs, inbPc, inbAgent, inbChat, inbTask, inbAsked>>
recVars  == <<waiting, disk>>
procVars == <<phase, starts>>
vars == <<phase, starts, server, poll, offer, active, claimed, waiting, disk,
          queue, exec, asked, wd, msgs, inbPc, inbAgent, inbChat, inbTask,
          inbAsked>>

Keys == Agents \X Chats

ServerStatus ==
  {"queued", "claimed", "running", "waiting_user", "completed", "failed"}

PollPc == {"check", "claim", "offered", "submit", "sleep", "stopped", "down"}

ExecPc ==
  {"none", "queued", "claiming", "starting", "preparing", "cloneFailed",
   "ready", "direct", "returned", "waitStored", "verifying", "passed",
   "rejected", "completing", "failing", "done"}

WdPc == {"off", "sleep", "grace", "report", "over"}

InbPc ==
  {"idle", "chat", "chatDirect", "resume", "resumeReady", "resumeDirect",
   "resumeReturned", "resumeVerify", "observe"}

\* A worker of the pool is occupied by ExecuteClaimedTask(t).
Busy(t) == exec[t] \notin {"none", "queued", "done"}

\* The inbound thread is inside TryResumeWaitingTask for task t.
Resuming(t) == inbTask = t

\* process_mutex_ of agent a is not held.
ProcessFree(a) ==
  /\ \A t \in Tasks : exec[t] \in {"direct", "verifying"} => AgentOf[t] # a
  /\ inbPc \in {"chatDirect", "resumeDirect", "resumeVerify"} => inbAgent # a

\* Mutant of HasPending: active_tasks_ is not looked at.
HasPendingRecord(a) == \E c \in Chats : waiting[<<a, c>>] # None

\* HasPendingTaskForLocalAgent.
HasPending(a) ==
  \/ active[a] # None
  \/ \E c \in Chats : waiting[<<a, c>>] # None

\* UpdateTaskStatus: the status is stored, or the call fails and the failure
\* is only logged. An update without a task id is refused.
Report(t, status) ==
  \/ t \in Tasks /\ server' = [server EXCEPT ![t] = status]
  \/ (Lossy \/ t \notin Tasks) /\ UNCHANGED server

\* SaveState, called by every change of waiting_tasks_ under mutex_.
SaveState == disk' = waiting'

\* A record is looked up, erased and saved; without a record nothing is saved.
EraseRecord(k) ==
  IF waiting[k] = None
  THEN UNCHANGED recVars
  ELSE waiting' = [waiting EXCEPT ![k] = None] /\ SaveState

ExecStep(t, from, to) ==
  /\ exec[t] = from
  /\ exec' = [exec EXCEPT ![t] = to]

\* Mutant of ClearActiveTask: the mark is left behind.
KeepActiveTask(t) == t \in Tasks /\ UNCHANGED active

\* ClearActiveTask erases the mark of the agent, whatever task it names.
ClearActiveTask(t) == active' = [active EXCEPT ![AgentOf[t]] = None]

InbStep(from, to) == inbPc = from /\ inbPc' = to

----------------------------------------------------------------------------
Init ==
  /\ phase = "starting"
  /\ starts = 1
  /\ server = [t \in Tasks |-> "queued"]
  /\ poll = [a \in Agents |-> "down"]
  /\ offer = [a \in Agents |-> None]
  /\ active = [a \in Agents |-> None]
  /\ claimed = {}
  /\ waiting = [k \in Keys |-> None]
  /\ disk = [k \in Keys |-> None]
  /\ queue = <<>>
  /\ exec = [t \in Tasks |-> "none"]
  /\ asked = [t \in Tasks |-> None]
  /\ wd = [t \in Tasks |-> "off"]
  /\ msgs = 0
  /\ inbPc = "idle"
  /\ inbAgent = None
  /\ inbChat = None
  /\ inbTask = None
  /\ inbAsked = None

----------------------------------------------------------------------------
(* AgentPollLoop *)

\* Mutant of PollCheck: running_ is not looked at.
PollCheckForever(a) ==
  /\ poll[a] = "check"
  /\ poll' = [poll EXCEPT ![a] = IF HasPending(a) THEN "sleep" ELSE "claim"]
  /\ UNCHANGED <<procVars, server, offer, active, claimed, recVars, execVars,
                 wd, inbVars>>

\* while (running_) and HasPendingTaskForLocalAgent, under mutex_.
PollCheck(a) ==
  /\ poll[a] = "check"
  /\ poll' = [poll EXCEPT ![a] =
       IF phase # "up" THEN "stopped"
       ELSE IF HasPending(a) THEN "sleep" ELSE "claim"]
  /\ UNCHANGED <<procVars, server, offer, active, claimed, recVars, execVars,
                 wd, inbVars>>

\* claim-next answers with a task: one that is queued, or again the one the
\* server holds as claimed by this agent.
ClaimFound(a, t) ==
  /\ poll[a] = "claim"
  /\ AgentOf[t] = a
  /\ server[t] \in {"queued", "claimed"}
  /\ server' = [server EXCEPT ![t] = "claimed"]
  /\ offer' = [offer EXCEPT ![a] = t]
  /\ poll' = [poll EXCEPT ![a] = "offered"]
  /\ UNCHANGED <<procVars, active, claimed, recVars, execVars, wd, inbVars>>

\* claim-next finds nothing, or fails.
ClaimNothing(a) ==
  /\ poll[a] = "claim"
  /\ poll' = [poll EXCEPT ![a] = "sleep"]
  /\ UNCHANGED <<procVars, server, offer, active, claimed, recVars, execVars,
                 wd, inbVars>>

\* The server assigns a task but its answer is lost; the HTTP layer sends the
\* same request again.
ClaimAnswerLost(a, t) ==
  /\ Lossy
  /\ poll[a] = "claim"
  /\ AgentOf[t] = a
  /\ server[t] = "queued"
  /\ server' = [server EXCEPT ![t] = "claimed"]
  /\ UNCHANGED <<procVars, pollVars, active, claimed, recVars, execVars, wd,
                 inbVars>>

\* A task claimed before in this run of the process is skipped, and the loop
\* starts over without its sleep.
SkipClaimed(a) ==
  /\ poll[a] = "offered"
  /\ offer[a] \in claimed
  /\ offer' = [offer EXCEPT ![a] = None]
  /\ poll' = [poll EXCEPT ![a] = "check"]
  /\ UNCHANGED <<procVars, server, active, claimed, recVars, execVars, wd,
                 inbVars>>

\* Mutant of RecordClaim: claimed_task_ids_ is not looked at.
RecordClaimAgain(a) ==
  /\ poll[a] = "offered"
  /\ active' = [active EXCEPT ![a] = offer[a]]
  /\ claimed' = claimed \cup {offer[a]}
  /\ poll' = [poll EXCEPT ![a] = "submit"]
  /\ UNCHANGED waiting /\ SaveState
  /\ UNCHANGED <<procVars, server, offer, execVars, wd, inbVars>>

RecordClaim(a) ==
  /\ poll[a] = "offered"
  /\ offer[a] \notin claimed
  /\ active' = [active EXCEPT ![a] = offer[a]]
  /\ claimed' = claimed \cup {offer[a]}
  /\ poll' = [poll EXCEPT ![a] = "submit"]
  /\ UNCHANGED waiting /\ SaveState
  /\ UNCHANGED <<procVars, server, offer, execVars, wd, inbVars>>

SubmitClaim(a) ==
  /\ poll[a] = "submit"
  /\ queue' = Append(queue, offer[a])
  /\ exec' = [exec EXCEPT ![offer[a]] = "queued"]
  /\ offer' = [offer EXCEPT ![a] = None]
  /\ poll' = [poll EXCEPT ![a] = "sleep"]
  /\ UNCHANGED <<procVars, server, active, claimed, recVars, asked, wd,
                 inbVars>>

PollWake(a) ==
  /\ poll[a] = "sleep"
  /\ poll' = [poll EXCEPT ![a] = "check"]
  /\ UNCHANGED <<procVars, server, offer, active, claimed, recVars, execVars,
                 wd, inbVars>>

----------------------------------------------------------------------------
(* ExecuteClaimedTask on a worker of the pool *)

\* Mutant of TakeFromPool: one worker too few.
TakeOneFewer ==
  /\ queue # <<>>
  /\ Cardinality({t \in Tasks : Busy(t)}) + 1 < PoolSize
  /\ queue' = Tail(queue)
  /\ exec' = [exec EXCEPT ![Head(queue)] = "claiming"]
  /\ UNCHANGED <<procVars, server, pollVars, active, claimed, recVars, asked,
                 wd, inbVars>>

TakeFromPool ==
  /\ queue # <<>>
  /\ Cardinality({t \in Tasks : Busy(t)}) < PoolSize
  /\ queue' = Tail(queue)
  /\ exec' = [exec EXCEPT ![Head(queue)] = "claiming"]
  /\ UNCHANGED <<procVars, server, pollVars, active, claimed, recVars, asked,
                 wd, inbVars>>

ReportClaimed(t) ==
  /\ ExecStep(t, "claiming", "starting")
  /\ Report(t, "claimed")
  /\ UNCHANGED <<procVars, pollVars, active, claimed, recVars, queue, asked,
                 wd, inbVars>>

ReportRunning(t) ==
  /\ ExecStep(t, "starting", "preparing")
  /\ Report(t, "running")
  /\ UNCHANGED <<procVars, pollVars, active, claimed, recVars, queue, asked,
                 wd, inbVars>>

\* git clone left no repository: failed is reported before the mark goes.
CloneFails(t) ==
  /\ ExecStep(t, "preparing", "cloneFailed")
  /\ Report(t, "failed")
  /\ UNCHANGED <<procVars, pollVars, active, claimed, recVars, queue, asked,
                 wd, inbVars>>

ClearAfterClone(t) ==
  /\ ExecStep(t, "cloneFailed", "done")
  /\ ClearActiveTask(t)
  /\ UNCHANGED <<procVars, server, pollVars, claimed, recVars, queue, asked,
                 wd, inbVars>>

\* The repository is ready or the task needs none; the watchdog starts.
Prepared(t) ==
  /\ ExecStep(t, "preparing", "ready")
  /\ wd' = [wd EXCEPT ![t] = IF TimeoutOn THEN "sleep" ELSE "off"]
  /\ UNCHANGED <<procVars, server, pollVars, active, claimed, recVars, queue,
                 asked, inbVars>>

EnterDirect(t) ==
  /\ ProcessFree(AgentOf[t])
  /\ ExecStep(t, "ready", "direct")
  /\ UNCHANGED <<procVars, server, pollVars, active, claimed, recVars, queue,
                 asked, wd, inbVars>>

\* observer: a phase of the run is reported as running.
ReportPhase(t) ==
  /\ exec[t] = "direct"
  /\ Report(t, "running")
  /\ UNCHANGED <<procVars, pollVars, active, claimed, recVars, execVars, wd,
                 inbVars>>

\* outbound_observer: send_message asked the user something in chat c.
AskUser(t, c) ==
  /\ exec[t] = "direct"
  /\ asked' = [asked EXCEPT ![t] = c]
  /\ UNCHANGED <<procVars, server, pollVars, active, claimed, recVars, queue,
                 exec, wd, inbVars>>

DirectReturns(t) ==
  /\ ExecStep(t, "direct", "returned")
  /\ UNCHANGED <<procVars, server, pollVars, active, claimed, recVars, queue,
                 asked, wd, inbVars>>

\* ProcessDirect throws: on the cancel token, or on an error of its own.
DirectThrows(t) ==
  /\ ExecStep(t, "direct", "rejected")
  /\ UNCHANGED <<procVars, server, pollVars, active, claimed, recVars, queue,
                 asked, wd, inbVars>>

\* The run ended on a question: one critical section stores the record,
\* erases the mark of the agent and saves.
StoreWaiting(t) ==
  /\ asked[t] # None
  /\ ExecStep(t, "returned", "waitStored")
  /\ waiting' = [waiting EXCEPT ![<<AgentOf[t], asked[t]>>] = t]
  /\ ClearActiveTask(t)
  /\ SaveState
  /\ UNCHANGED <<procVars, server, pollVars, claimed, queue, asked, wd,
                 inbVars>>

ReportWaiting(t) ==
  /\ ExecStep(t, "waitStored", "done")
  /\ Report(t, "waiting_user")
  /\ asked' = [asked EXCEPT ![t] = None]
  /\ UNCHANGED <<procVars, pollVars, active, claimed, recVars, queue, wd,
                 inbVars>>

\* Commit, push and merge request, then the verifier's ProcessDirect.
EnterVerify(t) ==
  /\ asked[t] = None
  /\ ProcessFree(AgentOf[t])
  /\ ExecStep(t, "returned", "verifying")
  /\ UNCHANGED <<procVars, server, pollVars, active, claimed, recVars, queue,
                 asked, wd, inbVars>>

\* No execution log, or an exception on the way to the verifier: the task
\* counts as verified.
SkipVerify(t) ==
  /\ asked[t] = None
  /\ ExecStep(t, "returned", "passed")
  /\ UNCHANGED <<procVars, server, pollVars, active, claimed, recVars, queue,
                 asked, wd, inbVars>>

Verdict(t) ==
  /\ \/ ExecStep(t, "verifying", "passed")
     \/ ExecStep(t, "verifying", "rejected")
  /\ UNCHANGED <<procVars, server, pollVars, active, claimed, recVars, queue,
                 asked, wd, inbVars>>

ClearActive(t) ==
  /\ \/ ExecStep(t, "passed", "completing")
     \/ ExecStep(t, "rejected", "failing")
  /\ ClearActiveTask(t)
  /\ UNCHANGED <<procVars, server, pollVars, claimed, recVars, queue, asked,
                 wd, inbVars>>

ReportOutcome(t) ==
  /\ \/ ExecStep(t, "completing", "done") /\ Report(t, "completed")
     \/ ExecStep(t, "failing", "done") /\ Report(t, "failed")
  /\ asked' = [asked EXCEPT ![t] = None]
  /\ UNCHANGED <<procVars, pollVars, active, claimed, recVars, queue, wd,
                 inbVars>>

----------------------------------------------------------------------------
(* The watchdog of an execution. It holds references to two locals of      *)
(* ExecuteClaimedTask, so what it reads of finished once the function has  *)
(* returned is arbitrary.                                                  *)

WatchdogStops(t) ==
  /\ wd[t] \in {"sleep", "grace"}
  /\ exec[t] = "done"
  /\ wd' = [wd EXCEPT ![t] = "over"]
  /\ UNCHANGED <<procVars, server, pollVars, active, claimed, recVars,
                 execVars, inbVars>>

WatchdogCancels(t) ==
  /\ wd[t] = "sleep"
  /\ wd' = [wd EXCEPT ![t] = "grace"]
  /\ UNCHANGED <<procVars, server, pollVars, active, claimed, recVars,
                 execVars, inbVars>>

\* Mutant of WatchdogAbandons: the agent keeps its mark.
WatchdogOnlyReports(t) ==
  /\ wd[t] = "grace"
  /\ wd' = [wd EXCEPT ![t] = "report"]
  /\ UNCHANGED <<procVars, server, pollVars, active, claimed, recVars,
                 execVars, inbVars>>

WatchdogAbandons(t) ==
  /\ wd[t] = "grace"
  /\ wd' = [wd EXCEPT ![t] = "report"]
  /\ ClearActiveTask(t)
  /\ UNCHANGED <<procVars, server, pollVars, claimed, recVars, execVars,
                 inbVars>>

WatchdogReports(t) ==
  /\ wd[t] = "report"
  /\ wd' = [wd EXCEPT ![t] = "over"]
  /\ Report(t, "failed")
  /\ UNCHANGED <<procVars, pollVars, active, claimed, recVars, execVars,
                 inbVars>>

----------------------------------------------------------------------------
(* The inbound thread: AgentRegistry::HandleInbound with TryResumeWaitingTask *)
(* as its interceptor and ObserveInboundResult as its post-processor.       *)

\* Mutant of Intercept: the record stays until the resumption is over.
InterceptKeeping(a, c) ==
  /\ phase # "down"
  /\ msgs < MaxMsgs
  /\ msgs' = msgs + 1
  /\ inbAgent' = a
  /\ inbChat' = c
  /\ inbTask' = waiting[<<a, c>>]
  /\ InbStep("idle", IF waiting[<<a, c>>] = None THEN "chat" ELSE "resume")
  /\ UNCHANGED recVars
  /\ UNCHANGED <<procVars, server, pollVars, active, claimed, execVars, wd,
                 inbAsked>>

\* Mutant of Intercept: the erased record is not saved.
InterceptUnsaved(a, c) ==
  /\ phase # "down"
  /\ msgs < MaxMsgs
  /\ msgs' = msgs + 1
  /\ inbAgent' = a
  /\ inbChat' = c
  /\ inbTask' = waiting[<<a, c>>]
  /\ InbStep("idle", IF waiting[<<a, c>>] = None THEN "chat" ELSE "resume")
  /\ waiting' = [waiting EXCEPT ![<<a, c>>] = None]
  /\ UNCHANGED disk
  /\ UNCHANGED <<procVars, server, pollVars, active, claimed, execVars, wd,
                 inbAsked>>

\* A message of chat c for agent a: its waiting record, if any, is taken out
\* and saved before anything else happens.
Intercept(a, c) ==
  /\ phase # "down"
  /\ msgs < MaxMsgs
  /\ msgs' = msgs + 1
  /\ inbAgent' = a
  /\ inbChat' = c
  /\ inbTask' = waiting[<<a, c>>]
  /\ InbStep("idle", IF waiting[<<a, c>>] = None THEN "chat" ELSE "resume")
  /\ EraseRecord(<<a, c>>)
  /\ UNCHANGED <<procVars, server, pollVars, active, claimed, execVars, wd,
                 inbAsked>>

ResumeReportRunning ==
  /\ InbStep("resume", "resumeReady")
  /\ Report(inbTask, "running")
  /\ UNCHANGED <<procVars, pollVars, active, claimed, recVars, execVars, wd,
                 msgs, inbAgent, inbChat, inbTask, inbAsked>>

\* ProcessMessage, ProcessDirect of the resumption, and the verifier's.
InbEnter ==
  /\ ProcessFree(inbAgent)
  /\ \/ InbStep("chat", "chatDirect")
     \/ InbStep("resumeReady", "resumeDirect")
     \/ inbAsked = None /\ InbStep("resumeReturned", "resumeVerify")
  /\ UNCHANGED <<procVars, server, pollVars, active, claimed, recVars,
                 execVars, wd, msgs, inbAgent, inbChat, inbTask, inbAsked>>

ResumeAsks(c) ==
  /\ inbPc = "resumeDirect"
  /\ inbAsked' = c
  /\ UNCHANGED <<procVars, server, pollVars, active, claimed, recVars,
                 execVars, wd, msgs, inbPc, inbAgent, inbChat, inbTask>>

InbReturns ==
  /\ \/ InbStep("chatDirect", "observe")
     \/ InbStep("resumeDirect", "resumeReturned")
  /\ UNCHANGED <<procVars, server, pollVars, active, claimed, recVars,
                 execVars, wd, msgs, inbAgent, inbChat, inbTask, inbAsked>>

\* The resumed run asked again: record and report under one hold of mutex_.
\* The caller sees an unfinished resumption and goes on to its reply.
StoreWaitingAgain ==
  /\ inbAsked # None
  /\ InbStep("resumeReturned", "observe")
  /\ waiting' = [waiting EXCEPT ![<<inbAgent, inbAsked>>] = inbTask]
  /\ SaveState
  /\ Report(inbTask, "waiting_user")
  /\ inbTask' = None
  /\ inbAsked' = None
  /\ UNCHANGED <<procVars, pollVars, active, claimed, execVars, wd, msgs,
                 inbAgent, inbChat>>

\* The verdict on the resumed run, reported as completed or failed; without
\* a verdict (no log, an exception) the run counts as completed.
ResumeReportOutcome ==
  /\ \/ InbStep("resumeVerify", "observe")
     \/ inbAsked = None /\ InbStep("resumeReturned", "observe")
  /\ \/ Report(inbTask, "completed")
     \/ inbPc = "resumeVerify" /\ Report(inbTask, "failed")
  /\ inbTask' = None
  /\ UNCHANGED <<procVars, pollVars, active, claimed, recVars, execVars, wd,
                 msgs, inbAgent, inbChat, inbAsked>>

\* ObserveInboundResult on the reply: a reply that asks something stores a
\* record without a task id (UpsertWaitingTask), any other erases the record
\* of the chat (ClearWaitingTask).
ObserveReply ==
  /\ InbStep("observe", "idle")
  /\ \/ /\ waiting' = [waiting EXCEPT ![<<inbAgent, inbChat>>] = Unnamed]
        /\ SaveState
     \/ EraseRecord(<<inbAgent, inbChat>>)
  /\ inbAgent' = None
  /\ inbChat' = None
  /\ UNCHANGED <<procVars, server, pollVars, active, claimed, execVars, wd,
                 msgs, inbTask, inbAsked>>

----------------------------------------------------------------------------
(* The process *)

\* Stop: running_ = false; the poll loops are joined.
StopRequested ==
  /\ phase = "up"
  /\ phase' = "stopping"
  /\ UNCHANGED <<starts, server, pollVars, active, claimed, recVars, execVars,
                 wd, inbVars>>

\* Stop: the pool has executed what it held and joined its workers.
StopReturns ==
  /\ phase = "stopping"
  /\ \A a \in Agents : poll[a] = "stopped"
  /\ queue = <<>>
  /\ \A t \in Tasks : ~Busy(t)
  /\ phase' = "stopped"
  /\ UNCHANGED waiting /\ SaveState
  /\ UNCHANGED <<starts, server, pollVars, active, claimed, execVars, wd,
                 inbVars>>

\* The process ends: after Stop, or at any moment (a signal, a crash, the
\* guard thread of the shutdown). What is left is the file and the server.
ProcessEnds ==
  /\ phase # "down"
  /\ phase = "stopped" \/ starts < MaxStarts
  /\ phase' = "down"
  /\ poll' = [a \in Agents |-> "down"]
  /\ offer' = [a \in Agents |-> None]
  /\ active' = [a \in Agents |-> None]
  /\ claimed' = {}
  /\ waiting' = [k \in Keys |-> None]
  /\ queue' = <<>>
  /\ exec' = [t \in Tasks |-> "none"]
  /\ asked' = [t \in Tasks |-> None]
  /\ wd' = [t \in Tasks |-> "off"]
  /\ inbPc' = "idle"
  /\ inbAgent' = None
  /\ inbChat' = None
  /\ inbTask' = None
  /\ inbAsked' = None
  /\ UNCHANGED <<starts, server, disk, msgs>>

\* The gateway starts the inbound thread and the channels first, ...
ProcessStarts ==
  /\ phase = "down"
  /\ starts < MaxStarts
  /\ phase' = "starting"
  /\ starts' = starts + 1
  /\ UNCHANGED <<server, pollVars, active, claimed, recVars, execVars, wd,
                 inbVars>>

\* ... and then the runtime: LoadState forgets what is in memory and reads the
\* file, and the poll loops begin.
RuntimeStarts ==
  /\ phase = "starting"
  /\ phase' = "up"
  /\ active' = [a \in Agents |-> None]
  /\ claimed' = {}
  /\ waiting' = disk
  /\ poll' = [a \in Agents |-> "check"]
  /\ UNCHANGED <<starts, server, offer, disk, execVars, wd, inbVars>>

----------------------------------------------------------------------------
PollNext(a) ==
  \/ PollCheck(a) \/ ClaimNothing(a) \/ SkipClaimed(a) \/ RecordClaim(a)
  \/ SubmitClaim(a) \/ PollWake(a)
  \/ \E t \in Tasks : ClaimFound(a, t) \/ ClaimAnswerLost(a, t)

ExecNext(t) ==
  \/ ReportClaimed(t) \/ ReportRunning(t) \/ CloneFails(t)
  \/ ClearAfterClone(t) \/ Prepared(t) \/ EnterDirect(t) \/ ReportPhase(t)
  \/ DirectReturns(t) \/ DirectThrows(t) \/ StoreWaiting(t)
  \/ ReportWaiting(t) \/ EnterVerify(t) \/ SkipVerify(t) \/ Verdict(t)
  \/ ClearActive(t) \/ ReportOutcome(t)
  \/ \E c \in Chats : AskUser(t, c)

WdNext(t) ==
  \/ WatchdogStops(t) \/ WatchdogCancels(t) \/ WatchdogAbandons(t)
  \/ WatchdogReports(t)

InbNext ==
  \/ ResumeReportRunning \/ InbEnter \/ InbReturns \/ StoreWaitingAgain
  \/ ResumeReportOutcome \/ ObserveReply
  \/ \E c \in Chats : ResumeAsks(c)
  \/ \E a \in Agents, c \in Chats : Intercept(a, c)

ProcessNext ==
  \/ StopRequested \/ StopReturns \/ ProcessEnds \/ ProcessStarts
  \/ RuntimeStarts

Next ==
  \/ \E a \in Agents : PollNext(a)
  \/ TakeFromPool
  \/ \E t \in Tasks : ExecNext(t) \/ WdNext(t)
  \/ InbNext
  \/ ProcessNext

Spec == Init /\ [][Next]_vars

----------------------------------------------------------------------------
(* Properties *)

\* Every variable keeps its type, through crashes and restarts.
TypeOK ==
  /\ phase \in {"down", "starting", "up", "stopping", "stopped"}
  /\ starts \in Nat
  /\ server \in [Tasks -> ServerStatus]
  /\ poll \in [Agents -> PollPc]
  /\ offer \in [Agents -> Tasks \cup {None}]
  /\ active \in [Agents -> Tasks \cup {None}]
  /\ claimed \in SUBSET Tasks
  /\ waiting \in [Keys -> Tasks \cup {None, Unnamed}]
  /\ disk \in [Keys -> Tasks \cup {None, Unnamed}]
  /\ queue \in Seq(Tasks)
  /\ exec \in [Tasks -> ExecPc]
  /\ asked \in [Tasks -> Chats \cup {None}]
  /\ wd \in [Tasks -> WdPc]
  /\ msgs \in Nat
  /\ inbPc \in InbPc
  /\ inbAgent \in Agents \cup {None}
  /\ inbChat \in Chats \cup {None}
  /\ inbTask \in Tasks \cup {None, Unnamed}
  /\ inbAsked \in Chats \cup {None}

\* From the claim to the point where the runtime gives the task back: the
\* part of a claim and its execution that the mark in active_tasks_ covers.
UnderExecution(t) ==
  \/ poll[AgentOf[t]] = "submit" /\ offer[AgentOf[t]] = t
  \/ exec[t] \in {"queued", "claiming", "starting", "preparing",
                   "cloneFailed", "ready", "direct", "returned",
                   "verifying", "passed", "rejected"}

RecordKeys(t) == {k \in Keys : waiting[k] = t}

\* A task the poll loop queued or started stays marked as its agent's active
\* task until the runtime gives it up, so that no second task of the agent is
\* under execution next to it (without timeouts).
ActiveMarksExecution ==
  \A t \in Tasks : UnderExecution(t) => active[AgentOf[t]] = t

\* The mark never outlives the execution it stands for: a mark left behind
\* would make HasPendingTaskForLocalAgent true for good and the agent would
\* never claim again.
NoStuckMark ==
  \A a \in Agents : active[a] # None =>
    AgentOf[active[a]] = a /\ UnderExecution(active[a])

\* A task is in one place only: under execution, being resumed by the inbound
\* thread, or in one waiting record, whatever the interleaving of replies,
\* claims and restarts.
OneCustodian ==
  \A t \in Tasks :
    /\ \A k, l \in RecordKeys(t) : k = l
    /\ UnderExecution(t) => ~Resuming(t) /\ RecordKeys(t) = {}
    /\ Resuming(t) => RecordKeys(t) = {}

\* Once loaded, the records on disk are those in memory whenever mutex_ is
\* free: what a crash leaves is what LoadState restores.
RecordsSaved == phase \notin {"down", "starting"} => disk = waiting

\* One run of the process executes a task id at most once, although the
\* server may hand it out again (claimed_task_ids_).
ExecutedOnce ==
  [][\A t \in Tasks : exec'[t] = "queued" => exec[t] \in {"none", "queued"}]_vars

\* The verdict the server was told stands: nothing but a waiting_user report
\* overtaken by the user's reply can still follow it (without timeouts).
OutcomeIsSettled ==
  [][\A t \in Tasks : server[t] \in {"completed", "failed"} =>
       server'[t] \in {server[t], "waiting_user"}]_vars

\* Where a task is, for the abstract specification. Waiting tasks are those
\* on disk, which a crash leaves alone.
Custody(t) ==
  IF UnderExecution(t) THEN "executing"
  ELSE IF Resuming(t) THEN "resuming"
  ELSE IF \E k \in Keys : disk[k] = t THEN "waiting"
  ELSE "idle"

\* The runtime implements TaskCustody: whatever the threads do, a task changes
\* hands only in the ways listed there, and an agent never executes a second
\* task next to one under execution (without timeouts and lost calls).
TC == INSTANCE TaskCustody WITH custody <- [t \in Tasks |-> Custody(t)]
ImplementsCustody == TC!Spec

----------------------------------------------------------------------------
(* Fairness. Every thread keeps running: the poll loops, the workers, the  *)
(* watchdogs and the inbound thread are never suspended for ever, and the  *)
(* server answers or the call fails. FairSpec adds that a ProcessDirect    *)
(* call returns: its loop is bounded by max_iterations. HangingSpec does   *)
(* not: a tool or a model call may block for ever. Nothing forces a user   *)
(* to write, a task to be offered or the process to stop.                  *)

Threads ==
  /\ \A a \in Agents : WF_vars(PollNext(a))
  /\ WF_vars(TakeFromPool)
  /\ WF_vars(RuntimeStarts)
  /\ \A t \in Tasks :
       /\ WF_vars(ExecNext(t) /\ exec'[t] # exec[t]
                  /\ exec[t] \notin {"direct", "verifying"})
       /\ WF_vars(WdNext(t))

CallsReturn ==
  /\ \A t \in Tasks : WF_vars(DirectReturns(t)) /\ WF_vars(Verdict(t))
  /\ WF_vars(InbNext /\ inbPc' # inbPc /\ inbPc # "idle")
  /\ WF_vars(StopReturns)

FairSpec == Spec /\ Threads /\ CallsReturn
HangingSpec == Spec /\ Threads

\* A task handed to the pool is executed to its end, unless the process ends.
QueuedIsExecuted ==
  \A t \in Tasks : exec[t] = "queued" ~> exec[t] \in {"done", "none"}

\* Stop() returns: the poll loops end and the pool drains.
StopTerminates == phase = "stopping" ~> phase # "stopping"

\* With timeouts, an agent gets rid of its active task even when the call
\* that executes it never returns (as long as a worker is left to start it).
AbandonedAgentIsFreed ==
  \A t \in Tasks : active[AgentOf[t]] = t ~> active[AgentOf[t]] # t
=============================================================================
