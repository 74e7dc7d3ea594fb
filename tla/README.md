# TLA+ models of the kabot gateway

kabot is a multi-agent gateway written in C++17. Chat channels (Telegram, Lark,
QQ, Weixin) put users' messages on a message bus, agents answer them with a
language model and tools, a relay server hands tasks to the agents, and timers
start work of their own. Nearly every part has a thread, and the hard part of
the program is what those threads do to each other: who holds a task, which
reply resumes it, whose copy of a session is saved last, what survives a
restart, and whether a stop ends.

This directory holds TLA+ modules translated from the source, TLC configurations
that check them on small instances, and theorems checked by TLAPS for every
value of the constants. `PROJECT.json` maps every definition to the lines it
models, and lists the runs, the hazards each property is aimed at, a mutant of
the code per property that the property must catch, and the theorems.

Paths in this file are those of the repository below `src/` (so
`src/task/task_runtime.cpp` is `src/src/task/task_runtime.cpp` in
`PROJECT.json`).

## How to run it

    tlc -config MCTaskRuntime_core.cfg MCTaskRuntime.tla     # also _faults, _live
    tlc -config ThreadPool_pool.cfg ThreadPool.tla
    tlc -config MCDelivery_bus.cfg MCDelivery.tla
    tlc -config MCCron_cron.cfg MCCron.tla
    tlc -config MCAgentLoop_turns.cfg MCAgentLoop.tla        # also _first_message
    tlc -config MCRelay_relay.cfg MCRelay.tla
    tlc -config MCChannels_channels.cfg MCChannels.tla
    tlc -config MCGateway_gateway.cfg MCGateway.tla
    tlc -config QQBot_clean_stop.cfg QQBot.tla

    tlapm TaskRuntimeProofs.tla     # task runtime and its refinement of TaskCustody
    tlapm GatewayProofs.tla         # configuration, gateway, daily summary, thread pool
    tlapm DeliveryProofs.tla
    tlapm AgentLoopProofs.tla
    tlapm CronProofs.tla
    tlapm RelayProofs.tla           # relay worker, plan_work
    tlapm ChannelProofs.tla         # QQ client, Weixin, targets and updates
    tlapm SelectionProofs.tla       # lemmas the others cite

Two runs are expected to end in a violation, `MCAgentLoop_first_message` and
`QQBot_clean_stop`; see "Where the code and its documents disagree".
`CHECK_DEADLOCK FALSE` is set everywhere, because each of these systems really
stops: the process goes down for the last time, the pool is joined, the gateway
exits, the bounded environment has nothing left to do.

## 1. Inventory

### Components

| Component | State it keeps | Operations | Who else touches it |
|---|---|---|---|
| **Task runtime** `src/task/task_runtime.cpp` | `active_tasks_`, `claimed_task_ids_`, `waiting_tasks_` under `mutex_`; the waiting-tasks file; `daily_summary_records_` and `cron_job_ids_`; `running_` | one poll loop per auto-claiming agent; `ExecuteClaimedTask` on a pool worker; a detached watchdog per execution; `TryResumeWaitingTask` and `ObserveInboundResult` on the inbound thread; the daily upload on the heartbeat thread; `Start`, `Stop` | relay manager (HTTP), agent registry (interceptor and post-processor), cron |
| **Thread pool** `src/utils/thread_pool.hpp` | `tasks_`, `stop_`, `active_count_`, two condition variables | `Submit`, `WorkerThread`, `WaitForEmpty`, `Shutdown` | task runtime |
| **Message bus** `src/bus/message_bus.cpp` | `inbound_`, `outbound_`, one mutex, one condition variable | `PublishInbound`, `PublishOutbound`, `TryConsumeInbound`, `TryConsumeOutbound` | every channel, registry, channel manager, cron, task runtime |
| **Agent registry** `src/agent/agent_registry.cpp` | agents by name, bindings, `running_`, interceptor, post-processor | the inbound thread with `HandleInbound`; `ProcessDirect`; `Start`, `Stop` | bus, task runtime, cron, heartbeat, relay |
| **Agent loop** `src/agent/agent_loop.cpp` | `process_mutex_`, the copy of the session a turn works on, iteration count, flags of the guardrail and the reminder | `ProcessMessage`, `ProcessDirect`: model call, tool calls, until an answer or `max_iterations`; the completion handler of subagents | sessions, tools, subagents |
| **Context** `src/agent/context_builder.cpp` | none | `BuildMessages`, `ProjectMessages` | agent loop |
| **Session manager** `src/session/session_manager.cpp` | cache of sessions; `sessions.db` | `GetOrCreate` (a copy), `Save`, `GetHistory`, `Delete` | agent loop, subagent completion |
| **Subagents** `src/agent/subagent/*` | task records, cancel flags | `RunAsync`, `DoRun`, completion callback; abort and resume | agent loop, sessions |
| **Providers** `src/providers/*` | none | `Chat`: request in one of two styles, response or error text | agent loop, planning |
| **Planning** `src/agent/planning/*`, `src/agent/tools/plan_work.cpp` | none | decomposition into tasks, cycle check, order, submission | relay manager |
| **Channel manager** `src/channels/channel_manager.cpp` | channels by name, `dispatch_running_` | `StartAll`, `StopAll`, the dispatcher with `SendWithRetry` | bus, channels |
| **Channels** `src/channels/*`, `src/weixin/*` | connection, `running_`, bounded caches of targets; QQ client generations; Weixin position and token files; Telegram's last message ids | `Start`, `Stop`, `Send`, a poll loop or an SDK callback | bus |
| **Cron service** `src/cron/cron_service.cpp` | `store_.jobs`, jobs file; no lock | `AddJob`, `RemoveJob`, `EnableJob`, `RunJob`, `RunDueJobs` | heartbeat thread, cron tool, task runtime, HTTP |
| **Heartbeat service** `src/heartbeat/heartbeat_service.cpp` | `running_` | `RunLoop`, `Tick` | cron, agent registry |
| **Relay manager** `src/relay/relay_manager.cpp` | a worker per managed agent: session, outbound queue, heartbeat and writer threads; an HTTP session | web-socket commands, reconnect; `ClaimNextTask`, `UpdateTaskStatus`, `QueryProject`, submissions, the daily upload | agent registry, task runtime, planning |
| **Configuration** `src/config/*` | none | file, environment, `NormalizeConfig`, `ValidateConfig` | everything, at start |
| **Gateway** `src/cli/commands.cpp` | pid file, signal flag, guard thread | commands gateway, restart and hup; order of start and stop | everything |
| Other tools, memory and skills, sandbox, logging | little or none that outlives a call | see `PROJECT.json` | agent loop |

### How they interact

* *Messages.* Channel thread -> `PublishInbound` -> registry's inbound thread ->
  agent turn -> `PublishOutbound` -> dispatcher -> `Channel::Send`. Cron, tasks
  and the `send_message` tool publish outbound directly.
* *Tasks.* Relay server -> `claim-next` -> poll loop -> pool -> `ProcessDirect`
  -> status reports. A run that ends on a question leaves a waiting record under
  (agent, channel instance, chat); the next message of that chat is intercepted
  on the inbound thread and resumes the task there.
* *Turns.* A turn copies its session, alternates between model and tools on the
  copy, and saves it. A subagent it has started reports, whenever it ends, by
  copying and saving the same session without the turn's lock.
* *Locks.* Each agent's `process_mutex_` is the meeting point: the inbound
  thread, pool workers, relay thread and heartbeat thread all block on it, for as
  long as a turn takes.
* *Files.* Waiting tasks, cron jobs, summary records and the Weixin position and
  tokens are each written as a whole, some through a temporary file, the others
  truncated and written in place. Sessions are in a database, where a save is a
  transaction. The pid file is how processes find each other.

### What is hard, and what makes each part correct

| Component | Hard behaviour | Correct means |
|---|---|---|
| Task runtime | three threads and an HTTP server per task; check-then-act across a claim; a watchdog that outlives the execution; replies at any time; crash and restart | a task is in one place; an agent executes one task; a mark never outlives its execution; a verdict stands; everything queued is executed; `Stop` returns; a summary is uploaded once |
| Thread pool | lost wakeups; pop and count in two critical sections; `Shutdown` against `Submit` | no task lost or run twice; the pool drains and joins |
| Bus, registry, channel manager | one condition variable for two queues, so the wrong thread is woken; retries; stop order | nothing lost, doubled or reordered; nothing sent on a stopped channel; every message answered |
| Agent loop, sessions, subagents | copies saved over each other; exceptions, cancellation and crashes in the middle of a turn; a history cut anywhere | what is stored is whole turns and only grows; the model is sent paired calls and results; sessions do not mix; a turn ends |
| Cron, heartbeat | references into a vector that a callback changes; missed jobs; truncated files | a job runs once per due time; none is forgotten |
| Relay worker | three threads around one connection; silent losses; sends that fail between a result and its end | a command has one end; a loss never ends the process; the worker comes back |
| Planning | titles that repeat, dependencies on nothing or oneself; requests repeated after a lost answer | submitted in order, refused only when cyclic; the summary says what the server has |
| QQ, Weixin, Telegram, Lark | rebuild against `Stop`; files truncated by two threads; batches handed out again; evicted targets | a stop stays a stop; a message is handled once; an answer goes where it was asked |
| Configuration, gateway | inheritance by comparison with defaults; processes that race for a pid file; a guard that ends a slow stop | what is enabled is served; one gateway; a reload comes back |

`PROJECT.json` lists the hazards at their lines, each with the properties that
cover it or the reason why none does.

## 2. Plan

| Order | Modules | State |
|---|---|---|
| 1 | `TaskRuntime`, its abstract specification `TaskCustody`, its inductive invariant `TaskRuntimeInv` | done |
| 1 | `ThreadPool` | done |
| 1 | `Delivery` (bus, registry, channel manager, gateway stop) | done |
| 2 | `Cron`: cron service, heartbeat loop, cron tool; `DailySummary`: the jobs and records of the daily upload | done |
| 3 | `RelayWorker`: connection, heartbeat, outbound writer, commands; `WorkPlan`: planning and submission; composed in `MCRelay` | done |
| 4 | `AgentLoop` over `Provider` over `Context`: turns, sessions, subagents in the background, requests | done |
| 5 | abort and resume of subagents | not done, see "What is not modelled" |
| 6 | `QQBot` (start, stop, rebuild), `Weixin` (poll, position, tokens, crash), `Conversations` (targets, allow list, repeated updates); composed in `MCChannels` | done |
| 7 | `Config` and `Gateway` (commands, pid file, signals, guard); composed with `DailySummary` in `MCGateway` | done |
| 8 | proofs of the task runtime and its refinement, the pool, delivery, the agent loop, the relay worker and the QQ client | done |
| 9 | proofs for `Cron`, `WorkPlan`, `Weixin`, `Conversations`, `Config`, `Gateway`, `DailySummary`, and that what is stored is whole turns | done |
| 10 | proof that the model sees whole exchanges (`Context`, `Provider`) | done |

`TaskRuntime` contains the pool as a bounded queue (`queue`, `TakeFromPool`);
`ThreadPool` is the detailed account of it. `TaskRuntime` and `Delivery` both
contain the registry's inbound thread, each with what its own properties need:
in `TaskRuntime` a turn is what it does to tasks, in `Delivery` what it
publishes, and `AgentLoop` is the turn itself.

The MC modules `MCRelay`, `MCChannels` and `MCGateway` put machines side by side
that share no state. A variable `part` picks the one that moves in a behaviour,
so that their states add up instead of multiplying.

## 3. The modules

### TaskRuntime

One step is a critical section of `mutex_`, one HTTP call, or the entry to or the
return from `ProcessDirect`. State and code:

| Variables | Code |
|---|---|
| `active`, `claimed`, `waiting` | `active_tasks_`, `claimed_task_ids_`, `waiting_tasks_` (key: agent, channel instance and chat; value: the task id, `Unnamed` when it is empty, `None` when there is no record) |
| `disk` | the waiting-tasks file, the only thing a crash leaves besides the server |
| `server` | the status of each task at the relay server (external; what `claim-next` and the status calls do to it) |
| `poll`, `offer` | `AgentPollLoop` of each agent, and the claim in its local variable |
| `queue`, `exec`, `asked` | the pool's queue; `ExecuteClaimedTask` of each task; its last observed question |
| `wd` | the watchdog thread of each execution |
| `inb*`, `msgs` | the registry's inbound thread in `HandleInbound`, with the interceptor and the post-processor |
| `phase`, `starts` | the process: `starting` (agents and channels run, the runtime does not yet), `up`, `stopping`, `stopped`, `down` |

Choices worth knowing when reading it:

* The watchdog captures two locals of `ExecuteClaimedTask` by reference and is
  detached, so after the function has returned what it reads is arbitrary:
  `WatchdogStops` and `WatchdogCancels` are both possible then.
* `ProcessEnds` is possible at any moment while a restart is left. It stands for
  a crash, a signal and the five-second guard of the shutdown.
* `ClaimFound` hands out a queued task or again one the server holds as claimed
  by this agent. That is an assumption about the server, which is not in the
  repository; the code's `claimed_task_ids_` exists because of it.
* `Lossy` loses calls and answers. A lost answer to `claim-next` leaves the task
  claimed at the server, and the HTTP layer repeats the request.
* The git commands (except a failed clone, which ends the execution early) and
  task memory are left out: they change no state the properties speak about. The
  daily summary has a module of its own.
* The agent registry's inbound thread is there before `LoadState` has run
  (`starting`): a message handled in that window sees no records, and a save in it
  overwrites the file.

`TaskCustody` is the abstract specification: each task is idle, executing,
waiting or resuming, and moves only by `Claim`, `Ask`, `Finish`, `Reply`,
`Forget`, `Lose`, `Crash`. `Claim` requires that no task of the same agent is
under execution. `ImplementsCustody` is the refinement, with the mapping
`Custody(t)`.

### ThreadPool

One step is a critical section of `queue_mutex_` or `active_mutex_`, a
notification, or the run of a task. A worker's path is `awake` (evaluates the
predicate), `asleep`, `popped` (out of the queue, not yet counted), `running`,
`ran`, `notify`. `notify_one` wakes some sleeping thread or nobody, and sleepers
may wake without being notified. Each task is submitted by a thread of its own,
so any interleaving of `Submit` with `Shutdown` occurs. `PendingCount` and
`HasPending` only read and are not modelled.

### Delivery

One step is a critical section of the bus with its notification, a test of a
running flag, a call of `Send`, or a step of the gateway's start and stop.
`inbound` and `outbound` are the bus's queues. An outbound message is a position
in `published`, the history of everything published, so that two messages with
equal contents stay different and order can be stated. `registry` and
`dispatcher` are program counters; `hand`, `sending` and `attempt` are the
threads' locals; `accepted`, `published`, `settled` and `shown` are histories.

Facts of the code that the model shows, and that a reader might not expect:

* A publication may wake the thread that waits for the *other* queue. It finds
  its own empty and sleeps on. The thread that should have been woken comes back
  only when its `wait_for` times out: the timeout is needed for delivery, not
  just for the stop (mutant `RegistryWaits`).
* The typing announcement of a Telegram turn has no content. `SendWithRetry`
  refuses messages without content before it would recognise the announcement,
  so it never reaches the channel.
* An answer may be `blank` (a reply that is nothing but a memory block): it is
  published and refused in the same way.
* The dispatcher is stopped before the agents. What is queued then, and the
  answer of a turn that ends later, is never sent. `Answered` is therefore
  stated for a gateway that is not stopping.

### Cron

The cron service keeps its jobs in a vector without a lock, and runs a job's
callback, which lasts as long as a turn of an agent, in the middle of a loop over
that vector. One step is what a thread does between two waits: for a callback,
for an agent's `process_mutex_`, or for the file. Finer races on the vector (two
threads inside one `push_back`) are not modelled.

| Variables | Code |
|---|---|
| `jobs`, `capacity` | `store_.jobs`; a job's `next_run_at_ms` is none, later or due |
| `past` | one-time jobs whose time has come, which `ComputeNextRun` refuses |
| `file`, `saving`, `data` | the jobs file, and the threads in `SaveStore` between the truncation (`BeginSave`) and the write (`WriteFile`); a crash or two saves at once leave it `Unreadable` |
| `hb`, `round` | the heartbeat thread in `RunLoop`, `Tick`, `RunDueJobs`, `ExecuteJob`; index and end of the loop, the job that runs, whether the loop's reference is `dangling`, and what became due only after the clock was read (`notYet`) |
| `turn`, `ops`, `hand` | who holds an agent's `process_mutex_`, the uses of the cron tool in that turn, the job in `RunJob` |
| `phase`, `running`, `starts` | main thread and process |
| `runs`, `disturbed` | histories |

* A removal during a callback moves the jobs behind it, so that the loop's
  reference means another job or what is behind the end; an insertion beyond the
  capacity frees them all. What is written there is lost. What is read there are
  the remains of a job with empty strings, which are run, or are not
  (`NextStale`), as a job without an id for the default agent.
* `Executed` finds the job again by its id, as the code does, but clears the id
  through the reference.
* A turn begun by `RunJob` on top of another one is one step, and what it does to
  jobs is left out. The heartbeat's own turn uses no tool.
* How long the heartbeat thread sleeps is left out: a `Tick` may come at any time.

### AgentLoop, Context, Provider

`Context` has the pure part of a turn: `GetHistory`, `BuildMessages` and
`ProjectMessages`. A message is a record of its role, its turn, the id of the
call it answers, the ids of the calls it makes and a tag; texts are left out.
`Provider` adds what becomes of the messages in a request of either style, and of
the response: every failure is turned into a text, which is an answer like any
other.

`AgentLoop` is the machine. A step is what a turn does between two waits: for the
lock, the model, a tool, or the session manager's mutex.

| Variables | Code |
|---|---|
| `turn` | per thread the turn it runs: its session's copy, the messages for the model, iteration, the flags of guardrail and reminder, the calls still to be made |
| `cache`, `db` | `cache_` of the session manager and `sessions.db`; `SaveSession` writes both in one critical section |
| `target`, `toolKey` | chat of the `send_message` tool; session of the `agent` tool |
| `agent` | each subagent in the background: its detached thread, its record, and the completion handler's copy of the parent's session |
| `stale` | sessions over which a handler has saved an outdated copy (history) |

* `process_mutex_` is the guard `process_mutex_free`, held from `Enter` to
  `Finish` or `Fail`. The completion handler does not take it: `HandlerGets` and
  `HandlerSaves` are two steps, and a turn may save between them.
* What the handler overwrites, or a later turn overwrites of it, is lost.
  `HistoryOnlyGrows` says that this is the only way to lose messages, and
  `TurnsKeepApart` that a notification never lands in another session. A handler
  may also bring back a session that `/new` has deleted.
* A subagent's own conversation is left out; it ends with `completed` or
  `failed`, at the latest after its `max_turns`.
* `ChatFails` (a cancelled task) is also allowed for turns of `ProcessMessage`,
  where nothing cancels: more behaviours than the code has.
* `ProcessSystemMessage`, which `HandleInbound` calls for the channel `system`
  (`src/agent/agent_loop.cpp:345`), is left out: nothing publishes to that channel.

### RelayWorker

The connection of one managed agent: `Run`, the heartbeat thread it starts per
connection, the writer of activity reports, and `Stop`. A step is one send, one
read, one critical section or one join.

| Variables | Code |
|---|---|
| `running`, `session`, `hbRunning`, `outRunning`, `queue` | the flags, whether `session_` is set, `outbound_queue_` |
| `at`, `ret`, `command` | where `Run` and the main thread are, where each goes on after `StopHeartbeat`, the command in execution |
| `link` | the connection: open, `dying` (the peer has gone and sends still succeed), `doomed` (data is unacknowledged), broken, closed |
| `inbox`, `dispatched`, `heard` | the server (external): what it has sent on this connection, and what it has received of each command |
| `hb`, `joiner`, `writer`, `batch`, `reports` | the threads, who is inside the join of the heartbeat thread, what the writer has taken |
| `crashed` | `std::terminate` |

A silent loss is noticed only by what the heartbeat writes, whose data nobody
acknowledges (`GiveUp`). A second join of the same thread, or an assignment to a
joinable one, ends the process. `Stop` meeting `Run` in a join is possible in the
code; `OnlyStopTerminates` says that it is the only way.

### WorkPlan

The `plan_work` tool with the decomposer: `Valid`, `TopoSort` (Kahn's algorithm
over positions, as the code has it), the project query, and the submission of the
tasks over the HTTP session, whose `DoRequest` repeats a request once. Facts that
the model shows: a dependency on a title that several tasks have means the last
of them, so that a plan that can be ordered may be refused; a task reported as
failed may exist at the server, once or twice; a failed task does not keep those
that depend on it from being submitted. The session is used by one caller here;
what several threads do to it at once is undefined (see below).

### QQBot, Weixin, Conversations

`QQBot` is the life of the QQ client. Each `Start` makes a generation of its own;
the callback of any generation may report a terminal state at any time and have
the rebuild thread replace the client; `Stop` may come in between. A step is a
critical section of `lifecycle_mutex_`, a call of the SDK, or an access to an
atomic flag. `hasty` leaves two windows shorter than the 250 ms before a rebuild
out of `StaysStopped`: a terminal event before `Start` has adopted its client, and
one between `Stop`'s request and its lock. In both a stop can be undone.

`Weixin` is the poll thread with its connection manager, the dispatcher's `Send`,
and the two files they keep: position and context tokens. A file is truncated in
one step and written in another, and a crash between them leaves a `Torn` one,
which reads as none. `overlap` and `torn` record that two threads were in the
token store at a time, and that a crash has caught a write: the two cases in which
the code loses what the properties promise. `kept`, `published` are histories.
An answer may leave the next position out (`GetUpdatesWithout`): its messages are
handled all the same and the next poll asks from the same place, so the batch can be
published again, without any crash. No id of a message is compared. `NothingTwice`
therefore lets such messages (`loose`) repeat and overtake one another, and nothing
else.

`Conversations` is the way of a message: what each channel makes of an event,
`IsAllowed` and `HandleMessage`, the QQ target cache with its eviction in key
order, `ResolveTarget`, the targets of Lark and Weixin, and Telegram's updates with
`last_message_ids_`. Of bots, `HandleChannelEvent` alone drops the messages
(`src/channels/qqbot_channel.cpp:490`); those in private conversations and groups are
remembered and published. The library's `getUpdates` is external: when it throws, or
the greeting that answers `/start`, the last batch is handled again from its first
update, and what it asks for next confirms what came before. A message without a
sender or a chat, and one whose text begins with `/start`, never reaches the agent
(`Heard`); a message with the id 0 is compared with nothing and reaches it as often as
its batch is handled (`Seen`). `Restart` may come anywhere: `last_message_ids_` is not
saved, so what was handled but not confirmed is shown again by the next process.
`EachUpdateOnce` says what remains: within one process no message with an id twice or
out of order, and over all processes nothing lost that is to reach the agent.

### Config, Gateway, DailySummary

`Config` follows every setting from the file over the environment and
`NormalizeConfig` to `ValidateConfig` and to what channel manager and registry make
of it. A section is a record of the keys it has. `SettingsInherited` states the
result declaratively, in layers. Facts that it shows: an instance that repeats the
file's default explicitly follows the environment as if it had said nothing;
credentials in the environment do not reach the instances of
`channels.instances`; a file that does not parse gives the built-in values.

`Gateway` has processes with a pid file, signals, the polling main loop, an orderly
stop that takes a time, the guard that ends the process five seconds after the
signal, and the commands. The unit of time is the second (`Tick`). `execv` keeps the
process id and puts back the default handlers. A reload ends the gateway when its
configuration is rejected, when `execv` fails or when the pid file does not open; the
process is then `rejected` or `failed`. A pid file that opens but cannot be written
(a full disk) is not modelled: `WritePidFile` does not look at the stream again.

`DailySummary` has the cron jobs of the upload, which outlive the process in the job
file, the upload in the cron thread and the record of the day. A job left by a
crash, when the next process runs without the task system, is handed to the agent
as a message.

## 4. The runs

Runs expected to pass:

| Run | Instance | Shows |
|---|---|---|
| `MCTaskRuntime_core` | 1 agent, 2 tasks, 2 chats, 2 workers, 2 messages, 2 starts, no timeouts, no losses | the mark covers the execution (`ActiveMarksExecution`); one custodian (`OneCustodian`); a verdict stands (`OutcomeIsSettled`); `ImplementsCustody` |
| `MCTaskRuntime_faults` | 1 agent, 2 tasks, 2 workers, 1 start, timeouts and losses, `HangingSpec` | `NoStuckMark`; no task id is executed twice in one run of the process (`ExecutedOnce`); the watchdog frees the agent although the call never returns (`AbandonedAgentIsFreed`) |
| `MCTaskRuntime_live` | 2 agents sharing 1 worker, 2 tasks, 1 message, `FairSpec` | everything queued is executed, `Stop` returns |
| `ThreadPool_pool` | 2 workers, 3 tasks, 1 waiter, `FairSpec` | no task lost or doubled, the pool is drained when `Shutdown` ends, and every accepted task runs |
| `MCDelivery_bus` | 1 Telegram-like channel, 2 messages, 1 notice, 2 attempts, 1 `send_message`, `FairSpec` | nothing lost or doubled (`OnePlace`), answers in order, no send on a stopped channel, every message answered |
| `MCCron_cron` | a one-time job of an agent, the daily job, 1 message, 1 use of the tool per turn, 2 starts, `FairSpec`; the daily job may be run by hand | no due job is forgotten; while the vector is left alone during callbacks a one-time job runs once, across crashes too |
| `MCAgentLoop_turns` | 2 threads, 2 sessions, 2 turns, 1 subagent, 1 crash, a history of 4 messages, 2 iterations; replies: error, blank, text, two calls, `plan_work`; stored before: nothing, three short turns, or one turn longer than the history | `StoredTurnsAreWhole`, `ModelSeesWholeExchanges` in both styles, `TurnsKeepApart`, `HistoryOnlyGrows`, `TurnEnds` |
| `MCRelay_relay` | part *worker*: 1 command, 2 reports, any number of connections; part *plan*: all plans of three tasks over 5 patterns of titles and 4 lists of dependencies per task | `CommandsAreAnswered`, `OnlyStopTerminates`, `ComesBack`; `SubmittedInOrder`, `SummaryIsTrue` |
| `MCChannels_channels` | part *qqbot*: 5 generations; part *weixin*: 2 users, 4 messages, 2 of them with a token, 1 send, 2 crashes; part *telegram*: 8 updates of two chats; part *talk*: 13 events, a target cache of 2, 3 messages unanswered | `NoForgottenClient`, `StaysStopped`; `NothingTwice`, `NewestTokenFound`; `EachUpdateOnce`, `AnsweredWhereAsked` |
| `MCGateway_gateway` | part *config*: every combination of the sections and variables listed in `MCGateway`; part *processes*: 3 processes, 5 commands, 1 kill, starts of 0 or 2 s, stops of 0, 3 or 30 s; part *summary*: 3 agents with a repeated one, 2 days, 3 starts | `EnabledIsServed`, `SettingsInherited`; `OneGateway`, `ReloadComesBack`; `UploadedOnce`, `JobsAsConfigured` |

The bounds and why they are enough:

* *Agents and tasks.* Tasks of different agents share only the pool, the server
  and the inbound thread. Two tasks of one agent give every conflict over its
  mark, its records and its mutex; two agents on one worker give every conflict
  over the pool. The theorems do not depend on it.
* *Chats.* Two chats let a task move its record from one to another and let a
  second task's record be hit by the reply to the first.
* *Messages* (`MaxMsgs`). Two replies are needed for a reply to meet the effects
  of another. `faults` has none, to stay small; the theorems cover losses and
  timeouts with messages.
* *Starts* (`MaxStarts`). Two starts give one crash at any point and a reload.
  `faults` has one start: a task whose reports were lost may be offered again
  after a restart and then has two custodians. The code has no defence against
  that, and no document promises one.
* *Pool.* Two workers and three tasks leave a task queued while both workers are
  busy. One waiter is enough, as waiters do not affect each other.
* *Attempts.* The code's `kMaxSendAttempts` is 3; with 2 there is a first, a
  last, and a success after a failure. The theorems hold for any number.
* *Delivery.* Two messages give an order; the notice competes with them for the
  wakeups. One channel is enough for order and stop, since the dispatcher is one
  thread for all of them.
* *Cron.* Two jobs are needed for one to move under the other. Two starts give a
  crash at any point and a reload. One use of the tool per turn (`MaxOps`; the
  code's bound is `max_iterations`) still lets a message's turn add, remove or
  switch a job during the callback of another, and a callback do so itself.
  `ByHand` leaves out the job whose agent would wait for itself: `DueIsRun` holds
  only without it.
* *Agent loop.* One turn has to wait for another, a subagent has to end before,
  between and after the saves of both, and an older conversation has to be cut
  between a call and its results: `MaxHistory` is 4 because the long turn has 7
  messages. Two iterations give a first round, a last one, and the end without an
  answer.
* *Relay.* With one command every send of its reports may fail, and the command
  comes again on the next connection; the theorems hold for any number. Three
  tasks are the smallest plan with a repeated title, a task that depends on it and
  another one; four patterns of dependencies include a loop on oneself, a double
  dependency and one on nothing.
* *Channels.* A stop, a rebuild and a late event of a replaced client meet within
  three generations; five leave room for a rebuild after a rebuild. The cache of two
  targets overflows with the third chat (the code's bound is 256). Of the four Weixin
messages one has no sender, and an answer without a next position is possible while
no more than two messages are published with it (`MaxPublished`), which is enough for
a batch to come twice and for an ordinary answer to follow; one send meets every step
of the poll thread's save. The eight Telegram updates have a message without an id, a
post without a sender, `/start` from two users, and a sender admitted by name, by chat
or not at all; a fetch, a greeting or a process may fail while fewer than eight
messages are on the bus (`MaxShown`).
* *Gateway.* Three processes are an old gateway, its successor and a command. The
  stop times are shorter than the guard, at its edge, and longer than it and the
  wait of a restart. `Patient` makes the operator wait until a command has had its
  effect: without it two commands at once do leave two gateways (seven steps), the
  pid file being read and written in two steps, and a gateway started between
  `RemovePidFile` and the reloaded process's look at the pid file makes that one
  exit, so that `ReloadComesBack` would not hold either.
* *Sections.* They are chosen to collide: a repeated default, a section inherited or
  cleared, credentials split over file, section and environment.

### Fairness

* Poll loops, workers, inbound thread, dispatcher, watchdogs, heartbeat and main
  thread are operating-system threads that no one suspends: weak fairness per
  thread.
* A mutex becomes free again and again. `process_mutex_` is modelled as a guard
  (`ProcessFree`, `process_mutex_free`). With weak fairness of a waiting thread this
  asks that the mutex is free for long enough; it is justified in the bounded
  instances since each holder leaves and comes back only for another task or
  message. `TurnEnds` speaks only of turns that hold it.
* `FairSpec` of `TaskRuntime` adds that a `ProcessDirect` call returns: its loop
  is bounded by `max_iterations` (which `TurnEnds` shows of the loop itself).
  `HangingSpec` drops that, because a tool or a model call may block for ever.
* `Delivery` gives *strong* fairness to the two timeouts. The deadline of
  `wait_for` is fixed when the call is made, so wakeups in between do not put it
  off: a thread that is asleep again and again does time out. Calls of `Send` and
  turns of an agent end.
* In `Cron` heartbeat, inbound and main thread run, and turns end. Time need not
  pass, and nobody has to stop the gateway.
* In `AgentLoop` the threads of turns and subagents run, and each call of the model
  or a tool comes back. Nobody has to begin a turn.
* In `RelayWorker` the threads run, executions and waits end, and TCP gives up a
  link on which data stays unacknowledged. A server that can be reached again and
  again is reached (strong fairness of `Connected`): `Run` tries again and again, and
  each attempt may fail.
* In `Gateway` processes run and time passes.
* Nothing is assumed of users, of the server offering tasks or commands, of replies,
  of a crash, or of anybody asking for a stop.

## 5. The proofs

All theorems hold for every value of the constants that satisfies the named
assumptions of the module, which are about types but for these:

* `AgentLoopAssumption`: what is stored from earlier runs is a conversation of whole
  turns (which the theorem shows of what a run adds to it), of messages as the code
  makes them (`IsMessage`): only an assistant's has calls, only a tool's an id.
* `FileType`, `VariablesType` of `Config`: the parts of a file or an environment that
  the code reads at one place only do not occur at others.
* `EventsAssumption` of `Conversations`: `home` of an event is the conversation that
  its ids name, and ids of different kinds differ. `ConversationsAssumption`: the ids
  of a chat's Telegram messages grow; 0 stands for a message without one.
* `PlanAssumption`: a reply holds a sequence of tasks with titles, instructions and
  names they depend on. Nothing is assumed of what they say.

Sets of agents, tasks, chats, jobs and messages may be infinite except where a
theorem says otherwise. Every inductive invariant also passes TLC on the instances of
the runs.

### TaskRuntimeProofs

The invariants the runs check are not inductive. `TaskRuntimeInv` strengthens
them in layers, each kept by every step that starts where the earlier ones hold:

1. `TypeInv`: types, plus what relates the threads' registers (an offer belongs
   to its agent, the resumed task to the agent of the message, nothing runs
   before the runtime has started, records are of the agent in their key).
2. `RecordsSaved`: every change of `waiting_tasks_` saves in the same critical
   section. What needs an argument is `LoadState`.
3. `PoolInv`: the pool's queue holds exactly the tasks that are queued, each once;
   what was submitted is in `claimed_task_ids_`, and what is about to be submitted
   is there for the first time. `ExecutedOnce` follows, with losses and timeouts.
4. `NoStuckMark`: `ClearActiveTask` erases the agent's mark whatever task it
   names, so an abandoned execution may erase its successor's. It can never leave
   one behind.
5. Without timeouts, `ActiveInv`: an agent whose poll loop is between check and
   claim has no mark, because only that loop can set it. With it
   `ActiveMarksExecution` is inductive.
6. Without losses, `CustodyInv`: from the running report on, the server does not
   offer the task again. With it a task under execution, resumed or recorded is
   not elsewhere, which gives `OneCustodian`.

Each layer has a step lemma with one step per action.

### The refinement of TaskCustody, and outcomes

Both are in `TaskRuntimeProofs` as well.

`RuntimeImplementsCustody`: without timeouts and losses every behaviour of
`TaskRuntime` is, through the mapping `Custody`, one of `TaskCustody`. The layers
above are the invariant; each action is shown to be a step of one task or a
stutter, the hard ones being the claim (its guard, that no other task of the agent
executes, is `ActiveInv`) and the crash.

`OutcomesStand`: the verdict the server holds stands, but for a `waiting_user`
report overtaken by the user's reply. `SettledInv` adds to the layers above that
whoever may still report on a task finds it without a verdict, and that a worker
about to report one is the last to have the task.

### DeliveryProofs

The inductive invariant `Inv` says that each queue is the untaken rest of a
history: `inbound` is the end of `accepted`, `outbound` the end of the positions
of `published`. What a thread has in hand is the element just before that rest,
and answers stand for the messages before it, in order. With `StopInv`, which
relates the phases of the stop to the flags and to what the dispatcher may still
be doing, these follow: `TypeOK`, `NoSendAfterStop`, `AnswersInOrder`,
`ShownInOrder` and `OnePlace`.

### AgentLoopProofs

`TurnsDoNotMix` and `NoTurnIsLost`, for any number of threads, sessions, subagents,
turns and crashes and whatever the model responds. `LockInv`: one turn at a time,
and the tools know its session. `AgentInv`: a subagent that runs knows the session
that started it. `StoreInv`: what is cached or stored of a session carries
notifications of its own subagents only, and cache and database agree. `GrowInv`:
the copy a turn works on continues what is stored, or the session is `stale`. The
actions are first reduced to a few kinds (`Onward`, `Begins`, `Moves`).

`WholeTurnsAreStored`: what is stored consists of whole turns, each with all its calls
and results. It rests on the invariant above and on `TurnsInv`: a turn's copy is turns,
the last of which lacks only its answer and the results of the calls that are still in
the turn's hands (`CopyOk`, `Open`); and what is cached, stored or in the
hands of a completion handler is whole (`WholeInv`). A handler overwrites newer turns
with an older copy, but one that was whole.

`ModelSeesWhole`: every request to the model has the result of every call and the call
of every result. What the projection starts from is not paired: a stored turn longer
than the history is cut, and its results come without their call. `Sound` says what
holds instead, and is a part of `CopyOk`: every call has its results, and a result has
its call or is `CutOff`, with no message of the user before it and the rest of its turn
after it. `BuiltIsSound` shows it of the messages a turn starts with, `ExchangeIsSound`
and `ReminderIsSound` of what the loop adds. The projection drops the cut-off results
wherever its tail begins (`SnippedIsPaired`): at a user message, which is after them, or
at the last assistant message, which is too. Its other passes keep pairs since none
takes a result without its call or parts the two (`FilterKeepsResults`,
`SparingKeepsPairs`), and no placeholder is ever needed (`NoPlaceholders`).
`PayloadIsWhole` does the rest for each style of request.

`InputStaysInTail` complements the finding on the first message (section 6): from the
third message of the user in the context on, the model is sent the input of the turn,
whatever earlier turns, notifications, tools and reminders add (`LaterInputIsSent`).
The tail begins at the third user message from the end, so at most two may follow the
input. `InputInv` says so of each turn in the loop: the context has the turn's input,
and after it no more messages of the user than the flags `retried` and `reminded`
account for (`FewReminders`); a virtual message does not count. `LoopGoesOn` sorts the
steps of the loop into those that add a message that is not the user's, or none
(`InputStays`), and those that add a reminder and set its flag (`InputReminded`). A
third kind of reminder would break it.

### CronProofs

`CronTypes` and `ClockRunsOnce`, for any number of jobs, agents, starts and uses of
the tool. The run's invariant speaks of jobs that ran; what makes it inductive is
where a job can be in the meantime:

* `StoredInv`: store, file and what a thread is about to write have no id twice,
  except the empty one (`Nameless`) that `Executed` leaves behind when it clears the
  id of a job through the loop's reference.
* `PhaseInv`: the daily job is added only where there is none, and the heartbeat
  thread runs only in a started service.
* `PastInv`: a one-time job is due only if its time has come, and never waits again.
* `OnceInv`: in a callback that nothing has disturbed the loop's reference is good and
  its job is where the loop found it; a one-time job that has been run is due only
  until its callback is over.

### RelayProofs

`Answered` and `LossesDoNotTerminate`, for any number of commands, connections and
reports. `JoinInv`: while the worker runs it alone joins the heartbeat threads,
each before it starts the next. `InboxInv` and `AnswerInv`: on an open connection
each command that was sent is settled, in the inbox and unheard of, or the one in
execution, whose reports are those of its stage.

`PlanIsOrdered` and `PlanIsReported`, for any replies of the model. The algorithm
comes first: `Kahn` is what a turn of its loop keeps (queue and visited tasks are
apart and without repetition, the count of a task is the number of prerequisites not
visited yet, and a task is in either exactly when its count is 0), `VisitStep` that it
is kept, `VisitedFacts` that after as many turns as there are tasks the queue is empty
or all are visited. So an order has each task once and after one of every title it
depends on (`OrderFacts`); and were there a ranking in which every task
comes after all those of the titles it wants, for a plan that is refused, one could
descend among the tasks left over for ever (`CycleFacts`). `PInv` then says that
what has been submitted, followed by what is left, is that order, and bounds how often
the server can have created a task by where the request is (`Allowed`): a request is
written at most twice.

### ChannelProofs

*QQBot.* `NoneForgotten` and `StoppedForGood`, for any number of generations.
`ClientInv`: the adopted client is of the current generation, every `Start` under
way has one of its own, and a client to be disconnected is in the hands of a thread
that will do it. `StopInv`: once the main thread has asked for the stop, every event
and rebuild is out of date or will see the request, and from its `StopInternal` on
nothing can take the request back.

*Weixin.* `NoMessageTwice` and `NewestTokenIsFound`, for any messages, users and
number of crashes. `PositionInv` relates the position in memory and on disk to what
was published and what is in the batch, at every point of `PollLoop`. Without loose
messages this is that everything published lies up to the position, and on disk. With
them, what is published is ordered but for loose messages among one another
(`Before`, `Ordered`), and the loose ones reach without a gap from the position at
hand to the last of them (`Closed`), because every answer without a position brings
all the messages from there. That is why a later answer, which starts at the same
position, cannot bring an ordinary message that a loose one has overtaken. `TokenInv`
says that what a thread has read of the token store is what the file is to hold, and
that the file is torn only while a thread writes it. Both hold until a crash tears a
file, and the second until two threads have been in the store at a time, as the
properties say.

*Conversations.* `AnswersGoHome`: `TalkInv` says of each unanswered message how its
chat and the conversation it came from belong together, and that every target in the
cache is that of an event; two events of one chat cannot be of different
conversations, so it does not matter which of them was remembered.
`UpdatesArriveOnce`: `PollInv` says that there is an update `h` up to which
everything has been handled (`HandledInv`), at least up to the one before `next` and
at most up to the end of the batch: what is to reach the agent up to `h` has been
shown, what this process has shown lies up to `h`, and of the batch and all that
follows exactly the messages up to `h` have ids that are not above the last one
remembered for their chat. So a batch that is handled again is skipped up to `h` and
shown from there. Before the batch nothing is said of `last_message_ids_`: a restart
clears it.

### GatewayProofs

*Config.* `EnabledAreServed` and `SettingsAreInherited`, for any file and
environment of the types assumed. `FileInv` says that what is on disk has these
types and what was read is what is on disk. The rest is about the operators: what
`NormalizeConfig` makes of every instance (`InstanceIsOk`, `NormalizedFacts`), what
validation adds to that (`ServedIfValid`), and what each layer in turn keeps and
sets of a field (`LoadedInstances`, `LoadedSettings`).

*Gateway.* `OneServes`, for any number of processes and any start and stop times,
under the hypothesis `Patient`: without it two commands at once leave two gateways
(see "bounds"), so the theorem would be false. `CheckInv`: a process that looks at
the pid file finds the gateway there is, not signalled or less than a second ago.
`WaitInv`: a restart that waits has told that gateway to end, and the guard will
have ended it two seconds before the restart loses patience. The constants of the
code (a second of the loop, five of the guard, eight of the restart) enter here.

*DailySummary.* `NotesUploadedOnce` and `JobsAreAsConfigured`, for any agents, days
and starts. `ConfirmedInv`: a confirmed upload is known to the cron thread, or
recorded, or a crash has taken what else was due today.

*ThreadPool.* `Inv` says that a worker holds a task between the pop and the end of
the task, that `active_count_` is the number of workers between its two changes,
that a worker leaves only a stopped and empty pool, and where each task is. That the
count is 0 as well when `Shutdown` returns matters to `TaskRuntime::Stop`, which calls
`WaitForEmpty` next.
`NoneLostNoneTwice`, `DrainedWhenStopped` and `CountNeverWraps` follow for any
number of workers and tasks; `NoWakeupIsLost` has an invariant of its own over
sleepers and notifications under way.

### SelectionProofs

Induction and definition by recursion over the naturals (`Induction`, `Recursion`),
derived from the library's well-founded order of the naturals, and what `EntriesAt`
selects of a sequence (`EntriesFacts`, `Keeps`): `Cron` removes jobs with it,
`WorkPlan` picks tasks, and `Context` drops messages.

### What is only model-checked

* Liveness (`QueuedIsExecuted`, `StopTerminates`, `AbandonedAgentIsFreed`,
  `AcceptedRuns`, `Answered` of `Delivery`, `DueIsRun`, `TurnEnds`, `ComesBack`,
  `ReloadComesBack`): fairness and ENABLED are out of the prover's reach.
* The library's induction theorems take an operator as a parameter and cannot be
  used. `Induction` of `SelectionProofs` speaks of sets instead, which is enough for
  recursive functions and sequences; no module declares a RECURSIVE operator.
  `SelectSeq` stays closed to the provers, which is why `Cron`, `WorkPlan`, `Context`
  and `Provider` select with `EntriesAt`.

Proved and not in a run, to keep the runs to one question each: `TypeOK` of
`TaskRuntime`, `ThreadPool` and `Delivery`, `RecordsSaved`, `ShownInOrder`,
`NoLostWakeup`, `TypeOK` of `Cron`, and `LaterInputIsSent`, which TLC finds to hold on
the instance of `MCAgentLoop_turns` and on one turn of up to five iterations, and
violated when the reminder that asks for a text may be repeated. `TypeOK` of `AgentLoop`
states the types for the reader and holds on the instances above.

## 6. Where the code and its documents disagree

Two of these are runs that must end in a violation, with the quotation in
`PROJECT.json`:

| Run | Property | What happens |
|---|---|---|
| `MCAgentLoop_first_message` | `CurrentInputIsSent` | in the first turn of a session the projection drops the user's message: the protected tail begins after the end of the messages, although its comment promises the current input; `LaterInputIsSent` is what does hold |
| `QQBot_clean_stop` | `StopIsClean` | a `Stop` during a rebuild, or after one that failed, returns with a joinable thread in a local variable, whose destructor ends the process |

Others were met while modelling. The models contain the behaviour, and the
properties are stated so that they say exactly what does hold:

* A reply resumes a task on the inbound thread without a mark, and the poll loop
  starts a second task of the agent; `docs/task-runtime-protocol.md:15` has one
  active task per agent. `TaskCustody` therefore does not restrict `Reply`.
* A resumed run that asks again loses its record to the post-processor of the same
  message (`Forget` in `TaskCustody`).
* `WaitForEmpty` returns while a task is queued, or popped and not yet counted;
  `src/thread_pool_tests.cpp:47` takes it to mean that all tasks are done. The
  gateway calls it only after `Shutdown` (`src/task/task_runtime.cpp:242`), when
  nothing is queued or running (`ShutdownDrains`).
* A job before it is removed while a one-time job runs: the loop clears what is
  behind it, and the one-time job stays due and runs again (`README.md:34`).
  `OnceIfUndisturbed` excludes it.
* The cron tool's action `run`, used on a job of the same agent, waits for the mutex
  its own turn holds (`src/agent/tools/cron.cpp:212`), although the tool's description
  offers running jobs (`src/agent/tools/cron.hpp:22`). `ByHand` excludes it.
* An instance without `binding.agent` gets the first agent, where
  `openspec/specs/multi-agent-routing/spec.md:56` has the start fail.

## 7. What is not modelled, and why

* *Abort, resume and the synchronous run of subagents.* Abort and resume need a task
  id from the user; the synchronous run is a tool call like any other. `Resume` and
  `MarkAborted` of the session manager are never called.
* *Concurrent use of one HTTP or web-socket session of the relay.* Poll loops, pool
  workers, cron thread and `plan_work` share it without a lock. What the library's
  stream does then is undefined; any outcome is possible, and no property survives.
* *The inside of a race on a vector or map* (two threads in one `push_back`), for
  the same reason. `Cron` has the interleavings between the accesses.
* *File-system failures.* `AtomicWriteJson` gives up silently; `RecordsSaved` is
  about writes that succeed. Truncated files after a crash are modelled in `Cron` and
  `Weixin`.
* *Exceptions that end the process* on the inbound thread: `ProcessEnds` covers
  what they leave behind, not how they arise.
* *Contents.* Prompts, replies, JSON, URLs, headers, tool definitions, git commands,
  Markdown and HTML. Where contents decide the control flow (a question or not,
  content or none, a verdict, a call or none) the model chooses. What a provider's
  conversion does to contents (image parts and argument types it drops) is with them.
* *Tools on files, processes, the web, speech and to-do lists; the sandbox; skills and
  the memory's consolidation; task memory*: input and output around one call.
* *Weixin's login, cryptography and media*, and its message pipeline, slash commands
  and poll monitor, which nothing calls; *Telegram's and Lark's sending*, which is I/O
  of their libraries.
* *The HTTP status server*, which only reads, and *logging*.
* *Operations of the bus and the pool that the gateway never calls*
  (`ConsumeInbound`, `ConsumeOutbound`, `SubscribeOutbound`, `DispatchOutbound`,
  `Stop` of the bus).
* *The sleep of the heartbeat loop*, and thereby how late a job is run.
