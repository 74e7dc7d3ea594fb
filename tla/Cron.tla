-------------------------------- MODULE Cron --------------------------------
(***************************************************************************)
(* The cron service (src/cron/cron_service.cpp) with the threads that use  *)
(* it: the heartbeat thread runs the jobs that are due, the agents' cron   *)
(* tool and the task runtime on the main thread add, remove, switch and    *)
(* run jobs meanwhile. The service has no lock.                            *)
(*                                                                         *)
(* The callback of a job takes minutes. RunDueJobs holds a reference into  *)
(* the vector of jobs while it runs, so an insertion may leave it dangling *)
(* and a removal makes it refer to another job. A step is what a thread    *)
(* does between two waits: for a callback, for an agent's process_mutex_,  *)
(* or for the file. What the loop writes through a dangling reference, or  *)
(* behind the end of the vector, is lost; what it reads there is the       *)
(* remains of a job, whose strings are empty: it is run, or it is not      *)
(* (NextStale).                                                            *)
(***************************************************************************)
EXTENDS Naturals, Sequences, FiniteSets, Selection

CONSTANTS
  Jobs,         \* job ids
  Kind,         \* of each job: "at" (deleted after its run), "atKept", "repeat"
  AgentOf,      \* the agent that runs the job; None: delivered without one
  Daily,        \* the daily summary job of the task runtime, or None
  ByHand,       \* the jobs users run by hand
  Agents,
  DefaultAgent, \* the agent of the heartbeat
  None,
  Unreadable,   \* a file that is no JSON document
  Nameless,     \* the empty id of a job that is to be erased
  MaxTurns,     \* bound: turns of an agent on the inbound thread
  MaxOps,       \* max_iterations: uses of the tool in a turn
  MaxStarts     \* bound: starts of the process

ASSUME CronAssumption ==
  /\ Kind \in [Jobs -> {"at", "atKept", "repeat"}]
  /\ AgentOf \in [Jobs -> Agents \cup {None}]
  /\ DefaultAgent \in Agents /\ None \notin Agents \cup Jobs
  /\ Nameless \notin Jobs \cup {None} /\ ByHand \subseteq Jobs
  /\ Daily \in Jobs \cup {None}
  /\ Daily \in Jobs => Kind[Daily] = "repeat" /\ AgentOf[Daily] = None
  /\ MaxTurns \in Nat /\ MaxOps \in Nat /\ MaxStarts \in Nat

VARIABLES
  jobs,      \* store_.jobs, with next_run_at_ms none, later or due
  capacity,  \* of that vector
  file,      \* the jobs file, or Unreadable
  past,      \* one-time jobs whose time has come
  used,      \* ids that were added; a generated id is never used again
  phase,     \* the main thread
  running,   \* running_ of the heartbeat and of the cron service
  starts,    \* how often the process was started
  hb,        \* the heartbeat thread: where it is
  round,     \* RunDueJobs: loop index, end of the loop, the job it runs, ...
  turn,      \* the agent whose process_mutex_ a thread holds
  ops,       \* uses of the cron tool in that turn
  turns,     \* turns on the inbound thread so far
  hand,      \* the job a thread is running in RunJob
  saving,    \* threads between the opening of the file and the write
  data,      \* what they write
  runs,      \* history: runs of a one-time job that RunDueJobs started
  disturbed  \* history: while a job was running others were "moved" in the
             \* vector, or the vector was reallocated and the old one "freed"

store == <<jobs, capacity>>
time == <<past, used>>
proc == <<phase, running, starts>>
turnVars == <<turn, ops, turns, hand>>
saveVars == <<saving, data, file>>
hist == <<runs, disturbed>>
vars == <<store, time, proc, hb, round, turnVars, saveVars, hist>>

Threads == {"heartbeat", "inbound", "main"}

IdleRound == [at |-> 1, end |-> 0, job |-> None, dangling |-> FALSE,
              changed |-> FALSE, notYet |-> {}]

Init ==
  /\ jobs = <<>> /\ capacity = 0 /\ file = <<>>
  /\ past = {} /\ used = {}
  /\ phase = "begin" /\ running = FALSE /\ starts = 1
  /\ hb = "off" /\ round = IdleRound
  /\ turn = [th \in Threads |-> None] /\ ops = [th \in Threads |-> 0]
  /\ turns = 0 /\ hand = [th \in Threads |-> None]
  /\ saving = [th \in Threads |-> FALSE] /\ data = [th \in Threads |-> <<>>]
  /\ runs = [j \in Jobs |-> 0] /\ disturbed = "no"

----------------------------------------------------------------------------
(* The store *)

Has(j) == \E k \in DOMAIN jobs : jobs[k].id = j

\* ComputeNextRun: a one-time job has no next run once its time has come.
ComputeNextRun(j) ==
  IF Kind[j] # "repeat" /\ j \in past THEN "none" ELSE "later"

\* The round is between two jobs of the loop only while a callback runs.
InCallback == hb \in {"call", "turn", "called"}

\* Doubled when it is exceeded.
Grown(c, n) == IF n <= c THEN c ELSE IF c = 0 THEN 1 ELSE 2 * c

\* The capacity after n insertions into an empty vector.
LoadedCapacity(n) ==
  LET after[k \in 0..n] == IF k = 0 THEN 0 ELSE Grown(after[k - 1], k)
  IN after[n]

Idle(th) == ~saving[th] /\ hand[th] = None

\* SaveStore builds the document and opens the file, which truncates it, ...
BeginSave(th, js) ==
  /\ saving' = [saving EXCEPT ![th] = TRUE]
  /\ data' = [data EXCEPT ![th] =
       [k \in DOMAIN js |-> [id |-> js[k].id, enabled |-> js[k].enabled]]]
  /\ file' = Unreadable

\* ... and writes it. When another thread has written since, the longer text
\* of the two may stick out at the end.
WriteFile(th) ==
  /\ saving[th]
  /\ saving' = [saving EXCEPT ![th] = FALSE]
  /\ data' = [data EXCEPT ![th] = <<>>]
  /\ \/ file' = data[th]
     \/ file # Unreadable /\ file' = Unreadable
  /\ UNCHANGED <<store, time, proc, hb, round, turnVars, hist>>

\* What an insertion or a removal does to a loop that is in a callback.
Disturbs(grows) ==
  /\ disturbed' = IF ~InCallback \/ disturbed = "freed" THEN disturbed
                  ELSE IF grows THEN "freed" ELSE "moved"
  /\ round' = [round EXCEPT !.dangling = @ \/ (InCallback /\ grows)]

Insert(th, j) ==
  LET js == Append(jobs, [id |-> j, enabled |-> TRUE, next |-> ComputeNextRun(j)])
  IN /\ jobs' = js
     /\ capacity' = Grown(capacity, Len(js))
     /\ used' = used \cup {j}
     /\ Disturbs(Len(js) > capacity)
     /\ BeginSave(th, js)

Erase(th, j) ==
  LET js == EntriesAt(jobs, {k \in DOMAIN jobs : jobs[k].id # j})
  IN /\ jobs' = js
     /\ Disturbs(FALSE)
     /\ BeginSave(th, js)

----------------------------------------------------------------------------
(* The cron tool, used in a turn of an agent on thread th. A turn for the  *)
(* heartbeat itself uses it like one on the inbound thread, and is left    *)
(* out.                                                                    *)

UsesTool(th) ==
  /\ turn[th] # None /\ Idle(th)
  /\ th = "heartbeat" => hb = "turn"
  /\ ops[th] < MaxOps
  /\ ops' = [ops EXCEPT ![th] = @ + 1]

\* AddJob refuses a one-time job whose time has passed.
AddJob(th, j) ==
  /\ UsesTool(th)
  /\ j \notin used \cup {Daily}
  /\ ComputeNextRun(j) # "none"
  /\ Insert(th, j)
  /\ UNCHANGED <<past, proc, hb, turn, turns, hand, runs>>

RemoveJob(th, j) ==
  /\ UsesTool(th)
  /\ Has(j)
  /\ Erase(th, j)
  /\ UNCHANGED <<capacity, time, proc, hb, turn, turns, hand, runs>>

EnableJob(th, j, enabled) ==
  /\ UsesTool(th)
  /\ Has(j)
  /\ LET js == [k \in DOMAIN jobs |->
           IF jobs[k].id # j THEN jobs[k]
           ELSE [id |-> j, enabled |-> enabled,
                 next |-> IF enabled THEN ComputeNextRun(j) ELSE "none"]]
     IN jobs' = js /\ BeginSave(th, js)
  /\ UNCHANGED <<capacity, time, proc, hb, round, turn, turns, hand, hist>>

\* RunJob, also of a job that is not enabled when it is forced.
RunJob(th, j) ==
  /\ UsesTool(th)
  /\ j \in ByHand /\ Has(j)
  /\ hand' = [hand EXCEPT ![th] = j]
  /\ UNCHANGED <<store, time, proc, hb, round, turn, turns, saveVars, hist>>

AgentFree(a) == a = None \/ \A th \in Threads : turn[th] # a

\* ExecuteJob after the callback: the job is looked up again by its id. What
\* it writes into one that has none, which is about to be erased, is left out.
AfterRun(j) ==
  [k \in DOMAIN jobs |->
     IF jobs[k].id # j \/ j = Nameless THEN jobs[k]
     ELSE CASE Kind[j] = "at" -> jobs[k]
            [] Kind[j] = "atKept" ->
                 [jobs[k] EXCEPT !.enabled = FALSE, !.next = "none"]
            [] Kind[j] = "repeat" -> [jobs[k] EXCEPT !.next = "later"]]

\* The rest of RunJob: its callback enters and leaves the job's agent (what
\* that agent does is left out), and whether the job was to be removed is
\* ignored.
RunByHand(th) ==
  /\ hand[th] # None
  /\ AgentFree(AgentOf[hand[th]])
  /\ hand' = [hand EXCEPT ![th] = None]
  /\ jobs' = AfterRun(hand[th]) /\ BeginSave(th, jobs')
  /\ UNCHANGED <<capacity, time, proc, hb, round, turn, ops, turns, hist>>

\* A user's message: the inbound thread enters an agent, ...
TurnBegins(a) ==
  /\ phase # "down" /\ turns < MaxTurns
  /\ turn["inbound"] = None /\ AgentFree(a)
  /\ turn' = [turn EXCEPT !["inbound"] = a]
  /\ ops' = [ops EXCEPT !["inbound"] = 0]
  /\ turns' = turns + 1
  /\ UNCHANGED <<store, time, proc, hb, round, hand, saveVars, hist>>

\* ... and leaves it.
TurnEnds ==
  /\ turn["inbound"] # None /\ Idle("inbound")
  /\ turn' = [turn EXCEPT !["inbound"] = None]
  /\ UNCHANGED <<store, time, proc, hb, round, ops, turns, hand, saveVars, hist>>

----------------------------------------------------------------------------
(* The heartbeat thread: RunLoop, Tick, RunDueJobs, ExecuteJob *)

HbStep(from, to) == hb = from /\ hb' = to

\* After a sleep: RunDueJobs reads the clock once and fixes the loop's end.
Tick ==
  /\ HbStep("sleep", IF running THEN "scan" ELSE "exited")
  /\ round' = [IdleRound EXCEPT !.end = Len(jobs)]
  /\ UNCHANGED <<store, time, proc, turnVars, saveVars, hist>>

\* Mutant of DueAt: the loop ends before the last job.
DueBeforeLast ==
  {k \in DOMAIN jobs :
     /\ round.at <= k /\ k < round.end
     /\ jobs[k].enabled /\ jobs[k].next = "due"
     /\ jobs[k].id \notin round.notYet}

\* The positions the loop still has to look at and where it finds a due job.
DueAt ==
  {k \in DOMAIN jobs :
     /\ round.at <= k /\ k <= round.end
     /\ jobs[k].enabled /\ jobs[k].next = "due"
     /\ jobs[k].id \notin round.notYet}

Counted(j) ==
  runs' = IF Kind[j] = "repeat" THEN runs ELSE [runs EXCEPT ![j] = @ + 1]

\* The loop comes to the next due job and takes a snapshot for its callback.
NextDue ==
  /\ ~round.dangling
  /\ \E k \in DueAt :
       /\ \A l \in DueAt : k <= l
       /\ HbStep("scan", "call")
       /\ round' = [round EXCEPT !.at = k, !.job = jobs[k].id, !.changed = TRUE]
       /\ Counted(jobs[k].id)
  /\ UNCHANGED <<store, time, proc, turnVars, saveVars, disturbed>>

\* The loop comes to the remains of a job, in freed memory or behind the end
\* of the vector, and finds that it is due.
NextStale ==
  /\ HbStep("scan", "call")
  /\ \E k \in 1..round.end :
       /\ round.at <= k
       /\ round.dangling \/ (DueAt = {} /\ k > Len(jobs))
       /\ round' = [round EXCEPT !.at = k, !.job = Nameless, !.changed = TRUE]
  /\ UNCHANGED <<store, time, proc, turnVars, saveVars, hist>>

\* A job that names no agent is for the default one.
RunBy(j) == IF j = Nameless THEN {None, DefaultAgent} ELSE {AgentOf[j]}

\* on_cron: a delivery is published, another job is a turn of its agent.
Deliver ==
  /\ HbStep("call", "called") /\ None \in RunBy(round.job)
  /\ UNCHANGED <<store, time, proc, round, turnVars, saveVars, hist>>

CallbackEnters ==
  /\ HbStep("call", "turn")
  /\ \E a \in RunBy(round.job) \ {None} :
       AgentFree(a) /\ turn' = [turn EXCEPT !["heartbeat"] = a]
  /\ ops' = [ops EXCEPT !["heartbeat"] = 0]
  /\ UNCHANGED <<store, time, proc, round, turns, hand, saveVars, hist>>

CallbackLeaves ==
  /\ Idle("heartbeat")
  /\ HbStep("turn", "called")
  /\ turn' = [turn EXCEPT !["heartbeat"] = None]
  /\ UNCHANGED <<store, time, proc, round, ops, turns, hand, saveVars, hist>>

\* Mutant of Executed: the loop does not look whether the job is to be removed.
ExecutedForgets ==
  /\ HbStep("called", "scan")
  /\ jobs' = AfterRun(round.job)
  /\ round' = [round EXCEPT !.at = @ + 1, !.job = None]
  /\ UNCHANGED <<capacity, time, proc, turnVars, saveVars, hist>>

\* The job, found by its id, gets its next run (of what has no id, what kind
\* it was is not known). A one-time job, or one that
\* is gone, is to be removed: the loop clears the id of what its reference
\* now refers to, which is lost when that is freed or behind the end.
Executed ==
  LET js == AfterRun(round.job)
      toRemove == IF ~Has(round.job) THEN {TRUE}
                  ELSE IF round.job = Nameless THEN BOOLEAN
                  ELSE {Kind[round.job] = "at"}
  IN /\ HbStep("called", "scan")
     /\ \E remove \in toRemove : jobs' = IF remove /\ ~round.dangling /\ round.at \in DOMAIN js
                THEN [js EXCEPT ![round.at].enabled = FALSE,
                                ![round.at].id = Nameless]
                ELSE js
     /\ round' = [round EXCEPT !.at = @ + 1, !.job = None]
     /\ UNCHANGED <<capacity, time, proc, turnVars, saveVars, hist>>

\* The end of the loop: what has no id is erased, and saved.
RoundEnds ==
  /\ round.dangling \/ DueAt = {}
  /\ HbStep("scan", "beat")
  /\ IF round.changed
     THEN /\ jobs' = EntriesAt(jobs, {k \in DOMAIN jobs : jobs[k].id # Nameless})
          /\ BeginSave("heartbeat", jobs')
     ELSE UNCHANGED <<jobs, saveVars>>
  /\ round' = IdleRound
  /\ UNCHANGED <<capacity, time, proc, turnVars, hist>>

\* HEARTBEAT.md says nothing, or it is a turn of the default agent.
BeatSkipped ==
  /\ Idle("heartbeat")
  /\ HbStep("beat", "sleep")
  /\ UNCHANGED <<store, time, proc, round, turnVars, saveVars, hist>>

BeatEnters ==
  /\ Idle("heartbeat") /\ AgentFree(DefaultAgent)
  /\ HbStep("beat", "beatTurn")
  /\ turn' = [turn EXCEPT !["heartbeat"] = DefaultAgent]
  /\ ops' = [ops EXCEPT !["heartbeat"] = 0]
  /\ UNCHANGED <<store, time, proc, round, turns, hand, saveVars, hist>>

BeatLeaves ==
  /\ Idle("heartbeat")
  /\ HbStep("beatTurn", "sleep")
  /\ turn' = [turn EXCEPT !["heartbeat"] = None]
  /\ UNCHANGED <<store, time, proc, round, ops, turns, hand, saveVars, hist>>

----------------------------------------------------------------------------
(* The main thread and the process *)

MainStep(from, to) ==
  /\ phase = from /\ phase' = to /\ ~saving["main"]
  /\ UNCHANGED starts

\* CronService::Start: RecomputeNextRuns gives every enabled job a new next
\* run and drops the one-time jobs that have none.
CronStarts ==
  /\ MainStep("begin", "thread")
  /\ running' = TRUE
  /\ LET missed(e) == e.enabled /\ e.id \in Jobs /\ ComputeNextRun(e.id) = "none"
         recomputed(e) == IF e.enabled /\ e.id \in Jobs
                          THEN [e EXCEPT !.next = ComputeNextRun(e.id)] ELSE e
         kept == EntriesAt(jobs, {k \in DOMAIN jobs : ~missed(jobs[k])})
     IN /\ jobs' = [k \in DOMAIN kept |-> recomputed(kept[k])]
        /\ BeginSave("main", jobs')
  /\ UNCHANGED <<capacity, time, hb, round, turnVars, hist>>

HeartbeatBegins ==
  /\ MainStep("thread", "daily")
  /\ HbStep("off", "sleep")
  /\ UNCHANGED <<store, time, running, round, turnVars, saveVars, hist>>

\* EnsureDailySummaryJobs removes the daily job of an earlier run of the
\* process, ...
DailyCleared ==
  /\ MainStep("daily", "dailyAdd")
  /\ IF Has(Daily) THEN Erase("main", Daily)
     ELSE UNCHANGED <<jobs, round, saveVars, disturbed>>
  /\ UNCHANGED <<capacity, time, running, hb, turnVars, runs>>

\* ... and adds it again.
DailyAdded ==
  /\ MainStep("dailyAdd", "on")
  /\ IF Daily = None
     THEN UNCHANGED <<store, used, round, saveVars, disturbed>>
     ELSE Insert("main", Daily)
  /\ UNCHANGED <<past, running, hb, turnVars, runs>>

\* A signal: task_runtime.Stop removes the daily job, ...
DailyRemoved ==
  /\ MainStep("on", "stopping")
  /\ IF Has(Daily) THEN Erase("main", Daily)
     ELSE UNCHANGED <<jobs, round, saveVars, disturbed>>
  /\ UNCHANGED <<capacity, time, running, hb, turnVars, runs>>

\* ... and heartbeat.Stop joins the heartbeat thread.
HeartbeatStops ==
  /\ MainStep("stopping", "joining")
  /\ running' = FALSE
  /\ UNCHANGED <<store, time, hb, round, turnVars, saveVars, hist>>

HeartbeatJoined ==
  /\ MainStep("joining", "off")
  /\ hb = "exited"
  /\ UNCHANGED <<store, time, running, hb, round, turnVars, saveVars, hist>>

\* The process ends: orderly, or at any moment.
ProcessEnds ==
  /\ phase = "off" \/ (phase # "down" /\ starts < MaxStarts)
  /\ phase' = "down" /\ running' = FALSE /\ hb' = "off" /\ round' = IdleRound
  /\ jobs' = <<>> /\ capacity' = 0
  /\ turn' = [th \in Threads |-> None] /\ ops' = [th \in Threads |-> 0]
  /\ hand' = [th \in Threads |-> None]
  /\ saving' = [th \in Threads |-> FALSE] /\ data' = [th \in Threads |-> <<>>]
  /\ UNCHANGED <<file, time, starts, turns, hist>>

\* LoadStore, before the first use of the store. A file that is not valid
\* JSON is an empty store.
ProcessStarts ==
  /\ phase = "down" /\ starts < MaxStarts
  /\ phase' = "begin" /\ starts' = starts + 1
  /\ jobs' = IF file = Unreadable THEN <<>>
             ELSE [k \in DOMAIN file |->
                     [id |-> file[k].id, enabled |-> file[k].enabled, next |-> "none"]]
  /\ capacity' = LoadedCapacity(Len(jobs'))
  /\ UNCHANGED <<file, time, running, hb, round, turnVars, saving, data, hist>>

\* The time of a job comes, whether or not it is in the store by then.
TimeComes(j) ==
  /\ Kind[j] # "repeat" => j \notin past
  /\ Kind[j] = "repeat" => \E k \in DOMAIN jobs : jobs[k].id = j /\ jobs[k].next = "later"
  /\ past' = IF Kind[j] = "repeat" THEN past ELSE past \cup {j}
  /\ jobs' = [k \in DOMAIN jobs |->
       IF jobs[k].id = j /\ jobs[k].next = "later"
       THEN [jobs[k] EXCEPT !.next = "due"] ELSE jobs[k]]
  /\ round' = IF hb \in {"scan", "call", "turn", "called"}
              THEN [round EXCEPT !.notYet = @ \cup {j}] ELSE round
  /\ UNCHANGED <<capacity, used, proc, hb, turnVars, saveVars, hist>>

----------------------------------------------------------------------------
ThreadNext(th) ==
  \/ WriteFile(th) \/ RunByHand(th)
  \/ \E j \in Jobs : AddJob(th, j) \/ RemoveJob(th, j) \/ RunJob(th, j)
  \/ \E j \in Jobs, enabled \in BOOLEAN : EnableJob(th, j, enabled)

HeartbeatNext ==
  \/ Tick \/ NextDue \/ NextStale \/ Deliver \/ CallbackEnters \/ CallbackLeaves \/ Executed
  \/ RoundEnds \/ BeatSkipped \/ BeatEnters \/ BeatLeaves
  \/ ThreadNext("heartbeat")

InboundNext == TurnEnds \/ ThreadNext("inbound")

MainNext ==
  \/ CronStarts \/ HeartbeatBegins \/ DailyCleared \/ DailyAdded \/ HeartbeatStops
  \/ HeartbeatJoined \/ ThreadNext("main")

Next ==
  \/ HeartbeatNext \/ InboundNext \/ MainNext \/ DailyRemoved
  \/ ProcessEnds \/ ProcessStarts
  \/ \E a \in Agents : TurnBegins(a)
  \/ \E j \in Jobs : TimeComes(j)

Spec == Init /\ [][Next]_vars

\* Every thread runs, and a turn ends: it uses the tool at most MaxOps times.
\* Nobody has to write, to ask for a stop, or to let time pass.
Fairness == WF_vars(HeartbeatNext) /\ WF_vars(InboundNext) /\ WF_vars(MainNext)

FairSpec == Spec /\ Fairness

----------------------------------------------------------------------------
(* Properties *)

Entry == [id : Jobs \cup {Nameless}, enabled : BOOLEAN, next : {"none", "later", "due"}]
Saved == [id : Jobs \cup {Nameless}, enabled : BOOLEAN]

\* Every variable keeps its type, the vector never exceeds its capacity, and
\* no id is in it twice, although the daily job's is used in every run of the
\* process.
TypeOK ==
  /\ jobs \in Seq(Entry) /\ capacity \in Nat /\ Len(jobs) <= capacity
  /\ \A k, l \in DOMAIN jobs :
       jobs[k].id = jobs[l].id => k = l \/ jobs[k].id = Nameless
  /\ file = Unreadable \/ file \in Seq(Saved)
  /\ past \subseteq Jobs /\ used \subseteq Jobs
  /\ phase \in {"begin", "thread", "daily", "dailyAdd", "on", "stopping", "joining",
                "off", "down"}
  /\ running \in BOOLEAN /\ starts \in Nat
  /\ hb \in {"off", "sleep", "scan", "call", "turn", "called", "beat",
             "beatTurn", "exited"}
  /\ round \in [at : Nat, end : Nat, job : Jobs \cup {None, Nameless},
                dangling : BOOLEAN, changed : BOOLEAN, notYet : SUBSET Jobs]
  /\ turn \in [Threads -> Agents \cup {None}]
  /\ ops \in [Threads -> Nat] /\ turns \in Nat
  /\ hand \in [Threads -> Jobs \cup {None}]
  /\ saving \in [Threads -> BOOLEAN]
  /\ data \in [Threads -> Seq(Saved)]
  /\ runs \in [Jobs -> Nat] /\ disturbed \in {"no", "moved", "freed"}

RunsOnce == \A j \in Jobs : Kind[j] # "repeat" => runs[j] <= 1

\* A one-time job is run once by the clock, across crashes and restarts and
\* whatever is switched or run by hand meanwhile, as long as no job is added
\* or removed while one runs.
OnceIfUndisturbed == disturbed = "no" => RunsOnce

Due(j) == running /\ \E k \in DOMAIN jobs :
  jobs[k].id = j /\ jobs[k].enabled /\ jobs[k].next = "due"

\* A due job does not stay due for ever: it is run, or switched off, or gone.
DueIsRun == \A j \in Jobs : Due(j) ~> ~Due(j)

=============================================================================
