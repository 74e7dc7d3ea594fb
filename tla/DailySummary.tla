---------------------------- MODULE DailySummary ----------------------------
(***************************************************************************)
(* The daily upload of an agent's notes (src/task/task_runtime.cpp): cron  *)
(* jobs the runtime keeps in the job file while it runs, the upload at the *)
(* hour by the cron thread, and the record of the day that is saved with   *)
(* it.  The job file and the record file outlive the process, also when it *)
(* crashes; the task system may be switched off from one run of the        *)
(* process to the next.  Jobs of other kinds and the interleavings inside  *)
(* the cron service are those of Cron.                                     *)
(***************************************************************************)
EXTENDS Naturals, Sequences, SequencesExt, FiniteSets

CONSTANTS
  ManagedLocalAgents,  \* an agent for every enabled relay agent: may repeat one
  Days,                \* bound: days that begin
  Starts               \* bound: runs of the process

LocalAgents == ToSet(ManagedLocalAgents)

ASSUME SummaryAssumption ==
  /\ ManagedLocalAgents \in Seq(LocalAgents)
  /\ Days \in Nat /\ Starts \in Nat

VARIABLES
  jobs,         \* job file: how many summary jobs an agent has
  due,          \* how many of them the cron thread has still to run
  job_ids,      \* cron_job_ids_: agents whose jobs this run has added
  phase,        \* "down", "off": runs without the task system, "running", "stopped"
  records,      \* daily_summary_records_
  saved,        \* the record file
  today, struck,   \* the day, and whether its hour has come
  notes,        \* agents with notes of today
  thread,       \* the cron thread: the agent it uploads for, and how that went
  confirmed,    \* uploads of today that were confirmed
  starts

dvars == <<jobs, due, job_ids, phase, records, saved, today, struck, notes, thread,
           confirmed, starts>>

NoRecord == [date |-> 0, status |-> "none"]
Idle == [agent |-> "none", result |-> "none"]

\* How often s has e.
Times(s, e) == Cardinality({k \in DOMAIN s : s[k] = e})

DInit ==
  /\ jobs = [a \in LocalAgents |-> 0] /\ due = jobs /\ job_ids = {}
  /\ phase = "down"
  /\ records = [a \in LocalAgents |-> NoRecord] /\ saved = records
  /\ today = 1 /\ struck = FALSE /\ notes = {}
  /\ thread = Idle /\ confirmed = [a \in LocalAgents |-> 0] /\ starts = 0

----------------------------------------------------------------------------

\* Mutant of RemoveDailySummaryJobs: only jobs of this run.
RemoveOwnJobs(file) == [a \in LocalAgents |-> IF a \in job_ids THEN 0 ELSE file[a]]

\* The jobs this run knows or, when it knows none, all of the kind in the file.
RemoveDailySummaryJobs(file) ==
  [a \in LocalAgents |-> IF a \in job_ids \/ job_ids = {} THEN 0 ELSE file[a]]

EnsureDailySummaryJobs ==
  /\ jobs' = [a \in LocalAgents |->
                RemoveDailySummaryJobs(jobs)[a] + Times(ManagedLocalAgents, a)]
  /\ job_ids' = LocalAgents

\* TaskRuntime::Start, or a process whose configuration has no task system.
StartRuntime ==
  /\ phase = "down" /\ starts < Starts
  /\ phase' = "running" /\ records' = saved
  /\ EnsureDailySummaryJobs
  /\ due' = [a \in LocalAgents |-> 0] /\ starts' = starts + 1
  /\ UNCHANGED <<saved, today, struck, notes, thread, confirmed>>

StartWithoutTasks ==
  /\ phase = "down" /\ starts < Starts
  /\ phase' = "off" /\ due' = [a \in LocalAgents |-> 0] /\ starts' = starts + 1
  /\ UNCHANGED <<jobs, job_ids, records, saved, today, struck, notes, thread, confirmed>>

\* TaskRuntime::Stop; the cron thread is joined after it.
StopRuntime ==
  /\ phase = "running"
  /\ phase' = "stopped"
  /\ jobs' = RemoveDailySummaryJobs(jobs) /\ due' = [a \in LocalAgents |-> 0]
  /\ job_ids' = {} /\ saved' = records
  /\ UNCHANGED <<records, today, struck, notes, thread, confirmed, starts>>

ProcessGone ==
  /\ phase' = "down" /\ thread' = Idle /\ job_ids' = {}
  /\ records' = [a \in LocalAgents |-> NoRecord]
  /\ due' = [a \in LocalAgents |-> 0]
  /\ UNCHANGED <<jobs, saved, today, struck, notes, confirmed, starts>>

ProcessEnds == phase \in {"stopped", "off"} /\ thread = Idle /\ ProcessGone
Crash == phase # "down" /\ ProcessGone

\* SaveState as part of a change of the records.
Remember(a, status) ==
  /\ records' = [records EXCEPT ![a] = [date |-> today, status |-> status]]
  /\ saved' = records'

Fired(a) == due[a] > 0 /\ thread = Idle /\ due' = [due EXCEPT ![a] = @ - 1]

\* HandleCron declines when the task system is off: the job's text goes to the agent.
DeclineCron(a) ==
  /\ Fired(a) /\ phase = "off"
  /\ UNCHANGED <<jobs, job_ids, phase, records, saved, today, struck, notes, thread,
                 confirmed, starts>>

NothingToUpload(a) ==
  /\ Fired(a) /\ phase # "off" /\ a \notin notes
  /\ Remember(a, "skipped")
  /\ UNCHANGED <<jobs, job_ids, phase, today, struck, notes, thread, confirmed, starts>>

\* Mutant of AlreadyUploaded: the record of a failure is taken for that of success.
AlreadyAttempted(a) == records[a] = [date |-> today, status |-> "failed"]

AlreadyUploaded(a) == records[a] = [date |-> today, status |-> "uploaded"]

SkipUploaded(a) ==
  /\ Fired(a) /\ phase # "off" /\ a \in notes /\ AlreadyUploaded(a)
  /\ UNCHANGED <<jobs, job_ids, phase, records, saved, today, struck, notes, thread,
                 confirmed, starts>>

BeginUpload(a) ==
  /\ Fired(a) /\ phase # "off" /\ a \in notes /\ ~AlreadyUploaded(a)
  /\ thread' = [agent |-> a, result |-> "none"]
  /\ UNCHANGED <<jobs, job_ids, phase, records, saved, today, struck, notes, confirmed,
                 starts>>

\* The call of the relay, which may fail.
UploadDailySummary ==
  /\ thread # Idle /\ thread.result = "none"
  /\ \E result \in {"uploaded", "failed"} :
       /\ thread' = [thread EXCEPT !.result = result]
       /\ confirmed' = IF result = "uploaded"
                       THEN [confirmed EXCEPT ![thread.agent] = @ + 1] ELSE confirmed
  /\ UNCHANGED <<jobs, due, job_ids, phase, records, saved, today, struck, notes, starts>>

RecordUpload ==
  /\ thread.result # "none"
  /\ Remember(thread.agent, thread.result)
  /\ thread' = Idle
  /\ UNCHANGED <<jobs, due, job_ids, phase, today, struck, notes, confirmed, starts>>

\* The hour makes the jobs due, if a process is there to see it.  A day ends when its
\* jobs have run.
HourStrikes ==
  /\ ~struck /\ struck' = TRUE
  /\ due' = IF phase = "down" THEN due ELSE jobs
  /\ UNCHANGED <<jobs, job_ids, phase, records, saved, today, notes, thread, confirmed,
                 starts>>

NextDay ==
  /\ struck /\ today < Days /\ thread = Idle /\ \A a \in LocalAgents : due[a] = 0
  /\ today' = today + 1 /\ struck' = FALSE /\ notes' = {}
  /\ confirmed' = [a \in LocalAgents |-> 0]
  /\ UNCHANGED <<jobs, due, job_ids, phase, records, saved, thread, starts>>

TakeNotes(a) ==
  /\ a \notin notes /\ notes' = notes \cup {a}
  /\ UNCHANGED <<jobs, due, job_ids, phase, records, saved, today, struck, thread,
                 confirmed, starts>>

HandleCron(a) ==
  DeclineCron(a) \/ NothingToUpload(a) \/ SkipUploaded(a) \/ BeginUpload(a)

DNext ==
  \/ StartRuntime \/ StartWithoutTasks \/ StopRuntime \/ ProcessEnds \/ Crash
  \/ HourStrikes \/ NextDay \/ UploadDailySummary \/ RecordUpload
  \/ \E a \in LocalAgents : HandleCron(a) \/ TakeNotes(a)

DSpec == DInit /\ [][DNext]_dvars

----------------------------------------------------------------------------
(* Properties *)

\* The notes of a day are uploaded once, although an agent may have several jobs that
\* fire at the hour, a process may crash between the upload and its record, and
\* another may come up on the same day.
UploadedOnce == \A a \in LocalAgents : confirmed[a] <= 1

\* A running task system has the jobs of its configuration in the job file and no
\* others: those of a process that crashed do not pile up.
JobsAsConfigured ==
  phase = "running" =>
    \A a \in LocalAgents : jobs[a] = Times(ManagedLocalAgents, a)
=============================================================================
