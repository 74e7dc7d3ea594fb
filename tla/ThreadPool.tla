----------------------------- MODULE ThreadPool -----------------------------
(***************************************************************************)
(* The thread pool of the gateway (src/utils/thread_pool.hpp): a bounded   *)
(* set of workers, an unbounded queue, and two condition variables, one    *)
(* for the workers and one for WaitForEmpty.                               *)
(*                                                                         *)
(* A step is a critical section of queue_mutex_ or active_mutex_, a        *)
(* notification, or the run of a task. A thread in wait() is asleep until  *)
(* it is notified; it then evaluates the predicate again under the mutex.  *)
(***************************************************************************)
EXTENDS Naturals, Sequences, FiniteSets

CONSTANTS
  Workers,  \* threads of the pool
  Tasks,    \* tasks submitted, each by a thread of its own
  Waiters,  \* threads that call WaitForEmpty
  None      \* no task

\* The task runtime asks for one worker at least.
ASSUME PoolAssumption ==
  /\ None \notin Tasks /\ IsFiniteSet(Tasks)
  /\ Workers # {} /\ IsFiniteSet(Workers)

VARIABLES
  tasks,         \* tasks_
  stop,          \* stop_
  active_count,  \* active_count_
  worker,        \* each worker: where it is
  task,          \* each worker: the task it holds
  submit,        \* Submit of each task: where it is
  ran,           \* tasks that have been executed
  closer,        \* Shutdown: where it is
  waiter         \* WaitForEmpty of each waiter: where it is

vars == <<tasks, stop, active_count, worker, task, submit, ran, closer, waiter>>

Accepted == {t \in Tasks : submit[t] \in {"notify", "accepted"}}

\* notify_one: some thread that sleeps in wait() gets to its predicate again,
\* and without such a thread the notification is lost.
NotifyOne(pc, pcNext) ==
  IF \A x \in DOMAIN pc : pc[x] # "asleep"
  THEN pcNext = pc
  ELSE \E x \in DOMAIN pc :
         pc[x] = "asleep" /\ pcNext = [pc EXCEPT ![x] = "awake"]

Init ==
  /\ tasks = <<>>
  /\ stop = FALSE
  /\ active_count = 0
  /\ worker = [w \in Workers |-> "awake"]
  /\ task = [w \in Workers |-> None]
  /\ submit = [t \in Tasks |-> "begin"]
  /\ ran = {}
  /\ closer = "begin"
  /\ waiter = [x \in Waiters |-> "begin"]

----------------------------------------------------------------------------
(* Submit *)

\* Mutant of Push: a task is queued in a pool that is shutting down.
PushAfterStop(t) ==
  /\ submit[t] = "begin"
  /\ tasks' = Append(tasks, t)
  /\ submit' = [submit EXCEPT ![t] = "notify"]
  /\ UNCHANGED <<stop, active_count, worker, task, ran, closer, waiter>>

Push(t) ==
  /\ submit[t] = "begin"
  /\ IF stop
     THEN /\ submit' = [submit EXCEPT ![t] = "refused"]
          /\ UNCHANGED tasks
     ELSE /\ submit' = [submit EXCEPT ![t] = "notify"]
          /\ tasks' = Append(tasks, t)
  /\ UNCHANGED <<stop, active_count, worker, task, ran, closer, waiter>>

NotifyWorker(t) ==
  /\ submit[t] = "notify"
  /\ submit' = [submit EXCEPT ![t] = "accepted"]
  /\ NotifyOne(worker, worker')
  /\ UNCHANGED <<tasks, stop, active_count, task, ran, closer, waiter>>

----------------------------------------------------------------------------
(* A worker *)

Sleep(w) ==
  /\ worker[w] = "awake"
  /\ ~stop /\ tasks = <<>>
  /\ worker' = [worker EXCEPT ![w] = "asleep"]
  /\ UNCHANGED <<tasks, stop, active_count, task, submit, ran, closer, waiter>>

\* Mutant of Exit: the queue is not drained.
ExitAtOnce(w) ==
  /\ worker[w] = "awake"
  /\ stop
  /\ worker' = [worker EXCEPT ![w] = "exited"]
  /\ UNCHANGED <<tasks, stop, active_count, task, submit, ran, closer, waiter>>

Exit(w) ==
  /\ worker[w] = "awake"
  /\ stop /\ tasks = <<>>
  /\ worker' = [worker EXCEPT ![w] = "exited"]
  /\ UNCHANGED <<tasks, stop, active_count, task, submit, ran, closer, waiter>>

\* A wait() may return without a notification.
WakesUnasked(w) ==
  /\ worker[w] = "asleep"
  /\ worker' = [worker EXCEPT ![w] = "awake"]
  /\ UNCHANGED <<tasks, stop, active_count, task, submit, ran, closer, waiter>>

\* Mutant of Pop: front without pop.
PopKeeping(w) ==
  /\ worker[w] = "awake"
  /\ tasks # <<>>
  /\ task' = [task EXCEPT ![w] = Head(tasks)]
  /\ worker' = [worker EXCEPT ![w] = "popped"]
  /\ UNCHANGED <<tasks, stop, active_count, submit, ran, closer, waiter>>

Pop(w) ==
  /\ worker[w] = "awake"
  /\ tasks # <<>>
  /\ task' = [task EXCEPT ![w] = Head(tasks)]
  /\ tasks' = Tail(tasks)
  /\ worker' = [worker EXCEPT ![w] = "popped"]
  /\ UNCHANGED <<stop, active_count, submit, ran, closer, waiter>>

CountUp(w) ==
  /\ worker[w] = "popped"
  /\ active_count' = active_count + 1
  /\ worker' = [worker EXCEPT ![w] = "running"]
  /\ UNCHANGED <<tasks, stop, task, submit, ran, closer, waiter>>

Run(w) ==
  /\ worker[w] = "running"
  /\ ran' = ran \cup {task[w]}
  /\ task' = [task EXCEPT ![w] = None]
  /\ worker' = [worker EXCEPT ![w] = "ran"]
  /\ UNCHANGED <<tasks, stop, active_count, submit, closer, waiter>>

CountDown(w) ==
  /\ worker[w] = "ran"
  /\ active_count' = active_count - 1
  /\ worker' = [worker EXCEPT ![w] = "notify"]
  /\ UNCHANGED <<tasks, stop, task, submit, ran, closer, waiter>>

NotifyWaiter(w) ==
  /\ worker[w] = "notify"
  /\ worker' = [worker EXCEPT ![w] = "awake"]
  /\ NotifyOne(waiter, waiter')
  /\ UNCHANGED <<tasks, stop, active_count, task, submit, ran, closer>>

----------------------------------------------------------------------------
(* Shutdown *)

SetStop ==
  /\ closer = "begin"
  /\ stop' = TRUE
  /\ closer' = "notify"
  /\ UNCHANGED <<tasks, active_count, worker, task, submit, ran, waiter>>

NotifyAll ==
  /\ closer = "notify"
  /\ worker' = [w \in Workers |->
                  IF worker[w] = "asleep" THEN "awake" ELSE worker[w]]
  /\ closer' = "join"
  /\ UNCHANGED <<tasks, stop, active_count, task, submit, ran, waiter>>

Joined ==
  /\ closer = "join"
  /\ \A w \in Workers : worker[w] = "exited"
  /\ closer' = "end"
  /\ UNCHANGED <<tasks, stop, active_count, worker, task, submit, ran, waiter>>

----------------------------------------------------------------------------
(* WaitForEmpty *)

WaitBegins(x) ==
  /\ waiter[x] = "begin"
  /\ waiter' = [waiter EXCEPT ![x] = "awake"]
  /\ UNCHANGED <<tasks, stop, active_count, worker, task, submit, ran, closer>>

WaitEvaluates(x) ==
  /\ waiter[x] = "awake"
  /\ waiter' = [waiter EXCEPT ![x] =
       IF active_count = 0 THEN "true" ELSE "asleep"]
  /\ UNCHANGED <<tasks, stop, active_count, worker, task, submit, ran, closer>>

WaitTimesOut(x) ==
  /\ waiter[x] = "asleep"
  /\ waiter' = [waiter EXCEPT ![x] = IF active_count = 0 THEN "true" ELSE "false"]
  /\ UNCHANGED <<tasks, stop, active_count, worker, task, submit, ran, closer>>

----------------------------------------------------------------------------
WorkerNext(w) ==
  \/ Sleep(w) \/ Exit(w) \/ Pop(w) \/ CountUp(w) \/ Run(w) \/ CountDown(w)
  \/ NotifyWaiter(w)

Next ==
  \/ \E t \in Tasks : Push(t) \/ NotifyWorker(t)
  \/ \E w \in Workers : WorkerNext(w) \/ WakesUnasked(w)
  \/ SetStop \/ NotifyAll \/ Joined
  \/ \E x \in Waiters : WaitBegins(x) \/ WaitEvaluates(x) \/ WaitTimesOut(x)

Spec == Init /\ [][Next]_vars

----------------------------------------------------------------------------
(* Properties *)

WorkerPc == {"awake", "asleep", "popped", "running", "ran", "notify", "exited"}

\* Every variable keeps its type; the count of active tasks never passes
\* zero, where the code's unsigned counter would wrap.
TypeOK ==
  /\ tasks \in Seq(Tasks)
  /\ stop \in BOOLEAN
  /\ active_count \in Nat
  /\ worker \in [Workers -> WorkerPc]
  /\ task \in [Workers -> Tasks \cup {None}]
  /\ submit \in [Tasks -> {"begin", "notify", "accepted", "refused"}]
  /\ ran \in SUBSET Tasks
  /\ closer \in {"begin", "notify", "join", "end"}
  /\ waiter \in [Waiters -> {"begin", "awake", "asleep", "true", "false"}]

Queued == {tasks[i] : i \in 1..Len(tasks)}
Held == {task[w] : w \in Workers} \ {None}

\* An accepted task is in the queue once, with one worker, or executed, and
\* nothing else is: no task is lost or executed twice.
OnePlace ==
  /\ Accepted = Queued \cup Held \cup ran
  /\ Queued \cap Held = {} /\ Queued \cap ran = {} /\ Held \cap ran = {}
  /\ \A i, j \in 1..Len(tasks) : tasks[i] = tasks[j] => i = j
  /\ \A v, w \in Workers : task[v] = task[w] /\ task[v] # None => v = w

\* While a worker sleeps, every queued task has a worker that is on its way to
\* the queue or a notification still to come: no wakeup is lost that would
\* leave a task behind a long one although a worker is free.
NoLostWakeup ==
  (\E w \in Workers : worker[w] = "asleep") =>
    Len(tasks) <= Cardinality({w \in Workers : worker[w] = "awake"})
                  + Cardinality({t \in Tasks : submit[t] = "notify"})

\* Shutdown returns when every accepted task has been executed and counted
\* down, and nothing is accepted afterwards: the WaitForEmpty that
\* TaskRuntime::Stop calls next is true of the queue as well as of the count.
ShutdownDrains == closer = "end" => Accepted = ran /\ active_count = 0

----------------------------------------------------------------------------
(* Fairness: threads are scheduled, tasks end, wait_for has its timeout.    *)
(* Nothing forces a task to be submitted or the pool to be shut down.       *)

Fairness ==
  /\ \A t \in Tasks : WF_vars(NotifyWorker(t))
  /\ \A w \in Workers : WF_vars(WorkerNext(w))
  /\ WF_vars(NotifyAll \/ Joined)

FairSpec == Spec /\ Fairness

\* Every accepted task is executed in the end.
AcceptedRuns == \A t \in Tasks : t \in Accepted ~> t \in ran

=============================================================================
