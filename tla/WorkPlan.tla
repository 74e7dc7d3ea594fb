------------------------------ MODULE WorkPlan ------------------------------
(***************************************************************************)
(* The plan_work tool (src/agent/tools/plan_work.cpp): it looks up the     *)
(* project at the relay server, has the model decompose an instruction     *)
(* into tasks (src/agent/planning/task_decomposer.cpp), puts them into the *)
(* order of their dependencies, and submits them one by one over the HTTP  *)
(* session of the first relay worker, which repeats a request once.        *)
(*                                                                         *)
(* A step of a request is a connect, a write with what the server does, or *)
(* a read.  Instructions, priorities and the wording of errors are left    *)
(* out, and so are the other threads that use the session without a lock.  *)
(***************************************************************************)
EXTENDS Integers, Sequences, SequencesExt, FiniteSets, Selection

CONSTANTS
  Replies,          \* replies of the model, see Valid
  MaxTasksPerPlan,  \* max_tasks_per_plan
  NoText            \* a title or an instruction that is missing

\* A reply is a list of tasks, each with title, instruction and the titles it
\* depends on, or of the kind "unusable": the call threw, or the reply is empty,
\* no JSON, or JSON of another form.
Text == STRING \cup {NoText}
Task == [title : Text, instruction : Text, depends_on : Seq(STRING)]

ASSUME PlanAssumption ==
  /\ MaxTasksPerPlan \in Nat
  /\ \A reply \in Replies : reply.tasks \in Seq(Task)

VARIABLES
  stage,      \* where Execute is
  relay,      \* what stands behind relay_manager_: no manager, no workers, or one
  asked,      \* the tasks of the reply, in its order
  plan,       \* positions in asked still to be submitted, in their order
  outcomes,   \* what the summary says: <<position, success>> in order
  call,       \* where DoRequest is
  attempt,    \* 1, or 2 after a failure
  connected,  \* connected_
  response,   \* the response on its way
  created     \* tasks the server has created, in order

pvars == <<stage, relay, asked, plan, outcomes, call, attempt, connected,
           response, created>>
request == <<call, attempt, connected, response>>

PInit ==
  /\ stage = "begin"
  /\ relay \in {"no manager", "no workers", "worker"}
  /\ asked = <<>> /\ plan = <<>> /\ outcomes = <<>>
  /\ call = "none" /\ attempt = 1 /\ connected \in BOOLEAN
  /\ response = "none"
  /\ created = <<>>

----------------------------------------------------------------------------
(* TaskDecomposer *)

\* ValidateResponse, and the limit of Decompose.
Valid(reply) ==
  /\ reply.kind = "tasks"
  /\ Len(reply.tasks) <= MaxTasksPerPlan
  /\ \A i \in DOMAIN reply.tasks :
       reply.tasks[i].title # NoText /\ reply.tasks[i].instruction # NoText

\* The last task of a title.
title_to_index(tasks, title) ==
  CHOOSE i \in DOMAIN tasks :
    /\ tasks[i].title = title
    /\ \A j \in DOMAIN tasks : tasks[j].title = title => j <= i

Known(tasks, title) == \E i \in DOMAIN tasks : tasks[i].title = title

\* The tasks that task i waits for, as often as it names them; titles that no
\* task has are ignored.
Prerequisites(tasks, i) ==
  LET depends_on == tasks[i].depends_on
      named == EntriesAt(depends_on, {n \in DOMAIN depends_on : Known(tasks, depends_on[n])})
  IN [n \in DOMAIN named |-> title_to_index(tasks, named[n])]

Occurrences(s, x) == Cardinality({n \in DOMAIN s : s[n] = x})

\* One turn of the loop: the front of the queue is visited, and what waited for
\* nothing else is queued behind the others.
Visit(tasks, s) ==
  LET u == Head(s.queue)
      left == [v \in DOMAIN tasks |->
                 s.in_degree[v] - Occurrences(Prerequisites(tasks, v), u)]
      freed == EntriesAt([v \in DOMAIN tasks |-> v],
                         {v \in DOMAIN tasks : s.in_degree[v] > 0 /\ left[v] = 0})
  IN [queue |-> Tail(s.queue) \o freed, in_degree |-> left,
      visited |-> Append(s.visited, u)]

\* Kahn's algorithm, which DetectCycle and TopoSort both run.
Visited(tasks) ==
  LET in_degree == [i \in DOMAIN tasks |-> Len(Prerequisites(tasks, i))]
      start == [queue |-> EntriesAt([i \in DOMAIN tasks |-> i],
                                    {i \in DOMAIN tasks : in_degree[i] = 0}),
                in_degree |-> in_degree, visited |-> <<>>]
      run[n \in 0 .. Len(tasks)] ==
        IF n = 0 THEN start
        ELSE IF run[n - 1].queue = <<>> THEN run[n - 1]
        ELSE Visit(tasks, run[n - 1])
  IN run[Len(tasks)].visited

DetectCycle(tasks) == Len(Visited(tasks)) # Len(tasks)

\* Mutant of TopoSort: the order of the reply.
KeepOrder(tasks) == [i \in DOMAIN tasks |-> i]

TopoSort(tasks) == Visited(tasks)

----------------------------------------------------------------------------
(* DoRequest: connect if need be, write and read, and all of it once more *)

idle == call = "none"

BeginRequest ==
  /\ call' = IF connected THEN "write" ELSE "connect"
  /\ attempt' = 1
  /\ response' = "none"
  /\ UNCHANGED connected

\* The call is over, with a response or with an exception.
EndRequest(res) ==
  /\ call' = "none" /\ attempt' = 1
  /\ response' = res

Connect ==
  /\ call = "connect"
  /\ \/ call' = "write" /\ connected' = TRUE /\ UNCHANGED <<attempt, response>>
     \/ EndRequest("exception") /\ UNCHANGED connected
  /\ UNCHANGED <<stage, relay, asked, plan, outcomes, created>>

\* Mutant of Broken: it is tried again and again.
BrokenAgain ==
  call' = "connect" /\ connected' = FALSE /\ UNCHANGED <<attempt, response>>

\* A write or a read throws.  The second time connected_ stays as it is.
Broken ==
  \/ /\ attempt = 1
     /\ call' = "connect" /\ attempt' = 2 /\ connected' = FALSE
     /\ response' = "none"
  \/ /\ attempt = 2
     /\ EndRequest("exception")
     /\ UNCHANGED connected

WriteThrows ==
  /\ call = "write"
  /\ Broken
  /\ UNCHANGED <<stage, relay, asked, plan, outcomes, created>>

\* The request is written, and on its way it gets lost, or the server does what
\* it is asked to, or refuses; its response may get lost as well.
Write ==
  /\ call = "write"
  /\ call' = "read"
  /\ \E answer \in {"none", "done", "refused"} :
       /\ response' = answer
       /\ created' = IF answer = "done" /\ stage = "submit"
                     THEN Append(created, Head(plan)) ELSE created
  /\ UNCHANGED <<stage, relay, asked, plan, outcomes, attempt, connected>>

Read ==
  /\ call = "read"
  /\ \/ response # "none" /\ EndRequest(response) /\ UNCHANGED connected
     \/ Broken
  /\ UNCHANGED <<stage, relay, asked, plan, outcomes, created>>

DoRequest == Connect \/ WriteThrows \/ Write \/ Read

----------------------------------------------------------------------------
(* PlanWorkTool::Execute *)

\* With a project named and a manager there, its description is asked for.
QueryProject ==
  /\ stage = "begin"
  /\ relay = "worker"
  /\ stage' = "query"
  /\ BeginRequest
  /\ UNCHANGED <<relay, asked, plan, outcomes, created>>

SkipQuery ==
  /\ stage = "begin"
  /\ stage' = "decompose"
  /\ UNCHANGED <<relay, asked, plan, outcomes, request, created>>

\* Whatever came of it, the tool goes on.
Queried ==
  /\ stage = "query" /\ idle
  /\ stage' = "decompose"
  /\ UNCHANGED <<relay, asked, plan, outcomes, request, created>>

\* Decompose, and the errors that end the tool before anything is submitted.
Decompose(reply) ==
  LET tasks == reply.tasks IN
  /\ stage = "decompose"
  /\ asked' = tasks
  /\ \/ ~Valid(reply) /\ stage' = "invalid" /\ UNCHANGED plan
     \/ /\ Valid(reply) /\ DetectCycle(tasks)
        /\ stage' = "cyclic" /\ UNCHANGED plan
     \/ /\ Valid(reply) /\ ~DetectCycle(tasks)
        /\ stage' = IF relay = "no manager" THEN "invalid" ELSE "next"
        /\ plan' = TopoSort(tasks)
  /\ UNCHANGED <<relay, outcomes, request, created>>

\* SubmitProjectTask for the first task that is left.
Submit ==
  /\ stage = "next" /\ plan # <<>>
  /\ stage' = "submit"
  /\ IF relay = "worker" THEN BeginRequest ELSE UNCHANGED request
  /\ UNCHANGED <<relay, asked, plan, outcomes, created>>

\* Only a response of the server with a status of success is one.
Submitted ==
  /\ stage = "submit" /\ idle
  /\ outcomes' = Append(outcomes, <<Head(plan), relay = "worker" /\ response = "done">>)
  /\ plan' = Tail(plan)
  /\ stage' = "next"
  /\ UNCHANGED <<relay, asked, request, created>>

Summarise ==
  /\ stage = "next" /\ plan = <<>>
  /\ stage' = "done"
  /\ UNCHANGED <<relay, asked, plan, outcomes, request, created>>

Execute ==
  \/ QueryProject \/ SkipQuery \/ Queried
  \/ \E reply \in Replies : Decompose(reply)
  \/ Submit \/ DoRequest \/ Submitted \/ Summarise

PSpec == PInit /\ [][Execute]_pvars

----------------------------------------------------------------------------
(* Properties *)

\* The titles task i depends on, of those that are in the plan.
Wanted(i) == {t \in ToSet(asked[i].depends_on) : Known(asked, t)}

\* The order of submission respects the dependencies, under the only reading a
\* title that several tasks have allows for certain: one of them came before.  A
\* plan is refused as cyclic only if the tasks cannot be ordered so that every task
\* of such a title comes before, and then nothing of it is submitted.
SubmittedInOrder ==
  LET begun == [n \in DOMAIN outcomes |-> outcomes[n][1]]
               \o (IF stage = "submit" THEN <<Head(plan)>> ELSE <<>>)
  IN
  /\ \A n \in DOMAIN begun : \A t \in Wanted(begun[n]) :
       \E m \in 1 .. n - 1 : asked[begun[m]].title = t
  /\ stage = "cyclic" =>
       /\ created = <<>>
       /\ ~\E rank \in [DOMAIN asked -> DOMAIN asked] :
             \A i, j \in DOMAIN asked :
               asked[j].title \in Wanted(i) => rank[j] < rank[i]

\* Every task of a plan that is not refused has one line in the summary.  What it
\* says was submitted is at the server, and no task is there more than twice,
\* although requests are repeated and responses get lost.
SummaryIsTrue ==
  /\ stage = "done" =>
       /\ Len(outcomes) = Len(asked)
       /\ {outcomes[n][1] : n \in DOMAIN outcomes} = DOMAIN asked
  /\ \A n \in DOMAIN outcomes : outcomes[n][2] => Contains(created, outcomes[n][1])
  /\ \A i \in DOMAIN asked : Occurrences(created, i) <= 2

=============================================================================
