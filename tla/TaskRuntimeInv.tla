--------------------------- MODULE TaskRuntimeInv ---------------------------
(***************************************************************************)
(* The inductive invariant of TaskRuntime, in layers: each layer is kept   *)
(* by every step that starts in a state where the layers before it hold.   *)
(***************************************************************************)
EXTENDS TaskRuntime

\* A poll loop between the answer to claim-next and the submission holds a
\* task of its own agent.
OfferInv ==
  \A a \in Agents : poll[a] \in {"offered", "submit"} =>
    offer[a] \in Tasks /\ AgentOf[offer[a]] = a

\* The inbound thread handles a message of some agent and chat, and resumes
\* only tasks of that agent.
InbInv ==
  /\ inbPc # "idle" => inbAgent \in Agents /\ inbChat \in Chats
  /\ inbTask \in Tasks =>
       /\ inbPc \in {"resume", "resumeReady", "resumeDirect",
                    "resumeReturned", "resumeVerify"}
       /\ AgentOf[inbTask] = inbAgent

\* Before the runtime has started nothing claims or executes, and in memory
\* there are at most records that name no task.
DownInv ==
  /\ phase \in {"down", "starting"} =>
       /\ poll = [a \in Agents |-> "down"]
       /\ exec = [t \in Tasks |-> "none"]
       /\ queue = <<>>
       /\ \A k \in Keys : waiting[k] \notin Tasks
       /\ inbTask \notin Tasks
  /\ phase = "down" => inbPc = "idle"

\* Waiting records, in memory or on disk, are of the agent in their key.
RecordInv ==
  \A k \in Keys :
    /\ waiting[k] \in Tasks => AgentOf[waiting[k]] = k[1]
    /\ disk[k] \in Tasks => AgentOf[disk[k]] = k[1]

TypeInv == TypeOK /\ OfferInv /\ InbInv /\ DownInv /\ RecordInv

InQueue(t) == \E i \in 1..Len(queue) : queue[i] = t

\* Whatever was submitted is in claimed_task_ids_, what is about to be
\* submitted is there for the first time, and the pool's queue holds exactly
\* the tasks that are queued, each once.
PoolInv ==
  /\ \A t \in Tasks : exec[t] # "none" => t \in claimed
  /\ \A a \in Agents : poll[a] = "submit" =>
       offer[a] \in claimed /\ exec[offer[a]] = "none"
  /\ \A i \in 1..Len(queue) : exec[queue[i]] = "queued"
  /\ \A t \in Tasks : exec[t] = "queued" => InQueue(t)
  /\ \A i, j \in 1..Len(queue) : queue[i] = queue[j] => i = j

\* A poll loop that saw no pending task is the only one who can mark the
\* agent: the mark is still absent when it records its claim.
ActiveInv ==
  /\ \A t \in Tasks : wd[t] = "off"
  /\ ActiveMarksExecution
  /\ \A a \in Agents : poll[a] \in {"claim", "offered"} => active[a] = None

\* From its running report on, the server does not offer a task again.
Reported(t) ==
  \/ \E k \in Keys : disk[k] = t
  \/ Resuming(t)
  \/ exec[t] \notin {"none", "queued", "claiming", "starting"}

\* OneCustodian on the records of the file, ...
OneRecord == \A t \in Tasks : \A k, l \in Keys : disk[k] = t /\ disk[l] = t => k = l

NotElsewhere(t) == ~Resuming(t) /\ \A k \in Keys : disk[k] # t

ExecutedHere == \A t \in Tasks : UnderExecution(t) => NotElsewhere(t)

ResumedHere == \A t \in Tasks : Resuming(t) => \A k \in Keys : disk[k] # t

\* ... what it owes to the server, and ...
ReportedToServer ==
  \A t \in Tasks : Reported(t) => server[t] \notin {"queued", "claimed"}

\* ... the same for a task that was offered and is not yet recorded.
OfferedHere ==
  \A a \in Agents : poll[a] = "offered" /\ offer[a] \notin claimed =>
    NotElsewhere(offer[a])

CustodyInv ==
  OneRecord /\ ExecutedHere /\ ResumedHere /\ ReportedToServer /\ OfferedHere

IInv ==
  /\ TypeInv
  /\ RecordsSaved
  /\ PoolInv
  /\ NoStuckMark
  /\ ~TimeoutOn => ActiveInv
  /\ ~Lossy => CustodyInv
=============================================================================
