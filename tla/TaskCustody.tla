---------------------------- MODULE TaskCustody ----------------------------
(***************************************************************************)
(* What the task runtime promises about the tasks of the relay server,     *)
(* without its threads: each task is with nobody, under execution, waiting *)
(* for a user's reply, or being resumed by one. An agent executes one      *)
(* task at a time, a waiting task is picked up by a reply and by nothing   *)
(* else, and a crash leaves exactly the waiting tasks in custody.          *)
(***************************************************************************)
CONSTANTS Agents, Tasks, AgentOf

VARIABLE custody

Init == custody = [t \in Tasks |-> "idle"]

Move(t, from, to) ==
  /\ custody[t] \in from
  /\ custody' = [custody EXCEPT ![t] = to]

\* A claim is executed when the agent executes nothing else.
Claim(t) ==
  /\ \A u \in Tasks : AgentOf[u] = AgentOf[t] => custody[u] # "executing"
  /\ Move(t, {"idle"}, "executing")

\* The run asks the user. A record of another task of the agent in the same
\* chat is replaced, and that task is lost.
Ask(t) ==
  /\ custody[t] \in {"executing", "resuming"}
  /\ \E u \in {u \in Tasks : u = t \/ custody[u] = "waiting"} :
       /\ AgentOf[u] = AgentOf[t]
       /\ custody' = [custody EXCEPT ![u] = "idle", ![t] = "waiting"]

Finish(t) == Move(t, {"executing", "resuming"}, "idle")

Reply(t) == Move(t, {"waiting"}, "resuming")

\* The reply to some other message of the chat replaces or erases the record.
Forget(t) == Move(t, {"waiting"}, "idle")

\* A start that saves before it has loaded: nothing waits any more.
Lose ==
  /\ \A t \in Tasks : custody[t] \in {"idle", "waiting"}
  /\ custody' = [t \in Tasks |-> "idle"]

Crash == custody' =
  [t \in Tasks |-> IF custody[t] = "waiting" THEN "waiting" ELSE "idle"]

Next ==
  \/ \E t \in Tasks : Claim(t) \/ Ask(t) \/ Finish(t) \/ Reply(t) \/ Forget(t)
  \/ Lose \/ Crash

Spec == Init /\ [][Next]_custody
=============================================================================
