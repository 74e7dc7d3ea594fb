------------------------------- MODULE MCRelay -------------------------------
(***************************************************************************)
(* The two users of a relay worker that are modelled, side by side: its    *)
(* own threads on the web socket, and plan_work on its HTTP session.  They *)
(* share nothing, so part says which of them moves in a behaviour.         *)
(***************************************************************************)
EXTENDS RelayWorker, WorkPlan

CONSTANT c1
VARIABLE part

PlannedTask(title, depends_on) ==
  [title |-> title, instruction |-> "text", depends_on |-> depends_on]

\* Three tasks, of which some may have the same title, with dependencies on
\* themselves, each other and titles that no task has.
Lists ==
  {<<PlannedTask("A", d[1]), PlannedTask(t[1], d[2]), PlannedTask(t[2], d[3])>> :
     t \in {<<"A", "A">>, <<"A", "B">>, <<"B", "A">>, <<"B", "B">>, <<"B", "C">>},
     d \in [1 .. 3 -> {<<>>, <<"A">>, <<"B", "B">>, <<"C", "B">>}]}

MCReplies ==
  {[kind |-> "unusable", tasks |-> <<>>]}
  \cup {[kind |-> "tasks", tasks |-> l] : l \in Lists}
  \cup {[kind |-> "tasks", tasks |-> <<[PlannedTask("A", <<>>) EXCEPT !.title = NoText]>>],
        [kind |-> "tasks", tasks |-> <<>>],
        [kind |-> "tasks", tasks |-> [i \in 1 .. 4 |-> PlannedTask("A", <<>>)]]}

MCInit == part \in {"worker", "plan"} /\ Init /\ PInit

MCNext ==
  /\ UNCHANGED part
  /\ \/ part = "worker" /\ Next /\ UNCHANGED pvars
     \/ part = "plan" /\ Execute /\ UNCHANGED vars

MCSpec == MCInit /\ [][MCNext]_<<part, vars, pvars>> /\ Fairness
=============================================================================
