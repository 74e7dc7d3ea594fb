--------------------------- MODULE MCTaskRuntime ---------------------------
(* Instances of TaskRuntime for TLC. *)
EXTENDS TaskRuntimeInv, TLC

CONSTANTS a1, a2, t1, t2, c1, c2

OneAgent == {a1}
TwoAgents == {a1, a2}
TwoTasks == {t1, t2}
OwnTasks == (t1 :> a1 @@ t2 :> a1)
SplitTasks == (t1 :> a1 @@ t2 :> a2)
=============================================================================
