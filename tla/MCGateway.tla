------------------------------ MODULE MCGateway ------------------------------
(***************************************************************************)
(* The gateway as a whole: what a process reads when it starts, which      *)
(* processes there are, and the jobs and records that outlive them.  The   *)
(* three share nothing the properties look at, so part says which of them  *)
(* moves in a behaviour.                                                   *)
(***************************************************************************)
EXTENDS Config, Gateway, DailySummary

CONSTANTS p1, p2, p3
VARIABLE part

\* Samples chosen to collide: a repeated default, a section that is inherited or
\* cleared, credentials that are split over file, section and environment.
MCSections ==
  [defaults |-> {[model |-> "m1"], [max_tool_iterations |-> 5]},
   agents |-> {<<[name |-> "ada", max_iterations |-> 5, max_tool_iterations |-> 6]>>,
               <<[name |-> "ada", model |-> "m1"],
                 [name |-> "bob", model |-> "m3", max_tool_iterations |-> 7]>>,
               <<[name |-> "ada"], [name |-> "ada"]>>},
   telegram |-> {[enabled |-> TRUE],
                 [token |-> "t", allow_from |-> <<"u">>, binding |-> [agent |-> "bob"]]},
   lark |-> {[app_id |-> "l"],
             [app_id |-> "l", app_secret |-> "s", enabled |-> TRUE]},
   instances |->
     {<<[type |-> "telegram", name |-> "tg", binding |-> [agents |-> <<"ada">>]],
        [type |-> "telegram", token |-> "t2", allow_from |-> <<>>]>>,
      <<[type |-> "lark", app_secret |-> "s2"],
        [type |-> "weixin", account_id |-> "w", binding |-> [default_agent |-> "bob"]]>>,
      <<[type |-> "qqbot", app_id |-> "q", client_secret |-> "c", name |-> "x"],
        [type |-> "telegram", name |-> "x", token |-> "t"]>>},
   relay |-> {[use_tls |-> TRUE], [scheme |-> "wss", path |-> "relative"]},
   managed_agents |->
     {<<[name |-> "ada", agent_id |-> "1", token |-> "t"]>>,
      <<[name |-> "r", agent |-> "ada", scheme |-> "ws", agent_id |-> "1", token |-> "t"],
        [name |-> "s", use_tls |-> TRUE, local_agent |-> "ada", token |-> "t"]>>}]

MCVariables ==
  {Nothing, [defaults |-> [model |-> "m2"]],
   [double |-> [defaults |-> [max_tool_iterations |-> 9]],
    defaults |-> [max_iterations |-> 8]],
   [telegram |-> [token |-> "te"]], [lark |-> [app_secret |-> "le", enabled |-> FALSE]]}

MCManaged == <<"ada", "bob", "ada">>

MCInit ==
  /\ part \in {"config", "processes", "summary"}
  /\ FInit /\ GInit /\ DInit

MCNext ==
  /\ UNCHANGED part
  /\ \/ part = "config" /\ Configure /\ UNCHANGED <<gvars, dvars>>
     \/ part = "processes" /\ GNext /\ UNCHANGED <<fvars, dvars>>
     \/ part = "summary" /\ DNext /\ UNCHANGED <<fvars, gvars>>

MCSpec == MCInit /\ [][MCNext]_<<part, fvars, gvars, dvars>> /\ GFairness
=============================================================================
