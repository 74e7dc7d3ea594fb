------------------------------- MODULE MCCron -------------------------------
(* A small instance: a one-time job of an agent and the daily summary job. *)
EXTENDS Cron, TLC

CONSTANTS once, daily, a1

MCKind == once :> "at" @@ daily :> "repeat"
MCAgentOf == once :> a1 @@ daily :> None
=============================================================================
