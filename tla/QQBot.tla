-------------------------------- MODULE QQBot --------------------------------
(***************************************************************************)
(* The life of the QQ channel's client (src/channels/qqbot_channel.cpp):   *)
(* Start and Stop on the main thread, events on the threads of the         *)
(* clients, and the thread that replaces a client that reported a terminal *)
(* state.                                                                  *)
(*                                                                         *)
(* A step is a critical section of lifecycle_mutex_, a call of the SDK, or *)
(* an access to one of the two atomic flags outside of it.  Every Start    *)
(* makes a client of a generation of its own.  A std::thread that is       *)
(* destroyed while it is joinable ends the process.  The SDK is external:  *)
(* a client may report events as soon as it connects, and Disconnect does  *)
(* not wait for a callback in progress.                                    *)
(***************************************************************************)
EXTENDS Naturals

CONSTANT MaxGenerations  \* bound: generations

ASSUME QQBotAssumption == MaxGenerations \in Nat

VARIABLES
  running,      \* running_
  generation,   \* callback_generation_
  websocket,    \* generation of websocket_ (and openapi_v1_), 0 if there is none
  stopAsked,    \* external_stop_requested_
  rebuilding,   \* rebuild_in_progress_
  joinable,     \* whether rebuild_thread_ is joinable
  client,       \* the client of each generation
  event,        \* the callback of each client: where it is
  at,           \* the main thread and the rebuild thread: where each is
  mine,         \* generation of the Start, or of the event, each of them is about
  taken,        \* client each of them is to disconnect, 0 for none
  terminated,   \* std::terminate
  hasty         \* whether a client reported its end in a short window

qvars == <<running, generation, websocket, stopAsked, rebuilding, joinable,
           client, event, at, mine, taken, terminated, hasty>>

Generations == 1 .. MaxGenerations
Drop(g) == [client EXCEPT ![g] = "gone"]

QInit ==
  /\ running = FALSE
  /\ generation = 0 /\ websocket = 0
  /\ stopAsked = FALSE /\ rebuilding = FALSE /\ joinable = FALSE
  /\ client = [g \in Generations |-> "none"]
  /\ event = [g \in Generations |-> "none"]
  /\ at = [main |-> "start", rebuild |-> "none"]
  /\ mine = [main |-> 0, rebuild |-> 0]
  /\ taken = [main |-> 0, rebuild |-> 0]
  /\ terminated = FALSE /\ hasty = FALSE

\* Where thread x goes on when Start returns, and when StopInternal does.
AfterStart(x) == IF x = "main" THEN "up" ELSE "end"
AfterStop(x) == IF x = "main" THEN "stopped" ELSE "asked"

QGoTo(x, pc) == at' = [at EXCEPT ![x] = pc]

----------------------------------------------------------------------------
(* Start, called by the main thread and by the rebuild thread *)

\* The first critical section: nothing when running, or without credentials or a
\* client; else a new generation.
StartBegins(x) ==
  /\ at[x] = "start"
  /\ \/ /\ running
        /\ QGoTo(x, AfterStart(x))
        /\ UNCHANGED <<generation, stopAsked, mine, client>>
     \/ /\ ~running /\ generation < MaxGenerations
        /\ stopAsked' = FALSE
        /\ generation' = generation + 1
        /\ mine' = [mine EXCEPT ![x] = generation + 1]
        /\ \/ /\ client' = [client EXCEPT ![generation + 1] = "connecting"]
              /\ QGoTo(x, "connect")
           \/ UNCHANGED client /\ QGoTo(x, AfterStart(x))
  /\ UNCHANGED <<running, websocket, rebuilding, joinable, event, taken,
                 terminated, hasty>>

StartConnects(x) ==
  /\ at[x] = "connect"
  /\ client[mine[x]] = "connecting"
  /\ client' = [client EXCEPT ![mine[x]] = "connected"]
  /\ QGoTo(x, "adopt")
  /\ UNCHANGED <<running, generation, websocket, stopAsked, rebuilding,
                 joinable, event, mine, taken, terminated, hasty>>

\* Connect throws: the handler resets the members, whoever set them.
StartFails(x) ==
  /\ at[x] = "connect"
  /\ mine[x] = generation => generation < MaxGenerations
  /\ generation' = IF mine[x] = generation THEN generation + 1 ELSE generation
  /\ client' = [g \in Generations |->
                  IF g \in {mine[x], websocket} THEN "gone" ELSE client[g]]
  /\ websocket' = 0
  /\ running' = FALSE
  /\ QGoTo(x, AfterStart(x))
  /\ UNCHANGED <<stopAsked, rebuilding, joinable, event, mine, taken,
                 terminated, hasty>>

\* Mutant of StartAdopts: the client is kept whatever has happened meanwhile.
StartAdoptsAnyway(x) ==
  /\ at[x] = "adopt"
  /\ websocket' = mine[x] /\ running' = TRUE
  /\ QGoTo(x, AfterStart(x))
  /\ UNCHANGED <<generation, stopAsked, rebuilding, joinable, client, event,
                 mine, taken, terminated, hasty>>

\* The second critical section: a client that is out of date is disconnected.
StartAdopts(x) ==
  /\ at[x] = "adopt"
  /\ IF mine[x] # generation \/ stopAsked
     THEN client' = Drop(mine[x]) /\ UNCHANGED <<websocket, running>>
     ELSE websocket' = mine[x] /\ running' = TRUE /\ UNCHANGED client
  /\ QGoTo(x, AfterStart(x))
  /\ UNCHANGED <<generation, stopAsked, rebuilding, joinable, event, mine,
                 taken, terminated, hasty>>

QStart(x) ==
  StartBegins(x) \/ StartConnects(x) \/ StartFails(x) \/ StartAdopts(x)

----------------------------------------------------------------------------
(* Stop, called by the main thread; StopInternal, also by the rebuild thread *)

AskStop ==
  /\ at["main"] = "up"
  /\ stopAsked' = TRUE
  /\ QGoTo("main", "stop")
  /\ UNCHANGED <<running, generation, websocket, rebuilding, joinable, client,
                 event, mine, taken, terminated, hasty>>

\* Mutant of NothingToStop: the rebuild thread is left alone.
NothingToStopReturns(x) ==
  /\ at[x] = "stop" /\ ~running /\ websocket = 0
  /\ QGoTo(x, AfterStop(x))
  /\ UNCHANGED <<running, generation, websocket, stopAsked, rebuilding,
                 joinable, client, event, mine, taken, terminated, hasty>>

\* StopInternal without a client: the main thread moves a joinable rebuild thread
\* to a local variable and returns.
NothingToStop(x) ==
  /\ at[x] = "stop" /\ ~running /\ websocket = 0
  /\ IF x = "main" /\ joinable
     THEN terminated' = TRUE /\ joinable' = FALSE
     ELSE UNCHANGED <<terminated, joinable>>
  /\ QGoTo(x, AfterStop(x))
  /\ UNCHANGED <<running, generation, websocket, stopAsked, rebuilding, client,
                 event, mine, taken, hasty>>

\* StopInternal with one.
StopBegins(x) ==
  /\ at[x] = "stop" /\ (running \/ websocket # 0)
  /\ generation < MaxGenerations
  /\ running' = FALSE
  /\ generation' = generation + 1
  /\ taken' = [taken EXCEPT ![x] = websocket]
  /\ websocket' = 0
  /\ joinable' = IF x = "main" THEN FALSE ELSE joinable
  /\ QGoTo(x, IF x = "main" /\ joinable THEN "disconnectJoin" ELSE "disconnect")
  /\ UNCHANGED <<stopAsked, rebuilding, client, event, mine, terminated,
                 hasty>>

Disconnect(x) ==
  /\ at[x] \in {"disconnect", "disconnectJoin"}
  /\ client' = IF taken[x] = 0 THEN client ELSE Drop(taken[x])
  /\ taken' = [taken EXCEPT ![x] = 0]
  /\ QGoTo(x, IF at[x] = "disconnect" THEN AfterStop(x) ELSE "join")
  /\ UNCHANGED <<running, generation, websocket, stopAsked, rebuilding,
                 joinable, event, mine, terminated,
                 hasty>>

JoinRebuild ==
  /\ at["main"] = "join" /\ at["rebuild"] = "none"
  /\ QGoTo("main", "stopped")
  /\ UNCHANGED <<running, generation, websocket, stopAsked, rebuilding,
                 joinable, client, event, mine, taken, terminated, hasty>>

QStop(x) == NothingToStop(x) \/ StopBegins(x) \/ Disconnect(x)

----------------------------------------------------------------------------
(* Events of a client: the handler looks at the generation, then acts *)

Live(g) == client[g] \in {"connecting", "connected"}

\* A terminal event of the current generation.  (The system message that tells the
\* agent of it is one more inbound message of the bus.)
TerminalEvent(g) ==
  /\ Live(g) /\ event[g] = "none" /\ g = generation
  /\ event' = [event EXCEPT ![g] = "terminal"]
  /\ hasty' = (hasty \/ websocket # g \/ at["main"] = "stop")
  /\ UNCHANGED <<running, generation, websocket, stopAsked, rebuilding,
                 joinable, client, at, mine, taken, terminated>>

\* ScheduleClientRebuild: not while a rebuild is in progress.  The thread of the
\* last rebuild has ended, and is joined.
ScheduleClientRebuild(g) ==
  /\ event[g] = "terminal"
  /\ event' = [event EXCEPT ![g] = "done"]
  /\ IF rebuilding
     THEN UNCHANGED <<rebuilding, joinable, at, mine>>
     ELSE /\ rebuilding' = TRUE /\ joinable' = TRUE
          /\ at' = [at EXCEPT !["rebuild"] = "check"]
          /\ mine' = [mine EXCEPT !["rebuild"] = g]
  /\ UNCHANGED <<running, generation, websocket, stopAsked, client, taken,
                 terminated, hasty>>

\* The rebuild thread, 250 ms later.
RebuildChecks ==
  /\ at["rebuild"] = "check"
  /\ QGoTo("rebuild", IF mine["rebuild"] # generation \/ stopAsked
                      THEN "end" ELSE "stop")
  /\ UNCHANGED <<running, generation, websocket, stopAsked, rebuilding,
                 joinable, client, event, mine, taken, terminated, hasty>>

RebuildGoesOn ==
  /\ at["rebuild"] = "asked"
  /\ QGoTo("rebuild", IF stopAsked THEN "end" ELSE "start")
  /\ UNCHANGED <<running, generation, websocket, stopAsked, rebuilding,
                 joinable, client, event, mine, taken, terminated, hasty>>

RebuildEnds ==
  /\ at["rebuild"] = "end"
  /\ rebuilding' = FALSE
  /\ QGoTo("rebuild", "none")
  /\ UNCHANGED <<running, generation, websocket, stopAsked, joinable, client,
                 event, mine, taken, terminated, hasty>>

QNext ==
  /\ ~terminated
  /\ \/ \E x \in {"main", "rebuild"} : QStart(x) \/ QStop(x)
     \/ AskStop \/ JoinRebuild
     \/ \E g \in Generations : TerminalEvent(g) \/ ScheduleClientRebuild(g)
     \/ RebuildChecks \/ RebuildGoesOn \/ RebuildEnds

QSpec == QInit /\ [][QNext]_qvars

----------------------------------------------------------------------------
(* Properties *)

\* A connected client is the channel's own or in the hands of a thread that will
\* adopt or disconnect it: no interleaving of Start, Stop and rebuild leaves one
\* running that nobody knows, and so none whose events nobody can stop.
NoForgottenClient ==
  \A g \in Generations : client[g] = "connected" =>
    \/ websocket = g
    \/ \E x \in {"main", "rebuild"} :
         taken[x] = g \/ (at[x] = "adopt" /\ mine[x] = g)

\* Once Stop has returned the channel stays down: no rebuild that was under way
\* brings a client back, although Start takes the request to stop back.  (Two
\* windows shorter than the 250 ms before a rebuild are left out, by hasty: a
\* terminal event before Start has adopted the client, and one between Stop's
\* request and its lock.  In both a rebuild could clear the request and outlive
\* the Stop that waits for it.)
StaysStopped ==
  at["main"] = "stopped" /\ ~terminated /\ ~hasty =>
    /\ ~running /\ websocket = 0
    /\ at["rebuild"] \in {"none", "check", "end"}

\* Stop ends with the client's resources released, and not with the process: it
\* lets no thread out of its hands that nobody has joined.  (The two short
\* windows are left out here too.)
StopIsClean == terminated => hasty
=============================================================================
