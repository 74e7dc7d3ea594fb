------------------------------- MODULE Gateway -------------------------------
(***************************************************************************)
(* The processes of the gateway (src/cli/commands.cpp): the commands       *)
(* gateway, restart and hup, the pid file they find each other by, the     *)
(* signals, the loop that polls for them once a second, the orderly stop   *)
(* and the guard thread that ends the process five seconds after the       *)
(* signal was seen.  The unit of time is the second.  What the components  *)
(* do while they are started and stopped is modelled elsewhere; here a     *)
(* start and a stop only take time.                                        *)
(*                                                                         *)
(* A process keeps its id when it replaces itself with execv, which ends   *)
(* its threads, the guard among them, and puts back the default handlers.  *)
(***************************************************************************)
EXTENDS Naturals, FiniteSets

CONSTANTS
  Processes,    \* process ids
  NoProcess,    \* no pid file
  StartTimes,   \* seconds the components take to start
  StopTimes,    \* seconds they take to stop
  MaxCommands,  \* bound: commands the operator gives
  MaxKills,     \* bound: processes killed from outside
  Patient       \* the commands wait until the one before has had its effect

ASSUME GatewayAssumption ==
  /\ NoProcess \notin Processes /\ Patient \in BOOLEAN
  /\ StartTimes \subseteq Nat /\ StopTimes \subseteq Nat
  /\ MaxCommands \in Nat /\ MaxKills \in Nat

VARIABLES
  pc,           \* where each process is
  pidFile,      \* the process ~/.kabot/gateway.pid names
  signal,       \* g_signal
  restart_requested,
  timer,        \* seconds until the process is done with what it does
  guard,        \* seconds until the guard thread calls _Exit, or Off
  target,       \* the process a restart waits for
  commands,     \* commands given
  kills

gvars == <<pc, pidFile, signal, restart_requested, timer, guard, target, commands,
           kills>>

Off == 99
kGuardDelay == 5    \* sleep_for in the guard thread
kRestartWait == 8   \* WaitForExit in RestartGateway
kPoll == 1          \* sleep_for in the main loop

Handling == {"start", "serve", "leave", "stop", "end"}
Gone == {"none", "exited", "rejected", "failed", "killed"}

\* IsProcessRunning.
Running(p) == p # NoProcess /\ pc[p] \notin Gone

GInit ==
  /\ pc = [p \in Processes |-> "none"] /\ pidFile = NoProcess
  /\ signal = [p \in Processes |-> "none"]
  /\ restart_requested = [p \in Processes |-> FALSE]
  /\ timer = [p \in Processes |-> 0] /\ guard = [p \in Processes |-> Off]
  /\ target = [p \in Processes |-> NoProcess]
  /\ commands = 0 /\ kills = 0

Goto(p, place) == pc' = [pc EXCEPT ![p] = place]

----------------------------------------------------------------------------
(* A gateway process *)

\* ValidateConfig finds errors, or there is no provider: a restart is no exception.
RejectConfig(p) ==
  /\ pc[p] = "check"
  /\ Goto(p, "rejected")
  /\ UNCHANGED <<pidFile, signal, restart_requested, timer, guard, target, commands,
                 kills>>

\* ReadPidFile and IsProcessRunning; a stale file is removed.
CheckPidFile(p) ==
  /\ pc[p] = "check"
  /\ IF Running(pidFile)
     THEN Goto(p, "exited") /\ UNCHANGED pidFile
     ELSE Goto(p, "claim") /\ pidFile' = NoProcess
  /\ UNCHANGED <<signal, restart_requested, timer, guard, target, commands, kills>>

\* The file may not open; then the process ends.
WritePidFile(p) ==
  /\ pc[p] = "claim"
  /\ \/ Goto(p, "build") /\ pidFile' = p
     \/ Goto(p, "failed") /\ UNCHANGED pidFile
  /\ UNCHANGED <<signal, restart_requested, timer, guard, target, commands, kills>>

\* The components are built and the handlers installed; now they are started.
InstallHandlers(p) ==
  /\ pc[p] = "build"
  /\ Goto(p, "start")
  /\ \E s \in StartTimes : timer' = [timer EXCEPT ![p] = s]
  /\ UNCHANGED <<pidFile, signal, restart_requested, guard, target, commands, kills>>

Started(p) ==
  /\ pc[p] = "start" /\ timer[p] = 0
  /\ Goto(p, "serve")
  /\ UNCHANGED <<pidFile, signal, restart_requested, timer, guard, target, commands,
                 kills>>

\* The loop: a signal starts the guard, the last one before it counts.
PollSignal(p) ==
  /\ pc[p] = "serve" /\ timer[p] = 0
  /\ timer' = [timer EXCEPT ![p] = kPoll]
  /\ IF signal[p] = "none"
     THEN UNCHANGED <<pc, restart_requested, guard>>
     ELSE /\ Goto(p, "leave")
          /\ restart_requested' = [restart_requested EXCEPT ![p] = signal[p] = "HUP"]
          /\ guard' = [guard EXCEPT ![p] = kGuardDelay]
  /\ UNCHANGED <<pidFile, signal, target, commands, kills>>

LeaveLoop(p) ==
  /\ pc[p] = "leave" /\ timer[p] = 0
  /\ Goto(p, "stop")
  /\ \E s \in StopTimes : timer' = [timer EXCEPT ![p] = s]
  /\ UNCHANGED <<pidFile, signal, restart_requested, guard, target, commands, kills>>

\* All components are stopped: RemovePidFile, whoever it names.
Stopped(p) ==
  /\ pc[p] = "stop" /\ timer[p] = 0
  /\ Goto(p, "end") /\ pidFile' = NoProcess
  /\ UNCHANGED <<signal, restart_requested, timer, guard, target, commands, kills>>

\* Mutant of ExitOrRestart: the signal is read again, and may be another by now.
ExitOrRestartBySignal(p) ==
  /\ pc[p] = "end"
  /\ Goto(p, IF signal[p] = "HUP" THEN "check" ELSE "exited")
  /\ signal' = [signal EXCEPT ![p] = "none"]
  /\ restart_requested' = [restart_requested EXCEPT ![p] = FALSE]
  /\ guard' = [guard EXCEPT ![p] = Off]
  /\ UNCHANGED <<pidFile, timer, target, commands, kills>>

\* An execv that fails returns, and the process ends.
Execv(p) == Goto(p, "check") \/ Goto(p, "failed")

ExitOrRestart(p) ==
  /\ pc[p] = "end"
  /\ IF restart_requested[p] THEN Execv(p) ELSE Goto(p, "exited")
  /\ signal' = [signal EXCEPT ![p] = "none"]
  /\ restart_requested' = [restart_requested EXCEPT ![p] = FALSE]
  /\ guard' = [guard EXCEPT ![p] = Off]
  /\ UNCHANGED <<pidFile, timer, target, commands, kills>>

\* _Exit(130), wherever the other threads are; the pid file stays.
GuardFires(p) ==
  /\ guard[p] = 0
  /\ Goto(p, "killed")
  /\ guard' = [guard EXCEPT ![p] = Off] /\ timer' = [timer EXCEPT ![p] = 0]
  /\ UNCHANGED <<pidFile, signal, restart_requested, target, commands, kills>>

----------------------------------------------------------------------------
(* Commands *)

\* kill(p, s): handled, or the end of a process that has no handler yet.
Deliver(p, s) ==
  IF pc[p] \in Handling
  THEN signal' = [signal EXCEPT ![p] = s] /\ UNCHANGED pc
  ELSE Goto(p, "killed") /\ UNCHANGED signal

\* Nothing is under way that an earlier command has begun.
Settled ==
  \A p \in Processes : pc[p] \in Gone \/ (pc[p] = "serve" /\ signal[p] = "none")

MayCommand == commands < MaxCommands /\ (Patient => Settled)

StartGateway(p) ==
  /\ MayCommand /\ pc[p] = "none"
  /\ Goto(p, "check") /\ commands' = commands + 1
  /\ UNCHANGED <<pidFile, signal, restart_requested, timer, guard, target, kills>>

\* SIGTERM to the process of the pid file, if it runs; then WaitForExit.
RestartGateway(p) ==
  /\ MayCommand /\ pc[p] = "none"
  /\ IF Running(pidFile)
     THEN IF pc[pidFile] \in Handling
          THEN /\ Goto(p, "wait") /\ signal' = [signal EXCEPT ![pidFile] = "TERM"]
               /\ UNCHANGED kills
          ELSE /\ pc' = [pc EXCEPT ![p] = "wait", ![pidFile] = "killed"]
               /\ UNCHANGED <<signal, kills>>
     ELSE Goto(p, "wait") /\ UNCHANGED <<signal, kills>>
  /\ target' = [target EXCEPT ![p] = IF Running(pidFile) THEN pidFile ELSE NoProcess]
  /\ timer' = [timer EXCEPT ![p] = kRestartWait]
  /\ commands' = commands + 1
  /\ UNCHANGED <<pidFile, restart_requested, guard>>

\* Mutant of GiveUpWaiting: half the time is enough.
GiveUpWaitingEarly(p) ==
  /\ pc[p] = "wait"
  /\ ~Running(target[p]) \/ timer[p] <= 4
  /\ Goto(p, "check") /\ pidFile' = NoProcess
  /\ target' = [target EXCEPT ![p] = NoProcess]
  /\ UNCHANGED <<signal, restart_requested, timer, guard, commands, kills>>

\* The process is gone or eight seconds are over: RemovePidFile and execv.
GiveUpWaiting(p) ==
  /\ pc[p] = "wait"
  /\ ~Running(target[p]) \/ timer[p] = 0
  /\ Execv(p) /\ pidFile' = NoProcess
  /\ target' = [target EXCEPT ![p] = NoProcess]
  /\ UNCHANGED <<signal, restart_requested, timer, guard, commands, kills>>

HupGateway ==
  /\ MayCommand /\ Running(pidFile)
  /\ Deliver(pidFile, "HUP")
  /\ commands' = commands + 1
  /\ UNCHANGED <<pidFile, restart_requested, timer, guard, target, kills>>

\* Ctrl+C or SIGTERM of a supervisor, at any time.
Interrupt(p) ==
  /\ commands < MaxCommands /\ Running(p)
  /\ Deliver(p, "TERM")
  /\ commands' = commands + 1
  /\ UNCHANGED <<pidFile, restart_requested, timer, guard, target, kills>>

Kill(p) ==
  /\ kills < MaxKills /\ Running(p)
  /\ Goto(p, "killed") /\ kills' = kills + 1
  /\ guard' = [guard EXCEPT ![p] = Off] /\ timer' = [timer EXCEPT ![p] = 0]
  /\ UNCHANGED <<pidFile, signal, restart_requested, target, commands>>

----------------------------------------------------------------------------
(* Time *)

\* A process that has something to do at once does it within the second.
Timed(p) == pc[p] \in {"start", "serve", "leave", "stop", "wait"}
MaySleep(p) ==
  /\ pc[p] \in Gone \/ (Timed(p) /\ timer[p] > 0)
  /\ pc[p] = "wait" => Running(target[p])
  /\ guard[p] > 0

Countdown(n) == IF n \in {0, Off} THEN n ELSE n - 1

Tick ==
  /\ \A p \in Processes : MaySleep(p)
  /\ timer' = [p \in Processes |-> Countdown(timer[p])]
  /\ guard' = [p \in Processes |-> Countdown(guard[p])]
  /\ UNCHANGED <<pc, pidFile, signal, restart_requested, target, commands, kills>>

GatewayStep(p) ==
  \/ RejectConfig(p) \/ CheckPidFile(p) \/ WritePidFile(p)
  \/ InstallHandlers(p) \/ Started(p)
  \/ PollSignal(p) \/ LeaveLoop(p) \/ Stopped(p) \/ ExitOrRestart(p)
  \/ GuardFires(p) \/ GiveUpWaiting(p)

Operate ==
  \/ \E p \in Processes : StartGateway(p) \/ RestartGateway(p) \/ Interrupt(p) \/ Kill(p)
  \/ HupGateway

GNext == (\E p \in Processes : GatewayStep(p)) \/ Operate \/ Tick

\* The processes run and time passes.
GFairness == WF_gvars(\E p \in Processes : GatewayStep(p)) /\ WF_gvars(Tick)
GSpec == GInit /\ [][GNext]_gvars /\ GFairness

----------------------------------------------------------------------------
(* Properties *)

\* At most one process is a gateway, and while it serves the pid file leads the next
\* command to it: the guard ends an old one before a restart loses patience, and no
\* process on its way out removes the file of its successor.
OneGateway ==
  /\ \A p, q \in Processes :
       pc[p] \in Handling \cup {"build"} /\ pc[q] \in Handling \cup {"build"} => p = q
  /\ \A p \in Processes : pc[p] = "serve" => pidFile = p

\* A reload that the loop has seen comes back as a serving gateway, unless its
\* configuration is rejected, execv or the pid file fails it, or the guard or the
\* operator ends the process: no later signal turns it into an exit.  (It does for
\* commands that wait for each other.  A gateway started between RemovePidFile and the
\* reloaded process's look at the pid file takes its place.)
ReloadComesBack ==
  \A p \in Processes :
    restart_requested[p] ~>
      \/ pc[p] = "serve" /\ ~restart_requested[p]
      \/ pc[p] \in {"rejected", "failed", "killed"}
=============================================================================
