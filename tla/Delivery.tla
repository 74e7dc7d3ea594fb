------------------------------ MODULE Delivery ------------------------------
(***************************************************************************)
(* The way of a message through the gateway: a channel publishes it to the *)
(* message bus, the inbound thread of the agent registry handles it and    *)
(* publishes what the agent says, and the dispatcher of the channel        *)
(* manager sends that to the channels, with retries.                       *)
(*                                                                         *)
(* The bus has one mutex and ONE condition variable for both queues. A     *)
(* publication wakes one sleeping thread, which may be the one that waits  *)
(* for the other queue and goes back to sleep: only the timeout of         *)
(* TryConsume brings the right one back.                                   *)
(*                                                                         *)
(* A step is a critical section of the bus with the notification after it, *)
(* a test of a running flag, a call of Send, or a step of the gateway's    *)
(* start and stop.                                                         *)
(***************************************************************************)
EXTENDS Naturals, Sequences, SequencesExt, FiniteSets

CONSTANTS
  Channels,         \* the configured channel instances
  Typing,           \* those of the kind telegram, which announce typing
  Messages,         \* what users write
  Notices,          \* what the cron and task threads publish
  ChannelOf,        \* the channel of each message and each notice
  kMaxSendAttempts,
  MaxSaid,          \* bound: calls of send_message
  None              \* no message; as a channel, one that is not configured

ASSUME DeliveryAssumption ==
  /\ Typing \subseteq Channels /\ None \notin Channels
  /\ None \notin Messages /\ Messages \cap Notices = {}
  /\ ChannelOf \in [Messages \cup Notices -> Channels \cup {None}]
  /\ \A m \in Messages : ChannelOf[m] \in Channels
  /\ kMaxSendAttempts \in Nat \ {0} /\ MaxSaid \in Nat

VARIABLES
  inbound,    \* inbound_
  outbound,   \* outbound_, as positions of published
  registry,   \* the registry's inbound thread: where it is
  hand,       \* the message it handles
  said,       \* calls of send_message so far
  dispatcher, \* the dispatcher thread: where it is
  sending,    \* what it sends, a position of published; 0: nothing
  attempt,    \* which attempt
  flags,      \* running_ of the registry and dispatch_running_
  channel,    \* each channel: off, on or stopped
  gateway,    \* where the main thread is
  accepted,   \* history: the messages published inbound, in order
  published,  \* history: what was published outbound, in order
  settled,    \* history: positions the dispatcher is done with
  shown       \* history: the position a user saw last

bus == <<inbound, outbound, accepted, published>>
regVars == <<registry, hand, said>>
dispVars == <<dispatcher, sending, attempt, settled, shown>>
gateVars == <<flags, channel, gateway>>
vars == <<bus, regVars, dispVars, gateVars>>

\* An outbound message: which message it answers (or which notice it is),
\* whether it is that message's answer, has content, and its channel.
Outs == [of : Messages \cup Notices, answer : BOOLEAN, blank : BOOLEAN,
         to : Channels \cup {None}]

Init ==
  /\ inbound = <<>> /\ outbound = <<>>
  /\ registry = "off" /\ hand = None /\ said = 0
  /\ dispatcher = "off" /\ sending = 0 /\ attempt = 1
  /\ flags = [registry |-> FALSE, dispatcher |-> FALSE]
  /\ channel = [c \in Channels |-> "off"]
  /\ gateway = "begin"
  /\ accepted = <<>> /\ published = <<>> /\ settled = {} /\ shown = 0

----------------------------------------------------------------------------
(* The message bus *)

\* cv_.notify_one: one of the sleeping threads, whichever queue it waits for.
NotifyOne ==
  \/ /\ registry = "asleep" /\ registry' = "check" /\ UNCHANGED dispatcher
  \/ /\ dispatcher = "asleep" /\ dispatcher' = "check" /\ UNCHANGED registry
  \/ /\ registry # "asleep" /\ dispatcher # "asleep"
     /\ UNCHANGED <<registry, dispatcher>>

\* The bus part of PublishOutbound; the notification is the caller's, as the
\* caller may be the registry thread itself.
Put(out) ==
  /\ published' = Append(published, out)
  /\ outbound' = Append(outbound, Len(published'))

\* PublishOutbound by the registry thread, which goes on at pc.
RegistryPublishes(out, pc) ==
  /\ Put(out)
  /\ registry' = pc
  /\ \/ dispatcher = "asleep" /\ dispatcher' = "check"
     \/ dispatcher # "asleep" /\ UNCHANGED dispatcher
  /\ UNCHANGED <<inbound, accepted, sending, attempt, settled, shown, gateVars>>

\* PublishInbound, called by a channel's thread while the channel runs.
PublishInbound(m) ==
  /\ m \notin Range(accepted)
  /\ channel[ChannelOf[m]] = "on"
  /\ inbound' = Append(inbound, m)
  /\ accepted' = Append(accepted, m)
  /\ NotifyOne
  /\ UNCHANGED <<outbound, published, hand, said, sending, attempt, settled,
                 shown, gateVars>>

\* A cron job or a task publishes; those threads are joined before channels
\* and agents are stopped.
PublishNotice(n) ==
  /\ gateway = "running"
  /\ \A i \in DOMAIN published : published[i].of # n
  /\ Put([of |-> n, answer |-> FALSE, blank |-> FALSE, to |-> ChannelOf[n]])
  /\ NotifyOne
  /\ UNCHANGED <<inbound, accepted, hand, said, sending, attempt, settled,
                 shown, gateVars>>

----------------------------------------------------------------------------
(* The registry's inbound thread *)

RegistryTests ==
  /\ registry = "loop"
  /\ registry' = IF flags.registry THEN "check" ELSE "exited"
  /\ UNCHANGED <<bus, hand, said, dispVars, gateVars>>

\* Mutant of TakeInbound: the newest message is taken.
TakeNewest ==
  /\ inbound # <<>>
  /\ hand' = Last(inbound)
  /\ inbound' = Front(inbound)
  /\ registry' = "received"
  /\ UNCHANGED <<outbound, accepted, published, said, dispVars, gateVars>>

\* Mutant of TakeInbound: the message stays in the queue.
TakeKeeping ==
  /\ inbound # <<>>
  /\ hand' = Head(inbound)
  /\ registry' = "received"
  /\ UNCHANGED <<bus, said, dispVars, gateVars>>

TakeInbound ==
  /\ inbound # <<>>
  /\ hand' = Head(inbound)
  /\ inbound' = Tail(inbound)
  /\ registry' = "received"
  /\ UNCHANGED <<outbound, accepted, published, said, dispVars, gateVars>>

RegistryChecks ==
  /\ registry = "check"
  /\ \/ TakeInbound
     \/ /\ inbound = <<>>
        /\ registry' = "asleep"
        /\ UNCHANGED <<bus, hand, said, dispVars, gateVars>>

\* Mutant of RegistryTimesOut: the wait has no timeout.
RegistryWaits ==
  /\ registry = "asleep" /\ FALSE
  /\ UNCHANGED vars

\* wait_for has lasted its second: the predicate decides once more.
RegistryTimesOut ==
  /\ registry = "asleep"
  /\ \/ TakeInbound
     \/ /\ inbound = <<>>
        /\ registry' = "loop"
        /\ UNCHANGED <<bus, hand, said, dispVars, gateVars>>

\* An agent takes the message; a telegram chat is told that it types, by a
\* message without content. Nothing is said when the interceptor resumes a
\* task with the message, and when no agent is configured.
TurnBegins ==
  /\ registry = "received"
  /\ \/ /\ ChannelOf[hand] \in Typing
        /\ RegistryPublishes([of |-> hand, answer |-> FALSE, blank |-> TRUE,
                              to |-> ChannelOf[hand]], "turn")
     \/ registry' = "turn" /\ UNCHANGED <<bus, dispVars, gateVars>>
  /\ UNCHANGED <<hand, said>>

\* The tool send_message, to the chat of the message or to an explicit target.
Says(c) ==
  /\ registry = "turn"
  /\ said < MaxSaid
  /\ said' = said + 1
  /\ RegistryPublishes([of |-> hand, answer |-> FALSE, blank |-> FALSE,
                        to |-> c], "turn")
  /\ UNCHANGED hand

\* HandleInbound returns. The answer is blank when the agent has used
\* send_message, or when only notes for its memory were in it.
Answers(blank) ==
  /\ registry = "turn"
  /\ hand' = None
  /\ RegistryPublishes([of |-> hand, answer |-> TRUE, blank |-> blank,
                        to |-> ChannelOf[hand]], "loop")
  /\ UNCHANGED said

----------------------------------------------------------------------------
(* The dispatcher of the channel manager *)

DispatcherTests ==
  /\ dispatcher = "loop"
  /\ dispatcher' = IF flags.dispatcher THEN "check" ELSE "exited"
  /\ UNCHANGED <<bus, regVars, sending, attempt, settled, shown, gateVars>>

\* What SendWithRetry does not send: a message without content, a typing
\* announcement among them, and one for a channel that is not configured.
Refused(i) == published[i].blank \/ published[i].to \notin Channels

TakeOutbound ==
  /\ outbound # <<>>
  /\ outbound' = Tail(outbound)
  /\ attempt' = 1
  /\ IF Refused(Head(outbound))
     THEN /\ dispatcher' = "loop"
          /\ settled' = settled \cup {Head(outbound)}
          /\ UNCHANGED sending
     ELSE /\ dispatcher' = "send"
          /\ sending' = Head(outbound)
          /\ UNCHANGED settled
  /\ UNCHANGED <<inbound, accepted, published, regVars, shown, gateVars>>

DispatcherChecks ==
  /\ dispatcher = "check"
  /\ \/ TakeOutbound
     \/ /\ outbound = <<>>
        /\ dispatcher' = "asleep"
        /\ UNCHANGED <<bus, regVars, sending, attempt, settled, shown, gateVars>>

DispatcherTimesOut ==
  /\ dispatcher = "asleep"
  /\ \/ TakeOutbound
     \/ /\ outbound = <<>>
        /\ dispatcher' = "loop"
        /\ UNCHANGED <<bus, regVars, sending, attempt, settled, shown, gateVars>>

\* Channel::Send: the user sees the message or not, and the answer of the
\* service may be lost after it was shown.
Send(sent) ==
  /\ dispatcher = "send"
  /\ shown' \in IF sent THEN {sending} ELSE {sending, shown}

SendSucceeds ==
  /\ Send(TRUE)
  /\ dispatcher' = "loop"
  /\ settled' = settled \cup {sending} /\ sending' = 0
  /\ UNCHANGED <<bus, regVars, attempt, gateVars>>

SendFails ==
  /\ Send(FALSE)
  /\ IF attempt < kMaxSendAttempts
     THEN /\ attempt' = attempt + 1
          /\ UNCHANGED <<dispatcher, settled, sending>>
     ELSE /\ dispatcher' = "loop"
          /\ settled' = settled \cup {sending} /\ sending' = 0
          /\ UNCHANGED attempt
  /\ UNCHANGED <<bus, regVars, gateVars>>

----------------------------------------------------------------------------
(* Start and stop of the gateway *)

\* agents.Start
AgentsStart ==
  /\ gateway = "begin"
  /\ gateway' = "agents"
  /\ flags' = [flags EXCEPT !.registry = TRUE]
  /\ registry' = "loop"
  /\ UNCHANGED <<bus, hand, said, dispVars, channel>>

\* channels.StartAll: the dispatcher first
DispatcherStarts ==
  /\ gateway = "agents"
  /\ gateway' = "opening"
  /\ flags' = [flags EXCEPT !.dispatcher = TRUE]
  /\ dispatcher' = "loop"
  /\ UNCHANGED <<bus, regVars, sending, attempt, settled, shown, channel>>

\* then the channels, in the order of an unordered map
ChannelStarts(c) ==
  /\ gateway = "opening"
  /\ channel[c] = "off"
  /\ channel' = [channel EXCEPT ![c] = "on"]
  /\ UNCHANGED <<bus, regVars, dispVars, flags, gateway>>

GatewayRuns ==
  /\ gateway = "opening"
  /\ \A c \in Channels : channel[c] = "on"
  /\ gateway' = "running"
  /\ UNCHANGED <<bus, regVars, dispVars, flags, channel>>

\* channels.StopAll: the flag, the join, the channels
StopBegins ==
  /\ gateway = "running"
  /\ gateway' = "joining"
  /\ flags' = [flags EXCEPT !.dispatcher = FALSE]
  /\ UNCHANGED <<bus, regVars, dispVars, channel>>

\* Mutant of DispatcherJoined: the channels are stopped at once.
DispatcherNotJoined ==
  /\ gateway = "joining"
  /\ gateway' = "closing"
  /\ UNCHANGED <<bus, regVars, dispVars, flags, channel>>

DispatcherJoined ==
  /\ gateway = "joining"
  /\ dispatcher = "exited"
  /\ gateway' = "closing"
  /\ UNCHANGED <<bus, regVars, dispVars, flags, channel>>

ChannelStops(c) ==
  /\ gateway = "closing"
  /\ channel[c] = "on"
  /\ channel' = [channel EXCEPT ![c] = "stopped"]
  /\ UNCHANGED <<bus, regVars, dispVars, flags, gateway>>

\* agents.Stop: the flag, the join
AgentsStop ==
  /\ gateway = "closing"
  /\ \A c \in Channels : channel[c] = "stopped"
  /\ gateway' = "ending"
  /\ flags' = [flags EXCEPT !.registry = FALSE]
  /\ UNCHANGED <<bus, regVars, dispVars, channel>>

AgentsStopped ==
  /\ gateway = "ending"
  /\ registry = "exited"
  /\ gateway' = "exited"
  /\ UNCHANGED <<bus, regVars, dispVars, flags, channel>>

----------------------------------------------------------------------------

\* A wait may end without a notification; the predicate sends the thread on.
WakesUnasked ==
  /\ \/ registry = "asleep" /\ registry' = "check" /\ UNCHANGED dispatcher
     \/ dispatcher = "asleep" /\ dispatcher' = "check" /\ UNCHANGED registry
  /\ UNCHANGED <<bus, hand, said, sending, attempt, settled, shown, gateVars>>

RegistryNext ==
  \/ RegistryTests \/ RegistryChecks \/ RegistryTimesOut
  \/ TurnBegins \/ \E blank \in BOOLEAN : Answers(blank)

DispatcherNext ==
  DispatcherTests \/ DispatcherChecks \/ DispatcherTimesOut
    \/ SendSucceeds \/ SendFails

\* What the main thread does by itself; only a signal makes it stop.
GatewayNext ==
  \/ AgentsStart \/ DispatcherStarts \/ GatewayRuns
  \/ DispatcherJoined \/ AgentsStop \/ AgentsStopped
  \/ \E c \in Channels : ChannelStarts(c) \/ ChannelStops(c)

Next ==
  \/ RegistryNext \/ DispatcherNext \/ GatewayNext \/ StopBegins
  \/ \E c \in Channels \cup {None} : Says(c)
  \/ \E m \in Messages : PublishInbound(m)
  \/ \E n \in Notices : PublishNotice(n)
  \/ WakesUnasked

Spec == Init /\ [][Next]_vars

\* The scheduler runs every thread that can run, and a turn of an agent and a
\* call of Send return. wait_for fixes its deadline when it is called, so it
\* passes also for a thread that is woken again and again: strong fairness.
Fairness ==
  /\ WF_vars(RegistryNext) /\ WF_vars(DispatcherNext) /\ WF_vars(GatewayNext)
  /\ SF_vars(RegistryTimesOut) /\ SF_vars(DispatcherTimesOut)

FairSpec == Spec /\ Fairness

----------------------------------------------------------------------------
(* Properties *)

Positions == DOMAIN published

\* Type correctness; attempt never exceeds kMaxSendAttempts.
TypeOK ==
  /\ inbound \in Seq(Messages)
  /\ outbound \in Seq(Positions)
  /\ registry \in {"off", "loop", "check", "asleep", "received", "turn",
                   "exited"}
  /\ hand \in Messages \cup {None}
  /\ said \in 0..MaxSaid
  /\ dispatcher \in {"off", "loop", "check", "asleep", "send", "exited"}
  /\ sending \in Positions \cup {0}
  /\ attempt \in 1..kMaxSendAttempts
  /\ flags \in [registry : BOOLEAN, dispatcher : BOOLEAN]
  /\ channel \in [Channels -> {"off", "on", "stopped"}]
  /\ gateway \in {"begin", "agents", "opening", "running", "joining",
                  "closing", "ending", "exited"}
  /\ accepted \in Seq(Messages)
  /\ published \in Seq(Outs)
  /\ settled \subseteq Positions
  /\ shown \in Positions \cup {0}

Occurrences(x, s) == Cardinality({i \in DOMAIN s : s[i] = x})
Bit(b) == IF b THEN 1 ELSE 0

AnswersTo(m) == {i \in Positions : published[i].of = m /\ published[i].answer}

\* A message of a user is in one place: the inbound queue, the registry's
\* hand, or answered, once; and what is published is queued, being sent or
\* settled (TryConsumeInbound and TryConsumeOutbound between two threads).
OnePlace ==
  /\ \A m \in Range(accepted) :
       Occurrences(m, inbound) + Bit(hand = m) + Cardinality(AnswersTo(m)) = 1
  /\ \A i \in Positions :
       Occurrences(i, outbound) + Bit(sending = i) + Bit(i \in settled) = 1

\* Answers are published in the order in which the messages came in, over all
\* channels: one thread consumes the inbound queue from its front.
AnswersInOrder ==
  \A i, j \in Positions, a, b \in DOMAIN accepted :
    /\ published[i].answer /\ published[i].of = accepted[a]
    /\ published[j].answer /\ published[j].of = accepted[b]
    /\ i < j
    => a < b

\* A user never sees an older message after a newer one, whatever fails, is
\* repeated, or is shown although Send reported a failure (SendWithRetry
\* holds the dispatcher until its message is settled).
ShownInOrder == [][shown' >= shown]_shown

\* Send is never called on a channel after its Stop, which frees what Send
\* uses: StopAll joins the dispatcher before it stops the channels.
NoSendAfterStop ==
  dispatcher = "send" => channel[published[sending].to] # "stopped"

\* While the gateway runs every message is answered and the answer handed to
\* its channel, although a notification may wake the wrong thread.
Answered ==
  \A m \in Messages :
    m \in Range(accepted)
      ~> \/ \E i \in AnswersTo(m) : i \in settled
         \/ gateway \notin {"opening", "running"}

=============================================================================
