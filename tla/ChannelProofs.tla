---------------------------- MODULE ChannelProofs ----------------------------
(***************************************************************************)
(* Theorems about the channels' machines: the restarts of QQBot for any    *)
(* number of generations; the message loop of Weixin for any messages,     *)
(* users and number of crashes; the conversations for any events, and the  *)
(* long poll of Telegram for any updates.                                  *)
(***************************************************************************)
EXTENDS QQBot, Weixin, Conversations, SelectionProofs

----------------------------------------------------------------------------
(* QQBot *)

Both == {"main", "rebuild"}
MainPc ==
  {"start", "connect", "adopt", "up", "stop", "disconnect", "disconnectJoin",
   "join", "stopped"}
RebuildPc ==
  {"none", "check", "stop", "disconnect", "asked", "start", "connect", "adopt",
   "end"}

\* The types, and which thread can be where.
QTypeInv ==
  /\ running \in BOOLEAN /\ stopAsked \in BOOLEAN /\ rebuilding \in BOOLEAN
  /\ joinable \in BOOLEAN /\ hasty \in BOOLEAN /\ terminated \in BOOLEAN
  /\ generation \in 0 .. MaxGenerations /\ websocket \in 0 .. MaxGenerations
  /\ client \in [Generations -> {"none", "connecting", "connected", "gone"}]
  /\ event \in [Generations -> {"none", "terminal", "done"}]
  /\ at \in [Both -> MainPc \cup RebuildPc]
  /\ at["main"] \in MainPc /\ at["rebuild"] \in RebuildPc
  /\ mine \in [Both -> 0 .. MaxGenerations]
  /\ taken \in [Both -> 0 .. MaxGenerations]

InStart(x) == at[x] \in {"connect", "adopt"}

\* The generations: the adopted client is of the current one, and every Start that
\* is under way has one of its own.
GenerationInv ==
  /\ websocket \in {0, generation}
  /\ running <=> websocket # 0
  /\ \A x \in Both : InStart(x) => mine[x] \in 1 .. generation /\ mine[x] # websocket
  /\ InStart("main") /\ InStart("rebuild") => mine["main"] # mine["rebuild"]

\* A client to be disconnected is in the hands of a thread that will do it, and a
\* rebuild thread that runs keeps the next one from being started.
ThreadInv ==
  /\ \A x \in Both : taken[x] # 0 => at[x] \in {"disconnect", "disconnectJoin"}
  /\ at["rebuild"] # "none" <=> rebuilding

ClientInv == QTypeInv /\ GenerationInv /\ ThreadInv /\ NoForgottenClient

\* Until the first Start has adopted its client there is nothing to rebuild.
NotYetUp ==
  at["main"] \in {"start", "connect", "adopt"} =>
    /\ websocket = 0 /\ at["rebuild"] = "none"
    /\ \A g \in Generations : event[g] # "terminal"

\* From its StopInternal to its adoption the rebuild thread works without a client.
RebuiltWithout ==
  at["rebuild"] \in {"disconnect", "asked", "start", "connect", "adopt"} =>
    websocket = 0

\* The main thread can join every rebuild thread it has not waited for.
RebuildInHand ==
  at["main"] \in {"up", "stop"} /\ at["rebuild"] # "none" => joinable

\* What a rebuild thread, or an event that starts one, is about is over already, or
\* the request to stop is still there to be seen.
Outdated ==
  /\ at["rebuild"] = "check" => stopAsked \/ mine["rebuild"] # generation
  /\ \A g \in Generations : event[g] = "terminal" => stopAsked \/ g # generation

\* A Start of the rebuild thread takes the request to stop back only when nothing
\* can begin another one.
RequestSeen ==
  at["main"] = "stop" =>
    Outdated /\ (at["rebuild"] \in {"stop", "disconnect", "asked"} => stopAsked)

\* From the StopInternal of the main thread on there is no client, and no rebuild
\* gets as far as a Start.
GoingDown ==
  at["main"] \in {"disconnect", "disconnectJoin", "join", "stopped"} =>
    /\ websocket = 0 /\ Outdated
    /\ at["rebuild"] \in {"none", "check", "end"} \/
         (/\ at["rebuild"] \in {"stop", "asked"} /\ stopAsked
          /\ at["main"] \in {"disconnectJoin", "join"})

OldNews ==
  /\ at["rebuild"] = "check" => mine["rebuild"] <= generation
  /\ \A g \in Generations : event[g] = "terminal" => g <= generation

StopInv ==
  /\ OldNews
  /\ ~hasty /\ ~terminated =>
       NotYetUp /\ RebuiltWithout /\ RebuildInHand /\ RequestSeen /\ GoingDown

----------------------------------------------------------------------------
\* Every step keeps the types.
LEMMA QTypeStep == QTypeInv /\ [QNext]_qvars => QTypeInv'
<1> SUFFICES ASSUME QTypeInv, [QNext]_qvars PROVE QTypeInv'
  OBVIOUS
<1> USE QQBotAssumption
    DEF QTypeInv, Both, MainPc, RebuildPc, Generations, QGoTo, AfterStart, AfterStop,
        Drop, Live
<1>1. ASSUME NEW x \in Both, StartBegins(x) PROVE QTypeInv'
  <2>1. /\ at[x] = "start" /\ generation' \in 0 .. MaxGenerations
        /\ mine' \in [Both -> 0 .. MaxGenerations]
        /\ client' \in [Generations -> {"none", "connecting", "connected", "gone"}]
        /\ stopAsked' \in BOOLEAN
    <3>1. CASE running
      BY <1>1, <3>1 DEF StartBegins
    <3>2. CASE ~running
      <4>1. generation + 1 \in 1 .. MaxGenerations /\ generation' = generation + 1
        BY <1>1, <3>2 DEF StartBegins
      <4>2. mine' = [mine EXCEPT ![x] = generation + 1] /\ stopAsked' = FALSE
        BY <1>1, <3>2 DEF StartBegins
      <4>3. \/ client' = [client EXCEPT ![generation + 1] = "connecting"]
            \/ client' = client
        BY <1>1, <3>2 DEF StartBegins
      <4>4. /\ mine' \in [Both -> 0 .. MaxGenerations]
            /\ generation' \in 0 .. MaxGenerations
        BY <4>1, <4>2
      <4>5. client' \in [Generations -> {"none", "connecting", "connected", "gone"}]
        BY <4>1, <4>3
      <4> QED
        BY <1>1, <4>2, <4>4, <4>5 DEF StartBegins
    <3> QED
      BY <3>1, <3>2
  <2>2. \/ at' = [at EXCEPT ![x] = AfterStart(x)]
        \/ at' = [at EXCEPT ![x] = "connect"]
    BY <1>1 DEF StartBegins
  <2>3. at' \in [Both -> MainPc \cup RebuildPc] /\ at'["main"] \in MainPc
        /\ at'["rebuild"] \in RebuildPc
    BY <2>2
  <2> QED
    BY <1>1, <2>1, <2>3 DEF StartBegins
<1>2. ASSUME NEW x \in Both, StartConnects(x) PROVE QTypeInv'
  BY <1>2 DEF StartConnects
<1>3. ASSUME NEW x \in Both, StartFails(x) PROVE QTypeInv'
  <2>1. generation' \in 0 .. MaxGenerations
    BY <1>3 DEF StartFails
  <2>2. client' \in [Generations -> {"none", "connecting", "connected", "gone"}]
    BY <1>3 DEF StartFails
  <2>3. /\ at' \in [Both -> MainPc \cup RebuildPc]
        /\ at'["main"] \in MainPc /\ at'["rebuild"] \in RebuildPc
    BY <1>3 DEF StartFails
  <2>0. 0 \in 0 .. MaxGenerations /\ FALSE \in BOOLEAN
    OBVIOUS
  <2> HIDE QQBotAssumption DEF QTypeInv, Both, MainPc, RebuildPc, Generations
  <2>4. websocket' \in 0 .. MaxGenerations /\ running' \in BOOLEAN
        /\ UNCHANGED <<stopAsked, rebuilding, joinable, event, mine, taken,
                      terminated, hasty>>
    BY <1>3, <2>0 DEF StartFails
  <2> QED
    BY <2>1, <2>2, <2>3, <2>4 DEF QTypeInv
<1>4. ASSUME NEW x \in Both, StartAdopts(x) PROVE QTypeInv'
  BY <1>4 DEF StartAdopts
<1>5. ASSUME NEW x \in Both, NothingToStop(x) PROVE QTypeInv'
  BY <1>5 DEF NothingToStop
<1>6. ASSUME NEW x \in Both, StopBegins(x) PROVE QTypeInv'
  <2>1. generation' \in 0 .. MaxGenerations
    BY <1>6 DEF StopBegins
  <2>2. taken' \in [Both -> 0 .. MaxGenerations] /\ joinable' \in BOOLEAN
    BY <1>6 DEF StopBegins
  <2>3. /\ at' \in [Both -> MainPc \cup RebuildPc]
        /\ at'["main"] \in MainPc /\ at'["rebuild"] \in RebuildPc
    BY <1>6 DEF StopBegins
  <2>0. 0 \in 0 .. MaxGenerations /\ FALSE \in BOOLEAN
    OBVIOUS
  <2> HIDE QQBotAssumption DEF QTypeInv, Both, MainPc, RebuildPc, Generations
  <2>4. websocket' \in 0 .. MaxGenerations /\ running' \in BOOLEAN
        /\ UNCHANGED <<stopAsked, rebuilding, client, event, mine, terminated, hasty>>
    BY <1>6, <2>0 DEF StopBegins
  <2> QED
    BY <2>1, <2>2, <2>3, <2>4 DEF QTypeInv
<1>7. ASSUME NEW x \in Both, Disconnect(x) PROVE QTypeInv'
  BY <1>7 DEF Disconnect
<1>8. CASE AskStop
  BY <1>8 DEF AskStop
<1>9. CASE JoinRebuild
  BY <1>9 DEF JoinRebuild
<1>10. ASSUME NEW g \in Generations, TerminalEvent(g) PROVE QTypeInv'
  BY <1>10 DEF TerminalEvent
<1>11. ASSUME NEW g \in Generations, ScheduleClientRebuild(g) PROVE QTypeInv'
  <2>1. event' \in [Generations -> {"none", "terminal", "done"}]
    BY <1>11 DEF ScheduleClientRebuild
  <2>2. /\ mine' \in [Both -> 0 .. MaxGenerations]
        /\ at' \in [Both -> MainPc \cup RebuildPc]
        /\ at'["main"] \in MainPc /\ at'["rebuild"] \in RebuildPc
        /\ rebuilding' \in BOOLEAN /\ joinable' \in BOOLEAN
    <3>1. CASE rebuilding
      BY <1>11, <3>1 DEF ScheduleClientRebuild
    <3>2. CASE ~rebuilding
      BY <1>11, <3>2 DEF ScheduleClientRebuild
    <3> QED
      BY <3>1, <3>2
  <2> QED
    BY <1>11, <2>1, <2>2 DEF ScheduleClientRebuild
<1>12. CASE RebuildChecks
  BY <1>12 DEF RebuildChecks
<1>13. CASE RebuildGoesOn
  BY <1>13 DEF RebuildGoesOn
<1>14. CASE RebuildEnds
  BY <1>14 DEF RebuildEnds
<1>15. CASE UNCHANGED qvars
  BY <1>15 DEF qvars
<1> QED
  BY <1>1, <1>2, <1>3, <1>4, <1>5, <1>6, <1>7, <1>8, <1>9, <1>10, <1>11, <1>12, <1>13, <1>14, <1>15
     DEF QNext, QStart, QStop, Both

\* Every step keeps the generations apart and leaves no client to nobody.
LEMMA ClientStep ==
  QTypeInv /\ QTypeInv' /\ GenerationInv /\ ThreadInv /\ NoForgottenClient /\ [QNext]_qvars
    => GenerationInv' /\ ThreadInv' /\ NoForgottenClient'
<1> SUFFICES ASSUME QTypeInv, GenerationInv, ThreadInv, NoForgottenClient,
                    QTypeInv', [QNext]_qvars
             PROVE  GenerationInv' /\ ThreadInv' /\ NoForgottenClient'
  OBVIOUS
<1> USE QQBotAssumption
    DEF QTypeInv, GenerationInv, ThreadInv, NoForgottenClient, InStart, Both, MainPc,
        RebuildPc, Generations, QGoTo, AfterStart, AfterStop, Drop, Live
<1>1. ASSUME NEW x \in Both, StartBegins(x) PROVE GenerationInv' /\ ThreadInv' /\ NoForgottenClient'
  BY <1>1 DEF StartBegins
<1>2. ASSUME NEW x \in Both, StartConnects(x) PROVE GenerationInv' /\ ThreadInv' /\ NoForgottenClient'
  BY <1>2 DEF StartConnects
<1>3. ASSUME NEW x \in Both, StartFails(x) PROVE GenerationInv' /\ ThreadInv' /\ NoForgottenClient'
  BY <1>3 DEF StartFails
<1>4. ASSUME NEW x \in Both, StartAdopts(x) PROVE GenerationInv' /\ ThreadInv' /\ NoForgottenClient'
  BY <1>4 DEF StartAdopts
<1>5. ASSUME NEW x \in Both, NothingToStop(x) PROVE GenerationInv' /\ ThreadInv' /\ NoForgottenClient'
  BY <1>5 DEF NothingToStop
<1>6. ASSUME NEW x \in Both, StopBegins(x) PROVE GenerationInv' /\ ThreadInv' /\ NoForgottenClient'
  BY <1>6 DEF StopBegins
<1>7. ASSUME NEW x \in Both, Disconnect(x) PROVE GenerationInv' /\ ThreadInv' /\ NoForgottenClient'
  BY <1>7 DEF Disconnect
<1>8. CASE AskStop
  BY <1>8 DEF AskStop
<1>9. CASE JoinRebuild
  BY <1>9 DEF JoinRebuild
<1>10. ASSUME NEW g \in Generations, TerminalEvent(g) PROVE GenerationInv' /\ ThreadInv' /\ NoForgottenClient'
  BY <1>10 DEF TerminalEvent
<1>11. ASSUME NEW g \in Generations, ScheduleClientRebuild(g) PROVE GenerationInv' /\ ThreadInv' /\ NoForgottenClient'
  BY <1>11 DEF ScheduleClientRebuild
<1>12. CASE RebuildChecks
  BY <1>12 DEF RebuildChecks
<1>13. CASE RebuildGoesOn
  BY <1>13 DEF RebuildGoesOn
<1>14. CASE RebuildEnds
  BY <1>14 DEF RebuildEnds
<1>15. CASE UNCHANGED qvars
  BY <1>15 DEF qvars
<1> QED
  BY <1>1, <1>2, <1>3, <1>4, <1>5, <1>6, <1>7, <1>8, <1>9, <1>10, <1>11, <1>12, <1>13, <1>14, <1>15
     DEF QNext, QStart, QStop, Both

\* Every step keeps the order of the stop.
LEMMA StopStep == ClientInv /\ QTypeInv' /\ StopInv /\ [QNext]_qvars => StopInv'
<1> SUFFICES ASSUME ClientInv, StopInv, QTypeInv', [QNext]_qvars PROVE StopInv'
  OBVIOUS
<1> USE QQBotAssumption
    DEF ClientInv, StopInv, OldNews, NotYetUp, RebuiltWithout, RebuildInHand,
        RequestSeen, GoingDown, Outdated, QTypeInv, GenerationInv, ThreadInv, InStart,
        Both, MainPc, RebuildPc, Generations, QGoTo, AfterStart, AfterStop, Live
<1>1. ASSUME NEW x \in Both, StartBegins(x) PROVE StopInv'
  BY <1>1 DEF StartBegins
<1>2. ASSUME NEW x \in Both, StartConnects(x) PROVE StopInv'
  BY <1>2 DEF StartConnects
<1>3. ASSUME NEW x \in Both, StartFails(x) PROVE StopInv'
  BY <1>3 DEF StartFails
<1>4. ASSUME NEW x \in Both, StartAdopts(x) PROVE StopInv'
  BY <1>4 DEF StartAdopts
<1>5. ASSUME NEW x \in Both, NothingToStop(x) PROVE StopInv'
  BY <1>5 DEF NothingToStop
<1>6. ASSUME NEW x \in Both, StopBegins(x) PROVE StopInv'
  BY <1>6 DEF StopBegins
<1>7. ASSUME NEW x \in Both, Disconnect(x) PROVE StopInv'
  BY <1>7 DEF Disconnect
<1>8. CASE AskStop
  BY <1>8 DEF AskStop
<1>9. CASE JoinRebuild
  BY <1>9 DEF JoinRebuild
<1>10. ASSUME NEW g \in Generations, TerminalEvent(g) PROVE StopInv'
  <2>1. g = generation /\ event' = [event EXCEPT ![g] = "terminal"]
    BY <1>10 DEF TerminalEvent
  <2>2. /\ UNCHANGED <<running, generation, websocket, stopAsked, rebuilding, joinable,
                      at, mine, terminated>>
        /\ ~hasty' => ~hasty /\ websocket = g /\ at["main"] # "stop"
    BY <1>10 DEF TerminalEvent
  <2>3. OldNews'
    BY <2>1, <2>2
  <2>4. websocket = g => websocket # 0
    BY <2>1, <2>2
  <2>5. ASSUME ~hasty', ~terminated'
        PROVE  NotYetUp' /\ RebuiltWithout' /\ RebuildInHand' /\ RequestSeen' /\ GoingDown'
    <3>1. /\ at["main"] = "up" /\ websocket # 0
          /\ NotYetUp /\ RebuiltWithout /\ RebuildInHand
      BY <2>2, <2>4, <2>5
    <3> QED
      BY <2>1, <2>2, <3>1
  <2> QED
    BY <2>3, <2>5
<1>11. ASSUME NEW g \in Generations, ScheduleClientRebuild(g) PROVE StopInv'
  BY <1>11 DEF ScheduleClientRebuild
<1>12. CASE RebuildChecks
  BY <1>12 DEF RebuildChecks
<1>13. CASE RebuildGoesOn
  BY <1>13 DEF RebuildGoesOn
<1>14. CASE RebuildEnds
  BY <1>14 DEF RebuildEnds
<1>15. CASE UNCHANGED qvars
  BY <1>15 DEF qvars
<1> QED
  BY <1>1, <1>2, <1>3, <1>4, <1>5, <1>6, <1>7, <1>8, <1>9, <1>10, <1>11, <1>12, <1>13, <1>14, <1>15
     DEF QNext, QStart, QStop, Both

\* Every reachable state is in both invariants.
LEMMA QInvariant == QSpec => [](ClientInv /\ StopInv)
<1>1. QInit => ClientInv /\ StopInv
  <2>1. QInit => QTypeInv
    <3> SUFFICES ASSUME QInit PROVE QTypeInv
      OBVIOUS
    <3>1. /\ at = [x \in Both |-> IF x = "main" THEN "start" ELSE "none"]
          /\ mine = [x \in Both |-> 0] /\ taken = [x \in Both |-> 0]
      BY DEF QInit, Both
    <3>2. 0 \in 0 .. MaxGenerations
      BY QQBotAssumption
    <3>3. /\ at \in [Both -> MainPc \cup RebuildPc]
          /\ at["main"] \in MainPc /\ at["rebuild"] \in RebuildPc
      BY <3>1 DEF Both, MainPc, RebuildPc
    <3>4. /\ generation \in 0 .. MaxGenerations /\ websocket \in 0 .. MaxGenerations
          /\ mine \in [Both -> 0 .. MaxGenerations]
          /\ taken \in [Both -> 0 .. MaxGenerations]
      BY <3>1, <3>2 DEF QInit
    <3> QED
      BY <3>3, <3>4 DEF QInit, QTypeInv
  <2> QED
  BY <2>1
  DEF QInit, ClientInv, StopInv, OldNews, NotYetUp, RebuiltWithout, RebuildInHand,
      RequestSeen, GoingDown, Outdated, QTypeInv, GenerationInv, ThreadInv, InStart,
      NoForgottenClient, Both, MainPc, RebuildPc, Generations
<1>2. ClientInv /\ StopInv /\ [QNext]_qvars => (ClientInv /\ StopInv)'
  BY QTypeStep, ClientStep, StopStep DEF ClientInv
<1> QED
  BY <1>1, <1>2, PTL DEF QSpec

\* No interleaving of Start, Stop, events and the rebuild thread leaves a connected
\* client that nobody will adopt or disconnect (Start, StopInternal,
\* ScheduleClientRebuild), however often the client is replaced.
THEOREM NoneForgotten == QSpec => []NoForgottenClient
<1>1. ClientInv /\ StopInv => NoForgottenClient
  BY DEF ClientInv
<1> QED
  BY <1>1, QInvariant, PTL

\* Once Stop has returned no rebuild brings the channel back, although Start takes
\* the request to stop back (Start, Stop, StopInternal), however often the client
\* was replaced before; the two short windows of hasty are left out.
THEOREM StoppedForGood == QSpec => []StaysStopped
<1>1. ClientInv /\ StopInv => StaysStopped
  BY DEF ClientInv, StopInv, GoingDown, GenerationInv, StaysStopped
<1> QED
  BY <1>1, QInvariant, PTL

----------------------------------------------------------------------------
(* Weixin *)

Resting == {"loop", "hour", "halfMinute", "backoff", "ended", "down"}
Storing == {"tokenOpen", "tokenWrite"}
Cleaning == {"cleanOpen", "cleanWrite"}

\* Types.
WTypeInv ==
  /\ pollAt \in Resting \cup Storing \cup {"open", "write", "process", "publish"}
  /\ sendAt \in Cleaning \cup {"idle", "load", "send"}
  /\ position \in Nat
  /\ positionFile \in Nat \cup {Torn}
  /\ batch \in Seq(Nat) /\ published \in Seq(Nat) /\ loose \subseteq Nat
  /\ tokenFile \in [Users -> Nat] \cup {Torn}
  /\ copy \in [{"poll", "send"} -> [Users -> Nat]]
  /\ kept \in [Users -> Nat]
  /\ torn \in BOOLEAN /\ overlap \in BOOLEAN

Increasing(s) == \A i, j \in DOMAIN s : i < j => s[i] < s[j]

\* Message x comes before y, or both came in answers without a next position.
Before(x, y) == x < y \/ {x, y} \subseteq loose
Ordered(s) == \A i, j \in DOMAIN s : i < j => Before(s[i], s[j])
UpTo(s, n) == \A i \in DOMAIN s : s[i] <= n \/ s[i] \in loose

\* Such an answer brought everything from position n to its last message.
Closed(n) == \A x \in loose, y \in Nat : n < y /\ y <= x => y \in loose

\* Messages waiting are there only while an answer of the server is worked on.
BatchInv ==
  /\ pollAt \in Resting => batch = <<>>
  /\ pollAt \in Storing \cup {"publish"} => batch # <<>>

\* The positions in memory and on disk, and the messages before and after them.
PositionInv ==
  /\ Ordered(published) /\ Increasing(batch)
  /\ \A i \in DOMAIN published, j \in DOMAIN batch : Before(published[i], batch[j])
  /\ UpTo(published, position) /\ UpTo(batch, position) /\ Closed(position)
  /\ positionFile = Torn <=> pollAt = "write"
  /\ positionFile # Torn => UpTo(published, positionFile) /\ Closed(positionFile)
  /\ pollAt \notin {"open", "write", "down"} => positionFile = position

\* One thread at a time is in the token store, and it holds what it should.
TokenInv ==
  /\ pollAt \in Storing => sendAt \notin Cleaning \cup {"load"}
  /\ pollAt \in Storing => copy["poll"] = kept
  /\ sendAt \in Cleaning => copy["send"] = kept
  /\ tokenFile = IF pollAt = "tokenWrite" \/ sendAt = "cleanWrite" THEN Torn ELSE kept

WInv ==
  /\ WTypeInv /\ BatchInv
  /\ torn \/ PositionInv
  /\ torn \/ overlap \/ TokenInv

LEMMA WTypeInit == WInit => WInv
<1> SUFFICES ASSUME WInit PROVE WInv
  OBVIOUS
<1> USE DEF WInit, NoTokens, Resting, Storing, Cleaning
<1>1. WTypeInv /\ BatchInv
  <2>1. NoTokens \in [Users -> Nat]
    OBVIOUS
  <2> HIDE DEF NoTokens
  <2>2. copy \in [{"poll", "send"} -> [Users -> Nat]]
    BY <2>1
  <2>3. torn \in BOOLEAN /\ overlap \in BOOLEAN
    BY Zenon
  <2>4. batch \in Seq(Nat) /\ published \in Seq(Nat) /\ loose \subseteq Nat
    OBVIOUS
  <2>5. tokenFile = NoTokens /\ kept = NoTokens
    OBVIOUS
  <2> QED
    BY <2>1, <2>2, <2>3, <2>4, <2>5 DEF WTypeInv, BatchInv
<1>2. PositionInv
  BY WeixinAssumption DEF PositionInv, Increasing, Ordered, UpTo, Closed
<1>3. TokenInv
  BY DEF TokenInv
<1> QED
  BY <1>1, <1>2, <1>3 DEF WInv

WVars == <<streamVars, storeVars, sendVars, faultVars>>

\* The steps that touch neither messages nor tokens: the loop and its sleeps.
Idles ==
  /\ pollAt \in Resting \cup {"process"} /\ (pollAt = "process" => batch = <<>>)
  /\ pollAt # "down" /\ pollAt' \in Resting \ {"down"}
  /\ UNCHANGED WVars

LEMMA IdleStep ==
  ASSUME WInv,
         Stopped \/ Rest \/ WakeUp \/ SessionExpires \/ PollFails \/ BatchDone
  PROVE  Idles
BY DEF Stopped, Rest, WakeUp, SessionExpires, PollFails, BatchDone, Idles, WVars, Resting

\* An answer of the server, with a position and without.
Polls == GetUpdates \/ GetUpdatesWithout

LEMMA StreamTypes ==
  ASSUME WTypeInv, BatchInv,
         Idles \/ Polls \/ OpenPosition \/ WritePosition \/ Ignore \/ Publish
  PROVE  WTypeInv' /\ BatchInv'
<1> USE DEF WTypeInv, BatchInv, Resting, Storing, streamVars, storeVars, sendVars, faultVars
<1>1. CASE Idles
  BY <1>1 DEF Idles, WVars
<1>2. CASE Polls
  <2>1. PICK to \in position .. Len(Sender) :
          /\ batch' = [i \in 1 .. to - position |-> position + i]
          /\ position' \in {position, to}
          /\ loose' \subseteq loose \cup (position + 1 .. to)
    BY <1>2 DEF Polls, GetUpdates, GetUpdatesWithout, Brings
  <2>2. Len(Sender) \in Nat
    BY WeixinAssumption
  <2>3. to - position \in Nat /\ to \in Nat
    BY <2>2
  <2>4. [i \in 1 .. to - position |-> position + i] \in [1 .. to - position -> Nat]
    BY <2>3
  <2>a. position' \in Nat
    BY <2>1, <2>3
  <2>b. batch' \in [1 .. to - position -> Nat]
    BY <2>1, <2>4
  <2>c. \E n \in Nat : batch' \in [1 .. n -> Nat]
    BY <2>3, <2>b
  <2>5. batch' \in Seq(Nat)
    BY <2>c, SeqDef
  <2>6. loose' \subseteq Nat
    BY <2>1, <2>3
  <2> QED
    BY <1>2, <2>5, <2>6, <2>a DEF Polls, GetUpdates, GetUpdatesWithout
<1>3. CASE OpenPosition \/ WritePosition
  BY <1>3 DEF OpenPosition, WritePosition
<1>4. CASE Ignore
  BY <1>4 DEF Ignore
<1>5. CASE Publish
  <2>1. batch # <<>> /\ Head(batch) \in Nat /\ Tail(batch) \in Seq(Nat)
    BY <1>5 DEF Publish
  <2> QED
    BY <1>5, <2>1 DEF Publish, Message
<1> QED
  BY <1>1, <1>2, <1>3, <1>4, <1>5

LEMMA StoreTypes ==
  ASSUME WTypeInv, BatchInv, NoToken \/ ReadTokens \/ OpenTokens \/ WriteTokens \/ Dispatcher
  PROVE  WTypeInv' /\ BatchInv'
<1> USE DEF WTypeInv, BatchInv, Resting, Storing, Cleaning, streamVars, storeVars, sendVars,
            faultVars
<1>1. LoadAll \in [Users -> Nat] /\ NoTokens \in [Users -> Nat]
  BY DEF LoadAll, NoTokens
<1>2. InStore("poll") \in BOOLEAN /\ InStore("send") \in BOOLEAN
  BY DEF InStore
<1>0. CASE NoToken
  BY <1>0 DEF NoToken
<1>3. CASE ReadTokens
  BY <1>1, <1>2, <1>3 DEF ReadTokens, StoreRead, Other
<1>4. CASE OpenTokens
  BY <1>4 DEF OpenTokens, StoreOpen
<1>5. CASE WriteTokens
  <2>1. Head(batch) \in Nat
    BY <1>5 DEF WriteTokens
  <2> QED
    BY <1>1, <1>5, <2>1 DEF WriteTokens, Message
<1>6. CASE \E u \in Users : Send(u)
  BY <1>1, <1>2, <1>6 DEF Send, StoreRead, Other
<1>7. CASE OpenClean
  BY <1>7 DEF OpenClean, StoreOpen
<1>8. CASE WriteClean
  BY <1>1, <1>8 DEF WriteClean
<1>9. CASE Load
  BY <1>2, <1>9 DEF Load
<1>10. CASE Sent
  BY <1>10 DEF Sent
<1> QED
  BY <1>0, <1>3, <1>4, <1>5, <1>6, <1>7, <1>8, <1>9, <1>10 DEF Dispatcher

LEMMA ProcessTypes ==
  ASSUME WTypeInv, BatchInv, WStop \/ Crash \/ WStart \/ UNCHANGED wvars
  PROVE  WTypeInv' /\ BatchInv'
<1> USE DEF WTypeInv, BatchInv, Resting, Storing, Cleaning, streamVars, storeVars, sendVars,
            faultVars
<1>1. CASE WStop
  BY <1>1 DEF WStop
<1>2. CASE Crash
  BY <1>2 DEF Crash, NoTokens
<1>3. CASE WStart
  BY <1>3 DEF WStart
<1>4. CASE UNCHANGED wvars
  BY <1>4 DEF wvars
<1> QED
  BY <1>1, <1>2, <1>3, <1>4

----------------------------------------------------------------------------
(* The position in the stream *)

LEMMA StreamPositions ==
  ASSUME WTypeInv, BatchInv, PositionInv,
         Idles \/ Polls \/ OpenPosition \/ WritePosition \/ Ignore \/ Publish
  PROVE  PositionInv'
<1> USE DEF WTypeInv, BatchInv, Resting, Storing, streamVars, storeVars, sendVars, faultVars
<1>0. Torn \notin Nat
  BY WeixinAssumption
<1>1. CASE Idles
  BY <1>1 DEF Idles, WVars, PositionInv, Ordered, Before, UpTo, Closed
<1>2. CASE Polls
  <2>0. batch = <<>> /\ pollAt = "loop" /\ positionFile = position
    BY <1>2 DEF Polls, GetUpdates, GetUpdatesWithout, PositionInv
  <2>1. PICK to \in position .. Len(Sender) :
          /\ batch' = [i \in 1 .. to - position |-> position + i]
          /\ \/ position' = to /\ loose' = loose /\ pollAt' = "open"
             \/ position' = position /\ loose' = loose \cup (position + 1 .. to)
                /\ pollAt' = "process"
          /\ UNCHANGED <<published, positionFile>>
    BY <1>2 DEF Polls, GetUpdates, GetUpdatesWithout, Brings
  <2>2. to \in Nat /\ to - position \in Nat /\ position <= to
    BY WeixinAssumption
  <2>3. /\ DOMAIN batch' = 1 .. to - position
        /\ \A i \in 1 .. to - position : batch'[i] = position + i
    BY <2>1
  <2>4. \A j \in DOMAIN batch' : /\ batch'[j] \in Nat /\ position < batch'[j]
                                /\ batch'[j] <= to
    BY <2>2, <2>3
  <2>5. Increasing(batch')
    BY <2>2, <2>3 DEF Increasing
  <2>6. loose \subseteq loose'
    BY <2>1
  <2>7. /\ \A i \in DOMAIN published : published[i] \in Nat
        /\ \A i \in DOMAIN published : published[i] <= position \/ published[i] \in loose
    BY DEF PositionInv, UpTo
  <2>8. Ordered(published)'
    BY <2>1, <2>6 DEF PositionInv, Ordered, Before
  <2>9. ASSUME NEW i \in DOMAIN published, NEW j \in DOMAIN batch'
        PROVE  Before(published'[i], batch'[j]) \/ {published'[i], batch'[j]} \subseteq loose'
    <3>1. CASE published[i] < batch'[j]
      BY <2>1, <3>1 DEF Before
    <3>2. CASE ~ (published[i] < batch'[j])
      <4>1. batch'[j] <= published[i] /\ published[i] \in loose
        BY <2>4, <2>7, <3>2
      <4>2. batch'[j] \in loose
        BY <2>4, <4>1 DEF PositionInv, Closed
      <4> QED
        BY <2>1, <2>6, <4>1, <4>2 DEF Before
    <3> QED
      BY <3>1, <3>2
  <2>10. UpTo(published, positionFile)'
    BY <2>0, <2>1, <2>6, <2>7 DEF UpTo
  <2>11. UpTo(published, position)' /\ UpTo(batch, position)'
    <3>1. position' \in Nat /\ position <= position'
      BY <2>1, <2>2
    <3>2. UpTo(published, position)'
      BY <2>1, <2>6, <2>7, <3>1 DEF UpTo
    <3>3. \A j \in DOMAIN batch' : batch'[j] <= position' \/ batch'[j] \in loose'
      <4>1. CASE position' = to
        BY <2>4, <4>1
      <4>2. CASE loose' = loose \cup (position + 1 .. to)
        <5>1. \A j \in DOMAIN batch' : batch'[j] \in position + 1 .. to
          BY <2>2, <2>4
        <5> QED
          BY <4>2, <5>1
      <4> QED
        BY <2>1, <4>1, <4>2
    <3> QED
      BY <3>2, <3>3 DEF UpTo
  <2>12. Closed(position)' /\ Closed(positionFile)'
    <3>1. \A x \in loose, y \in Nat : position < y /\ y <= x => y \in loose
      BY DEF PositionInv, Closed
    <3>2. \A x \in position + 1 .. to, y \in Nat :
            position < y /\ y <= x => y \in position + 1 .. to
      BY <2>2
    <3>3. CASE loose' = loose /\ position' = to
      BY <2>0, <2>1, <2>2, <3>1, <3>3 DEF Closed
    <3>4. CASE loose' = loose \cup (position + 1 .. to) /\ position' = position
      <4>1. \A x \in loose', y \in Nat : position < y /\ y <= x => y \in loose'
        BY <3>1, <3>2, <3>4
      <4> QED
        BY <2>0, <2>1, <3>4, <4>1 DEF Closed
    <3> QED
      BY <2>1, <3>3, <3>4
  <2>13. \A i \in DOMAIN published', j \in DOMAIN batch' : Before(published[i], batch[j])'
    BY <2>1, <2>6, <2>9 DEF Before
  <2>14. (positionFile = Torn <=> pollAt = "write")'
         /\ (pollAt \notin {"open", "write", "down"} => positionFile = position)'
    BY <1>0, <2>0, <2>1
  <2> QED
    BY <2>5, <2>8, <2>10, <2>11, <2>12, <2>13, <2>14 DEF PositionInv
<1>3. CASE OpenPosition \/ WritePosition
  <2>1. UNCHANGED <<batch, published, loose, position>>
    BY <1>3 DEF OpenPosition, WritePosition
  <2>2. /\ Ordered(published)' <=> Ordered(published)
        /\ \A x, y : Before(x, y)' <=> Before(x, y)
        /\ UpTo(published, position)' <=> UpTo(published, position)
        /\ UpTo(batch, position)' <=> UpTo(batch, position)
        /\ Closed(position)' <=> Closed(position)
    BY <2>1 DEF Ordered, Before, UpTo, Closed
  <2>3. CASE OpenPosition
    BY <1>0, <2>1, <2>2, <2>3 DEF OpenPosition, PositionInv
  <2>4. CASE WritePosition
    <3>1. positionFile' = position' /\ pollAt' = "process"
      BY <2>1, <2>4 DEF WritePosition
    <3> QED
      BY <1>0, <2>1, <2>2, <3>1 DEF PositionInv
  <2> QED
    BY <1>3, <2>3, <2>4
<1>4. CASE Ignore
  <2>1. batch # <<>> /\ batch' = Tail(batch)
        /\ UNCHANGED <<pollAt, position, positionFile, published, loose>>
    BY <1>4 DEF Ignore
  <2>2. /\ Len(batch) \in Nat /\ DOMAIN batch' = 1 .. Len(batch) - 1
        /\ \A i \in DOMAIN batch' : batch'[i] = batch[i + 1] /\ i + 1 \in DOMAIN batch
    BY <2>1
  <2>3. Increasing(batch') /\ UpTo(batch', position)
    <3>1. UpTo(batch', position)
      BY <2>2 DEF PositionInv, UpTo
    <3>2. \A i, j \in DOMAIN batch' : i < j => i + 1 < j + 1
      BY <2>2
    <3>3. Increasing(batch')
      BY <2>2, <3>2 DEF PositionInv, Increasing
    <3> QED
      BY <3>1, <3>3
  <2>4. \A i \in DOMAIN published, j \in DOMAIN batch' : Before(published[i], batch'[j])
    BY <2>2 DEF PositionInv
  <2>5. UpTo(batch, position)' /\ (UpTo(published, position) => UpTo(published, position)')
        /\ (UpTo(published, positionFile) => UpTo(published, positionFile)')
    BY <2>1, <2>3 DEF UpTo
  <2>6. (Ordered(published) => Ordered(published)') /\ (Closed(position) => Closed(position)')
        /\ (Closed(positionFile) => Closed(positionFile)')
        /\ \A i \in DOMAIN published', j \in DOMAIN batch' : Before(published[i], batch[j])'
    BY <2>1, <2>4 DEF Ordered, Closed, Before
  <2> QED
    BY <2>1, <2>3, <2>5, <2>6 DEF PositionInv
<1>5. CASE Publish
  <2>1. /\ batch # <<>> /\ batch' = Tail(batch) /\ published' = Append(published, Head(batch))
        /\ pollAt = "publish" /\ pollAt' = "process" /\ UNCHANGED <<position, positionFile, loose>>
    BY <1>5 DEF Publish, Message
  <2>2. /\ Len(batch) \in Nat /\ DOMAIN batch' = 1 .. Len(batch) - 1 /\ 1 \in DOMAIN batch
        /\ \A i \in DOMAIN batch' : /\ batch'[i] = batch[i + 1] /\ i + 1 \in DOMAIN batch
                                    /\ batch[1] < batch[i + 1]
    BY <2>1 DEF PositionInv, Increasing
  <2>3. /\ Len(published) \in Nat /\ DOMAIN published = 1 .. Len(published)
        /\ DOMAIN published' = 1 .. Len(published) + 1
        /\ \A i \in DOMAIN published : published'[i] = published[i]
        /\ published'[Len(published) + 1] = batch[1]
        /\ batch[1] \in Nat
        /\ \A i \in DOMAIN published : published[i] \in Nat
    BY <2>1, <2>2
  <2>a. \A i \in DOMAIN published : Before(published[i], batch[1])
    BY <2>2 DEF PositionInv
  <2>b. \A i \in DOMAIN published' : i \in DOMAIN published \/ i = Len(published) + 1
    <3>1. \A n \in Nat : \A i \in 1 .. n + 1 : i \in 1 .. n \/ i = n + 1
      OBVIOUS
    <3> QED
      BY <2>3, <3>1, Zenon
  <2>4. Increasing(batch') /\ UpTo(batch', position)
    <3>1. UpTo(batch', position)
      BY <2>2 DEF PositionInv, UpTo
    <3>2. \A i, j \in DOMAIN batch' : i < j => i + 1 < j + 1
      BY <2>2
    <3>3. Increasing(batch')
      BY <2>2, <3>2 DEF PositionInv, Increasing
    <3> QED
      BY <3>1, <3>3
  <2>c. \A x, y : Before(x, y)' <=> Before(x, y)
    BY <2>1 DEF Before
  <2>5. Ordered(published)'
    <3>1. ASSUME NEW i \in DOMAIN published', NEW j \in DOMAIN published', i < j
          PROVE  Before(published'[i], published'[j])
      <4>1. i \in DOMAIN published
        BY <2>3, <2>b, <3>1
      <4>2. CASE j \in DOMAIN published
        BY <2>3, <3>1, <4>1, <4>2 DEF PositionInv, Ordered
      <4>3. CASE j = Len(published) + 1
        BY <2>3, <2>a, <4>1, <4>3
      <4> QED
        BY <2>b, <4>2, <4>3
    <3> QED
      BY <2>c, <3>1 DEF Ordered
  <2>6. UpTo(published', position)
    <3>1. /\ batch[1] <= position \/ batch[1] \in loose
          /\ \A i \in DOMAIN published : published[i] <= position \/ published[i] \in loose
      BY <2>2 DEF PositionInv, UpTo
    <3> QED
      BY <2>3, <2>b, <3>1 DEF UpTo
  <2>7. \A i \in DOMAIN published', j \in DOMAIN batch' : Before(published[i], batch[j])'
    <3>1. \A i \in DOMAIN published, j \in DOMAIN batch' : Before(published[i], batch'[j])
      BY <2>2 DEF PositionInv
    <3>2. \A j \in DOMAIN batch' : Before(batch[1], batch'[j])
      BY <2>2 DEF Before
    <3> QED
      BY <2>3, <2>b, <2>c, <3>1, <3>2
  <2>8. positionFile = position
    BY <2>1 DEF PositionInv
  <2>9. UpTo(published, position)' /\ UpTo(batch, position)' /\ (Closed(position) => Closed(position)')
    BY <2>1, <2>4, <2>6 DEF UpTo, Closed
  <2> QED
    BY <1>0, <2>1, <2>4, <2>5, <2>7, <2>8, <2>9 DEF PositionInv
<1> QED
  BY <1>1, <1>2, <1>3, <1>4, <1>5

LEMMA OtherPositions ==
  ASSUME WTypeInv, BatchInv, PositionInv,
         \/ NoToken \/ ReadTokens \/ OpenTokens \/ WriteTokens \/ Dispatcher
         \/ WStop \/ WStart \/ UNCHANGED wvars \/ (Crash /\ ~torn')
  PROVE  PositionInv'
<1> USE DEF WTypeInv, BatchInv, Resting, Storing, streamVars
<1>1. CASE /\ UNCHANGED streamVars
           /\ \/ pollAt' = pollAt
              \/ /\ pollAt \in Storing \cup {"process"}
                 /\ pollAt' \in Storing \cup {"publish"}
  BY <1>1 DEF PositionInv, Ordered, Before, UpTo, Closed
<1>2. CASE NoToken \/ ReadTokens \/ OpenTokens \/ WriteTokens
  BY <1>1, <1>2 DEF NoToken, ReadTokens, OpenTokens, WriteTokens
<1>3. CASE Dispatcher
  BY <1>1, <1>3 DEF Dispatcher, Send, OpenClean, WriteClean, Load, Sent
<1>4. CASE WStop \/ UNCHANGED wvars
  BY <1>1, <1>4 DEF WStop, wvars
<1>5. CASE WStart
  <2>1. /\ batch = <<>> /\ positionFile # Torn /\ position' = positionFile
        /\ pollAt' = "loop" /\ UNCHANGED <<batch, positionFile, published, loose>>
    BY <1>5 DEF WStart, PositionInv
  <2> QED
    BY <1>5, <2>1 DEF PositionInv, Ordered, Before, UpTo, Closed
<1>6. CASE Crash /\ ~torn'
  <2>1. /\ positionFile # Torn /\ batch' = <<>> /\ pollAt' = "down"
        /\ UNCHANGED <<position, positionFile, published, loose>>
    BY <1>6 DEF Crash
  <2> QED
    BY <2>1 DEF PositionInv, Increasing, Ordered, Before, UpTo, Closed
<1> QED
  BY <1>2, <1>3, <1>4, <1>5, <1>6

----------------------------------------------------------------------------
(* The token store *)

LEMMA PollTokens ==
  ASSUME WTypeInv, BatchInv, TokenInv, ~overlap',
         \/ Idles \/ Polls \/ OpenPosition \/ WritePosition \/ Ignore \/ Publish
         \/ NoToken \/ ReadTokens \/ OpenTokens \/ WriteTokens
  PROVE  TokenInv'
<1> USE DEF WTypeInv, Resting, Storing, Cleaning, streamVars, storeVars, sendVars, faultVars
<1>0. kept # Torn
  BY WeixinAssumption
<1>1. CASE Idles \/ Polls \/ OpenPosition \/ WritePosition \/ Ignore \/ Publish
  <2>1. /\ pollAt \notin Storing /\ pollAt' \notin Storing
        /\ UNCHANGED <<sendAt, copy, kept, tokenFile>>
    BY <1>1 DEF Idles, WVars, Polls, GetUpdates, GetUpdatesWithout, OpenPosition, WritePosition, Ignore, Publish
  <2> QED
    BY <2>1 DEF TokenInv
<1>2. CASE ReadTokens
  <2>1. ~InStore("send")
    BY <1>2 DEF ReadTokens, StoreRead, Other
  <2>2. sendAt \notin Cleaning \cup {"load"}
    BY <2>1 DEF InStore
  <2> QED
    BY <1>0, <1>2, <2>2 DEF ReadTokens, StoreRead, LoadAll, TokenInv
<1>3. CASE OpenTokens
  BY <1>3 DEF OpenTokens, StoreOpen, TokenInv
<1>5. CASE NoToken
  BY <1>5 DEF NoToken, TokenInv
<1>4. CASE WriteTokens
  BY <1>4 DEF WriteTokens, TokenInv
<1> QED
  BY <1>1, <1>2, <1>3, <1>4, <1>5

LEMMA SendTokens ==
  ASSUME WTypeInv, TokenInv, ~overlap', Dispatcher
  PROVE  TokenInv'
<1> USE DEF WTypeInv, Resting, Storing, Cleaning, streamVars, storeVars, sendVars, faultVars
<1>0. kept # Torn
  BY WeixinAssumption
<1>1. CASE \E u \in Users : Send(u)
  <2>1. ~InStore("poll")
    BY <1>1 DEF Send, StoreRead, Other
  <2>2. pollAt \notin Storing
    BY <2>1 DEF InStore
  <2> QED
    BY <1>0, <1>1, <2>2 DEF Send, StoreRead, LoadAll, TokenInv
<1>2. CASE OpenClean
  BY <1>2 DEF OpenClean, StoreOpen, TokenInv
<1>3. CASE WriteClean
  BY <1>3 DEF WriteClean, TokenInv
<1>4. CASE Load \/ Sent
  BY <1>4 DEF Load, Sent, TokenInv
<1> QED
  BY <1>1, <1>2, <1>3, <1>4 DEF Dispatcher

LEMMA ProcessTokens ==
  ASSUME WTypeInv, TokenInv, \/ WStop \/ WStart \/ UNCHANGED wvars \/ (Crash /\ ~torn')
  PROVE  TokenInv'
<1> USE DEF WTypeInv, Resting, Storing, Cleaning, streamVars, storeVars, sendVars, faultVars
<1>1. CASE WStop \/ UNCHANGED wvars
  BY <1>1 DEF WStop, wvars, TokenInv
<1>2. CASE WStart
  BY <1>2 DEF WStart, TokenInv
<1>3. CASE Crash /\ ~torn'
  BY <1>3 DEF Crash, TokenInv
<1> QED
  BY <1>1, <1>2, <1>3

----------------------------------------------------------------------------
(* Theorems *)

\* What has once been lost stays so.
LEMMA FaultsStay ==
  ASSUME WInv, [WNext]_wvars
  PROVE  (torn => torn') /\ (overlap => overlap')
BY DEF WInv, WTypeInv, WNext, PollLoop, Dispatcher, Stopped, Rest, WakeUp, GetUpdates,
  GetUpdatesWithout, NoToken, OpenPosition, WritePosition, SessionExpires, PollFails, BatchDone, Ignore, ReadTokens,
  OpenTokens, WriteTokens, Publish, Send, OpenClean, WriteClean, Load, Sent, WStop,
  Crash, WStart, StoreRead, StoreOpen, storeVars, faultVars, wvars

LEMMA WNextKeeps == WInv /\ [WNext]_wvars => WInv'
<1> SUFFICES ASSUME WInv, [WNext]_wvars PROVE WInv'
  OBVIOUS
<1>0. /\ WTypeInv /\ BatchInv /\ (torn \/ PositionInv) /\ (torn \/ overlap \/ TokenInv)
      /\ (torn => torn') /\ (overlap => overlap')
      /\ torn \in BOOLEAN /\ torn' \in BOOLEAN /\ overlap' \in BOOLEAN
  <2>1. torn' \in BOOLEAN /\ overlap' \in BOOLEAN
    BY IdleStep, StreamTypes, StoreTypes, ProcessTypes
    DEF WInv, WNext, PollLoop, Polls, WTypeInv
  <2> QED
    BY <2>1, FaultsStay DEF WInv, WTypeInv
<1>1. CASE \/ Idles \/ Polls \/ OpenPosition \/ WritePosition \/ Ignore \/ Publish
  <2>1. WTypeInv' /\ BatchInv'
    BY <1>0, <1>1, StreamTypes, Zenon
  <2>2. PositionInv => PositionInv'
    BY <1>0, <1>1, StreamPositions, Zenon
  <2>3. TokenInv /\ ~overlap' => TokenInv'
    BY <1>0, <1>1, PollTokens, Zenon
  <2> QED
    BY <1>0, <2>1, <2>2, <2>3, Zenon DEF WInv
<1>2. CASE NoToken \/ ReadTokens \/ OpenTokens \/ WriteTokens
  <2>1. WTypeInv' /\ BatchInv'
    BY <1>0, <1>2, StoreTypes, Zenon
  <2>2. PositionInv => PositionInv'
    BY <1>0, <1>2, OtherPositions, Zenon
  <2>3. TokenInv /\ ~overlap' => TokenInv'
    BY <1>0, <1>2, PollTokens, Zenon
  <2> QED
    BY <1>0, <2>1, <2>2, <2>3, Zenon DEF WInv
<1>3. CASE Dispatcher
  <2>1. WTypeInv' /\ BatchInv'
    BY <1>0, <1>3, StoreTypes, Zenon
  <2>2. PositionInv => PositionInv'
    BY <1>0, <1>3, OtherPositions, Zenon
  <2>3. TokenInv /\ ~overlap' => TokenInv'
    BY <1>0, <1>3, SendTokens, Zenon
  <2> QED
    BY <1>0, <2>1, <2>2, <2>3, Zenon DEF WInv
<1>4. CASE WStop \/ Crash \/ WStart \/ UNCHANGED wvars
  <2>1. WTypeInv' /\ BatchInv'
    BY <1>0, <1>4, ProcessTypes, Zenon
  <2>2. PositionInv /\ ~torn' => PositionInv'
    BY <1>0, <1>4, OtherPositions, Zenon
  <2>3. TokenInv /\ ~torn' => TokenInv'
    BY <1>0, <1>4, ProcessTokens, Zenon
  <2> QED
    BY <1>0, <2>1, <2>2, <2>3, Zenon DEF WInv
<1> QED
  BY <1>1, <1>2, <1>3, <1>4, IdleStep DEF WNext, PollLoop, Polls

LEMMA WInvariant == WSpec => []WInv
BY WTypeInit, WNextKeeps, PTL DEF WSpec

\* The agent gets no message of the server twice and none before an earlier one,
\* wherever in PollLoop a request fails, the process crashes and starts again, unless
\* a crash tears a file it is writing or an answer without a next position brought
\* both: for any messages, users, answers and number of crashes.
THEOREM NoMessageTwice == WSpec => []NothingTwice
<1>1. WInv => NothingTwice
  BY DEF WInv, PositionInv, Ordered, Before, NothingTwice
<1> QED
  BY <1>1, WInvariant, PTL

\* What Load gives the dispatcher is the newest token of the user that Save has
\* written, unless a crash tore a file or poll thread and dispatcher have been in the
\* token store at a time: they read, change and write its file without a lock.
THEOREM NewestTokenIsFound == WSpec => NewestTokenFound
<1>1. WInv /\ [WNext]_wvars =>
        [Load /\ ~overlap' /\ ~torn => found' = kept[sendTo]]_wvars
  <2> SUFFICES ASSUME WInv, Load, ~overlap', ~torn
               PROVE  found' = kept[sendTo]
    OBVIOUS
  <2>1. ~InStore("poll") /\ ~overlap /\ sendAt = "load" /\ found' = LoadAll[sendTo]
    BY DEF Load, WInv, WTypeInv
  <2>2. pollAt \notin Storing
    BY <2>1 DEF InStore, Storing
  <2>3. tokenFile = kept /\ kept # Torn
    BY <2>1, <2>2, WeixinAssumption DEF WInv, WTypeInv, TokenInv, Storing
  <2> QED
    BY <2>1, <2>3 DEF LoadAll
<1> QED
  BY <1>1, WInvariant, PTL DEF WSpec, NewestTokenFound

----------------------------------------------------------------------------
(* Conversations *)

\* What the agent is to answer came with an event; so did what Send remembers.
AskedOk(m) ==
  \/ m.channel = "qqbot" /\ \E e \in QQEvents : m.chat = GatewayEvent(e).chat /\ m.home = e.home
  \/ m.channel = "lark" /\ m.home \in {Place("chat_id", m.chat), Place("open_id", m.chat)}
  \/ m.channel = "weixin" /\ m.home = Place("user", m.chat)

TalkInv ==
  /\ \A t \in qqTargets : t.chat # Absent /\ \E e \in QQEvents : t = GatewayEvent(e)
  /\ \A m \in asked : AskedOk(m)
  /\ AnsweredWhereAsked

\* The server's updates up to h have been handled, those of the batch by this process,
\* which knows the ids of those with one.
HandledInv(h) ==
  /\ confirmed <= h
  /\ \A n \in 1 .. h : Reaches(Updates[n]) => n \in ToSet(shown)
  /\ \A i \in since + 1 .. Len(shown) : Updates[shown[i]].id > 0 => shown[i] <= h
  /\ \A i \in fetched.first .. Len(Updates) :
       Heard(Updates[i]) /\ Updates[i].id > 0 =>
         IF i <= h THEN Updates[i].id <= lastIds[Updates[i].chat]
         ELSE Updates[i].id > lastIds[Updates[i].chat]

PollTypeInv ==
  /\ fetched.last \in 0 .. Len(Updates) /\ fetched.first \in 1 .. fetched.last + 1
  /\ next \in fetched.first .. fetched.last + 1 /\ confirmed \in 0 .. fetched.last
  /\ lastIds \in [Chats -> Nat]
  /\ shown \in Seq(Nat) /\ since \in 0 .. Len(shown)

PollInv ==
  /\ PollTypeInv /\ InOrder
  /\ \E h \in next - 1 .. fetched.last : HandledInv(h)

----------------------------------------------------------------------------
(* AnsweredWhereAsked *)

\* Two events of one chat id are of one conversation, but for an event of a direct
\* conversation without the guild, whose target Send refuses.
LEMMA SameConversation ==
  ASSUME NEW e \in QQEvents, NEW f \in QQEvents,
         GatewayEvent(e).chat = GatewayEvent(f).chat,
         GatewayEvent(f).chat # Absent, GatewayEvent(f).to # Absent
  PROVE  Place(GatewayEvent(f).api, GatewayEvent(f).to) = e.home
<1> DEFINE Id(g, field, x) == x = g[field] /\ x \in Ids(field)
<1>1. \A g \in QQEvents : g.kind \in {"channel", "direct", "c2c", "group"} /\ g \in Events
  BY DEF QQEvents
<1>2. \A g \in QQEvents : \A field \in {"channel", "guild", "sender", "group"} :
        g[field] = Absent \/ g[field] \in Ids(field)
  BY DEF Ids
<1>3. \A a, b \in {"channel", "guild", "sender", "group"} : \A x :
        x \in Ids(a) /\ x \in Ids(b) => a = b
  BY EventsAssumption
<1>4. \A x \in QQEvents, y \in QQEvents :
        x.kind = "channel" /\ y.kind = "direct" /\ x.channel = y.channel => x.channel = Absent
  BY EventsAssumption
<1>5. \A x \in QQEvents : /\ x.kind = "channel" => x.home = Place("channel", x.channel)
                          /\ x.kind = "direct" => (x.guild # Absent => x.home = Place("direct", x.guild))
                          /\ x.kind = "c2c" => x.home = Place("c2c", x.sender)
                          /\ x.kind = "group" => x.home = Place("group", x.group)
  BY <1>1, EventsAssumption
<1>6. \A x \in QQEvents :
        /\ x.kind = "channel" => GatewayEvent(x) = ChannelEvent(x)
        /\ x.kind = "direct" => GatewayEvent(x) = DirectEvent(x)
        /\ x.kind = "c2c" => GatewayEvent(x) = C2CEvent(x)
        /\ x.kind = "group" => GatewayEvent(x) = GroupEvent(x)
  BY DEF GatewayEvent
<1>7. CASE f.kind = "channel"
  <2>1. GatewayEvent(f) = ChannelEvent(f) /\ f.channel \in Ids("channel")
    BY <1>2, <1>6, <1>7 DEF ChannelEvent
  <2> QED
    BY <1>1, <1>2, <1>3, <1>4, <1>5, <1>6, <1>7, <2>1
    DEF ChannelEvent, DirectEvent, C2CEvent, GroupEvent, FirstOf
<1>8. CASE f.kind = "direct"
  <2>1. GatewayEvent(f) = DirectEvent(f) /\ f.guild \in Ids("guild")
    BY <1>2, <1>6, <1>8 DEF DirectEvent
  <2> QED
    BY <1>1, <1>2, <1>3, <1>4, <1>5, <1>6, <1>8, <2>1
    DEF ChannelEvent, DirectEvent, C2CEvent, GroupEvent, FirstOf
<1>9. CASE f.kind = "c2c"
  <2>1. GatewayEvent(f) = C2CEvent(f) /\ f.sender \in Ids("sender")
    BY <1>2, <1>6, <1>9 DEF C2CEvent
  <2> QED
    BY <1>1, <1>2, <1>3, <1>4, <1>5, <1>6, <1>9, <2>1
    DEF ChannelEvent, DirectEvent, C2CEvent, GroupEvent, FirstOf
<1>10. CASE f.kind = "group"
  <2>1. GatewayEvent(f) = GroupEvent(f) /\ f.group \in Ids("group")
    BY <1>2, <1>6, <1>10 DEF GroupEvent
  <2> QED
    BY <1>1, <1>2, <1>3, <1>4, <1>5, <1>6, <1>10, <2>1
    DEF ChannelEvent, DirectEvent, C2CEvent, GroupEvent, FirstOf
<1> QED
  BY <1>1, <1>7, <1>8, <1>9, <1>10

\* An answer of the agent goes where the message came from.
LEMMA AnswerIsHome ==
  ASSUME TalkInv, NEW m \in asked, m.chat # Absent
  PROVE  \/ Destination(m) \in {m.home, Nowhere}
         \/ m.home.api = "open_id" /\ Destination(m).to = m.home.to
<1>1. AskedOk(m)
  BY DEF TalkInv
<1>2. CASE m.channel = "qqbot" /\ \E e \in QQEvents : m.chat = GatewayEvent(e).chat /\ m.home = e.home
  <2>1. PICK e \in QQEvents : m.chat = GatewayEvent(e).chat /\ m.home = e.home
    BY <1>2
  <2>2. Destination(m) = QQTarget(m.chat)
    BY <1>2 DEF Destination
  <2> DEFINE known == {t \in qqTargets : t.chat = m.chat /\ t.to # Absent}
             t == CHOOSE t \in known : TRUE
  <2>3. CASE known = {}
    BY <2>2, <2>3 DEF QQTarget
  <2>4. CASE known # {}
    <3>1. QQTarget(m.chat) = Place(t.api, t.to)
      BY <2>4 DEF QQTarget, Place
    <3>2. t \in known
      BY <2>4
    <3> HIDE DEF t
    <3>3. t \in qqTargets /\ t.chat = m.chat /\ t.to # Absent
      BY <3>2
    <3>4. PICK f \in QQEvents : t = GatewayEvent(f)
      BY <3>3 DEF TalkInv
    <3>5. Place(t.api, t.to) = e.home
      BY <2>1, <3>3, <3>4, SameConversation
    <3> QED
      BY <2>1, <2>2, <3>1, <3>5
  <2> QED
    BY <2>3, <2>4
<1>3. CASE m.channel = "lark" /\ m.home \in {Place("chat_id", m.chat), Place("open_id", m.chat)}
  BY <1>3 DEF Destination, Place
<1>4. CASE m.channel = "weixin" /\ m.home = Place("user", m.chat)
  BY <1>4 DEF Destination, Place
<1> QED
  BY <1>1, <1>2, <1>3, <1>4 DEF AskedOk

LEMMA TalkStep ==
  ASSUME TalkInv, [CNext]_cvars
  PROVE  TalkInv'
<1>1. ASSUME UNCHANGED qqVars
      PROVE  TalkInv'
  BY <1>1 DEF TalkInv, qqVars, AnsweredWhereAsked
<1>2. ASSUME NEW e \in Events, QQReceive(e)
      PROVE  TalkInv'
  <2> DEFINE target == GatewayEvent(e)
             all == {t \in qqTargets : t.chat # target.chat} \cup {target}
             m == [channel |-> "qqbot", chat |-> target.chat, home |-> e.home]
  <2>1. e \in QQEvents
    BY <1>2 DEF QQReceive, QQEvents
  <2>2. qqTargets' \in Remembered(target) /\ asked' \subseteq asked \cup {m}
    BY <1>2 DEF QQReceive
  <2>3. answered' = answered
    BY <1>2 DEF QQReceive
  <2>4. qqTargets' \subseteq qqTargets \/ (target.chat # Absent /\ qqTargets' \subseteq qqTargets \cup {target})
    BY <2>2, Zenon DEF Remembered
  <2>5. m.channel = "qqbot" /\ m.chat = GatewayEvent(e).chat /\ m.home = e.home
    OBVIOUS
  <2>6. AskedOk(m)
    BY <2>1, <2>5 DEF AskedOk
  <2> HIDE DEF m
  <2>7. \A t \in qqTargets' : t.chat # Absent /\ \E f \in QQEvents : t = GatewayEvent(f)
    BY <2>1, <2>4 DEF TalkInv
  <2>8. \A n \in asked' : AskedOk(n)
    BY <2>2, <2>6 DEF TalkInv
  <2> QED
    BY <2>3, <2>7, <2>8 DEF TalkInv, AnsweredWhereAsked
<1>3. ASSUME NEW e \in Events, LarkReceive(e)
      PROVE  TalkInv'
  <2> DEFINE chat == FirstOf(e.chat, e.sender)
             m == [channel |-> "lark", chat |-> chat, home |-> e.home]
  <2>1. asked' = asked \cup {m} /\ UNCHANGED <<qqTargets, answered>> /\ e.kind = "lark"
    BY <1>3 DEF LarkReceive
  <2>2. e.home = IF e.chat # Absent THEN Place("chat_id", e.chat) ELSE Place("open_id", e.sender)
    BY <2>1, EventsAssumption
  <2>3. AskedOk(m)
    BY <2>2 DEF AskedOk, FirstOf
  <2> HIDE DEF m
  <2> QED
    BY <2>1, <2>3 DEF TalkInv, AnsweredWhereAsked
<1>4. ASSUME NEW e \in Events, WeixinReceive(e)
      PROVE  TalkInv'
  <2> DEFINE m == [channel |-> "weixin", chat |-> e.sender, home |-> e.home]
  <2>1. asked' = asked \cup {m} /\ UNCHANGED <<qqTargets, answered>> /\ e.kind = "weixin"
    BY <1>4 DEF WeixinReceive
  <2>2. e.home = Place("user", e.sender)
    BY <2>1, EventsAssumption
  <2>3. AskedOk(m)
    BY <2>2 DEF AskedOk
  <2> HIDE DEF m
  <2> QED
    BY <2>1, <2>3 DEF TalkInv, AnsweredWhereAsked
<1>5. ASSUME NEW m \in asked, Answer(m)
      PROVE  TalkInv'
  <2>1. /\ asked' \subseteq asked /\ qqTargets' = qqTargets
        /\ answered'.went = Destination(m) /\ answered'.home = m.home
    BY <1>5 DEF Answer
  <2>2. CASE m.chat = Absent
    BY <2>1, <2>2 DEF TalkInv, AnsweredWhereAsked, Destination
  <2>3. CASE m.chat # Absent
    <3>1. AnsweredWhereAsked'
      BY <2>1, <2>3, AnswerIsHome DEF AnsweredWhereAsked
    <3> QED
      BY <2>1, <3>1 DEF TalkInv
  <2> QED
    BY <2>2, <2>3
<1>6. ASSUME Restart
      PROVE  TalkInv'
  BY <1>6 DEF Restart, TalkInv, AnsweredWhereAsked
<1>7. LongPoll => UNCHANGED qqVars
  BY DEF LongPoll, Fetch, FetchFails, GreetingFails, DropUpdate, HandleUpdate
<1>8. UNCHANGED cvars => UNCHANGED qqVars
  BY DEF cvars, qqVars
<1> QED
  BY <1>1, <1>2, <1>3, <1>4, <1>5, <1>6, <1>7, <1>8, Zenon DEF CNext, Talk

\* The answer to any message goes to the conversation it came from or nowhere,
\* whatever the cache of QQ's targets has dropped, replaced or lost in a restart
\* between the message and its answer (RememberTarget, ResolveTarget).
THEOREM AnswersGoHome == CSpec => []AnsweredWhereAsked
<1>1. CInit => TalkInv
  BY DEF CInit, TalkInv, AnsweredWhereAsked
<1>2. TalkInv => AnsweredWhereAsked
  BY DEF TalkInv
<1> QED
  BY <1>1, <1>2, TalkStep, PTL DEF CSpec

----------------------------------------------------------------------------
(* EachUpdateOnce *)

LEMMA PollInit == CInit => PollInv
<1> SUFFICES ASSUME CInit PROVE PollInv
  OBVIOUS
<1>1. Len(Updates) \in Nat
      /\ \A i \in 1 .. Len(Updates) : Updates[i].id \in Nat /\ Updates[i].chat \in Chats \cup {Absent}
  BY ConversationsAssumption
<1>2. PollTypeInv /\ InOrder
  BY <1>1 DEF CInit, NoIds, PollTypeInv, InOrder
<1>3. HandledInv(0)
  BY <1>1 DEF CInit, NoIds, HandledInv, Heard
<1> QED
  BY <1>2, <1>3 DEF PollInv, CInit

\* A step that changes neither what has been shown nor the ids keeps what has been
\* handled and the order.
LEMMA SameShown ==
  ASSUME UNCHANGED <<shown, since, lastIds>>,
         NEW h \in Nat, HandledInv(h), confirmed' <= h,
         fetched.first \in Nat, fetched'.first \in Nat, fetched.first <= fetched'.first
  PROVE  HandledInv(h)' /\ (InOrder => InOrder')
<1>1. Len(Updates) \in Nat
  BY ConversationsAssumption
<1>2. \A i \in fetched'.first .. Len(Updates) : i \in fetched.first .. Len(Updates)
  BY <1>1
<1> QED
  BY <1>2 DEF HandledInv, InOrder

\* An update that has been handled before or is not for the agent changes nothing.
LEMMA DropStep ==
  ASSUME PollInv, DropUpdate
  PROVE  PollInv'
<1>1. /\ Len(Updates) \in Nat
      /\ \A i \in 1 .. Len(Updates) : Updates[i].id \in Nat
      /\ \A i \in 1 .. Len(Updates) : Updates[i].chat \in Chats \cup {Absent}
  BY ConversationsAssumption
<1>2. /\ next \in fetched.first .. fetched.last /\ next \in 1 .. Len(Updates)
      /\ next' = next + 1
      /\ UNCHANGED <<lastIds, fetched, confirmed, shown, since>>
      /\ Heard(Updates[next]) => Seen(Updates[next])
  BY <1>1 DEF DropUpdate, PollInv, PollTypeInv
<1>3. PICK h \in next - 1 .. fetched.last : HandledInv(h)
  BY DEF PollInv
<1>4. PollTypeInv'
  BY <1>1, <1>2 DEF PollInv, PollTypeInv
<1>5. CASE next <= h
  <2>1. HandledInv(h)' /\ InOrder'
    BY <1>2, <1>3 DEF HandledInv, InOrder, PollInv
  <2>2. h \in next' - 1 .. fetched'.last
    BY <1>1, <1>2, <1>3, <1>5 DEF PollInv, PollTypeInv
  <2> QED
    BY <1>4, <2>1, <2>2 DEF PollInv
<1>6. CASE ~ (next <= h)
  <2>1. h = next - 1
    BY <1>1, <1>2, <1>3, <1>6 DEF PollInv, PollTypeInv
  <2>2. ~Heard(Updates[next])
    <3>1. Heard(Updates[next]) /\ Updates[next].id > 0 =>
            Updates[next].id > lastIds[Updates[next].chat]
      BY <1>1, <1>2, <1>3, <1>6 DEF HandledInv
    <3>2. Heard(Updates[next]) => lastIds[Updates[next].chat] \in Nat
      BY <1>1, <1>2 DEF Heard, PollInv, PollTypeInv
    <3> QED
      BY <1>1, <1>2, <3>1, <3>2 DEF Seen
  <2>a. PICK m \in Nat : m = next
    BY <1>2
  <2>3. HandledInv(m)' /\ InOrder'
    <3>1. \A n \in 1 .. next : n = next \/ n \in 1 .. h
      BY <1>2, <2>1
    <3>2. \A n \in 1 .. next : Reaches(Updates[n]) => n \in ToSet(shown)
      BY <1>3, <2>2, <3>1 DEF HandledInv, Reaches
    <3>3. \A i \in fetched.first .. Len(Updates) : i = next \/ (i <= next <=> i <= h)
      BY <1>1, <1>2, <2>1 DEF PollInv, PollTypeInv
    <3>4. h \in Int /\ next \in Int /\ h <= next /\ confirmed \in Int /\ confirmed <= h
      BY <1>1, <1>2, <1>3, <2>1 DEF PollInv, PollTypeInv, HandledInv
    <3>5. \A i \in since + 1 .. Len(shown) : shown[i] \in Nat
      BY DEF PollInv, PollTypeInv
    <3>6. \A i \in since + 1 .. Len(shown) : Updates[shown[i]].id > 0 => shown[i] <= next
      BY <1>3, <3>4, <3>5 DEF HandledInv
    <3>7. \A i \in fetched.first .. Len(Updates) :
            Heard(Updates[i]) /\ Updates[i].id > 0 =>
              IF i <= next THEN Updates[i].id <= lastIds[Updates[i].chat]
              ELSE Updates[i].id > lastIds[Updates[i].chat]
      BY <1>3, <2>2, <3>3 DEF HandledInv
    <3>8. InOrder'
      BY <1>2 DEF PollInv, InOrder
    <3> QED
      BY <1>2, <2>a, <3>2, <3>4, <3>6, <3>7, <3>8 DEF HandledInv
  <2>4. m \in next' - 1 .. fetched'.last
    BY <1>1, <1>2, <2>a DEF PollInv, PollTypeInv
  <2> QED
    BY <1>4, <2>3, <2>4 DEF PollInv
<1> QED
  BY <1>5, <1>6

\* What HandleUpdate adds to the messages shown.
LEMMA ShownMore ==
  ASSUME PollTypeInv, next \in Nat, UNCHANGED since, NEW yes \in BOOLEAN,
         shown' = IF yes THEN Append(shown, next) ELSE shown
  PROVE  /\ shown' \in Seq(Nat) /\ since' \in 0 .. Len(shown')
         /\ \A i \in since' + 1 .. Len(shown') :
              \/ i \in since + 1 .. Len(shown) /\ shown'[i] = shown[i]
              \/ i = Len(shown) + 1 /\ shown'[i] = next
         /\ \A n \in ToSet(shown) : n \in ToSet(shown')
         /\ yes => next \in ToSet(shown')
<1>1. shown \in Seq(Nat) /\ since \in 0 .. Len(shown) /\ Len(shown) \in Nat
  BY DEF PollTypeInv
<1>2. CASE ~yes
  BY <1>1, <1>2
<1>3. CASE yes
  <2>1. /\ shown' \in Seq(Nat) /\ Len(shown') = Len(shown) + 1
        /\ \A i \in 1 .. Len(shown) : shown'[i] = shown[i]
        /\ shown'[Len(shown) + 1] = next
    BY <1>1, <1>3
  <2>2. DOMAIN shown = 1 .. Len(shown) /\ DOMAIN shown' = 1 .. Len(shown) + 1
    BY <1>1, <2>1
  <2>3. \A n \in ToSet(shown) : n \in ToSet(shown')
    <3> SUFFICES ASSUME NEW i \in DOMAIN shown PROVE shown[i] \in ToSet(shown')
      BY DEF ToSet
    <3>1. i \in DOMAIN shown' /\ shown'[i] = shown[i]
      BY <1>1, <2>1, <2>2
    <3> QED
      BY <3>1 DEF ToSet
  <2>4. next \in ToSet(shown')
    <3>1. Len(shown) + 1 \in DOMAIN shown'
      BY <1>1, <2>2
    <3> QED
      BY <2>1, <3>1 DEF ToSet
  <2>5. ASSUME NEW i \in since' + 1 .. Len(shown')
        PROVE  \/ i \in since + 1 .. Len(shown) /\ shown'[i] = shown[i]
               \/ i = Len(shown) + 1 /\ shown'[i] = next
    BY <1>1, <2>1
  <2> QED
    BY <1>1, <2>1, <2>3, <2>4, <2>5
<1> QED
  BY <1>2, <1>3

\* A message that is new, or has no id.
LEMMA HandleStep ==
  ASSUME PollInv, HandleUpdate
  PROVE  PollInv'
<1> DEFINE u == Updates[next]
           yes == HandleMessage(u.sender, u.chat)
<1>1. /\ Len(Updates) \in Nat
      /\ \A i \in 1 .. Len(Updates) : Updates[i].id \in Nat
      /\ \A i \in 1 .. Len(Updates) : Updates[i].chat \in Chats \cup {Absent}
  BY ConversationsAssumption
<1>2. /\ next \in fetched.first .. fetched.last /\ next \in 1 .. Len(Updates)
      /\ next' = next + 1 /\ Heard(u) /\ ~Seen(u)
      /\ UNCHANGED <<fetched, confirmed, since>>
      /\ lastIds' = IF u.id > 0 THEN [lastIds EXCEPT ![u.chat] = u.id] ELSE lastIds
      /\ shown' = IF yes THEN Append(shown, next) ELSE shown
  BY <1>1 DEF HandleUpdate, PollInv, PollTypeInv
<1>3. PICK h \in next - 1 .. fetched.last : HandledInv(h)
  BY DEF PollInv
<1>a. yes \in BOOLEAN
  BY DEF HandleMessage, IsAllowed
<1>4. /\ shown' \in Seq(Nat) /\ since' \in 0 .. Len(shown')
      /\ \A i \in since' + 1 .. Len(shown') :
           \/ i \in since + 1 .. Len(shown) /\ shown'[i] = shown[i]
           \/ i = Len(shown) + 1 /\ shown'[i] = next
      /\ \A n \in ToSet(shown) : n \in ToSet(shown')
      /\ yes => next \in ToSet(shown')
  <2> HIDE DEF yes
  <2> QED
    BY <1>1, <1>2, <1>a, ShownMore DEF PollInv
<1>5. u.chat \in Chats /\ u.id \in Nat
  BY <1>1, <1>2 DEF Heard
<1>6. PollTypeInv'
  BY <1>1, <1>2, <1>4, <1>5 DEF PollInv, PollTypeInv
<1>7. /\ Len(shown) \in Nat /\ since \in Nat /\ \A i \in since + 1 .. Len(shown) : shown[i] \in Nat
      /\ h \in Nat /\ next \in Nat /\ confirmed \in Nat /\ confirmed <= h
      /\ fetched.first \in Nat /\ fetched.last \in Nat /\ fetched.first <= next
  <2>1. Len(shown) \in Nat /\ since \in Nat /\ \A i \in since + 1 .. Len(shown) : shown[i] \in Nat
    BY DEF PollInv, PollTypeInv
  <2>2. fetched.last \in Nat /\ fetched.first \in Nat /\ next \in Nat /\ confirmed \in Nat
    BY <1>1 DEF PollInv, PollTypeInv
  <2>3. h \in Nat /\ fetched.first <= next /\ confirmed <= h
    BY <1>2, <1>3, <2>2 DEF HandledInv
  <2> QED
    BY <2>1, <2>2, <2>3
<1>8. u.id > 0 => h = next - 1
  <2>1. u.id > 0 /\ next <= h => u.id <= lastIds[u.chat]
    BY <1>1, <1>2, <1>3 DEF HandledInv
  <2>2. h >= next - 1
    BY <1>3, <1>7
  <2> QED
    BY <1>2, <1>7, <2>1, <2>2 DEF Seen
<1>b. PICK k \in Nat : k = IF next <= h THEN h ELSE next
  BY <1>7
<1>9. /\ k \in Nat /\ h <= k /\ next <= k /\ k \in next' - 1 .. fetched'.last
      /\ \A n \in 1 .. k : n = next \/ n \in 1 .. h
      /\ \A i \in fetched.first .. Len(Updates) : i = next \/ (i <= k <=> i <= h)
      /\ u.id > 0 => k = next
  BY <1>1, <1>2, <1>3, <1>7, <1>8, <1>b
<1>10. \A n \in 1 .. k : Reaches(Updates[n]) => n \in ToSet(shown')
  BY <1>3, <1>4, <1>9 DEF HandledInv, Reaches
<1>11. \A i \in since' + 1 .. Len(shown') : Updates[shown'[i]].id > 0 => shown'[i] <= k
  <2> SUFFICES ASSUME NEW i \in since' + 1 .. Len(shown'), Updates[shown'[i]].id > 0
               PROVE  shown'[i] <= k
    OBVIOUS
  <2>1. CASE i \in since + 1 .. Len(shown) /\ shown'[i] = shown[i]
    <3>1. shown[i] <= h /\ shown[i] \in Nat
      BY <1>3, <1>7, <2>1 DEF HandledInv
    <3> QED
      BY <1>7, <1>9, <2>1, <3>1
  <2>2. CASE i = Len(shown) + 1 /\ shown'[i] = next
    BY <1>9, <2>2
  <2> QED
    BY <1>4, <2>1, <2>2
<1>12. InOrder'
  <2> SUFFICES ASSUME NEW i \in since' + 1 .. Len(shown'), NEW j \in since' + 1 .. Len(shown'),
                      i < j, Updates[shown'[i]].id > 0, Updates[shown'[j]].id > 0
               PROVE  shown'[i] < shown'[j]
    BY DEF InOrder
  <2>0. i \in Int /\ j \in Int
    <3>1. Len(shown') \in Nat /\ since' \in Nat
      BY <1>4
    <3> QED
      BY <3>1
  <2>a. /\ (i \in since + 1 .. Len(shown) /\ shown'[i] = shown[i]) \/ i = Len(shown) + 1
        /\ j \in since + 1 .. Len(shown) \/ j = Len(shown) + 1
    BY <1>4
  <2>1. i \in since + 1 .. Len(shown) /\ shown'[i] = shown[i]
    BY <1>7, <2>0, <2>a
  <2>2. CASE j \in since + 1 .. Len(shown) /\ shown'[j] = shown[j]
    BY <2>1, <2>2 DEF PollInv, InOrder
  <2>3. CASE j = Len(shown) + 1 /\ shown'[j] = next
    <3>1. u.id > 0
      BY <2>3
    <3>2. shown[i] <= h
      BY <1>3, <2>1 DEF HandledInv
    <3> QED
      BY <1>7, <1>8, <2>1, <2>3, <3>1, <3>2
  <2> QED
    BY <1>4, <2>2, <2>3
<1>13. ASSUME NEW i \in fetched.first .. Len(Updates),
              Heard(Updates[i]), Updates[i].id > 0
       PROVE  IF i <= k THEN Updates[i].id <= lastIds'[Updates[i].chat]
              ELSE Updates[i].id > lastIds'[Updates[i].chat]
  <2>1. i \in 1 .. Len(Updates) /\ i \in Nat /\ i \in DOMAIN Updates /\ next \in DOMAIN Updates
    <3>1. DOMAIN Updates = 1 .. Len(Updates)
      BY ConversationsAssumption
    <3>2. fetched.first \in 1 .. fetched.last + 1 /\ fetched.last \in 0 .. Len(Updates)
      BY DEF PollInv, PollTypeInv
    <3> QED
      BY <1>1, <1>2, <3>1, <3>2
  <2>2. Updates[i].chat \in Chats /\ Updates[i].id \in Nat
    BY <1>1, <1>13, <2>1 DEF Heard
  <2>3. IF i <= h THEN Updates[i].id <= lastIds[Updates[i].chat]
        ELSE Updates[i].id > lastIds[Updates[i].chat]
    BY <1>3, <1>13 DEF HandledInv
  <2>4. CASE u.id = 0
    <3>1. lastIds' = lastIds /\ i # next
      BY <1>2, <1>13, <2>4
    <3> QED
      BY <1>9, <2>3, <3>1
  <2>5. CASE u.id > 0
    <3>1. lastIds' = [lastIds EXCEPT ![u.chat] = u.id] /\ k = next
      BY <1>2, <1>9, <2>5
    <3>2. CASE Updates[i].chat # u.chat
      <4>1. lastIds'[Updates[i].chat] = lastIds[Updates[i].chat] /\ i # next
        BY <2>2, <3>1, <3>2 DEF PollInv, PollTypeInv
      <4> QED
        BY <1>9, <2>3, <4>1
    <3>3. CASE Updates[i].chat = u.chat
      <4>1. lastIds'[Updates[i].chat] = u.id
        BY <1>5, <3>1, <3>3 DEF PollInv, PollTypeInv
      <4>2. /\ i < next => Updates[i].id < u.id
            /\ next < i => u.id < Updates[i].id
        BY <1>13, <2>1, <2>5, <3>3, ConversationsAssumption
      <4> QED
        BY <1>5, <1>7, <2>1, <2>2, <3>1, <4>1, <4>2
    <3> QED
      BY <3>2, <3>3
  <2> QED
    BY <1>5, <2>4, <2>5
<1>14. HandledInv(k)'
  <2>1. confirmed' <= k
    BY <1>2, <1>7, <1>9
  <2> QED
    BY <1>2, <1>10, <1>11, <1>13, <2>1 DEF HandledInv
<1> QED
  BY <1>6, <1>9, <1>12, <1>14 DEF PollInv

LEMMA PollStep ==
  ASSUME PollInv, [CNext]_cvars
  PROVE  PollInv'
<1>0. Len(Updates) \in Nat
  BY ConversationsAssumption
<1>1. /\ fetched.last \in Nat /\ fetched.first \in Nat /\ next \in Nat /\ confirmed \in Nat
      /\ fetched.last <= Len(Updates) /\ 1 <= fetched.first /\ fetched.first <= next
      /\ next <= fetched.last + 1 /\ confirmed <= fetched.last
  BY <1>0 DEF PollInv, PollTypeInv
<1>2. PICK h \in next - 1 .. fetched.last : HandledInv(h)
  BY DEF PollInv
<1>3. h \in Nat /\ h <= fetched.last /\ next - 1 <= h /\ confirmed <= h
  BY <1>1, <1>2 DEF HandledInv
<1>a. ASSUME UNCHANGED telegramVars
      PROVE  PollInv'
  BY <1>a DEF telegramVars, PollInv, PollTypeInv, InOrder, HandledInv
<1>b. ASSUME Fetch
      PROVE  PollInv'
  <2>1. PICK last \in fetched.last .. Len(Updates) :
          fetched' = [first |-> fetched.last + 1, last |-> last]
    BY <1>b DEF Fetch
  <2>2. /\ next = fetched.last + 1 /\ h = fetched.last /\ confirmed' = fetched.last
        /\ UNCHANGED <<lastIds, next, shown, since>>
    BY <1>1, <1>3, <1>b DEF Fetch
  <2>3. /\ fetched'.first = fetched.last + 1 /\ fetched'.last = last
        /\ last \in Nat /\ fetched.last <= last /\ last <= Len(Updates)
    BY <1>0, <1>1, <2>1
  <2>4. PollTypeInv'
    BY <1>0, <1>1, <2>2, <2>3 DEF PollInv, PollTypeInv
  <2>5. HandledInv(h)' /\ InOrder'
    BY <1>1, <1>2, <1>3, <2>2, <2>3, SameShown DEF PollInv
  <2>6. h \in next' - 1 .. fetched'.last
    BY <1>1, <2>2, <2>3
  <2> QED
    BY <2>4, <2>5, <2>6 DEF PollInv
<1>c. ASSUME FetchFails \/ GreetingFails
      PROVE  PollInv'
  <2>1. /\ next' = fetched.first /\ UNCHANGED <<lastIds, fetched, shown, since>>
        /\ \/ confirmed' = confirmed
           \/ next > fetched.last /\ confirmed' = fetched.last
    BY <1>c DEF FetchFails, GreetingFails
  <2>2. confirmed' \in 0 .. fetched.last /\ confirmed' <= h
    BY <1>1, <1>3, <2>1
  <2>3. PollTypeInv'
    BY <1>1, <2>1, <2>2 DEF PollInv, PollTypeInv
  <2>4. HandledInv(h)' /\ InOrder'
    BY <1>1, <1>2, <1>3, <2>1, <2>2, SameShown DEF PollInv
  <2>5. h \in next' - 1 .. fetched'.last
    BY <1>1, <1>3, <2>1
  <2> QED
    BY <2>3, <2>4, <2>5 DEF PollInv
<1>d. ASSUME Restart
      PROVE  PollInv'
  <2>1. /\ lastIds' = NoIds /\ fetched'.first = confirmed + 1 /\ fetched'.last = confirmed
        /\ next' = confirmed + 1 /\ since' = Len(shown) /\ UNCHANGED <<confirmed, shown>>
    BY <1>d DEF Restart
  <2>2. Len(shown) \in Nat
    BY DEF PollInv, PollTypeInv
  <2>3. PollTypeInv'
    BY <1>0, <1>1, <2>1, <2>2 DEF PollInv, PollTypeInv, NoIds
  <2>4. InOrder'
    BY <2>1, <2>2 DEF InOrder
  <2>5. \A n \in 1 .. confirmed : n \in 1 .. h
    BY <1>1, <1>3
  <2>6. \A i \in confirmed + 1 .. Len(Updates) :
          Heard(Updates[i]) /\ Updates[i].id > 0 =>
            ~ (i <= confirmed) /\ Updates[i].id > NoIds[Updates[i].chat]
    <3> SUFFICES ASSUME NEW i \in confirmed + 1 .. Len(Updates),
                        Heard(Updates[i]), Updates[i].id > 0
                 PROVE  ~ (i <= confirmed) /\ Updates[i].id > NoIds[Updates[i].chat]
      OBVIOUS
    <3>1. Updates[i].chat \in Chats
      BY <1>0, <1>1, ConversationsAssumption DEF Heard
    <3> QED
      BY <1>0, <1>1, <3>1 DEF NoIds
  <2>a. \A n \in 1 .. confirmed : Reaches(Updates[n]) => n \in ToSet(shown)
    BY <1>2, <2>5 DEF HandledInv
  <2>7. HandledInv(confirmed)'
    BY <1>1, <2>1, <2>2, <2>a, <2>6 DEF HandledInv
  <2>8. confirmed \in next' - 1 .. fetched'.last
    BY <1>1, <2>1
  <2>9. \E m \in next' - 1 .. fetched'.last : HandledInv(m)'
    BY <2>1, <2>7, <2>8
  <2> QED
    BY <2>3, <2>4, <2>9 DEF PollInv
<1>e. Talk => UNCHANGED telegramVars
  BY DEF Talk, QQReceive, LarkReceive, WeixinReceive, Answer
<1>f. UNCHANGED cvars => UNCHANGED telegramVars
  BY DEF cvars, telegramVars
<1> QED
  BY <1>a, <1>b, <1>c, <1>d, <1>e, <1>f, DropStep, HandleStep, Zenon DEF CNext, LongPoll

\* A process shows the agent no message with an id twice or out of order, and nothing
\* that is to reach the agent is lost, for any updates, batches and restarts, however
\* often the library handles a batch again (onAnyMessage, last_message_ids_).
THEOREM UpdatesArriveOnce == CSpec => []EachUpdateOnce
<1>1. PollInv => EachUpdateOnce
  <2> SUFFICES ASSUME PollInv PROVE NoneLost
    BY DEF EachUpdateOnce, PollInv
  <2>1. PICK h \in next - 1 .. fetched.last : HandledInv(h)
    BY DEF PollInv
  <2>2. next \in Nat /\ h \in Int /\ next - 1 <= h
    BY <2>1, ConversationsAssumption DEF PollInv, PollTypeInv
  <2>3. \A n \in 1 .. next - 1 : n \in 1 .. h
    BY <2>2
  <2> QED
    BY <2>1, <2>3 DEF NoneLost, HandledInv
<1> QED
  BY <1>1, PollInit, PollStep, PTL DEF CSpec
=============================================================================
