--------------------------- MODULE DeliveryProofs ---------------------------
(* What holds of Delivery for any number of channels, messages, notices and *)
(* attempts: proofs of its safety properties.                               *)
EXTENDS Delivery, FiniteSetTheorems, TLAPS

(***************************************************************************)
(* The inductive invariant. Both queues are the untaken rest of a history: *)
(* inbound of accepted and outbound of published. What has been taken is   *)
(* finished, except for the last element while a thread works on it.       *)
(***************************************************************************)
Busy == registry = "received" \/ registry = "turn"
Handled == Len(accepted) - Len(inbound)
Finished == IF Busy THEN Handled - 1 ELSE Handled
Taken == Len(published) - Len(outbound)

OutboundInv ==
  /\ Len(outbound) <= Len(published)
  /\ \A i \in 1..Len(outbound) : outbound[i] = Taken + i
  /\ IF dispatcher = "send"
     THEN /\ Taken > 0 /\ sending = Taken
          /\ published[sending].to \in Channels
     ELSE sending = 0
  /\ settled = 1..(IF dispatcher = "send" THEN Taken - 1 ELSE Taken)
  /\ shown <= Taken

InboundInv ==
  /\ Len(inbound) <= Len(accepted)
  /\ \A i \in 1..Len(inbound) : inbound[i] = accepted[Handled + i]
  /\ \A i, j \in 1..Len(accepted) : accepted[i] = accepted[j] => i = j
  /\ IF Busy THEN Handled > 0 /\ hand = accepted[Handled] ELSE hand = None

AnswersInv ==
  /\ \A i \in 1..Len(published) : published[i].answer =>
       \E k \in 1..Finished : accepted[k] = published[i].of
  /\ \A k \in 1..Finished : \E i \in 1..Len(published) :
       published[i].answer /\ published[i].of = accepted[k]
  /\ \A i, j \in 1..Len(published) :
       (/\ published[i].answer /\ published[j].answer
        /\ published[i].of = published[j].of) => i = j
  /\ AnswersInOrder

StopInv ==
  /\ gateway \in {"closing", "ending", "exited"} => dispatcher = "exited"
  /\ \A c \in Channels :
       channel[c] = "stopped" => gateway \in {"closing", "ending", "exited"}

TypeInv ==
  /\ TypeOK
  /\ Busy => hand # None
  /\ dispatcher = "send" => sending # 0
  /\ gateway = "begin" => registry = "off"
  /\ gateway \in {"begin", "agents"} => dispatcher = "off"

Inv == TypeInv /\ OutboundInv /\ InboundInv /\ AnswersInv /\ StopInv

----------------------------------------------------------------------------
(* Types *)

\* The initial state has its types.
LEMMA TypeInit == Init => TypeInv
  BY DeliveryAssumption DEF Init, TypeInv, TypeOK, Positions, Busy

\* A publication appends to both sequences.
LEMMA PutType ==
  ASSUME published \in Seq(Outs), outbound \in Seq(Positions),
         NEW out \in Outs, Put(out)
  PROVE  /\ published' \in Seq(Outs)
         /\ Len(published') = Len(published) + 1
         /\ published'[Len(published')] = out
         /\ \A i \in 1..Len(published) : published'[i] = published[i]
         /\ Positions \subseteq Positions'
         /\ outbound' \in Seq(Positions')
         /\ Len(outbound') = Len(outbound) + 1
         /\ outbound'[Len(outbound')] = Len(published')
         /\ \A i \in 1..Len(outbound) : outbound'[i] = outbound[i]
<1>1. /\ published' = Append(published, out)
      /\ outbound' = Append(outbound, Len(published'))
  BY DEF Put
<1>2. /\ published' \in Seq(Outs)
      /\ Len(published') = Len(published) + 1
      /\ published'[Len(published')] = out
      /\ \A i \in 1..Len(published) : published'[i] = published[i]
  BY <1>1
<1>3. Positions = 1..Len(published) /\ Positions' = 1..Len(published')
  BY <1>2 DEF Positions
<1>4. Positions \subseteq Positions' /\ Len(published') \in Positions'
  BY <1>2, <1>3
<1>5. outbound \in Seq(Positions')
  BY <1>4
<1> QED
  BY <1>1, <1>2, <1>4, <1>5

\* Taking a message leaves the rest of the queue.
LEMMA TailType ==
  ASSUME NEW S, NEW q \in Seq(S), q # <<>>
  PROVE  /\ Head(q) \in S /\ Head(q) = q[1] /\ Len(q) > 0
         /\ Tail(q) \in Seq(S) /\ Len(Tail(q)) = Len(q) - 1
         /\ \A i \in 1..Len(Tail(q)) : Tail(q)[i] = q[i + 1]
  OBVIOUS

\* Taking a message keeps the types, on either queue.
LEMMA TakeInboundType ==
  ASSUME TypeInv, TakeInbound, registry \in {"check", "asleep"}
  PROVE  TypeInv'
<1>1. Head(inbound) \in Messages /\ Tail(inbound) \in Seq(Messages)
  BY TailType DEF TypeInv, TypeOK, TakeInbound
<1>2. /\ inbound' = Tail(inbound) /\ hand' = Head(inbound)
      /\ registry' = "received"
      /\ UNCHANGED <<outbound, accepted, published, said, dispVars, gateVars>>
  BY DEF TakeInbound
<1> QED
  BY <1>1, <1>2, DeliveryAssumption
  DEF TypeInv, TypeOK, Positions, Busy, dispVars, gateVars

\* The same for the dispatcher.
LEMMA TakeOutboundType ==
  ASSUME TypeInv, TakeOutbound, dispatcher \in {"check", "asleep"}
  PROVE  TypeInv'
<1>1. Head(outbound) \in Positions /\ Tail(outbound) \in Seq(Positions)
  BY TailType DEF TypeInv, TypeOK, TakeOutbound
<1>2. /\ outbound' = Tail(outbound) /\ attempt' = 1
      /\ dispatcher' \in {"loop", "send"}
      /\ sending' \in {sending, Head(outbound)}
      /\ dispatcher' = "send" => sending' = Head(outbound)
      /\ settled' \in {settled, settled \cup {Head(outbound)}}
      /\ UNCHANGED <<inbound, accepted, published, regVars, shown, gateVars>>
  BY DEF TakeOutbound
<1>3. Head(outbound) # 0 /\ Positions' = Positions
  BY <1>1, <1>2 DEF Positions, TypeInv, TypeOK
<1> QED
  BY <1>1, <1>2, <1>3, DeliveryAssumption
  DEF TypeInv, TypeOK, Busy, regVars, gateVars

\* A publication by the registry's thread, in the middle or at the end of a turn.
LEMMA RegistryPublishesType ==
  ASSUME TypeInv, Busy, NEW out \in Outs, Put(out),
         registry' \in {"turn", "loop"},
         dispatcher' = dispatcher \/ (dispatcher = "asleep" /\ dispatcher' = "check"),
         hand' \in Messages \cup {None},
         registry' = "turn" => hand' # None,
         said' \in 0..MaxSaid,
         UNCHANGED <<inbound, accepted, sending, attempt, settled, shown, gateVars>>
  PROVE  TypeInv'
<1>2. /\ published' \in Seq(Outs) /\ Positions \subseteq Positions'
      /\ outbound' \in Seq(Positions')
  BY PutType DEF TypeInv, TypeOK
<1>3. /\ sending' \in Positions' \cup {0} /\ shown' \in Positions' \cup {0}
      /\ settled' \subseteq Positions'
  BY <1>2 DEF TypeInv, TypeOK
<1> QED
  BY <1>2, <1>3, DeliveryAssumption
  DEF TypeInv, TypeOK, Busy, gateVars

\* Every step keeps the types.
LEMMA TypeStep == TypeInv /\ [Next]_vars => TypeInv'
<1> SUFFICES ASSUME TypeInv, [Next]_vars PROVE TypeInv'
  OBVIOUS
<1> USE DeliveryAssumption DEF TypeInv, TypeOK, Busy, vars, bus, regVars, dispVars, gateVars
<1>1. CASE RegistryTests
  BY <1>1 DEF RegistryTests, Positions
<1>2. CASE RegistryChecks
  <2>1. CASE TakeInbound
    BY <1>2, <2>1, TakeInboundType DEF RegistryChecks
  <2>2. CASE ~TakeInbound
    BY <1>2, <2>2 DEF RegistryChecks, Positions
  <2> QED
    BY <2>1, <2>2
<1>3. CASE RegistryTimesOut
  <2>1. CASE TakeInbound
    BY <1>3, <2>1, TakeInboundType DEF RegistryTimesOut
  <2>2. CASE ~TakeInbound
    BY <1>3, <2>2 DEF RegistryTimesOut, Positions
  <2> QED
    BY <2>1, <2>2
<1>4. CASE TurnBegins
  <2>1. CASE registry' = "turn" /\ UNCHANGED <<bus, dispVars, gateVars>>
    BY <1>4, <2>1 DEF TurnBegins, Positions
  <2>2. ASSUME ChannelOf[hand] \in Typing,
               RegistryPublishes([of |-> hand, answer |-> FALSE, blank |-> TRUE,
                                  to |-> ChannelOf[hand]], "turn")
        PROVE  TypeInv'
    <3>1. hand \in Messages /\ ChannelOf[hand] \in Channels
      BY <1>4 DEF TurnBegins
    <3>2. [of |-> hand, answer |-> FALSE, blank |-> TRUE, to |-> ChannelOf[hand]] \in Outs
      BY <3>1 DEF Outs
    <3>3. hand' \in Messages /\ said' \in 0..MaxSaid
      BY <1>4, <3>1 DEF TurnBegins
    <3> QED
      BY <1>4, <2>2, <3>2, <3>3, RegistryPublishesType DEF TurnBegins, RegistryPublishes
  <2> QED
    BY <1>4, <2>1, <2>2 DEF TurnBegins
<1>5. CASE DispatcherTests
  BY <1>5 DEF DispatcherTests, Positions
<1>6. CASE DispatcherChecks
  <2>1. CASE TakeOutbound
    BY <1>6, <2>1, TakeOutboundType DEF DispatcherChecks
  <2>2. CASE ~TakeOutbound
    BY <1>6, <2>2 DEF DispatcherChecks, Positions
  <2> QED
    BY <2>1, <2>2
<1>7. CASE DispatcherTimesOut
  <2>1. CASE TakeOutbound
    BY <1>7, <2>1, TakeOutboundType DEF DispatcherTimesOut
  <2>2. CASE ~TakeOutbound
    BY <1>7, <2>2 DEF DispatcherTimesOut, Positions
  <2> QED
    BY <2>1, <2>2
<1>8. CASE SendSucceeds
  <2>1. sending \in Positions /\ Positions' = Positions /\ UNCHANGED <<bus, regVars, gateVars>>
    BY <1>8 DEF SendSucceeds, Send, Positions
  <2> QED
    BY <1>8, <2>1 DEF SendSucceeds, Send
<1>9. CASE SendFails
  <2>1. sending \in Positions /\ Positions' = Positions /\ UNCHANGED <<bus, regVars, gateVars>>
    BY <1>9 DEF SendFails, Send, Positions
  <2> QED
    BY <1>9, <2>1 DEF SendFails, Send
<1>10. CASE AgentsStart
  BY <1>10 DEF AgentsStart, Positions
<1>11. CASE DispatcherStarts
  BY <1>11 DEF DispatcherStarts, Positions
<1>12. CASE GatewayRuns
  BY <1>12 DEF GatewayRuns, Positions
<1>13. CASE DispatcherJoined
  BY <1>13 DEF DispatcherJoined, Positions
<1>14. CASE AgentsStop
  BY <1>14 DEF AgentsStop, Positions
<1>15. CASE AgentsStopped
  BY <1>15 DEF AgentsStopped, Positions
<1>16. CASE StopBegins
  BY <1>16 DEF StopBegins, Positions
<1>17. CASE WakesUnasked
  BY <1>17 DEF WakesUnasked, Positions
<1>18. ASSUME NEW blank \in BOOLEAN, Answers(blank) PROVE TypeInv'
  <2>1. hand \in Messages
    BY <1>18 DEF Answers
  <2>2. [of |-> hand, answer |-> TRUE, blank |-> blank, to |-> ChannelOf[hand]] \in Outs
    BY <1>18, <2>1 DEF Outs
  <2> QED
    BY <1>18, <2>1, <2>2, RegistryPublishesType DEF Answers, RegistryPublishes
<1>19. ASSUME NEW c \in Channels, ChannelStarts(c) PROVE TypeInv'
  BY <1>19 DEF ChannelStarts, Positions
<1>20. ASSUME NEW c \in Channels, ChannelStops(c) PROVE TypeInv'
  BY <1>20 DEF ChannelStops, Positions
<1>21. ASSUME NEW c \in Channels \cup {None}, Says(c) PROVE TypeInv'
  <2>1. hand \in Messages
    BY <1>21 DEF Says
  <2>2. [of |-> hand, answer |-> FALSE, blank |-> FALSE, to |-> c] \in Outs
    BY <1>21, <2>1 DEF Outs
  <2>3. hand' \in Messages /\ said' \in 0..MaxSaid
    BY <1>21, <2>1 DEF Says
  <2> QED
    BY <1>21, <2>2, <2>3, RegistryPublishesType DEF Says, RegistryPublishes
<1>22. ASSUME NEW m \in Messages, PublishInbound(m) PROVE TypeInv'
  BY <1>22 DEF PublishInbound, Positions, NotifyOne
<1>23. ASSUME NEW n \in Notices, PublishNotice(n) PROVE TypeInv'
  <2>1. [of |-> n, answer |-> FALSE, blank |-> FALSE, to |-> ChannelOf[n]] \in Outs
    BY <1>23 DEF Outs
  <2>2. /\ published' \in Seq(Outs) /\ Positions \subseteq Positions'
        /\ outbound' \in Seq(Positions')
    BY <1>23, <2>1, PutType DEF PublishNotice
  <2> QED
    BY <1>23, <2>2 DEF PublishNotice, NotifyOne
<1>24. CASE UNCHANGED vars
  BY <1>24 DEF Positions
<1> QED
  BY <1>1, <1>2, <1>3, <1>4, <1>5, <1>6, <1>7, <1>8, <1>9, <1>10, <1>11, <1>12, <1>13, <1>14, <1>15, <1>16, <1>17, <1>18, <1>19, <1>20, <1>21, <1>22, <1>23, <1>24 DEF Next, RegistryNext, DispatcherNext, GatewayNext

----------------------------------------------------------------------------
(* The outbound queue and the dispatcher *)

\* A publication as the dispatcher sees it.
PublishesFor(out) ==
  /\ Put(out)
  /\ dispatcher' = dispatcher \/ (dispatcher = "asleep" /\ dispatcher' = "check")
  /\ UNCHANGED <<sending, settled, shown>>

\* A step that leaves the outbound queue and what is sent from it alone.
OutboundRests ==
  /\ (dispatcher' = "send") <=> (dispatcher = "send")
  /\ UNCHANGED <<outbound, published, sending, settled, shown>>

\* What a step can do to the outbound queue.
LEMMA OutboundCases ==
  ASSUME TypeInv, [Next]_vars
  PROVE  \/ \E out \in Outs : PublishesFor(out)
         \/ dispatcher # "send" /\ TakeOutbound
         \/ SendSucceeds \/ SendFails
         \/ OutboundRests
<1> USE DEF vars, bus, regVars, dispVars, gateVars
<1>1. CASE RegistryTests
  BY <1>1 DEF RegistryTests, OutboundRests
<1>2. CASE RegistryChecks
  BY <1>2 DEF RegistryChecks, OutboundRests, TakeInbound
<1>3. CASE RegistryTimesOut
  BY <1>3 DEF RegistryTimesOut, OutboundRests, TakeInbound
<1>4. CASE TurnBegins
  <2>1. CASE registry' = "turn" /\ UNCHANGED <<bus, dispVars, gateVars>>
    BY <2>1 DEF OutboundRests
  <2>2. CASE RegistryPublishes([of |-> hand, answer |-> FALSE, blank |-> TRUE,
                                to |-> ChannelOf[hand]], "turn")
    <3>1. hand \in Messages /\ ChannelOf[hand] \in Channels
      BY <1>4, DeliveryAssumption DEF TurnBegins, TypeInv, TypeOK, Busy
    <3>2. [of |-> hand, answer |-> FALSE, blank |-> TRUE, to |-> ChannelOf[hand]] \in Outs
      BY <3>1 DEF Outs
    <3>3. PublishesFor([of |-> hand, answer |-> FALSE, blank |-> TRUE,
                        to |-> ChannelOf[hand]])
      BY <2>2 DEF RegistryPublishes, Put, PublishesFor
    <3> QED
      BY <3>2, <3>3
  <2> QED
    BY <1>4, <2>1, <2>2 DEF TurnBegins
<1>5. CASE DispatcherTests
  BY <1>5 DEF DispatcherTests, OutboundRests
<1>6. CASE DispatcherChecks
  BY <1>6 DEF DispatcherChecks, OutboundRests
<1>7. CASE DispatcherTimesOut
  BY <1>7 DEF DispatcherTimesOut, OutboundRests
<1>8. CASE AgentsStart
  BY <1>8 DEF AgentsStart, OutboundRests
<1>9. CASE DispatcherStarts
  BY <1>9 DEF DispatcherStarts, OutboundRests, TypeInv, TypeOK
<1>10. CASE GatewayRuns
  BY <1>10 DEF GatewayRuns, OutboundRests
<1>11. CASE DispatcherJoined
  BY <1>11 DEF DispatcherJoined, OutboundRests
<1>12. CASE AgentsStop
  BY <1>12 DEF AgentsStop, OutboundRests
<1>13. CASE AgentsStopped
  BY <1>13 DEF AgentsStopped, OutboundRests
<1>14. CASE StopBegins
  BY <1>14 DEF StopBegins, OutboundRests
<1>15. CASE WakesUnasked
  BY <1>15 DEF WakesUnasked, OutboundRests
<1>16. ASSUME NEW blank \in BOOLEAN, Answers(blank)
      PROVE  \E out \in Outs : PublishesFor(out)
  <2>1. hand \in Messages /\ ChannelOf[hand] \in Channels
    BY <1>16, DeliveryAssumption DEF Answers, TypeInv, TypeOK, Busy
  <2>2. [of |-> hand, answer |-> TRUE, blank |-> blank, to |-> ChannelOf[hand]] \in Outs
    BY <1>16, <2>1 DEF Outs
  <2>3. PublishesFor([of |-> hand, answer |-> TRUE, blank |-> blank, to |-> ChannelOf[hand]])
    BY <1>16 DEF Answers, RegistryPublishes, Put, PublishesFor
  <2> QED
    BY <2>2, <2>3
<1>17. ASSUME NEW c \in Channels, ChannelStarts(c)
      PROVE  OutboundRests
  BY <1>17 DEF ChannelStarts, OutboundRests
<1>18. ASSUME NEW c \in Channels, ChannelStops(c)
      PROVE  OutboundRests
  BY <1>18 DEF ChannelStops, OutboundRests
<1>19. ASSUME NEW c \in Channels \cup {None}, Says(c)
      PROVE  \E out \in Outs : PublishesFor(out)
  <2>1. hand \in Messages /\ ChannelOf[hand] \in Channels
    BY <1>19, DeliveryAssumption DEF Says, TypeInv, TypeOK, Busy
  <2>2. [of |-> hand, answer |-> FALSE, blank |-> FALSE, to |-> c] \in Outs
    BY <1>19, <2>1 DEF Outs
  <2>3. PublishesFor([of |-> hand, answer |-> FALSE, blank |-> FALSE, to |-> c])
    BY <1>19 DEF Says, RegistryPublishes, Put, PublishesFor
  <2> QED
    BY <2>2, <2>3
<1>20. ASSUME NEW m \in Messages, PublishInbound(m)
      PROVE  OutboundRests
  BY <1>20 DEF PublishInbound, OutboundRests, NotifyOne
<1>21. ASSUME NEW n \in Notices, PublishNotice(n)
      PROVE  \E out \in Outs : PublishesFor(out)
  <2>1. [of |-> n, answer |-> FALSE, blank |-> FALSE, to |-> ChannelOf[n]] \in Outs
    BY <1>21, DeliveryAssumption DEF Outs
  <2>2. PublishesFor([of |-> n, answer |-> FALSE, blank |-> FALSE, to |-> ChannelOf[n]])
    BY <1>21 DEF PublishNotice, NotifyOne, Put, PublishesFor
  <2> QED
    BY <2>1, <2>2
<1>22. CASE UNCHANGED vars
  BY <1>22 DEF OutboundRests
<1> QED
  BY <1>1, <1>2, <1>3, <1>4, <1>5, <1>6, <1>7, <1>8, <1>9, <1>10, <1>11, <1>12, <1>13, <1>14, <1>15, <1>16, <1>17, <1>18, <1>19, <1>20, <1>21, <1>22 DEF Next, RegistryNext, DispatcherNext, GatewayNext

\* Every step keeps the outbound queue the untaken rest of what was published.
LEMMA OutboundStep ==
  ASSUME TypeInv, OutboundInv, [Next]_vars
  PROVE  OutboundInv'
<1> USE DEF OutboundInv, Taken
<1>0. /\ published \in Seq(Outs) /\ outbound \in Seq(Positions)
      /\ Positions = 1..Len(published) /\ sending \in Nat /\ shown \in Nat
  BY DEF TypeInv, TypeOK, Positions
<1>1. ASSUME NEW out \in Outs, PublishesFor(out)
      PROVE  OutboundInv'
  <2>1. /\ Len(published') = Len(published) + 1
        /\ Len(outbound') = Len(outbound) + 1
        /\ outbound'[Len(outbound')] = Len(published')
        /\ \A i \in 1..Len(outbound) : outbound'[i] = outbound[i]
        /\ \A i \in 1..Len(published) : published'[i] = published[i]
    BY <1>0, <1>1, PutType DEF PublishesFor
  <2>2. Len(published) \in Nat /\ Len(outbound) \in Nat
    BY <1>0
  <2>3. Taken' = Taken
    BY <2>1, <2>2
  <2>4. ASSUME NEW i \in 1..Len(outbound') PROVE outbound'[i] = Taken + i
    <3>1. CASE i = Len(outbound')
      BY <2>1, <2>2, <3>1
    <3>2. CASE i # Len(outbound')
      <4>1. i \in 1..Len(outbound)
        BY <2>1, <2>2, <3>2
      <4> QED
        BY <2>1, <4>1
    <3> QED
      BY <3>1, <3>2
  <2>5. dispatcher' = "send" => published'[sending'].to \in Channels
    BY <1>1, <2>1, <2>2 DEF PublishesFor
  <2> QED
    BY <1>1, <2>1, <2>2, <2>3, <2>4, <2>5 DEF PublishesFor
<1>2. CASE dispatcher # "send" /\ TakeOutbound
  <2>1. /\ outbound # <<>> /\ outbound' = Tail(outbound)
        /\ UNCHANGED <<published, shown>>
    BY <1>2 DEF TakeOutbound
  <2>2. /\ Head(outbound) = outbound[1] /\ Len(outbound) > 0
        /\ Len(outbound') = Len(outbound) - 1
        /\ \A i \in 1..Len(outbound') : outbound'[i] = outbound[i + 1]
    BY <1>0, <2>1, TailType
  <2>3. Len(published) \in Nat /\ Len(outbound) \in Nat
    BY <1>0
  <2>4. Taken' = Taken + 1 /\ Head(outbound) = Taken'
    BY <2>1, <2>2, <2>3
  <2>5. ASSUME NEW i \in 1..Len(outbound') PROVE outbound'[i] = Taken' + i
    <3>1. i + 1 \in 1..Len(outbound) /\ outbound'[i] = outbound[i + 1]
      BY <2>2, <2>3
    <3>2. outbound[i + 1] = Taken + (i + 1)
      BY <3>1
    <3>3. Taken \in Int /\ i \in Int
      BY <2>2, <2>3
    <3> HIDE DEF Taken
    <3> QED
      BY <2>4, <3>1, <3>2, <3>3
  <2>6. IF dispatcher' = "send"
        THEN /\ sending' = Taken' /\ published[sending'].to \in Channels
             /\ settled' = settled
        ELSE sending' = sending /\ settled' = settled \cup {Taken'}
    BY <1>2, <2>4 DEF TakeOutbound, Refused
  <2>7. settled = 1..Taken /\ sending = 0
    BY <1>2
  <2>8. settled' = 1..(IF dispatcher' = "send" THEN Taken' - 1 ELSE Taken')
    <3>1. Taken \in Nat /\ (1..Taken) \cup {Taken + 1} = 1..(Taken + 1)
      BY <2>3
    <3>2. CASE dispatcher' = "send"
      BY <2>4, <2>6, <2>7, <3>1, <3>2
    <3>3. CASE dispatcher' # "send"
      BY <2>4, <2>6, <2>7, <3>1, <3>3
    <3> QED
      BY <3>2, <3>3
  <2>9. Len(outbound') <= Len(published') /\ Taken' > 0 /\ shown' <= Taken'
    BY <1>0, <2>1, <2>2, <2>3, <2>4
  <2> QED
    BY <2>1, <2>5, <2>6, <2>7, <2>8, <2>9
<1>3. CASE SendSucceeds
  <2>1. /\ dispatcher = "send" /\ dispatcher' = "loop" /\ sending' = 0
        /\ settled' = settled \cup {sending} /\ shown' = sending
        /\ UNCHANGED <<outbound, published>>
    BY <1>3 DEF SendSucceeds, Send, bus
  <2>2. Taken \in Nat /\ Taken > 0 /\ Taken' = Taken
    BY <1>0, <2>1
  <2>3. (1..(Taken - 1)) \cup {Taken} = 1..Taken
    BY <2>2
  <2> QED
    BY <1>0, <2>1, <2>2, <2>3
<1>4. CASE SendFails
  <2>1. /\ dispatcher = "send" /\ shown' \in {sending, shown}
        /\ \/ dispatcher' = "send" /\ UNCHANGED <<settled, sending>>
           \/ /\ dispatcher' = "loop" /\ sending' = 0
              /\ settled' = settled \cup {sending}
        /\ UNCHANGED <<outbound, published>>
    BY <1>4 DEF SendFails, Send, bus
  <2>2. Taken \in Nat /\ Taken > 0 /\ Taken' = Taken
    BY <1>0, <2>1
  <2>3. (1..(Taken - 1)) \cup {Taken} = 1..Taken
    BY <2>2
  <2>4. sending = Taken /\ settled = 1..(Taken - 1) /\ shown <= Taken
    BY <2>1
  <2>5. CASE dispatcher' = "send"
    BY <1>0, <2>1, <2>2, <2>4, <2>5
  <2>6. CASE dispatcher' = "loop"
    <3>1. settled' = (1..(Taken - 1)) \cup {Taken} /\ sending' = 0
      BY <2>1, <2>4, <2>6
    <3>2. settled' = 1..Taken' /\ shown' <= Taken'
      BY <2>1, <2>2, <2>3, <2>4, <3>1
    <3> QED
      BY <1>0, <2>1, <2>6, <3>1, <3>2
  <2> QED
    BY <2>1, <2>5, <2>6
<1>5. CASE OutboundRests
  BY <1>5 DEF OutboundRests
<1> QED
  BY <1>1, <1>2, <1>3, <1>4, <1>5, OutboundCases

----------------------------------------------------------------------------
(* The inbound queue, the registry's thread and its answers *)

\* A step that leaves the inbound queue and its consumer's hand alone; what it
\* publishes is no answer.
InboundRests ==
  /\ UNCHANGED <<inbound, accepted, hand>> /\ (Busy' <=> Busy)
  /\ \/ UNCHANGED published
     \/ \E out \in Outs : ~out.answer /\ Put(out)

\* PublishInbound as the registry's thread sees it.
Accepts(m) ==
  /\ m \notin Range(accepted)
  /\ inbound' = Append(inbound, m) /\ accepted' = Append(accepted, m)
  /\ (Busy' <=> Busy) /\ UNCHANGED <<hand, published>>

\* The end of a turn.
EndsTurn(out) ==
  /\ Busy /\ ~Busy' /\ hand' = None
  /\ out.answer /\ out.of = hand /\ Put(out)
  /\ UNCHANGED <<inbound, accepted>>

\* What a step can do to the inbound queue and the answers.
LEMMA InboundCases ==
  ASSUME TypeInv, [Next]_vars
  PROVE  \/ \E m \in Messages : Accepts(m)
         \/ ~Busy /\ TakeInbound /\ Busy'
         \/ \E out \in Outs : EndsTurn(out)
         \/ InboundRests
<1> USE DEF vars, bus, regVars, dispVars, gateVars
<1>1. CASE RegistryTests
  BY <1>1 DEF RegistryTests, InboundRests, Busy
<1>2. CASE RegistryChecks
  <2>1. CASE TakeInbound
    BY <1>2, <2>1 DEF RegistryChecks, TakeInbound, Busy
  <2>2. CASE ~TakeInbound
    BY <1>2, <2>2 DEF RegistryChecks, InboundRests, Busy
  <2> QED
    BY <2>1, <2>2
<1>3. CASE RegistryTimesOut
  <2>1. CASE TakeInbound
    BY <1>3, <2>1 DEF RegistryTimesOut, TakeInbound, Busy
  <2>2. CASE ~TakeInbound
    BY <1>3, <2>2 DEF RegistryTimesOut, InboundRests, Busy
  <2> QED
    BY <2>1, <2>2
<1>4. CASE TurnBegins
  <2>1. CASE registry' = "turn" /\ UNCHANGED <<bus, dispVars, gateVars>>
    BY <1>4, <2>1 DEF TurnBegins, InboundRests, Busy
  <2>2. CASE /\ ChannelOf[hand] \in Typing
             /\ RegistryPublishes([of |-> hand, answer |-> FALSE, blank |-> TRUE,
                                   to |-> ChannelOf[hand]], "turn")
    <3>1. hand \in Messages /\ ChannelOf[hand] \in Channels
      BY <1>4, DeliveryAssumption DEF TurnBegins, TypeInv, TypeOK, Busy
    <3>2. [of |-> hand, answer |-> FALSE, blank |-> TRUE, to |-> ChannelOf[hand]] \in Outs
      BY <3>1 DEF Outs
    <3>3. \E out \in Outs : ~out.answer /\ Put(out)
      BY <2>2, <3>2 DEF RegistryPublishes
    <3> QED
      BY <1>4, <2>2, <3>3 DEF TurnBegins, RegistryPublishes, InboundRests, Busy
  <2> QED
    BY <1>4, <2>1, <2>2 DEF TurnBegins
<1>5. CASE DispatcherTests
  BY <1>5 DEF DispatcherTests, InboundRests, Busy
<1>6. CASE DispatcherChecks
  BY <1>6 DEF DispatcherChecks, InboundRests, Busy, TakeOutbound
<1>7. CASE DispatcherTimesOut
  BY <1>7 DEF DispatcherTimesOut, InboundRests, Busy, TakeOutbound
<1>8. CASE SendSucceeds
  BY <1>8 DEF SendSucceeds, InboundRests, Busy
<1>9. CASE SendFails
  BY <1>9 DEF SendFails, InboundRests, Busy
<1>10. CASE AgentsStart
  BY <1>10 DEF AgentsStart, InboundRests, Busy, TypeInv, TypeOK
<1>11. CASE DispatcherStarts
  BY <1>11 DEF DispatcherStarts, InboundRests, Busy
<1>12. CASE GatewayRuns
  BY <1>12 DEF GatewayRuns, InboundRests, Busy
<1>13. CASE DispatcherJoined
  BY <1>13 DEF DispatcherJoined, InboundRests, Busy
<1>14. CASE AgentsStop
  BY <1>14 DEF AgentsStop, InboundRests, Busy
<1>15. CASE AgentsStopped
  BY <1>15 DEF AgentsStopped, InboundRests, Busy
<1>16. CASE StopBegins
  BY <1>16 DEF StopBegins, InboundRests, Busy
<1>17. CASE WakesUnasked
  BY <1>17 DEF WakesUnasked, InboundRests, Busy
<1>18. ASSUME NEW blank \in BOOLEAN, Answers(blank)
      PROVE  \E out \in Outs : EndsTurn(out)
  <2> DEFINE out == [of |-> hand, answer |-> TRUE, blank |-> blank, to |-> ChannelOf[hand]]
  <2>1. hand \in Messages /\ ChannelOf[hand] \in Channels
    BY <1>18, DeliveryAssumption DEF Answers, TypeInv, TypeOK, Busy
  <2>2. out \in Outs
    BY <1>18, <2>1 DEF Outs
  <2>3. EndsTurn(out)
    BY <1>18 DEF Answers, RegistryPublishes, EndsTurn, Busy
  <2> QED
    BY <2>2, <2>3
<1>19. ASSUME NEW c \in Channels, ChannelStarts(c)
      PROVE  InboundRests
  BY <1>19 DEF ChannelStarts, InboundRests, Busy
<1>20. ASSUME NEW c \in Channels, ChannelStops(c)
      PROVE  InboundRests
  BY <1>20 DEF ChannelStops, InboundRests, Busy
<1>21. ASSUME NEW c \in Channels \cup {None}, Says(c)
      PROVE  InboundRests
  <2> DEFINE out == [of |-> hand, answer |-> FALSE, blank |-> FALSE, to |-> c]
  <2>1. hand \in Messages
    BY <1>21 DEF Says, TypeInv, TypeOK, Busy
  <2>2. out \in Outs /\ ~out.answer /\ Put(out)
    BY <1>21, <2>1 DEF Outs, Says, RegistryPublishes
  <2>3. \E o \in Outs : ~o.answer /\ Put(o)
    BY <2>2
  <2> QED
    BY <1>21, <2>3 DEF Says, RegistryPublishes, InboundRests, Busy
<1>22. ASSUME NEW m \in Messages, PublishInbound(m)
      PROVE  Accepts(m)
  BY <1>22 DEF PublishInbound, InboundRests, NotifyOne, Accepts, Busy
<1>23. ASSUME NEW n \in Notices, PublishNotice(n)
      PROVE  InboundRests
  <2> DEFINE out == [of |-> n, answer |-> FALSE, blank |-> FALSE, to |-> ChannelOf[n]]
  <2>1. out \in Outs /\ ~out.answer /\ Put(out)
    BY <1>23, DeliveryAssumption DEF Outs, PublishNotice
  <2>2. \E o \in Outs : ~o.answer /\ Put(o)
    BY <2>1
  <2> QED
    BY <1>23, <2>2 DEF PublishNotice, NotifyOne, InboundRests, Busy
<1>24. CASE UNCHANGED vars
  BY <1>24 DEF InboundRests, Busy
<1> QED
  BY <1>1, <1>2, <1>3, <1>4, <1>5, <1>6, <1>7, <1>8, <1>9, <1>10, <1>11, <1>12, <1>13, <1>14, <1>15, <1>16, <1>17, <1>18, <1>19, <1>20, <1>21, <1>22, <1>23, <1>24 DEF Next, RegistryNext, DispatcherNext, GatewayNext

\* Every step keeps the inbound queue the untaken rest of what was accepted.
LEMMA InboundStep ==
  ASSUME TypeInv, InboundInv, [Next]_vars
  PROVE  InboundInv'
<1> USE DEF InboundInv, Handled
<1>0. /\ accepted \in Seq(Messages) /\ inbound \in Seq(Messages)
      /\ Len(accepted) \in Nat /\ Len(inbound) \in Nat
  BY DEF TypeInv, TypeOK
<1>1. ASSUME NEW m \in Messages, Accepts(m)
      PROVE  InboundInv'
  <2>1. /\ Len(accepted') = Len(accepted) + 1 /\ accepted'[Len(accepted')] = m
        /\ \A i \in 1..Len(accepted) : accepted'[i] = accepted[i]
        /\ Len(inbound') = Len(inbound) + 1 /\ inbound'[Len(inbound')] = m
        /\ \A i \in 1..Len(inbound) : inbound'[i] = inbound[i]
    BY <1>0, <1>1 DEF Accepts
  <2>2. Handled' = Handled /\ Handled \in Nat /\ Handled <= Len(accepted)
    BY <1>0, <2>1
  <2>3. ASSUME NEW i \in 1..Len(inbound') PROVE inbound'[i] = accepted'[Handled' + i]
    <3>1. CASE i = Len(inbound')
      BY <1>0, <2>1, <2>2, <3>1
    <3>2. CASE i # Len(inbound')
      <4>1. i \in 1..Len(inbound) /\ Handled + i \in 1..Len(accepted)
        BY <1>0, <2>1, <2>2, <3>2
      <4>2. inbound[i] = accepted[Handled + i]
        BY <4>1
      <4> QED
        BY <2>1, <2>2, <4>1, <4>2
    <3> QED
      BY <3>1, <3>2
  <2>4. \A i \in 1..Len(accepted) : accepted[i] # m
    BY <1>0, <1>1 DEF Accepts, Range
  <2>5. \A i, j \in 1..Len(accepted') : accepted'[i] = accepted'[j] => i = j
    <3> SUFFICES ASSUME NEW i \in 1..Len(accepted'), NEW j \in 1..Len(accepted'),
                        accepted'[i] = accepted'[j]
                 PROVE  i = j
      OBVIOUS
    <3>1. CASE i \in 1..Len(accepted) /\ j \in 1..Len(accepted)
      BY <2>1, <3>1
    <3>2. CASE i \notin 1..Len(accepted) \/ j \notin 1..Len(accepted)
      BY <1>0, <2>1, <2>4, <3>2
    <3> QED
      BY <3>1, <3>2
  <2>6. IF Busy' THEN Handled' > 0 /\ hand' = accepted'[Handled'] ELSE hand' = None
    BY <1>1, <2>1, <2>2 DEF Accepts
  <2> QED
    BY <1>0, <2>1, <2>3, <2>5, <2>6
<1>2. CASE ~Busy /\ TakeInbound /\ Busy'
  <2>1. /\ inbound # <<>> /\ inbound' = Tail(inbound)
        /\ hand' = Head(inbound) /\ accepted' = accepted
    BY <1>2 DEF TakeInbound
  <2>2. /\ Head(inbound) = inbound[1] /\ Len(inbound) > 0
        /\ Len(inbound') = Len(inbound) - 1
        /\ \A i \in 1..Len(inbound') : inbound'[i] = inbound[i + 1]
    BY <1>0, <2>1, TailType
  <2>3. Handled' = Handled + 1 /\ Handled \in Nat
    BY <1>0, <2>1, <2>2
  <2>4. ASSUME NEW i \in 1..Len(inbound') PROVE inbound'[i] = accepted'[Handled' + i]
    <3>1. i + 1 \in 1..Len(inbound) /\ inbound'[i] = inbound[i + 1]
      BY <1>0, <2>2
    <3>2. inbound[i + 1] = accepted[Handled + (i + 1)]
      BY <3>1
    <3> i \in Int
      BY <1>0, <2>2
    <3> HIDE DEF Handled, InboundInv
    <3>3. Handled + (i + 1) = Handled' + i
      BY <2>3
    <3> QED
      BY <2>1, <3>1, <3>2, <3>3
  <2>5. hand' = accepted'[Handled']
    BY <2>1, <2>2, <2>3
  <2> QED
    BY <1>0, <1>2, <2>1, <2>2, <2>3, <2>4, <2>5
<1>3. ASSUME NEW out \in Outs, EndsTurn(out)
      PROVE  InboundInv'
  BY <1>3 DEF EndsTurn
<1>4. CASE InboundRests
  BY <1>4 DEF InboundRests
<1> QED
  BY <1>1, <1>2, <1>3, <1>4, InboundCases

\* Every step keeps one answer for each finished message, in their order.
LEMMA AnswersStep ==
  ASSUME TypeInv, InboundInv, AnswersInv, [Next]_vars
  PROVE  AnswersInv'
<1>0. /\ accepted \in Seq(Messages) /\ inbound \in Seq(Messages)
      /\ published \in Seq(Outs) /\ outbound \in Seq(Positions)
      /\ Len(accepted) \in Nat /\ Len(inbound) \in Nat /\ Len(published) \in Nat
      /\ Positions = 1..Len(published) /\ DOMAIN accepted = 1..Len(accepted)
  BY DEF TypeInv, TypeOK, Positions
<1>00. Handled \in 0..Len(accepted) /\ Finished \in 0..Len(accepted)
  BY <1>0 DEF InboundInv, Handled, Finished
<1>n. InboundInv' /\ TypeInv'
  BY InboundStep, TypeStep
<1>d. /\ DOMAIN accepted' = 1..Len(accepted') /\ Positions' = 1..Len(published')
      /\ \A a, b \in 1..Len(accepted') : accepted'[a] = accepted'[b] => a = b
      /\ Len(accepted') \in Nat /\ Len(published') \in Nat
  BY <1>n DEF InboundInv, TypeInv, TypeOK, Positions
<1>o. \A i, j \in 1..Len(published), a, b \in 1..Len(accepted) :
        (/\ published[i].answer /\ published[i].of = accepted[a]
         /\ published[j].answer /\ published[j].of = accepted[b] /\ i < j) => a < b
  <2>1. AnswersInOrder
    BY DEF AnswersInv
  <2>2. \A i, j \in Positions, a, b \in DOMAIN accepted :
          /\ published[i].answer /\ published[i].of = accepted[a]
          /\ published[j].answer /\ published[j].of = accepted[b]
          /\ i < j
          => a < b
    BY <2>1 DEF AnswersInOrder
  <2> QED
    BY <1>0, <2>2
<1> USE DEF AnswersInv
<1>1. ASSUME NEW m \in Messages, Accepts(m)
      PROVE  AnswersInv'
  <2>1. /\ Len(accepted') = Len(accepted) + 1 /\ published' = published
        /\ \A i \in 1..Len(accepted) : accepted'[i] = accepted[i]
    BY <1>0, <1>1 DEF Accepts
  <2>2. Finished' = Finished
    BY <1>0, <1>1, <2>1 DEF Finished, Handled, Accepts
  <2>3. \A k \in 1..Finished : accepted'[k] = accepted[k] /\ k \in 1..Len(accepted)
    BY <1>0, <1>00, <2>1
  <2>4. AnswersInOrder'
    <3> SUFFICES ASSUME NEW i \in 1..Len(published), NEW j \in 1..Len(published),
                        NEW a \in 1..Len(accepted'), NEW b \in 1..Len(accepted'),
                        published[i].answer, published[i].of = accepted'[a],
                        published[j].answer, published[j].of = accepted'[b], i < j
                 PROVE  a < b
      BY <1>d, <2>1 DEF AnswersInOrder
    <3>1. PICK k \in 1..Finished : accepted[k] = published[i].of
      OBVIOUS
    <3>2. PICK l \in 1..Finished : accepted[l] = published[j].of
      OBVIOUS
    <3>3. k \in 1..Len(accepted') /\ l \in 1..Len(accepted')
      BY <1>0, <2>1, <2>3, <3>1, <3>2
    <3>4. a = k /\ b = l
      BY <1>d, <2>3, <3>1, <3>2, <3>3
    <3> QED
      BY <1>o, <2>3, <3>1, <3>2, <3>4
  <2> QED
    BY <2>1, <2>2, <2>3, <2>4
<1>2. CASE ~Busy /\ TakeInbound /\ Busy'
  <2>1. /\ accepted' = accepted /\ published' = published
        /\ inbound # <<>> /\ inbound' = Tail(inbound)
    BY <1>2 DEF TakeInbound
  <2>2. Len(inbound') = Len(inbound) - 1
    BY <1>0, <2>1, TailType
  <2>3. Finished' = Finished
    BY <1>0, <1>2, <2>1, <2>2 DEF Finished, Handled
  <2> QED
    BY <2>1, <2>3 DEF AnswersInOrder, Positions
<1>3. ASSUME NEW out \in Outs, EndsTurn(out)
      PROVE  AnswersInv'
  <2>1. /\ accepted' = accepted /\ inbound' = inbound
        /\ out.answer /\ out.of = accepted[Handled] /\ Handled > 0
        /\ Finished = Handled - 1 /\ Finished' = Handled
    BY <1>3 DEF EndsTurn, InboundInv, Finished, Handled
  <2>2. /\ Len(published') = Len(published) + 1 /\ published'[Len(published')] = out
        /\ \A i \in 1..Len(published) : published'[i] = published[i]
    BY <1>0, <1>3, PutType DEF EndsTurn
  <2>3. \A i \in 1..Len(published') : i \in 1..Len(published) \/ i = Len(published')
    BY <1>0, <2>2
  <2>4. \A i \in 1..Len(published) : published[i].answer => published[i].of # out.of
    <3> SUFFICES ASSUME NEW i \in 1..Len(published), published[i].answer
                 PROVE  published[i].of # accepted[Handled]
      BY <2>1
    <3>1. PICK k \in 1..Finished : accepted[k] = published[i].of
      OBVIOUS
    <3>2. k \in 1..Len(accepted) /\ Handled \in 1..Len(accepted) /\ k # Handled
      BY <1>0, <1>00, <2>1, <3>1
    <3> QED
      BY <3>1, <3>2 DEF InboundInv
  <2>5. ASSUME NEW i \in 1..Len(published'), published'[i].answer
        PROVE  \E k \in 1..Finished' : accepted'[k] = published'[i].of
    <3>1. CASE i = Len(published')
      BY <1>00, <2>1, <2>2, <3>1
    <3>2. CASE i \in 1..Len(published)
      <4>1. PICK k \in 1..Finished : accepted[k] = published[i].of
        BY <2>2, <2>5, <3>2
      <4>2. k \in 1..Finished'
        BY <1>00, <2>1
      <4> QED
        BY <2>1, <2>2, <3>2, <4>1, <4>2
    <3> QED
      BY <2>3, <3>1, <3>2
  <2>6. ASSUME NEW k \in 1..Finished'
        PROVE  \E i \in 1..Len(published') :
                 published'[i].answer /\ published'[i].of = accepted'[k]
    <3>1. CASE k = Handled
      BY <1>0, <2>1, <2>2, <3>1
    <3>2. CASE k # Handled
      <4>1. k \in 1..Finished
        BY <1>00, <2>1, <3>2
      <4>2. PICK i \in 1..Len(published) :
              published[i].answer /\ published[i].of = accepted[k]
        BY <4>1
      <4>3. i \in 1..Len(published')
        BY <1>0, <2>2
      <4> QED
        BY <2>1, <2>2, <4>2, <4>3
    <3> QED
      BY <3>1, <3>2
  <2>7. \A i, j \in 1..Len(published') :
          (/\ published'[i].answer /\ published'[j].answer
           /\ published'[i].of = published'[j].of) => i = j
    BY <2>2, <2>3, <2>4
  <2>8. AnswersInOrder'
    <3> SUFFICES ASSUME NEW i \in 1..Len(published'), NEW j \in 1..Len(published'),
                        NEW a \in 1..Len(accepted), NEW b \in 1..Len(accepted),
                        published'[i].answer, published'[i].of = accepted[a],
                        published'[j].answer, published'[j].of = accepted[b], i < j
                 PROVE  a < b
      BY <1>d, <2>1 DEF AnswersInOrder
    <3>1. i \in 1..Len(published)
      BY <1>0, <2>2
    <3>2. CASE j \in 1..Len(published)
      BY <1>o, <2>2, <3>1, <3>2
    <3>3. CASE j = Len(published')
      <4>1. PICK k \in 1..Finished : accepted[k] = published[i].of
        BY <2>2, <3>1
      <4>2. k \in 1..Len(accepted) /\ Handled \in 1..Len(accepted) /\ k < Handled
        BY <1>0, <1>00, <2>1
      <4>3. accepted[a] = accepted[k] /\ accepted[b] = accepted[Handled]
        BY <2>1, <2>2, <3>1, <3>3, <4>1
      <4>4. a = k /\ b = Handled
        BY <4>2, <4>3 DEF InboundInv
      <4> QED
        BY <4>2, <4>4
    <3> QED
      BY <2>3, <3>2, <3>3
  <2> QED
    BY <2>5, <2>6, <2>7, <2>8
<1>4. CASE InboundRests
  <2>1. accepted' = accepted /\ Finished' = Finished
    BY <1>4 DEF InboundRests, Finished, Handled
  <2>2. CASE UNCHANGED published
    BY <2>1, <2>2 DEF AnswersInOrder, Positions
  <2>3. ASSUME NEW out \in Outs, ~out.answer, Put(out)
        PROVE  AnswersInv'
    <3>1. /\ Len(published') = Len(published) + 1 /\ published'[Len(published')] = out
          /\ \A i \in 1..Len(published) : published'[i] = published[i]
      BY <1>0, <2>3, PutType
    <3>2. \A i \in 1..Len(published') : published'[i].answer =>
            i \in 1..Len(published) /\ published'[i] = published[i]
      BY <1>0, <2>3, <3>1
    <3>3. \A k \in 1..Finished : \E i \in 1..Len(published') :
            published'[i].answer /\ published'[i].of = accepted[k]
      <4> SUFFICES ASSUME NEW k \in 1..Finished
                   PROVE  \E i \in 1..Len(published') :
                            published'[i].answer /\ published'[i].of = accepted[k]
        OBVIOUS
      <4>1. PICK i \in 1..Len(published) :
              published[i].answer /\ published[i].of = accepted[k]
        OBVIOUS
      <4>2. i \in 1..Len(published')
        BY <1>0, <3>1
      <4> QED
        BY <3>1, <4>1, <4>2
    <3>4. AnswersInOrder'
      <4> SUFFICES ASSUME NEW i \in 1..Len(published'), NEW j \in 1..Len(published'),
                          NEW a \in 1..Len(accepted), NEW b \in 1..Len(accepted),
                          published'[i].answer, published'[i].of = accepted[a],
                          published'[j].answer, published'[j].of = accepted[b], i < j
                   PROVE  a < b
        BY <1>d, <2>1 DEF AnswersInOrder
      <4>1. /\ i \in 1..Len(published) /\ published'[i] = published[i]
            /\ j \in 1..Len(published) /\ published'[j] = published[j]
        BY <3>2
      <4> HIDE DEF AnswersInv
      <4> QED
        BY <1>o, <4>1
    <3> QED
      BY <2>1, <3>2, <3>3, <3>4
  <2> QED
    BY <1>4, <2>2, <2>3 DEF InboundRests
<1> QED
  BY <1>1, <1>2, <1>3, <1>4, InboundCases

----------------------------------------------------------------------------
(* Start and stop *)

\* Every step keeps the order of the stop.
LEMMA StopStep ==
  ASSUME TypeInv, StopInv, [Next]_vars
  PROVE  StopInv'
<1> USE DEF TypeInv, TypeOK, StopInv, vars, bus, regVars, dispVars, gateVars
<1>1. CASE RegistryTests
  BY <1>1 DEF RegistryTests
<1>2. CASE RegistryChecks
  BY <1>2 DEF RegistryChecks, TakeInbound
<1>3. CASE RegistryTimesOut
  BY <1>3 DEF RegistryTimesOut, TakeInbound
<1>4. CASE TurnBegins
  BY <1>4 DEF TurnBegins, RegistryPublishes
<1>5. CASE DispatcherTests
  BY <1>5 DEF DispatcherTests
<1>6. CASE DispatcherChecks
  BY <1>6 DEF DispatcherChecks, TakeOutbound
<1>7. CASE DispatcherTimesOut
  BY <1>7 DEF DispatcherTimesOut, TakeOutbound
<1>8. CASE SendSucceeds
  BY <1>8 DEF SendSucceeds, Send
<1>9. CASE SendFails
  BY <1>9 DEF SendFails, Send
<1>10. CASE AgentsStart
  BY <1>10 DEF AgentsStart
<1>11. CASE DispatcherStarts
  BY <1>11 DEF DispatcherStarts
<1>12. CASE GatewayRuns
  BY <1>12 DEF GatewayRuns
<1>13. CASE DispatcherJoined
  BY <1>13 DEF DispatcherJoined
<1>14. CASE AgentsStop
  BY <1>14 DEF AgentsStop
<1>15. CASE AgentsStopped
  BY <1>15 DEF AgentsStopped
<1>16. CASE StopBegins
  BY <1>16 DEF StopBegins
<1>17. CASE WakesUnasked
  BY <1>17 DEF WakesUnasked
<1>18. ASSUME NEW blank \in BOOLEAN, Answers(blank) PROVE StopInv'
  BY <1>18 DEF Answers, RegistryPublishes
<1>19. ASSUME NEW c \in Channels, ChannelStarts(c) PROVE StopInv'
  BY <1>19 DEF ChannelStarts
<1>20. ASSUME NEW c \in Channels, ChannelStops(c) PROVE StopInv'
  BY <1>20 DEF ChannelStops
<1>21. ASSUME NEW c \in Channels \cup {None}, Says(c) PROVE StopInv'
  BY <1>21 DEF Says, RegistryPublishes
<1>22. ASSUME NEW m \in Messages, PublishInbound(m) PROVE StopInv'
  BY <1>22 DEF PublishInbound, NotifyOne
<1>23. ASSUME NEW n \in Notices, PublishNotice(n) PROVE StopInv'
  BY <1>23 DEF PublishNotice, NotifyOne
<1>24. CASE UNCHANGED vars
  BY <1>24
<1> QED
  BY <1>1, <1>2, <1>3, <1>4, <1>5, <1>6, <1>7, <1>8, <1>9, <1>10, <1>11, <1>12, <1>13, <1>14, <1>15, <1>16, <1>17, <1>18, <1>19, <1>20, <1>21, <1>22, <1>23, <1>24 DEF Next, RegistryNext, DispatcherNext, GatewayNext

----------------------------------------------------------------------------
(* The theorems *)

\* The inductive invariant holds: queues, histories, hands and the phases of
\* start and stop always fit together.
THEOREM AlwaysSound == Spec => []Inv
<1>1. Init => Inv
  <2> SUFFICES ASSUME Init PROVE Inv
    OBVIOUS
  <2>1. TypeInv
    BY TypeInit
  <2>2. OutboundInv /\ InboundInv /\ StopInv
    BY DEF Init, OutboundInv, InboundInv, StopInv, Taken, Handled, Busy
  <2>3. AnswersInv
    BY DEF Init, AnswersInv, AnswersInOrder, Positions, Finished, Handled, Busy
  <2> QED
    BY <2>1, <2>2, <2>3 DEF Inv
<1>2. Inv /\ [Next]_vars => Inv'
  BY TypeStep, OutboundStep, InboundStep, AnswersStep, StopStep DEF Inv
<1> QED
  BY <1>1, <1>2, PTL DEF Spec

\* Type correctness, for any number of channels, messages and attempts: no
\* message is tried more often than kMaxSendAttempts.
THEOREM TypesHold == Spec => []TypeOK
<1>1. Inv => TypeOK
  BY DEF Inv, TypeInv
<1> QED
  BY <1>1, AlwaysSound, PTL

\* StopAll never stops a channel under a running Send.
THEOREM StopsSafely == Spec => []NoSendAfterStop
<1>1. Inv => NoSendAfterStop
  BY DEF Inv, OutboundInv, StopInv, NoSendAfterStop
<1> QED
  BY <1>1, AlwaysSound, PTL

\* Answers are published in the order in which the messages came in.
THEOREM KeepsOrder == Spec => []AnswersInOrder
<1>1. Inv => AnswersInOrder
  BY DEF Inv, AnswersInv
<1> QED
  BY <1>1, AlwaysSound, PTL

\* What users see never goes back to an older message, whatever is repeated.
THEOREM ShowsInOrder == Spec => ShownInOrder
<1>1. Inv /\ [Next]_vars => shown' >= shown \/ shown' = shown
  <2> SUFFICES ASSUME Inv, [Next]_vars PROVE shown' >= shown \/ shown' = shown
    OBVIOUS
  <2>1. TypeInv /\ OutboundInv
    BY DEF Inv
  <2>2. CASE SendSucceeds \/ SendFails
    <3>1. dispatcher = "send" /\ shown' \in {sending, shown}
      BY <2>2 DEF SendSucceeds, SendFails, Send
    <3>2. sending >= shown
      BY <2>1, <3>1 DEF OutboundInv
    <3> QED
      BY <3>1, <3>2
  <2>4. CASE \E out \in Outs : PublishesFor(out)
    BY <2>4 DEF PublishesFor
  <2>5. CASE TakeOutbound
    BY <2>5 DEF TakeOutbound
  <2>6. CASE OutboundRests
    BY <2>6 DEF OutboundRests
  <2> QED
    BY <2>1, <2>2, <2>4, <2>5, <2>6, OutboundCases
<1>2. Inv /\ [Next]_vars => [shown' >= shown]_shown
  BY <1>1
<1> QED
  BY <1>2, AlwaysSound, PTL DEF Spec, ShownInOrder

\* The elements of a queue that are equal to x.
LEMMA OccursOnce ==
  ASSUME NEW q, NEW x, NEW k \in DOMAIN q, q[k] = x,
         \A i \in DOMAIN q : q[i] = x => i = k
  PROVE  Occurrences(x, q) = 1
<1>1. {i \in DOMAIN q : q[i] = x} = {k}
  OBVIOUS
<1> QED
  BY <1>1, FS_Singleton DEF Occurrences

\* And when there is none.
LEMMA OccursNot ==
  ASSUME NEW q, NEW x, \A i \in DOMAIN q : q[i] # x
  PROVE  Occurrences(x, q) = 0
<1>1. {i \in DOMAIN q : q[i] = x} = {}
  OBVIOUS
<1> QED
  BY <1>1, FS_EmptySet DEF Occurrences

\* No message is lost or doubled: what a user wrote is queued, in hand or
\* answered, and what is published is queued, being sent or settled.
THEOREM NothingLost == Spec => []OnePlace
<1>1. ASSUME Inv PROVE OnePlace
  <2>0. TypeInv /\ OutboundInv /\ InboundInv /\ AnswersInv
    BY <1>1 DEF Inv
  <2>t. /\ DOMAIN inbound = 1..Len(inbound) /\ Len(inbound) \in Nat
        /\ DOMAIN outbound = 1..Len(outbound) /\ Len(outbound) \in Nat
        /\ DOMAIN accepted = 1..Len(accepted) /\ Len(accepted) \in Nat
        /\ Positions = 1..Len(published) /\ Len(published) \in Nat
        /\ accepted \in Seq(Messages)
    BY <2>0 DEF TypeInv, TypeOK, Positions
  <2>1. ASSUME NEW i \in Positions
        PROVE  Occurrences(i, outbound) + Bit(sending = i) + Bit(i \in settled) = 1
    <3>1. i \in Nat /\ i > 0 /\ Taken \in Nat
      BY <2>0, <2>t DEF OutboundInv, Taken
    <3>2. \A k \in 1..Len(outbound) : outbound[k] = Taken + k
      BY <2>0 DEF OutboundInv
    <3>3. CASE i > Taken
      <4>1. i - Taken \in 1..Len(outbound)
        BY <2>t, <3>1, <3>3 DEF Taken
      <4>2. outbound[i - Taken] = i
        BY <3>1, <3>2, <4>1
      <4>3. \A k \in DOMAIN outbound : outbound[k] = i => k = i - Taken
        BY <2>t, <3>1, <3>2
      <4>4. Occurrences(i, outbound) = 1
        BY <2>t, <4>1, <4>2, <4>3, OccursOnce
      <4>5. sending # i /\ i \notin settled
        BY <2>0, <3>1, <3>3 DEF OutboundInv
      <4> QED
        BY <4>4, <4>5 DEF Bit
    <3>4. CASE i <= Taken
      <4>1. Occurrences(i, outbound) = 0
        BY <2>t, <3>1, <3>2, <3>4, OccursNot
      <4>2. (sending = i) <=> ~(i \in settled)
        BY <2>0, <3>1, <3>4 DEF OutboundInv
      <4> QED
        BY <4>1, <4>2 DEF Bit
    <3> QED
      BY <2>t, <3>1, <3>3, <3>4
  <2>2. ASSUME NEW m \in Range(accepted)
        PROVE  Occurrences(m, inbound) + Bit(hand = m) + Cardinality(AnswersTo(m)) = 1
    <3>1. PICK a \in 1..Len(accepted) : accepted[a] = m
      BY <2>t DEF Range
    <3>2. /\ Handled \in Nat /\ Finished \in Nat
          /\ \A k \in 1..Len(inbound) : inbound[k] = accepted[Handled + k]
          /\ \A i, j \in 1..Len(accepted) : accepted[i] = accepted[j] => i = j
          /\ None \notin Messages /\ m \in Messages
      BY <2>0, <2>t, <3>1, DeliveryAssumption DEF InboundInv, Handled, Finished
    <3>3. \A k \in 1..Len(inbound) : Handled + k \in 1..Len(accepted)
      BY <2>t, <3>2 DEF Handled
    <3>4. Occurrences(m, inbound) = IF a > Handled THEN 1 ELSE 0
      <4>1. CASE a > Handled
        <5>1. a - Handled \in 1..Len(inbound)
          BY <2>t, <3>2, <4>1 DEF Handled
        <5>2. inbound[a - Handled] = m
          BY <3>1, <3>2, <5>1
        <5>3. \A k \in DOMAIN inbound : inbound[k] = m => k = a - Handled
          BY <2>t, <3>1, <3>2, <3>3
        <5> QED
          BY <2>t, <4>1, <5>1, <5>2, <5>3, OccursOnce
      <4>2. CASE ~(a > Handled)
        <5>1. \A k \in DOMAIN inbound : inbound[k] # m
          BY <2>t, <3>1, <3>2, <3>3, <4>2
        <5> QED
          BY <4>2, <5>1, OccursNot
      <4> QED
        BY <4>1, <4>2
    <3>5. (hand = m) <=> Busy /\ a = Handled
      <4>1. CASE Busy
        <5>1. hand = accepted[Handled] /\ Handled \in 1..Len(accepted)
          BY <2>0, <2>t, <3>2, <4>1 DEF InboundInv, Handled
        <5> QED
          BY <3>1, <3>2, <4>1, <5>1
      <4>2. CASE ~Busy
        <5>1. hand = None
          BY <2>0, <4>2 DEF InboundInv
        <5> QED
          BY <3>2, <4>2, <5>1
      <4> QED
        BY <4>1, <4>2
    <3>6. Cardinality(AnswersTo(m)) = IF a <= Finished THEN 1 ELSE 0
      <4>1. CASE a <= Finished
        <5>1. PICK i \in 1..Len(published) :
                published[i].answer /\ published[i].of = m
          BY <2>0, <2>t, <3>1, <3>2, <4>1 DEF AnswersInv
        <5>2. AnswersTo(m) = {i}
          BY <2>0, <2>t, <5>1 DEF AnswersInv, AnswersTo
        <5> QED
          BY <4>1, <5>2, FS_Singleton
      <4>2. CASE ~(a <= Finished)
        <5>1. AnswersTo(m) = {}
          <6> SUFFICES ASSUME NEW i \in 1..Len(published),
                              published[i].answer, published[i].of = m
                       PROVE  FALSE
            BY <2>t DEF AnswersTo
          <6>1. PICK k \in 1..Finished : accepted[k] = m
            BY <2>0 DEF AnswersInv
          <6>2. k \in 1..Len(accepted)
            BY <2>0, <2>t, <3>2 DEF InboundInv, Handled, Finished
          <6> QED
            BY <3>1, <3>2, <4>2, <6>1, <6>2
        <5> QED
          BY <4>2, <5>1, FS_EmptySet
      <4> QED
        BY <4>1, <4>2
    <3> QED
      BY <2>t, <3>2, <3>4, <3>5, <3>6 DEF Bit, Finished
  <2> QED
    BY <2>1, <2>2 DEF OnePlace
<1> QED
  BY <1>1, AlwaysSound, PTL

=============================================================================
